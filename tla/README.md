# Verification of swm-sched

TLA+ models, TLC runs and TLAPS proofs about swm-sched, the scheduling daemon of
Sky Port.  The daemon reads commands from a stream, runs scheduling algorithms
(plugins) in chains, one thread per chain, and writes timetables back.  Modelled
are its concurrent core - queues, chains, the controllers of chains, the threads
between the streams -, the scheduling algorithm of its FCFS plugin, the figures
its threads keep, and the program on one command after the other, from the
command line to what is written.

## The system

```
 stdin -> Receiver -> in_queue -> Processor -> ChainController -> Chain -> Algorithm -> plugin
                                     |         (one per chain)   (one thread)
 stdout <- Sender <- out_queue <-----+---------------+
```

| component (source under `src/src`) | state | operations | interacts through |
|---|---|---|---|
| `MyQueue` (`auxl/my_queue.h`) | ring buffer, size, position, spin lock | `push`, `pop`, `try_peek`, `element_count` | shared by Receiver, Processor, controllers, Sender |
| `Receiver` (`ctrl/receiver.cpp`) | `closed_`, `finished_`, stream | worker loop: read, parse, push | pushes commands; a broken stream ends it |
| `Processor` (`ctrl/processor.cpp`) | map of controllers, `closed_` | dispatches commands, reaps finished controllers | pops commands, calls controllers, pushes responses |
| `ChainController` (`chn/chain_controller.cpp`) | queue of requests, `stopped_`, `finished_`, exchange stage and target, spin lock | `invoke_exchange/interrupt/stats`, worker loop, final report | called by Processor; polls its chain; reads its peer's fields; callbacks push responses |
| `Chain` (`chn/chain.cpp`) | status, pending asynchronous operation, actual, intermediate and injected timetables, spin lock | worker loop over the algorithms, `interrupt_async`, `inject_timetable_async`, `ready_for_async_operation`, destructor | called by one master thread; called back by the plugin |
| `Algorithm` (`alg/algorithm.cpp`) | plugin context | `create_timetable`, `improve_timetable` | called by the chain's worker |
| FCFS plugin (`plugin-lib/fcfs_implementation.cpp`) | nodes with the time they are free, current gang | `schedule` | called by the plugin's `create` |
| `ExtendedRH` (`plugin-lib/extended_rh.cpp`), `SchedulingInfo`, `TimetableInfo` | the relations of nodes, partitions and clusters; decoded entities | `init`, look-ups | read by the plugins |
| `Sender` (`ctrl/sender.cpp`), `Service` (`ctrl/service.cpp`) | `closed_`; sizes, timeout | worker loop; start and shutdown order | |
| `TimeCounter`, `Metrics`, `MetricsSnapshot` (`auxl`, `chn`) | per-thread clocks, counters | on, off, reset, read | used by every thread that handles a request |
| `AlgorithmFactory`, `LibBinding` (`alg`) | the open libraries with their descriptors | `load_plugins`, `create`, destructors | filled by `main()`, read by Processor; contexts and timetables are made by a library's code |
| commands, responses (`ctrl/commands.cpp`, `responses.cpp`) | the entities of a command; the term of a result | `init`, `serialize` | between Receiver and Processor, between Processor and Sender |
| `main()`, `CliArgs`, `CliArgsParser`, `Scanner`, files | flags, the description of the CPU | `parse`, `init`, `scan` | configure `Service` and its factory |

What is hard in it: spin locks around some fields and none around others that
are read concurrently (`queue_size_`, `status_`, `stopped_`, the exchange's stage
and target); a test in one critical section relied on in a later one; two
controllers that shake hands by polling each other's fields with independent
timeouts; a clock that is read twice in one critical section, and handlers that
are called after it; objects of a library that must go before the library does;
commands whose parts come in any order and may be missing, doubled or wrong; a plugin that is interrupted for two different reasons; stopping while
requests are on their way; a plan that is altered after later decisions were
taken from it (gang alignment).  `PROJECT.json` lists these hazards at their
lines, with the properties that cover them and those no property covers yet.

## Modules

| module | models | proofs |
|---|---|---|
| `BoundedFifo` | the promise of `MyQueue`: atomic push and pop on a bounded FIFO, with the elements in the threads' hands | |
| `MyQueue` | `auxl/my_queue.h`, one shared access per step | `MyQueueProofs` |
| `ChainSpec` | the promise of `Chain` to its controller: calls and iterations are atomic | |
| `Chain` | `chn/chain.cpp`, one critical section or unlocked access per step | `ChainProofs` |
| `ControllerSpec` | the promise of `ChainController` to Processor: requests are served in order or skipped, then one report | |
| `ChainController`, `MCController` | `chn/chain_controller.cpp` on top of `ChainSpec` | `ChainControllerProofs` |
| `Processor`, `MCProcessor` | `ctrl/processor.cpp` between two atomic queues, with controllers reduced to those of `ControllerSpec` | `ProcessorProofs` |
| `Service`, `MCService` | `ctrl/service.cpp`, `receiver.cpp`, `sender.cpp` around an instance of `Processor` | `ServiceProofs` |
| `Fcfs`, `MCFcfs` | `FcfsImplementation::schedule`, `align_jobs`, `schedule_single_job` | `FcfsProofs` |
| `TimeCounter`, `Metrics`, `Accounting` | `auxl/time_counter.cpp`, `auxl/metrics.cpp`, and their use by threads that work on one request | `AccountingProofs` |
| `Startup` | `main()` up to `main_loop()`: `cli_args_parser.cpp`, `cli_args.cpp`, `hw/scanner.cpp`, the options of `Service` | with `Daemon` |
| `Plugins` | `alg/algorithm_factory.cpp`, `lib_binding.cpp`, `algorithm.cpp`, `Processor::create_algorithms()` | with `Daemon` |
| `Program` | `main()` and the steps of a command, as far as they concern the command line and the plugins | with `Daemon` |
| `Commands` | `Receiver::get_data()` slice by slice, `ctrl/commands.cpp`, `scheduling_info.cpp` | with `Daemon` |
| `ExtendedRH` | `plugin-lib/extended_rh.cpp`, `FcfsImplementation::init()` | with `Daemon` |
| `Responses` | `ctrl/responses.cpp` | with `Daemon` |
| `FcfsPlan` | the jobs of a command in `FcfsImplementation::schedule()`: which are passed over, find no room, get nodes | with `Daemon` |
| `Daemon`, `MCDaemon` | the seven above put together: the program on one command after the other | `DaemonProofs` |

`Accounting` extends `TimeCounter` and `Metrics`; `Service` has an instance of
`Processor`; `ChainController` is built on the actions of `ChainSpec`, which
`Chain` implements, and implements `ControllerSpec`, of which the controllers in
`Processor` are; `Program` extends `Startup` and `Plugins`; `Daemon` extends
`Program`, `Commands`, `Responses` and `FcfsPlan` and has an instance of
`ExtendedRH`.  Every operator named `X_Something` beside an operator `X` is a slip that `X` could contain; no module
uses it, the property that a slip breaks is named in `PROJECT.json`.

### MyQueue

`queue`, `queue_size`, `queue_pos` and `queue_locker` are the class's fields; each
thread has a `pc` named after the next access of its call (`push_spin` is the
unlocked loop on the size, `push_test` the test under the lock, ...).  A test
that fails under the lock unlocks and spins again, as the code does.  The
unlocked read of `queue_size_` is a data race; the `yield()` in the loops makes
the compiler reload it, so a read returns the current value, which is the only
outcome the builds produce.  `element_count()` is such a read.

`ImplementsFifo` maps the slots between the position and the size to a sequence.
A pop that has advanced the position and not yet decremented the size has taken
effect already, so the mapping shortens the sequence by one there (`Content`).

### Chain

The worker's program counter follows `worker_loop()`: `call` is the head of the
loop, `plugin` the time inside an algorithm, from where the plugin may call back
`forced_to_interrupt()` (`poll_read`) and `commit_intermediate_timetable()`
(`commit_write`), `serve` is the critical section after the algorithm, `finish`
the unlocked last write of the status.  The master's calls are the two critical
sections a caller goes through (`ready_...`, `call_...`) and the destructor,
which waits for stop and joins.  The two timetable buffers of `worker_loop()` are
`tt` with the index `tt_cur`.  `init()` has returned in the initial state (its
guards only throw).  An algorithm's result is any timetable or, when it failed
or was forced, possibly none: that is what `Algorithm` lets pass.

`ChainSpec` is the chain the controllers see.  A call takes effect when it tests
the status, before it writes the operation: `AbsOp`, `AbsInjected` and
`AbsActual` anticipate the write.

### ChainController

The chains are `ChainSpec`'s, so its steps are those `Chain` was shown to
implement.  One action per access of a shared field of `chain_controller.cpp`;
the requests are records in place of the closures pushed to `queue_`.  A command
`exchange` becomes two requests, one per controller, of which the source's
answers, as in `Processor::worker_thread()`.  `TimeOut` lets the timeout of a
waiting request pass at any moment; a wait then ends at its next test.  The
caller is Processor's thread: when a controller has stopped, `invoke()` runs the
request itself and `TimeCounter::Lock` throws, because that thread already holds
the request's timer: the request disappears (`InvokeSkip`).  `answer` and
`outcome` record what callbacks were called with, `injection` who injected.

`Runs` is a set of sets of commands; a behaviour delegates one of the sets, in
any order, at any time.  `ControllerAssumption` says what the program does with
them: no two commands of a run have the same id, and the calling thread is no chain.  Left out: `~ChainController()`, and the catch blocks
that no exception reaches (lines 157, 209 and 271: the operation before them
would have to be refused, which `NeverRefused` excludes).

`ControllerSpec` is a controller as Processor sees it.  It has actions and no Init and
Next of its own, because an answer is a parameter of the action that gives it: who
uses the module says what becomes of the answer, and when a controller starts
(`Started`).  `ImplementsControllerSpec` maps `ChainController` to it.  The steps of a
handler are one, `serve`, up to the one that answers, but for a hard interruption,
which sets `stopped_` first (`hard`).  The loop tests its condition (`Enter`), then the
queue without the lock (`Look`, of which `FindNone` is the empty case), and pops with
the lock held (`Pop`, `Take`): three steps, since the chain may stop in between, and a
request that is placed after that may still be taken by the loop.  A request is placed
when it is in the queue, which may be after a hard interruption set `stopped_` that
`invoke()` found unset, but not once the drain has begun; it is in the queue until the
drain has answered it (`BeingSkipped`).  What the report will be is known when the
drain ends (`success`, `failure`).  With `answer` and `outcome` in the mapped
variables, every answer and every report is the abstract one's, and is given once.

### Processor

A command is known by its place among those pushed, a controller by the command
that created it: several controllers of one `uid` follow each other.  `at` is the
next step of `worker_thread()`: `closed` and `busy` are the two reads of the
loop's condition, `handle` a popped command, `target` the second half of an
exchange, `reap` the pass over `chains_`, one controller per step.  `Refuse`
stands for every command Processor answers itself.  `Place` and `Throw` are
`invoke()` on a controller that goes on and on one that stopped (finding 2:
`lost`); neither can happen while the controller drains its queue, because it
holds the lock then.  A response is pushed when the output queue has room, and
the step waits otherwise, whoever takes it.

A controller tests its condition (`Enter`) and its queue (`FindNone` when there is
nothing), takes a request (`Take`), answers it (`Serve`, `HardInterrupt` and
`AnswerHard`), leaves the loop, skips what is left, reports and finishes, in the
order of `worker_loop()`.  What it answers is restricted by the state of its
chain (`Outcome`); how an exchange goes on is the matter of `ChainController`,
so an exchange is answered either way at any time, and `PlacedIsAnswered` says that
it is answered.  That these controllers are neither more nor less than
`ControllerSpec`'s is proved (`ProcessorControllers`): so what is checked and proved
here allows every step of the controllers in the code.  A chain stops as `FINISHED` or `INTERRUPTED` (an error is an
interruption, too) or works for ever.  `Reap` of a controller whose chain works
waits for the chain, as `~Chain()` does; the race of finding 1, in which it waits
for ever, is left to `Chain`.  The pointers that an exchange keeps to the peer
are not followed after the peer was released.

The client pushes any prefix of one of the scripts in `Inputs`, in any
interleaving, and calls `close()` at any moment.

### Service

The Receiver takes the client's place.  A stream is a sequence of commands that
are whole, cannot be parsed (they become `CorruptedCommand`s) or break the stream.
`get_data()` gives every command the id 1 (`receiver.cpp:69`, a TODO), which is
`Uid`: the program as it stands has one chain at a time and a second SCHEDULE is
refused until the controller of the first was released.  `init()` of the other
commands names the chain 42 whatever was written (`commands.cpp:400`, `411`,
`422`, TODOs), which is `Named`: the program answers them that there is no such
chain.  `Processor` itself is checked with distinct ids and with commands that
name chains.  A command whose `init()` throws (`throwing`) is dropped without a
response, one whose `init()` fails becomes a `CorruptedCommand`.
The Sender drops failed responses; a response that cannot be serialized is gone,
too (`written`).  `main` follows `main_loop()` through the wait
for the Receiver and the two `close()`s.  `DrivesProcessor` says that every
behaviour of the program is one of module `Processor`, whose runs and theorems
therefore apply: its scripts, `Inputs`, are the streams as the Receiver parses them
(`Parsed`), up to the first that breaks the stream, without those it drops
(`Kept`).

### Fcfs

One call of `schedule()`; one iteration of its loop is one step (the code is
sequential; what makes it hard is the alignment of earlier decisions).  The
vector of nodes is always sorted by `when_free_` when it is read, so it is the
function `when_free`, with ties in any order, as `std::sort` leaves them.
Cluster, partition state, resources, owners and pre-set nodes only decide which
nodes fit a job: a job comes with that set, `fits`.  `Chosen` is the result of
steps 3 and 4 of `schedule_single_job()`: the first nodes and those that become
free at the same time, then whole partitions by decreasing population.  The
sorting by priority only changes the order, which is an input.  Times are
natural numbers; `forced_to_interrupt()` may say yes at any iteration.

### TimeCounter, Metrics, Accounting

`turn_on()` and `turn_off()` read the clock under the spin lock, the first and
the last thread once more: a tick may come in between (`AddIdling`, `NoteLast`
are the second halves).  `busy`, `attended` and `held` are what a perfect
observer would have measured.  Calls that throw change nothing and are left out.
`Metrics` separates the section of `update_value()` under the lock from the
handlers that are called after it (`event`, `Tell`), and the clone of the integers
from that of the doubles.  The clone shares no value with the original, but it
takes the handlers, which is why `EventsExplainValues` adds up both objects.  In
`Accounting` a thread works on the metrics only while the counter is on for it,
as `TimeCounter::Lock` on the stack of Processor, the controllers and the chains
has it, and the metrics are registered before.

### Startup

`at` is the next step of `main()`, or its exit code.  `ParseArg` is an iteration
of the parser's loop: `met` are the flags met, under both of their names; a flag
registered without a short name (`--in-queue` and those after it) is found under
the empty name, too.  The values of the flags are tested at the end, in any order:
each failure has the same exit code.  The two overloads of `try_parse()` are two
tables: what is read as an `int` (`Sizes`) and what is read as a `double`
(`Timeouts`, in hundredths), so that "2.5" is a timeout and no size (`Numbers`).
`Defaults` are those of the constructor, `service.h:14-17`; the help says otherwise
of one of them (see the disagreements below), and `ServesAsAsked` claims nothing of
the help.  What the shell commands of the scanner
print is arbitrary; the Windows branches are left out.  A size of 0 passes the
parser and is refused by the constructor of the queue (`BuildQueues`).

### Plugins

A directory is a sequence of files with a fate each.  `opened` and `descs` are the
libraries that are open and those with a live descriptor.  `dlopen()`, `dlsym()`
and `dlclose()` are known by their outcomes; a library that was opened twice under
two names counts as two.  `Select` finds a descriptor for each specification before
`CreateAlgorithm` creates one after the other; failing, all of them are given up.
Chains go in the order of `Chain`'s members, timetables first, and
`~AlgorithmFactory()` deletes every descriptor before its library is closed.

### Commands, ExtendedRH, Responses

A slice is a type and a body, a body is a version and a term.  The total and the
types are `char`s, which are signed on the platforms the program is built for
(`Chars`): `resize()` throws a `length_error` at a negative total, which nobody
catches, and a negative type passes the test `type >= total` and is an index ahead of
the vector.  That write is undefined; of what may follow the models have the end of
the program (`Crash`) and a slice that is lost (`Stored`), not what it does to
other objects.  The terms keep the
shape `init()` looks at: a list with elements, a tuple with its arity, or another
form.  Constructors of jobs, clusters, partitions, nodes and the grid come from
a library outside of the repository; they take a sound term or throw, which
matters: a refused command is answered, a thrown one is not.  The hierarchy is
parsed as the code does, a list of lists becoming one list of items
(`RhItems`; the item of a pair is the pair, its `Children` are the items of what is
in it).  `Relations` then walks it as `parse_cluster()`, `parse_part()` and
`parse_node()` do: a `Call` is a list whose items are still to be gone through, the
items the list is in (`above`), which decide whose turn it is (`TakenFor`), and what
was found so far (`rh`: the ids met, the relations, whether there was an error).
The last item of a list is looked at after the ones before it, and what is in it
after itself.  The code returns at the first error, the model keeps it and
goes on in vain.  `WellFormed` and `Places` say the same by the `Paths` of the tree,
a path being the steps that lead to an item.  `NodesPerCluster` is what `FcfsImplementation::init()` takes from it: the
nodes that are up together with their partition and cluster, and templates.
Entities are
positions in their lists, and their ids may come twice: the maps of ids keep the last
of them (`Kept`, `ById`), while `init()` of FCFS goes through all nodes, so that a node
which another one replaced in the map has no cluster and the look-up throws
(`Absent`), which `safe_call()` (`lib_binding.cpp:46-58`) turns into a failure.
A response's list has its announced length and its elements, because
`make_timetables_ei_buffer()` announces more than it writes if a timetable has no
nodes.

### Program and Daemon

`Program` has every step of the program that moves `at`, the plugins or the place
of a command (`step`), with the choices that depend on what a command holds left
open: a command may be dropped, refused or scheduled, and a plugin may succeed or
fail.  Every step of `Daemon` is a step of `Program` conjoined with what happens to
the command and its response (`commandVars`); `DaemonIsProgram` is the proof.

The functions over trees are recursive functions, of `RhTerms` (the terms of
hierarchies with the terms inside them), of sequences of the `Items` those stand for,
and of the walk's `Calls`: a recursive function has a domain, an operator would have
none, but nothing can be proved in a module with a recursive operator.

`main()` loads the plugins, serves, and leaves in one of several ways, after which
the factory is destroyed; when the program dies of a command (`Abort`) nothing is.  A
command goes through `get_data()` slice by slice (`data` is cleared for each command), `init()`, `create_algorithms()`,
the plugin and `serialize()` before the next one comes: how commands overlap is
the matter of `Service`.  The plugin's `init()` is a step
(`InitPlugin`), and so is each iteration of its loop over the jobs: a job is passed
over (`PassJob`) if it is not queued, depends on one that has no timetable, or belongs
to a gang that was left (`IsPassed`); it fails (`FailJob`) if its cluster has too few
nodes that fit and that no member of its gang has; otherwise it gets some of these
(`PlaceJob`).  `plan` is the state of the loop.  Which of the nodes are free first, when the
job starts and how gangs are aligned is the matter of `Fcfs`; resources, owners and
pre-set nodes decide which nodes fit a job (`fits`), as there.  Nobody interrupts the
plugin, because commands do not overlap here.

## Runs

| run | instance | shows |
|---|---|---|
| `queue` | 2 producers, 1 consumer, 1 peeker, 2 slots, 2 items; 54 000 states | `RoomForAccess`, `ImplementsFifo`: nothing is overwritten, lost, duplicated or reordered although sizes are tested without the lock; a `push()` goes on to return, and a `pop()` on a filled queue |
| `chain` | 2 algorithms, 2 timetables, 1 observer; 178 000 states | what algorithms are handed, what is left when the chain stops, when calls are refused; atomicity (`ImplementsChainSpec`); operations are served |
| `chain_destructor_hangs` | 1 algorithm | finding: `~Chain()` may wait for ever |
| `controller` | 2 controllers; an exchange between them with an interruption of one, the exchange alone, or an interruption and a statistics request; 646 000 states | no refused call, no success without a timetable or after an interruption, one-sided exchanges only after a timeout; Processor cannot tell the controllers from `ControllerSpec`'s; every placed request is answered, stopped controllers finish |
| `controller_loses_request` | 1 chain, interruption and statistics | finding: a request delegated to a stopped controller gets no response |
| `exchange_reads_twice` | the exchange alone | finding: the timetable to inject is read again after the peer may have injected ours |
| `processor` | 4 scripts of 4 commands, 2 chains, queues of 1; 219 000 states | one response per command, in order, none after the final report; everything is drained at the end; after `close()` Processor ends once the chains stop; requests are answered whatever the chains do |
| `service` | 3 streams of 3 or 4 commands, queues of 1; 107 000 states | successful responses are all serialized, once; no thread is left when the queues are destroyed; the program ends once the chains stop |
| `fcfs_safety` | 3 jobs, 4 nodes, 2 partitions, 2 gangs; 222 000 states from every input of the sets in `MCFcfs` | no double booking, gangs start together, dependencies without gangs have ended, a populated partition is never preferred to an earlier start |
| `fcfs_dependency_on_gang` | 4 jobs, one input | finding: a job may start before the gang member it depends on ends |
| `accounting` | 2 threads, a clock of 3, 2 metrics, 2 changes; 6 760 000 states | idle and busy time make up the astronomical time, the working time is exact, events explain values whatever their order |
| `daemon` | 29 command lines, 6 plugin directories, 2 commands of 138, up to 5 jobs each; 139 000 states | a service that starts has the options asked for; libraries are open as long as they are used; a command is answered by what it holds, its jobs by timetables that explain each other; the hierarchies that are accepted are the trees of known items |

Bounds.  Two slots are the least with a ring that is neither empty nor full, and
wraps; two threads of a kind are the least that overtake each other.  Two
algorithms give a first, which creates, and a later one, which improves, with a
last one that differs from the first; two timetables tell an injected one from
the chain's own.  Two controllers are the two sides of an exchange.  Queues of one element are
full whenever there is anything in them, which is where threads block; Processor's
scripts have two controllers for an exchange, two of one `uid` after each other,
requests that race with the end of their chain, and every refusal.  Three jobs
are a gang of two and a job before, between or after them; four nodes in two
partitions of one and three leave a choice of partition and too few nodes.  Two changes and a clone are the least whose events come out of
order, a clock of 3 lets a tick fall before, between and after the two readings of
each of two threads.  Two commands are the least of which one leaves something to
the other; those of `MCDaemon` vary one part at a time - the hierarchy (nodes
missing, unknown, doubled, nested, of the wrong kind), the states, entities of the same
id, the jobs (lists of them with dependencies before and after their jobs, gangs in a
row, interrupted and too large, jobs that no node fits), a
malformed slice, the slices themselves (missing, doubled, out of range, below zero, of an old
version, cut off) - and its directories hold every fate and every order of a
suitable and an unsuitable plugin.  The proofs do not depend on any of these.
`MaxClock`, `MaxChanges` and `MaxCommands` (of `Daemon`) bound what would grow for
ever; no other counter of the models grows, but for the order's index.

Deadlock is checked on the queue only.  Chains, controllers, the service, the
program and `schedule()` come to an end, and the clock of `Accounting` stops.

Fairness.  A thread inside a call keeps running (weak fairness of its steps): the
code's threads are plain OS threads that never block outside of these loops.  A
spin lock that is free again and again is got (strong fairness on the steps that
take it in `Chain`): the other threads hold it for a few instructions and yield
in between.  A plugin keeps polling and, once it is told to, returns (strong
fairness of `forced /\ PluginReturn`); the plugins of the repository do.  No
plugin has to return unforced.  The consumer of the queue keeps calling `pop()`,
as a worker loop does.  In the controller, threads run and timeouts pass; nothing
is assumed of the chains, which may work for ever.  In Processor and the service
all threads run and responses are taken, as the Sender does; `CloseCompletes` and
`ServiceEnds` are conditional on the chains stopping, and `RequestAnswered` names
the one thing that holds Processor up, a chain it waits for in `~Chain()`.  Any
thread whose push waits for room gets it: the queue's own fairness is that of
`queue`, where producers and consumers get the spin lock in the end (strong
fairness of `Lock`) and the peeker needs not run at all.  `SomePushReturns` and
`SomePopReturns` speak of the producers and of the consumers together: of two
producers one may be overtaken for ever, and the code promises no more.
`accounting`, `fcfs_safety` and `daemon` check safety only, without fairness.

## Proofs

All proofs are checked by TLAPS for every value of the constants that satisfies
the module's assumption:

* `QueueAssumption`: a positive capacity, disjoint threads;
* `ChainAssumption`: at least one algorithm;
* `ControllerAssumption`: the caller is no chain, the commands of a run have
  different ids;
* `ProcessorAssumption`: positive capacities, scripts of commands of a known kind
  and a bounded length; `ServiceAssumption`: the same of the streams;
* `FcfsAssumption`: no gang has the empty id, no job comes twice, the nodes are
  finitely many;
* `TimeCounterAssumption`: a free lock is no thread, the clock's bound is natural;
  `MetricsAssumption`: an id is of an integer or of a double, and no event is the
  absence of one; `AccountingAssumption`: the clients of the metrics are the
  threads of the counter;
* `StartupAssumption`: a command line is a sequence of strings, a size and a timeout
  (in hundredths) are integers, and so is what the scanner reads;
  `ContentsAssumption`: what `find_files()` leaves of a directory is a sequence of
  its entries (true of every sequence; the prover knows no law of `SelectSeq`);
* `RhTermsAssumption`: the terms inside a term of a hierarchy are among `RhTerms` and
  less deep than it (a term that was read from a buffer is finite);
  `PacketsAssumption`: the slices of a command are numbered, its total and their
  types are `char`s, its hierarchy is of `RhTerms`, its lists are sequences, and a job
  asks for a natural number of nodes.

The arguments:

* `MyQueueProofs`.  `IInv` adds to the types that the thread inside a locked
  section is the one in `queue_locker`, which gives mutual exclusion, and what it
  found there still holds, which gives `RoomForAccess`.  For `QueueImplementsFifo`
  each step is mapped to a step or a stutter of `BoundedFifo`: a store into the
  slot after the last one appends once the size is incremented; arithmetic modulo
  the capacity is in lemmas of its own (`ModLow`, `ModHigh`).
* `ChainProofs`.  `IInv` relates the lock to the threads' positions and the
  worker's buffers to the fields: outside of the plugin the current buffer is the
  actual timetable, an intermediate timetable exists only while an algorithm
  runs, a pending operation excludes another accepted call, and a master that was
  told the chain is ready finds it ready.  From it follow the invariants and the
  action properties; `ChainImplementsChainSpec` maps each step.
* `ChainControllerProofs`.  The invariant comes in layers, each proved with those
  before it.  `TypeInv`: types, and that a request is with the controller it is for,
  at a step of its kind.  `Locked`: the lock is held by whom the program counters say, and a controller
  that has stopped has an empty queue (`ReportedIsDrained`).  `Results`: what a
  request found out about its chain - ready, finished, with a timetable - still
  holds at each place it goes through, because nobody else starts operations of
  the chain (`NeverRefused`, `SuccessHasTimetable`).  `Told`: a controller whose client
  was told of an interruption has not succeeded and will not, because its chain is
  interrupted or it has stopped itself (`InterruptedNotSucceeded`).  `OnceInv`: a
  request is in one place, and answered once.  `Agreement`, of an exchange that is
  alone: the stage of a controller tells how far it is (`Course`), and so what the
  peer's stage may be, unless one of them ran out of time (`Concord`), from which
  `OneSidedOnlyIfLate` follows.  For `ControllerImplementsSpec`, `Endings` says what a
  controller still knows when it acts on it: a chain that was found stopped has stopped,
  one that left its loop cannot go on, and the result the drain began with is the one
  its end would find.  Then each step is mapped to one of the
  controller it belongs to or to none (`BeingSkipped` in the lemmas about
  the mapped queue); an answer agrees with the chain's status because what a handler
  found out about the chain still holds when it answers.
* `ProcessorProofs`.  `CoreInv` adds to the types that commands are popped in the
  order of their numbers (`Counting`), that a controller belongs to a command
  that was handled before (`Created`) and that one which has drained its queue is
  stopped and empty (`Emptied`), from where `ProcessorReportIsLast` follows.
  For `ProcessorAnsweredOnce` every request that answers has a place, in a queue
  or in a controller's hands (`Holds`): no two places hold the same command
  (`OneHolder`), a command that is held was not answered yet (`HeldPending`), and
  the same is true of the one Processor handles and of the commands whose
  controllers have not reported (`Unanswered`).  `OnceMoves` is the step all of a
  controller's actions share: what it holds moves up, and what it answers leaves.
  `OrderInv` adds the converse of `OneHolder`: a command that is due has a
  holder, or a controller that has not reported (`DueHeld`), which gives
  `ProcessorDrainedAtExit`.  It says further that controllers have different names,
  are asked about their own chains only and hold those requests in the order of the
  commands, which gives `ProcessorInOrder`.  `ProcessorControllers` compares the actions
  of a controller with those of `ControllerSpec`, in the states of `CoreInv`, both
  ways.  `ProcessorDrivesControllers` adds what Processor's own steps do to the
  controllers: nothing, or start one that is as `init()` finds it (`Blank`), or place
  the request at hand.
* `ServiceProofs`.  `ServiceDrivesProcessor` maps the Receiver to Processor's
  client and the Sender to the consumer of responses: each step is a step of
  `Processor` or a stutter.  So the invariants of `ProcessorProofs` hold here, too
  (the module has an instance of it), and `ServiceSentAtEnd` needs only what the
  Sender adds: a command was answered with success exactly if its response is in the
  output queue, in the Sender's hands or among those that were sent, and it is in one
  of these places only (`Placed`, `OnePlace`).  `ServiceEndsTogether` follows from
  the order in which `main_loop()` waits and closes (`CourseInv`).
* `FcfsProofs`.  The plan is altered in two ways, so the invariant is a predicate
  of a plan (`PlanOK`) preserved by each: `AlignedOK` for the shift of a gang,
  `PlacedOK` for a job placed on the plan that results.  What makes it inductive
  is `Shiftable`: the members of the current gang share no node, and every other
  job on their nodes ends before they start, so a shift to a later start passes
  nobody.  `NoDoubleBooking`, `EndTimesCurrent`, `GangStartsTogether` and the two
  properties of dependencies follow.  `FcfsPreferenceIsFree` is an action property of
  `PlaceJob`: of the nodes that are free before the last one chosen there are fewer
  than were asked for (`NoneMuchEarlier`), so no other choice is free earlier.
* `AccountingProofs`.  `IInv` says how far the sums are off at every step: the idle
  time noted, the busy time and the time since `last` are the astronomical time up
  to `held`, and the thread between two readings is the first that is on or the
  last that went off.  `TimesAddUp` follows for any number of threads and any
  clock, and for the counter of `Accounting`, whose steps are those of `TimeCounter`
  or leave it alone.  The other two properties are about sums over sets, and a sum
  (`SumFunction` of the community modules) is a recursion over the set.  Its laws -
  it exists, does not depend on the order, an element can be added, left out or
  changed - are proved from the smallest set that would violate them, which exists
  because the subsets of a finite set are well-founded
  (`FS_StrictSubsetOrderingWellFounded`, `WFMin`).  With these laws both
  properties are inductive once the types are known (`WorkInv`, `ExplainInv`) and
  that a clone without doubles handles none (`CloneInv`).
* `DaemonProofs`.  `PluginsInv` says that the open libraries are those of
  `bindings`, each of them once (they are loaded in the order of their places), and
  that there is a chain only while a command is served: so nothing of a library is
  alive when it is closed, and `ProgramPluginsOpen` follows.  `StartInv` says what
  the parser knows after the first arguments: the arguments left do not begin with a
  value, the flags set are those used so far with the value of their last use, and
  no name of a flag that was used is free.  With what the checks, the scanner and
  the setters add, `ProgramServesAsAsked` follows for every command line.  `Values`
  is defined by an equation over the line; that it has a solution is proved from the
  shortest beginning of a line that would have none (`MarksExist`).
  `DaemonIsProgram` carries both over to `Daemon`.

  `DaemonRelationsAgree` is about hierarchies of any width and depth.  The library's
  theorems on recursive definitions cannot be cited, so there is one of our own that
  takes no operator: along a relation that `Induces` (what passes from the elements
  below to each element holds of all) there is a function that satisfies its recursive
  equation (`RecursiveFunction`, put together from those that do on a beginning of the domain).  The
  terms are such a domain by their depth (`TermsInduce`), then sequences of items,
  whose front and whose last item's children come before them (`ForestsInduce`), then
  the walk's calls (`CallsInduce`).  It gives `RhSound`, `RhItems`, `Paths` and
  the walk their equations (`SoundIs`, `ItemsAre`, `PathsAre`, `FoundIs`), and the items
  of a sound term are items (`ItemsOfSound`).  What is said of the tree by its paths
  splits into the front, the last item, and what is in it (`FineSplit`, `KeysSplit`,
  `OnceSplit`, `RelatedSplit`), as the walk does.  The induction hypothesis (`Adds`)
  is about any call: it succeeds only if every item is in its place, and if they all
  are, it adds their keys to the ids met and their nodes to the relations, and
  succeeds exactly if none of the keys comes twice or was met before.  `FoundAdds`
  proves it of all calls, `HierarchyAgrees` is the call at the root.

  For `DaemonAnswers`, `DataInv` says that the slices read are in the places of their types and
  nothing else is; so a command that fills its seven places with seven slices has one
  of each type (`OneOfEach`), and `init()` takes exactly the whole and sound ones, with
  the information the command holds (`FineIsSound`).  `FilesInv` adds to `PluginsInv`
  which libraries are open, from which the plugin that is selected is the first that
  fits (`ChosenIsSelected`).  Relations that agree with the tree (`RelationsAreFound`) give every cluster the
  nodes it offers (`OffersAre`).  `PlanInv` says of the loop over the jobs that the jobs
  before its position are explained (`Planned`): every timetable is of one of them
  and on its nodes, every job that must be scheduled has one (`NoneLeft`), the
  members of a gang are in a row and the nodes of the current one are its members'
  (`GangsKnown`).  Passing over a job keeps that (`PassKeepsPlan`), as a job without room
  does (`FailKeepsPlan`) and one that gets nodes (`PlaceKeepsPlan`); at the end it is
  what the property says (`PlanExplains`), and what is written has the announced
  length (`ReadBack`).  `AnswerInv` says at which of its steps a command has come to
  which of these.

The types of `MyQueue`, `Chain`, `Fcfs` and `Processor` (`TypeOK`), that a chain
stops for good (`StoppedForGood`), that the end times agree with the plan
(`EndTimesCurrent`), that nothing is left in a queue after the report
(`ReportedIsDrained`), `MutualExclusion` (of both locks) and `DependenciesScheduled` are
proved and checked by no run: other properties of the runs fail with them.

Every safety property that a run checks is stated by a theorem, but for those of the
runs that find a violation.  Only model-checked: liveness (`SomePushReturns`, `SomePopReturns`,
`InterruptionStops`, `InjectionServed`, `PlacedIsAnswered`, `StoppedFinishes`,
`CloseCompletes`, `RequestAnswered`, `ServiceEnds`; fairness is out of the prover's
reach).

## Findings

1. `chain.cpp:9`: the final status is written outside the lock (line 232); an operation
   accepted just before is never served and stays pending.  `~Chain()`, when it read
   `WORKING` just before that write, then asks for ever whether the chain is ready for
   its interruption (lines 9-11).
2. `chain_controller.cpp:60`: a request to a stopped controller gets no response.
3. `chain_controller.cpp:155`: the peer's timetable is read twice.
4. `fcfs_implementation.cpp:94`: dependencies are read before their gang is shifted.

Disagreements met while modelling that have no run:

* `cli_args.cpp:120-123` says that the default size of the output queue "is 16",
  `service.h:17` makes it 4; the usage (`cli_args.cpp:102`) names `--in_queue` and
  `--out_queue`, registered are `--in-queue` and `--out-queue`.
* The empty argument is taken for `--in-queue` and may come again (`Names`,
  `Meets`): `cli_args_parser.cpp:92` does not find it among the flags met.
* `Scanner::find_cpu_freq()` returns 0 if no line has a frequency, and is an error
  (so 1000) if a later core is not faster than the one before; `scanner_tests.h`
  expects more than 100.
* `metrics_snapshot.cpp:26-29` resizes the vector and then appends to it: a
  snapshot has as many empty entries as algorithms.
* `receiver.cpp:135` prints "Aborting." and goes on; a scheduling command whose
  entities cannot be constructed is dropped without a response, while one that is
  refused is answered.
* `extended_rh.cpp:106` assumes "that all identifiers are unique", which nothing
  checks: a second node of an id makes FCFS fail (`Absent`), a second cluster or
  partition replaces the first.
* `responses.cpp:34` announces as many timetables as there are, and line 42 passes
  over those without nodes; FCFS makes none (`AnswersAreExplained` depends on it).

## Not modelled, and the plan

In this order:

1. Two exchanges between the same controllers, for the stage left over by the
   first (5.7 million states as it stands: needs a reduction), and the release of
   a controller that a queued exchange still names.  Neither can happen in the
   program as long as every command has the id 1.
2. `~ChainController()` on a controller that has not finished: the unit tests do
   it, Processor releases finished ones only.

Left out for good: the bytes of the wire format and their buffers, among them what
a write ahead of the vector of slices does to other objects, platforms whose `char` is
unsigned, and a buffer that is used after it could not
be filled (`responses.cpp:147-170`); a write that fails after some bytes
(`swm_write_exact`); `MetricsResponse` and a successful `EmptyResponse`, which the
program never comes to, because its requests name no chain that exists;
the times in a response, whose measure is `Accounting`; the snapshot of the
metrics; the dummy plugin, a double for tests; full paths; printing.
