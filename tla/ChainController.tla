--------------------------- MODULE ChainController ---------------------------
(***************************************************************************)
(* swm::util::ChainController (sched-lib/chn/chain_controller.cpp) over    *)
(* the atomic chains of ChainSpec: one controller per chain, each with a   *)
(* worker thread and a queue of requests guarded by a spin lock.  The one  *)
(* caller is the thread of Processor, which holds the timer of a request   *)
(* while it delegates it (ctrl/processor.cpp).  The volatile fields        *)
(* stopped_, finished_, exchange_stage_ and exchange_traget_ are read and  *)
(* written one access per step; in the exchange each controller also reads *)
(* those of its peer.  timeout_ may pass whenever a request waits.         *)
(***************************************************************************)
EXTENDS Naturals, Sequences, Functions

CONSTANTS Chains, Timetables, NoTT,
          Runs,         \* the sets of commands, [id, kind, chain, peer], of which
                        \* Processor delegates one, in any order
          Nobody        \* a null pointer to a chain, and no thread

Commands == UNION Runs

ASSUME ControllerAssumption ==
  /\ NoTT \notin Timetables
  /\ Nobody \notin Chains /\ "caller" \notin Chains \cup {Nobody}
  /\ \A m \in Commands : /\ m.kind \in {"exchange", "interrupt", "stats"}
                         /\ m.chain \in Chains /\ m.peer \in Chains
  /\ \A m, n \in Commands : m.id = n.id => m = n

VARIABLES
  status, async_op, injected, actual, leaving,   \* the chains
  locker,       \* locker_ of each controller: who set it, or Nobody
  stopped, finished, queue,                      \* stopped_, finished_, queue_
  stage, target,                                 \* exchange_stage_, exchange_traget_
  pc,           \* the next step of each controller's worker thread
  req,          \* the request it handles
  seen,         \* what it last read of its peer's actual timetable
  succeeded,    \* the local variable of worker_loop()
  late,         \* the requests whose timeout_ has passed
  sent, todo, callerAt,                          \* the caller: commands taken or not of
                                                 \* this run, requests left
  answer,       \* what the callback of a command was called with
  outcome,      \* what finish_clb_ was called with
  injection     \* the exchanges whose timetable was injected, <<id, chain>>

chainVars == <<status, async_op, injected, actual, leaving>>
fieldVars == <<locker, stopped, finished, queue>>
exchVars == <<stage, target, seen>>
workerVars == <<pc, req, succeeded, late>>
callerVars == <<sent, todo, callerAt>>
resultVars == <<answer, outcome, injection>>
vars == <<chainVars, fieldVars, exchVars, workerVars, callerVars, resultVars>>

Chain == INSTANCE ChainSpec

\* The requests a command becomes: an exchange is one for either controller,
\* and only the source's answers.
Request(m, c, p, answers) == [id |-> m.id, kind |-> m.kind, chain |-> c, peer |-> p,
                              answers |-> answers]
Requests(m) ==
  IF m.kind = "exchange"
  THEN <<Request(m, m.chain, m.peer, TRUE), Request(m, m.peer, m.chain, FALSE)>>
  ELSE <<Request(m, m.chain, m.peer, TRUE)>>

Init ==
  /\ Chain!Init
  /\ locker = [c \in Chains |-> Nobody]
  /\ stopped = [c \in Chains |-> FALSE] /\ finished = [c \in Chains |-> FALSE]
  /\ queue = [c \in Chains |-> <<>>]
  /\ stage = [c \in Chains |-> "WAITING"] /\ target = [c \in Chains |-> Nobody]
  /\ seen = [c \in Chains |-> NoTT]
  /\ pc = [c \in Chains |-> "loop"]
  /\ req = [c \in Chains |-> Nobody]
  /\ succeeded = [c \in Chains |-> FALSE]
  /\ late = {}
  /\ \E r \in Runs : sent = Commands \ r
  /\ todo = <<>> /\ callerAt = "idle"
  /\ answer = [m \in Commands |-> "none"]
  /\ outcome = [c \in Chains |-> "none"]
  /\ injection = {}

Goto(c, from, to) == pc[c] = from /\ pc' = [pc EXCEPT ![c] = to]
Working(c) == status[c] = "WORKING"          \* !chain->stopped()
Ready(c) == async_op[c] = "NONE"             \* chain->ready_for_async_operation()
Peer(c) == req[c].peer
Late(c) == req[c] \in late

-----------------------------------------------------------------------------
\* What the code tests and computes, each after a slip it could contain

\* The callback of a request is called; the peer's callback of an exchange does nothing.
Answered(c, value) ==
  IF req[c].answers
  THEN LET m == CHOOSE n \in Commands : n.id = req[c].id
       IN [answer EXCEPT ![m] = IF @ = "none" THEN value ELSE "twice"]
  ELSE answer

\* Which requests invoke() still places.
Open_Always(c) == TRUE
Open(c) == ~stopped[c]

Success_DespiteHard(c) == status[c] = "FINISHED"
Success(c) == ~stopped[c] /\ status[c] = "FINISHED"

\* The condition of the loop of worker_loop().
Continues_Unstopped(c) == ~stopped[c]
Continues(c) == ~stopped[c] /\ Working(c)

\* The drain pops what it skipped, and ends with the queue.
Rest(q) == Tail(q)
Drained(c) == queue[c] = <<>>

\* A peer that has, at least, taken our timetable.
Taken == {"TT_TAKEN", "TT_INJECTING"}
Meets(c) == target[Peer(c)] = c
Agrees_Taken(c) == stage[Peer(c)] \in Taken
Agrees(c) == stage[Peer(c)] = "TT_INJECTING"

HasTimetable_Unchecked(tt) == TRUE
HasTimetable(tt) == tt # NoTT

CanInterrupt_Unchecked(c) == TRUE
CanInterrupt(c) == Ready(c)

-----------------------------------------------------------------------------
\* The caller: Processor's thread, inside invoke()

CallerOnly == UNCHANGED <<chainVars, stopped, finished, exchVars, workerVars, resultVars>>
At == Head(todo).chain

Take(m) ==
  /\ callerAt = "idle" /\ m \notin sent
  /\ sent' = sent \cup {m}
  /\ todo' = Requests(m)
  /\ callerAt' = "test"
  /\ CallerOnly /\ UNCHANGED <<locker, queue>>

InvokeTest ==
  /\ callerAt = "test" /\ locker[At] = Nobody
  /\ locker' = [locker EXCEPT ![At] = "caller"]
  /\ callerAt' = IF Open(At) THEN "place" ELSE "skip"
  /\ CallerOnly /\ UNCHANGED <<queue, sent, todo>>

InvokePlace ==
  /\ callerAt = "place"
  /\ queue' = [queue EXCEPT ![At] = Append(@, Head(todo))]
  /\ locker' = [locker EXCEPT ![At] = Nobody]
  /\ todo' = Tail(todo)
  /\ callerAt' = IF todo' = <<>> THEN "idle" ELSE "test"
  /\ CallerOnly /\ UNCHANGED sent

\* func(true) on the caller's thread: it turns on the request's timer, which
\* this thread has turned on already, and throws; Processor goes on without it.
InvokeSkip ==
  /\ callerAt = "skip"
  /\ locker' = [locker EXCEPT ![At] = Nobody]
  /\ todo' = <<>>
  /\ callerAt' = "idle"
  /\ CallerOnly /\ UNCHANGED <<queue, sent>>

-----------------------------------------------------------------------------
\* worker_loop()

Private(c) == UNCHANGED <<chainVars, fieldVars, callerVars>>
Local == UNCHANGED <<chainVars, fieldVars, exchVars, req, succeeded, late, callerVars, resultVars>>

\* The condition of the loop: of what it reads, only the chain's status is written
\* by another thread.
Enter(c) ==
  /\ Continues(c)
  /\ Goto(c, "loop", "look")
  /\ Local

\* queue_.empty(), without the lock
Look(c) ==
  /\ Goto(c, "look", IF queue[c] = <<>> THEN "loop" ELSE "pop")
  /\ Local

\* The next request is taken with the lock held; its chain may have stopped since
\* the loop's condition was tested.
Pop(c) ==
  /\ Goto(c, "pop", "start")
  /\ locker[c] = Nobody
  /\ req' = [req EXCEPT ![c] = Head(queue[c])]
  /\ queue' = [queue EXCEPT ![c] = Tail(@)]
  /\ UNCHANGED <<chainVars, locker, stopped, finished, exchVars, succeeded, late, callerVars,
                 resultVars>>

\* A request's function starts: a request on a chain that works is handled, any
\* other is answered at once.
FirstStep == [exchange |-> "x_stage", interrupt |-> "i_ready", stats |-> "stats"]
Start(c) ==
  LET handled == Working(c) /\ (req[c].kind = "exchange" => Working(Peer(c)))
  IN /\ Goto(c, "start", IF handled THEN FirstStep[req[c].kind] ELSE "loop")
     /\ answer' = IF handled THEN answer ELSE Answered(c, "no")
     /\ Private(c) /\ UNCHANGED <<exchVars, req, succeeded, late, outcome, injection>>

\* The loop ends; the rest of the queue is skipped with the lock held.
Leave(c) ==
  /\ ~Continues(c)
  /\ Goto(c, "loop", "drain_lock")
  /\ Local

DrainLock(c) ==
  /\ locker[c] = Nobody
  /\ locker' = [locker EXCEPT ![c] = c]
  /\ succeeded' = [succeeded EXCEPT ![c] = Success(c)]
  /\ Goto(c, "drain_lock", "drain")
  /\ UNCHANGED <<chainVars, stopped, finished, queue, exchVars, req, late, callerVars, resultVars>>

Skip(c) ==
  /\ pc[c] = "drain" /\ ~Drained(c)
  /\ req' = [req EXCEPT ![c] = Head(queue[c])]
  /\ queue' = [queue EXCEPT ![c] = Rest(@)]
  /\ pc' = [pc EXCEPT ![c] = "skip"]
  /\ UNCHANGED <<chainVars, locker, stopped, finished, exchVars, succeeded, late, callerVars,
                 resultVars>>

SkipAnswer(c) ==
  /\ Goto(c, "skip", "drain")
  /\ answer' = Answered(c, "no")
  /\ Private(c) /\ UNCHANGED <<exchVars, req, succeeded, late, outcome, injection>>

DrainEnd(c) ==
  /\ Drained(c)
  /\ stopped' = [stopped EXCEPT ![c] = TRUE]
  /\ locker' = [locker EXCEPT ![c] = Nobody]
  /\ Goto(c, "drain", "report")
  /\ UNCHANGED <<chainVars, finished, queue, exchVars, req, succeeded, late, callerVars, resultVars>>

Report(c) ==
  /\ Goto(c, "report", "finish")
  /\ outcome' = [outcome EXCEPT ![c] = IF ~succeeded[c] THEN "no"
                                       ELSE IF actual[c] = NoTT THEN "null" ELSE "yes"]
  /\ Private(c) /\ UNCHANGED <<exchVars, req, succeeded, late, answer, injection>>

Finish(c) ==
  /\ Goto(c, "finish", "done")
  /\ finished' = [finished EXCEPT ![c] = TRUE]
  /\ UNCHANGED <<chainVars, locker, stopped, queue, exchVars, req, succeeded, late, callerVars,
                 resultVars>>

-----------------------------------------------------------------------------
\* A request that waits: the loop ends when its condition or timeout_ does.

Waits_NotToMeet == {"x_both", "x_ready", "x_agree", "i_ready", "i_stop"}
Waits == {"x_meet", "x_both", "x_ready", "x_agree", "i_ready", "i_stop"}

TimeOut(c) ==
  /\ pc[c] \in Waits /\ ~Late(c)
  /\ late' = late \cup {req[c]}
  /\ UNCHANGED <<chainVars, fieldVars, exchVars, pc, req, succeeded, callerVars, resultVars>>

Await(c, from, condition, to) ==
  /\ Goto(c, from, to)
  /\ condition \/ Late(c)
  /\ Local

Test(c, from, condition, to, otherwise) ==
  /\ Goto(c, from, IF condition THEN to ELSE otherwise)
  /\ Local

\* The request is over: its callback is called with value.
End(c, from, value) ==
  /\ Goto(c, from, "loop")
  /\ answer' = Answered(c, value)
  /\ UNCHANGED <<outcome, injection, req, succeeded, late, callerVars>>

-----------------------------------------------------------------------------
\* invoke_exchange()

SetStage(c, from, value, to) ==
  /\ Goto(c, from, to)
  /\ stage' = [stage EXCEPT ![c] = value]
  /\ Private(c) /\ UNCHANGED <<target, seen, req, succeeded, late, resultVars>>

SetTarget(c) ==
  /\ Goto(c, "x_target", "x_meet")
  /\ target' = [target EXCEPT ![c] = Peer(c)]
  /\ Private(c) /\ UNCHANGED <<stage, seen, req, succeeded, late, resultVars>>

\* target_chain->actual_timetable()
ReadPeer(c, from, to, otherwise) ==
  /\ pc[c] = from
  /\ seen' = [seen EXCEPT ![c] = actual[Peer(c)]]
  /\ Goto(c, from, IF HasTimetable(seen'[c]) THEN to ELSE otherwise)
  /\ Private(c) /\ UNCHANGED <<stage, target, req, succeeded, late, resultVars>>

Inject(c) ==
  /\ Goto(c, "x_inject", "x_end")
  /\ Chain!InjectAsync(c, seen[c])
  /\ injection' = injection \cup {<<req[c].id, c>>}
  /\ UNCHANGED <<fieldVars, exchVars, req, succeeded, late, callerVars, answer, outcome>>

\* exchange_traget_ = nullptr, and the answer
EndExchange(c, from, value) ==
  /\ End(c, from, value)
  /\ target' = [target EXCEPT ![c] = Nobody]
  /\ UNCHANGED <<chainVars, fieldVars, stage, seen>>

Exchange(c) ==
  \/ SetStage(c, "x_stage", "WAITING", "x_target")
  \/ SetTarget(c)
  \/ Await(c, "x_meet", Meets(c), "x_met")
  \/ Test(c, "x_met", Meets(c), "x_take", "x_fail")
  \/ ReadPeer(c, "x_take", "x_taken", "x_fail")
  \/ SetStage(c, "x_taken", "TT_TAKEN", "x_both")
  \/ Await(c, "x_both", stage[Peer(c)] # "WAITING", "x_bothtest")
  \/ Test(c, "x_bothtest", stage[Peer(c)] \in Taken, "x_ready", "x_fail")
  \/ Await(c, "x_ready", Ready(c) \/ ~Working(c), "x_readytest")
  \/ Test(c, "x_readytest", Ready(c) /\ Working(c), "x_injecting", "x_fail")
  \/ SetStage(c, "x_injecting", "TT_INJECTING", "x_agree")
  \/ Await(c, "x_agree", Agrees(c) \/ stage[Peer(c)] = "FAILED", "x_agreed")
  \/ Test(c, "x_agreed", Agrees(c), "x_read", "x_fail")
  \/ ReadPeer(c, "x_read", "x_inject", "x_inject")
  \/ Inject(c)
  \/ EndExchange(c, "x_end", "yes")
  \/ SetStage(c, "x_fail", "FAILED", "x_failed")
  \/ EndExchange(c, "x_failed", "no")

-----------------------------------------------------------------------------
\* invoke_interrupt() and invoke_stats()

\* "Hard" interruption: the flag is the controller's own stopped_.
HardInterrupt(c) ==
  /\ stopped' = [stopped EXCEPT ![c] = TRUE]
  /\ Goto(c, "i_hard", "i_yes")
  /\ UNCHANGED <<chainVars, locker, finished, queue, exchVars, req, succeeded, late, callerVars,
                 resultVars>>

\* interrupt_async(): nothing happens to a chain that stopped.
InterruptChain(c) ==
  /\ Goto(c, "i_call", "i_stop")
  /\ IF Working(c) THEN Chain!InterruptAsync(c) ELSE Ready(c) /\ UNCHANGED chainVars
  /\ UNCHANGED <<fieldVars, exchVars, req, succeeded, late, callerVars, resultVars>>

EndLocal(c, from, value) == End(c, from, value) /\ UNCHANGED <<chainVars, fieldVars, exchVars>>

Interrupt(c) ==
  \/ Await(c, "i_ready", Ready(c) \/ ~Working(c), "i_readytest")
  \/ Test(c, "i_readytest", CanInterrupt(c), "i_call", "i_hard")
  \/ InterruptChain(c)
  \/ Await(c, "i_stop", ~Working(c), "i_stoptest")
  \/ Test(c, "i_stoptest", ~Working(c), "i_soft", "i_hard")
  \/ EndLocal(c, "i_soft", IF status[c] = "INTERRUPTED" THEN "yes" ELSE "no")
  \/ HardInterrupt(c)
  \/ EndLocal(c, "i_yes", "yes")

Stats(c) == EndLocal(c, "stats", "yes")

-----------------------------------------------------------------------------
Caller == (\E m \in Commands : Take(m)) \/ InvokeTest \/ InvokePlace \/ InvokeSkip

Handle(c) == Start(c) \/ Exchange(c) \/ Interrupt(c) \/ Stats(c)
Loop(c) ==
  \/ Enter(c) \/ Look(c) \/ Pop(c) \/ Leave(c) \/ DrainLock(c) \/ Skip(c) \/ SkipAnswer(c)
  \/ DrainEnd(c) \/ Report(c) \/ Finish(c)

ChainWorks(c) ==
  /\ Chain!WorkerStep(c)
  /\ UNCHANGED <<fieldVars, exchVars, workerVars, callerVars, resultVars>>

Next ==
  \/ Caller
  \/ \E c \in Chains : Loop(c) \/ Handle(c) \/ TimeOut(c) \/ ChainWorks(c)

Spec == Init /\ [][Next]_vars

\* Threads inside a call go on and time passes; the chains may work for ever.
Fairness ==
  /\ WF_vars(InvokeTest \/ InvokePlace \/ InvokeSkip)
  /\ \A c \in Chains : WF_vars(Loop(c)) /\ WF_vars(Handle(c)) /\ WF_vars(TimeOut(c))

FairSpec == Spec /\ Fairness

-----------------------------------------------------------------------------
\* Properties

(* The types of the controllers' fields; a command's callback is called once at
   most. *)
TypeOK ==
  /\ locker \in [Chains -> Chains \cup {"caller", Nobody}]
  /\ stopped \in [Chains -> BOOLEAN] /\ finished \in [Chains -> BOOLEAN]
  /\ \A c \in Chains : \A k \in DOMAIN queue[c] : queue[c][k].chain = c
  /\ stage \in [Chains -> {"WAITING", "TT_TAKEN", "TT_INJECTING", "FAILED"}]
  /\ target \in [Chains -> Chains \cup {Nobody}]
  /\ seen \in [Chains -> Timetables \cup {NoTT}]
  /\ answer \in [Commands -> {"none", "yes", "no"}]
  /\ outcome \in [Chains -> {"none", "yes", "no", "null"}]

(* Only the controller's worker starts operations of its chain (chain.h: a
   "single master thread"), so what ready_for_async_operation() said still holds
   at the call many accesses later: no operation is refused. *)
NeverRefused == \A c \in Chains : pc[c] \in {"i_call", "x_inject"} => Ready(c)

(* A controller reports success only with a timetable: the exchange reads the
   peer's timetable twice and tests it for null once, and an injection into a
   chain that has just finished replaces its result, never loses it. *)
SuccessHasTimetable == \A c \in Chains : outcome[c] # "null"

(* invoke() tests stopped_ and worker_loop() sets it under the same lock: when
   finish_clb_ is called no request is left in the queue or on its way there. *)
ReportedIsDrained ==
  \A c \in Chains :
    outcome[c] # "none" => queue[c] = <<>> /\ (callerAt = "place" => At # c)

(* A client that is told its chain was interrupted, softly or hard, never gets a
   timetable from it, even from a chain that finishes meanwhile. *)
InterruptedNotSucceeded ==
  \A m \in Commands :
    m.kind = "interrupt" /\ answer[m] = "yes" => outcome[m.chain] \in {"none", "no"}

(* Both controllers of an exchange inject or neither does, unless one of them ran
   out of time; stated of an exchange that is the only one, between two chains. *)
OneSidedOnlyIfLate ==
  \A m \in Commands, c \in Chains :
    /\ <<m.id, c>> \in injection /\ req[c].id = m.id /\ Peer(c) # c
    /\ pc[Peer(c)] \in {"x_fail", "x_failed"}
    => \/ {req[c], req[Peer(c)]} \cap late # {}
       \/ \E n \in Commands : n.kind = "exchange" /\ n # m

(* A request that was placed in a queue does not stay without an answer: its turn
   comes, as every wait has a timeout, or the drain skips it.  Nothing is assumed of
   the chains. *)
Placed(m) ==
  \/ \E k \in DOMAIN queue[m.chain] : queue[m.chain][k].id = m.id
  \/ req[m.chain] # Nobody /\ req[m.chain].id = m.id
PlacedIsAnswered == <>[](\A m \in Commands : Placed(m) => answer[m] # "none")

(* A controller whose chain stopped, or that interrupted it hard, finishes. *)
StoppedFinishes == <>[](\A c \in Chains : stopped[c] \/ ~Working(c) => finished[c])

(* tests/unit/ctrl_tests/processor_tests.h waits for one response to each request:
   every command is answered once its controllers are done.  (Violated: see the
   findings.) *)
NoRequestLost ==
  sent = Commands /\ callerAt = "idle" /\ (\A c \in Chains : finished[c])
    => \E r \in Runs : \A m \in r : answer[m] # "none"

(* chain_controller.cpp: "Taking target's tt before it has injected our": the
   timetable to inject is read before the peer injected ours.  (Violated: see the
   findings.) *)
TakenBeforePeerInjects ==
  \A c \in Chains : pc[c] = "x_read" => <<req[c].id, Peer(c)>> \notin injection

-----------------------------------------------------------------------------
\* The refinement of ControllerSpec: a request is in the queue until the drain has
\* answered it; the steps of a handler are one.

ShownPc(c) ==
  CASE pc[c] \in {"loop", "drain_lock"} -> "loop"
    [] pc[c] \in {"look", "pop"}        -> "look"
    [] pc[c] \in {"drain", "skip"}      -> "drain"
    [] pc[c] = "i_yes"                  -> "hard"
    [] pc[c] = "report"                 -> IF succeeded[c] THEN "success" ELSE "failure"
    [] pc[c] \in {"finish", "done"}     -> pc[c]
    [] OTHER                            -> "serve"

BeingSkipped(c) == IF pc[c] = "skip" THEN <<req[c]>> ELSE <<>>

\* The abstract variables.
Pcs == [c \in Chains |-> ShownPc(c)]
Halted == {c \in Chains : stopped[c]}
Queues == [c \in Chains |-> BeingSkipped(c) \o queue[c]]
Reqs == [c \in Chains |-> IF ShownPc(c) \in {"serve", "hard"} THEN req[c] ELSE Nobody]

AnyRequest == UNION {Range(Requests(m)) : m \in Commands}
KindOf == [r \in AnyRequest |-> IF r.kind = "stats" THEN "metrics" ELSE r.kind]

Shown == INSTANCE ControllerSpec WITH
  Nothing <- Nobody,  kind <- KindOf,  pc <- Pcs,  stopped <- Halted,
  queue   <- Queues,  req  <- Reqs

Word(yes) == IF yes THEN "yes" ELSE "no"

\* A step of ControllerSpec, and what becomes of its answer: each callback is called
\* for the first time.
ShownStep(c) ==
  \/ UNCHANGED <<answer, outcome>> /\ Shown!Silent(c)
  \/ UNCHANGED <<answer, outcome>> /\ todo # <<>> /\ Shown!Place(c, Head(todo))
  \/ \E m \in Commands, yes \in BOOLEAN :
       /\ answer[m] = "none" /\ answer' = [answer EXCEPT ![m] = Word(yes)]
       /\ UNCHANGED outcome
       /\ \E r \in Range(Requests(m)) : Shown!Answer(c, r, yes)
  \/ \E yes \in BOOLEAN :
       /\ outcome[c] = "none" /\ outcome' = [outcome EXCEPT ![c] = Word(yes)]
       /\ UNCHANGED answer
       /\ Shown!Report(c, yes)

(* A controller is what Processor takes it for.  Requests are served in order or, once
   it stops, skipped; none is placed once the drain has begun, although invoke() tests
   stopped_ before the request is in the queue; a request is taken by the loop after
   its chain stopped, but none after it was skipped; each answer and the one report
   agree with the status of the chain, although its fields were read one by one; and
   whatever else the code does, Processor cannot tell. *)
ImplementsControllerSpec ==
  /\ \A c \in Chains : Shown!Started(c)
  /\ [][\E c \in Chains : ShownStep(c)]_<<Pcs, Halted, status, Queues, Reqs, answer, outcome>>
=============================================================================
