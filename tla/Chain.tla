-------------------------------- MODULE Chain --------------------------------
(***************************************************************************)
(* swm::Chain (sched-lib/chn/chain.cpp), one chain at the grain of its     *)
(* shared accesses: the worker thread that runs the algorithms one after   *)
(* another, the plugin it is inside of (which calls back to ask whether it *)
(* is forced to interrupt and to commit an intermediate timetable), the    *)
(* one master thread that calls ready_for_async_operation(),               *)
(* interrupt_async() and inject_timetable_async() and finally destroys the *)
(* chain, and observers that read its timetables.  locker_ protects all of *)
(* them except status_, which is read everywhere and, at the end of        *)
(* worker_loop(), written without it.  An access and the unlock() that     *)
(* follows it are one step.  init() has returned in the initial state.     *)
(***************************************************************************)
EXTENDS Integers

CONSTANTS AlgorithmCount,   \* algorithms_.size()
          Timetables, NoTT,
          Observers         \* threads that call actual_/intermediate_timetable()

ASSUME ChainAssumption ==
  /\ AlgorithmCount \in Nat \ {0}       \* init() throws on an empty vector
  /\ NoTT \notin Timetables
  /\ Observers \cap {"worker", "master", "none"} = {}

Threads == {"worker", "master"} \cup Observers

VARIABLES
  status,            \* status_
  async_op,          \* async_op_
  locker,            \* locker_: the thread that set the flag, or "none"
  actual_tt, intermediate_tt, injected_tt,
  i, injected, tt, tt_cur, succeeded,   \* the locals of worker_loop()
  forced,            \* what the plugin was last told by forced_to_interrupt()
  pc,                \* per thread: its next step
  call,              \* the master's call: [op, tt]
  accepts,           \* the master's call found the chain not stopped
  ready,             \* the master was told the chain is ready, and has not called since
  dying              \* the master is inside ~Chain()

workerVars == <<i, injected, tt, tt_cur, succeeded, forced>>
masterVars == <<call, accepts, ready, dying>>
dataVars == <<actual_tt, intermediate_tt, injected_tt>>
vars == <<status, async_op, locker, dataVars, workerVars, pc, masterVars>>

Calls == [op : {"INTERRUPT"}, tt : {NoTT}] \cup [op : {"INJECT_TT"}, tt : Timetables]
InterruptCall == [op |-> "INTERRUPT", tt |-> NoTT]

\* The states in which a thread holds locker_.
Locked == {"poll_read", "commit_write", "serve", "ready_read", "call_test", "call_write", "get"}

Init ==
  /\ status = "WORKING"
  /\ async_op = "NONE"
  /\ locker = "none"
  /\ actual_tt = NoTT /\ intermediate_tt = NoTT /\ injected_tt = NoTT
  /\ i = 0 /\ injected = FALSE
  /\ tt = [b \in {0, 1} |-> NoTT] /\ tt_cur = 0
  /\ succeeded = FALSE /\ forced = FALSE
  /\ pc = [t \in Threads |-> IF t = "worker" THEN "call" ELSE "idle"]
  /\ call = InterruptCall /\ accepts = FALSE /\ ready = FALSE /\ dying = FALSE

Goto(t, from, to) ==
  /\ pc[t] = from
  /\ pc' = [pc EXCEPT ![t] = to]

-----------------------------------------------------------------------------
\* What the code tests and computes, each after a slip it could contain

Next_tt == 1 - tt_cur                 \* (tt_cur + 1) % BUFFER_NUMBER
Stopped == status # "WORKING"         \* stopped()

LockFree == locker = "none"

\* The operations that force the plugin to interrupt.
Forcing_InjectOnly == {"INJECT_TT"}
Forcing_InterruptOnly == {"INTERRUPT"}
Forcing == {"INTERRUPT", "INJECT_TT"}

\* Where worker_loop() goes once a failure set the status.
AfterFailure == "done"

\* The actual timetable an interrupted chain keeps.
Interrupted_tt_Unconditional == tt[Next_tt]
Interrupted_tt == IF succeeded THEN tt[Next_tt] ELSE actual_tt

\* The actual timetable of a chain that goes on.
Served_tt_NotStored == IF async_op = "INJECT_TT" THEN injected_tt ELSE actual_tt
Served_tt == IF async_op = "INJECT_TT" THEN injected_tt ELSE tt[Next_tt]

\* The buffers: an injected timetable replaces the result.
Served_buffers_NotInjected == tt
Served_buffers == IF async_op = "INJECT_TT" THEN [tt EXCEPT ![Next_tt] = injected_tt] ELSE tt

ResetIntermediate_Forgotten == UNCHANGED intermediate_tt
ResetIntermediate == intermediate_tt' = NoTT

\* The condition of the loop over the algorithms.
Continues(n) == n < AlgorithmCount

Ready_IgnoresInjection == async_op # "INTERRUPT"
Ready == async_op = "NONE"

Accepting_Always == TRUE
Accepting == ~Stopped

-----------------------------------------------------------------------------
Lock(t, from, to) ==
  /\ Goto(t, from, to)
  /\ LockFree
  /\ locker' = t
  /\ UNCHANGED <<status, async_op, dataVars, workerVars, masterVars>>

Unlock == locker' = "none"

-----------------------------------------------------------------------------
\* The worker and the plugin

Creating == i = 0 /\ ~injected        \* create_timetable(), else improve_timetable()
CallAlgorithm ==
  /\ Goto("worker", "call", "plugin")
  /\ forced' = FALSE
  /\ UNCHANGED <<status, async_op, locker, dataVars, i, injected, tt, tt_cur, succeeded, masterVars>>

\* forced_to_interrupt()
PollRead ==
  /\ Goto("worker", "poll_read", "plugin")
  /\ forced' = (async_op \in Forcing)
  /\ Unlock
  /\ UNCHANGED <<status, async_op, dataVars, i, injected, tt, tt_cur, succeeded, masterVars>>

\* commit_intermediate_timetable()
CommitWrite ==
  /\ Goto("worker", "commit_write", "plugin")
  /\ \E x \in Timetables : intermediate_tt' = x
  /\ Unlock
  /\ UNCHANGED <<status, async_op, actual_tt, injected_tt, workerVars, masterVars>>

\* The plugin returns: a success leaves a timetable in the obsolete buffer, a
\* failure may leave one as well.
PluginReturn ==
  /\ Goto("worker", "plugin", "serve_lock")
  /\ \/ /\ succeeded' = TRUE
        /\ \E x \in Timetables : tt' = [tt EXCEPT ![Next_tt] = x]
     \/ /\ succeeded' = FALSE
        /\ UNCHANGED tt \/ \E x \in Timetables : tt' = [tt EXCEPT ![Next_tt] = x]
  /\ UNCHANGED <<status, async_op, locker, dataVars, i, injected, tt_cur, forced, masterVars>>

\* The worker's critical section when the algorithm failed and nobody forced it.
ServeFailure ==
  /\ ~succeeded /\ async_op = "NONE"
  /\ status' = "INTERRUPTED"
  /\ Goto("worker", "serve", AfterFailure)
  /\ Unlock
  /\ UNCHANGED <<async_op, dataVars, workerVars, masterVars>>

\* ... when an interruption was accepted.
ServeInterrupt ==
  /\ async_op = "INTERRUPT"
  /\ actual_tt' = Interrupted_tt
  /\ ResetIntermediate
  /\ async_op' = "NONE"
  /\ status' = "INTERRUPTED"
  /\ Goto("worker", "serve", "done")
  /\ Unlock
  /\ UNCHANGED <<injected_tt, workerVars, masterVars>>

\* ... and otherwise, an accepted injection being served; then the buffers are
\* switched and i advances if the algorithm succeeded.
ServeAndContinue ==
  /\ async_op = "INJECT_TT" \/ (async_op = "NONE" /\ succeeded)
  /\ actual_tt' = Served_tt
  /\ ResetIntermediate
  /\ tt' = Served_buffers
  /\ injected' = (injected \/ async_op = "INJECT_TT")
  /\ status' = IF async_op = "INJECT_TT" THEN "WORKING" ELSE status
  /\ async_op' = "NONE"
  /\ tt_cur' = Next_tt
  /\ i' = IF succeeded THEN i + 1 ELSE i
  /\ Goto("worker", "serve", IF Continues(i') THEN "call" ELSE "finish")
  /\ Unlock
  /\ UNCHANGED <<injected_tt, succeeded, forced, masterVars>>

Serve == ServeFailure \/ ServeInterrupt \/ ServeAndContinue

\* status_ = FINISHED, outside the lock.
Finish ==
  /\ Goto("worker", "finish", "done")
  /\ status' = "FINISHED"
  /\ UNCHANGED <<async_op, locker, dataVars, workerVars, masterVars>>

PollLock == Lock("worker", "plugin", "poll_read")
CommitLock == Lock("worker", "plugin", "commit_write")
ServeLock == Lock("worker", "serve_lock", "serve")

WorkerStep ==
  \/ CallAlgorithm \/ PollLock \/ PollRead \/ CommitLock \/ CommitWrite
  \/ PluginReturn \/ ServeLock \/ Serve \/ Finish

-----------------------------------------------------------------------------
\* The master: the calls of the chain's owner, and its destructor

MasterOnly == UNCHANGED <<status, async_op, dataVars, workerVars>>

\* ready_for_async_operation(), called at will or by the loop of ~Chain()
ReadyCall ==
  /\ Goto("master", "idle", "ready_lock")
  /\ ready' = FALSE
  /\ MasterOnly /\ UNCHANGED <<locker, call, accepts, dying>>

ReadyRead ==
  /\ ready' = Ready
  /\ \/ ~dying /\ Goto("master", "ready_read", "idle") /\ UNCHANGED call
     \/ /\ dying /\ Goto("master", "ready_read", IF ready' THEN "call_lock" ELSE "ready_lock")
        /\ call' = InterruptCall
  /\ Unlock
  /\ MasterOnly /\ UNCHANGED <<accepts, dying>>

\* interrupt_async() and inject_timetable_async(): the test ...
CallBegin ==
  /\ Goto("master", "idle", "call_lock")
  /\ call' \in Calls
  /\ MasterOnly /\ UNCHANGED <<locker, accepts, ready, dying>>

CallRefused ==
  /\ async_op # "NONE"
  /\ Goto("master", "call_test", "refused")
  /\ Unlock
  /\ MasterOnly /\ UNCHANGED masterVars

CallTest ==
  /\ async_op = "NONE"
  /\ Goto("master", "call_test", "call_write")
  /\ accepts' = Accepting
  /\ MasterOnly /\ UNCHANGED <<locker, call, ready, dying>>

\* ... and the writes.
CallWrite ==
  /\ Goto("master", "call_write", IF dying THEN "await_stop" ELSE "idle")
  /\ ready' = FALSE
  /\ IF accepts
     THEN /\ async_op' = call.op
          /\ injected_tt' = IF call.op = "INJECT_TT" THEN call.tt ELSE injected_tt
          /\ UNCHANGED actual_tt
     ELSE /\ actual_tt' = IF call.op = "INJECT_TT" THEN call.tt ELSE actual_tt
          /\ UNCHANGED <<async_op, injected_tt>>
  /\ Unlock
  /\ UNCHANGED <<status, intermediate_tt, workerVars, call, accepts, dying>>

\* The exception reaches the caller.
CallThrows ==
  /\ Goto("master", "refused", IF dying THEN "dtor_failed" ELSE "idle")
  /\ ready' = FALSE
  /\ MasterOnly /\ UNCHANGED <<locker, call, accepts, dying>>

\* ~Chain(): one read of the status decides whether to interrupt.
DestroyBegin ==
  /\ Goto("master", "idle", IF status = "WORKING" THEN "ready_lock" ELSE "join")
  /\ dying' = TRUE /\ ready' = FALSE
  /\ MasterOnly /\ UNCHANGED <<locker, call, accepts>>

DestroyAwaitStop ==
  /\ Stopped
  /\ Goto("master", "await_stop", "join")
  /\ MasterOnly /\ UNCHANGED <<locker, masterVars>>

DestroyJoin ==
  /\ pc["worker"] = "done"
  /\ Goto("master", "join", "destroyed")
  /\ MasterOnly /\ UNCHANGED <<locker, masterVars>>

ReadyLock == Lock("master", "ready_lock", "ready_read")
CallLock == Lock("master", "call_lock", "call_test")

InCall ==
  \/ ReadyLock \/ ReadyRead \/ CallLock \/ CallRefused \/ CallTest \/ CallWrite \/ CallThrows
  \/ DestroyAwaitStop \/ DestroyJoin

MasterStep == InCall \/ ReadyCall \/ CallBegin \/ DestroyBegin

-----------------------------------------------------------------------------
\* actual_timetable() and intermediate_timetable(); the chain outlives the call

ObserverLock(o) == ~dying /\ Lock(o, "idle", "get")

ObserverGet(o) ==
  /\ Goto(o, "get", "idle")
  /\ Unlock
  /\ UNCHANGED <<status, async_op, dataVars, workerVars, masterVars>>

Next ==
  \/ WorkerStep
  \/ MasterStep
  \/ \E o \in Observers : ObserverLock(o) \/ ObserverGet(o)

Spec == Init /\ [][Next]_vars

\* A thread inside a call goes on, and wins the spin lock again and again tried
\* for.  A plugin keeps asking forced_to_interrupt() until it returns, and
\* returns once it is told so (the plugins of the repository do).
Fairness ==
  /\ WF_vars(CallAlgorithm \/ PollRead \/ CommitWrite \/ Serve \/ Finish)
  /\ SF_vars(PollLock) /\ SF_vars(ServeLock) /\ SF_vars(forced /\ PluginReturn)
  /\ WF_vars(InCall) /\ SF_vars(ReadyLock) /\ SF_vars(CallLock)
  /\ \A o \in Observers : WF_vars(ObserverGet(o))

FairSpec == Spec /\ Fairness

-----------------------------------------------------------------------------
\* Properties

(* The types of the chain's fields, the worker's locals and the threads' steps. *)
TypeOK ==
  /\ status \in {"WORKING", "INTERRUPTED", "FINISHED"}
  /\ async_op \in {"NONE", "INTERRUPT", "INJECT_TT"}
  /\ locker \in Threads \cup {"none"}
  /\ actual_tt \in Timetables \cup {NoTT}
  /\ intermediate_tt \in Timetables \cup {NoTT}
  /\ injected_tt \in Timetables \cup {NoTT}
  /\ i \in 0..AlgorithmCount
  /\ tt \in [{0, 1} -> Timetables \cup {NoTT}] /\ tt_cur \in {0, 1}
  /\ injected \in BOOLEAN /\ succeeded \in BOOLEAN /\ forced \in BOOLEAN
  /\ accepts \in BOOLEAN /\ ready \in BOOLEAN /\ dying \in BOOLEAN
  /\ pc \in [Threads -> {"call", "plugin", "poll_read", "commit_write", "serve_lock", "serve",
                         "finish", "done", "idle", "ready_lock", "ready_read", "call_lock",
                         "call_test", "call_write", "refused", "await_stop", "join",
                         "destroyed", "dtor_failed", "get"}]
  /\ call \in Calls

(* chain.cpp lock()/unlock(): the worker, the plugin's callbacks, the master and
   the readers of the timetables are never in their critical sections together. *)
MutualExclusion ==
  \A t, u \in Threads : pc[t] \in Locked /\ pc[u] \in Locked => t = u

(* Algorithm::improve_timetable() throws on a null timetable, on a thread that
   catches nothing: whatever was served in between, every algorithm but the
   first creation is handed the chain's actual timetable, never the obsolete
   buffer and never null. *)
ImprovesActual ==
  pc["worker"] = "call" /\ ~Creating => tt[tt_cur] = actual_tt /\ actual_tt # NoTT

(* chain.h, FINISHED: "tt constructed without errors and can be used". *)
FinishedHasTimetable == status = "FINISHED" => actual_tt # NoTT

(* The test and the call are two critical sections of the master; a master that
   was told the chain is ready, ~Chain() included, is never refused after it. *)
ReadyMeansAccepted == pc["master"] \in {"refused", "dtor_failed"} => ~ready /\ ~dying

(* An intermediate timetable belongs to the run of the algorithm that committed
   it: none is left over when the next algorithm starts or the chain finishes. *)
IntermediateIsCurrent ==
  intermediate_tt # NoTT =>
    \/ pc["worker"] \in {"plugin", "poll_read", "commit_write", "serve_lock", "serve"}
    \/ status = "INTERRUPTED"

(* Exchanging controllers test the actual timetable for null and read it again
   later: once there is one, there is one forever. *)
TimetableNeverLost == [][actual_tt # NoTT => actual_tt' # NoTT]_vars

(* Controllers poll stopped() without a lock and rely on its answer later: a
   chain that stopped never works again and keeps the reason. *)
StoppedForGood == [][Stopped => status' = status]_vars

(* An accepted interruption stops the chain. *)
InterruptionStops == async_op = "INTERRUPT" ~> Stopped

(* An accepted injection is served, unless the chain finishes first. *)
InjectionServed == async_op = "INJECT_TT" ~> async_op = "NONE" \/ status = "FINISHED"

(* tests/unit/chn_tests/chain_tests.h: "chain must be stopped by destructor", so
   ~Chain() returns.  (Violated: its first loop may ask for ever whether the chain
   is ready, which an operation that was accepted before and is never served
   forbids; see the findings.) *)
DestructorReturns == dying ~> pc["master"] = "destroyed"

-----------------------------------------------------------------------------
\* The refinement of ChainSpec: a call takes effect at its test of the status.

Decided == pc["master"] = "call_write"

\* The abstract variables of the one chain.
AbsOp == IF Decided /\ accepts THEN call.op ELSE async_op
AbsInjected == IF Decided /\ accepts /\ call.op = "INJECT_TT" THEN call.tt ELSE injected_tt
AbsActual == IF Decided /\ ~accepts /\ call.op = "INJECT_TT" THEN call.tt ELSE actual_tt
Leaving == i = AlgorithmCount

Promise == INSTANCE ChainSpec WITH
  Chains   <- {"chain"},
  status   <- [c \in {"chain"} |-> status],
  async_op <- [c \in {"chain"} |-> AbsOp],
  injected <- [c \in {"chain"} |-> AbsInjected],
  actual   <- [c \in {"chain"} |-> AbsActual],
  leaving  <- [c \in {"chain"} |-> Leaving]

(* The chain, lock by lock, implements the chain whose calls are atomic. *)
ImplementsChainSpec == Promise!Spec
=============================================================================
