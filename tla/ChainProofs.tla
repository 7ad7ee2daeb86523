----------------------------- MODULE ChainProofs -----------------------------
(***************************************************************************)
(* What Chain keeps true for every number of algorithms, every set of      *)
(* timetables and every number of observers.                               *)
(***************************************************************************)
EXTENDS Chain, TLAPS

WorkerStates == {"call", "plugin", "poll_read", "commit_write", "serve_lock", "serve", "finish",
                 "done"}
MasterStates == {"idle", "ready_lock", "ready_read", "call_lock", "call_test", "call_write",
                 "refused", "await_stop", "join", "destroyed", "dtor_failed"}

\* The worker is inside an algorithm, or between two.
Looping == {"call", "plugin", "poll_read", "commit_write", "serve_lock", "serve"}

\* The parts of TypeOK.
PcType ==
  pc \in [Threads -> {"call", "plugin", "poll_read", "commit_write", "serve_lock", "serve",
                       "finish", "done", "idle", "ready_lock", "ready_read", "call_lock",
                       "call_test", "call_write", "refused", "await_stop", "join",
                       "destroyed", "dtor_failed", "get"}]

BooleansType ==
  /\ injected \in BOOLEAN /\ succeeded \in BOOLEAN /\ forced \in BOOLEAN
  /\ accepts \in BOOLEAN /\ ready \in BOOLEAN /\ dying \in BOOLEAN

ValuesType ==
  /\ status \in {"WORKING", "INTERRUPTED", "FINISHED"}
  /\ async_op \in {"NONE", "INTERRUPT", "INJECT_TT"}
  /\ locker \in Threads \cup {"none"}
  /\ actual_tt \in Timetables \cup {NoTT}
  /\ intermediate_tt \in Timetables \cup {NoTT}
  /\ injected_tt \in Timetables \cup {NoTT}
  /\ i \in 0..AlgorithmCount
  /\ tt \in [{0, 1} -> Timetables \cup {NoTT}] /\ tt_cur \in {0, 1}
  /\ call \in Calls

\* A thread is only ever in the code of its role.
Roles ==
  /\ pc["worker"] \in WorkerStates
  /\ pc["master"] \in MasterStates
  /\ \A o \in Observers : pc[o] \in {"idle", "get"}

\* Whoever is in a critical section is the thread that set the flag.
LockHeld == \A t \in Threads : pc[t] \in Locked => locker = t

\* The status follows the worker.
StatusInv ==
  /\ pc["worker"] \in Looping => status = "WORKING" /\ i < AlgorithmCount
  /\ pc["worker"] = "finish" => status = "WORKING" /\ i = AlgorithmCount
  /\ pc["worker"] = "done" => status # "WORKING"
  /\ status = "FINISHED" => i = AlgorithmCount
  /\ status = "INTERRUPTED" => i < AlgorithmCount

\* The ping-pong buffers: the current one is the actual timetable, the other
\* one holds the result of a success.
BufferInv ==
  /\ pc["worker"] \in Looping /\ ~Creating => tt[tt_cur] = actual_tt /\ actual_tt # NoTT
  /\ pc["worker"] \in {"serve_lock", "serve"} /\ succeeded => tt[Next_tt] # NoTT
  /\ pc["worker"] = "finish" \/ status = "FINISHED" => actual_tt # NoTT
  /\ async_op = "INJECT_TT" => injected_tt # NoTT

\* The master between the test and the writes of a call.
CallInv ==
  /\ pc["master"] = "call_write" => async_op = "NONE" /\ (~accepts => Stopped)
  /\ ready => async_op = "NONE"
  /\ pc["master"] = "refused" => ~ready /\ ~dying
  /\ pc["master"] # "dtor_failed"
  /\ dying => pc["master"] # "idle"
  /\ dying /\ pc["master"] \in {"call_lock", "call_test", "call_write"} => ready

\* The inductive invariant.
IInv ==
  /\ TypeOK
  /\ Roles
  /\ LockHeld
  /\ StatusInv
  /\ BufferInv
  /\ CallInv
  /\ IntermediateIsCurrent

LEMMA CallFields ==
  /\ InterruptCall \in Calls
  /\ \A x \in Calls : /\ x.op \in {"INTERRUPT", "INJECT_TT"}
                      /\ x.op = "INJECT_TT" => x.tt \in Timetables
  BY DEF Calls, InterruptCall

LEMMA InitIInv == Init => IInv
<1> SUFFICES ASSUME Init PROVE IInv
  OBVIOUS
<1> USE ChainAssumption, CallFields DEF Init, Threads
<1>1. TypeOK
  <2>1. PcType
    BY DEF PcType
  <2>2. BooleansType
    BY DEF BooleansType
  <2>3. ValuesType
    BY DEF ValuesType
  <2> QED
    BY ONLY <2>1, <2>2, <2>3 DEF TypeOK, PcType, BooleansType, ValuesType
<1>2. Roles /\ LockHeld
  BY DEF Roles, LockHeld, Locked, WorkerStates, MasterStates
<1>3. StatusInv /\ CallInv
  BY DEF StatusInv, CallInv, Looping, Stopped
<1>4. BufferInv /\ IntermediateIsCurrent
  BY DEF BufferInv, IntermediateIsCurrent, Looping, Creating
<1> QED
  BY ONLY <1>1, <1>2, <1>3, <1>4 DEF IInv

(* Every step of the worker, the plugin, the master and the observers keeps the
   inductive invariant. *)
LEMMA NextIInv == IInv /\ [Next]_vars => IInv'
<1> SUFFICES ASSUME IInv, [Next]_vars PROVE IInv'
  OBVIOUS
<1> USE ChainAssumption DEF IInv, TypeOK, Roles, LockHeld, StatusInv, BufferInv, CallInv,
       IntermediateIsCurrent, Threads, Locked, Looping, WorkerStates, MasterStates, Creating,
       PcType, BooleansType, ValuesType, Stopped, Next_tt, Goto, Unlock, dataVars, workerVars, masterVars,
       MasterOnly
<1>1. CASE CallAlgorithm
  <2>1. TypeOK'
    <3>1. PcType'
      BY <1>1 DEF CallAlgorithm
    <3>2. BooleansType'
      BY <1>1 DEF CallAlgorithm
    <3>3. ValuesType'
      BY <1>1 DEF CallAlgorithm
    <3> QED
      BY ONLY <3>1, <3>2, <3>3 DEF TypeOK, PcType, BooleansType, ValuesType
  <2>2. Roles'
    BY <1>1 DEF CallAlgorithm
  <2>3. LockHeld'
    BY <1>1 DEF CallAlgorithm
  <2>4. StatusInv'
    BY <1>1 DEF CallAlgorithm
  <2>5. BufferInv'
    BY <1>1 DEF CallAlgorithm
  <2>6. CallInv'
    BY <1>1 DEF CallAlgorithm
  <2>7. IntermediateIsCurrent'
    BY <1>1 DEF CallAlgorithm
  <2>8. QED
    BY <2>1, <2>2, <2>3, <2>4, <2>5, <2>6, <2>7
<1>2. CASE PollLock
  BY <1>2 DEF PollLock, Lock, LockFree
<1>3. CASE PollRead
  <2>1. TypeOK'
    BY <1>3 DEF PollRead, Forcing
  <2>2. Roles'
    BY <1>3 DEF PollRead, Forcing
  <2>3. LockHeld'
    BY <1>3 DEF PollRead, Forcing
  <2>4. StatusInv'
    BY <1>3 DEF PollRead, Forcing
  <2>5. BufferInv'
    BY <1>3 DEF PollRead, Forcing
  <2>6. CallInv'
    BY <1>3 DEF PollRead, Forcing
  <2>7. IntermediateIsCurrent'
    BY <1>3 DEF PollRead, Forcing
  <2>8. QED
    BY <2>1, <2>2, <2>3, <2>4, <2>5, <2>6, <2>7
<1>4. CASE CommitLock
  BY <1>4 DEF CommitLock, Lock, LockFree
<1>5. CASE CommitWrite
  BY <1>5 DEF CommitWrite
<1>6. CASE PluginReturn
  <2>1. TypeOK'
    <3>1. PcType'
      BY <1>6 DEF PluginReturn
    <3>2. BooleansType'
      BY <1>6 DEF PluginReturn
    <3>3. ValuesType'
      BY <1>6 DEF PluginReturn
    <3> QED
      BY ONLY <3>1, <3>2, <3>3 DEF TypeOK, PcType, BooleansType, ValuesType
  <2>2. Roles'
    BY <1>6 DEF PluginReturn
  <2>3. LockHeld'
    BY <1>6 DEF PluginReturn
  <2>4. StatusInv'
    BY <1>6 DEF PluginReturn
  <2>5. BufferInv'
    BY <1>6 DEF PluginReturn
  <2>6. CallInv'
    BY <1>6 DEF PluginReturn
  <2>7. IntermediateIsCurrent'
    BY <1>6 DEF PluginReturn
  <2>8. QED
    BY <2>1, <2>2, <2>3, <2>4, <2>5, <2>6, <2>7
<1>7. CASE ServeLock
  BY <1>7 DEF ServeLock, Lock, LockFree
<1>8. CASE ServeFailure
  BY <1>8 DEF ServeFailure, AfterFailure
<1>9. CASE ServeInterrupt
  BY <1>9 DEF ServeInterrupt, Interrupted_tt, ResetIntermediate
<1>10. CASE ServeAndContinue
  BY <1>10 DEF ServeAndContinue, Served_tt, Served_buffers, ResetIntermediate, Continues
<1>11. CASE Finish
  BY <1>11 DEF Finish
<1>12. CASE ReadyLock
  BY <1>12 DEF ReadyLock, Lock, LockFree
<1>13. CASE ReadyRead
  <2>1. TypeOK'
    <3>1. PcType'
      BY <1>13, CallFields DEF ReadyRead, Ready
    <3>2. BooleansType'
      BY <1>13, CallFields DEF ReadyRead, Ready
    <3>3. ValuesType'
      BY <1>13, CallFields DEF ReadyRead, Ready
    <3> QED
      BY ONLY <3>1, <3>2, <3>3 DEF TypeOK, PcType, BooleansType, ValuesType
  <2>2. Roles'
    BY <1>13, CallFields DEF ReadyRead, Ready
  <2>3. LockHeld'
    BY <1>13, CallFields DEF ReadyRead, Ready
  <2>4. StatusInv'
    BY <1>13, CallFields DEF ReadyRead, Ready
  <2>5. BufferInv'
    BY <1>13, CallFields DEF ReadyRead, Ready
  <2>6. CallInv'
    BY <1>13, CallFields DEF ReadyRead, Ready
  <2>7. IntermediateIsCurrent'
    BY <1>13, CallFields DEF ReadyRead, Ready
  <2>8. QED
    BY <2>1, <2>2, <2>3, <2>4, <2>5, <2>6, <2>7
<1>14. CASE CallLock
  BY <1>14 DEF CallLock, Lock, LockFree
<1>15. CASE CallRefused
  BY <1>15 DEF CallRefused
<1>16. CASE CallTest
  <2>1. TypeOK'
    BY <1>16 DEF CallTest, Accepting
  <2>2. Roles'
    BY <1>16 DEF CallTest, Accepting
  <2>3. LockHeld'
    BY <1>16 DEF CallTest, Accepting
  <2>4. StatusInv'
    BY <1>16 DEF CallTest, Accepting
  <2>5. BufferInv'
    BY <1>16 DEF CallTest, Accepting
  <2>6. CallInv'
    BY <1>16 DEF CallTest, Accepting
  <2>7. IntermediateIsCurrent'
    BY <1>16 DEF CallTest, Accepting
  <2>8. QED
    BY <2>1, <2>2, <2>3, <2>4, <2>5, <2>6, <2>7
<1>17. CASE CallWrite
  <2>1. TypeOK'
    BY <1>17, CallFields DEF CallWrite
  <2>2. Roles'
    BY <1>17, CallFields DEF CallWrite
  <2>3. LockHeld'
    BY <1>17, CallFields DEF CallWrite
  <2>4. StatusInv'
    BY <1>17, CallFields DEF CallWrite
  <2>5. BufferInv'
    BY <1>17, CallFields DEF CallWrite
  <2>6. CallInv'
    BY <1>17, CallFields DEF CallWrite
  <2>7. IntermediateIsCurrent'
    BY <1>17, CallFields DEF CallWrite
  <2>8. QED
    BY <2>1, <2>2, <2>3, <2>4, <2>5, <2>6, <2>7
<1>18. CASE CallThrows
  <2>1. TypeOK'
    <3>1. PcType'
      BY <1>18 DEF CallThrows
    <3>2. BooleansType'
      BY <1>18 DEF CallThrows
    <3>3. ValuesType'
      BY <1>18 DEF CallThrows
    <3> QED
      BY ONLY <3>1, <3>2, <3>3 DEF TypeOK, PcType, BooleansType, ValuesType
  <2>2. Roles'
    BY <1>18 DEF CallThrows
  <2>3. LockHeld'
    BY <1>18 DEF CallThrows
  <2>4. StatusInv'
    BY <1>18 DEF CallThrows
  <2>5. BufferInv'
    BY <1>18 DEF CallThrows
  <2>6. CallInv'
    BY <1>18 DEF CallThrows
  <2>7. IntermediateIsCurrent'
    BY <1>18 DEF CallThrows
  <2>8. QED
    BY <2>1, <2>2, <2>3, <2>4, <2>5, <2>6, <2>7
<1>19. CASE DestroyAwaitStop
  BY <1>19 DEF DestroyAwaitStop
<1>20. CASE DestroyJoin
  BY <1>20 DEF DestroyJoin
<1>21. CASE ReadyCall
  <2>1. TypeOK'
    <3>1. PcType'
      BY <1>21 DEF ReadyCall
    <3>2. BooleansType'
      BY <1>21 DEF ReadyCall
    <3>3. ValuesType'
      BY <1>21 DEF ReadyCall
    <3> QED
      BY ONLY <3>1, <3>2, <3>3 DEF TypeOK, PcType, BooleansType, ValuesType
  <2>2. Roles'
    BY <1>21 DEF ReadyCall
  <2>3. LockHeld'
    BY <1>21 DEF ReadyCall
  <2>4. StatusInv'
    BY <1>21 DEF ReadyCall
  <2>5. BufferInv'
    BY <1>21 DEF ReadyCall
  <2>6. CallInv'
    BY <1>21 DEF ReadyCall
  <2>7. IntermediateIsCurrent'
    BY <1>21 DEF ReadyCall
  <2>8. QED
    BY <2>1, <2>2, <2>3, <2>4, <2>5, <2>6, <2>7
<1>22. CASE CallBegin
  BY <1>22 DEF CallBegin
<1>23. CASE DestroyBegin
  <2>1. TypeOK'
    <3>1. PcType'
      BY <1>23 DEF DestroyBegin
    <3>2. BooleansType'
      BY <1>23 DEF DestroyBegin
    <3>3. ValuesType'
      BY <1>23 DEF DestroyBegin
    <3> QED
      BY ONLY <3>1, <3>2, <3>3 DEF TypeOK, PcType, BooleansType, ValuesType
  <2>2. Roles'
    BY <1>23 DEF DestroyBegin
  <2>3. LockHeld'
    BY <1>23 DEF DestroyBegin
  <2>4. StatusInv'
    BY <1>23 DEF DestroyBegin
  <2>5. BufferInv'
    BY <1>23 DEF DestroyBegin
  <2>6. CallInv'
    BY <1>23 DEF DestroyBegin
  <2>7. IntermediateIsCurrent'
    BY <1>23 DEF DestroyBegin
  <2>8. QED
    BY <2>1, <2>2, <2>3, <2>4, <2>5, <2>6, <2>7
<1>24. ASSUME NEW o \in Observers, ObserverLock(o) PROVE IInv'
  BY <1>24 DEF ObserverLock, Lock, LockFree
<1>25. ASSUME NEW o \in Observers, ObserverGet(o) PROVE IInv'
  <2>1. TypeOK'
    BY <1>25 DEF ObserverGet
  <2>2. Roles'
    BY <1>25 DEF ObserverGet
  <2>3. LockHeld'
    BY <1>25 DEF ObserverGet
  <2>4. StatusInv'
    BY <1>25 DEF ObserverGet
  <2>5. BufferInv'
    BY <1>25 DEF ObserverGet
  <2>6. CallInv'
    BY <1>25 DEF ObserverGet
  <2>7. IntermediateIsCurrent'
    BY <1>25 DEF ObserverGet
  <2>8. QED
    BY <2>1, <2>2, <2>3, <2>4, <2>5, <2>6, <2>7
<1>26. CASE UNCHANGED vars
  BY <1>26 DEF vars
<1>27. QED
  BY <1>1, <1>2, <1>3, <1>4, <1>5, <1>6, <1>7, <1>8, <1>9, <1>10, <1>11, <1>12, <1>13,
     <1>14, <1>15, <1>16, <1>17, <1>18, <1>19, <1>20, <1>21, <1>22, <1>23, <1>24, <1>25,
     <1>26
     DEF Next, WorkerStep, Serve, MasterStep, InCall

THEOREM ChainInvariant == Spec => []IInv
<1>1. Init => IInv
  BY InitIInv
<1>2. IInv /\ [Next]_vars => IInv'
  BY NextIInv
<1>3. QED
  BY <1>1, <1>2, PTL DEF Spec

(* The chain's fields and every thread's local variables keep their types. *)
THEOREM ChainTypes == Spec => []TypeOK
<1>1. IInv => TypeOK
  BY DEF IInv
<1>2. QED
  BY <1>1, ChainInvariant, PTL

(* chain.cpp lock()/unlock(): no two threads are in their critical sections. *)
THEOREM ChainMutualExclusion == Spec => []MutualExclusion
<1>1. IInv => MutualExclusion
  BY DEF IInv, LockHeld, MutualExclusion
<1>2. QED
  BY <1>1, ChainInvariant, PTL

(* improve_timetable() is only ever handed the actual timetable, never null. *)
THEOREM ChainImprovesActual == Spec => []ImprovesActual
<1>1. IInv => ImprovesActual
  BY DEF IInv, BufferInv, Looping, ImprovesActual
<1>2. QED
  BY <1>1, ChainInvariant, PTL

(* A finished chain has a timetable. *)
THEOREM ChainFinishedHasTimetable == Spec => []FinishedHasTimetable
<1>1. IInv => FinishedHasTimetable
  BY DEF IInv, BufferInv, FinishedHasTimetable
<1>2. QED
  BY <1>1, ChainInvariant, PTL

(* A master that was told the chain is ready is not refused after it. *)
THEOREM ChainReadyMeansAccepted == Spec => []ReadyMeansAccepted
<1>1. IInv => ReadyMeansAccepted
  BY DEF IInv, CallInv, ReadyMeansAccepted
<1>2. QED
  BY <1>1, ChainInvariant, PTL

(* No intermediate timetable outlives the run of the algorithm that made it. *)
THEOREM ChainIntermediateIsCurrent == Spec => []IntermediateIsCurrent
<1>1. IInv => IntermediateIsCurrent
  BY DEF IInv
<1>2. QED
  BY <1>1, ChainInvariant, PTL

\* What a step may not do to the actual timetable, and to the status.
TimetableStep == actual_tt # NoTT => actual_tt' # NoTT
StatusStep == Stopped => status' = status

LEMMA StepKeepsResults == IInv /\ [Next]_vars => TimetableStep /\ StatusStep
<1> SUFFICES ASSUME IInv, [Next]_vars PROVE TimetableStep /\ StatusStep
  OBVIOUS
<1> USE DEF TimetableStep, StatusStep, Stopped, dataVars, workerVars, masterVars
<1>1. CASE ServeInterrupt
  <2>1. succeeded => tt[Next_tt] # NoTT
    BY <1>1 DEF IInv, BufferInv, ServeInterrupt, Goto
  <2>2. QED
    BY <1>1, <2>1 DEF ServeInterrupt, Interrupted_tt, Goto, IInv, StatusInv, Looping
<1>2. CASE ServeAndContinue
  <2>1. /\ succeeded => tt[Next_tt] # NoTT
        /\ async_op = "INJECT_TT" => injected_tt # NoTT
        /\ status = "WORKING"
    BY <1>2 DEF IInv, BufferInv, StatusInv, Looping, ServeAndContinue, Goto
  <2>2. QED
    BY <1>2, <2>1 DEF ServeAndContinue, Served_tt
<1>3. CASE CallWrite
  BY <1>3, CallFields, ChainAssumption DEF CallWrite, IInv, TypeOK
<1>4. CASE ServeFailure \/ Finish
  BY <1>4 DEF ServeFailure, Finish, Goto, IInv, StatusInv, Looping
<1>5. CASE \/ CallAlgorithm \/ PollLock \/ PollRead \/ CommitLock \/ CommitWrite
           \/ PluginReturn \/ ServeLock
  BY <1>5 DEF CallAlgorithm, PollLock, PollRead, CommitLock, CommitWrite, PluginReturn, ServeLock,
              Lock
<1>6. CASE \/ ReadyLock \/ ReadyRead \/ CallLock \/ CallRefused \/ CallTest \/ CallThrows
           \/ DestroyAwaitStop \/ DestroyJoin \/ ReadyCall \/ CallBegin \/ DestroyBegin
  BY <1>6 DEF ReadyLock, ReadyRead, CallLock, CallRefused, CallTest, CallThrows, Lock, MasterOnly,
              DestroyAwaitStop, DestroyJoin, ReadyCall, CallBegin, DestroyBegin
<1>7. CASE \E o \in Observers : ObserverLock(o) \/ ObserverGet(o)
  BY <1>7 DEF ObserverLock, ObserverGet, Lock
<1>8. CASE UNCHANGED vars
  BY <1>8 DEF vars
<1>9. QED
  BY <1>1, <1>2, <1>3, <1>4, <1>5, <1>6, <1>7, <1>8
     DEF Next, WorkerStep, Serve, MasterStep, InCall

(* An actual timetable is replaced, never taken away. *)
THEOREM ChainTimetableNeverLost == Spec => TimetableNeverLost
<1>1. IInv /\ [Next]_vars => [TimetableStep]_vars
  BY StepKeepsResults
<1>2. QED
  BY <1>1, ChainInvariant, PTL DEF Spec, TimetableNeverLost, TimetableStep

(* A chain that stopped never works again. *)
THEOREM ChainStoppedForGood == Spec => StoppedForGood
<1>1. IInv /\ [Next]_vars => [StatusStep]_vars
  BY StepKeepsResults
<1>2. QED
  BY <1>1, ChainInvariant, PTL DEF Spec, StoppedForGood, StatusStep

-----------------------------------------------------------------------------
\* The refinement of ChainSpec

AbsVars == <<status, AbsOp, AbsInjected, AbsActual, Leaving>>

LEMMA AbsStutter == UNCHANGED AbsVars => UNCHANGED Promise!vars
  BY DEF AbsVars, Promise!vars

\* No call is decided while the worker holds the lock.
LEMMA ServeAlone ==
  ASSUME IInv, pc["worker"] = "serve"
  PROVE  /\ ~Decided
         /\ pc' = [pc EXCEPT !["worker"] = pc'["worker"]] => ~Decided'
  BY ChainAssumption DEF IInv, TypeOK, Roles, LockHeld, Locked, Threads, Decided, MasterStates

(* Every step of the chain is a step of ChainSpec or leaves its variables alone. *)
LEMMA StepRefines == IInv /\ [Next]_vars => [Promise!Next]_(Promise!vars)
<1> SUFFICES ASSUME IInv, [Next]_vars PROVE [Promise!Next]_(Promise!vars)
  OBVIOUS
<1>1. CASE CallTest
  <2>1. /\ pc["master"] = "call_test" /\ pc'["master"] = "call_write"
        /\ call \in Calls
    BY <1>1 DEF CallTest, Goto, IInv, TypeOK, Threads
  <2>2. CASE call.op = "INTERRUPT" /\ ~Stopped
    <3>1. Promise!InterruptAsync("chain")
      BY <1>1, <2>1, <2>2 DEF Promise!InterruptAsync, Promise!Stopped, AbsOp, AbsInjected, AbsActual, Leaving, CallTest, Accepting, Stopped,
         Decided, MasterOnly, dataVars, workerVars
    <3>2. QED
      BY <3>1 DEF Promise!Next
  <2>3. CASE call.op = "INTERRUPT" /\ Stopped
    <3>1. UNCHANGED AbsVars
      BY <1>1, <2>1, <2>3 DEF AbsVars, AbsOp, AbsInjected, AbsActual, Leaving, CallTest, Accepting,
         Stopped, Decided, MasterOnly, dataVars, workerVars
    <3>2. QED
      BY <3>1, AbsStutter
  <2>4. CASE call.op = "INJECT_TT"
    <3>1. call.tt \in Timetables
      BY <2>1, <2>4, CallFields
    <3>2. Promise!InjectAsync("chain", call.tt)
      BY <1>1, <2>1, <2>4 DEF Promise!InjectAsync, Promise!Stopped, AbsOp, AbsInjected, AbsActual, Leaving, CallTest, Accepting, Stopped,
         Decided, MasterOnly, dataVars, workerVars
    <3>3. QED
      BY <3>1, <3>2 DEF Promise!Next
  <2>5. QED
    BY <2>1, <2>2, <2>3, <2>4, CallFields
<1>2. CASE CallWrite
  <2>1. UNCHANGED AbsVars
    BY <1>2, ChainAssumption DEF AbsVars, AbsOp, AbsInjected, AbsActual, Leaving, CallWrite, Decided,
       Goto, IInv, TypeOK, Threads, CallInv, workerVars
  <2>2. QED
    BY <2>1, AbsStutter
<1>3. CASE ServeFailure
  <2>1. /\ pc["worker"] = "serve" /\ pc' = [pc EXCEPT !["worker"] = pc'["worker"]]
        /\ ~Stopped /\ i # AlgorithmCount
    BY <1>3 DEF ServeFailure, Goto, IInv, StatusInv, Looping, Stopped, TypeOK, Threads
  <2>2. Promise!Fail("chain")
    BY <1>3, <2>1, ServeAlone DEF ServeFailure, Promise!Fail, Promise!Stopped, AbsOp, AbsInjected, AbsActual, Leaving, Stopped, dataVars,
       workerVars
  <2>3. QED
    BY <2>2 DEF Promise!Next, Promise!WorkerStep
<1>4. CASE ServeInterrupt
  <2> DEFINE result == IF succeeded THEN tt[Next_tt] ELSE NoTT
  <2>1. /\ pc["worker"] = "serve" /\ pc' = [pc EXCEPT !["worker"] = pc'["worker"]]
        /\ ~Stopped /\ i # AlgorithmCount
    BY <1>4 DEF ServeInterrupt, Goto, IInv, StatusInv, Looping, Stopped, TypeOK, Threads
  <2>2. result \in Timetables \cup {NoTT} /\ (result = NoTT <=> ~succeeded)
    BY <2>1 DEF IInv, TypeOK, BufferInv, Next_tt
  <2>3. Promise!Iterate("chain", result)
    BY <1>4, <2>1, <2>2, ServeAlone DEF ServeInterrupt, Promise!Iterate, Promise!Stopped, Stopped,
       Interrupted_tt, AbsOp, AbsInjected, AbsActual, Leaving, dataVars, workerVars
  <2>4. QED
    BY <2>2, <2>3 DEF Promise!Next, Promise!WorkerStep
<1>5. CASE ServeAndContinue
  <2> DEFINE result == IF succeeded THEN tt[Next_tt] ELSE NoTT
  <2>1. /\ pc["worker"] = "serve" /\ pc' = [pc EXCEPT !["worker"] = pc'["worker"]]
        /\ ~Stopped /\ i < AlgorithmCount /\ i \in Int
    BY <1>5 DEF ServeAndContinue, Goto, IInv, StatusInv, Looping, Stopped, TypeOK, Threads
  <2>2. result \in Timetables \cup {NoTT} /\ (result = NoTT <=> ~succeeded)
    BY <2>1 DEF IInv, TypeOK, BufferInv, Next_tt
  <2>3. i' = AlgorithmCount => succeeded
    BY <1>5, <2>1, ChainAssumption DEF ServeAndContinue
  <2>4. ~Decided /\ ~Decided'
    BY <2>1, ServeAlone
  <2>5. /\ status' = IF AbsOp = "INTERRUPT" THEN "INTERRUPTED" ELSE status
        /\ AbsOp' = "NONE" /\ AbsOp # "INTERRUPT"
        /\ AbsActual' = IF AbsOp = "INJECT_TT" THEN AbsInjected
                        ELSE IF result = NoTT THEN AbsActual ELSE result
        /\ result = NoTT => AbsOp # "NONE"
        /\ AbsInjected' = AbsInjected
    BY <1>5, <2>1, <2>2, <2>4 DEF ServeAndContinue, Served_tt, Stopped, AbsOp, AbsActual, AbsInjected
  <2>6. /\ Leaving = FALSE /\ Leaving' \in BOOLEAN
        /\ Leaving' => result # NoTT
    BY <2>1, <2>2, <2>3 DEF Leaving
  <2> HIDE DEF result
  <2>7. Promise!Iterate("chain", result)
    <3>1. CASE Leaving' = FALSE
      BY ONLY <2>1, <2>5, <2>6, <3>1 DEF Promise!Iterate, Promise!Stopped, Stopped
    <3>2. CASE Leaving' = TRUE
      BY ONLY <2>1, <2>5, <2>6, <3>2 DEF Promise!Iterate, Promise!Stopped, Stopped
    <3>3. QED
      BY <2>6, <3>1, <3>2
  <2>8. QED
    BY <2>2, <2>7 DEF Promise!Next, Promise!WorkerStep
<1>6. CASE Finish
  <2>1. /\ pc["worker"] = "finish" /\ pc'["master"] = pc["master"]
        /\ ~Stopped /\ i = AlgorithmCount
    BY <1>6, ChainAssumption DEF Finish, Goto, IInv, StatusInv, Stopped, TypeOK, Threads
  <2>2. Promise!Finish("chain")
    BY <1>6, <2>1 DEF Finish, Promise!Finish, Promise!Stopped, AbsOp, AbsInjected, AbsActual, Leaving, Stopped, dataVars, workerVars,
       masterVars, Decided
  <2>3. QED
    BY <2>2 DEF Promise!Next, Promise!WorkerStep
<1>7. CASE \/ CallAlgorithm \/ PollLock \/ PollRead \/ CommitLock \/ CommitWrite
           \/ PluginReturn \/ ServeLock
  <2>1. pc'["master"] = pc["master"]
    BY <1>7, ChainAssumption DEF CallAlgorithm, PollLock, PollRead, CommitLock, CommitWrite,
       PluginReturn, ServeLock, Lock, Goto, IInv, TypeOK, Threads
  <2>2. UNCHANGED <<status, async_op, injected_tt, actual_tt, i, masterVars>>
    BY <1>7 DEF CallAlgorithm, PollLock, PollRead, CommitLock, CommitWrite, PluginReturn, ServeLock,
       Lock, dataVars, workerVars
  <2>3. UNCHANGED AbsVars
    BY <2>1, <2>2 DEF AbsVars, AbsOp, AbsInjected, AbsActual, Leaving, Decided, masterVars
  <2>4. QED
    BY <2>3, AbsStutter
<1>8. CASE \/ ReadyLock \/ ReadyRead \/ CallLock \/ CallRefused \/ CallThrows
           \/ DestroyAwaitStop \/ DestroyJoin \/ ReadyCall \/ CallBegin \/ DestroyBegin
  <2>1. ~Decided /\ ~Decided'
    BY <1>8 DEF ReadyLock, ReadyRead, CallLock, CallRefused, CallThrows, Lock, DestroyAwaitStop,
       DestroyJoin, ReadyCall, CallBegin, DestroyBegin, Goto, IInv, TypeOK, Threads, Decided
  <2>2. UNCHANGED <<status, async_op, injected_tt, actual_tt, i>>
    BY <1>8 DEF ReadyLock, ReadyRead, CallLock, CallRefused, CallThrows, Lock, DestroyAwaitStop,
       DestroyJoin, ReadyCall, CallBegin, DestroyBegin, MasterOnly, dataVars, workerVars
  <2>3. UNCHANGED AbsVars
    BY <2>1, <2>2 DEF AbsVars, AbsOp, AbsInjected, AbsActual, Leaving
  <2>4. QED
    BY <2>3, AbsStutter
<1>9. CASE \E o \in Observers : ObserverLock(o) \/ ObserverGet(o)
  <2>1. pc'["master"] = pc["master"]
    BY <1>9, ChainAssumption DEF ObserverLock, ObserverGet, Lock, Goto, IInv, TypeOK, Threads
  <2>2. UNCHANGED <<status, async_op, injected_tt, actual_tt, i, masterVars>>
    BY <1>9 DEF ObserverLock, ObserverGet, Lock, dataVars, workerVars
  <2>3. UNCHANGED AbsVars
    BY <2>1, <2>2 DEF AbsVars, AbsOp, AbsInjected, AbsActual, Leaving, Decided, masterVars
  <2>4. QED
    BY <2>3, AbsStutter
<1>10. CASE UNCHANGED vars
  <2>1. UNCHANGED AbsVars
    BY <1>10 DEF vars, dataVars, workerVars, masterVars, AbsVars, AbsOp, AbsInjected, AbsActual,
       Leaving, Decided
  <2>2. QED
    BY <2>1, AbsStutter
<1>11. QED
  BY <1>1, <1>2, <1>3, <1>4, <1>5, <1>6, <1>7, <1>8, <1>9, <1>10
     DEF Next, WorkerStep, Serve, MasterStep, InCall

(* The chain, lock by lock, implements the chain whose calls are atomic. *)
THEOREM ChainImplementsChainSpec == Spec => ImplementsChainSpec
<1>1. Init => Promise!Init
  BY ChainAssumption DEF Init, Promise!Init, AbsOp, AbsInjected, AbsActual, Leaving, Decided, Threads
<1>2. IInv /\ [Next]_vars => [Promise!Next]_(Promise!vars)
  BY StepRefines
<1>3. QED
  BY <1>1, <1>2, ChainInvariant, PTL DEF Spec, ImplementsChainSpec, Promise!Spec
=============================================================================
