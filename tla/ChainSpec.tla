------------------------------ MODULE ChainSpec ------------------------------
(***************************************************************************)
(* What swm::Chain promises the threads that manage it, for a set of       *)
(* chains: each call of a chain takes effect in one step, and so does the  *)
(* end of each run of an algorithm.  Chain implements this; the controller *)
(* modules build on it.                                                    *)
(***************************************************************************)
EXTENDS Naturals

CONSTANTS Chains, Timetables, NoTT

VARIABLES status,      \* of each chain: WORKING, INTERRUPTED or FINISHED
          async_op,    \* the operation accepted and not yet served
          injected,    \* the timetable of the last injection accepted
          actual,      \* the actual timetable, or NoTT
          leaving      \* the worker has served operations for the last time

vars == <<status, async_op, injected, actual, leaving>>

Init ==
  /\ status = [c \in Chains |-> "WORKING"]
  /\ async_op = [c \in Chains |-> "NONE"]
  /\ injected = [c \in Chains |-> NoTT]
  /\ actual = [c \in Chains |-> NoTT]
  /\ leaving = [c \in Chains |-> FALSE]

Stopped(c) == status[c] # "WORKING"

\* interrupt_async(): an operation is accepted while the chain works.
InterruptAsync(c) ==
  /\ async_op[c] = "NONE"
  /\ ~Stopped(c)
  /\ async_op' = [async_op EXCEPT ![c] = "INTERRUPT"]
  /\ UNCHANGED <<status, injected, actual, leaving>>

\* inject_timetable_async(): accepted while the chain works; a stopped chain
\* takes the timetable at once.
InjectAsync(c, tt) ==
  /\ async_op[c] = "NONE"
  /\ IF Stopped(c)
     THEN actual' = [actual EXCEPT ![c] = tt] /\ UNCHANGED <<async_op, injected>>
     ELSE /\ async_op' = [async_op EXCEPT ![c] = "INJECT_TT"]
          /\ injected' = [injected EXCEPT ![c] = tt]
          /\ UNCHANGED actual
  /\ UNCHANGED <<status, leaving>>

\* An algorithm failed and no operation explains it.
Fail(c) ==
  /\ ~Stopped(c) /\ ~leaving[c] /\ async_op[c] = "NONE"
  /\ status' = [status EXCEPT ![c] = "INTERRUPTED"]
  /\ UNCHANGED <<async_op, injected, actual, leaving>>

\* An algorithm ended, with a timetable or (NoTT) without one because an
\* operation forced it; the accepted operation is served.
Iterate(c, tt) ==
  /\ ~Stopped(c) /\ ~leaving[c]
  /\ tt = NoTT => async_op[c] # "NONE"
  /\ LET latest == IF tt = NoTT THEN actual[c] ELSE tt
     IN actual' = [actual EXCEPT ![c] = IF async_op[c] = "INJECT_TT" THEN injected[c] ELSE latest]
  /\ status' = [status EXCEPT ![c] = IF async_op[c] = "INTERRUPT" THEN "INTERRUPTED" ELSE @]
  /\ async_op' = [async_op EXCEPT ![c] = "NONE"]
  /\ \/ UNCHANGED leaving
     \/ /\ tt # NoTT /\ async_op[c] # "INTERRUPT"
        /\ leaving' = [leaving EXCEPT ![c] = TRUE]
  /\ UNCHANGED injected

\* The last algorithm has ended: the status changes without the lock, so an
\* operation accepted since then stays unserved.
Finish(c) ==
  /\ ~Stopped(c) /\ leaving[c]
  /\ status' = [status EXCEPT ![c] = "FINISHED"]
  /\ UNCHANGED <<async_op, injected, actual, leaving>>

WorkerStep(c) == Fail(c) \/ Finish(c) \/ \E tt \in Timetables \cup {NoTT} : Iterate(c, tt)

Next ==
  \E c \in Chains :
    \/ WorkerStep(c)
    \/ InterruptAsync(c)
    \/ \E tt \in Timetables : InjectAsync(c, tt)

Spec == Init /\ [][Next]_vars
=============================================================================
