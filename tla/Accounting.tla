----------------------------- MODULE Accounting -----------------------------
(***************************************************************************)
(* The figures of a request: its TimeCounter and the Metrics that its      *)
(* threads change and clone while the counter is on for them, as           *)
(* Processor, the controllers and the chains do inside TimeCounter::Lock.  *)
(***************************************************************************)
EXTENDS TimeCounter, Metrics

\* Who uses the metrics has a record in the counter.
ASSUME AccountingAssumption == Clients = Threads

accountingVars == <<vars, metricsVars>>

AccountingInit == Init /\ MetricsInit

\* Lock's destructor comes after everything the thread does.
Quiet(t) == event[t] = Nothing /\ t \notin cloning

\* The metrics are registered before the threads that use them begin.
Registers == clock = 0 /\ on = {} /\ sums = <<0, 0>> /\ Construct /\ UNCHANGED vars

Measure(t) ==
  /\ Registered("original") = Ids
  /\ TurnOn(t) \/ AddIdling(t) \/ (TurnOff(t) /\ Quiet(t)) \/ NoteLast(t)
  /\ UNCHANGED metricsVars

Work(t) ==
  /\ t \in on /\ locker # t
  /\ MetricsStep(t)
  /\ UNCHANGED vars

Other == (Reset \/ Tick) /\ UNCHANGED metricsVars

AccountingNext == (\E t \in Threads : Measure(t) \/ Work(t)) \/ Other \/ Registers

AccountingSpec == AccountingInit /\ [][AccountingNext]_accountingVars
=============================================================================
