------------------------------ MODULE Metrics ------------------------------
(***************************************************************************)
(* swm::util::Metrics (sched-lib/auxl/metrics.cpp): an object's integer    *)
(* and double metrics, each type with a spin lock of its own, and a clone  *)
(* of the object.  The handlers of a metric are called after the lock is   *)
(* released, and a clone takes them with it.                               *)
(***************************************************************************)
EXTENDS Integers, FiniteSets, Functions

CONSTANTS Clients,            \* the threads that use the metrics
          IntIds, DoubleIds,
          Nothing,            \* no event to report
          MaxChanges          \* the bound on updates and resets

VARIABLES
  value,      \* values_ of each object: the value of each registered metric
  handled,    \* the metrics of each object with a handler, the same in all
  event,      \* what each thread has to tell the handlers, or Nothing
  cloning,    \* the threads that have cloned the integers and not the doubles
  changes,    \* the number of updates and resets
  told,       \* for each metric, the changes its handler was told, added up
  base        \* the value of each object's metric when it got its handler

metricsVars == <<value, handled, event, cloning, changes, told, base>>

Ids == IntIds \cup DoubleIds
Objects == {"original", "clone"}
Events == [object : Objects, id : Ids, old : Int, new : Int]
Registered(o) == DOMAIN value[o]

\* The integers and the doubles are apart: their ids are of different maps.
ASSUME MetricsAssumption == IntIds \cap DoubleIds = {} /\ Nothing \notin Events

NoMetrics == [id \in {} |-> 0]
Join(f, g) == [id \in DOMAIN f \cup DOMAIN g |-> IF id \in DOMAIN g THEN g[id] ELSE f[id]]
Part(f, ids) == [id \in DOMAIN f \cap ids |-> f[id]]

MetricsInit ==
  /\ value = [o \in Objects |-> NoMetrics]
  /\ handled = [o \in Objects |-> {}]
  /\ event = [t \in Clients |-> Nothing]
  /\ cloning = {} /\ changes = 0
  /\ told = [id \in Ids |-> 0]
  /\ base = [o \in Objects |-> NoMetrics]

-----------------------------------------------------------------------------
\* What the handlers are told, after a slip it could contain

New_Late(t) == value[event[t].object][event[t].id]
New(t) == event[t].new

-----------------------------------------------------------------------------
\* Registering twice throws, as every operation on what is not registered.

\* register_value()
Register(id) ==
  /\ id \notin Registered("original")
  /\ value' = [value EXCEPT !["original"] = Join(@, [i \in {id} |-> 0])]
  /\ UNCHANGED <<handled, event, cloning, changes, told, base>>

\* add_event_handler(), once for a metric.
AddHandler(id) ==
  /\ id \in Registered("original") \ handled["original"]
  /\ handled' = [handled EXCEPT !["original"] = @ \cup {id}]
  /\ base' = [base EXCEPT !["original"] = Join(@, Part(value["original"], {id}))]
  /\ UNCHANGED <<value, event, cloning, changes, told>>

\* The section of update_value() and reset_value() under the lock.
Change(t, o, id, new) ==
  /\ event[t] = Nothing /\ t \notin cloning
  /\ changes < MaxChanges /\ changes' = changes + 1
  /\ value' = [value EXCEPT ![o][id] = new]
  /\ event' = [event EXCEPT ![t] = IF id \in handled[o]
                                    THEN [object |-> o, id |-> id, old |-> value[o][id], new |-> new]
                                    ELSE Nothing]
  /\ UNCHANGED <<handled, cloning, told, base>>

Update(t, o, id, increment) ==
  id \in Registered(o) /\ Change(t, o, id, value[o][id] + increment)

ResetValue(t, o, id) == id \in Registered(o) /\ Change(t, o, id, 0)

\* The handlers are called, without the lock.
Tell(t) ==
  /\ event[t] # Nothing
  /\ told' = [told EXCEPT ![event[t].id] = @ + New(t) - event[t].old]
  /\ event' = [event EXCEPT ![t] = Nothing]
  /\ UNCHANGED <<value, handled, cloning, changes, base>>

\* Metrics(const Metrics &): one type of metrics after the other.
Copy(ids) ==
  /\ value' = [value EXCEPT !["clone"] = Join(@, Part(value["original"], ids))]
  /\ handled' = [handled EXCEPT !["clone"] = @ \cup (handled["original"] \cap ids)]
  /\ base' = [base EXCEPT !["clone"] = Join(@, Part(value["original"], handled["original"] \cap ids))]
  /\ UNCHANGED <<event, changes, told>>

CloneInts(t) ==
  /\ event[t] = Nothing /\ cloning = {} /\ value["clone"] = NoMetrics
  /\ cloning' = {t}
  /\ Copy(IntIds)

CloneDoubles(t) ==
  /\ t \in cloning
  /\ cloning' = cloning \ {t}
  /\ Copy(DoubleIds)

\* The clone is used when it is complete.
Usable(o) == o = "clone" => cloning = {} /\ value["clone"] # NoMetrics

\* What the constructors of AlgorithmMetrics and ServiceMetrics do, and a plugin that
\* creates a context.
Construct == \E id \in Ids : Register(id) \/ AddHandler(id)

MetricsStep(t) ==
  \/ \E o \in Objects, id \in Ids :
       Usable(o) /\ (Update(t, o, id, 1) \/ ResetValue(t, o, id))
  \/ Tell(t) \/ CloneInts(t) \/ CloneDoubles(t)

-----------------------------------------------------------------------------
\* Properties

Handling(id) == {o \in Objects : id \in handled[o]}
Untold(id) == {t \in Clients : event[t] # Nothing /\ event[t].id = id}

(* Events may come late and out of order, from threads that update a metric at the
   same time, and updates of a clone call the handlers of the original: still the
   changes a handler was told add up to those of the values, and none is lost or
   told twice. *)
EventsExplainValues ==
  \A id \in Ids :
    told[id] + SumFunction([t \in Untold(id) |-> event[t].new - event[t].old])
      = SumFunction([o \in Handling(id) |-> value[o][id] - base[o][id]])
=============================================================================
