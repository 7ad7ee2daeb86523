----------------------------- MODULE Responses -----------------------------
(***************************************************************************)
(* What a response of Processor becomes on the output (responses.cpp): the *)
(* Erlang term of the scheduler's result, with the number of elements      *)
(* ahead of those of a list and an empty list after them.  A table is a    *)
(* record of a job's place, its id and its nodes, [at, job, nodes].        *)
(***************************************************************************)
EXTENDS Integers, FiniteSets

Failure == [what |-> "failure"]          \* EmptyResponse(false)
NoResponse == [what |-> "none"]

\* TimetableResponse, with the library the timetable is from.
Timetables(tables, by) == [what |-> "timetables", tables |-> tables, by |-> by]

-----------------------------------------------------------------------------
ListTerm(size, elements) == [size |-> size, elements |-> elements, ended |-> size > 0]

\* make_timetables_ei_buffer() passes over a table without nodes.
TimetablesTerm(tables) == ListTerm(Cardinality(tables), {t \in tables : t.nodes # {}})
MetricsTerm(metrics) == ListTerm(Cardinality(metrics), metrics)

\* make_scheduler_result_ei_buffer()
SchedulerResult(tables, metrics, status) ==
  [what |-> "scheduler_result", timetables |-> TimetablesTerm(tables),
   metrics |-> MetricsTerm(metrics), status |-> status]

Unserialized == [what |-> "unserialized"]
NotWritten == [what |-> "nothing"]

\* TimetableResponse::serialize(), of a result without metrics; a buffer that cannot be
\* filled is an error.
Serialized(r) == {SchedulerResult(r.tables, {}, TRUE), Unserialized}

-----------------------------------------------------------------------------
\* The reader takes as many elements as were announced, and the end.
Reads(list, elements) ==
  list.elements = elements /\ list.size = Cardinality(elements) /\ list.ended = (elements # {})
=============================================================================
