------------------------------ MODULE FcfsPlan ------------------------------
(***************************************************************************)
(* What FcfsImplementation::schedule() (plugin-lib/fcfs_implementation.cpp)*)
(* makes of the jobs of a command, one after the other in the order they   *)
(* come: which are passed over, which find no room and which get nodes.    *)
(* Which of the nodes that fit a job are free first, and when it starts,   *)
(* is module Fcfs.  A job is a record [id, cluster, count, queued, deps,   *)
(* gang, fits], a timetable one of the job's place, its id and its nodes.  *)
(***************************************************************************)
EXTENDS Integers, FiniteSets

NoGang == ""

\* The position of the loop, gang_id, known_gang_ids, gang_nodes, the timetables so far
\* and nodes_per_cluster_.
NoPlan ==
  [next |-> 0, gang |-> NoGang, known |-> {}, busy |-> {}, tables |-> {}, nodes |-> <<>>]
PlanFor(nodes) == [NoPlan EXCEPT !.next = 1, !.nodes = nodes]

-----------------------------------------------------------------------------
\* A dependency was not scheduled before.
Misses(job, plan) == \E d \in job.deps : \A t \in plan.tables : t.job # d

\* The members of a gang are to come in a row.
BeginsGang(job, plan) == job.gang # plan.gang
Repeats(job, plan) == BeginsGang(job, plan) /\ job.gang \in plan.known

IsPassed_AnyGang(job, plan) == ~job.queued \/ Misses(job, plan)
IsPassed(job, plan) == ~job.queued \/ Misses(job, plan) \/ Repeats(job, plan)

Pass(plan) == [plan EXCEPT !.next = @ + 1]

\* The nodes of the gang's members so far; a gang that begins, and no gang, has none.
BusyFor(job, plan) == IF BeginsGang(job, plan) \/ job.gang = NoGang THEN {} ELSE plan.busy

Consider(job, plan) ==
  [plan EXCEPT !.next = @ + 1, !.gang = job.gang, !.known = (@ \cup {job.gang}) \ {NoGang},
               !.busy = BusyFor(job, plan)]

-----------------------------------------------------------------------------
\* schedule_single_job(): resources, owners and pre-set nodes decide which nodes fit a job.

NodesFor(job, plan) == (plan.nodes[job.cluster] \cap job.fits) \ BusyFor(job, plan)

HasRoom_ForNone(job, plan) ==
  job.cluster \in DOMAIN plan.nodes /\ job.count <= Cardinality(NodesFor(job, plan))
HasRoom(job, plan) ==
  /\ job.count >= 1 /\ job.cluster \in DOMAIN plan.nodes
  /\ job.count <= Cardinality(NodesFor(job, plan))

NodeSets(job, plan) == {s \in SUBSET NodesFor(job, plan) : Cardinality(s) = job.count}

Table(at, job, nodes) == [at |-> at, job |-> job.id, nodes |-> nodes]

GiveNodes(job, plan, s) ==
  [Consider(job, plan) EXCEPT !.busy = @ \cup s,
                              !.tables = @ \cup {Table(plan.next, job, s)}]
=============================================================================
