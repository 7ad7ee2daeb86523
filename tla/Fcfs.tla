--------------------------------- MODULE Fcfs ---------------------------------
(***************************************************************************)
(* swm::FcfsImplementation (plugin-lib/fcfs_implementation.cpp), one call  *)
(* of schedule(): the jobs in their order, each on the nodes that are free *)
(* first, the jobs of a gang shifted to a common start when the next gang  *)
(* begins.  The vector of nodes is sorted by when_free_ whenever it is     *)
(* read, so its order is that of when_free, ties in any order.  Cluster,   *)
(* partition state, resources and pre-set nodes decide which nodes fit a   *)
(* job and nothing else: each job comes with the set of nodes that fit.    *)
(* Times are natural numbers, the code's are 64-bit.                       *)
(***************************************************************************)
EXTENDS Naturals, Sequences, FiniteSets

CONSTANTS JobIds, Nodes, Gangs,
          NoGang,      \* the empty gang id
          Part,        \* the partition of each node
          Inputs       \* [order, job]: the jobs in their order, and what they ask for

Jobs == [queued : BOOLEAN, deps : SUBSET JobIds, gang : Gangs \cup {NoGang}, num : Nat,
         fits : SUBSET Nodes, duration : Nat]

ASSUME FcfsAssumption ==
  /\ NoGang \notin Gangs /\ IsFiniteSet(Nodes)
  /\ \A x \in Inputs : x.order \in Seq(JobIds) /\ x.job \in [JobIds -> Jobs]
  /\ \A x \in Inputs : \A k, l \in DOMAIN x.order : x.order[k] = x.order[l] => k = l

VARIABLES
  order, job,          \* the jobs to schedule: jobs_ref
  i,                   \* the loop's position
  tts,                 \* the timetable of each job, without nodes as long as it has none
  endtimes,            \* jobs_to_endtimes
  when_free,           \* NodeRef::when_free_ of each node
  gang_id, known_gang_ids, gang_nodes, gang_jobs, gang_start_time,
  result               \* what schedule() returned, or "running"

gangVars == <<gang_id, known_gang_ids, gang_nodes, gang_jobs, gang_start_time>>
planVars == <<tts, endtimes, when_free>>
vars == <<order, job, i, planVars, gangVars, result>>

NoTimetable == [start |-> 0, nodes |-> {}]
Scheduled(j) == tts[j].nodes # {}

Init ==
  /\ \E x \in Inputs : order = x.order /\ job = x.job
  /\ i = 1
  /\ tts = [j \in JobIds |-> NoTimetable]
  /\ endtimes = [j \in JobIds |-> 0]
  /\ when_free = [n \in Nodes |-> 0]
  /\ gang_id = NoGang /\ known_gang_ids = {} /\ gang_nodes = {}
  /\ gang_jobs = {} /\ gang_start_time = 0
  /\ result = "running"

-----------------------------------------------------------------------------
\* align_jobs(): the gang's jobs start together, when the last of them can.

Plan == [tts |-> tts, endtimes |-> endtimes, when_free |-> when_free]

Shifted_free_Kept == when_free
Shifted_free ==
  [n \in Nodes |->
     IF \E j \in gang_jobs : n \in tts[j].nodes
     THEN gang_start_time + job[CHOOSE j \in gang_jobs : n \in tts[j].nodes].duration
     ELSE when_free[n]]

Shifted_endtimes ==
  [j \in JobIds |-> IF j \in gang_jobs THEN gang_start_time + job[j].duration ELSE endtimes[j]]

Shifted ==
  [tts |-> [j \in JobIds |->
              IF j \in gang_jobs THEN [start |-> gang_start_time, nodes |-> tts[j].nodes]
              ELSE tts[j]],
   endtimes |-> Shifted_endtimes, when_free |-> Shifted_free]

IsGang_Never == FALSE
IsGang == gang_id # NoGang
Aligned == IF IsGang THEN Shifted ELSE Plan

-----------------------------------------------------------------------------
\* schedule_single_job(): the choice of the nodes

\* The nodes that fit and are not taken by the job's own gang.
Eligible(j, busy) == job[j].fits \ busy

\* The first num nodes, and those that become free together with the last.
Extended_All(nodes, num, free) == nodes
Extended(nodes, num, free) ==
  {n \in nodes : Cardinality({m \in nodes : free[m] < free[n]}) < num}

\* A choice of num of them from the most populated partitions: a partition is
\* used up before a smaller one is touched, its first nodes first.
Chosen(nodes, num, free) ==
  {s \in SUBSET nodes :
    /\ Cardinality(s) = num
    /\ \A n \in s, m \in nodes \ s :
         IF Part[n] = Part[m] THEN free[n] <= free[m]
         ELSE LET InPart(k) == {l \in nodes : Part[l] = Part[k]}
              IN /\ Cardinality(InPart(n)) >= Cardinality(InPart(m))
                 /\ InPart(n) \subseteq s \/ InPart(m) \cap s = {}}

-----------------------------------------------------------------------------
\* The loop of schedule()

Job == order[i]
Iterating == result = "running" /\ i <= Len(order)

\* A dependency has not been scheduled.
MissesDeps(j) == \E d \in job[j].deps : ~Scheduled(d)

Threshold_Ignored(j) == {0}
Threshold(j) == {0} \cup {endtimes[d] : d \in job[j].deps}

KnownGangs(j) == (known_gang_ids \cup {job[j].gang}) \ {NoGang}

NewGang == job[Job].gang # gang_id
RepeatsGang == NewGang /\ job[Job].gang \in known_gang_ids

SkipJob ==
  /\ Iterating
  /\ ~job[Job].queued \/ MissesDeps(Job) \/ RepeatsGang
  /\ i' = i + 1
  /\ UNCHANGED <<order, job, planVars, gangVars, result>>

\* The jobs of the current gang: none at the start of a gang and without one.
Fresh == NewGang \/ job[Job].gang = NoGang
Busy == IF Fresh THEN {} ELSE gang_nodes
Members == IF Fresh THEN {} ELSE gang_jobs
GangStart == IF Fresh THEN 0 ELSE gang_start_time

\* The previous gang is aligned when the next begins.
Base == IF NewGang THEN Aligned ELSE Plan

Considered ==
  /\ Iterating
  /\ job[Job].queued /\ ~MissesDeps(Job) /\ ~RepeatsGang
  /\ i' = i + 1
  /\ gang_id' = job[Job].gang
  /\ known_gang_ids' = KnownGangs(Job)
  /\ UNCHANGED <<order, job, result>>

\* No positive number of nodes is asked for, or not so many are left.
FailJob ==
  /\ Considered
  /\ job[Job].num = 0 \/ job[Job].num > Cardinality(Eligible(Job, Busy))
  /\ tts' = Base.tts /\ endtimes' = Base.endtimes /\ when_free' = Base.when_free
  /\ gang_nodes' = Busy /\ gang_jobs' = Members /\ gang_start_time' = GangStart

Later(x, y) == IF x < y THEN y ELSE x

\* The job gets the nodes s; last is the node of them that is free last, and
\* threshold the time when its dependencies end.
Place(s, last, threshold) ==
  LET start == Later(threshold, Base.when_free[last])
      end == start + job[Job].duration
  IN /\ tts' = [Base.tts EXCEPT ![Job] = [start |-> start, nodes |-> s]]
     /\ endtimes' = [Base.endtimes EXCEPT ![Job] = end]
     /\ when_free' = [n \in Nodes |-> IF n \in s THEN end ELSE Base.when_free[n]]
     /\ gang_nodes' = Busy \cup s
     /\ gang_jobs' = Members \cup {Job}
     /\ gang_start_time' = Later(GangStart, start)

PlaceJob ==
  /\ Considered
  /\ job[Job].num > 0
  /\ LET eligible == Eligible(Job, Busy)
         num == job[Job].num
     IN /\ num <= Cardinality(eligible)
        /\ \E s \in Chosen(Extended(eligible, num, Base.when_free), num, Base.when_free) :
             \E last \in s, threshold \in Threshold(Job) :
               /\ \A n \in s : Base.when_free[n] <= Base.when_free[last]
               /\ \A t \in Threshold(Job) : t <= threshold
               /\ Place(s, last, threshold)

\* events->forced_to_interrupt()
Interrupt ==
  /\ Iterating
  /\ result' = "interrupted"
  /\ UNCHANGED <<order, job, i, planVars, gangVars>>

\* The last gang is aligned.
Finish ==
  /\ result = "running" /\ i > Len(order)
  /\ tts' = Aligned.tts /\ endtimes' = Aligned.endtimes /\ when_free' = Aligned.when_free
  /\ result' = "done"
  /\ UNCHANGED <<order, job, i, gangVars>>

Next == SkipJob \/ FailJob \/ PlaceJob \/ Interrupt \/ Finish

Spec == Init /\ [][Next]_vars

-----------------------------------------------------------------------------
\* Properties

End(j) == tts[j].start + job[j].duration

(* The types of the plan and of the variables of the loop. *)
TypeOK ==
  /\ order \in Seq(JobIds) /\ job \in [JobIds -> Jobs]
  /\ i \in 1..(Len(order) + 1)
  /\ tts \in [JobIds -> [start : Nat, nodes : SUBSET Nodes]]
  /\ endtimes \in [JobIds -> Nat]
  /\ when_free \in [Nodes -> Nat]
  /\ gang_id \in Gangs \cup {NoGang} /\ known_gang_ids \subseteq Gangs
  /\ gang_nodes \subseteq Nodes /\ gang_jobs \subseteq JobIds /\ gang_start_time \in Nat
  /\ result \in {"running", "done", "interrupted"}

(* "Not supports: multiple jobs per node" (fcfs_implementation.h): however gangs
   are shifted after later jobs were considered, two jobs on one node never run
   at the same time. *)
NoDoubleBooking ==
  \A a, b \in JobIds :
    a # b /\ tts[a].nodes \cap tts[b].nodes # {} => End(a) <= tts[b].start \/ End(b) <= tts[a].start

(* The map that later jobs read their dependencies' end from agrees with the
   timetable, also after a gang was shifted. *)
EndTimesCurrent == \A j \in JobIds : Scheduled(j) => endtimes[j] = End(j)

(* In the result the jobs of a gang that could be scheduled start together, on
   nodes of their own. *)
GangStartsTogether ==
  result = "done" =>
    \A a, b \in JobIds :
      Scheduled(a) /\ Scheduled(b) /\ a # b /\ job[a].gang = job[b].gang /\ job[a].gang # NoGang
      => tts[a].start = tts[b].start /\ tts[a].nodes \cap tts[b].nodes = {}

(* "All dependent jobs must already be scheduled": no job is scheduled without
   the jobs it depends on. *)
DependenciesScheduled ==
  \A j \in JobIds : Scheduled(j) => \A d \in job[j].deps : Scheduled(d)

(* A job never starts before the end of a job without a gang it depends on. *)
DependenciesWithoutGang ==
  \A j \in JobIds :
    Scheduled(j) => \A d \in job[j].deps : job[d].gang = NoGang => End(d) <= tts[j].start

(* The preference for the most populated partition costs no time: with any other
   eligible nodes the job would not start earlier. *)
PreferenceIsFree ==
  [][\A j \in JobIds :
       ~Scheduled(j) /\ Scheduled(j)' =>
         \A s \in SUBSET job[j].fits \ {{}} :
           Cardinality(s) = job[j].num /\ s \cap Busy = {} =>
             \E x \in {Base.when_free[n] : n \in s} \cup Threshold(j) : tts'[j].start <= x]_vars

(* fcfs_implementation.cpp: "Check the dependencies": a job starts when the jobs
   it depends on, those of another gang, have ended.  (Violated: the threshold
   is read before the dependency's gang is shifted; see the findings.) *)
DependenciesEndFirst ==
  result = "done" =>
    \A j \in JobIds : Scheduled(j) =>
      \A d \in job[j].deps : job[d].gang # job[j].gang => End(d) <= tts[j].start
=============================================================================
