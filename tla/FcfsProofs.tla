------------------------------ MODULE FcfsProofs ------------------------------
(***************************************************************************)
(* The invariants of Fcfs, for any jobs, nodes, gangs and partitions.      *)
(* The plan is altered in two ways: a gang is shifted (Aligned), and a job *)
(* is placed on the plan that results (Place).  The invariant is a         *)
(* predicate of a plan, so that each is a lemma of its own.                *)
(***************************************************************************)
EXTENDS Fcfs, FiniteSetTheorems, TLAPS

Plans == [tts : [JobIds -> [start : Nat, nodes : SUBSET Nodes]],
          endtimes : [JobIds -> Nat], when_free : [Nodes -> Nat]]

Ends(p, j) == p.tts[j].start + job[j].duration

\* A node is free when the jobs on it have ended; the map of end times agrees.
Coherent(p) ==
  \A j \in JobIds :
    /\ \A n \in p.tts[j].nodes : Ends(p, j) <= p.when_free[n]
    /\ p.tts[j].nodes # {} => p.endtimes[j] = Ends(p, j)

NoOverlap(p) ==
  \A a, b \in JobIds :
    a # b /\ p.tts[a].nodes \cap p.tts[b].nodes # {} =>
      Ends(p, a) <= p.tts[b].start \/ Ends(p, b) <= p.tts[a].start

\* The members of the gang share no node, and come last on their nodes: a shift
\* to start, later than now, passes nobody.
Shiftable(p, members, nodes, start) ==
  \A g \in members :
    /\ p.tts[g].nodes \subseteq nodes
    /\ p.tts[g].start <= start
    /\ \A j \in JobIds \ {g} :
         p.tts[j].nodes \cap p.tts[g].nodes # {} =>
           j \notin members /\ Ends(p, j) <= p.tts[g].start

DepsMet(p) ==
  \A j \in JobIds :
    p.tts[j].nodes # {} =>
      \A d \in job[j].deps :
        p.tts[d].nodes # {} /\ (job[d].gang = NoGang => Ends(p, d) <= p.tts[j].start)

\* The members are the scheduled jobs of the gang id; other gangs are known.
Grouped(p, id, known, members) ==
  /\ \A g \in members : job[g].gang = id
  /\ id # NoGang => id \in known
  /\ \A j \in JobIds :
       p.tts[j].nodes # {} =>
         /\ job[j].gang \in known \cup {NoGang}
         /\ job[j].gang = id /\ id # NoGang => j \in members

\* The gangs, but for the one still being built, start together.
Together(p, building) ==
  \A a, b \in JobIds :
    /\ p.tts[a].nodes # {} /\ p.tts[b].nodes # {} /\ a # b
    /\ job[a].gang = job[b].gang /\ job[a].gang \notin {NoGang, building}
    => p.tts[a].start = p.tts[b].start /\ p.tts[a].nodes \cap p.tts[b].nodes = {}

OrderOK ==
  /\ \A k, l \in DOMAIN order : order[k] = order[l] => k = l
  /\ \A k \in DOMAIN order : k >= i => tts[order[k]].nodes = {}

PlanOK(p, id, known, members, nodes, start, building) ==
  /\ Coherent(p) /\ NoOverlap(p) /\ DepsMet(p)
  /\ Shiftable(p, members, nodes, start)
  /\ Grouped(p, id, known, members)
  /\ Together(p, building)

IInv ==
  /\ TypeOK
  /\ OrderOK
  /\ PlanOK(Plan, gang_id, known_gang_ids, gang_jobs, gang_nodes, gang_start_time,
            IF result = "done" THEN NoGang ELSE gang_id)

-----------------------------------------------------------------------------
\* What the shift of a gang preserves, and what it establishes.
LEMMA PlanType == TypeOK => Plan \in Plans
BY DEF TypeOK, Plan, Plans

LEMMA AlignedType == TypeOK => Aligned \in Plans
<1> SUFFICES ASSUME TypeOK PROVE Aligned \in Plans
  OBVIOUS
<1>1. \A j \in gang_jobs : gang_start_time + job[j].duration \in Nat
  BY DEF TypeOK, Jobs
<1>2. Shifted_endtimes \in [JobIds -> Nat]
  BY <1>1 DEF TypeOK, Shifted_endtimes
<1>3. Shifted_free \in [Nodes -> Nat]
  <2>1. ASSUME NEW n \in Nodes, \E j \in gang_jobs : n \in tts[j].nodes
        PROVE  gang_start_time + job[CHOOSE j \in gang_jobs : n \in tts[j].nodes].duration \in Nat
    BY <1>1, <2>1
  <2> QED
    BY <2>1 DEF TypeOK, Shifted_free
<1>4. Shifted.tts \in [JobIds -> [start : Nat, nodes : SUBSET Nodes]]
  BY DEF TypeOK, Shifted
<1> QED
  BY <1>2, <1>3, <1>4, PlanType DEF Aligned, Shifted, Plans

\* The members of a shiftable gang are the only ones of it on their nodes.
LEMMA ShiftedFree ==
  ASSUME TypeOK, Shiftable(Plan, gang_jobs, gang_nodes, gang_start_time),
         NEW g \in gang_jobs, NEW n \in tts[g].nodes
  PROVE  Shifted_free[n] = gang_start_time + job[g].duration
<1>1. g \in JobIds /\ n \in Nodes
  BY DEF TypeOK
<1>2. ASSUME NEW h \in gang_jobs, n \in tts[h].nodes PROVE h = g
  <2>1. h \in JobIds
    BY DEF TypeOK
  <2> QED
    BY <1>1, <1>2, <2>1 DEF Shiftable, Plan
<1>3. (CHOOSE j \in gang_jobs : n \in tts[j].nodes) = g
  BY <1>2
<1> QED
  BY <1>1, <1>3 DEF Shifted_free

LEMMA AlignedNodes == ASSUME TypeOK, NEW j \in JobIds
                      PROVE  Aligned.tts[j].nodes = tts[j].nodes
BY DEF TypeOK, Aligned, Shifted, Plan

\* The invariant survives the shift, which completes the gang.
LEMMA AlignedOK ==
  ASSUME TypeOK,
         PlanOK(Plan, gang_id, known_gang_ids, gang_jobs, gang_nodes, gang_start_time, gang_id)
  PROVE  PlanOK(Aligned, gang_id, known_gang_ids, gang_jobs, gang_nodes, gang_start_time, NoGang)
<1>1. CASE ~IsGang
  <2>1. Aligned = Plan /\ gang_id = NoGang
    BY <1>1 DEF Aligned, IsGang
  <2> QED
    BY <2>1
<1>2. CASE IsGang
  <2> DEFINE p == Aligned
  <2>1. p.tts \in [JobIds -> [start : Nat, nodes : SUBSET Nodes]] /\ gang_jobs \subseteq JobIds
    BY AlignedType DEF Plans, TypeOK
  <2>2. /\ Shiftable(Plan, gang_jobs, gang_nodes, gang_start_time)
        /\ Coherent(Plan) /\ NoOverlap(Plan) /\ DepsMet(Plan)
        /\ Grouped(Plan, gang_id, known_gang_ids, gang_jobs) /\ Together(Plan, gang_id)
    BY DEF PlanOK
  <2>3. \A j \in JobIds : p.tts[j].nodes = tts[j].nodes /\ tts[j].nodes \subseteq Nodes
    BY AlignedNodes DEF TypeOK
  <2>4. \A j \in JobIds : /\ tts[j].start \in Nat /\ job[j].duration \in Nat
                         /\ endtimes[j] \in Nat /\ job[j].deps \subseteq JobIds
    BY DEF TypeOK, Jobs
  <2>5. \A g \in gang_jobs : /\ p.tts[g].start = gang_start_time
                            /\ p.endtimes[g] = gang_start_time + job[g].duration
                            /\ tts[g].start <= gang_start_time
    BY <1>2, <2>1, <2>2 DEF Aligned, Shifted, Shifted_endtimes, Shiftable, Plan
  <2>6. \A j \in JobIds \ gang_jobs : p.tts[j] = tts[j] /\ p.endtimes[j] = endtimes[j]
    BY <1>2 DEF Aligned, Shifted, Shifted_endtimes
  <2>7. gang_start_time \in Nat
    BY DEF TypeOK
  <2>8. \A g \in gang_jobs, n \in Nodes :
          n \in tts[g].nodes => p.when_free[n] = gang_start_time + job[g].duration
    BY <1>2, <2>2, ShiftedFree DEF Aligned, Shifted
  <2>9. \A n \in Nodes :
          (\A g \in gang_jobs : n \notin tts[g].nodes) => p.when_free[n] = when_free[n]
    BY <1>2 DEF Aligned, Shifted, Shifted_free
  <2>10. \A g \in gang_jobs, j \in JobIds :
           j # g /\ tts[j].nodes \cap tts[g].nodes # {} =>
             j \notin gang_jobs /\ tts[j].start + job[j].duration <= tts[g].start
    BY <2>2 DEF Shiftable, Plan, Ends
  <2> HIDE DEF p
  <2>11. Coherent(p)
    <3> SUFFICES ASSUME NEW j \in JobIds
                 PROVE  /\ \A n \in tts[j].nodes : Ends(p, j) <= p.when_free[n]
                        /\ tts[j].nodes # {} => p.endtimes[j] = Ends(p, j)
      BY <2>3 DEF Coherent
    <3>1. CASE j \in gang_jobs
      BY <3>1, <2>3, <2>4, <2>5, <2>7, <2>8 DEF Ends
    <3>2. CASE j \notin gang_jobs
      <4>1. p.tts[j] = tts[j] /\ p.endtimes[j] = endtimes[j]
        BY <3>2, <2>6
      <4>2. /\ \A n \in tts[j].nodes : tts[j].start + job[j].duration <= when_free[n]
            /\ tts[j].nodes # {} => endtimes[j] = tts[j].start + job[j].duration
        BY <2>2 DEF Coherent, Plan, Ends
      <4>3. ASSUME NEW n \in tts[j].nodes
            PROVE  tts[j].start + job[j].duration <= p.when_free[n]
        <5>1. CASE \E g \in gang_jobs : n \in tts[g].nodes
          <6>1. PICK g \in gang_jobs : n \in tts[g].nodes
            BY <5>1
          <6>2. tts[j].start + job[j].duration <= tts[g].start
            BY <3>2, <6>1, <2>10
          <6>3. p.when_free[n] = gang_start_time + job[g].duration /\ tts[g].start <= gang_start_time
            BY <6>1, <2>3, <2>5, <2>8
          <6>4. g \in JobIds
            BY <2>1
          <6> QED
            BY <6>2, <6>3, <6>4, <2>4, <2>7
        <5>2. CASE \A g \in gang_jobs : n \notin tts[g].nodes
          BY <5>2, <4>2, <2>3, <2>9
        <5> QED
          BY <5>1, <5>2
      <4> QED
        BY <4>1, <4>2, <4>3 DEF Ends
    <3> QED
      BY <3>1, <3>2
  <2>12. Shiftable(p, gang_jobs, gang_nodes, gang_start_time)
    <3>1. ASSUME NEW g \in gang_jobs
          PROVE  p.tts[g].nodes \subseteq gang_nodes /\ p.tts[g].start <= gang_start_time
      BY <2>1, <2>2, <2>3, <2>5, <2>7 DEF Shiftable, Plan
    <3>2. ASSUME NEW g \in gang_jobs, NEW j \in JobIds \ {g}, p.tts[j].nodes \cap p.tts[g].nodes # {}
          PROVE  j \notin gang_jobs /\ Ends(p, j) <= p.tts[g].start
      <4>1. /\ g \in JobIds /\ j \notin gang_jobs
            /\ tts[j].start + job[j].duration <= tts[g].start
        BY <3>2, <2>1, <2>3, <2>10
      <4> QED
        BY <4>1, <2>4, <2>5, <2>6, <2>7 DEF Ends
    <3> QED
      BY <3>1, <3>2 DEF Shiftable
  <2>13. NoOverlap(p)
    <3> SUFFICES ASSUME NEW a \in JobIds, NEW b \in JobIds, a # b,
                        p.tts[a].nodes \cap p.tts[b].nodes # {}
                 PROVE  Ends(p, a) <= p.tts[b].start \/ Ends(p, b) <= p.tts[a].start
      BY DEF NoOverlap
    <3>1. CASE a \in gang_jobs \/ b \in gang_jobs
      BY <3>1, <2>12 DEF Shiftable
    <3>2. CASE a \notin gang_jobs /\ b \notin gang_jobs
      BY <3>2, <2>2, <2>6 DEF NoOverlap, Plan, Ends
    <3> QED
      BY <3>1, <3>2
  <2>14. DepsMet(p)
    <3> SUFFICES ASSUME NEW j \in JobIds, p.tts[j].nodes # {}, NEW d \in job[j].deps
                 PROVE  p.tts[d].nodes # {} /\ (job[d].gang = NoGang => Ends(p, d) <= p.tts[j].start)
      BY DEF DepsMet
    <3>1. d \in JobIds /\ tts[j].nodes # {}
      BY <2>3, <2>4
    <3>2. /\ tts[d].nodes # {}
          /\ job[d].gang = NoGang => tts[d].start + job[d].duration <= tts[j].start
      BY <3>1, <2>2 DEF DepsMet, Plan, Ends
    <3>3. ASSUME job[d].gang = NoGang PROVE Ends(p, d) <= p.tts[j].start
      <4>1. d \notin gang_jobs
        BY <1>2, <3>3, <2>2 DEF Grouped, IsGang
      <4>2. tts[d].start + job[d].duration <= tts[j].start
        BY <3>2, <3>3
      <4>3. p.tts[j].start = tts[j].start \/ (p.tts[j].start = gang_start_time /\ tts[j].start <= gang_start_time)
        BY <2>5, <2>6
      <4>4. Ends(p, d) = tts[d].start + job[d].duration
        BY <4>1, <3>1, <2>6 DEF Ends
      <4> QED
        BY <4>2, <4>3, <4>4, <3>1, <2>4, <2>7
    <3> QED
      BY <3>1, <3>2, <3>3, <2>3
  <2>15. Grouped(p, gang_id, known_gang_ids, gang_jobs)
    BY <2>2, <2>3 DEF Grouped, Plan
  <2>16. Together(p, NoGang)
    <3> SUFFICES ASSUME NEW a \in JobIds, NEW b \in JobIds,
                        p.tts[a].nodes # {}, p.tts[b].nodes # {}, a # b,
                        job[a].gang = job[b].gang, job[a].gang # NoGang
                 PROVE  p.tts[a].start = p.tts[b].start /\ p.tts[a].nodes \cap p.tts[b].nodes = {}
      BY DEF Together
    <3>1. CASE job[a].gang = gang_id
      <4>1. a \in gang_jobs /\ b \in gang_jobs
        BY <3>1, <2>15 DEF Grouped
      <4> QED
        BY <4>1, <2>5, <2>12 DEF Shiftable
    <3>2. CASE job[a].gang # gang_id
      <4>1. a \notin gang_jobs /\ b \notin gang_jobs
        BY <3>2, <2>15 DEF Grouped
      <4> QED
        BY <4>1, <3>2, <2>2, <2>3, <2>6 DEF Together, Plan
    <3> QED
      BY <3>1, <3>2
  <2> QED
    BY <2>11, <2>12, <2>13, <2>14, <2>15, <2>16 DEF PlanOK, p
<1> QED
  BY <1>1, <1>2

-----------------------------------------------------------------------------
\* The plan a job is placed on, and the gang it joins.
LEMMA BaseOK ==
  ASSUME IInv, Considered
  PROVE  /\ Base \in Plans
         /\ \A j \in JobIds : Base.tts[j].nodes = tts[j].nodes
         /\ \A j \in JobIds : job[j].gang = NoGang => Base.endtimes[j] = endtimes[j]
         /\ Busy \subseteq Nodes /\ Members \subseteq JobIds /\ GangStart \in Nat
         /\ PlanOK(Base, job[Job].gang, KnownGangs(Job), Members, Busy, GangStart, job[Job].gang)
<1> USE FcfsAssumption
<1>1. TypeOK /\ PlanOK(Plan, gang_id, known_gang_ids, gang_jobs, gang_nodes, gang_start_time, gang_id)
  BY DEF IInv, Considered, Iterating
<1>2. PlanOK(Aligned, gang_id, known_gang_ids, gang_jobs, gang_nodes, gang_start_time, NoGang)
  BY <1>1, AlignedOK
<1>3. Base \in Plans
  BY <1>1, PlanType, AlignedType DEF Base
<1>4. \A j \in JobIds : Base.tts[j].nodes = tts[j].nodes
  BY <1>1, AlignedNodes DEF Base, Plan
<1>5. Busy \subseteq Nodes /\ Members \subseteq JobIds /\ GangStart \in Nat
  BY <1>1 DEF TypeOK, Busy, Members, GangStart
<1>6. \A j \in JobIds : job[j].gang = NoGang => Base.endtimes[j] = endtimes[j]
  <2>1. CASE NewGang /\ IsGang
    <3>1. \A g \in gang_jobs : job[g].gang = gang_id
      BY <1>1 DEF PlanOK, Grouped
    <3> QED
      BY <2>1, <3>1 DEF Base, Aligned, Shifted, Shifted_endtimes, IsGang
  <2>2. CASE ~(NewGang /\ IsGang)
    BY <2>2 DEF Base, Aligned, Plan
  <2> QED
    BY <2>1, <2>2
<1>7. NoGang \notin known_gang_ids
  BY <1>1 DEF TypeOK
<1>8. PlanOK(Base, job[Job].gang, KnownGangs(Job), Members, Busy, GangStart, job[Job].gang)
  <2>1. CASE NewGang
    <3>1. Base = Aligned /\ Members = {} /\ job[Job].gang \notin known_gang_ids
      BY <2>1 DEF Base, Members, Fresh, Considered, RepeatsGang
    <3>2. Coherent(Base) /\ NoOverlap(Base) /\ DepsMet(Base)
      BY <1>2, <3>1 DEF PlanOK
    <3>3. Shiftable(Base, Members, Busy, GangStart)
      BY <3>1 DEF Shiftable
    <3>4. Grouped(Base, job[Job].gang, KnownGangs(Job), Members)
      BY <1>2, <3>1, <1>7 DEF PlanOK, Grouped, KnownGangs
    <3>5. Together(Base, job[Job].gang)
      BY <1>2, <3>1 DEF PlanOK, Together
    <3> QED
      BY <3>2, <3>3, <3>4, <3>5 DEF PlanOK
  <2>2. CASE ~NewGang
    <3>1. Base = Plan /\ job[Job].gang = gang_id
      BY <2>2 DEF Base, NewGang
    <3>2. CASE gang_id = NoGang
      <4>1. Members = {}
        BY <3>1, <3>2 DEF Members, Fresh
      <4>2. Shiftable(Base, Members, Busy, GangStart)
        BY <4>1 DEF Shiftable
      <4>3. Grouped(Base, job[Job].gang, KnownGangs(Job), Members)
        BY <1>1, <3>1, <3>2, <4>1 DEF PlanOK, Grouped, KnownGangs
      <4> QED
        BY <1>1, <3>1, <4>2, <4>3 DEF PlanOK
    <3>3. CASE gang_id # NoGang
      <4>1. ~Fresh
        BY <2>2, <3>1, <3>3 DEF Fresh
      <4>2. Members = gang_jobs /\ Busy = gang_nodes /\ GangStart = gang_start_time
        BY <4>1 DEF Members, Busy, GangStart
      <4>3. KnownGangs(Job) = known_gang_ids
        BY <1>1, <1>7, <3>1, <3>3 DEF PlanOK, Grouped, KnownGangs
      <4> QED
        BY <1>1, <3>1, <4>2, <4>3
    <3> QED
      BY <3>2, <3>3
  <2> QED
    BY <2>1, <2>2
<1> QED
  BY <1>3, <1>4, <1>5, <1>6, <1>8

\* A job without a timetable gets nodes its gang has not, free when it starts.
LEMMA PlacedOK ==
  ASSUME TypeOK, NEW p \in Plans, NEW x \in JobIds, NEW known, NEW members \in SUBSET JobIds,
         NEW nodes, NEW start \in Nat, NEW s \in SUBSET Nodes, NEW at \in Nat,
         PlanOK(p, job[x].gang, known, members, nodes, start, job[x].gang),
         p.tts[x].nodes = {}, s # {}, s \cap nodes = {},
         job[x].gang \in known \cup {NoGang},
         \A n \in s : p.when_free[n] <= at,
         \A d \in job[x].deps :
           p.tts[d].nodes # {} /\ (job[d].gang = NoGang => Ends(p, d) <= at),
         NEW q \in Plans,
         q.tts = [p.tts EXCEPT ![x] = [start |-> at, nodes |-> s]],
         q.endtimes = [p.endtimes EXCEPT ![x] = at + job[x].duration],
         q.when_free = [n \in Nodes |-> IF n \in s THEN at + job[x].duration ELSE p.when_free[n]]
  PROVE  PlanOK(q, job[x].gang, known, members \cup {x}, nodes \cup s, Later(start, at),
                job[x].gang)
<1>1. /\ Shiftable(p, members, nodes, start) /\ Coherent(p) /\ NoOverlap(p) /\ DepsMet(p)
      /\ Grouped(p, job[x].gang, known, members) /\ Together(p, job[x].gang)
  BY DEF PlanOK
<1>2. \A j \in JobIds : /\ p.tts[j].start \in Nat /\ job[j].duration \in Nat
                       /\ p.tts[j].nodes \subseteq Nodes /\ job[j].deps \subseteq JobIds
  BY DEF TypeOK, Jobs, Plans
<1>3. /\ q.tts[x].start = at /\ q.tts[x].nodes = s /\ q.endtimes[x] = at + job[x].duration
      /\ \A j \in JobIds \ {x} : q.tts[j] = p.tts[j] /\ q.endtimes[j] = p.endtimes[j]
  BY DEF Plans
<1>4. \A n \in Nodes :
        /\ p.when_free[n] \in Nat
        /\ n \in s => q.when_free[n] = at + job[x].duration
        /\ n \notin s => q.when_free[n] = p.when_free[n]
  BY DEF Plans
<1>5. \A j \in JobIds : p.tts[j].nodes \cap s # {} => p.tts[j].start + job[j].duration <= at
  <2> SUFFICES ASSUME NEW j \in JobIds, NEW n \in Nodes, n \in p.tts[j].nodes, n \in s
               PROVE  p.tts[j].start + job[j].duration <= at
    BY <1>2
  <2>1. p.tts[j].start + job[j].duration <= p.when_free[n]
    BY <1>1 DEF Coherent, Ends
  <2>2. p.when_free[n] <= at
    OBVIOUS
  <2> DEFINE free == p.when_free[n]
             end == p.tts[j].start + job[j].duration
  <2>3. free \in Nat /\ end \in Nat
    <3>1. p.tts[j].start \in Nat /\ job[j].duration \in Nat
      BY <1>2
    <3>2. end \in Nat
      BY ONLY <3>1
    <3>3. free \in Nat
      BY ONLY p \in Plans, n \in Nodes DEF Plans
    <3> QED
      BY <3>2, <3>3
  <2>4. end <= free /\ free <= at
    BY <2>1, <2>2
  <2> HIDE DEF free, end
  <2>5. end <= at
    BY ONLY <2>3, <2>4, at \in Nat
  <2> QED
    BY <2>5 DEF end
<1>6. Coherent(q)
  <2> SUFFICES ASSUME NEW j \in JobIds
               PROVE  /\ \A n \in q.tts[j].nodes : Ends(q, j) <= q.when_free[n]
                      /\ q.tts[j].nodes # {} => q.endtimes[j] = Ends(q, j)
    BY DEF Coherent
  <2>1. CASE j = x
    BY <2>1, <1>2, <1>3, <1>4 DEF Ends
  <2>2. CASE j # x
    <3>1. q.tts[j] = p.tts[j] /\ q.endtimes[j] = p.endtimes[j]
      BY <2>2, <1>3
    <3>2. ASSUME NEW n \in p.tts[j].nodes PROVE p.tts[j].start + job[j].duration <= q.when_free[n]
      <4>1. p.tts[j].start + job[j].duration <= p.when_free[n] /\ n \in Nodes
        BY <1>1, <1>2 DEF Coherent, Ends
      <4>2. CASE n \in s
        BY <4>1, <4>2, <1>2, <1>4, <1>5
      <4>3. CASE n \notin s
        BY <4>1, <4>3, <1>4
      <4> QED
        BY <4>2, <4>3
    <3> QED
      BY <1>1, <3>1, <3>2 DEF Coherent, Ends
  <2> QED
    BY <2>1, <2>2
<1>7. Shiftable(q, members \cup {x}, nodes \cup s, Later(start, at))
  <2>1. Later(start, at) \in Nat /\ start <= Later(start, at) /\ at <= Later(start, at)
    BY DEF Later
  <2> SUFFICES ASSUME NEW g \in members \cup {x}
               PROVE  /\ q.tts[g].nodes \subseteq nodes \cup s
                      /\ q.tts[g].start <= Later(start, at)
                      /\ \A j \in JobIds \ {g} :
                           q.tts[j].nodes \cap q.tts[g].nodes # {} =>
                             j \notin members \cup {x} /\ Ends(q, j) <= q.tts[g].start
    BY DEF Shiftable
  <2>2. CASE g = x
    <3>1. q.tts[g].nodes \subseteq nodes \cup s /\ q.tts[g].start <= Later(start, at)
      BY <2>1, <2>2, <1>3
    <3>2. ASSUME NEW j \in JobIds \ {x}, q.tts[j].nodes \cap s # {}
          PROVE  j \notin members \cup {x} /\ Ends(q, j) <= at
      <4>1. q.tts[j] = p.tts[j]
        BY <1>3
      <4>2. j \notin members
        BY <3>2, <4>1, <1>1 DEF Shiftable
      <4> QED
        BY <3>2, <4>1, <4>2, <1>5 DEF Ends
    <3> QED
      BY <2>2, <3>1, <3>2, <1>3
  <2>3. CASE g # x
    <3>1. /\ g \in members /\ g \in JobIds /\ q.tts[g] = p.tts[g]
          /\ p.tts[g].nodes \subseteq nodes /\ p.tts[g].start <= start
      BY <2>3, <1>1, <1>3 DEF Shiftable
    <3>2. ASSUME NEW j \in JobIds \ {g}, q.tts[j].nodes \cap p.tts[g].nodes # {}
          PROVE  j \notin members \cup {x} /\ Ends(q, j) <= p.tts[g].start
      <4>1. j # x
        BY <3>1, <3>2, <1>3
      <4>2. q.tts[j] = p.tts[j]
        BY <4>1, <1>3
      <4> QED
        BY <3>1, <3>2, <4>1, <4>2, <1>1 DEF Shiftable, Ends
    <3> QED
      BY <2>1, <3>1, <3>2, <1>2
  <2> QED
    BY <2>2, <2>3
<1>8. NoOverlap(q)
  <2> SUFFICES ASSUME NEW a \in JobIds, NEW b \in JobIds, a # b,
                      q.tts[a].nodes \cap q.tts[b].nodes # {}
               PROVE  Ends(q, a) <= q.tts[b].start \/ Ends(q, b) <= q.tts[a].start
    BY DEF NoOverlap
  <2>1. CASE a = x \/ b = x
    BY <2>1, <1>7 DEF Shiftable
  <2>2. CASE a # x /\ b # x
    BY <2>2, <1>1, <1>3 DEF NoOverlap, Ends
  <2> QED
    BY <2>1, <2>2
<1>9. DepsMet(q)
  <2> SUFFICES ASSUME NEW j \in JobIds, q.tts[j].nodes # {}, NEW d \in job[j].deps
               PROVE  q.tts[d].nodes # {} /\ (job[d].gang = NoGang => Ends(q, d) <= q.tts[j].start)
    BY DEF DepsMet
  <2>1. d \in JobIds
    BY <1>2
  <2>2. CASE j = x
    <3>1. p.tts[d].nodes # {} /\ (job[d].gang = NoGang => Ends(p, d) <= at)
      BY <2>2
    <3> QED
      BY <2>1, <2>2, <3>1, <1>3 DEF Ends
  <2>3. CASE j # x
    <3>1. p.tts[d].nodes # {} /\ (job[d].gang = NoGang => Ends(p, d) <= p.tts[j].start)
      BY <2>3, <1>1, <1>3 DEF DepsMet
    <3> QED
      BY <2>1, <2>3, <3>1, <1>3 DEF Ends
  <2> QED
    BY <2>2, <2>3
<1>10. Grouped(q, job[x].gang, known, members \cup {x})
  BY <1>1, <1>3 DEF Grouped
<1>11. Together(q, job[x].gang)
  BY <1>1, <1>3 DEF Together
<1> QED
  BY <1>6, <1>7, <1>8, <1>9, <1>10, <1>11 DEF PlanOK

-----------------------------------------------------------------------------
\* The steps.
LEMMA InitOK == Init => IInv
<1> SUFFICES ASSUME Init PROVE IInv
  OBVIOUS
<1> USE FcfsAssumption
<1>1. PICK x \in Inputs : order = x.order /\ job = x.job
  BY DEF Init
<1>2. /\ order \in Seq(JobIds) /\ job \in [JobIds -> Jobs]
      /\ \A k, l \in DOMAIN order : order[k] = order[l] => k = l
  BY <1>1
<1>3. Len(order) \in Nat
  BY <1>2
<1>4. i \in 1..(Len(order) + 1)
  BY <1>3 DEF Init
<1>5. TypeOK
  BY <1>2, <1>4 DEF Init, TypeOK, NoTimetable
<1>6. \A j \in JobIds : tts[j] = NoTimetable
  BY DEF Init
<1>7. OrderOK
  BY <1>2, <1>6 DEF OrderOK, NoTimetable
<1>8. PlanOK(Plan, gang_id, known_gang_ids, gang_jobs, gang_nodes, gang_start_time, gang_id)
  <2>1. gang_jobs = {} /\ gang_id = NoGang /\ \A j \in JobIds : Plan.tts[j].nodes = {}
    BY <1>6 DEF Init, Plan, NoTimetable
  <2> QED
    BY <2>1 DEF PlanOK, Coherent, NoOverlap, DepsMet, Shiftable, Grouped, Together
<1> QED
  BY <1>5, <1>7, <1>8 DEF IInv, Init

\* The loop's job, and what is left of the order after it.
LEMMA LoopJob ==
  ASSUME TypeOK, OrderOK, Iterating
  PROVE  /\ Job \in JobIds /\ job[Job] \in Jobs /\ tts[Job].nodes = {}
         /\ i + 1 \in 1..(Len(order) + 1)
         /\ \A k \in DOMAIN order : k >= i + 1 => k >= i /\ order[k] # Job
<1>1. Len(order) \in Nat /\ DOMAIN order = 1..Len(order) /\ i \in 1..(Len(order) + 1)
  BY DEF TypeOK
<1>2. i \in DOMAIN order /\ i + 1 \in 1..(Len(order) + 1)
  BY <1>1 DEF Iterating
<1>3. Job \in JobIds
  BY <1>2 DEF TypeOK, Job
<1>4. i >= i
  BY <1>1
<1>5. ASSUME NEW k \in DOMAIN order, k >= i + 1 PROVE k >= i /\ order[k] # Job
  <2>1. k \in Nat /\ k >= i /\ k # i
    BY <1>1, <1>5
  <2> QED
    BY <1>2, <2>1 DEF OrderOK, Job
<1> QED
  BY <1>2, <1>3, <1>4, <1>5 DEF OrderOK, TypeOK, Job

LEMMA SkipStep == ASSUME IInv, SkipJob PROVE IInv'
<1>1. TypeOK /\ OrderOK /\ Iterating
  BY DEF IInv, SkipJob
<1>2. TypeOK'
  BY <1>1, LoopJob DEF TypeOK, SkipJob, planVars, gangVars
<1>3. OrderOK'
  BY <1>1, LoopJob DEF OrderOK, SkipJob, planVars
<1>4. UNCHANGED <<job, planVars, gangVars, result>>
  BY DEF SkipJob
<1> QED
  BY <1>2, <1>3, <1>4 DEF IInv, PlanOK, Coherent, NoOverlap, DepsMet, Shiftable, Grouped, Together,
     Plan, Ends, planVars, gangVars

\* A considered job, on the plan q that the step leaves.
LEMMA ConsideredStep ==
  ASSUME IInv, Considered, NEW q \in Plans,
         tts' = q.tts, endtimes' = q.endtimes, when_free' = q.when_free,
         gang_nodes' \subseteq Nodes, gang_jobs' \subseteq JobIds, gang_start_time' \in Nat,
         \A j \in JobIds \ {Job} : q.tts[j].nodes = tts[j].nodes,
         PlanOK(q, job[Job].gang, KnownGangs(Job), gang_jobs', gang_nodes', gang_start_time',
                job[Job].gang)
  PROVE  IInv'
<1>1. TypeOK /\ OrderOK /\ Iterating
  BY DEF IInv, Considered
<1>2. TypeOK'
  <2>1. i' \in 1..(Len(order') + 1)
    BY <1>1, LoopJob DEF Considered
  <2>2. gang_id' \in Gangs \cup {NoGang} /\ known_gang_ids' \subseteq Gangs
    BY <1>1, LoopJob DEF Considered, KnownGangs, TypeOK, Jobs
  <2>3. UNCHANGED <<order, job, result>>
    BY DEF Considered
  <2> QED
    BY <1>1, <2>1, <2>2, <2>3 DEF TypeOK, Plans
<1>3. OrderOK'
  <2>1. order' = order /\ i' = i + 1
    BY DEF Considered
  <2>2. ASSUME NEW k \in DOMAIN order, k >= i + 1 PROVE tts'[order[k]].nodes = {}
    <3>1. k >= i /\ order[k] # Job /\ order[k] \in JobIds
      BY <1>1, <2>2, LoopJob DEF TypeOK
    <3>2. tts[order[k]].nodes = {}
      BY <1>1, <3>1 DEF OrderOK
    <3> QED
      BY <3>1, <3>2
  <2> QED
    BY <1>1, <2>1, <2>2 DEF OrderOK
<1>4. /\ job' = job /\ result' = "running"
      /\ gang_id' = job[Job].gang /\ known_gang_ids' = KnownGangs(Job)
  BY DEF Considered, Iterating
<1>5. Plan' = q
  BY DEF Plan, Plans
<1>6. PlanOK(Plan, gang_id, known_gang_ids, gang_jobs, gang_nodes, gang_start_time, gang_id)'
  BY <1>4, <1>5 DEF PlanOK, Coherent, NoOverlap, DepsMet, Shiftable, Grouped, Together, Ends
<1> QED
  BY <1>2, <1>3, <1>4, <1>6 DEF IInv

LEMMA FailStep == ASSUME IInv, FailJob PROVE IInv'
<1>1. Considered
  BY DEF FailJob
<1>2. /\ tts' = Base.tts /\ endtimes' = Base.endtimes /\ when_free' = Base.when_free
      /\ gang_nodes' = Busy /\ gang_jobs' = Members /\ gang_start_time' = GangStart
  BY DEF FailJob
<1> QED
  BY <1>1, <1>2, BaseOK, ConsideredStep

LEMMA PlaceStep == ASSUME IInv, PlaceJob PROVE IInv'
<1>1. Considered
  BY DEF PlaceJob
<1>2. TypeOK /\ OrderOK /\ Iterating
  BY <1>1 DEF IInv, Considered
<1>3. /\ Job \in JobIds /\ job[Job] \in Jobs /\ tts[Job].nodes = {}
      /\ job[Job].duration \in Nat /\ job[Job].deps \subseteq JobIds /\ job[Job].fits \subseteq Nodes
      /\ job[Job].gang \in Gangs \cup {NoGang}
  BY <1>2, LoopJob DEF Jobs
<1>s. PICK s \in SUBSET Eligible(Job, Busy) :
        \E last \in s, threshold \in Threshold(Job) :
          /\ \A n \in s : Base.when_free[n] <= Base.when_free[last]
          /\ \A t \in Threshold(Job) : t <= threshold
          /\ Place(s, last, threshold)
  BY DEF PlaceJob, Chosen, Extended
<1>4. PICK last \in s, threshold \in Threshold(Job) :
        /\ \A n \in s : Base.when_free[n] <= Base.when_free[last]
        /\ \A t \in Threshold(Job) : t <= threshold
        /\ Place(s, last, threshold)
  BY <1>s
<1>5. s \in SUBSET Nodes /\ s \cap Busy = {} /\ s # {}
  BY <1>3, <1>4 DEF Eligible
<1>6. threshold \in Nat /\ \A d \in job[Job].deps : endtimes[d] \in Nat /\ endtimes[d] <= threshold
  BY <1>2, <1>3, <1>4 DEF Threshold, TypeOK
<1>7. \A n \in s : Base.when_free[n] \in Nat
  BY <1>1, <1>5, BaseOK DEF Plans
<1> DEFINE at == Later(threshold, Base.when_free[last])
<1>8. at \in Nat /\ threshold <= at /\ Base.when_free[last] <= at
  BY <1>4, <1>6, <1>7 DEF Later
<1> DEFINE q == [tts |-> tts', endtimes |-> endtimes', when_free |-> when_free']
<1>9. /\ q.tts = [Base.tts EXCEPT ![Job] = [start |-> at, nodes |-> s]]
      /\ q.endtimes = [Base.endtimes EXCEPT ![Job] = at + job[Job].duration]
      /\ q.when_free = [n \in Nodes |-> IF n \in s THEN at + job[Job].duration ELSE Base.when_free[n]]
      /\ gang_nodes' = Busy \cup s /\ gang_jobs' = Members \cup {Job}
      /\ gang_start_time' = Later(GangStart, at)
  BY <1>4 DEF Place
<1> HIDE DEF at
<1>10. q \in Plans
  <2>1. at + job[Job].duration \in Nat
    BY <1>3, <1>8
  <2>2. Base \in Plans
    BY <1>1, BaseOK
  <2>3. q.tts \in [JobIds -> [start : Nat, nodes : SUBSET Nodes]]
    BY <1>5, <1>8, <1>9, <2>2 DEF Plans
  <2>4. q.endtimes \in [JobIds -> Nat]
    BY <1>9, <2>1, <2>2 DEF Plans
  <2>5. q.when_free \in [Nodes -> Nat]
    BY <1>9, <2>1, <2>2 DEF Plans
  <2> QED
    BY <2>3, <2>4, <2>5 DEF Plans
<1>11. \A n \in s : Base.when_free[n] <= at
  BY <1>4, <1>7, <1>8
<1>12. ASSUME NEW d \in job[Job].deps
       PROVE  Base.tts[d].nodes # {} /\ (job[d].gang = NoGang => Ends(Base, d) <= at)
  <2>1. d \in JobIds /\ tts[d].nodes # {}
    BY <1>1, <1>3 DEF Considered, MissesDeps, Scheduled
  <2>2. Base.tts[d].nodes # {}
    BY <1>1, <2>1, BaseOK
  <2>3. ASSUME job[d].gang = NoGang PROVE Ends(Base, d) <= at
    <3>1. Base.endtimes[d] = endtimes[d] /\ Base.endtimes[d] = Ends(Base, d)
      BY <1>1, <2>1, <2>2, <2>3, BaseOK DEF PlanOK, Coherent
    <3>2. endtimes[d] \in Nat /\ endtimes[d] <= threshold
      BY <1>6
    <3>3. endtimes[d] <= at
      BY ONLY <3>2, <1>6, <1>8
    <3> QED
      BY <3>1, <3>3
  <2> QED
    BY <2>2, <2>3
<1>13. job[Job].gang \in KnownGangs(Job) \cup {NoGang}
  BY <1>3 DEF KnownGangs
<1>14. Base.tts[Job].nodes = {}
  BY <1>1, <1>3, BaseOK
<1> DEFINE start == Later(GangStart, at)
<1>15. PlanOK(q, job[Job].gang, KnownGangs(Job), Members \cup {Job}, Busy \cup s, start, job[Job].gang)
  <2> HIDE DEF q
  <2> QED
    BY <1>1, <1>2, <1>3, <1>5, <1>8, <1>9, <1>10, <1>11, <1>12, <1>13, <1>14, BaseOK, PlacedOK
<1>16. start \in Nat
  BY <1>1, <1>8, BaseOK DEF Later
<1>17. \A j \in JobIds \ {Job} : q.tts[j].nodes = tts[j].nodes
  BY <1>1, <1>9, BaseOK DEF Plans
<1>18. gang_nodes' \subseteq Nodes /\ gang_jobs' \subseteq JobIds
  BY <1>1, <1>3, <1>5, <1>9, BaseOK
<1>19. tts' = q.tts /\ endtimes' = q.endtimes /\ when_free' = q.when_free
  OBVIOUS
<1> HIDE DEF q, start
<1> QED
  BY <1>1, <1>9, <1>10, <1>15, <1>16, <1>17, <1>18, <1>19, ConsideredStep DEF start

LEMMA InterruptStep == ASSUME IInv, Interrupt PROVE IInv'
<1>1. UNCHANGED <<order, job, i, planVars, gangVars>> /\ result = "running" /\ result' = "interrupted"
  BY DEF Interrupt, Iterating
<1>2. TypeOK' /\ OrderOK'
  BY <1>1 DEF IInv, TypeOK, OrderOK, planVars, gangVars
<1> QED
  BY <1>1, <1>2 DEF IInv, PlanOK, Coherent, NoOverlap, DepsMet, Shiftable, Grouped, Together,
     Plan, Ends, planVars, gangVars

LEMMA FinishStep == ASSUME IInv, Finish PROVE IInv'
<1>1. /\ UNCHANGED <<order, job, i, gangVars>> /\ result = "running" /\ result' = "done"
      /\ tts' = Aligned.tts /\ endtimes' = Aligned.endtimes /\ when_free' = Aligned.when_free
  BY DEF Finish
<1>2. TypeOK /\ OrderOK /\ Aligned \in Plans
  BY AlignedType DEF IInv
<1>3. TypeOK'
  BY <1>1, <1>2 DEF TypeOK, Plans, gangVars
<1>4. OrderOK'
  <2>1. \A k \in DOMAIN order : order[k] \in JobIds
    BY <1>2 DEF TypeOK
  <2> QED
    BY <1>1, <1>2, <2>1, AlignedNodes DEF OrderOK
<1>5. PlanOK(Aligned, gang_id, known_gang_ids, gang_jobs, gang_nodes, gang_start_time, NoGang)
  BY <1>1, AlignedOK DEF IInv
<1>6. Plan' = Aligned
  BY <1>1, <1>2 DEF Plan, Plans
<1>7. PlanOK(Plan, gang_id, known_gang_ids, gang_jobs, gang_nodes, gang_start_time, NoGang)'
  BY <1>1, <1>5, <1>6 DEF PlanOK, Coherent, NoOverlap, DepsMet, Shiftable, Grouped, Together, Ends,
     gangVars
<1> QED
  BY <1>1, <1>3, <1>4, <1>7 DEF IInv

(* The plan is coherent at every point of the loop: on every node the jobs end
   before it is free, gangs can be shifted, dependencies are met. *)
THEOREM FcfsInvariant == Spec => []IInv
<1>1. ASSUME IInv, [Next]_vars PROVE IInv'
  <2>1. CASE UNCHANGED vars
    BY <1>1, <2>1 DEF IInv, TypeOK, OrderOK, PlanOK, Coherent, NoOverlap, DepsMet, Shiftable,
       Grouped, Together, Plan, Ends, vars, planVars, gangVars
  <2> QED
    BY <1>1, <2>1, SkipStep, FailStep, PlaceStep, InterruptStep, FinishStep DEF Next
<1> QED
  BY <1>1, InitOK, PTL DEF Spec

(* The plan and the loop's variables have their types. *)
THEOREM FcfsTypes == Spec => []TypeOK
<1>1. IInv => TypeOK
  BY DEF IInv
<1> QED
  BY <1>1, FcfsInvariant, PTL

(* No node ever runs two jobs at a time. *)
THEOREM FcfsNoDoubleBooking == Spec => []NoDoubleBooking
<1>1. IInv => NoDoubleBooking
  BY DEF IInv, PlanOK, NoOverlap, NoDoubleBooking, Plan, Ends, End
<1> QED
  BY <1>1, FcfsInvariant, PTL

(* The end times that dependent jobs read are those of the timetable. *)
THEOREM FcfsEndTimesCurrent == Spec => []EndTimesCurrent
<1>1. IInv => EndTimesCurrent
  BY DEF IInv, PlanOK, Coherent, EndTimesCurrent, Scheduled, Plan, Ends, End
<1> QED
  BY <1>1, FcfsInvariant, PTL

(* In the result the scheduled jobs of a gang start together, on nodes of their own. *)
THEOREM FcfsGangStartsTogether == Spec => []GangStartsTogether
<1>1. IInv => GangStartsTogether
  BY DEF IInv, PlanOK, Together, GangStartsTogether, Scheduled, Plan
<1> QED
  BY <1>1, FcfsInvariant, PTL

(* A scheduled job's dependencies are scheduled too. *)
THEOREM FcfsDependenciesScheduled == Spec => []DependenciesScheduled
<1>1. IInv => DependenciesScheduled
  BY DEF IInv, PlanOK, DepsMet, DependenciesScheduled, Scheduled, Plan
<1> QED
  BY <1>1, FcfsInvariant, PTL

(* A job starts when the jobs without a gang it depends on have ended. *)
THEOREM FcfsDependenciesWithoutGang == Spec => []DependenciesWithoutGang
<1>1. IInv => DependenciesWithoutGang
  BY DEF IInv, PlanOK, DepsMet, DependenciesWithoutGang, Scheduled, Plan, Ends, End
<1> QED
  BY <1>1, FcfsInvariant, PTL

-----------------------------------------------------------------------------
\* The choice of the nodes

\* As many nodes as were chosen are not all free before one of the chosen.
LEMMA NoneMuchEarlier ==
  ASSUME NEW nodes \in SUBSET Nodes, NEW num \in Nat, NEW free \in [Nodes -> Nat],
         NEW last \in Extended(nodes, num, free),
         NEW s \in SUBSET nodes, Cardinality(s) = num
  PROVE  \E n \in s : free[last] <= free[n]
<1> DEFINE earlier == {m \in nodes : free[m] < free[last]}
<1> SUFFICES ASSUME \A n \in s : ~(free[last] <= free[n]) PROVE FALSE
  OBVIOUS
<1>1. last \in nodes /\ Cardinality(earlier) < num
  BY DEF Extended
<1>2. s \subseteq earlier
  BY <1>1
<1>3. IsFiniteSet(earlier)
  BY FcfsAssumption, FS_Subset
<1>4. Cardinality(s) <= Cardinality(earlier) /\ Cardinality(earlier) \in Nat
  BY <1>2, <1>3, FS_Subset, FS_CardinalityType
<1> QED
  BY <1>1, <1>4

(* No other choice of the nodes would let a job start earlier. *)
THEOREM FcfsPreferenceIsFree == Spec => PreferenceIsFree
<1> DEFINE Free == \A j \in JobIds :
             ~Scheduled(j) /\ Scheduled(j)' =>
               \A s \in SUBSET job[j].fits \ {{}} :
                 Cardinality(s) = job[j].num /\ s \cap Busy = {} =>
                   \E x \in {Base.when_free[n] : n \in s} \cup Threshold(j) : tts'[j].start <= x
<1>1. ASSUME IInv, [Next]_vars PROVE [Free]_vars
  <2> SUFFICES ASSUME Next, NEW j \in JobIds, ~Scheduled(j), Scheduled(j)',
                      NEW s \in SUBSET job[j].fits, Cardinality(s) = job[j].num, s \cap Busy = {}
               PROVE  \E x \in {Base.when_free[n] : n \in s} \cup Threshold(j) : tts'[j].start <= x
    BY <1>1
  <2>1. TypeOK
    BY <1>1 DEF IInv
  <2>2. Base.tts[j].nodes = {} /\ Aligned.tts[j].nodes = {} /\ tts[j].nodes = {}
    BY <2>1, AlignedNodes DEF Base, Plan, Scheduled
  <2>3. PlaceJob
    BY <2>2 DEF Next, SkipJob, FailJob, Interrupt, Finish, planVars, Scheduled
  <2>4. Considered
    BY <2>3 DEF PlaceJob
  <2>5. OrderOK /\ Iterating
    BY <1>1, <2>4 DEF IInv, Considered
  <2>6. job[Job].num \in Nat /\ job[Job].fits \subseteq Nodes /\ job[Job].deps \subseteq JobIds
    BY <2>1, <2>5, LoopJob DEF Jobs
  <2>7. Base \in Plans
    BY <1>1, <2>4, BaseOK
  <2> DEFINE eligible == Eligible(Job, Busy)
             free == Base.when_free
  <2>8. PICK chosen \in SUBSET Extended(eligible, job[Job].num, free) :
          \E last \in chosen, threshold \in Threshold(Job) : Place(chosen, last, threshold)
    BY <2>3, Zenon DEF PlaceJob, Chosen
  <2>9. PICK last \in chosen, threshold \in Threshold(Job) : Place(chosen, last, threshold)
    BY <2>8
  <2>10. j = Job /\ tts'[j].start = Later(threshold, free[last])
    BY <2>2, <2>7, <2>9 DEF Place, Plans, Scheduled
  <2>11. eligible \in SUBSET Nodes /\ s \in SUBSET eligible /\ free \in [Nodes -> Nat]
    BY <2>6, <2>7, <2>10 DEF Eligible, Plans
  <2>12. PICK n \in s : free[last] <= free[n]
    BY <2>6, <2>9, <2>10, <2>11, NoneMuchEarlier
  <2>13. threshold \in Nat
    BY <2>1, <2>6, <2>9 DEF Threshold, TypeOK
  <2>14. CASE tts'[j].start = threshold
    BY <2>9, <2>10, <2>13, <2>14
  <2>15. CASE tts'[j].start = free[last]
    BY <2>12, <2>15
  <2> QED
    BY <2>10, <2>14, <2>15 DEF Later
<1> QED
  BY <1>1, FcfsInvariant, PTL DEF Spec, PreferenceIsFree

=============================================================================
