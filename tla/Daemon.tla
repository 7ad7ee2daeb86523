------------------------------- MODULE Daemon -------------------------------
(***************************************************************************)
(* The program on one command after the other, from main() to its end:     *)
(* what it does with the plugins (module Program), what a command holds    *)
(* (Commands), what the FCFS plugin makes of it (ExtendedRH and FcfsPlan)  *)
(* and what is written (Responses, sender.cpp).                            *)
(* The next command comes when the last one has left the program: how      *)
(* commands and threads overlap is the matter of module Service.           *)
(***************************************************************************)
EXTENDS Program, Commands, Responses, FcfsPlan

CONSTANTS Packets,       \* the commands that may come, [kind, total, slices]
          MaxCommands

\* Slices are numbered by chars, a hierarchy is made of RhTerms, a list is a sequence and
\* a job asks for a number of nodes.
ASSUME PacketsAssumption ==
  \A c \in Packets :
    /\ c.total \in Chars /\ c.slices \in Seq(Range(c.slices))
    /\ \A s \in Range(c.slices) :
         /\ s.type \in Chars
         /\ s.type = Place("rh") /\ s.body # Null => s.body.term \in RhTerms
         /\ s.body # Null /\ IsList(s.body.term) =>
              LET list == Elements(s.body.term)
              IN  /\ list \in Seq(Range(list))
                  /\ s.type = Place("jobs") =>
                       \A j \in Range(list) : j = Malformed \/ j.count \in Nat

VARIABLES
  commands,   \* how many came
  packet,     \* the command
  data, next, \* the slices read, and the place of the next one
  plan,       \* what the plugin has made of the jobs so far
  response,   \* what Processor pushed to the output queue
  written     \* what the Sender made of it

\* The items of hierarchies are the pairs in them.
Items == {h \in RhTerms : h.form = "tuple" /\ RhSound[h]}
Children == [item \in Items |-> RhItems[item.children]]
INSTANCE ExtendedRH

commandVars == <<commands, packet, data, next, plan, response, written>>
vars == <<programVars, commandVars>>

Init ==
  /\ ProgramInit
  /\ commands = 0 /\ packet = Null /\ data = NoData(0) /\ next = 1
  /\ plan = NoPlan /\ response = NoResponse /\ written = NotWritten

InMain == Main /\ UNCHANGED commandVars

-----------------------------------------------------------------------------
\* Receiver

ReceiveCommand ==
  /\ Passes("receive", "read")
  /\ commands < MaxCommands /\ commands' = commands + 1
  /\ packet' \in Packets
  /\ data' = Cleared(data, packet'.total) /\ next' = 1
  /\ response' = NoResponse /\ written' = NotWritten
  /\ UNCHANGED plan

\* resize() takes no negative number, and nobody catches what it throws.  A slice that
\* is written out of bounds ends the program, or is lost.
Crash ==
  /\ Abort
  /\ packet.kind \in Kinds
  /\ packet.total < 0 \/ (next <= packet.total /\ OutOfBounds(packet, next))
  /\ UNCHANGED commandVars

ReadSlice ==
  /\ Passes("read", "read")
  /\ packet.kind \in Kinds /\ next <= packet.total /\ Readable(packet, next)
  /\ data' = Stored(packet, next, data) /\ next' = next + 1
  /\ UNCHANGED <<commands, packet, plan, response, written>>

BreakOff ==
  /\ Passes("read", "broken")
  /\ packet.kind \notin Kinds \/ (next <= packet.total /\ ~Readable(packet, next))
  /\ UNCHANGED commandVars

\* init() of the command; if it throws the command is dropped.
Parse(outcome) ==
  /\ packet.kind \in Kinds /\ packet.total >= 0 /\ next > packet.total
  /\ outcome = IF packet.kind = "schedule" THEN InitResult(data) ELSE "fine"

DropCommand ==
  /\ Passes("read", "receive")
  /\ Parse("thrown")
  /\ UNCHANGED commandVars

-----------------------------------------------------------------------------
\* Processor::worker_thread()

Respond(r) == response' = r /\ UNCHANGED <<commands, packet, data, next, plan, written>>

\* A command that was refused, and one that names a chain: init() always names the
\* same, which is not the one that SCHEDULE creates.
RespondFailure ==
  /\ Passes("read", "send")
  /\ Parse("refused") \/ (Parse("fine") /\ packet.kind # "schedule")
  /\ Respond(Failure)

SelectAlgorithms ==
  /\ SelectStep
  /\ Parse("fine") /\ packet.kind = "schedule"
  /\ UNCHANGED commandVars

NoAlgorithm ==
  \/ /\ Passes("read", "send")
     /\ Parse("fine") /\ packet.kind = "schedule" /\ ~Selectable(Schedulers)
     /\ Respond(Failure)
  \/ FailStep /\ Respond(Failure)

CreateAlgorithms == CreateStep /\ UNCHANGED commandVars

-----------------------------------------------------------------------------
\* swm_construct_timetable() of the FCFS plugin looks at the hierarchy only if there are
\* jobs.

Info == SchedulingInfo(data)
Constructs == at = "serve" /\ step = "create" /\ selected = <<>> /\ Info.jobs # <<>>
PlanOnly == UNCHANGED <<programVars, commands, packet, data, next, response, written>>

InitPlugin ==
  /\ Constructs /\ plan = NoPlan
  /\ FcfsReady(Info)
  /\ plan' = PlanFor(NodesPerCluster(Info))
  /\ PlanOnly

\* An iteration of the loop of schedule().
Iterates == Constructs /\ plan.next \in DOMAIN Info.jobs
Job == Info.jobs[plan.next]

PassJob == Iterates /\ IsPassed(Job, plan) /\ plan' = Pass(plan) /\ PlanOnly

FailJob ==
  /\ Iterates /\ ~IsPassed(Job, plan) /\ ~HasRoom(Job, plan)
  /\ plan' = Consider(Job, plan)
  /\ PlanOnly

PlaceJob ==
  /\ Iterates /\ ~IsPassed(Job, plan) /\ HasRoom(Job, plan)
  /\ \E s \in NodeSets(Job, plan) : plan' = GiveNodes(Job, plan, s)
  /\ PlanOnly

RespondAndForget(r) ==
  /\ response' = r /\ plan' = NoPlan
  /\ UNCHANGED <<commands, packet, data, next, written>>

ChainSucceeds ==
  /\ ChainStep(TRUE)
  /\ Info.jobs = <<>> \/ plan.next > Len(Info.jobs)
  /\ RespondAndForget(Timetables(plan.tables, Head(algs)))

ChainFails ==
  /\ ChainStep(FALSE)
  /\ Info.jobs # <<>> /\ plan = NoPlan /\ ~FcfsReady(Info)
  /\ RespondAndForget(Failure)

RunChain == InitPlugin \/ PassJob \/ FailJob \/ PlaceJob \/ ChainSucceeds \/ ChainFails

-----------------------------------------------------------------------------
\* Sender

Sendable(r) == r.what # "failure"

\* What cannot be serialized is not written.
SendResponse ==
  /\ SendStep
  /\ written' \in IF Sendable(response) THEN Serialized(response) ELSE {NotWritten}
  /\ UNCHANGED <<commands, packet, data, next, plan, response>>

ReleaseChain == (ReleaseStep \/ DoneStep) /\ UNCHANGED commandVars

Receive == ReceiveCommand \/ Crash \/ ReadSlice \/ BreakOff \/ DropCommand
Process == RespondFailure \/ SelectAlgorithms \/ NoAlgorithm \/ CreateAlgorithms \/ RunChain
Send == SendResponse \/ ReleaseChain

Next == InMain \/ Receive \/ Process \/ Send

Spec == Init /\ [][Next]_vars

-----------------------------------------------------------------------------
\* Properties

\* The slice of a type, of a command that has one of each.
Body(c, type) == CHOOSE i \in 1..c.total : c.slices[i].type = Place(type)
Complete(c) ==
  /\ c.kind = "schedule" /\ c.total = DataTypeCount /\ Len(c.slices) >= c.total
  /\ \A type \in Range(DataTypes) :
       \E i \in 1..c.total : c.slices[i].type = Place(type) /\ c.slices[i].body # Null
Term(c, type) == c.slices[Body(c, type)].body.term
Sound(c) ==
  /\ \A i \in 1..c.total : c.slices[i].body.version = "current"
  /\ RhSound[Term(c, "rh")] /\ GridResult(Term(c, "grid")) = "fine"
  /\ \A type \in {"jobs", "clusters", "partitions", "nodes"} : ListResult(Term(c, type)) = "fine"

\* The plugins that are asked for, by their files.
Fcfs == {l \in DOMAIN files : /\ files[l].fate \in {"fine", "no_context"}
                              /\ files[l].family = "swm-fcfs" /\ files[l].version = "1.0"
                              /\ files[l].device = "Cpu"}
Chosen == FirstOf(Fcfs)

\* The nodes of a cluster that can be used, by their places in the hierarchy.
Offers(info, cluster) ==
  {p.node : p \in {q \in Places(info) :
     LET node == ById(info.nodes, q.node)
     IN  /\ q.cluster = cluster
         /\ node.template \/ (node.up /\ ById(info.clusters, cluster).up
                              /\ ById(info.partitions, q.part).up)}}
Schedulable(info) ==
  \/ info.jobs = <<>>
  \/ /\ WellFormed(info) /\ Ids(info.nodes) = {p.node : p \in Places(info)}
     /\ \A i, j \in DOMAIN info.nodes : info.nodes[i].id = info.nodes[j].id => i = j

\* What a job may get, by the command alone: there are enough of these nodes, and no
\* member of its gang came before it.
Fitting(info, job) ==
  IF job.cluster \in Ids(info.clusters) THEN Offers(info, job.cluster) \cap job.fits ELSE {}
First(info, k) ==
  LET gang == info.jobs[k].gang
  IN  gang = NoGang \/ \A i \in 1..(k - 1) : info.jobs[i].gang # gang
Depends(job, before) == \A d \in job.deps : \E t \in before : t.job = d

TableExplained(info, t, planned) ==
  LET job == info.jobs[t.at]
  IN  /\ job.id = t.job /\ job.queued /\ job.count >= 1
      /\ Cardinality(t.nodes) = job.count /\ t.nodes \subseteq Fitting(info, job)
      /\ Depends(job, {u \in planned : u.at < t.at})

\* The jobs of a gang are in a row, on nodes of their own.
GangOf(info, t) == info.jobs[t.at].gang
GangsExplained(info, planned) ==
  \A t, u \in planned :
    t.at < u.at /\ GangOf(info, t) = GangOf(info, u) /\ GangOf(info, t) # NoGang =>
      /\ t.nodes \cap u.nodes = {}
      /\ \A v \in planned : v.at \in t.at..u.at => GangOf(info, v) = GangOf(info, t)

MustBeScheduled(info, k, planned) ==
  LET job == info.jobs[k]
  IN  /\ job.queued /\ job.count >= 1 /\ First(info, k)
      /\ Cardinality(Fitting(info, job)) >= job.count
      /\ Depends(job, {t \in planned : t.at < k})

Explained(info, planned) ==
  /\ \A t \in planned : t.at \in DOMAIN info.jobs /\ TableExplained(info, t, planned)
  /\ \A t, u \in planned : t.at = u.at => t = u
  /\ GangsExplained(info, planned)
  /\ \A k \in DOMAIN info.jobs :
       MustBeScheduled(info, k, planned) => \E t \in planned : t.at = k

InfoOf(c) ==
  [rh |-> RhItems[Term(c, "rh")], jobs |-> Term(c, "jobs").elements,
   clusters |-> Term(c, "clusters").elements, partitions |-> Term(c, "partitions").elements,
   nodes |-> Term(c, "nodes").elements]

\* What the command asks for, there is, and can be done.
Answerable ==
  /\ Complete(packet) /\ Sound(packet) /\ Fcfs # {}
  /\ files[Chosen].fate = "fine" /\ "Cpu" \in files[Chosen].binds
  /\ Schedulable(InfoOf(packet))

(* A command is answered by timetables exactly if it is a whole SCHEDULE, the plugin
   that is asked for is there, and the hierarchy holds every node, once.  They are of
   queued jobs of this command, on as many nodes as asked for, that fit the job and can
   be used in its cluster; what a job depends on comes before it, a gang is in a row and
   on different nodes, and no job is left out that could be served.  They can be read
   back, whatever came before, whichever of the command's parts is wrong and in whatever
   order they come. *)
AnswersAreExplained ==
  step = "receive" /\ commands > 0 =>
    IF Answerable
    THEN /\ response.by = Chosen
         /\ written # Unserialized =>
              LET list == written.timetables
              IN  /\ Reads(list, list.elements) /\ Explained(InfoOf(packet), list.elements)
                  /\ Reads(written.metrics, {})
    ELSE written = NotWritten

(* The hierarchy that is accepted is a tree of known items, each met once and in its
   place, and every node is related to the cluster above it and to the partition it is
   in, however deep that is. *)
RelationsAgree ==
  step = "create" =>
    LET rh == Relations(Info)
    IN  /\ rh.ok <=> WellFormed(Info)
        /\ rh.ok =>
             /\ rh.nodes_to_parts = {<<p.node, p.part>> : p \in Places(Info)}
             /\ rh.nodes_to_clusters = {<<p.node, p.cluster>> : p \in Places(Info)}
=============================================================================
