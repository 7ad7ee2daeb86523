-------------------------- MODULE ProcessorProofs --------------------------
(***************************************************************************)
(* What Processor keeps true for all inputs, any number of commands and    *)
(* any capacity of the queues.                                             *)
(***************************************************************************)
EXTENDS Processor, TLAPS

Responses == [id : Ids, succeeded : BOOLEAN]

PcStates == {"none", "loop", "look", "serve", "hard", "drain", "success", "failure", "finish", "done"}

\* The commands that were popped: the first ones.
Popped == Len(cmds) - Len(in_queue)

\* The worker has a command in its hands.
Handling == {"handle", "target", "count"}

Serving == {"serve", "hard"}
Unreported == {"loop", "look", "serve", "hard", "drain", "success", "failure"}
Drained == {"success", "failure", "finish", "done"}

Types ==
  /\ cmds \in Seq(Commands) /\ Len(cmds) <= MaxCommands
  /\ in_queue \in Seq(Ids) /\ Len(in_queue) <= InCapacity
  /\ out_queue \in Seq(Responses) /\ Len(out_queue) <= OutCapacity
  /\ closed \in BOOLEAN
  /\ at \in {"closed", "busy", "poll", "handle", "target", "count", "reap", "done"}
  /\ chains \subseteq Ids /\ unseen \subseteq chains
  /\ pc \in [Ids -> PcStates]
  /\ stopped \subseteq Ids
  /\ status \in [Ids -> {"none", "WORKING", "FINISHED", "INTERRUPTED"}]
  /\ queue \in [Ids -> Seq(Request)]
  /\ req \in [Ids -> Request \cup {Nothing}]
  /\ answers \in [Ids -> {"none", "yes", "no", "twice"}]
  /\ lost \subseteq Ids

\* Commands are numbered in the order they are pushed, and popped in that order.
Counting ==
  /\ Len(in_queue) <= Len(cmds)
  /\ \A i \in 1..Len(in_queue) : in_queue[i] = Popped + i
  /\ IF at \in Handling
     THEN cur \in 1..MaxCommands /\ cur = Popped /\ requests = Popped - 1
     ELSE cur = 0 /\ requests = Popped

\* A controller belongs to a command that was handled; it is in chains_ until it
\* has finished.
Created ==
  \A k \in Ids :
    /\ pc[k] # "none" =>
         k <= Popped /\ cmds[k].kind = "schedule" /\ (at = "handle" => k # cur)
    /\ (k \in chains) => pc[k] # "none"
    /\ (k \notin chains) => pc[k] \in {"none", "done"}

\* A controller that has skipped its requests is stopped, and empty.
Emptied == \A k \in Ids : pc[k] \in Drained => k \in stopped /\ queue[k] = <<>>

\* The worker ends when it was closed and has nothing left to do.
Ended ==
  /\ at = "busy" => closed
  /\ at = "done" => closed /\ chains = {} /\ unseen = {}

\* A controller that serves has a request.
Held == \A k \in Ids : pc[k] \in Serving => req[k] \in Request

CoreInv == Types /\ Counting /\ Created /\ Emptied /\ Ended /\ Held

-----------------------------------------------------------------------------
(* What pushing a response does to the types. *)
LEMMA RespondTypes ==
  ASSUME Types, NEW k \in Ids, NEW b \in BOOLEAN, Respond(k, b)
  PROVE  /\ out_queue' \in Seq(Responses) /\ Len(out_queue') <= OutCapacity
         /\ answers' \in [Ids -> {"none", "yes", "no", "twice"}]
<1>1. [id |-> k, succeeded |-> b] \in Responses
  BY DEF Responses
<1>2. OutCapacity \in Nat
  BY ProcessorAssumption
<1> QED
  BY <1>1, <1>2 DEF Types, Respond, Room

(* The initial state satisfies the invariant. *)
LEMMA CoreInit == Init => CoreInv
<1> SUFFICES ASSUME Init PROVE CoreInv
  OBVIOUS
<1>1. Types
  <2>1. <<>> \in Seq(Request) /\ <<>> \in Seq(Commands) /\ <<>> \in Seq(Ids)
        /\ <<>> \in Seq(Responses) /\ Len(<<>>) = 0
    OBVIOUS
  <2>2. queue \in [Ids -> Seq(Request)] /\ req \in [Ids -> Request \cup {Nothing}]
    BY <2>1 DEF Init
  <2>3. /\ pc \in [Ids -> PcStates]
        /\ status \in [Ids -> {"none", "WORKING", "FINISHED", "INTERRUPTED"}]
        /\ answers \in [Ids -> {"none", "yes", "no", "twice"}]
    BY DEF Init, PcStates
  <2>4. /\ cmds \in Seq(Commands) /\ Len(cmds) <= MaxCommands
        /\ in_queue \in Seq(Ids) /\ Len(in_queue) <= InCapacity
        /\ out_queue \in Seq(Responses) /\ Len(out_queue) <= OutCapacity
    BY <2>1, ProcessorAssumption DEF Init
  <2>5. chains \subseteq Ids /\ unseen \subseteq chains /\ stopped \subseteq Ids /\ lost \subseteq Ids
    BY DEF Init
  <2>6. closed \in BOOLEAN /\ at = "closed"
    BY DEF Init
  <2> QED
    BY <2>2, <2>3, <2>4, <2>5, <2>6 DEF Types
<1>2. Counting /\ Ended
  BY DEF Init, Counting, Ended, Popped, Handling
<1>3. Created /\ Emptied /\ Held
  BY DEF Init, Created, Emptied, Held, Drained, Serving
<1> QED
  BY <1>1, <1>2, <1>3 DEF CoreInv

(* The client preserves the invariant. *)
LEMMA CoreClient ==
  ASSUME CoreInv,
         (\E m \in Commands : Allowed(Append(cmds, m)) /\ Submit(m)) \/ Close \/ TakeResponse
  PROVE  CoreInv'
<1>1. ASSUME NEW m \in Commands, Allowed(Append(cmds, m)), Submit(m)
      PROVE  CoreInv'
  <2>1. cmds' \in Seq(Commands) /\ Len(cmds') = Len(cmds) + 1
        /\ \A k \in 1..Len(cmds) : cmds'[k] = cmds[k]
    BY <1>1 DEF Submit, CoreInv, Types
  <2>2. Len(cmds') <= MaxCommands
    <3>1. PICK input \in Inputs : Len(Append(cmds, m)) <= Len(input)
      BY <1>1 DEF Allowed
    <3>2. Len(input) <= MaxCommands /\ Len(input) \in Nat /\ MaxCommands \in Nat
      BY ProcessorAssumption
    <3> QED
      BY <3>1, <3>2, <2>1, <1>1 DEF Submit
  <2>3. Len(cmds') \in Ids
    BY <2>1, <2>2, ProcessorAssumption DEF Ids
  <2>4. /\ in_queue' \in Seq(Ids) /\ Len(in_queue') = Len(in_queue) + 1
        /\ Len(in_queue') <= InCapacity
        /\ \A i \in 1..Len(in_queue) : in_queue'[i] = in_queue[i]
        /\ in_queue'[Len(in_queue')] = Len(cmds')
    BY <1>1, <2>3, ProcessorAssumption DEF Submit, CoreInv, Types
  <2>5. Popped' = Popped /\ Popped \in Nat /\ Popped <= Len(cmds)
    BY <2>1, <2>4 DEF Popped, CoreInv, Types, Counting
  <2>6. Types'
    BY <1>1, <2>1, <2>2, <2>4 DEF Submit, CoreInv, Types, workVars, ctlVars, resultVars
  <2>7. Counting'
    <3>1. \A i \in 1..Len(in_queue') : in_queue'[i] = Popped' + i
      <4>1. /\ Len(cmds') = Popped + Len(in_queue') /\ Len(in_queue) \in Nat
            /\ 1..Len(in_queue') = 1..Len(in_queue) \cup {Len(in_queue')}
        BY <2>1, <2>4 DEF CoreInv, Types, Counting, Popped
      <4>2. \A i \in 1..Len(in_queue) : in_queue[i] = Popped + i
        BY DEF CoreInv, Counting
      <4> QED
        BY <2>4, <2>5, <4>1, <4>2
    <3>2. Len(in_queue') <= Len(cmds') /\ UNCHANGED <<at, cur, requests>>
      BY <1>1, <2>1, <2>4 DEF Submit, CoreInv, Types, Counting, workVars
    <3> QED
      BY <2>5, <3>1, <3>2 DEF CoreInv, Counting
  <2>8. Created'
    BY <1>1, <2>1, <2>5 DEF Submit, CoreInv, Types, Created, workVars, ctlVars, Ids
  <2> QED
    BY <1>1, <2>6, <2>7, <2>8 DEF Submit, CoreInv, Emptied, Ended, Held, workVars, ctlVars
<1>2. CASE Close
  BY <1>2 DEF Close, CoreInv, Types, Counting, Created, Emptied, Ended, Held, Popped, workVars,
    ctlVars, resultVars
<1>3. CASE TakeResponse
  <2>1. out_queue' \in Seq(Responses) /\ Len(out_queue') <= OutCapacity
    BY <1>3, ProcessorAssumption DEF TakeResponse, CoreInv, Types
  <2> QED
    BY <1>3, <2>1 DEF TakeResponse, CoreInv, Types, Counting, Created, Emptied, Ended, Held,
      Popped, workVars, ctlVars, clientVars
<1> QED
  BY <1>1, <1>2, <1>3

-----------------------------------------------------------------------------
(* The worker's steps that read the loop's condition. *)
LEMMA CoreTests ==
  ASSUME CoreInv, TestClosed \/ TestBusy \/ NoCommand \/ EndPass
  PROVE  CoreInv'
<1>1. Popped' = Popped /\ Types'
  BY DEF CoreInv, Types, TestClosed, TestBusy, NoCommand, EndPass, Quiet, clientVars, ctlVars,
    resultVars, Popped
<1>2. Counting'
  BY <1>1 DEF CoreInv, Counting, TestClosed, TestBusy, NoCommand, EndPass, Quiet, clientVars,
    Handling
<1>3. Created' /\ Emptied' /\ Held'
  BY <1>1 DEF CoreInv, Created, Emptied, Held, TestClosed, TestBusy, NoCommand, EndPass, Quiet,
    clientVars, ctlVars
<1>4. Ended'
  BY DEF CoreInv, Types, Ended, Busy, TestClosed, TestBusy, NoCommand, EndPass, Quiet, clientVars
<1> QED
  BY <1>1, <1>2, <1>3, <1>4 DEF CoreInv

(* The worker pops a command: the next in number. *)
LEMMA CorePop ==
  ASSUME CoreInv, PopCommand
  PROVE  CoreInv'
<1>1. /\ in_queue' \in Seq(Ids) /\ Len(in_queue') = Len(in_queue) - 1
      /\ Len(in_queue) \in Nat \ {0} /\ cur' = in_queue[1] /\ cur' \in Ids
      /\ \A i \in 1..Len(in_queue') : in_queue'[i] = in_queue[i + 1]
  BY DEF CoreInv, Types, PopCommand
<1>2. Popped' = Popped + 1 /\ Popped \in Nat /\ Len(cmds) \in Nat
  BY <1>1 DEF CoreInv, Types, Counting, Popped, PopCommand
<1>3. Types'
  BY <1>1, ProcessorAssumption DEF CoreInv, Types, PopCommand, ctlVars, resultVars
<1>4. Counting'
  <2>1. \A i \in 1..Len(in_queue') : in_queue'[i] = Popped' + i
    BY <1>1, <1>2 DEF CoreInv, Counting
  <2>2. cur' = Popped' /\ requests' = Popped' - 1 /\ at' = "handle"
    BY <1>1, <1>2 DEF CoreInv, Counting, PopCommand, Handling
  <2>3. Len(in_queue') <= Len(cmds')
    BY <1>1, <1>2 DEF CoreInv, Counting, PopCommand
  <2> QED
    BY <1>1, <2>1, <2>2, <2>3 DEF Counting, Handling, Ids
<1>5. Created'
  <2> SUFFICES ASSUME NEW k \in Ids, pc[k] # "none" PROVE k <= Popped' /\ k # cur'
    BY DEF CoreInv, Created, PopCommand, ctlVars
  <2>1. cur' = Popped + 1
    BY <1>1, <1>2 DEF CoreInv, Counting
  <2> QED
    BY <1>2, <2>1 DEF CoreInv, Created, Ids
<1> QED
  BY <1>3, <1>4, <1>5 DEF CoreInv, PopCommand, Emptied, Ended, Held, ctlVars

(* The worker answers a command itself. *)
LEMMA CoreRefuse ==
  ASSUME CoreInv, Refuse
  PROVE  CoreInv'
<1>1. cur \in Ids
  BY DEF CoreInv, Counting, Refuse, Handling, Ids
<1>2. /\ out_queue' \in Seq(Responses) /\ Len(out_queue') <= OutCapacity
      /\ answers' \in [Ids -> {"none", "yes", "no", "twice"}]
  BY <1>1, RespondTypes DEF CoreInv, Refuse
<1>3. Types'
  BY <1>2 DEF CoreInv, Types, Refuse, clientVars, ctlVars
<1>4. Popped' = Popped /\ Counting'
  BY DEF CoreInv, Counting, Popped, Handling, Refuse, clientVars
<1>5. Created' /\ Emptied' /\ Ended' /\ Held'
  BY <1>4 DEF CoreInv, Created, Emptied, Ended, Held, Refuse, clientVars, ctlVars
<1> QED
  BY <1>3, <1>4, <1>5 DEF CoreInv

(* The worker creates a controller: the first of its number. *)
LEMMA CoreSchedule ==
  ASSUME CoreInv, Schedule
  PROVE  CoreInv'
<1>1. cur \in Ids /\ cur = Popped /\ cmds[cur].kind = "schedule"
  BY DEF CoreInv, Counting, Schedule, Handling, Ids, Cmd
<1>2. pc' \in [Ids -> PcStates]
      /\ status' \in [Ids -> {"none", "WORKING", "FINISHED", "INTERRUPTED"}]
  BY <1>1 DEF CoreInv, Types, Schedule, PcStates
<1>3. Types'
  BY <1>1, <1>2 DEF CoreInv, Types, Schedule, clientVars, resultVars
<1>4. Popped' = Popped /\ Counting'
  BY DEF CoreInv, Counting, Popped, Handling, Schedule, clientVars
<1>5. Created'
  <2> SUFFICES ASSUME NEW k \in Ids
               PROVE  /\ pc'[k] # "none" => k <= Popped /\ cmds[k].kind = "schedule"
                      /\ k \in chains' => pc'[k] # "none"
                      /\ k \notin chains' => pc'[k] \in {"none", "done"}
    BY <1>4 DEF Created, Schedule, clientVars
  <2>1. CASE k = cur
    BY <2>1, <1>1, <1>4 DEF CoreInv, Types, Counting, Schedule
  <2>2. CASE k # cur
    BY <2>2, <1>1 DEF CoreInv, Types, Created, Schedule
  <2> QED
    BY <2>1, <2>2
<1>6. Emptied' /\ Ended' /\ Held'
  BY <1>1 DEF CoreInv, Types, Emptied, Ended, Held, Schedule, clientVars, Drained, Serving
<1> QED
  BY <1>3, <1>4, <1>5, <1>6 DEF CoreInv

(* A request is placed, or lost. *)
LEMMA CoreInvoke ==
  ASSUME CoreInv, at \in {"handle", "target"}, NEW k,
         Place(k, "target") \/ Place(k, "count") \/ Throw(k)
  PROVE  CoreInv'
<1>1. cur \in Ids
  BY DEF CoreInv, Counting, Handling, Ids
<1>2. /\ queue' \in [Ids -> Seq(Request)]
      /\ \A j \in Ids : queue'[j] = queue[j] \/ pc[j] \notin Drained
  <2>1. [id |-> cur, answers |-> Answering] \in Request
    BY <1>1 DEF Request, Answering
  <2>2. CASE Throw(k)
    BY <2>2 DEF Throw, CoreInv, Types, ctlVars
  <2>3. CASE Place(k, "target") \/ Place(k, "count")
    <3>1. /\ pc[k] \notin Drained
          /\ queue' = [queue EXCEPT ![k] = Append(@, [id |-> cur, answers |-> Answering])]
      BY <2>3 DEF Place, Open, Queued, Drained
    <3>2. queue \in [Ids -> Seq(Request)]
      BY DEF CoreInv, Types
    <3>3. ASSUME k \in Ids
          PROVE  Append(queue[k], [id |-> cur, answers |-> Answering]) \in Seq(Request)
      BY <2>1, <3>2, <3>3
    <3> QED
      BY <3>1, <3>2, <3>3
  <2> QED
    BY <2>2, <2>3
<1>3. /\ at' \in {"target", "count"}
      /\ lost' \in {lost, lost \cup {cur}}
      /\ UNCHANGED <<clientVars, cur, chains, unseen, requests, pc, stopped, status, req, out_queue,
                     answers>>
  BY DEF Place, Throw, ctlVars, resultVars
<1>4. Types'
  BY <1>1, <1>2, <1>3 DEF CoreInv, Types, clientVars
<1>5. Popped' = Popped /\ Counting'
  BY <1>3 DEF CoreInv, Counting, Popped, Handling, clientVars
<1>6. Created' /\ Ended' /\ Held'
  BY <1>3, <1>5 DEF CoreInv, Created, Ended, Held, clientVars
<1>7. Emptied'
  BY <1>2, <1>3 DEF CoreInv, Emptied
<1> QED
  BY <1>4, <1>5, <1>6, <1>7 DEF CoreInv

(* The worker counts the request and looks for controllers that finished. *)
LEMMA CoreReaps ==
  ASSUME CoreInv, Count \/ \E k \in Ids : Reap(k)
  PROVE  CoreInv'
<1>1. CASE Count
  <2>1. Types' /\ Popped' = Popped
    BY <1>1 DEF Count, CoreInv, Types, Quiet, clientVars, ctlVars, resultVars, Popped
  <2>2. Counting'
    BY <1>1, <2>1 DEF Count, CoreInv, Types, Counting, Quiet, clientVars, Handling, Popped
  <2>3. Created' /\ Emptied' /\ Ended' /\ Held'
    BY <1>1, <2>1 DEF Count, CoreInv, Created, Emptied, Ended, Held, Quiet, clientVars, ctlVars
  <2> QED
    BY <2>1, <2>2, <2>3 DEF CoreInv
<1>2. ASSUME NEW k \in Ids, Reap(k) PROVE CoreInv'
  <2>1. Types' /\ Popped' = Popped
    BY <1>2 DEF Reap, CoreInv, Types, Quiet, clientVars, ctlVars, resultVars, Popped
  <2>2. Counting'
    BY <1>2, <2>1 DEF Reap, CoreInv, Counting, Quiet, clientVars, Handling
  <2>3. Created' /\ Emptied' /\ Ended' /\ Held'
    BY <1>2, <2>1 DEF Reap, Released, CoreInv, Types, Created, Emptied, Ended, Held, Quiet,
      clientVars, ctlVars
  <2> QED
    BY <2>1, <2>2, <2>3 DEF CoreInv
<1> QED
  BY <1>1, <1>2

(* Every step of the worker preserves the invariant. *)
LEMMA CoreWork ==
  ASSUME CoreInv, Work
  PROVE  CoreInv'
<1>1. CASE Delegate
  BY <1>1, CoreInvoke DEF Delegate
<1>2. CASE DelegateTarget
  BY <1>2, CoreInvoke DEF DelegateTarget
<1> QED
  BY <1>1, <1>2, CoreTests, CorePop, CoreRefuse, CoreSchedule, CoreReaps DEF Work

-----------------------------------------------------------------------------
(* A controller moves on, with its queue and its request typed, from a state in
   which its command was handled. *)
LEMMA CoreMoves ==
  ASSUME CoreInv, NEW k \in Ids, NEW from \in PcStates \ {"none", "done"},
         NEW to \in PcStates \ {"none"}, Goto(k, from, to), OnlyController,
         out_queue' \in Seq(Responses), Len(out_queue') <= OutCapacity,
         answers' \in [Ids -> {"none", "yes", "no", "twice"}],
         UNCHANGED status,
         stopped' \in {stopped, stopped \cup {k}},
         queue' \in [Ids -> Seq(Request)],
         \A j \in Ids \ {k} : queue'[j] = queue[j],
         req' \in [Ids -> Request \cup {Nothing}],
         \A j \in Ids \ {k} : req'[j] = req[j],
         to \in Drained => k \in stopped' /\ queue'[k] = <<>>,
         to \in Serving => req'[k] \in Request
  PROVE  CoreInv'
<1>1. Types'
  BY DEF CoreInv, Types, Goto, OnlyController, clientVars, workVars
<1>2. Popped' = Popped /\ Counting' /\ Ended'
  BY DEF CoreInv, Counting, Ended, Popped, OnlyController, clientVars, workVars
<1>3. Created'
  BY <1>2 DEF CoreInv, Types, Created, Goto, OnlyController, clientVars, workVars
<1>4. Emptied' /\ Held'
  BY DEF CoreInv, Types, Emptied, Held, Goto
<1> QED
  BY <1>1, <1>2, <1>3, <1>4 DEF CoreInv

(* Every step of a controller preserves the invariant. *)
LEMMA CoreControl ==
  ASSUME CoreInv, NEW k \in Ids, Control(k)
  PROVE  CoreInv'
<1> USE DEF CoreInv
<1>1. /\ out_queue \in Seq(Responses) /\ Len(out_queue) <= OutCapacity
      /\ answers \in [Ids -> {"none", "yes", "no", "twice"}]
      /\ queue \in [Ids -> Seq(Request)] /\ req \in [Ids -> Request \cup {Nothing}]
  BY DEF Types
<1>2. Nothing \notin Request /\ \A r \in Request : r.id \in Ids
  BY ProcessorAssumption DEF Request, Ids
<1>3. CASE Take(k)
  <2>1. Head(queue[k]) \in Request /\ Tail(queue[k]) \in Seq(Request)
    BY <1>1, <1>3 DEF Take
  <2> QED
    BY <1>1, <1>3, <2>1, CoreMoves DEF Take, NoResponse, PcStates, Drained
<1>4. CASE HardInterrupt(k)
  <2>1. pc[k] = "serve" /\ req[k] \in Request
    BY <1>4 DEF HardInterrupt, Goto, Held, Serving
  <2> QED
    BY <1>1, <1>4, <2>1, CoreMoves DEF HardInterrupt, NoResponse, PcStates, Drained
<1>5. CASE Serve(k)
  <2>1. pc[k] = "serve" /\ req[k] \in Request
    BY <1>5 DEF Serve, Goto, Held, Serving
  <2>2. /\ out_queue' \in Seq(Responses) /\ Len(out_queue') <= OutCapacity
        /\ answers' \in [Ids -> {"none", "yes", "no", "twice"}]
    BY <1>1, <1>2, <1>5, <2>1, RespondTypes DEF Serve, NoResponse
  <2> QED
    BY <1>1, <1>5, <2>2, CoreMoves DEF Serve, PcStates, Drained, Serving
<1>6. CASE AnswerHard(k)
  <2>1. pc[k] = "hard" /\ req[k] \in Request
    BY <1>6 DEF AnswerHard, Goto, Held, Serving
  <2>2. /\ out_queue' \in Seq(Responses) /\ Len(out_queue') <= OutCapacity
        /\ answers' \in [Ids -> {"none", "yes", "no", "twice"}]
    BY <1>2, <1>6, <2>1, RespondTypes DEF AnswerHard
  <2> QED
    BY <1>1, <1>6, <2>2, CoreMoves DEF AnswerHard, PcStates, Drained, Serving
<1>7. CASE Leave(k)
  BY <1>1, <1>7, CoreMoves DEF Leave, NoResponse, PcStates, Drained, Serving
<1>8. CASE Skip(k)
  <2>1. Head(queue[k]) \in Request /\ Tail(queue[k]) \in Seq(Request) /\ pc[k] = "drain"
    BY <1>1, <1>8 DEF Skip
  <2>2. /\ out_queue' \in Seq(Responses) /\ Len(out_queue') <= OutCapacity
        /\ answers' \in [Ids -> {"none", "yes", "no", "twice"}]
    BY <1>1, <1>2, <1>8, <2>1, RespondTypes DEF Skip, NoResponse
  <2>3. Goto(k, "drain", "drain")
    BY <1>8 DEF Skip, Goto, Types
  <2> QED
    BY <1>1, <1>8, <2>1, <2>2, <2>3, CoreMoves DEF Skip, PcStates, Drained, Serving
<1>9. CASE DrainEnd(k)
  <2>1. PICK to \in {"success", "failure"} : Goto(k, "drain", to)
    BY <1>9 DEF DrainEnd
  <2> QED
    BY <1>1, <1>9, <2>1, CoreMoves DEF DrainEnd, NoResponse, PcStates, Serving
<1>10. CASE Report(k)
  <2>1. PICK from \in {"success", "failure"} : Goto(k, from, "finish")
    BY <1>10 DEF Report
  <2>2. k \in stopped /\ queue[k] = <<>>
    BY <2>1 DEF Goto, Emptied, Drained
  <2>3. /\ out_queue' \in Seq(Responses) /\ Len(out_queue') <= OutCapacity
        /\ answers' \in [Ids -> {"none", "yes", "no", "twice"}]
    BY <1>10, RespondTypes DEF Report
  <2> QED
    BY <1>1, <1>10, <2>1, <2>2, <2>3, CoreMoves DEF Report, PcStates, Serving
<1>11. CASE Finish(k)
  <2>1. k \in stopped /\ queue[k] = <<>>
    BY <1>11 DEF Finish, Goto, Emptied, Drained
  <2> QED
    BY <1>1, <1>11, <2>1, CoreMoves DEF Finish, NoResponse, PcStates, Serving
<1>12. CASE Enter(k)
  BY <1>1, <1>12, CoreMoves DEF Enter, NoResponse, PcStates, Drained, Serving
<1>13. CASE FindNone(k)
  BY <1>1, <1>13, CoreMoves DEF FindNone, NoResponse, PcStates, Drained, Serving
<1> QED
  BY <1>3, <1>4, <1>5, <1>6, <1>7, <1>8, <1>9, <1>10, <1>11, <1>12, <1>13 DEF Control

(* A chain that stops preserves the invariant. *)
LEMMA CoreChainStops ==
  ASSUME CoreInv, NEW k \in Ids, ChainStops(k)
  PROVE  CoreInv'
<1>1. Types'
  BY DEF CoreInv, Types, ChainStops, clientVars, workVars, resultVars
<1>2. Popped' = Popped /\ UNCHANGED <<pc, queue, req, stopped, clientVars, workVars>>
  BY DEF ChainStops, Popped, clientVars
<1> QED
  BY <1>1, <1>2 DEF CoreInv, Counting, Created, Emptied, Ended, Held, clientVars, workVars

(* Every behaviour satisfies the invariant. *)
LEMMA CoreInvariant == Spec => []CoreInv
<1>1. CoreInv /\ UNCHANGED vars => CoreInv'
  <2> SUFFICES ASSUME CoreInv, UNCHANGED vars PROVE CoreInv'
    OBVIOUS
  <2>1. Types' /\ Popped' = Popped
    BY DEF CoreInv, Types, Popped, vars, clientVars, workVars, ctlVars, resultVars
  <2>2. Counting' /\ Ended'
    BY <2>1 DEF CoreInv, Counting, Ended, vars, clientVars, workVars
  <2>3. Created' /\ Emptied' /\ Held'
    BY <2>1 DEF CoreInv, Created, Emptied, Held, vars, clientVars, workVars, ctlVars
  <2> QED
    BY <2>1, <2>2, <2>3 DEF CoreInv
<1>2. CoreInv /\ [Next]_vars => CoreInv'
  BY <1>1, CoreClient, CoreWork, CoreControl, CoreChainStops DEF Next
<1> QED
  BY <1>2, CoreInit, PTL DEF Spec

-----------------------------------------------------------------------------
(* The variables have their types, whatever the commands; no number of controllers
   overfills the output queue, and the metrics count no more than the commands. *)
THEOREM ProcessorTypes == Spec => []TypeOK
<1>1. CoreInv => TypeOK
  <2> SUFFICES ASSUME CoreInv PROVE TypeOK
    OBVIOUS
  <2>1. Popped \in Nat /\ Popped <= MaxCommands
    BY ProcessorAssumption DEF CoreInv, Types, Counting, Popped
  <2>2. cur \in Ids \cup {0} /\ requests \in 0..MaxCommands
    BY <2>1, ProcessorAssumption DEF CoreInv, Counting, Ids
  <2> QED
    BY <2>2 DEF CoreInv, Types, TypeOK, Responses
<1> QED
  BY <1>1, CoreInvariant, PTL

(* A controller that has reported its result has no request left and gets none. *)
THEOREM ProcessorReportIsLast == Spec => []ReportIsLast
<1>1. CoreInv => ReportIsLast
  BY DEF CoreInv, Emptied, Drained, ReportIsLast
<1> QED
  BY <1>1, CoreInvariant, PTL

-----------------------------------------------------------------------------
(***************************************************************************)
(* One response for each command.  A request that answers is in one place: *)
(* at i in a queue, or served (i = 0).                                     *)
(***************************************************************************)
Holds(c, i) == IF i = 0 THEN pc[c] \in Serving /\ req[c].answers
               ELSE i \in 1..Len(queue[c]) /\ queue[c][i].answers
IdAt(c, i) == IF i = 0 THEN req[c].id ELSE queue[c][i].id

\* A command that waits for the response of a controller.
Pending(k) ==
  /\ k \in 1..Popped /\ answers[k] = "none" /\ cmds[k].kind # "schedule"
  /\ at = "handle" => k # cur

HeldPending == \A c \in Ids, i \in Nat : Holds(c, i) => Pending(IdAt(c, i))

OneHolder ==
  \A c, d \in Ids : \A i, j \in Nat :
    Holds(c, i) /\ Holds(d, j) /\ IdAt(c, i) = IdAt(d, j) => c = d /\ i = j

\* The requests that do not answer are the second ones of exchanges.
Legit(r) == r.id \in 1..Popped /\ (r.answers \/ cmds[r.id].kind = "exchange")

AllLegit ==
  /\ \A c \in Ids :
       /\ pc[c] \in Serving => Legit(req[c])
       /\ \A i \in 1..Len(queue[c]) : Legit(queue[c][i])
       /\ pc[c] = "hard" => cmds[req[c].id].kind = "interrupt"
  /\ at = "target" => cmds[cur].kind = "exchange"

Unanswered ==
  /\ \A k \in Ids :
       /\ pc[k] \in Unreported => answers[k] = "none"
       /\ k > Popped => answers[k] = "none"
  /\ at = "handle" => answers[cur] = "none"

OnceInv == AnsweredOnce /\ HeldPending /\ OneHolder /\ AllLegit /\ Unanswered

(* The controllers, the responses and the commands popped stay as they are. *)
LEMMA OnceKept ==
  ASSUME CoreInv, OnceInv, Popped' = Popped,
         \A k \in 1..Popped : cmds'[k] = cmds[k],
         UNCHANGED <<pc, queue, req, answers, cur>>,
         at' = at \/ at' \notin {"handle", "target"}
  PROVE  OnceInv'
<1>1. \A c \in Ids, i \in Nat : (Holds(c, i)' <=> Holds(c, i)) /\ IdAt(c, i)' = IdAt(c, i)
  BY DEF Holds, IdAt
<1>2. AnsweredOnce' /\ OneHolder' /\ Unanswered'
  BY <1>1 DEF OnceInv, AnsweredOnce, OneHolder, Unanswered
<1>3. HeldPending'
  BY <1>1 DEF OnceInv, HeldPending, Pending
<1>4. AllLegit'
  <2>1. at' = "target" => cmds'[cur].kind = "exchange"
    BY DEF OnceInv, AllLegit, CoreInv, Counting, Handling
  <2>2. ASSUME NEW r, Legit(r)
        PROVE  r.id \in 1..Popped' /\ cmds'[r.id] = cmds[r.id]
               /\ (r.answers \/ cmds'[r.id].kind = "exchange")
    BY <2>2 DEF Legit
  <2>3. ASSUME NEW c \in Ids
        PROVE  /\ pc[c] \in Serving => Legit(req[c])'
               /\ \A i \in 1..Len(queue[c]) : Legit(queue[c][i])'
               /\ pc[c] = "hard" => cmds'[req[c].id].kind = "interrupt"
    BY <2>2 DEF OnceInv, AllLegit, Legit, Serving
  <2> QED
    BY <2>1, <2>3 DEF AllLegit
<1> QED
  BY <1>2, <1>3, <1>4 DEF OnceInv

(* A controller moves on, and what it holds moves s places to the front; the command
   a is answered, if there is one, and nobody holds it any more. *)
LEMMA OnceMoves ==
  ASSUME CoreInv, OnceInv, NEW k \in Ids, OnlyController,
         NEW s \in {0, 1}, NEW a,
         \A j \in Ids \ {a} : answers'[j] = answers[j],
         a \in Ids => answers'[a] # "twice",
         a \in Ids => a <= Popped /\ (at = "handle" => a # cur) /\ pc'[a] \notin Unreported,
         \A c \in Ids \ {k} : pc'[c] = pc[c] /\ queue'[c] = queue[c] /\ req'[c] = req[c],
         pc'[k] \in Unreported => pc[k] \in Unreported,
         \A i \in Nat : Holds(k, i)' => Holds(k, i + s) /\ IdAt(k, i)' = IdAt(k, i + s)
                                        /\ IdAt(k, i + s) # a,
         \A c \in Ids \ {k} : \A i \in Nat : Holds(c, i) => IdAt(c, i) # a,
         pc'[k] \in Serving => Legit(req'[k]),
         \A i \in 1..Len(queue'[k]) : Legit(queue'[k][i]),
         pc'[k] = "hard" => cmds[req'[k].id].kind = "interrupt"
  PROVE  OnceInv'
<1>1. UNCHANGED <<cmds, at, cur>> /\ Popped' = Popped /\ Popped \in 0..MaxCommands
  BY ProcessorAssumption DEF OnlyController, clientVars, workVars, Popped, CoreInv, Types, Counting
<1>2. AnsweredOnce'
  BY DEF OnceInv, AnsweredOnce
<1>3. \A c \in Ids \ {k}, i \in Nat : (Holds(c, i)' <=> Holds(c, i)) /\ IdAt(c, i)' = IdAt(c, i)
  BY DEF Holds, IdAt
<1>4. HeldPending'
  <2>1. ASSUME NEW j, Pending(j), j # a PROVE Pending(j)'
    <3>1. j \in Ids
      BY <1>1, <2>1, ProcessorAssumption DEF Pending, Ids
    <3> QED
      BY <1>1, <2>1, <3>1 DEF Pending
  <2>2. ASSUME NEW i \in Nat, Holds(k, i)' PROVE Pending(IdAt(k, i))'
    <3>1. i + s \in Nat /\ Holds(k, i + s) /\ IdAt(k, i)' = IdAt(k, i + s) /\ IdAt(k, i + s) # a
      BY <2>2
    <3>2. Pending(IdAt(k, i + s))
      BY <3>1 DEF OnceInv, HeldPending
    <3> QED
      BY <2>1, <3>1, <3>2, <1>1 DEF Pending
  <2>3. ASSUME NEW c \in Ids \ {k}, NEW i \in Nat, Holds(c, i)' PROVE Pending(IdAt(c, i))'
    <3>1. Holds(c, i) /\ IdAt(c, i)' = IdAt(c, i) /\ IdAt(c, i) # a
      BY <1>3, <2>3
    <3>2. Pending(IdAt(c, i))
      BY <3>1 DEF OnceInv, HeldPending
    <3> QED
      BY <2>1, <3>1, <3>2, <1>1 DEF Pending
  <2> QED
    BY <2>2, <2>3 DEF HeldPending
<1>5. OneHolder'
  <2> DEFINE Old(c, i) == IF c = k THEN i + s ELSE i
  <2>1. ASSUME NEW c \in Ids, NEW i \in Nat, Holds(c, i)'
        PROVE  Old(c, i) \in Nat /\ Holds(c, Old(c, i)) /\ IdAt(c, i)' = IdAt(c, Old(c, i))
    BY <1>3, <2>1
  <2>2. ASSUME NEW c \in Ids, NEW d \in Ids, NEW i \in Nat, NEW j \in Nat,
               Holds(c, i)', Holds(d, j)', IdAt(c, i)' = IdAt(d, j)'
        PROVE  c = d /\ i = j
    <3>1. c = d /\ Old(c, i) = Old(d, j)
      BY <2>1, <2>2 DEF OnceInv, OneHolder
    <3> QED
      BY <3>1
  <2> QED
    BY <2>2 DEF OneHolder
<1>6. AllLegit'
  <2>1. ASSUME NEW r, Legit(r)
        PROVE  r.id \in 1..Popped' /\ (r.answers \/ cmds'[r.id].kind = "exchange")
    BY <1>1, <2>1 DEF Legit
  <2>2. ASSUME NEW c \in Ids
        PROVE  /\ pc'[c] \in Serving => Legit(req[c])'
               /\ \A i \in 1..Len(queue'[c]) : Legit(queue[c][i])'
               /\ pc'[c] = "hard" => cmds'[req'[c].id].kind = "interrupt"
    <3>1. /\ pc'[c] \in Serving => Legit(req'[c])
          /\ \A i \in 1..Len(queue'[c]) : Legit(queue'[c][i])
          /\ pc'[c] = "hard" => cmds[req'[c].id].kind = "interrupt"
      BY DEF OnceInv, AllLegit
    <3> QED
      BY <1>1, <2>1, <3>1 DEF Legit
  <2>3. at' = "target" => cmds'[cur'].kind = "exchange"
    BY <1>1 DEF OnceInv, AllLegit
  <2> QED
    BY <2>2, <2>3 DEF AllLegit
<1>7. Unanswered'
  <2>1. ASSUME NEW j \in Ids
        PROVE  /\ pc'[j] \in Unreported => answers'[j] = "none"
               /\ j > Popped' => answers'[j] = "none"
    BY <1>1 DEF OnceInv, Unanswered, Ids
  <2>2. at' = "handle" => answers'[cur'] = "none"
    BY <1>1 DEF OnceInv, Unanswered, CoreInv, Counting, Handling, Ids
  <2> QED
    BY <2>1, <2>2 DEF Unanswered
<1> QED
  BY <1>2, <1>4, <1>5, <1>6, <1>7 DEF OnceInv

(* The first response to a command is not its second. *)
LEMMA FirstResponse ==
  ASSUME CoreInv, NEW a \in Ids, answers[a] = "none", NEW b \in BOOLEAN, Respond(a, b)
  PROVE  answers'[a] # "twice" /\ \A j \in Ids \ {a} : answers'[j] = answers[j]
BY DEF CoreInv, Types, Respond

(* A command that waits has no controller, and is the only one at its place. *)
LEMMA PendingAlone ==
  ASSUME CoreInv, OnceInv, NEW c \in Ids, NEW i \in Nat, Holds(c, i)
  PROVE  /\ IdAt(c, i) \in Ids /\ IdAt(c, i) <= Popped /\ answers[IdAt(c, i)] = "none"
         /\ at = "handle" => IdAt(c, i) # cur
         /\ pc[IdAt(c, i)] = "none"
         /\ \A d \in Ids, j \in Nat :
              Holds(d, j) /\ (d # c \/ j # i) => IdAt(d, j) # IdAt(c, i)
<1>1. Pending(IdAt(c, i))
  BY DEF OnceInv, HeldPending
<1>2. Popped \in 0..MaxCommands
  BY ProcessorAssumption DEF Popped, CoreInv, Types, Counting
<1>3. IdAt(c, i) \in Ids
  BY <1>1, <1>2, ProcessorAssumption DEF Pending, Ids
<1> QED
  BY <1>1, <1>2, <1>3 DEF Pending, CoreInv, Created, OnceInv, OneHolder

(* Every step of a controller answers at most one command, that was not answered. *)
LEMMA OnceControl ==
  ASSUME CoreInv, OnceInv, NEW k \in Ids, Control(k)
  PROVE  OnceInv'
<1>1. /\ pc \in [Ids -> PcStates] /\ answers \in [Ids -> {"none", "yes", "no", "twice"}]
      /\ queue \in [Ids -> Seq(Request)] /\ req \in [Ids -> Request \cup {Nothing}]
      /\ queue[k] \in Seq(Request)
  BY DEF CoreInv, Types
<1>2. 0 \notin Ids
  BY DEF Ids
<1>3. /\ pc[k] \in Serving => Legit(req[k])
      /\ \A i \in 1..Len(queue[k]) : Legit(queue[k][i])
      /\ pc[k] = "hard" => cmds[req[k].id].kind = "interrupt"
  BY DEF OnceInv, AllLegit
<1>4. CASE Take(k)
  <2>1. /\ pc[k] = "look" /\ pc' = [pc EXCEPT ![k] = "serve"] /\ answers' = answers
        /\ queue' = [queue EXCEPT ![k] = Tail(@)] /\ req' = [req EXCEPT ![k] = queue[k][1]]
        /\ Len(queue[k]) \in Nat \ {0} /\ OnlyController
    BY <1>1, <1>4 DEF Take, Goto, NoResponse
  <2>2. /\ Len(queue'[k]) = Len(queue[k]) - 1
        /\ \A i \in 1..Len(queue'[k]) : queue'[k][i] = queue[k][i + 1]
    BY <1>1, <2>1
  <2>3. ASSUME NEW i \in Nat, Holds(k, i)'
        PROVE  Holds(k, i + 1) /\ IdAt(k, i)' = IdAt(k, i + 1) /\ IdAt(k, i + 1) # 0
    <3>1. Holds(k, i + 1) /\ IdAt(k, i)' = IdAt(k, i + 1)
      BY <1>1, <2>1, <2>2, <2>3 DEF Holds, IdAt
    <3> QED
      BY <1>2, <3>1, PendingAlone
  <2>4. \A c \in Ids, i \in Nat : Holds(c, i) => IdAt(c, i) # 0
    BY <1>2, PendingAlone
  <2>5. Legit(req'[k]) /\ \A i \in 1..Len(queue'[k]) : Legit(queue'[k][i])
    BY <1>1, <1>3, <2>1, <2>2
  <2>6. pc'[k] = "serve"
    BY <1>1, <2>1
  <2> QED
    BY <1>1, <1>2, <2>1, <2>3, <2>4, <2>5, <2>6, OnceMoves DEF Unreported
<1>5. ASSUME NoResponse, OnlyController, UNCHANGED <<queue, req>>,
             NEW from \in PcStates, NEW to \in PcStates, Goto(k, from, to),
             to \in Serving => from \in Serving, to \in Unreported => from \in Unreported,
             to = "hard" => cmds[req[k].id].kind = "interrupt"
      PROVE  OnceInv'
  <2>1. pc[k] = from /\ pc' = [pc EXCEPT ![k] = to] /\ answers' = answers
    BY <1>5 DEF Goto, NoResponse
  <2>2. ASSUME NEW i \in Nat, Holds(k, i)'
        PROVE  Holds(k, i + 0) /\ IdAt(k, i)' = IdAt(k, i + 0) /\ IdAt(k, i + 0) # 0
    <3>1. Holds(k, i) /\ IdAt(k, i)' = IdAt(k, i)
      BY <1>1, <1>5, <2>1, <2>2 DEF Holds, IdAt
    <3> QED
      BY <1>2, <3>1, PendingAlone
  <2>3. \A c \in Ids, i \in Nat : Holds(c, i) => IdAt(c, i) # 0
    BY <1>2, PendingAlone
  <2>4. pc'[k] = to /\ \A c \in Ids \ {k} : pc'[c] = pc[c]
    BY <1>1, <2>1
  <2>5. pc'[k] \in Serving => Legit(req'[k])
    BY <1>3, <1>5, <2>1, <2>4
  <2> QED
    BY <1>1, <1>2, <1>3, <1>5, <2>1, <2>2, <2>3, <2>4, <2>5, OnceMoves
<1>6. CASE HardInterrupt(k)
  BY <1>5, <1>6 DEF HardInterrupt, PcStates, Serving, Unreported
<1>7. CASE Leave(k)
  BY <1>5, <1>7 DEF Leave, PcStates, Serving, Unreported
<1>8. CASE DrainEnd(k)
  <2>1. PICK to \in {"success", "failure"} : Goto(k, "drain", to)
    BY <1>8 DEF DrainEnd
  <2> QED
    BY <1>5, <1>8, <2>1 DEF DrainEnd, PcStates, Serving, Unreported
<1>9. CASE Finish(k)
  BY <1>5, <1>9 DEF Finish, PcStates, Serving, Unreported
<1>10. ASSUME NEW from \in Serving, Goto(k, from, "loop"), OnlyController,
              IF req[k].answers THEN \E b \in BOOLEAN : Respond(req[k].id, b) ELSE NoResponse,
              UNCHANGED queue, req' = [req EXCEPT ![k] = Nothing]
       PROVE  OnceInv'
  <2>1. /\ pc[k] = from /\ from \in Unreported /\ pc'[k] = "loop" /\ queue'[k] = queue[k]
        /\ \A c \in Ids \ {k} : pc'[c] = pc[c] /\ queue'[c] = queue[c] /\ req'[c] = req[c]
    BY <1>1, <1>10 DEF Goto, Serving, Unreported
  <2>2. ASSUME NEW i \in Nat, Holds(k, i)'
        PROVE  i # 0 /\ Holds(k, i + 0) /\ IdAt(k, i)' = IdAt(k, i + 0)
    BY <2>1, <2>2 DEF Holds, IdAt, Serving
  <2>3. pc'[k] \notin Serving
    BY <2>1 DEF Serving
  <2>4. CASE req[k].answers
    <3> DEFINE a == IdAt(k, 0)
    <3>1. Holds(k, 0) /\ a = req[k].id
      BY <1>10, <2>1, <2>4 DEF Holds, IdAt
    <3>2. /\ a \in Ids /\ a <= Popped /\ answers[a] = "none" /\ (at = "handle" => a # cur)
          /\ pc[a] = "none"
          /\ \A d \in Ids, j \in Nat : Holds(d, j) /\ (d # k \/ j # 0) => IdAt(d, j) # a
      BY <3>1, PendingAlone
    <3>3. answers'[a] # "twice" /\ \A j \in Ids \ {a} : answers'[j] = answers[j]
      BY <1>10, <2>4, <3>1, <3>2, FirstResponse
    <3>4. pc'[a] \notin Unreported
      BY <2>1, <3>2 DEF Unreported
    <3> HIDE DEF a
    <3> QED
      BY <1>3, <1>10, <2>1, <2>2, <2>3, <3>2, <3>3, <3>4, OnceMoves DEF Serving
  <2>5. CASE ~req[k].answers
    <3>1. answers' = answers
      BY <1>10, <2>5 DEF NoResponse
    <3>2. \A c \in Ids, i \in Nat : Holds(c, i) => IdAt(c, i) # 0
      BY <1>2, PendingAlone
    <3> QED
      BY <1>2, <1>3, <1>10, <2>1, <2>2, <2>3, <3>1, <3>2, OnceMoves DEF Serving
  <2> QED
    BY <2>4, <2>5
<1>11. CASE Serve(k)
  BY <1>10, <1>11 DEF Serve, Serving
<1>12. CASE AnswerHard(k)
  <2>1. pc[k] = "hard" /\ cmds[req[k].id].kind = "interrupt" /\ Legit(req[k])
    BY <1>3, <1>12 DEF AnswerHard, Goto, Serving
  <2>2. req[k].answers
    BY <2>1 DEF Legit
  <2> QED
    BY <1>10, <1>12, <2>2 DEF AnswerHard, Serving
<1>13. CASE Skip(k)
  <2>1. /\ pc[k] = "drain" /\ pc' = pc /\ req' = req /\ OnlyController
        /\ Len(queue[k]) \in Nat \ {0} /\ queue' = [queue EXCEPT ![k] = Tail(@)]
        /\ IF queue[k][1].answers THEN Respond(queue[k][1].id, FALSE) ELSE NoResponse
    <3>1. queue[k] # <<>> /\ Head(queue[k]) = queue[k][1]
      BY <1>1, <1>13 DEF Skip
    <3>2. /\ pc[k] = "drain" /\ pc' = pc /\ req' = req /\ OnlyController
          /\ queue' = [queue EXCEPT ![k] = Tail(@)]
          /\ IF queue[k][1].answers THEN Respond(queue[k][1].id, FALSE) ELSE NoResponse
      BY <1>13, <3>1 DEF Skip, Skipped, Respond
    <3>3. Len(queue[k]) \in Nat \ {0}
      BY <1>1, <3>1
    <3> QED
      BY <3>2, <3>3
  <2>2. /\ Len(queue'[k]) = Len(queue[k]) - 1
        /\ \A i \in 1..Len(queue'[k]) : queue'[k][i] = queue[k][i + 1]
        /\ \A c \in Ids \ {k} : queue'[c] = queue[c]
    BY <1>1, <2>1
  <2>3. ASSUME NEW i \in Nat, Holds(k, i)'
        PROVE  i # 0 /\ Holds(k, i + 1) /\ IdAt(k, i)' = IdAt(k, i + 1)
    BY <2>1, <2>2, <2>3 DEF Holds, IdAt, Serving
  <2>4. \A i \in 1..Len(queue'[k]) : Legit(queue'[k][i])
    BY <1>3, <2>1, <2>2
  <2>5. pc'[k] \notin Serving /\ pc'[k] # "hard"
    BY <2>1 DEF Serving
  <2>6. CASE queue[k][1].answers
    <3> DEFINE a == IdAt(k, 1)
    <3>1. Holds(k, 1) /\ a = queue[k][1].id
      BY <2>1, <2>6 DEF Holds, IdAt
    <3>2. /\ a \in Ids /\ a <= Popped /\ answers[a] = "none" /\ (at = "handle" => a # cur)
          /\ pc[a] = "none"
          /\ \A d \in Ids, j \in Nat : Holds(d, j) /\ (d # k \/ j # 1) => IdAt(d, j) # a
      BY <3>1, PendingAlone
    <3>3. answers'[a] # "twice" /\ \A j \in Ids \ {a} : answers'[j] = answers[j]
      BY <2>1, <2>6, <3>1, <3>2, FirstResponse
    <3>4. pc'[a] \notin Unreported
      BY <2>1, <3>2 DEF Unreported
    <3> HIDE DEF a
    <3> QED
      <4>1. \A i \in Nat : Holds(k, i)' => IdAt(k, i + 1) # a
        BY <2>3, <3>2
      <4>2. \A c \in Ids \ {k} : \A i \in Nat : Holds(c, i) => IdAt(c, i) # a
        BY <3>2
      <4>3. \A c \in Ids \ {k} : pc'[c] = pc[c] /\ queue'[c] = queue[c] /\ req'[c] = req[c]
        BY <2>1, <2>2
      <4>4. OnlyController /\ pc' = pc
        BY <2>1
      <4> QED
        BY <2>3, <2>4, <2>5, <3>2, <3>3, <3>4, <4>1, <4>2, <4>3, <4>4, OnceMoves
  <2>7. CASE ~queue[k][1].answers
    <3>1. answers' = answers
      BY <2>1, <2>7 DEF NoResponse
    <3>2. \A c \in Ids, i \in Nat : Holds(c, i) => IdAt(c, i) # 0
      BY <1>2, PendingAlone
    <3> QED
      <4>1. \A i \in Nat : Holds(k, i)' => IdAt(k, i + 1) # 0
        BY <2>3, <3>2
      <4>2. \A c \in Ids \ {k} : pc'[c] = pc[c] /\ queue'[c] = queue[c] /\ req'[c] = req[c]
        BY <2>1, <2>2
      <4>3. OnlyController /\ pc' = pc
        BY <2>1
      <4> QED
        BY <1>2, <2>3, <2>4, <2>5, <3>1, <3>2, <4>1, <4>2, <4>3, OnceMoves
  <2> QED
    BY <2>6, <2>7
<1>14. CASE Report(k)
  <2>1. /\ pc[k] \in {"success", "failure"} /\ pc'[k] = "finish"
        /\ \A c \in Ids \ {k} : pc'[c] = pc[c]
        /\ queue' = queue /\ req' = req /\ OnlyController /\ \E b \in BOOLEAN : Respond(k, b)
    BY <1>1, <1>14 DEF Report, Goto
  <2>2. /\ k <= Popped /\ (at = "handle" => k # cur) /\ answers[k] = "none"
        /\ \A c \in Ids, i \in Nat : Holds(c, i) => IdAt(c, i) # k
    BY <2>1, PendingAlone DEF CoreInv, Created, OnceInv, Unanswered, Unreported
  <2>3. answers'[k] # "twice" /\ \A j \in Ids \ {k} : answers'[j] = answers[j]
    BY <2>1, <2>2, FirstResponse
  <2>4. ASSUME NEW i \in Nat, Holds(k, i)'
        PROVE  Holds(k, i + 0) /\ IdAt(k, i)' = IdAt(k, i + 0)
    BY <2>1, <2>4 DEF Holds, IdAt, Serving
  <2>5. pc'[k] \notin Serving /\ pc'[k] \notin Unreported /\ pc'[k] # "hard"
    BY <2>1 DEF Serving, Unreported
  <2> QED
    BY <1>3, <2>1, <2>2, <2>3, <2>4, <2>5, OnceMoves
<1>15. CASE Enter(k)
  BY <1>5, <1>15 DEF Enter, PcStates, Serving, Unreported
<1>16. CASE FindNone(k)
  BY <1>5, <1>16 DEF FindNone, PcStates, Serving, Unreported
<1> QED
  BY <1>4, <1>6, <1>7, <1>8, <1>9, <1>11, <1>12, <1>13, <1>14, <1>15, <1>16 DEF Control

(* A command that is refused has no controller, and no request was placed for it. *)
LEMMA OnceRefuse ==
  ASSUME CoreInv, OnceInv, Refuse
  PROVE  OnceInv'
<1>1. /\ at = "handle" /\ at' = "count" /\ cur \in Ids /\ answers[cur] = "none"
      /\ UNCHANGED <<cmds, pc, queue, req, cur>> /\ Popped' = Popped /\ Respond(cur, FALSE)
  BY DEF Refuse, clientVars, ctlVars, Popped, CoreInv, Counting, Handling, Ids, OnceInv, Unanswered
<1>2. answers'[cur] # "twice" /\ \A j \in Ids \ {cur} : answers'[j] = answers[j]
  BY <1>1, FirstResponse
<1>3. \A c \in Ids, i \in Nat : (Holds(c, i)' <=> Holds(c, i)) /\ IdAt(c, i)' = IdAt(c, i)
  BY <1>1 DEF Holds, IdAt
<1>4. AnsweredOnce' /\ OneHolder'
  BY <1>1, <1>2, <1>3 DEF OnceInv, AnsweredOnce, OneHolder
<1>5. HeldPending'
  <2> SUFFICES ASSUME NEW c \in Ids, NEW i \in Nat, Holds(c, i) PROVE Pending(IdAt(c, i))'
    BY <1>3 DEF HeldPending
  <2>1. Pending(IdAt(c, i)) /\ IdAt(c, i) \in Ids \ {cur}
    BY <1>1, PendingAlone DEF OnceInv, HeldPending
  <2> QED
    BY <1>1, <1>2, <1>3, <2>1 DEF Pending
<1>6. Unanswered'
  <2>1. pc[cur] \notin Unreported /\ \A k \in Ids : k > Popped => k # cur
    BY <1>1 DEF Unreported, CoreInv, Created, Counting, Handling, Ids
  <2> QED
    BY <1>1, <1>2, <2>1 DEF OnceInv, Unanswered
<1>7. AllLegit'
  BY <1>1 DEF OnceInv, AllLegit, Legit
<1> QED
  BY <1>4, <1>5, <1>6, <1>7 DEF OnceInv

(* A new controller has nothing to answer but its own command. *)
LEMMA OnceSchedule ==
  ASSUME CoreInv, OnceInv, Schedule
  PROVE  OnceInv'
<1>1. /\ at = "handle" /\ at' = "count" /\ cur \in Ids /\ answers[cur] = "none"
      /\ UNCHANGED <<cmds, queue, req, cur, answers>> /\ Popped' = Popped /\ cur = Popped
      /\ pc' = [pc EXCEPT ![cur] = "loop"]
  BY DEF Schedule, clientVars, resultVars, Popped, CoreInv, Counting, Handling, Ids, OnceInv,
    Unanswered
<1>2. pc[cur] = "none" /\ pc'[cur] = "loop" /\ \A j \in Ids \ {cur} : pc'[j] = pc[j]
  BY <1>1 DEF CoreInv, Types, Created
<1>3. \A c \in Ids, i \in Nat : (Holds(c, i)' <=> Holds(c, i)) /\ IdAt(c, i)' = IdAt(c, i)
  BY <1>1, <1>2 DEF Holds, IdAt, Serving
<1>4. AnsweredOnce' /\ OneHolder'
  BY <1>1, <1>3 DEF OnceInv, AnsweredOnce, OneHolder
<1>5. HeldPending'
  <2> SUFFICES ASSUME NEW c \in Ids, NEW i \in Nat, Holds(c, i) PROVE Pending(IdAt(c, i))'
    BY <1>3 DEF HeldPending
  <2>1. Pending(IdAt(c, i))
    BY DEF OnceInv, HeldPending
  <2> QED
    BY <1>1, <1>3, <2>1 DEF Pending
<1>6. Unanswered'
  BY <1>1, <1>2 DEF OnceInv, Unanswered
<1>7. AllLegit'
  BY <1>1, <1>2 DEF OnceInv, AllLegit, Legit, Serving
<1> QED
  BY <1>4, <1>5, <1>6, <1>7 DEF OnceInv

(* The first request of a command answers, the second one does not. *)
LEMMA OnceInvoke ==
  ASSUME CoreInv, OnceInv, NEW k,
         \/ /\ at = "handle" /\ Cmd.kind # "schedule"
            /\ (Place(k, IF Cmd.kind = "exchange" THEN "target" ELSE "count") \/ Throw(k))
         \/ at = "target" /\ (Place(k, "count") \/ Throw(k))
  PROVE  OnceInv'
<1>1. /\ cur \in Ids /\ cur = Popped /\ at \in {"handle", "target"} /\ at' # "handle"
      /\ at' = "target" => cmds[cur].kind = "exchange"
      /\ UNCHANGED <<cmds, pc, req, cur, answers>> /\ Popped' = Popped
  BY DEF Place, Throw, clientVars, ctlVars, resultVars, Popped, CoreInv, Counting, Handling, Ids,
    Cmd
<1>2. CASE Throw(k) \/ k \notin Ids
  <2>1. queue' = queue
    BY <1>2 DEF Place, Throw, ctlVars, CoreInv, Types
  <2>2. \A c \in Ids, i \in Nat : (Holds(c, i)' <=> Holds(c, i)) /\ IdAt(c, i)' = IdAt(c, i)
    BY <1>1, <2>1 DEF Holds, IdAt
  <2>3. HeldPending'
    BY <1>1, <2>2 DEF OnceInv, HeldPending, Pending
  <2>4. AllLegit'
    BY <1>1, <2>1 DEF OnceInv, AllLegit, Legit
  <2> QED
    BY <1>1, <2>2, <2>3, <2>4 DEF OnceInv, AnsweredOnce, OneHolder, Unanswered
<1>3. CASE k \in Ids /\ ~Throw(k)
  <2> DEFINE r == [id |-> cur, answers |-> Answering]
  <2>0. queue[k] \in Seq(Request) /\ Len(queue[k]) \in Nat
    BY <1>3 DEF CoreInv, Types
  <2> PICK n \in Nat \ {0} : n = Len(queue[k]) + 1
    BY <2>0
  <2>1. r \in Request /\ queue' = [queue EXCEPT ![k] = Append(@, r)]
    BY <1>1, <1>3 DEF Place, Queued, Request, Answering
  <2>2. /\ Len(queue'[k]) = n /\ queue'[k][n] = r
        /\ \A i \in 1..Len(queue[k]) : queue'[k][i] = queue[k][i]
        /\ \A c \in Ids \ {k} : queue'[c] = queue[c]
    BY <1>3, <2>0, <2>1 DEF CoreInv, Types
  <2>3. /\ r.id = cur /\ (r.answers <=> at = "handle")
        /\ r.answers => (answers[cur] = "none" /\ cmds[cur].kind # "schedule")
        /\ ~r.answers => cmds[cur].kind = "exchange"
    BY <1>1, <1>3 DEF Answering, Cmd, OnceInv, Unanswered, AllLegit
  <2> HIDE DEF r
  <2>4. ASSUME NEW c \in Ids, NEW i \in Nat, Holds(c, i)', c # k \/ i # n
        PROVE  Holds(c, i) /\ IdAt(c, i)' = IdAt(c, i)
    BY <1>1, <2>0, <2>2, <2>4 DEF Holds, IdAt
  <2>5. Holds(k, n)' => r.answers /\ IdAt(k, n)' = cur
    BY <2>2, <2>3 DEF Holds, IdAt
  <2>6. ASSUME NEW c \in Ids, NEW i \in Nat, Holds(c, i), r.answers
        PROVE  IdAt(c, i) # cur
    BY <2>3, <2>6, PendingAlone
  <2>7. HeldPending'
    <3>1. ASSUME NEW c \in Ids, NEW i \in Nat, Holds(c, i)', c # k \/ i # n
          PROVE  Pending(IdAt(c, i))'
      <4>1. Pending(IdAt(c, i)) /\ IdAt(c, i)' = IdAt(c, i)
        BY <2>4, <3>1 DEF OnceInv, HeldPending
      <4> QED
        BY <1>1, <4>1 DEF Pending
    <3>2. ASSUME Holds(k, n)' PROVE Pending(IdAt(k, n))'
      BY <1>1, <2>3, <2>5, <3>2 DEF Pending, Ids
    <3> QED
      BY <3>1, <3>2 DEF HeldPending
  <2>8. OneHolder'
    <3> SUFFICES ASSUME NEW c \in Ids, NEW d \in Ids, NEW i \in Nat, NEW j \in Nat,
                        Holds(c, i)', Holds(d, j)', IdAt(c, i)' = IdAt(d, j)'
                 PROVE  c = d /\ i = j
      BY DEF OneHolder
    <3>1. CASE (c # k \/ i # n) /\ (d # k \/ j # n)
      BY <2>4, <3>1 DEF OnceInv, OneHolder
    <3>2. CASE c = k /\ i = n /\ (d # k \/ j # n)
      BY <2>4, <2>5, <2>6, <3>2
    <3>3. CASE d = k /\ j = n /\ (c # k \/ i # n)
      BY <2>4, <2>5, <2>6, <3>3
    <3> QED
      BY <3>1, <3>2, <3>3
  <2>9. AllLegit'
    <3>1. Legit(r)
      BY <1>1, <2>3 DEF Legit, Ids
    <3>2. ASSUME NEW q, Legit(q) PROVE Legit(q)'
      BY <1>1, <3>2 DEF Legit
    <3>3. ASSUME NEW c \in Ids, NEW i \in 1..Len(queue'[c]) PROVE Legit(queue'[c][i])
      <4>1. \/ i \in 1..Len(queue[c]) /\ queue'[c][i] = queue[c][i]
            \/ queue'[c][i] = r
        BY <2>0, <2>2
      <4> QED
        BY <3>1, <4>1 DEF OnceInv, AllLegit
    <3>4. ASSUME NEW c \in Ids
          PROVE  /\ pc'[c] \in Serving => Legit(req[c])'
                 /\ \A i \in 1..Len(queue'[c]) : Legit(queue[c][i])'
                 /\ pc'[c] = "hard" => cmds'[req'[c].id].kind = "interrupt"
      BY <1>1, <3>3 DEF OnceInv, AllLegit, Legit
    <3> QED
      BY <1>1, <3>4 DEF AllLegit
  <2>10. AnsweredOnce' /\ Unanswered'
    BY <1>1 DEF OnceInv, AnsweredOnce, Unanswered
  <2> QED
    BY <2>7, <2>8, <2>9, <2>10 DEF OnceInv
<1> QED
  BY <1>2, <1>3

(* The worker, that has a command of its own. *)
LEMMA OnceWork ==
  ASSUME CoreInv, OnceInv, Work
  PROVE  OnceInv'
<1>1. CASE TestClosed \/ TestBusy \/ NoCommand \/ EndPass
  BY <1>1, OnceKept DEF TestClosed, TestBusy, NoCommand, EndPass, Quiet, clientVars, ctlVars,
    resultVars, Popped
<1>2. CASE Count
  <2>1. Popped' = Popped /\ UNCHANGED <<cmds, pc, queue, req, answers>> /\ at' = "reap"
    BY <1>2 DEF Count, Quiet, clientVars, ctlVars, resultVars, Popped
  <2>2. \A c \in Ids, i \in Nat : (Holds(c, i)' <=> Holds(c, i)) /\ IdAt(c, i)' = IdAt(c, i)
    BY <2>1 DEF Holds, IdAt
  <2> QED
    BY <2>1, <2>2 DEF OnceInv, AnsweredOnce, OneHolder, Unanswered, HeldPending, Pending, AllLegit,
      Legit
<1>3. CASE \E k \in Ids : Reap(k)
  BY <1>3, OnceKept DEF Reap, Quiet, clientVars, ctlVars, resultVars, Popped
<1>4. CASE PopCommand
  <2>1. /\ Popped' = Popped + 1 /\ Popped \in Nat /\ cur' = Popped + 1 /\ cur' \in Ids
        /\ at' = "handle" /\ at = "poll" /\ UNCHANGED <<cmds, pc, queue, req, answers>>
    <3>1. /\ Len(in_queue') = Len(in_queue) - 1 /\ Len(in_queue) \in Nat \ {0}
          /\ cur' = in_queue[1] /\ cur' \in Ids
      BY <1>4 DEF CoreInv, Types, PopCommand
    <3> QED
      BY <1>4, <3>1 DEF CoreInv, Types, Counting, Popped, PopCommand, ctlVars, resultVars
  <2>2. \A c \in Ids, i \in Nat : (Holds(c, i)' <=> Holds(c, i)) /\ IdAt(c, i)' = IdAt(c, i)
    BY <2>1 DEF Holds, IdAt
  <2>3. HeldPending'
    <3>1. ASSUME NEW j, Pending(j)
          PROVE  j \in 1..Popped' /\ answers'[j] = "none" /\ cmds'[j].kind # "schedule" /\ j # cur'
      BY <2>1, <3>1 DEF Pending
    <3> QED
      BY <2>1, <2>2, <3>1 DEF OnceInv, HeldPending, Pending
  <2>4. AllLegit'
    <3>1. ASSUME NEW r, Legit(r)
          PROVE  r.id \in 1..Popped' /\ (r.answers \/ cmds'[r.id].kind = "exchange")
      BY <2>1, <3>1 DEF Legit
    <3>2. ASSUME NEW c \in Ids
          PROVE  /\ pc'[c] \in Serving => Legit(req[c])'
                 /\ \A i \in 1..Len(queue'[c]) : Legit(queue[c][i])'
                 /\ pc'[c] = "hard" => cmds'[req'[c].id].kind = "interrupt"
      BY <2>1, <3>1 DEF OnceInv, AllLegit, Legit
    <3> QED
      BY <2>1, <3>2 DEF AllLegit
  <2>5. AnsweredOnce' /\ OneHolder' /\ Unanswered'
    BY <2>1, <2>2 DEF OnceInv, AnsweredOnce, OneHolder, Unanswered, Ids
  <2> QED
    BY <2>3, <2>4, <2>5 DEF OnceInv
<1>5. CASE Refuse
  BY <1>5, OnceRefuse
<1>6. CASE Schedule
  BY <1>6, OnceSchedule
<1>7. CASE Delegate
  BY <1>7, OnceInvoke DEF Delegate
<1>8. CASE DelegateTarget
  BY <1>8, OnceInvoke DEF DelegateTarget
<1> QED
  BY <1>1, <1>2, <1>3, <1>4, <1>5, <1>6, <1>7, <1>8 DEF Work

(* Every behaviour satisfies the invariant. *)
LEMMA OnceInvariant == Spec => []OnceInv
<1>1. ASSUME Init PROVE OnceInv
  <2>1. \A c \in Ids, i \in Nat : ~Holds(c, i)
    BY <1>1 DEF Init, Holds, Serving
  <2> QED
    BY <1>1, <2>1 DEF Init, OnceInv, AnsweredOnce, HeldPending, OneHolder, AllLegit, Unanswered,
      Serving, Unreported
<1>2. ASSUME CoreInv, OnceInv, [Next]_vars PROVE OnceInv'
  <2>1. CASE \E m \in Commands : Allowed(Append(cmds, m)) /\ Submit(m)
    <3>1. Popped' = Popped /\ \A k \in 1..Popped : cmds'[k] = cmds[k]
      BY <2>1 DEF Submit, Popped, CoreInv, Types, Counting
    <3> QED
      BY <1>2, <2>1, <3>1, OnceKept DEF Submit, workVars, ctlVars, resultVars
  <2>2. CASE Close \/ TakeResponse \/ UNCHANGED vars \/ (\E k \in Ids : ChainStops(k))
    BY <1>2, <2>2, OnceKept DEF Close, TakeResponse, ChainStops, vars, clientVars, workVars,
      ctlVars, resultVars, Popped
  <2>3. CASE Work
    BY <1>2, <2>3, OnceWork
  <2>4. CASE \E k \in Ids : Control(k)
    BY <1>2, <2>4, OnceControl
  <2> QED
    BY <1>2, <2>1, <2>2, <2>3, <2>4 DEF Next
<1> QED
  BY <1>1, <1>2, CoreInvariant, PTL DEF Spec

(* A command never gets a second response: not from both controllers of an exchange,
   nor from a controller's loop and its drain, whatever the commands. *)
THEOREM ProcessorAnsweredOnce == Spec => []AnsweredOnce
<1>1. OnceInv => AnsweredOnce
  BY DEF OnceInv
<1> QED
  BY <1>1, OnceInvariant, PTL

-----------------------------------------------------------------------------
(***************************************************************************)
(* Nothing gets lost, and the order of the responses.                      *)
(***************************************************************************)

\* A command that was handled and has no response, but was not lost, has a controller
\* that has not reported, or a request that answers.
Due(k) ==
  /\ k \in 1..Popped /\ answers[k] = "none" /\ k \notin lost
  /\ ~(at = "handle" /\ k = cur)
HeldBy(k) == \E c \in Ids, i \in Nat : Holds(c, i) /\ IdAt(c, i) = k
DueHeld == \A k \in Ids : Due(k) => pc[k] \in Unreported \/ HeldBy(k)

\* Controllers have chains of different names, and are asked about their own chains,
\* in the order of the commands.
Fresh == \A c \in Ids : pc[c] = "none" => queue[c] = <<>>
UniqueUid == \A c, d \in chains : cmds[c].uid = cmds[d].uid => c = d
HolderMatches == \A c \in Ids, i \in Nat : Holds(c, i) => cmds[c].uid = cmds[IdAt(c, i)].chain
Ordered ==
  \A c \in Ids, i, j \in Nat : Holds(c, i) /\ Holds(c, j) /\ i < j => IdAt(c, i) < IdAt(c, j)

\* Both controllers of an exchange are still there when the second is asked.
PeerFound == at = "target" => Found(Cmd.peer)

OrderInv ==
  DueHeld /\ Fresh /\ UniqueUid /\ HolderMatches /\ Ordered /\ PeerFound /\ InOrder

(* What a step of a controller does to the requests it holds: they move s places to
   the front, and the one it answers is its first. *)
Shift(k, s) ==
  /\ UNCHANGED <<clientVars, workVars, lost>>
  /\ \A c \in Ids \ {k} : pc'[c] = pc[c] /\ queue'[c] = queue[c] /\ req'[c] = req[c]
  /\ pc[k] # "none" /\ pc'[k] # "none"
  /\ \A i \in Nat : Holds(k, i)' => Holds(k, i + s) /\ IdAt(k, i)' = IdAt(k, i + s)
  /\ \A i \in Nat : Holds(k, i) =>
       \/ answers'[IdAt(k, i)] # "none"
       \/ \E j \in Nat : Holds(k, j)' /\ IdAt(k, j)' = IdAt(k, i)
  /\ pc[k] \in Unreported => answers'[k] # "none" \/ pc'[k] \in Unreported
  /\ \A a \in Ids : answers'[a] # answers[a] =>
       /\ answers'[a] # "none"
       /\ \/ a = k
          \/ \E i \in Nat : Holds(k, i) /\ IdAt(k, i) = a /\ \A j \in Nat : Holds(k, j) => i <= j

LEMMA ControlShift ==
  ASSUME CoreInv, OnceInv, NEW k \in Ids, Control(k)
  PROVE  \E s \in {0, 1} : Shift(k, s)
<1>1. /\ pc \in [Ids -> PcStates] /\ answers \in [Ids -> {"none", "yes", "no", "twice"}]
      /\ queue \in [Ids -> Seq(Request)] /\ req \in [Ids -> Request \cup {Nothing}]
      /\ queue[k] \in Seq(Request)
  BY DEF CoreInv, Types
<1>2. ASSUME NEW from \in PcStates \ {"none"}, NEW to \in PcStates \ {"none"}, Goto(k, from, to),
             NoResponse, OnlyController, UNCHANGED <<queue, req>>, to \in Serving <=> from \in Serving,
             from \in Unreported => to \in Unreported
      PROVE  Shift(k, 0)
  <2>1. \A i \in Nat : (Holds(k, i)' <=> Holds(k, i + 0)) /\ IdAt(k, i)' = IdAt(k, i + 0)
    BY <1>1, <1>2 DEF Holds, IdAt, Goto
  <2>2. pc[k] = from /\ pc'[k] = to /\ \A c \in Ids \ {k} : pc'[c] = pc[c]
    BY <1>1, <1>2 DEF Goto
  <2> QED
    BY <1>2, <2>1, <2>2 DEF Shift, NoResponse, OnlyController
<1>3. CASE Enter(k) \/ FindNone(k) \/ HardInterrupt(k) \/ Leave(k) \/ DrainEnd(k) \/ Finish(k)
  <2>1. PICK from \in {"serve", "loop", "look", "drain", "finish"},
             to \in {"look", "loop", "hard", "drain", "success", "failure", "done"} :
               /\ Goto(k, from, to) /\ (to \in Serving <=> from \in Serving)
               /\ from \in Unreported => to \in Unreported
    BY <1>3 DEF Enter, FindNone, HardInterrupt, Leave, DrainEnd, Finish, Goto, Serving, Unreported
  <2>2. NoResponse /\ OnlyController /\ UNCHANGED <<queue, req>>
    BY <1>3 DEF Enter, FindNone, HardInterrupt, Leave, DrainEnd, Finish
  <2>3. from \in PcStates \ {"none"} /\ to \in PcStates \ {"none"}
    BY DEF PcStates
  <2> QED
    BY <1>2, <2>1, <2>2, <2>3
<1>4. CASE Take(k)
  <2>1. /\ pc[k] = "look" /\ pc' = [pc EXCEPT ![k] = "serve"] /\ answers' = answers
        /\ queue' = [queue EXCEPT ![k] = Tail(@)] /\ req' = [req EXCEPT ![k] = queue[k][1]]
        /\ Len(queue[k]) \in Nat \ {0} /\ OnlyController
    BY <1>1, <1>4 DEF Take, Goto, NoResponse
  <2>2. /\ Len(queue'[k]) = Len(queue[k]) - 1
        /\ \A i \in 1..Len(queue'[k]) : queue'[k][i] = queue[k][i + 1]
        /\ pc'[k] = "serve" /\ req'[k] = queue[k][1]
        /\ \A c \in Ids \ {k} : pc'[c] = pc[c] /\ queue'[c] = queue[c] /\ req'[c] = req[c]
    BY <1>1, <2>1
  <2>3. ASSUME NEW i \in Nat, Holds(k, i)' PROVE Holds(k, i + 1) /\ IdAt(k, i)' = IdAt(k, i + 1)
    BY <1>1, <2>1, <2>2, <2>3 DEF Holds, IdAt
  <2>4. ASSUME NEW i \in Nat, Holds(k, i)
        PROVE  \E j \in Nat : Holds(k, j)' /\ IdAt(k, j)' = IdAt(k, i)
    <3>1. i \in 1..Len(queue[k]) /\ queue[k][i].answers /\ i - 1 \in Nat
      BY <2>1, <2>4 DEF Holds, Serving
    <3>2. Holds(k, i - 1)' /\ IdAt(k, i - 1)' = IdAt(k, i)
      <4>1. CASE i = 1
        BY <2>2, <3>1, <4>1 DEF Holds, IdAt, Serving
      <4>2. CASE i # 1
        <5>1. i - 1 \in 1..Len(queue'[k]) /\ queue'[k][i - 1] = queue[k][i] /\ i - 1 # 0
          BY <2>1, <2>2, <3>1, <4>2
        <5> QED
          BY <3>1, <5>1 DEF Holds, IdAt
      <4> QED
        BY <4>1, <4>2
    <3> QED
      BY <3>1, <3>2
  <2>5. pc'[k] \in Unreported /\ pc[k] # "none" /\ pc'[k] # "none"
    BY <2>1, <2>2 DEF Unreported
  <2>6. Shift(k, 1)
    BY <2>1, <2>2, <2>3, <2>4, <2>5 DEF Shift, OnlyController
  <2> QED
    BY <2>6
<1>5. CASE Serve(k) \/ AnswerHard(k)
  <2>1. /\ pc[k] \in Serving /\ pc' = [pc EXCEPT ![k] = "loop"] /\ UNCHANGED queue
        /\ req' = [req EXCEPT ![k] = Nothing] /\ OnlyController
    BY <1>5 DEF Serve, AnswerHard, Goto, Serving
  <2>2. /\ pc'[k] = "loop" /\ pc'[k] \notin Serving /\ pc'[k] \in Unreported /\ pc[k] # "none"
        /\ \A c \in Ids \ {k} : pc'[c] = pc[c] /\ queue'[c] = queue[c] /\ req'[c] = req[c]
    BY <1>1, <2>1 DEF Serving, Unreported
  <2>3. req[k] \in Request /\ req[k].id \in Ids
    BY <2>1 DEF CoreInv, Held, Request
  <2>4. \/ NoResponse /\ ~req[k].answers
        \/ req[k].answers /\ \E b \in BOOLEAN : Respond(req[k].id, b)
    <3>1. CASE Serve(k)
      BY <3>1 DEF Serve
    <3>2. CASE AnswerHard(k)
      <4>1. pc[k] = "hard"
        BY <3>2 DEF AnswerHard, Goto
      <4>2. req[k].answers
        BY <4>1 DEF OnceInv, AllLegit, Legit, Serving
      <4> QED
        BY <3>2, <4>2 DEF AnswerHard
    <3> QED
      BY <1>5, <3>1, <3>2
  <2>5. /\ \A a \in Ids \ {req[k].id} : answers'[a] = answers[a]
        /\ req[k].answers => answers'[req[k].id] # "none"
        /\ ~req[k].answers => answers' = answers
    BY <1>1, <2>3, <2>4 DEF NoResponse, Respond
  <2>6. ASSUME NEW i \in Nat, i # 0
        PROVE  (Holds(k, i)' <=> Holds(k, i)) /\ IdAt(k, i)' = IdAt(k, i)
    BY <2>1, <2>6 DEF Holds, IdAt
  <2>7. ~Holds(k, 0)' /\ (Holds(k, 0) <=> req[k].answers) /\ IdAt(k, 0) = req[k].id
    BY <2>1, <2>2 DEF Holds, IdAt
  <2>8. \A i \in Nat : Holds(k, i)' => Holds(k, i + 0) /\ IdAt(k, i)' = IdAt(k, i + 0)
    BY <2>6, <2>7
  <2>9. \A i \in Nat : Holds(k, i) =>
          answers'[IdAt(k, i)] # "none" \/ \E j \in Nat : Holds(k, j)' /\ IdAt(k, j)' = IdAt(k, i)
    BY <2>5, <2>6, <2>7
  <2>10. \A a \in Ids : answers'[a] # answers[a] =>
           /\ answers'[a] # "none"
           /\ \E i \in Nat : Holds(k, i) /\ IdAt(k, i) = a /\ \A j \in Nat : Holds(k, j) => i <= j
    BY <2>5, <2>7
  <2>11. Shift(k, 0)
    BY <2>1, <2>2, <2>8, <2>9, <2>10 DEF Shift, OnlyController
  <2> QED
    BY <2>11
<1>6. CASE Skip(k)
  <2>1. /\ pc[k] = "drain" /\ pc' = pc /\ req' = req /\ OnlyController
        /\ Len(queue[k]) \in Nat \ {0} /\ queue' = [queue EXCEPT ![k] = Tail(@)]
        /\ queue[k][1] \in Request
        /\ IF queue[k][1].answers THEN Respond(queue[k][1].id, FALSE) ELSE NoResponse
    <3>1. queue[k] # <<>> /\ Head(queue[k]) = queue[k][1]
      BY <1>1, <1>6 DEF Skip
    <3>2. /\ pc[k] = "drain" /\ pc' = pc /\ req' = req /\ OnlyController
          /\ queue' = [queue EXCEPT ![k] = Tail(@)]
          /\ IF queue[k][1].answers THEN Respond(queue[k][1].id, FALSE) ELSE NoResponse
      BY <1>6, <3>1 DEF Skip, Skipped, Respond
    <3>3. Len(queue[k]) \in Nat \ {0} /\ queue[k][1] \in Request
      BY <1>1, <3>1
    <3> QED
      BY <3>2, <3>3
  <2>2. /\ Len(queue'[k]) = Len(queue[k]) - 1
        /\ \A i \in 1..Len(queue'[k]) : queue'[k][i] = queue[k][i + 1]
        /\ \A c \in Ids \ {k} : queue'[c] = queue[c]
        /\ pc[k] \notin Serving /\ pc[k] \in Unreported /\ queue[k][1].id \in Ids
    BY <1>1, <2>1 DEF Serving, Unreported, Request
  <2>3. /\ \A a \in Ids \ {queue[k][1].id} : answers'[a] = answers[a]
        /\ queue[k][1].answers => answers'[queue[k][1].id] # "none"
        /\ ~queue[k][1].answers => answers' = answers
    BY <1>1, <2>1, <2>2 DEF NoResponse, Respond
  <2>4. /\ Holds(k, 1) <=> queue[k][1].answers
        /\ IdAt(k, 1) = queue[k][1].id /\ ~Holds(k, 0)
    BY <2>1, <2>2 DEF Holds, IdAt
  <2>5. \A i \in Nat : Holds(k, i)' => Holds(k, i + 1) /\ IdAt(k, i)' = IdAt(k, i + 1)
    BY <2>1, <2>2 DEF Holds, IdAt
  <2>6. ASSUME NEW i \in Nat, Holds(k, i)
        PROVE  answers'[IdAt(k, i)] # "none" \/ \E j \in Nat : Holds(k, j)' /\ IdAt(k, j)' = IdAt(k, i)
    <3>1. CASE i = 1
      BY <2>3, <2>4, <2>6, <3>1
    <3>2. CASE i # 1
      <4>1. i \in 1..Len(queue[k]) /\ i # 1 /\ queue[k][i].answers
        BY <2>4, <2>6, <3>2 DEF Holds
      <4>2. i - 1 \in 1..Len(queue'[k]) /\ queue'[k][i - 1] = queue[k][i] /\ i - 1 # 0 /\ i - 1 \in Nat
        BY <2>1, <2>2, <4>1
      <4>3. Holds(k, i - 1)' /\ IdAt(k, i - 1)' = IdAt(k, i)
        BY <4>1, <4>2 DEF Holds, IdAt
      <4> QED
        BY <4>2, <4>3
    <3> QED
      BY <3>1, <3>2
  <2>7. \A a \in Ids : answers'[a] # answers[a] =>
          /\ answers'[a] # "none"
          /\ \E i \in Nat : Holds(k, i) /\ IdAt(k, i) = a /\ \A j \in Nat : Holds(k, j) => i <= j
    <3>1. \A j \in Nat : Holds(k, j) => 1 <= j
      BY <2>4
    <3> QED
      BY <2>3, <2>4, <3>1
  <2>8. Shift(k, 1)
    BY <2>1, <2>2, <2>5, <2>6, <2>7 DEF Shift, OnlyController
  <2> QED
    BY <2>8
<1>7. CASE Report(k)
  <2>1. /\ pc[k] \in {"success", "failure"} /\ pc'[k] = "finish"
        /\ \A c \in Ids \ {k} : pc'[c] = pc[c]
        /\ queue' = queue /\ req' = req /\ OnlyController /\ \E b \in BOOLEAN : Respond(k, b)
    BY <1>1, <1>7 DEF Report, Goto
  <2>2. \A i \in Nat : (Holds(k, i)' <=> Holds(k, i + 0)) /\ IdAt(k, i)' = IdAt(k, i + 0)
    BY <2>1 DEF Holds, IdAt, Serving
  <2>3. answers'[k] # "none" /\ \A a \in Ids \ {k} : answers'[a] = answers[a]
    BY <1>1, <2>1 DEF Respond
  <2>4. Shift(k, 0)
    BY <2>1, <2>2, <2>3 DEF Shift, OnlyController
  <2> QED
    BY <2>4
<1> QED
  BY <1>3, <1>4, <1>5, <1>6, <1>7 DEF Control

(* A controller that holds a request is in chains_. *)
LEMMA HolderInChains ==
  ASSUME CoreInv, Fresh, NEW c \in Ids, NEW i \in Nat, Holds(c, i)
  PROVE  c \in chains /\ pc[c] # "none" /\ c <= Popped
<1>1. pc[c] \notin {"none", "done"}
  BY DEF Fresh, Holds, Serving, CoreInv, Emptied, Drained
<1> QED
  BY <1>1 DEF CoreInv, Created

(* The requests a controller holds, the responses and the commands popped stay as they
   are, and at most controllers go. *)
LEMMA OrderKept ==
  ASSUME CoreInv, OnceInv, OrderInv, Popped' = Popped,
         cmds' \in Seq(Commands), Len(cmds) <= Len(cmds'), Len(cmds') <= MaxCommands,
         \A k \in 1..Popped : cmds'[k] = cmds[k],
         UNCHANGED <<pc, queue, req, answers, lost>>,
         chains' \subseteq chains,
         at = "handle" => cur' = cur,
         at = "handle" <=> at' = "handle",
         at' = "target" => at = "target" /\ chains' = chains /\ cur' = cur
  PROVE  OrderInv'
<1> USE DEF OrderInv
<1>1. \A c \in Ids, i \in Nat : (Holds(c, i)' <=> Holds(c, i)) /\ IdAt(c, i)' = IdAt(c, i)
  BY DEF Holds, IdAt
<1>2. DueHeld'
  <2>1. \A k \in Ids : (Due(k)' => Due(k)) /\ (HeldBy(k) => HeldBy(k)')
    BY <1>1 DEF Due, HeldBy
  <2> QED
    BY <2>1 DEF DueHeld
<1>3. Fresh'
  BY DEF Fresh
<1>4. Popped \in 0..MaxCommands /\ \A c \in chains : c \in 1..Popped
  BY ProcessorAssumption DEF Popped, CoreInv, Types, Counting, Created, Ids
<1>5. UniqueUid'
  BY <1>4 DEF UniqueUid
<1>6. HolderMatches'
  <2> SUFFICES ASSUME NEW c \in Ids, NEW i \in Nat, Holds(c, i)
               PROVE  cmds'[c].uid = cmds'[IdAt(c, i)].chain
    BY <1>1 DEF HolderMatches
  <2>1. c \in 1..Popped /\ IdAt(c, i) \in 1..Popped
    BY <1>4, HolderInChains, PendingAlone DEF Ids
  <2> QED
    BY <2>1 DEF HolderMatches
<1>7. Ordered'
  BY <1>1 DEF Ordered
<1>8. PeerFound'
  BY <1>4 DEF PeerFound, Found, Cmd, CoreInv, Counting, Handling
<1>9. InOrder'
  <2> SUFFICES ASSUME NEW j \in DOMAIN cmds', NEW k \in DOMAIN cmds',
                      j < k, cmds'[j].chain = cmds'[k].chain,
                      cmds'[j].kind \in {"interrupt", "metrics", "exchange"},
                      cmds'[k].kind \in {"interrupt", "metrics"}, answers[k] # "none"
               PROVE  answers[j] # "none" \/ j \in lost
    BY DEF InOrder
  <2>1. j \in Ids /\ k \in Ids
    <3>1. DOMAIN cmds' = 1..Len(cmds') /\ Len(cmds') \in Nat /\ MaxCommands \in Nat
      BY ProcessorAssumption
    <3> QED
      BY <3>1 DEF Ids
  <2>2. k <= Popped
    BY <1>4, <2>1 DEF OnceInv, Unanswered, Ids
  <2>3. j \in 1..Popped /\ k \in 1..Popped /\ Popped <= Len(cmds)
    BY <2>1, <2>2 DEF Ids, Popped, CoreInv, Types, Counting
  <2>4. j \in DOMAIN cmds /\ k \in DOMAIN cmds
    <3>1. DOMAIN cmds = 1..Len(cmds) /\ Len(cmds) \in Nat
      BY DEF CoreInv, Types
    <3> QED
      BY <1>4, <2>3, <3>1
  <2> QED
    BY <2>3, <2>4 DEF InOrder
<1> QED
  BY <1>2, <1>3, <1>5, <1>6, <1>7, <1>8, <1>9

(* Every step of a controller keeps the order: it answers the first request it holds,
   and an older one on the same chain would be held by the same controller. *)
LEMMA OrderControl ==
  ASSUME CoreInv, OnceInv, OrderInv, NEW k \in Ids, Control(k)
  PROVE  OrderInv'
<1> USE DEF OrderInv
<1>0. PICK s \in {0, 1} : Shift(k, s)
  BY ControlShift
<1>1. /\ UNCHANGED <<cmds, at, cur, chains, lost>> /\ Popped' = Popped
      /\ \A c \in Ids \ {k} : pc'[c] = pc[c] /\ queue'[c] = queue[c] /\ req'[c] = req[c]
      /\ pc[k] # "none" /\ pc'[k] # "none"
  BY <1>0 DEF Shift, clientVars, workVars, Popped
<1>2. \A c \in Ids \ {k}, i \in Nat : (Holds(c, i)' <=> Holds(c, i)) /\ IdAt(c, i)' = IdAt(c, i)
  BY <1>1 DEF Holds, IdAt
<1>3. \A i \in Nat : Holds(k, i)' => Holds(k, i + s) /\ IdAt(k, i)' = IdAt(k, i + s)
  BY <1>0 DEF Shift
<1>4. \A a \in Ids : answers'[a] = answers[a] \/ answers'[a] # "none"
  BY <1>0 DEF Shift
<1>5. DueHeld'
  <2> SUFFICES ASSUME NEW a \in Ids, Due(a)' PROVE pc'[a] \in Unreported \/ HeldBy(a)'
    BY DEF DueHeld
  <2>1. Due(a) /\ answers'[a] = "none"
    BY <1>1, <1>4 DEF Due
  <2>2. CASE pc[a] \in Unreported
    BY <1>0, <1>1, <2>1, <2>2 DEF Shift
  <2>3. ASSUME NEW c \in Ids, NEW i \in Nat, Holds(c, i), IdAt(c, i) = a PROVE HeldBy(a)'
    <3>1. CASE c = k
      BY <1>0, <2>1, <2>3, <3>1 DEF Shift, HeldBy
    <3>2. CASE c # k
      BY <1>2, <2>3, <3>2 DEF HeldBy
    <3> QED
      BY <3>1, <3>2
  <2> QED
    BY <2>1, <2>2, <2>3 DEF DueHeld, HeldBy
<1>6. Fresh' /\ UniqueUid' /\ PeerFound'
  BY <1>1 DEF Fresh, UniqueUid, PeerFound, Found, Cmd
<1>7. HolderMatches'
  <2> SUFFICES ASSUME NEW c \in Ids, NEW i \in Nat, Holds(c, i)'
               PROVE  cmds[c].uid = cmds[IdAt(c, i)'].chain
    BY <1>1 DEF HolderMatches
  <2> QED
    BY <1>2, <1>3 DEF HolderMatches
<1>8. Ordered'
  <2> SUFFICES ASSUME NEW c \in Ids, NEW i \in Nat, NEW j \in Nat, Holds(c, i)', Holds(c, j)', i < j
               PROVE  IdAt(c, i)' < IdAt(c, j)'
    BY DEF Ordered
  <2>1. CASE c = k
    <3>1. /\ i + s \in Nat /\ j + s \in Nat /\ i + s < j + s
          /\ Holds(k, i + s) /\ Holds(k, j + s)
          /\ IdAt(k, i)' = IdAt(k, i + s) /\ IdAt(k, j)' = IdAt(k, j + s)
      BY <1>3, <2>1
    <3> QED
      BY <2>1, <3>1 DEF Ordered
  <2>2. CASE c # k
    BY <1>2, <2>2 DEF Ordered
  <2> QED
    BY <2>1, <2>2
<1>9. InOrder'
  <2> SUFFICES ASSUME NEW j \in DOMAIN cmds, NEW a \in DOMAIN cmds,
                      j < a, cmds[j].chain = cmds[a].chain,
                      cmds[j].kind \in {"interrupt", "metrics", "exchange"},
                      cmds[a].kind \in {"interrupt", "metrics"}, answers'[a] # "none",
                      answers'[j] = "none", j \notin lost
               PROVE  FALSE
    BY <1>1 DEF InOrder
  <2>1. j \in Ids /\ a \in Ids /\ answers[j] = "none"
    BY <1>4, ProcessorAssumption DEF Ids, CoreInv, Types
  <2>2. answers[a] = "none"
    BY <2>1 DEF InOrder
  <2>3. a # k
    BY <1>1 DEF CoreInv, Created
  <2>4. PICK i \in Nat : Holds(k, i) /\ IdAt(k, i) = a /\ \A n \in Nat : Holds(k, n) => i <= n
    BY <1>0, <2>1, <2>2, <2>3 DEF Shift
  <2>5. a <= Popped /\ Popped \in Nat
    BY <2>4, PendingAlone DEF CoreInv, Types, Counting, Popped
  <2>6. Due(j)
    BY <2>1, <2>5 DEF Due, CoreInv, Counting, Handling, Ids
  <2>7. pc[j] \notin Unreported
    BY <2>1 DEF CoreInv, Created, Unreported
  <2>8. PICK d \in Ids, n \in Nat : Holds(d, n) /\ IdAt(d, n) = j
    BY <2>1, <2>6, <2>7 DEF DueHeld, HeldBy
  <2>9. d = k
    <3>1. d \in chains /\ k \in chains
      BY <2>4, <2>8, HolderInChains
    <3>2. cmds[d].uid = cmds[j].chain /\ cmds[k].uid = cmds[a].chain
      BY <2>4, <2>8 DEF HolderMatches
    <3> QED
      BY <3>1, <3>2 DEF UniqueUid
  <2>10. i < n
    BY <2>4, <2>8, <2>9
  <2>11. a < j
    BY <2>4, <2>8, <2>9, <2>10 DEF Ordered
  <2> QED
    BY <2>1, <2>11 DEF Ids
<1> QED
  BY <1>5, <1>6, <1>7, <1>8, <1>9

(* Popping a command keeps the order: the new one is younger than all. *)
LEMMA OrderPop ==
  ASSUME CoreInv, OnceInv, OrderInv, PopCommand
  PROVE  OrderInv'
<1> USE DEF OrderInv
<1>1. /\ Popped' = Popped + 1 /\ Popped \in Nat /\ cur' = Popped + 1
      /\ at' = "handle" /\ at = "poll" /\ UNCHANGED <<cmds, pc, queue, req, answers, chains, lost>>
  <2>1. /\ Len(in_queue') = Len(in_queue) - 1 /\ Len(in_queue) \in Nat \ {0}
        /\ cur' = in_queue[1] /\ cur' \in Ids
    BY DEF CoreInv, Types, PopCommand
  <2> QED
    BY <2>1 DEF CoreInv, Types, Counting, Popped, PopCommand, ctlVars, resultVars
<1>2. \A c \in Ids, i \in Nat : (Holds(c, i)' <=> Holds(c, i)) /\ IdAt(c, i)' = IdAt(c, i)
  BY <1>1 DEF Holds, IdAt
<1>3. DueHeld'
  <2>1. \A k \in Ids : (Due(k)' => Due(k)) /\ (HeldBy(k) => HeldBy(k)')
    BY <1>1, <1>2 DEF Due, HeldBy, Ids
  <2> QED
    BY <1>1, <2>1 DEF DueHeld
<1>4. HolderMatches' /\ Ordered'
  BY <1>1, <1>2 DEF HolderMatches, Ordered
<1> QED
  BY <1>1, <1>3, <1>4 DEF Fresh, UniqueUid, PeerFound, InOrder

(* Of two requests on one chain, the older has its response when the younger is refused:
   its controller is gone. *)
LEMMA OrderRefuse ==
  ASSUME CoreInv, OnceInv, OrderInv, Refuse
  PROVE  OrderInv'
<1> USE DEF OrderInv
<1>1. /\ at = "handle" /\ at' = "count" /\ cur \in Ids /\ answers[cur] = "none" /\ cur = Popped
      /\ UNCHANGED <<cmds, pc, queue, req, cur, chains, lost>> /\ Popped' = Popped
      /\ Respond(cur, FALSE) /\ Refused
  BY DEF Refuse, clientVars, ctlVars, Popped, CoreInv, Counting, Handling, Ids, OnceInv, Unanswered
<1>2. answers'[cur] # "none" /\ \A j \in Ids \ {cur} : answers'[j] = answers[j]
  BY <1>1 DEF CoreInv, Types, Respond
<1>3. \A c \in Ids, i \in Nat : (Holds(c, i)' <=> Holds(c, i)) /\ IdAt(c, i)' = IdAt(c, i)
  BY <1>1 DEF Holds, IdAt
<1>4. DueHeld'
  <2>1. \A k \in Ids : (Due(k)' => Due(k)) /\ (HeldBy(k) => HeldBy(k)')
    BY <1>1, <1>2, <1>3 DEF Due, HeldBy
  <2> QED
    BY <1>1, <2>1 DEF DueHeld
<1>5. HolderMatches' /\ Ordered'
  BY <1>1, <1>3 DEF HolderMatches, Ordered
<1>6. InOrder'
  <2> SUFFICES ASSUME NEW j \in DOMAIN cmds, NEW k \in DOMAIN cmds,
                      j < k, cmds[j].chain = cmds[k].chain,
                      cmds[j].kind \in {"interrupt", "metrics", "exchange"},
                      cmds[k].kind \in {"interrupt", "metrics"}, answers'[k] # "none",
                      answers'[j] = "none", j \notin lost
               PROVE  FALSE
    BY <1>1 DEF InOrder
  <2>1. j \in Ids /\ k \in Ids /\ answers[j] = "none" /\ j # cur
    BY <1>2, ProcessorAssumption DEF Ids, CoreInv, Types
  <2>2. k = cur
    BY <1>2, <2>1 DEF InOrder
  <2>3. ~Found(cmds[j].chain)
    BY <1>1, <2>2 DEF Refused, Cmd
  <2>4. Due(j)
    BY <1>1, <2>1, <2>2 DEF Due, Ids
  <2>5. pc[j] \notin Unreported
    BY <2>1 DEF CoreInv, Created, Unreported
  <2>6. PICK d \in Ids, n \in Nat : Holds(d, n) /\ IdAt(d, n) = j
    BY <2>1, <2>4, <2>5 DEF DueHeld, HeldBy
  <2> QED
    BY <2>3, <2>6, HolderInChains DEF HolderMatches, Found
<1> QED
  BY <1>1, <1>4, <1>5, <1>6 DEF Fresh, UniqueUid, PeerFound

(* A new controller has a name of its own. *)
LEMMA OrderSchedule ==
  ASSUME CoreInv, OnceInv, OrderInv, Schedule
  PROVE  OrderInv'
<1> USE DEF OrderInv
<1>1. /\ at = "handle" /\ at' = "count" /\ cur \in Ids /\ cur = Popped
      /\ UNCHANGED <<cmds, queue, req, cur, answers, lost>> /\ Popped' = Popped
      /\ pc' = [pc EXCEPT ![cur] = "loop"] /\ chains' = chains \cup {cur}
      /\ ~Found(cmds[cur].uid)
  BY DEF Schedule, clientVars, resultVars, Popped, CoreInv, Counting, Handling, Ids, Refused, Cmd
<1>2. pc[cur] = "none" /\ pc'[cur] = "loop" /\ \A j \in Ids \ {cur} : pc'[j] = pc[j]
  BY <1>1 DEF CoreInv, Types, Created
<1>3. \A c \in Ids, i \in Nat : (Holds(c, i)' <=> Holds(c, i)) /\ IdAt(c, i)' = IdAt(c, i)
  BY <1>1, <1>2 DEF Holds, IdAt, Serving
<1>4. DueHeld'
  <2> SUFFICES ASSUME NEW k \in Ids, Due(k)' PROVE pc'[k] \in Unreported \/ HeldBy(k)'
    BY DEF DueHeld
  <2>1. CASE k = cur
    BY <1>2, <2>1 DEF Unreported
  <2>2. CASE k # cur
    <3>1. Due(k) /\ pc'[k] = pc[k] /\ (HeldBy(k) => HeldBy(k)')
      BY <1>1, <1>2, <1>3, <2>2 DEF Due, HeldBy
    <3> QED
      BY <3>1 DEF DueHeld
  <2> QED
    BY <2>1, <2>2
<1>5. HolderMatches' /\ Ordered'
  BY <1>1, <1>3 DEF HolderMatches, Ordered
<1>6. Fresh'
  BY <1>1, <1>2 DEF Fresh
<1>7. UniqueUid'
  BY <1>1 DEF UniqueUid, Found
<1> QED
  BY <1>1, <1>4, <1>5, <1>6, <1>7 DEF PeerFound, InOrder

(* The controller that chains_ has under a name. *)
LEMMA FoundController ==
  ASSUME NEW uid, Found(uid)
  PROVE  Controller(uid) \in chains /\ cmds[Controller(uid)].uid = uid
BY DEF Found, Controller

(* A request is placed with the controller of its chain, behind the older ones. *)
LEMMA OrderPlace ==
  ASSUME CoreInv, OnceInv, OrderInv, at = "handle", Cmd.kind # "schedule", Found(Cmd.chain),
         Cmd.kind = "exchange" => Found(Cmd.peer), NEW k, k = Controller(Cmd.chain),
         Place(k, IF Cmd.kind = "exchange" THEN "target" ELSE "count")
  PROVE  OrderInv'
<1> USE DEF OrderInv
<1> DEFINE r == [id |-> cur, answers |-> Answering]
<1>1. /\ cur \in Ids /\ cur = Popped /\ at' # "handle"
      /\ at' = "target" => cmds[cur].kind = "exchange"
      /\ UNCHANGED <<cmds, pc, req, cur, answers, chains, lost>> /\ Popped' = Popped
  BY DEF Place, clientVars, resultVars, Popped, CoreInv, Counting, Handling, Ids, Cmd
<1>2. k \in chains /\ k \in Ids /\ cmds[k].uid = cmds[cur].chain /\ pc[k] # "none"
  BY FoundController DEF CoreInv, Types, Created, Cmd
<1>3. queue[k] \in Seq(Request) /\ Len(queue[k]) \in Nat
  BY <1>2 DEF CoreInv, Types
<1> PICK n \in Nat \ {0} : n = Len(queue[k]) + 1
  BY <1>3
<1>4. r \in Request /\ queue' = [queue EXCEPT ![k] = Append(@, r)] /\ r.id = cur /\ r.answers
  BY <1>1 DEF Place, Queued, Request, Answering
<1> HIDE DEF r
<1>5. /\ Len(queue'[k]) = n /\ queue'[k][n] = r
      /\ \A i \in 1..Len(queue[k]) : queue'[k][i] = queue[k][i]
      /\ \A c \in Ids \ {k} : queue'[c] = queue[c]
  BY <1>2, <1>3, <1>4 DEF CoreInv, Types
<1>6. ASSUME NEW c \in Ids, NEW i \in Nat, c # k \/ i # n
      PROVE  (Holds(c, i)' <=> Holds(c, i)) /\ (Holds(c, i) => IdAt(c, i)' = IdAt(c, i))
  BY <1>1, <1>3, <1>5, <1>6 DEF Holds, IdAt
<1>7. Holds(k, n)' /\ IdAt(k, n)' = cur /\ ~Holds(k, n)
  BY <1>3, <1>4, <1>5 DEF Holds, IdAt
<1>8. DueHeld'
  <2> SUFFICES ASSUME NEW a \in Ids, Due(a)' PROVE pc'[a] \in Unreported \/ HeldBy(a)'
    BY DEF DueHeld
  <2>1. CASE a = cur
    BY <1>2, <1>7, <2>1 DEF HeldBy
  <2>2. CASE a # cur
    <3>1. Due(a)
      BY <1>1, <2>2 DEF Due
    <3>2. HeldBy(a) => HeldBy(a)'
      BY <1>6, <1>7 DEF HeldBy
    <3> QED
      BY <1>1, <3>1, <3>2 DEF DueHeld
  <2> QED
    BY <2>1, <2>2
<1>9. Fresh'
  BY <1>1, <1>2, <1>5 DEF Fresh
<1>10. HolderMatches'
  <2> SUFFICES ASSUME NEW c \in Ids, NEW i \in Nat, Holds(c, i)'
               PROVE  cmds[c].uid = cmds[IdAt(c, i)'].chain
    BY <1>1 DEF HolderMatches
  <2>1. CASE c = k /\ i = n
    BY <1>2, <1>7, <2>1
  <2>2. CASE c # k \/ i # n
    BY <1>6, <2>2 DEF HolderMatches
  <2> QED
    BY <2>1, <2>2
<1>11. Ordered'
  <2> SUFFICES ASSUME NEW c \in Ids, NEW i \in Nat, NEW j \in Nat, Holds(c, i)', Holds(c, j)', i < j
               PROVE  IdAt(c, i)' < IdAt(c, j)'
    BY DEF Ordered
  <2>1. CASE c # k \/ (i # n /\ j # n)
    BY <1>6, <2>1 DEF Ordered
  <2>2. CASE c = k /\ j = n
    <3>1. Holds(k, i) /\ IdAt(k, i)' = IdAt(k, i)
      BY <1>6, <2>2
    <3>2. IdAt(k, i) \in Ids /\ IdAt(k, i) <= Popped /\ IdAt(k, i) # cur
      BY <1>2, <3>1, PendingAlone
    <3> QED
      BY <1>1, <1>7, <2>2, <3>1, <3>2 DEF Ids
  <2>3. CASE c = k /\ i = n
    <3>1. j \in 1..n
      BY <1>5, <2>3 DEF Holds
    <3> QED
      BY <2>3, <3>1
  <2> QED
    BY <2>1, <2>2, <2>3
<1>12. PeerFound'
  BY <1>1 DEF PeerFound, Found, Cmd
<1> QED
  BY <1>1, <1>8, <1>9, <1>10, <1>11, <1>12 DEF UniqueUid, InOrder

(* The second request of an exchange does not answer. *)
LEMMA OrderPlaceTarget ==
  ASSUME CoreInv, OnceInv, OrderInv, at = "target", NEW k, k = Controller(Cmd.peer),
         Place(k, "count")
  PROVE  OrderInv'
<1> USE DEF OrderInv
<1> DEFINE r == [id |-> cur, answers |-> Answering]
<1>1. /\ cur \in Ids /\ at' = "count"
      /\ UNCHANGED <<cmds, pc, req, cur, answers, chains, lost>> /\ Popped' = Popped
  BY DEF Place, clientVars, resultVars, Popped, CoreInv, Counting, Handling, Ids
<1>2. k \in Ids /\ pc[k] # "none"
  BY FoundController DEF PeerFound, CoreInv, Types, Created
<1>3. queue[k] \in Seq(Request) /\ Len(queue[k]) \in Nat
  BY <1>2 DEF CoreInv, Types
<1>4. r \in Request /\ queue' = [queue EXCEPT ![k] = Append(@, r)] /\ ~r.answers
  BY <1>1 DEF Place, Queued, Request, Answering
<1> HIDE DEF r
<1>5. /\ Len(queue'[k]) = Len(queue[k]) + 1 /\ queue'[k][Len(queue[k]) + 1] = r
      /\ \A i \in 1..Len(queue[k]) : queue'[k][i] = queue[k][i]
      /\ \A c \in Ids \ {k} : queue'[c] = queue[c]
  BY <1>2, <1>3, <1>4 DEF CoreInv, Types
<1>6. ASSUME NEW c \in Ids, NEW i \in Nat
      PROVE  (Holds(c, i)' <=> Holds(c, i)) /\ (Holds(c, i) => IdAt(c, i)' = IdAt(c, i))
  <2>1. CASE c # k \/ i # Len(queue[k]) + 1
    BY <1>1, <1>3, <1>5, <2>1 DEF Holds, IdAt
  <2>2. CASE c = k /\ i = Len(queue[k]) + 1
    BY <1>3, <1>4, <1>5, <2>2 DEF Holds
  <2> QED
    BY <2>1, <2>2
<1>7. DueHeld'
  <2>1. \A a \in Ids : (Due(a)' => Due(a)) /\ (HeldBy(a) => HeldBy(a)')
    BY <1>1, <1>6 DEF Due, HeldBy
  <2> QED
    BY <1>1, <2>1 DEF DueHeld
<1>8. Fresh'
  BY <1>1, <1>2, <1>5 DEF Fresh
<1>9. HolderMatches' /\ Ordered'
  BY <1>1, <1>6 DEF HolderMatches, Ordered
<1> QED
  BY <1>1, <1>7, <1>8, <1>9 DEF UniqueUid, InOrder, PeerFound

(* A request that is lost is not due. *)
LEMMA OrderThrow ==
  ASSUME CoreInv, OnceInv, OrderInv, at \in {"handle", "target"}, NEW k, Throw(k)
  PROVE  OrderInv'
<1> USE DEF OrderInv
<1>1. /\ cur \in Ids /\ at' = "count" /\ lost \subseteq lost' /\ (at = "handle" => cur \in lost')
      /\ UNCHANGED <<cmds, pc, queue, req, cur, answers, chains>> /\ Popped' = Popped
  BY DEF Throw, clientVars, ctlVars, Popped, CoreInv, Counting, Handling, Ids
<1>2. \A c \in Ids, i \in Nat : (Holds(c, i)' <=> Holds(c, i)) /\ IdAt(c, i)' = IdAt(c, i)
  BY <1>1 DEF Holds, IdAt
<1>3. DueHeld'
  <2>1. \A a \in Ids : (Due(a)' => Due(a)) /\ (HeldBy(a) => HeldBy(a)')
    BY <1>1, <1>2 DEF Due, HeldBy
  <2> QED
    BY <1>1, <2>1 DEF DueHeld
<1>4. HolderMatches' /\ Ordered'
  BY <1>1, <1>2 DEF HolderMatches, Ordered
<1>5. InOrder'
  BY <1>1 DEF InOrder
<1> QED
  BY <1>1, <1>3, <1>4, <1>5 DEF Fresh, UniqueUid, PeerFound

(* Every step of the worker keeps the order. *)
LEMMA OrderWork ==
  ASSUME CoreInv, OnceInv, OrderInv, Work
  PROVE  OrderInv'
<1>0. cmds \in Seq(Commands) /\ Len(cmds) <= MaxCommands /\ Len(cmds) \in Nat
  BY DEF CoreInv, Types
<1>1. CASE TestClosed \/ TestBusy \/ NoCommand \/ EndPass \/ Count
  BY <1>0, <1>1, OrderKept DEF TestClosed, TestBusy, NoCommand, EndPass, Count, Quiet, clientVars,
    ctlVars, resultVars, Popped
<1>2. CASE \E k \in Ids : Reap(k)
  BY <1>0, <1>2, OrderKept DEF Reap, Quiet, clientVars, ctlVars, resultVars, Popped
<1>3. CASE Delegate
  <2>1. Found(Cmd.chain) /\ (Cmd.kind = "exchange" => Found(Cmd.peer))
    BY <1>3 DEF Delegate, Refused
  <2> QED
    BY <1>3, <2>1, OrderPlace, OrderThrow DEF Delegate
<1>4. CASE DelegateTarget
  BY <1>4, OrderPlaceTarget, OrderThrow DEF DelegateTarget
<1> QED
  BY <1>1, <1>2, <1>3, <1>4, OrderPop, OrderRefuse, OrderSchedule DEF Work

(* Every behaviour satisfies the invariant. *)
LEMMA OrderInvariant == Spec => []OrderInv
<1>1. ASSUME Init PROVE OrderInv
  <2>1. \A c \in Ids, i \in Nat : ~Holds(c, i)
    BY <1>1 DEF Init, Holds, Serving
  <2>2. Popped = 0 /\ cmds = <<>> /\ chains = {} /\ at = "closed"
    BY <1>1 DEF Init, Popped
  <2> QED
    BY <1>1, <2>1, <2>2 DEF Init, OrderInv, DueHeld, Due, Fresh, UniqueUid, HolderMatches, Ordered,
      PeerFound, InOrder
<1>2. ASSUME CoreInv, OnceInv, OrderInv, CoreInv', [Next]_vars PROVE OrderInv'
  <2>0. cmds \in Seq(Commands) /\ Len(cmds) <= MaxCommands /\ Len(cmds) \in Nat
    BY <1>2 DEF CoreInv, Types
  <2>1. CASE \E m \in Commands : Allowed(Append(cmds, m)) /\ Submit(m)
    <3>1. /\ Popped' = Popped /\ Len(cmds') = Len(cmds) + 1
          /\ \A k \in 1..Popped : cmds'[k] = cmds[k]
      BY <1>2, <2>1 DEF Submit, Popped, CoreInv, Types, Counting
    <3>2. cmds' \in Seq(Commands) /\ Len(cmds') <= MaxCommands
      BY <1>2 DEF CoreInv, Types
    <3> QED
      <4>1. UNCHANGED <<at, cur, chains, pc, queue, req, answers, lost>>
        BY <2>1 DEF Submit, workVars, ctlVars, resultVars
      <4>2. Len(cmds) <= Len(cmds')
        BY <2>0, <3>1
      <4> QED
        BY <1>2, <3>1, <3>2, <4>1, <4>2, OrderKept
  <2>2. CASE Close \/ TakeResponse \/ UNCHANGED vars \/ (\E k \in Ids : ChainStops(k))
    BY <1>2, <2>0, <2>2, OrderKept DEF Close, TakeResponse, ChainStops, vars, clientVars, workVars,
      ctlVars, resultVars, Popped
  <2>3. CASE Work
    BY <1>2, <2>3, OrderWork
  <2>4. CASE \E k \in Ids : Control(k)
    BY <1>2, <2>4, OrderControl
  <2> QED
    BY <1>2, <2>1, <2>2, <2>3, <2>4 DEF Next
<1> QED
  BY <1>1, <1>2, CoreInvariant, OnceInvariant, PTL DEF Spec

(* The requests on a chain are answered in the order of the commands, whoever answers
   them: the controller, its drain or, once it was released, Processor. *)
THEOREM ProcessorInOrder == Spec => []InOrder
<1>1. OrderInv => InOrder
  BY DEF OrderInv
<1> QED
  BY <1>1, OrderInvariant, PTL

(* The queue of a Processor that ended stays empty: it was closed before it was
   tested. *)
LEMMA ExitEmpty == Spec => [](at = "done" => closed /\ in_queue = <<>>)
<1> DEFINE Exit == at = "done" => closed /\ in_queue = <<>>
<1>1. Init => Exit
  BY DEF Init
<1>2. ASSUME CoreInv, Exit, [Next]_vars PROVE Exit'
  <2>1. CASE (\E m \in Commands : Submit(m)) \/ Close \/ TakeResponse \/ UNCHANGED vars
    BY <1>2, <2>1 DEF Submit, Close, TakeResponse, vars, clientVars, workVars
  <2>2. CASE Work
    BY <1>2, <2>2 DEF Work, TestClosed, TestBusy, Busy, PopCommand, NoCommand, Refuse, Schedule,
      Delegate, DelegateTarget, Place, Throw, Count, Reap, EndPass, Quiet, clientVars, CoreInv, Ended
  <2>3. CASE \E k \in Ids : Control(k) \/ ChainStops(k)
    <3>1. UNCHANGED <<clientVars, workVars>>
      BY <2>3 DEF Control, Enter, FindNone, Take, HardInterrupt, Serve, AnswerHard, Leave, Skip,
        DrainEnd, Report, Finish, OnlyController, ChainStops
    <3> QED
      BY <1>2, <3>1 DEF clientVars, workVars
  <2> QED
    BY <1>2, <2>1, <2>2, <2>3 DEF Next
<1> QED
  BY <1>1, <1>2, CoreInvariant, PTL DEF Spec

(* When the worker ends nothing is left: every command was popped and counted, every
   controller was released, and every command has its response unless its request was
   delegated to a controller that had stopped. *)
THEOREM ProcessorDrainedAtExit == Spec => []DrainedAtExit
<1>1. ASSUME CoreInv, OrderInv, at = "done" => closed /\ in_queue = <<>>
      PROVE  DrainedAtExit
  <2> SUFFICES ASSUME at = "done"
               PROVE  /\ closed /\ in_queue = <<>> /\ chains = {}
                      /\ requests = Len(cmds)
                      /\ \A k \in DOMAIN cmds : answers[k] # "none" \/ k \in lost
    BY DEF DrainedAtExit
  <2>1. Popped = Len(cmds) /\ Len(cmds) \in Nat /\ DOMAIN cmds = 1..Len(cmds)
    <3>1. Len(in_queue) = 0 /\ Len(cmds) \in Nat /\ DOMAIN cmds = 1..Len(cmds)
      BY <1>1 DEF CoreInv, Types
    <3> QED
      BY <3>1 DEF Popped
  <2>2. chains = {} /\ requests = Len(cmds)
    BY <1>1, <2>1 DEF CoreInv, Ended, Counting, Handling
  <2>3. ASSUME NEW k \in DOMAIN cmds, answers[k] = "none", k \notin lost PROVE FALSE
    <3>1. k \in Ids
      BY <1>1, <2>1, <2>3, ProcessorAssumption DEF Ids, CoreInv, Types
    <3>2. Due(k)
      BY <2>1, <2>3 DEF Due
    <3>3. pc[k] \notin Unreported
      BY <1>1, <2>2, <3>1 DEF CoreInv, Created, Unreported
    <3>4. HeldBy(k)
      BY <1>1, <3>1, <3>2, <3>3 DEF OrderInv, DueHeld
    <3> QED
      BY <1>1, <2>2, <3>4, HolderInChains DEF HeldBy, OrderInv
  <2> QED
    BY <1>1, <2>2, <2>3
<1> QED
  BY <1>1, CoreInvariant, OrderInvariant, ExitEmpty, PTL

-----------------------------------------------------------------------------
(***************************************************************************)
(* What the threads around Processor rely on.                              *)
(***************************************************************************)

(* A step takes a response from the queue, or pushes one to a command that had none,
   or leaves queue and responses alone. *)
LEMMA OneResponse ==
  CoreInv /\ OnceInv /\ OnceInv' /\ (Work \/ \E k \in Ids : Control(k)) =>
    \/ UNCHANGED <<out_queue, answers>>
    \/ \E a \in Ids, b \in BOOLEAN : answers[a] = "none" /\ Respond(a, b)
<1> SUFFICES ASSUME CoreInv, OnceInv, OnceInv', Work \/ \E k \in Ids : Control(k),
                    ~UNCHANGED <<out_queue, answers>>
             PROVE  \E a \in Ids, b \in BOOLEAN : answers[a] = "none" /\ Respond(a, b)
  OBVIOUS
<1>1. \E a \in Ids, b \in BOOLEAN : Respond(a, b)
  <2>1. CASE Work
    <3>1. Refuse
      BY <2>1 DEF Work, TestClosed, TestBusy, PopCommand, NoCommand, Schedule, Delegate,
        DelegateTarget, Place, Throw, Count, Reap, EndPass, Quiet, resultVars
    <3>2. cur \in Ids
      BY <3>1 DEF Refuse, CoreInv, Counting, Handling, Ids
    <3> QED
      BY <3>1, <3>2 DEF Refuse
  <2>2. ASSUME NEW k \in Ids, Control(k) PROVE \E a \in Ids, b \in BOOLEAN : Respond(a, b)
    <3>1. Serve(k) \/ AnswerHard(k) \/ Skip(k) \/ Report(k)
      BY <2>2 DEF Control, Enter, FindNone, Take, HardInterrupt, Leave, DrainEnd, Finish, NoResponse
    <3>2. CASE Serve(k) \/ AnswerHard(k)
      <4>1. req[k].id \in Ids
        BY <3>2 DEF Serve, AnswerHard, Goto, Serving, CoreInv, Held, Request
      <4> QED
        BY <3>2, <4>1 DEF Serve, AnswerHard, NoResponse
    <3>3. CASE Skip(k)
      <4>1. Head(queue[k]) \in Request
        BY <3>3 DEF Skip, CoreInv, Types
      <4> QED
        BY <3>3, <4>1 DEF Skip, NoResponse, Request
    <3>4. CASE Report(k)
      BY <3>4 DEF Report
    <3> QED
      BY <3>1, <3>2, <3>3, <3>4
  <2> QED
    BY <2>1, <2>2
<1>2. PICK a \in Ids, b \in BOOLEAN : Respond(a, b)
  BY <1>1
<1>3. answers[a] = "none"
  BY <1>2 DEF CoreInv, Types, Respond, OnceInv, AnsweredOnce
<1> QED
  BY <1>2, <1>3

(* A Processor that ended does nothing any more, and neither does a controller. *)
LEMMA EndedIsQuiet ==
  CoreInv /\ at = "done" =>
    /\ \A k \in Ids : pc[k] \in {"none", "done"}
    /\ ~Work /\ \A k \in Ids : ~Control(k)
<1> SUFFICES ASSUME CoreInv, at = "done"
             PROVE  /\ \A k \in Ids : pc[k] \in {"none", "done"}
                    /\ ~Work /\ \A k \in Ids : ~Control(k)
  OBVIOUS
<1>1. \A k \in Ids : pc[k] \in {"none", "done"}
  BY DEF CoreInv, Ended, Created
<1>2. ~Work
  BY DEF Work, TestClosed, TestBusy, PopCommand, NoCommand, Refuse, Schedule, Delegate,
    DelegateTarget, Count, Reap, EndPass
<1>3. \A k \in Ids : ~Control(k)
  BY <1>1 DEF Control, Enter, FindNone, Take, HardInterrupt, Serve, AnswerHard, Leave, Skip,
    DrainEnd, Report, Finish, Goto
<1> QED
  BY <1>1, <1>2, <1>3

-----------------------------------------------------------------------------
(***************************************************************************)
(* The controllers of Processor are those of ControllerSpec, which         *)
(* ChainController implements.                                             *)
(***************************************************************************)
Ctl == INSTANCE ControllerSpec WITH kind <- [r \in Request |-> cmds[r.id].kind]

\* A step of a controller of ControllerSpec; Processor's callbacks push its answer.
ControllerStep(k) ==
  /\ OnlyController
  /\ \/ Ctl!Silent(k) /\ NoResponse
     \/ \E r \in Request, succeeded \in BOOLEAN :
          Ctl!Answer(k, r, succeeded) /\ Respond(r.id, succeeded)
     \/ \E succeeded \in BOOLEAN : Ctl!Report(k, succeeded) /\ Respond(k, succeeded)

(* The requests a controller has are requests. *)
LEMMA ControllerRequests ==
  ASSUME CoreInv, NEW k \in Ids
  PROVE  /\ pc[k] \in Serving => req[k] \in Request
         /\ queue[k] # <<>> => Head(queue[k]) \in Request
         /\ \A r \in Request : r.id \in Ids /\ r.answers \in BOOLEAN
<1>1. pc[k] \in Serving => req[k] \in Request
  BY DEF CoreInv, Held
<1>2. queue[k] \in Seq(Request)
  BY DEF CoreInv, Types
<1>3. queue[k] # <<>> => Head(queue[k]) \in Request
  BY <1>2
<1> QED
  BY <1>1, <1>3 DEF Request

(* In every state that Processor reaches, its controllers may do what ControllerSpec
   lets them do, and nothing else: what is proved of Processor holds with the controllers
   of the code, whose every step ControllerSpec allows. *)
THEOREM ProcessorControllers ==
  ASSUME CoreInv, NEW k \in Ids
  PROVE  Control(k) \/ ChainStops(k) <=> ControllerStep(k)
<1> USE DEF Goto, Ctl!Goto
<1>1. ASSUME Control(k) PROVE ControllerStep(k)
  <2>1. CASE Take(k)
    <3>1. Ctl!Take(k) /\ NoResponse /\ OnlyController
      BY <2>1 DEF Take, Ctl!Take
    <3> QED
      BY <3>1 DEF ControllerStep, Ctl!Silent
  <2>2. CASE HardInterrupt(k)
    <3>1. req[k] \in Request
      BY <2>2, ControllerRequests DEF HardInterrupt, Serving
    <3>2. Ctl!HardInterrupt(k) /\ NoResponse /\ OnlyController
      BY <2>2, <3>1 DEF HardInterrupt, Ctl!HardInterrupt
    <3> QED
      BY <3>2 DEF ControllerStep, Ctl!Silent
  <2>3. CASE Serve(k)
    <3>1. req[k] \in Request /\ req[k].answers \in BOOLEAN
      BY <2>3, ControllerRequests DEF Serve, Serving
    <3>2. Ctl!Served(k, "serve") /\ OnlyController
      BY <2>3 DEF Serve, Ctl!Served
    <3>3. CASE ~req[k].answers
      BY <2>3, <3>2, <3>3 DEF Serve, ControllerStep, Ctl!Silent
    <3>4. CASE req[k].answers
      <4>1. PICK succeeded \in BOOLEAN : Outcome(k, succeeded) /\ Respond(req[k].id, succeeded)
        BY <2>3, <3>4 DEF Serve
      <4>2. Ctl!Possible(k, succeeded)
        BY <3>1, <4>1 DEF Outcome, Ctl!Possible, Ctl!Works
      <4>3. Ctl!Answer(k, req[k], succeeded)
        BY <3>2, <3>4, <4>2 DEF Ctl!Answer
      <4> QED
        BY <3>1, <3>2, <4>1, <4>3 DEF ControllerStep
    <3> QED
      BY <3>1, <3>3, <3>4
  <2>4. CASE AnswerHard(k)
    <3>1. req[k] \in Request
      BY <2>4, ControllerRequests DEF AnswerHard, Serving
    <3>2. Ctl!Answer(k, req[k], TRUE) /\ Respond(req[k].id, TRUE) /\ OnlyController
      BY <2>4 DEF AnswerHard, Ctl!Answer, Ctl!Served
    <3> QED
      BY <3>1, <3>2 DEF ControllerStep
  <2>5. CASE Leave(k)
    <3>1. Ctl!Leave(k) /\ NoResponse /\ OnlyController
      BY <2>5 DEF Leave, Ctl!Leave, Continues, Ctl!Continues, Ctl!Works
    <3> QED
      BY <3>1 DEF ControllerStep, Ctl!Silent
  <2>6. CASE Skip(k)
    <3>1. Ctl!Skip(k) /\ OnlyController
      BY <2>6 DEF Skip, Ctl!Skip
    <3>2. Head(queue[k]) \in Request /\ Head(queue[k]).answers \in BOOLEAN
      BY <2>6, ControllerRequests DEF Skip
    <3>3. CASE ~Head(queue[k]).answers
      BY <2>6, <3>1, <3>3 DEF Skip, Skipped, ControllerStep, Ctl!Silent
    <3>4. CASE Head(queue[k]).answers
      <4>1. Ctl!Answer(k, Head(queue[k]), FALSE) /\ Respond(Head(queue[k]).id, FALSE)
        BY <2>6, <3>1, <3>4 DEF Skip, Skipped, Ctl!Answer
      <4> QED
        BY <3>1, <3>2, <4>1 DEF ControllerStep
    <3> QED
      BY <3>2, <3>3, <3>4
  <2>7. CASE DrainEnd(k)
    <3>1. Ctl!DrainEnd(k) /\ NoResponse /\ OnlyController
      BY <2>7 DEF DrainEnd, Ctl!DrainEnd
    <3> QED
      BY <3>1 DEF ControllerStep, Ctl!Silent
  <2>8. CASE Report(k)
    <3>1. PICK succeeded \in BOOLEAN : Ctl!Report(k, succeeded) /\ Respond(k, succeeded)
      BY <2>8 DEF Report, Ctl!Report
    <3> QED
      BY <2>8, <3>1 DEF Report, ControllerStep
  <2>9. CASE Finish(k)
    <3>1. Ctl!Finish(k) /\ NoResponse /\ OnlyController
      BY <2>9 DEF Finish, Ctl!Finish
    <3> QED
      BY <3>1 DEF ControllerStep, Ctl!Silent
  <2>10. CASE Enter(k)
    <3>1. Ctl!Enter(k) /\ NoResponse /\ OnlyController
      BY <2>10 DEF Enter, Ctl!Enter, Continues, Ctl!Continues, Ctl!Works
    <3> QED
      BY <3>1 DEF ControllerStep, Ctl!Silent
  <2>11. CASE FindNone(k)
    <3>1. Ctl!FindNone(k) /\ NoResponse /\ OnlyController
      BY <2>11 DEF FindNone, Ctl!FindNone
    <3> QED
      BY <3>1 DEF ControllerStep, Ctl!Silent
  <2> QED
    BY <1>1, <2>1, <2>2, <2>3, <2>4, <2>5, <2>6, <2>7, <2>8, <2>9, <2>10, <2>11
      DEF Control
<1>2. ASSUME ChainStops(k) PROVE ControllerStep(k)
  <2>1. Ctl!ChainStops(k) /\ NoResponse /\ OnlyController
    BY <1>2 DEF ChainStops, Ctl!ChainStops, Ctl!Works, NoResponse, OnlyController, resultVars
  <2> QED
    BY <2>1 DEF ControllerStep, Ctl!Silent
<1>3. ASSUME Ctl!Silent(k), NoResponse, OnlyController PROVE Control(k) \/ ChainStops(k)
  <2>1. CASE Ctl!Take(k)
    BY <1>3, <2>1 DEF Ctl!Take, Control, Take
  <2>2. CASE Ctl!HardInterrupt(k)
    <3>1. req[k] \in Request
      BY <2>2, ControllerRequests DEF Ctl!HardInterrupt, Serving
    <3> QED
      BY <1>3, <2>2, <3>1 DEF Ctl!HardInterrupt, Control, HardInterrupt
  <2>3. CASE Ctl!Leave(k)
    BY <1>3, <2>3 DEF Ctl!Leave, Control, Leave, Continues, Ctl!Continues, Ctl!Works
  <2>4. CASE Ctl!DrainEnd(k)
    BY <1>3, <2>4 DEF Ctl!DrainEnd, Control, DrainEnd
  <2>5. CASE Ctl!Finish(k)
    BY <1>3, <2>5 DEF Ctl!Finish, Control, Finish
  <2>6. CASE Ctl!ChainStops(k)
    BY <1>3, <2>6 DEF Ctl!ChainStops, ChainStops, Ctl!Works, NoResponse, OnlyController, resultVars
  <2>7. CASE Ctl!Served(k, "serve") /\ ~req[k].answers
    BY <1>3, <2>7 DEF Ctl!Served, Control, Serve
  <2>8. CASE Ctl!Skip(k) /\ ~Head(queue[k]).answers
    BY <1>3, <2>8 DEF Ctl!Skip, Control, Skip, Skipped
  <2>9. CASE Ctl!Enter(k)
    BY <1>3, <2>9 DEF Ctl!Enter, Control, Enter, Continues, Ctl!Continues, Ctl!Works
  <2>10. CASE Ctl!FindNone(k)
    BY <1>3, <2>10 DEF Ctl!FindNone, Control, FindNone
  <2> QED
    BY <1>3, <2>1, <2>2, <2>3, <2>4, <2>5, <2>6, <2>7, <2>8, <2>9, <2>10 DEF Ctl!Silent
<1>4. ASSUME NEW r \in Request, NEW succeeded \in BOOLEAN, Ctl!Answer(k, r, succeeded),
             Respond(r.id, succeeded), OnlyController
      PROVE  Control(k)
  <2>1. CASE Ctl!Served(k, "serve") /\ r = req[k] /\ r.answers /\ Ctl!Possible(k, succeeded)
    <3>1. Outcome(k, succeeded)
      BY <2>1 DEF Outcome, Ctl!Possible, Ctl!Works
    <3> QED
      BY <1>4, <2>1, <3>1 DEF Ctl!Served, Control, Serve
  <2>2. CASE Ctl!Served(k, "hard") /\ r = req[k] /\ succeeded
    BY <1>4, <2>2 DEF Ctl!Served, Control, AnswerHard
  <2>3. CASE Ctl!Skip(k) /\ r = Head(queue[k]) /\ r.answers /\ ~succeeded
    BY <1>4, <2>3 DEF Ctl!Skip, Control, Skip, Skipped
  <2> QED
    BY <1>4, <2>1, <2>2, <2>3 DEF Ctl!Answer
<1>5. ASSUME NEW succeeded \in BOOLEAN, Ctl!Report(k, succeeded), Respond(k, succeeded), OnlyController
      PROVE  Control(k)
  BY <1>5 DEF Ctl!Report, Control, Report
<1> QED
  BY <1>1, <1>2, <1>3, <1>4, <1>5 DEF ControllerStep

(* A controller that was not created is as init() will find it. *)
Blank == \A k \in Ids : pc[k] = "none" => k \notin stopped /\ queue[k] = <<>> /\ req[k] = Nothing

\* What Processor does to a controller: it starts it, and places requests with it.
Starts(k) ==
  /\ pc[k] = "none" /\ Ctl!Started(k)'
  /\ UNCHANGED <<stopped, queue, req>>
  /\ \A j \in Ids \ {k} : pc'[j] = pc[j] /\ status'[j] = status[j]
Asks(k) == \E r \in Request : r.id = cur /\ Ctl!Place(k, r)

(* It does so with controllers it has. *)
LEMMA ProcessorAsks ==
  ASSUME CoreInv, OrderInv, Delegate \/ DelegateTarget
  PROVE  \E k \in chains : Asks(k) \/ UNCHANGED ctlVars
<1>1. cur \in Ids
  BY DEF CoreInv, Counting, Handling, Ids, Delegate, DelegateTarget
<1>2. ASSUME NEW k \in chains, NEW next, Place(k, next) \/ Throw(k) PROVE Asks(k) \/ UNCHANGED ctlVars
  <2>1. CASE Throw(k)
    BY <2>1 DEF Throw
  <2>2. CASE Place(k, next)
    <3> DEFINE r == [id |-> cur, answers |-> Answering]
    <3>1. r \in Request /\ r.id = cur
      BY <1>1 DEF Request, Answering
    <3>2. Ctl!Place(k, r)
      BY <2>2 DEF Place, Open, Queued, Ctl!Place
    <3> QED
      BY <3>1, <3>2 DEF Asks
  <2> QED
    BY <1>2, <2>1, <2>2
<1>3. CASE Delegate
  <2>1. Found(Cmd.chain)
    BY <1>3, ProcessorAssumption DEF Delegate, Refused, CoreInv, Types, Counting, Popped, Handling, Cmd, Kinds
  <2> QED
    BY <1>2, <1>3, <2>1, FoundController DEF Delegate
<1>4. CASE DelegateTarget
  BY <1>2, <1>4, FoundController DEF DelegateTarget, OrderInv, PeerFound
<1> QED
  BY <1>3, <1>4

(* The step of a controller is its own. *)
LEMMA ControlAlone ==
  ASSUME CoreInv, NEW k \in Ids, Control(k)
  PROVE  /\ pc[k] # "none" /\ pc'[k] # "none"
         /\ \A j \in Ids \ {k} : /\ pc'[j] = pc[j] /\ queue'[j] = queue[j] /\ req'[j] = req[j]
                                 /\ (j \in stopped' <=> j \in stopped)
BY DEF CoreInv, Types, Goto, Control, Enter, FindNone, Take, HardInterrupt, Serve, AnswerHard, Leave,
  Skip, DrainEnd, Report, Finish

(* What becomes of the controllers in each step of the system. *)
LEMMA ControllersMove ==
  ASSUME CoreInv, OrderInv, Blank, Next
  PROVE  \/ UNCHANGED ctlVars
         \/ \E k \in Ids : Control(k) \/ ChainStops(k) \/ Starts(k) \/ (pc[k] # "none" /\ Asks(k))
<1>0. pc \in [Ids -> PcStates] /\ status \in [Ids -> {"none", "WORKING", "FINISHED", "INTERRUPTED"}]
      /\ \A k \in chains : k \in Ids /\ pc[k] # "none"
  BY DEF CoreInv, Types, Created
<1>1. CASE \/ \E m \in Commands : Allowed(Append(cmds, m)) /\ Submit(m)
           \/ Close \/ TakeResponse
  BY <1>1 DEF Submit, Close, TakeResponse
<1>2. CASE Work
  <2>1. CASE TestClosed \/ TestBusy \/ PopCommand \/ NoCommand \/ Refuse \/ Count \/ EndPass
             \/ \E k \in Ids : Reap(k)
    BY <2>1 DEF TestClosed, TestBusy, PopCommand, NoCommand, Refuse, Count, EndPass, Reap, Quiet
  <2>2. CASE Schedule
    <3>1. PICK k \in Ids : k = cur /\ pc[k] = "none"
      BY <2>2 DEF Schedule, CoreInv, Counting, Created, Handling, Ids
    <3>2. pc'[k] = "loop" /\ status'[k] = "WORKING" /\ UNCHANGED <<stopped, queue, req>>
      BY <1>0, <2>2, <3>1 DEF Schedule
    <3>3. Ctl!Started(k)'
      BY <3>1, <3>2 DEF Blank, Ctl!Started, Ctl!Works
    <3>4. Starts(k)
      BY <1>0, <2>2, <3>1, <3>2, <3>3 DEF Schedule, Starts
    <3> QED
      BY <3>4
  <2>3. CASE Delegate \/ DelegateTarget
    BY <1>0, <2>3, ProcessorAsks
  <2> QED
    BY <1>2, <2>1, <2>2, <2>3 DEF Work
<1> QED
  BY <1>1, <1>2 DEF Next

LEMMA BlankInductive == ASSUME CoreInv, OrderInv, Blank, [Next]_vars PROVE Blank'
<1>0. /\ pc \in [Ids -> PcStates] /\ queue \in [Ids -> Seq(Request)]
  BY DEF CoreInv, Types
<1>1. ASSUME UNCHANGED <<pc, stopped, queue, req>> PROVE Blank'
  BY <1>1 DEF Blank
<1>2. ASSUME NEW k \in Ids, Control(k) PROVE Blank'
  BY <1>2, ControlAlone DEF Blank
<1>3. ASSUME NEW k \in Ids, Starts(k) PROVE Blank'
  BY <1>0, <1>3 DEF Starts, Blank, Ctl!Started
<1>4. ASSUME NEW k \in Ids, pc[k] # "none", Asks(k) PROVE Blank'
  BY <1>0, <1>4 DEF Asks, Ctl!Place, Blank
<1> QED
  BY <1>1, <1>2, <1>3, <1>4, ControllersMove DEF ChainStops, vars, ctlVars

(* Processor drives its controllers as ControllerSpec has it: it starts each one once,
   places requests with those it has, and everything else they do themselves. *)
THEOREM ProcessorDrivesControllers ==
  Spec => [][\E k \in Ids : ControllerStep(k) \/ Starts(k) \/ Asks(k)]_ctlVars
<1>1. Init => Blank
  BY DEF Init, Blank
<1>2. CoreInv /\ OrderInv /\ Blank /\ [Next]_vars
        => [\E k \in Ids : ControllerStep(k) \/ Starts(k) \/ Asks(k)]_ctlVars
  <2>1. CASE UNCHANGED vars
    BY <2>1 DEF vars
  <2> QED
    BY <2>1, ControllersMove, ProcessorControllers
<1> QED
  BY <1>1, <1>2, CoreInvariant, OrderInvariant, BlankInductive, PTL DEF Spec
=============================================================================
