----------------------------- MODULE Processor -----------------------------
(***************************************************************************)
(* swm::util::Processor (sched-lib/ctrl/processor.cpp) between its two     *)
(* queues: one thread that takes commands, creates controllers of chains,  *)
(* delegates requests to them, and releases those that finished.  The      *)
(* queues are atomic (BoundedFifo); a controller is reduced to what        *)
(* ControllerSpec promises, which ChainController implements: it serves    *)
(* its requests in order, skips those that are left when it stops, reports *)
(* once and finishes.                                                      *)
(* Any client pushes the commands, as the Receiver and the tests do, takes *)
(* the responses and calls close().                                        *)
(***************************************************************************)
EXTENDS Naturals, Sequences

CONSTANTS Inputs,        \* the sequences of commands a client may push, records
                         \* [kind, uid, chain, peer, creatable]
          MaxCommands,   \* the length of the longest of them
          InCapacity, OutCapacity,
          Nothing        \* no request

Kinds == {"schedule", "interrupt", "metrics", "exchange", "corrupted"}

Commands == UNION {{s[i] : i \in DOMAIN s} : s \in Inputs}

ASSUME ProcessorAssumption ==
  /\ MaxCommands \in Nat
  /\ InCapacity \in Nat \ {0} /\ OutCapacity \in Nat \ {0}
  /\ Inputs \subseteq Seq(Commands)
  /\ \A s \in Inputs : Len(s) <= MaxCommands
  /\ \A m \in Commands : m.kind \in Kinds
  /\ Nothing \notin [id : 1..MaxCommands, answers : BOOLEAN]

\* A command is known by its place among those pushed, and a controller by the
\* command that created it.
Ids == 1..MaxCommands

VARIABLES
  cmds,        \* the commands pushed so far
  in_queue,    \* their ids, oldest first
  out_queue,   \* responses, [id, succeeded]
  closed,      \* closed_
  at,          \* the next step of Processor's worker_thread()
  cur,         \* the command it handles, or 0
  chains,      \* chains_
  unseen,      \* the chains the current pass over chains_ has not reached
  requests,    \* the number of requests in the service's metrics
  pc,          \* the next step of each controller's worker_loop()
  stopped,     \* the controllers with stopped_ set
  status,      \* the status of each controller's chain
  queue,       \* queue_ of each controller: requests, [id, answers]
  req,         \* the request each controller serves
  answers,     \* the response each command got
  lost         \* the commands whose request was delegated to a stopped controller

clientVars == <<cmds, in_queue, closed>>
workVars == <<at, cur, chains, unseen, requests>>
ctlVars == <<pc, stopped, status, queue, req>>
resultVars == <<out_queue, answers, lost>>
vars == <<clientVars, workVars, ctlVars, resultVars>>

Init ==
  /\ cmds = <<>> /\ in_queue = <<>> /\ out_queue = <<>> /\ closed = FALSE
  /\ at = "closed" /\ cur = 0 /\ chains = {} /\ unseen = {} /\ requests = 0
  /\ pc = [k \in Ids |-> "none"]
  /\ stopped = {}
  /\ status = [k \in Ids |-> "none"]
  /\ queue = [k \in Ids |-> <<>>]
  /\ req = [k \in Ids |-> Nothing]
  /\ answers = [k \in Ids |-> "none"]
  /\ lost = {}

Cmd == cmds[cur]
Found(uid) == \E k \in chains : cmds[k].uid = uid          \* chains_.find(uid) != end()
Controller(uid) == CHOOSE k \in chains : cmds[k].uid = uid

-----------------------------------------------------------------------------
\* What the code tests and computes, each after a slip it could contain

\* What keeps a closed Processor running.
Busy_NoChains == in_queue # <<>>
Busy == in_queue # <<>> \/ chains # {}

Room == Len(out_queue) < OutCapacity

\* Of the two requests of an exchange, the first answers.
Answering_Both == TRUE
Answering == at # "target"

\* Whether invoke() may place a request: not once the drain has begun.  A hard
\* interruption may set stopped_ after invoke() tested it.
Open_Always(k) == TRUE
Open(k) == pc[k] \in {"loop", "look", "serve", "hard"}

\* The condition of a controller's loop.
Continues_Unstopped(k) == k \notin stopped
Continues(k) == k \notin stopped /\ status[k] = "WORKING"

\* The pass over chains_ releases the controllers that finished.
Released(k) == pc[k] = "done"

\* queue_.push()
Queued_First(q, request) == <<request>> \o q
Queued(q, request) == Append(q, request)

\* The requests that are skipped have a callback as well.
Skipped_Silently(r) == FALSE
Skipped(r) == r.answers

\* out_queue_->push(): waits while the queue is full.
Respond(k, succeeded) ==
  /\ Room
  /\ out_queue' = Append(out_queue, [id |-> k, succeeded |-> succeeded])
  /\ answers' = [answers EXCEPT ![k] = IF @ # "none" THEN "twice"
                                       ELSE IF succeeded THEN "yes" ELSE "no"]

-----------------------------------------------------------------------------
\* The client

Allowed(s) == \E input \in Inputs : Len(s) <= Len(input) /\ s = SubSeq(input, 1, Len(s))

\* The client's push() on the command queue takes effect.
Submit(m) ==
  /\ ~closed /\ Len(in_queue) < InCapacity
  /\ cmds' = Append(cmds, m)
  /\ in_queue' = Append(in_queue, Len(cmds'))
  /\ UNCHANGED <<closed, workVars, ctlVars, resultVars>>

Close ==
  /\ ~closed
  /\ closed' = TRUE
  /\ UNCHANGED <<cmds, in_queue, workVars, ctlVars, resultVars>>

TakeResponse ==
  /\ out_queue # <<>>
  /\ out_queue' = Tail(out_queue)
  /\ UNCHANGED <<clientVars, workVars, ctlVars, answers, lost>>

-----------------------------------------------------------------------------
\* worker_thread()

Quiet == UNCHANGED <<clientVars, ctlVars, resultVars>>

\* The condition of the loop: closed_ is read first, the queue afterwards.
TestClosed ==
  /\ at = "closed"
  /\ at' = IF closed THEN "busy" ELSE "poll"
  /\ Quiet /\ UNCHANGED <<cur, chains, unseen, requests>>

TestBusy ==
  /\ at = "busy"
  /\ at' = IF Busy THEN "poll" ELSE "done"
  /\ Quiet /\ UNCHANGED <<cur, chains, unseen, requests>>

PopCommand ==
  /\ at = "poll" /\ in_queue # <<>>
  /\ cur' = Head(in_queue) /\ in_queue' = Tail(in_queue)
  /\ at' = "handle"
  /\ UNCHANGED <<cmds, closed, chains, unseen, requests, ctlVars, resultVars>>

NoCommand ==
  /\ at = "poll" /\ in_queue = <<>>
  /\ at' = "reap" /\ unseen' = chains
  /\ Quiet /\ UNCHANGED <<cur, chains, requests>>

\* The commands that are answered on the spot: corrupted ones, a chain that exists
\* already or cannot be created, a chain that was not found.
Refused ==
  CASE Cmd.kind = "schedule"               -> Found(Cmd.uid) \/ ~Cmd.creatable
    [] Cmd.kind \in {"interrupt", "metrics"} -> ~Found(Cmd.chain)
    [] Cmd.kind = "exchange"               -> ~Found(Cmd.chain) \/ ~Found(Cmd.peer)
    [] OTHER                               -> TRUE

Refuse ==
  /\ at = "handle" /\ Refused
  /\ Respond(cur, FALSE)
  /\ at' = "count"
  /\ UNCHANGED <<clientVars, cur, chains, unseen, requests, ctlVars, lost>>

Schedule ==
  /\ at = "handle" /\ ~Refused /\ Cmd.kind = "schedule"
  /\ chains' = chains \cup {cur}
  /\ pc' = [pc EXCEPT ![cur] = "loop"]
  /\ status' = [status EXCEPT ![cur] = "WORKING"]
  /\ at' = "count"
  /\ UNCHANGED <<clientVars, cur, unseen, requests, stopped, queue, req, resultVars>>

\* ChainController::invoke(): a controller that skips its requests holds the lock.
Place(k, next) ==
  /\ pc[k] # "drain"
  /\ Open(k)
  /\ queue' = [queue EXCEPT ![k] = Queued(@, [id |-> cur, answers |-> Answering])]
  /\ at' = next
  /\ UNCHANGED <<clientVars, cur, chains, unseen, requests, pc, stopped, status, req, resultVars>>

\* A controller that has stopped runs the request on this thread, where its timer
\* throws.
Throw(k) ==
  /\ pc[k] # "drain" /\ k \in stopped
  /\ lost' = IF at = "handle" THEN lost \cup {cur} ELSE lost
  /\ at' = "count"
  /\ UNCHANGED <<clientVars, cur, chains, unseen, requests, ctlVars, out_queue, answers>>

Delegate ==
  /\ at = "handle" /\ ~Refused /\ Cmd.kind # "schedule"
  /\ LET k == Controller(Cmd.chain)
     IN Place(k, IF Cmd.kind = "exchange" THEN "target" ELSE "count") \/ Throw(k)

DelegateTarget ==
  /\ at = "target"
  /\ LET k == Controller(Cmd.peer) IN Place(k, "count") \/ Throw(k)

\* update_requests(), and the pass over chains_ begins.
Count ==
  /\ at = "count"
  /\ requests' = requests + 1
  /\ cur' = 0
  /\ at' = "reap" /\ unseen' = chains
  /\ Quiet /\ UNCHANGED chains

\* A finished controller is released with its chain; ~Chain() interrupts a chain
\* that still works, and returns once it stopped (its own race is Chain's matter).
Reap(k) ==
  /\ at = "reap" /\ k \in unseen
  /\ Released(k) => status[k] # "WORKING"
  /\ chains' = IF Released(k) THEN chains \ {k} ELSE chains
  /\ unseen' = unseen \ {k}
  /\ Quiet /\ UNCHANGED <<at, cur, requests>>

EndPass ==
  /\ at = "reap" /\ unseen = {}
  /\ at' = "closed"
  /\ Quiet /\ UNCHANGED <<cur, chains, unseen, requests>>

Work ==
  \/ TestClosed \/ TestBusy \/ PopCommand \/ NoCommand \/ Refuse \/ Schedule \/ Delegate
  \/ DelegateTarget \/ Count \/ (\E k \in Ids : Reap(k)) \/ EndPass

-----------------------------------------------------------------------------
\* The controllers

OnlyController == UNCHANGED <<clientVars, workVars, lost>>
Goto(k, from, to) == pc[k] = from /\ pc' = [pc EXCEPT ![k] = to]
NoResponse == UNCHANGED <<out_queue, answers>>

Enter(k) ==
  /\ Continues(k)
  /\ Goto(k, "loop", "look")
  /\ NoResponse /\ OnlyController /\ UNCHANGED <<stopped, status, queue, req>>

FindNone(k) ==
  /\ queue[k] = <<>>
  /\ Goto(k, "look", "loop")
  /\ NoResponse /\ OnlyController /\ UNCHANGED <<stopped, status, queue, req>>

Take(k) ==
  /\ queue[k] # <<>>
  /\ Goto(k, "look", "serve")
  /\ req' = [req EXCEPT ![k] = Head(queue[k])]
  /\ queue' = [queue EXCEPT ![k] = Tail(@)]
  /\ NoResponse /\ OnlyController /\ UNCHANGED <<stopped, status>>

\* An interruption that ran out of time stops the controller before it answers.
HardInterrupt(k) ==
  /\ Goto(k, "serve", "hard")
  /\ cmds[req[k].id].kind = "interrupt"
  /\ stopped' = stopped \cup {k}
  /\ NoResponse /\ OnlyController /\ UNCHANGED <<status, queue, req>>

\* What a request may be answered with, its chain having been read at any moment
\* since it was taken; an error interrupts a chain as well.
Outcome(k, succeeded) ==
  LET kind == cmds[req[k].id].kind
  IN  /\ kind = "interrupt" =>
           status[k] # "WORKING" /\ (succeeded => status[k] = "INTERRUPTED")
      /\ (kind = "metrics" /\ ~succeeded) => status[k] # "WORKING"

Serve(k) ==
  /\ Goto(k, "serve", "loop")
  /\ IF req[k].answers
     THEN \E succeeded \in BOOLEAN : Outcome(k, succeeded) /\ Respond(req[k].id, succeeded)
     ELSE NoResponse
  /\ req' = [req EXCEPT ![k] = Nothing]
  /\ OnlyController /\ UNCHANGED <<stopped, status, queue>>

AnswerHard(k) ==
  /\ Goto(k, "hard", "loop")
  /\ Respond(req[k].id, TRUE)
  /\ req' = [req EXCEPT ![k] = Nothing]
  /\ OnlyController /\ UNCHANGED <<stopped, status, queue>>

\* The loop ends; "drain" holds the lock until the queue is empty.
Leave(k) ==
  /\ ~Continues(k)
  /\ Goto(k, "loop", "drain")
  /\ NoResponse /\ OnlyController /\ UNCHANGED <<stopped, status, queue, req>>

Skip(k) ==
  /\ pc[k] = "drain" /\ queue[k] # <<>>
  /\ IF Skipped(Head(queue[k])) THEN Respond(Head(queue[k]).id, FALSE) ELSE NoResponse
  /\ queue' = [queue EXCEPT ![k] = Tail(@)]
  /\ OnlyController /\ UNCHANGED <<pc, stopped, status, req>>

\* succeeded is computed when the drain begins, from the stopped_ that this ends.
DrainEnd(k) ==
  /\ queue[k] = <<>>
  /\ Goto(k, "drain", IF k \notin stopped /\ status[k] = "FINISHED" THEN "success" ELSE "failure")
  /\ stopped' = stopped \cup {k}
  /\ NoResponse /\ OnlyController /\ UNCHANGED <<status, queue, req>>

Report(k) ==
  /\ \/ Goto(k, "success", "finish") /\ Respond(k, TRUE)
     \/ Goto(k, "failure", "finish") /\ Respond(k, FALSE)
  /\ OnlyController /\ UNCHANGED <<stopped, status, queue, req>>

Finish(k) ==
  /\ Goto(k, "finish", "done")
  /\ NoResponse /\ OnlyController /\ UNCHANGED <<stopped, status, queue, req>>

Control(k) ==
  \/ Enter(k) \/ FindNone(k) \/ Take(k) \/ HardInterrupt(k) \/ Serve(k) \/ AnswerHard(k)
  \/ Leave(k) \/ Skip(k) \/ DrainEnd(k) \/ Report(k) \/ Finish(k)

\* The chain ends by itself, or by an error or because a request or ~Chain()
\* interrupted it.
ChainStops(k) ==
  /\ status[k] = "WORKING"
  /\ \E s \in {"FINISHED", "INTERRUPTED"} : status' = [status EXCEPT ![k] = s]
  /\ UNCHANGED <<clientVars, workVars, pc, stopped, queue, req, resultVars>>

-----------------------------------------------------------------------------
Next ==
  \/ \E m \in Commands : Allowed(Append(cmds, m)) /\ Submit(m)
  \/ Close \/ TakeResponse \/ Work
  \/ \E k \in Ids : Control(k) \/ ChainStops(k)

Spec == Init /\ [][Next]_vars

\* Threads go on, and somebody takes the responses; the chains may work for ever.
Fairness ==
  /\ WF_vars(Work) /\ WF_vars(TakeResponse)
  /\ \A k \in Ids : WF_vars(Control(k))

FairSpec == Spec /\ Fairness

-----------------------------------------------------------------------------
\* Properties

Request == [id : Ids, answers : BOOLEAN]

(* The types of Processor's variables and of its controllers'. *)
TypeOK ==
  /\ in_queue \in Seq(Ids) /\ Len(in_queue) <= InCapacity
  /\ out_queue \in Seq([id : Ids, succeeded : BOOLEAN]) /\ Len(out_queue) <= OutCapacity
  /\ cur \in Ids \cup {0} /\ unseen \subseteq chains /\ chains \subseteq Ids
  /\ queue \in [Ids -> Seq(Request)]
  /\ req \in [Ids -> Request \cup {Nothing}]
  /\ stopped \subseteq Ids /\ lost \subseteq Ids
  /\ requests \in 0..MaxCommands

(* A command never gets a second response: not from both controllers of an
   exchange, nor from the loop and the drain, nor from a chain that failed to
   start. *)
AnsweredOnce == \A k \in Ids : answers[k] # "twice"

(* A controller that has reported its result has no request left and gets none:
   its client hears nothing after the final response. *)
ReportIsLast ==
  \A k \in Ids : pc[k] \in {"success", "failure", "finish", "done"} => queue[k] = <<>>

(* The requests on a chain are answered in the order of the commands, by its
   controller, by the controller's drain or, once it is released, by Processor. *)
InOrder ==
  \A j, k \in DOMAIN cmds :
    /\ j < k /\ cmds[j].chain = cmds[k].chain
    /\ cmds[j].kind \in {"interrupt", "metrics", "exchange"}
    /\ cmds[k].kind \in {"interrupt", "metrics"}
    /\ answers[k] # "none"
    => answers[j] # "none" \/ j \in lost

(* "Stop when: owner called close(), no new requests, all zombies are killed": when
   the worker ends, every command was taken and every one answered, but for those
   delegated to a stopped controller. *)
DrainedAtExit ==
  at = "done" =>
    /\ closed /\ in_queue = <<>> /\ chains = {}
    /\ requests = Len(cmds)
    /\ \A k \in DOMAIN cmds : answers[k] # "none" \/ k \in lost

(* Once Processor is closed and no chain works any more, it ends: no thread waits
   for another, although responses are pushed to a full queue with a controller's
   lock held. *)
CloseCompletes == <>[](closed /\ \A k \in Ids : status[k] # "WORKING") => <>(at = "done")

(* A request is answered whatever the chains do, unless Processor is held up by the
   release of a controller whose chain does not stop. *)
RequestAnswered ==
  \A k \in Ids :
    (k \in DOMAIN cmds /\ cmds[k].kind # "schedule")
      ~> \/ answers[k] # "none" \/ k \in lost
         \/ \E c \in chains : pc[c] = "done" /\ status[c] = "WORKING"
=============================================================================
