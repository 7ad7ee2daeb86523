---------------------------- MODULE ControllerSpec ----------------------------
(***************************************************************************)
(* What a controller of a chain promises Processor, as far as Processor    *)
(* can tell: it serves its requests in order, skips those that are left    *)
(* when it stops, reports once and finishes.  An action that answers has   *)
(* the answer as a parameter, so that a module that uses it says what      *)
(* becomes of the answer.  ChainController implements this, and the        *)
(* controllers of Processor are these.                                     *)
(***************************************************************************)
EXTENDS Sequences

CONSTANT Nothing   \* no request

VARIABLES
  kind,      \* the kind of each request: interrupt, metrics or exchange
  pc,        \* the next step of each controller's worker_loop()
  stopped,   \* the controllers with stopped_ set
  status,    \* the status of each controller's chain
  queue,     \* the requests placed in each controller's queue_, oldest first
  req        \* the request each controller serves

Works(k) == status[k] = "WORKING"
Continues(k) == k \notin stopped /\ Works(k)
Goto(k, from, to) == pc[k] = from /\ pc' = [pc EXCEPT ![k] = to]

\* A controller that init() started.
Started(k) == /\ pc[k] = "loop" /\ k \notin stopped /\ Works(k)
              /\ queue[k] = <<>> /\ req[k] = Nothing

\* invoke() places a request, unless the controller stopped; it waits while the
\* controller skips its requests.  A hard interruption may set stopped_ after invoke()
\* tested it and before the request is in the queue.
Place(k, request) ==
  /\ pc[k] \in {"loop", "look", "serve", "hard"}
  /\ queue' = [queue EXCEPT ![k] = Append(@, request)]
  /\ UNCHANGED <<pc, stopped, status, req>>

\* The loop's condition is tested, then its queue, and then a request is taken: the
\* chain may stop, and further requests be placed, in between.
Enter(k) ==
  /\ Continues(k)
  /\ Goto(k, "loop", "look")
  /\ UNCHANGED <<stopped, status, queue, req>>

FindNone(k) ==
  /\ queue[k] = <<>>
  /\ Goto(k, "look", "loop")
  /\ UNCHANGED <<stopped, status, queue, req>>

Take(k) ==
  /\ queue[k] # <<>>
  /\ Goto(k, "look", "serve")
  /\ req' = [req EXCEPT ![k] = Head(queue[k])]
  /\ queue' = [queue EXCEPT ![k] = Tail(@)]
  /\ UNCHANGED <<stopped, status>>

\* A "hard" interruption stops the controller before it is answered.
HardInterrupt(k) ==
  /\ Goto(k, "serve", "hard") /\ kind[req[k]] = "interrupt"
  /\ stopped' = stopped \cup {k}
  /\ UNCHANGED <<status, queue, req>>

\* The request is over.
Served(k, from) ==
  /\ Goto(k, from, "loop")
  /\ req' = [req EXCEPT ![k] = Nothing]
  /\ UNCHANGED <<stopped, status, queue>>

\* What a request may be answered with, its chain having been read at any moment
\* since it was taken.
Possible(k, succeeded) ==
  /\ kind[req[k]] = "interrupt" => ~Works(k) /\ (succeeded => status[k] = "INTERRUPTED")
  /\ kind[req[k]] = "metrics" /\ ~succeeded => ~Works(k)

\* The loop ends, and the lock is held until the queue is empty.
Leave(k) ==
  /\ ~Continues(k)
  /\ Goto(k, "loop", "drain")
  /\ UNCHANGED <<stopped, status, queue, req>>

Skip(k) ==
  /\ pc[k] = "drain" /\ queue[k] # <<>>
  /\ queue' = [queue EXCEPT ![k] = Tail(@)]
  /\ UNCHANGED <<pc, stopped, status, req>>

DrainEnd(k) ==
  /\ queue[k] = <<>>
  /\ Goto(k, "drain", IF k \notin stopped /\ status[k] = "FINISHED" THEN "success" ELSE "failure")
  /\ stopped' = stopped \cup {k}
  /\ UNCHANGED <<status, queue, req>>

Finish(k) == Goto(k, "finish", "done") /\ UNCHANGED <<stopped, status, queue, req>>

ChainStops(k) ==
  /\ Works(k)
  /\ \E s \in {"FINISHED", "INTERRUPTED"} : status' = [status EXCEPT ![k] = s]
  /\ UNCHANGED <<pc, stopped, queue, req>>

\* The steps that answer nobody: the second request of an exchange has no answer.
Silent(k) ==
  \/ Enter(k) \/ FindNone(k) \/ Take(k) \/ HardInterrupt(k) \/ Leave(k) \/ DrainEnd(k)
  \/ Finish(k) \/ ChainStops(k)
  \/ Served(k, "serve") /\ ~req[k].answers
  \/ Skip(k) /\ ~Head(queue[k]).answers

\* Request r is answered.
Answer(k, r, succeeded) ==
  \/ Served(k, "serve") /\ r = req[k] /\ r.answers /\ Possible(k, succeeded)
  \/ Served(k, "hard") /\ r = req[k] /\ succeeded
  \/ Skip(k) /\ r = Head(queue[k]) /\ r.answers /\ ~succeeded

\* The controller reports the result of its chain.
Report(k, succeeded) ==
  /\ Goto(k, IF succeeded THEN "success" ELSE "failure", "finish")
  /\ UNCHANGED <<stopped, status, queue, req>>
=============================================================================
