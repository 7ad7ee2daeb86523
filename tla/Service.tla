------------------------------ MODULE Service ------------------------------
(***************************************************************************)
(* swm::Service::main_loop() (sched-lib/ctrl/service.cpp): the threads of  *)
(* Receiver, Processor and Sender with the two queues between them, from   *)
(* the first command to the end of the program.  Processor and the         *)
(* controllers are those of module Processor; the Receiver takes the place *)
(* of its client, the Sender takes the responses, and main_loop() closes   *)
(* one after the other.                                                    *)
(***************************************************************************)
EXTENDS Naturals, Sequences

CONSTANTS Streams,       \* the input streams: sequences of commands as they were
                         \* written, [kind, creatable, fate]
          Uid,           \* the id get_data() gives to every command
          Named,         \* the chain that init() of the commands names, whatever
                         \* was written
          MaxCommands, InCapacity, OutCapacity, Nothing

Fates == {"fine",        \* can be read and parsed
          "corrupted",   \* can be read, init() of the command fails
          "throwing",    \* can be read, init() of the command throws
          "broken"}      \* cannot be read

VARIABLES
  cmds, in_queue, closed, at, cur, chains, unseen, requests,
  pc, stopped, status, queue, req, out_queue, answers, lost,    \* Processor's
  stream,         \* what the Receiver has not read
  reader,         \* the next step of the Receiver's worker_loop()
  command,        \* the command it has in its hands
  finished,       \* Receiver::finished_
  sender,         \* the next step of the Sender's worker_thread()
  senderClosed,   \* Sender::closed_
  resp,           \* the response it has in its hands
  sent,           \* the responses that were serialized, [id, written]
  main            \* the next step of main_loop()

processorVars == <<cmds, in_queue, closed, at, cur, chains, unseen, requests,
                   pc, stopped, status, queue, req, out_queue, answers, lost>>
receiverVars == <<stream, reader, command, finished>>
senderVars == <<sender, senderClosed, resp, sent>>
vars == <<processorVars, receiverVars, senderVars, main>>

\* The command the Receiver makes of what it read.
Parsed(c) ==
  [kind |-> IF c.fate = "fine" THEN c.kind ELSE "corrupted", uid |-> Uid,
   chain |-> Named, peer |-> Named, creatable |-> c.creatable]

\* The places of a stream that are pushed: all before the first error but what throws.
Readable(s) == {i \in DOMAIN s : \A j \in 1..i : s[j].fate # "broken"}
Kept(s) == {i \in Readable(s) : s[i].fate # "throwing"}

\* The first of these places, however many, in their order.
FirstKept(s, f) ==
  \A i \in DOMAIN f :
    /\ \A j \in DOMAIN f : j < i => f[j] < f[i]
    /\ \A k \in Kept(s) : k < f[i] => \E j \in DOMAIN f : f[j] = k

\* What may have been pushed of the streams at some moment.
Inputs ==
  UNION {{[i \in DOMAIN f |-> Parsed(s[f[i]])] :
            f \in {g \in UNION {[1..n -> Kept(s)] : n \in 0..Len(s)} : FirstKept(s, g)}} :
         s \in Streams}

Proc == INSTANCE Processor

ASSUME ServiceAssumption ==
  /\ MaxCommands \in Nat
  /\ InCapacity \in Nat \ {0} /\ OutCapacity \in Nat \ {0}
  /\ Streams \subseteq Seq([kind : Proc!Kinds, creatable : BOOLEAN, fate : Fates])
  /\ \A input \in Inputs : Len(input) <= MaxCommands
  /\ Nothing \notin Proc!Request

Init ==
  /\ Proc!Init
  /\ stream \in Streams
  /\ reader = "peek" /\ command = Nothing /\ finished = FALSE
  /\ sender = "closed" /\ senderClosed = FALSE /\ resp = Nothing /\ sent = <<>>
  /\ main = "wait"

-----------------------------------------------------------------------------
\* What main_loop() and the threads wait for, each after a slip it could contain

Room == Len(in_queue) < InCapacity         \* in_queue.push() waits while it is full

ReceiverDone_NotAwaited == TRUE
ReceiverDone == finished

ProcessorDone_NotJoined == TRUE
ProcessorDone == at = "done"

\* What keeps a closed Sender running.
Unsent_Ignored == FALSE
Unsent == out_queue # <<>>

\* An error in the stream ends the Receiver.
Fatal_Never(c) == FALSE
Fatal(c) == c.fate = "broken"

Sendable(r) == r.succeeded

-----------------------------------------------------------------------------
\* Receiver::worker_loop()

ReceiverOnly == UNCHANGED <<senderVars, main>>

Peek ==
  /\ reader = "peek"
  /\ reader' = IF stream # <<>> THEN "read" ELSE "finish"
  /\ ReceiverOnly /\ UNCHANGED <<processorVars, stream, command, finished>>

Read ==
  /\ reader = "read"
  /\ stream' = Tail(stream)
  /\ CASE Fatal(Head(stream)) -> reader' = "finish" /\ UNCHANGED command
       [] Head(stream).fate = "throwing" -> reader' = "peek" /\ UNCHANGED command
       [] OTHER -> reader' = "push" /\ command' = Parsed(Head(stream))
  /\ ReceiverOnly /\ UNCHANGED <<processorVars, finished>>

PushCommand ==
  /\ reader = "push"
  /\ Room
  /\ cmds' = Append(cmds, command)
  /\ in_queue' = Append(in_queue, Len(cmds'))
  /\ reader' = "peek" /\ command' = Nothing
  /\ ReceiverOnly
  /\ UNCHANGED <<stream, finished, closed, at, cur, chains, unseen, requests, pc, stopped,
                 status, queue, req, out_queue, answers, lost>>

FinishReceiver ==
  /\ reader = "finish"
  /\ reader' = "done" /\ finished' = TRUE
  /\ ReceiverOnly /\ UNCHANGED <<processorVars, stream, command>>

Receive == Peek \/ Read \/ PushCommand \/ FinishReceiver

-----------------------------------------------------------------------------
\* Sender::worker_thread()

SenderOnly == UNCHANGED <<receiverVars, main>>

\* The condition of the loop: closed_ is read first, the queue afterwards.
TestSenderClosed ==
  /\ sender = "closed"
  /\ sender' = IF senderClosed THEN "busy" ELSE "poll"
  /\ SenderOnly /\ UNCHANGED <<processorVars, senderClosed, resp, sent>>

TestUnsent ==
  /\ sender = "busy"
  /\ sender' = IF Unsent THEN "poll" ELSE "done"
  /\ SenderOnly /\ UNCHANGED <<processorVars, senderClosed, resp, sent>>

PopResponse ==
  /\ sender = "poll"
  /\ Proc!TakeResponse
  /\ resp' = Head(out_queue)
  /\ sender' = "send"
  /\ SenderOnly /\ UNCHANGED <<senderClosed, sent>>

NoResponse ==
  /\ sender = "poll" /\ out_queue = <<>>
  /\ sender' = "closed"
  /\ SenderOnly /\ UNCHANGED <<processorVars, senderClosed, resp, sent>>

\* A failed response is dropped; serialize() may fail, and then nothing is written.
Send ==
  /\ sender = "send"
  /\ IF Sendable(resp)
     THEN \E written \in BOOLEAN : sent' = Append(sent, [id |-> resp.id, written |-> written])
     ELSE UNCHANGED sent
  /\ sender' = "closed" /\ resp' = Nothing
  /\ SenderOnly /\ UNCHANGED <<processorVars, senderClosed>>

Sends == TestSenderClosed \/ TestUnsent \/ PopResponse \/ NoResponse \/ Send

-----------------------------------------------------------------------------
\* main_loop()

MainStep(from, to) == main = from /\ main' = to /\ UNCHANGED receiverVars

AwaitReceiver ==
  /\ MainStep("wait", "close")
  /\ ReceiverDone
  /\ UNCHANGED <<processorVars, senderVars>>

CloseProcessor ==
  /\ MainStep("close", "join")
  /\ Proc!Close
  /\ UNCHANGED senderVars

JoinProcessor ==
  /\ MainStep("join", "close_sender")
  /\ ProcessorDone
  /\ UNCHANGED <<processorVars, senderVars>>

CloseSender ==
  /\ MainStep("close_sender", "join_sender")
  /\ senderClosed' = TRUE
  /\ UNCHANGED <<processorVars, sender, resp, sent>>

JoinSender ==
  /\ MainStep("join_sender", "end")
  /\ sender = "done"
  /\ UNCHANGED <<processorVars, senderVars>>

Main == AwaitReceiver \/ CloseProcessor \/ JoinProcessor \/ CloseSender \/ JoinSender

-----------------------------------------------------------------------------
Process == Proc!Work /\ UNCHANGED <<receiverVars, senderVars, main>>
Control(k) == Proc!Control(k) /\ UNCHANGED <<receiverVars, senderVars, main>>
ChainStops(k) == Proc!ChainStops(k) /\ UNCHANGED <<receiverVars, senderVars, main>>

Next ==
  \/ Receive \/ Process \/ Sends \/ Main
  \/ \E k \in 1..MaxCommands : Control(k) \/ ChainStops(k)

Spec == Init /\ [][Next]_vars

\* All threads go on; the chains may work for ever.
Fairness ==
  /\ WF_vars(Receive) /\ WF_vars(Process) /\ WF_vars(Sends) /\ WF_vars(Main)
  /\ \A k \in 1..MaxCommands : WF_vars(Control(k))

FairSpec == Spec /\ Fairness

-----------------------------------------------------------------------------
\* Properties

(* The Receiver, the Sender and main_loop() use Processor as module Processor
   says: commands come in the order of the stream and none after close(), every
   response that is taken was pushed. *)
DrivesProcessor == Proc!Spec

(* When main_loop() returns and destroys the queues, no thread uses them: the
   Receiver, Processor, the Sender and all controllers have ended. *)
EndsTogether ==
  main = "end" =>
    /\ reader = "done" /\ at = "done" /\ sender = "done"
    /\ \A k \in Proc!Ids : pc[k] \in {"none", "done"}

(* When main_loop() returns, the successful responses and no others were serialized,
   each once, although the threads are closed one after the other while the queues
   still hold elements. *)
SentAtEnd ==
  main = "end" =>
    /\ {sent[i].id : i \in DOMAIN sent} = {k \in Proc!Ids : answers[k] = "yes"}
    /\ \A i, j \in DOMAIN sent : sent[i].id = sent[j].id => i = j

(* Once no chain works any more the program and all its threads end, whatever is
   left in the stream and in the queues. *)
ServiceEnds ==
  <>[](\A k \in Proc!Ids : status[k] # "WORKING")
    => <>(main = "end" /\ reader = "done" /\ at = "done" /\ sender = "done")
=============================================================================
