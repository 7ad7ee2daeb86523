----------------------- MODULE ChainControllerProofs -----------------------
(***************************************************************************)
(* What the controllers of chains keep true for any set of chains, any     *)
(* timetables and any commands that are delegated to them, and that they   *)
(* implement ControllerSpec.  The invariant is built in layers: each is    *)
(* inductive once those before it are known.                               *)
(***************************************************************************)
EXTENDS ChainController, TLAPS

ExchangeSteps ==
  {"x_stage", "x_target", "x_meet", "x_met", "x_take", "x_taken", "x_both", "x_bothtest",
   "x_ready", "x_readytest", "x_injecting", "x_agree", "x_agreed", "x_read", "x_inject",
   "x_end", "x_fail", "x_failed"}
InterruptSteps ==
  {"i_ready", "i_readytest", "i_call", "i_stop", "i_stoptest", "i_hard", "i_soft", "i_yes"}

\* The worker has a request in its hands.
Handling == ExchangeSteps \cup InterruptSteps \cup {"start", "stats", "skip"}

\* It has skipped what was left in its queue.
Emptied == {"report", "finish", "done"}
Steps == Handling \cup Emptied \cup {"loop", "look", "pop", "drain_lock", "drain"}

\* The first request of a command, which answers, and the second one of an exchange.
First(m) == Request(m, m.chain, m.peer, TRUE)
Second(m) == Request(m, m.peer, m.chain, FALSE)
Exchanges == {m \in Commands : m.kind = "exchange"}
AllRequests == {First(m) : m \in Commands} \cup {Second(m) : m \in Exchanges}

-----------------------------------------------------------------------------
(***************************************************************************)
(* The layers                                                              *)
(***************************************************************************)
Values == Timetables \cup {NoTT}

Types ==
  /\ status \in [Chains -> {"WORKING", "INTERRUPTED", "FINISHED"}]
  /\ async_op \in [Chains -> {"NONE", "INTERRUPT", "INJECT_TT"}]
  /\ injected \in [Chains -> Values] /\ actual \in [Chains -> Values]
  /\ leaving \in [Chains -> BOOLEAN]
  /\ locker \in [Chains -> Chains \cup {"caller", Nobody}]
  /\ stopped \in [Chains -> BOOLEAN] /\ finished \in [Chains -> BOOLEAN]
  /\ queue \in [Chains -> Seq(AllRequests)]
  /\ stage \in [Chains -> {"WAITING", "TT_TAKEN", "TT_INJECTING", "FAILED"}]
  /\ target \in [Chains -> Chains \cup {Nobody}]
  /\ seen \in [Chains -> Values]
  /\ pc \in [Chains -> Steps]
  /\ req \in [Chains -> AllRequests \cup {Nobody}]
  /\ succeeded \in [Chains -> BOOLEAN]
  /\ todo \in Seq(AllRequests)
  /\ callerAt \in {"idle", "test", "place", "skip"}
  /\ answer \in [Commands -> {"none", "yes", "no", "twice"}]
  /\ outcome \in [Chains -> {"none", "yes", "no", "null"}]

\* Requests are where they belong: in the hands or the queue of the controller they
\* are for, which is at a step of their kind; only the controller takes from its queue,
\* so what it saw there is there when it takes it.
Sorted ==
  /\ \A c \in Chains :
       /\ pc[c] \in Handling => req[c] \in AllRequests /\ req[c].chain = c
       /\ pc[c] \in ExchangeSteps => req[c].kind = "exchange"
       /\ pc[c] \in InterruptSteps => req[c].kind = "interrupt"
       /\ pc[c] = "stats" => req[c].kind = "stats"
       /\ \A k \in 1..Len(queue[c]) : queue[c][k].chain = c
       /\ pc[c] = "pop" => queue[c] # <<>>
  /\ callerAt # "idle" => todo # <<>>

TypeInv == Types /\ Sorted

\* Who is between lock() and unlock() set the lock; a controller that has skipped its
\* requests is stopped, so nobody places another one.
Locked ==
  /\ callerAt \in {"place", "skip"} => locker[At] = "caller"
  /\ \A c \in Chains :
       /\ pc[c] \in {"drain", "skip"} => locker[c] = c
       /\ pc[c] \in Emptied =>
            stopped[c] /\ queue[c] = <<>> /\ (callerAt = "place" => At # c)
       /\ outcome[c] # "none" => pc[c] \in {"finish", "done"}

\* What a chain is asked, and what is known of timetables.
AfterTake == {"x_taken", "x_both", "x_bothtest", "x_ready", "x_readytest", "x_injecting",
              "x_agree", "x_agreed", "x_read"}
ReadySteps == {"x_injecting", "x_agree", "x_agreed", "x_read", "x_inject", "i_call"}

Resulted(c) ==
  /\ pc[c] \in ReadySteps => async_op[c] = "NONE"
  /\ async_op[c] = "INJECT_TT" => injected[c] # NoTT
  /\ leaving[c] \/ status[c] = "FINISHED" => actual[c] # NoTT
  /\ pc[c] \in AfterTake => actual[Peer(c)] # NoTT
  /\ pc[c] = "x_inject" => seen[c] # NoTT
  /\ succeeded[c] => status[c] = "FINISHED" /\ pc[c] \in {"drain", "skip"} \cup Emptied
  /\ outcome[c] # "none" => pc[c] \in {"finish", "done"}
  /\ outcome[c] \in {"yes", "null"} => succeeded[c]
  /\ outcome[c] # "null"
Results == \A c \in Chains : Resulted(c)

\* What a successful interruption leaves behind.
Told ==
  /\ \A c \in Chains : pc[c] = "i_yes" => stopped[c]
  /\ \A m \in Commands :
       m.kind = "interrupt" /\ answer[m] = "yes" =>
         /\ ~succeeded[m.chain]
         /\ status[m.chain] = "INTERRUPTED" \/ stopped[m.chain]

\* Where a request is: in the hands of its controller (i = 0), in its queue, or with
\* the caller.
Holds(r, i) ==
  IF i = 0 THEN pc[r.chain] \in Handling /\ req[r.chain] = r
  ELSE i \in 1..Len(queue[r.chain]) /\ queue[r.chain][i] = r
Asks(r, i) == callerAt # "idle" /\ i \in 1..Len(todo) /\ todo[i] = r
Sender(r) == CHOOSE m \in Commands : m.id = r.id

\* A request is in one place at most; a command that was not sent has none, and one
\* whose request is left to handle has no answer.
InOnePlace(r) ==
  /\ \A i, j \in Nat : Holds(r, i) /\ Holds(r, j) => i = j
  /\ \A i, j \in Nat : Asks(r, i) /\ Asks(r, j) => i = j
  /\ \A i, j \in Nat : ~(Holds(r, i) /\ Asks(r, j))
  /\ \A i \in Nat : Holds(r, i) \/ Asks(r, i) => Sender(r) \in sent
  /\ \A i \in Nat : (Holds(r, i) \/ Asks(r, i)) /\ r.answers => answer[Sender(r)] = "none"
OnePlace == \A r \in AllRequests : InOnePlace(r)

\* Nothing is answered before it is sent, nor twice.
Unanswered == \A m \in Commands : m \notin sent => answer[m] = "none"
Answers == \A m \in Commands : answer[m] # "twice"
OnceInv == OnePlace /\ Unanswered /\ Answers

\* The two requests of the only exchange.
Pair(r, s) ==
  /\ r.kind = "exchange" /\ s.kind = "exchange" /\ r # s /\ r.chain # s.chain
  /\ \A m, n \in Exchanges : m = n
Over(r) == Sender(r) \in sent /\ \A i \in Nat : ~Holds(r, i) /\ ~Asks(r, i)
TimedOut(r, s) == {r, s} \cap late # {}
Injected(r) == <<r.id, r.chain>> \in injection
InjectingSteps == {"x_agree", "x_agreed", "x_read", "x_inject", "x_end"}

\* The stage of a controller tells how far its exchange is, and an exchange that is
\* over leaves it for good.
Course(r) ==
  /\ pc[r.chain] \in InjectingSteps => stage[r.chain] = "TT_INJECTING"
  /\ stage[r.chain] = "TT_INJECTING" => Over(r) \/ pc[r.chain] \in InjectingSteps \cup {"x_fail"}
  /\ stage[r.chain] = "FAILED" => Over(r) \/ pc[r.chain] = "x_failed"
  /\ Injected(r) => stage[r.chain] = "TT_INJECTING" /\ (Over(r) \/ pc[r.chain] = "x_end")

\* What that tells the peer, while neither runs out of time.
Concord(r, s) ==
  \/ TimedOut(r, s)
  \/ /\ pc[r.chain] = "x_agreed" => stage[s.chain] \in {"TT_INJECTING", "FAILED"}
     /\ pc[r.chain] = "x_fail" /\ stage[r.chain] = "TT_INJECTING" => stage[s.chain] = "FAILED"
     /\ pc[r.chain] \in {"x_read", "x_inject"} \/ Injected(r) =>
          stage[s.chain] = "TT_INJECTING" /\ pc[s.chain] \notin {"x_fail", "x_failed"}

Injections ==
  \A m \in Commands, c \in Chains :
    <<m.id, c>> \in injection => m.kind = "exchange" /\ req[c] \in AllRequests /\ req[c].chain = c
Agreement ==
  /\ Injections
  /\ \A r, s \in AllRequests : Pair(r, s) => Course(r) /\ Concord(r, s)

-----------------------------------------------------------------------------
(* A request belongs to a command, and is for one of its chains. *)
LEMMA RequestFacts ==
  ASSUME NEW r \in AllRequests
  PROVE  /\ r.chain \in Chains /\ r.peer \in Chains /\ r.answers \in BOOLEAN
         /\ r.kind \in {"exchange", "interrupt", "stats"}
         /\ Sender(r) \in Commands /\ Sender(r).id = r.id /\ r.kind = Sender(r).kind
         /\ r = IF r.answers THEN First(Sender(r)) ELSE Second(Sender(r))
<1>1. PICK m \in Commands : r = First(m) \/ (r = Second(m) /\ m.kind = "exchange")
  BY DEF AllRequests, Exchanges
<1>2. /\ r.id = m.id /\ r.kind = m.kind /\ r.answers \in BOOLEAN
      /\ r = IF r.answers THEN First(m) ELSE Second(m)
  <2>1. First(m).answers = TRUE /\ Second(m).answers = FALSE
    BY DEF First, Second, Request
  <2>2. r.id = m.id /\ r.kind = m.kind
    BY <1>1 DEF First, Second, Request
  <2> QED
    BY <1>1, <2>1, <2>2
<1>3. Sender(r) = m
  BY <1>2, ControllerAssumption DEF Sender
<1>4. r.chain \in Chains /\ r.peer \in Chains
  BY <1>1, ControllerAssumption DEF First, Second, Request
<1> QED
  BY <1>2, <1>3, <1>4, ControllerAssumption

(* The requests of a command: the first one answers. *)
LEMMA RequestsOf ==
  ASSUME NEW m \in Commands
  PROVE  /\ Requests(m) \in Seq(AllRequests) /\ Requests(m) # <<>>
         /\ Requests(m)[1] = First(m)
         /\ Len(Requests(m)) \in {1, 2}
         /\ Len(Requests(m)) = 2 => m \in Exchanges /\ Requests(m)[2] = Second(m)
<1>1. First(m) \in AllRequests /\ (m \in Exchanges => Second(m) \in AllRequests)
  BY DEF AllRequests
<1>2. CASE m.kind = "exchange"
  <2>1. Requests(m) = <<First(m), Second(m)>>
    BY <1>2 DEF Requests, First, Second
  <2> HIDE DEF First, Second
  <2> QED
    BY <1>1, <1>2, <2>1 DEF Exchanges
<1>3. CASE m.kind # "exchange"
  <2>1. Requests(m) = <<First(m)>>
    BY <1>3 DEF Requests, First
  <2> QED
    BY <1>1, <2>1
<1> QED
  BY <1>2, <1>3

(* Calling back a request answers its command. *)
LEMMA AnsweredTypes ==
  ASSUME TypeInv, NEW c \in Chains, pc[c] \in Handling, NEW value \in {"yes", "no"}
  PROVE  /\ Answered(c, value) \in [Commands -> {"none", "yes", "no", "twice"}]
         /\ ~req[c].answers => Answered(c, value) = answer
         /\ req[c].answers =>
              Answered(c, value) = [answer EXCEPT ![Sender(req[c])] =
                                      IF @ = "none" THEN value ELSE "twice"]
<1>1. req[c] \in AllRequests
  BY DEF TypeInv, Sorted
<1>2. Sender(req[c]) \in Commands /\ Sender(req[c]) = CHOOSE n \in Commands : n.id = req[c].id
  BY <1>1, RequestFacts DEF Sender
<1>3. answer \in [Commands -> {"none", "yes", "no", "twice"}]
  BY DEF TypeInv, Types
<1> QED
  BY <1>2, <1>3 DEF Answered

-----------------------------------------------------------------------------
(* The first layer: types, and where requests are. *)
LEMMA TypeInit == Init => TypeInv
<1> SUFFICES ASSUME Init PROVE TypeInv
  OBVIOUS
<1>1. <<>> \in Seq(AllRequests) /\ Len(<<>>) = 0
  OBVIOUS
<1>2. Types
  BY <1>1 DEF Init, Chain!Init, Types, Values, Steps
<1>3. Sorted
  BY <1>1 DEF Init, Sorted, Handling, ExchangeSteps, InterruptSteps
<1> QED
  BY <1>2, <1>3 DEF TypeInv

(* The caller keeps it. *)
LEMMA TypeCaller == ASSUME TypeInv, Caller PROVE TypeInv'
<1> USE DEF TypeInv
<1>1. ASSUME NEW m \in Commands, Take(m) PROVE TypeInv'
  BY <1>1, RequestsOf DEF Take, CallerOnly, Types, Sorted, chainVars, exchVars, workerVars, resultVars
<1>2. CASE InvokeTest
  <2>1. todo # <<>> /\ At \in Chains
    BY <1>2, RequestFacts DEF InvokeTest, Types, Sorted, At
  <2> QED
    BY <1>2, <2>1 DEF InvokeTest, CallerOnly, Types, Sorted, chainVars, exchVars, workerVars, resultVars
<1>3. CASE InvokePlace
  <2>1. todo # <<>> /\ At \in Chains /\ Head(todo) \in AllRequests /\ Tail(todo) \in Seq(AllRequests)
        /\ Head(todo).chain = At
    BY <1>3, RequestFacts DEF InvokePlace, Types, Sorted, At
  <2>2. queue' \in [Chains -> Seq(AllRequests)]
    BY <1>3, <2>1 DEF InvokePlace, Types
  <2>3. Types'
    BY <1>3, <2>1, <2>2 DEF InvokePlace, CallerOnly, Types, chainVars, exchVars, workerVars, resultVars
  <2>4. ASSUME NEW c \in Chains, NEW k \in 1..Len(queue'[c]) PROVE queue'[c][k].chain = c
    BY <1>3, <2>1, <2>4 DEF InvokePlace, Types, Sorted
  <2>5. \A c \in Chains : queue[c] # <<>> => queue'[c] # <<>>
    <3>1. ASSUME NEW q \in Seq(AllRequests), NEW r \in AllRequests PROVE Append(q, r) # <<>>
      <4>1. Len(Append(q, r)) = Len(q) + 1 /\ Len(q) \in Nat /\ Len(<<>>) = 0
        OBVIOUS
      <4> QED
        BY <4>1
    <3>2. queue' = [queue EXCEPT ![At] = Append(@, Head(todo))] /\ queue \in [Chains -> Seq(AllRequests)]
      BY <1>3 DEF InvokePlace, Types
    <3> QED
      BY <2>1, <3>1, <3>2
  <2> QED
    BY <1>3, <2>1, <2>3, <2>4, <2>5 DEF InvokePlace, CallerOnly, Sorted, workerVars
<1>4. CASE InvokeSkip
  <2>1. <<>> \in Seq(AllRequests)
    OBVIOUS
  <2> QED
    BY <1>4, <2>1 DEF InvokeSkip, CallerOnly, Types, Sorted, chainVars, exchVars, workerVars, resultVars
<1> QED
  BY <1>1, <1>2, <1>3, <1>4 DEF Caller

(* A controller moves on: only its own fields change, the request in its hands is one
   of its own, and the next step is of the request's kind. *)
LEMMA TypeMoves ==
  ASSUME TypeInv, NEW c \in Chains, NEW to \in Steps,
         pc' = [pc EXCEPT ![c] = to], Types', UNCHANGED callerVars,
         \A d \in Chains \ {c} : req'[d] = req[d],
         to \in Handling => req'[c] \in AllRequests /\ req'[c].chain = c,
         to \in ExchangeSteps => req'[c].kind = "exchange",
         to \in InterruptSteps => req'[c].kind = "interrupt",
         to = "stats" => req'[c].kind = "stats",
         to = "pop" => queue'[c] # <<>>,
         \A d \in Chains \ {c} : queue'[d] = queue[d],
         queue'[c] = queue[c] \/ (queue[c] # <<>> /\ queue'[c] = Tail(queue[c]))
  PROVE  TypeInv'
<1>1. \A d \in Chains : pc'[d] = IF d = c THEN to ELSE pc[d]
  BY DEF TypeInv, Types
<1>2. ASSUME NEW d \in Chains, NEW k \in 1..Len(queue'[d]) PROVE queue'[d][k].chain = d
  <2>1. queue[d] \in Seq(AllRequests)
    BY DEF TypeInv, Types
  <2>2. CASE queue'[d] = queue[d]
    BY <1>2, <2>2 DEF TypeInv, Sorted
  <2>3. CASE d = c /\ queue[c] # <<>> /\ queue'[c] = Tail(queue[c])
    <3>1. k + 1 \in 1..Len(queue[d]) /\ queue'[d][k] = queue[d][k + 1]
      BY <1>2, <2>1, <2>3
    <3> QED
      BY <3>1 DEF TypeInv, Sorted
  <2> QED
    BY <2>2, <2>3
<1>3. Sorted'
  BY <1>1, <1>2 DEF TypeInv, Sorted, callerVars
<1> QED
  BY <1>3 DEF TypeInv

(* The loop of a controller keeps it. *)
LEMMA TypeLoop == ASSUME TypeInv, NEW c \in Chains, Loop(c) PROVE TypeInv'
<1> USE DEF Goto
<1>0. /\ queue[c] \in Seq(AllRequests)
      /\ queue[c] # <<>> => /\ Head(queue[c]) \in AllRequests /\ Head(queue[c]).chain = c
                            /\ Tail(queue[c]) \in Seq(AllRequests)
  <2>1. queue[c] \in Seq(AllRequests)
    BY DEF TypeInv, Types
  <2>2. queue[c] # <<>> => Head(queue[c]) = queue[c][1] /\ 1 \in 1..Len(queue[c])
    BY <2>1
  <2> QED
    BY <2>1, <2>2 DEF TypeInv, Sorted
<1>1. CASE Pop(c) \/ Skip(c)
  <2>1. PICK to \in {"start", "skip"} : pc' = [pc EXCEPT ![c] = to]
    BY <1>1 DEF Pop, Skip
  <2>2. /\ req' = [req EXCEPT ![c] = Head(queue[c])] /\ queue[c] # <<>>
        /\ queue' = [queue EXCEPT ![c] = Tail(@)]
        /\ UNCHANGED <<chainVars, locker, stopped, finished, exchVars, succeeded, late, callerVars,
                       resultVars>>
    BY <1>1 DEF Pop, Skip, Drained, Rest, TypeInv, Sorted
  <2>3. /\ req' \in [Chains -> AllRequests \cup {Nobody}]
        /\ queue' \in [Chains -> Seq(AllRequests)]
        /\ pc' \in [Chains -> Steps]
    BY <1>0, <2>1, <2>2 DEF TypeInv, Types, Steps, Handling
  <2>4. Types'
    BY <2>2, <2>3 DEF TypeInv, Types, chainVars, exchVars, callerVars, resultVars
  <2>5. /\ req'[c] = Head(queue[c]) /\ queue'[c] = Tail(queue[c])
        /\ \A d \in Chains \ {c} : req'[d] = req[d] /\ queue'[d] = queue[d]
    BY <2>2 DEF TypeInv, Types
  <2>6. to \in Steps /\ to \notin ExchangeSteps \cup InterruptSteps \cup {"stats"}
    BY DEF Steps, Handling, ExchangeSteps, InterruptSteps
  <2> QED
    BY <1>0, <2>1, <2>2, <2>4, <2>5, <2>6, TypeMoves
<1>2. CASE Leave(c)
  <2>1. Types'
    BY <1>2 DEF Leave, Local, TypeInv, Types, Steps, chainVars, fieldVars, exchVars, callerVars, resultVars
  <2> QED
    BY <1>2, <2>1, TypeMoves DEF Leave, Local, Steps, Handling, ExchangeSteps, InterruptSteps, fieldVars
<1>3. CASE DrainLock(c) \/ DrainEnd(c) \/ Finish(c)
  <2>1. PICK to \in {"drain", "report", "done"} : pc' = [pc EXCEPT ![c] = to]
    BY <1>3 DEF DrainLock, DrainEnd, Finish
  <2>2. /\ locker' \in [Chains -> Chains \cup {"caller", Nobody}]
        /\ stopped' \in [Chains -> BOOLEAN] /\ finished' \in [Chains -> BOOLEAN]
        /\ succeeded' \in [Chains -> BOOLEAN]
        /\ UNCHANGED <<chainVars, queue, exchVars, req, late, callerVars, resultVars>>
    <3>1. CASE DrainLock(c)
      <4>1. Success(c) \in BOOLEAN
        BY DEF Success, TypeInv, Types
      <4>2. succeeded' \in [Chains -> BOOLEAN]
        BY <3>1, <4>1 DEF DrainLock, TypeInv, Types
      <4> QED
        BY <3>1, <4>2 DEF DrainLock, TypeInv, Types
    <3>2. CASE DrainEnd(c)
      BY <3>2 DEF DrainEnd, TypeInv, Types
    <3>3. CASE Finish(c)
      BY <3>3 DEF Finish, TypeInv, Types
    <3> QED
      BY <1>3, <3>1, <3>2, <3>3
  <2>3. to \in Steps /\ to \notin Handling
    BY DEF Steps, Handling, Emptied, ExchangeSteps, InterruptSteps
  <2>4. Types'
    BY <2>1, <2>2, <2>3 DEF TypeInv, Types, chainVars, exchVars, callerVars, resultVars
  <2> QED
    BY <2>1, <2>2, <2>3, <2>4, TypeMoves DEF Handling
<1>4. CASE SkipAnswer(c)
  <2>1. answer' \in [Commands -> {"none", "yes", "no", "twice"}]
    BY <1>4, AnsweredTypes DEF SkipAnswer, Handling
  <2>2. Types'
    BY <1>4, <2>1 DEF SkipAnswer, Private, TypeInv, Types, Steps, chainVars, fieldVars, exchVars,
      callerVars
  <2> QED
    BY <1>4, <2>2, TypeMoves DEF SkipAnswer, Private, Steps, Handling, ExchangeSteps, InterruptSteps,
      fieldVars
<1>5. CASE Report(c)
  <2>1. Types'
    BY <1>5 DEF Report, Private, TypeInv, Types, Steps, Emptied, chainVars, fieldVars, exchVars, callerVars
  <2> QED
    BY <1>5, <2>1, TypeMoves DEF Report, Private, Steps, Handling, Emptied, ExchangeSteps, InterruptSteps,
      fieldVars
<1>6. CASE Enter(c) \/ Look(c)
  <2>1. PICK to \in {"look", "loop", "pop"} :
          pc' = [pc EXCEPT ![c] = to] /\ (to = "pop" => queue[c] # <<>>)
    BY <1>6 DEF Enter, Look
  <2>2. UNCHANGED <<chainVars, fieldVars, exchVars, req, succeeded, late, callerVars, resultVars>>
    BY <1>6 DEF Enter, Look, Local
  <2>3. to \in Steps /\ to \notin Handling
    BY DEF Steps, Handling, ExchangeSteps, InterruptSteps
  <2>4. Types'
    BY <2>1, <2>2, <2>3 DEF TypeInv, Types, chainVars, fieldVars, exchVars, callerVars, resultVars
  <2> QED
    BY <2>1, <2>2, <2>3, <2>4, TypeMoves DEF Handling, fieldVars
<1> QED
  BY <1>1, <1>2, <1>3, <1>4, <1>5, <1>6 DEF Loop

(* What a step of an exchange may change. *)
LEMMA ExchangeFrame ==
  ASSUME NEW c \in Chains, Exchange(c)
  PROVE  /\ \/ UNCHANGED stage
            \/ \E v \in {"WAITING", "TT_TAKEN", "TT_INJECTING", "FAILED"} :
                 stage' = [stage EXCEPT ![c] = v]
         /\ target' \in {target, [target EXCEPT ![c] = Peer(c)], [target EXCEPT ![c] = Nobody]}
         /\ seen' \in {seen, [seen EXCEPT ![c] = actual[Peer(c)]]}
         /\ UNCHANGED chainVars \/ (pc[c] = "x_inject" /\ Chain!InjectAsync(c, seen[c]))
<1> USE DEF Exchange, SetStage, SetTarget, Await, Test, ReadPeer, Inject, EndExchange, End, Private,
      Local, Goto, exchVars
<1>1. \/ UNCHANGED stage
      \/ \E v \in {"WAITING", "TT_TAKEN", "TT_INJECTING", "FAILED"} : stage' = [stage EXCEPT ![c] = v]
  OBVIOUS
<1>2. target' \in {target, [target EXCEPT ![c] = Peer(c)], [target EXCEPT ![c] = Nobody]}
  OBVIOUS
<1>3. seen' \in {seen, [seen EXCEPT ![c] = actual[Peer(c)]]}
  OBVIOUS
<1>4. UNCHANGED chainVars \/ (pc[c] = "x_inject" /\ Chain!InjectAsync(c, seen[c]))
  OBVIOUS
<1> QED
  BY <1>1, <1>2, <1>3, <1>4

(* What a chain does, and what is done to it, keeps its types. *)
LEMMA ChainTypes ==
  ASSUME Types, NEW c \in Chains,
         \/ Chain!WorkerStep(c) \/ Chain!InterruptAsync(c)
         \/ \E tt \in Values : Chain!InjectAsync(c, tt)
  PROVE  /\ status' \in [Chains -> {"WORKING", "INTERRUPTED", "FINISHED"}]
         /\ async_op' \in [Chains -> {"NONE", "INTERRUPT", "INJECT_TT"}]
         /\ injected' \in [Chains -> Values] /\ actual' \in [Chains -> Values]
         /\ leaving' \in [Chains -> BOOLEAN]
<1>1. CASE Chain!Fail(c) \/ Chain!Finish(c) \/ Chain!InterruptAsync(c)
  BY <1>1 DEF Chain!Fail, Chain!Finish, Chain!InterruptAsync, Types
<1>2. ASSUME NEW tt \in Values, Chain!Iterate(c, tt)
      PROVE  /\ status' \in [Chains -> {"WORKING", "INTERRUPTED", "FINISHED"}]
             /\ async_op' \in [Chains -> {"NONE", "INTERRUPT", "INJECT_TT"}]
             /\ injected' \in [Chains -> Values] /\ actual' \in [Chains -> Values]
             /\ leaving' \in [Chains -> BOOLEAN]
  <2>1. leaving' = leaving \/ leaving' = [leaving EXCEPT ![c] = TRUE]
    BY <1>2 DEF Chain!Iterate
  <2>2. status' \in [Chains -> {"WORKING", "INTERRUPTED", "FINISHED"}]
    BY <1>2 DEF Chain!Iterate, Types
  <2>3. \E v \in Values : actual' = [actual EXCEPT ![c] = v]
    BY <1>2 DEF Chain!Iterate, Types
  <2>4. async_op' = [async_op EXCEPT ![c] = "NONE"] /\ injected' = injected
    BY <1>2 DEF Chain!Iterate
  <2> QED
    BY <2>1, <2>2, <2>3, <2>4 DEF Types
<1>3. ASSUME NEW tt \in Values, Chain!InjectAsync(c, tt)
      PROVE  /\ status' = status /\ leaving' = leaving
             /\ async_op' \in [Chains -> {"NONE", "INTERRUPT", "INJECT_TT"}]
             /\ injected' \in [Chains -> Values] /\ actual' \in [Chains -> Values]
  <2>1. CASE Chain!Stopped(c)
    BY <1>3, <2>1 DEF Chain!InjectAsync, Types
  <2>2. CASE ~Chain!Stopped(c)
    <3>1. /\ async_op' = [async_op EXCEPT ![c] = "INJECT_TT"]
          /\ injected' = [injected EXCEPT ![c] = tt] /\ UNCHANGED <<status, actual, leaving>>
      BY <1>3, <2>2 DEF Chain!InjectAsync
    <3>2. async_op' \in [Chains -> {"NONE", "INTERRUPT", "INJECT_TT"}]
      BY <3>1 DEF Types
    <3>3. injected' \in [Chains -> Values]
      BY <1>3, <3>1 DEF Types
    <3> QED
      BY <3>1, <3>2, <3>3 DEF Types
  <2> QED
    BY <1>3, <2>1, <2>2 DEF Chain!InjectAsync
<1> QED
  BY <1>1, <1>2, <1>3 DEF Chain!WorkerStep, Values, Types

(* The handling of requests keeps it: every step leads to one of the same kind, or
   back to the loop. *)
LEMMA TypeHandle == ASSUME TypeInv, NEW c \in Chains, Handle(c) PROVE TypeInv'
<1> USE DEF Goto
<1>1. CASE Start(c)
  <2>1. req[c] \in AllRequests /\ req[c].chain = c /\ req[c].kind \in {"exchange", "interrupt", "stats"}
    BY <1>1, RequestFacts DEF Start, TypeInv, Sorted, Handling
  <2>2. PICK to \in {"loop", FirstStep[req[c].kind]} : pc' = [pc EXCEPT ![c] = to]
    BY <1>1 DEF Start
  <2>3. to = "loop" \/ (to = "x_stage" /\ req[c].kind = "exchange")
        \/ (to = "i_ready" /\ req[c].kind = "interrupt") \/ (to = "stats" /\ req[c].kind = "stats")
    BY <2>1, <2>2 DEF FirstStep
  <2>4. answer' \in [Commands -> {"none", "yes", "no", "twice"}]
    BY <1>1, AnsweredTypes DEF Start, Handling, TypeInv, Types
  <2>5. Types'
    BY <1>1, <2>2, <2>3, <2>4 DEF Start, Private, TypeInv, Types, Steps, Handling, ExchangeSteps,
      InterruptSteps, chainVars, fieldVars, exchVars, callerVars
  <2> QED
    BY <1>1, <2>1, <2>2, <2>3, <2>5, TypeMoves DEF Start, Private, Steps, Handling, ExchangeSteps,
      InterruptSteps, fieldVars, exchVars
<1>2. CASE Exchange(c)
  <2>1. PICK to \in ExchangeSteps \cup {"loop"} : pc' = [pc EXCEPT ![c] = to]
    BY <1>2 DEF Exchange, SetStage, SetTarget, Await, Test, ReadPeer, Inject, EndExchange, End, ExchangeSteps
  <2>2. pc[c] \in ExchangeSteps
    BY <1>2 DEF Exchange, SetStage, SetTarget, Await, Test, ReadPeer, Inject, EndExchange, End, ExchangeSteps
  <2>3. req[c] \in AllRequests /\ req[c].chain = c /\ req[c].peer \in Chains /\ req[c].kind = "exchange"
    BY <2>2, RequestFacts DEF TypeInv, Sorted, Handling
  <2>4. UNCHANGED <<fieldVars, req, succeeded, callerVars, outcome>>
    BY <1>2 DEF Exchange, SetStage, SetTarget, Await, Test, ReadPeer, Inject, EndExchange, End, Private,
      Local, fieldVars, callerVars, resultVars
  <2>5. answer' \in [Commands -> {"none", "yes", "no", "twice"}]
    <3>1. answer' \in {answer, Answered(c, "yes"), Answered(c, "no")}
      BY <1>2 DEF Exchange, SetStage, SetTarget, Await, Test, ReadPeer, Inject, EndExchange, End, Private,
        Local, resultVars
    <3> QED
      BY <2>2, <3>1, AnsweredTypes DEF Handling, TypeInv, Types
  <2>6. /\ stage' \in [Chains -> {"WAITING", "TT_TAKEN", "TT_INJECTING", "FAILED"}]
        /\ target' \in [Chains -> Chains \cup {Nobody}]
        /\ seen' \in [Chains -> Values]
    <3>1. stage' \in [Chains -> {"WAITING", "TT_TAKEN", "TT_INJECTING", "FAILED"}]
      <4>1. CASE UNCHANGED stage
        BY <4>1 DEF TypeInv, Types
      <4>2. ASSUME NEW v \in {"WAITING", "TT_TAKEN", "TT_INJECTING", "FAILED"},
                   stage' = [stage EXCEPT ![c] = v]
            PROVE  stage' \in [Chains -> {"WAITING", "TT_TAKEN", "TT_INJECTING", "FAILED"}]
        BY <4>2 DEF TypeInv, Types
      <4> QED
        BY <1>2, <4>1, <4>2, ExchangeFrame
    <3>2. target' \in [Chains -> Chains \cup {Nobody}]
      <4>1. target \in [Chains -> Chains \cup {Nobody}] /\ Peer(c) \in Chains \cup {Nobody}
        BY <2>3 DEF Peer, TypeInv, Types
      <4> QED
        BY <1>2, <4>1, ExchangeFrame
    <3>3. seen' \in [Chains -> Values]
      <4>1. seen \in [Chains -> Values] /\ actual[Peer(c)] \in Values
        BY <2>3 DEF Peer, TypeInv, Types
      <4> QED
        BY <1>2, <4>1, ExchangeFrame
    <3> QED
      BY <3>1, <3>2, <3>3
  <2>7. /\ async_op' \in [Chains -> {"NONE", "INTERRUPT", "INJECT_TT"}]
        /\ injected' \in [Chains -> Values] /\ actual' \in [Chains -> Values]
        /\ status' \in [Chains -> {"WORKING", "INTERRUPTED", "FINISHED"}]
        /\ leaving' \in [Chains -> BOOLEAN]
    <3>1. Types /\ seen[c] \in Values
      BY DEF TypeInv, Types
    <3>2. CASE UNCHANGED chainVars
      BY <3>1, <3>2 DEF chainVars, Types
    <3>3. CASE Chain!InjectAsync(c, seen[c])
      BY <3>1, <3>3, ChainTypes
    <3> QED
      BY <1>2, <3>2, <3>3, ExchangeFrame
  <2>8. Types'
    BY <2>1, <2>4, <2>5, <2>6, <2>7 DEF TypeInv, Types, Steps, Handling, fieldVars, callerVars
  <2>9. to \in Steps /\ to \notin InterruptSteps /\ to \notin {"stats", "pop"}
    BY <2>1 DEF Steps, Handling, ExchangeSteps, InterruptSteps
  <2> QED
    BY <2>1, <2>3, <2>4, <2>8, <2>9, TypeMoves DEF fieldVars
<1>3. CASE Interrupt(c)
  <2>1. PICK to \in InterruptSteps \cup {"loop"} : pc' = [pc EXCEPT ![c] = to]
    BY <1>3 DEF Interrupt, Await, Test, InterruptChain, EndLocal, End, HardInterrupt, InterruptSteps
  <2>2. pc[c] \in InterruptSteps
    BY <1>3 DEF Interrupt, Await, Test, InterruptChain, EndLocal, End, HardInterrupt, InterruptSteps
  <2>3. req[c] \in AllRequests /\ req[c].chain = c /\ req[c].kind = "interrupt"
    BY <2>2 DEF TypeInv, Sorted, Handling
  <2>4. UNCHANGED <<locker, finished, queue, exchVars, req, succeeded, callerVars, outcome>>
    BY <1>3 DEF Interrupt, Await, Test, InterruptChain, EndLocal, End, HardInterrupt, Private,
      Local, fieldVars, exchVars, callerVars, resultVars
  <2>5. answer' \in [Commands -> {"none", "yes", "no", "twice"}]
    <3>1. answer' \in {answer, Answered(c, "yes"), Answered(c, "no")}
      BY <1>3 DEF Interrupt, Await, Test, InterruptChain, EndLocal, End, HardInterrupt, Local, resultVars
    <3> QED
      BY <2>2, <3>1, AnsweredTypes DEF Handling, TypeInv, Types
  <2>6. /\ async_op' \in [Chains -> {"NONE", "INTERRUPT", "INJECT_TT"}]
        /\ stopped' \in [Chains -> BOOLEAN]
        /\ UNCHANGED <<status, injected, actual, leaving>>
    BY <1>3 DEF Interrupt, Await, Test, InterruptChain, EndLocal, End, HardInterrupt, Local, chainVars,
      fieldVars, Chain!InterruptAsync, TypeInv, Types
  <2>7. Types'
    BY <2>1, <2>4, <2>5, <2>6 DEF TypeInv, Types, Steps, Handling, exchVars, callerVars
  <2>8. to \in Steps /\ to \notin ExchangeSteps /\ to \notin {"stats", "pop"}
    BY <2>1 DEF Steps, Handling, ExchangeSteps, InterruptSteps
  <2> QED
    BY <2>1, <2>3, <2>4, <2>7, <2>8, TypeMoves
<1>4. CASE Stats(c)
  <2>1. answer' \in [Commands -> {"none", "yes", "no", "twice"}]
    BY <1>4, AnsweredTypes DEF Stats, EndLocal, End, Handling
  <2>2. Types'
    BY <1>4, <2>1 DEF Stats, EndLocal, End, TypeInv, Types, Steps, chainVars, fieldVars, exchVars, callerVars
  <2> QED
    BY <1>4, <2>2, TypeMoves DEF Stats, EndLocal, End, Steps, Handling, ExchangeSteps, InterruptSteps,
      fieldVars
<1> QED
  BY <1>1, <1>2, <1>3, <1>4 DEF Handle

(* A timeout that passes and a chain that works keep it. *)
LEMMA TypeOther == ASSUME TypeInv, NEW c \in Chains, TimeOut(c) \/ ChainWorks(c) PROVE TypeInv'
<1>1. UNCHANGED <<fieldVars, exchVars, pc, req, succeeded, callerVars, resultVars>>
  BY DEF TimeOut, ChainWorks, workerVars
<1>2. /\ status' \in [Chains -> {"WORKING", "INTERRUPTED", "FINISHED"}]
      /\ async_op' \in [Chains -> {"NONE", "INTERRUPT", "INJECT_TT"}]
      /\ injected' \in [Chains -> Values] /\ actual' \in [Chains -> Values]
      /\ leaving' \in [Chains -> BOOLEAN]
  <2>1. Types
    BY DEF TypeInv
  <2>2. CASE TimeOut(c)
    BY <2>1, <2>2 DEF TimeOut, chainVars, Types
  <2>3. CASE ChainWorks(c)
    BY <2>1, <2>3, ChainTypes DEF ChainWorks
  <2> QED
    BY <2>2, <2>3
<1>3. Types'
  BY <1>1, <1>2 DEF TypeInv, Types, fieldVars, exchVars, callerVars, resultVars
<1> QED
  BY <1>1, <1>3 DEF TypeInv, Sorted, fieldVars, callerVars

LEMMA TypeInvariant == Spec => []TypeInv
<1>1. ASSUME TypeInv, [Next]_vars PROVE TypeInv'
  <2>1. CASE UNCHANGED vars
    BY <1>1, <2>1 DEF vars, chainVars, fieldVars, exchVars, workerVars, callerVars, resultVars, TypeInv,
      Types, Sorted
  <2> QED
    BY <1>1, <2>1, TypeCaller, TypeLoop, TypeHandle, TypeOther DEF Next
<1> QED
  BY <1>1, TypeInit, PTL DEF Spec

-----------------------------------------------------------------------------
(* What the handling of a request leaves alone, and where it leads. *)
Leads == ExchangeSteps \cup InterruptSteps \cup {"stats", "loop"}

LEMMA HandleFrame ==
  ASSUME TypeInv, NEW c \in Chains, Handle(c)
  PROVE  /\ UNCHANGED <<locker, finished, queue, req, succeeded, callerVars, outcome>>
         /\ stopped' \in {stopped, [stopped EXCEPT ![c] = TRUE]}
         /\ pc[c] \in Handling \ {"skip"}
         /\ \E to \in Leads : pc' = [pc EXCEPT ![c] = to]
         /\ answer' \in {answer, Answered(c, "yes"), Answered(c, "no")}
<1> USE DEF Goto, Await, Test, End, Local, Private, fieldVars, callerVars, resultVars
<1>1. CASE Start(c)
  <2>1. req[c].kind \in {"exchange", "interrupt", "stats"}
    BY <1>1, RequestFacts DEF Start, TypeInv, Sorted, Handling
  <2>2. FirstStep[req[c].kind] \in {"x_stage", "i_ready", "stats"}
    BY <2>1 DEF FirstStep
  <2> QED
    BY <1>1, <2>2 DEF Start, Leads, ExchangeSteps, InterruptSteps, Handling
<1>2. CASE Exchange(c)
  BY <1>2 DEF Exchange, SetStage, SetTarget, ReadPeer, Inject, EndExchange, Leads, Handling, ExchangeSteps
<1>3. CASE Interrupt(c)
  BY <1>3 DEF Interrupt, InterruptChain, EndLocal, HardInterrupt, Leads, Handling, InterruptSteps
<1>4. CASE Stats(c)
  BY <1>4 DEF Stats, EndLocal, Leads, Handling
<1> QED
  BY <1>1, <1>2, <1>3, <1>4 DEF Handle

(* The second layer: the spin lock. *)
LEMMA LockedInductive == ASSUME TypeInv, Locked, [Next]_vars PROVE Locked'
<1> USE DEF Goto
<1>0. /\ "caller" \notin Chains /\ locker \in [Chains -> Chains \cup {"caller", Nobody}]
      /\ pc \in [Chains -> Steps] /\ stopped \in [Chains -> BOOLEAN]
      /\ outcome \in [Chains -> {"none", "yes", "no", "null"}]
      /\ queue \in [Chains -> Seq(AllRequests)]
      /\ callerAt # "idle" => At \in Chains
      /\ "caller" # Nobody
  BY RequestFacts, ControllerAssumption DEF TypeInv, Types, Sorted, At
<1>1. CASE \E m \in Commands : Take(m)
  BY <1>1 DEF Take, CallerOnly, Locked, Emptied, workerVars, resultVars
<1>2. CASE InvokeTest
  BY <1>0, <1>2, ControllerAssumption DEF InvokeTest, Open, CallerOnly, Locked, Emptied, At,
    workerVars, resultVars
<1>3. CASE InvokePlace
  BY <1>0, <1>3 DEF InvokePlace, CallerOnly, Locked, Emptied, workerVars, resultVars
<1>4. CASE InvokeSkip
  BY <1>0, <1>4 DEF InvokeSkip, CallerOnly, Locked, Emptied, workerVars, resultVars
<1>5. ASSUME NEW c \in Chains, Loop(c) PROVE Locked'
  <2>1. CASE Pop(c)
    BY <1>0, <2>1 DEF Pop, Locked, Emptied, At, callerVars, resultVars
  <2>2. CASE Leave(c)
    BY <1>0, <2>2 DEF Leave, Local, Locked, Emptied, At, fieldVars, callerVars, resultVars
  <2>3. CASE DrainLock(c)
    BY <1>0, <2>3, ControllerAssumption DEF DrainLock, Locked, Emptied, At, callerVars, resultVars
  <2>4. CASE Skip(c)
    BY <1>0, <2>4 DEF Skip, Locked, Emptied, At, callerVars, resultVars
  <2>5. CASE SkipAnswer(c)
    BY <1>0, <2>5 DEF SkipAnswer, Private, Locked, Emptied, At, fieldVars, callerVars
  <2>6. CASE DrainEnd(c)
    BY <1>0, <2>6 DEF DrainEnd, Drained, Locked, Emptied, At, callerVars, resultVars
  <2>7. CASE Report(c)
    BY <1>0, <2>7 DEF Report, Private, Locked, Emptied, At, fieldVars, callerVars
  <2>8. CASE Finish(c)
    BY <1>0, <2>8 DEF Finish, Locked, Emptied, At, callerVars, resultVars
  <2>9. CASE Enter(c) \/ Look(c)
    BY <1>0, <2>9 DEF Enter, Look, Local, Locked, Emptied, At, fieldVars, callerVars, resultVars
  <2> QED
    BY <1>5, <2>1, <2>2, <2>3, <2>4, <2>5, <2>6, <2>7, <2>8, <2>9 DEF Loop
<1>6. ASSUME NEW c \in Chains, Handle(c) PROVE Locked'
  <2>1. PICK to \in Leads : pc' = [pc EXCEPT ![c] = to]
    BY <1>6, HandleFrame
  <2>2. /\ UNCHANGED <<locker, queue, callerVars, outcome>>
        /\ stopped' \in {stopped, [stopped EXCEPT ![c] = TRUE]}
    BY <1>6, HandleFrame
  <2>3. pc[c] \notin Emptied /\ to \notin Emptied \cup {"drain", "skip"}
    BY <1>6, HandleFrame DEF Leads, Emptied, Handling, ExchangeSteps, InterruptSteps
  <2> QED
    BY <1>0, <2>1, <2>2, <2>3 DEF Locked, At, callerVars, Emptied
<1>7. ASSUME NEW c \in Chains, TimeOut(c) \/ ChainWorks(c) PROVE Locked'
  BY <1>7 DEF TimeOut, ChainWorks, Locked, At, fieldVars, workerVars, callerVars, resultVars
<1>8. CASE UNCHANGED vars
  BY <1>8 DEF vars, Locked, At, fieldVars, workerVars, callerVars, resultVars
<1> QED
  BY <1>1, <1>2, <1>3, <1>4, <1>5, <1>6, <1>7, <1>8 DEF Next, Caller

(* When a controller reports, no request is left in its queue or on its way there:
   invoke() tests stopped_ and worker_loop() sets it under the same lock. *)
THEOREM ControllerDrained == Spec => []ReportedIsDrained
<1>1. Init => Locked
  BY DEF Init, Locked, Emptied
<1>2. TypeInv /\ Locked => ReportedIsDrained
  BY DEF Locked, ReportedIsDrained, Emptied
<1> QED
  BY <1>1, <1>2, TypeInvariant, LockedInductive, PTL DEF Spec

-----------------------------------------------------------------------------
(* The third layer: what a chain is asked, and what it has. *)
ChainKeeps(c) ==
  /\ \A d \in Chains \ {c} : /\ status'[d] = status[d] /\ async_op'[d] = async_op[d]
                             /\ injected'[d] = injected[d] /\ actual'[d] = actual[d]
                             /\ leaving'[d] = leaving[d]
  /\ async_op'[c] = "INJECT_TT" => injected'[c] # NoTT
  /\ leaving'[c] \/ status'[c] = "FINISHED" => actual'[c] # NoTT
  /\ actual[c] # NoTT => actual'[c] # NoTT
  /\ status[c] # "WORKING" => status'[c] = status[c]

(* What it does, and what is done to it, never takes away a timetable. *)
LEMMA ChainResults ==
  ASSUME Types, NEW c \in Chains,
         async_op[c] = "INJECT_TT" => injected[c] # NoTT,
         leaving[c] \/ status[c] = "FINISHED" => actual[c] # NoTT,
         \/ Chain!WorkerStep(c) \/ Chain!InterruptAsync(c)
         \/ seen[c] # NoTT /\ Chain!InjectAsync(c, seen[c])
  PROVE  /\ ChainKeeps(c)
         /\ Chain!WorkerStep(c) => async_op'[c] \in {async_op[c], "NONE"}
<1> USE DEF Types
<1>1. CASE Chain!Fail(c) \/ Chain!Finish(c)
  BY <1>1 DEF Chain!Fail, Chain!Finish, Chain!Stopped, ChainKeeps
<1>2. CASE Chain!InterruptAsync(c)
  <2>1. ~Chain!WorkerStep(c) \/ async_op'[c] = "NONE" \/ async_op'[c] = async_op[c]
    BY DEF Chain!WorkerStep, Chain!Fail, Chain!Finish, Chain!Iterate
  <2> QED
    BY <1>2, <2>1 DEF Chain!InterruptAsync, Chain!Stopped, ChainKeeps
<1>3. ASSUME NEW tt \in Values, Chain!Iterate(c, tt)
      PROVE  ChainKeeps(c) /\ async_op'[c] = "NONE"
  <2>1. /\ status' = [status EXCEPT ![c] = IF async_op[c] = "INTERRUPT" THEN "INTERRUPTED" ELSE @]
        /\ async_op' = [async_op EXCEPT ![c] = "NONE"] /\ injected' = injected
        /\ leaving' = leaving \/ (tt # NoTT /\ leaving' = [leaving EXCEPT ![c] = TRUE])
        /\ actual' = [actual EXCEPT ![c] = IF async_op[c] = "INJECT_TT" THEN injected[c]
                                           ELSE IF tt = NoTT THEN actual[c] ELSE tt]
        /\ status[c] = "WORKING" /\ ~leaving[c]
    BY <1>3 DEF Chain!Iterate, Chain!Stopped
  <2>2. /\ async_op'[c] = "NONE"
        /\ status'[c] # "FINISHED"
        /\ actual[c] # NoTT => actual'[c] # NoTT
        /\ leaving'[c] => tt # NoTT
        /\ tt # NoTT => actual'[c] # NoTT
    BY <2>1
  <2>3. \A d \in Chains \ {c} : /\ status'[d] = status[d] /\ async_op'[d] = async_op[d]
                                /\ injected'[d] = injected[d] /\ actual'[d] = actual[d]
                                /\ leaving'[d] = leaving[d]
    BY <2>1
  <2> QED
    BY <2>1, <2>2, <2>3 DEF ChainKeeps
<1>4. CASE seen[c] # NoTT /\ Chain!InjectAsync(c, seen[c])
  <2>1. ~Chain!WorkerStep(c) \/ async_op'[c] = "NONE" \/ async_op'[c] = async_op[c]
    BY DEF Chain!WorkerStep, Chain!Fail, Chain!Finish, Chain!Iterate
  <2>2. CASE status[c] # "WORKING"
    BY <1>4, <2>1, <2>2 DEF Chain!InjectAsync, Chain!Stopped, ChainKeeps
  <2>3. CASE status[c] = "WORKING"
    BY <1>4, <2>1, <2>3 DEF Chain!InjectAsync, Chain!Stopped, ChainKeeps
  <2> QED
    BY <2>2, <2>3
<1> QED
  BY <1>1, <1>2, <1>3, <1>4 DEF Chain!WorkerStep, Values

(* The other controllers do not notice: a peer that had a timetable has one. *)
LEMMA ResultsElsewhere ==
  ASSUME TypeInv, Results, NEW c \in Chains, UNCHANGED chainVars \/ ChainKeeps(c),
         \A d \in Chains \ {c} : /\ pc'[d] = pc[d] /\ req'[d] = req[d] /\ seen'[d] = seen[d]
                                 /\ succeeded'[d] = succeeded[d] /\ outcome'[d] = outcome[d],
         Resulted(c)'
  PROVE  Results'
<1> SUFFICES ASSUME NEW d \in Chains, d # c PROVE Resulted(d)'
  BY DEF Results
<1>1. pc'[d] \in AfterTake => actual'[Peer(d)'] # NoTT
  <2>1. ASSUME pc[d] \in AfterTake PROVE Peer(d) \in Chains /\ actual[Peer(d)] # NoTT
    <3>1. pc[d] \in Handling
      BY <2>1 DEF AfterTake, Handling, ExchangeSteps
    <3>2. req[d] \in AllRequests
      BY <3>1 DEF TypeInv, Sorted
    <3> QED
      BY <2>1, <3>2, RequestFacts DEF Peer, Results, Resulted
  <2>2. Peer(d)' = Peer(d)
    BY DEF Peer
  <2> QED
    BY <2>1, <2>2 DEF chainVars, ChainKeeps
<1>2. /\ status'[d] = status[d] /\ async_op'[d] = async_op[d] /\ injected'[d] = injected[d]
      /\ actual'[d] = actual[d] /\ leaving'[d] = leaving[d]
  BY DEF chainVars, ChainKeeps
<1> QED
  BY <1>1, <1>2 DEF Results, Resulted

(* The loop: what DrainLock saw of the status stays true, and Report finds a timetable. *)
LEMMA ResultsLoop == ASSUME TypeInv, Results, NEW c \in Chains, Loop(c) PROVE Results'
<1> USE DEF Goto, Private, Local, exchVars, resultVars
<1>1. UNCHANGED chainVars
  BY DEF Loop, Enter, Look, Pop, Leave, DrainLock, Skip, SkipAnswer, DrainEnd, Report, Finish
<1>2. UNCHANGED seen
  BY DEF Loop, Enter, Look, Pop, Leave, DrainLock, Skip, SkipAnswer, DrainEnd, Report, Finish
<1>3. \A d \in Chains \ {c} : /\ pc'[d] = pc[d] /\ req'[d] = req[d]
                              /\ succeeded'[d] = succeeded[d] /\ outcome'[d] = outcome[d]
  <2>1. \E to \in Steps : pc' = [pc EXCEPT ![c] = to]
    BY DEF Loop, Enter, Look, Pop, Leave, DrainLock, Skip, SkipAnswer, DrainEnd, Report, Finish, Steps,
      Handling, Emptied
  <2>2. req' = req \/ req' = [req EXCEPT ![c] = Head(queue[c])]
    BY DEF Loop, Enter, Look, Pop, Leave, DrainLock, Skip, SkipAnswer, DrainEnd, Report, Finish
  <2>3. succeeded' = succeeded \/ succeeded' = [succeeded EXCEPT ![c] = Success(c)]
    BY DEF Loop, Enter, Look, Pop, Leave, DrainLock, Skip, SkipAnswer, DrainEnd, Report, Finish
  <2>4. outcome' = outcome \/ \E v \in {"no", "yes", "null"} : outcome' = [outcome EXCEPT ![c] = v]
    BY DEF Loop, Enter, Look, Pop, Leave, DrainLock, Skip, SkipAnswer, DrainEnd, Report, Finish
  <2> QED
    BY <2>1, <2>2, <2>3, <2>4 DEF TypeInv, Types
<1>4. /\ pc \in [Chains -> Steps] /\ succeeded \in [Chains -> BOOLEAN]
      /\ outcome \in [Chains -> {"none", "yes", "no", "null"}]
  BY DEF TypeInv, Types
<1>5. pc'[c] \in {"loop", "look", "pop", "start", "drain_lock", "drain", "skip"} \cup Emptied
  BY <1>4 DEF Loop, Enter, Look, Pop, Leave, DrainLock, Skip, SkipAnswer, DrainEnd, Report, Finish, Emptied
<1>6. pc'[c] \notin ReadySteps \cup AfterTake \cup {"x_inject"}
  BY <1>5 DEF ReadySteps, AfterTake, Emptied
<1>7. Resulted(c)
  BY DEF Results
<1>8. succeeded'[c] => status'[c] = "FINISHED" /\ pc'[c] \in {"drain", "skip"} \cup Emptied
  <2>1. CASE DrainLock(c)
    BY <1>1, <1>4, <2>1 DEF DrainLock, Success, chainVars
  <2>2. CASE ~DrainLock(c)
    <3>1. succeeded'[c] = succeeded[c]
      BY <2>2 DEF Loop, Enter, Look, Pop, Leave, Skip, SkipAnswer, DrainEnd, Report, Finish
    <3>2. pc[c] \notin {"loop", "look", "pop", "drain_lock"} => pc'[c] \in {"drain", "skip"} \cup Emptied
      BY <1>4, <2>2 DEF Loop, Enter, Look, Pop, Leave, Skip, SkipAnswer, DrainEnd, Report, Finish, Emptied
    <3> QED
      BY <1>1, <1>7, <3>1, <3>2 DEF Resulted, Emptied, chainVars
  <2> QED
    BY <2>1, <2>2
<1>9. /\ outcome'[c] # "none" => pc'[c] \in {"finish", "done"}
      /\ outcome'[c] \in {"yes", "null"} => succeeded'[c]
      /\ outcome'[c] # "null"
  <2>1. CASE Report(c)
    BY <1>4, <1>7, <2>1 DEF Report, Resulted
  <2>2. CASE Finish(c)
    BY <1>4, <1>7, <2>2 DEF Finish, Resulted
  <2>3. CASE ~Report(c) /\ ~Finish(c)
    <3>1. pc[c] \notin {"finish", "done"} /\ outcome'[c] = outcome[c]
      BY <2>3 DEF Loop, Enter, Look, Pop, Leave, DrainLock, Skip, SkipAnswer, DrainEnd
    <3> QED
      BY <1>4, <1>7, <3>1 DEF Resulted
  <2> QED
    BY <2>1, <2>2, <2>3
<1>10. Resulted(c)'
  BY <1>1, <1>6, <1>7, <1>8, <1>9 DEF Resulted, chainVars
<1> QED
  BY <1>1, <1>2, <1>3, <1>10, ResultsElsewhere

(* The handling: an operation is asked only after the chain was seen ready, and by
   nobody else; what is injected was read from a peer that has a timetable. *)
LEMMA ResultsHandle == ASSUME TypeInv, Results, NEW c \in Chains, Handle(c) PROVE Results'
<1> USE DEF Goto
<1>0. /\ UNCHANGED <<req, succeeded, outcome>> /\ Types /\ Resulted(c)
      /\ ~succeeded[c]
      /\ outcome[c] \notin {"yes", "null"} /\ outcome[c] = "none"
      /\ pc \in [Chains -> Steps] /\ seen \in [Chains -> Values]
      /\ outcome \in [Chains -> {"none", "yes", "no", "null"}]
  <2>1. pc[c] \notin {"drain", "skip"} \cup Emptied
    BY HandleFrame DEF Handling, ExchangeSteps, InterruptSteps, Emptied
  <2> QED
    BY <2>1, HandleFrame DEF Results, Resulted, TypeInv, Types, Emptied
<1>1. PICK to \in Leads : pc' = [pc EXCEPT ![c] = to]
  BY HandleFrame
<1>2. pc'[c] = to /\ \A d \in Chains \ {c} : pc'[d] = pc[d]
  BY <1>0, <1>1
<1>3. seen' \in {seen, [seen EXCEPT ![c] = actual[Peer(c)]]}
  BY ExchangeFrame DEF Handle, Start, Private, Interrupt, InterruptChain, Await, Test, Local, EndLocal, Stats,
    HardInterrupt, exchVars
<1>4. \A d \in Chains \ {c} : seen'[d] = seen[d]
  BY <1>0, <1>3
<1>5. ASSUME UNCHANGED chainVars \/ ChainKeeps(c),
             to \in ReadySteps => async_op'[c] = "NONE",
             to \in AfterTake => actual'[Peer(c)] # NoTT,
             to = "x_inject" => seen'[c] # NoTT
      PROVE  Results'
  <2>1. Resulted(c)'
    <3>1. /\ async_op'[c] = "INJECT_TT" => injected'[c] # NoTT
          /\ leaving'[c] \/ status'[c] = "FINISHED" => actual'[c] # NoTT
      BY <1>0, <1>5 DEF Resulted, chainVars, ChainKeeps
    <3>2. Peer(c)' = Peer(c)
      BY <1>0 DEF Peer
    <3> QED
      BY <1>0, <1>2, <1>5, <3>1, <3>2 DEF Resulted
  <2> QED
    BY <1>0, <1>2, <1>4, <1>5, <2>1, ResultsElsewhere
<1>6. CASE Start(c) \/ Stats(c)
  <2>1. UNCHANGED chainVars
    BY <1>6 DEF Start, Stats, Private, EndLocal
  <2>2. to \in {"loop", "x_stage", "i_ready", "stats"}
    <3>1. CASE Start(c)
      <4>1. req[c].kind \in {"exchange", "interrupt", "stats"}
        BY <3>1, RequestFacts DEF Start, TypeInv, Sorted, Handling
      <4> QED
        BY <1>0, <1>2, <3>1, <4>1 DEF Start, FirstStep
    <3>2. CASE Stats(c)
      BY <1>0, <1>2, <3>2 DEF Stats, EndLocal, End
    <3> QED
      BY <1>6, <3>1, <3>2
  <2> QED
    BY <1>5, <2>1, <2>2 DEF ReadySteps, AfterTake
<1>7. CASE Interrupt(c)
  <2>1. CASE InterruptChain(c)
    <3>1. UNCHANGED chainVars \/ Chain!InterruptAsync(c)
      BY <2>1 DEF InterruptChain
    <3>2. UNCHANGED chainVars \/ ChainKeeps(c)
      BY <1>0, <3>1, ChainResults DEF Resulted
    <3>3. to = "i_stop"
      BY <1>0, <1>2, <2>1 DEF InterruptChain
    <3> QED
      BY <1>5, <3>2, <3>3 DEF ReadySteps, AfterTake
  <2>2. CASE ~InterruptChain(c)
    <3>1. UNCHANGED chainVars
      BY <1>7, <2>2 DEF Interrupt, Await, Test, Local, EndLocal, HardInterrupt
    <3>2. to \in InterruptSteps \cup {"loop"} /\ (to = "i_call" => Ready(c))
      BY <1>0, <1>2, <1>7, <2>2 DEF Interrupt, Await, Test, EndLocal, End, HardInterrupt, CanInterrupt,
        InterruptSteps
    <3> QED
      BY <1>5, <3>1, <3>2 DEF ReadySteps, AfterTake, InterruptSteps, Ready, chainVars
  <2> QED
    BY <2>1, <2>2
<1>8. CASE Exchange(c)
  <2>1. CASE Inject(c)
    <3>1. ChainKeeps(c)
      BY <1>0, <2>1, ChainResults DEF Inject, Resulted
    <3>2. to = "x_end"
      BY <1>0, <1>2, <2>1 DEF Inject
    <3> QED
      BY <1>5, <3>1, <3>2 DEF ReadySteps, AfterTake
  <2>2. CASE ~Inject(c)
    <3>1. UNCHANGED chainVars
      BY <1>8, <2>2 DEF Exchange, SetStage, SetTarget, Await, Test, ReadPeer, EndExchange, Private, Local
    <3>2. to \in ReadySteps => async_op[c] = "NONE"
      <4>1. to \in ReadySteps => pc[c] \in ReadySteps \/ Ready(c)
        BY <1>0, <1>2, <1>8, <2>2 DEF Exchange, SetStage, SetTarget, Await, Test, ReadPeer, EndExchange, End,
          ReadySteps
      <4> QED
        BY <1>0, <4>1 DEF Resulted, Ready
    <3>3. to \in AfterTake => actual[Peer(c)] # NoTT
      <4>1. to \in AfterTake => pc[c] \in AfterTake \/ (pc[c] = "x_take" /\ HasTimetable(seen'[c]))
        BY <1>0, <1>2, <1>8, <2>2 DEF Exchange, SetStage, SetTarget, Await, Test, ReadPeer, EndExchange, End,
          AfterTake
      <4>2. pc[c] = "x_take" => seen'[c] = actual[Peer(c)]
        BY <1>0, <1>8, <2>2 DEF Exchange, SetStage, SetTarget, Await, Test, ReadPeer, EndExchange, End
      <4> QED
        BY <1>0, <4>1, <4>2 DEF Resulted, HasTimetable
    <3>4. to = "x_inject" => seen'[c] # NoTT
      <4>1. to = "x_inject" => pc[c] = "x_read" /\ seen'[c] = actual[Peer(c)]
        BY <1>0, <1>2, <1>8, <2>2 DEF Exchange, SetStage, SetTarget, Await, Test, ReadPeer, EndExchange, End
      <4> QED
        BY <1>0, <4>1 DEF Resulted, AfterTake
    <3>5. async_op' = async_op /\ actual' = actual
      BY <3>1 DEF chainVars
    <3> QED
      BY <1>5, <3>1, <3>2, <3>3, <3>4, <3>5
  <2> QED
    BY <2>1, <2>2
<1> QED
  BY <1>6, <1>7, <1>8 DEF Handle

LEMMA ResultsInductive == ASSUME TypeInv, Results, [Next]_vars PROVE Results'
<1>1. CASE Caller
  <2>1. UNCHANGED <<chainVars, exchVars, workerVars, resultVars>>
    BY <1>1 DEF Caller, Take, InvokeTest, InvokePlace, InvokeSkip, CallerOnly
  <2> QED
    BY <2>1 DEF Results, Resulted, Peer, chainVars, exchVars, workerVars, resultVars
<1>2. ASSUME NEW c \in Chains, TimeOut(c) PROVE Results'
  BY <1>2 DEF TimeOut, Results, Resulted, Peer, chainVars, exchVars, resultVars
<1>3. ASSUME NEW c \in Chains, ChainWorks(c) PROVE Results'
  <2>1. UNCHANGED <<pc, req, seen, succeeded, outcome>>
    BY <1>3 DEF ChainWorks, exchVars, workerVars, resultVars
  <2>2. Types /\ Resulted(c)
    BY DEF TypeInv, Results
  <2>3. ChainKeeps(c) /\ async_op'[c] \in {async_op[c], "NONE"}
    BY <1>3, <2>2, ChainResults DEF ChainWorks, Resulted
  <2>4. Resulted(c)'
    <3>1. pc[c] \in AfterTake => actual'[Peer(c)] # NoTT
      <4>1. ASSUME pc[c] \in AfterTake PROVE Peer(c) \in Chains
        <5>1. pc[c] \in Handling
          BY <4>1 DEF AfterTake, Handling, ExchangeSteps
        <5> QED
          BY <5>1, RequestFacts DEF Peer, TypeInv, Sorted
      <4> QED
        BY <2>2, <2>3, <4>1 DEF Resulted, ChainKeeps
    <3>2. Peer(c)' = Peer(c)
      BY <2>1 DEF Peer
    <3>3. status[c] = "FINISHED" => status'[c] = "FINISHED"
      BY <2>3 DEF ChainKeeps
    <3> QED
      BY <2>1, <2>2, <2>3, <3>1, <3>2, <3>3 DEF Resulted, ChainKeeps
  <2> QED
    BY <2>1, <2>3, <2>4, ResultsElsewhere
<1>4. CASE UNCHANGED vars
  BY <1>4 DEF vars, Results, Resulted, Peer, chainVars, exchVars, workerVars, resultVars
<1> QED
  BY <1>1, <1>2, <1>3, <1>4, ResultsLoop, ResultsHandle DEF Next

LEMMA ResultsInvariant == Spec => []Results
<1>1. Init => Results
  BY DEF Init, Chain!Init, Results, Resulted, ReadySteps, AfterTake, Emptied
<1> QED
  BY <1>1, TypeInvariant, ResultsInductive, PTL DEF Spec

(* What ready_for_async_operation() said still holds when the operation is started:
   only the chain's own worker starts one. *)
THEOREM ControllerNeverRefused == Spec => []NeverRefused
<1>1. Results => NeverRefused
  BY DEF Results, Resulted, NeverRefused, ReadySteps, Ready
<1> QED
  BY <1>1, ResultsInvariant, PTL

(* A controller reports success only with a timetable. *)
THEOREM ControllerSuccessHasTimetable == Spec => []SuccessHasTimetable
<1>1. Results => SuccessHasTimetable
  BY DEF Results, Resulted, SuccessHasTimetable
<1> QED
  BY <1>1, ResultsInvariant, PTL

-----------------------------------------------------------------------------
(* A callback is called for one command, of this controller and of the request's kind. *)
LEMMA AnsweredOf ==
  ASSUME TypeInv, NEW c \in Chains, pc[c] \in Handling, NEW value \in {"yes", "no"},
         NEW m \in Commands
  PROVE  \/ Answered(c, value)[m] = answer[m]
         \/ /\ req[c].answers /\ m = Sender(req[c]) /\ m.chain = c /\ m.kind = req[c].kind
            /\ Answered(c, value)[m] = IF answer[m] = "none" THEN value ELSE "twice"
<1>1. req[c] \in AllRequests /\ req[c].chain = c
  BY DEF TypeInv, Sorted
<1>2. req[c].answers => Sender(req[c]).chain = c /\ Sender(req[c]).kind = req[c].kind
  BY <1>1, RequestFacts DEF First, Request
<1>3. answer \in [Commands -> {"none", "yes", "no", "twice"}] /\ Sender(req[c]) \in Commands
  BY <1>1, RequestFacts DEF TypeInv, Types
<1> QED
  BY <1>2, <1>3, AnsweredTypes

(* The fourth layer: whom a client was told to be interrupted. *)
LEMMA ToldInductive == ASSUME TypeInv, Results, Told, [Next]_vars PROVE Told'
<1> USE DEF Goto
<1>0. /\ pc \in [Chains -> Steps] /\ stopped \in [Chains -> BOOLEAN]
      /\ succeeded \in [Chains -> BOOLEAN]
      /\ answer \in [Commands -> {"none", "yes", "no", "twice"}]
      /\ \A m \in Commands : m.chain \in Chains
  BY ControllerAssumption DEF TypeInv, Types
<1>1. ASSUME UNCHANGED <<status, stopped, pc, succeeded, answer>> PROVE Told'
  BY <1>1 DEF Told
<1>2. CASE Caller
  BY <1>1, <1>2 DEF Caller, Take, InvokeTest, InvokePlace, InvokeSkip, CallerOnly, chainVars, workerVars,
    resultVars
<1>3. ASSUME NEW c \in Chains, TimeOut(c) PROVE Told'
  BY <1>1, <1>3 DEF TimeOut, chainVars, fieldVars, resultVars
<1>4. ASSUME NEW c \in Chains, ChainWorks(c) PROVE Told'
  <2>1. UNCHANGED <<stopped, pc, succeeded, answer>>
    BY <1>4 DEF ChainWorks, fieldVars, workerVars, resultVars
  <2>2. ChainKeeps(c)
    BY <1>4, ChainResults DEF ChainWorks, TypeInv, Results, Resulted
  <2>3. \A d \in Chains : status[d] = "INTERRUPTED" => status'[d] = "INTERRUPTED"
    BY <2>2 DEF ChainKeeps
  <2> QED
    BY <1>0, <2>1, <2>3 DEF Told
<1>5. ASSUME NEW c \in Chains, Loop(c) PROVE Told'
  <2>1. UNCHANGED status /\ (\A d \in Chains : stopped[d] => stopped'[d])
    BY <1>0, <1>5 DEF Loop, Enter, Look, Pop, Leave, DrainLock, Skip, SkipAnswer, DrainEnd, Report,
      Finish, Local, Private,
      chainVars, fieldVars
  <2>2. succeeded' = succeeded \/ succeeded' = [succeeded EXCEPT ![c] = Success(c)]
    BY <1>5 DEF Loop, Enter, Look, Pop, Leave, DrainLock, Skip, SkipAnswer, DrainEnd, Report, Finish,
      Local, Private
  <2>3. \E to \in Steps \ {"i_yes"} : pc' = [pc EXCEPT ![c] = to]
    BY <1>5 DEF Loop, Enter, Look, Pop, Leave, DrainLock, Skip, SkipAnswer, DrainEnd, Report, Finish,
      Steps, Handling,
      Emptied
  <2>4. \A m \in Commands : answer'[m] = "yes" => answer[m] = "yes"
    <3>1. CASE SkipAnswer(c)
      <4>1. pc[c] \in Handling
        BY <3>1 DEF SkipAnswer, Handling
      <4> QED
        BY <3>1, <4>1, AnsweredOf DEF SkipAnswer
    <3>2. CASE ~SkipAnswer(c)
      BY <1>5, <3>2 DEF Loop, Enter, Look, Pop, Leave, DrainLock, Skip, DrainEnd, Report, Finish,
        Local, resultVars
    <3> QED
      BY <3>1, <3>2
  <2>5. \A d \in Chains : pc'[d] = "i_yes" => stopped'[d]
    BY <1>0, <2>1, <2>3 DEF Told
  <2>6. ASSUME NEW m \in Commands, m.kind = "interrupt", answer'[m] = "yes"
        PROVE  /\ ~succeeded'[m.chain]
               /\ status'[m.chain] = "INTERRUPTED" \/ stopped'[m.chain]
    BY <1>0, <2>1, <2>2, <2>4, <2>6 DEF Told, Success
  <2> QED
    BY <2>5, <2>6 DEF Told
<1>6. ASSUME NEW c \in Chains, Handle(c) PROVE Told'
  <2>1. UNCHANGED succeeded /\ stopped' \in {stopped, [stopped EXCEPT ![c] = TRUE]}
        /\ pc[c] \in Handling /\ pc[c] \notin {"drain", "skip"} \cup Emptied
    BY <1>6, HandleFrame DEF Handling, ExchangeSteps, InterruptSteps, Emptied
  <2>2. \A d \in Chains : stopped[d] => stopped'[d]
    BY <1>0, <2>1
  <2>3. UNCHANGED status
    BY <1>6 DEF Handle, Start, Exchange, SetStage, SetTarget, Await, Test, ReadPeer, Inject, EndExchange,
      Interrupt, InterruptChain, HardInterrupt, Stats, EndLocal, Private, Local, chainVars,
      Chain!InjectAsync, Chain!InterruptAsync
  <2>4. \A d \in Chains : pc'[d] = "i_yes" => stopped'[d]
    <3>1. PICK to \in Leads : pc' = [pc EXCEPT ![c] = to]
      BY <1>6, HandleFrame
    <3>2. to = "i_yes" => stopped'[c]
      <4>1. Start(c) => to # "i_yes"
        <5>1. req[c].kind \in {"exchange", "interrupt", "stats"}
          BY <2>1, RequestFacts DEF TypeInv, Sorted
        <5>2. FirstStep[req[c].kind] \in {"x_stage", "i_ready", "stats"}
          BY <5>1 DEF FirstStep
        <5> QED
          BY <1>0, <3>1, <5>2 DEF Start
      <4> QED
        BY <1>0, <1>6, <3>1, <4>1 DEF Handle, Exchange, SetStage, SetTarget, Await, Test, ReadPeer, Inject,
          EndExchange, End, Interrupt, InterruptChain, HardInterrupt, Stats, EndLocal
    <3> QED
      BY <1>0, <2>2, <3>1, <3>2 DEF Told
  <2>5. ASSUME NEW m \in Commands, m.kind = "interrupt", answer'[m] = "yes", answer[m] # "yes"
        PROVE  m.chain = c /\ (status[c] = "INTERRUPTED" \/ stopped[c])
    <3>1. \/ pc[c] \in {"x_end", "i_soft", "i_yes", "stats"} /\ answer' = Answered(c, "yes")
          \/ answer' = Answered(c, "no")
          \/ answer' = answer
      BY <1>6 DEF Handle, Start, Exchange, SetStage, SetTarget, Await, Test, ReadPeer, Inject, EndExchange,
        End, Interrupt, InterruptChain, HardInterrupt, Stats, EndLocal, Private, Local, resultVars
    <3>2. answer'[m] # answer[m]
      BY <2>5
    <3>3. answer' = Answered(c, "yes") /\ pc[c] \in {"x_end", "i_soft", "i_yes", "stats"}
          /\ m.chain = c /\ req[c].kind = "interrupt"
      BY <2>1, <2>5, <3>1, <3>2, AnsweredOf
    <3>4. pc[c] \in {"i_soft", "i_yes"}
      BY <3>3 DEF TypeInv, Sorted, ExchangeSteps
    <3>5. pc[c] = "i_soft" => status[c] = "INTERRUPTED"
      <4>1. ASSUME pc[c] = "i_soft", status[c] # "INTERRUPTED" PROVE answer' = Answered(c, "no")
        BY <1>6, <4>1 DEF Handle, Start, Exchange, SetStage, SetTarget, Await, Test, ReadPeer, Inject,
          EndExchange, End, Interrupt, InterruptChain, HardInterrupt, Stats, EndLocal
      <4>2. Answered(c, "no")[m] = "yes" => answer[m] = "yes"
        BY <2>1, AnsweredOf
      <4> QED
        BY <2>5, <4>1, <4>2
    <3> QED
      BY <3>3, <3>4, <3>5 DEF Told
  <2>6. ASSUME NEW m \in Commands, m.kind = "interrupt", answer'[m] = "yes"
        PROVE  /\ ~succeeded'[m.chain]
               /\ status'[m.chain] = "INTERRUPTED" \/ stopped'[m.chain]
    <3>1. CASE answer[m] = "yes"
      BY <1>0, <2>1, <2>2, <2>3, <2>6, <3>1 DEF Told
    <3>2. CASE answer[m] # "yes"
      <4>1. ~succeeded[c]
        BY <2>1 DEF Results, Resulted
      <4> QED
        BY <2>1, <2>2, <2>3, <2>5, <2>6, <3>2, <4>1
    <3> QED
      BY <3>1, <3>2
  <2> QED
    BY <2>4, <2>6 DEF Told
<1>7. CASE UNCHANGED vars
  BY <1>1, <1>7 DEF vars, chainVars, fieldVars, workerVars, resultVars
<1> QED
  BY <1>2, <1>3, <1>4, <1>5, <1>6, <1>7 DEF Next

(* A client that is told its chain was interrupted never gets a timetable from it. *)
THEOREM ControllerInterruptedNotSucceeded == Spec => []InterruptedNotSucceeded
<1>1. Init => Told
  BY DEF Init, Told
<1>2. TypeInv /\ Results /\ Told => InterruptedNotSucceeded
  BY ControllerAssumption DEF TypeInv, Types, Results, Resulted, Told, InterruptedNotSucceeded
<1> QED
  BY <1>1, <1>2, TypeInvariant, ResultsInvariant, ToldInductive, PTL DEF Spec

-----------------------------------------------------------------------------
(* The fifth layer: a request moves through places, and is lost from one at most. *)
LEMMA PlacesMove ==
  ASSUME NEW r \in AllRequests, InOnePlace(r), NEW k \in {0, 1}, NEW l \in {0, 1},
         \A i \in Nat : Holds(r, i)' => Holds(r, i + k),
         \A i \in Nat : Asks(r, i)' => Asks(r, i + l),
         Sender(r) \in sent => Sender(r) \in sent',
         \A i \in Nat : (Holds(r, i)' \/ Asks(r, i)') /\ r.answers =>
           answer'[Sender(r)] = answer[Sender(r)]
  PROVE  InOnePlace(r)'
<1>0. /\ \A i \in Nat : i + k \in Nat /\ i + l \in Nat
      /\ \A i, j \in Nat : (i + k = j + k => i = j) /\ (i + l = j + l => i = j)
      /\ Sender(r)' = Sender(r)
  BY DEF Sender
<1>1. ASSUME NEW i \in Nat, NEW j \in Nat, Holds(r, i)', Holds(r, j)' PROVE i = j
  BY <1>0, <1>1 DEF InOnePlace
<1>2. ASSUME NEW i \in Nat, NEW j \in Nat, Asks(r, i)', Asks(r, j)' PROVE i = j
  BY <1>0, <1>2 DEF InOnePlace
<1>3. ASSUME NEW i \in Nat, NEW j \in Nat, Holds(r, i)', Asks(r, j)' PROVE FALSE
  BY <1>0, <1>3 DEF InOnePlace
<1>4. ASSUME NEW i \in Nat, Holds(r, i)' \/ Asks(r, i)'
      PROVE  Sender(r) \in sent' /\ (r.answers => answer'[Sender(r)] = "none")
  BY <1>0, <1>4 DEF InOnePlace
<1> QED
  BY <1>0, <1>1, <1>2, <1>3, <1>4 DEF InOnePlace

(* A command that is taken becomes requests that were nowhere. *)
LEMMA OnceTake == ASSUME TypeInv, OnceInv, NEW m \in Commands, Take(m) PROVE OnceInv'
<1>1. /\ callerAt = "idle" /\ m \notin sent /\ sent' = sent \cup {m} /\ todo' = Requests(m)
      /\ callerAt' = "test" /\ UNCHANGED <<queue, pc, req, answer>>
  BY DEF Take, CallerOnly, workerVars, resultVars
<1>2. ASSUME NEW r \in AllRequests PROVE InOnePlace(r)'
  <2>1. \A i \in Nat : Holds(r, i)' <=> Holds(r, i)
    BY <1>1 DEF Holds
  <2>2. CASE Sender(r) # m
    <3>1. ASSUME NEW j \in Nat, Asks(r, j)' PROVE FALSE
      <4>1. Requests(m)[j] = r /\ j \in 1..Len(Requests(m))
        BY <1>1, <3>1 DEF Asks
      <4>2. r.id = m.id
        <5>1. j = 1 \/ (j = 2 /\ Len(Requests(m)) = 2)
          BY <4>1, RequestsOf
        <5>2. r = First(m) \/ r = Second(m)
          BY <4>1, <5>1, RequestsOf
        <5> QED
          BY <5>2 DEF First, Second, Request
      <4> QED
        BY <2>2, <4>2, RequestFacts, ControllerAssumption
    <3> QED
      BY <1>1, <1>2, <2>1, <3>1, PlacesMove DEF OnceInv, OnePlace
  <2>3. CASE Sender(r) = m
    <3>1. \A i \in Nat : ~Holds(r, i)'
      BY <1>1, <2>1, <2>3 DEF OnceInv, OnePlace, InOnePlace
    <3>2. ASSUME NEW i \in Nat, NEW j \in Nat, Asks(r, i)', Asks(r, j)' PROVE i = j
      <4>1. /\ Requests(m)[i] = r /\ i \in 1..Len(Requests(m))
            /\ Requests(m)[j] = r /\ j \in 1..Len(Requests(m))
        BY <1>1, <3>2 DEF Asks
      <4>2. First(m) # Second(m)
        BY DEF First, Second, Request
      <4> QED
        <5>1. /\ i = 1 \/ (i = 2 /\ Len(Requests(m)) = 2)
              /\ j = 1 \/ (j = 2 /\ Len(Requests(m)) = 2)
          BY <4>1, RequestsOf
        <5> QED
          BY <4>1, <4>2, <5>1, RequestsOf
    <3>3. answer'[m] = "none" /\ m \in sent' /\ Sender(r)' = m
      BY <1>1, <2>3 DEF OnceInv, Unanswered, Sender
    <3> QED
      BY <3>1, <3>2, <3>3 DEF InOnePlace
  <2> QED
    BY <2>2, <2>3
<1> QED
  BY <1>1, <1>2 DEF OnceInv, OnePlace, Unanswered, Answers

(* Placing a request takes it from the caller's hands. *)
LEMMA OncePlace == ASSUME TypeInv, OnceInv, InvokePlace PROVE OnceInv'
<1>1. /\ queue' = [queue EXCEPT ![At] = Append(@, Head(todo))] /\ todo' = Tail(todo)
      /\ UNCHANGED <<sent, pc, req, answer>>
  BY DEF InvokePlace, CallerOnly, workerVars, resultVars
<1>2. /\ todo \in Seq(AllRequests) /\ todo # <<>> /\ Head(todo) = todo[1] /\ todo[1] \in AllRequests
      /\ At = todo[1].chain /\ At \in Chains /\ callerAt # "idle"
      /\ Len(todo) >= 1
  <2>1. todo \in Seq(AllRequests) /\ todo # <<>> /\ callerAt # "idle"
    BY DEF InvokePlace, TypeInv, Types, Sorted
  <2>2. Head(todo) = todo[1] /\ todo[1] \in AllRequests /\ Len(todo) >= 1
    BY <2>1
  <2> QED
    BY <2>1, <2>2, RequestFacts DEF At
<1>3. queue \in [Chains -> Seq(AllRequests)]
  BY DEF TypeInv, Types
<1>4. ASSUME NEW r \in AllRequests PROVE InOnePlace(r)'
  <2>0. r.chain \in Chains /\ queue[r.chain] \in Seq(AllRequests)
    BY <1>3, RequestFacts
  <2>1. ASSUME NEW i \in Nat, Asks(r, i)' PROVE Asks(r, i + 1)
    <3>1. i \in 1..Len(Tail(todo)) /\ Tail(todo)[i] = r
      BY <1>1, <2>1 DEF Asks
    <3>2. i + 1 \in 1..Len(todo) /\ todo[i + 1] = r
      BY <1>2, <3>1
    <3> QED
      BY <1>2, <3>2 DEF Asks
  <2>2. ASSUME NEW i \in Nat, Holds(r, i)'
        PROVE  Holds(r, i) \/ (r = todo[1] /\ i = Len(queue[r.chain]) + 1)
    <3>1. CASE i = 0
      BY <1>1, <2>2, <3>1 DEF Holds
    <3>2. CASE i # 0 /\ r.chain # At
      BY <1>1, <1>3, <2>0, <2>2, <3>2 DEF Holds
    <3>3. CASE i # 0 /\ r.chain = At
      <4>1. queue'[r.chain] = Append(queue[r.chain], todo[1])
        BY <1>1, <1>2, <1>3, <3>3
      <4>2. i \in 1..(Len(queue[r.chain]) + 1) /\ Append(queue[r.chain], todo[1])[i] = r
        BY <2>0, <2>2, <3>3, <4>1, <1>2 DEF Holds
      <4>3. CASE i = Len(queue[r.chain]) + 1
        BY <1>2, <2>0, <4>2, <4>3
      <4>4. CASE i \in 1..Len(queue[r.chain])
        BY <1>2, <2>0, <3>3, <4>2, <4>4 DEF Holds
      <4> QED
        BY <4>2, <4>3, <4>4, <2>0
    <3> QED
      BY <3>1, <3>2, <3>3
  <2>3. InOnePlace(r)
    BY DEF OnceInv, OnePlace
  <2>4. CASE r # todo[1]
    <3>1. \A i \in Nat : Holds(r, i)' => Holds(r, i + 0)
      BY <2>2, <2>4
    <3> QED
      BY <1>1, <2>1, <2>3, <3>1, PlacesMove
  <2>5. CASE r = todo[1]
    <3>1. Asks(r, 1)
      BY <1>2, <2>5 DEF Asks
    <3>2. \A i \in Nat : ~Holds(r, i)
      BY <2>3, <3>1 DEF InOnePlace
    <3>3. \A i \in Nat : Holds(r, i)' => i = Len(queue[r.chain]) + 1
      BY <2>2, <3>2
    <3>4. \A i \in Nat : ~Asks(r, i)'
      <4>1. ASSUME NEW i \in Nat, Asks(r, i)' PROVE FALSE
        <5>1. Asks(r, i + 1) /\ i + 1 \in Nat
          BY <2>1, <4>1
        <5>2. i + 1 = 1
          BY <2>3, <3>1, <5>1 DEF InOnePlace
        <5>3. i \in 1..Len(todo')
          BY <4>1 DEF Asks
        <5> QED
          BY <4>1, <5>2, <5>3
      <4> QED
        BY <4>1
    <3>5. Sender(r) \in sent /\ (r.answers => answer[Sender(r)] = "none") /\ Sender(r)' = Sender(r)
      BY <2>3, <3>1 DEF InOnePlace, Sender
    <3> QED
      BY <1>1, <3>3, <3>4, <3>5 DEF InOnePlace
  <2> QED
    BY <2>4, <2>5
<1> QED
  BY <1>1, <1>4 DEF OnceInv, OnePlace, Unanswered, Answers

(* A worker takes the oldest request of its queue into its hands, which are free. *)
LEMMA OnceTaken ==
  ASSUME TypeInv, OnceInv, NEW c \in Chains, Pop(c) \/ Skip(c)
  PROVE  OnceInv'
<1>1. /\ req' = [req EXCEPT ![c] = Head(queue[c])] /\ queue[c] # <<>>
      /\ queue' = [queue EXCEPT ![c] = Tail(@)]
      /\ pc[c] \in {"pop", "drain"} /\ pc' \in {[pc EXCEPT ![c] = "start"], [pc EXCEPT ![c] = "skip"]}
      /\ UNCHANGED <<callerVars, answer>>
  BY DEF Pop, Skip, Goto, Drained, Rest, resultVars, TypeInv, Sorted
<1>2. /\ queue \in [Chains -> Seq(AllRequests)] /\ pc \in [Chains -> Steps]
      /\ req \in [Chains -> AllRequests \cup {Nobody}]
  BY DEF TypeInv, Types
<1>3. /\ queue[c] \in Seq(AllRequests) /\ Len(queue[c]) >= 1 /\ Head(queue[c]) = queue[c][1]
      /\ pc[c] \notin Handling
  BY <1>1, <1>2 DEF Handling, ExchangeSteps, InterruptSteps
<1>4. ASSUME NEW r \in AllRequests PROVE InOnePlace(r)'
  <2>0. InOnePlace(r) /\ r.chain \in Chains
    BY RequestFacts DEF OnceInv, OnePlace
  <2>1. \A i \in Nat : Asks(r, i)' => Asks(r, i + 0)
    BY <1>1 DEF Asks, callerVars
  <2>2. CASE r.chain = c
    <3>1. ASSUME NEW i \in Nat, Holds(r, i)' PROVE Holds(r, i + 1)
      <4>1. CASE i = 0
        BY <1>1, <1>2, <1>3, <2>2, <3>1, <4>1 DEF Holds
      <4>2. CASE i # 0
        <5>1. i \in 1..Len(Tail(queue[c])) /\ Tail(queue[c])[i] = r
          BY <1>1, <1>2, <2>2, <3>1, <4>2 DEF Holds
        <5>2. i + 1 \in 1..Len(queue[c]) /\ queue[c][i + 1] = r
          BY <1>3, <5>1
        <5> QED
          BY <2>2, <5>2 DEF Holds
      <4> QED
        BY <4>1, <4>2
    <3> QED
      BY <1>1, <2>0, <2>1, <3>1, PlacesMove DEF callerVars
  <2>3. CASE r.chain # c
    <3>1. \A i \in Nat : Holds(r, i)' => Holds(r, i + 0)
      BY <1>1, <1>2, <2>0, <2>3 DEF Holds
    <3> QED
      BY <1>1, <2>0, <2>1, <3>1, PlacesMove DEF callerVars
  <2> QED
    BY <2>2, <2>3
<1> QED
  BY <1>1, <1>4 DEF OnceInv, OnePlace, Unanswered, Answers, callerVars

(* A worker goes on with the request in its hands, or answers it and lets it go. *)
LEMMA OnceGoesOn ==
  ASSUME TypeInv, OnceInv, NEW c \in Chains, UNCHANGED <<queue, req, callerVars>>,
         \E to \in Steps : pc' = [pc EXCEPT ![c] = to] /\ (pc[c] \notin Handling => to \notin Handling),
         \/ answer' = answer
         \/ /\ pc[c] \in Handling /\ pc'[c] \notin Handling
            /\ answer' \in {Answered(c, "yes"), Answered(c, "no")}
  PROVE  OnceInv'
<1>0. /\ pc \in [Chains -> Steps] /\ answer \in [Commands -> {"none", "yes", "no", "twice"}]
      /\ sent' = sent
  BY DEF TypeInv, Types, callerVars
<1>1. \A r \in AllRequests, i \in Nat : (Asks(r, i)' => Asks(r, i + 0)) /\ (Holds(r, i)' => Holds(r, i + 0))
  BY <1>0, RequestFacts DEF Asks, Holds, callerVars
<1>2. ASSUME NEW m \in Commands, answer'[m] # answer[m]
      PROVE  /\ pc[c] \in Handling /\ pc'[c] \notin Handling /\ req[c] \in AllRequests
             /\ req[c].answers /\ m = Sender(req[c]) /\ Holds(req[c], 0) /\ req[c].chain = c
             /\ answer'[m] # "twice"
  <2>1. pc[c] \in Handling /\ pc'[c] \notin Handling /\ answer' \in {Answered(c, "yes"), Answered(c, "no")}
    BY <1>2
  <2>2. req[c] \in AllRequests /\ req[c].chain = c /\ Holds(req[c], 0)
    BY <2>1 DEF TypeInv, Sorted, Holds
  <2>3. /\ req[c].answers /\ m = Sender(req[c])
        /\ answer'[m] = "twice" => answer[m] # "none"
    BY <1>2, <2>1, AnsweredOf
  <2>4. answer[m] = "none"
    BY <2>2, <2>3 DEF OnceInv, OnePlace, InOnePlace
  <2> QED
    BY <2>1, <2>2, <2>3, <2>4
<1>3. ASSUME NEW r \in AllRequests PROVE InOnePlace(r)'
  <2>1. ASSUME NEW i \in Nat, Holds(r, i)' \/ Asks(r, i)', r.answers, answer'[Sender(r)] # answer[Sender(r)]
        PROVE  FALSE
    <3>1. Sender(r) \in Commands
      BY RequestFacts
    <3>2. /\ req[c] \in AllRequests /\ req[c].answers /\ Sender(r) = Sender(req[c]) /\ Holds(req[c], 0)
          /\ req[c].chain = c /\ pc'[c] \notin Handling
      BY <1>2, <2>1, <3>1
    <3>3. r = req[c]
      BY <2>1, <3>2, RequestFacts
    <3>4. Holds(r, i) \/ Asks(r, i)
      BY <1>1, <2>1
    <3>5. Holds(r, i) /\ i = 0 /\ ~Asks(r, i)
      BY <3>2, <3>3, <3>4 DEF OnceInv, OnePlace, InOnePlace
    <3>6. Holds(r, i)'
      BY <1>1, <2>1, <3>5
    <3> QED
      BY <3>2, <3>3, <3>5, <3>6 DEF Holds
  <2>2. \A i \in Nat : (Holds(r, i)' \/ Asks(r, i)') /\ r.answers => answer'[Sender(r)] = answer[Sender(r)]
    BY <2>1
  <2> QED
    BY <1>0, <1>1, <2>2, PlacesMove DEF OnceInv, OnePlace
<1>4. Unanswered'
  BY <1>0, <1>2 DEF OnceInv, OnePlace, InOnePlace, Unanswered
<1>5. Answers'
  BY <1>2 DEF OnceInv, Answers
<1> QED
  BY <1>3, <1>4, <1>5 DEF OnceInv, OnePlace

LEMMA OnceInductive == ASSUME TypeInv, OnceInv, [Next]_vars PROVE OnceInv'
<1>1. ASSUME UNCHANGED <<queue, req, pc, callerVars, answer>> PROVE OnceInv'
  <2>1. ASSUME NEW r \in AllRequests PROVE InOnePlace(r)'
    <3>1. \A i \in Nat : (Holds(r, i)' => Holds(r, i + 0)) /\ (Asks(r, i)' => Asks(r, i + 0))
      BY <1>1 DEF Holds, Asks, callerVars
    <3> QED
      BY <1>1, <3>1, PlacesMove DEF OnceInv, OnePlace, callerVars
  <2> QED
    BY <1>1, <2>1 DEF OnceInv, OnePlace, Unanswered, Answers, callerVars
<1>2. CASE InvokeTest \/ InvokeSkip
  <2>1. /\ UNCHANGED <<queue, sent, pc, req, answer>>
        /\ callerAt # "idle" /\ (todo' = todo \/ callerAt' = "idle")
    BY <1>2 DEF InvokeTest, InvokeSkip, CallerOnly, workerVars, resultVars
  <2>2. ASSUME NEW r \in AllRequests PROVE InOnePlace(r)'
    <3>1. \A i \in Nat : (Holds(r, i)' => Holds(r, i + 0)) /\ (Asks(r, i)' => Asks(r, i + 0))
      BY <2>1 DEF Holds, Asks
    <3> QED
      BY <2>1, <3>1, PlacesMove DEF OnceInv, OnePlace
  <2> QED
    BY <2>1, <2>2 DEF OnceInv, OnePlace, Unanswered, Answers
<1>4. ASSUME NEW c \in Chains, Loop(c) PROVE OnceInv'
  <2>1. CASE Pop(c) \/ Skip(c)
    BY <2>1, OnceTaken
  <2>2. CASE ~Pop(c) /\ ~Skip(c)
    <3>1. UNCHANGED <<queue, req, callerVars>>
      BY <1>4, <2>2 DEF Loop, Enter, Look, Leave, DrainLock, SkipAnswer, DrainEnd, Report, Finish,
        Local, Private, fieldVars
    <3>2. PICK to \in Steps : pc' = [pc EXCEPT ![c] = to] /\ to \notin Handling
      BY <1>4, <2>2 DEF Loop, Enter, Look, Leave, DrainLock, SkipAnswer, DrainEnd, Report, Finish,
        Goto, Steps, Emptied,
        Handling, ExchangeSteps, InterruptSteps
    <3>3. \/ answer' = answer
          \/ pc[c] \in Handling /\ answer' = Answered(c, "no")
      BY <1>4, <2>2 DEF Loop, Enter, Look, Leave, DrainLock, SkipAnswer, DrainEnd, Report, Finish,
        Local, Goto, Handling,
        resultVars
    <3>4. pc'[c] \notin Handling
      BY <3>2 DEF TypeInv, Types
    <3> QED
      BY <3>1, <3>2, <3>3, <3>4, OnceGoesOn
  <2> QED
    BY <2>1, <2>2
<1>5. ASSUME NEW c \in Chains, Handle(c) PROVE OnceInv'
  <2>1. UNCHANGED <<queue, req, callerVars>> /\ pc[c] \in Handling
    BY <1>5, HandleFrame
  <2>2. \E to \in Steps : pc' = [pc EXCEPT ![c] = to]
    BY <1>5, HandleFrame DEF Leads, Steps, Handling
  <2>3. answer' = answer \/ (pc'[c] = "loop" /\ answer' \in {Answered(c, "yes"), Answered(c, "no")})
    <3>1. pc \in [Chains -> Steps]
      BY DEF TypeInv, Types
    <3> QED
      BY <1>5, <3>1 DEF Handle, Start, Exchange, SetStage, SetTarget, Await, Test, ReadPeer, Inject,
        EndExchange,
        End, Interrupt, InterruptChain, HardInterrupt, Stats, EndLocal, Private, Local, Goto, resultVars
  <2>4. "loop" \notin Handling
    BY DEF Handling, ExchangeSteps, InterruptSteps
  <2> QED
    BY <2>1, <2>2, <2>3, <2>4, OnceGoesOn
<1>6. ASSUME NEW c \in Chains, TimeOut(c) \/ ChainWorks(c) PROVE OnceInv'
  BY <1>1, <1>6 DEF TimeOut, ChainWorks, fieldVars, workerVars, resultVars
<1>7. CASE UNCHANGED vars
  BY <1>1, <1>7 DEF vars, fieldVars, workerVars, resultVars
<1> QED
  BY <1>2, <1>4, <1>5, <1>6, <1>7, OnceTake, OncePlace DEF Next, Caller

LEMMA OnceInvariant == Spec => []OnceInv
<1>1. ASSUME Init PROVE OnceInv
  <2>1. Unanswered /\ Answers
    BY <1>1 DEF Init, Unanswered, Answers
  <2>2. ASSUME NEW r \in AllRequests, NEW i \in Nat PROVE ~Holds(r, i) /\ ~Asks(r, i)
    <3>1. r.chain \in Chains
      BY RequestFacts
    <3>2. "loop" \notin Handling /\ pc[r.chain] = "loop" /\ queue[r.chain] = <<>> /\ callerAt = "idle"
      BY <1>1, <3>1 DEF Init, Handling, ExchangeSteps, InterruptSteps
    <3> QED
      BY <3>2 DEF Holds, Asks
  <2> QED
    BY <2>1, <2>2 DEF OnceInv, OnePlace, InOnePlace
<1> QED
  BY <1>1, TypeInvariant, OnceInductive, PTL DEF Spec

(* The controllers' fields keep their types, the queue of each holds its own requests
   only, and no callback is called twice. *)
THEOREM ControllerTypes == Spec => []TypeOK
<1>1. TypeInv /\ OnceInv => TypeOK
  <2> SUFFICES ASSUME TypeInv, OnceInv PROVE TypeOK
    OBVIOUS
  <2>1. answer \in [Commands -> {"none", "yes", "no"}]
    BY DEF TypeInv, Types, OnceInv, Answers
  <2>2. ASSUME NEW c \in Chains, NEW k \in DOMAIN queue[c] PROVE queue[c][k].chain = c
    <3>1. queue[c] \in Seq(AllRequests)
      BY DEF TypeInv, Types
    <3> QED
      BY <2>2, <3>1 DEF TypeInv, Sorted
  <2> QED
    BY <2>1, <2>2 DEF TypeOK, TypeInv, Types, Values
<1> QED
  BY <1>1, TypeInvariant, OnceInvariant, PTL

-----------------------------------------------------------------------------
(* The sixth layer: an exchange that is the only one. *)

(* A request that was let go does not come back. *)
LEMMA OverStays ==
  ASSUME TypeInv, NEW r \in AllRequests, Over(r), [Next]_vars
  PROVE  Over(r)'
<1> USE DEF Goto
<1>0. /\ r.chain \in Chains /\ Sender(r) \in sent /\ Sender(r)' = Sender(r)
      /\ \A i \in Nat : ~Holds(r, i) /\ ~Asks(r, i)
      /\ queue \in [Chains -> Seq(AllRequests)] /\ pc \in [Chains -> Steps]
      /\ req \in [Chains -> AllRequests \cup {Nobody}] /\ todo \in Seq(AllRequests)
  BY RequestFacts DEF Over, Sender, TypeInv, Types
<1>1. ASSUME UNCHANGED <<queue, req>>, pc'[r.chain] \in Handling => pc[r.chain] \in Handling,
             sent \subseteq sent', \A i \in Nat : Asks(r, i)' => Asks(r, i)
      PROVE  Over(r)'
  BY <1>0, <1>1 DEF Over, Holds
<1>2. CASE \E m \in Commands : Take(m)
  <2>1. PICK m \in Commands : Take(m)
    BY <1>2
  <2>2. ASSUME NEW i \in Nat, Asks(r, i)' PROVE FALSE
    <3>1. Requests(m)[i] = r /\ i \in 1..Len(Requests(m)) /\ m \notin sent
      BY <2>1, <2>2 DEF Asks, Take
    <3>2. i = 1 \/ (i = 2 /\ Len(Requests(m)) = 2)
      BY <3>1, RequestsOf
    <3>3. r = First(m) \/ r = Second(m)
      BY <3>1, <3>2, RequestsOf
    <3>4. r.id = m.id
      BY <3>3 DEF First, Second, Request
    <3> QED
      BY <1>0, <3>1, <3>4, RequestFacts, ControllerAssumption
  <2> QED
    BY <1>1, <2>1, <2>2 DEF Take, CallerOnly, workerVars
<1>3. CASE InvokeTest \/ InvokeSkip
  <2>1. \A i \in Nat : Asks(r, i)' => Asks(r, i)
    BY <1>3 DEF InvokeTest, InvokeSkip, Asks
  <2> QED
    BY <1>1, <1>3, <2>1 DEF InvokeTest, InvokeSkip, CallerOnly, workerVars
<1>4. CASE InvokePlace
  <2>1. /\ queue' = [queue EXCEPT ![At] = Append(@, Head(todo))] /\ todo' = Tail(todo)
        /\ UNCHANGED <<sent, pc, req>> /\ callerAt # "idle" /\ todo # <<>>
    BY <1>4 DEF InvokePlace, CallerOnly, workerVars, TypeInv, Sorted
  <2>2. Head(todo) = todo[1] /\ 1 \in 1..Len(todo) /\ todo[1] \in AllRequests
    BY <1>0, <2>1
  <2>3. ~Asks(r, 1)
    BY <1>0
  <2>4. todo[1] # r
    BY <2>1, <2>2, <2>3 DEF Asks
  <2>5. ASSUME NEW i \in Nat, Asks(r, i)' PROVE FALSE
    <3>1. i \in 1..Len(Tail(todo)) /\ Tail(todo)[i] = r
      BY <2>1, <2>5 DEF Asks
    <3>2. i + 1 \in 1..Len(todo) /\ todo[i + 1] = r /\ i + 1 \in Nat
      BY <1>0, <2>1, <3>1
    <3>3. Asks(r, i + 1)
      BY <2>1, <3>2 DEF Asks
    <3> QED
      BY <1>0, <3>2, <3>3
  <2>6. ASSUME NEW i \in Nat, Holds(r, i)' PROVE FALSE
    <3>1. ~Holds(r, i)
      BY <1>0
    <3>2. CASE i = 0 \/ r.chain # At
      BY <1>0, <2>1, <2>6, <3>1, <3>2 DEF Holds
    <3>3. CASE i # 0 /\ r.chain = At
      <4>1. queue'[r.chain] = Append(queue[r.chain], todo[1]) /\ queue[r.chain] \in Seq(AllRequests)
        BY <1>0, <2>1, <2>2, <3>3
      <4>2. i \in 1..(Len(queue[r.chain]) + 1) /\ Append(queue[r.chain], todo[1])[i] = r
        BY <2>2, <2>6, <3>3, <4>1 DEF Holds
      <4>3. CASE i = Len(queue[r.chain]) + 1
        BY <2>2, <2>4, <4>1, <4>2, <4>3
      <4>4. CASE i \in 1..Len(queue[r.chain])
        BY <2>2, <3>1, <3>3, <4>1, <4>2, <4>4 DEF Holds
      <4> QED
        BY <4>1, <4>2, <4>3, <4>4
    <3> QED
      BY <3>2, <3>3
  <2> QED
    BY <1>0, <2>1, <2>5, <2>6 DEF Over
<1>5. ASSUME NEW c \in Chains, Pop(c) \/ Skip(c) PROVE Over(r)'
  <2>1. /\ req' = [req EXCEPT ![c] = Head(queue[c])] /\ queue[c] # <<>>
        /\ queue' = [queue EXCEPT ![c] = Tail(@)]
        /\ \A d \in Chains \ {c} : pc'[d] = pc[d]
        /\ UNCHANGED callerVars
    BY <1>0, <1>5 DEF Pop, Skip, Drained, Rest, TypeInv, Sorted
  <2>2. ASSUME NEW i \in Nat, Holds(r, i)' PROVE FALSE
    <3>1. CASE r.chain # c
      BY <1>0, <2>1, <2>2, <3>1 DEF Holds
    <3>2. CASE r.chain = c
      <4>1. queue[c] \in Seq(AllRequests) /\ Len(queue[c]) >= 1 /\ Head(queue[c]) = queue[c][1]
        BY <1>0, <2>1
      <4>2. i \in 1..Len(Tail(queue[c])) => i + 1 \in 1..Len(queue[c]) /\ Tail(queue[c])[i] = queue[c][i + 1]
        BY <4>1
      <4>3. ~Holds(r, 1) /\ ~Holds(r, i + 1)
        BY <1>0
      <4> QED
        BY <1>0, <2>1, <2>2, <3>2, <4>1, <4>2, <4>3 DEF Holds
    <3> QED
      BY <3>1, <3>2
  <2> QED
    BY <1>0, <2>1, <2>2 DEF Over, Asks, callerVars
<1>6. ASSUME NEW c \in Chains, Loop(c), ~Pop(c), ~Skip(c) PROVE Over(r)'
  <2>1. UNCHANGED <<queue, req, callerVars>>
    BY <1>6 DEF Loop, Enter, Look, Leave, DrainLock, SkipAnswer, DrainEnd, Report, Finish, Local,
      Private, fieldVars
  <2>2. PICK to \in Steps : pc' = [pc EXCEPT ![c] = to] /\ to \notin Handling
    BY <1>6 DEF Loop, Enter, Look, Leave, DrainLock, SkipAnswer, DrainEnd, Report, Finish, Steps,
      Emptied, Handling,
      ExchangeSteps, InterruptSteps
  <2> QED
    BY <1>0, <1>1, <2>1, <2>2 DEF Asks, callerVars
<1>7. ASSUME NEW c \in Chains, Handle(c) PROVE Over(r)'
  <2>1. /\ UNCHANGED <<queue, req, callerVars>> /\ pc[c] \in Handling
        /\ \E to \in Leads : pc' = [pc EXCEPT ![c] = to]
    BY <1>7, HandleFrame
  <2>2. pc'[r.chain] \in Handling => pc[r.chain] \in Handling
    BY <1>0, <2>1
  <2> QED
    BY <1>0, <1>1, <2>1, <2>2 DEF Asks, callerVars
<1>8. ASSUME NEW c \in Chains, TimeOut(c) \/ ChainWorks(c) PROVE Over(r)'
  BY <1>1, <1>8 DEF TimeOut, ChainWorks, Asks, fieldVars, workerVars, callerVars
<1>9. CASE UNCHANGED vars
  BY <1>1, <1>9 DEF vars, Asks, fieldVars, workerVars, callerVars
<1> QED
  BY <1>2, <1>3, <1>4, <1>5, <1>6, <1>7, <1>8, <1>9 DEF Next, Caller

(* The two requests of an exchange are each other's peers, and nobody has another one. *)
LEMMA PairFacts ==
  ASSUME NEW r \in AllRequests, NEW s \in AllRequests, Pair(r, s)
  PROVE  /\ r.peer = s.chain /\ s.peer = r.chain /\ Pair(s, r)
         /\ r.chain \in Chains /\ s.chain \in Chains /\ r.chain # s.chain
         /\ \A q \in AllRequests : q.kind = "exchange" => q \in {r, s}
<1>1. \A q \in AllRequests : q.kind = "exchange" =>
        Sender(q) \in Exchanges /\ q \in {First(Sender(q)), Second(Sender(q))}
  BY RequestFacts DEF Exchanges
<1>2. PICK m \in Exchanges : \A q \in AllRequests : q.kind = "exchange" => q \in {First(m), Second(m)}
  BY <1>1 DEF Pair
<1>3. r \in {First(m), Second(m)} /\ s \in {First(m), Second(m)} /\ r # s
  BY <1>2 DEF Pair
<1>4. /\ First(m).chain = m.chain /\ First(m).peer = m.peer
      /\ Second(m).chain = m.peer /\ Second(m).peer = m.chain
  BY DEF First, Second, Request
<1> QED
  BY <1>2, <1>3, <1>4, RequestFacts DEF Pair

(* Steps outside an exchange change no stage, and begin or end none in its middle. *)
LEMMA AgreementKept ==
  ASSUME TypeInv, [Next]_vars, UNCHANGED <<stage, injection>>, late \subseteq late',
         \A d \in Chains : \/ pc'[d] = pc[d]
                           \/ pc[d] \notin ExchangeSteps /\ pc'[d] \notin ExchangeSteps \ {"x_stage"},
         NEW r \in AllRequests, NEW s \in AllRequests, Pair(r, s), Course(r), Concord(r, s)
  PROVE  Course(r)' /\ Concord(r, s)'
<1>1. r.chain \in Chains /\ s.chain \in Chains
  BY RequestFacts
<1>2. Over(r) => Over(r)'
  BY OverStays
<1>3. /\ pc'[r.chain] \in ExchangeSteps \ {"x_stage"} => pc'[r.chain] = pc[r.chain]
      /\ pc[r.chain] \in ExchangeSteps => pc'[r.chain] = pc[r.chain]
      /\ pc'[s.chain] \in ExchangeSteps \ {"x_stage"} => pc'[s.chain] = pc[s.chain]
  BY <1>1
<1>4. Course(r)'
  BY <1>2, <1>3 DEF Course, Injected, InjectingSteps, ExchangeSteps
<1>5. Concord(r, s)'
  BY <1>3 DEF Concord, TimedOut, Injected, ExchangeSteps
<1> QED
  BY <1>4, <1>5

\* The steps of an exchange before it sets TT_INJECTING.
Early == {"x_stage", "x_target", "x_meet", "x_met", "x_take", "x_taken", "x_both", "x_bothtest",
          "x_ready", "x_readytest", "x_injecting"}

(* What the steps of an exchange do, and on what conditions. *)
LEMMA ExchangeTable ==
  ASSUME TypeInv, NEW c \in Chains, Exchange(c)
  PROVE  /\ UNCHANGED <<req, late>> /\ \A d \in Chains \ {c} : pc'[d] = pc[d]
         /\ \/ /\ pc[c] \in Early /\ pc'[c] \in Early \cup {"x_fail"}
               /\ \/ UNCHANGED stage
                  \/ \E v \in {"WAITING", "TT_TAKEN"} : stage' = [stage EXCEPT ![c] = v]
               /\ UNCHANGED injection
            \/ /\ pc[c] \in Early /\ pc'[c] = "x_agree" /\ UNCHANGED injection
               /\ stage' = [stage EXCEPT ![c] = "TT_INJECTING"]
            \/ /\ pc[c] = "x_agree" /\ pc'[c] = "x_agreed" /\ UNCHANGED <<stage, injection>>
               /\ stage[Peer(c)] \in {"TT_INJECTING", "FAILED"} \/ req[c] \in late
            \/ /\ pc[c] = "x_agreed" /\ UNCHANGED <<stage, injection>>
               /\ pc'[c] = IF stage[Peer(c)] = "TT_INJECTING" THEN "x_read" ELSE "x_fail"
            \/ pc[c] = "x_read" /\ pc'[c] = "x_inject" /\ UNCHANGED <<stage, injection>>
            \/ /\ pc[c] = "x_inject" /\ pc'[c] = "x_end" /\ UNCHANGED stage
               /\ injection' = injection \cup {<<req[c].id, c>>}
            \/ /\ pc[c] = "x_fail" /\ pc'[c] = "x_failed" /\ UNCHANGED injection
               /\ stage' = [stage EXCEPT ![c] = "FAILED"]
            \/ pc[c] \in {"x_end", "x_failed"} /\ pc'[c] = "loop" /\ UNCHANGED <<stage, injection>>
<1> USE DEF Goto, Private, Local, exchVars, resultVars
<1>0. pc \in [Chains -> Steps]
  BY DEF TypeInv, Types
<1>1. UNCHANGED <<req, late>> /\ \A d \in Chains \ {c} : pc'[d] = pc[d]
  BY <1>0 DEF Exchange, SetStage, SetTarget, Await, Test, ReadPeer, Inject, EndExchange, End
<1>2. CASE pc[c] \in {"x_stage", "x_taken", "x_injecting", "x_fail"}
  BY <1>0, <1>1, <1>2 DEF Exchange, SetStage, SetTarget, Await, Test, ReadPeer, Inject, EndExchange,
    End, Early
<1>3. CASE pc[c] \in {"x_target", "x_meet", "x_met", "x_take", "x_both", "x_bothtest", "x_ready", "x_readytest"}
  BY <1>0, <1>1, <1>3 DEF Exchange, SetStage, SetTarget, Await, Test, ReadPeer, Inject, EndExchange,
    End, Early
<1>4. CASE pc[c] \in {"x_agree", "x_agreed", "x_read"}
  BY <1>0, <1>1, <1>4 DEF Exchange, SetStage, SetTarget, Await, Test, ReadPeer, Inject, EndExchange,
    End, Early,
    Agrees, Late
<1>5. CASE pc[c] \in {"x_inject", "x_end", "x_failed"}
  BY <1>0, <1>1, <1>5 DEF Exchange, SetStage, SetTarget, Await, Test, ReadPeer, Inject, EndExchange,
    End, Early
<1>6. pc[c] \in ExchangeSteps
  BY DEF Exchange, SetStage, SetTarget, Await, Test, ReadPeer, Inject, EndExchange, End, ExchangeSteps
<1> QED
  BY <1>2, <1>3, <1>4, <1>5, <1>6 DEF ExchangeSteps

(* A step of one side of the exchange. *)
LEMMA AgreementSide ==
  ASSUME TypeInv, OnePlace, [Next]_vars,
         NEW r \in AllRequests, NEW s \in AllRequests, Pair(r, s), Exchange(r.chain),
         Course(r), Concord(r, s), Course(s), Concord(s, r)
  PROVE  Course(r)' /\ Concord(r, s)' /\ Course(s)' /\ Concord(s, r)'
<1> DEFINE c == r.chain
           d == s.chain
<1>0. /\ c \in Chains /\ d \in Chains /\ c # d /\ r.peer = d /\ s.peer = c
      /\ \A q \in AllRequests : q.kind = "exchange" => q \in {r, s}
      /\ pc \in [Chains -> Steps] /\ InOnePlace(r) /\ InOnePlace(s)
      /\ stage \in [Chains -> {"WAITING", "TT_TAKEN", "TT_INJECTING", "FAILED"}]
  BY PairFacts DEF TypeInv, Types, OnePlace
<1>1. \A x \in {r, s} : pc[x.chain] \in ExchangeSteps => req[x.chain] = x
  <2> SUFFICES ASSUME NEW x \in {r, s}, pc[x.chain] \in ExchangeSteps PROVE req[x.chain] = x
    OBVIOUS
  <2>1. req[x.chain] \in AllRequests /\ req[x.chain].chain = x.chain /\ req[x.chain].kind = "exchange"
    BY <1>0 DEF TypeInv, Sorted, Handling
  <2> QED
    BY <1>0, <2>1
<1>2. pc[c] \in ExchangeSteps
  BY DEF Exchange, SetStage, SetTarget, Await, Test, ReadPeer, Inject, EndExchange, End, Goto, ExchangeSteps
<1>3. /\ req[c] = r /\ Peer(c) = d /\ ~Over(r)
      /\ pc[d] \in ExchangeSteps => ~Over(s)
  <2>1. \A x \in {r, s} : pc[x.chain] \in ExchangeSteps => Holds(x, 0)
    BY <1>1 DEF Holds, Handling
  <2> QED
    BY <1>0, <1>1, <1>2, <2>1 DEF Over, Peer
<1>4. /\ UNCHANGED late /\ pc'[d] = pc[d] /\ (stage'[d] = stage[d])
      /\ Over(s) => Over(s)'
      /\ Injected(s)' <=> Injected(s)
      /\ TimedOut(r, s) = TimedOut(s, r)
      /\ TimedOut(r, s)' = TimedOut(r, s)
      /\ TimedOut(s, r)' = TimedOut(r, s)
  <2>1. Injected(s)' <=> Injected(s)
    BY <1>0, <1>3, ExchangeTable DEF Injected
  <2>2. UNCHANGED late /\ pc'[d] = pc[d] /\ stage'[d] = stage[d]
    BY <1>0, ExchangeTable
  <2>3. {r, s} = {s, r}
    OBVIOUS
  <2>4. /\ TimedOut(r, s) = TimedOut(s, r) /\ TimedOut(r, s)' = TimedOut(r, s)
        /\ TimedOut(s, r)' = TimedOut(r, s)
    BY <2>2, <2>3, Zenon DEF TimedOut
  <2> QED
    BY <2>1, <2>2, <2>4, OverStays
<1>5. CASE /\ pc[c] \in Early /\ pc'[c] \in Early \cup {"x_fail"}
           /\ \/ UNCHANGED stage
              \/ \E v \in {"WAITING", "TT_TAKEN"} : stage' = [stage EXCEPT ![c] = v]
           /\ UNCHANGED injection
  <2>1. stage[c] \notin {"TT_INJECTING", "FAILED"} /\ stage'[c] \notin {"TT_INJECTING", "FAILED"}
    BY <1>0, <1>3, <1>5 DEF Course, Early, InjectingSteps
  <2>2. ~Injected(r) /\ ~Injected(r)'
    BY <1>3, <1>5, <2>1 DEF Course, Injected
  <2>3. Course(r)' /\ Course(s)'
    BY <1>4, <1>5, <2>1, <2>2 DEF Course, Early, InjectingSteps
  <2>4. Concord(r, s)' /\ Concord(s, r)'
    BY <1>4, <1>5, <2>1, <2>2 DEF Concord, Early
  <2> QED
    BY <2>3, <2>4
<1>6. CASE /\ pc[c] \in Early /\ pc'[c] = "x_agree" /\ UNCHANGED injection
           /\ stage' = [stage EXCEPT ![c] = "TT_INJECTING"]
  <2>1. stage[c] \notin {"TT_INJECTING", "FAILED"} /\ stage'[c] = "TT_INJECTING"
    BY <1>0, <1>3, <1>6 DEF Course, Early, InjectingSteps
  <2>2. ~Injected(r) /\ ~Injected(r)'
    BY <1>3, <1>6, <2>1 DEF Course, Injected
  <2>3. Course(r)' /\ Course(s)'
    BY <1>4, <1>6, <2>1, <2>2 DEF Course, Early, InjectingSteps
  <2>4. Concord(r, s)' /\ Concord(s, r)'
    BY <1>4, <1>6, <2>1, <2>2 DEF Concord, Early
  <2> QED
    BY <2>3, <2>4
<1>7. CASE /\ pc[c] = "x_agree" /\ pc'[c] = "x_agreed" /\ UNCHANGED <<stage, injection>>
           /\ stage[d] \in {"TT_INJECTING", "FAILED"} \/ r \in late
  <2>1. stage[c] = "TT_INJECTING" /\ ~Injected(r) /\ ~Injected(r)'
    BY <1>3, <1>7 DEF Course, InjectingSteps, Injected
  <2>2. Course(r)' /\ Course(s)'
    BY <1>4, <1>7, <2>1 DEF Course, InjectingSteps
  <2>3. Concord(r, s)' /\ Concord(s, r)'
    BY <1>4, <1>7, <2>1 DEF Concord, TimedOut
  <2> QED
    BY <2>2, <2>3
<1>8. CASE /\ pc[c] = "x_agreed" /\ UNCHANGED <<stage, injection>>
           /\ pc'[c] = IF stage[d] = "TT_INJECTING" THEN "x_read" ELSE "x_fail"
  <2>1. stage[c] = "TT_INJECTING" /\ ~Injected(r) /\ ~Injected(r)'
    BY <1>3, <1>8 DEF Course, InjectingSteps, Injected
  <2>2. Course(r)' /\ Course(s)'
    BY <1>4, <1>8, <2>1 DEF Course, InjectingSteps
  <2>3. CASE TimedOut(r, s)
    BY <1>4, <2>2, <2>3 DEF Concord
  <2>4. CASE ~TimedOut(r, s) /\ stage[d] = "TT_INJECTING"
    <3>1. pc[d] \notin {"x_fail", "x_failed"}
      BY <1>3, <1>4, <2>1, <2>4 DEF Course, Concord, InjectingSteps, ExchangeSteps
    <3> QED
      BY <1>4, <1>8, <2>1, <2>2, <2>4, <3>1 DEF Concord
  <2>5. CASE ~TimedOut(r, s) /\ stage[d] # "TT_INJECTING"
    <3>1. stage[d] = "FAILED"
      BY <1>8, <2>5 DEF Concord
    <3>2. pc[d] \notin {"x_read", "x_inject"} /\ ~Injected(s)
      BY <2>5 DEF Course, InjectingSteps
    <3> QED
      BY <1>4, <1>8, <2>1, <2>2, <2>5, <3>1, <3>2 DEF Concord
  <2> QED
    BY <2>3, <2>4, <2>5
<1>9. CASE pc[c] = "x_read" /\ pc'[c] = "x_inject" /\ UNCHANGED <<stage, injection>>
  <2>1. Injected(r)' <=> Injected(r)
    BY <1>9 DEF Injected
  <2>2. Course(r)' /\ Course(s)'
    BY <1>3, <1>4, <1>9, <2>1 DEF Course, InjectingSteps
  <2>3. Concord(r, s)' /\ Concord(s, r)'
    BY <1>4, <1>9, <2>1 DEF Concord
  <2> QED
    BY <2>2, <2>3
<1>10. CASE /\ pc[c] = "x_inject" /\ pc'[c] = "x_end" /\ UNCHANGED stage
            /\ injection' = injection \cup {<<r.id, c>>}
  <2>1. Course(r)' /\ Course(s)'
    BY <1>3, <1>4, <1>10 DEF Course, InjectingSteps
  <2>2. Concord(r, s)' /\ Concord(s, r)'
    BY <1>4, <1>10 DEF Concord
  <2> QED
    BY <2>1, <2>2
<1>11. CASE /\ pc[c] = "x_fail" /\ pc'[c] = "x_failed" /\ UNCHANGED injection
            /\ stage' = [stage EXCEPT ![c] = "FAILED"]
  <2>1. ~Injected(r) /\ ~Injected(r)' /\ stage'[c] = "FAILED"
    BY <1>0, <1>3, <1>11 DEF Course, Injected
  <2>2. Course(r)' /\ Course(s)'
    BY <1>4, <1>11, <2>1 DEF Course, InjectingSteps
  <2>3. Concord(r, s)' /\ Concord(s, r)'
    BY <1>4, <1>11, <2>1 DEF Concord
  <2> QED
    BY <2>2, <2>3
<1>12. CASE pc[c] \in {"x_end", "x_failed"} /\ pc'[c] = "loop" /\ UNCHANGED <<stage, injection>>
  <2>1. Injected(r)' <=> Injected(r)
    BY <1>12 DEF Injected
  <2>2. Over(r)'
    <3>1. Handle(c) /\ "loop" \notin Handling
      BY DEF Handle, Handling, ExchangeSteps, InterruptSteps
    <3>2. UNCHANGED <<queue, callerVars>>
      BY <1>0, <3>1, HandleFrame
    <3>3. Holds(r, 0)
      BY <1>2, <1>3 DEF Holds, Handling
    <3>4. \A i \in Nat : ~Asks(r, i) /\ (i # 0 => ~Holds(r, i))
      BY <1>0, <3>3 DEF InOnePlace
    <3>5. Sender(r) \in sent
      BY <1>0, <3>3 DEF InOnePlace
    <3>6. \A i \in Nat : ~Asks(r, i)' /\ ~Holds(r, i)'
      BY <1>12, <3>1, <3>2, <3>4 DEF Asks, Holds, callerVars
    <3> QED
      BY <3>2, <3>5, <3>6 DEF Over, Sender, callerVars
  <2>3. Course(r)' /\ Course(s)'
    BY <1>3, <1>4, <1>12, <2>1, <2>2 DEF Course, InjectingSteps
  <2>4. Concord(r, s)' /\ Concord(s, r)'
    BY <1>4, <1>12, <2>1 DEF Concord
  <2> QED
    BY <2>3, <2>4
<1>13. c \in Chains /\ Exchange(c)
  BY <1>0
<1> HIDE DEF c, d
<1> QED
  BY <1>3, <1>5, <1>6, <1>7, <1>8, <1>9, <1>10, <1>11, <1>12, <1>13, ExchangeTable

(* Who injected was handling the exchange. *)
LEMMA InjectionsInductive == ASSUME TypeInv, Injections, [Next]_vars PROVE Injections'
<1>1. ASSUME UNCHANGED injection,
             \A d \in Chains : req'[d] = req[d] \/ (req'[d] \in AllRequests /\ req'[d].chain = d)
      PROVE  Injections'
  BY <1>1 DEF Injections
<1>2. CASE Caller
  BY <1>1, <1>2 DEF Caller, Take, InvokeTest, InvokePlace, InvokeSkip, CallerOnly, workerVars, resultVars
<1>3. ASSUME NEW c \in Chains, Pop(c) \/ Skip(c) PROVE Injections'
  <2>1. Head(queue[c]) \in AllRequests /\ Head(queue[c]).chain = c
    <3>1. queue[c] \in Seq(AllRequests) /\ queue[c] # <<>>
      BY <1>3 DEF Pop, Skip, Drained, Goto, TypeInv, Types, Sorted
    <3>2. Head(queue[c]) = queue[c][1] /\ 1 \in 1..Len(queue[c]) /\ queue[c][1] \in AllRequests
      BY <3>1
    <3> QED
      BY <3>2 DEF TypeInv, Sorted
  <2>2. req' = [req EXCEPT ![c] = Head(queue[c])] /\ UNCHANGED injection
    BY <1>3 DEF Pop, Skip, resultVars
  <2> QED
    BY <1>1, <2>1, <2>2 DEF TypeInv, Types
<1>4. ASSUME NEW c \in Chains, Loop(c), ~Pop(c), ~Skip(c) PROVE Injections'
  BY <1>1, <1>4 DEF Loop, Enter, Look, Leave, DrainLock, SkipAnswer, DrainEnd, Report, Finish, Local,
    Private, resultVars
<1>5. ASSUME NEW c \in Chains, Handle(c), ~Inject(c) PROVE Injections'
  <2>1. UNCHANGED <<req, injection>>
    BY <1>5 DEF Handle, Start, Exchange, SetStage, SetTarget, Await, Test, ReadPeer, EndExchange, End,
      Interrupt,
      InterruptChain, HardInterrupt, Stats, EndLocal, Private, Local, resultVars
  <2> QED
    BY <1>1, <2>1
<1>6. ASSUME NEW c \in Chains, Inject(c) PROVE Injections'
  <2>1. req' = req /\ injection' = injection \cup {<<req[c].id, c>>} /\ pc[c] = "x_inject"
    BY <1>6 DEF Inject, Goto
  <2>2. req[c] \in AllRequests /\ req[c].chain = c /\ req[c].kind = "exchange"
    BY <2>1 DEF TypeInv, Sorted, Handling, ExchangeSteps
  <2>3. \A m \in Commands : m.id = req[c].id => m.kind = "exchange"
    BY <2>2, RequestFacts, ControllerAssumption
  <2> QED
    BY <2>1, <2>2, <2>3 DEF Injections
<1>7. ASSUME NEW c \in Chains, TimeOut(c) \/ ChainWorks(c) PROVE Injections'
  BY <1>1, <1>7 DEF TimeOut, ChainWorks, workerVars, resultVars
<1>8. CASE UNCHANGED vars
  BY <1>1, <1>8 DEF vars, workerVars, resultVars
<1> QED
  BY <1>2, <1>3, <1>4, <1>5, <1>6, <1>7, <1>8 DEF Next

LEMMA AgreementInductive ==
  ASSUME TypeInv, OnceInv, Agreement, [Next]_vars
  PROVE  Agreement'
<1> USE DEF Goto
<1> SUFFICES ASSUME NEW r \in AllRequests, NEW s \in AllRequests, Pair(r, s)
             PROVE  Course(r)' /\ Concord(r, s)'
  BY InjectionsInductive DEF Agreement, Pair
<1>0. /\ Course(r) /\ Concord(r, s) /\ Course(s) /\ Concord(s, r)
      /\ pc \in [Chains -> Steps] /\ OnePlace
  BY PairFacts DEF Agreement, TypeInv, Types, OnceInv
<1>1. CASE UNCHANGED <<stage, injection, late, pc>>
  BY <1>0, <1>1, AgreementKept
<1>2. CASE Caller
  BY <1>1, <1>2 DEF Caller, Take, InvokeTest, InvokePlace, InvokeSkip, CallerOnly, exchVars, workerVars,
    resultVars
<1>3. ASSUME NEW c \in Chains, Loop(c) PROVE Course(r)' /\ Concord(r, s)'
  <2>1. UNCHANGED <<stage, injection, late>>
    BY <1>3 DEF Loop, Enter, Look, Pop, Leave, DrainLock, Skip, SkipAnswer, DrainEnd, Report, Finish,
      Local, Private, exchVars,
      resultVars
  <2>2. PICK to \in {"loop", "look", "pop", "start", "drain_lock", "drain", "skip"} \cup Emptied : pc' = [pc EXCEPT ![c] = to]
    BY <1>3 DEF Loop, Enter, Look, Pop, Leave, DrainLock, Skip, SkipAnswer, DrainEnd, Report, Finish, Emptied
  <2>3. pc[c] \in {"loop", "look", "pop", "drain_lock", "drain", "skip"} \cup Emptied
    BY <1>3 DEF Loop, Enter, Look, Pop, Leave, DrainLock, Skip, SkipAnswer, DrainEnd, Report, Finish, Emptied
  <2>4. \A d \in Chains : \/ pc'[d] = pc[d]
                          \/ pc[d] \notin ExchangeSteps /\ pc'[d] \notin ExchangeSteps \ {"x_stage"}
    BY <1>0, <2>2, <2>3 DEF ExchangeSteps, Emptied
  <2> QED
    BY <1>0, <2>1, <2>4, AgreementKept
<1>4. ASSUME NEW c \in Chains, Start(c) \/ Interrupt(c) \/ Stats(c) PROVE Course(r)' /\ Concord(r, s)'
  <2>1. UNCHANGED <<stage, injection, late>>
    BY <1>4 DEF Start, Interrupt, Await, Test, InterruptChain, HardInterrupt, Stats, EndLocal, End,
      Local, Private,
      exchVars, resultVars
  <2>2. Handle(c)
    BY <1>4 DEF Handle
  <2>3. PICK to \in Leads : pc' = [pc EXCEPT ![c] = to]
    BY <2>2, HandleFrame
  <2>4. pc[c] \notin ExchangeSteps
    BY <1>4 DEF Start, Interrupt, Await, Test, InterruptChain, HardInterrupt, Stats, EndLocal, End,
      ExchangeSteps
  <2>5. to \notin ExchangeSteps \ {"x_stage"}
    <3>1. CASE Start(c)
      <4>1. req[c].kind \in {"exchange", "interrupt", "stats"}
        BY <3>1, RequestFacts DEF Start, TypeInv, Sorted, Handling
      <4>2. FirstStep[req[c].kind] \in {"x_stage", "i_ready", "stats"}
        BY <4>1 DEF FirstStep
      <4> QED
        BY <1>0, <2>3, <3>1, <4>2 DEF Start, ExchangeSteps
    <3>2. CASE Interrupt(c) \/ Stats(c)
      BY <1>0, <2>3, <3>2 DEF Interrupt, Await, Test, InterruptChain, HardInterrupt, Stats, EndLocal, End,
        ExchangeSteps
    <3> QED
      BY <1>4, <3>1, <3>2
  <2>6. \A d \in Chains : \/ pc'[d] = pc[d]
                          \/ pc[d] \notin ExchangeSteps /\ pc'[d] \notin ExchangeSteps \ {"x_stage"}
    BY <1>0, <2>3, <2>4, <2>5
  <2> QED
    BY <1>0, <2>1, <2>6, AgreementKept
<1>5. ASSUME NEW c \in Chains, Exchange(c) PROVE Course(r)' /\ Concord(r, s)'
  <2>1. pc[c] \in ExchangeSteps
    BY <1>5 DEF Exchange, SetStage, SetTarget, Await, Test, ReadPeer, Inject, EndExchange, End, ExchangeSteps
  <2>2. req[c] \in {r, s} /\ req[c].chain = c
    BY <2>1, PairFacts DEF TypeInv, Sorted, Handling
  <2>3. CASE c = r.chain
    BY <1>0, <1>5, <2>3, AgreementSide
  <2>4. CASE c = s.chain
    <3>1. Pair(s, r)
      BY PairFacts
    <3> QED
      BY <1>0, <1>5, <2>4, <3>1, AgreementSide
  <2> QED
    BY <2>2, <2>3, <2>4
<1>6. ASSUME NEW c \in Chains, TimeOut(c) PROVE Course(r)' /\ Concord(r, s)'
  <2>1. UNCHANGED <<stage, injection, pc>> /\ late \subseteq late'
    BY <1>6 DEF TimeOut, exchVars, resultVars
  <2> QED
    BY <1>0, <2>1, AgreementKept
<1>7. ASSUME NEW c \in Chains, ChainWorks(c) PROVE Course(r)' /\ Concord(r, s)'
  BY <1>1, <1>7 DEF ChainWorks, exchVars, workerVars, resultVars
<1>8. CASE UNCHANGED vars
  BY <1>1, <1>8 DEF vars, exchVars, workerVars, resultVars
<1> QED
  BY <1>2, <1>3, <1>4, <1>5, <1>6, <1>7, <1>8 DEF Next, Handle

(* Both controllers of an exchange that is the only one inject, or neither does, unless
   one of them ran out of time. *)
THEOREM ControllerOneSidedOnlyIfLate == Spec => []OneSidedOnlyIfLate
<1>1. ASSUME Init PROVE Agreement
  <2>1. Injections
    BY <1>1 DEF Init, Injections
  <2>2. ASSUME NEW r \in AllRequests, NEW s \in AllRequests PROVE Course(r) /\ Concord(r, s)
    <3>1. r.chain \in Chains /\ s.chain \in Chains
      BY RequestFacts
    <3>2. pc[r.chain] = "loop" /\ pc[s.chain] = "loop" /\ stage[r.chain] = "WAITING" /\ injection = {}
      BY <1>1, <3>1 DEF Init
    <3> QED
      BY <3>2 DEF Course, Concord, Injected, InjectingSteps
  <2> QED
    BY <2>1, <2>2 DEF Agreement
<1>2. ASSUME TypeInv, Agreement PROVE OneSidedOnlyIfLate
  <2> SUFFICES ASSUME NEW m \in Commands, NEW c \in Chains,
                      <<m.id, c>> \in injection, req[c].id = m.id, Peer(c) # c,
                      pc[Peer(c)] \in {"x_fail", "x_failed"}
               PROVE  \/ {req[c], req[Peer(c)]} \cap late # {}
                      \/ \E n \in Commands : n.kind = "exchange" /\ n # m
    BY DEF OneSidedOnlyIfLate
  <2> SUFFICES ASSUME ~\E n \in Commands : n.kind = "exchange" /\ n # m
               PROVE  {req[c], req[Peer(c)]} \cap late # {}
    OBVIOUS
  <2> DEFINE r == req[c]
             s == req[Peer(c)]
  <2>1. m.kind = "exchange" /\ r \in AllRequests /\ r.chain = c
    BY <1>2 DEF Agreement, Injections
  <2>2. Peer(c) = r.peer /\ r.peer \in Chains /\ r.kind = "exchange"
    BY <2>1, RequestFacts, ControllerAssumption DEF Peer
  <2>3. s \in AllRequests /\ s.chain = Peer(c) /\ s.kind = "exchange"
    BY <1>2, <2>2 DEF TypeInv, Sorted, Handling, ExchangeSteps
  <2>4. \A x, y \in Exchanges : x = y
    BY DEF Exchanges
  <2>5. Pair(r, s)
    BY <2>1, <2>2, <2>3, <2>4 DEF Pair
  <2>6. Injected(r)
    BY <2>1 DEF Injected
  <2>7. Concord(r, s)
    BY <1>2, <2>1, <2>3, <2>5 DEF Agreement
  <2>8. TimedOut(r, s)
    BY <2>3, <2>6, <2>7 DEF Concord
  <2> QED
    BY <2>8 DEF TimedOut
<1> QED
  BY <1>1, <1>2, TypeInvariant, OnceInvariant, AgreementInductive, PTL DEF Spec

-----------------------------------------------------------------------------
(* The fifth layer: what a controller that is about to answer or to end has found. *)
Ending(c) ==
  /\ pc[c] = "i_soft" => ~Working(c)
  /\ pc[c] = "drain_lock" => ~Continues(c)
  /\ pc[c] \in {"drain", "skip"} => ~Continues(c) /\ (succeeded[c] <=> Success(c))
Endings == \A c \in Chains : Ending(c)

(* The handling of a request asks a chain to stop, and does not stop it. *)
LEMMA HandleStatus == ASSUME NEW c \in Chains, Handle(c) PROVE UNCHANGED status
<1>1. CASE Start(c) \/ Stats(c)
  BY <1>1 DEF Start, Stats, EndLocal, Private, chainVars
<1>2. CASE Exchange(c)
  BY <1>2, ExchangeFrame DEF Chain!InjectAsync, chainVars
<1>3. CASE Interrupt(c)
  BY <1>3 DEF Interrupt, Await, Test, InterruptChain, HardInterrupt, EndLocal, Local, chainVars,
    Chain!InterruptAsync
<1> QED
  BY <1>1, <1>2, <1>3 DEF Handle

(* The status of a chain changes once, when its worker says so. *)
LEMMA StatusMoves ==
  ASSUME TypeInv, [Next]_vars
  PROVE  \/ UNCHANGED status
         \/ \E c \in Chains : /\ ChainWorks(c) /\ Working(c)
                              /\ \E s \in {"FINISHED", "INTERRUPTED"} : status' = [status EXCEPT ![c] = s]
<1>0. status \in [Chains -> {"WORKING", "INTERRUPTED", "FINISHED"}]
  BY DEF TypeInv, Types
<1>1. CASE Caller \/ UNCHANGED vars
  BY <1>1 DEF Caller, Take, InvokeTest, InvokePlace, InvokeSkip, CallerOnly, vars, chainVars
<1>2. ASSUME NEW c \in Chains, Loop(c) \/ TimeOut(c) PROVE UNCHANGED status
  BY <1>2 DEF Loop, Enter, Look, Pop, Leave, DrainLock, Skip, SkipAnswer, DrainEnd, Report, Finish,
    TimeOut, Local, Private,
    chainVars
<1>3. ASSUME NEW c \in Chains, Handle(c) PROVE UNCHANGED status
  BY <1>3, HandleStatus
<1>4. ASSUME NEW c \in Chains, ChainWorks(c)
      PROVE  \/ UNCHANGED status
             \/ /\ Working(c)
                /\ \E s \in {"FINISHED", "INTERRUPTED"} : status' = [status EXCEPT ![c] = s]
  <2>1. CASE Chain!Fail(c) \/ Chain!Finish(c)
    BY <2>1 DEF Chain!Fail, Chain!Finish, Chain!Stopped, Working
  <2>2. ASSUME NEW tt \in Timetables \cup {NoTT}, Chain!Iterate(c, tt)
        PROVE  \/ UNCHANGED status
               \/ /\ Working(c)
                  /\ \E s \in {"FINISHED", "INTERRUPTED"} : status' = [status EXCEPT ![c] = s]
    BY <1>0, <2>2 DEF Chain!Iterate, Chain!Stopped, Working
  <2> QED
    BY <1>4, <2>1, <2>2 DEF ChainWorks, Chain!WorkerStep
<1> QED
  BY <1>1, <1>2, <1>3, <1>4 DEF Next

(* A chain that stopped keeps its status. *)
LEMMA StatusStays ==
  ASSUME TypeInv, [Next]_vars, NEW c \in Chains, ~Working(c) PROVE status'[c] = status[c]
BY StatusMoves DEF Working, TypeInv, Types

LEMMA EndingElsewhere ==
  ASSUME NEW c \in Chains, Ending(c), ~Working(c) => status'[c] = status[c],
         pc'[c] = pc[c], stopped'[c] = stopped[c], succeeded'[c] = succeeded[c]
  PROVE  Ending(c)'
BY DEF Ending, Working, Continues, Success

LEMMA EndingsInductive == ASSUME TypeInv, Endings, [Next]_vars PROVE Endings'
<1> USE DEF Goto
<1>0. /\ pc \in [Chains -> Steps] /\ stopped \in [Chains -> BOOLEAN]
      /\ succeeded \in [Chains -> BOOLEAN]
      /\ \A d \in Chains : Ending(d) /\ (~Working(d) => status'[d] = status[d])
  BY StatusStays DEF TypeInv, Types, Endings
<1>1. ASSUME UNCHANGED <<stopped, pc, succeeded>> PROVE Endings'
  BY <1>0, <1>1, EndingElsewhere DEF Endings
<1>2. CASE Caller \/ UNCHANGED vars
  BY <1>1, <1>2 DEF Caller, Take, InvokeTest, InvokePlace, InvokeSkip, CallerOnly, workerVars, vars, fieldVars
<1>3. ASSUME NEW c \in Chains, TimeOut(c) \/ ChainWorks(c) PROVE Endings'
  BY <1>1, <1>3 DEF TimeOut, ChainWorks, fieldVars, workerVars
<1>4. ASSUME NEW c \in Chains, Ending(c)', NEW to \in Steps, pc' = [pc EXCEPT ![c] = to],
             stopped' \in {stopped, [stopped EXCEPT ![c] = TRUE]},
             succeeded' \in {succeeded, [succeeded EXCEPT ![c] = Success(c)]}
      PROVE  Endings'
  <2>1. ASSUME NEW d \in Chains, d # c PROVE Ending(d)'
    BY <1>0, <1>4, <2>1, EndingElsewhere
  <2> QED
    BY <1>4, <2>1 DEF Endings
<1>5. ASSUME NEW c \in Chains, Loop(c) PROVE Endings'
  <2> USE DEF Private, Local, fieldVars, chainVars, Steps, Handling, Emptied
  <2>1. CASE Enter(c) \/ Look(c) \/ Pop(c) \/ DrainEnd(c) \/ Report(c) \/ Finish(c)
    <3>1. PICK to \in {"loop", "look", "pop", "start", "report", "finish", "done"} :
            pc' = [pc EXCEPT ![c] = to]
      BY <2>1 DEF Enter, Look, Pop, DrainEnd, Report, Finish
    <3>2. stopped' \in {stopped, [stopped EXCEPT ![c] = TRUE]} /\ UNCHANGED succeeded
      BY <2>1 DEF Enter, Look, Pop, DrainEnd, Report, Finish
    <3>3. Ending(c)'
      BY <1>0, <3>1 DEF Ending
    <3> QED
      BY <1>4, <3>1, <3>2, <3>3
  <2>2. CASE Leave(c)
    <3>1. Ending(c)'
      BY <1>0, <2>2 DEF Leave, Ending, Continues, Working
    <3> QED
      BY <1>4, <2>2, <3>1 DEF Leave
  <2>3. CASE DrainLock(c)
    <3>1. Ending(c)'
      BY <1>0, <2>3 DEF DrainLock, Ending, Continues, Working, Success
    <3> QED
      BY <1>4, <2>3, <3>1 DEF DrainLock
  <2>4. CASE Skip(c) \/ SkipAnswer(c)
    <3>1. UNCHANGED <<stopped, status, succeeded>> /\ pc[c] \in {"drain", "skip"}
      BY <2>4 DEF Skip, SkipAnswer
    <3>2. PICK to \in {"drain", "skip"} : pc' = [pc EXCEPT ![c] = to]
      BY <2>4 DEF Skip, SkipAnswer
    <3>3. Ending(c)'
      BY <1>0, <3>1, <3>2 DEF Ending, Continues, Working, Success
    <3> QED
      BY <1>4, <3>1, <3>2, <3>3
  <2> QED
    BY <1>5, <2>1, <2>2, <2>3, <2>4 DEF Loop
<1>6. ASSUME NEW c \in Chains, Handle(c) PROVE Endings'
  <2>1. PICK to \in Leads : pc' = [pc EXCEPT ![c] = to]
    BY <1>6, HandleFrame
  <2>2. UNCHANGED succeeded /\ stopped' \in {stopped, [stopped EXCEPT ![c] = TRUE]}
    BY <1>6, HandleFrame
  <2>3. to \in Steps \ {"drain_lock", "drain", "skip"}
    BY DEF Leads, Steps, Handling, ExchangeSteps, InterruptSteps
  <2>4. to = "i_soft" => ~Working(c)
    <3>1. CASE Interrupt(c)
      BY <1>0, <2>1, <3>1 DEF Interrupt, Await, Test, InterruptChain, HardInterrupt, EndLocal, End
    <3>2. CASE Start(c)
      <4>1. FirstStep[req[c].kind] \in {"x_stage", "i_ready", "stats"}
        BY <3>2, RequestFacts DEF Start, TypeInv, Sorted, Handling, FirstStep
      <4> QED
        BY <1>0, <2>1, <3>2, <4>1 DEF Start
    <3>3. CASE Exchange(c) \/ Stats(c)
      BY <1>0, <2>1, <3>3 DEF Exchange, SetStage, SetTarget, Await, Test, ReadPeer, Inject, EndExchange, End,
        Stats, EndLocal
    <3> QED
      BY <1>6, <3>1, <3>2, <3>3 DEF Handle
  <2>5. Ending(c)'
    <3>1. ~Working(c) => ~Working(c)'
      BY <1>0 DEF Working
    <3> QED
      BY <1>0, <2>1, <2>3, <2>4, <3>1 DEF Ending
  <2> QED
    BY <1>4, <2>1, <2>2, <2>3, <2>5
<1> QED
  BY <1>2, <1>3, <1>5, <1>6 DEF Next

LEMMA EndingsInvariant == Spec => []Endings
<1>1. Init => Endings
  BY DEF Init, Endings, Ending
<1> QED
  BY <1>1, TypeInvariant, EndingsInductive, PTL DEF Spec

-----------------------------------------------------------------------------
(***************************************************************************)
(* What Processor sees of a controller: the refinement of ControllerSpec   *)
(***************************************************************************)
ShownVars == <<Pcs, Halted, status, Queues, Reqs, answer, outcome>>
Idle == {"loop", "look", "pop", "drain_lock", "drain", "skip", "report", "finish", "done"}

(* The abstract variables of one controller. *)
LEMMA ShownValues ==
  ASSUME TypeInv, NEW c \in Chains
  PROVE  /\ Pcs[c] = ShownPc(c)
         /\ Queues[c] = BeingSkipped(c) \o queue[c]
         /\ Reqs[c] = IF ShownPc(c) \in {"serve", "hard"} THEN req[c] ELSE Nobody
         /\ pc[c] \notin Idle \cup {"i_yes"} => ShownPc(c) = "serve"
         /\ queue[c] \in Seq(AllRequests) /\ <<>> \o queue[c] = queue[c]
<1>1. queue[c] \in Seq(AllRequests)
  BY DEF TypeInv, Types
<1>2. <<>> \o queue[c] = queue[c]
  BY <1>1
<1> QED
  BY <1>1, <1>2 DEF Pcs, Queues, Reqs, ShownPc, Idle

(* A step of controller c changes its abstract variables at most. *)
ActsAlone(c) ==
  /\ UNCHANGED <<callerAt, todo>>
  /\ \A d \in Chains \ {c} : /\ pc'[d] = pc[d] /\ req'[d] = req[d]
                             /\ queue'[d] = queue[d] /\ succeeded'[d] = succeeded[d]

LEMMA ShownFrame ==
  ASSUME NEW c \in Chains, ActsAlone(c)
  PROVE  /\ Pcs' = [Pcs EXCEPT ![c] = Pcs'[c]]
         /\ Queues' = [Queues EXCEPT ![c] = Queues'[c]]
         /\ Reqs' = [Reqs EXCEPT ![c] = Reqs'[c]]
         /\ Pcs'[c] = Pcs[c] => Pcs' = Pcs
         /\ Queues'[c] = Queues[c] => Queues' = Queues
         /\ Reqs'[c] = Reqs[c] => Reqs' = Reqs
<1>1. \A d \in Chains \ {c} : ShownPc(d)' = ShownPc(d)
  BY DEF ActsAlone, ShownPc
<1>2. \A d \in Chains \ {c} : BeingSkipped(d)' = BeingSkipped(d)
  BY DEF ActsAlone, BeingSkipped
<1>3. \A d \in Chains \ {c} : Pcs'[d] = Pcs[d]
  BY <1>1 DEF Pcs
<1>4. \A d \in Chains \ {c} : Queues'[d] = Queues[d]
  BY <1>2 DEF Queues, ActsAlone
<1>5. \A d \in Chains \ {c} : Reqs'[d] = Reqs[d]
  BY <1>1 DEF Reqs, ActsAlone
<1>6. Pcs = [d \in Chains |-> Pcs[d]] /\ Pcs' = [d \in Chains |-> Pcs'[d]]
  BY DEF Pcs
<1>7. Queues = [d \in Chains |-> Queues[d]] /\ Queues' = [d \in Chains |-> Queues'[d]]
  BY DEF Queues
<1>8. Reqs = [d \in Chains |-> Reqs[d]] /\ Reqs' = [d \in Chains |-> Reqs'[d]]
  BY DEF Reqs
<1> HIDE DEF Pcs, Queues, Reqs
<1>9. Pcs' = [Pcs EXCEPT ![c] = Pcs'[c]] /\ (Pcs'[c] = Pcs[c] => Pcs' = Pcs)
  BY <1>3, <1>6
<1>10. Queues' = [Queues EXCEPT ![c] = Queues'[c]] /\ (Queues'[c] = Queues[c] => Queues' = Queues)
  BY <1>4, <1>7
<1>11. Reqs' = [Reqs EXCEPT ![c] = Reqs'[c]] /\ (Reqs'[c] = Reqs[c] => Reqs' = Reqs)
  BY <1>5, <1>8
<1> QED
  BY <1>9, <1>10, <1>11

(* The kind of a request, and the command it belongs to. *)
LEMMA RequestKind ==
  ASSUME NEW r \in AllRequests
  PROVE  /\ r \in Range(Requests(Sender(r)))
         /\ KindOf[r] = IF r.kind = "stats" THEN "metrics" ELSE r.kind
         /\ r.kind # "exchange" => r.answers
<1> DEFINE m == Sender(r)
<1>1. /\ m \in Commands /\ r.answers \in BOOLEAN
      /\ r = IF r.answers THEN First(m) ELSE Second(m)
  BY RequestFacts
<1>2. First(m).answers = TRUE /\ Second(m).answers = FALSE
  BY DEF First, Second, Request
<1>3. ~r.answers => m.kind = "exchange" /\ r.kind = "exchange"
  <2>1. PICK n \in Commands : r = First(n) \/ (r = Second(n) /\ n.kind = "exchange")
    BY DEF AllRequests, Exchanges
  <2>2. First(n).answers = TRUE /\ Second(n).kind = n.kind
    BY DEF First, Second, Request
  <2> QED
    BY <2>1, <2>2, RequestFacts
<1>4. r \in Range(Requests(m))
  <2>1. CASE m.kind = "exchange"
    <3>1. Requests(m) = <<First(m), Second(m)>>
      BY <2>1 DEF Requests, First, Second
    <3>2. DOMAIN Requests(m) = 1..2 /\ Requests(m)[1] = First(m) /\ Requests(m)[2] = Second(m)
      BY <3>1
    <3> QED
      BY <1>1, <3>2 DEF Range
  <2>2. CASE m.kind # "exchange"
    <3>1. Requests(m) = <<First(m)>>
      BY <2>2 DEF Requests, First
    <3>2. DOMAIN Requests(m) = 1..1 /\ Requests(m)[1] = First(m)
      BY <3>1
    <3> QED
      BY <1>1, <1>3, <2>2, <3>2 DEF Range
  <2> QED
    BY <2>1, <2>2
<1>5. r \in AnyRequest
  BY <1>1, <1>4 DEF AnyRequest
<1> QED
  BY <1>3, <1>4, <1>5 DEF KindOf

(* Nobody was called back for the request a controller has in its hands. *)
LEMMA ShownAnswer ==
  ASSUME TypeInv, OnceInv, NEW c \in Chains, pc[c] \in Handling, NEW yes \in BOOLEAN,
         answer' = Answered(c, Word(yes))
  PROVE  /\ req[c] \in AllRequests /\ req[c].answers \in BOOLEAN
         /\ ~req[c].answers => answer' = answer
         /\ req[c].answers =>
              \E m \in Commands : /\ req[c] \in Range(Requests(m)) /\ answer[m] = "none"
                                  /\ answer' = [answer EXCEPT ![m] = Word(yes)]
<1>1. req[c] \in AllRequests /\ req[c].chain = c /\ req[c].answers \in BOOLEAN
      /\ Sender(req[c]) \in Commands
  BY RequestFacts DEF TypeInv, Sorted
<1>2. Word(yes) \in {"yes", "no"}
  BY DEF Word
<1>3. /\ ~req[c].answers => answer' = answer
      /\ req[c].answers => answer' = [answer EXCEPT ![Sender(req[c])] =
                                        IF @ = "none" THEN Word(yes) ELSE "twice"]
  BY <1>2, AnsweredTypes
<1>4. Holds(req[c], 0)
  BY <1>1 DEF Holds
<1>5. req[c].answers => answer[Sender(req[c])] = "none"
  BY <1>1, <1>4 DEF OnceInv, OnePlace, InOnePlace
<1> QED
  BY <1>1, <1>3, <1>5, RequestKind

(* Nothing that Processor could tell. *)
LEMMA ShownStill ==
  ASSUME NEW c \in Chains, ActsAlone(c), Pcs'[c] = Pcs[c], Queues'[c] = Queues[c], Reqs'[c] = Reqs[c],
         UNCHANGED <<stopped, status, answer, outcome>>
  PROVE  UNCHANGED ShownVars
BY ShownFrame DEF ShownVars, Halted

(* The end of a request: its callback is called, if it has one that does something. *)
LEMMA ShownServed ==
  ASSUME TypeInv, OnceInv, NEW c \in Chains, ActsAlone(c), NEW yes \in BOOLEAN,
         pc[c] \in Handling \ {"skip"}, pc' = [pc EXCEPT ![c] = "loop"],
         answer' = Answered(c, Word(yes)),
         UNCHANGED <<stopped, status, queue, req, outcome>>,
         IF pc[c] = "i_yes" THEN yes ELSE Shown!Possible(c, yes)
  PROVE  ShownStep(c)
<1> DEFINE from == IF pc[c] = "i_yes" THEN "hard" ELSE "serve"
<1>1. pc'[c] = "loop"
  BY DEF TypeInv, Types
<1>2. Pcs[c] = from /\ Pcs'[c] = "loop"
  <2>1. pc[c] \notin Idle
    BY DEF Idle, Handling, ExchangeSteps, InterruptSteps
  <2>2. ShownPc(c)' = "loop"
    BY <1>1 DEF ShownPc
  <2>3. ShownPc(c) = from
    BY <2>1, ShownValues DEF ShownPc
  <2> QED
    BY <2>2, <2>3 DEF Pcs
<1>3. Reqs[c] = req[c] /\ Reqs'[c] = Nobody
  BY <1>2 DEF Pcs, Reqs
<1>4. Queues'[c] = Queues[c]
  BY <1>1 DEF Queues, BeingSkipped, ActsAlone, Handling, ExchangeSteps, InterruptSteps
<1>5. Shown!Served(c, from)
  BY <1>2, <1>3, <1>4, ShownFrame DEF Shown!Served, Shown!Goto, Halted
<1>6. CASE ~req[c].answers
  <2>1. answer' = answer
    BY <1>6, ShownAnswer
  <2>2. req[c].kind = "exchange" /\ from = "serve"
    <3>1. req[c].kind = "exchange"
      BY <1>6, RequestKind DEF TypeInv, Sorted
    <3> QED
      BY <3>1 DEF TypeInv, Sorted, InterruptSteps
  <2>3. Shown!Silent(c)
    BY <1>3, <1>5, <1>6, <2>2 DEF Shown!Silent
  <2> QED
    BY <2>1, <2>3 DEF ShownStep
<1>7. CASE req[c].answers
  <2>1. PICK m \in Commands : /\ req[c] \in Range(Requests(m)) /\ answer[m] = "none"
                              /\ answer' = [answer EXCEPT ![m] = Word(yes)]
    BY <1>7, ShownAnswer
  <2>2. Shown!Answer(c, req[c], yes)
    BY <1>3, <1>5, <1>7 DEF Shown!Answer
  <2> QED
    BY <2>1, <2>2 DEF ShownStep
<1> QED
  BY <1>6, <1>7, ShownAnswer

(* A step within a handler. *)
LEMMA ShownGoesOn ==
  ASSUME TypeInv, NEW c \in Chains, ActsAlone(c), NEW to \in Handling \ {"skip", "i_yes"},
         pc[c] \in Handling \ {"skip", "i_yes"}, pc' = [pc EXCEPT ![c] = to],
         UNCHANGED <<stopped, status, queue, req, answer, outcome>>
  PROVE  UNCHANGED ShownVars
<1>1. pc'[c] = to
  BY DEF TypeInv, Types
<1>2. Pcs'[c] = Pcs[c]
  BY <1>1 DEF Pcs, ShownPc, Handling, ExchangeSteps, InterruptSteps
<1>3. Reqs'[c] = Reqs[c]
  BY <1>2 DEF Pcs, Reqs
<1>4. Queues'[c] = Queues[c]
  BY <1>1 DEF Queues, BeingSkipped, ActsAlone
<1> QED
  BY <1>2, <1>3, <1>4, ShownStill

(* What handling a request shows. *)
LEMMA ShownHandle ==
  ASSUME TypeInv, OnceInv, Endings, NEW c \in Chains, Handle(c), UNCHANGED status
  PROVE  ShownStep(c) \/ UNCHANGED ShownVars
<1> USE DEF Goto
<1>0. ActsAlone(c) /\ UNCHANGED <<queue, req, outcome>> /\ pc[c] \in Handling \ {"skip"}
  <2>1. UNCHANGED <<queue, req, succeeded, outcome, callerVars>> /\ pc[c] \in Handling \ {"skip"}
        /\ \E to \in Leads : pc' = [pc EXCEPT ![c] = to]
    BY HandleFrame
  <2> QED
    BY <2>1 DEF ActsAlone, callerVars, TypeInv, Types
<1>1. /\ req[c] \in AllRequests
      /\ KindOf[req[c]] = IF req[c].kind = "stats" THEN "metrics" ELSE req[c].kind
  BY <1>0, RequestKind DEF TypeInv, Sorted
<1>2. pc[c] # "i_yes" => Reqs[c] = req[c]
  <2>1. pc[c] \notin Idle
    BY <1>0 DEF Idle, Handling, ExchangeSteps, InterruptSteps
  <2> QED
    BY <2>1, ShownValues
<1>3. ASSUME NEW to \in Handling \ {"skip", "i_yes"}, pc[c] # "i_yes", pc' = [pc EXCEPT ![c] = to],
             UNCHANGED <<stopped, answer>>
      PROVE  UNCHANGED ShownVars
  BY <1>0, <1>3, ShownGoesOn
<1>4. CASE Start(c)
  <2>1. req[c].kind \in {"exchange", "interrupt", "stats"}
    BY <1>1, RequestFacts
  <2>2. FirstStep[req[c].kind] \in {"x_stage", "i_ready", "stats"}
    BY <2>1 DEF FirstStep
  <2>3. UNCHANGED stopped /\ pc[c] = "start"
    BY <1>4 DEF Start, Private, fieldVars
  <2>4. CASE Working(c) /\ (req[c].kind = "exchange" => Working(Peer(c)))
    <3>1. pc' = [pc EXCEPT ![c] = FirstStep[req[c].kind]] /\ UNCHANGED answer
      BY <1>4, <2>4 DEF Start
    <3>2. FirstStep[req[c].kind] \in Handling \ {"skip", "i_yes"}
      BY <2>2 DEF Handling, ExchangeSteps, InterruptSteps
    <3> QED
      BY <1>3, <2>3, <3>1, <3>2
  <2>5. CASE ~(Working(c) /\ (req[c].kind = "exchange" => Working(Peer(c))))
    <3>1. pc' = [pc EXCEPT ![c] = "loop"] /\ answer' = Answered(c, Word(FALSE))
      BY <1>4, <2>5 DEF Start, Word
    <3>2. Shown!Possible(c, FALSE)
      BY <1>1, <1>2, <2>1, <2>3, <2>5 DEF Shown!Possible, Shown!Works, Working
    <3> QED
      BY <1>0, <2>3, <3>1, <3>2, ShownServed
  <2> QED
    BY <2>4, <2>5
<1>5. CASE Exchange(c)
  <2> USE DEF SetStage, SetTarget, Await, Test, ReadPeer, Inject, EndExchange, End, Local, Private, fieldVars,
          resultVars
  <2>1. UNCHANGED stopped /\ pc[c] \in ExchangeSteps
    BY <1>5 DEF Exchange, ExchangeSteps
  <2>2. CASE \E from \in {"x_end", "x_failed"}, yes \in BOOLEAN : EndExchange(c, from, Word(yes))
    <3>1. PICK yes \in BOOLEAN : pc' = [pc EXCEPT ![c] = "loop"] /\ answer' = Answered(c, Word(yes))
      BY <2>2
    <3>2. pc[c] # "i_yes" /\ Shown!Possible(c, yes)
      BY <1>0, <1>1, <1>2, <2>1 DEF Shown!Possible, TypeInv, Sorted, ExchangeSteps
    <3> QED
      BY <1>0, <2>1, <3>1, <3>2, ShownServed
  <2>3. CASE ~\E from \in {"x_end", "x_failed"}, yes \in BOOLEAN : EndExchange(c, from, Word(yes))
    <3>1. ~EndExchange(c, "x_end", "yes") /\ ~EndExchange(c, "x_failed", "no")
      <4>1. Word(TRUE) = "yes" /\ Word(FALSE) = "no"
        BY DEF Word
      <4> HIDE DEF EndExchange
      <4> QED
        BY <2>3, <4>1
    <3>2. UNCHANGED answer /\ \E to \in ExchangeSteps : pc' = [pc EXCEPT ![c] = to]
      BY <1>5, <3>1 DEF Exchange, ExchangeSteps
    <3> QED
      BY <1>3, <2>1, <3>2 DEF Handling, ExchangeSteps
  <2> QED
    BY <2>2, <2>3
<1>6. CASE Interrupt(c)
  <2> USE DEF Local, fieldVars, resultVars
  <2>1. CASE \/ \E from \in {"i_ready", "i_stop"}, condition \in BOOLEAN, to \in {"i_readytest", "i_stoptest"} :
                  Await(c, from, condition, to)
             \/ Test(c, "i_readytest", CanInterrupt(c), "i_call", "i_hard")
             \/ Test(c, "i_stoptest", ~Working(c), "i_soft", "i_hard")
             \/ InterruptChain(c)
    <3>1. UNCHANGED <<stopped, answer>> /\ pc[c] # "i_yes"
          /\ \E to \in {"i_readytest", "i_stoptest", "i_call", "i_hard", "i_soft", "i_stop"} :
               pc' = [pc EXCEPT ![c] = to]
      BY <2>1 DEF Await, Test, InterruptChain
    <3> QED
      BY <1>3, <3>1 DEF Handling, InterruptSteps
  <2>2. CASE EndLocal(c, "i_soft", IF status[c] = "INTERRUPTED" THEN "yes" ELSE "no")
    <3> DEFINE yes == status[c] = "INTERRUPTED"
    <3>1. /\ pc' = [pc EXCEPT ![c] = "loop"] /\ answer' = Answered(c, Word(yes)) /\ UNCHANGED stopped
          /\ pc[c] = "i_soft"
      BY <2>2 DEF EndLocal, End, Word
    <3>2. ~Working(c)
      BY <3>1 DEF Endings, Ending
    <3>3. req[c].kind = "interrupt"
      BY <3>1 DEF TypeInv, Sorted, InterruptSteps
    <3>4. Shown!Possible(c, yes)
      BY <1>1, <1>2, <3>1, <3>2, <3>3 DEF Shown!Possible, Shown!Works, Working
    <3>5. yes \in BOOLEAN
      OBVIOUS
    <3> HIDE DEF yes
    <3> QED
      BY <1>0, <3>1, <3>4, <3>5, ShownServed
  <2>3. CASE EndLocal(c, "i_yes", "yes")
    <3>1. /\ pc' = [pc EXCEPT ![c] = "loop"] /\ answer' = Answered(c, Word(TRUE)) /\ UNCHANGED stopped
          /\ pc[c] = "i_yes"
      BY <2>3 DEF EndLocal, End, Word
    <3> QED
      BY <1>0, <3>1, ShownServed
  <2>4. CASE HardInterrupt(c)
    <3>1. /\ pc[c] = "i_hard" /\ pc' = [pc EXCEPT ![c] = "i_yes"] /\ UNCHANGED answer
          /\ stopped' = [stopped EXCEPT ![c] = TRUE]
      BY <2>4 DEF HardInterrupt
    <3>2. pc'[c] = "i_yes" /\ Halted' = Halted \cup {c} /\ req[c].kind = "interrupt"
      BY <3>1 DEF TypeInv, Types, Sorted, InterruptSteps, Halted
    <3>3. Pcs[c] = "serve" /\ Pcs'[c] = "hard"
      BY <3>1, <3>2 DEF Pcs, ShownPc
    <3>4. Reqs[c] = req[c] /\ Reqs'[c] = Reqs[c]
      BY <1>0, <3>3 DEF Pcs, Reqs
    <3>5. Queues'[c] = Queues[c]
      BY <1>0, <3>1, <3>2 DEF Queues, BeingSkipped, ActsAlone
    <3>6. Shown!HardInterrupt(c)
      BY <1>0, <1>1, <3>2, <3>3, <3>4, <3>5, ShownFrame DEF Shown!HardInterrupt, Shown!Goto
    <3>7. Shown!Silent(c)
      BY <3>6 DEF Shown!Silent
    <3> QED
      BY <1>0, <3>1, <3>7 DEF ShownStep
  <2> QED
    BY <1>6, <2>1, <2>2, <2>3, <2>4 DEF Interrupt, Await, Ready, Working
<1>7. CASE Stats(c)
  <2>1. /\ pc' = [pc EXCEPT ![c] = "loop"] /\ answer' = Answered(c, Word(TRUE)) /\ UNCHANGED stopped
        /\ pc[c] = "stats"
    BY <1>7 DEF Stats, EndLocal, End, Word, fieldVars
  <2>2. req[c].kind = "stats"
    BY <2>1 DEF TypeInv, Sorted
  <2>3. Shown!Possible(c, TRUE)
    BY <1>1, <1>2, <2>1, <2>2 DEF Shown!Possible
  <2> QED
    BY <1>0, <2>1, <2>3, ShownServed
<1> QED
  BY <1>4, <1>5, <1>6, <1>7 DEF Handle

(* What the loop of a controller shows. *)
LEMMA ShownLoop ==
  ASSUME TypeInv, Locked, Results, OnceInv, Endings, NEW c \in Chains, Loop(c)
  PROVE  ShownStep(c) \/ UNCHANGED ShownVars
<1> USE DEF Goto
<1>0. /\ ActsAlone(c) /\ UNCHANGED status
      /\ pc \in [Chains -> Steps] /\ queue[c] \in Seq(AllRequests) /\ Ending(c)
  <2>1. UNCHANGED <<callerAt, todo, status>>
    BY DEF Loop, Enter, Look, Pop, Leave, DrainLock, Skip, SkipAnswer, DrainEnd, Report, Finish, Local,
      Private, chainVars,
      callerVars
  <2>2. \A d \in Chains \ {c} : pc'[d] = pc[d] /\ queue'[d] = queue[d]
    BY DEF Loop, Enter, Look, Pop, Leave, DrainLock, Skip, SkipAnswer, DrainEnd, Report, Finish, Local,
      Private, fieldVars,
      TypeInv, Types
  <2>3. \A d \in Chains \ {c} : req'[d] = req[d] /\ succeeded'[d] = succeeded[d]
    BY DEF Loop, Enter, Look, Pop, Leave, DrainLock, Skip, SkipAnswer, DrainEnd, Report, Finish, Local,
      Private, TypeInv,
      Types
  <2> QED
    BY <2>1, <2>2, <2>3 DEF ActsAlone, TypeInv, Types, Endings
<1>1. queue[c] # <<>> => /\ Head(queue[c]) \in AllRequests /\ Tail(queue[c]) \in Seq(AllRequests)
                         /\ queue[c] = <<Head(queue[c])>> \o Tail(queue[c])
  BY <1>0
<1>2. \A q \in Seq(AllRequests) : <<>> \o q = q
  OBVIOUS
<1>3. CASE Enter(c)
  <2>1. /\ pc[c] = "loop" /\ pc' = [pc EXCEPT ![c] = "look"] /\ Continues(c)
        /\ UNCHANGED <<queue, stopped, answer, outcome>>
    BY <1>3 DEF Enter, Local, fieldVars, resultVars
  <2>2. pc'[c] = "look"
    BY <1>0, <2>1
  <2>3. Pcs[c] = "loop" /\ Pcs'[c] = "look"
    BY <2>1, <2>2 DEF Pcs, ShownPc
  <2>4. Reqs'[c] = Reqs[c]
    BY <2>3 DEF Pcs, Reqs
  <2>5. Queues'[c] = Queues[c]
    BY <1>0, <2>1, <2>2 DEF Queues, BeingSkipped, ActsAlone
  <2>6. Shown!Enter(c)
    BY <1>0, <2>1, <2>3, <2>4, <2>5, ShownFrame DEF Shown!Enter, Shown!Goto, Shown!Continues, Shown!Works,
      Halted, Continues, Working
  <2> QED
    BY <2>1, <2>6 DEF ShownStep, Shown!Silent
<1>4. CASE Look(c)
  <2>1. PICK to \in {"loop", "pop"} :
          /\ pc[c] = "look" /\ pc' = [pc EXCEPT ![c] = to] /\ (to = "loop" <=> queue[c] = <<>>)
          /\ UNCHANGED <<queue, stopped, answer, outcome>>
    BY <1>4 DEF Look, Local, fieldVars, resultVars
  <2>2. pc'[c] = to
    BY <1>0, <2>1
  <2>3. Pcs[c] = "look" /\ Pcs'[c] = IF to = "loop" THEN "loop" ELSE "look"
    BY <2>1, <2>2 DEF Pcs, ShownPc
  <2>4. Reqs'[c] = Reqs[c]
    BY <2>3 DEF Pcs, Reqs
  <2>5. Queues'[c] = Queues[c] /\ Queues[c] = queue[c]
    BY <1>0, <1>2, <2>1, <2>2 DEF Queues, BeingSkipped
  <2>6. CASE to = "pop"
    BY <1>0, <2>1, <2>3, <2>4, <2>5, <2>6, ShownStill
  <2>7. CASE to = "loop"
    <3>1. Shown!FindNone(c)
      BY <1>0, <2>1, <2>3, <2>4, <2>5, <2>7, ShownFrame DEF Shown!FindNone, Shown!Goto, Halted
    <3> QED
      BY <2>1, <3>1 DEF ShownStep, Shown!Silent
  <2> QED
    BY <2>6, <2>7
<1>5. CASE Pop(c)
  <2>1. /\ pc[c] = "pop" /\ pc' = [pc EXCEPT ![c] = "start"] /\ queue[c] # <<>>
        /\ req' = [req EXCEPT ![c] = Head(queue[c])] /\ queue' = [queue EXCEPT ![c] = Tail(@)]
        /\ UNCHANGED <<stopped, answer, outcome>>
    BY <1>5 DEF Pop, resultVars, TypeInv, Sorted
  <2>2. pc'[c] = "start" /\ req'[c] = Head(queue[c]) /\ queue'[c] = Tail(queue[c])
    BY <1>0, <2>1 DEF TypeInv, Types
  <2>3. Pcs[c] = "look" /\ Pcs'[c] = "serve"
    BY <2>1, <2>2 DEF Pcs, ShownPc
  <2>4. Queues[c] = queue[c] /\ Queues'[c] = Tail(queue[c])
    BY <1>0, <1>1, <1>2, <2>1, <2>2 DEF Queues, BeingSkipped
  <2>5. Reqs'[c] = Head(queue[c])
    BY <2>2, <2>3 DEF Pcs, Reqs
  <2>6. Shown!Take(c)
    BY <1>0, <2>1, <2>3, <2>4, <2>5, ShownFrame DEF Shown!Take, Shown!Goto, Halted
  <2> QED
    BY <2>1, <2>6 DEF ShownStep, Shown!Silent
<1>6. CASE Leave(c)
  <2>1. /\ pc[c] = "loop" /\ pc' = [pc EXCEPT ![c] = "drain_lock"]
        /\ UNCHANGED <<queue, stopped, answer, outcome>>
    BY <1>6 DEF Leave, Local, fieldVars, resultVars
  <2>2. pc'[c] = "drain_lock"
    BY <1>0, <2>1
  <2>3. Pcs'[c] = Pcs[c] /\ Pcs[c] = "loop"
    BY <2>1, <2>2 DEF Pcs, ShownPc
  <2>4. Reqs'[c] = Reqs[c]
    BY <2>3 DEF Pcs, Reqs
  <2>5. Queues'[c] = Queues[c]
    BY <1>0, <2>1, <2>2 DEF Queues, BeingSkipped, ActsAlone
  <2> QED
    BY <1>0, <2>1, <2>3, <2>4, <2>5, ShownStill
<1>7. CASE DrainLock(c)
  <2>1. /\ pc[c] = "drain_lock" /\ pc' = [pc EXCEPT ![c] = "drain"]
        /\ UNCHANGED <<queue, stopped, answer, outcome>>
    BY <1>7 DEF DrainLock, resultVars
  <2>2. pc'[c] = "drain" /\ ~Continues(c)
    BY <1>0, <2>1 DEF Ending
  <2>3. Pcs[c] = "loop" /\ Pcs'[c] = "drain"
    BY <2>1, <2>2 DEF Pcs, ShownPc
  <2>4. Reqs'[c] = Reqs[c]
    BY <2>3 DEF Pcs, Reqs
  <2>5. Queues'[c] = Queues[c]
    BY <1>0, <2>1, <2>2 DEF Queues, BeingSkipped, ActsAlone
  <2>6. Shown!Leave(c)
    BY <1>0, <2>1, <2>2, <2>3, <2>4, <2>5, ShownFrame DEF Shown!Leave, Shown!Goto, Shown!Continues,
      Shown!Works,
      Halted, Continues, Working
  <2> QED
    BY <2>1, <2>6 DEF ShownStep, Shown!Silent
<1>8. CASE Skip(c)
  <2>1. /\ pc[c] = "drain" /\ pc' = [pc EXCEPT ![c] = "skip"] /\ queue[c] # <<>>
        /\ req' = [req EXCEPT ![c] = Head(queue[c])] /\ queue' = [queue EXCEPT ![c] = Tail(@)]
        /\ UNCHANGED <<stopped, answer, outcome>>
    BY <1>8 DEF Skip, Drained, Rest, resultVars
  <2>2. pc'[c] = "skip" /\ req'[c] = Head(queue[c]) /\ queue'[c] = Tail(queue[c]) /\ locker[c] = c
    BY <1>0, <2>1 DEF Locked, TypeInv, Types
  <2>3. Pcs'[c] = Pcs[c] /\ Pcs[c] = "drain"
    BY <2>1, <2>2 DEF Pcs, ShownPc
  <2>4. Reqs'[c] = Reqs[c]
    BY <2>3 DEF Pcs, Reqs
  <2>5. Queues'[c] = Queues[c]
    BY <1>0, <1>1, <1>2, <2>1, <2>2 DEF Queues, BeingSkipped
  <2> QED
    BY <1>0, <2>1, <2>3, <2>4, <2>5, ShownStill
<1>9. CASE SkipAnswer(c)
  <2>1. /\ pc[c] = "skip" /\ pc' = [pc EXCEPT ![c] = "drain"] /\ answer' = Answered(c, Word(FALSE))
        /\ UNCHANGED <<queue, req, stopped, outcome>>
    BY <1>9 DEF SkipAnswer, Private, fieldVars, Word
  <2>2. pc'[c] = "drain" /\ locker[c] = c /\ pc[c] \in Handling
    BY <1>0, <2>1 DEF Locked, Handling
  <2>3. Pcs'[c] = Pcs[c] /\ Pcs[c] = "drain"
    BY <2>1, <2>2 DEF Pcs, ShownPc
  <2>4. Reqs'[c] = Reqs[c]
    BY <2>3 DEF Pcs, Reqs
  <2>5. /\ Queues[c] = <<req[c]>> \o queue[c] /\ Queues'[c] = queue[c]
        /\ Queues[c] # <<>> /\ Head(Queues[c]) = req[c] /\ Tail(Queues[c]) = queue[c]
    <3>1. req[c] \in AllRequests
      BY <2>2 DEF TypeInv, Sorted
    <3>2. Queues[c] = <<req[c]>> \o queue[c] /\ Queues'[c] = queue[c]
      BY <1>0, <1>2, <2>1, <2>2 DEF Queues, BeingSkipped
    <3> QED
      BY <1>0, <3>1, <3>2
  <2>6. Shown!Skip(c)
    BY <1>0, <2>1, <2>3, <2>4, <2>5, ShownFrame DEF Shown!Skip, Halted
  <2>7. CASE ~req[c].answers
    <3>1. answer' = answer
      BY <2>1, <2>2, <2>7, ShownAnswer
    <3> QED
      BY <2>1, <2>5, <2>6, <2>7, <3>1 DEF ShownStep, Shown!Silent
  <2>8. CASE req[c].answers
    <3>1. PICK m \in Commands : /\ req[c] \in Range(Requests(m)) /\ answer[m] = "none"
                                /\ answer' = [answer EXCEPT ![m] = Word(FALSE)]
      BY <2>1, <2>2, <2>8, ShownAnswer
    <3>2. Shown!Answer(c, req[c], FALSE)
      BY <2>5, <2>6, <2>8 DEF Shown!Answer
    <3> QED
      BY <2>1, <3>1, <3>2 DEF ShownStep
  <2> QED
    BY <2>1, <2>2, <2>7, <2>8, ShownAnswer
<1>10. CASE DrainEnd(c)
  <2>1. /\ pc[c] = "drain" /\ pc' = [pc EXCEPT ![c] = "report"] /\ queue[c] = <<>>
        /\ stopped' = [stopped EXCEPT ![c] = TRUE]
        /\ UNCHANGED <<queue, succeeded, answer, outcome>>
    BY <1>10 DEF DrainEnd, Drained, resultVars
  <2>2. /\ pc'[c] = "report" /\ locker[c] = c /\ Halted' = Halted \cup {c}
        /\ succeeded[c] <=> c \notin Halted /\ status[c] = "FINISHED"
    BY <1>0, <2>1 DEF Locked, TypeInv, Types, Halted, Ending, Success
  <2>3. Pcs[c] = "drain" /\ Pcs'[c] = IF succeeded[c] THEN "success" ELSE "failure"
    BY <2>1, <2>2 DEF Pcs, ShownPc
  <2>4. Reqs'[c] = Reqs[c]
    BY <2>3 DEF Pcs, Reqs
  <2>5. Queues[c] = <<>> /\ Queues'[c] = <<>>
    BY <1>0, <1>2, <2>1, <2>2 DEF Queues, BeingSkipped
  <2>6. Shown!DrainEnd(c)
    BY <1>0, <2>2, <2>3, <2>4, <2>5, ShownFrame DEF Shown!DrainEnd, Shown!Goto
  <2> QED
    BY <2>1, <2>6 DEF ShownStep, Shown!Silent
<1>11. CASE Report(c)
  <2>1. /\ pc[c] = "report" /\ pc' = [pc EXCEPT ![c] = "finish"]
        /\ UNCHANGED <<queue, stopped, answer>>
    BY <1>11 DEF Report, Private, fieldVars
  <2>2. pc'[c] = "finish" /\ outcome[c] = "none"
    BY <1>0, <2>1 DEF Locked
  <2>3. outcome' = [outcome EXCEPT ![c] = Word(succeeded[c])] /\ succeeded[c] \in BOOLEAN
    BY <1>11 DEF Report, Results, Resulted, Word, TypeInv, Types
  <2>4. Pcs[c] = (IF succeeded[c] THEN "success" ELSE "failure") /\ Pcs'[c] = "finish"
    BY <2>1, <2>2 DEF Pcs, ShownPc
  <2>5. Reqs'[c] = Reqs[c]
    BY <2>4 DEF Pcs, Reqs
  <2>6. Queues'[c] = Queues[c]
    BY <1>0, <2>1, <2>2 DEF Queues, BeingSkipped, ActsAlone
  <2>7. Shown!Report(c, succeeded[c])
    BY <1>0, <2>1, <2>4, <2>5, <2>6, ShownFrame DEF Shown!Report, Shown!Goto, Halted
  <2> QED
    BY <2>1, <2>2, <2>3, <2>7 DEF ShownStep
<1>12. CASE Finish(c)
  <2>1. /\ pc[c] = "finish" /\ pc' = [pc EXCEPT ![c] = "done"]
        /\ UNCHANGED <<queue, stopped, answer, outcome>>
    BY <1>12 DEF Finish, resultVars
  <2>2. pc'[c] = "done"
    BY <1>0, <2>1
  <2>3. Pcs[c] = "finish" /\ Pcs'[c] = "done"
    BY <2>1, <2>2 DEF Pcs, ShownPc
  <2>4. Reqs'[c] = Reqs[c]
    BY <2>3 DEF Pcs, Reqs
  <2>5. Queues'[c] = Queues[c]
    BY <1>0, <2>1, <2>2 DEF Queues, BeingSkipped, ActsAlone
  <2>6. Shown!Finish(c)
    BY <1>0, <2>1, <2>3, <2>4, <2>5, ShownFrame DEF Shown!Finish, Shown!Goto, Halted
  <2> QED
    BY <2>1, <2>6 DEF ShownStep, Shown!Silent
<1> QED
  BY <1>3, <1>4, <1>5, <1>6, <1>7, <1>8, <1>9, <1>10, <1>11, <1>12 DEF Loop

(* What the caller shows: with the lock held, a request is placed before the drain. *)
LEMMA ShownCaller ==
  ASSUME TypeInv, Locked, Caller
  PROVE  (\E c \in Chains : ShownStep(c)) \/ UNCHANGED ShownVars
<1>0. /\ UNCHANGED <<stopped, status, answer, outcome, pc, req, succeeded>>
      /\ "caller" \notin Chains
      /\ pc \in [Chains -> Steps] /\ \A d \in Chains : queue[d] \in Seq(AllRequests)
  BY ControllerAssumption DEF Caller, Take, InvokeTest, InvokePlace, InvokeSkip, CallerOnly, chainVars,
    workerVars,
    resultVars, TypeInv, Types
<1>1. UNCHANGED <<Pcs, Reqs, Halted>>
  BY <1>0 DEF Pcs, Reqs, Halted, ShownPc
<1>2. ASSUME UNCHANGED Queues PROVE UNCHANGED ShownVars
  BY <1>0, <1>1, <1>2 DEF ShownVars
<1>3. \A d \in Chains : BeingSkipped(d)' = BeingSkipped(d)
  BY <1>0 DEF BeingSkipped
<1>4. ASSUME UNCHANGED queue PROVE UNCHANGED ShownVars
  BY <1>2, <1>3, <1>4 DEF Queues
<1>5. CASE InvokeTest \/ InvokeSkip \/ \E m \in Commands : Take(m)
  BY <1>4, <1>5 DEF InvokeTest, InvokeSkip, Take
<1>6. CASE InvokePlace
  <2>1. /\ callerAt = "place" /\ todo # <<>> /\ At \in Chains
        /\ queue' = [queue EXCEPT ![At] = Append(@, Head(todo))]
    BY <1>6, RequestFacts DEF InvokePlace, TypeInv, Types, Sorted, At
  <2>2. pc[At] \notin {"drain", "skip"} \cup Emptied
    BY <1>0, <2>1 DEF Locked
  <2>3. Pcs[At] \in {"loop", "look", "serve", "hard"}
    BY <2>1, <2>2 DEF Pcs, ShownPc, Emptied
  <2>4. \A d \in Chains : /\ d # At => Queues'[d] = Queues[d]
                          /\ d = At => Queues[d] = queue[d] /\ Queues'[d] = Append(queue[d], Head(todo))
    <3>1. \A d \in Chains \ {At} : Queues'[d] = Queues[d]
      BY <1>3, <2>1 DEF Queues
    <3>2. Head(todo) \in AllRequests
      BY <2>1 DEF TypeInv, Types
    <3>3. queue'[At] = Append(queue[At], Head(todo)) /\ queue[At] \in Seq(AllRequests)
      BY <2>1 DEF TypeInv, Types
    <3>4. BeingSkipped(At) = <<>>
      BY <2>2 DEF BeingSkipped
    <3>5. <<>> \o queue[At] = queue[At] /\ <<>> \o Append(queue[At], Head(todo)) = Append(queue[At], Head(todo))
      BY <3>2, <3>3
    <3>6. Queues[At] = <<>> \o queue[At] /\ Queues'[At] = <<>> \o queue'[At]
      BY <1>3, <2>1, <3>4 DEF Queues
    <3> QED
      BY <3>1, <3>3, <3>5, <3>6
  <2>5. Queues = [d \in Chains |-> Queues[d]] /\ Queues' = [d \in Chains |-> Queues'[d]]
    BY DEF Queues
  <2>6. Queues' = [Queues EXCEPT ![At] = Append(@, Head(todo))]
    <3> HIDE DEF Queues
    <3> QED
      BY <2>1, <2>4, <2>5
  <2>7. Shown!Place(At, Head(todo))
    BY <1>0, <1>1, <2>3, <2>6 DEF Shown!Place
  <2> QED
    BY <1>0, <2>1, <2>7 DEF ShownStep
<1> QED
  BY <1>5, <1>6 DEF Caller

(* A step of the chains' own, or none. *)
LEMMA ShownOther ==
  ASSUME TypeInv, [Next]_vars,
         (\E c \in Chains : TimeOut(c) \/ ChainWorks(c)) \/ UNCHANGED vars
  PROVE  (\E d \in Chains : ShownStep(d)) \/ UNCHANGED ShownVars
<1>1. UNCHANGED <<pc, req, queue, succeeded, callerAt, todo, stopped, answer, outcome>>
  BY DEF TimeOut, ChainWorks, vars, fieldVars, workerVars, callerVars, resultVars
<1>2. UNCHANGED <<Pcs, Reqs, Halted, Queues>>
  BY <1>1 DEF Pcs, Reqs, Halted, Queues, ShownPc, BeingSkipped
<1>3. CASE UNCHANGED status
  BY <1>1, <1>2, <1>3 DEF ShownVars
<1>4. CASE ~UNCHANGED status
  <2>1. PICK d \in Chains : /\ Working(d)
                            /\ \E s \in {"FINISHED", "INTERRUPTED"} : status' = [status EXCEPT ![d] = s]
    BY <1>4, StatusMoves
  <2>2. Shown!ChainStops(d)
    BY <1>2, <2>1 DEF Shown!ChainStops, Shown!Works, Working
  <2> QED
    BY <1>1, <2>2 DEF ShownStep, Shown!Silent
<1> QED
  BY <1>3, <1>4

(* The controllers are what Processor takes them for, whatever is asked of them in
   whatever order and however the chains go on. *)
THEOREM ControllerImplementsSpec == Spec => ImplementsControllerSpec
<1>1. ASSUME Init PROVE \A c \in Chains : Shown!Started(c)
  <2> SUFFICES ASSUME NEW c \in Chains PROVE Shown!Started(c)
    OBVIOUS
  <2>1. /\ pc[c] = "loop" /\ ~stopped[c] /\ queue[c] = <<>> /\ callerAt = "idle" /\ Working(c)
    BY <1>1 DEF Init, Chain!Init, Working
  <2>2. Pcs[c] = "loop" /\ Reqs[c] = Nobody
    BY <2>1 DEF Pcs, Reqs, ShownPc
  <2>3. Queues[c] = <<>> \o <<>>
    BY <2>1 DEF Queues, BeingSkipped
  <2>4. <<>> \o <<>> = <<>>
    OBVIOUS
  <2> QED
    BY <2>1, <2>2, <2>3, <2>4 DEF Shown!Started, Shown!Works, Halted, Working
<1>2. ASSUME TypeInv, Locked, Results, OnceInv, Endings, [Next]_vars
      PROVE  [\E c \in Chains : ShownStep(c)]_ShownVars
  <2>1. CASE Caller
    BY <1>2, <2>1, ShownCaller
  <2>2. ASSUME NEW c \in Chains, Loop(c) PROVE ShownStep(c) \/ UNCHANGED ShownVars
    BY <1>2, <2>2, ShownLoop
  <2>3. ASSUME NEW c \in Chains, Handle(c) PROVE (\E d \in Chains : ShownStep(d)) \/ UNCHANGED ShownVars
    BY <1>2, <2>3, ShownHandle, HandleStatus
  <2>4. ASSUME NEW c \in Chains, TimeOut(c) \/ ChainWorks(c)
        PROVE  (\E d \in Chains : ShownStep(d)) \/ UNCHANGED ShownVars
    BY <1>2, <2>4, ShownOther
  <2>5. CASE UNCHANGED vars
    BY <1>2, <2>5, ShownOther
  <2> QED
    BY <1>2, <2>1, <2>2, <2>3, <2>4, <2>5 DEF Next
<1>3. Spec => []Locked
  <2>1. Init => Locked
    BY DEF Init, Locked, Emptied
  <2> QED
    BY <2>1, TypeInvariant, LockedInductive, PTL DEF Spec
<1> QED
  BY <1>1, <1>2, <1>3, TypeInvariant, ResultsInvariant, OnceInvariant, EndingsInvariant, PTL
    DEF Spec, ImplementsControllerSpec, ShownVars
=============================================================================
