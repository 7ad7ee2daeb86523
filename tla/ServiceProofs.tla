--------------------------- MODULE ServiceProofs ---------------------------
(***************************************************************************)
(* The threads of the service around Processor, for all input streams and  *)
(* any capacity of the queues.  What ProcessorProofs says of Processor is  *)
(* used here: a behaviour of the service is one of Processor.              *)
(***************************************************************************)
EXTENDS Service, Integers, TLAPS

PP == INSTANCE ProcessorProofs

-----------------------------------------------------------------------------
(***************************************************************************)
(* What is pushed is what Processor may get.                               *)
(***************************************************************************)

Written == [kind : Proc!Kinds, creatable : BOOLEAN, fate : Fates]

\* What is pushed of a stream when its first places f were.
Made(s, f) == [i \in DOMAIN f |-> Parsed(s[f[i]])]

(* What may have been pushed, spelled out. *)
LEMMA InputForm ==
  ASSUME NEW input
  PROVE  input \in Inputs <=>
           \E s \in Streams : \E n \in 0..Len(s) : \E f \in [1..n -> Kept(s)] :
             FirstKept(s, f) /\ input = Made(s, f)
BY DEF Inputs, Made

(* A command that is made of a written one. *)
LEMMA ParsedKind ==
  ASSUME NEW s \in Streams, NEW i \in DOMAIN s
  PROVE  Parsed(s[i]).kind \in Proc!Kinds
<1>1. s \in Seq(Written)
  BY ServiceAssumption DEF Written
<1>2. s[i] \in Written
  BY <1>1
<1> QED
  BY <1>2 DEF Parsed, Written, Proc!Kinds

LEMMA ProcessorAssumed == PP!ProcessorAssumption
<1>1. ASSUME NEW input \in Inputs
      PROVE  /\ input \in Seq(PP!Commands)
             /\ \A i \in DOMAIN input : input[i].kind \in Proc!Kinds
  <2> PICK s \in Streams : \E n \in 0..Len(s) : \E f \in [1..n -> Kept(s)] : input = Made(s, f)
    BY InputForm
  <2> PICK n \in 0..Len(s) : \E f \in [1..n -> Kept(s)] : input = Made(s, f)
    OBVIOUS
  <2>1. PICK f \in [1..n -> Kept(s)] : input = [i \in 1..n |-> Parsed(s[f[i]])]
    BY DEF Made
  <2>2. n \in Nat /\ DOMAIN input = 1..n
    BY <2>1, ServiceAssumption
  <2>3. \A i \in 1..n : input[i].kind \in Proc!Kinds
    BY <2>1, ParsedKind DEF Kept, Readable
  <2>4. \A i \in 1..n : input[i] \in PP!Commands
    BY <2>2 DEF PP!Commands
  <2>5. input \in [1..n -> PP!Commands]
    BY <2>1, <2>4
  <2> QED
    BY <2>2, <2>3, <2>5
<1>2. \A m \in PP!Commands : m.kind \in PP!Kinds
  BY <1>1 DEF PP!Commands, PP!Kinds, Proc!Kinds
<1> QED
  BY <1>1, <1>2, ServiceAssumption DEF PP!ProcessorAssumption, Proc!Request, Proc!Ids

-----------------------------------------------------------------------------
(* Proc is the Processor that ProcessorProofs is about. *)
LEMMA SameClient ==
  /\ Proc!Init <=> PP!Init
  /\ Proc!vars = PP!vars /\ Proc!Ids = PP!Ids /\ Proc!Commands = PP!Commands
  /\ \A s : Proc!Allowed(s) <=> PP!Allowed(s)
  /\ \A m : Proc!Submit(m) <=> PP!Submit(m)
  /\ Proc!Close <=> PP!Close
  /\ Proc!TakeResponse <=> PP!TakeResponse
  /\ \A k, b : Proc!Respond(k, b) <=> PP!Respond(k, b)
BY DEF Proc!Init, PP!Init, Proc!vars, PP!vars, Proc!Ids, PP!Ids, Proc!Commands, PP!Commands,
  Proc!Allowed, PP!Allowed, Proc!Submit, PP!Submit, Proc!Close, PP!Close, Proc!TakeResponse,
  PP!TakeResponse, Proc!clientVars, PP!clientVars, Proc!workVars, PP!workVars, Proc!ctlVars,
  PP!ctlVars, Proc!resultVars, PP!resultVars, Proc!Respond, PP!Respond, Proc!Room, PP!Room

LEMMA SameWork == Proc!Work <=> PP!Work
BY DEF Proc!Work, PP!Work, Proc!TestClosed, PP!TestClosed, Proc!TestBusy, PP!TestBusy,
  Proc!PopCommand, PP!PopCommand, Proc!NoCommand, PP!NoCommand, Proc!Refuse, PP!Refuse,
  Proc!Schedule, PP!Schedule, Proc!Delegate, PP!Delegate, Proc!DelegateTarget, PP!DelegateTarget,
  Proc!Count, PP!Count, Proc!Reap, PP!Reap, Proc!EndPass, PP!EndPass, Proc!Quiet, PP!Quiet,
  Proc!Busy, PP!Busy, Proc!Refused, PP!Refused, Proc!Cmd, PP!Cmd, Proc!Found, PP!Found,
  Proc!Controller, PP!Controller, Proc!Respond, PP!Respond, Proc!Room, PP!Room, Proc!Place,
  PP!Place, Proc!Throw, PP!Throw, Proc!Open, PP!Open, Proc!Queued, PP!Queued, Proc!Answering,
  PP!Answering, Proc!Released, PP!Released, Proc!Ids, PP!Ids, Proc!clientVars, PP!clientVars,
  Proc!ctlVars, PP!ctlVars, Proc!resultVars, PP!resultVars

LEMMA SameControl ==
  \A k : (Proc!Control(k) <=> PP!Control(k)) /\ (Proc!ChainStops(k) <=> PP!ChainStops(k))
BY DEF Proc!Control, PP!Control, Proc!Enter, PP!Enter, Proc!FindNone, PP!FindNone, Proc!Take,
  PP!Take, Proc!HardInterrupt, PP!HardInterrupt,
  Proc!Serve, PP!Serve, Proc!AnswerHard, PP!AnswerHard, Proc!Leave, PP!Leave, Proc!Skip, PP!Skip,
  Proc!DrainEnd, PP!DrainEnd, Proc!Report, PP!Report, Proc!Finish, PP!Finish, Proc!ChainStops,
  PP!ChainStops, Proc!Goto, PP!Goto, Proc!NoResponse, PP!NoResponse, Proc!OnlyController,
  PP!OnlyController, Proc!Continues, PP!Continues, Proc!Outcome, PP!Outcome, Proc!Respond,
  PP!Respond, Proc!Room, PP!Room, Proc!Skipped, PP!Skipped, Proc!clientVars, PP!clientVars,
  Proc!workVars, PP!workVars, Proc!resultVars, PP!resultVars

LEMMA SameProcessor == Proc!Spec => PP!Spec
<1>0. Proc!Next <=> PP!Next
  <2>1. (\E m \in Proc!Commands : Proc!Allowed(Append(cmds, m)) /\ Proc!Submit(m))
          <=> \E m \in PP!Commands : PP!Allowed(Append(cmds, m)) /\ PP!Submit(m)
    BY SameClient
  <2>2. (\E k \in Proc!Ids : Proc!Control(k) \/ Proc!ChainStops(k))
          <=> \E k \in PP!Ids : PP!Control(k) \/ PP!ChainStops(k)
    BY SameClient, SameControl
  <2> QED
    BY <2>1, <2>2, SameClient, SameWork DEF Proc!Next, PP!Next
<1>1. [Proc!Next]_(Proc!vars) <=> [PP!Next]_(PP!vars)
  <2>1. Proc!vars' = PP!vars' /\ Proc!vars = PP!vars
    BY DEF Proc!vars, PP!vars, Proc!clientVars, PP!clientVars, Proc!workVars, PP!workVars,
      Proc!ctlVars, PP!ctlVars, Proc!resultVars, PP!resultVars
  <2> QED
    BY <1>0, <2>1
<1>2. Proc!Init <=> PP!Init
  BY SameClient
<1> QED
  BY <1>1, <1>2, PTL DEF Proc!Spec, PP!Spec

-----------------------------------------------------------------------------
(***************************************************************************)
(* The Receiver and main_loop() use Processor as its client may.           *)
(***************************************************************************)

\* The Receiver has read n commands of s, and pushed those at the places f.
Reading(s, n, f) ==
  LET m == IF reader = "push" THEN n - 1 ELSE n
  IN  /\ Len(stream) = Len(s) - n /\ \A i \in 1..Len(stream) : stream[i] = s[n + i]
      /\ FirstKept(s, f) /\ cmds = Made(s, f)
      /\ Len(cmds) <= m
      /\ \A i \in DOMAIN f : f[i] <= m
      /\ \A k \in Kept(s) : k <= m => \E i \in DOMAIN f : f[i] = k
      /\ reader \in {"peek", "read", "push"} => \A i \in 1..n : s[i].fate # "broken"
      /\ reader = "push" => n \in Kept(s) /\ command = Parsed(s[n])
      /\ reader = "read" => n < Len(s)

ReadInv ==
  /\ stream \in Seq(Written) /\ cmds \in Seq(Proc!Commands)
  /\ reader \in {"peek", "read", "push", "finish", "done"}
  /\ \E s \in Streams : \E n \in 0..Len(s) : \E f \in [1..Len(cmds) -> Kept(s)] : Reading(s, n, f)

\* Processor is closed once the Receiver has finished.
CloseInv ==
  /\ finished => reader = "done"
  /\ main # "wait" => finished
  /\ main \in {"wait", "close"} => ~closed

(* Processor's threads and the controllers push no command and close nothing. *)
LEMMA ProcessorKeepsInput ==
  ASSUME Proc!Work \/ \E k : Proc!Control(k) \/ Proc!ChainStops(k)
  PROVE  UNCHANGED <<cmds, closed>>
BY DEF Proc!Work, Proc!TestClosed, Proc!TestBusy, Proc!PopCommand, Proc!NoCommand, Proc!Refuse,
  Proc!Schedule, Proc!Delegate, Proc!DelegateTarget, Proc!Place, Proc!Throw, Proc!Count, Proc!Reap,
  Proc!EndPass, Proc!Quiet, Proc!Control, Proc!Enter, Proc!FindNone, Proc!Take, Proc!HardInterrupt,
  Proc!Serve,
  Proc!AnswerHard, Proc!Leave, Proc!Skip, Proc!DrainEnd, Proc!Report, Proc!Finish,
  Proc!ChainStops, Proc!OnlyController, Proc!clientVars

(* What was pushed of a stream is one of the inputs. *)
LEMMA MadeIsInput ==
  ASSUME NEW s \in Streams, NEW n \in 0..Len(s), NEW f \in [1..n -> Kept(s)], FirstKept(s, f)
  PROVE  /\ Made(s, f) \in Inputs /\ Made(s, f) \in Seq(Proc!Commands) /\ Len(Made(s, f)) = n
         /\ Proc!Allowed(Made(s, f))
         /\ \A i \in 1..n : Made(s, f)[i] = Parsed(s[f[i]])
<1>1. Made(s, f) \in Inputs
  BY InputForm
<1>2. n \in Nat
  BY ServiceAssumption
<1>3. Made(s, f) \in [1..n -> Proc!Commands] /\ \A i \in 1..n : Made(s, f)[i] = Parsed(s[f[i]])
  BY <1>1 DEF Proc!Commands, Made
<1>4. Made(s, f) \in Seq(Proc!Commands) /\ Len(Made(s, f)) = n
  BY <1>2, <1>3
<1>5. Made(s, f) = SubSeq(Made(s, f), 1, n)
  BY <1>2, <1>4
<1> QED
  BY <1>1, <1>2, <1>3, <1>4, <1>5 DEF Proc!Allowed

(* A command is pushed: the next of the stream. *)
LEMMA PushReads ==
  ASSUME ReadInv, PushCommand
  PROVE  /\ ReadInv' /\ command \in Proc!Commands /\ Proc!Allowed(Append(cmds, command))
<1> PICK s \in Streams : \E n \in 0..Len(s) : \E f \in [1..Len(cmds) -> Kept(s)] : Reading(s, n, f)
  BY DEF ReadInv
<1> PICK n \in 0..Len(s) : \E f \in [1..Len(cmds) -> Kept(s)] : Reading(s, n, f)
  OBVIOUS
<1> PICK l : l = Len(cmds)
  OBVIOUS
<1> PICK f \in [1..l -> Kept(s)] : Reading(s, n, f)
  OBVIOUS
<1>0. s \in Seq(Written)
  BY ServiceAssumption DEF Written
<1>1. /\ reader = "push" /\ reader' = "peek" /\ stream' = stream
      /\ cmds' = Append(cmds, command) /\ Len(s) \in Nat /\ n \in Nat
      /\ cmds \in Seq(Proc!Commands) /\ l \in Nat
  BY <1>0 DEF PushCommand, ReadInv
<1> DEFINE g == [i \in 1..(l + 1) |-> IF i = l + 1 THEN n ELSE f[i]]
<1>4. \A k \in Kept(s) : k \in Int
  BY <1>0 DEF Kept, Readable
<1>2. /\ n \in Kept(s) /\ command = Parsed(s[n]) /\ l <= n - 1 /\ l + 1 \in 0..Len(s)
      /\ \A i \in 1..l : f[i] <= n - 1 /\ f[i] \in Int
      /\ \A k \in Kept(s) : k <= n - 1 => \E i \in 1..l : f[i] = k
      /\ FirstKept(s, f) /\ cmds = Made(s, f)
      /\ \A i \in 1..n : s[i].fate # "broken"
      /\ Len(stream) = Len(s) - n /\ \A i \in 1..Len(stream) : stream[i] = s[n + i]
  <2>1. DOMAIN f = 1..l /\ \A i \in 1..l : f[i] \in Int
    BY <1>4
  <2>2. l <= n - 1
    BY <1>1 DEF Reading
  <2>3. l + 1 \in 0..Len(s)
    BY <1>1, <2>2
  <2> QED
    BY <1>1, <2>1, <2>2, <2>3 DEF Reading
<1>3. /\ g \in [1..(l + 1) -> Kept(s)] /\ g[l + 1] = n /\ \A i \in 1..l : g[i] = f[i]
      /\ 1..(l + 1) = 1..l \cup {l + 1}
  BY <1>1, <1>2
<1> HIDE DEF g
<1>11. 1..(l + 1) = 1..l \cup {l + 1} /\ g[l + 1] = n /\ \A i \in 1..l : g[i] = f[i]
  BY <1>3
<1>5. FirstKept(s, g)
  <2> SUFFICES ASSUME NEW i \in 1..(l + 1)
               PROVE  /\ \A j \in 1..(l + 1) : j < i => g[j] < g[i]
                      /\ \A k \in Kept(s) : k < g[i] => \E j \in 1..(l + 1) : g[j] = k
    BY <1>3 DEF FirstKept
  <2>1. CASE i = l + 1
    <3>1. \A j \in 1..(l + 1) : j < i => j \in 1..l
      BY <1>1, <2>1
    <3>2. \A k \in Kept(s) : k < n => k <= n - 1
      BY <1>1, <1>4
    <3>3. \A j \in 1..l : g[j] < n
      BY <1>1, <1>2, <1>3
    <3>4. \A k \in Kept(s) : k < n => \E j \in 1..l : g[j] = k
      BY <1>2, <1>3, <3>2
    <3> QED
      BY <1>3, <2>1, <3>1, <3>3, <3>4
  <2>2. CASE i \in 1..l
    <3>1. \A j \in 1..(l + 1) : j < i => j \in 1..l
      BY <1>1, <2>2
    <3> QED
      BY <1>2, <1>3, <2>2, <3>1 DEF FirstKept
  <2> QED
    BY <1>3, <2>1, <2>2
<1>6. Made(s, g) = Append(cmds, command)
  <2>1. Made(s, g) \in Seq(Proc!Commands) /\ Len(Made(s, g)) = l + 1
        /\ \A i \in 1..(l + 1) : Made(s, g)[i] = Parsed(s[g[i]])
    BY <1>2, <1>3, <1>5, MadeIsInput
  <2>2. \A i \in 1..l : cmds[i] = Parsed(s[f[i]])
    BY <1>1, <1>2 DEF Made
  <2>3. command \in Proc!Commands
    <3>1. Made(s, g)[l + 1] \in Proc!Commands
      BY <2>1, <1>1
    <3> QED
      BY <1>1, <1>2, <1>3, <2>1, <3>1
  <2>4. /\ Append(cmds, command) \in Seq(Proc!Commands) /\ Len(Append(cmds, command)) = l + 1
        /\ \A i \in 1..(l + 1) :
             Append(cmds, command)[i] = IF i = l + 1 THEN command ELSE cmds[i]
    BY <1>1, <2>3
  <2>5. \A i \in 1..(l + 1) : Made(s, g)[i] = Append(cmds, command)[i]
    <3>1. Made(s, g)[l + 1] = command
      BY <1>2, <1>3, <2>1
    <3>2. \A i \in 1..l : Made(s, g)[i] = cmds[i] /\ i # l + 1
      BY <1>1, <1>3, <2>1, <2>2
    <3> QED
      BY <1>3, <2>4, <3>1, <3>2
  <2> QED
    BY <2>1, <2>4, <2>5
<1>7. Proc!Allowed(Append(cmds, command)) /\ cmds' \in Seq(Proc!Commands) /\ Len(cmds') = l + 1
  <2>1. /\ Proc!Allowed(Made(s, g)) /\ Made(s, g) \in Seq(Proc!Commands)
        /\ Len(Made(s, g)) = l + 1
    BY <1>2, <1>3, <1>5, MadeIsInput
  <2> QED
    BY <1>1, <1>6, <2>1
<1>8. command \in Proc!Commands
  <2>1. cmds'[l + 1] = command
    BY <1>1
  <2> QED
    BY <1>1, <1>7, <2>1
<1>9. Reading(s, n, g)'
  <2>1. DOMAIN g = 1..(l + 1)
    BY <1>3
  <2>2. \A i \in 1..(l + 1) : g[i] <= n
    <3>1. \A i \in 1..l : g[i] <= n
      BY <1>1, <1>2, <1>11
    <3>2. g[l + 1] <= n
      BY <1>1, <1>11
    <3> QED
      BY <1>11, <3>1, <3>2
  <2>3. \A k \in Kept(s) : k <= n => \E i \in 1..(l + 1) : g[i] = k
    <3> SUFFICES ASSUME NEW k \in Kept(s), k <= n PROVE \E i \in 1..(l + 1) : g[i] = k
      OBVIOUS
    <3>1. k = n \/ k <= n - 1
      BY <1>1, <1>4
    <3>2. k <= n - 1 => \E i \in 1..l : f[i] = k
      BY <1>1, <1>2
    <3> QED
      BY <1>11, <3>1, <3>2
  <2>4. Len(cmds') <= n
    BY <1>1, <1>2, <1>7
  <2> QED
    BY <1>1, <1>2, <1>5, <1>6, <2>1, <2>2, <2>3, <2>4 DEF Reading
<1>10. ReadInv'
  <2>1. g \in [1..Len(cmds') -> Kept(s)]
    BY <1>3, <1>7
  <2> QED
    BY <1>1, <1>7, <1>9, <2>1 DEF ReadInv
<1> QED
  BY <1>7, <1>8, <1>10

(* A command is read, and what is made of it depends on its fate. *)
LEMMA ReadReads ==
  ASSUME ReadInv, Read
  PROVE  ReadInv'
<1> PICK s \in Streams : \E n \in 0..Len(s) : \E f \in [1..Len(cmds) -> Kept(s)] : Reading(s, n, f)
  BY DEF ReadInv
<1> PICK n \in 0..Len(s) : \E f \in [1..Len(cmds) -> Kept(s)] : Reading(s, n, f)
  OBVIOUS
<1> PICK f \in [1..Len(cmds) -> Kept(s)] : Reading(s, n, f)
  OBVIOUS
<1>1. s \in Seq(Written) /\ cmds' = cmds /\ reader = "read"
  BY ServiceAssumption DEF Read, Written, processorVars
<1>2. /\ Len(s) \in Nat /\ n \in Nat /\ stream \in Seq(Written)
      /\ Len(cmds) \in Nat /\ cmds \in Seq(Proc!Commands)
  BY <1>1 DEF ReadInv
<1>3. /\ Len(stream) = Len(s) - n /\ \A i \in 1..Len(stream) : stream[i] = s[n + i]
      /\ FirstKept(s, f) /\ cmds = Made(s, f) /\ Len(cmds) <= n
      /\ \A i \in DOMAIN f : f[i] <= n
      /\ \A k \in Kept(s) : k <= n => \E i \in DOMAIN f : f[i] = k
      /\ \A i \in 1..n : s[i].fate # "broken"
      /\ n < Len(s)
  BY <1>1 DEF Reading
<1>4. n + 1 \in 0..Len(s) /\ n + 1 \in DOMAIN s /\ Head(stream) = s[n + 1] /\ stream # <<>>
  BY <1>1, <1>2, <1>3
<1>5. /\ stream' \in Seq(Written) /\ Len(stream') = Len(s) - (n + 1)
      /\ \A i \in 1..Len(stream') : stream'[i] = s[(n + 1) + i]
  <2>1. stream' = Tail(stream)
    BY DEF Read
  <2>2. /\ stream' \in Seq(Written) /\ Len(stream') = Len(stream) - 1
        /\ \A i \in 1..Len(stream') : stream'[i] = stream[i + 1]
    BY <1>2, <1>4, <2>1
  <2> QED
    BY <1>2, <1>3, <2>2
<1>6. \A k \in Kept(s) : k \in Int /\ s[k].fate \notin {"broken", "throwing"}
  BY <1>1 DEF Kept, Readable
<1>7. 1..(n + 1) = 1..n \cup {n + 1}
  BY <1>2
<1>8. DOMAIN f = 1..Len(cmds) /\ \A i \in DOMAIN f : f[i] <= n + 1
  <2>1. \A i \in DOMAIN f : f[i] \in Int /\ f[i] <= n
    BY <1>3, <1>6
  <2> QED
    BY <1>2, <2>1
<1>9. ASSUME Head(stream).fate \in {"broken", "throwing"}
      PROVE  /\ Len(cmds) <= n + 1
             /\ \A k \in Kept(s) : k <= n + 1 => \E i \in DOMAIN f : f[i] = k
  <2>1. \A k \in Kept(s) : k <= n + 1 => k <= n
    BY <1>2, <1>4, <1>6, <1>9
  <2> QED
    BY <1>2, <1>3, <2>1
<1>10. CASE Head(stream).fate = "broken"
  <2>1. reader' = "finish"
    BY <1>10 DEF Read, Fatal
  <2>2. Reading(s, n + 1, f)'
    BY <1>1, <1>3, <1>5, <1>8, <1>9, <1>10, <2>1 DEF Reading
  <2> QED
    BY <1>1, <1>2, <1>4, <1>5, <2>1, <2>2 DEF ReadInv
<1>11. CASE Head(stream).fate = "throwing"
  <2>1. reader' = "peek"
    BY <1>11 DEF Read, Fatal
  <2>2. \A i \in 1..(n + 1) : s[i].fate # "broken"
    BY <1>3, <1>4, <1>7, <1>11
  <2>3. Reading(s, n + 1, f)'
    BY <1>1, <1>3, <1>5, <1>8, <1>9, <1>11, <2>1, <2>2 DEF Reading
  <2> QED
    BY <1>1, <1>2, <1>4, <1>5, <2>1, <2>3 DEF ReadInv
<1>12. CASE Head(stream).fate \notin {"broken", "throwing"}
  <2>1. reader' = "push" /\ command' = Parsed(s[n + 1])
    BY <1>4, <1>12 DEF Read, Fatal
  <2>2. \A i \in 1..(n + 1) : s[i].fate # "broken"
    BY <1>3, <1>4, <1>7, <1>12
  <2>3. n + 1 \in Kept(s)
    BY <1>4, <1>12, <2>2 DEF Kept, Readable
  <2>4. (n + 1) - 1 = n
    BY <1>2
  <2>5. Reading(s, n + 1, f)'
    BY <1>1, <1>3, <1>5, <2>1, <2>2, <2>3, <2>4 DEF Reading
  <2> QED
    BY <1>1, <1>2, <1>4, <1>5, <2>1, <2>5 DEF ReadInv
<1> QED
  BY <1>10, <1>11, <1>12

(* The Receiver's position is kept by all steps. *)
LEMMA ReadKept ==
  ASSUME ReadInv, UNCHANGED <<cmds, stream, command>>,
         \/ reader' = reader
         \/ Peek
         \/ FinishReceiver
  PROVE  ReadInv'
<1> PICK s \in Streams : \E n \in 0..Len(s) : \E f \in [1..Len(cmds) -> Kept(s)] : Reading(s, n, f)
  BY DEF ReadInv
<1> PICK n \in 0..Len(s) : \E f \in [1..Len(cmds) -> Kept(s)] : Reading(s, n, f)
  OBVIOUS
<1> PICK f \in [1..Len(cmds) -> Kept(s)] : Reading(s, n, f)
  OBVIOUS
<1>1. s \in Seq(Written) /\ Len(s) \in Nat /\ n \in Nat
  <2>1. s \in Seq(Written)
    BY ServiceAssumption DEF Written
  <2> QED
    BY <2>1
<1>2. reader' \in {"peek", "read", "push", "finish", "done"}
  BY DEF ReadInv, Peek, FinishReceiver
<1>3. CASE reader' = reader
  <2>1. Reading(s, n, f)'
    BY <1>3 DEF Reading
  <2> QED
    BY <1>2, <2>1 DEF ReadInv
<1>4. CASE Peek
  <2>1. stream # <<>> => n < Len(s)
    <3>1. stream \in Seq(Written) /\ Len(stream) = Len(s) - n
      BY DEF ReadInv, Reading
    <3> QED
      BY <1>1, <3>1
  <2>2. reader = "peek" /\ reader' \in {"finish", "read"} /\ (reader' = "read" => stream # <<>>)
    BY <1>4 DEF Peek
  <2>3. Reading(s, n, f)'
    BY <2>1, <2>2 DEF Reading
  <2> QED
    BY <1>2, <2>3 DEF ReadInv
<1>5. CASE FinishReceiver
  <2>1. reader = "finish" /\ reader' = "done"
    BY <1>5 DEF FinishReceiver
  <2>2. Reading(s, n, f)'
    BY <2>1 DEF Reading
  <2> QED
    BY <1>2, <2>2 DEF ReadInv
<1> QED
  BY <1>3, <1>4, <1>5

(* The Receiver and main_loop() keep to their courses. *)
LEMMA InputInvariant == Spec => [](ReadInv /\ CloseInv)
<1>1. ASSUME Init PROVE ReadInv /\ CloseInv
  <2>1. stream \in Streams /\ cmds = <<>> /\ reader = "peek" /\ main = "wait" /\ ~finished /\ ~closed
    BY <1>1 DEF Init, Proc!Init
  <2>2. stream \in Seq(Written) /\ Len(stream) \in Nat /\ Len(cmds) = 0
    <3>1. stream \in Seq(Written)
      BY <2>1, ServiceAssumption DEF Written
    <3> QED
      BY <2>1, <3>1
  <2> DEFINE f == [i \in 1..0 |-> 0]
  <2>3. f \in [1..0 -> Kept(stream)] /\ DOMAIN f = {}
    OBVIOUS
  <2>4. cmds = Made(stream, f)
    <3>1. Made(stream, f) = <<>>
      BY <2>3 DEF Made
    <3> QED
      BY <2>1, <3>1
  <2>5. \A k \in Kept(stream) : ~(k <= 0)
    BY <2>2 DEF Kept, Readable
  <2>6. Reading(stream, 0, f)
    <3> HIDE DEF f
    <3>1. FirstKept(stream, f)
      BY <2>3 DEF FirstKept
    <3> QED
      BY <2>1, <2>2, <2>3, <2>4, <2>5, <3>1 DEF Reading
  <2>7. ReadInv
    <3> HIDE DEF f
    <3>1. f \in [1..Len(cmds) -> Kept(stream)] /\ 0 \in 0..Len(stream)
      BY <2>2, <2>3
    <3>2. cmds \in Seq(Proc!Commands)
      BY <2>1
    <3>3. \E n \in 0..Len(stream) : \E g \in [1..Len(cmds) -> Kept(stream)] : Reading(stream, n, g)
      BY <2>6, <3>1
    <3> QED
      BY <2>1, <2>2, <3>2, <3>3 DEF ReadInv
  <2> QED
    BY <2>1, <2>7 DEF CloseInv
<1>2. ASSUME ReadInv, CloseInv, [Next]_vars PROVE ReadInv' /\ CloseInv'
  <2>1. CASE PushCommand
    BY <1>2, <2>1, PushReads DEF PushCommand, CloseInv, ReceiverOnly
  <2>2. CASE Read
    BY <1>2, <2>2, ReadReads DEF Read, CloseInv, ReceiverOnly, processorVars
  <2>3. CASE Peek \/ FinishReceiver
    <3>1. UNCHANGED <<cmds, stream, command, main, closed>>
      BY <2>3 DEF Peek, FinishReceiver, ReceiverOnly, processorVars
    <3>2. ReadInv'
      BY <1>2, <2>3, <3>1, ReadKept
    <3>3. CloseInv'
      BY <1>2, <2>3, <3>1 DEF Peek, FinishReceiver, CloseInv
    <3> QED
      BY <3>2, <3>3
  <2>4. CASE Sends
    <3>1. UNCHANGED <<cmds, receiverVars, main, closed>>
      BY <2>4 DEF Sends, TestSenderClosed, TestUnsent, PopResponse, NoResponse, Send, SenderOnly,
        processorVars, Proc!TakeResponse, Proc!clientVars
    <3> QED
      BY <1>2, <3>1, ReadKept DEF receiverVars, CloseInv
  <2>5. CASE Process \/ \E k \in 1..MaxCommands : Control(k) \/ ChainStops(k)
    <3>1. UNCHANGED <<cmds, receiverVars, main, closed>>
      BY <2>5, ProcessorKeepsInput DEF Process, Control, ChainStops
    <3> QED
      BY <1>2, <3>1, ReadKept DEF receiverVars, CloseInv
  <2>6. CASE Main
    <3>1. UNCHANGED <<cmds, receiverVars>>
      BY <2>6 DEF Main, AwaitReceiver, CloseProcessor, JoinProcessor, CloseSender, JoinSender,
        MainStep, processorVars, Proc!Close
    <3>2. ReadInv'
      BY <1>2, <3>1, ReadKept DEF receiverVars
    <3>3. CloseInv'
      BY <1>2, <2>6 DEF Main, AwaitReceiver, CloseProcessor, JoinProcessor, CloseSender, JoinSender,
        MainStep, processorVars, receiverVars, CloseInv, ReceiverDone
    <3> QED
      BY <3>2, <3>3
  <2>7. CASE UNCHANGED vars
    BY <1>2, <2>7, ReadKept DEF vars, processorVars, receiverVars, CloseInv
  <2> QED
    BY <1>2, <2>1, <2>2, <2>3, <2>4, <2>5, <2>6, <2>7 DEF Next, Receive
<1> QED
  BY <1>1, <1>2, PTL DEF Spec

(* The Receiver, the Sender and main_loop() use Processor as module Processor says:
   commands come in the order of the stream and none after close(), every response
   that is taken was pushed. *)
THEOREM ServiceDrivesProcessor == Spec => DrivesProcessor
<1>1. Init => Proc!Init
  BY DEF Init
<1>2. ASSUME ReadInv, CloseInv, [Next]_vars PROVE [Proc!Next]_(Proc!vars)
  <2>1. CASE PushCommand
    <3>1. command \in Proc!Commands /\ Proc!Allowed(Append(cmds, command))
      BY <1>2, <2>1, PushReads
    <3>2. ~closed
      BY <1>2, <2>1 DEF PushCommand, CloseInv
    <3>3. Proc!Submit(command)
      BY <2>1, <3>2 DEF PushCommand, Room, Proc!Submit, Proc!workVars, Proc!ctlVars, Proc!resultVars
    <3> QED
      BY <3>1, <3>3 DEF Proc!Next
  <2>2. CASE Peek \/ Read \/ FinishReceiver \/ UNCHANGED vars
    <3>1. UNCHANGED processorVars
      BY <2>2 DEF Peek, Read, FinishReceiver, vars
    <3> QED
      BY <3>1 DEF processorVars, Proc!vars, Proc!clientVars, Proc!workVars, Proc!ctlVars,
        Proc!resultVars
  <2>3. CASE Sends
    <3>1. CASE PopResponse
      BY <3>1 DEF PopResponse, Proc!Next
    <3>2. CASE ~PopResponse
      <4>1. UNCHANGED processorVars
        BY <2>3, <3>2 DEF Sends, TestSenderClosed, TestUnsent, NoResponse, Send
      <4> QED
        BY <4>1 DEF processorVars, Proc!vars, Proc!clientVars, Proc!workVars, Proc!ctlVars,
          Proc!resultVars
    <3> QED
      BY <3>1, <3>2
  <2>4. CASE Main
    <3>1. CASE CloseProcessor
      BY <3>1 DEF CloseProcessor, Proc!Next
    <3>2. CASE ~CloseProcessor
      <4>1. UNCHANGED processorVars
        BY <2>4, <3>2 DEF Main, AwaitReceiver, JoinProcessor, CloseSender, JoinSender
      <4> QED
        BY <4>1 DEF processorVars, Proc!vars, Proc!clientVars, Proc!workVars, Proc!ctlVars,
          Proc!resultVars
    <3> QED
      BY <3>1, <3>2
  <2>5. CASE Process
    BY <2>5 DEF Process, Proc!Next
  <2>6. CASE \E k \in 1..MaxCommands : Control(k) \/ ChainStops(k)
    BY <2>6 DEF Control, ChainStops, Proc!Next, Proc!Ids
  <2> QED
    BY <1>2, <2>1, <2>2, <2>3, <2>4, <2>5, <2>6 DEF Next, Receive
<1> QED
  BY <1>1, <1>2, InputInvariant, PTL DEF Spec, DrivesProcessor, Proc!Spec

-----------------------------------------------------------------------------
(***************************************************************************)
(* The end of the program.                                                 *)
(***************************************************************************)

(* What holds of Processor holds in the service. *)
LEMMA ProcessorInvariants == Spec => [](PP!CoreInv /\ PP!OnceInv)
<1>1. Spec => PP!Spec
  BY ServiceDrivesProcessor, SameProcessor, PTL DEF DrivesProcessor
<1>2. PP!Spec => []PP!CoreInv
  BY PP!CoreInvariant, ProcessorAssumed, PTL
<1>3. PP!Spec => []PP!OnceInv
  BY PP!OnceInvariant, ProcessorAssumed, PTL
<1> QED
  BY <1>1, <1>2, <1>3, PTL

\* One thread is closed after the other has ended.
CourseInv ==
  /\ main \in {"close_sender", "join_sender", "end"} => at = "done"
  /\ senderClosed => main \in {"join_sender", "end"}
  /\ sender \in {"busy", "done"} => senderClosed
  /\ sender = "done" => out_queue = <<>>
  /\ main = "end" => sender = "done"

(* When Processor has ended, nobody pushes a response any more. *)
LEMMA EndedStays ==
  ASSUME PP!CoreInv, at = "done",
         Process \/ \E k \in 1..MaxCommands : Control(k) \/ ChainStops(k)
  PROVE  UNCHANGED <<at, out_queue, answers>>
<1>1. /\ \A k \in PP!Ids : pc[k] \in {"none", "done"}
      /\ ~PP!Work /\ \A k \in PP!Ids : ~PP!Control(k)
  BY PP!EndedIsQuiet, ProcessorAssumed
<1>2. \E k \in 1..MaxCommands : Proc!ChainStops(k)
  BY <1>1, SameWork, SameControl DEF Process, Control, ChainStops, PP!Ids
<1> QED
  BY <1>2 DEF Proc!ChainStops, Proc!workVars, Proc!resultVars

LEMMA CourseInvariant == Spec => []CourseInv
<1>1. Init => CourseInv
  BY DEF Init, CourseInv
<1>2. ASSUME PP!CoreInv, CourseInv, [Next]_vars PROVE CourseInv'
  <2>1. CASE Receive
    <3>1. UNCHANGED <<main, at, senderVars, out_queue>>
      BY <2>1 DEF Receive, Peek, Read, PushCommand, FinishReceiver, ReceiverOnly, processorVars
    <3> QED
      BY <1>2, <3>1 DEF CourseInv, senderVars
  <2>2. CASE Process \/ \E k \in 1..MaxCommands : Control(k) \/ ChainStops(k)
    <3>1. UNCHANGED <<main, senderVars>>
      BY <2>2 DEF Process, Control, ChainStops
    <3>2. at = "done" => UNCHANGED <<at, out_queue>>
      BY <1>2, <2>2, EndedStays
    <3> QED
      BY <1>2, <3>1, <3>2 DEF CourseInv, senderVars
  <2>3. CASE Sends
    <3>1. UNCHANGED <<main, at, senderClosed>>
      BY <2>3 DEF Sends, TestSenderClosed, TestUnsent, PopResponse, NoResponse, Send, SenderOnly,
        processorVars, Proc!TakeResponse, Proc!workVars
    <3> QED
      BY <1>2, <2>3, <3>1 DEF CourseInv, Sends, TestSenderClosed, TestUnsent, Unsent, PopResponse,
        NoResponse, Send, processorVars
  <2>4. CASE Main
    <3>1. UNCHANGED <<at, out_queue, sender>>
      BY <2>4 DEF Main, AwaitReceiver, CloseProcessor, JoinProcessor, CloseSender, JoinSender,
        MainStep, processorVars, senderVars, Proc!Close, Proc!workVars, Proc!resultVars
    <3> QED
      BY <1>2, <2>4, <3>1 DEF CourseInv, Main, AwaitReceiver, CloseProcessor, JoinProcessor,
        CloseSender, JoinSender, MainStep, senderVars, ProcessorDone
  <2>5. CASE UNCHANGED vars
    BY <1>2, <2>5 DEF vars, CourseInv, senderVars, processorVars
  <2> QED
    BY <1>2, <2>1, <2>2, <2>3, <2>4, <2>5 DEF Next
<1> QED
  BY <1>1, <1>2, ProcessorInvariants, PTL DEF Spec

(* When main_loop() returns, no thread uses the queues it destroys: the Receiver,
   Processor, the Sender and all controllers have ended. *)
THEOREM ServiceEndsTogether == Spec => []EndsTogether
<1>1. ASSUME CloseInv, CourseInv, PP!CoreInv PROVE EndsTogether
  <2> SUFFICES ASSUME main = "end"
               PROVE  /\ reader = "done" /\ at = "done" /\ sender = "done"
                      /\ \A k \in Proc!Ids : pc[k] \in {"none", "done"}
    BY DEF EndsTogether
  <2>1. reader = "done" /\ at = "done" /\ sender = "done"
    BY <1>1 DEF CloseInv, CourseInv
  <2>2. \A k \in PP!Ids : pc[k] \in {"none", "done"}
    BY <1>1, <2>1, PP!EndedIsQuiet, ProcessorAssumed
  <2> QED
    BY <2>1, <2>2, SameClient
<1> QED
  BY <1>1, InputInvariant, CourseInvariant, ProcessorInvariants, PTL

\* A successful response is in one place: at p in the output queue, in the Sender's
\* hands (p = 0), or at -p among those that were sent.
Success(p) ==
  IF p = 0 THEN sender = "send" /\ resp.succeeded
  ELSE IF p > 0 THEN p \in 1..Len(out_queue) /\ out_queue[p].succeeded
  ELSE -p \in 1..Len(sent)
IdOf(p) == IF p = 0 THEN resp.id ELSE IF p > 0 THEN out_queue[p].id ELSE sent[-p].id

OnePlace == \A p, q \in Int : Success(p) /\ Success(q) /\ IdOf(p) = IdOf(q) => p = q
Placed == \A k \in PP!Ids : (answers[k] = "yes") <=> \E p \in Int : Success(p) /\ IdOf(p) = k

SentInv ==
  /\ sent \in Seq([id : PP!Ids, written : BOOLEAN])
  /\ sender = "send" => resp \in PP!Responses
  /\ OnePlace /\ Placed

(* The responses stay where they are. *)
LEMMA SentKept ==
  ASSUME SentInv, UNCHANGED <<sender, resp, sent, out_queue, answers>>
  PROVE  SentInv'
<1>1. \A p \in Int : (Success(p)' <=> Success(p)) /\ IdOf(p)' = IdOf(p)
  BY DEF Success, IdOf
<1> QED
  BY <1>1 DEF SentInv, OnePlace, Placed

(* The responses move, each to a place of its own. *)
LEMMA SentMoves ==
  ASSUME SentInv, NEW old \in [Int -> Int], answers' = answers,
         \A p \in Int : Success(p)' => Success(old[p]) /\ IdOf(p)' = IdOf(old[p]),
         \A p, q \in Int : Success(p)' /\ Success(q)' /\ old[p] = old[q] => p = q,
         \A q \in Int : Success(q) => \E p \in Int : Success(p)' /\ IdOf(p)' = IdOf(q)
  PROVE  OnePlace' /\ Placed'
<1>1. OnePlace'
  <2> SUFFICES ASSUME NEW p \in Int, NEW q \in Int, Success(p)', Success(q)', IdOf(p)' = IdOf(q)'
               PROVE  p = q
    BY DEF OnePlace
  <2>1. old[p] = old[q]
    BY DEF SentInv, OnePlace
  <2> QED
    BY <2>1
<1>2. Placed'
  <2>1. PP!Ids' = PP!Ids
    BY DEF PP!Ids
  <2>2. ASSUME NEW k \in PP!Ids
        PROVE  (\E p \in Int : Success(p)' /\ IdOf(p)' = k) <=> \E p \in Int : Success(p) /\ IdOf(p) = k
    OBVIOUS
  <2> QED
    BY <2>1, <2>2 DEF SentInv, Placed
<1> QED
  BY <1>1, <1>2

(* Pushing a response keeps the successful ones in one place each. *)
LEMMA SentPush ==
  ASSUME PP!CoreInv, SentInv, UNCHANGED <<sender, resp, sent>>,
         NEW a \in PP!Ids, NEW b \in BOOLEAN, answers[a] = "none", PP!Respond(a, b)
  PROVE  SentInv'
<1>1. /\ out_queue \in Seq(PP!Responses) /\ Len(out_queue) \in Nat
      /\ answers \in [PP!Ids -> {"none", "yes", "no", "twice"}]
  BY DEF PP!CoreInv, PP!Types
<1> PICK n \in Nat \ {0} : n = Len(out_queue) + 1
  BY <1>1
<1>2. /\ Len(out_queue') = n /\ out_queue'[n] = [id |-> a, succeeded |-> b]
      /\ \A i \in 1..Len(out_queue) : out_queue'[i] = out_queue[i]
  <2>1. [id |-> a, succeeded |-> b] \in PP!Responses
    BY DEF PP!Responses
  <2> QED
    BY <1>1, <2>1 DEF PP!Respond
<1>3. /\ answers'[a] = (IF b THEN "yes" ELSE "no")
      /\ \A k \in PP!Ids \ {a} : answers'[k] = answers[k]
  BY <1>1 DEF PP!Respond
<1>4. ASSUME NEW p \in Int, p # n
      PROVE  (Success(p)' <=> Success(p)) /\ (Success(p) => IdOf(p)' = IdOf(p))
  BY <1>1, <1>2, <1>4 DEF Success, IdOf
<1>5. (Success(n)' <=> b) /\ IdOf(n)' = a /\ ~Success(n)
  BY <1>1, <1>2 DEF Success, IdOf
<1>6. \A p \in Int : Success(p) => IdOf(p) # a
  BY DEF SentInv, Placed
<1>7. OnePlace'
  <2> SUFFICES ASSUME NEW p \in Int, NEW q \in Int, Success(p)', Success(q)', IdOf(p)' = IdOf(q)'
               PROVE  p = q
    BY DEF OnePlace
  <2>1. CASE p # n /\ q # n
    BY <1>4, <2>1 DEF SentInv, OnePlace
  <2>2. CASE p = n \/ q = n
    BY <1>4, <1>5, <1>6, <2>2
  <2> QED
    BY <2>1, <2>2
<1>8. Placed'
  <2> SUFFICES ASSUME NEW k \in PP!Ids
               PROVE  (answers'[k] = "yes") <=> \E p \in Int : Success(p)' /\ IdOf(p)' = k
    BY DEF Placed, PP!Ids
  <2>1. CASE k = a
    <3>1. (answers'[a] = "yes") <=> b
      BY <1>3
    <3>2. (\E p \in Int : Success(p)' /\ IdOf(p)' = a) <=> b
      BY <1>4, <1>5, <1>6
    <3> QED
      BY <2>1, <3>1, <3>2
  <2>2. CASE k # a
    <3>1. (\E p \in Int : Success(p)' /\ IdOf(p)' = k) <=> \E p \in Int : Success(p) /\ IdOf(p) = k
      BY <1>4, <1>5, <2>2
    <3> QED
      BY <1>3, <2>2, <3>1 DEF SentInv, Placed
  <2> QED
    BY <2>1, <2>2
<1> QED
  BY <1>7, <1>8 DEF SentInv, PP!Ids, PP!Responses

(* The Sender takes a response: the others move up. *)
LEMMA SentPop ==
  ASSUME PP!CoreInv, SentInv, PopResponse
  PROVE  SentInv'
<1>1. /\ out_queue \in Seq(PP!Responses) /\ Len(out_queue) \in Nat \ {0}
      /\ sender = "poll" /\ sender' = "send" /\ sent' = sent /\ answers' = answers
      /\ resp' = out_queue[1] /\ out_queue' = Tail(out_queue)
  <2>1. out_queue \in Seq(PP!Responses) /\ out_queue # <<>>
    BY DEF PP!CoreInv, PP!Types, PopResponse, Proc!TakeResponse
  <2> QED
    BY <2>1 DEF PopResponse, Proc!TakeResponse
<1>2. /\ Len(out_queue') = Len(out_queue) - 1
      /\ \A i \in 1..Len(out_queue') : out_queue'[i] = out_queue[i + 1]
      /\ resp' \in PP!Responses
  BY <1>1
<1> DEFINE old == [p \in Int |-> IF p < 0 THEN p ELSE p + 1]
<1>3. \A p \in Int : Success(p)' => Success(old[p]) /\ IdOf(p)' = IdOf(old[p])
  <2>1. ASSUME NEW p \in Int, p < 0, Success(p)' PROVE Success(p) /\ IdOf(p)' = IdOf(p)
    BY <1>1, <2>1 DEF Success, IdOf
  <2>2. ASSUME NEW p \in Int, p >= 0, Success(p)' PROVE Success(p + 1) /\ IdOf(p)' = IdOf(p + 1)
    BY <1>1, <1>2, <2>2 DEF Success, IdOf
  <2> QED
    BY <2>1, <2>2
<1>4. \A p, q \in Int : Success(p)' /\ Success(q)' /\ old[p] = old[q] => p = q
  OBVIOUS
<1>5. ASSUME NEW q \in Int, Success(q)
      PROVE  \E p \in Int : Success(p)' /\ IdOf(p)' = IdOf(q)
  <2>1. q # 0
    BY <1>1, <1>5 DEF Success
  <2>2. CASE q < 0
    BY <1>1, <1>5, <2>2 DEF Success, IdOf
  <2>3. CASE q > 0
    <3>1. q \in 1..Len(out_queue) /\ out_queue[q].succeeded
      BY <1>5, <2>3 DEF Success
    <3>2. Success(q - 1)' /\ IdOf(q - 1)' = IdOf(q)
      BY <1>1, <1>2, <3>1 DEF Success, IdOf
    <3> QED
      BY <3>2
  <2> QED
    BY <2>1, <2>2, <2>3
<1>6. old \in [Int -> Int]
  OBVIOUS
<1>7. OnePlace' /\ Placed'
  <2> HIDE DEF old
  <2> QED
    BY <1>1, <1>3, <1>4, <1>5, <1>6, SentMoves
<1> QED
  BY <1>1, <1>2, <1>7 DEF SentInv, PP!Ids, PP!Responses

(* The Sender sends the response in its hands, or drops it. *)
LEMMA SentSend ==
  ASSUME PP!CoreInv, SentInv, Send
  PROVE  SentInv'
<1>1. /\ sender = "send" /\ sender' = "closed" /\ UNCHANGED <<out_queue, answers>>
      /\ resp \in PP!Responses /\ sent \in Seq([id : PP!Ids, written : BOOLEAN])
      /\ Len(sent) \in Nat
  BY DEF Send, SenderOnly, processorVars, SentInv
<1>2. CASE ~resp.succeeded
  <2>1. sent' = sent
    BY <1>2 DEF Send, Sendable
  <2>2. \A p \in Int : (Success(p)' <=> Success(p)) /\ (Success(p) => IdOf(p)' = IdOf(p))
    BY <1>1, <1>2, <2>1 DEF Success, IdOf
  <2> QED
    BY <1>1, <2>1, <2>2 DEF SentInv, OnePlace, Placed, PP!Ids
<1>3. CASE resp.succeeded
  <2> PICK n \in Nat \ {0} : n = Len(sent) + 1
    BY <1>1
  <2>1. /\ sent' \in Seq([id : PP!Ids, written : BOOLEAN]) /\ Len(sent') = n
        /\ sent'[n].id = resp.id /\ \A i \in 1..Len(sent) : sent'[i] = sent[i]
    <3>1. PICK w \in BOOLEAN : sent' = Append(sent, [id |-> resp.id, written |-> w])
      BY <1>3 DEF Send, Sendable
    <3>2. [id |-> resp.id, written |-> w] \in [id : PP!Ids, written : BOOLEAN]
      BY <1>1 DEF PP!Responses
    <3> QED
      BY <1>1, <3>1, <3>2
  <2> DEFINE old == [p \in Int |-> IF p = -n THEN 0 ELSE p]
  <2>2. ASSUME NEW p \in Int, p # 0, p # -n
        PROVE  (Success(p)' <=> Success(p)) /\ (Success(p) => IdOf(p)' = IdOf(p))
    <3>1. CASE p > 0
      BY <1>1, <3>1 DEF Success, IdOf
    <3>2. CASE p < 0
      <4>1. (-p \in 1..n) <=> (-p \in 1..Len(sent))
        BY <1>1, <2>2, <3>2
      <4> QED
        BY <1>1, <2>1, <3>2, <4>1 DEF Success, IdOf
    <3> QED
      BY <2>2, <3>1, <3>2
  <2>3. Success(-n)' /\ IdOf(-n)' = resp.id /\ ~Success(0)' /\ Success(0) /\ IdOf(0) = resp.id
    <3>1. -n # 0 /\ ~(-n > 0) /\ -(-n) = n /\ n \in 1..n /\ -n \in Int
      OBVIOUS
    <3> QED
      BY <1>1, <1>3, <2>1, <3>1 DEF Success, IdOf
  <2>4. ~Success(-n)
    <3>1. -n # 0 /\ ~(-n > 0) /\ -(-n) = n /\ n \notin 1..Len(sent)
      BY <1>1
    <3> QED
      BY <3>1 DEF Success
  <2>5. /\ old \in [Int -> Int] /\ -n \in Int
        /\ \A p \in Int : old[p] = IF p = -n THEN 0 ELSE p
    OBVIOUS
  <2> HIDE DEF old
  <2>6. \A p \in Int : Success(p)' => Success(old[p]) /\ IdOf(p)' = IdOf(old[p])
    BY <2>2, <2>3, <2>5
  <2>7. \A p, q \in Int : Success(p)' /\ Success(q)' /\ old[p] = old[q] => p = q
    BY <2>3, <2>5
  <2>8. \A q \in Int : Success(q) => \E p \in Int : Success(p)' /\ IdOf(p)' = IdOf(q)
    BY <2>2, <2>3, <2>4, <2>5
  <2>9. OnePlace' /\ Placed'
    BY <1>1, <2>5, <2>6, <2>7, <2>8, SentMoves
  <2> QED
    BY <1>1, <2>1, <2>9 DEF SentInv, PP!Ids
<1> QED
  BY <1>2, <1>3

LEMMA SentInvariant == Spec => []SentInv
<1>1. ASSUME Init PROVE SentInv
  <2>1. /\ sender = "closed" /\ sent = <<>> /\ out_queue = <<>>
        /\ \A k \in PP!Ids : answers[k] = "none"
    BY <1>1 DEF Init, Proc!Init, Proc!Ids, PP!Ids
  <2>2. \A p \in Int : ~Success(p)
    BY <2>1 DEF Success
  <2> QED
    BY <2>1, <2>2 DEF SentInv, OnePlace, Placed
<1>2. ASSUME PP!CoreInv, PP!OnceInv, PP!OnceInv', SentInv, [Next]_vars
      PROVE  SentInv'
  <2>1. CASE Receive \/ Main \/ UNCHANGED vars
    <3>1. UNCHANGED <<sender, resp, sent, out_queue, answers>>
      BY <2>1 DEF Receive, Peek, Read, PushCommand, FinishReceiver, ReceiverOnly, Main,
        AwaitReceiver, CloseProcessor, JoinProcessor, CloseSender, JoinSender, MainStep, vars,
        processorVars, senderVars, Proc!Close, Proc!resultVars
    <3> QED
      BY <1>2, <3>1, SentKept
  <2>2. CASE Process \/ \E k \in 1..MaxCommands : Control(k)
    <3>1. UNCHANGED <<sender, resp, sent>>
      BY <2>2 DEF Process, Control, senderVars
    <3>2. PP!Work \/ \E k \in PP!Ids : PP!Control(k)
      BY <2>2, SameWork, SameControl DEF Process, Control, PP!Ids
    <3>3. \/ UNCHANGED <<out_queue, answers>>
          \/ \E a \in PP!Ids, b \in BOOLEAN : answers[a] = "none" /\ PP!Respond(a, b)
      BY <1>2, <3>2, PP!OneResponse, ProcessorAssumed
    <3> QED
      BY <1>2, <3>1, <3>3, SentKept, SentPush
  <2>3. CASE \E k \in 1..MaxCommands : ChainStops(k)
    <3>1. UNCHANGED <<sender, resp, sent, out_queue, answers>>
      BY <2>3 DEF ChainStops, senderVars, Proc!ChainStops, Proc!resultVars
    <3> QED
      BY <1>2, <3>1, SentKept
  <2>4. CASE TestSenderClosed \/ TestUnsent \/ NoResponse
    <3>1. /\ UNCHANGED <<resp, sent, out_queue, answers>> /\ sender # "send" /\ sender' # "send"
      BY <2>4 DEF TestSenderClosed, TestUnsent, NoResponse, SenderOnly, processorVars
    <3>2. \A p \in Int : (Success(p)' <=> Success(p)) /\ IdOf(p)' = IdOf(p)
      BY <3>1 DEF Success, IdOf
    <3> QED
      BY <1>2, <3>1, <3>2 DEF SentInv, OnePlace, Placed, PP!Ids
  <2> QED
    BY <1>2, <2>1, <2>2, <2>3, <2>4, SentPop, SentSend DEF Next, Sends
<1> QED
  BY <1>1, <1>2, ProcessorInvariants, PTL DEF Spec

(* When main_loop() returns, the successful responses and no others were serialized,
   each once: closing one thread after the other lost none of them. *)
THEOREM ServiceSentAtEnd == Spec => []SentAtEnd
<1>1. ASSUME SentInv, CourseInv PROVE SentAtEnd
  <2> SUFFICES ASSUME main = "end"
               PROVE  /\ {sent[i].id : i \in DOMAIN sent} = {k \in PP!Ids : answers[k] = "yes"}
                      /\ \A i, j \in DOMAIN sent : sent[i].id = sent[j].id => i = j
    BY SameClient DEF SentAtEnd
  <2>1. /\ sender = "done" /\ out_queue = <<>> /\ DOMAIN sent = 1..Len(sent) /\ Len(sent) \in Nat
        /\ \A i \in DOMAIN sent : sent[i].id \in PP!Ids
    <3> DEFINE S == [id : PP!Ids, written : BOOLEAN]
    <3>0. \A r \in S : r.id \in PP!Ids
      OBVIOUS
    <3>1. sent \in Seq(S)
      BY <1>1 DEF SentInv
    <3> HIDE DEF S
    <3>2. sender = "done" /\ out_queue = <<>>
      BY <1>1 DEF CourseInv
    <3>3. DOMAIN sent = 1..Len(sent) /\ Len(sent) \in Nat
      BY <3>1
    <3>4. ASSUME NEW i \in 1..Len(sent) PROVE sent[i].id \in PP!Ids
      <4>1. sent[i] \in S
        BY <3>1
      <4> QED
        BY <3>0, <4>1
    <3> QED
      BY <3>2, <3>3, <3>4
  <2>2. ASSUME NEW p \in Int
        PROVE  Success(p) <=> -p \in DOMAIN sent
    BY <2>1 DEF Success
  <2>3. ASSUME NEW i \in DOMAIN sent PROVE -i \in Int /\ Success(-i) /\ IdOf(-i) = sent[i].id
    <3>1. -i \in Int /\ -(-i) = i /\ -i < 0 /\ -i # 0
      BY <2>1
    <3> QED
      BY <2>1, <2>2, <3>1 DEF IdOf
  <2>4. ASSUME NEW p \in Int, Success(p) PROVE -p \in DOMAIN sent /\ IdOf(p) = sent[-p].id
    <3>1. -p \in DOMAIN sent
      BY <2>2, <2>4
    <3>2. p < 0
      BY <2>1, <3>1
    <3> QED
      BY <3>1, <3>2 DEF IdOf
  <2>5. \A k \in PP!Ids : (answers[k] = "yes") <=> \E i \in DOMAIN sent : sent[i].id = k
    BY <1>1, <2>3, <2>4 DEF SentInv, Placed
  <2>6. \A i, j \in DOMAIN sent : sent[i].id = sent[j].id => i = j
    <3> SUFFICES ASSUME NEW i \in DOMAIN sent, NEW j \in DOMAIN sent, sent[i].id = sent[j].id
                 PROVE  i = j
      OBVIOUS
    <3>1. -i = -j
      BY <1>1, <2>3 DEF SentInv, OnePlace
    <3> QED
      BY <2>1, <3>1
  <2> QED
    BY <2>1, <2>5, <2>6
<1> QED
  BY <1>1, SentInvariant, CourseInvariant, PTL

=====
