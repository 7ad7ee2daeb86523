---------------------------- MODULE DaemonProofs ----------------------------
(***************************************************************************)
(* Proofs about modules Program and Daemon, for every command line,        *)
(* directory, scan of the CPU and sequence of commands: code of a plugin   *)
(* is called only while its library is open (PluginsInv), and a service    *)
(* that starts has the options its command line asks for (StartInv, what   *)
(* the parser knows after some arguments).  Both are proved of Program,    *)
(* which Daemon implements.  Then, of Daemon: what the plugin finds in a   *)
(* hierarchy is what its tree has (FoundAdds, by induction over the walk   *)
(* through the tree), and commands are answered by what they hold          *)
(* (AnswerInv).                                                            *)
(***************************************************************************)
EXTENDS Daemon, FiniteSetTheorems, WellFoundedInduction, TLAPS

\* A set of natural numbers has a least one.
LEMMA LeastNat ==
  ASSUME NEW S \in SUBSET Nat, S # {}
  PROVE  \E n \in S : \A m \in S : n <= m
PROOF
  <1>1. IsWellFoundedOn({ss \in Nat \X Nat : ss[1] < ss[2]}, Nat)
    BY NatLessThanWellFounded DEF OpToRel
  <1>2. PICK n \in S : \A m \in S : ~(<<m, n>> \in {ss \in Nat \X Nat : ss[1] < ss[2]})
    BY <1>1, WFMin, Zenon
  <1>3. ASSUME NEW m \in S PROVE n <= m
    <2>1. m \in Nat /\ n \in Nat OBVIOUS
    <2>2. ~(m < n)
      <3>1. <<m, n>> \in Nat \X Nat /\ <<m, n>>[1] = m /\ <<m, n>>[2] = n BY <2>1
      <3>2. QED BY <3>1, <1>2
    <2>3. QED BY <2>1, <2>2
  <1>4. QED BY <1>3

-----------------------------------------------------------------------------
\* The names of the flags

AllFlags == Simple \cup Valued

\* Both names of each flag, as registered by CliArgs.
LEMMA NamesOfFlags ==
  /\ Names("--help") = {"--help", "-h"}
  /\ Names("--debug") = {"--debug", "-d"}
  /\ Names("--input") = {"--input", "-i"}
  /\ Names("--plugins") = {"--plugins", "-p"}
  /\ Names("--in-queue") = {"--in-queue", ""}
  /\ Names("--out-queue") = {"--out-queue"}
  /\ Names("--timeout") = {"--timeout"}
PROOF
  BY DEF Names, Short

\* No two flags share a name.
LEMMA OwnNames ==
  ASSUME NEW f \in AllFlags, NEW g \in AllFlags, NEW name,
         name \in Names(f), name \in Names(g)
  PROVE  f = g
PROOF
  <1> DEFINE flag == CASE name \in {"--help", "-h"} -> "--help"
                       [] name \in {"--debug", "-d"} -> "--debug"
                       [] name \in {"--input", "-i"} -> "--input"
                       [] name \in {"--plugins", "-p"} -> "--plugins"
                       [] name \in {"--in-queue", ""} -> "--in-queue"
                       [] name = "--out-queue" -> "--out-queue"
                       [] name = "--timeout" -> "--timeout"
  <1>1. ASSUME NEW h \in AllFlags, name \in Names(h) PROVE flag = h
    <2>1. CASE h = "--help" BY <1>1, <2>1, NamesOfFlags
    <2>2. CASE h = "--debug" BY <1>1, <2>2, NamesOfFlags
    <2>3. CASE h = "--input" BY <1>1, <2>3, NamesOfFlags
    <2>4. CASE h = "--plugins" BY <1>1, <2>4, NamesOfFlags
    <2>5. CASE h = "--in-queue" BY <1>1, <2>5, NamesOfFlags
    <2>6. CASE h = "--out-queue" BY <1>1, <2>6, NamesOfFlags
    <2>7. CASE h = "--timeout" BY <1>1, <2>7, NamesOfFlags
    <2>8. QED BY <2>1, <2>2, <2>3, <2>4, <2>5, <2>6, <2>7 DEF AllFlags, Simple, Valued
  <1>2. QED BY <1>1

\* No flag has a value and has none.
LEMMA SimpleIsNotValued == \A f \in Simple : f \notin Valued
PROOF
  BY DEF Simple, Valued

-----------------------------------------------------------------------------
\* The places of values: the definition of Values can be met, place by place

Takes(i) == \E f \in Valued : line[i] \in Names(f)
Marks(v, k) ==
  /\ v \in SUBSET (1..k)
  /\ \A i \in 1..k : i \in v <=> i > 1 /\ i - 1 \notin v /\ Takes(i - 1)

\* There are such places for every first part of the line.
LEMMA MarksExist == \A k \in Nat : \E v : Marks(v, k)
PROOF
  <1> DEFINE S == {k \in Nat : ~\E v : Marks(v, k)}
  <1> SUFFICES ASSUME S # {} PROVE FALSE OBVIOUS
  <1>1. PICK n \in S : \A m \in S : n <= m BY LeastNat, Zenon
  <1>2. n # 0
    <2>1. Marks({}, 0) BY DEF Marks
    <2>2. QED BY <2>1
  <1>3. n - 1 \in Nat /\ n - 1 \notin S BY <1>1, <1>2
  <1>4. PICK v : Marks(v, n - 1) BY <1>3
  <1> DEFINE w == IF n > 1 /\ n - 1 \notin v /\ Takes(n - 1) THEN v \cup {n} ELSE v
  <1>5. Marks(w, n)
    <2> HIDE DEF S
    <2>1. n \in Nat /\ n \notin v BY <1>4 DEF Marks, S
    <2>2. w \in SUBSET (1..n) BY <1>4, <2>1 DEF Marks
    <2>3. ASSUME NEW i \in 1..n PROVE i \in w <=> i > 1 /\ i - 1 \notin w /\ Takes(i - 1)
      <3>1. CASE i = n BY <2>1, <3>1
      <3>2. CASE i # n
        <4>1. i \in 1..(n - 1) BY <2>1, <3>2
        <4>2. i - 1 # n BY <2>1
        <4>3. (i \in w <=> i \in v) /\ (i - 1 \in w <=> i - 1 \in v) BY <3>2, <4>2
        <4>4. QED BY <1>4, <4>1, <4>3 DEF Marks
      <3>3. QED BY <3>1, <3>2
    <2>4. QED BY <2>2, <2>3 DEF Marks
  <1>6. QED BY <1>5

\* Hence Values are the places it describes.
LEMMA ValuesAre ==
  ASSUME line \in Seq(STRING)
  PROVE  /\ Values \in SUBSET (DOMAIN line)
         /\ \A i \in DOMAIN line :
              i \in Values <=> i > 1 /\ i - 1 \notin Values /\ Takes(i - 1)
PROOF
  <1>1. DOMAIN line = 1..Len(line) /\ Len(line) \in Nat OBVIOUS
  <1>2. PICK v : Marks(v, Len(line)) BY <1>1, MarksExist
  <1>3. v \in SUBSET (DOMAIN line) BY <1>1, <1>2 DEF Marks
  <1>4. \A i \in DOMAIN line : i \in v <=> i > 1 /\ i - 1 \notin v /\ Takes(i - 1)
    BY <1>1, <1>2 DEF Marks
  <1>5. QED BY <1>3, <1>4, Zenon DEF Values, Takes

-----------------------------------------------------------------------------
\* The command line: what the parser knows after the first arguments

Parsed == Len(line) - Len(argv)
UsesSoFar(f) == {i \in Uses(f) : i <= Parsed}
NoEmpty(i) == line[i] # ""
Named(f) == \E i \in UsesSoFar(f) : NoEmpty(i)
OtherNames(f) == Names(f) \ {""}

\* The arguments left are the end of the line, and do not begin with a value.
Rest ==
  /\ line \in Seq(STRING) /\ argv \in Seq(STRING) /\ Len(argv) <= Len(line)
  /\ \A i \in 1..Len(argv) : argv[i] = line[Parsed + i]
  /\ argv # <<>> => Parsed + 1 \notin Values

\* The flags set are those that were used, with the value of their last use.
LastUse(f) ==
  \E i \in UsesSoFar(f) : flags[f] = line[i + 1] /\ \A j \in UsesSoFar(f) : j <= i
FlagsSet ==
  /\ DOMAIN flags = {f \in AllFlags : UsesSoFar(f) # {}}
  /\ \A f \in Valued : UsesSoFar(f) # {} => LastUse(f)

\* No name but the empty one was used twice: after the first use none is free.
UsedOnce ==
  \A f \in AllFlags :
    /\ \A i, j \in UsesSoFar(f) : NoEmpty(i) /\ NoEmpty(j) => i = j
    /\ Named(f) => OtherNames(f) \subseteq met

\* The command line was accepted, and what came of it.
Accepted ==
  at \in {"scan", "load", "configure", "open", "main_loop", "serve"} =>
    argv = <<>> /\ ~Inconsistent /\ ~Has("--help")
Scanned ==
  at \in {"load", "configure", "open", "main_loop", "serve"} => cpu.cores \in Nat \ {0}
\* The options of the flags that are set, and the constructor's for the others.
OptionsSet ==
  Options(Option("--in-queue", Defaults.in_queue), Option("--out-queue", Defaults.out_queue),
          Option("--timeout", Defaults.timeout))
Configured ==
  /\ at \in {"parse", "scan", "load", "configure"} => service = Defaults
  /\ at \in {"open", "main_loop", "serve"} => service = OptionsSet
  /\ at = "serve" => 0 \notin {service.in_queue, service.out_queue}

StartInv == Rest /\ FlagsSet /\ UsedOnce /\ Accepted /\ Scanned /\ Configured

-----------------------------------------------------------------------------
\* The plugins

Increasing == \A i, j \in DOMAIN bindings : i < j => bindings[i] < bindings[j]
LibrariesInv ==
  /\ unread \in Nat \ {0} /\ bindings \in Seq(Nat) /\ Increasing
  /\ opened = {bindings[i] : i \in DOMAIN bindings} /\ descs \subseteq opened
  /\ \A l \in opened : l < unread
  /\ factory = "empty" => unread = 1 /\ bindings = <<>>
  /\ factory \in {"failed", "gone"} => bindings = <<>>
  /\ factory = "loading" =>
       opened = {l \in 1..(unread - 1) : files[l].fate \in {"fine", "no_context"}}

\* A chain is made of open libraries, and there is one only while a command is served.
ChainInv ==
  /\ algs \in Seq(opened) /\ selected \in Seq(opened) /\ tables \subseteq opened
  /\ step \in {"receive", "read", "broken"} => algs = <<>> /\ selected = <<>> /\ tables = {}
  /\ step = "create" => algs # <<>> \/ selected # <<>>
  /\ step \in {"send", "release"} => selected = <<>>
  /\ at \notin {"serve", "aborted"} => step \in {"receive", "broken"}
  /\ factory = "loading" => at = "load"

PluginsInv == LibrariesInv /\ ChainInv

-----------------------------------------------------------------------------
\* The libraries and the chain

\* What loading does to the libraries.
LEMMA LoadKeepsLibraries ==
  ASSUME LibrariesInv, Load \/ \E d : LoadBegin(d)
  PROVE  LibrariesInv'
PROOF
  <1>1. CASE \E d : LoadBegin(d)
    <2>1. bindings = <<>> /\ opened = {} /\ unread = 1 /\ factory = "empty"
      BY <1>1, SMT DEF LibrariesInv, LoadBegin
    <2>2. UNCHANGED <<unread, bindings, opened, descs>> /\ factory' \in {"failed", "loading"}
      BY <1>1 DEF LoadBegin
    <2>3. LibrariesInv' BY <2>1, <2>2, SMT DEF LibrariesInv, Increasing
    <2>4. QED BY <2>3
  <1>2. CASE LoadFile
    <2>1. /\ unread \in Nat \ {0} /\ unread' = unread + 1
          /\ factory = "loading" /\ UNCHANGED <<files, factory>>
      BY <1>2 DEF LoadFile, LibrariesInv
    <2> DEFINE loaded == {"fine", "no_context"}
    <2>2. /\ opened = {l \in 1..(unread - 1) : files[l].fate \in loaded}
          /\ \A l \in opened : l \in Nat /\ l < unread
      BY <2>1 DEF LibrariesInv
    <2>3. CASE files[unread].fate \in loaded
      <3>1. /\ bindings' = Append(bindings, unread) /\ opened' = opened \cup {unread}
            /\ descs' = descs \cup {unread}
        BY <1>2, <2>3 DEF LoadFile
      <3>2. bindings \in Seq(Nat) /\ unread \in Nat BY <2>1 DEF LibrariesInv
      <3>3. bindings' \in Seq(Nat) /\ DOMAIN bindings' = 1..(Len(bindings) + 1)
        BY <3>1, <3>2
      <3>4. /\ \A i \in DOMAIN bindings : bindings'[i] = bindings[i]
            /\ bindings'[Len(bindings) + 1] = unread
        BY <3>1, <3>2
      <3>5. DOMAIN bindings = 1..Len(bindings) /\ Len(bindings) \in Nat BY <3>2
      <3>6. opened = {bindings[i] : i \in DOMAIN bindings} BY DEF LibrariesInv
      <3>7. \A i \in DOMAIN bindings : bindings[i] < unread BY <2>2, <3>6
      <3>8. Increasing'
        <4>1. SUFFICES ASSUME NEW i \in DOMAIN bindings', NEW j \in DOMAIN bindings', i < j
                       PROVE  bindings'[i] < bindings'[j]
          BY DEF Increasing
        <4>2. i \in DOMAIN bindings /\ bindings'[i] = bindings[i] BY <3>3, <3>4, <3>5, <4>1
        <4>3. CASE j = Len(bindings) + 1 BY <3>4, <3>7, <4>2, <4>3
        <4>4. CASE j # Len(bindings) + 1
          <5>1. j \in DOMAIN bindings /\ bindings'[j] = bindings[j]
            BY <3>3, <3>4, <3>5, <4>4
          <5>2. QED BY <4>1, <4>2, <5>1 DEF LibrariesInv, Increasing
        <4>5. QED BY <4>3, <4>4
      <3>9. opened' = {bindings'[i] : i \in DOMAIN bindings'}
        <4>1. DOMAIN bindings' = DOMAIN bindings \cup {Len(bindings) + 1} BY <3>3, <3>5
        <4>2. QED BY <3>1, <3>4, <3>6, <4>1
      <3>10. opened' = {l \in 1..(unread' - 1) : files'[l].fate \in loaded}
        <4>1. 1..(unread' - 1) = 1..(unread - 1) \cup {unread} BY <2>1
        <4>2. QED BY <2>1, <2>2, <2>3, <3>1, <4>1
      <3>11. descs' \subseteq opened' BY <3>1 DEF LibrariesInv
      <3>12. \A l \in opened' : l < unread' BY <2>1, <2>2, <3>1
      <3>13. QED BY <2>1, <3>3, <3>8, <3>9, <3>10, <3>11, <3>12 DEF LibrariesInv
    <2>4. CASE files[unread].fate \notin loaded
      <3>1. unread \notin opened BY <2>1, <2>2
      <3>2. opened' = opened /\ UNCHANGED <<bindings, descs>>
        BY <1>2, <2>4, <3>1 DEF LoadFile, AfterFailure
      <3>3. opened' = {l \in 1..(unread' - 1) : files'[l].fate \in loaded}
        <4>1. 1..(unread' - 1) = 1..(unread - 1) \cup {unread} BY <2>1
        <4>2. QED BY <2>1, <2>2, <2>4, <3>2, <4>1
      <3>4. Increasing' BY <3>2 DEF LibrariesInv, Increasing
      <3>5. \A l \in opened' : l < unread' BY <2>1, <2>2, <3>2
      <3>6. QED BY <2>1, <3>2, <3>3, <3>4, <3>5 DEF LibrariesInv
    <2>5. QED BY <2>3, <2>4
  <1>3. CASE LoadEnd
    BY <1>3 DEF LoadEnd, LibrariesInv, Increasing
  <1>4. QED BY <1>1, <1>2, <1>3 DEF Load

\* What unloading does to the libraries.
LEMMA UnloadKeepsLibraries ==
  ASSUME LibrariesInv, Unload
  PROVE  LibrariesInv'
PROOF
  <1>1. CASE DeleteDescriptor
    BY <1>1 DEF DeleteDescriptor, LibrariesInv, Increasing
  <1>2. CASE CloseLibrary
    <2>1. /\ bindings \in Seq(Nat) /\ bindings # <<>> /\ bindings' = Tail(bindings)
          /\ Head(bindings) \notin descs /\ opened' = opened \ {Head(bindings)}
          /\ factory' = "loaded" /\ UNCHANGED <<files, unread, descs>>
      BY <1>2 DEF CloseLibrary, Closable, LibrariesInv
    <2>2. /\ bindings' \in Seq(Nat) /\ DOMAIN bindings' = 1..(Len(bindings) - 1)
          /\ \A i \in DOMAIN bindings' : bindings'[i] = bindings[i + 1]
      BY <2>1
    <2>3. /\ DOMAIN bindings = 1..Len(bindings) /\ Len(bindings) \in Nat \ {0}
          /\ Head(bindings) = bindings[1]
      BY <2>1
    <2>4. \A i \in 2..Len(bindings) : bindings[1] < bindings[i]
      BY <2>3 DEF LibrariesInv, Increasing
    <2>5. \A i \in 1..Len(bindings) : bindings[i] \in Nat BY <2>1
    <2>6. Increasing'
      <3>1. SUFFICES ASSUME NEW i \in DOMAIN bindings', NEW j \in DOMAIN bindings', i < j
                     PROVE  bindings'[i] < bindings'[j]
        BY DEF Increasing
      <3>2. i + 1 \in DOMAIN bindings /\ j + 1 \in DOMAIN bindings /\ i + 1 < j + 1
        BY <2>2, <2>3, <3>1
      <3>3. bindings[i + 1] < bindings[j + 1] BY <3>2 DEF LibrariesInv, Increasing
      <3>4. QED BY <2>2, <3>3
    <2>7. opened' = {bindings'[i] : i \in DOMAIN bindings'}
      <3>1. ASSUME NEW l \in opened' PROVE l \in {bindings'[i] : i \in DOMAIN bindings'}
        <4>1. PICK i \in DOMAIN bindings : l = bindings[i] /\ i # 1
          BY <3>1, <2>1, <2>3 DEF LibrariesInv
        <4>2. i - 1 \in DOMAIN bindings' /\ (i - 1) + 1 = i BY <4>1, <2>2, <2>3
        <4>3. QED BY <4>1, <4>2, <2>2
      <3>2. ASSUME NEW i \in DOMAIN bindings' PROVE bindings'[i] \in opened'
        <4>1. i + 1 \in 2..Len(bindings) BY <2>2, <2>3
        <4>2. bindings[i + 1] \in opened BY <4>1, <2>3 DEF LibrariesInv
        <4>3. bindings[i + 1] # bindings[1] BY <4>1, <2>3, <2>4, <2>5
        <4>4. QED BY <4>2, <4>3, <2>1, <2>2, <2>3
      <3>3. QED BY <3>1, <3>2
    <2>8. descs' \subseteq opened' BY <2>1 DEF LibrariesInv
    <2>9. \A l \in opened' : l < unread' BY <2>1 DEF LibrariesInv
    <2>10. QED BY <2>1, <2>2, <2>6, <2>7, <2>8, <2>9 DEF LibrariesInv
  <1>3. CASE DropFactory
    BY <1>3 DEF DropFactory, LibrariesInv, Increasing
  <1>4. QED BY <1>1, <1>2, <1>3 DEF Unload

\* The invariant of the libraries depends on them alone.
LEMMA LibrariesUnchanged ==
  ASSUME LibrariesInv, UNCHANGED factoryVars
  PROVE  LibrariesInv'
PROOF
  BY DEF LibrariesInv, Increasing, factoryVars

\* A chain stays sound while main() moves on.
LEMMA ChainUnchanged ==
  ASSUME ChainInv, UNCHANGED <<opened, chainVars, step>>,
         at \in {"serve", "aborted"} => at' \in {"serve", "aborted"} \/ step \in {"receive", "broken"},
         factory' = "loading" => at' = "load"
  PROVE  ChainInv'
PROOF
  BY DEF ChainInv, chainVars

\* main() loads and unloads while there is no chain.
LEMMA MainKeepsPlugins ==
  ASSUME PluginsInv, Main
  PROVE  PluginsInv'
PROOF
  <1> USE DEF PluginsInv
  <1>1. CASE InStart
    <2>1. UNCHANGED <<factoryVars, chainVars, opened, step>> /\ Start
      BY <1>1 DEF InStart, pluginVars, factoryVars, chainVars
    <2>2. at \notin {"load", "serve", "aborted"}
      BY <2>1 DEF Start, ParseArg, CheckArgs, Scan, Configure, Open, BuildQueues
    <2>3. factory' # "loading" BY <2>1, <2>2 DEF ChainInv, factoryVars
    <2>4. QED BY <2>1, <2>2, <2>3, LibrariesUnchanged, ChainUnchanged
  <1>2. CASE BeginLoad
    <2>1. at = "load" /\ at' = at /\ UNCHANGED <<opened, chainVars, step>>
      BY <1>2 DEF BeginLoad, LoadBegin, startVars, chainVars
    <2>2. \E d : LoadBegin(d) BY <1>2 DEF BeginLoad
    <2>3. QED BY <2>1, <2>2, LoadKeepsLibraries, ChainUnchanged
  <1>3. CASE LoadPlugins
    <2>1. factory = "loading" /\ Load /\ UNCHANGED <<at, chainVars, step>>
      BY <1>3 DEF LoadPlugins, Load, LoadFile, LoadEnd, startVars, chainVars
    <2>2. at = "load" /\ algs = <<>> /\ selected = <<>> /\ tables = {} BY <2>1 DEF ChainInv
    <2>3. ChainInv' BY <2>1, <2>2, SMT DEF ChainInv, chainVars
    <2>4. QED BY <2>1, <2>3, LoadKeepsLibraries
  <1>4. CASE EndLoad
    <2>1. /\ UNCHANGED <<factoryVars, chainVars, opened, step>> /\ factory # "loading"
          /\ factory' = factory /\ at = "load"
      BY <1>4 DEF EndLoad, Goes, pluginVars, factoryVars, chainVars
    <2>2. QED BY <2>1, LibrariesUnchanged, ChainUnchanged
  <1>5. CASE Return
    <2>1. /\ UNCHANGED <<factoryVars, chainVars, opened, step>> /\ factory' = factory
          /\ at = "serve" /\ step \in {"receive", "broken"}
      BY <1>5 DEF Return, Goes, pluginVars, factoryVars, chainVars
    <2>2. factory' # "loading" BY <2>1 DEF ChainInv
    <2>3. QED BY <2>1, <2>2, LibrariesUnchanged, ChainUnchanged
  <1>6. CASE Leave
    <2>1. /\ at \in {"0", "-2", "-3", "-42"} /\ Unload /\ UNCHANGED <<at, chainVars, step>>
          /\ factory' # "loading"
      BY <1>6
      DEF Leave, Unload, DeleteDescriptor, CloseLibrary, DropFactory, startVars, chainVars
    <2>2. algs = <<>> /\ selected = <<>> /\ tables = {} BY <2>1 DEF ChainInv
    <2>3. ChainInv' BY <2>1, <2>2, SMT DEF ChainInv, chainVars
    <2>4. QED BY <2>1, <2>3, UnloadKeepsLibraries
  <1>7. QED BY <1>1, <1>2, <1>3, <1>4, <1>5, <1>6 DEF Main

\* What create_algorithms() selects is open.
LEMMA SelectedIsOpen ==
  ASSUME LibrariesInv, NEW specs, specs \in Seq({specs[i] : i \in DOMAIN specs}), Select(specs)
  PROVE  selected' \in Seq(opened) /\ selected' # <<>>
PROOF
  <1>1. DOMAIN specs = 1..Len(specs) /\ Len(specs) \in Nat \ {0}
    BY DEF Select, Selectable
  <1>2. ASSUME NEW i \in DOMAIN specs PROVE bindings[FirstOf(Candidates(specs[i]))] \in opened
    <2> DEFINE s == Candidates(specs[i])
    <2>1. s # {} BY DEF Select, Selectable
    <2>2. s \subseteq DOMAIN bindings BY DEF Candidates
    <2>3. s \in SUBSET Nat BY <2>2 DEF LibrariesInv
    <2> HIDE DEF s
    <2>4. \E n \in s : \A m \in s : n <= m BY <2>1, <2>3, LeastNat
    <2>5. FirstOf(s) \in s BY <2>4 DEF FirstOf
    <2>6. QED BY <2>2, <2>5 DEF LibrariesInv, s
  <1>3. selected' = [i \in DOMAIN specs |-> bindings[FirstOf(Candidates(specs[i]))]]
    BY DEF Select
  <1>4. QED BY <1>1, <1>2, <1>3

\* A command makes and releases its chain and leaves the libraries alone.
LEMMA CommandKeepsPlugins ==
  ASSUME PluginsInv, CommandStep, ~Abort
  PROVE  PluginsInv'
PROOF
  <1> USE DEF PluginsInv
  <1>1. UNCHANGED factoryVars /\ UNCHANGED at /\ at = "serve"
    BY DEF CommandStep, ReadStep, SelectStep, CreateStep, FailStep, ChainStep, SendStep,
           ReleaseStep, DoneStep, Passes, Steps, Select, CreateAlgorithm, CreateFails,
           CreateTimetable, ReleaseTables, ReleaseAlgorithm, startVars, pluginVars, factoryVars
  <1>2. LibrariesInv' BY <1>1, LibrariesUnchanged
  <1>3. opened' = opened /\ factory # "loading" /\ factory' = factory
    BY <1>1 DEF factoryVars, ChainInv
  <1>4. /\ algs \in Seq(opened) /\ selected \in Seq(opened) /\ tables \subseteq opened
        /\ step \in {"receive", "read", "broken"} => algs = <<>> /\ selected = <<>> /\ tables = {}
        /\ step = "create" => algs # <<>> \/ selected # <<>>
        /\ step \in {"send", "release"} => selected = <<>>
    BY DEF ChainInv
  <1> DEFINE Chain(t) ==
        /\ algs' \in Seq(opened) /\ selected' \in Seq(opened) /\ tables' \subseteq opened
        /\ step' = t
        /\ t \in {"receive", "read", "broken"} => algs' = <<>> /\ selected' = <<>> /\ tables' = {}
        /\ t = "create" => algs' # <<>> \/ selected' # <<>>
        /\ t \in {"send", "release"} => selected' = <<>>
  <1>5. ASSUME NEW t, Chain(t) PROVE ChainInv' BY <1>1, <1>3, <1>5 DEF ChainInv
  <1>6. CASE ReadStep
    <2>1. /\ step \in {"receive", "read"} /\ UNCHANGED chainVars
          /\ step' \in {"read", "broken", "receive", "send"}
      BY <1>6 DEF ReadStep, Passes, Steps, pluginVars, chainVars
    <2>2. Chain(step') BY <1>4, <2>1 DEF chainVars
    <2>3. QED BY <1>2, <1>5, <2>2
  <1>7. CASE SelectStep
    <2>1. /\ step = "read" /\ step' = "create" /\ Select(Schedulers)
          /\ algs' = algs /\ tables' = tables
      BY <1>7 DEF SelectStep, Steps, Select
    <2>2. Schedulers \in Seq({Schedulers[i] : i \in DOMAIN Schedulers}) BY DEF Schedulers
    <2>3. selected' \in Seq(opened) /\ selected' # <<>> BY <2>1, <2>2, SelectedIsOpen
    <2>4. Chain("create") BY <1>4, <2>1, <2>3
    <2>5. QED BY <1>2, <1>5, <2>4
  <1>8. CASE CreateStep
    <2>1. /\ selected # <<>> /\ algs' = Append(algs, Head(selected)) /\ step' = "create"
          /\ selected' = Tail(selected) /\ tables' = tables
      BY <1>8 DEF CreateStep, Steps, CreateAlgorithm
    <2>2. Head(selected) \in opened /\ Tail(selected) \in Seq(opened) BY <1>4, <2>1
    <2>3. algs' \in Seq(opened) /\ algs' # <<>> BY <1>4, <2>1, <2>2
    <2>4. Chain("create") BY <1>4, <2>1, <2>2, <2>3
    <2>5. QED BY <1>2, <1>5, <2>4
  <1>9. CASE FailStep
    <2>1. algs' = <<>> /\ selected' = <<>> /\ tables' = tables /\ step' = "send"
      BY <1>9 DEF FailStep, Steps, CreateFails
    <2>2. Chain("send") BY <1>4, <2>1
    <2>3. QED BY <1>2, <1>5, <2>2
  <1>10. CASE \E succeeded \in BOOLEAN : ChainStep(succeeded)
    <2>1. /\ step = "create" /\ step' = "send" /\ selected = <<>> /\ tables' \subseteq {Head(algs)}
          /\ algs' = algs /\ selected' = selected
      BY <1>10 DEF ChainStep, Steps, CreateTimetable
    <2>2. Head(algs) \in opened BY <1>4, <2>1
    <2>3. Chain("send") BY <1>4, <2>1, <2>2
    <2>4. QED BY <1>2, <1>5, <2>3
  <1>11. CASE SendStep
    <2>1. step = "send" /\ step' = "release" /\ UNCHANGED chainVars
      BY <1>11 DEF SendStep, Passes, Steps, pluginVars, chainVars
    <2>2. Chain("release") BY <1>4, <2>1 DEF chainVars
    <2>3. QED BY <1>2, <1>5, <2>2
  <1>12. CASE ReleaseStep
    <2>1. step = "release" /\ step' = "release" /\ selected' = selected
          /\ \/ tables' = {} /\ algs' = algs
             \/ tables' = tables /\ algs # <<>> /\ algs' = Tail(algs)
      BY <1>12 DEF ReleaseStep, Steps, ReleaseTables, ReleaseAlgorithm
    <2>2. algs' \in Seq(opened) BY <1>4, <2>1
    <2>3. Chain("release") BY <1>4, <2>1, <2>2
    <2>4. QED BY <1>2, <1>5, <2>3
  <1>13. CASE DoneStep
    <2>1. /\ step = "release" /\ step' = "receive" /\ UNCHANGED chainVars
          /\ algs = <<>> /\ tables = {}
      BY <1>13 DEF DoneStep, Passes, Steps, pluginVars, chainVars
    <2>2. Chain("receive") BY <1>4, <2>1 DEF chainVars
    <2>3. QED BY <1>2, <1>5, <2>2
  <1>14. QED BY <1>6, <1>7, <1>8, <1>9, <1>10, <1>11, <1>12, <1>13 DEF CommandStep

\* A program that is gone leaves them as they are.
LEMMA AbortKeepsPlugins ==
  ASSUME PluginsInv, Abort
  PROVE  PluginsInv'
PROOF
  <1>1. at = "serve" /\ at' = "aborted" /\ UNCHANGED <<pluginVars, step>>
    BY DEF Abort, Goes
  <1>2. UNCHANGED <<factoryVars, opened, chainVars, step, factory>>
    BY <1>1 DEF pluginVars, factoryVars, chainVars
  <1>3. LibrariesInv' BY <1>2, LibrariesUnchanged DEF PluginsInv
  <1>4. ChainInv' BY <1>1, <1>2 DEF PluginsInv, ChainInv, chainVars
  <1>5. QED BY <1>3, <1>4 DEF PluginsInv

\* The libraries and the chain are sound at every step of the program.
LEMMA PluginsInvHolds == ProgramSpec => []PluginsInv
PROOF
  <1>1. ProgramInit => PluginsInv
    BY DEF ProgramInit, StartInit, PluginsInit, PluginsInv, LibrariesInv, ChainInv, Increasing
  <1>2. PluginsInv /\ [ProgramNext]_programVars => PluginsInv'
    <2>1. ASSUME PluginsInv, ProgramNext PROVE PluginsInv'
      BY <2>1, MainKeepsPlugins, CommandKeepsPlugins, AbortKeepsPlugins DEF ProgramNext
    <2>2. ASSUME PluginsInv, UNCHANGED programVars PROVE PluginsInv'
      <3>1. UNCHANGED <<factoryVars, opened, chainVars, step, at, factory>>
        BY <2>2 DEF programVars, pluginVars, startVars, factoryVars, chainVars
      <3>2. QED
        BY <2>2, <3>1, LibrariesUnchanged, ChainUnchanged DEF PluginsInv, ChainInv
    <2>3. QED BY <2>1, <2>2
  <1>3. QED BY <1>1, <1>2, PTL DEF ProgramSpec

(* Whatever the directory holds, code of a plugin is called only while its library is
   open, and all are closed when the factory is gone. *)
THEOREM ProgramPluginsOpen == ProgramSpec => []OpenAsLongAsUsed
PROOF
  <1>1. PluginsInv => OpenAsLongAsUsed
    BY DEF PluginsInv, LibrariesInv, ChainInv, OpenAsLongAsUsed
  <1>2. QED BY <1>1, PluginsInvHolds, PTL

-----------------------------------------------------------------------------
\* The parser keeps what it knows

OneMoreUse(g) ==
  UsesSoFar(g)' = {i \in UsesSoFar(g) \cup {Parsed + 1} :
                     i <= Parsed \/ Head(argv) \in Names(g)}

\* In its line an argument that is no value is one more use of the flag it names.
LEMMA NextUses ==
  ASSUME Rest, argv # <<>>, NEW g \in AllFlags, NEW k \in {1, 2}, k <= Len(argv),
         line' = line, argv' \in Seq(STRING), Len(argv') = Len(argv) - k,
         k = 2 => Parsed + 2 \in Values
  PROVE  Parsed' = Parsed + k /\ OneMoreUse(g)
PROOF
  <1>1. /\ Len(line) \in Nat /\ Len(argv) \in Nat /\ DOMAIN line = 1..Len(line)
        /\ Len(argv) <= Len(line) /\ Len(argv) >= 1
        /\ Head(argv) = line[Parsed + 1] /\ Parsed + 1 \notin Values
    BY DEF Rest
  <1>2. Parsed \in Nat /\ Parsed' = Parsed + k /\ Parsed + k <= Len(line) BY <1>1 DEF Parsed
  <1>3. Uses(g)' = Uses(g) BY DEF Uses, Values
  <1>4. Parsed + 1 \in Uses(g) <=> Head(argv) \in Names(g) BY <1>1, <1>2 DEF Uses
  <1>5. k = 2 => Parsed + 2 \notin Uses(g) BY DEF Uses
  <1>6. \A i \in Uses(g) : i \in Nat BY <1>1 DEF Uses
  <1>7. \A i \in Nat : i <= Parsed + k <=> i <= Parsed \/ i = Parsed + 1 \/ (k = 2 /\ i = Parsed + 2)
    BY <1>2
  <1>8. UsesSoFar(g)' = {i \in Uses(g) : i <= Parsed + k} BY <1>2, <1>3 DEF UsesSoFar
  <1>9. ASSUME NEW i
        PROVE  i \in UsesSoFar(g)' <=>
                 i \in UsesSoFar(g) \cup {Parsed + 1} /\ (i <= Parsed \/ Head(argv) \in Names(g))
    <2>1. CASE i \in Uses(g)
      <3>1. CASE i <= Parsed BY <1>6, <1>7, <1>8, <2>1, <3>1 DEF UsesSoFar
      <3>2. CASE i = Parsed + 1 BY <1>2, <1>4, <1>7, <1>8, <2>1, <3>2
      <3>3. CASE ~(i <= Parsed) /\ i # Parsed + 1
        BY <1>5, <1>6, <1>7, <1>8, <2>1, <3>3 DEF UsesSoFar
      <3>4. QED BY <3>1, <3>2, <3>3
    <2>2. CASE i \notin Uses(g)
      <3>1. i \notin UsesSoFar(g)' /\ i \notin UsesSoFar(g) BY <1>8, <2>2 DEF UsesSoFar
      <3>2. i = Parsed + 1 => ~(i <= Parsed) /\ Head(argv) \notin Names(g) BY <1>2, <1>4, <2>2
      <3>3. QED BY <3>1, <3>2
    <2>3. QED BY <2>1, <2>2
  <1>10. QED BY <1>2, <1>9 DEF OneMoreUse

SetsFlag(f, value) ==
  flags' = [g \in DOMAIN flags \cup {f} |-> IF g = f THEN value ELSE flags[g]]

\* A flag that is met under a name it did not have before.
LEMMA FlagParsed ==
  ASSUME Rest, FlagsSet, UsedOnce, argv # <<>>, NEW f \in AllFlags, NEW value, line' = line,
         Head(argv) \in Names(f), Head(argv) \notin met,
         met' = met \cup OtherNames(f),
         SetsFlag(f, value),
         f \in Valued => value = line[Parsed + 2],
         \A g \in AllFlags : OneMoreUse(g)
  PROVE  FlagsSet' /\ UsedOnce'
PROOF
  <1>1. Parsed \in Nat /\ Head(argv) = line[Parsed + 1]
    <2>1. Len(line) \in Nat /\ Len(argv) \in Nat \ {0} /\ Len(argv) <= Len(line) BY DEF Rest
    <2>2. Head(argv) = argv[1] BY DEF Rest
    <2>3. QED BY <2>1, <2>2 DEF Rest, Parsed
  <1>2. \A g \in AllFlags : \A i \in UsesSoFar(g) : i \in Nat /\ i <= Parsed
    <2>1. DOMAIN line \subseteq Nat BY DEF Rest
    <2>2. QED BY <2>1 DEF UsesSoFar, Uses
  <1>3. UsesSoFar(f)' = UsesSoFar(f) \cup {Parsed + 1} BY <1>2 DEF OneMoreUse
  <1>4. ASSUME NEW g \in AllFlags, g # f PROVE UsesSoFar(g)' = UsesSoFar(g)
    <2>1. Head(argv) \notin Names(g) BY <1>4, OwnNames
    <2>2. ~(Parsed + 1 <= Parsed) BY <1>1
    <2>3. QED BY <1>2, <2>1, <2>2 DEF OneMoreUse
  <1>5. FlagsSet'
    <2>1. DOMAIN flags' = {g \in AllFlags : UsesSoFar(g)' # {}}
      BY <1>3, <1>4 DEF FlagsSet, SetsFlag
    <2>2. ASSUME NEW g \in Valued, UsesSoFar(g)' # {} PROVE LastUse(g)'
      <3>1. g \in AllFlags BY DEF AllFlags
      <3>2. CASE g = f
        <4>1. flags'[g] = line'[(Parsed + 1) + 1] BY <1>1, <3>2 DEF SetsFlag
        <4>2. \A j \in UsesSoFar(g)' : j <= Parsed + 1 BY <1>1, <1>2, <1>3, <3>2
        <4>3. Parsed + 1 \in UsesSoFar(g)' BY <1>3, <3>2
        <4>4. QED BY <4>1, <4>2, <4>3 DEF LastUse
      <3>3. CASE g # f
        <4>1. UsesSoFar(g)' = UsesSoFar(g) BY <1>4, <3>1, <3>3
        <4>2. LastUse(g) BY <2>2, <4>1 DEF FlagsSet
        <4>3. flags'[g] = flags[g] BY <2>2, <3>1, <3>3, <4>1 DEF FlagsSet, SetsFlag
        <4>4. QED BY <4>1, <4>2, <4>3 DEF LastUse
      <3>4. QED BY <3>2, <3>3
    <2>3. QED BY <2>1, <2>2 DEF FlagsSet
  <1>6. UsedOnce'
    <2> SUFFICES ASSUME NEW g \in AllFlags
                 PROVE  /\ \A i, j \in UsesSoFar(g)' : NoEmpty(i) /\ NoEmpty(j) => i = j
                        /\ Named(g)' => OtherNames(g) \subseteq met'
      BY DEF UsedOnce, NoEmpty, OtherNames
    <2>1. /\ \A i, j \in UsesSoFar(g) : NoEmpty(i) /\ NoEmpty(j) => i = j
          /\ Named(g) => OtherNames(g) \subseteq met
      BY DEF UsedOnce
    <2>2. CASE g = f
      <3>1. NoEmpty(Parsed + 1) => Head(argv) \in OtherNames(g)
        BY <1>1, <2>2, Zenon DEF NoEmpty, OtherNames
      <3>2. NoEmpty(Parsed + 1) => ~Named(g) BY <2>1, <3>1
      <3>3. QED BY <1>3, <2>1, <2>2, <3>2 DEF Named
    <2>3. CASE g # f
      <3>1. UsesSoFar(g)' = UsesSoFar(g) BY <1>4, <2>3
      <3>2. Named(g)' => Named(g) BY <3>1 DEF Named, NoEmpty
      <3>3. QED BY <2>1, <3>1, <3>2
    <2>4. QED BY <2>2, <2>3
  <1>7. QED BY <1>5, <1>6

\* What is known of the line depends on the line and the flags alone.
LEMMA UnparsedKept ==
  ASSUME Rest, FlagsSet, UsedOnce, UNCHANGED <<argv, flags, met, line>>
  PROVE  Rest' /\ FlagsSet' /\ UsedOnce'
PROOF
  <1>1. Parsed' = Parsed /\ Values' = Values BY DEF Parsed, Values
  <1>2. \A f : Uses(f)' = Uses(f) BY <1>1 DEF Uses
  <1>3. \A f : UsesSoFar(f)' = UsesSoFar(f) BY <1>1, <1>2 DEF UsesSoFar
  <1>4. \A f : LastUse(f)' <=> LastUse(f) BY <1>3 DEF LastUse
  <1>5. \A f : Named(f)' <=> Named(f) BY <1>3 DEF Named, NoEmpty
  <1>6. Rest' BY <1>1 DEF Rest
  <1>7. FlagsSet' BY <1>3, <1>4 DEF FlagsSet
  <1>8. UsedOnce' BY <1>3, <1>5, Zenon DEF UsedOnce, NoEmpty
  <1>9. QED BY <1>6, <1>7, <1>8

\* An iteration of the loop of parse().
LEMMA ParseArgKeeps ==
  ASSUME Rest, FlagsSet, UsedOnce, ParseArg
  PROVE  Rest' /\ FlagsSet' /\ UsedOnce'
PROOF
  <1> DEFINE name == Head(argv)
  <1>1. argv # <<>> /\ line' = line BY DEF ParseArg
  <1>2. /\ line \in Seq(STRING) /\ argv \in Seq(STRING)
        /\ Len(line) \in Nat /\ Len(argv) \in Nat \ {0} /\ Len(argv) <= Len(line)
        /\ name = argv[1]
    BY <1>1 DEF Rest
  <1>3. /\ Parsed \in Nat /\ Parsed + Len(argv) = Len(line) /\ Parsed + 1 \notin Values
        /\ name = line[Parsed + 1]
    BY <1>1, <1>2 DEF Rest, Parsed
  <1>4. \A i \in 1..Len(argv) : argv[i] = line[Parsed + i] BY DEF Rest
  <1>5. DOMAIN line = 1..Len(line) /\ Values' = Values BY <1>1, <1>2 DEF Values
  <1>6. ASSUME NEW f \in Simple, name \in Names(f), name \notin met, SetsFlag(f, TRUE),
               met' = met \cup OtherNames(f), argv' = Tail(argv)
        PROVE  Rest' /\ FlagsSet' /\ UsedOnce'
    <2>1. f \in AllFlags /\ f \notin Valued BY SimpleIsNotValued DEF AllFlags
    <2>2. /\ argv' \in Seq(STRING) /\ Len(argv') = Len(argv) - 1
          /\ \A i \in 1..Len(argv') : argv'[i] = argv[i + 1]
      BY <1>1, <1>2, <1>6
    <2>3. Parsed' = Parsed + 1 /\ \A g \in AllFlags : OneMoreUse(g)
      <3>1. ASSUME NEW g \in AllFlags PROVE Parsed' = Parsed + 1 /\ OneMoreUse(g)
        BY <1>1, <1>2, <2>2, NextUses
      <3>2. QED BY <2>1, <3>1
    <2>4. FlagsSet' /\ UsedOnce' BY <1>1, <1>6, <2>1, <2>3, FlagParsed
    <2>5. Rest'
      <3>1. ASSUME NEW i \in 1..Len(argv') PROVE argv'[i] = line'[Parsed' + i]
        <4>1. i \in Nat /\ i + 1 \in 1..Len(argv) BY <1>2, <2>2
        <4>2. argv'[i] = line[Parsed + (i + 1)] BY <4>1, <1>4, <2>2
        <4>3. Parsed + (i + 1) = Parsed' + i BY <4>1, <1>3, <2>3
        <4>4. QED BY <4>2, <4>3, <1>1
      <3>2. ~Takes(Parsed + 1)
        <4>1. ASSUME NEW g \in Valued PROVE name \notin Names(g)
          BY <1>6, <2>1, OwnNames DEF AllFlags
        <4>2. QED BY <1>3, <4>1 DEF Takes
      <3>3. argv' # <<>> => Parsed + 2 \notin Values
        BY <1>2, <1>3, <1>5, <2>2, <3>2, ValuesAre
      <3>4. Parsed' + 1 = Parsed + 2 BY <1>3, <2>3
      <3>5. QED BY <1>1, <1>2, <1>5, <2>2, <3>1, <3>3, <3>4 DEF Rest
    <2>6. QED BY <2>4, <2>5
  <1>7. ASSUME NEW f \in Valued, name \in Names(f), name \notin met, SetsFlag(f, argv[2]),
               Len(argv) > 1, met' = met \cup OtherNames(f), argv' = Tail(Tail(argv))
        PROVE  Rest' /\ FlagsSet' /\ UsedOnce'
    <2>1. f \in AllFlags BY DEF AllFlags
    <2>2. /\ argv' \in Seq(STRING) /\ Len(argv') = Len(argv) - 2
          /\ \A i \in 1..Len(argv') : argv'[i] = argv[i + 2]
      <3> DEFINE rest == Tail(argv)
      <3>1. /\ rest \in Seq(STRING) /\ Len(rest) = Len(argv) - 1 /\ rest # <<>>
            /\ \A i \in 1..Len(rest) : rest[i] = argv[i + 1]
        <4>1. argv \in Seq(STRING) /\ argv # <<>> /\ Len(argv) > 1 BY <1>1, <1>2, <1>7
        <4>2. /\ rest \in Seq(STRING) /\ Len(rest) = Len(argv) - 1
              /\ \A i \in 1..Len(rest) : rest[i] = argv[i + 1]
          BY <4>1
        <4> HIDE DEF rest
        <4>3. Len(rest) \in Nat \ {0} BY <1>2, <4>1, <4>2
        <4>4. rest # <<>> BY <4>2, <4>3
        <4>5. QED BY <4>2, <4>4
      <3> HIDE DEF rest
      <3>2. /\ Tail(rest) \in Seq(STRING) /\ Len(Tail(rest)) = Len(rest) - 1
            /\ \A i \in 1..Len(Tail(rest)) : Tail(rest)[i] = rest[i + 1]
        BY <3>1
      <3>3. argv' = Tail(rest) BY <1>7 DEF rest
      <3>4. Len(argv') = Len(argv) - 2 BY <1>2, <3>1, <3>2, <3>3
      <3>5. ASSUME NEW i \in 1..Len(argv') PROVE argv'[i] = argv[i + 2]
        <4>1. i + 1 \in 1..Len(rest) /\ (i + 1) + 1 = i + 2 BY <1>2, <3>1, <3>4
        <4>2. QED BY <3>1, <3>2, <3>3, <4>1
      <3>6. QED BY <3>2, <3>3, <3>4, <3>5
    <2>3. Parsed + 2 \in Values
      <3>1. Takes(Parsed + 1) BY <1>3, <1>7 DEF Takes
      <3>2. Parsed + 2 \in DOMAIN line BY <1>2, <1>3, <1>5, <1>7
      <3>3. Parsed + 2 > 1 /\ (Parsed + 2) - 1 = Parsed + 1 BY <1>3
      <3>4. QED BY <1>2, <1>3, <3>1, <3>2, <3>3, ValuesAre
    <2>4. Parsed' = Parsed + 2 /\ \A g \in AllFlags : OneMoreUse(g)
      <3>1. ASSUME NEW g \in AllFlags PROVE Parsed' = Parsed + 2 /\ OneMoreUse(g)
        BY <1>1, <1>2, <1>7, <2>2, <2>3, NextUses
      <3>2. QED BY <2>1, <3>1
    <2>5. argv[2] = line[Parsed + 2] BY <1>2, <1>4, <1>7
    <2>6. FlagsSet' /\ UsedOnce' BY <1>1, <1>7, <2>1, <2>4, <2>5, FlagParsed
    <2>7. Rest'
      <3>1. \A i \in 1..Len(argv') : argv'[i] = line'[Parsed' + i]
        <4>1. ASSUME NEW i \in 1..Len(argv') PROVE argv'[i] = line[Parsed + (i + 2)]
          <5>1. i + 2 \in 1..Len(argv) BY <1>2, <2>2
          <5>2. QED BY <1>4, <2>2, <5>1
        <4>2. \A i \in 1..Len(argv') : Parsed + (i + 2) = Parsed' + i BY <1>3, <2>4
        <4>3. QED BY <1>1, <4>1, <4>2
      <3>2. argv' # <<>> => Parsed + 3 \notin Values
        BY <1>2, <1>3, <1>5, <2>2, <2>3, ValuesAre
      <3>3. Parsed' + 1 = Parsed + 3 BY <1>3, <2>4
      <3>4. QED BY <1>1, <1>2, <1>5, <2>2, <3>1, <3>2, <3>3 DEF Rest
    <2>8. QED BY <2>6, <2>7
  <1>8. \/ \E f \in Simple : /\ name \in Names(f) /\ name \notin met /\ SetsFlag(f, TRUE)
                             /\ met' = met \cup OtherNames(f) /\ argv' = Tail(argv)
        \/ \E f \in Valued :
             /\ name \in Names(f) /\ name \notin met /\ SetsFlag(f, argv[2]) /\ Len(argv) > 1
             /\ met' = met \cup OtherNames(f) /\ argv' = Tail(Tail(argv))
        \/ UNCHANGED <<argv, flags, met, line>>
    BY Zenon DEF ParseArg, Meets, OtherNames, SetsFlag
  <1>9. QED BY <1>6, <1>7, <1>8, UnparsedKept

-----------------------------------------------------------------------------
\* From the parsed line to the service

\* Whatever the scan reads, there is a core.
LEMMA CoresArePositive ==
  ASSUME NEW cores \in Int
  PROVE  CpuCores(cores) \in Nat \ {0}
PROOF
  <1> DEFINE m == IF cores >= 1 THEN cores ELSE 1
  <1>1. m \in {1, cores} /\ \A y \in {1, cores} : m >= y OBVIOUS
  <1>2. Max({1, cores}) \in {1, cores} /\ \A y \in {1, cores} : Max({1, cores}) >= y
    BY <1>1, Zenon DEF Max
  <1>3. QED BY <1>2 DEF CpuCores

\* The checks and the options depend on the flags alone.
LEMMA FlagsDecide ==
  ASSUME UNCHANGED <<flags, flagNum>>
  PROVE  /\ Inconsistent' <=> Inconsistent
         /\ \A f : Has(f)' <=> Has(f)
         /\ \A f, d : Option(f, d)' = Option(f, d)
         /\ OptionsSet' = OptionsSet
PROOF
  <1>1. \A f : Numbers(f)' = Numbers(f) BY DEF Numbers
  <1>2. \A f, d : Option(f, d)' = Option(f, d) BY <1>1 DEF Option, Has, Number
  <1>3. OptionsSet' = OptionsSet BY <1>2 DEF OptionsSet, Defaults, Options
  <1>4. QED BY <1>1, <1>2, <1>3 DEF Inconsistent, Has, IsNumber, Number

\* Steps that leave the flags, the CPU and the service alone.
LEMMA MovesOn ==
  ASSUME Accepted, Scanned, Configured, UNCHANGED <<argv, flags, flagNum, cpu, service>>,
         \/ at' = at
         \/ at' \in {"-1", "0", "-2", "-3", "-42", "aborted"}
         \/ at = "load" /\ at' = "configure"
         \/ at = "open" /\ at' = "main_loop"
         \/ at = "main_loop" /\ at' = "serve" /\ 0 \notin {service.in_queue, service.out_queue}
  PROVE  Accepted' /\ Scanned' /\ Configured'
PROOF
  <1>1. Accepted' BY FlagsDecide DEF Accepted
  <1>2. Scanned' BY DEF Scanned
  <1>3. Configured' BY FlagsDecide DEF Configured, Defaults, Options
  <1>4. QED BY <1>1, <1>2, <1>3

\* A step of main() before the commands.
LEMMA StartKeeps ==
  ASSUME StartInv, Start
  PROVE  StartInv'
PROOF
  <1> USE DEF StartInv
  <1>1. CASE ParseArg
    <2>1. at = "parse" /\ at' \in {"parse", "-1"} /\ service' = service
      BY <1>1 DEF ParseArg, Exit
    <2>2. service' = Defaults' BY <2>1 DEF Configured, Defaults, Options
    <2>3. Accepted' /\ Scanned' /\ Configured' BY <2>1, <2>2 DEF Accepted, Scanned, Configured
    <2>4. QED BY <1>1, <2>3, ParseArgKeeps
  <1>2. ASSUME Unparsed PROVE Rest' /\ FlagsSet' /\ UsedOnce' /\ UNCHANGED <<argv, flags, flagNum>>
    BY <1>2, UnparsedKept DEF Unparsed
  <1>3. CASE CheckArgs
    <2>1. /\ Unparsed /\ cpu' = cpu /\ service' = service /\ at = "parse" /\ argv = <<>>
          /\ \/ at' \in {"-1", "0"}
             \/ at' = "scan" /\ ~Inconsistent /\ ~Has("--help")
      BY <1>3 DEF CheckArgs
    <2>2. Accepted' BY <1>2, <2>1, FlagsDecide DEF Accepted
    <2>3. service' = Defaults' BY <2>1 DEF Configured, Defaults, Options
    <2>4. Scanned' /\ Configured' BY <2>1, <2>3 DEF Scanned, Configured
    <2>5. QED BY <1>2, <2>1, <2>2, <2>4
  <1>4. CASE Scan
    <2>1. Unparsed /\ service' = service /\ at = "scan" /\ at' = "load" BY <1>4 DEF Scan
    <2>2. Accepted' BY <1>2, <2>1, FlagsDecide DEF Accepted
    <2>3. service' = Defaults' BY <2>1 DEF Configured, Defaults, Options
    <2>4. PICK r \in Readings : cpu'.cores = CpuCores(r.cores) BY <1>4 DEF Scan
    <2>5. cpu'.cores \in Nat \ {0} BY <2>4, CoresArePositive, StartupAssumption
    <2>6. Scanned' /\ Configured' BY <2>1, <2>3, <2>5 DEF Scanned, Configured
    <2>7. QED BY <1>2, <2>1, <2>2, <2>6
  <1>5. CASE Configure
    <2>1. Unparsed /\ cpu' = cpu /\ at = "configure" BY <1>5 DEF Configure
    <2>2. CASE at' = "-3" /\ service' = service BY <1>2, <2>1, <2>2, MovesOn
    <2>3. CASE /\ at' = "open"
               /\ service' = Options(Option("--in-queue", service.in_queue),
                                     Option("--out-queue", service.out_queue),
                                     Option("--timeout", service.timeout))
      <3>1. service = Defaults
        BY <2>1 DEF Configured
      <3>2. Accepted' BY <1>2, <2>1, <2>3, FlagsDecide DEF Accepted
      <3>3. Scanned' BY <2>1, <2>3 DEF Scanned
      <3>4. Configured'
        BY <1>2, <2>1, <2>3, <3>1, FlagsDecide DEF Configured, OptionsSet
      <3>5. QED BY <1>2, <2>1, <3>2, <3>3, <3>4
    <2>4. QED BY <1>5, <2>2, <2>3 DEF Configure, Exit
  <1>6. CASE Open
    <2>1. /\ Unparsed /\ cpu' = cpu /\ service' = service
          /\ at = "open" /\ at' \in {"main_loop", "-3"}
      BY <1>6 DEF Open, Exit
    <2>2. QED BY <1>2, <2>1, MovesOn
  <1>7. CASE BuildQueues
    <2>1. /\ Unparsed /\ cpu' = cpu /\ service' = service /\ at = "main_loop"
          /\ \/ at' = "-42"
             \/ at' = "serve" /\ 0 \notin {service.in_queue, service.out_queue}
      BY <1>7 DEF BuildQueues
    <2>2. QED BY <1>2, <2>1, MovesOn
  <1>8. QED BY <1>1, <1>3, <1>4, <1>5, <1>6, <1>7 DEF Start

\* The steps of the program that are no steps of its start.
LEMMA OthersKeepStart ==
  ASSUME StartInv,
         \/ UNCHANGED startVars
         \/ /\ Unparsed /\ UNCHANGED <<cpu, service>>
            /\ \/ at = "load" /\ at' \in {"configure", "-2"}
               \/ at = "serve" /\ at' \in {"0", "aborted"}
  PROVE  StartInv'
PROOF
  <1>1. UNCHANGED <<argv, flags, met, flagNum, line, cpu, service>>
    BY DEF startVars, Unparsed
  <1>2. Rest' /\ FlagsSet' /\ UsedOnce' BY <1>1, UnparsedKept DEF StartInv
  <1>3. Accepted' /\ Scanned' /\ Configured' BY <1>1, MovesOn DEF StartInv, startVars
  <1>4. QED BY <1>2, <1>3 DEF StartInv

\* What the parser, the scanner and the setters know holds at every step.
LEMMA StartInvHolds == ProgramSpec => []StartInv
PROOF
  <1>1. ProgramInit => StartInv
    <2> SUFFICES ASSUME ProgramInit PROVE StartInv OBVIOUS
    <2>1. /\ argv = line /\ line \in Seq(STRING) /\ at = "parse"
          /\ DOMAIN flags = {} /\ service = Defaults
      BY StartupAssumption DEF ProgramInit, StartInit
    <2>2. Len(line) \in Nat /\ DOMAIN line = 1..Len(line) /\ Parsed = 0
      BY <2>1 DEF Parsed
    <2>3. \A f : UsesSoFar(f) = {} BY <2>2 DEF UsesSoFar, Uses
    <2>4. line # <<>> => 1 \notin Values
      <3>1. line # <<>> => 1 \in DOMAIN line BY <2>1, <2>2
      <3>2. QED BY <2>1, <3>1, ValuesAre
    <2>5. Rest BY <2>1, <2>2, <2>4 DEF Rest
    <2>6. FlagsSet BY <2>1, <2>3 DEF FlagsSet
    <2>7. UsedOnce BY <2>3 DEF UsedOnce, Named
    <2>8. Accepted /\ Scanned /\ Configured BY <2>1 DEF Accepted, Scanned, Configured
    <2>9. QED BY <2>5, <2>6, <2>7, <2>8 DEF StartInv
  <1>2. StartInv /\ [ProgramNext]_programVars => StartInv'
    <2> SUFFICES ASSUME StartInv, [ProgramNext]_programVars PROVE StartInv' OBVIOUS
    <2>1. CASE InStart BY <2>1, StartKeeps DEF InStart
    <2>2. CASE BeginLoad \/ LoadPlugins \/ EndLoad \/ Return \/ Leave
      BY <2>2, OthersKeepStart DEF BeginLoad, LoadPlugins, EndLoad, Return, Leave, Goes
    <2>3. CASE CommandStep
      <3>1. \/ UNCHANGED startVars
            \/ Unparsed /\ UNCHANGED <<cpu, service>> /\ at = "serve" /\ at' = "aborted"
        BY <2>3 DEF CommandStep, ReadStep, SelectStep, CreateStep, FailStep, ChainStep,
                    SendStep, ReleaseStep, DoneStep, Passes, Steps, Abort, Goes
      <3>2. QED BY <3>1, OthersKeepStart
    <2>4. CASE UNCHANGED programVars BY <2>4, OthersKeepStart DEF programVars
    <2>5. QED BY <2>1, <2>2, <2>3, <2>4 DEF ProgramNext, Main
  <1>3. QED BY <1>1, <1>2, PTL DEF ProgramSpec

\* A line that is accepted to its end: its flags are those it uses, and no others.
LEMMA UsesAreSet ==
  ASSUME Rest, FlagsSet, argv = <<>>
  PROVE  \A f \in AllFlags : UsesSoFar(f) = Uses(f) /\ (Has(f) <=> Uses(f) # {})
PROOF
  <1>1. Len(line) \in Nat /\ DOMAIN line = 1..Len(line) BY DEF Rest
  <1>2. Parsed = Len(line) BY <1>1 DEF Parsed
  <1>3. \A f : UsesSoFar(f) = Uses(f) BY <1>1, <1>2 DEF UsesSoFar, Uses
  <1>4. QED BY <1>3 DEF FlagsSet, Has

\* The option that is set is the one the last use of its flag asks for.
LEMMA AskedIsOption ==
  ASSUME Rest, FlagsSet, argv = <<>>, NEW f \in Valued, NEW default
  PROVE  Asked(f, default) = Option(f, default)
PROOF
  <1>1. UsesSoFar(f) = Uses(f) /\ (Has(f) <=> Uses(f) # {}) BY UsesAreSet DEF AllFlags
  <1>2. CASE Uses(f) = {} BY <1>1, <1>2 DEF Asked, Option
  <1>3. CASE Uses(f) # {}
    <2>1. PICK i \in Uses(f) : flags[f] = line[i + 1] /\ \A j \in Uses(f) : j <= i
      BY <1>1, <1>3 DEF FlagsSet, LastUse
    <2>2. Uses(f) \subseteq Nat BY DEF Uses, Rest
    <2>3. /\ Max(Uses(f)) \in Uses(f)
          /\ \A j \in Uses(f) : Max(Uses(f)) >= j
      <3>1. \A j \in Uses(f) : i >= j BY <2>1, <2>2
      <3>2. QED BY <3>1, Zenon DEF Max
    <2>4. Max(Uses(f)) = i BY <2>1, <2>2, <2>3
    <2>5. QED BY <1>1, <1>3, <2>1, <2>4 DEF Asked, Option, Number
  <1>4. QED BY <1>2, <1>3

\* A set without two different elements.
LEMMA AtMostOne ==
  ASSUME NEW S, \A x, y \in S : x = y
  PROVE  Cardinality(S) <= 1
PROOF
  <1>1. CASE S = {} BY <1>1, FS_EmptySet
  <1>2. CASE S # {}
    <2>1. PICK x : S = {x} BY <1>2
    <2>2. QED BY <2>1, FS_Singleton
  <1>3. QED BY <1>1, <1>2

\* What the checks of init() and the queues leave of the numbers.
LEMMA OptionsInRange ==
  ASSUME ~Inconsistent
  PROVE  OptionsSet.in_queue \in Nat /\ OptionsSet.out_queue \in Nat /\ OptionsSet.timeout \in Nat \ {0}
PROOF
  <1>1. \A f : IsNumber(f) => Number(f) \in Int BY StartupAssumption DEF IsNumber, Number, Numbers
  <1>2. Defaults.in_queue = 4 /\ Defaults.out_queue = 4 /\ Defaults.timeout = 1000
    BY DEF Defaults, Options
  <1>3. ASSUME NEW f \in {"--in-queue", "--out-queue"} PROVE Option(f, 4) \in Nat
    <2>1. Has(f) => IsNumber(f) /\ ~(Number(f) < 0) BY DEF Inconsistent
    <2>2. QED BY <1>1, <2>1 DEF Option
  <1>4. Option("--timeout", 1000) \in Nat \ {0}
    <2>1. Has("--timeout") => IsNumber("--timeout") /\ ~(Number("--timeout") <= 0)
      BY DEF Inconsistent
    <2>2. QED BY <1>1, <2>1 DEF Option
  <1>5. QED BY <1>2, <1>3, <1>4 DEF OptionsSet, Options

(* Whatever the command line, a service that starts has the options it asks for, and
   for the others the constructor's; no flag was taken twice or for a value, the queues
   have room and the timeout is positive. *)
THEOREM ProgramServesAsAsked == ProgramSpec => []ServesAsAsked
PROOF
  <1>1. StartInv => ServesAsAsked
    <2> SUFFICES ASSUME StartInv, at = "serve" PROVE ServesAsAsked BY DEF ServesAsAsked
    <2>1. /\ Rest /\ FlagsSet /\ UsedOnce /\ argv = <<>> /\ ~Inconsistent /\ ~Has("--help")
          /\ cpu.cores \in Nat \ {0} /\ 0 \notin {service.in_queue, service.out_queue}
          /\ service = OptionsSet
      BY DEF StartInv, Accepted, Scanned, Configured
    <2>2. ASSUME NEW f \in AllFlags
          PROVE  Cardinality({i \in Uses(f) : line[i] # ""}) <= 1
      <3>1. {i \in Uses(f) : line[i] # ""} = {i \in Uses(f) : NoEmpty(i)} BY Zenon DEF NoEmpty
      <3>2. \A i, j \in {k \in Uses(f) : NoEmpty(k)} : i = j BY <2>1, UsesAreSet DEF UsedOnce
      <3>3. QED BY <3>1, <3>2, AtMostOne
    <2>3. Uses("--help") = {} BY <2>1, UsesAreSet DEF AllFlags, Simple
    <2>4. service = Options(Asked("--in-queue", Defaults.in_queue),
                            Asked("--out-queue", Defaults.out_queue),
                            Asked("--timeout", Defaults.timeout))
      BY <2>1, AskedIsOption DEF Valued, OptionsSet
    <2>5. service.in_queue > 0 /\ service.out_queue > 0 /\ service.timeout > 0
      BY <2>1, OptionsInRange
    <2>6. cpu.cores >= 1 BY <2>1
    <2>7. QED BY <2>2, <2>3, <2>4, <2>5, <2>6, Zenon DEF ServesAsAsked, AllFlags
  <1>2. QED BY <1>1, StartInvHolds, PTL

-----------------------------------------------------------------------------
\* The program on its commands

\* What comes and how a command ends is a step of Program, whatever the command holds.
LEMMA ReceiveIsProgram == Receive => ReadStep
PROOF
  BY DEF Receive, ReceiveCommand, Crash, ReadSlice, BreakOff, DropCommand, ReadStep

LEMMA ProcessIsProgram == Process => CommandStep \/ UNCHANGED programVars
PROOF
  <1>1. RespondFailure => ReadStep BY DEF RespondFailure, ReadStep
  <1>2. SelectAlgorithms => SelectStep BY DEF SelectAlgorithms
  <1>3. NoAlgorithm => ReadStep \/ FailStep BY DEF NoAlgorithm, ReadStep
  <1>4. CreateAlgorithms => CreateStep BY DEF CreateAlgorithms
  <1>5. RunChain => (\E succeeded \in BOOLEAN : ChainStep(succeeded)) \/ UNCHANGED programVars
    BY DEF RunChain, InitPlugin, PassJob, FailJob, PlaceJob, ChainSucceeds, ChainFails, PlanOnly
  <1>6. QED BY <1>1, <1>2, <1>3, <1>4, <1>5 DEF Process, CommandStep

LEMMA SendIsProgram == Send => CommandStep
PROOF
  BY DEF Send, SendResponse, ReleaseChain, CommandStep

(* What the program does with its plugins and its options does not depend on what the
   commands hold: every step of Daemon is one of Program. *)
THEOREM DaemonIsProgram == Spec => ProgramSpec
PROOF
  <1>1. Init => ProgramInit BY DEF Init
  <1>2. InMain => ProgramNext BY DEF InMain, ProgramNext
  <1>3. Receive \/ Process \/ Send => CommandStep \/ UNCHANGED programVars
    BY ReceiveIsProgram, ProcessIsProgram, SendIsProgram DEF CommandStep
  <1>4. UNCHANGED vars => UNCHANGED programVars BY DEF vars
  <1>5. [Next]_vars => [ProgramNext]_programVars
    BY <1>2, <1>3, <1>4 DEF Next, ProgramNext
  <1>6. QED BY <1>1, <1>5, PTL DEF Spec, ProgramSpec

(* No code of a plugin is called while its library is closed, on any commands. *)
THEOREM DaemonPluginsOpen == Spec => []OpenAsLongAsUsed
PROOF
  BY DaemonIsProgram, ProgramPluginsOpen, PTL

(* A service that starts has the options its command line asks for. *)
THEOREM DaemonServesAsAsked == Spec => []ServesAsAsked
PROOF
  BY DaemonIsProgram, ProgramServesAsAsked, PTL

-----------------------------------------------------------------------------
\* The slices of a command

\* The slices read so far are in their places, and nothing is in the other places; those
\* of negative types are in none.
Fills(i, k) == packet.slices[i].type = k /\ data[k] = packet.slices[i].body
DataInv ==
  /\ packet \in Packets /\ next \in Nat \ {0} /\ (next = 1 \/ next <= packet.total + 1)
  /\ DOMAIN data = 0..(packet.total - 1)
  /\ \A i \in 1..(next - 1) : Readable(packet, i)
  /\ \A k \in 0..(packet.total - 1) :
       data[k] # Null => \E i \in 1..(next - 1) : Fills(i, k)
  /\ \A i \in 1..(next - 1) :
       packet.slices[i].type >= 0 => data[packet.slices[i].type] # Null

\* The slices of a command, by their places.
LEMMA PacketsAre ==
  ASSUME NEW c \in Packets
  PROVE  /\ c.total \in Int /\ Len(c.slices) \in Nat
         /\ DOMAIN c.slices = 1..Len(c.slices)
         /\ \A i \in DOMAIN c.slices : c.slices[i].type \in Int
PROOF
  <1>1. /\ c.total \in Int /\ c.slices \in Seq(Range(c.slices))
        /\ \A s \in Range(c.slices) : s.type \in Int
    <2>1. Chars \subseteq Int BY DEF Chars
    <2>2. QED BY <2>1, PacketsAssumption
  <1>2. \A i \in DOMAIN c.slices : c.slices[i] \in Range(c.slices) BY DEF Range
  <1>3. QED BY <1>1, <1>2

\* It holds when a command begins, and each slice keeps it.
LEMMA DataBegins ==
  ASSUME ReceiveCommand
  PROVE  DataInv'
PROOF
  <1>1. packet' \in Packets /\ next' = 1 /\ data' = NoData(packet'.total)
    BY DEF ReceiveCommand, Cleared
  <1>2. packet'.total \in Int BY <1>1, PacketsAre
  <1>3. DOMAIN data' = 0..(packet'.total - 1) /\ \A k \in 0..(packet'.total - 1) : data'[k] = Null
    BY <1>1 DEF NoData
  <1>4. QED BY <1>1, <1>2, <1>3 DEF DataInv

LEMMA DataGrows ==
  ASSUME DataInv, ReadSlice
  PROVE  DataInv'
PROOF
  <1> DEFINE slice == packet.slices[next]
  <1>1. /\ packet \in Packets /\ next \in Nat \ {0} /\ next <= packet.total
        /\ Readable(packet, next) /\ packet' = packet /\ next' = next + 1
        /\ data' = IF slice.type < 0 THEN data ELSE [data EXCEPT ![slice.type] = slice.body]
    BY DEF DataInv, ReadSlice, Stored, OutOfBounds
  <1>2. packet.total \in Int /\ \A i \in DOMAIN packet.slices : packet.slices[i].type \in Int
    BY <1>1, PacketsAre
  <1>3. /\ slice.type \in Int /\ slice.type < packet.total /\ slice.body # Null
    BY <1>1, <1>2 DEF Readable
  <1>4. DOMAIN data = 0..(packet.total - 1) BY DEF DataInv
  <1>5. /\ DOMAIN data' = DOMAIN data /\ (slice.type >= 0 => data'[slice.type] = slice.body)
        /\ \A k \in DOMAIN data : k # slice.type => data'[k] = data[k]
    <2>1. CASE slice.type < 0
      <3>1. data' = data /\ ~(slice.type >= 0) BY <1>1, <1>3, <2>1
      <3>2. QED BY <3>1
    <2>2. CASE ~(slice.type < 0)
      <3>1. data' = [data EXCEPT ![slice.type] = slice.body] BY <1>1, <2>2
      <3>2. slice.type \in DOMAIN data
        <4>1. slice.type >= 0 /\ slice.type <= packet.total - 1 BY <1>2, <1>3, <2>2
        <4>2. QED BY <1>2, <1>3, <1>4, <4>1
      <3>3. QED BY <3>1, <3>2
    <2>3. QED BY <2>1, <2>2
  <1>6. 1..(next' - 1) = 1..(next - 1) \cup {next} BY <1>1
  <1>7. \A i \in 1..(next' - 1) : Readable(packet', i) BY <1>1, <1>6 DEF DataInv
  <1>8. ASSUME NEW k \in 0..(packet'.total - 1), data'[k] # Null
        PROVE  \E i \in 1..(next' - 1) : Fills(i, k)'
    <2>1. CASE k = slice.type BY <2>1, <1>1, <1>5, <1>6 DEF Fills
    <2>2. CASE k # slice.type
      <3>1. data[k] # Null /\ data'[k] = data[k] BY <2>2, <1>1, <1>4, <1>5, <1>8
      <3>2. PICK i \in 1..(next - 1) : Fills(i, k) BY <3>1, <1>1, <1>8 DEF DataInv
      <3>3. QED BY <3>1, <3>2, <1>1, <1>6 DEF Fills
    <2>3. QED BY <2>1, <2>2
  <1>9. ASSUME NEW i \in 1..(next' - 1), packet'.slices[i].type >= 0
        PROVE  data'[packet'.slices[i].type] # Null
    <2>1. CASE i = next BY <2>1, <1>1, <1>3, <1>5, <1>9
    <2>2. CASE i \in 1..(next - 1)
      <3>1. data[packet.slices[i].type] # Null /\ Readable(packet, i)
        BY <2>2, <1>1, <1>9 DEF DataInv
      <3>2. packet.slices[i].type \in DOMAIN data BY <3>1, <1>1, <1>2, <1>4, <1>9 DEF Readable
      <3>3. QED BY <3>1, <3>2, <1>1, <1>3, <1>5
    <2>3. QED BY <2>1, <2>2, <1>6
  <1>10. QED BY <1>1, <1>2, <1>4, <1>5, <1>7, <1>8, <1>9 DEF DataInv

\* The places of the types
Types == Range(DataTypes)
LEMMA PlacesOfTypes ==
  /\ DataTypeCount = 7
  /\ \A k \in 0..6 : DataTypes[k + 1] \in Types /\ Place(DataTypes[k + 1]) = k
  /\ \A type \in Types : Place(type) \in 0..6 /\ DataTypes[Place(type) + 1] = type
PROOF
  <1>1. DataTypeCount = 7 /\ DOMAIN DataTypes = 1..7 BY DEF DataTypeCount, DataTypes
  <1>2. \A i, j \in 1..7 : DataTypes[i] = DataTypes[j] => i = j
    BY DEF DataTypes
  <1>3. ASSUME NEW k \in 0..6 PROVE Place(DataTypes[k + 1]) = k
    <2>1. k \in 0..(DataTypeCount - 1) BY <1>1
    <2>2. \A i \in 0..(DataTypeCount - 1) : DataTypes[i + 1] = DataTypes[k + 1] => i = k
      <3>1. ASSUME NEW i \in 0..(DataTypeCount - 1), DataTypes[i + 1] = DataTypes[k + 1] PROVE i = k
        <4>1. i \in 0..6 /\ i + 1 \in 1..7 /\ k + 1 \in 1..7 BY <1>1
        <4>2. i + 1 = k + 1 BY <4>1, <3>1, <1>2
        <4>3. QED BY <4>1, <4>2
      <3>2. QED BY <3>1
    <2>3. QED BY <2>1, <2>2, Zenon DEF Place
  <1>4. \A k \in 0..6 : DataTypes[k + 1] \in Types BY <1>1 DEF Types, Range
  <1>5. ASSUME NEW type \in Types PROVE Place(type) \in 0..6 /\ DataTypes[Place(type) + 1] = type
    <2>1. PICK i \in 1..7 : DataTypes[i] = type BY <1>1 DEF Types, Range
    <2>2. i - 1 \in 0..6 /\ (i - 1) + 1 = i OBVIOUS
    <2>3. Place(type) = i - 1 BY <2>1, <2>2, <1>3
    <2>4. QED BY <2>1, <2>2, <2>3
  <1>6. QED BY <1>1, <1>3, <1>4, <1>5

\* Seven slices that fill seven places: each fills one.
LEMMA OneOfEach ==
  ASSUME NEW f \in [1..7 -> 0..6], \A k \in 0..6 : \E i \in 1..7 : f[i] = k
  PROVE  \A i, j \in 1..7 : f[i] = f[j] => i = j
PROOF
  <1>1. f \in Surjection(1..7, 0..6) BY DEF Surjection
  <1> DEFINE size(a, b) == IF a > b THEN 0 ELSE b - a + 1
  <1>2. \A a, b \in Int : IsFiniteSet(a..b) /\ Cardinality(a..b) = size(a, b)
    BY FS_Interval, Zenon
  <1>3. IsFiniteSet(1..7) /\ Cardinality(1..7) = Cardinality(0..6)
    <2>1. 1 \in Int /\ 7 \in Int /\ 0 \in Int /\ 6 \in Int OBVIOUS
    <2>2. size(1, 7) = 7 /\ size(0, 6) = 7 OBVIOUS
    <2> HIDE DEF size
    <2>3. IsFiniteSet(1..7) /\ Cardinality(1..7) = size(1, 7) BY <1>2, <2>1, Zenon
    <2>4. Cardinality(0..6) = size(0, 6) BY <1>2, <2>1, Zenon
    <2>5. QED BY <2>2, <2>3, <2>4, Zenon
  <1>4. f \in Injection(1..7, 0..6) BY <1>1, <1>3, FS_SurjSameCardinalityImpliesInj
  <1>5. QED BY <1>4 DEF Injection, IsInjective

\* What init() takes of a term of a type
TermFine(type, term) ==
  CASE type = "schedulers" -> TRUE
    [] type = "rh" -> RhSound[term]
    [] type = "grid" -> GridResult(term) = "fine"
    [] OTHER -> ListResult(term) = "fine"

LEMMA SliceIsFine ==
  ASSUME NEW type, NEW body
  PROVE  SliceResult(type, body) = "fine" <=> body # Null /\ Current(body) /\ TermFine(type, body.term)
PROOF
  <1>1. CASE body = Null \/ ~Current(body) BY <1>1 DEF SliceResult
  <1>2. CASE body # Null /\ Current(body)
    <2>1. CASE type = "schedulers" BY <2>1, <1>2 DEF SliceResult, TermFine
    <2>2. CASE type = "rh" BY <2>2, <1>2 DEF SliceResult, TermFine
    <2>3. CASE type = "grid" BY <2>3, <1>2 DEF SliceResult, TermFine
    <2>4. CASE type \notin {"schedulers", "rh", "grid"} BY <2>4, <1>2 DEF SliceResult, TermFine
    <2>5. QED BY <2>1, <2>2, <2>3, <2>4
  <1>3. QED BY <1>1, <1>2

\* A command is fine if it has all places and no slice fails.
LEMMA FineIs ==
  InitResult(data) = "fine" <=>
    /\ DOMAIN data = 0..6
    /\ \A k \in 0..6 : SliceResult(DataTypes[k + 1], data[k]) = "fine"
PROOF
  <1>1. DataTypeCount = 7 /\ 0..(DataTypeCount - 1) = 0..6 BY PlacesOfTypes
  <1>2. CASE DOMAIN data # 0..6 BY <1>1, <1>2 DEF InitResult
  <1>3. CASE DOMAIN data = 0..6
    <2>1. Failing(data) = {k \in 0..6 : SliceResult(DataTypes[k + 1], data[k]) # "fine"}
      BY <1>3 DEF Failing
    <2>2. CASE Failing(data) = {} BY <1>1, <1>3, <2>1, <2>2 DEF InitResult
    <2>3. CASE Failing(data) # {}
      <3> DEFINE i == CHOOSE j \in Failing(data) : \A k \in Failing(data) : j <= k
      <3>1. Failing(data) \in SUBSET Nat BY <2>1
      <3>2. i \in Failing(data) BY <3>1, <2>3, LeastNat
      <3>3. SliceResult(DataTypes[i + 1], data[i]) # "fine" BY <3>2, <2>1
      <3>4. InitResult(data) = SliceResult(DataTypes[i + 1], data[i])
        BY <1>1, <1>3, <2>3 DEF InitResult
      <3>5. QED BY <2>1, <2>3, <3>3, <3>4
    <2>4. QED BY <2>2, <2>3
  <1>4. QED BY <1>2, <1>3

\* With all places filled there is one slice of each type.
LEMMA Filled ==
  ASSUME DataInv, packet.total = 7, next > packet.total, \A k \in 0..6 : data[k] # Null
  PROVE  /\ \A i \in 1..7 : /\ packet.slices[i].type \in 0..6
                            /\ data[packet.slices[i].type] = packet.slices[i].body
         /\ \A type \in Types : /\ Body(packet, type) \in 1..7
                                 /\ packet.slices[Body(packet, type)].type = Place(type)
                                 /\ Term(packet, type) = data[Place(type)].term
PROOF
  <1> DEFINE f == [i \in 1..7 |-> packet.slices[i].type]
  <1>1. packet \in Packets /\ next = 8 /\ 1..(next - 1) = 1..7 /\ 0..(packet.total - 1) = 0..6
    BY DEF DataInv
  <1>2. \A i \in 1..7 : packet.slices[i].type \in Int /\ packet.slices[i].type < 7
    <2>1. ASSUME NEW i \in 1..7 PROVE packet.slices[i].type \in Int /\ packet.slices[i].type < 7
      <3>1. i \in DOMAIN packet.slices /\ packet.slices[i].type < 7 BY <1>1 DEF DataInv, Readable
      <3>2. packet.slices[i].type \in Int BY <1>1, <3>1, PacketsAre
      <3>3. QED BY <3>1, <3>2
    <2>2. QED BY <2>1
  <1>3. \A k \in 0..6 : \E i \in 1..7 : Fills(i, k) BY <1>1 DEF DataInv
  <1>4. \A i \in 1..7 : packet.slices[i].type \in 0..6
    <2> DEFINE g == [i \in 1..7 |-> IF packet.slices[i].type < 0 THEN 0 ELSE packet.slices[i].type]
    <2>1. g \in [1..7 -> 0..6] BY <1>2
    <2>2. \A k \in 0..6 : \E i \in 1..7 : g[i] = k BY <1>3 DEF Fills
    <2>3. PICK j \in 1..7 : packet.slices[j].type = 0 BY <1>3 DEF Fills
    <2>4. \A i \in 1..7 : packet.slices[i].type < 0 => g[i] = g[j] BY <2>3
    <2>5. \A i, k \in 1..7 : g[i] = g[k] => i = k
      <3> HIDE DEF g
      <3>1. QED BY <2>1, <2>2, OneOfEach
    <2>6. \A i \in 1..7 : ~(packet.slices[i].type < 0) BY <2>3, <2>4, <2>5
    <2>7. QED BY <1>2, <2>6
  <1>5. f \in [1..7 -> 0..6] /\ \A k \in 0..6 : \E i \in 1..7 : f[i] = k BY <1>4, <1>3 DEF Fills
  <1>6. \A i, j \in 1..7 : f[i] = f[j] => i = j
    <2> HIDE DEF f
    <2>1. QED BY <1>5, OneOfEach
  <1>7. ASSUME NEW i \in 1..7 PROVE data[packet.slices[i].type] = packet.slices[i].body
    <2>1. PICK j \in 1..7 : Fills(j, packet.slices[i].type) BY <1>4, <1>3
    <2>2. f[i] = f[j] BY <2>1 DEF Fills
    <2>3. i = j BY <2>2, <1>6
    <2>4. QED BY <2>1, <2>3 DEF Fills
  <1>8. ASSUME NEW type \in Types
        PROVE  /\ Body(packet, type) \in 1..7
               /\ packet.slices[Body(packet, type)].type = Place(type)
    <2>1. \E i \in 1..packet.total : packet.slices[i].type = Place(type)
      BY <1>5, PlacesOfTypes
    <2>2. QED BY <2>1 DEF Body
  <1>9. ASSUME NEW type \in Types PROVE Term(packet, type) = data[Place(type)].term
    BY <1>7, <1>8 DEF Term
  <1>10. QED BY <1>4, <1>7, <1>8, <1>9

LEMMA TypesAre ==
  Types = {"schedulers", "rh", "jobs", "grid", "clusters", "partitions", "nodes"}
PROOF
  BY DEF Types, Range, DataTypes

\* init() takes a whole, sound command, and no other.
LEMMA FineIsSound ==
  ASSUME DataInv, next > packet.total, packet.kind = "schedule"
  PROVE  /\ InitResult(data) = "fine" <=> Complete(packet) /\ Sound(packet)
         /\ InitResult(data) = "fine" => SchedulingInfo(data) = InfoOf(packet)
PROOF
  <1>1. /\ packet \in Packets /\ packet.total \in Int
        /\ packet.total >= 0 => next = packet.total + 1
        /\ DOMAIN data = 0..(packet.total - 1)
    BY PacketsAre DEF DataInv
  <1>2. \A i \in 1..packet.total : Readable(packet, i) BY <1>1 DEF DataInv
  <1>3. ASSUME packet.total = 7, \A k \in 0..6 : data[k] # Null
        PROVE  (\A k \in 0..6 : Current(data[k]) /\ TermFine(DataTypes[k + 1], data[k].term))
                 <=> Sound(packet)
    <2>1. (\A k \in 0..6 : Current(data[k])) <=>
            \A i \in 1..7 : packet.slices[i].body.version = "current"
      <3>1. ASSUME \A k \in 0..6 : Current(data[k]), NEW i \in 1..7
            PROVE  packet.slices[i].body.version = "current"
        BY <1>1, <1>3, <3>1, Filled DEF Current
      <3>2. ASSUME \A i \in 1..7 : packet.slices[i].body.version = "current", NEW k \in 0..6
            PROVE  Current(data[k])
        <4>1. PICK i \in 1..7 : Fills(i, k) BY <1>1, <1>3 DEF DataInv
        <4>2. QED BY <4>1, <3>2 DEF Fills, Current
      <3>3. QED BY <3>1, <3>2
    <2>2. (\A k \in 0..6 : TermFine(DataTypes[k + 1], data[k].term)) <=>
            \A type \in Types : TermFine(type, Term(packet, type))
      <3>1. \A type \in Types : Term(packet, type) = data[Place(type)].term
        BY <1>1, <1>3, Filled
      <3>2. QED BY <3>1, PlacesOfTypes
    <2>3. (\A type \in Types : TermFine(type, Term(packet, type))) <=>
            /\ RhSound[Term(packet, "rh")] /\ GridResult(Term(packet, "grid")) = "fine"
            /\ \A type \in {"jobs", "clusters", "partitions", "nodes"} :
                 ListResult(Term(packet, type)) = "fine"
      <3>1. TermFine("schedulers", Term(packet, "schedulers")) BY DEF TermFine
      <3>2. TermFine("rh", Term(packet, "rh")) <=> RhSound[Term(packet, "rh")]
        BY DEF TermFine
      <3>3. TermFine("grid", Term(packet, "grid")) <=> GridResult(Term(packet, "grid")) = "fine"
        BY DEF TermFine
      <3>4. \A type \in {"jobs", "clusters", "partitions", "nodes"} :
              TermFine(type, Term(packet, type)) <=> ListResult(Term(packet, type)) = "fine"
        BY DEF TermFine
      <3>5. QED BY <3>1, <3>2, <3>3, <3>4, TypesAre
    <2>4. QED BY <2>1, <2>2, <2>3, <1>3 DEF Sound
  <1>4. ASSUME InitResult(data) = "fine"
        PROVE  /\ Complete(packet) /\ Sound(packet)
               /\ SchedulingInfo(data) = InfoOf(packet)
    <2>1. /\ DOMAIN data = 0..6
          /\ \A k \in 0..6 : /\ data[k] # Null
                             /\ Current(data[k]) /\ TermFine(DataTypes[k + 1], data[k].term)
      BY <1>4, FineIs, SliceIsFine
    <2>2. packet.total = 7
      <3>1. \A k : k \in 0..(packet.total - 1) <=> k \in 0..6 BY <1>1, <2>1
      <3>2. 6 \in 0..6 /\ 7 \notin 0..6 OBVIOUS
      <3>3. 6 \in 0..(packet.total - 1) /\ 7 \notin 0..(packet.total - 1) BY <3>1, <3>2
      <3>4. QED BY <1>1, <3>3
    <2>3. Sound(packet) BY <1>3, <2>1, <2>2
    <2>4. /\ \A type \in Types : /\ Body(packet, type) \in 1..7
                                  /\ packet.slices[Body(packet, type)].type = Place(type)
                                  /\ Term(packet, type) = data[Place(type)].term
      BY <1>1, <2>1, <2>2, Filled
    <2>5. Complete(packet)
      <3>1. Len(packet.slices) >= 7
        <4>1. 7 \in DOMAIN packet.slices BY <1>2, <2>2 DEF Readable
        <4>2. QED BY <4>1, <1>1, PacketsAre
      <3>2. \A i \in 1..7 : packet.slices[i].body # Null BY <1>2, <2>2 DEF Readable
      <3>3. QED BY <2>2, <2>4, <3>1, <3>2, PlacesOfTypes DEF Complete, Types
    <2>6. SchedulingInfo(data) = InfoOf(packet)
      <3>1. \A type \in Types : data[Place(type)].term = Term(packet, type) BY <2>4
      <3>2. QED BY <3>1, TypesAre DEF SchedulingInfo, InfoOf, Elements
    <2>7. QED BY <2>3, <2>5, <2>6
  <1>5. ASSUME Complete(packet), Sound(packet) PROVE InitResult(data) = "fine"
    <2>1. packet.total = 7 /\ DOMAIN data = 0..6 BY <1>1, <1>5, PlacesOfTypes DEF Complete
    <2>2. ASSUME NEW k \in 0..6 PROVE data[k] # Null
      <3>1. PICK i \in 1..7 : packet.slices[i].type = k
        <4>1. DataTypes[k + 1] \in Types /\ Place(DataTypes[k + 1]) = k BY PlacesOfTypes
        <4>2. \E i \in 1..packet.total : packet.slices[i].type = Place(DataTypes[k + 1])
          BY <1>5, <4>1 DEF Complete, Types
        <4>3. QED BY <2>1, <4>1, <4>2
      <3>2. i \in 1..(next - 1) BY <1>1, <2>1
      <3>3. QED BY <3>1, <3>2 DEF DataInv
    <2>3. \A k \in 0..6 : Current(data[k]) /\ TermFine(DataTypes[k + 1], data[k].term)
      BY <1>3, <1>5, <2>1, <2>2
    <2>4. QED BY <2>1, <2>2, <2>3, FineIs, SliceIsFine
  <1>6. QED BY <1>4, <1>5

-----------------------------------------------------------------------------
\* Recursive functions: the check of a hierarchy, its items, the paths of its tree and the
\* walk through it are defined by recursion, and each is shown to exist.

\* What holds of an element when it holds of those related to it holds of all.
Induces(R, D) ==
  \A S \in SUBSET D :
    (\A x \in D : (\A y \in D : <<y, x>> \in R => y \in S) => x \in S) => S = D

\* What an element is mapped to depends on what those related to it are mapped to.
Respects(steps, R, D, V) ==
  /\ steps \in [D \X [D -> V] -> V]
  /\ \A x \in D : \A g, h \in [D -> V] :
       (\A y \in D : <<y, x>> \in R => g[y] = h[y]) => steps[<<x, g>>] = steps[<<x, h>>]

\* There is a function that is defined by recursion along such a relation.
LEMMA RecursiveFunction ==
  ASSUME NEW D, NEW R, Induces(R, D), NEW V, NEW v0 \in V,
         NEW steps, Respects(steps, R, D, V)
  PROVE  \E f \in [D -> V] : \A x \in D : f[x] = steps[<<x, f>>]
PROOF
  <1> USE DEF Respects
  <1> DEFINE Attempt(A, g) ==
               /\ \A x \in A : \A y \in D : <<y, x>> \in R => y \in A
               /\ \A x \in A : g[x] = steps[<<x, g>>]
             Reached == {x \in D : \E A \in SUBSET D : \E g \in [D -> V] : Attempt(A, g) /\ x \in A}
             Of(x) == CHOOSE g \in [D -> V] : \E A \in SUBSET D : Attempt(A, g) /\ x \in A
             f == [x \in D |-> IF x \in Reached THEN Of(x)[x] ELSE v0]
  <1>1. ASSUME NEW A \in SUBSET D, NEW B \in SUBSET D, NEW g \in [D -> V], NEW h \in [D -> V],
               Attempt(A, g), Attempt(B, h)
        PROVE  \A x \in A \cap B : g[x] = h[x]
    <2> DEFINE S == {x \in D : x \in A \cap B => g[x] = h[x]}
    <2>1. ASSUME NEW x \in D, \A y \in D : <<y, x>> \in R => y \in S PROVE x \in S
      <3>1. SUFFICES ASSUME x \in A \cap B PROVE g[x] = h[x] OBVIOUS
      <3>2. \A y \in D : <<y, x>> \in R => g[y] = h[y] BY <1>1, <2>1, <3>1
      <3>3. steps[<<x, g>>] = steps[<<x, h>>] BY <3>2
      <3>4. QED BY <1>1, <3>1, <3>3
    <2>2. S = D
      <3>1. S \in SUBSET D OBVIOUS
      <3> HIDE DEF S
      <3>2. QED BY <2>1, <3>1 DEF Induces
    <2>3. QED BY <2>2
  <1>2. ASSUME NEW x \in Reached
        PROVE  Of(x) \in [D -> V] /\ \E A \in SUBSET D : Attempt(A, Of(x)) /\ x \in A
    <2> HIDE DEF Attempt
    <2>1. QED BY Zenon
  <1>3. f \in [D -> V]
    <2>1. ASSUME NEW x \in Reached PROVE Of(x)[x] \in V
      <3>1. x \in D OBVIOUS
      <3>2. Of(x) \in [D -> V] BY <1>2
      <3> HIDE DEF Reached, Of
      <3>3. QED BY <3>1, <3>2
    <2> HIDE DEF Reached, Of
    <2>2. QED BY <2>1
  <1>4. ASSUME NEW A \in SUBSET D, NEW g \in [D -> V], Attempt(A, g), NEW x \in A
        PROVE  x \in Reached /\ f[x] = g[x]
    <2>1. x \in Reached BY <1>4
    <2>2. PICK B \in SUBSET D : Attempt(B, Of(x)) /\ x \in B BY <1>2, <2>1
    <2>3. Of(x) \in [D -> V] BY <1>2, <2>1
    <2> HIDE DEF Attempt, Reached, Of
    <2>4. Of(x)[x] = g[x] BY <1>1, <1>4, <2>2, <2>3
    <2>5. QED BY <2>1, <2>4
  <1>5. Attempt(Reached, f)
    <2>1. ASSUME NEW x \in Reached
          PROVE  /\ \A y \in D : <<y, x>> \in R => y \in Reached
                 /\ f[x] = steps[<<x, f>>]
      <3>1. PICK A \in SUBSET D, g \in [D -> V] : Attempt(A, g) /\ x \in A BY <2>1
      <3> HIDE DEF f, Reached
      <3>2. \A y \in D : <<y, x>> \in R => y \in A BY <3>1
      <3>3. \A y \in D : <<y, x>> \in R => y \in Reached /\ f[y] = g[y] BY <3>1, <3>2, <1>4
      <3>4. steps[<<x, f>>] = steps[<<x, g>>] BY <3>3, <3>1, <1>3
      <3>5. f[x] = g[x] BY <3>1, <1>4
      <3>6. QED BY <3>1, <3>3, <3>4, <3>5
    <2>2. QED BY <2>1
  <1>6. Reached = D
    <2>1. ASSUME NEW x \in D, \A y \in D : <<y, x>> \in R => y \in Reached PROVE x \in Reached
      <3>1. SUFFICES ASSUME x \notin Reached PROVE FALSE OBVIOUS
      <3> DEFINE g == [f EXCEPT ![x] = steps[<<x, f>>]]
                 A == Reached \cup {x}
      <3>2. A \in SUBSET D OBVIOUS
      <3>3. g \in [D -> V] /\ g[x] = steps[<<x, f>>] /\ \A y \in D : y # x => g[y] = f[y]
        BY <1>3
      <3>4. ASSUME NEW z \in A
            PROVE  /\ \A y \in D : <<y, z>> \in R => y \in Reached
                   /\ g[z] = steps[<<z, f>>]
        <4> HIDE DEF f, Reached, g
        <4>1. CASE z = x BY <2>1, <4>1, <3>3
        <4>2. CASE z \in Reached BY <1>5, <4>2, <3>1, <3>2, <3>3
        <4>3. QED BY <4>1, <4>2, <3>4
      <3>5. ASSUME NEW z \in A PROVE g[z] = steps[<<z, g>>]
        <4> HIDE DEF f, Reached, g
        <4>1. \A y \in D : <<y, z>> \in R => g[y] = f[y] BY <3>1, <3>3, <3>4
        <4>2. steps[<<z, g>>] = steps[<<z, f>>] BY <4>1, <1>3, <3>2, <3>3
        <4>3. QED BY <4>2, <3>4
      <3>6. Attempt(A, g) BY <3>4, <3>5
      <3> HIDE DEF g, A, Attempt, f
      <3>7. x \in A BY DEF A
      <3>8. QED BY <3>1, <3>2, <3>3, <3>6, <3>7
    <2>2. Reached \in SUBSET D OBVIOUS
    <2> HIDE DEF Reached
    <2>3. QED BY <2>1, <2>2 DEF Induces
  <1> HIDE DEF f, Reached
  <1>7. \A x \in D : f[x] = steps[<<x, f>>] BY <1>5, <1>6
  <1>8. QED BY <1>3, <1>7

\* A relation along which a depth decreases is one of those.
LEMMA DepthInduces ==
  ASSUME NEW D, NEW R, NEW depth, \A x \in D : depth[x] \in Nat,
         \A x, y \in D : <<y, x>> \in R => depth[y] < depth[x]
  PROVE  Induces(R, D)
PROOF
  <1> SUFFICES ASSUME NEW S \in SUBSET D,
                      \A x \in D : (\A y \in D : <<y, x>> \in R => y \in S) => x \in S,
                      S # D
               PROVE  FALSE
    BY DEF Induces
  <1> DEFINE depths == {depth[x] : x \in D \ S}
  <1>1. depths \in SUBSET Nat /\ depths # {} OBVIOUS
  <1> HIDE DEF depths
  <1>2. PICK n \in depths : \A m \in depths : n <= m BY <1>1, LeastNat
  <1>3. PICK x \in D \ S : depth[x] = n BY DEF depths
  <1>4. ASSUME NEW y \in D, <<y, x>> \in R PROVE y \in S
    <2>1. SUFFICES ASSUME y \notin S PROVE FALSE OBVIOUS
    <2>2. depth[y] \in depths BY <2>1 DEF depths
    <2>3. QED BY <1>2, <1>3, <1>4, <2>2
  <1>5. QED BY <1>3, <1>4

-----------------------------------------------------------------------------
\* Sequences

\* What a sequence of sequences is flattened to has the elements of those.
LEMMA Flattened ==
  ASSUME NEW X, NEW seqs \in Seq(Seq(X))
  PROVE  FlattenSeq(seqs) \in Seq(X)
PROOF
  <1>1. CASE Len(seqs) = 0 BY <1>1 DEF FlattenSeq
  <1>2. CASE Len(seqs) # 0
    <2> DEFINE n == Len(seqs)
               E(i, g) == IF i = 1 THEN seqs[i] ELSE g[i - 1] \o seqs[i]
               fs == [1..n -> Seq(X)]
               steps == [p \in (1..n) \X fs |-> E(p[1], p[2])]
               R == {p \in (1..n) \X (1..n) : p[1] < p[2]}
               flatten[i \in 1..n] == IF i = 1 THEN seqs[i] ELSE flatten[i - 1] \o seqs[i]
    <2>1. n \in Nat /\ n >= 1 BY <1>2
    <2>2. Induces(R, 1..n)
      <3> DEFINE depth == [i \in 1..n |-> i]
      <3>1. \A x \in 1..n : depth[x] \in Nat BY <2>1
      <3>2. \A x, y \in 1..n : <<y, x>> \in R => depth[y] < depth[x] BY <2>1
      <3> HIDE DEF depth, R, n
      <3>3. QED BY <3>1, <3>2, DepthInduces
    <2>3. ASSUME NEW i \in 1..n, NEW g \in fs PROVE E(i, g) \in Seq(X)
      <3>1. seqs[i] \in Seq(X) OBVIOUS
      <3>2. CASE i = 1 BY <3>1, <3>2
      <3>3. CASE i # 1
        <4>1. i - 1 \in 1..n BY <2>1, <3>3
        <4>2. g[i - 1] \in Seq(X) BY <4>1
        <4>3. QED BY <3>1, <3>3, <4>2
      <3>4. QED BY <3>2, <3>3
    <2>4. steps \in [(1..n) \X fs -> Seq(X)] BY <2>3
    <2>5. \A i \in 1..n, g \in fs : steps[<<i, g>>] = E(i, g) OBVIOUS
    <2>6. ASSUME NEW i \in 1..n, NEW g \in fs, NEW h \in fs,
                 \A j \in 1..n : <<j, i>> \in R => g[j] = h[j]
          PROVE  steps[<<i, g>>] = steps[<<i, h>>]
      <3>1. CASE i = 1 BY <3>1, <2>5
      <3>2. CASE i # 1
        <4>1. i - 1 \in 1..n /\ i - 1 < i BY <2>1, <3>2
        <4>2. <<i - 1, i>> \in R BY <4>1
        <4>3. g[i - 1] = h[i - 1] BY <2>6, <4>1, <4>2
        <4>4. QED BY <4>3, <2>5
      <3>3. QED BY <3>1, <3>2
    <2>7. <<>> \in Seq(X) OBVIOUS
    <2>8. PICK f \in fs : \A i \in 1..n : f[i] = steps[<<i, f>>]
      <3>1. Respects(steps, R, 1..n, Seq(X)) BY <2>4, <2>6 DEF Respects
      <3> DEFINE D == 1..n
                 V == Seq(X)
                 v0 == <<>>
      <3>2. Induces(R, D) /\ v0 \in V /\ Respects(steps, R, D, V) BY <2>2, <2>7, <3>1
      <3> HIDE DEF steps, R, D, V, v0
      <3>3. \E f \in [D -> V] : \A x \in D : f[x] = steps[<<x, f>>]
        BY <3>2, RecursiveFunction
      <3>4. QED BY <3>3 DEF D, V
    <2>9. f = [i \in 1..n |-> E(i, f)] BY <2>5, <2>8
    <2>10. flatten = [i \in 1..n |-> E(i, flatten)] BY <2>9
    <2>11. flatten[n] \in Seq(X)
      <3> DEFINE S == {i \in 1..n : flatten[i] \in Seq(X)}
      <3>1. ASSUME NEW i \in 1..n, \A j \in 1..n : <<j, i>> \in R => j \in S PROVE i \in S
        <4> HIDE DEF flatten
        <4>1. flatten[i] = E(i, flatten) BY <2>10
        <4>2. CASE i = 1 BY <4>1, <4>2
        <4>3. CASE i # 1
          <5>1. i - 1 \in 1..n /\ i - 1 < i BY <2>1, <4>3
          <5>2. <<i - 1, i>> \in R BY <5>1
          <5>3. flatten[i - 1] \in Seq(X) BY <3>1, <5>1, <5>2
          <5>4. seqs[i] \in Seq(X) OBVIOUS
          <5>5. flatten[i] = flatten[i - 1] \o seqs[i] BY <4>1, <4>3
          <5>6. \A u, v \in Seq(X) : u \o v \in Seq(X) OBVIOUS
          <5>7. QED BY <5>3, <5>4, <5>5, <5>6
        <4>4. QED BY <4>2, <4>3
      <3>2. S \in SUBSET (1..n) OBVIOUS
      <3>3. S = 1..n
        <4> HIDE DEF S, R, n
        <4>1. QED BY <3>1, <3>2, <2>2 DEF Induces
      <3>4. n \in S
        <4> HIDE DEF S
        <4>1. QED BY <3>3, <2>1
      <3> HIDE DEF flatten
      <3>5. QED BY <3>4
    <2>12. QED BY <2>11, <1>2 DEF FlattenSeq
  <1>3. QED BY <1>1, <1>2

-----------------------------------------------------------------------------
\* The items of hierarchies

\* A term in a term of a hierarchy.
Inner == {p \in RhTerms \X RhTerms : p[1] \in TermsIn(p[2])}

\* No term holds terms without end.
LEMMA TermsInduce == Induces(Inner, RhTerms)
PROOF
  <1>1. \A x \in RhTerms : RhDepth[x] \in Nat BY RhTermsAssumption
  <1>2. \A x, y \in RhTerms : <<y, x>> \in Inner => RhDepth[y] < RhDepth[x]
    BY RhTermsAssumption DEF Inner
  <1>3. QED BY <1>1, <1>2, DepthInduces

\* The elements of a list and what is in a pair are among the terms, and not as deep.
LEMMA InnerTerms ==
  ASSUME NEW t \in RhTerms
  PROVE  /\ IsList(t) =>
              /\ t.elements \in Seq(RhTerms)
              /\ \A i \in DOMAIN t.elements :
                   /\ t.elements[i] \in RhTerms /\ <<t.elements[i], t>> \in Inner
                   /\ RhDepth[t.elements[i]] < RhDepth[t]
         /\ t.form = "tuple" =>
              /\ t.children \in RhTerms
              /\ <<t.children, t>> \in Inner /\ RhDepth[t.children] < RhDepth[t]
PROOF
  <1>1. ASSUME NEW u \in TermsIn(t)
        PROVE  u \in RhTerms /\ <<u, t>> \in Inner /\ RhDepth[u] < RhDepth[t]
    BY <1>1, RhTermsAssumption DEF Inner
  <1>2. ASSUME IsList(t)
        PROVE  /\ t.elements \in Seq(RhTerms)
               /\ \A i \in DOMAIN t.elements : t.elements[i] \in TermsIn(t)
    <2>1. TermsIn(t) = Range(t.elements) BY <1>2 DEF IsList, TermsIn, Elements
    <2>2. t.elements \in Seq(Range(t.elements))
      BY <1>2, RhTermsAssumption DEF Elements
    <2>3. \A i \in DOMAIN t.elements : t.elements[i] \in Range(t.elements) BY DEF Range
    <2>4. Range(t.elements) \subseteq RhTerms BY <2>1, <1>1
    <2> DEFINE s == t.elements
               A == Range(t.elements)
    <2>5. s \in Seq(RhTerms)
      <3>1. s \in Seq(A) /\ A \subseteq RhTerms BY <2>2, <2>4
      <3> HIDE DEF s, A
      <3>2. QED BY <3>1
    <2>6. QED BY <2>1, <2>3, <2>5
  <1>3. ASSUME t.form = "tuple" PROVE t.children \in TermsIn(t) BY <1>3 DEF TermsIn
  <1>4. QED BY <1>1, <1>2, <1>3

\* What RhSound is defined to be.
SoundHere(t, sound) ==
  CASE t.form = "list" -> \A i \in DOMAIN t.elements : sound[t.elements[i]]
    [] t.form = "tuple" -> t.arity = 2 /\ t.name # Malformed /\ sound[t.children]
    [] OTHER -> FALSE

\* There is such a function.
LEMMA SoundIs == RhSound = [t \in RhTerms |-> SoundHere(t, RhSound)]
PROOF
  <1> DEFINE D == RhTerms
             V == BOOLEAN
             v0 == TRUE
             Fs == [D -> V]
             steps == [p \in D \X Fs |-> SoundHere(p[1], p[2])]
  <1>1. ASSUME NEW t \in D, NEW g \in Fs PROVE SoundHere(t, g) \in BOOLEAN
    <2>1. t.form = "tuple" => g[t.children] \in BOOLEAN BY InnerTerms
    <2>2. QED BY <2>1 DEF SoundHere
  <1>2. ASSUME NEW t \in D, NEW g \in Fs, NEW h \in Fs,
               \A u \in D : <<u, t>> \in Inner => g[u] = h[u]
        PROVE  SoundHere(t, g) = SoundHere(t, h)
    <2>1. CASE t.form = "list"
      <3>1. \A i \in DOMAIN t.elements : g[t.elements[i]] = h[t.elements[i]]
        BY <2>1, <1>2, InnerTerms DEF IsList
      <3>2. QED BY <2>1, <3>1 DEF SoundHere
    <2>2. CASE t.form = "tuple"
      <3>1. g[t.children] = h[t.children] BY <2>2, <1>2, InnerTerms
      <3>2. QED BY <2>2, <3>1 DEF SoundHere
    <2>3. CASE t.form \notin {"list", "tuple"} BY <2>3 DEF SoundHere
    <2>4. QED BY <2>1, <2>2, <2>3
  <1>3. \A t \in D, g \in Fs : steps[<<t, g>>] = SoundHere(t, g) OBVIOUS
  <1>4. steps \in [D \X Fs -> V] BY <1>1
  <1>5. Respects(steps, Inner, D, V) BY <1>2, <1>3, <1>4 DEF Respects
  <1>6. Induces(Inner, D) /\ v0 \in V BY TermsInduce
  <1>7. PICK f \in [D -> V] : \A x \in D : f[x] = steps[<<x, f>>]
    <2> HIDE DEF steps, D, V, v0
    <2>1. QED BY <1>5, <1>6, RecursiveFunction
  <1>8. f = [t \in RhTerms |-> SoundHere(t, f)] BY <1>3, <1>7
  <1>9. QED BY <1>8 DEF RhSound, SoundHere

\* What RhItems is defined to be.
ItemsHere(t, items) ==
  IF IsList(t) THEN FlattenSeq([i \in DOMAIN t.elements |-> items[t.elements[i]]]) ELSE <<t>>

\* There is such a function.
LEMMA ItemsAre == RhItems = [t \in RhTerms |-> ItemsHere(t, RhItems)]
PROOF
  <1> DEFINE D == RhTerms
             V == Seq(RhTerms)
             v0 == <<>>
             Fs == [D -> V]
             steps == [p \in D \X Fs |-> ItemsHere(p[1], p[2])]
  <1>1. ASSUME NEW t \in D, NEW g \in Fs PROVE ItemsHere(t, g) \in Seq(RhTerms)
    <2>1. CASE IsList(t)
      <3> DEFINE s == [i \in DOMAIN t.elements |-> g[t.elements[i]]]
      <3>1. t.elements \in Seq(RhTerms) BY <2>1, InnerTerms
      <3> DEFINE e == t.elements
      <3>2. s \in Seq(Seq(RhTerms))
        <4>1. e \in Seq(RhTerms) BY <3>1
        <4> HIDE DEF e
        <4>2. [i \in DOMAIN e |-> g[e[i]]] \in Seq(Seq(RhTerms)) BY <4>1
        <4>3. QED BY <4>2 DEF e
      <3> HIDE DEF s
      <3>3. FlattenSeq(s) \in Seq(RhTerms) BY <3>2, Flattened
      <3>4. QED BY <2>1, <3>3 DEF ItemsHere, s
    <2>2. CASE ~IsList(t) BY <2>2 DEF ItemsHere
    <2>3. QED BY <2>1, <2>2
  <1>2. ASSUME NEW t \in D, NEW g \in Fs, NEW h \in Fs,
               \A u \in D : <<u, t>> \in Inner => g[u] = h[u]
        PROVE  ItemsHere(t, g) = ItemsHere(t, h)
    <2>1. CASE IsList(t)
      <3>1. \A i \in DOMAIN t.elements : g[t.elements[i]] = h[t.elements[i]]
        BY <2>1, <1>2, InnerTerms
      <3>2. [i \in DOMAIN t.elements |-> g[t.elements[i]]]
              = [i \in DOMAIN t.elements |-> h[t.elements[i]]]
        BY <3>1
      <3>3. QED BY <2>1, <3>2 DEF ItemsHere
    <2>2. CASE ~IsList(t) BY <2>2 DEF ItemsHere
    <2>3. QED BY <2>1, <2>2
  <1>3. \A t \in D, g \in Fs : steps[<<t, g>>] = ItemsHere(t, g) OBVIOUS
  <1>4. steps \in [D \X Fs -> V] BY <1>1
  <1>5. Respects(steps, Inner, D, V) BY <1>2, <1>3, <1>4 DEF Respects
  <1>6. Induces(Inner, D) /\ v0 \in V BY TermsInduce
  <1>7. PICK f \in [D -> V] : \A x \in D : f[x] = steps[<<x, f>>]
    <2> HIDE DEF steps, D, V, v0
    <2>1. QED BY <1>5, <1>6, RecursiveFunction
  <1>8. f = [t \in RhTerms |-> ItemsHere(t, f)] BY <1>3, <1>7
  <1>9. QED BY <1>8 DEF RhItems, ItemsHere, Elements

\* The items of a sound term are no deeper than it is.
LEMMA ItemsOfSound ==
  ASSUME NEW t \in RhTerms, RhSound[t]
  PROVE  RhItems[t] \in Seq({x \in Items : RhDepth[x] <= RhDepth[t]})
PROOF
  <1> DEFINE Upto(n) == {x \in Items : RhDepth[x] <= n}
             S == {u \in RhTerms : RhSound[u] => RhItems[u] \in Seq(Upto(RhDepth[u]))}
  <1>1. ASSUME NEW u \in RhTerms, \A v \in RhTerms : <<v, u>> \in Inner => v \in S
        PROVE  u \in S
    <2>1. SUFFICES ASSUME RhSound[u] PROVE RhItems[u] \in Seq(Upto(RhDepth[u])) OBVIOUS
    <2>2. SoundHere(u, RhSound) BY <2>1, SoundIs
    <2>3. RhItems[u] = ItemsHere(u, RhItems) BY ItemsAre
    <2>4. RhDepth[u] \in Nat BY RhTermsAssumption
    <2>5. CASE IsList(u)
      <3> DEFINE s == [i \in DOMAIN u.elements |-> RhItems[u.elements[i]]]
                 A == Upto(RhDepth[u])
      <3>1. u.elements \in Seq(RhTerms) BY <2>5, InnerTerms
      <3>2. ASSUME NEW i \in DOMAIN u.elements PROVE RhItems[u.elements[i]] \in Seq(A)
        <4> DEFINE v == u.elements[i]
                   B == Upto(RhDepth[v])
        <4>1. v \in RhTerms BY <3>1
        <4>2. <<v, u>> \in Inner /\ RhDepth[v] < RhDepth[u] BY <2>5, InnerTerms
        <4>3. RhSound[v] BY <2>2, <2>5 DEF SoundHere, IsList
        <4>4. RhItems[v] \in Seq(B) BY <1>1, <4>1, <4>2, <4>3
        <4>5. B \subseteq A
          <5>1. RhDepth[v] \in Nat BY <4>1, RhTermsAssumption
          <5>2. \A x \in Items : RhDepth[x] \in Nat BY RhTermsAssumption DEF Items
          <5> HIDE DEF v
          <5>3. QED BY <4>2, <5>1, <5>2, <2>4
        <4> HIDE DEF A, B, v
        <4>6. RhItems[v] \in Seq(A) BY <4>4, <4>5
        <4>7. QED BY <4>6 DEF v
      <3> HIDE DEF A
      <3>3. s \in Seq(Seq(A)) BY <3>1, <3>2
      <3> HIDE DEF s
      <3>4. FlattenSeq(s) \in Seq(A) BY <3>3, Flattened
      <3>5. QED BY <2>3, <2>5, <3>4 DEF ItemsHere, s, A
    <2>6. CASE u.form = "tuple"
      <3>1. u \in Items BY <2>1, <2>6 DEF Items
      <3>2. u \in Upto(RhDepth[u]) BY <3>1, <2>4
      <3>3. RhItems[u] = <<u>> BY <2>3, <2>6 DEF ItemsHere, IsList
      <3> HIDE DEF Upto
      <3>4. QED BY <3>2, <3>3
    <2>7. QED BY <2>2, <2>5, <2>6 DEF SoundHere, IsList
  <1>2. S \in SUBSET RhTerms OBVIOUS
  <1>3. S = RhTerms
    <2> HIDE DEF S
    <2>1. QED BY <1>1, <1>2, TermsInduce DEF Induces
  <1>4. t \in S BY <1>3
  <1>5. QED BY <1>4

\* So are the items in an item, and less deep than it.
LEMMA ChildrenAre ==
  /\ Children \in [Items -> Seq(Items)]
  /\ \A x \in Items : \A i \in DOMAIN Children[x] :
       RhDepth[Children[x][i]] \in Nat /\ RhDepth[Children[x][i]] < RhDepth[x]
PROOF
  <1>1. ASSUME NEW x \in Items
        PROVE  /\ RhItems[x.children] \in Seq(Items)
               /\ \A i \in DOMAIN RhItems[x.children] :
                    /\ RhDepth[RhItems[x.children][i]] \in Nat
                    /\ RhDepth[RhItems[x.children][i]] < RhDepth[x]
    <2> DEFINE t == x.children
               A == {y \in Items : RhDepth[y] <= RhDepth[t]}
               s == RhItems[t]
    <2>1. x \in RhTerms /\ x.form = "tuple" /\ RhSound[x] BY DEF Items
    <2>2. t \in RhTerms /\ RhDepth[t] < RhDepth[x] BY <2>1, InnerTerms
    <2>3. RhSound[t]
      <3>1. SoundHere(x, RhSound) BY <2>1, SoundIs
      <3>2. QED BY <2>1, <3>1 DEF SoundHere
    <2>4. RhDepth[x] \in Nat /\ RhDepth[t] \in Nat /\ \A y \in Items : RhDepth[y] \in Nat
      BY <2>1, <2>2, RhTermsAssumption DEF Items
    <2> HIDE DEF t
    <2>5. s \in Seq(A) BY <2>2, <2>3, ItemsOfSound
    <2>6. A \subseteq Items /\ \A y \in A : RhDepth[y] \in Nat /\ RhDepth[y] < RhDepth[x]
      BY <2>2, <2>4
    <2> HIDE DEF A, s
    <2>7. s \in Seq(Items) /\ \A i \in DOMAIN s : s[i] \in A BY <2>5, <2>6
    <2>8. QED BY <2>6, <2>7 DEF s, t
  <1>2. QED BY <1>1 DEF Children

-----------------------------------------------------------------------------
\* Forests: sequences of items

Forests == Seq(Items)

\* A forest's front, and what is in each of its items, come before it.
Before == {p \in Forests \X Forests :
             \/ p[2] # <<>> /\ p[1] = Front(p[2])
             \/ \E i \in DOMAIN p[2] : p[1] = Children[p[2][i]]}

\* A forest without its last tree.
LEMMA FrontIs ==
  ASSUME NEW X, NEW F \in Seq(X), F # <<>>
  PROVE  /\ Front(F) \in Seq(X) /\ Last(F) \in X /\ Len(F) \in Nat \ {0}
         /\ Len(Front(F)) = Len(F) - 1 /\ Len(F) \in DOMAIN F /\ Last(F) = F[Len(F)]
         /\ \A i \in DOMAIN Front(F) : i \in DOMAIN F /\ i < Len(F) /\ Front(F)[i] = F[i]
         /\ \A i \in DOMAIN F : i = Len(F) \/ i \in DOMAIN Front(F)
PROOF
  <1>1. Len(F) \in Nat \ {0} /\ Len(F) \in DOMAIN F OBVIOUS
  <1>2. Front(F) \in Seq(X) /\ Len(Front(F)) = Len(F) - 1
    <2> DEFINE m == Len(F) - 1
    <2>1. m \in Nat /\ m <= Len(F) BY <1>1
    <2>2. Front(F) = [i \in 1..m |-> F[i]] BY <1>1 DEF Front
    <2>3. \A i \in 1..m : F[i] \in X BY <2>1
    <2> HIDE DEF m
    <2>4. Front(F) \in Seq(X) /\ Len(Front(F)) = m BY <2>1, <2>2, <2>3
    <2>5. QED BY <2>4 DEF m
  <1>3. \A i \in 1..(Len(F) - 1) : Front(F)[i] = F[i] BY <1>1 DEF Front
  <1>4. QED BY <1>1, <1>2, <1>3 DEF Last

\* No forest goes on without end: its items are less deep the further down they are.
LEMMA ForestsInduce == Induces(Before, Forests)
PROOF
  <1> SUFFICES ASSUME NEW S \in SUBSET Forests,
                      \A F \in Forests :
                        (\A G \in Forests : <<G, F>> \in Before => G \in S) => F \in S
               PROVE  S = Forests
    BY DEF Induces
  <1> DEFINE Good == {x \in Items : Children[x] \in S}
  <1>1. ASSUME NEW F \in Seq(Good) PROVE F \in S
    <2> DEFINE R == {p \in Seq(Good) \X Seq(Good) : Len(p[1]) < Len(p[2])}
               T == {H \in Seq(Good) : H \in S}
               depth == [H \in Seq(Good) |-> Len(H)]
    <2>1. Induces(R, Seq(Good))
      <3>1. \A H \in Seq(Good) : depth[H] \in Nat OBVIOUS
      <3>2. \A H, K \in Seq(Good) : <<K, H>> \in R => depth[K] < depth[H] OBVIOUS
      <3> HIDE DEF depth, R, Good
      <3>3. QED BY <3>1, <3>2, DepthInduces
    <2>2. ASSUME NEW H \in Seq(Good), \A K \in Seq(Good) : <<K, H>> \in R => K \in T
          PROVE  H \in T
      <3>1. Good \subseteq Items OBVIOUS
      <3> HIDE DEF Good
      <3>2. H \in Forests BY <3>1 DEF Forests
      <3>3. ASSUME NEW G \in Forests, <<G, H>> \in Before PROVE G \in S
        <4>1. CASE H # <<>> /\ G = Front(H)
          <5>1. G \in Seq(Good) /\ Len(G) < Len(H) BY <4>1, FrontIs
          <5>2. <<G, H>> \in R BY <5>1
          <5>3. QED BY <2>2, <5>1, <5>2
        <4>2. CASE \E i \in DOMAIN H : G = Children[H[i]] BY <4>2 DEF Good
        <4>3. QED BY <3>3, <4>1, <4>2 DEF Before
      <3>4. QED BY <3>2, <3>3
    <2>3. T = Seq(Good)
      <3>1. T \in SUBSET Seq(Good) OBVIOUS
      <3> HIDE DEF T, R, Good
      <3>2. QED BY <2>1, <2>2, <3>1 DEF Induces
    <2> HIDE DEF Good
    <2>4. QED BY <2>3
  <1>2. Good = Items
    <2> DEFINE R == {p \in Items \X Items : RhDepth[p[1]] < RhDepth[p[2]]}
    <2>1. Induces(R, Items)
      <3>1. \A x \in Items : RhDepth[x] \in Nat BY RhTermsAssumption DEF Items
      <3>2. \A x, y \in Items : <<y, x>> \in R => RhDepth[y] < RhDepth[x] OBVIOUS
      <3> HIDE DEF R
      <3>3. QED BY <3>1, <3>2, DepthInduces
    <2>2. ASSUME NEW x \in Items, \A y \in Items : <<y, x>> \in R => y \in Good
          PROVE  x \in Good
      <3> DEFINE C == Children[x]
      <3>1. C \in Seq(Items) /\ \A i \in DOMAIN C : RhDepth[C[i]] < RhDepth[x]
        BY ChildrenAre
      <3> HIDE DEF C
      <3>2. \A i \in DOMAIN C : C[i] \in Good
        <4>1. SUFFICES ASSUME NEW i \in DOMAIN C PROVE C[i] \in Good OBVIOUS
        <4> HIDE DEF Good
        <4>2. C[i] \in Items BY <3>1
        <4>3. <<C[i], x>> \in R BY <3>1, <4>2
        <4>4. QED BY <2>2, <4>2, <4>3
      <3>3. C \in Seq(Good)
        <4> HIDE DEF Good
        <4>1. QED BY <3>1, <3>2
      <3>4. C \in S BY <1>1, <3>3
      <3>5. QED BY <3>4 DEF C
    <2>3. Good \in SUBSET Items OBVIOUS
    <2> HIDE DEF Good, R
    <2>4. QED BY <2>1, <2>2, <2>3 DEF Induces
  <1> HIDE DEF Good
  <1>3. QED BY <1>1, <1>2 DEF Forests

\* What comes before a forest is a forest.
LEMMA BeforeIs ==
  ASSUME NEW F \in Forests
  PROVE  /\ F # <<>> => Front(F) \in Forests /\ <<Front(F), F>> \in Before
         /\ \A i \in DOMAIN F : /\ F[i] \in Items /\ Children[F[i]] \in Forests
                                /\ <<Children[F[i]], F>> \in Before
PROOF
  <1>1. F # <<>> => Front(F) \in Forests BY FrontIs DEF Forests
  <1>2. \A i \in DOMAIN F : F[i] \in Items BY DEF Forests
  <1>3. \A i \in DOMAIN F : Children[F[i]] \in Forests BY <1>2, ChildrenAre DEF Forests
  <1>4. QED BY <1>1, <1>2, <1>3 DEF Before

-----------------------------------------------------------------------------
\* Their paths

\* The steps of paths
Strides == [at : Nat, item : Items]
Stride(i, x) == [at |-> i, item |-> x]

\* What Paths is defined to be.
PathsHere(F, paths) ==
  UNION {{<<[at |-> i, item |-> F[i]]>> \o p : p \in {<<>>} \cup paths[Children[F[i]]]} :
           i \in DOMAIN F}

\* The paths depend on those below the items only.
LEMMA SamePaths ==
  ASSUME NEW F, NEW g, NEW h, \A i \in DOMAIN F : g[Children[F[i]]] = h[Children[F[i]]]
  PROVE  PathsHere(F, g) = PathsHere(F, h)
PROOF
  <1> DEFINE U(i, A) == {<<[at |-> i, item |-> F[i]]>> \o p : p \in {<<>>} \cup A}
  <1>1. /\ PathsHere(F, g) = UNION {U(i, g[Children[F[i]]]) : i \in DOMAIN F}
        /\ PathsHere(F, h) = UNION {U(i, h[Children[F[i]]]) : i \in DOMAIN F}
    BY DEF PathsHere
  <1> HIDE DEF U
  <1>2. {U(i, g[Children[F[i]]]) : i \in DOMAIN F} = {U(i, h[Children[F[i]]]) : i \in DOMAIN F}
    OBVIOUS
  <1>3. QED BY <1>1, <1>2

\* There is such a function, and its paths are sequences of strides.
LEMMA PathsAre == Paths \in [Forests -> SUBSET Seq(Strides)]
                  /\ \A F \in Forests : Paths[F] = PathsHere(F, Paths)
PROOF
  <1> DEFINE D == Forests
             V == SUBSET Seq(Strides)
             v0 == {}
             Fs == [D -> V]
             steps == [p \in D \X Fs |-> PathsHere(p[1], p[2])]
  <1>1. ASSUME NEW F \in D, NEW g \in Fs PROVE PathsHere(F, g) \in V
    <2>1. ASSUME NEW i \in DOMAIN F, NEW p \in {<<>>} \cup g[Children[F[i]]]
          PROVE  <<[at |-> i, item |-> F[i]]>> \o p \in Seq(Strides)
      <3>1. g[Children[F[i]]] \in V BY BeforeIs
      <3>2. p \in Seq(Strides)
        <4>1. CASE p = <<>> BY <4>1
        <4>2. CASE p \in g[Children[F[i]]] BY <3>1, <4>2
        <4>3. QED BY <4>1, <4>2
      <3>3. i \in Nat /\ F[i] \in Items BY DEF Forests
      <3>4. [at |-> i, item |-> F[i]] \in Strides BY <3>3 DEF Strides
      <3>5. QED BY <3>2, <3>4
    <2>2. ASSUME NEW z \in PathsHere(F, g) PROVE z \in Seq(Strides)
      <3>1. PICK i \in DOMAIN F : \E p \in {<<>>} \cup g[Children[F[i]]] :
                                    z = <<[at |-> i, item |-> F[i]]>> \o p
        BY DEF PathsHere
      <3>2. QED BY <2>1, <3>1
    <2>3. QED BY <2>2
  <1>2. ASSUME NEW F \in D, NEW g \in Fs, NEW h \in Fs,
               \A G \in D : <<G, F>> \in Before => g[G] = h[G]
        PROVE  PathsHere(F, g) = PathsHere(F, h)
    <2>1. \A i \in DOMAIN F : g[Children[F[i]]] = h[Children[F[i]]] BY <1>2, BeforeIs
    <2>2. QED BY <2>1, SamePaths
  <1>3. \A F \in D, g \in Fs : steps[<<F, g>>] = PathsHere(F, g) OBVIOUS
  <1>4. steps \in [D \X Fs -> V] BY <1>1
  <1>5. Respects(steps, Before, D, V) BY <1>2, <1>3, <1>4 DEF Respects
  <1>6. Induces(Before, D) /\ v0 \in V BY ForestsInduce
  <1>7. PICK f \in [D -> V] : \A x \in D : f[x] = steps[<<x, f>>]
    <2> HIDE DEF steps, D, V, v0
    <2>1. QED BY <1>5, <1>6, RecursiveFunction
  <1>8. f = [F \in Forests |-> PathsHere(F, f)] BY <1>3, <1>7
  <1>9. Paths = [F \in Forests |-> PathsHere(F, Paths)]
    BY <1>8 DEF Paths, PathsHere, Forests
  <1>10. \A F \in Forests : Paths[F] = PathsHere(F, Paths) BY <1>9
  <1>11. \A F \in Forests : Paths[F] \in V
    <2> DEFINE S == {F \in Forests : Paths[F] \in V}
    <2>1. ASSUME NEW F \in Forests, \A G \in Forests : <<G, F>> \in Before => G \in S
          PROVE  F \in S
      <3> DEFINE g == [G \in Forests |-> IF Paths[G] \in V THEN Paths[G] ELSE {}]
      <3>1. g \in Fs OBVIOUS
      <3>2. \A i \in DOMAIN F : g[Children[F[i]]] = Paths[Children[F[i]]] BY <2>1, BeforeIs
      <3>3. PathsHere(F, g) = PathsHere(F, Paths) BY <3>2, SamePaths
      <3>4. QED BY <1>1, <1>10, <3>1, <3>3
    <2>2. S \in SUBSET Forests OBVIOUS
    <2>3. S = Forests
      <3> HIDE DEF S
      <3>1. QED BY <2>1, <2>2, ForestsInduce DEF Induces
    <2>4. QED BY <2>3
  <1>12. Paths \in [Forests -> V]
    <2> HIDE DEF V
    <2>1. QED BY <1>9, <1>11
  <1>13. QED BY <1>10, <1>12

\* A path that begins with a stride.
LEMMA StrideThen ==
  ASSUME NEW X, NEW s \in X, NEW q \in Seq(X)
  PROVE  /\ <<s>> \o q \in Seq(X) /\ Len(<<s>> \o q) = Len(q) + 1 /\ (<<s>> \o q)[1] = s
         /\ \A i \in 1..Len(q) : (<<s>> \o q)[i + 1] = q[i]
         /\ q = <<>> => Last(<<s>> \o q) = s
         /\ q # <<>> => Len(q) >= 1 /\ Last(<<s>> \o q) = Last(q)
PROOF
  <1>1. /\ <<s>> \o q \in Seq(X) /\ Len(<<s>> \o q) = Len(q) + 1 /\ (<<s>> \o q)[1] = s
        /\ \A i \in 1..Len(q) : (<<s>> \o q)[i + 1] = q[i]
    OBVIOUS
  <1>2. q = <<>> => Len(q) = 0 OBVIOUS
  <1>3. q # <<>> => Len(q) >= 1 OBVIOUS
  <1> DEFINE p == <<s>> \o q
  <1>4. Last(p) = p[Len(q) + 1] /\ Last(q) = q[Len(q)] BY <1>1 DEF Last
  <1> HIDE DEF p
  <1>5. /\ q = <<>> => Last(p) = s
        /\ q # <<>> => Last(p) = Last(q)
    BY <1>1, <1>2, <1>3, <1>4 DEF p
  <1>6. QED BY <1>1, <1>3, <1>5 DEF p

\* Paths that go on alike are alike.
LEMMA SameStride ==
  ASSUME NEW X, NEW s \in X, NEW t \in X, NEW q \in Seq(X), NEW r \in Seq(X),
         <<s>> \o q = <<t>> \o r
  PROVE  s = t /\ q = r
PROOF
  <1>1. s = t BY StrideThen
  <1>2. Len(q) = Len(r) BY StrideThen
  <1>3. \A i \in 1..Len(q) : q[i] = r[i]
    <2>1. ASSUME NEW i \in 1..Len(q) PROVE q[i] = r[i]
      <3>1. q[i] = (<<s>> \o q)[i + 1] BY StrideThen
      <3>2. r[i] = (<<t>> \o r)[i + 1] BY StrideThen, <1>2
      <3>3. QED BY <3>1, <3>2
    <2>2. QED BY <2>1
  <1>4. QED BY <1>1, <1>2, <1>3

\* What a path is.
LEMMA PathIs ==
  ASSUME NEW F \in Forests
  PROVE  /\ Paths[F] \subseteq Seq(Strides)
         /\ \A p : p \in Paths[F] <=>
              \E i \in DOMAIN F : \E q \in {<<>>} \cup Paths[Children[F[i]]] :
                p = <<Stride(i, F[i])>> \o q
PROOF
  <1>1. Paths[F] = PathsHere(F, Paths) BY PathsAre
  <1>2. ASSUME NEW p
        PROVE  p \in PathsHere(F, Paths) <=>
                 \E i \in DOMAIN F : \E q \in {<<>>} \cup Paths[Children[F[i]]] :
                   p = <<Stride(i, F[i])>> \o q
    <2> DEFINE U(i) == {<<[at |-> i, item |-> F[i]]>> \o q : q \in {<<>>} \cup Paths[Children[F[i]]]}
    <2>1. p \in PathsHere(F, Paths) <=> \E i \in DOMAIN F : p \in U(i) BY DEF PathsHere
    <2>2. \A i \in DOMAIN F : p \in U(i) <=> \E q \in {<<>>} \cup Paths[Children[F[i]]] :
                                               p = <<Stride(i, F[i])>> \o q
      BY DEF Stride
    <2> HIDE DEF U
    <2>3. QED BY <2>1, <2>2
  <1>3. Paths[F] \subseteq Seq(Strides) BY PathsAre
  <1>4. QED BY <1>1, <1>2, <1>3

\* A stride is one of those.
LEMMA StrideIs ==
  ASSUME NEW F \in Forests, NEW i \in DOMAIN F
  PROVE  /\ Stride(i, F[i]) \in Strides /\ Stride(i, F[i]).at = i
         /\ Stride(i, F[i]).item = F[i]
PROOF
  BY DEF Stride, Strides, Forests

\* The paths of a forest are those of its front, and those of its last tree.
LastStride(F) == Stride(Len(F), Last(F))
LEMMA PathsSplit ==
  ASSUME NEW F \in Forests, F # <<>>
  PROVE  /\ Front(F) \in Forests /\ Last(F) \in Items /\ Children[Last(F)] \in Forests
         /\ LastStride(F) \in Strides /\ LastStride(F).item = Last(F)
         /\ Paths[Front(F)] \subseteq Seq(Strides) /\ Paths[Children[Last(F)]] \subseteq Seq(Strides)
         /\ \A p : p \in Paths[F] <=>
              \/ p \in Paths[Front(F)]
              \/ p = <<LastStride(F)>>
              \/ \E q \in Paths[Children[Last(F)]] : p = <<LastStride(F)>> \o q
         /\ \A p \in Paths[Front(F)] : p[1] # LastStride(F)
PROOF
  <1> DEFINE G == Front(F)
             n == Len(F)
             st == LastStride(F)
             C == Children[Last(F)]
  <1>1. /\ G \in Forests /\ Last(F) \in Items /\ n \in DOMAIN F /\ Last(F) = F[n]
        /\ \A i \in DOMAIN G : i \in DOMAIN F /\ i < n /\ G[i] = F[i]
        /\ \A i \in DOMAIN F : i = n \/ i \in DOMAIN G
    BY FrontIs DEF Forests
  <1>2. C \in Forests BY <1>1, BeforeIs
  <1>3. st \in Strides /\ st.item = Last(F) /\ st.at = n /\ st = Stride(n, F[n])
    BY <1>1, StrideIs DEF LastStride
  <1>4. Paths[G] \subseteq Seq(Strides) /\ Paths[C] \subseteq Seq(Strides)
    <2> HIDE DEF G, C
    <2>1. QED BY <1>1, <1>2, PathIs
  <1> HIDE DEF G, n, st, C
  <1>5. \A p : p \in Paths[G] <=>
          \E i \in DOMAIN G : \E q \in {<<>>} \cup Paths[Children[F[i]]] :
            p = <<Stride(i, F[i])>> \o q
    <2>1. \A p : p \in Paths[G] <=>
            \E i \in DOMAIN G : \E q \in {<<>>} \cup Paths[Children[G[i]]] :
              p = <<Stride(i, G[i])>> \o q
      BY <1>1, PathIs
    <2>2. QED BY <2>1, <1>1
  <1>6. ASSUME NEW p
        PROVE  p \in Paths[F] <=>
                 p \in Paths[G] \/ \E q \in {<<>>} \cup Paths[C] : p = <<st>> \o q
    <2> DEFINE P(i) == \E q \in {<<>>} \cup Paths[Children[F[i]]] : p = <<Stride(i, F[i])>> \o q
    <2>1. p \in Paths[F] <=> \E i \in DOMAIN F : P(i) BY PathIs
    <2>2. p \in Paths[G] <=> \E i \in DOMAIN G : P(i) BY <1>5
    <2>3. P(n) <=> \E q \in {<<>>} \cup Paths[C] : p = <<st>> \o q BY <1>1, <1>3 DEF C
    <2> HIDE DEF P
    <2>4. (\E i \in DOMAIN F : P(i)) <=> (\E i \in DOMAIN G : P(i)) \/ P(n) BY <1>1
    <2>5. QED BY <2>1, <2>2, <2>3, <2>4
  <1>7. \A p : (\E q \in {<<>>} \cup Paths[C] : p = <<st>> \o q)
               <=> p = <<st>> \/ \E q \in Paths[C] : p = <<st>> \o q
    <2>1. <<st>> \o <<>> = <<st>> OBVIOUS
    <2>2. QED BY <2>1
  <1>8. ASSUME NEW p \in Paths[G] PROVE p[1] # st
    <2>0. PICK i \in DOMAIN G : \E q \in {<<>>} \cup Paths[Children[F[i]]] :
                                  p = <<Stride(i, F[i])>> \o q
      BY <1>5
    <2>1. PICK q \in {<<>>} \cup Paths[Children[F[i]]] : p = <<Stride(i, F[i])>> \o q
      BY <2>0
    <2>2. i \in DOMAIN F /\ i < n BY <1>1
    <2>3. Children[F[i]] \in Forests BY <2>2, BeforeIs
    <2>4. q \in Seq(Strides)
      <3>1. Paths[Children[F[i]]] \subseteq Seq(Strides) BY <2>3, PathIs
      <3>2. CASE q = <<>> BY <3>2
      <3>3. CASE q \in Paths[Children[F[i]]] BY <3>1, <3>3
      <3>4. QED BY <3>2, <3>3
    <2>5. Stride(i, F[i]) \in Strides /\ Stride(i, F[i]).at = i BY <2>2, StrideIs
    <2>6. p[1] = Stride(i, F[i]) BY <2>1, <2>4, <2>5, StrideThen
    <2>7. n \in Nat /\ i \in Nat BY <1>1, <2>2 DEF Forests
    <2>8. QED BY <1>3, <2>2, <2>5, <2>6, <2>7
  <1>9. QED BY <1>1, <1>2, <1>3, <1>4, <1>6, <1>7, <1>8 DEF G, C, st

\* Nothing has no paths.
LEMMA NoPaths == Paths[<<>>] = {}
PROOF
  <1>1. <<>> \in Forests /\ DOMAIN <<>> = {} BY DEF Forests
  <1>2. QED BY <1>1, PathIs

\* A path has a first and a last stride.
LEMMA PathsAreLong ==
  ASSUME NEW F \in Forests, NEW p \in Paths[F]
  PROVE  p \in Seq(Strides) /\ p # <<>> /\ Len(p) >= 1
PROOF
  <1>0. PICK i \in DOMAIN F : \E q \in {<<>>} \cup Paths[Children[F[i]]] :
                                p = <<Stride(i, F[i])>> \o q
    BY PathIs
  <1>1. PICK q \in {<<>>} \cup Paths[Children[F[i]]] : p = <<Stride(i, F[i])>> \o q
    BY <1>0
  <1>2. Children[F[i]] \in Forests BY BeforeIs
  <1>3. Paths[Children[F[i]]] \subseteq Seq(Strides) BY <1>2, PathIs
  <1>4. q \in Seq(Strides)
    <2>1. CASE q = <<>> BY <2>1
    <2>2. CASE q \in Paths[Children[F[i]]] BY <1>3, <2>2
    <2>3. QED BY <2>1, <2>2
  <1>5. p \in Seq(Strides) /\ Len(p) = Len(q) + 1 BY <1>1, <1>4, StrideIs, StrideThen
  <1>6. QED BY <1>4, <1>5

\* What is said of the paths of a forest whose items have `deep' items above them.
KeyOf(x) == <<x.name, x.id>>
PlacedAt(x, depth, info) ==
  /\ x.name \in (CASE depth = 1 -> {"cluster"}
                   [] depth = 2 -> {"partition"}
                   [] OTHER -> {"partition", "node"})
  /\ x.id \in Known(info, x.name)
  /\ x.name = "node" => Children[x] = <<>>
FineBelow(F, deep, info) == \A p \in Paths[F] : InPlace(p, deep, info)
Keys(F) == {Key(p) : p \in Paths[F]}
Once(F) == \A p, q \in Paths[F] : Key(p) = Key(q) => p = q

\* The partition and the cluster of a path's item, in a forest that is in the items above.
PartOf(p, above) == IF Len(p) = 1 THEN Last(above).id ELSE p[Len(p) - 1].item.id
ClusterOf(p, above) == IF above = <<>> THEN p[1].item.id ELSE above[1].id
NodesIn(F) == {p \in Paths[F] : Found(p).name = "node"}
PartsOf(F, above) == {<<Found(p).id, PartOf(p, above)>> : p \in NodesIn(F)}
ClustersOf(F, above) == {<<Found(p).id, ClusterOf(p, above)>> : p \in NodesIn(F)}

\* The path to the root of the last tree, those through it, and the others.
LEMMA LastTree ==
  ASSUME NEW F \in Forests, F # <<>>
  PROVE  /\ <<LastStride(F)>> \in Paths[F] /\ Len(<<LastStride(F)>>) = 1
         /\ Found(<<LastStride(F)>>) = Last(F)
         /\ \A q \in Paths[Children[Last(F)]] :
              /\ <<LastStride(F)>> \o q \in Paths[F]
              /\ q \in Seq(Strides) /\ Len(q) \in Nat \ {0}
              /\ Len(<<LastStride(F)>> \o q) = Len(q) + 1
              /\ Found(<<LastStride(F)>> \o q) = Found(q)
              /\ <<LastStride(F)>> \o q # <<LastStride(F)>>
         /\ \A p \in Paths[Front(F)] : p \in Paths[F] /\ Len(p) \in Nat
PROOF
  <1> DEFINE st == LastStride(F)
             C == Children[Last(F)]
             G == Front(F)
  <1>1. /\ st \in Strides /\ st.item = Last(F) /\ G \in Forests /\ C \in Forests
        /\ Paths[C] \subseteq Seq(Strides) /\ Paths[G] \subseteq Seq(Strides)
    BY PathsSplit
  <1>2. \A p : p \in Paths[F] <=>
          \/ p \in Paths[G] \/ p = <<st>> \/ \E q \in Paths[C] : p = <<st>> \o q
    BY PathsSplit
  <1> HIDE DEF st, C, G
  <1>3. <<st>> \in Paths[F] /\ Len(<<st>>) = 1 /\ Found(<<st>>) = Last(F)
    BY <1>1, <1>2 DEF Found, Last
  <1>4. ASSUME NEW q \in Paths[C]
        PROVE  /\ <<st>> \o q \in Paths[F]
               /\ q \in Seq(Strides) /\ Len(q) \in Nat \ {0}
               /\ Len(<<st>> \o q) = Len(q) + 1
               /\ Found(<<st>> \o q) = Found(q)
               /\ <<st>> \o q # <<st>>
    <2>1. q \in Seq(Strides) /\ q # <<>> /\ Len(q) >= 1 BY <1>1, PathsAreLong
    <2>2. Len(<<st>> \o q) = Len(q) + 1 /\ Last(<<st>> \o q) = Last(q)
      BY <1>1, <2>1, StrideThen
    <2>3. <<st>> \o q # <<st>> BY <2>1, <2>2, <1>3
    <2>4. <<st>> \o q \in Paths[F] BY <1>2
    <2>5. QED BY <2>1, <2>2, <2>3, <2>4 DEF Found
  <1>5. \A p \in Paths[G] : p \in Paths[F] /\ Len(p) \in Nat BY <1>1, <1>2
  <1>6. QED BY <1>3, <1>4, <1>5 DEF st, C, G

\* Whether a path is in its place depends on its item and its length.
LEMMA InPlaceIs ==
  \A p, deep, info : InPlace(p, deep, info) <=> PlacedAt(Found(p), Len(p) + deep, info)
PROOF
  BY DEF InPlace, PlacedAt

\* Each item of a forest is in its place if those of its front are, the last one, and those
\* in it.
LEMMA FineSplit ==
  ASSUME NEW F \in Forests, F # <<>>, NEW deep \in Nat, NEW info
  PROVE  FineBelow(F, deep, info) <=>
           /\ FineBelow(Front(F), deep, info)
           /\ PlacedAt(Last(F), deep + 1, info)
           /\ FineBelow(Children[Last(F)], deep + 1, info)
PROOF
  <1> DEFINE st == LastStride(F)
             C == Children[Last(F)]
             G == Front(F)
  <1>1. \A p : p \in Paths[F] <=>
          \/ p \in Paths[G] \/ p = <<st>> \/ \E q \in Paths[C] : p = <<st>> \o q
    BY PathsSplit
  <1>2. InPlace(<<st>>, deep, info) <=> PlacedAt(Last(F), deep + 1, info)
    <2>1. Len(<<st>>) + deep = deep + 1 /\ Found(<<st>>) = Last(F) BY LastTree
    <2> HIDE DEF st
    <2>2. QED BY <2>1, InPlaceIs
  <1>3. \A q \in Paths[C] : InPlace(<<st>> \o q, deep, info) <=> InPlace(q, deep + 1, info)
    <2>1. ASSUME NEW q \in Paths[C]
          PROVE  InPlace(<<st>> \o q, deep, info) <=> InPlace(q, deep + 1, info)
      <3>1. /\ Len(q) \in Nat /\ Len(<<st>> \o q) = Len(q) + 1
            /\ Found(<<st>> \o q) = Found(q)
        BY LastTree
      <3>2. Len(<<st>> \o q) + deep = Len(q) + (deep + 1) BY <3>1
      <3>3. QED BY <3>1, <3>2, InPlaceIs
    <2>2. QED BY <2>1
  <1> HIDE DEF st, C, G
  <1>4. FineBelow(F, deep, info) <=>
          FineBelow(G, deep, info) /\ InPlace(<<st>>, deep, info)
            /\ \A q \in Paths[C] : InPlace(<<st>> \o q, deep, info)
    BY <1>1 DEF FineBelow
  <1>5. QED BY <1>2, <1>3, <1>4 DEF FineBelow, G, C

\* Likewise the names and ids of its items,
LEMMA KeysSplit ==
  ASSUME NEW F \in Forests, F # <<>>
  PROVE  Keys(F) = Keys(Front(F)) \cup {KeyOf(Last(F))} \cup Keys(Children[Last(F)])
PROOF
  <1> DEFINE st == LastStride(F)
             C == Children[Last(F)]
             G == Front(F)
  <1>1. \A p : p \in Paths[F] <=>
          \/ p \in Paths[G] \/ p = <<st>> \/ \E q \in Paths[C] : p = <<st>> \o q
    BY PathsSplit
  <1>2. Key(<<st>>) = KeyOf(Last(F)) /\ \A q \in Paths[C] : Key(<<st>> \o q) = Key(q)
    BY LastTree DEF Key, KeyOf
  <1> HIDE DEF st, C, G
  <1>3. \A k : k \in Keys(F) <=>
          \/ \E p \in Paths[G] : k = Key(p)
          \/ k = Key(<<st>>)
          \/ \E q \in Paths[C] : k = Key(<<st>> \o q)
    BY <1>1 DEF Keys
  <1>4. \A k : k \in Keys(F) <=> k \in Keys(G) \/ k = KeyOf(Last(F)) \/ k \in Keys(C)
    <2>1. \A x : /\ x \in Keys(G) <=> \E p \in Paths[G] : x = Key(p)
                 /\ x \in Keys(C) <=> \E q \in Paths[C] : x = Key(q)
      BY DEF Keys
    <2>2. \A x : (\E q \in Paths[C] : x = Key(<<st>> \o q)) <=> x \in Keys(C)
      BY <1>2, <2>1
    <2>3. QED BY <1>2, <1>3, <2>1, <2>2
  <1>5. QED BY <1>4 DEF G, C

\* and whether each of them is there once.
LEMMA OnceSplit ==
  ASSUME NEW F \in Forests, F # <<>>
  PROVE  Once(F) <=>
           /\ Once(Front(F)) /\ Once(Children[Last(F)])
           /\ KeyOf(Last(F)) \notin Keys(Front(F)) \cup Keys(Children[Last(F)])
           /\ Keys(Front(F)) \cap Keys(Children[Last(F)]) = {}
PROOF
  <1> DEFINE st == LastStride(F)
             C == Children[Last(F)]
             G == Front(F)
             k == KeyOf(Last(F))
  <1>1. \A p : p \in Paths[F] <=>
          \/ p \in Paths[G] \/ p = <<st>> \/ \E q \in Paths[C] : p = <<st>> \o q
    BY PathsSplit
  <1>2. Key(<<st>>) = k /\ \A q \in Paths[C] : Key(<<st>> \o q) = Key(q)
    BY LastTree DEF Key, KeyOf
  <1>3. st \in Strides /\ \A q \in Paths[C] : q \in Seq(Strides) /\ <<st>> \o q # <<st>>
    BY PathsSplit, LastTree
  <1>4. /\ \A q \in Paths[C] : (<<st>> \o q)[1] = st
        /\ \A q, r \in Paths[C] : <<st>> \o q = <<st>> \o r => q = r
    BY <1>3, StrideThen, SameStride
  <1>5. \A p \in Paths[G] : p # <<st>> /\ \A q \in Paths[C] : p # <<st>> \o q
    <2>1. \A p \in Paths[G] : p[1] # st BY PathsSplit
    <2>2. <<st>>[1] = st OBVIOUS
    <2>3. QED BY <1>4, <2>1, <2>2
  <1> HIDE DEF st, C, G, k
  <1>6. ASSUME Once(F)
        PROVE  Once(G) /\ Once(C) /\ k \notin Keys(G) \cup Keys(C) /\ Keys(G) \cap Keys(C) = {}
    <2>1. Once(G) BY <1>1, <1>6 DEF Once
    <2>2. Once(C) BY <1>1, <1>2, <1>4, <1>6 DEF Once
    <2>3. k \notin Keys(G)
      <3>1. \A p \in Paths[G] : Key(p) # k BY <1>1, <1>2, <1>5, <1>6 DEF Once
      <3>2. QED BY <3>1 DEF Keys
    <2>4. k \notin Keys(C)
      <3>1. \A q \in Paths[C] : Key(q) # k BY <1>1, <1>2, <1>3, <1>6 DEF Once
      <3>2. QED BY <3>1 DEF Keys
    <2>5. Keys(G) \cap Keys(C) = {}
      <3>1. \A p \in Paths[G], q \in Paths[C] : Key(p) # Key(q)
        BY <1>1, <1>2, <1>5, <1>6 DEF Once
      <3>2. QED BY <3>1 DEF Keys
    <2>6. QED BY <2>1, <2>2, <2>3, <2>4, <2>5
  <1>7. ASSUME Once(G), Once(C), k \notin Keys(G) \cup Keys(C), Keys(G) \cap Keys(C) = {}
        PROVE  Once(F)
    <2>1. /\ \A p \in Paths[G] : Key(p) # k /\ \A q \in Paths[C] : Key(p) # Key(q)
          /\ \A q \in Paths[C] : Key(q) # k
      BY <1>7 DEF Keys
    <2>2. SUFFICES ASSUME NEW p \in Paths[F], NEW r \in Paths[F], Key(p) = Key(r)
                   PROVE  p = r
      BY DEF Once
    <2>3. ASSUME NEW t \in Paths[F], t \notin Paths[G], t # <<st>>
          PROVE  \E q \in Paths[C] : t = <<st>> \o q /\ Key(t) = Key(q)
      <3>1. PICK q \in Paths[C] : t = <<st>> \o q BY <1>1, <2>3
      <3>2. Key(<<st>> \o q) = Key(q) BY <1>2
      <3>3. QED BY <3>1, <3>2
    <2> HIDE DEF Keys
    <2>4. CASE p \in Paths[G] /\ r \in Paths[G] BY <1>7, <2>2, <2>4 DEF Once
    <2>5. CASE p = <<st>>
      <3>1. Key(r) = k BY <1>2, <2>2, <2>5
      <3>2. r \notin Paths[G] BY <2>1, <3>1
      <3>3. QED BY <2>1, <2>3, <2>5, <3>1, <3>2
    <2>6. CASE r = <<st>>
      <3>1. Key(p) = k BY <1>2, <2>2, <2>6
      <3>2. p \notin Paths[G] BY <2>1, <3>1
      <3>3. QED BY <2>1, <2>3, <2>6, <3>1, <3>2
    <2>7. CASE p \notin Paths[G] /\ r \notin Paths[G] /\ p # <<st>> /\ r # <<st>>
      <3>1. PICK q \in Paths[C] : p = <<st>> \o q /\ Key(p) = Key(q) BY <2>3, <2>7
      <3>2. PICK s \in Paths[C] : r = <<st>> \o s /\ Key(r) = Key(s) BY <2>3, <2>7
      <3>3. q = s BY <1>7, <2>2, <3>1, <3>2 DEF Once
      <3>4. QED BY <3>1, <3>2, <3>3
    <2>8. CASE p \in Paths[G] /\ r \notin Paths[G] /\ r # <<st>>
      BY <2>1, <2>2, <2>3, <2>8
    <2>9. CASE p \notin Paths[G] /\ p # <<st>> /\ r \in Paths[G]
      BY <2>1, <2>2, <2>3, <2>9
    <2>10. QED BY <2>4, <2>5, <2>6, <2>7, <2>8, <2>9
  <1>8. QED BY <1>6, <1>7 DEF G, C, k

\* The item itself, as a node of its cluster and its partition.
OwnPart(x, above) == IF x.name = "node" THEN {<<x.id, Last(above).id>>} ELSE {}
OwnCluster(x, above) ==
  IF x.name = "node" THEN {<<x.id, IF above = <<>> THEN x.id ELSE above[1].id>>} ELSE {}

\* An item after a sequence.
LEMMA AppendIs ==
  ASSUME NEW X, NEW s \in Seq(X), NEW x \in X
  PROVE  /\ Append(s, x) \in Seq(X) /\ Append(s, x) # <<>> /\ Last(Append(s, x)) = x
         /\ Len(Append(s, x)) = Len(s) + 1
         /\ s = <<>> => Append(s, x)[1] = x
         /\ s # <<>> => Append(s, x)[1] = s[1]
PROOF
  <1>1. /\ Append(s, x) \in Seq(X) /\ Len(Append(s, x)) = Len(s) + 1
        /\ Append(s, x)[Len(s) + 1] = x
        /\ \A i \in 1..Len(s) : Append(s, x)[i] = s[i]
    OBVIOUS
  <1>2. s = <<>> => Len(s) = 0 OBVIOUS
  <1>3. s # <<>> => Len(s) >= 1 OBVIOUS
  <1> DEFINE a == Append(s, x)
  <1>4. Last(a) = a[Len(a)] BY DEF Last
  <1> HIDE DEF a
  <1>5. Last(a) = x /\ a # <<>> BY <1>1, <1>4 DEF a
  <1>6. /\ s = <<>> => a[1] = x
        /\ s # <<>> => a[1] = s[1]
    BY <1>1, <1>2, <1>3 DEF a
  <1>7. QED BY <1>1, <1>5, <1>6 DEF a

\* A path in the last tree is related as it is below the tree's root.
LEMMA RelatedBelow ==
  ASSUME NEW F \in Forests, F # <<>>, NEW above \in Seq(Items), NEW q \in Paths[Children[Last(F)]]
  PROVE  /\ PartOf(<<LastStride(F)>> \o q, above) = PartOf(q, Append(above, Last(F)))
         /\ ClusterOf(<<LastStride(F)>> \o q, above) = ClusterOf(q, Append(above, Last(F)))
PROOF
  <1> DEFINE st == LastStride(F)
             x == Last(F)
             p == <<st>> \o q
             b == Append(above, x)
  <1>1. st \in Strides /\ st.item = x /\ x \in Items BY PathsSplit
  <1>2. q \in Seq(Strides) /\ Len(q) \in Nat /\ Len(q) >= 1
    <2>1. q \in Seq(Strides) /\ Len(q) \in Nat \ {0} BY LastTree
    <2>2. QED BY <2>1
  <1>3. /\ Len(p) = Len(q) + 1 /\ p[1] = st
        /\ \A i \in 1..Len(q) : p[i + 1] = q[i]
    BY <1>1, <1>2, StrideThen
  <1>4. /\ b # <<>> /\ Last(b) = x
        /\ above = <<>> => b[1] = x
        /\ above # <<>> => b[1] = above[1]
    BY <1>1, AppendIs
  <1> HIDE DEF st, x, p, b
  <1>5. ClusterOf(p, above) = ClusterOf(q, b) BY <1>1, <1>3, <1>4 DEF ClusterOf
  <1>6. PartOf(p, above) = p[Len(q)].item.id BY <1>2, <1>3 DEF PartOf
  <1>7. ASSUME Len(q) = 1 PROVE PartOf(p, above) = PartOf(q, b)
    BY <1>1, <1>3, <1>4, <1>6, <1>7 DEF PartOf
  <1>8. ASSUME Len(q) # 1 PROVE PartOf(p, above) = PartOf(q, b)
    <2>0. \A n \in Nat : n >= 1 /\ n # 1 => n - 1 \in 1..n OBVIOUS
    <2>1. Len(q) - 1 \in 1..Len(q) BY <1>2, <1>8, <2>0
    <2>2. p[(Len(q) - 1) + 1] = q[Len(q) - 1] BY <1>3, <2>1
    <2>3. (Len(q) - 1) + 1 = Len(q) BY <1>2
    <2>4. QED BY <1>6, <1>8, <2>2, <2>3 DEF PartOf
  <1>9. PartOf(p, above) = PartOf(q, b) BY <1>7, <1>8
  <1>10. QED BY <1>5, <1>9 DEF p, b, st, x

\* The nodes of a forest are related as those of its front, the last item, and those in it.
LEMMA RelatedSplit ==
  ASSUME NEW F \in Forests, F # <<>>, NEW above \in Seq(Items)
  PROVE  /\ PartsOf(F, above) =
              PartsOf(Front(F), above) \cup OwnPart(Last(F), above)
                \cup PartsOf(Children[Last(F)], Append(above, Last(F)))
         /\ ClustersOf(F, above) =
              ClustersOf(Front(F), above) \cup OwnCluster(Last(F), above)
                \cup ClustersOf(Children[Last(F)], Append(above, Last(F)))
PROOF
  <1> DEFINE st == LastStride(F)
             x == Last(F)
             C == Children[Last(F)]
             G == Front(F)
             b == Append(above, x)
             PartPair(p, a) == <<Found(p).id, PartOf(p, a)>>
             ClusterPair(p, a) == <<Found(p).id, ClusterOf(p, a)>>
  <1>1. \A p : p \in Paths[F] <=>
          \/ p \in Paths[G] \/ p = <<st>> \/ \E q \in Paths[C] : p = <<st>> \o q
    BY PathsSplit, SMTT(30)
  <1>2. Len(<<st>>) = 1 /\ Found(<<st>>) = x /\ <<st>>[1].item = x
    BY LastTree, PathsSplit
  <1>3. \A q \in Paths[C] : /\ Found(<<st>> \o q) = Found(q)
                            /\ PartPair(<<st>> \o q, above) = PartPair(q, b)
                            /\ ClusterPair(<<st>> \o q, above) = ClusterPair(q, b)
    BY LastTree, RelatedBelow
  <1>4. \A z : /\ z \in OwnPart(x, above) <=> x.name = "node" /\ z = PartPair(<<st>>, above)
               /\ z \in OwnCluster(x, above) <=> x.name = "node" /\ z = ClusterPair(<<st>>, above)
    BY <1>2 DEF OwnPart, OwnCluster, PartOf, ClusterOf
  <1>5. \A H, a, z : /\ z \in PartsOf(H, a) <=>
                          \E p \in Paths[H] : Found(p).name = "node" /\ z = PartPair(p, a)
                     /\ z \in ClustersOf(H, a) <=>
                          \E p \in Paths[H] : Found(p).name = "node" /\ z = ClusterPair(p, a)
    BY DEF PartsOf, ClustersOf, NodesIn
  <1> HIDE DEF st, x, C, G, b, PartPair, ClusterPair
  <1>6. ASSUME NEW z
        PROVE  z \in PartsOf(F, above) <=>
                 z \in PartsOf(G, above) \cup OwnPart(x, above) \cup PartsOf(C, b)
    <2> DEFINE P(p) == Found(p).name = "node" /\ z = PartPair(p, above)
    <2>1. z \in PartsOf(F, above) <=> \E p \in Paths[F] : P(p) BY <1>5
    <2>2. z \in PartsOf(G, above) <=> \E p \in Paths[G] : P(p) BY <1>5
    <2>3. z \in OwnPart(x, above) <=> P(<<st>>) BY <1>2, <1>4
    <2>4. z \in PartsOf(C, b) <=> \E q \in Paths[C] : P(<<st>> \o q) BY <1>3, <1>5
    <2> HIDE DEF P
    <2>5. (\E p \in Paths[F] : P(p)) <=>
            (\E p \in Paths[G] : P(p)) \/ P(<<st>>) \/ (\E q \in Paths[C] : P(<<st>> \o q))
      BY <1>1
    <2>6. QED BY <2>1, <2>2, <2>3, <2>4, <2>5
  <1>7. ASSUME NEW z
        PROVE  z \in ClustersOf(F, above) <=>
                 z \in ClustersOf(G, above) \cup OwnCluster(x, above) \cup ClustersOf(C, b)
    <2> DEFINE P(p) == Found(p).name = "node" /\ z = ClusterPair(p, above)
    <2>1. z \in ClustersOf(F, above) <=> \E p \in Paths[F] : P(p) BY <1>5
    <2>2. z \in ClustersOf(G, above) <=> \E p \in Paths[G] : P(p) BY <1>5
    <2>3. z \in OwnCluster(x, above) <=> P(<<st>>) BY <1>2, <1>4
    <2>4. z \in ClustersOf(C, b) <=> \E q \in Paths[C] : P(<<st>> \o q) BY <1>3, <1>5
    <2> HIDE DEF P
    <2>5. (\E p \in Paths[F] : P(p)) <=>
            (\E p \in Paths[G] : P(p)) \/ P(<<st>>) \/ (\E q \in Paths[C] : P(<<st>> \o q))
      BY <1>1
    <2>6. QED BY <2>1, <2>2, <2>3, <2>4, <2>5
  <1>8. PartsOf(F, above) = PartsOf(G, above) \cup OwnPart(x, above) \cup PartsOf(C, b)
    BY <1>6
  <1>9. ClustersOf(F, above) = ClustersOf(G, above) \cup OwnCluster(x, above) \cup ClustersOf(C, b)
    BY <1>7
  <1>10. QED BY <1>8, <1>9 DEF x, C, G, b

\* A node has nothing in it.
LEMMA NothingBelow ==
  ASSUME NEW above
  PROVE  /\ \A deep, info : FineBelow(<<>>, deep, info)
         /\ Keys(<<>>) = {} /\ Once(<<>>)
         /\ PartsOf(<<>>, above) = {} /\ ClustersOf(<<>>, above) = {}
PROOF
  BY NoPaths DEF FineBelow, Keys, Once, PartsOf, ClustersOf, NodesIn

-----------------------------------------------------------------------------
\* What is found in a forest

\* What Relations() is defined to be.
ParsedHere(call, info, parsed) ==
  IF call.items = <<>> THEN call.rh
  ELSE LET item == Last(call.items)
           name == TakenFor(item, call.above)
           before == parsed[Call(Front(call.items), call.above, call.rh)]
           inside == parsed[Call(Children[item], Append(call.above, item),
                                 Meet(item, name, info, before))]
       IN  CASE name = "node" -> ParseNode(item, call.above, info, before)
             [] name = "partition" -> PartParsed(item, call.above, inside)
             [] name = "cluster" -> inside
FoundBy(info) == CHOOSE f : f = [call \in Calls |-> ParsedHere(call, info, f)]

\* It begins at the root.
LEMMA RelationsAre ==
  ASSUME NEW info
  PROVE  Relations(info) = FoundBy(info)[Call(Root(info), <<>>, NothingMet)]
PROOF
  BY DEF Relations, FoundBy, ParsedHere

\* The calls that a call may depend on.
Earlier == {p \in Calls \X Calls : <<p[1].items, p[2].items>> \in Before}

\* Calls and their fields
LEMMA CallIs ==
  ASSUME NEW F \in Forests, NEW above \in Seq(Items), NEW rh \in Sofars
  PROVE  /\ Call(F, above, rh) \in Calls /\ Call(F, above, rh).items = F
         /\ Call(F, above, rh).above = above /\ Call(F, above, rh).rh = rh
PROOF
  BY DEF Call, Calls, Forests

LEMMA CallFields ==
  ASSUME NEW call \in Calls
  PROVE  /\ call.items \in Forests /\ call.above \in Seq(Items) /\ call.rh \in Sofars
         /\ call = Call(call.items, call.above, call.rh)
PROOF
  BY DEF Call, Calls, Forests

\* No call goes on without end.
LEMMA CallsInduce == Induces(Earlier, Calls)
PROOF
  <1> SUFFICES ASSUME NEW S \in SUBSET Calls,
                      \A x \in Calls : (\A y \in Calls : <<y, x>> \in Earlier => y \in S) => x \in S
               PROVE  S = Calls
    BY DEF Induces
  <1> DEFINE T == {F \in Forests : \A above \in Seq(Items) : \A rh \in Sofars :
                                     Call(F, above, rh) \in S}
  <1>1. ASSUME NEW F \in Forests, \A G \in Forests : <<G, F>> \in Before => G \in T
        PROVE  F \in T
    <2>1. SUFFICES ASSUME NEW above \in Seq(Items), NEW rh \in Sofars
                   PROVE  Call(F, above, rh) \in S
      OBVIOUS
    <2> DEFINE x == Call(F, above, rh)
    <2>2. x \in Calls /\ x.items = F BY CallIs
    <2>3. ASSUME NEW y \in Calls, <<y, x>> \in Earlier PROVE y \in S
      <3>1. <<y.items, F>> \in Before BY <2>2, <2>3 DEF Earlier
      <3>2. y.items \in Forests BY CallFields
      <3>3. y.items \in T BY <1>1, <3>1, <3>2
      <3>4. Call(y.items, y.above, y.rh) \in S BY <3>3, CallFields
      <3>5. QED BY <3>4, CallFields
    <2> HIDE DEF x
    <2>4. x \in S BY <2>2, <2>3
    <2>5. QED BY <2>4 DEF x
  <1>2. T = Forests
    <2>1. T \in SUBSET Forests OBVIOUS
    <2> HIDE DEF T
    <2>2. QED BY <1>1, <2>1, ForestsInduce DEF Induces
  <1>3. ASSUME NEW x \in Calls PROVE x \in S
    <2>1. x.items \in T /\ x.above \in Seq(Items) /\ x.rh \in Sofars BY <1>2, CallFields
    <2>2. Call(x.items, x.above, x.rh) \in S BY <2>1
    <2>3. QED BY <2>2, CallFields
  <1>4. QED BY <1>3

-----------------------------------------------------------------------------
\* An item

\* What an item is taken for, by how many items are above it.
LEMMA TakenForIs ==
  ASSUME NEW x, NEW above \in Seq(Items)
  PROVE  /\ TakenFor(x, above) \in {"cluster", "partition", "node"}
         /\ Len(above) \in Nat
         /\ Len(above) = 0 => TakenFor(x, above) = "cluster"
         /\ Len(above) = 1 => TakenFor(x, above) = "partition"
         /\ Len(above) >= 2 =>
              TakenFor(x, above) = IF x.name = "partition" THEN "partition" ELSE "node"
PROOF
  <1>1. Len(above) \in Nat OBVIOUS
  <1>2. ASSUME Len(above) = 0 PROVE TakenFor(x, above) = "cluster" BY <1>2 DEF TakenFor
  <1>3. ASSUME Len(above) = 1 PROVE TakenFor(x, above) = "partition" BY <1>3 DEF TakenFor
  <1>4. ASSUME Len(above) >= 2
        PROVE  TakenFor(x, above) = IF x.name = "partition" THEN "partition" ELSE "node"
    <2>1. Len(above) # 0 /\ Len(above) # 1 BY <1>1, <1>4
    <2>2. QED BY <2>1 DEF TakenFor
  <1>5. Len(above) = 0 \/ Len(above) = 1 \/ Len(above) >= 2
    <2>1. \A n \in Nat : n = 0 \/ n = 1 \/ n >= 2 OBVIOUS
    <2>2. QED BY <1>1, <2>1
  <1>6. QED BY <1>1, <1>2, <1>3, <1>4, <1>5

\* What check_rh_and_extract_item(), parse_node() and parse_part() change.
LEMMA MeetIs ==
  ASSUME NEW x \in Items, NEW name \in {"cluster", "partition", "node"}, NEW info,
         NEW rh \in Sofars
  PROVE  /\ Meet(x, name, info, rh) \in Sofars
         /\ Meet(x, name, info, rh).ok <=> rh.ok /\ Extracts(x, name, info, rh)
         /\ Meet(x, name, info, rh).met = rh.met \cup {<<name, x.id>>}
         /\ Meet(x, name, info, rh).nodes_to_parts = rh.nodes_to_parts
         /\ Meet(x, name, info, rh).nodes_to_clusters = rh.nodes_to_clusters
         /\ Meet(x, name, info, rh).parts_to_clusters = rh.parts_to_clusters
PROOF
  <1>1. Extracts(x, name, info, rh) \in BOOLEAN BY DEF Extracts
  <1>2. <<name, x.id>> \in Met BY DEF Met, ItemIds
  <1> DEFINE b == rh.ok /\ Extracts(x, name, info, rh)
             m == rh.met \cup {<<name, x.id>>}
  <1>3. b \in BOOLEAN BY <1>1
  <1>4. m \in SUBSET Met BY <1>2 DEF Sofars
  <1>5. Meet(x, name, info, rh) = [rh EXCEPT !.ok = b, !.met = m] BY DEF Meet
  <1> HIDE DEF b, m
  <1>6. /\ [rh EXCEPT !.ok = b, !.met = m] \in Sofars
        /\ [rh EXCEPT !.ok = b, !.met = m].ok = b
        /\ [rh EXCEPT !.ok = b, !.met = m].met = m
        /\ [rh EXCEPT !.ok = b, !.met = m].nodes_to_parts = rh.nodes_to_parts
        /\ [rh EXCEPT !.ok = b, !.met = m].nodes_to_clusters = rh.nodes_to_clusters
        /\ [rh EXCEPT !.ok = b, !.met = m].parts_to_clusters = rh.parts_to_clusters
    BY <1>3, <1>4 DEF Sofars
  <1>7. QED BY <1>5, <1>6 DEF b, m

LEMMA ParseNodeIs ==
  ASSUME NEW x \in Items, NEW above \in Seq(Items), above # <<>>, NEW info, NEW rh \in Sofars
  PROVE  /\ ParseNode(x, above, info, rh) \in Sofars
         /\ ParseNode(x, above, info, rh).ok
              <=> rh.ok /\ Extracts(x, "node", info, rh) /\ Children[x] = <<>>
         /\ ParseNode(x, above, info, rh).met = rh.met \cup {<<"node", x.id>>}
         /\ ParseNode(x, above, info, rh).nodes_to_parts
              = rh.nodes_to_parts \cup {<<x.id, Last(above).id>>}
         /\ ParseNode(x, above, info, rh).nodes_to_clusters
              = rh.nodes_to_clusters \cup {<<x.id, above[1].id>>}
PROOF
  <1> DEFINE m == Meet(x, "node", info, rh)
             b == m.ok /\ Children[x] = <<>>
             p == m.nodes_to_parts \cup {<<x.id, Last(above).id>>}
             c == m.nodes_to_clusters \cup {<<x.id, above[1].id>>}
  <1>1. /\ m \in Sofars
        /\ m.ok <=> rh.ok /\ Extracts(x, "node", info, rh)
        /\ m.met = rh.met \cup {<<"node", x.id>>}
        /\ m.nodes_to_parts = rh.nodes_to_parts /\ m.nodes_to_clusters = rh.nodes_to_clusters
    BY MeetIs
  <1>2. Last(above) \in Items /\ above[1] \in Items
    <2>1. Len(above) \in Nat /\ Len(above) >= 1 OBVIOUS
    <2>2. Last(above) = above[Len(above)] BY DEF Last
    <2>3. QED BY <2>1, <2>2
  <1>3. <<x.id, Last(above).id>> \in Pairs /\ <<x.id, above[1].id>> \in Pairs
    BY <1>2 DEF Pairs, ItemIds
  <1> HIDE DEF m
  <1>4. b \in BOOLEAN /\ p \in SUBSET Pairs /\ c \in SUBSET Pairs BY <1>1, <1>3 DEF Sofars
  <1>5. ParseNode(x, above, info, rh)
          = [m EXCEPT !.ok = b, !.nodes_to_parts = p, !.nodes_to_clusters = c]
    BY DEF ParseNode, m
  <1>6. b <=> rh.ok /\ Extracts(x, "node", info, rh) /\ Children[x] = <<>> BY <1>1
  <1>7. /\ p = rh.nodes_to_parts \cup {<<x.id, Last(above).id>>}
        /\ c = rh.nodes_to_clusters \cup {<<x.id, above[1].id>>}
    BY <1>1
  <1> HIDE DEF b, p, c
  <1> DEFINE r == [m EXCEPT !.ok = b, !.nodes_to_parts = p, !.nodes_to_clusters = c]
  <1>8. /\ r \in Sofars /\ r.ok = b /\ r.met = m.met
        /\ r.nodes_to_parts = p /\ r.nodes_to_clusters = c
    BY <1>1, <1>4 DEF Sofars
  <1> HIDE DEF r
  <1>9. QED BY <1>1, <1>5, <1>6, <1>7, <1>8 DEF r

LEMMA PartParsedIs ==
  ASSUME NEW x \in Items, NEW above \in Seq(Items), above # <<>>, NEW rh \in Sofars
  PROVE  /\ PartParsed(x, above, rh) \in Sofars
         /\ PartParsed(x, above, rh).ok = rh.ok /\ PartParsed(x, above, rh).met = rh.met
         /\ PartParsed(x, above, rh).nodes_to_parts = rh.nodes_to_parts
         /\ PartParsed(x, above, rh).nodes_to_clusters = rh.nodes_to_clusters
PROOF
  <1>1. above[1] \in Items
    <2>1. Len(above) \in Nat /\ Len(above) >= 1 OBVIOUS
    <2>2. QED BY <2>1
  <1> DEFINE c == rh.parts_to_clusters \cup {<<x.id, above[1].id>>}
  <1>2. <<x.id, above[1].id>> \in Pairs BY <1>1 DEF Pairs, ItemIds
  <1>3. c \in SUBSET Pairs BY <1>2 DEF Sofars
  <1>4. PartParsed(x, above, rh) = [rh EXCEPT !.parts_to_clusters = c] BY DEF PartParsed
  <1> HIDE DEF c
  <1>5. QED BY <1>3, <1>4 DEF Sofars

-----------------------------------------------------------------------------
\* The walk through a forest

\* The calls that a call makes.
Name(call) == TakenFor(Last(call.items), call.above)
FirstCall(call) == Call(Front(call.items), call.above, call.rh)
InnerCall(call, info, before) ==
  Call(Children[Last(call.items)], Append(call.above, Last(call.items)),
       Meet(Last(call.items), Name(call), info, before))

\* They are calls, and earlier.
LEMMA CallsOf ==
  ASSUME NEW info, NEW call \in Calls, call.items # <<>>, NEW before \in Sofars
  PROVE  /\ FirstCall(call) \in Calls /\ <<FirstCall(call), call>> \in Earlier
         /\ InnerCall(call, info, before) \in Calls
         /\ <<InnerCall(call, info, before), call>> \in Earlier
         /\ Last(call.items) \in Items /\ Front(call.items) \in Forests
         /\ Children[Last(call.items)] \in Forests
         /\ Append(call.above, Last(call.items)) \in Seq(Items)
         /\ Meet(Last(call.items), Name(call), info, before) \in Sofars
PROOF
  <1> DEFINE F == call.items
             x == Last(F)
             C == Children[x]
             b == Append(call.above, x)
             m == Meet(x, Name(call), info, before)
  <1>1. F \in Forests /\ call.above \in Seq(Items) /\ call.rh \in Sofars BY CallFields
  <1>2. x \in Items /\ Front(F) \in Forests /\ Len(F) \in DOMAIN F /\ x = F[Len(F)]
    BY <1>1, FrontIs DEF Forests
  <1>3. C \in Forests /\ <<C, F>> \in Before /\ <<Front(F), F>> \in Before BY <1>1, <1>2, BeforeIs
  <1>4. b \in Seq(Items) BY <1>1, <1>2, AppendIs
  <1>5. m \in Sofars BY <1>1, <1>2, MeetIs, TakenForIs DEF Name
  <1> HIDE DEF F, x, C, b, m
  <1>6. /\ Call(Front(F), call.above, call.rh) \in Calls
        /\ Call(Front(F), call.above, call.rh).items = Front(F)
    BY <1>1, <1>2, CallIs
  <1>7. Call(C, b, m) \in Calls /\ Call(C, b, m).items = C BY <1>3, <1>4, <1>5, CallIs
  <1>8. <<Call(Front(F), call.above, call.rh), call>> \in Earlier BY <1>3, <1>6 DEF Earlier, F
  <1>9. <<Call(C, b, m), call>> \in Earlier BY <1>3, <1>7 DEF Earlier, F
  <1>10. /\ FirstCall(call) = Call(Front(F), call.above, call.rh)
         /\ InnerCall(call, info, before) = Call(C, b, m)
    BY DEF FirstCall, InnerCall, F, x, C, b, m
  <1>11. QED BY <1>2, <1>3, <1>4, <1>5, <1>6, <1>7, <1>8, <1>9, <1>10 DEF F, x, C, b, m

\* What a call returns, by what those return.
LEMMA CallReturns ==
  ASSUME NEW info, NEW call \in Calls, NEW f
  PROVE  /\ call.items = <<>> => ParsedHere(call, info, f) = call.rh
         /\ call.items # <<>> =>
              /\ Name(call) = "node" =>
                   ParsedHere(call, info, f)
                     = ParseNode(Last(call.items), call.above, info, f[FirstCall(call)])
              /\ Name(call) = "partition" =>
                   ParsedHere(call, info, f)
                     = PartParsed(Last(call.items), call.above,
                                  f[InnerCall(call, info, f[FirstCall(call)])])
              /\ Name(call) = "cluster" =>
                   ParsedHere(call, info, f) = f[InnerCall(call, info, f[FirstCall(call)])]
PROOF
  BY DEF ParsedHere, Name, FirstCall, InnerCall

\* What the last item of a call is taken for.
LEMMA NameIs ==
  ASSUME NEW call \in Calls
  PROVE  /\ Name(call) \in {"cluster", "partition", "node"}
         /\ Len(call.above) \in Nat
         /\ Name(call) = "cluster" => call.above = <<>>
         /\ Name(call) = "partition" =>
              /\ call.above # <<>>
              /\ Len(call.above) = 1 \/ Last(call.items).name = "partition"
         /\ Name(call) = "node" =>
              /\ call.above # <<>> /\ Len(call.above) >= 2
              /\ Last(call.items).name # "partition"
PROOF
  <1>1. call.above \in Seq(Items) BY CallFields
  <1> DEFINE a == call.above
             x == Last(call.items)
             n == Len(a)
  <1>2. /\ n \in Nat
        /\ Name(call) \in {"cluster", "partition", "node"}
        /\ n = 0 => Name(call) = "cluster"
        /\ n = 1 => Name(call) = "partition"
        /\ n >= 2 => Name(call) = IF x.name = "partition" THEN "partition" ELSE "node"
    BY <1>1, TakenForIs DEF Name
  <1>3. a = <<>> <=> n = 0 BY <1>1
  <1>4. n = 0 \/ n = 1 \/ n >= 2
    <2>1. \A k \in Nat : k = 0 \/ k = 1 \/ k >= 2 OBVIOUS
    <2>2. QED BY <1>2, <2>1
  <1> HIDE DEF a, x, n
  <1>5. CASE n = 0 BY <1>2, <1>3, <1>5 DEF a, x, n
  <1>6. CASE n = 1 BY <1>2, <1>3, <1>6 DEF a, x, n
  <1>7. CASE n >= 2 BY <1>2, <1>3, <1>7 DEF a, x, n
  <1>8. QED BY <1>4, <1>5, <1>6, <1>7

\* There is a function that returns this for every call: the walk ends.
LEMMA FoundIs ==
  ASSUME NEW info
  PROVE  /\ FoundBy(info) \in [Calls -> Sofars]
         /\ \A call \in Calls : FoundBy(info)[call] = ParsedHere(call, info, FoundBy(info))
PROOF
  <1> DEFINE D == Calls
             V == Sofars
             v0 == NothingMet
             Fs == [D -> V]
             steps == [p \in D \X Fs |-> ParsedHere(p[1], info, p[2])]
             found == FoundBy(info)
  <1>1. ASSUME NEW call \in D, NEW g,
               \A c \in D : <<c, call>> \in Earlier => g[c] \in V
        PROVE  ParsedHere(call, info, g) \in V
    <2>1. CASE call.items = <<>> BY <2>1, CallReturns, CallFields
    <2>2. CASE call.items # <<>>
      <3> DEFINE before == g[FirstCall(call)]
                 inside == g[InnerCall(call, info, before)]
      <3>0. v0 \in V BY DEF NothingMet, Sofars
      <3>1. before \in Sofars BY <1>1, <2>2, <3>0, CallsOf
      <3>2. inside \in Sofars BY <1>1, <2>2, <3>1, CallsOf
      <3>3. Last(call.items) \in Items /\ call.above \in Seq(Items)
        BY <2>2, <3>0, CallsOf, CallFields
      <3>4. CASE Name(call) = "node"
        BY <2>2, <3>1, <3>3, <3>4, CallReturns, NameIs, ParseNodeIs
      <3>5. CASE Name(call) = "partition"
        BY <2>2, <3>2, <3>3, <3>5, CallReturns, NameIs, PartParsedIs
      <3>6. CASE Name(call) = "cluster" BY <2>2, <3>2, <3>6, CallReturns
      <3>7. QED BY <3>4, <3>5, <3>6, NameIs
    <2>3. QED BY <2>1, <2>2
  <1>2. ASSUME NEW call \in D, NEW g \in Fs, NEW h \in Fs,
               \A c \in D : <<c, call>> \in Earlier => g[c] = h[c]
        PROVE  ParsedHere(call, info, g) = ParsedHere(call, info, h)
    <2>1. CASE call.items = <<>> BY <2>1, CallReturns
    <2>2. CASE call.items # <<>>
      <3>0. v0 \in V BY DEF NothingMet, Sofars
      <3>1. FirstCall(call) \in D /\ g[FirstCall(call)] = h[FirstCall(call)]
        BY <1>2, <2>2, <3>0, CallsOf
      <3> DEFINE before == g[FirstCall(call)]
      <3>2. before \in Sofars BY <3>1
      <3>3. g[InnerCall(call, info, before)] = h[InnerCall(call, info, before)]
        BY <1>2, <2>2, <3>2, CallsOf
      <3> DEFINE inside == g[InnerCall(call, info, before)]
      <3>4. /\ h[FirstCall(call)] = before
            /\ h[InnerCall(call, info, h[FirstCall(call)])] = inside
        BY <3>1, <3>3
      <3> HIDE DEF before, inside
      <3>5. CASE Name(call) = "node" BY <2>2, <3>4, <3>5, CallReturns DEF before
      <3>6. CASE Name(call) = "partition" BY <2>2, <3>4, <3>6, CallReturns DEF before, inside
      <3>7. CASE Name(call) = "cluster" BY <2>2, <3>4, <3>7, CallReturns DEF before, inside
      <3>8. QED BY <3>5, <3>6, <3>7, NameIs
    <2>3. QED BY <2>1, <2>2
  <1>3. \A call \in D, g \in Fs : steps[<<call, g>>] = ParsedHere(call, info, g) OBVIOUS
  <1>4. steps \in [D \X Fs -> V]
    <2>1. \A call \in D, g \in Fs : ParsedHere(call, info, g) \in V BY <1>1
    <2> HIDE DEF D, V
    <2>2. QED BY <2>1
  <1>5. Respects(steps, Earlier, D, V) BY <1>2, <1>3, <1>4 DEF Respects
  <1>6. Induces(Earlier, D) /\ v0 \in V BY CallsInduce DEF NothingMet, Sofars
  <1>7. PICK f \in [D -> V] : \A x \in D : f[x] = steps[<<x, f>>]
    <2> HIDE DEF steps, D, V, v0
    <2>1. QED BY <1>5, <1>6, RecursiveFunction
  <1>8. f = [call \in Calls |-> ParsedHere(call, info, f)] BY <1>3, <1>7
  <1>9. found = [call \in Calls |-> ParsedHere(call, info, found)] BY <1>8 DEF FoundBy
  <1> HIDE DEF found
  <1>10. \A call \in Calls : found[call] = ParsedHere(call, info, found) BY <1>9
  <1>11. \A call \in Calls : found[call] \in V
    <2> DEFINE S == {call \in Calls : found[call] \in V}
    <2>1. ASSUME NEW call \in Calls, \A c \in Calls : <<c, call>> \in Earlier => c \in S
          PROVE  call \in S
      BY <1>1, <1>10, <2>1
    <2>2. S \in SUBSET Calls OBVIOUS
    <2>3. S = Calls
      <3> HIDE DEF S
      <3>1. QED BY <2>1, <2>2, CallsInduce DEF Induces
    <2>4. QED BY <2>3
  <1>12. found \in [Calls -> V]
    <2> HIDE DEF V
    <2>1. QED BY <1>9, <1>11
  <1>13. QED BY <1>10, <1>12 DEF found

\* What a call adds to what it is called with.
Adds(call, r, info) ==
  /\ r.ok => FineBelow(call.items, Len(call.above), info)
  /\ FineBelow(call.items, Len(call.above), info) =>
       /\ r.ok <=> call.rh.ok /\ Once(call.items) /\ Keys(call.items) \cap call.rh.met = {}
       /\ r.met = call.rh.met \cup Keys(call.items)
       /\ r.nodes_to_parts = call.rh.nodes_to_parts \cup PartsOf(call.items, call.above)
       /\ r.nodes_to_clusters = call.rh.nodes_to_clusters \cup ClustersOf(call.items, call.above)

\* An item is met before what is in it, and after what comes before it.
LEMMA MetOnce ==
  ASSUME NEW old, NEW front, NEW below, NEW k
  PROVE  /\ front \cap old = {} /\ k \notin old \cup front
         /\ below \cap ((old \cup front) \cup {k}) = {}
         <=> /\ k \notin front \cup below /\ front \cap below = {}
             /\ ((front \cup {k}) \cup below) \cap old = {}
PROOF
  OBVIOUS

\* An item that is taken for what it is, is in its place.
LEMMA ExtractsIs ==
  ASSUME NEW call \in Calls, call.items # <<>>, NEW info, NEW rh
  PROVE  LET x == Last(call.items)
             placed == PlacedAt(x, Len(call.above) + 1, info)
         IN  /\ placed => x.name = Name(call) /\ KeyOf(x) = <<Name(call), x.id>>
             /\ Name(call) # "node" =>
                  Extracts(x, Name(call), info, rh) <=> placed /\ KeyOf(x) \notin rh.met
             /\ Name(call) = "node" =>
                  Extracts(x, "node", info, rh) /\ Children[x] = <<>>
                    <=> placed /\ KeyOf(x) \notin rh.met
PROOF
  <1> DEFINE x == Last(call.items)
             nm == Name(call)
             d == Len(call.above)
             placed == PlacedAt(x, d + 1, info)
  <1>1. /\ nm \in {"cluster", "partition", "node"} /\ d \in Nat
        /\ nm = "cluster" => d = 0
        /\ nm = "partition" => d >= 1 /\ (d = 1 \/ x.name = "partition")
        /\ nm = "node" => d >= 2 /\ x.name # "partition"
    <2>1. call.above \in Seq(Items) BY CallFields
    <2>2. /\ call.above = <<>> => d = 0
          /\ call.above # <<>> => d >= 1
      BY <2>1
    <2> HIDE DEF d, x
    <2>3. QED BY <2>2, NameIs DEF d, x
  <1> DEFINE known == x.id \in Known(info, x.name)
             leaf == Children[x] = <<>>
  <1>2. placed <=> /\ x.name = nm /\ known
                   /\ nm = "node" => leaf
    <2> HIDE DEF nm, d
    <2>1. CASE nm = "cluster"
      <3>1. d + 1 = 1 BY <1>1, <2>1
      <3>2. placed <=> x.name = "cluster" /\ known /\ (x.name = "node" => leaf)
        BY <3>1 DEF PlacedAt
      <3> HIDE DEF placed, x, known, leaf
      <3>3. QED BY <2>1, <3>2
    <2>2. CASE nm = "partition" /\ d = 1
      <3>1. d + 1 = 2 BY <2>2
      <3>2. placed <=> x.name = "partition" /\ known /\ (x.name = "node" => leaf)
        BY <3>1 DEF PlacedAt
      <3> HIDE DEF placed, x, known, leaf
      <3>3. QED BY <2>2, <3>2
    <2>3. CASE d >= 2
      <3>1. d + 1 # 1 /\ d + 1 # 2 BY <1>1, <2>3
      <3>2. placed <=> x.name \in {"partition", "node"} /\ known /\ (x.name = "node" => leaf)
        BY <3>1 DEF PlacedAt
      <3>3. nm # "cluster" /\ d # 1 BY <1>1, <2>3
      <3> HIDE DEF placed, x, known, leaf
      <3>4. QED BY <1>1, <3>2, <3>3
    <2>4. QED
      <3>1. nm = "partition" => d = 1 \/ d >= 2 BY <1>1
      <3>2. QED BY <1>1, <2>1, <2>2, <2>3, <3>1
  <1>3. x.name = nm => KeyOf(x) = <<nm, x.id>> BY DEF KeyOf
  <1>4. Extracts(x, nm, info, rh) <=>
          x.id \in Known(info, nm) /\ x.name = nm /\ <<nm, x.id>> \notin rh.met
    BY DEF Extracts, Unmet
  <1>5. Extracts(x, nm, info, rh) <=> known /\ x.name = nm /\ KeyOf(x) \notin rh.met
    BY <1>3, <1>4
  <1> HIDE DEF x, nm, d, placed, known, leaf
  <1>6. nm # "node" => (Extracts(x, nm, info, rh) <=> placed /\ KeyOf(x) \notin rh.met)
    BY <1>2, <1>5
  <1>7. nm = "node" =>
          (Extracts(x, nm, info, rh) /\ leaf <=> placed /\ KeyOf(x) \notin rh.met)
    BY <1>2, <1>5
  <1>8. placed => x.name = nm /\ KeyOf(x) = <<nm, x.id>> BY <1>2, <1>3
  <1>9. QED BY <1>6, <1>7, <1>8 DEF x, nm, d, placed, leaf

\* A call adds what its two calls add, and the item itself.
LEMMA AddsHere ==
  ASSUME NEW info, NEW call \in Calls, call.items # <<>>, NEW f \in [Calls -> Sofars],
         Adds(FirstCall(call), f[FirstCall(call)], info),
         Adds(InnerCall(call, info, f[FirstCall(call)]),
              f[InnerCall(call, info, f[FirstCall(call)])], info)
  PROVE  Adds(call, ParsedHere(call, info, f), info)
PROOF
  <1> DEFINE F == call.items
             above == call.above
             s == call.rh
             d == Len(above)
             x == Last(F)
             G == Front(F)
             C == Children[x]
             b == Append(above, x)
             before == f[FirstCall(call)]
             m == Meet(x, Name(call), info, before)
             inside == f[InnerCall(call, info, before)]
             r == ParsedHere(call, info, f)
             k == KeyOf(x)
             placed == PlacedAt(x, d + 1, info)
             FineG == FineBelow(G, d, info)
             FineC == FineBelow(C, d + 1, info)
             FineF == FineBelow(F, d, info)
  <1>1. F \in Forests /\ above \in Seq(Items) /\ s \in Sofars /\ d \in Nat BY CallFields, NameIs
  <1>2. before \in Sofars
    <2>1. NothingMet \in Sofars BY DEF NothingMet, Sofars
    <2>2. QED BY <2>1, CallsOf
  <1>3. /\ inside \in Sofars /\ m \in Sofars /\ x \in Items /\ G \in Forests
        /\ C \in Forests /\ b \in Seq(Items)
    BY <1>2, CallsOf
  <1>4. /\ before.ok => FineG
        /\ FineG =>
             /\ before.ok <=> s.ok /\ Once(G) /\ Keys(G) \cap s.met = {}
             /\ before.met = s.met \cup Keys(G)
             /\ before.nodes_to_parts = s.nodes_to_parts \cup PartsOf(G, above)
             /\ before.nodes_to_clusters = s.nodes_to_clusters \cup ClustersOf(G, above)
    <2>1. FirstCall(call).items = G /\ FirstCall(call).above = above /\ FirstCall(call).rh = s
      <3>1. FirstCall(call) = Call(G, above, s) BY DEF FirstCall
      <3> HIDE DEF G, above, s
      <3>2. QED BY <1>1, <1>3, <3>1, CallIs
    <2> HIDE DEF G, above, s, before
    <2>2. Adds(FirstCall(call), before, info) BY DEF before
    <2>3. QED BY <2>1, <2>2 DEF Adds
  <1>5. Len(b) = d + 1 BY <1>1, <1>3, AppendIs
  <1>6. /\ inside.ok => FineC
        /\ FineC =>
             /\ inside.ok <=> m.ok /\ Once(C) /\ Keys(C) \cap m.met = {}
             /\ inside.met = m.met \cup Keys(C)
             /\ inside.nodes_to_parts = m.nodes_to_parts \cup PartsOf(C, b)
             /\ inside.nodes_to_clusters = m.nodes_to_clusters \cup ClustersOf(C, b)
    <2> DEFINE inner == InnerCall(call, info, before)
    <2>1. inner.items = C /\ inner.above = b /\ inner.rh = m
      <3>1. inner = Call(C, b, m) BY DEF InnerCall
      <3> HIDE DEF C, b, m, inner
      <3>2. QED BY <1>3, <3>1, CallIs
    <2>2. Adds(inner, inside, info) OBVIOUS
    <2> HIDE DEF C, b, m, inside, inner
    <2>3. QED BY <1>5, <2>1, <2>2 DEF Adds
  <1>7. /\ m.ok <=> before.ok /\ Extracts(x, Name(call), info, before)
        /\ m.met = before.met \cup {<<Name(call), x.id>>}
        /\ m.nodes_to_parts = before.nodes_to_parts
        /\ m.nodes_to_clusters = before.nodes_to_clusters
    BY <1>2, <1>3, NameIs, MeetIs
  <1>8. FineF <=> FineG /\ placed /\ FineC BY <1>1, FineSplit
  <1>9. Keys(F) = (Keys(G) \cup {k}) \cup Keys(C) BY <1>1, KeysSplit
  <1>10. Once(F) <=> /\ Once(G) /\ Once(C) /\ k \notin Keys(G) \cup Keys(C)
                     /\ Keys(G) \cap Keys(C) = {}
    BY <1>1, OnceSplit
  <1>11. /\ PartsOf(F, above) = PartsOf(G, above) \cup OwnPart(x, above) \cup PartsOf(C, b)
         /\ ClustersOf(F, above)
              = ClustersOf(G, above) \cup OwnCluster(x, above) \cup ClustersOf(C, b)
    BY <1>1, RelatedSplit
  <1>12. /\ placed => x.name = Name(call) /\ k = <<Name(call), x.id>>
         /\ Name(call) # "node" =>
              (Extracts(x, Name(call), info, before) <=> placed /\ k \notin before.met)
         /\ Name(call) = "node" =>
              (Extracts(x, "node", info, before) /\ C = <<>> <=> placed /\ k \notin before.met)
    BY ExtractsIs
  <1>13. SUFFICES
           /\ r.ok => FineF
           /\ FineF =>
                /\ r.ok <=> s.ok /\ Once(F) /\ Keys(F) \cap s.met = {}
                /\ r.met = s.met \cup Keys(F)
                /\ r.nodes_to_parts = s.nodes_to_parts \cup PartsOf(F, above)
                /\ r.nodes_to_clusters = s.nodes_to_clusters \cup ClustersOf(F, above)
    BY DEF Adds
  <1>14. CASE Name(call) # "node"
    <2>1. /\ r.ok = inside.ok /\ r.met = inside.met
          /\ r.nodes_to_parts = inside.nodes_to_parts
          /\ r.nodes_to_clusters = inside.nodes_to_clusters
      <3>1. CASE Name(call) = "partition"
        <4>1. r = PartParsed(x, above, inside) BY <3>1, CallReturns
        <4>2. above # <<>> BY <3>1, NameIs
        <4> HIDE DEF r, x, above, inside
        <4>3. QED BY <1>1, <1>3, <4>1, <4>2, PartParsedIs
      <3>2. CASE Name(call) = "cluster"
        <4>1. r = inside BY <3>2, CallReturns
        <4>2. QED BY <4>1
      <3>3. QED BY <1>14, <3>1, <3>2, NameIs
    <2> HIDE DEF F, above, s, d, x, G, C, b, before, m, inside, r, k, placed, FineG, FineC, FineF
    <2>2. r.ok => FineF BY <1>4, <1>6, <1>7, <1>8, <1>12, <1>14, <2>1
    <2>3. ASSUME FineF
          PROVE  r.ok <=> s.ok /\ Once(F) /\ Keys(F) \cap s.met = {}
      <3>1. m.met = (s.met \cup Keys(G)) \cup {k} BY <1>4, <1>7, <1>8, <1>12, <2>3
      <3>2. r.ok <=> /\ s.ok /\ Once(G) /\ Keys(G) \cap s.met = {}
                     /\ k \notin s.met \cup Keys(G)
                     /\ Once(C) /\ Keys(C) \cap ((s.met \cup Keys(G)) \cup {k}) = {}
        BY <1>4, <1>6, <1>7, <1>8, <1>12, <1>14, <2>1, <2>3, <3>1
      <3>3. QED BY <1>9, <1>10, <3>2, MetOnce
    <2>4. ASSUME FineF
          PROVE  r.met = s.met \cup Keys(F)
      BY <1>4, <1>6, <1>7, <1>8, <1>9, <1>12, <2>1, <2>4
    <2>5. ASSUME FineF
          PROVE  /\ r.nodes_to_parts = s.nodes_to_parts \cup PartsOf(F, above)
                 /\ r.nodes_to_clusters = s.nodes_to_clusters \cup ClustersOf(F, above)
      <3>1. OwnPart(x, above) = {} /\ OwnCluster(x, above) = {}
        BY <1>8, <1>12, <1>14, <2>5 DEF OwnPart, OwnCluster
      <3>2. QED BY <1>4, <1>6, <1>7, <1>8, <1>11, <2>1, <2>5, <3>1
    <2>6. QED BY <2>2, <2>3, <2>4, <2>5
  <1>15. CASE Name(call) = "node"
    <2>1. above # <<>> BY <1>15, NameIs
    <2>2. r = ParseNode(x, above, info, before) BY <1>15, CallReturns
    <2>3. /\ r.ok <=> before.ok /\ placed /\ k \notin before.met
          /\ r.met = before.met \cup {<<"node", x.id>>}
          /\ r.nodes_to_parts = before.nodes_to_parts \cup {<<x.id, Last(above).id>>}
          /\ r.nodes_to_clusters = before.nodes_to_clusters \cup {<<x.id, above[1].id>>}
      <3> HIDE DEF r, x, above, before
      <3>1. /\ r.ok <=> before.ok /\ Extracts(x, "node", info, before) /\ Children[x] = <<>>
            /\ r.met = before.met \cup {<<"node", x.id>>}
            /\ r.nodes_to_parts = before.nodes_to_parts \cup {<<x.id, Last(above).id>>}
            /\ r.nodes_to_clusters = before.nodes_to_clusters \cup {<<x.id, above[1].id>>}
        BY <1>1, <1>2, <1>3, <2>1, <2>2, ParseNodeIs
      <3> HIDE DEF k, placed
      <3>2. QED BY <1>12, <1>15, <3>1
    <2>4. placed => C = <<>>
      <3>1. placed => x.name = "node" BY <1>12, <1>15
      <3>2. QED BY <3>1 DEF PlacedAt
    <2> HIDE DEF F, above, s, d, x, G, C, b, before, m, inside, r, k, placed, FineF, FineG
    <2>5. placed => FineC /\ Once(C) /\ Keys(C) = {} /\ PartsOf(C, b) = {} /\ ClustersOf(C, b) = {}
      BY <2>4, NothingBelow
    <2> HIDE DEF FineC
    <2>6. r.ok => FineF BY <1>4, <1>8, <2>3, <2>5
    <2>7. ASSUME FineF
          PROVE  r.ok <=> s.ok /\ Once(F) /\ Keys(F) \cap s.met = {}
      <3>1. r.ok <=> /\ s.ok /\ Once(G) /\ Keys(G) \cap s.met = {}
                     /\ k \notin s.met \cup Keys(G)
        BY <1>4, <1>8, <2>3, <2>7
      <3>2. Once(F) /\ Keys(F) \cap s.met = {} <=>
              /\ Once(G) /\ k \notin Keys(G)
              /\ (Keys(G) \cup {k}) \cap s.met = {}
        BY <1>8, <1>9, <1>10, <2>5, <2>7
      <3>3. QED BY <3>1, <3>2
    <2>8. ASSUME FineF
          PROVE  r.met = s.met \cup Keys(F)
      BY <1>4, <1>8, <1>9, <1>12, <1>15, <2>3, <2>5, <2>8
    <2>9. ASSUME FineF
          PROVE  /\ r.nodes_to_parts = s.nodes_to_parts \cup PartsOf(F, above)
                 /\ r.nodes_to_clusters = s.nodes_to_clusters \cup ClustersOf(F, above)
      <3>1. x.name = "node" BY <1>8, <1>12, <1>15, <2>9
      <3>2. /\ OwnPart(x, above) = {<<x.id, Last(above).id>>}
            /\ OwnCluster(x, above) = {<<x.id, above[1].id>>}
        BY <2>1, <3>1 DEF OwnPart, OwnCluster
      <3>3. QED BY <1>4, <1>8, <1>11, <2>3, <2>5, <2>9, <3>2
    <2>10. QED BY <2>6, <2>7, <2>8, <2>9
  <1>16. QED BY <1>14, <1>15

\* So does every call, by induction.
LEMMA FoundAdds ==
  ASSUME NEW info
  PROVE  \A call \in Calls : Adds(call, FoundBy(info)[call], info)
PROOF
  <1> DEFINE f == FoundBy(info)
             S == {call \in Calls : Adds(call, f[call], info)}
  <1>1. f \in [Calls -> Sofars] /\ \A call \in Calls : f[call] = ParsedHere(call, info, f)
    BY FoundIs
  <1> HIDE DEF f
  <1>2. ASSUME NEW call \in Calls, \A c \in Calls : <<c, call>> \in Earlier => c \in S
        PROVE  call \in S
    <2>1. CASE call.items = <<>>
      <3>1. f[call] = call.rh BY <1>1, <2>1, CallReturns
      <3>2. QED BY <2>1, <3>1, NothingBelow DEF Adds
    <2>2. CASE call.items # <<>>
      <3>1. NothingMet \in Sofars BY DEF NothingMet, Sofars
      <3>2. FirstCall(call) \in S /\ f[FirstCall(call)] \in Sofars
        BY <1>1, <1>2, <2>2, <3>1, CallsOf
      <3>3. InnerCall(call, info, f[FirstCall(call)]) \in S BY <1>2, <2>2, <3>2, CallsOf
      <3>4. Adds(call, ParsedHere(call, info, f), info)
        BY <1>1, <2>2, <3>2, <3>3, AddsHere
      <3>5. QED BY <1>1, <3>4
    <2>3. QED BY <2>1, <2>2
  <1>3. S \in SUBSET Calls OBVIOUS
  <1>4. S = Calls
    <2> HIDE DEF S
    <2>1. QED BY <1>2, <1>3, CallsInduce DEF Induces
  <1>5. QED BY <1>4 DEF f

\* What is found in a hierarchy and its tree, as RelationsAgree says.
Agrees(info) ==
  LET rh == Relations(info)
  IN  /\ rh.ok <=> WellFormed(info)
      /\ rh.ok =>
           /\ rh.nodes_to_parts = {<<p.node, p.part>> : p \in Places(info)}
           /\ rh.nodes_to_clusters = {<<p.node, p.cluster>> : p \in Places(info)}

\* Where a path puts its node.
PlaceOf(p) ==
  [node |-> Found(p).id, cluster |-> p[1].item.id, part |-> p[Len(p) - 1].item.id]
\* The places of nodes are those of the paths that lead to them.
LEMMA PlacesOf ==
  ASSUME NEW info
  PROVE  Places(info) = {PlaceOf(p) : p \in NodesIn(Root(info))}
PROOF
  BY DEF Places, PlaceOf, NodesIn

\* The root is below nothing; a node that is in its place has a cluster and a partition.
LEMMA RootRelates ==
  ASSUME NEW info, Root(info) \in Forests, FineBelow(Root(info), 0, info)
  PROVE  /\ PartsOf(Root(info), <<>>) = {<<x.node, x.part>> : x \in Places(info)}
         /\ ClustersOf(Root(info), <<>>) = {<<x.node, x.cluster>> : x \in Places(info)}
PROOF
  <1> DEFINE F == Root(info)
             N == NodesIn(F)
  <1>1. ASSUME NEW p \in N
        PROVE  /\ PlaceOf(p).node = Found(p).id
               /\ PlaceOf(p).part = PartOf(p, <<>>)
               /\ PlaceOf(p).cluster = ClusterOf(p, <<>>)
    <2>1. p \in Paths[F] /\ Found(p).name = "node" BY DEF NodesIn
    <2>2. InPlace(p, 0, info) BY <2>1 DEF FineBelow
    <2>3. Len(p) + 0 # 1
      <3>1. ASSUME Len(p) + 0 = 1 PROVE FALSE
        <4>1. Found(p).name \in {"cluster"} BY <2>2, <3>1 DEF InPlace
        <4>2. QED BY <2>1, <4>1
      <3>2. QED BY <3>1
    <2>4. Len(p) \in Nat
      <3>1. p \in Seq(Strides) BY <2>1, PathsAreLong
      <3>2. QED BY <3>1
    <2>5. Len(p) # 1 BY <2>3, <2>4
    <2>6. QED BY <2>5 DEF PlaceOf, PartOf, ClusterOf
  <1>2. Places(info) = {PlaceOf(p) : p \in N} BY PlacesOf
  <1>3. /\ PartsOf(F, <<>>) = {<<Found(p).id, PartOf(p, <<>>)>> : p \in N}
        /\ ClustersOf(F, <<>>) = {<<Found(p).id, ClusterOf(p, <<>>)>> : p \in N}
    BY DEF PartsOf, ClustersOf
  <1> HIDE DEF N, F
  <1>4. \A y : y \in {<<x.node, x.part>> : x \in Places(info)}
                 <=> \E p \in N : y = <<PlaceOf(p).node, PlaceOf(p).part>>
    BY <1>2
  <1>5. \A y : y \in {<<x.node, x.cluster>> : x \in Places(info)}
                 <=> \E p \in N : y = <<PlaceOf(p).node, PlaceOf(p).cluster>>
    BY <1>2
  <1>6. \A y : y \in PartsOf(F, <<>>) <=> \E p \in N : y = <<Found(p).id, PartOf(p, <<>>)>>
    BY <1>3
  <1>7. \A y : y \in ClustersOf(F, <<>>) <=> \E p \in N : y = <<Found(p).id, ClusterOf(p, <<>>)>>
    BY <1>3
  <1>8. \A y : y \in {<<x.node, x.part>> : x \in Places(info)} <=> y \in PartsOf(F, <<>>)
    BY <1>1, <1>4, <1>6
  <1>9. \A y : y \in {<<x.node, x.cluster>> : x \in Places(info)} <=> y \in ClustersOf(F, <<>>)
    BY <1>1, <1>5, <1>7
  <1>10. QED BY <1>8, <1>9 DEF F

\* What is found in a hierarchy agrees with its tree.
LEMMA HierarchyAgrees ==
  ASSUME NEW info, Root(info) \in Forests
  PROVE  Agrees(info)
PROOF
  <1> DEFINE F == Root(info)
             none == <<>>
             call == Call(F, none, NothingMet)
             rh == Relations(info)
  <1>1. none \in Seq(Items) /\ Len(none) = 0 OBVIOUS
  <1>2. /\ NothingMet \in Sofars /\ NothingMet.ok /\ NothingMet.met = {}
        /\ NothingMet.nodes_to_parts = {} /\ NothingMet.nodes_to_clusters = {}
    BY DEF NothingMet, Sofars
  <1>3. call \in Calls /\ call.items = F /\ call.above = none /\ call.rh = NothingMet
    <2>1. \A X \in Forests : \A above \in Seq(Items) : \A s \in Sofars :
            /\ Call(X, above, s) \in Calls /\ Call(X, above, s).items = X
            /\ Call(X, above, s).above = above /\ Call(X, above, s).rh = s
      BY CallIs
    <2>2. none \in Seq(Items) BY <1>1
    <2>3. F \in Forests OBVIOUS
    <2>4. NothingMet \in Sofars BY <1>2
    <2> HIDE DEF F, none
    <2>5. call \in Calls /\ call.items = F BY <2>1, <2>2, <2>3, <2>4
    <2>6. call.above = none BY <2>1, <2>2, <2>3, <2>4
    <2>7. call.rh = NothingMet BY <2>1, <2>2, <2>3, <2>4
    <2>8. QED BY <2>5, <2>6, <2>7
  <1>4. rh = FoundBy(info)[call] BY RelationsAre
  <1>5. WellFormed(info) <=> FineBelow(F, 0, info) /\ Once(F)
    BY DEF WellFormed, FineBelow, Once
  <1> HIDE DEF call, rh, F, none
  <1>6. Adds(call, rh, info) BY <1>3, <1>4, FoundAdds
  <1>7. /\ rh.ok => FineBelow(F, 0, info)
        /\ FineBelow(F, 0, info) =>
             /\ rh.ok <=> Once(F)
             /\ rh.nodes_to_parts = PartsOf(F, none)
             /\ rh.nodes_to_clusters = ClustersOf(F, none)
    <2>1. Len(call.above) = 0 BY <1>1, <1>3
    <2>2. QED BY <1>2, <1>3, <1>6, <2>1 DEF Adds
  <1>8. FineBelow(F, 0, info) =>
          /\ PartsOf(F, none) = {<<x.node, x.part>> : x \in Places(info)}
          /\ ClustersOf(F, none) = {<<x.node, x.cluster>> : x \in Places(info)}
    BY RootRelates DEF F, none
  <1>9. QED BY <1>5, <1>7, <1>8 DEF Agrees, rh

-----------------------------------------------------------------------------
\* The hierarchy: what FCFS makes of relations that agree with the tree

\* A node has one place, and is known.
LEMMA PlacesAre ==
  ASSUME NEW info, WellFormed(info)
  PROVE  /\ \A x, y \in Places(info) : x.node = y.node => x = y
         /\ \A x \in Places(info) : x.node \in Ids(info.nodes)
PROOF
  <1> DEFINE Leaves == NodesIn(Root(info))
  <1>1. Places(info) = {PlaceOf(p) : p \in Leaves} BY PlacesOf
  <1>2. \A p \in Leaves : Found(p).id \in Known(info, "node")
    BY DEF WellFormed, InPlace, NodesIn
  <1>3. \A p, q \in Leaves : Found(p).id = Found(q).id => p = q
    BY DEF WellFormed, Key, NodesIn
  <1>4. Known(info, "node") = Ids(info.nodes) BY DEF Known
  <1>5. \A p : PlaceOf(p).node = Found(p).id BY DEF PlaceOf
  <1> HIDE DEF Leaves
  <1>6. QED BY <1>1, <1>2, <1>3, <1>4, <1>5

\* FCFS can begin if every node has a place of its own.
LEMMA ReadyIs ==
  ASSUME NEW info, Agrees(info), info.nodes \in Seq(Range(info.nodes))
  PROVE  FcfsReady(info) <=>
           /\ WellFormed(info) /\ Ids(info.nodes) = {p.node : p \in Places(info)}
           /\ \A i, j \in DOMAIN info.nodes : info.nodes[i].id = info.nodes[j].id => i = j
PROOF
  <1> DEFINE rh == Relations(info)
             D == DOMAIN info.nodes
             id(i) == info.nodes[i].id
             InTree(n) == \E x \in Places(info) : x.node = n
  <1>1. rh.ok <=> WellFormed(info) BY DEF Agrees
  <1>2. D \subseteq Int /\ Ids(info.nodes) = {id(i) : i \in D} BY DEF Ids
  <1>3. ASSUME WellFormed(info)
        PROVE  Absent(info, rh) = {} <=>
                 /\ Ids(info.nodes) = {p.node : p \in Places(info)}
                 /\ \A i, j \in D : id(i) = id(j) => i = j
    <2>1. rh.nodes_to_clusters = {<<p.node, p.cluster>> : p \in Places(info)}
      BY <1>1, <1>3 DEF Agrees
    <2>2. {p.node : p \in Places(info)} \subseteq Ids(info.nodes) BY <1>3, PlacesAre
    <2>3. \A n : (\A p \in rh.nodes_to_clusters : p[1] # n) <=> ~InTree(n)
      <3> DEFINE pairs == {<<p.node, p.cluster>> : p \in Places(info)}
      <3>1. \A x \in Places(info) : <<x.node, x.cluster>> \in pairs /\ <<x.node, x.cluster>>[1] = x.node
        OBVIOUS
      <3>2. \A p \in pairs : \E x \in Places(info) : p[1] = x.node OBVIOUS
      <3> HIDE DEF pairs
      <3>3. \A n : (\A p \in pairs : p[1] # n) <=> ~InTree(n) BY <3>1, <3>2, Zenon
      <3>4. QED BY <2>1, <3>3 DEF pairs
    <2>4. Absent(info, rh) = {i \in D : Kept(info.nodes, i) => ~InTree(id(i))}
      BY <2>3 DEF Absent
    <2>5. Absent(info, rh) = {} <=> \A i \in D : Kept(info.nodes, i) /\ InTree(id(i))
      <3> HIDE DEF D, id, InTree, rh
      <3>1. QED BY <2>4
    <2>6. (\A i \in D : Kept(info.nodes, i)) <=> \A i, j \in D : id(i) = id(j) => i = j
      <3>1. \A i \in D : Kept(info.nodes, i) <=> \A j \in D : id(j) = id(i) => j <= i BY DEF Kept
      <3> HIDE DEF D, id
      <3>2. QED BY <1>2, <3>1
    <2>7. (\A i \in D : InTree(id(i))) <=> Ids(info.nodes) = {p.node : p \in Places(info)}
      <3> HIDE DEF D, id
      <3>1. QED BY <1>2, <2>2
    <2>8. QED BY <2>5, <2>6, <2>7
  <1>4. QED BY <1>1, <1>3 DEF FcfsReady

\* It finds for a cluster the nodes that can be used there.
LEMMA OffersAre ==
  ASSUME NEW info, Agrees(info), info.nodes \in Seq(Range(info.nodes)), FcfsReady(info),
         NEW cluster \in Ids(info.clusters)
  PROVE  NodesPerCluster(info)[cluster] = Offers(info, cluster)
PROOF
  <1> DEFINE rh == Relations(info)
             D == DOMAIN info.nodes
             NodeOf(x) == ById(info.nodes, x.node)
  <1>1. /\ WellFormed(info) /\ Ids(info.nodes) = {p.node : p \in Places(info)}
        /\ \A i, j \in D : info.nodes[i].id = info.nodes[j].id => i = j
    BY ReadyIs
  <1>2. /\ rh.nodes_to_parts = {<<p.node, p.part>> : p \in Places(info)}
        /\ rh.nodes_to_clusters = {<<p.node, p.cluster>> : p \in Places(info)}
    BY <1>1 DEF Agrees
  <1>3. ASSUME NEW x \in Places(info)
        PROVE  /\ Related(rh.nodes_to_clusters, x.node) = x.cluster
               /\ Related(rh.nodes_to_parts, x.node) = x.part
    <2>1. \A y \in Places(info) : x.node = y.node => x = y BY <1>1, PlacesAre
    <2>2. Related(rh.nodes_to_clusters, x.node) = x.cluster
      <3>1. <<x.node, x.cluster>> \in rh.nodes_to_clusters BY <1>2
      <3>2. \A p \in rh.nodes_to_clusters : p[1] = x.node => p[2] = x.cluster BY <1>2, <2>1
      <3>3. QED BY <3>1, <3>2 DEF Related
    <2>3. Related(rh.nodes_to_parts, x.node) = x.part
      <3>1. <<x.node, x.part>> \in rh.nodes_to_parts BY <1>2
      <3>2. \A p \in rh.nodes_to_parts : p[1] = x.node => p[2] = x.part BY <1>2, <2>1
      <3>3. QED BY <3>1, <3>2 DEF Related
    <2>4. QED BY <2>2, <2>3
  <1>4. ASSUME NEW x, NEW i \in D, info.nodes[i].id = x.node PROVE NodeOf(x) = info.nodes[i]
    <2>1. D \subseteq Int OBVIOUS
    <2>2. Kept(info.nodes, i) BY <1>1, <2>1 DEF Kept
    <2>3. \A j \in D : info.nodes[j].id = x.node => j = i BY <1>1, <1>4
    <2>4. QED BY <1>4, <2>2, <2>3 DEF ById
  <1>5. ASSUME NEW x \in Places(info)
        PROVE  \E i \in D : info.nodes[i].id = x.node /\ NodeOf(x) = info.nodes[i]
    <2>1. PICK i \in D : info.nodes[i].id = x.node BY <1>1 DEF Ids
    <2>2. QED BY <2>1, <1>4
  <1>6. ASSUME NEW i \in D
        PROVE  \E x \in Places(info) : info.nodes[i].id = x.node /\ NodeOf(x) = info.nodes[i]
    <2>1. info.nodes[i].id \in {p.node : p \in Places(info)} BY <1>1 DEF Ids
    <2>2. PICK x \in Places(info) : x.node = info.nodes[i].id BY <2>1
    <2>3. QED BY <2>2, <1>4
  <1>7. \A x \in Places(info) :
          Usable(NodeOf(x), info, rh) <=>
            \/ NodeOf(x).template
            \/ (NodeOf(x).up /\ ById(info.clusters, x.cluster).up
                 /\ ById(info.partitions, x.part).up)
    BY <1>3, <1>5 DEF Usable
  <1> HIDE DEF rh
  <1>8. NodesPerCluster(info)[cluster] =
          {info.nodes[i].id : i \in {j \in D : /\ Related(rh.nodes_to_clusters, info.nodes[j].id) = cluster
                                               /\ Usable(info.nodes[j], info, rh)}}
    BY DEF NodesPerCluster, rh
  <1>9. Offers(info, cluster) =
          {x.node : x \in {y \in Places(info) : /\ y.cluster = cluster
                                                /\ Usable(NodeOf(y), info, rh)}}
    <2>1. {y \in Places(info) : y.cluster = cluster /\ Usable(NodeOf(y), info, rh)} =
          {y \in Places(info) :
             /\ y.cluster = cluster
             /\ \/ NodeOf(y).template
                \/ (NodeOf(y).up /\ ById(info.clusters, cluster).up
                     /\ ById(info.partitions, y.part).up)}
      BY <1>7
    <2>2. QED BY <2>1 DEF Offers
  <1>10. ASSUME NEW n PROVE n \in NodesPerCluster(info)[cluster] <=> n \in Offers(info, cluster)
    <2>1. ASSUME n \in NodesPerCluster(info)[cluster] PROVE n \in Offers(info, cluster)
      <3>1. PICK i \in D : /\ n = info.nodes[i].id /\ Usable(info.nodes[i], info, rh)
                           /\ Related(rh.nodes_to_clusters, n) = cluster
        BY <1>8, <2>1
      <3>2. PICK x \in Places(info) : n = x.node /\ NodeOf(x) = info.nodes[i] BY <3>1, <1>6
      <3>3. x.cluster = cluster /\ Usable(NodeOf(x), info, rh) BY <3>1, <3>2, <1>3
      <3>4. QED BY <1>9, <3>2, <3>3
    <2>2. ASSUME n \in Offers(info, cluster) PROVE n \in NodesPerCluster(info)[cluster]
      <3>1. PICK x \in Places(info) : n = x.node /\ x.cluster = cluster /\ Usable(NodeOf(x), info, rh)
        BY <1>9, <2>2
      <3>2. PICK i \in D : info.nodes[i].id = n /\ NodeOf(x) = info.nodes[i] BY <3>1, <1>5
      <3>3. Related(rh.nodes_to_clusters, info.nodes[i].id) = cluster BY <3>1, <3>2, <1>3
      <3>4. QED BY <1>8, <3>1, <3>2, <3>3
    <2>3. QED BY <2>1, <2>2
  <1>11. QED BY <1>10

\* So FCFS begins exactly on a hierarchy that can be scheduled on, if there are jobs.
LEMMA SchedulableIs ==
  ASSUME NEW info, Agrees(info), info.nodes \in Seq(Range(info.nodes))
  PROVE  Schedulable(info) <=> info.jobs = <<>> \/ FcfsReady(info)
PROOF
  BY ReadyIs DEF Schedulable

-----------------------------------------------------------------------------
\* The jobs, one by one

\* What the loop of schedule() knows of the jobs before the next one.
IsPlan(p) == DOMAIN p = {"next", "gang", "known", "busy", "tables", "nodes"}
TablesKnown(info, p) ==
  /\ IsFiniteSet(p.tables) /\ \A t \in p.tables : t.at \in 1..(p.next - 1)
  /\ \A t \in p.tables : TableExplained(info, t, p.tables)
  /\ \A t, u \in p.tables : t.at = u.at => t = u

\* Every gang that came is known, and the current one has been alone since it began.
GangsKnown(info, p) ==
  /\ NoGang \notin p.known
  /\ p.gang = NoGang \/ p.gang \in p.known
  /\ \A g \in p.known : \E i \in 1..(p.next - 1) : info.jobs[i].gang = g
  /\ \A t \in p.tables : GangOf(info, t) = NoGang \/ GangOf(info, t) \in p.known
  /\ \A t \in p.tables : GangOf(info, t) = p.gang /\ p.gang # NoGang =>
       /\ t.nodes \subseteq p.busy
       /\ \A v \in p.tables : v.at >= t.at => GangOf(info, v) = p.gang
NoneLeft(info, p) ==
  \A k \in 1..(p.next - 1) : MustBeScheduled(info, k, p.tables) => \E t \in p.tables : t.at = k
Planned(info, p) ==
  /\ IsPlan(p) /\ p.nodes = [c \in Ids(info.clusters) |-> Offers(info, c)]
  /\ p.next \in 1..(Len(info.jobs) + 1)
  /\ TablesKnown(info, p) /\ GangsKnown(info, p)
  /\ GangsExplained(info, p.tables) /\ NoneLeft(info, p)

\* So it is when the loop begins, and after every job.
LEMMA PlanBegins ==
  ASSUME NEW info, info.jobs \in Seq(Range(info.jobs))
  PROVE  Planned(info, PlanFor([c \in Ids(info.clusters) |-> Offers(info, c)]))
PROOF
  <1> DEFINE offers == [c \in Ids(info.clusters) |-> Offers(info, c)]
             p == PlanFor(offers)
  <1> HIDE DEF offers
  <1>1. /\ IsPlan(p) /\ p.next = 1 /\ p.gang = NoGang /\ p.known = {}
        /\ p.busy = {} /\ p.tables = {} /\ p.nodes = offers
    BY DEF PlanFor, NoPlan, IsPlan
  <1>2. Len(info.jobs) \in Nat /\ 1..(1 - 1) = {} OBVIOUS
  <1> HIDE DEF p
  <1>3. IsPlan(p) /\ p.nodes = offers /\ p.next \in 1..(Len(info.jobs) + 1) BY <1>1, <1>2
  <1>4. TablesKnown(info, p) BY <1>1, FS_EmptySet DEF TablesKnown
  <1>5. GangsKnown(info, p) BY <1>1 DEF GangsKnown
  <1>6. GangsExplained(info, p.tables) BY <1>1 DEF GangsExplained
  <1>7. NoneLeft(info, p) BY <1>1, <1>2 DEF NoneLeft
  <1>8. QED BY <1>3, <1>4, <1>5, <1>6, <1>7 DEF Planned, p, offers

\* What the steps of the loop do to the fields of a plan.
LEMMA PassFields ==
  ASSUME NEW p, IsPlan(p)
  PROVE  /\ IsPlan(Pass(p)) /\ Pass(p).next = p.next + 1 /\ Pass(p).gang = p.gang
         /\ Pass(p).known = p.known /\ Pass(p).busy = p.busy /\ Pass(p).tables = p.tables
         /\ Pass(p).nodes = p.nodes
PROOF
  BY DEF IsPlan, Pass

LEMMA ConsiderFields ==
  ASSUME NEW p, IsPlan(p), NEW job
  PROVE  LET q == Consider(job, p)
         IN  /\ IsPlan(q) /\ q.next = p.next + 1 /\ q.gang = job.gang
             /\ q.known = (p.known \cup {job.gang}) \ {NoGang}
             /\ q.busy = BusyFor(job, p) /\ q.tables = p.tables /\ q.nodes = p.nodes
PROOF
  BY DEF IsPlan, Consider

LEMMA GiveFields ==
  ASSUME NEW p, IsPlan(p), NEW job, NEW s
  PROVE  LET q == GiveNodes(job, p, s)
             c == Consider(job, p)
         IN  /\ IsPlan(q) /\ q.next = c.next /\ q.gang = c.gang /\ q.known = c.known
             /\ q.busy = c.busy \cup s
             /\ q.tables = c.tables \cup {Table(p.next, job, s)} /\ q.nodes = c.nodes
PROOF
  <1> DEFINE c == Consider(job, p)
  <1>1. IsPlan(c) BY ConsiderFields
  <1>2. GiveNodes(job, p, s) =
          [c EXCEPT !.busy = @ \cup s, !.tables = @ \cup {Table(p.next, job, s)}]
    BY DEF GiveNodes
  <1> HIDE DEF c
  <1>3. QED BY <1>1, <1>2 DEF IsPlan, c

\* A step to the next job that leaves the tables as they are.
LEMMA TablesStay ==
  ASSUME NEW info, NEW p, NEW q, TablesKnown(info, p), p.next \in Nat,
         q.next = p.next + 1, q.tables = p.tables
  PROVE  TablesKnown(info, q)
PROOF
  <1>1. \A t \in q.tables : t.at \in 1..(q.next - 1) BY DEF TablesKnown
  <1>2. QED BY <1>1 DEF TablesKnown

LEMMA PassKeepsPlan ==
  ASSUME NEW info, NEW p, Planned(info, p), info.jobs \in Seq(Range(info.jobs)),
         p.next \in DOMAIN info.jobs, IsPassed(info.jobs[p.next], p)
  PROVE  Planned(info, Pass(p))
PROOF
  <1> DEFINE job == info.jobs[p.next]
             q == Pass(p)
  <1>1. /\ p.next \in Nat \ {0} /\ p.next <= Len(info.jobs) /\ Len(info.jobs) \in Nat
        /\ IsPlan(p)
    BY DEF Planned
  <1>2. /\ IsPlan(q) /\ q.next = p.next + 1 /\ q.gang = p.gang /\ q.known = p.known
        /\ q.busy = p.busy /\ q.tables = p.tables /\ q.nodes = p.nodes
    BY <1>1, PassFields
  <1> HIDE DEF q
  <1>3. q.next \in 1..(Len(info.jobs) + 1) BY <1>1, <1>2
  <1>4. TablesKnown(info, q) BY <1>1, <1>2, TablesStay DEF Planned
  <1>5. GangsKnown(info, q)
    <2>1. GangsKnown(info, p) BY DEF Planned
    <2>2. \A g \in q.known : \E i \in 1..(q.next - 1) : info.jobs[i].gang = g
      BY <1>1, <1>2, <2>1 DEF GangsKnown
    <2>3. QED BY <1>2, <2>1, <2>2 DEF GangsKnown
  <1>6. ~MustBeScheduled(info, p.next, p.tables)
    <2>1. CASE ~job.queued BY <2>1 DEF MustBeScheduled
    <2>2. CASE Misses(job, p)
      <3>1. ~Depends(job, {t \in p.tables : t.at < p.next}) BY <2>2 DEF Misses, Depends
      <3>2. QED BY <3>1 DEF MustBeScheduled
    <2>3. CASE Repeats(job, p)
      <3>1. job.gang \in p.known BY <2>3 DEF Repeats
      <3>2. ~First(info, p.next) BY <3>1 DEF Planned, GangsKnown, First
      <3>3. QED BY <3>2 DEF MustBeScheduled
    <2>4. QED BY <2>1, <2>2, <2>3 DEF IsPassed
  <1>7. NoneLeft(info, q)
    <2>1. \A k \in 1..(q.next - 1) : k \in 1..(p.next - 1) \/ k = p.next BY <1>1, <1>2
    <2>2. QED BY <1>2, <1>6, <2>1 DEF NoneLeft, Planned
  <1>8. QED BY <1>2, <1>3, <1>4, <1>5, <1>7 DEF Planned, q

\* A gang that is not passed over begins, or is the current one.
LEMMA ConsiderKeepsGangs ==
  ASSUME NEW info, NEW p, Planned(info, p), info.jobs \in Seq(Range(info.jobs)),
         p.next \in DOMAIN info.jobs, ~IsPassed(info.jobs[p.next], p)
  PROVE  GangsKnown(info, Consider(info.jobs[p.next], p))
PROOF
  <1> DEFINE job == info.jobs[p.next]
             q == Consider(job, p)
  <1>1. p.next \in Nat \ {0} /\ IsPlan(p) /\ GangsKnown(info, p) BY DEF Planned
  <1>2. /\ q.next = p.next + 1 /\ q.gang = job.gang /\ q.busy = BusyFor(job, p)
        /\ q.known = (p.known \cup {job.gang}) \ {NoGang} /\ q.tables = p.tables
    BY <1>1, ConsiderFields
  <1> HIDE DEF q
  <1>3. NoGang \notin q.known /\ (q.gang = NoGang \/ q.gang \in q.known) BY <1>2
  <1>4. ASSUME NEW g \in q.known PROVE \E i \in 1..(q.next - 1) : info.jobs[i].gang = g
    <2>1. CASE g \in p.known
      <3>1. PICK i \in 1..(p.next - 1) : info.jobs[i].gang = g BY <1>1, <2>1 DEF GangsKnown
      <3>2. i \in 1..(q.next - 1) BY <1>1, <1>2, <3>1
      <3>3. QED BY <3>1, <3>2
    <2>2. CASE g = job.gang
      <3>1. p.next \in 1..(q.next - 1) BY <1>1, <1>2
      <3>2. QED BY <2>2, <3>1
    <2>3. QED BY <1>2, <2>1, <2>2
  <1>5. \A t \in q.tables : GangOf(info, t) = NoGang \/ GangOf(info, t) \in q.known
    BY <1>1, <1>2 DEF GangsKnown
  <1>6. ASSUME NEW t \in q.tables, GangOf(info, t) = q.gang, q.gang # NoGang
        PROVE  /\ t.nodes \subseteq q.busy
               /\ \A v \in q.tables : v.at >= t.at => GangOf(info, v) = q.gang
    <2>1. job.gang \in p.known BY <1>1, <1>2, <1>6 DEF GangsKnown
    <2>2. job.gang = p.gang BY <2>1 DEF IsPassed, Repeats, BeginsGang
    <2>3. q.busy = p.busy BY <1>2, <1>6, <2>2 DEF BusyFor, BeginsGang
    <2>4. QED BY <1>1, <1>2, <1>6, <2>2, <2>3 DEF GangsKnown
  <1>7. QED BY <1>3, <1>4, <1>5, <1>6 DEF GangsKnown, q

\* The nodes that are taken from are those that fit the job, without those of its gang; a
\* gang that begins has none yet.
LEMMA RoomIs ==
  ASSUME NEW info, NEW p, Planned(info, p), NEW job
  PROVE  /\ job.cluster \in DOMAIN p.nodes => NodesFor(job, p) = Fitting(info, job) \ BusyFor(job, p)
         /\ job.cluster \notin DOMAIN p.nodes => Fitting(info, job) = {}
PROOF
  <1>1. p.nodes = [c \in Ids(info.clusters) |-> Offers(info, c)] BY DEF Planned
  <1>2. QED BY <1>1 DEF NodesFor, Fitting

LEMMA FailKeepsPlan ==
  ASSUME NEW info, NEW p, Planned(info, p), info.jobs \in Seq(Range(info.jobs)),
         p.next \in DOMAIN info.jobs, info.jobs[p.next].count \in Nat,
         ~IsPassed(info.jobs[p.next], p), ~HasRoom(info.jobs[p.next], p)
  PROVE  Planned(info, Consider(info.jobs[p.next], p))
PROOF
  <1> DEFINE job == info.jobs[p.next]
             q == Consider(job, p)
  <1>1. /\ p.next \in Nat \ {0} /\ p.next <= Len(info.jobs) /\ Len(info.jobs) \in Nat
        /\ IsPlan(p) /\ GangsKnown(info, p)
    BY DEF Planned
  <1>2. IsPlan(q) /\ q.next = p.next + 1 /\ q.tables = p.tables /\ q.nodes = p.nodes
    BY <1>1, ConsiderFields
  <1>3. GangsKnown(info, q) BY ConsiderKeepsGangs
  <1> HIDE DEF q
  <1>4. q.next \in 1..(Len(info.jobs) + 1) BY <1>1, <1>2
  <1>5. TablesKnown(info, q) BY <1>1, <1>2, TablesStay DEF Planned
  <1>6. ASSUME MustBeScheduled(info, p.next, p.tables) PROVE FALSE
    <2>1. /\ job.count >= 1 /\ First(info, p.next)
          /\ Cardinality(Fitting(info, job)) >= job.count
      BY <1>6 DEF MustBeScheduled
    <2>2. BusyFor(job, p) = {}
      <3>1. CASE job.gang = NoGang BY <3>1 DEF BusyFor
      <3>2. CASE job.gang # NoGang
        <4>1. \A i \in 1..(p.next - 1) : info.jobs[i].gang # job.gang BY <2>1, <3>2 DEF First
        <4>2. job.gang \notin p.known BY <1>1, <4>1 DEF GangsKnown
        <4>3. p.gang # job.gang BY <1>1, <3>2, <4>2 DEF GangsKnown
        <4>4. QED BY <4>3 DEF BusyFor, BeginsGang
      <3>3. QED BY <3>1, <3>2
    <2>3. CASE job.cluster \in DOMAIN p.nodes
      <3>1. NodesFor(job, p) = Fitting(info, job) BY <2>2, <2>3, RoomIs
      <3>2. HasRoom(job, p) BY <2>1, <2>3, <3>1 DEF HasRoom
      <3>3. QED BY <3>2
    <2>4. CASE job.cluster \notin DOMAIN p.nodes
      <3>1. job.count >= 1 /\ 0 >= job.count BY <2>1, <2>4, RoomIs, FS_EmptySet
      <3>2. QED BY <3>1
    <2>5. QED BY <2>3, <2>4
  <1>7. NoneLeft(info, q)
    <2>1. \A k \in 1..(q.next - 1) : k \in 1..(p.next - 1) \/ k = p.next BY <1>1, <1>2
    <2>2. QED BY <1>2, <1>6, <2>1 DEF NoneLeft, Planned
  <1>8. QED BY <1>2, <1>3, <1>4, <1>5, <1>7 DEF Planned, q

LEMMA PlaceKeepsPlan ==
  ASSUME NEW info, NEW p, Planned(info, p), info.jobs \in Seq(Range(info.jobs)),
         p.next \in DOMAIN info.jobs, ~IsPassed(info.jobs[p.next], p),
         HasRoom(info.jobs[p.next], p), NEW s \in NodeSets(info.jobs[p.next], p)
  PROVE  Planned(info, GiveNodes(info.jobs[p.next], p, s))
PROOF
  <1> DEFINE job == info.jobs[p.next]
             c == Consider(job, p)
             q == GiveNodes(job, p, s)
             n == Table(p.next, job, s)
             T == p.tables
  <1>1. /\ p.next \in Nat \ {0} /\ p.next <= Len(info.jobs) /\ Len(info.jobs) \in Nat
        /\ IsPlan(p) /\ TablesKnown(info, p) /\ GangsKnown(info, p)
    BY DEF Planned
  <1>2. /\ c.next = p.next + 1 /\ c.gang = job.gang /\ c.tables = T /\ c.busy = BusyFor(job, p)
        /\ c.nodes = p.nodes
    BY <1>1, ConsiderFields
  <1>3. /\ IsPlan(q) /\ q.next = p.next + 1 /\ q.gang = job.gang
        /\ q.known = c.known /\ q.busy = c.busy \cup s
        /\ q.tables = T \cup {n} /\ q.nodes = p.nodes
    <2>1. /\ IsPlan(q) /\ q.next = c.next /\ q.gang = c.gang /\ q.known = c.known
          /\ q.busy = c.busy \cup s /\ q.tables = c.tables \cup {n} /\ q.nodes = c.nodes
      BY <1>1, GiveFields
    <2> HIDE DEF q, c, n
    <2>2. QED BY <1>2, <2>1
  <1>4. GangsKnown(info, c) BY ConsiderKeepsGangs
  <1>5. n.at = p.next /\ n.job = job.id /\ n.nodes = s /\ GangOf(info, n) = job.gang
    BY DEF Table, GangOf
  <1> HIDE DEF q, c, n
  <1>6. q.next \in 1..(Len(info.jobs) + 1) BY <1>1, <1>3
  <1>7. \A t \in T : t.at \in Nat /\ t.at < p.next BY <1>1 DEF TablesKnown
  <1>8. /\ \A t \in T : {u \in q.tables : u.at < t.at} = {u \in T : u.at < t.at}
        /\ {u \in q.tables : u.at < p.next} = T
    BY <1>1, <1>3, <1>5, <1>7
  <1>9. s \subseteq Fitting(info, job) \ BusyFor(job, p) /\ Cardinality(s) = job.count
    <2>1. s \subseteq NodesFor(job, p) /\ Cardinality(s) = job.count BY DEF NodeSets
    <2>2. QED BY <2>1, RoomIs DEF HasRoom
  <1>10. TablesKnown(info, q)
    <2>1. IsFiniteSet(q.tables)
      <3>1. IsFiniteSet(T) BY <1>1 DEF TablesKnown
      <3>2. IsFiniteSet(T \cup {n}) BY <3>1, FS_AddElement
      <3>3. QED BY <1>3, <3>2
    <2>2. \A t \in q.tables : t.at \in 1..(q.next - 1) BY <1>1, <1>3, <1>5, <1>7 DEF TablesKnown
    <2>3. TableExplained(info, n, q.tables)
      <3>1. job.queued /\ job.count >= 1 BY DEF IsPassed, HasRoom
      <3>2. Depends(job, T) BY DEF IsPassed, Misses, Depends
      <3>3. QED BY <1>5, <1>8, <1>9, <3>1, <3>2 DEF TableExplained
    <2>4. ASSUME NEW t \in T PROVE TableExplained(info, t, q.tables)
      <3>1. TableExplained(info, t, T) BY <1>1 DEF TablesKnown
      <3>2. QED BY <1>8, <3>1 DEF TableExplained
    <2>5. \A t, u \in q.tables : t.at = u.at => t = u
      <3>1. \A t \in T : t.at # n.at BY <1>1, <1>5, <1>7
      <3>2. QED BY <1>1, <1>3, <3>1 DEF TablesKnown
    <2>6. QED BY <1>3, <2>1, <2>2, <2>3, <2>4, <2>5 DEF TablesKnown
  <1>11. ASSUME NEW t \in T, GangOf(info, t) = job.gang, job.gang # NoGang
         PROVE  /\ t.nodes \subseteq BusyFor(job, p)
                /\ \A v \in q.tables : v.at >= t.at => GangOf(info, v) = job.gang
    BY <1>2, <1>3, <1>4, <1>5, <1>11 DEF GangsKnown
  <1>12. GangsKnown(info, q)
    <2>1. /\ NoGang \notin q.known /\ (q.gang = NoGang \/ q.gang \in q.known)
          /\ \A g \in q.known : \E i \in 1..(q.next - 1) : info.jobs[i].gang = g
      BY <1>2, <1>3, <1>4 DEF GangsKnown
    <2>2. \A t \in q.tables : GangOf(info, t) = NoGang \/ GangOf(info, t) \in q.known
      BY <1>2, <1>3, <1>4, <1>5 DEF GangsKnown
    <2>3. ASSUME NEW t \in q.tables, GangOf(info, t) = q.gang, q.gang # NoGang
          PROVE  /\ t.nodes \subseteq q.busy
                 /\ \A v \in q.tables : v.at >= t.at => GangOf(info, v) = q.gang
      <3>1. CASE t \in T BY <1>2, <1>3, <1>11, <2>3, <3>1
      <3>2. CASE t = n
        <4>1. \A v \in T : ~(v.at >= n.at) BY <1>1, <1>5, <1>7
        <4>2. QED BY <1>3, <1>5, <3>2, <4>1
      <3>3. QED BY <1>3, <2>3, <3>1, <3>2
    <2>4. QED BY <2>1, <2>2, <2>3 DEF GangsKnown
  <1>13. GangsExplained(info, q.tables)
    <2>1. SUFFICES ASSUME NEW t \in q.tables, NEW u \in q.tables, t.at < u.at,
                          GangOf(info, t) = GangOf(info, u), GangOf(info, t) # NoGang
                   PROVE  /\ t.nodes \cap u.nodes = {}
                          /\ \A v \in q.tables : v.at \in t.at..u.at => GangOf(info, v) = GangOf(info, t)
      BY DEF GangsExplained
    <2>2. t \in T BY <1>1, <1>3, <1>5, <1>7, <2>1
    <2>3. CASE u = n
      <3>1. GangOf(info, t) = job.gang BY <1>5, <2>1, <2>3
      <3>2. t.nodes \cap u.nodes = {} BY <1>5, <1>9, <1>11, <2>1, <2>2, <2>3, <3>1
      <3>3. ASSUME NEW v \in q.tables, v.at \in t.at..u.at PROVE GangOf(info, v) = GangOf(info, t)
        <4>1. v.at >= t.at BY <3>3
        <4>2. QED BY <1>11, <2>1, <2>2, <3>1, <4>1
      <3>4. QED BY <3>2, <3>3
    <2>4. CASE u \in T
      <3>1. /\ t.nodes \cap u.nodes = {}
            /\ \A v \in T : v.at \in t.at..u.at => GangOf(info, v) = GangOf(info, t)
        BY <2>1, <2>2, <2>4 DEF Planned, GangsExplained
      <3>2. n.at \notin t.at..u.at BY <1>1, <1>5, <1>7, <2>4
      <3>3. QED BY <1>3, <3>1, <3>2
    <2>5. QED BY <1>3, <2>3, <2>4
  <1>14. NoneLeft(info, q)
    <2>1. SUFFICES ASSUME NEW k \in 1..(q.next - 1), MustBeScheduled(info, k, q.tables)
                   PROVE  \E t \in q.tables : t.at = k
      BY DEF NoneLeft
    <2>2. CASE k = p.next BY <1>3, <1>5, <2>2
    <2>3. CASE k \in 1..(p.next - 1)
      <3>1. {t \in q.tables : t.at < k} = {t \in T : t.at < k} BY <1>1, <1>3, <1>5, <2>3
      <3>2. MustBeScheduled(info, k, T) BY <2>1, <3>1 DEF MustBeScheduled
      <3>3. QED BY <1>3, <2>3, <3>2 DEF Planned, NoneLeft
    <2>4. QED BY <1>1, <1>3, <2>2, <2>3
  <1>15. QED BY <1>3, <1>6, <1>10, <1>12, <1>13, <1>14 DEF Planned, q

\* When the loop is at its end the timetables are explained.
LEMMA PlanExplains ==
  ASSUME NEW info, NEW p, Planned(info, p), info.jobs \in Seq(Range(info.jobs)),
         \A i \in DOMAIN info.jobs : info.jobs[i].count \in Nat, p.next > Len(info.jobs)
  PROVE  /\ Explained(info, p.tables) /\ IsFiniteSet(p.tables)
         /\ \A t \in p.tables : t.nodes # {}
PROOF
  <1>1. /\ Len(info.jobs) \in Nat /\ DOMAIN info.jobs = 1..Len(info.jobs)
        /\ p.next = Len(info.jobs) + 1 /\ 1..(p.next - 1) = 1..Len(info.jobs)
        /\ TablesKnown(info, p)
    BY DEF Planned
  <1>2. ASSUME NEW t \in p.tables PROVE t.nodes # {}
    <2>1. TableExplained(info, t, p.tables) BY <1>1 DEF TablesKnown
    <2>2. info.jobs[t.at].count >= 1 /\ Cardinality(t.nodes) = info.jobs[t.at].count
      BY <2>1 DEF TableExplained
    <2>3. info.jobs[t.at].count \in Nat BY <1>1 DEF TablesKnown
    <2>4. Cardinality(t.nodes) # 0 BY <2>2, <2>3
    <2>5. QED BY <2>4, FS_EmptySet
  <1>3. Explained(info, p.tables) BY <1>1 DEF Explained, Planned, TablesKnown, NoneLeft
  <1>4. QED BY <1>1, <1>2, <1>3 DEF TablesKnown

LEMMA NothingExplains ==
  ASSUME NEW info, info.jobs = <<>>
  PROVE  Explained(info, {})
PROOF
  <1>1. DOMAIN info.jobs = {} OBVIOUS
  <1>2. QED BY <1>1 DEF Explained, GangsExplained

-----------------------------------------------------------------------------
\* The response

\* The jobs and the nodes of a command that is taken are sequences.
LEMMA ListsAre ==
  ASSUME DataInv, next > packet.total, Complete(packet), Sound(packet),
         NEW type \in {"jobs", "nodes"}
  PROVE  LET list == Term(packet, type).elements
         IN  /\ list \in Seq(Range(list))
             /\ type = "jobs" => \A j \in Range(list) : j.count \in Nat
PROOF
  <1> DEFINE i == Body(packet, type)
             slice == packet.slices[i]
  <1>1. packet \in Packets /\ packet.total = 7 /\ packet.kind = "schedule" /\ DOMAIN data = 0..6
    BY PlacesOfTypes DEF DataInv, Complete
  <1>2. \A k \in 0..6 : data[k] # Null
    <2>1. InitResult(data) = "fine" BY <1>1, FineIsSound
    <2>2. QED BY <2>1, FineIs, SliceIsFine
  <1>3. i \in 1..7 /\ slice.type = Place(type) BY <1>1, <1>2, Filled, TypesAre
  <1>4. i \in DOMAIN packet.slices /\ slice.body # Null
    <2>1. next = 8 BY <1>1 DEF DataInv
    <2>2. QED BY <1>3, <2>1 DEF DataInv, Readable
  <1>5. slice \in Range(packet.slices) BY <1>4 DEF Range
  <1> DEFINE list == Elements(slice.body.term)
  <1>6. IsList(slice.body.term) /\ ~Contains(list, Malformed) BY DEF Sound, Term, ListResult
  <1>7. /\ list \in Seq(Range(list))
        /\ type = "jobs" => \A j \in Range(list) : j = Malformed \/ j.count \in Nat
    BY <1>1, <1>3, <1>4, <1>5, <1>6, PacketsAssumption, Zenon
  <1>8. \A j \in Range(list) : j # Malformed
    <2> HIDE DEF list
    <2>1. DOMAIN list = 1..Len(list) BY <1>7
    <2>2. QED BY <2>1, <1>6 DEF Contains, Range
  <1>9. Term(packet, type).elements = list BY DEF Term, Elements
  <1> HIDE DEF list
  <1>10. QED BY <1>7, <1>8, <1>9

\* What is written of such tables can be read back.
LEMMA ReadBack ==
  ASSUME NEW T, IsFiniteSet(T), \A t \in T : t.nodes # {}, NEW by,
         NEW r \in Serialized(Timetables(T, by)), r # Unserialized
  PROVE  Reads(r.timetables, T) /\ Reads(r.metrics, {})
PROOF
  <1>1. Cardinality(T) \in Nat /\ (Cardinality(T) > 0 <=> T # {})
    BY FS_CardinalityType, FS_EmptySet
  <1>2. {t \in T : t.nodes # {}} = T OBVIOUS
  <1>3. r = SchedulerResult(T, {}, TRUE) BY DEF Serialized, Timetables
  <1>4. Reads(TimetablesTerm(T), T) BY <1>1, <1>2 DEF Reads, TimetablesTerm, ListTerm
  <1>5. Reads(MetricsTerm({}), {})
    <2>1. Cardinality({}) = 0 BY FS_EmptySet
    <2>2. QED BY <2>1 DEF Reads, MetricsTerm, ListTerm
  <1>6. QED BY <1>3, <1>4, <1>5 DEF SchedulerResult

-----------------------------------------------------------------------------
\* The plugins while commands are served

\* Once they are loaded, all files are that could be, until the program leaves; and the
\* algorithms are for the CPU.
Loaded == {l \in DOMAIN files : files[l].fate \in {"fine", "no_context"}}
Running == {"configure", "open", "main_loop", "serve"}
FilesInv ==
  /\ Len(files) \in Nat /\ DOMAIN files = 1..Len(files)
  /\ factory = "loading" => unread <= Len(files) + 1
  /\ at \in {"parse", "scan"} => factory = "empty"
  /\ at \in Running => factory = "loaded"
  /\ at \in Running \cup {"load"} => /\ factory = "loaded" => opened = Loaded
                                    /\ cpu.type = "Cpu"

\* The directory that is read is there.
LEMMA DirectoryIsThere ==
  ASSUME StartInv, at = "load"
  PROVE  Directory \in Directories \cup {"."}
PROOF
  <1>1. ~Inconsistent BY DEF StartInv, Accepted
  <1>2. Has("--plugins") => flags["--plugins"] \in Directories
    BY <1>1 DEF Inconsistent, DirectoryExists
  <1>3. QED BY <1>2 DEF Directory

LEMMA FilesInvHolds == ProgramSpec => []FilesInv
PROOF
  <1>1. ProgramInit => FilesInv
    BY DEF ProgramInit, StartInit, PluginsInit, FilesInv, Running
  <1>2. FilesInv /\ PluginsInv /\ StartInv /\ [ProgramNext]_programVars => FilesInv'
    <2> SUFFICES ASSUME FilesInv, PluginsInv, StartInv, [ProgramNext]_programVars
                 PROVE  FilesInv'
      OBVIOUS
    <2>1. CASE InStart
      <3>1. UNCHANGED <<files, unread, factory, opened>>
        BY <2>1 DEF InStart, pluginVars
      <3>2. /\ at' \in Running => at \in Running
            /\ at' = "load" => at = "scan" /\ cpu'.type = "Cpu"
            /\ at' \in {"parse", "scan"} => at = "parse"
            /\ at' \in Running => UNCHANGED cpu
        <4>1. CASE ParseArg \/ CheckArgs
          <5>1. at' \in {"parse", "-1", "0", "scan"} /\ at = "parse"
            BY <4>1 DEF ParseArg, CheckArgs, Exit
          <5>2. QED BY <5>1 DEF Running
        <4>2. CASE Scan BY <4>2 DEF Scan, Running
        <4>3. CASE Configure \/ Open \/ BuildQueues
          BY <4>3 DEF Configure, Open, BuildQueues, Running, Exit
        <4>4. QED BY <2>1, <4>1, <4>2, <4>3 DEF InStart, Start
      <3>3. QED BY <3>1, <3>2 DEF FilesInv, Loaded, Running
    <2>2. CASE BeginLoad
      <3>1. /\ at = "load" /\ at' = "load" /\ cpu' = cpu /\ factory = "empty"
            /\ files' = FindFiles(Contents[Directory]) /\ factory' \in {"failed", "loading"}
            /\ unread' = unread
        BY <2>2 DEF BeginLoad, LoadBegin, startVars
      <3>2. files' \in Seq({Contents[Directory][i] : i \in DOMAIN Contents[Directory]})
        BY <3>1, DirectoryIsThere, ContentsAssumption, Zenon
      <3>3. Len(files') \in Nat /\ DOMAIN files' = 1..Len(files') BY <3>2
      <3>4. unread' = 1 BY <3>1 DEF PluginsInv, LibrariesInv
      <3>5. QED BY <3>1, <3>3, <3>4 DEF FilesInv, Running
    <2>3. CASE LoadPlugins
      <3>1. /\ factory = "loading" /\ at = "load" /\ UNCHANGED <<at, cpu, files>>
            /\ unread \in Nat
            /\ opened = {l \in 1..(unread - 1) : files[l].fate \in {"fine", "no_context"}}
        BY <2>3 DEF LoadPlugins, Load, LoadFile, LoadEnd, startVars, PluginsInv, ChainInv,
                    LibrariesInv
      <3>2. CASE LoadFile
        <4>1. unread' = unread + 1 /\ unread <= Len(files) /\ factory' = "loading"
          BY <3>1, <3>2 DEF LoadFile
        <4>2. QED BY <3>1, <4>1 DEF FilesInv, Running
      <3>3. CASE LoadEnd
        <4>1. unread > Len(files) /\ unread' = unread /\ opened' = opened /\ factory' # "loading"
          BY <3>1, <3>3 DEF LoadEnd
        <4>2. unread - 1 = Len(files) BY <3>1, <4>1 DEF FilesInv
        <4>3. opened' = Loaded' BY <3>1, <4>1, <4>2 DEF FilesInv, Loaded
        <4>4. QED BY <3>1, <4>1, <4>3 DEF FilesInv, Running
      <3>4. QED BY <2>3, <3>2, <3>3 DEF LoadPlugins, Load
    <2>4. CASE EndLoad \/ Return
      <3>1. /\ UNCHANGED <<files, unread, factory, opened, cpu>>
            /\ at' = "configure" => at = "load" /\ factory = "loaded"
            /\ at' \in {"configure", "-2", "0"}
        BY <2>4 DEF EndLoad, Return, Goes, pluginVars
      <3>2. QED BY <3>1 DEF FilesInv, Loaded, Running
    <2>5. CASE Leave
      <3>1. at \notin Running \cup {"load", "parse", "scan"} /\ UNCHANGED <<at, files, unread>>
        BY <2>5 DEF Leave, Unload, DeleteDescriptor, CloseLibrary, DropFactory, startVars,
                    Running
      <3>2. factory' # "loading"
        BY <2>5 DEF Leave, Unload, DeleteDescriptor, CloseLibrary, DropFactory
      <3>3. QED BY <3>1, <3>2 DEF FilesInv
    <2>6. CASE CommandStep
      <3>1. /\ UNCHANGED <<files, unread, factory, opened, cpu>>
            /\ at = "serve" /\ at' \in {"serve", "aborted"}
        BY <2>6 DEF CommandStep, Abort, Goes, ReadStep, SelectStep, CreateStep, FailStep, ChainStep,
                    SendStep, ReleaseStep, DoneStep, Passes, Steps, Select, CreateAlgorithm,
                    CreateFails, CreateTimetable, ReleaseTables, ReleaseAlgorithm, startVars,
                    pluginVars, factoryVars
      <3>2. QED BY <3>1 DEF FilesInv, Loaded, Running
    <2>7. CASE UNCHANGED programVars
      <3>1. UNCHANGED <<files, unread, factory, opened, cpu, at>>
        BY <2>7 DEF programVars, startVars, pluginVars
      <3>2. QED BY <3>1 DEF FilesInv, Loaded
    <2>8. QED BY <2>1, <2>2, <2>3, <2>4, <2>5, <2>6, <2>7 DEF ProgramNext, Main
  <1>3. QED BY <1>1, <1>2, PluginsInvHolds, StartInvHolds, PTL DEF ProgramSpec

\* create_algorithms() asks for the plugin that is asked for, if it is there.
LEMMA ChosenIsSelected ==
  ASSUME FilesInv, PluginsInv, at = "serve"
  PROVE  /\ Selectable(Schedulers) <=> Fcfs # {}
         /\ Select(Schedulers) => selected' = <<Chosen>>
PROOF
  <1> DEFINE spec == [family |-> "swm-fcfs", version |-> "1.0", device |-> "Cpu"]
             C == Candidates(spec)
             first == FirstOf(C)
  <1>1. /\ bindings \in Seq(Nat) /\ Increasing /\ DOMAIN bindings = 1..Len(bindings)
        /\ Loaded = {bindings[i] : i \in DOMAIN bindings}
    BY DEF FilesInv, PluginsInv, LibrariesInv, Running
  <1>2. Fcfs = {l \in Loaded : Fits(l, spec)} BY DEF Fcfs, Loaded, Fits
  <1>3. C = {i \in DOMAIN bindings : Fits(bindings[i], spec)} BY DEF Candidates
  <1>4. Schedulers = <<spec>> BY DEF Schedulers
  <1> HIDE DEF C, spec
  <1>5. Selectable(Schedulers) <=> C # {}
    BY <1>4 DEF Selectable, C
  <1>6. C # {} <=> Fcfs # {} BY <1>1, <1>2, <1>3
  <1>7. ASSUME C # {} PROVE bindings[first] = Chosen
    <2>1. C \in SUBSET Nat BY <1>1, <1>3
    <2>2. PICK n \in C : \A m \in C : n <= m BY <2>1, <1>7, LeastNat
    <2>3. first \in C /\ \A m \in C : first <= m BY <2>2 DEF FirstOf
    <2> HIDE DEF first
    <2>4. bindings[first] \in Fcfs BY <2>3, <1>1, <1>2, <1>3
    <2>5. ASSUME NEW l \in Fcfs PROVE bindings[first] <= l
      <3>1. PICK i \in C : bindings[i] = l BY <2>5, <1>1, <1>2, <1>3
      <3>2. first \in DOMAIN bindings /\ i \in DOMAIN bindings /\ first <= i
        BY <2>3, <3>1, <1>3
      <3>3. CASE first = i
        <4>1. bindings[first] = l /\ l \in Nat BY <3>1, <3>2, <3>3, <1>1
        <4>2. QED BY <4>1
      <3>4. CASE first < i
        <4>1. bindings[first] < bindings[i] BY <3>2, <3>4, <1>1 DEF Increasing
        <4>2. bindings[first] \in Nat /\ bindings[i] \in Nat BY <3>2, <1>1
        <4>3. QED BY <3>1, <4>1, <4>2
      <3>5. QED BY <3>2, <3>3, <3>4, <1>1
    <2>6. \A l \in Fcfs : l \in Nat BY <1>1, <1>2
    <2>7. \A l \in Fcfs : (\A m \in Fcfs : l <= m) => l = bindings[first]
      BY <2>4, <2>5, <2>6
    <2>8. QED BY <2>4, <2>5, <2>7 DEF Chosen, FirstOf
  <1>8. ASSUME Select(Schedulers) PROVE selected' = <<Chosen>>
    <2>1. C # {} BY <1>5, <1>8 DEF Select
    <2>2. selected' = [i \in {1} |-> bindings[first]]
      BY <1>8, <1>4 DEF Select, C
    <2>3. QED BY <2>1, <2>2, <1>7
  <1>9. QED BY <1>5, <1>6, <1>8

-----------------------------------------------------------------------------
\* A command and its answer

Taken == packet.kind = "schedule" /\ next > packet.total /\ InitResult(data) = "fine"
CanRun == files[Chosen].fate = "fine" /\ "Cpu" \in files[Chosen].binds
Created ==
  /\ Fcfs # {}
  /\ \/ selected = <<Chosen>> /\ algs = <<>>
     \/ selected = <<>> /\ algs = <<Chosen>> /\ CanRun
PlanInv ==
  \/ plan = NoPlan
  \/ /\ step = "create" /\ selected = <<>> /\ Info.jobs # <<>> /\ FcfsReady(Info)
     /\ Planned(Info, plan)
Answered ==
  IF Answerable
  THEN LET T == response.tables
       IN  /\ response = Timetables(T, Chosen)
           /\ Explained(InfoOf(packet), T) /\ IsFiniteSet(T) /\ \A t \in T : t.nodes # {}
  ELSE response = Failure
Replied ==
  IF Answerable
  THEN /\ response.by = Chosen
       /\ written # Unserialized =>
            LET list == written.timetables
            IN  /\ Reads(list, list.elements) /\ Explained(InfoOf(packet), list.elements)
                /\ Reads(written.metrics, {})
  ELSE written = NotWritten

\* What holds of the last command at each step.
CommandInv ==
  /\ step = "read" => DataInv /\ written = NotWritten
  /\ step = "create" => DataInv /\ written = NotWritten /\ Taken /\ Created
  /\ step = "send" => written = NotWritten /\ Answered
  /\ step \in {"receive", "release"} => Replied
AnswerInv ==
  /\ commands \in Nat /\ PlanInv
  /\ IF commands = 0 THEN step = "receive" ELSE at \in {"serve", "0", "aborted"} /\ CommandInv

\* A hierarchy that init() takes is a forest.
LEMMA RootIsForest ==
  ASSUME DataInv, Taken
  PROVE  Root(Info) \in Forests
PROOF
  <1> DEFINE k == Place("rh")
             t == data[k].term
             F == RhItems[t]
  <1>1. k \in 0..6 /\ DataTypes[k + 1] = "rh" BY PlacesOfTypes, TypesAre
  <1>2. DOMAIN data = 0..6 /\ \A j \in 0..6 : SliceResult(DataTypes[j + 1], data[j]) = "fine"
    BY FineIs DEF Taken
  <1>3. data[k] # Null /\ RhSound[t]
    <2>1. SliceResult("rh", data[k]) = "fine" BY <1>1, <1>2
    <2>2. data[k] # Null /\ TermFine("rh", t) BY <2>1, SliceIsFine
    <2>3. QED BY <2>2 DEF TermFine
  <1>4. t \in RhTerms
    <2>1. k \in 0..(packet.total - 1) BY <1>1, <1>2 DEF DataInv
    <2>2. PICK i \in 1..(next - 1) : Fills(i, k) BY <1>3, <2>1 DEF DataInv
    <2>3. i \in DOMAIN packet.slices /\ packet.slices[i].body # Null
      BY <2>2 DEF DataInv, Readable
    <2>4. packet.slices[i] \in Range(packet.slices) BY <2>3 DEF Range
    <2>5. packet.slices[i].type = Place("rh") /\ data[k] = packet.slices[i].body
      BY <2>2 DEF Fills
    <2>6. packet.slices[i].body.term \in RhTerms
      BY <2>3, <2>4, <2>5, PacketsAssumption DEF DataInv
    <2>7. QED BY <2>5, <2>6
  <1>5. Info.rh = F BY DEF Info, SchedulingInfo
  <1> HIDE DEF t, k
  <1>6. F \in Seq(Items)
    <2> DEFINE A == {x \in Items : RhDepth[x] <= RhDepth[t]}
    <2>1. F \in Seq(A) BY <1>3, <1>4, ItemsOfSound
    <2>2. A \subseteq Items OBVIOUS
    <2> HIDE DEF A, F
    <2>3. QED BY <2>1, <2>2
  <1> HIDE DEF F
  <1>7. ASSUME Len(F) = 1 PROVE Children[F[1]] \in Seq(Items)
    <2>1. 1 \in DOMAIN F BY <1>6, <1>7
    <2>2. F[1] \in Items BY <1>6, <2>1
    <2>3. QED BY <2>2, ChildrenAre
  <1>8. QED BY <1>5, <1>6, <1>7 DEF Root, Forests

\* So what the plugin finds in it is what the tree has.
LEMMA RelationsAreFound ==
  ASSUME DataInv, Taken
  PROVE  Agrees(Info)
PROOF
  BY RootIsForest, HierarchyAgrees

\* The scheduling information that is taken is the command's.
LEMMA InfoIs ==
  ASSUME DataInv, Taken
  PROVE  /\ Complete(packet) /\ Sound(packet) /\ Info = InfoOf(packet)
         /\ Info.jobs \in Seq(Range(Info.jobs)) /\ Info.nodes \in Seq(Range(Info.nodes))
         /\ \A i \in DOMAIN Info.jobs : Info.jobs[i].count \in Nat
PROOF
  <1>1. Complete(packet) /\ Sound(packet) /\ Info = InfoOf(packet)
    BY FineIsSound DEF Taken, Info
  <1>2. LET list == Term(packet, "jobs").elements
        IN  list \in Seq(Range(list)) /\ \A i \in DOMAIN list : list[i].count \in Nat
    <2>1. LET list == Term(packet, "jobs").elements
          IN  list \in Seq(Range(list)) /\ \A j \in Range(list) : j.count \in Nat
      BY <1>1, ListsAre DEF Taken
    <2>2. QED BY <2>1 DEF Range
  <1>3. LET list == Term(packet, "nodes").elements IN list \in Seq(Range(list))
    BY <1>1, ListsAre DEF Taken
  <1>4. /\ InfoOf(packet).jobs = Term(packet, "jobs").elements
        /\ InfoOf(packet).nodes = Term(packet, "nodes").elements
    BY DEF InfoOf
  <1>5. QED BY <1>1, <1>2, <1>3, <1>4

\* It depends on the plugins' files, not on what main() does.
LEMMA CommandUnchanged ==
  ASSUME CommandInv, UNCHANGED <<packet, data, next, response, written, files, selected, algs, step>>
  PROVE  CommandInv'
PROOF
  <1>1. Fcfs' = Fcfs /\ Chosen' = Chosen BY DEF Fcfs, Chosen
  <1>2. Answerable' <=> Answerable BY <1>1 DEF Answerable
  <1>3. Answered' <=> Answered BY <1>1, <1>2 DEF Answered
  <1>4. Replied' <=> Replied BY <1>1, <1>2 DEF Replied
  <1>5. Created' <=> Created BY <1>1 DEF Created, CanRun
  <1>6. Taken' <=> Taken BY DEF Taken
  <1>7. DataInv' <=> DataInv BY DEF DataInv, Fills
  <1>8. QED BY <1>3, <1>4, <1>5, <1>6, <1>7 DEF CommandInv

LEMMA PlanUnchanged ==
  ASSUME PlanInv, plan = NoPlan \/ UNCHANGED <<data, step, selected>>, UNCHANGED plan
  PROVE  PlanInv'
PROOF
  BY DEF PlanInv, Info

\* There is no plan of a command that is read, sent or released, nor before the algorithm.
LEMMA PlanIs ==
  ASSUME PlanInv
  PROVE  (step # "create" \/ selected # <<>>) => plan = NoPlan
PROOF
  BY DEF PlanInv

\* No step of the program makes it false.
LEMMA MainKeepsAnswers ==
  ASSUME AnswerInv, PluginsInv, InMain
  PROVE  AnswerInv'
PROOF
  <1>1. UNCHANGED <<commands, packet, data, next, plan, response, written, step>>
    BY DEF InMain, commandVars, Main, InStart, BeginLoad, LoadPlugins, EndLoad, Return, Leave, Goes
  <1>0. PlanInv'
    <2>1. step # "create" \/ selected' = selected
      BY DEF InMain, Main, InStart, BeginLoad, LoadPlugins, EndLoad, Return, Leave, Goes, Load,
             LoadBegin, LoadFile, LoadEnd, Unload, DeleteDescriptor, CloseLibrary, DropFactory,
             pluginVars, chainVars
    <2>2. QED BY <1>1, <2>1, PlanIs, PlanUnchanged DEF AnswerInv
  <1>2. CASE commands = 0 BY <1>0, <1>1, <1>2 DEF AnswerInv
  <1>3. CASE commands # 0
    <2>1. at \in {"serve", "0", "aborted"} /\ CommandInv BY <1>3 DEF AnswerInv
    <2>2. ~InStart
      BY <2>1 DEF InStart, Start, ParseArg, CheckArgs, Scan, Configure, Open, BuildQueues
    <2>3. ~LoadPlugins
      BY <2>1 DEF LoadPlugins, Load, LoadFile, LoadEnd, PluginsInv, ChainInv
    <2>4. Return \/ Leave BY <2>1, <2>2, <2>3 DEF InMain, Main, BeginLoad, EndLoad, Goes
    <2>5. at' \in {"serve", "0", "aborted"} /\ UNCHANGED <<files, selected, algs>>
      BY <2>1, <2>4 DEF Return, Goes, Leave, Unload, DeleteDescriptor, CloseLibrary, DropFactory,
                        pluginVars, chainVars, startVars
    <2>6. CommandInv' BY <1>1, <2>1, <2>5, CommandUnchanged
    <2>7. QED BY <1>0, <1>1, <2>5, <2>6 DEF AnswerInv
  <1>4. QED BY <1>2, <1>3

LEMMA ReceiveKeepsAnswers ==
  ASSUME AnswerInv, Receive
  PROVE  AnswerInv'
PROOF
  <1>0. PlanInv'
    <2>1. step # "create" /\ plan' = plan
      BY DEF Receive, ReceiveCommand, Crash, ReadSlice, BreakOff, DropCommand, Abort, Passes, Steps,
             commandVars
    <2>2. QED BY <2>1, PlanIs, PlanUnchanged DEF AnswerInv
  <1>1. CASE ReceiveCommand
    <2>1. /\ at' = "serve" /\ step' = "read" /\ commands' = commands + 1 /\ written' = NotWritten
      BY <1>1 DEF ReceiveCommand, Passes, Steps, startVars
    <2>2. QED BY <1>0, <1>1, <2>1, DataBegins DEF AnswerInv, CommandInv
  <1>2. CASE ReadSlice
    <2>1. /\ at' = "serve" /\ step = "read" /\ step' = "read" /\ UNCHANGED <<commands, written>>
      BY <1>2 DEF ReadSlice, Passes, Steps, startVars
    <2>2. QED BY <1>0, <1>2, <2>1, DataGrows DEF AnswerInv, CommandInv
  <1>3. CASE BreakOff
    <2>1. /\ at' = "serve" /\ step = "read" /\ step' = "broken" /\ UNCHANGED commands
      BY <1>3 DEF BreakOff, Passes, Steps, startVars, commandVars
    <2>2. QED BY <1>0, <2>1 DEF AnswerInv, CommandInv
  <1>4. CASE DropCommand
    <2>1. /\ at' = "serve" /\ step = "read" /\ step' = "receive"
          /\ UNCHANGED <<commands, packet, written, files>>
      BY <1>4 DEF DropCommand, Passes, Steps, startVars, commandVars, pluginVars
    <2>2. DataInv /\ written = NotWritten /\ commands # 0 BY <2>1 DEF AnswerInv, CommandInv
    <2>3. packet.kind = "schedule" /\ next > packet.total /\ InitResult(data) # "fine"
      BY <1>4 DEF DropCommand, Parse
    <2>4. ~(Complete(packet) /\ Sound(packet)) BY <2>2, <2>3, FineIsSound
    <2>5. ~Answerable' BY <2>1, <2>4 DEF Answerable
    <2>6. Replied' BY <2>1, <2>2, <2>5 DEF Replied
    <2>7. QED BY <1>0, <2>1, <2>2, <2>6 DEF AnswerInv, CommandInv
  <1>5. CASE Crash
    <2>1. /\ step = "read" /\ at' = "aborted"
          /\ UNCHANGED <<commands, packet, data, next, response, written, files, selected, algs, step>>
      BY <1>5 DEF Crash, Abort, Goes, commandVars, pluginVars, chainVars
    <2>2. commands # 0 /\ CommandInv BY <2>1 DEF AnswerInv
    <2>3. CommandInv' BY <2>1, <2>2, CommandUnchanged
    <2>4. QED BY <1>0, <2>1, <2>2, <2>3 DEF AnswerInv
  <1>6. QED BY <1>1, <1>2, <1>3, <1>4, <1>5 DEF Receive

LEMMA ProcessKeepsAnswers ==
  ASSUME AnswerInv, PluginsInv, FilesInv, Process
  PROVE  AnswerInv'
PROOF
  <1>1. /\ at = "serve" /\ at' = "serve" /\ step \in {"read", "create"}
        /\ UNCHANGED <<commands, packet, data, next, written, files>>
    BY DEF Process, RespondFailure, SelectAlgorithms, NoAlgorithm, CreateAlgorithms, RunChain,
           InitPlugin, PassJob, FailJob, PlaceJob, ChainSucceeds, ChainFails, Constructs, Iterates,
           PlanOnly, RespondAndForget, SelectStep, FailStep, CreateStep, ChainStep, Passes, Steps,
           Respond, Select, CreateFails, CreateAlgorithm, CreateTimetable, startVars, pluginVars,
           factoryVars, programVars, commandVars
  <1>2. DataInv /\ written = NotWritten /\ commands # 0 /\ commands \in Nat /\ CommandInv /\ PlanInv
    BY <1>1 DEF AnswerInv, CommandInv
  <1>3. DataInv' BY <1>1, <1>2 DEF DataInv, Fills
  <1>4. Fcfs' = Fcfs /\ Chosen' = Chosen /\ (Answerable' <=> Answerable)
    BY <1>1 DEF Fcfs, Chosen, Answerable
  <1>5. ASSUME step' = "send", response' = Failure, ~Answerable, plan' = NoPlan PROVE AnswerInv'
    <2>1. Answered' /\ PlanInv' BY <1>4, <1>5 DEF Answered, PlanInv
    <2>2. QED BY <1>1, <1>2, <1>5, <2>1 DEF AnswerInv, CommandInv
  <1>6. ASSUME step' = "create", Taken, Created', PlanInv' PROVE AnswerInv'
    <2>1. Taken' BY <1>1, <1>6 DEF Taken
    <2>2. QED BY <1>1, <1>2, <1>3, <1>6, <2>1 DEF AnswerInv, CommandInv
  <1>7. CASE RespondFailure
    <2>1. ~(Complete(packet) /\ Sound(packet))
      <3>1. CASE packet.kind # "schedule" BY <3>1 DEF Complete
      <3>2. CASE packet.kind = "schedule"
        <4>1. next > packet.total /\ InitResult(data) = "refused"
          BY <1>7, <3>2 DEF RespondFailure, Parse
        <4>2. QED BY <1>2, <3>2, <4>1, FineIsSound
      <3>3. QED BY <3>1, <3>2
    <2>2. plan' = NoPlan BY <1>7, <1>2, PlanIs DEF RespondFailure, Passes, Steps, Respond
    <2>3. QED BY <1>5, <1>7, <2>1, <2>2 DEF RespondFailure, Passes, Steps, Respond, Answerable
  <1>8. CASE SelectAlgorithms
    <2>1. step = "read" /\ step' = "create" /\ Select(Schedulers) /\ Taken
      BY <1>8 DEF SelectAlgorithms, SelectStep, Steps, Parse, Taken
    <2>2. Fcfs # {} /\ selected' = <<Chosen>> BY <1>1, <2>1, ChosenIsSelected DEF Select
    <2>3. algs' = <<>> BY <2>1 DEF Select, PluginsInv, ChainInv
    <2>4. Created' BY <1>4, <2>2, <2>3 DEF Created
    <2>5. plan' = NoPlan BY <1>8, <1>2, <2>1, PlanIs DEF SelectAlgorithms, commandVars
    <2>6. QED BY <1>6, <2>1, <2>4, <2>5 DEF PlanInv
  <1>9. CASE NoAlgorithm
    <2>1. CASE ~Selectable(Schedulers)
      <3>1. Fcfs = {} BY <1>1, <2>1, ChosenIsSelected
      <3>2. ~FailStep
        <4>1. ASSUME step = "create" PROVE Selectable(Schedulers)
          BY <1>1, <1>2, <4>1, ChosenIsSelected DEF CommandInv, Created
        <4>2. QED BY <2>1, <4>1 DEF FailStep, Steps
      <3>3. plan' = NoPlan BY <1>9, <1>2, <3>2, PlanIs DEF NoAlgorithm, Passes, Steps, Respond
      <3>4. QED BY <1>5, <1>9, <3>1, <3>2, <3>3 DEF NoAlgorithm, Passes, Steps, Respond, Answerable
    <2>2. CASE Selectable(Schedulers)
      <3>1. FailStep /\ response' = Failure /\ plan' = plan BY <1>9, <2>2 DEF NoAlgorithm, Respond
      <3>2. step = "create" /\ step' = "send" /\ selected # <<>> /\ ~Creates(Head(selected), cpu)
        BY <3>1 DEF FailStep, Steps, CreateFails
      <3>3. selected = <<Chosen>> BY <1>2, <3>2 DEF CommandInv, Created
      <3>4. Head(selected) = Chosen /\ cpu.type = "Cpu" BY <3>3, <1>1 DEF FilesInv, Running
      <3>5. ~Answerable BY <3>2, <3>4 DEF Creates, Answerable
      <3>6. plan' = NoPlan BY <1>2, <3>1, <3>2, PlanIs
      <3>7. QED BY <1>5, <3>1, <3>2, <3>5, <3>6
    <2>3. QED BY <2>1, <2>2
  <1>10. CASE CreateAlgorithms
    <2>1. /\ step = "create" /\ step' = "create" /\ selected # <<>> /\ Creates(Head(selected), cpu)
          /\ algs' = Append(algs, Head(selected)) /\ selected' = Tail(selected)
      BY <1>10 DEF CreateAlgorithms, CreateStep, Steps, CreateAlgorithm
    <2>2. Taken /\ Fcfs # {} /\ selected = <<Chosen>> /\ algs = <<>>
      BY <1>2, <2>1 DEF CommandInv, Created
    <2>3. Head(selected) = Chosen /\ cpu.type = "Cpu" BY <2>2, <1>1 DEF FilesInv, Running
    <2>4. algs' = <<Chosen>> /\ selected' = <<>> BY <2>1, <2>2
    <2>5. CanRun BY <2>1, <2>3 DEF Creates, CanRun
    <2>6. Created' BY <1>1, <1>4, <2>2, <2>4, <2>5 DEF Created, CanRun
    <2>7. plan' = NoPlan BY <1>10, <1>2, <2>1, PlanIs DEF CreateAlgorithms, commandVars
    <2>8. QED BY <1>6, <2>1, <2>2, <2>6, <2>7 DEF PlanInv
  <1>11. CASE RunChain
    <2>1. step = "create" /\ selected = <<>>
      BY <1>11 DEF RunChain, InitPlugin, PassJob, FailJob, PlaceJob, ChainSucceeds, ChainFails,
                   Constructs, Iterates, ChainStep, Steps
    <2>2. Taken /\ Created /\ Fcfs # {} /\ algs = <<Chosen>> /\ CanRun
      BY <1>2, <2>1 DEF CommandInv, Created
    <2>3. /\ Complete(packet) /\ Sound(packet) /\ Info = InfoOf(packet)
          /\ Info.jobs \in Seq(Range(Info.jobs)) /\ Info.nodes \in Seq(Range(Info.nodes))
          /\ \A i \in DOMAIN Info.jobs : Info.jobs[i].count \in Nat
      BY <1>2, <2>2, InfoIs
    <2>4. Agrees(Info) BY <1>2, <2>2, RelationsAreFound
    <2>5. Answerable <=> Info.jobs = <<>> \/ FcfsReady(Info)
      BY <2>2, <2>3, <2>4, SchedulableIs DEF Answerable, CanRun
    <2>6. Info' = Info BY <1>1 DEF Info
    <2>7. CASE InitPlugin \/ PassJob \/ FailJob \/ PlaceJob
      <3>1. Constructs /\ UNCHANGED programVars
        BY <2>7 DEF InitPlugin, PassJob, FailJob, PlaceJob, Iterates, PlanOnly
      <3>2. UNCHANGED <<step, selected, algs, files>> BY <3>1 DEF programVars, pluginVars, chainVars
      <3>3. Created' BY <1>4, <2>2, <3>2 DEF Created, CanRun
      <3>4. Info.jobs # <<>> BY <3>1 DEF Constructs
      <3>5. Planned(Info, plan') /\ FcfsReady(Info)
        <4>1. CASE InitPlugin
          <5>1. FcfsReady(Info) /\ plan' = PlanFor(NodesPerCluster(Info)) BY <4>1 DEF InitPlugin
          <5>2. NodesPerCluster(Info) = [c \in Ids(Info.clusters) |-> Offers(Info, c)]
            <6>1. \A c \in Ids(Info.clusters) : NodesPerCluster(Info)[c] = Offers(Info, c)
              BY <2>3, <2>4, <5>1, OffersAre
            <6>2. NodesPerCluster(Info) =
                    [c \in Ids(Info.clusters) |-> NodesPerCluster(Info)[c]]
              BY DEF NodesPerCluster
            <6>3. QED BY <6>1, <6>2
          <5>3. QED BY <2>3, <5>1, <5>2, PlanBegins
        <4>2. CASE PassJob \/ FailJob \/ PlaceJob
          <5>1. plan.next \in DOMAIN Info.jobs
            BY <4>2 DEF PassJob, FailJob, PlaceJob, Iterates
          <5>2. plan # NoPlan
            <6>1. NoPlan.next = 0 BY DEF NoPlan
            <6>2. 0 \notin DOMAIN Info.jobs BY <2>3
            <6>3. QED BY <5>1, <6>1, <6>2
          <5>3. Planned(Info, plan) /\ FcfsReady(Info) BY <1>2, <5>2 DEF PlanInv
          <5>4. CASE PassJob BY <2>3, <5>1, <5>3, <5>4, PassKeepsPlan DEF PassJob, Job
          <5>5. CASE FailJob BY <2>3, <5>1, <5>3, <5>5, FailKeepsPlan DEF FailJob, Job
          <5>6. CASE PlaceJob
            <6>1. /\ ~IsPassed(Job, plan) /\ HasRoom(Job, plan)
                  /\ \E s \in NodeSets(Job, plan) : plan' = GiveNodes(Job, plan, s)
              BY <5>6 DEF PlaceJob
            <6>2. PICK s \in NodeSets(Job, plan) : plan' = GiveNodes(Job, plan, s) BY <6>1
            <6>3. QED BY <2>3, <5>1, <5>3, <6>1, <6>2, PlaceKeepsPlan DEF Job
          <5>7. QED BY <4>2, <5>3, <5>4, <5>5, <5>6
        <4>3. QED BY <2>7, <4>1, <4>2
      <3>6. PlanInv' BY <2>1, <2>6, <3>2, <3>4, <3>5 DEF PlanInv
      <3>7. QED BY <1>6, <2>1, <2>2, <3>2, <3>3, <3>6
    <2>8. CASE ChainSucceeds
      <3>1. /\ step' = "send" /\ plan' = NoPlan /\ response' = Timetables(plan.tables, Chosen)
            /\ Info.jobs = <<>> \/ plan.next > Len(Info.jobs)
        BY <2>2, <2>8 DEF ChainSucceeds, ChainStep, Steps, RespondAndForget
      <3>2. /\ Answerable /\ Explained(Info, plan.tables) /\ IsFiniteSet(plan.tables)
            /\ \A t \in plan.tables : t.nodes # {}
        <4>1. CASE Info.jobs = <<>>
          <5>1. plan = NoPlan BY <1>2, <4>1 DEF PlanInv
          <5>2. plan.tables = {} BY <5>1 DEF NoPlan
          <5>3. QED BY <2>5, <4>1, <5>2, NothingExplains, FS_EmptySet
        <4>2. CASE Info.jobs # <<>>
          <5>1. plan # NoPlan
            <6>1. NoPlan.next = 0 BY DEF NoPlan
            <6>2. Len(Info.jobs) \in Nat BY <2>3
            <6>3. QED BY <3>1, <4>2, <6>1, <6>2
          <5>2. Planned(Info, plan) /\ FcfsReady(Info) BY <1>2, <5>1 DEF PlanInv
          <5>3. QED BY <2>3, <2>5, <3>1, <4>2, <5>2, PlanExplains
        <4>3. QED BY <4>1, <4>2
      <3>3. response'.tables = plan.tables BY <3>1 DEF Timetables
      <3>4. Answered' BY <1>1, <1>4, <2>3, <3>1, <3>2, <3>3 DEF Answered
      <3>5. PlanInv' BY <3>1 DEF PlanInv
      <3>6. QED BY <1>1, <1>2, <3>1, <3>4, <3>5 DEF AnswerInv, CommandInv
    <2>9. CASE ChainFails
      <3>1. /\ step' = "send" /\ plan' = NoPlan /\ response' = Failure
            /\ Info.jobs # <<>> /\ ~FcfsReady(Info)
        BY <2>9 DEF ChainFails, ChainStep, Steps, RespondAndForget
      <3>2. QED BY <1>5, <2>5, <3>1
    <2>10. QED BY <1>11, <2>7, <2>8, <2>9 DEF RunChain
  <1>12. QED BY <1>7, <1>8, <1>9, <1>10, <1>11 DEF Process

LEMMA SendKeepsAnswers ==
  ASSUME AnswerInv, Send
  PROVE  AnswerInv'
PROOF
  <1>0. PlanInv'
    <2>1. step # "create" /\ plan' = plan
      BY DEF Send, SendResponse, ReleaseChain, SendStep, ReleaseStep, DoneStep, Passes, Steps,
             commandVars
    <2>2. QED BY <2>1, PlanIs, PlanUnchanged DEF AnswerInv
  <1>1. CASE SendResponse
    <2>1. /\ at' = "serve" /\ step = "send" /\ step' = "release"
          /\ UNCHANGED <<commands, packet, response, files>>
          /\ written' \in IF Sendable(response) THEN Serialized(response) ELSE {NotWritten}
      BY <1>1 DEF SendResponse, SendStep, Passes, Steps, startVars, pluginVars
    <2>2. /\ commands \in Nat \ {0} /\ Answered
      BY <2>1 DEF AnswerInv, CommandInv
    <2>3. Chosen' = Chosen /\ (Answerable' <=> Answerable)
      BY <2>1 DEF Fcfs, Chosen, Answerable
    <2>4. CASE Answerable
      <3> DEFINE T == response.tables
      <3>1. /\ response = Timetables(T, Chosen) /\ Explained(InfoOf(packet), T)
            /\ IsFiniteSet(T) /\ \A t \in T : t.nodes # {}
        BY <2>2, <2>4 DEF Answered
      <3> HIDE DEF T
      <3>2. Sendable(response) /\ response.by = Chosen BY <3>1 DEF Sendable, Timetables
      <3>3. written' \in Serialized(Timetables(T, Chosen)) BY <2>1, <3>1, <3>2
      <3>4. written' # Unserialized =>
              Reads(written'.timetables, T) /\ Reads(written'.metrics, {})
        BY <3>1, <3>3, ReadBack
      <3>5. written' # Unserialized => written'.timetables.elements = T BY <3>4 DEF Reads
      <3>6. Replied' BY <2>1, <2>3, <2>4, <3>1, <3>2, <3>4, <3>5 DEF Replied
      <3>7. QED BY <1>0, <2>1, <2>2, <3>6 DEF AnswerInv, CommandInv
    <2>5. CASE ~Answerable
      <3>1. response = Failure BY <2>2, <2>5 DEF Answered
      <3>2. ~Sendable(response) BY <3>1 DEF Sendable, Failure
      <3>3. Replied' BY <2>1, <2>3, <2>5, <3>2 DEF Replied
      <3>4. QED BY <1>0, <2>1, <2>2, <3>3 DEF AnswerInv, CommandInv
    <2>6. QED BY <2>4, <2>5
  <1>2. CASE ReleaseChain
    <2>1. /\ at' = "serve" /\ step = "release" /\ step' \in {"receive", "release"}
          /\ UNCHANGED <<commands, packet, data, next, response, written, files>>
      BY <1>2 DEF ReleaseChain, ReleaseStep, DoneStep, ReleaseTables, ReleaseAlgorithm, Passes,
                  Steps, startVars, pluginVars, factoryVars, commandVars
    <2>2. commands \in Nat \ {0} /\ Replied BY <2>1 DEF AnswerInv, CommandInv
    <2>3. Chosen' = Chosen /\ (Answerable' <=> Answerable)
      BY <2>1 DEF Fcfs, Chosen, Answerable
    <2>4. Replied' BY <2>1, <2>2, <2>3 DEF Replied
    <2>5. QED BY <1>0, <2>1, <2>2, <2>4 DEF AnswerInv, CommandInv
  <1>3. QED BY <1>1, <1>2 DEF Send

\* It holds all along.
LEMMA AnswerInvHolds == Spec => []AnswerInv
PROOF
  <1>1. Init => AnswerInv BY DEF Init, ProgramInit, AnswerInv, PlanInv
  <1>2. AnswerInv /\ PluginsInv /\ FilesInv /\ [Next]_vars => AnswerInv'
    <2> SUFFICES ASSUME AnswerInv, PluginsInv, FilesInv, [Next]_vars
                 PROVE  AnswerInv'
      OBVIOUS
    <2>1. CASE InMain BY <2>1, MainKeepsAnswers
    <2>2. CASE Receive BY <2>2, ReceiveKeepsAnswers
    <2>3. CASE Process \/ Send BY <2>3, ProcessKeepsAnswers, SendKeepsAnswers
    <2>4. CASE UNCHANGED vars
      <3>1. UNCHANGED <<commands, packet, data, next, plan, response, written, files, selected,
                        algs, step, at>>
        BY <2>4 DEF vars, programVars, commandVars, pluginVars, startVars
      <3>2. QED BY <3>1, CommandUnchanged, PlanUnchanged DEF AnswerInv
    <2>5. QED BY <2>1, <2>2, <2>3, <2>4 DEF Next
  <1>3. Spec => []PluginsInv /\ []FilesInv
    BY DaemonIsProgram, PluginsInvHolds, FilesInvHolds, PTL
  <1>4. QED BY <1>1, <1>2, <1>3, PTL DEF Spec

(* Every hierarchy that FCFS is given, however wide and deep, is accepted exactly if it is
   a tree of known items, each met once and in its place, and every node is related to
   the cluster above it and the partition it is in. *)
THEOREM DaemonRelationsAgree == Spec => []RelationsAgree
PROOF
  <1>1. AnswerInv => RelationsAgree
    <2>1. SUFFICES ASSUME AnswerInv, step = "create" PROVE Agrees(Info)
      BY DEF RelationsAgree, Agrees
    <2>2. DataInv /\ Taken BY <2>1 DEF AnswerInv, CommandInv
    <2>3. QED BY <2>2, RelationsAreFound
  <1>2. QED BY <1>1, AnswerInvHolds, PTL

(* Every command is answered by what it holds, whatever came before: by timetables that can
   be read back if it is whole and sound, the plugin is there and the hierarchy holds every
   node, once, and by nothing otherwise.  The timetables are of its queued jobs, on nodes
   that fit; dependencies come first, gangs are in a row and on different nodes, and no job
   that could be served is left out. *)
THEOREM DaemonAnswers == Spec => []AnswersAreExplained
PROOF
  <1>1. AnswerInv => AnswersAreExplained
    BY DEF AnswerInv, CommandInv, Replied, AnswersAreExplained
  <1>2. QED BY <1>1, AnswerInvHolds, PTL
=============================================================================
