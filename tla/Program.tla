------------------------------ MODULE Program ------------------------------
(***************************************************************************)
(* main() from the command line to the end (module Startup), and what it   *)
(* and the commands do with the plugins (module Plugins), whatever the     *)
(* commands hold: that is the matter of module Daemon, whose steps are     *)
(* those of this module.                                                   *)
(***************************************************************************)
EXTENDS Startup, Plugins

CONSTANT Contents        \* for each directory the sequence of its plugins' files

\* What find_files() returns is a sequence of entries.
ASSUME ContentsAssumption ==
  \A d \in Directories \cup {"."} :
    LET entries == {Contents[d][i] : i \in DOMAIN Contents[d]}
    IN  FindFiles(Contents[d]) \in Seq(entries)

VARIABLE step            \* what is done to a command: "receive", "read", "broken",
                         \* "create", "send" or "release"

programVars == <<startVars, pluginVars, step>>

ProgramInit == StartInit /\ PluginsInit /\ step = "receive"

-----------------------------------------------------------------------------
\* main()

InStart == Start /\ UNCHANGED <<pluginVars, step>>

Directory == IF Has("--plugins") THEN flags["--plugins"] ELSE "."
Goes(from, to) == at = from /\ at' = to /\ Unparsed /\ UNCHANGED <<cpu, service, step>>

BeginLoad ==
  /\ at = "load" /\ LoadBegin(Contents[Directory])
  /\ UNCHANGED <<startVars, step>>
LoadPlugins == Load /\ UNCHANGED <<startVars, step>>
EndLoad ==
  \/ factory = "loaded" /\ Goes("load", "configure") /\ UNCHANGED pluginVars
  \/ factory = "failed" /\ Goes("load", "-2") /\ UNCHANGED pluginVars

\* The stream ended, or is broken: main_loop() returns.
Return == step \in {"receive", "broken"} /\ Goes("serve", "0") /\ UNCHANGED pluginVars

\* The objects of main() are destroyed.
Leave ==
  /\ at \in {"0", "-2", "-3", "-42"} /\ Unload
  /\ UNCHANGED <<startVars, step>>

Main == InStart \/ BeginLoad \/ LoadPlugins \/ EndLoad \/ Return \/ Leave

-----------------------------------------------------------------------------
\* A command, from the Receiver to the end of its chain

Steps(from, to) == at = "serve" /\ step = from /\ step' = to /\ UNCHANGED startVars

\* A step that leaves the plugins alone.
Passes(from, to) == Steps(from, to) /\ UNCHANGED pluginVars

\* The program is gone, its objects are not destroyed.
Abort == step = "read" /\ Goes("serve", "aborted") /\ UNCHANGED pluginVars

\* It comes, is read slice by slice, and ends there if it is broken, dropped or refused.
ReadStep ==
  \/ Abort
  \/ Passes("receive", "read") \/ Passes("read", "read")
  \/ Passes("read", "broken") \/ Passes("read", "receive") \/ Passes("read", "send")

\* apply_schedulers() always asks for the same algorithm.
Schedulers == <<[family |-> "swm-fcfs", version |-> "1.0", device |-> "Cpu"]>>

SelectStep == Steps("read", "create") /\ Select(Schedulers)
CreateStep == Steps("create", "create") /\ CreateAlgorithm(cpu)
FailStep == Steps("create", "send") /\ CreateFails(cpu)
ChainStep(succeeded) ==
  Steps("create", "send") /\ selected = <<>> /\ CreateTimetable(succeeded)

SendStep == Passes("send", "release")

\* The controller and its chain are released.
ReleaseStep == Steps("release", "release") /\ (ReleaseTables \/ ReleaseAlgorithm)
DoneStep == Passes("release", "receive") /\ algs = <<>> /\ tables = {}

CommandStep ==
  \/ ReadStep \/ SelectStep \/ CreateStep \/ FailStep
  \/ \E succeeded \in BOOLEAN : ChainStep(succeeded)
  \/ SendStep \/ ReleaseStep \/ DoneStep

ProgramNext == Main \/ CommandStep

ProgramSpec == ProgramInit /\ [][ProgramNext]_programVars
=============================================================================
