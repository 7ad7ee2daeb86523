------------------------------ MODULE Plugins ------------------------------
(***************************************************************************)
(* AlgorithmFactory, LibBinding and Algorithm (sched-lib/alg): the plugins *)
(* of a directory are loaded once; a chain's algorithms are created from   *)
(* them by Processor::create_algorithms(), and go before the factory does. *)
(* Code of a library is needed to delete what the library made: its        *)
(* descriptor, the contexts of algorithms and timetables.                  *)
(***************************************************************************)
EXTENDS Integers, Sequences, FiniteSets

\* An entry of a directory is a record [fate, family, version, device, binds].
Fates == {"fine",
          "other",           \* no regular file, or not named like a library
          "no_library",      \* dlopen() fails
          "incomplete",      \* a function is missing
          "no_descriptor",   \* the descriptor is a null pointer, or an exception is thrown
          "no_context"}      \* like "fine", but contexts cannot be created

\* A library is known by its file's place in the directory.
VARIABLES
  files,       \* what find_files() returned
  unread,      \* the place of the next file to load
  factory,     \* "empty", "loading", "loaded", "failed" or "gone"
  bindings,    \* lib_bindings_ and alg_ptrs_, the libraries in the order they were loaded
  opened,      \* the libraries that are open
  descs,       \* the libraries with a descriptor of theirs alive
  selected,    \* the libraries create_algorithms() has not created algorithms of
  algs,        \* the libraries of the chain's algorithms, each with a context
  tables       \* the libraries of the chain's timetables

pluginVars == <<files, unread, factory, bindings, opened, descs, selected, algs, tables>>
factoryVars == <<files, unread, factory, bindings, opened, descs>>
chainVars == <<selected, algs, tables>>

PluginsInit ==
  /\ files = <<>> /\ unread = 1 /\ factory = "empty" /\ bindings = <<>>
  /\ opened = {} /\ descs = {} /\ selected = <<>> /\ algs = <<>> /\ tables = {}

-----------------------------------------------------------------------------
\* What the code tests and computes, with slips it could contain

\* A library that fails is closed again, free_library(lib).
AfterFailure_Open(l) == opened \cup {l}
AfterFailure(l) == opened \ {l}

\* create_algorithms(): the first descriptor that fits.
Fits_AnyVersion(l, spec) == files[l].family = spec.family /\ files[l].device = spec.device
Fits(l, spec) ==
  /\ files[l].family = spec.family
  /\ files[l].version = spec.version
  /\ files[l].device = spec.device

Candidates(spec) == {i \in DOMAIN bindings : Fits(bindings[i], spec)}
FirstOf(s) == CHOOSE i \in s : \A j \in s : i <= j

\* ~LibBinding(): the descriptor is deleted before the library is closed.
Closable_AtOnce(l) == TRUE
Closable(l) == l \notin descs

-----------------------------------------------------------------------------
\* AlgorithmFactory::load_plugins()

\* find_files(): the regular files of a name like *.so, in the order they are read.
FindFiles(directory) ==
  LET Matches(entry) == entry.fate # "other" IN SelectSeq(directory, Matches)

\* No such file is an error.
LoadBegin(directory) ==
  /\ factory = "empty"
  /\ files' = FindFiles(directory)
  /\ factory' = IF files' = <<>> THEN "failed" ELSE "loading"
  /\ UNCHANGED <<unread, bindings, opened, descs, chainVars>>

LoadFile ==
  /\ factory = "loading" /\ unread <= Len(files)
  /\ unread' = unread + 1
  /\ CASE files[unread].fate \in {"fine", "no_context"} ->
            /\ bindings' = Append(bindings, unread)
            /\ opened' = opened \cup {unread} /\ descs' = descs \cup {unread}
       [] files[unread].fate \in {"incomplete", "no_descriptor"} ->
            opened' = AfterFailure(unread) /\ UNCHANGED <<bindings, descs>>
       [] OTHER -> UNCHANGED <<bindings, opened, descs>>
  /\ UNCHANGED <<files, factory, chainVars>>

LoadEnd ==
  /\ factory = "loading" /\ unread > Len(files)
  /\ factory' = IF bindings = <<>> THEN "failed" ELSE "loaded"
  /\ UNCHANGED <<files, unread, bindings, opened, descs, chainVars>>

-----------------------------------------------------------------------------
\* Processor::create_algorithms() and AlgorithmFactory::create()

Selectable(specs) == specs # <<>> /\ \A i \in DOMAIN specs : Candidates(specs[i]) # {}

\* All descriptors are found before the first algorithm is created.
Select(specs) ==
  /\ Selectable(specs)
  /\ selected' = [i \in DOMAIN specs |-> bindings[FirstOf(Candidates(specs[i]))]]
  /\ UNCHANGED <<factoryVars, algs, tables>>

\* A new Algorithm with its context, bound to the CPU.
Creates(l, cu) == files[l].fate = "fine" /\ cu.type \in files[l].binds

CreateAlgorithm(cu) ==
  /\ selected # <<>> /\ Creates(Head(selected), cu)
  /\ algs' = Append(algs, Head(selected))
  /\ selected' = Tail(selected)
  /\ UNCHANGED <<factoryVars, tables>>

\* The context cannot be created, or not be bound: res is cleared, and what was
\* created releases its context.
CreateFails(cu) ==
  /\ selected # <<>> /\ ~Creates(Head(selected), cu)
  /\ algs' = <<>> /\ selected' = <<>>
  /\ UNCHANGED <<factoryVars, tables>>

-----------------------------------------------------------------------------
\* Algorithm::create_timetable() of the chain's only algorithm, with success or not

CreateTimetable(succeeded) ==
  /\ tables' = IF succeeded THEN {Head(algs)} ELSE {}
  /\ UNCHANGED <<factoryVars, selected, algs>>

-----------------------------------------------------------------------------
\* Destructors

\* ~Chain(): its timetables go before its algorithms, and these release their contexts.
ReleaseTables ==
  /\ tables # {} /\ tables' = {}
  /\ UNCHANGED <<factoryVars, selected, algs>>

ReleaseAlgorithm ==
  /\ tables = {} /\ algs # <<>>
  /\ algs' = Tail(algs)
  /\ UNCHANGED <<factoryVars, selected, tables>>

\* ~AlgorithmFactory() has the last share of every binding: main() made it before the
\* service.
DeleteDescriptor ==
  /\ factory = "loaded" /\ bindings # <<>> /\ Head(bindings) \in descs
  /\ descs' = descs \ {Head(bindings)}
  /\ UNCHANGED <<files, unread, factory, bindings, opened, chainVars>>

CloseLibrary ==
  /\ factory = "loaded" /\ bindings # <<>> /\ Closable(Head(bindings))
  /\ opened' = opened \ {Head(bindings)}
  /\ bindings' = Tail(bindings)
  /\ UNCHANGED <<files, unread, factory, descs, chainVars>>

DropFactory ==
  /\ factory \in {"loaded", "failed"} /\ bindings = <<>>
  /\ factory' = "gone"
  /\ UNCHANGED <<files, unread, bindings, opened, descs, chainVars>>

Load == LoadFile \/ LoadEnd
Unload == DeleteDescriptor \/ CloseLibrary \/ DropFactory

-----------------------------------------------------------------------------
\* Properties

(* Code of a library is called only while it is open: what it made, its descriptor,
   the contexts of algorithms and the timetables, is deleted before dlclose(), and
   nothing is left open when the factory is gone.  A plugin that could not be used is
   closed and hides none of the others. *)
OpenAsLongAsUsed ==
  /\ descs \subseteq opened /\ tables \subseteq opened
  /\ \A i \in DOMAIN algs : algs[i] \in opened
  /\ factory = "gone" => opened = {}
  /\ factory = "loading" =>
       opened = {l \in 1..(unread - 1) : files[l].fate \in {"fine", "no_context"}}
=============================================================================
