------------------------------ MODULE Commands ------------------------------
(***************************************************************************)
(* What Receiver::get_data() reads of a command and what init() of the     *)
(* command makes of it (sched-lib/ctrl/receiver.cpp, commands.cpp).  The   *)
(* constructors of jobs, clusters, partitions, nodes and the grid belong   *)
(* to a library that is not in the repository: they take a sound term or   *)
(* throw.                                                                  *)
(***************************************************************************)
EXTENDS Integers, Sequences, SequencesExt

CONSTANTS Null,        \* a null pointer to a slice, and a slice of length 0
          Malformed,   \* an Erlang term that cannot be decoded
          RhTerms      \* the terms of resource hierarchies, with the terms inside them

Kinds == {"schedule", "interrupt", "metrics", "exchange"}

\* The types of data slices, by number.
DataTypes == <<"schedulers", "rh", "jobs", "grid", "clusters", "partitions", "nodes">>
DataTypeCount == Len(DataTypes)
Place(type) == CHOOSE i \in 0..(DataTypeCount - 1) : DataTypes[i + 1] = type

-----------------------------------------------------------------------------
\* Receiver::get_data(), one slice; a command is [kind, total, slices], where slices
\* are pairs of a type and a body and may end too early.  The total and the types are
\* chars, and signed.

Chars == -128..127

NoData(total) == [i \in 0..(total - 1) |-> Null]

\* The vector is cleared before it is resized.
Cleared_Kept(data, total) ==
  [i \in 0..(total - 1) |-> IF i \in DOMAIN data THEN data[i] ELSE Null]
Cleared(data, total) == NoData(total)

\* The stream may end before it, and a type that is not below the total is refused: one
\* below zero is not.
Readable(c, i) ==
  i \in DOMAIN c.slices /\ c.slices[i].type < c.total /\ c.slices[i].body # Null

\* A slice of a negative type is written ahead of the vector.
OutOfBounds(c, i) == Readable(c, i) /\ c.slices[i].type < 0

\* The slice's place is its type, not its turn; the vector has no slice that is written
\* elsewhere.
Stored(c, i, data) ==
  IF OutOfBounds(c, i) THEN data ELSE [data EXCEPT ![c.slices[i].type] = c.slices[i].body]

-----------------------------------------------------------------------------
\* ScheduleCommand::init(); a body is a record [version, term]

Current(body) == body.version = "current"
IsList(term) == term.form = "list"
Elements(term) == term.elements

\* The terms inside a term of a hierarchy.
TermsIn(term) ==
  CASE term.form = "list" -> Range(Elements(term))
    [] term.form = "tuple" -> {term.children}
    [] OTHER -> {}

\* How deep a term is: no term holds terms without end.
RhDepth[term \in RhTerms] ==
  IF TermsIn(term) = {} THEN 0 ELSE 1 + Max({RhDepth[t] : t \in TermsIn(term)})
ASSUME RhTermsAssumption ==
  \A term \in RhTerms :
    /\ RhDepth[term] \in Nat
    /\ IsList(term) => Elements(term) \in Seq(Range(Elements(term)))
    /\ \A t \in TermsIn(term) : t \in RhTerms /\ RhDepth[t] < RhDepth[term]

\* apply_rh_helper(): a list is the items of its elements, and a pair {{name, id},
\* children} is one item, whose children may be a list or a pair again.  An item is the
\* pair, its children are the items of what is in it.
RhSound[term \in RhTerms] ==
  CASE term.form = "list" -> \A i \in DOMAIN term.elements : RhSound[term.elements[i]]
    [] term.form = "tuple" ->
         term.arity = 2 /\ term.name # Malformed /\ RhSound[term.children]
    [] OTHER -> FALSE
RhItems[term \in RhTerms] ==
  IF IsList(term)
  THEN FlattenSeq([i \in DOMAIN term.elements |-> RhItems[term.elements[i]]])
  ELSE <<term>>

\* apply_jobs(), apply_clusters(), apply_partitions() and apply_nodes(): an empty list
\* is sound.
ListResult(term) ==
  CASE ~IsList(term) -> "refused"
    [] IsList(term) /\ Contains(Elements(term), Malformed) -> "thrown"
    [] OTHER -> "fine"

\* apply_grid(): an empty term is skipped.
GridResult(term) == IF term.form = "empty" \/ term.sound THEN "fine" ELSE "thrown"

SliceResult(type, body) ==
  IF body = Null \/ ~Current(body) THEN "refused"
  ELSE CASE type = "schedulers" -> "fine"
         [] type = "rh" -> IF RhSound[body.term] THEN "fine" ELSE "refused"
         [] type = "grid" -> GridResult(body.term)
         [] OTHER -> ListResult(body.term)

\* The slices are taken in the order of their types; the first that is not fine
\* decides, and whether it is refused or throws makes a difference to the Receiver.
Failing(data) ==
  {i \in DOMAIN data : SliceResult(DataTypes[i + 1], data[i]) # "fine"}
InitResult(data) ==
  IF DOMAIN data # 0..(DataTypeCount - 1) THEN "refused"
  ELSE IF Failing(data) = {} THEN "fine"
  ELSE LET i == CHOOSE j \in Failing(data) : \A k \in Failing(data) : j <= k
       IN  SliceResult(DataTypes[i + 1], data[i])

\* The scheduling information of a command that is fine.
SchedulingInfo(data) ==
  LET Of(type) == data[Place(type)].term
  IN  [rh |-> RhItems[Of("rh")], jobs |-> Elements(Of("jobs")),
       clusters |-> Elements(Of("clusters")), partitions |-> Elements(Of("partitions")),
       nodes |-> Elements(Of("nodes"))]
=============================================================================
