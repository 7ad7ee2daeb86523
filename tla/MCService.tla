----------------------------- MODULE MCService -----------------------------
(* Input streams for Service. *)
EXTENDS Service

Written(kind, fate) == [kind |-> kind, creatable |-> TRUE, fate |-> fate]

\* Every command has the same id, so there is one chain at a time, and no command
\* names it.
Scripts == {
  <<Written("schedule", "fine"), Written("metrics", "fine"), Written("schedule", "throwing"),
    Written("schedule", "fine"), Written("schedule", "fine")>>,
  <<Written("schedule", "fine"), Written("exchange", "fine"), Written("schedule", "corrupted"),
    Written("schedule", "fine")>>,
  <<[Written("schedule", "fine") EXCEPT !.creatable = FALSE], Written("schedule", "fine"),
    Written("interrupt", "broken"), Written("metrics", "fine")>> }
=============================================================================
