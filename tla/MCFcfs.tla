------------------------------- MODULE MCFcfs -------------------------------
(* Small instances of Fcfs: three jobs on four nodes of two partitions. *)
EXTENDS Fcfs

CONSTANTS n1, n2, n3, n4

MCJobIds == 1..3
MCNodes == {n1, n2, n3, n4}
MCPart == [n \in MCNodes |-> IF n = n1 THEN 1 ELSE 2]

\* What a job can ask for.
Asks(queued, deps, gangs, nums, fits, durations) ==
  [queued : queued, deps : deps, gang : gangs, num : nums, fits : fits, duration : durations]

\* Three jobs in their order (ignore_priorities, as the FCFS plugin calls
\* schedule(); sorting by priority and gang only changes the order).
Three(first, second, third) ==
  {[order |-> <<1, 2, 3>>, job |-> <<a, b, c>>] : a \in first, b \in second, c \in third}

Fits == {MCNodes, {n1, n2}}
GangInputs ==
  Three(Asks({TRUE}, {{}, {3}}, {"", "g"}, 1..2, Fits, 1..2),
        Asks({TRUE}, {{}, {1}}, {"", "g"}, 1..2, Fits, 1..2),
        Asks({TRUE}, {{}, {1}, {2}}, {"", "g"}, 1..2, {MCNodes}, {1}))

\* Jobs that are skipped or cannot be scheduled, and gangs that come twice.
Odd == Asks({TRUE, FALSE}, {{}}, {"", "g", "h"}, {0, 1}, {{n1}}, {1})

\* A gang (jobs 2 and 3) that waits for job 1's node, and a job that depends on it.
FourJobIds == 1..4
Ask(deps, gang, fits, duration) == [queued |-> TRUE, deps |-> deps, gang |-> gang,
                                    num |-> 1, fits |-> fits, duration |-> duration]
DelayedGang ==
  {[order |-> <<1, 2, 3, 4>>,
    job |-> <<Ask({}, "", {n1}, 2), Ask({}, "g", {n2}, 1), Ask({}, "g", {n1}, 1),
              Ask({2}, "", MCNodes, 1)>>]}

MCInputs == GangInputs \cup Three(Odd, Odd, Odd)
=============================================================================
