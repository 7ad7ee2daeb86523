-------------------------- MODULE AccountingProofs --------------------------
(***************************************************************************)
(* The figures of Accounting and TimeCounter for any number of threads and *)
(* any clock: working, idle and busy time (TimesAddUp, WorkingIsExact),    *)
(* and the counters and rates against the events they are the sums of      *)
(* (EventsExplainValues).  SumFunction is a recursion over a finite set;   *)
(* what a sum is changed by is proved from the smallest counterexample.    *)
(***************************************************************************)
EXTENDS Accounting, FiniteSetTheorems, WellFoundedInduction, TLAPS

Typed ==
  /\ clock \in Int /\ start \in Int /\ last \in Int
  /\ idling \in Int /\ busy \in Int /\ held \in Nat
  /\ on \subseteq Threads /\ tp \in [Threads -> Int]
  /\ locker \in Threads \cup {Free}

\* Idle and busy time, with the idle period until `end', miss the astronomical
\* time by at most `slack'.
Within(idle, slack) ==
  /\ idle + busy <= (clock - start) + slack
  /\ clock - start <= idle + busy + slack

IInv ==
  /\ Typed
  /\ (locker = Free /\ on = {}) => Within(idling + (clock - last), held)
  /\ (locker = Free /\ on # {}) => Within(idling, held)
  /\ (locker # Free /\ locker \in on) =>
       /\ tp[locker] <= clock
       /\ Within(idling + (tp[locker] - last), held - (clock - tp[locker]))
  /\ (locker # Free /\ locker \notin on) => on = {} /\ Within(idling, held)

LEMMA InitIInv == ASSUME Init PROVE IInv
  BY TimeCounterAssumption DEF Init, IInv, Typed, Within

LEMMA TurnOnIInv ==
  ASSUME IInv, NEW t \in Threads, TurnOn(t) PROVE IInv'
<1>1. Typed'
  <2>1. tp' \in [Threads -> Int]
    BY DEF IInv, Typed, TurnOn
  <2>2. locker' \in Threads \cup {Free} /\ on' \subseteq Threads
    BY DEF IInv, Typed, TurnOn
  <2>. QED
    BY <2>1, <2>2 DEF IInv, Typed, TurnOn, points, sums, truth
<1>2. CASE on = {}
  <2>1. locker' = t /\ t \in on' /\ tp'[t] = clock /\ t # Free
    BY <1>2, TimeCounterAssumption DEF TurnOn, First, IInv, Typed
  <2>2. Within(idling + (clock - last), held)
    BY <1>2 DEF IInv, TurnOn
  <2>. QED
    BY <1>1, <2>1, <2>2 DEF IInv, Typed, Within, TurnOn, points, sums, truth
<1>3. CASE on # {}
  BY <1>1, <1>3 DEF IInv, Typed, Within, TurnOn, First, points, sums, truth
<1>. QED  BY <1>2, <1>3

LEMMA AddIdlingIInv ==
  ASSUME IInv, NEW t \in Threads, AddIdling(t) PROVE IInv'
<1>1. /\ tp[t] <= clock
      /\ Within(idling + (tp[t] - last), held - (clock - tp[t]))
  BY TimeCounterAssumption DEF IInv, AddIdling
<1>2. tp[t] \in Int
  BY DEF IInv, Typed
<1>. QED
  BY <1>1, <1>2 DEF IInv, Typed, Within, AddIdling, Idled, records, points, truth

LEMMA TurnOffIInv ==
  ASSUME IInv, NEW t \in Threads, TurnOff(t) PROVE IInv'
<1>1. Within(idling, held)
  BY DEF IInv, TurnOff
<1>2. CASE on \ {t} = {}
  BY <1>1, <1>2, TimeCounterAssumption DEF IInv, Typed, Within, TurnOff, Last, points, truth
<1>3. CASE on \ {t} # {}
  BY <1>1, <1>3 DEF IInv, Typed, Within, TurnOff, Last, points, truth
<1>. QED  BY <1>2, <1>3

LEMMA NoteLastIInv ==
  ASSUME IInv, NEW t \in Threads, NoteLast(t) PROVE IInv'
<1>1. on = {} /\ Within(idling, held)
  BY TimeCounterAssumption DEF IInv, NoteLast
<1>. QED
  BY <1>1 DEF IInv, Typed, Within, NoteLast, Noted, records, sums, truth

LEMMA ResetIInv == ASSUME IInv, Reset PROVE IInv'
  BY DEF IInv, Typed, Within, Reset, records

LEMMA TickIInv == ASSUME IInv, Tick PROVE IInv'
<1>1. Typed'
  BY DEF IInv, Typed, Tick, records, points, sums
<1>2. CASE locker = Free
  BY <1>1, <1>2 DEF IInv, Typed, Within, Tick, records, points, sums
<1>3. CASE locker # Free /\ locker \in on
  <2>1. tp[locker] \in Int
    BY <1>3 DEF IInv, Typed
  <2>. QED
    BY <1>1, <1>3, <2>1 DEF IInv, Typed, Within, Tick, records, points, sums
<1>4. CASE locker # Free /\ locker \notin on
  BY <1>1, <1>4 DEF IInv, Typed, Within, Tick, records, points, sums
<1>. QED  BY <1>2, <1>3, <1>4

LEMMA NextIInv == ASSUME IInv, [Next]_vars PROVE IInv'
<1>1. CASE UNCHANGED vars
  BY <1>1 DEF IInv, Typed, Within, vars, records, points, sums, truth
<1>2. ASSUME NEW t \in Threads, TurnOn(t) \/ AddIdling(t) \/ TurnOff(t) \/ NoteLast(t)
      PROVE  IInv'
  BY <1>2, TurnOnIInv, AddIdlingIInv, TurnOffIInv, NoteLastIInv
<1>3. CASE Reset \/ Tick
  BY <1>3, ResetIInv, TickIInv
<1>. QED  BY <1>1, <1>2, <1>3 DEF Next

(* The idle time get_times() returns and the time some thread worked add up to the
   astronomical time but for the time the counter's lock was held, for any set of
   threads and any interleaving of their turn_on(), turn_off() and reset() with
   the clock. *)
THEOREM TimesAddUpHolds == Spec => []TimesAddUp
<1>1. IInv => TimesAddUp
  BY DEF IInv, Typed, Within, TimesAddUp, Idling, Astronomical
<1>. QED  BY <1>1, InitIInv, NextIInv, PTL DEF Spec

LEMMA AccountingUsesCounter == AccountingSpec => Spec
<1>1. AccountingInit => Init
  BY DEF AccountingInit
<1>2. [AccountingNext]_accountingVars => [Next]_vars
  BY DEF AccountingNext, accountingVars, Measure, Work, Other, Registers, Next
<1>. QED  BY <1>1, <1>2, PTL DEF AccountingSpec, Spec

(* The same for the counter of a request whose threads work on metrics between
   their turn_on() and turn_off(), which wait neither for the counter nor change
   it. *)
THEOREM AccountingAddsUp == AccountingSpec => []TimesAddUp
  BY AccountingUsesCounter, TimesAddUpHolds, PTL

-----------------------------------------------------------------------------
\* What the sums of the model are: folds over finite sets, defined by recursion

LEMMA SmallestSubset ==
  ASSUME NEW S, IsFiniteSet(S), NEW B \in SUBSET SUBSET S, B # {}
  PROVE  \E T \in B : \A x \in T : T \ {x} \notin B
<1>1. IsWellFoundedOn(StrictSubsetOrdering(S), SUBSET S)
  BY FS_StrictSubsetOrderingWellFounded, FS_FiniteSubsetsOfFinite
<1>2. PICK T \in B : \A U \in B : ~(<<U, T>> \in StrictSubsetOrdering(S))
  BY <1>1, WFMin, Zenon
<1>3. \A x \in T : <<T \ {x}, T>> \in StrictSubsetOrdering(S)
  BY DEF StrictSubsetOrdering
<1>. QED  BY <1>2, <1>3

Chosen(s) == CHOOSE x \in s : TRUE

\* g is the sum of f over each of the sets.
SumsUp(g, f, sets) ==
  g = [s \in sets |-> IF s = {} THEN 0 ELSE f[Chosen(s)] + g[s \ {Chosen(s)}]]

LEMMA SumIs ==
  ASSUME NEW f, NEW S
  PROVE SumFunctionOnSet(f, S) = (CHOOSE g : SumsUp(g, f, SUBSET S))[S]
BY DEF SumFunctionOnSet, FoldFunctionOnSet, MapThenFoldSet, SumsUp, Chosen

LEMMA ChosenIsTaken ==
  ASSUME NEW S, IsFiniteSet(S), NEW s \in SUBSET S, s # {}
  PROVE  /\ Chosen(s) \in s /\ s \ {Chosen(s)} \in SUBSET S
         /\ Cardinality(s) \in Nat \ {0}
         /\ Cardinality(s \ {Chosen(s)}) = Cardinality(s) - 1
<1>1. IsFiniteSet(s)
  BY FS_Subset
<1>. QED  BY <1>1, FS_CardinalityType, FS_RemoveElement, FS_EmptySet DEF Chosen

LEMMA SumExists ==
  ASSUME NEW S, IsFiniteSet(S), NEW f
  PROVE  \E g : SumsUp(g, f, SUBSET S)
<1> DEFINE Upto(n) == {s \in SUBSET S : Cardinality(s) <= n}
           Good(n) == \E g : SumsUp(g, f, Upto(n))
           Bad == {T \in SUBSET S : ~Good(Cardinality(T))}
<1>1. \A s \in SUBSET S : IsFiniteSet(s) /\ Cardinality(s) \in Nat
  BY FS_Subset, FS_CardinalityType
<1>2. Bad = {}
  <2>1. SUFFICES ASSUME NEW T \in Bad, \A x \in T : T \ {x} \notin Bad PROVE FALSE
    <3>1. Bad \in SUBSET SUBSET S
      OBVIOUS
    <3> HIDE DEF Bad
    <3>. QED  BY <3>1, SmallestSubset
  <2>2. T # {}
    <3>1. SUFFICES ASSUME T = {} PROVE FALSE
      OBVIOUS
    <3>2. Upto(Cardinality({})) = {{}}
      BY <1>1, FS_EmptySet
    <3>3. SumsUp([s \in {{}} |-> 0], f, Upto(Cardinality({})))
      BY <3>2 DEF SumsUp
    <3>. QED  BY <2>1, <3>1, <3>3
  <2> DEFINE m == Cardinality(T)
  <2>3. m \in Nat \ {0} /\ Cardinality(T \ {Chosen(T)}) = m - 1
    BY <2>1, <2>2, ChosenIsTaken
  <2>4. Good(m - 1)
    <3>1. T \ {Chosen(T)} \in SUBSET S /\ T \ {Chosen(T)} \notin Bad
      BY <2>1, <2>2, ChosenIsTaken
    <3>2. Good(Cardinality(T \ {Chosen(T)}))
      BY <3>1, Zenon
    <3>. QED  BY <2>3, <3>2, Zenon
  <2> HIDE DEF m
  <2>5. PICK g : SumsUp(g, f, Upto(m - 1))
    BY <2>4
  <2> DEFINE h == [s \in Upto(m) |-> IF s = {} THEN 0 ELSE f[Chosen(s)] + g[s \ {Chosen(s)}]]
  <2>6. \A s \in Upto(m) : s # {} => s \ {Chosen(s)} \in Upto(m - 1)
    BY <2>3, ChosenIsTaken
  <2>7. \A s \in Upto(m - 1) : s \in Upto(m) /\ h[s] = g[s]
    <3>1. TAKE s \in Upto(m - 1)
    <3>2. s \in Upto(m)
      BY <1>1, <2>3
    <3>3. g[s] = IF s = {} THEN 0 ELSE f[Chosen(s)] + g[s \ {Chosen(s)}]
      BY <2>5 DEF SumsUp
    <3>. QED  BY <3>2, <3>3
  <2>8. SumsUp(h, f, Upto(m))
    <3> HIDE DEF Upto
    <3>1. \A s \in Upto(m) : s # {} => h[s \ {Chosen(s)}] = g[s \ {Chosen(s)}]
      BY <2>6, <2>7
    <3>. QED  BY <3>1 DEF SumsUp
  <2>9. Good(m)
    BY <2>8
  <2>. QED  BY <2>1, <2>9 DEF m
<1>3. Good(Cardinality(S))
  BY <1>2
<1>4. Upto(Cardinality(S)) = SUBSET S
  BY FS_Subset
<1>. QED  BY <1>3, <1>4

LEMMA SumTaken ==
  ASSUME NEW S, IsFiniteSet(S), NEW f
  PROVE  \E g : SumsUp(g, f, SUBSET S) /\ SumFunctionOnSet(f, S) = g[S]
  BY SumExists, SumIs

LEMMA SumsAgree ==
  ASSUME NEW U, IsFiniteSet(U), NEW f, NEW e, \A x \in U : f[x] = e[x],
         NEW S, U \subseteq S, NEW g, SumsUp(g, f, SUBSET S)
  PROVE  g[U] = SumFunctionOnSet(e, U)
<1>0. PICK h : SumsUp(h, e, SUBSET U) /\ SumFunctionOnSet(e, U) = h[U]
  BY SumTaken
<1> DEFINE Bad == {s \in SUBSET U : g[s] # h[s]}
<1>1. SUFFICES ASSUME Bad # {} PROVE FALSE
  BY <1>0
<1>2. PICK s \in Bad : \A x \in s : s \ {x} \notin Bad
  <2>1. Bad \in SUBSET SUBSET U
    OBVIOUS
  <2> HIDE DEF Bad
  <2>. QED  BY <1>1, <2>1, SmallestSubset
<1>3. /\ g[s] = IF s = {} THEN 0 ELSE f[Chosen(s)] + g[s \ {Chosen(s)}]
      /\ h[s] = IF s = {} THEN 0 ELSE e[Chosen(s)] + h[s \ {Chosen(s)}]
  BY <1>0, <1>2 DEF SumsUp
<1>4. s # {} => Chosen(s) \in s
  BY DEF Chosen
<1>5. s # {} => g[s \ {Chosen(s)}] = h[s \ {Chosen(s)}] /\ f[Chosen(s)] = e[Chosen(s)]
  BY <1>2, <1>4
<1>. QED  BY <1>2, <1>3, <1>5

LEMMA SumOfNothing == ASSUME NEW f PROVE SumFunctionOnSet(f, {}) = 0
<1>1. PICK g : SumsUp(g, f, SUBSET {}) /\ SumFunctionOnSet(f, {}) = g[{}]
  BY SumTaken, FS_EmptySet
<1>. QED  BY <1>1 DEF SumsUp

LEMMA SumOfSame ==
  ASSUME NEW S, IsFiniteSet(S), NEW f, NEW e, \A x \in S : f[x] = e[x]
  PROVE  SumFunctionOnSet(f, S) = SumFunctionOnSet(e, S)
<1>1. PICK g : SumsUp(g, f, SUBSET S) /\ SumFunctionOnSet(f, S) = g[S]
  BY SumTaken
<1>2. g[S] = SumFunctionOnSet(e, S)
  BY <1>1, SumsAgree
<1>. QED  BY <1>1, <1>2

LEMMA SumWithoutChosen ==
  ASSUME NEW S, IsFiniteSet(S), S # {}, NEW f
  PROVE  SumFunctionOnSet(f, S) = f[Chosen(S)] + SumFunctionOnSet(f, S \ {Chosen(S)})
<1>1. PICK U : U = S \ {Chosen(S)}
  OBVIOUS
<1>2. IsFiniteSet(U) /\ U \subseteq S
  BY <1>1, FS_RemoveElement
<1>3. PICK g : SumsUp(g, f, SUBSET S) /\ SumFunctionOnSet(f, S) = g[S]
  BY SumTaken
<1>4. g[S] = f[Chosen(S)] + g[U]
  BY <1>1, <1>3 DEF SumsUp
<1>5. g[U] = SumFunctionOnSet(f, U)
  <2>1. \A x \in U : f[x] = f[x]
    OBVIOUS
  <2>2. SumsUp(g, f, SUBSET S)
    BY <1>3
  <2>. QED  BY <1>2, <2>1, <2>2, SumsAgree, Zenon
<1>. QED  BY <1>1, <1>3, <1>4, <1>5

LEMMA SumIsInt ==
  ASSUME NEW S, IsFiniteSet(S), NEW f, \A x \in S : f[x] \in Int
  PROVE  SumFunctionOnSet(f, S) \in Int
<1> DEFINE Bad == {s \in SUBSET S : SumFunctionOnSet(f, s) \notin Int}
<1>1. SUFFICES ASSUME Bad # {} PROVE FALSE
  OBVIOUS
<1>2. PICK s \in Bad : \A x \in s : s \ {x} \notin Bad
  <2>1. Bad \in SUBSET SUBSET S
    OBVIOUS
  <2> HIDE DEF Bad
  <2>. QED  BY <1>1, <2>1, SmallestSubset
<1>3. s # {}
  BY <1>2, SumOfNothing
<1>4. Chosen(s) \in s
  BY <1>3 DEF Chosen
<1>5. SumFunctionOnSet(f, s \ {Chosen(s)}) \in Int /\ f[Chosen(s)] \in Int
  BY <1>2, <1>4
<1>6. SumFunctionOnSet(f, s) = f[Chosen(s)] + SumFunctionOnSet(f, s \ {Chosen(s)})
  BY <1>2, <1>3, FS_Subset, SumWithoutChosen
<1>. QED  BY <1>2, <1>5, <1>6

LEMMA SumWithout ==
  ASSUME NEW S, IsFiniteSet(S), NEW f, \A x \in S : f[x] \in Int, NEW x \in S
  PROVE  SumFunctionOnSet(f, S) = f[x] + SumFunctionOnSet(f, S \ {x})
<1> DEFINE Sum(s) == SumFunctionOnSet(f, s)
           Bad == {s \in SUBSET S : \E y \in s : Sum(s) # f[y] + Sum(s \ {y})}
<1>0. \A s \in SUBSET S : IsFiniteSet(s) /\ Sum(s) \in Int
  BY FS_Subset, SumIsInt
<1>1. SUFFICES ASSUME Bad # {} PROVE FALSE
  OBVIOUS
<1>2. PICK s \in Bad : \A y \in s : s \ {y} \notin Bad
  <2>1. Bad \in SUBSET SUBSET S
    OBVIOUS
  <2> HIDE DEF Bad
  <2>. QED  BY <1>1, <2>1, SmallestSubset
<1>3. PICK y \in s : Sum(s) # f[y] + Sum(s \ {y})
  BY <1>2
<1> DEFINE c == Chosen(s)
<1>4. c \in s
  BY <1>3 DEF Chosen
<1>5. Sum(s) = f[c] + Sum(s \ {c})
  BY <1>0, <1>2, <1>3, SumWithoutChosen
<1>6. c # y
  BY <1>3, <1>5
<1> HIDE DEF c, Sum
<1>7. Sum(s \ {c}) = f[y] + Sum((s \ {c}) \ {y})
  BY <1>2, <1>3, <1>4, <1>6
<1>8. Sum(s \ {y}) = f[c] + Sum((s \ {y}) \ {c})
  BY <1>2, <1>3, <1>4, <1>6
<1>9. (s \ {c}) \ {y} = (s \ {y}) \ {c}
  OBVIOUS
<1>10. /\ f[c] \in Int /\ f[y] \in Int /\ Sum((s \ {y}) \ {c}) \in Int
  BY <1>0, <1>2, <1>3, <1>4
<1>11. \A z \in Int : Sum(s \ {c}) = f[y] + z /\ Sum(s \ {y}) = f[c] + z
                     => f[c] + Sum(s \ {c}) = f[y] + Sum(s \ {y})
  BY <1>10
<1>. QED  BY <1>3, <1>5, <1>7, <1>8, <1>9, <1>10, <1>11, Zenon

LEMMA SumOfNext ==
  ASSUME NEW S, IsFiniteSet(S), NEW f, NEW e,
         \A x \in S : f[x] \in Int /\ e[x] = f[x] + 1
  PROVE  SumFunctionOnSet(e, S) = SumFunctionOnSet(f, S) + Cardinality(S)
<1> DEFINE Bad == {s \in SUBSET S :
                     SumFunctionOnSet(e, s) # SumFunctionOnSet(f, s) + Cardinality(s)}
<1>1. SUFFICES ASSUME Bad # {} PROVE FALSE
  OBVIOUS
<1>2. PICK s \in Bad : \A x \in s : s \ {x} \notin Bad
  <2>1. Bad \in SUBSET SUBSET S
    OBVIOUS
  <2> HIDE DEF Bad
  <2>. QED  BY <1>1, <2>1, SmallestSubset
<1>3. s # {}
  BY <1>2, SumOfNothing, FS_EmptySet
<1>4. PICK x \in s : TRUE
  BY <1>3
<1> DEFINE u == s \ {x}
<1>5. /\ IsFiniteSet(s) /\ IsFiniteSet(u) /\ u \in SUBSET S
      /\ Cardinality(u) = Cardinality(s) - 1 /\ Cardinality(s) \in Nat
  BY <1>2, <1>4, FS_Subset, FS_RemoveElement, FS_CardinalityType
<1>6. /\ SumFunctionOnSet(f, s) = f[x] + SumFunctionOnSet(f, u)
      /\ SumFunctionOnSet(e, s) = e[x] + SumFunctionOnSet(e, u)
  BY <1>2, <1>5, SumWithout
<1>7. SumFunctionOnSet(f, u) \in Int /\ SumFunctionOnSet(e, u) \in Int
  BY <1>5, SumIsInt
<1>8. SumFunctionOnSet(e, u) = SumFunctionOnSet(f, u) + Cardinality(u)
  BY <1>2, <1>4, <1>5
<1>9. f[x] \in Int /\ e[x] = f[x] + 1
  BY <1>2
<1> HIDE DEF u
<1>. QED  BY <1>2, <1>5, <1>6, <1>7, <1>8, <1>9

LEMMA SumOfChanged ==
  ASSUME NEW S, IsFiniteSet(S), NEW f, NEW e, NEW y \in S,
         \A x \in S : f[x] \in Int /\ e[x] \in Int,
         \A x \in S : x # y => e[x] = f[x]
  PROVE  SumFunctionOnSet(e, S) = SumFunctionOnSet(f, S) + (e[y] - f[y])
<1>1. /\ SumFunctionOnSet(f, S) = f[y] + SumFunctionOnSet(f, S \ {y})
      /\ SumFunctionOnSet(e, S) = e[y] + SumFunctionOnSet(e, S \ {y})
  BY SumWithout
<1>2. IsFiniteSet(S \ {y}) /\ \A x \in S \ {y} : e[x] = f[x]
  BY FS_RemoveElement
<1>3. SumFunctionOnSet(f, S \ {y}) = SumFunctionOnSet(e, S \ {y})
  BY <1>2, SumOfSame
<1>4. SumFunctionOnSet(f, S \ {y}) \in Int
  BY <1>2, SumIsInt
<1>. QED  BY <1>1, <1>3, <1>4

LEMMA SumOfAdded ==
  ASSUME NEW S, IsFiniteSet(S), NEW y, y \notin S, NEW f, NEW e,
         \A x \in S : f[x] \in Int /\ e[x] = f[x], e[y] \in Int
  PROVE  SumFunctionOnSet(e, S \cup {y}) = SumFunctionOnSet(f, S) + e[y]
<1>1. IsFiniteSet(S \cup {y}) /\ (S \cup {y}) \ {y} = S /\ \A x \in S \cup {y} : e[x] \in Int
  BY FS_AddElement
<1>2. SumFunctionOnSet(e, S \cup {y}) = e[y] + SumFunctionOnSet(e, S)
  BY <1>1, SumWithout
<1>3. SumFunctionOnSet(e, S) = SumFunctionOnSet(f, S)
  BY SumOfSame
<1>4. SumFunctionOnSet(f, S) \in Int
  BY SumIsInt
<1>. QED  BY <1>2, <1>3, <1>4

-----------------------------------------------------------------------------
\* The working time

WorkInv ==
  /\ Typed
  /\ IsFiniteSet(on)
  /\ working \in Int /\ attended \in Int
  /\ WorkingIsExact

\* What all threads worked, if these are on.
Shares(threads) == SumFunctionOnSet([t \in Threads |-> Worked(t)], threads)

LEMMA WorkingIsShares ==
  ASSUME on \subseteq Threads, IsFiniteSet(on) PROVE Working = working + Shares(on)
<1> DEFINE f == [t \in on |-> Worked(t)]
           e == [t \in Threads |-> Worked(t)]
<1>1. \A t \in on : f[t] = e[t]
  OBVIOUS
<1>2. DOMAIN f = on
  OBVIOUS
<1>3. SumFunctionOnSet(f, on) = SumFunctionOnSet(e, on)
  <2> HIDE DEF f, e
  <2>. QED  BY <1>1, SumOfSame
<1>. QED  BY <1>2, <1>3 DEF Working, Shares, SumFunction

LEMMA InitWorkInv == ASSUME Init PROVE WorkInv
<1>1. Typed /\ IsFiniteSet(on) /\ working \in Int /\ attended \in Int
  BY InitIInv, FS_EmptySet DEF Init, IInv
<1>2. Shares(on) = 0
  BY SumOfNothing DEF Init, Shares
<1>. QED  BY <1>1, <1>2, WorkingIsShares DEF Init, WorkInv, WorkingIsExact, Typed

\* A step that keeps the types, and adds to the time the threads were on what it adds
\* to their shares.
LEMMA WorkInvStep ==
  ASSUME WorkInv, Typed', IsFiniteSet(on'), working' \in Int, attended' \in Int,
         (working + Shares(on) = attended) => (working + Shares(on) = attended)'
  PROVE  WorkInv'
<1>1. Working = working + Shares(on)
  BY WorkingIsShares DEF WorkInv, Typed
<1>2. (Working = working + Shares(on))'
  <2>1. on' \subseteq Threads
    BY DEF Typed
  <2> DEFINE f == [t \in on' |-> Worked(t)']
             e == [t \in Threads |-> Worked(t)']
  <2>2. DOMAIN f = on' /\ \A t \in on' : f[t] = e[t]
    BY <2>1
  <2>3. SumFunctionOnSet(f, on') = SumFunctionOnSet(e, on')
    <3> HIDE DEF f, e
    <3>. QED  BY <2>2, SumOfSame
  <2>. QED  BY <2>2, <2>3 DEF Working, Shares, SumFunction
<1>. QED  BY <1>1, <1>2 DEF WorkInv, WorkingIsExact

LEMMA WorkedIsInt == ASSUME Typed PROVE \A t \in Threads : Worked(t) \in Int
  BY DEF Typed, Worked

LEMMA TurnOnWorks ==
  ASSUME IInv, WorkInv, NEW t \in Threads, TurnOn(t) PROVE WorkInv'
<1>1. Typed'
  BY TurnOnIInv DEF IInv
<1>2. on' = on \cup {t} /\ t \notin on /\ IsFiniteSet(on')
  BY FS_AddElement DEF TurnOn, WorkInv
<1>3. working' = working /\ attended' = attended /\ clock' = clock
  BY DEF TurnOn, sums, truth
<1> DEFINE f == [s \in Threads |-> Worked(s)]
           e == [s \in Threads |-> Worked(s)']
<1>4. \A s \in on : f[s] \in Int /\ e[s] = f[s]
  BY <1>2, <1>3 DEF Worked, WorkInv, Typed, TurnOn
<1>5. e[t] = 0
  BY <1>3 DEF Worked, WorkInv, Typed, TurnOn
<1>6. SumFunctionOnSet(e, on \cup {t}) = SumFunctionOnSet(f, on) + e[t]
  <2>1. IsFiniteSet(on) /\ e[t] \in Int
    BY <1>5 DEF WorkInv
  <2> HIDE DEF f, e
  <2>. QED  BY <1>2, <1>4, <2>1, SumOfAdded
<1>7. SumFunctionOnSet(f, on) \in Int
  <2> HIDE DEF f
  <2>. QED  BY <1>4, SumIsInt DEF WorkInv
<1>8. Shares(on)' = Shares(on)
  BY <1>2, <1>5, <1>6, <1>7 DEF Shares
<1>. QED  BY <1>1, <1>2, <1>3, <1>8, WorkInvStep DEF WorkInv

LEMMA TurnOffWorks ==
  ASSUME IInv, WorkInv, NEW t \in Threads, TurnOff(t) PROVE WorkInv'
<1>1. Typed'
  BY TurnOffIInv DEF IInv
<1>2. on' = on \ {t} /\ t \in on /\ IsFiniteSet(on')
  BY FS_RemoveElement DEF TurnOff, WorkInv
<1>3. working' = working + Worked(t) /\ attended' = attended /\ clock' = clock /\ tp' = tp
  BY DEF TurnOff, truth
<1> DEFINE f == [s \in Threads |-> Worked(s)]
<1>4. \A s \in on : f[s] \in Int
  BY WorkedIsInt DEF WorkInv, Typed
<1>5. SumFunctionOnSet(f, on) = f[t] + SumFunctionOnSet(f, on \ {t})
  <2> HIDE DEF f
  <2>. QED  BY <1>2, <1>4, SumWithout DEF WorkInv
<1>6. SumFunctionOnSet(f, on \ {t}) \in Int
  <2> HIDE DEF f
  <2>. QED  BY <1>2, <1>4, SumIsInt
<1>7. Worked(t) \in Int
  BY WorkedIsInt DEF WorkInv
<1>8. Shares(on) = Worked(t) + Shares(on)' /\ Shares(on)' \in Int
  BY <1>2, <1>3, <1>5, <1>6 DEF Shares, Worked
<1>9. working' \in Int /\ working + Shares(on) = (working + Shares(on))'
  BY <1>3, <1>7, <1>8 DEF WorkInv
<1>. QED  BY <1>1, <1>2, <1>3, <1>9, WorkInvStep DEF WorkInv

LEMMA TickWorks == ASSUME IInv, WorkInv, Tick PROVE WorkInv'
<1>1. Typed'
  BY TickIInv DEF IInv
<1>2. /\ on' = on /\ tp' = tp /\ working' = working /\ clock' = clock + 1
      /\ attended' = attended + Cardinality(on)
  BY DEF Tick, records, sums
<1>3. Cardinality(on) \in Nat
  BY FS_CardinalityType DEF WorkInv
<1> DEFINE f == [s \in Threads |-> Worked(s)]
           e == [s \in Threads |-> Worked(s)']
<1>4. \A s \in on : f[s] \in Int /\ e[s] = f[s] + 1
  BY <1>2 DEF WorkInv, Typed, Worked
<1>5. /\ SumFunctionOnSet(e, on) = SumFunctionOnSet(f, on) + Cardinality(on)
      /\ SumFunctionOnSet(f, on) \in Int
  <2> HIDE DEF f, e
  <2>. QED  BY <1>4, SumOfNext, SumIsInt DEF WorkInv
<1>6. Shares(on)' = Shares(on) + Cardinality(on) /\ Shares(on) \in Int
  BY <1>2, <1>5 DEF Shares
<1>. QED  BY <1>1, <1>2, <1>3, <1>6, WorkInvStep DEF WorkInv

LEMMA NextWorks == ASSUME IInv, WorkInv, [Next]_vars PROVE WorkInv'
<1>0. Typed'
  BY NextIInv DEF IInv
<1>1. ASSUME UNCHANGED <<clock, on, tp, working, attended>> PROVE WorkInv'
  BY <1>0, <1>1 DEF WorkInv, WorkingIsExact, Working, Worked
<1>2. CASE UNCHANGED vars
  BY <1>1, <1>2 DEF vars, records, sums, truth
<1>3. ASSUME NEW t \in Threads, AddIdling(t) \/ NoteLast(t) PROVE WorkInv'
  BY <1>1, <1>3 DEF AddIdling, NoteLast, records, points, sums, truth
<1>4. CASE Reset
  <2>1. on' = {} /\ working' = 0 /\ attended' = 0 /\ IsFiniteSet(on')
    BY <1>4, FS_EmptySet DEF Reset, records
  <2>2. Shares(on)' = 0
    BY <2>1, SumOfNothing DEF Shares
  <2>. QED  BY <1>0, <2>1, <2>2, WorkInvStep
<1>5. ASSUME NEW t \in Threads, TurnOn(t) \/ TurnOff(t) PROVE WorkInv'
  BY <1>5, TurnOnWorks, TurnOffWorks
<1>. QED  BY <1>2, <1>3, <1>4, <1>5, TickWorks DEF Next

(* The working time get_times() returns is the time of all threads added up, each from
   its turn_on() to its turn_off() or until now, for any number of threads. *)
THEOREM WorkingIsExactHolds == Spec => []WorkingIsExact
<1>1. WorkInv => WorkingIsExact
  BY DEF WorkInv
<1>. QED  BY <1>1, InitIInv, NextIInv, InitWorkInv, NextWorks, PTL DEF Spec

(* The same of a counter that is used together with the metrics of its request. *)
THEOREM AccountingIsExact == AccountingSpec => []WorkingIsExact
  BY AccountingUsesCounter, WorkingIsExactHolds, PTL

-----------------------------------------------------------------------------
\* The events

MetricsTyped ==
  /\ value = [o \in Objects |-> value[o]] /\ base = [o \in Objects |-> base[o]]
  /\ \A o \in Objects :
       /\ Registered(o) \subseteq Ids /\ value[o] \in [Registered(o) -> Int]
       /\ DOMAIN base[o] \subseteq Ids /\ base[o] \in [DOMAIN base[o] -> Int]
       /\ handled[o] \subseteq Registered(o) /\ handled[o] \subseteq DOMAIN base[o]
  /\ handled \in [Objects -> SUBSET Ids]
  /\ event \in [Clients -> Events \cup {Nothing}]
  /\ told \in [Ids -> Int]
  /\ IsFiniteSet({t \in Clients : event[t] # Nothing})

\* While the clone has no doubles it handles none of them.
CloneInv ==
  /\ cloning # {} => handled["clone"] \subseteq IntIds
  /\ \A s, t \in cloning : s = t

ExplainInv == MetricsTyped /\ CloneInv /\ EventsExplainValues

\* Functions on finite sets that differ in one argument
Extends(e, f, S, y) ==
  /\ IsFiniteSet(S) /\ y \notin S
  /\ f \in [S -> Int] /\ e \in [S \cup {y} -> Int] /\ \A x \in S : e[x] = f[x]
DiffersAt(e, f, S, y) ==
  /\ IsFiniteSet(S) /\ y \in S
  /\ f \in [S -> Int] /\ e \in [S -> Int] /\ \A x \in S : x # y => e[x] = f[x]

LEMMA SumExtended ==
  ASSUME NEW S, NEW y, NEW f, NEW e, Extends(e, f, S, y)
  PROVE  SumFunction(e) = SumFunction(f) + e[y]
  BY SumOfAdded DEF SumFunction, Extends

LEMMA SumDiffering ==
  ASSUME NEW S, NEW y, NEW f, NEW e, DiffersAt(e, f, S, y)
  PROVE  SumFunction(e) = SumFunction(f) + (e[y] - f[y])
  BY SumOfChanged DEF SumFunction, DiffersAt

LEMMA SumFunctionIsInt ==
  ASSUME NEW S, IsFiniteSet(S), NEW f \in [S -> Int]
  PROVE  SumFunction(f) \in Int
  BY SumIsInt DEF SumFunction

\* The two sides of EventsExplainValues
Owed(id) == [t \in Untold(id) |-> event[t].new - event[t].old]
Growth(id) == [o \in Handling(id) |-> value[o][id] - base[o][id]]

LEMMA SidesTyped ==
  ASSUME MetricsTyped, NEW id \in Ids
  PROVE  /\ Owed(id) \in [Untold(id) -> Int] /\ IsFiniteSet(Untold(id))
         /\ Growth(id) \in [Handling(id) -> Int] /\ IsFiniteSet(Handling(id))
         /\ told[id] \in Int
         /\ SumFunction(Owed(id)) \in Int /\ SumFunction(Growth(id)) \in Int
<1>1. IsFiniteSet(Untold(id))
  <2>1. Untold(id) \in SUBSET {t \in Clients : event[t] # Nothing}
    BY DEF Untold
  <2>. QED  BY <2>1, FS_Subset DEF MetricsTyped
<1>2. Owed(id) \in [Untold(id) -> Int]
  <2>1. \A t \in Untold(id) : event[t] \in Events
    BY DEF Untold, MetricsTyped
  <2>. QED  BY <2>1 DEF Owed, Events
<1>3. IsFiniteSet(Handling(id))
  <2>1. IsFiniteSet({"original"} \cup {"clone"})
    BY FS_Singleton, FS_AddElement
  <2>2. Handling(id) \in SUBSET ({"original"} \cup {"clone"})
    BY DEF Handling, Objects
  <2>. QED  BY <2>1, <2>2, FS_Subset
<1>4. Growth(id) \in [Handling(id) -> Int]
  <2>1. \A o \in Handling(id) : value[o][id] \in Int /\ base[o][id] \in Int
    BY DEF Handling, MetricsTyped
  <2>. QED  BY <2>1 DEF Growth
<1>. QED  BY <1>1, <1>2, <1>3, <1>4, SumFunctionIsInt DEF MetricsTyped

LEMMA SidesTypedNext ==
  ASSUME MetricsTyped', NEW id \in Ids
  PROVE  /\ Owed(id)' \in [Untold(id)' -> Int] /\ Growth(id)' \in [Handling(id)' -> Int]
<1>1. Owed(id)' \in [Untold(id)' -> Int]
  <2>1. \A t \in Untold(id)' : event'[t] \in Events
    BY DEF Untold, MetricsTyped
  <2>. QED  BY <2>1 DEF Owed, Events
<1>2. Growth(id)' \in [Handling(id)' -> Int]
  <2>1. \A o \in Handling(id)' : value'[o][id] \in Int /\ base'[o][id] \in Int
    BY DEF Handling, MetricsTyped
  <2>. QED  BY <2>1 DEF Growth
<1>. QED  BY <1>1, <1>2

Explained(id) == told[id] + SumFunction(Owed(id)) = SumFunction(Growth(id))

LEMMA AllExplained == EventsExplainValues <=> \A id \in Ids : Explained(id)
  BY DEF EventsExplainValues, Explained, Owed, Growth

\* What a step does to either side of the equation
LEMMA NothingOwed ==
  ASSUME NEW id \in Ids, Explained(id), told'[id] = told[id], Owed(id)' = Owed(id),
         Growth(id)' = Growth(id)
  PROVE  Explained(id)'
  BY DEF Explained

LEMMA HandlerAdded ==
  ASSUME MetricsTyped, MetricsTyped', NEW id \in Ids, Explained(id), NEW o, o \notin Handling(id),
         told'[id] = told[id], Owed(id)' = Owed(id), Handling(id)' = Handling(id) \cup {o},
         \A p \in Handling(id) : Growth(id)'[p] = Growth(id)[p], Growth(id)'[o] = 0
  PROVE  Explained(id)'
<1>1. Growth(id)' \in [Handling(id) \cup {o} -> Int]
  BY SidesTypedNext
<1>2. Extends(Growth(id)', Growth(id), Handling(id), o)
  BY <1>1, SidesTyped DEF Extends
<1>3. SumFunction(Growth(id)') = SumFunction(Growth(id)) + Growth(id)'[o]
  BY <1>2, SumExtended
<1>. QED  BY <1>3, SidesTyped DEF Explained

LEMMA EventAdded ==
  ASSUME MetricsTyped, MetricsTyped', NEW id \in Ids, Explained(id),
         NEW t, t \notin Untold(id), NEW o \in Handling(id), told'[id] = told[id],
         Untold(id)' = Untold(id) \cup {t}, \A s \in Untold(id) : Owed(id)'[s] = Owed(id)[s],
         Handling(id)' = Handling(id),
         \A p \in Handling(id) : p # o => Growth(id)'[p] = Growth(id)[p],
         Owed(id)'[t] = Growth(id)'[o] - Growth(id)[o]
  PROVE  Explained(id)'
<1>1. Owed(id)' \in [Untold(id) \cup {t} -> Int] /\ Growth(id)' \in [Handling(id) -> Int]
  BY SidesTypedNext
<1>2. /\ Extends(Owed(id)', Owed(id), Untold(id), t)
      /\ DiffersAt(Growth(id)', Growth(id), Handling(id), o)
  BY <1>1, SidesTyped DEF Extends, DiffersAt
<1>3. SumFunction(Owed(id)') = SumFunction(Owed(id)) + Owed(id)'[t]
  BY <1>2, SumExtended
<1>4. SumFunction(Growth(id)') = SumFunction(Growth(id)) + (Growth(id)'[o] - Growth(id)[o])
  BY <1>2, SumDiffering
<1>5. Owed(id)'[t] \in Int
  BY <1>1
<1>. QED  BY <1>3, <1>4, <1>5, SidesTyped DEF Explained

LEMMA EventTold ==
  ASSUME MetricsTyped, MetricsTyped', NEW id \in Ids, Explained(id), NEW t \in Untold(id),
         Untold(id)' = Untold(id) \ {t}, \A s \in Untold(id)' : Owed(id)'[s] = Owed(id)[s],
         told'[id] = told[id] + Owed(id)[t], Growth(id)' = Growth(id)
  PROVE  Explained(id)'
<1>1. Owed(id)' \in [Untold(id) \ {t} -> Int]
  BY SidesTypedNext
<1>2. IsFiniteSet(Untold(id) \ {t}) /\ (Untold(id) \ {t}) \cup {t} = Untold(id)
  BY SidesTyped, FS_RemoveElement
<1>3. Extends(Owed(id), Owed(id)', Untold(id) \ {t}, t)
  BY <1>1, <1>2, SidesTyped DEF Extends
<1>4. SumFunction(Owed(id)) = SumFunction(Owed(id)') + Owed(id)[t]
  BY <1>3, SumExtended
<1>5. SumFunction(Owed(id)') \in Int /\ Owed(id)[t] \in Int
  BY <1>1, <1>2, SidesTyped, SumFunctionIsInt
<1>. QED  BY <1>4, <1>5, SidesTyped DEF Explained

LEMMA ExplainStep ==
  ASSUME EventsExplainValues, \A id \in Ids : Explained(id) => Explained(id)'
  PROVE  EventsExplainValues'
<1>1. (\A id \in Ids : Explained(id)')  => EventsExplainValues'
  BY DEF EventsExplainValues, Explained, Owed, Growth
<1>. QED  BY <1>1, AllExplained

-----------------------------------------------------------------------------
\* Registration

LEMMA RegisterExplains ==
  ASSUME ExplainInv, NEW i \in Ids, Register(i) PROVE ExplainInv'
<1>1. /\ \A o \in Objects : handled[o] \subseteq Registered(o)
      /\ i \notin DOMAIN value["original"] /\ "original" \in Objects
  BY DEF ExplainInv, MetricsTyped, Register, Registered, Objects
<1>2. value' = [value EXCEPT !["original"] =
                   [x \in DOMAIN @ \cup {i} |-> IF x \in {i} THEN 0 ELSE @[x]]]
  BY DEF Register, Join
<1>3. MetricsTyped'
  <2>1. \A o \in Objects : /\ DOMAIN value'[o] \subseteq Ids /\ value'[o] \in [DOMAIN value'[o] -> Int]
                           /\ DOMAIN value[o] \subseteq DOMAIN value'[o]
    BY <1>2 DEF ExplainInv, MetricsTyped, Registered
  <2>2. value' = [o \in Objects |-> value'[o]]
    BY <1>2 DEF ExplainInv, MetricsTyped
  <2>. QED  BY <2>1, <2>2 DEF ExplainInv, MetricsTyped, Register, Registered
<1>4. CloneInv'
  BY DEF ExplainInv, CloneInv, Register
<1>5. ASSUME NEW id \in Ids, Explained(id) PROVE Explained(id)'
  <2>1. Owed(id)' = Owed(id) /\ told'[id] = told[id] /\ Handling(id)' = Handling(id)
    BY DEF Register, Owed, Untold, Handling
  <2>2. \A o \in Handling(id) : value'[o][id] = value[o][id] /\ base'[o][id] = base[o][id]
    BY <1>1, <1>2 DEF Handling, Registered, Register, ExplainInv, MetricsTyped
  <2>3. Growth(id)' = Growth(id)
    BY <2>1, <2>2 DEF Growth
  <2>. QED  BY <1>5, <2>1, <2>3, NothingOwed
<1>. QED  BY <1>3, <1>4, <1>5, ExplainStep DEF ExplainInv

LEMMA AddHandlerExplains ==
  ASSUME ExplainInv, NEW i \in Ids, AddHandler(i) PROVE ExplainInv'
<1>1. /\ i \in DOMAIN value["original"] /\ i \notin handled["original"] /\ "original" \in Objects
      /\ handled' = [handled EXCEPT !["original"] = @ \cup {i}]
  BY DEF AddHandler, Registered, Objects
<1>2. base' = [base EXCEPT !["original"] =
                  [x \in DOMAIN @ \cup {i} |-> IF x \in {i} THEN value["original"][x] ELSE @[x]]]
  <2>1. Part(value["original"], {i}) = [x \in {i} |-> value["original"][x]]
    BY <1>1 DEF Part
  <2>. QED  BY <2>1 DEF AddHandler, Join
<1>3. MetricsTyped'
  <2>1. \A o \in Objects : /\ DOMAIN base'[o] \subseteq Ids /\ base'[o] \in [DOMAIN base'[o] -> Int]
                           /\ handled'[o] \subseteq DOMAIN base'[o]
    BY <1>1, <1>2 DEF ExplainInv, MetricsTyped, Registered
  <2>2. base' = [o \in Objects |-> base'[o]]
    BY <1>2 DEF ExplainInv, MetricsTyped
  <2>3. handled' \in [Objects -> SUBSET Ids] /\ \A o \in Objects : handled'[o] \subseteq DOMAIN value[o]
    BY <1>1 DEF ExplainInv, MetricsTyped, Registered
  <2>. QED  BY <2>1, <2>2, <2>3 DEF ExplainInv, MetricsTyped, AddHandler, Registered
<1>4. CloneInv'
  BY <1>1 DEF ExplainInv, CloneInv, MetricsTyped, AddHandler
<1>5. ASSUME NEW id \in Ids, Explained(id) PROVE Explained(id)'
  <2>1. Owed(id)' = Owed(id) /\ told'[id] = told[id] /\ value' = value
    BY DEF AddHandler, Owed, Untold
  <2>2. CASE id # i
    <3>1. Handling(id)' = Handling(id)
      BY <1>1, <2>2 DEF Handling, ExplainInv, MetricsTyped
    <3>2. \A o \in Handling(id) : base'[o][id] = base[o][id]
      BY <1>2, <2>2 DEF Handling, ExplainInv, MetricsTyped
    <3>3. Growth(id)' = Growth(id)
      BY <2>1, <3>1, <3>2 DEF Growth
    <3>. QED  BY <1>5, <2>1, <3>3, NothingOwed
  <2>3. CASE id = i
    <3>1. Handling(i)' = Handling(i) \cup {"original"} /\ "original" \notin Handling(i)
      BY <1>1 DEF Handling, ExplainInv, MetricsTyped
    <3>2. \A o \in Handling(i) : base'[o][i] = base[o][i]
      BY <1>2, <3>1 DEF Handling, ExplainInv, MetricsTyped
    <3>3. base'["original"][i] = value["original"][i] /\ value["original"][i] \in Int
      BY <1>1, <1>2 DEF ExplainInv, MetricsTyped, Registered
    <3>4. Growth(i)'["original"] = 0 /\ \A o \in Handling(i) : Growth(i)'[o] = Growth(i)[o]
      BY <2>1, <3>1, <3>2, <3>3 DEF Growth
    <3>. QED  BY <1>3, <1>5, <2>1, <2>3, <3>1, <3>4, HandlerAdded DEF ExplainInv
  <2>. QED  BY <2>2, <2>3
<1>. QED  BY <1>3, <1>4, <1>5, ExplainStep DEF ExplainInv

-----------------------------------------------------------------------------
\* Changes and the calls of the handlers

LEMMA ChangeExplains ==
  ASSUME ExplainInv, NEW t \in Clients, NEW o \in Objects, NEW i \in Registered(o),
         NEW new \in Int, Change(t, o, i, new)
  PROVE  ExplainInv'
<1> DEFINE notice == [object |-> o, id |-> i, old |-> value[o][i], new |-> new]
<1>1. i \in Ids /\ value[o][i] \in Int /\ notice \in Events /\ notice # Nothing
  BY MetricsAssumption DEF ExplainInv, MetricsTyped, Events
<1>2. /\ value' = [value EXCEPT ![o] = [@ EXCEPT ![i] = new]]
      /\ event[t] = Nothing
      /\ event' = [event EXCEPT ![t] = IF i \in handled[o] THEN notice ELSE Nothing]
      /\ handled' = handled /\ cloning' = cloning /\ told' = told /\ base' = base
  BY DEF Change
<1> HIDE DEF notice
<1>3. MetricsTyped'
  <2>1. \A p \in Objects : /\ DOMAIN value'[p] = DOMAIN value[p]
                           /\ value'[p] \in [DOMAIN value'[p] -> Int]
    BY <1>1, <1>2 DEF ExplainInv, MetricsTyped, Registered
  <2>2. value' = [p \in Objects |-> value'[p]]
    BY <1>2 DEF ExplainInv, MetricsTyped
  <2>3. event' \in [Clients -> Events \cup {Nothing}]
    BY <1>1, <1>2 DEF ExplainInv, MetricsTyped
  <2>4. IsFiniteSet({s \in Clients : event'[s] # Nothing})
    <3> DEFINE E == {s \in Clients : event[s] # Nothing}
    <3>1. {s \in Clients : event'[s] # Nothing} \in SUBSET (E \cup {t})
      BY <1>2 DEF ExplainInv, MetricsTyped
    <3>2. IsFiniteSet(E \cup {t})
      BY FS_AddElement DEF ExplainInv, MetricsTyped
    <3>. QED  BY <3>1, <3>2, FS_Subset
  <2>. QED  BY <1>2, <2>1, <2>2, <2>3, <2>4 DEF ExplainInv, MetricsTyped, Registered
<1>4. CloneInv'
  BY <1>2 DEF ExplainInv, CloneInv
<1>5. ASSUME NEW id \in Ids, Explained(id) PROVE Explained(id)'
  <2>1. Handling(id)' = Handling(id)
    BY <1>2 DEF Handling
  <2>2. t \notin Untold(id)
    BY <1>2 DEF Untold
  <2>3. \A p \in Handling(id) : (p # o \/ id # i) => value'[p][id] = value[p][id]
    BY <1>2 DEF Handling, ExplainInv, MetricsTyped
  <2>4. \A s \in Clients : s # t => event'[s] = event[s]
    BY <1>2 DEF ExplainInv, MetricsTyped
  <2>5. event'[t] = IF i \in handled[o] THEN notice ELSE Nothing
    BY <1>2 DEF ExplainInv, MetricsTyped
  <2>6. CASE id = i /\ i \in handled[o]
    <3>1. Untold(id)' = Untold(id) \cup {t}
      BY <1>1, <2>4, <2>5, <2>6 DEF Untold, notice
    <3>2. \A s \in Untold(id) : Owed(id)'[s] = Owed(id)[s]
      BY <2>2, <2>4, <3>1 DEF Owed, Untold
    <3>3. Owed(id)'[t] = new - value[o][i]
      BY <2>5, <2>6, <3>1 DEF Owed, notice
    <3>4. o \in Handling(id) /\ \A p \in Handling(id) : p # o => Growth(id)'[p] = Growth(id)[p]
      BY <1>2, <2>1, <2>3, <2>6 DEF Growth, Handling
    <3>5. value'[o][i] = new
      BY <1>2 DEF ExplainInv, MetricsTyped, Registered
    <3>6. base[o][i] \in Int
      BY <2>6 DEF ExplainInv, MetricsTyped
    <3>7. Growth(id)'[o] - Growth(id)[o] = new - value[o][i]
      BY <1>1, <1>2, <2>1, <2>6, <3>4, <3>5, <3>6 DEF Growth
    <3>. QED  BY <1>2, <1>3, <1>5, <2>1, <2>2, <3>1, <3>2, <3>3, <3>4, <3>7, EventAdded
              DEF ExplainInv
  <2>7. CASE id # i \/ i \notin handled[o]
    <3>1. Untold(id)' = Untold(id) /\ \A s \in Untold(id) : s # t
      BY <1>1, <2>2, <2>4, <2>5, <2>7 DEF Untold, notice
    <3>2. Owed(id)' = Owed(id)
      BY <2>4, <3>1 DEF Owed, Untold
    <3>3. \A p \in Handling(id) : value'[p][id] = value[p][id]
      BY <2>3, <2>7 DEF Handling
    <3>4. Growth(id)' = Growth(id)
      BY <1>2, <2>1, <3>3 DEF Growth
    <3>. QED  BY <1>2, <1>5, <3>2, <3>4, NothingOwed
  <2>. QED  BY <2>6, <2>7
<1>. QED  BY <1>3, <1>4, <1>5, ExplainStep DEF ExplainInv

LEMMA TellExplains == ASSUME ExplainInv, NEW t \in Clients, Tell(t) PROVE ExplainInv'
<1>1. /\ event[t] \in Events /\ event[t] # Nothing
      /\ told' = [told EXCEPT ![event[t].id] = @ + event[t].new - event[t].old]
      /\ event' = [event EXCEPT ![t] = Nothing]
      /\ value' = value /\ handled' = handled /\ cloning' = cloning /\ base' = base
  BY DEF Tell, New, ExplainInv, MetricsTyped
<1>2. event[t].id \in Ids /\ event[t].new \in Int /\ event[t].old \in Int
  BY <1>1 DEF Events
<1>3. MetricsTyped'
  <2>1. told' \in [Ids -> Int] /\ event' \in [Clients -> Events \cup {Nothing}]
    BY <1>1, <1>2 DEF ExplainInv, MetricsTyped
  <2>2. IsFiniteSet({s \in Clients : event'[s] # Nothing})
    <3>1. {s \in Clients : event'[s] # Nothing} \in SUBSET {s \in Clients : event[s] # Nothing}
      BY <1>1 DEF ExplainInv, MetricsTyped
    <3>. QED  BY <3>1, FS_Subset DEF ExplainInv, MetricsTyped
  <2>. QED  BY <1>1, <2>1, <2>2 DEF ExplainInv, MetricsTyped, Registered
<1>4. CloneInv'
  BY <1>1 DEF ExplainInv, CloneInv
<1>5. ASSUME NEW id \in Ids, Explained(id) PROVE Explained(id)'
  <2>1. Growth(id)' = Growth(id)
    BY <1>1 DEF Growth, Handling
  <2>2. \A s \in Clients : s # t => event'[s] = event[s]
    BY <1>1 DEF ExplainInv, MetricsTyped
  <2>3. event'[t] = Nothing
    BY <1>1 DEF ExplainInv, MetricsTyped
  <2>4. Untold(id)' = Untold(id) \ {t}
    BY <2>2, <2>3 DEF Untold
  <2>5. \A s \in Untold(id)' : Owed(id)'[s] = Owed(id)[s]
    BY <2>2, <2>4 DEF Owed, Untold
  <2>6. CASE id = event[t].id
    <3>1. t \in Untold(id)
      BY <1>1, <2>6 DEF Untold
    <3>2. told'[id] = told[id] + Owed(id)[t]
      BY <1>1, <1>2, <2>6, <3>1 DEF Owed, ExplainInv, MetricsTyped
    <3>. QED  BY <1>3, <1>5, <2>1, <2>4, <2>5, <3>1, <3>2, EventTold DEF ExplainInv
  <2>7. CASE id # event[t].id
    <3>1. Untold(id)' = Untold(id)
      BY <2>4, <2>7 DEF Untold
    <3>2. Owed(id)' = Owed(id)
      BY <2>5, <3>1 DEF Owed
    <3>3. told'[id] = told[id]
      BY <1>1, <2>7 DEF ExplainInv, MetricsTyped
    <3>. QED  BY <1>5, <2>1, <3>2, <3>3, NothingOwed
  <2>. QED  BY <2>6, <2>7
<1>. QED  BY <1>3, <1>4, <1>5, ExplainStep DEF ExplainInv

-----------------------------------------------------------------------------
\* The clone, which takes a type of metrics it handles none of

LEMMA CopyTypes ==
  ASSUME MetricsTyped, NEW ids \in SUBSET Ids, Copy(ids)
  PROVE  /\ MetricsTyped'
         /\ handled'["clone"] = handled["clone"] \cup (handled["original"] \cap ids)
         /\ handled'["original"] = handled["original"]
         /\ value'["original"] = value["original"] /\ base'["original"] = base["original"]
         /\ \A id \in Registered("clone") \ ids : value'["clone"][id] = value["clone"][id]
         /\ \A id \in DOMAIN base["clone"] \ ids : base'["clone"][id] = base["clone"][id]
         /\ \A id \in handled["original"] \cap ids :
              value'["clone"][id] = base'["clone"][id] /\ value'["clone"][id] \in Int
<1>1. /\ "clone" \in Objects /\ "original" \in Objects /\ Objects = {"original", "clone"}
      /\ \A o \in Objects : handled[o] \subseteq DOMAIN value[o] /\ handled[o] \subseteq DOMAIN base[o]
      /\ \A o \in Objects : /\ value[o] \in [DOMAIN value[o] -> Int]
                            /\ base[o] \in [DOMAIN base[o] -> Int]
                            /\ DOMAIN value[o] \subseteq Ids /\ DOMAIN base[o] \subseteq Ids
  BY DEF MetricsTyped, Registered, Objects
<1> DEFINE v == Part(value["original"], ids)
           b == Part(value["original"], handled["original"] \cap ids)
<1>2. /\ DOMAIN v = DOMAIN value["original"] \cap ids
      /\ DOMAIN b = handled["original"] \cap ids
      /\ \A id \in DOMAIN v : v[id] = value["original"][id] /\ v[id] \in Int
      /\ \A id \in DOMAIN b : b[id] = v[id] /\ id \in DOMAIN v
  BY <1>1 DEF Part
<1>3. /\ value' = [value EXCEPT !["clone"] = Join(@, v)]
      /\ base' = [base EXCEPT !["clone"] = Join(@, b)]
      /\ handled' = [handled EXCEPT !["clone"] = @ \cup (handled["original"] \cap ids)]
      /\ event' = event /\ told' = told
  BY DEF Copy
<1> HIDE DEF v, b
<1>4. /\ value'["clone"] = Join(value["clone"], v) /\ base'["clone"] = Join(base["clone"], b)
      /\ value'["original"] = value["original"] /\ base'["original"] = base["original"]
      /\ handled'["clone"] = handled["clone"] \cup (handled["original"] \cap ids)
      /\ handled'["original"] = handled["original"]
  BY <1>1, <1>3 DEF MetricsTyped
<1>5. /\ DOMAIN value'["clone"] = DOMAIN value["clone"] \cup DOMAIN v
      /\ \A id \in DOMAIN value'["clone"] :
           value'["clone"][id] = IF id \in DOMAIN v THEN v[id] ELSE value["clone"][id]
      /\ value'["clone"] \in [DOMAIN value'["clone"] -> Int]
  BY <1>1, <1>2, <1>4 DEF Join
<1>6. /\ DOMAIN base'["clone"] = DOMAIN base["clone"] \cup DOMAIN b
      /\ \A id \in DOMAIN base'["clone"] :
           base'["clone"][id] = IF id \in DOMAIN b THEN b[id] ELSE base["clone"][id]
      /\ base'["clone"] \in [DOMAIN base'["clone"] -> Int]
  BY <1>1, <1>2, <1>4 DEF Join
<1>7. MetricsTyped'
  <2>1. value' = [o \in Objects |-> value'[o]] /\ base' = [o \in Objects |-> base'[o]]
    BY <1>3 DEF MetricsTyped
  <2>2. \A o \in Objects : /\ DOMAIN value'[o] \subseteq Ids /\ value'[o] \in [DOMAIN value'[o] -> Int]
                           /\ DOMAIN base'[o] \subseteq Ids /\ base'[o] \in [DOMAIN base'[o] -> Int]
    BY <1>1, <1>2, <1>4, <1>5, <1>6
  <2>3. \A o \in Objects : /\ handled'[o] \subseteq DOMAIN value'[o]
                           /\ handled'[o] \subseteq DOMAIN base'[o]
    BY <1>1, <1>2, <1>4, <1>5, <1>6
  <2>4. handled' \in [Objects -> SUBSET Ids]
    BY <1>1, <1>3 DEF MetricsTyped
  <2>. QED  BY <1>3, <2>1, <2>2, <2>3, <2>4 DEF MetricsTyped, Registered
<1>8. \A id \in handled["original"] \cap ids :
        value'["clone"][id] = base'["clone"][id] /\ value'["clone"][id] \in Int
  BY <1>2, <1>5, <1>6
<1>9. \A id \in Registered("clone") \ ids : value'["clone"][id] = value["clone"][id]
  BY <1>2, <1>5 DEF Registered
<1>10. \A id \in DOMAIN base["clone"] \ ids : base'["clone"][id] = base["clone"][id]
  BY <1>2, <1>6
<1>. QED  BY <1>4, <1>7, <1>8, <1>9, <1>10

LEMMA CopyExplains ==
  ASSUME ExplainInv, NEW ids \in SUBSET Ids, Copy(ids), handled["clone"] \cap ids = {}
  PROVE  MetricsTyped' /\ EventsExplainValues'
<1>1. MetricsTyped'
  BY CopyTypes DEF ExplainInv
<1>2. Objects = {"original", "clone"}
  BY DEF Objects
<1>3. ASSUME NEW id \in Ids, Explained(id) PROVE Explained(id)'
  <2>1. Owed(id)' = Owed(id) /\ told'[id] = told[id]
    BY DEF Copy, Owed, Untold
  <2>2. \A o \in Handling(id) : value'[o][id] = value[o][id] /\ base'[o][id] = base[o][id]
    <3>1. handled["clone"] \subseteq Registered("clone") /\ handled["clone"] \subseteq DOMAIN base["clone"]
      BY <1>2 DEF ExplainInv, MetricsTyped
    <3>. QED  BY <1>2, <3>1, CopyTypes DEF ExplainInv, Handling
  <2>3. CASE id \in handled["original"] \cap ids
    <3>1. Handling(id)' = Handling(id) \cup {"clone"} /\ "clone" \notin Handling(id)
      BY <1>2, <2>3, CopyTypes DEF Handling, ExplainInv
    <3>2. value'["clone"][id] = base'["clone"][id] /\ value'["clone"][id] \in Int
      BY <2>3, CopyTypes DEF ExplainInv
    <3>3. Growth(id)'["clone"] = 0 /\ \A o \in Handling(id) : Growth(id)'[o] = Growth(id)[o]
      BY <2>2, <3>1, <3>2 DEF Growth
    <3>. QED  BY <1>1, <1>3, <2>1, <3>1, <3>3, HandlerAdded DEF ExplainInv
  <2>4. CASE id \notin handled["original"] \cap ids
    <3>1. Handling(id)' = Handling(id)
      BY <1>2, <2>4, CopyTypes DEF Handling, ExplainInv
    <3>2. Growth(id)' = Growth(id)
      BY <2>2, <3>1 DEF Growth
    <3>. QED  BY <1>3, <2>1, <3>2, NothingOwed
  <2>. QED  BY <2>3, <2>4
<1>. QED  BY <1>1, <1>3, ExplainStep DEF ExplainInv

LEMMA CloneExplains ==
  ASSUME ExplainInv, NEW t \in Clients, CloneInts(t) \/ CloneDoubles(t) PROVE ExplainInv'
<1>1. IntIds \in SUBSET Ids /\ DoubleIds \in SUBSET Ids
  BY DEF Ids
<1>2. CASE CloneInts(t)
  <2>1. handled["clone"] = {}
    <3>1. DOMAIN value["clone"] = {}
      BY <1>2 DEF CloneInts, NoMetrics
    <3>. QED  BY <3>1 DEF ExplainInv, MetricsTyped, Registered, Objects
  <2>2. MetricsTyped' /\ EventsExplainValues'
    BY <1>1, <1>2, <2>1, CopyExplains DEF CloneInts
  <2>3. handled'["clone"] \subseteq IntIds
    BY <1>1, <1>2, <2>1, CopyTypes DEF CloneInts, ExplainInv
  <2>. QED  BY <1>2, <2>2, <2>3 DEF CloneInts, ExplainInv, CloneInv
<1>3. CASE CloneDoubles(t)
  <2>1. handled["clone"] \cap DoubleIds = {}
    BY <1>3, MetricsAssumption DEF CloneDoubles, ExplainInv, CloneInv
  <2>2. MetricsTyped' /\ EventsExplainValues'
    BY <1>1, <1>3, <2>1, CopyExplains DEF CloneDoubles
  <2>3. cloning' = {}
    BY <1>3 DEF CloneDoubles, ExplainInv, CloneInv
  <2>. QED  BY <2>2, <2>3 DEF ExplainInv, CloneInv
<1>. QED  BY <1>2, <1>3

-----------------------------------------------------------------------------
LEMMA InitExplains == ASSUME MetricsInit PROVE ExplainInv
<1>1. /\ value = [o \in Objects |-> NoMetrics] /\ base = [o \in Objects |-> NoMetrics]
      /\ handled = [o \in Objects |-> {}] /\ event = [t \in Clients |-> Nothing]
      /\ told = [id \in Ids |-> 0] /\ cloning = {}
  BY DEF MetricsInit
<1>2. DOMAIN NoMetrics = {} /\ NoMetrics \in [{} -> Int]
  BY DEF NoMetrics
<1>3. {t \in Clients : event[t] # Nothing} = {}
  BY <1>1
<1>4. MetricsTyped
  BY <1>1, <1>2, <1>3, FS_EmptySet DEF MetricsTyped, Registered
<1>5. \A id \in Ids : Explained(id)
  <2>1. TAKE id \in Ids
  <2>2. Untold(id) = {} /\ Handling(id) = {}
    BY <1>1 DEF Untold, Handling
  <2>3. DOMAIN Owed(id) = {} /\ DOMAIN Growth(id) = {}
    BY <2>2 DEF Owed, Growth
  <2>4. SumFunction(Owed(id)) = 0 /\ SumFunction(Growth(id)) = 0
    BY <2>3, SumOfNothing DEF SumFunction
  <2>. QED  BY <1>1, <2>4 DEF Explained
<1>. QED  BY <1>1, <1>4, <1>5, AllExplained DEF ExplainInv, CloneInv

LEMMA UnchangedExplains == ASSUME ExplainInv, UNCHANGED metricsVars PROVE ExplainInv'
<1>1. EventsExplainValues'
  <2>1. ASSUME NEW id \in Ids, Explained(id) PROVE Explained(id)'
    BY <2>1 DEF metricsVars, Explained, Owed, Growth, Untold, Handling
  <2>. QED  BY <2>1, ExplainStep DEF ExplainInv
<1>. QED  BY <1>1 DEF metricsVars, ExplainInv, MetricsTyped, CloneInv, Registered

LEMMA StepExplains ==
  ASSUME ExplainInv, NEW t \in Clients, MetricsStep(t) PROVE ExplainInv'
<1>1. ASSUME NEW o \in Objects, NEW id \in Ids, Update(t, o, id, 1) \/ ResetValue(t, o, id)
      PROVE  ExplainInv'
  <2>1. id \in Registered(o) /\ value[o][id] \in Int
    BY <1>1 DEF Update, ResetValue, ExplainInv, MetricsTyped
  <2>. QED  BY <1>1, <2>1, ChangeExplains DEF Update, ResetValue
<1>. QED  BY <1>1, TellExplains, CloneExplains DEF MetricsStep

LEMMA NextExplains ==
  ASSUME ExplainInv, [AccountingNext]_accountingVars PROVE ExplainInv'
<1>1. CASE UNCHANGED metricsVars
  BY <1>1, UnchangedExplains
<1>2. ASSUME NEW t \in Threads, Work(t) PROVE ExplainInv'
  BY <1>2, StepExplains, AccountingAssumption DEF Work
<1>3. CASE Registers
  BY <1>3, RegisterExplains, AddHandlerExplains DEF Registers, Construct
<1>. QED  BY <1>1, <1>2, <1>3 DEF AccountingNext, accountingVars, Measure, Other

(* Whatever is updated, reset and cloned by any number of threads, and however late and
   out of order the handlers are called: the changes a handler was told and those it is
   still to be told add up to those of the values it is for. *)
THEOREM AccountingEventsExplainValues == AccountingSpec => []EventsExplainValues
<1>1. AccountingInit => ExplainInv
  BY InitExplains DEF AccountingInit
<1>2. ExplainInv => EventsExplainValues
  BY DEF ExplainInv
<1>. QED  BY <1>1, <1>2, NextExplains, PTL DEF AccountingSpec
=============================================================================
