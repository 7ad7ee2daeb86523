---------------------------- MODULE MyQueueProofs ----------------------------
(***************************************************************************)
(* What MyQueue keeps true for every capacity and every number of threads. *)
(***************************************************************************)
EXTENDS MyQueue, SequenceTheorems, TLAPS

\* A thread is only ever inside the calls of its role.
Roles ==
  /\ \A p \in Producers : pc[p] \in {"idle", "unlock", "retry"} \cup PushStates
  /\ \A c \in Consumers : pc[c] \in {"idle", "unlock", "retry"} \cup PopStates
  /\ \A k \in Peekers : pc[k] \in {"idle", "unlock"} \cup PeekStates

\* Whoever is between lock() and unlock() is the thread that set the flag.
LockHeld == \A t \in Threads : pc[t] \in Locked => queue_locker = t

\* The inductive invariant.
IInv == TypeOK /\ Roles /\ LockHeld /\ RoomForAccess

LEMMA ModRange == ASSUME NEW n \in Nat, NEW d \in Nat \ {0}
                  PROVE n % d \in 0..(d - 1)
  BY SMT

(* The inductive invariant holds in every initial state of the queue, that is
   after the constructor. *)
LEMMA InitIInv == Init => IInv
  BY QueueAssumption DEF Init, IInv, TypeOK, Roles, LockHeld, RoomForAccess, Threads, Locked

(* Every shared access of push(), pop() and try_peek() keeps the inductive
   invariant. *)
LEMMA NextIInv == IInv /\ [Next]_vars => IInv'
<1> SUFFICES ASSUME IInv, [Next]_vars PROVE IInv'
  OBVIOUS
<1> USE QueueAssumption DEF IInv, TypeOK, Roles, LockHeld, RoomForAccess, Threads, Locked,
       PushStates, PopStates, PeekStates, Goto,
       LockFree, HasRoom, LooksFilled, PushSlot, NextPos, SizeAfterPop
<1>1. ASSUME NEW p \in Producers, NEW item \in Items, PushCall(p, item) PROVE IInv'
  BY <1>1 DEF PushCall
<1>2. ASSUME NEW p \in Producers, PushSpin(p) PROVE IInv'
  BY <1>2 DEF PushSpin
<1>3. ASSUME NEW p \in Producers, Lock(p, "push_lock", "push_test") PROVE IInv'
  BY <1>3 DEF Lock
<1>4. ASSUME NEW p \in Producers, PushTest(p) PROVE IInv'
  BY <1>4 DEF PushTest
<1>5. ASSUME NEW p \in Producers, PushStore(p) PROVE IInv'
  BY <1>5 DEF PushStore
<1>6. ASSUME NEW p \in Producers, PushGrow(p) PROVE IInv'
  BY <1>6 DEF PushGrow
<1>7. ASSUME NEW t \in Threads, Unlock(t) PROVE IInv'
  BY <1>7 DEF Unlock
<1>8. ASSUME NEW c \in Consumers, PopCall(c) PROVE IInv'
  BY <1>8 DEF PopCall
<1>9. ASSUME NEW c \in Consumers, PopSpin(c) PROVE IInv'
  BY <1>9 DEF PopSpin
<1>10. ASSUME NEW c \in Consumers, Lock(c, "pop_lock", "pop_test") PROVE IInv'
  BY <1>10 DEF Lock
<1>11. ASSUME NEW c \in Consumers, PopTest(c) PROVE IInv'
  BY <1>11 DEF PopTest
<1>12. ASSUME NEW c \in Consumers, PopTake(c) PROVE IInv'
  BY <1>12 DEF PopTake
<1>13. ASSUME NEW c \in Consumers, PopAdvance(c) PROVE IInv'
  BY <1>13, ModRange DEF PopAdvance
<1>14. ASSUME NEW c \in Consumers, PopShrink(c) PROVE IInv'
  BY <1>14 DEF PopShrink
<1>15. ASSUME NEW k \in Peekers, PeekCall(k) PROVE IInv'
  BY <1>15 DEF PeekCall
<1>16. ASSUME NEW k \in Peekers, Lock(k, "peek_lock", "peek_read") PROVE IInv'
  BY <1>16 DEF Lock
<1>17. ASSUME NEW k \in Peekers, PeekRead(k) PROVE IInv'
  BY <1>17 DEF PeekRead
<1>18. CASE UNCHANGED vars
  BY <1>18 DEF vars
<1>19. QED
  BY <1>1, <1>2, <1>3, <1>4, <1>5, <1>6, <1>7, <1>8, <1>9, <1>10, <1>11, <1>12, <1>13,
     <1>14, <1>15, <1>16, <1>17, <1>18 DEF Next, PushStep, PopStep, PeekStep

THEOREM QueueInvariant == Spec => []IInv
<1>1. Init => IInv
  BY InitIInv
<1>2. IInv /\ [Next]_vars => IInv'
  BY NextIInv
<1>3. QED
  BY <1>1, <1>2, PTL DEF Spec

THEOREM QueueTypes == Spec => []TypeOK
<1>1. IInv => TypeOK
  BY DEF IInv
<1>2. QED
  BY <1>1, QueueInvariant, PTL

THEOREM QueueMutualExclusion == Spec => []MutualExclusion
<1>1. IInv => MutualExclusion
  BY DEF IInv, LockHeld, MutualExclusion
<1>2. QED
  BY <1>1, QueueInvariant, PTL

THEOREM QueueRoomForAccess == Spec => []RoomForAccess
<1>1. IInv => RoomForAccess
  BY DEF IInv
<1>2. QED
  BY <1>1, QueueInvariant, PTL

-----------------------------------------------------------------------------
\* The refinement of BoundedFifo

\* What the threads hold: the element of a push until it is in the queue,
\* nothing before a pop or a peek has read the queue.
Held ==
  /\ \A p \in Producers :
       /\ pc[p] \in PushStates \cup {"retry"} => value[p] \in Items
       /\ pc[p] = "push_grow" => queue[(queue_pos + queue_size) % Capacity] = value[p]
  /\ \A c \in Consumers :
       /\ pc[c] \in {"pop_spin", "pop_lock", "pop_test", "pop_take", "retry"} => value[c] = None
       /\ pc[c] = "pop_advance" => value[c] = queue[queue_pos]
  /\ \A k \in Peekers : pc[k] \in PeekStates => value[k] = None

RInv == IInv /\ Held

LEMMA ModLow == ASSUME NEW d \in Nat \ {0}, NEW n \in 0..(d - 1)
                PROVE n % d = n
  BY SMT

LEMMA ModHigh == ASSUME NEW d \in Nat \ {0}, NEW n \in d..(2 * d - 1)
                 PROVE n % d = n - d
  BY SMT

\* Two positions less than a whole turn apart are different slots.
LEMMA SlotsDiffer ==
  ASSUME NEW d \in Nat \ {0}, NEW q \in 0..(d - 1), NEW i \in 0..(d - 1), NEW j \in 0..(d - 1),
         i # j
  PROVE (q + i) % d # (q + j) % d
<1>1. \A x \in 0..(2 * d - 1) : x % d = IF x < d THEN x ELSE x - d
  BY ModLow, ModHigh
<1>2. q + i \in 0..(2 * d - 1) /\ q + j \in 0..(2 * d - 1)
  OBVIOUS
<1>3. QED
  BY <1>1, <1>2

\* Counting from the next slot is counting one further.
LEMMA SlotShift ==
  ASSUME NEW d \in Nat \ {0}, NEW q \in 0..(d - 1), NEW i \in 0..(d - 1)
  PROVE (((q + 1) % d) + i) % d = (q + i + 1) % d
<1>1. \A x \in 0..(2 * d - 1) : x % d = IF x < d THEN x ELSE x - d
  BY ModLow, ModHigh
<1>2. CASE q + 1 < d
  <2>1. (q + 1) % d = q + 1
    BY <1>1, <1>2
  <2>2. QED
    BY <2>1
<1>3. CASE q + 1 = d
  <2>1. (q + 1) % d = 0
    BY <1>1, <1>3
  <2>2. (q + i + 1) % d = i
    BY <1>1, <1>3
  <2>3. (0 + i) % d = i
    BY <1>1
  <2>4. QED
    BY <2>1, <2>2, <2>3
<1>4. QED
  BY <1>2, <1>3

LEMMA SequenceAppend ==
  ASSUME NEW S, NEW n \in Nat, NEW f \in [1..n -> S], NEW e \in S
  PROVE /\ Len(f) = n
        /\ Append(f, e) = [i \in 1..(n + 1) |-> IF i = n + 1 THEN e ELSE f[i]]
<1>1. f \in Seq(S)
  BY SeqDef
<1>2. Len(f) = n
  BY <1>1, LenProperties
<1>3. /\ Append(f, e) \in Seq(S)
      /\ Len(Append(f, e)) = n + 1
      /\ \A i \in 1..(n + 1) : Append(f, e)[i] = IF i = n + 1 THEN e ELSE f[i]
  BY <1>1, <1>2, AppendProperties
<1>4. QED
  BY <1>2, <1>3, LenProperties

LEMMA SequenceTail ==
  ASSUME NEW S, NEW n \in Nat \ {0}, NEW f \in [1..n -> S]
  PROVE /\ Tail(f) = [i \in 1..(n - 1) |-> f[i + 1]]
        /\ Head(f) = f[1]
        /\ f # <<>>
<1>1. f \in Seq(S)
  BY SeqDef
<1>2. Len(f) = n
  BY <1>1, LenProperties
<1>3. f # <<>>
  BY <1>1, <1>2, EmptySeq
<1>4. Tail(f) \in Seq(S) /\ Len(Tail(f)) = n - 1
  BY <1>1, <1>2, <1>3, HeadTailProperties
<1>5. \A i \in 1..(n - 1) : Tail(f)[i] = f[i + 1]
  BY <1>1, <1>3, <1>4, HeadTailProperties
<1>6. Tail(f) = [i \in 1..(n - 1) |-> f[i + 1]]
  BY <1>4, <1>5, LenProperties
<1>7. QED
  BY <1>3, <1>6

(* What the threads hold is as described after every shared access. *)
LEMMA NextHeld == IInv /\ Held /\ [Next]_vars => Held'
<1> SUFFICES ASSUME IInv, Held, [Next]_vars PROVE Held'
  OBVIOUS
<1> USE QueueAssumption DEF IInv, TypeOK, Roles, LockHeld, Held, Threads, Locked,
       PushStates, PopStates, PeekStates, Goto,
       LockFree, HasRoom, LooksFilled, PushSlot, NextPos, SizeAfterPop
<1>1. ASSUME NEW p \in Producers, PushStep(p) \/ \E item \in Items : PushCall(p, item)
      PROVE Held'
  <2>1. ASSUME NEW item \in Items, PushCall(p, item) PROVE Held'
    BY <2>1 DEF PushCall
  <2>2. CASE PushSpin(p)
    BY <2>2 DEF PushSpin
  <2>3. CASE Lock(p, "push_lock", "push_test")
    BY <2>3 DEF Lock
  <2>4. CASE PushTest(p)
    BY <2>4 DEF PushTest
  <2>5. CASE PushStore(p)
    BY <2>5, ModRange DEF PushStore
  <2>6. CASE PushGrow(p)
    BY <2>6 DEF PushGrow
  <2>7. CASE Unlock(p)
    BY <2>7 DEF Unlock
  <2>8. QED
    BY <1>1, <2>1, <2>2, <2>3, <2>4, <2>5, <2>6, <2>7 DEF PushStep
<1>2. ASSUME NEW c \in Consumers, PopStep(c) \/ PopCall(c) PROVE Held'
  <2>1. CASE PopCall(c)
    BY <2>1 DEF PopCall
  <2>2. CASE PopSpin(c)
    BY <2>2 DEF PopSpin
  <2>3. CASE Lock(c, "pop_lock", "pop_test")
    BY <2>3 DEF Lock
  <2>4. CASE PopTest(c)
    BY <2>4 DEF PopTest
  <2>5. CASE PopTake(c)
    BY <2>5 DEF PopTake
  <2>6. CASE PopAdvance(c)
    BY <2>6 DEF PopAdvance
  <2>7. CASE PopShrink(c)
    BY <2>7 DEF PopShrink
  <2>8. CASE Unlock(c)
    BY <2>8 DEF Unlock
  <2>9. QED
    BY <1>2, <2>1, <2>2, <2>3, <2>4, <2>5, <2>6, <2>7, <2>8 DEF PopStep
<1>3. ASSUME NEW k \in Peekers, PeekStep(k) \/ PeekCall(k) PROVE Held'
  <2>1. CASE PeekCall(k)
    BY <2>1 DEF PeekCall
  <2>2. CASE Lock(k, "peek_lock", "peek_read")
    BY <2>2 DEF Lock
  <2>3. CASE PeekRead(k)
    BY <2>3 DEF PeekRead
  <2>4. CASE Unlock(k)
    BY <2>4 DEF Unlock
  <2>5. QED
    BY <1>3, <2>1, <2>2, <2>3, <2>4 DEF PeekStep
<1>4. CASE UNCHANGED vars
  BY <1>4 DEF vars
<1>5. QED
  BY <1>1, <1>2, <1>3, <1>4 DEF Next

\* The buffer as a function, whoever is inside pop().
LEMMA ContentShape ==
  ASSUME RInv
  PROVE /\ Shrinking => queue_size - 1 \in Nat
        /\ Content \in [1..(IF Shrinking THEN queue_size - 1 ELSE queue_size) -> Items \cup {None}]
<1> USE QueueAssumption DEF RInv, IInv, TypeOK, RoomForAccess, Threads
<1>1. Shrinking => queue_size - 1 \in Nat
  BY DEF Shrinking
<1>2. \A i \in 1..queue_size : (queue_pos + i - 1) % Capacity \in 0..(Capacity - 1)
  BY ModRange
<1>3. QED
  BY <1>1, <1>2 DEF Content

(* An access that leaves the slots, the head and the size alone, and does not
   enter or leave the middle of a pop(), leaves the buffer alone. *)
LEMMA ContentKept ==
  ASSUME UNCHANGED <<queue, queue_size, queue_pos>>, Shrinking' <=> Shrinking
  PROVE Content' = Content
<1>1. CASE Shrinking
  BY <1>1 DEF Content
<1>2. CASE ~Shrinking
  BY <1>2 DEF Content
<1>3. QED
  BY <1>1, <1>2

(* push() takes effect when it increments the size. *)
LEMMA RefinePush ==
  ASSUME RInv, NEW p \in Producers, PushGrow(p)
  PROVE Fifo!Push(p)
<1> USE QueueAssumption DEF RInv, IInv, TypeOK, Roles, LockHeld, RoomForAccess, Held, Threads,
       Locked, PushStates, PopStates, PeekStates, Goto,
       LockFree, HasRoom, LooksFilled, PushSlot, NextPos, SizeAfterPop
<1>1. ~Shrinking /\ ~Shrinking'
  BY DEF Shrinking, PushGrow
<1>2. value[p] \in Items /\ Hand[p] = value[p] /\ Hand[p] # None
  BY DEF PushGrow, Hand
<1>3. Content \in [1..queue_size -> Items \cup {None}]
  BY <1>1, ContentShape
<1>4. /\ Len(Content) = queue_size
      /\ Append(Content, value[p]) =
           [i \in 1..(queue_size + 1) |-> IF i = queue_size + 1 THEN value[p] ELSE Content[i]]
  BY <1>2, <1>3, SequenceAppend
<1>5. Content' = [i \in 1..(queue_size + 1) |-> queue[(queue_pos + i - 1) % Capacity]]
  BY <1>1 DEF Content, PushGrow
<1>6. Content = [i \in 1..queue_size |-> queue[(queue_pos + i - 1) % Capacity]]
  BY <1>1 DEF Content
<1>7. queue[(queue_pos + (queue_size + 1) - 1) % Capacity] = value[p]
  <2>1. queue_pos + (queue_size + 1) - 1 = queue_pos + queue_size
    OBVIOUS
  <2>2. QED
    BY <2>1 DEF PushGrow
<1>8. Content' = Append(Content, value[p])
  <2>1. \A i \in 1..queue_size : Content[i] = queue[(queue_pos + i - 1) % Capacity]
    BY <1>6
  <2>2. queue_size \in Nat
    OBVIOUS
  <2>3. QED
    BY ONLY <1>4, <1>5, <1>7, <2>1, <2>2
<1>9. Hand' = [Hand EXCEPT ![p] = None]
  BY DEF Hand, PushGrow
<1>10. Len(Content) < Capacity
  BY <1>4 DEF PushGrow
<1>11. QED
  BY <1>2, <1>8, <1>9, <1>10 DEF Fifo!Push

(* pop() takes effect when it advances the head. *)
LEMMA RefinePop ==
  ASSUME RInv, NEW c \in Consumers, PopAdvance(c)
  PROVE Fifo!Pop(c)
<1> USE QueueAssumption DEF RInv, IInv, TypeOK, Roles, LockHeld, RoomForAccess, Held, Threads,
       Locked, PushStates, PopStates, PeekStates, Goto,
       LockFree, HasRoom, LooksFilled, PushSlot, NextPos, SizeAfterPop
<1>1. ~Shrinking /\ Shrinking'
  BY DEF Shrinking, PopAdvance
<1>2. queue_size \in Nat \ {0} /\ queue_size <= Capacity
  BY DEF PopAdvance
<1>3. Content \in [1..queue_size -> Items \cup {None}]
  BY <1>1, ContentShape
<1>4. /\ Tail(Content) = [i \in 1..(queue_size - 1) |-> Content[i + 1]]
      /\ Head(Content) = Content[1]
      /\ Content # <<>>
  BY ONLY <1>2, <1>3, SequenceTail
<1>5. Content = [i \in 1..queue_size |-> queue[(queue_pos + i - 1) % Capacity]]
  BY <1>1 DEF Content
<1>6. Content[1] = queue[queue_pos]
  <2>1. (queue_pos + 1 - 1) % Capacity = queue_pos
    BY ModLow
  <2>2. 1 \in 1..queue_size
    BY ONLY <1>2
  <2>3. QED
    BY ONLY <1>5, <2>1, <2>2
<1>7. Content' = Tail(Content)
  <2>1. Content' = [i \in 1..(queue_size - 1) |->
                      queue[(((queue_pos + 1) % Capacity) + i - 1) % Capacity]]
    <3>1. UNCHANGED <<queue, queue_size>> /\ queue_pos' = (queue_pos + 1) % Capacity
      BY DEF PopAdvance
    <3>2. Content' = [i \in 1..(queue_size' - 1) |-> queue'[(queue_pos' + i - 1) % Capacity]]
      BY <1>1 DEF Content
    <3>3. QED
      BY ONLY <3>1, <3>2
  <2>2. ASSUME NEW i \in 1..(queue_size - 1)
        PROVE (((queue_pos + 1) % Capacity) + i - 1) % Capacity
                = (queue_pos + (i + 1) - 1) % Capacity
    <3>1. (((queue_pos + 1) % Capacity) + (i - 1)) % Capacity = (queue_pos + (i - 1) + 1) % Capacity
      BY <1>2, SlotShift
    <3>2. /\ queue_pos + (i - 1) + 1 = queue_pos + (i + 1) - 1
          /\ ((queue_pos + 1) % Capacity) + (i - 1) = ((queue_pos + 1) % Capacity) + i - 1
      BY ModRange
    <3>3. QED
      BY <3>1, <3>2
  <2>3. \A i \in 1..(queue_size - 1) : Content[i + 1] = queue[(queue_pos + (i + 1) - 1) % Capacity]
    BY ONLY <1>2, <1>5
  <2>4. QED
    BY ONLY <1>4, <2>1, <2>2, <2>3
<1>8. Hand[c] = None /\ Hand' = [Hand EXCEPT ![c] = queue[queue_pos]]
  BY DEF Hand, PopAdvance
<1>9. QED
  BY <1>4, <1>6, <1>7, <1>8 DEF Fifo!Pop

(* The other accesses of the three calls are a call that begins (Offer), the
   result being dropped (Release), a peek, or invisible. *)
LEMMA RefineQuiet ==
  ASSUME RInv, UNCHANGED <<queue, queue_size, queue_pos>>, Shrinking' <=> Shrinking,
         Hand' = Hand
  PROVE UNCHANGED Fifo!vars
  BY ContentKept DEF Fifo!vars

LEMMA RefineProducer ==
  ASSUME RInv, NEW p \in Producers, PushStep(p) \/ \E item \in Items : PushCall(p, item)
  PROVE [Fifo!Next]_(Fifo!vars)
<1> USE QueueAssumption DEF RInv, IInv, TypeOK, Roles, LockHeld, RoomForAccess, Held, Threads,
       Locked, PushStates, PopStates, PeekStates, Goto,
       LockFree, HasRoom, LooksFilled, PushSlot, NextPos, SizeAfterPop
<1>1. ASSUME NEW item \in Items, PushCall(p, item) PROVE Fifo!Offer(p, item)
  <2>1. Hand[p] = None /\ Hand' = [Hand EXCEPT ![p] = item]
    BY <1>1 DEF PushCall, Hand
  <2>2. Shrinking' <=> Shrinking
    BY <1>1 DEF PushCall, Shrinking
  <2>3. Content' = Content
    BY <1>1, <2>2, ContentKept DEF PushCall
  <2>4. QED
    BY <2>1, <2>3 DEF Fifo!Offer
<1>2. CASE PushSpin(p) \/ Lock(p, "push_lock", "push_test") \/ PushTest(p) \/ Unlock(p)
  <2>1. UNCHANGED <<queue, queue_size, queue_pos>>
    BY <1>2 DEF PushSpin, Lock, PushTest, Unlock
  <2>2. Shrinking' <=> Shrinking
    BY <1>2 DEF PushSpin, Lock, PushTest, Unlock, Shrinking
  <2>3. Hand' = Hand
    BY <1>2 DEF PushSpin, Lock, PushTest, Unlock, Hand
  <2>4. QED
    BY <2>1, <2>2, <2>3, RefineQuiet
<1>3. CASE PushStore(p)
  <2>1. ~Shrinking /\ ~Shrinking'
    BY <1>3 DEF Shrinking, PushStore
  <2>2. queue_size < Capacity
    BY <1>3 DEF PushStore
  <2>3. \A i \in 1..queue_size : queue'[(queue_pos + i - 1) % Capacity]
                                   = queue[(queue_pos + i - 1) % Capacity]
    <3>1. queue' = [queue EXCEPT ![(queue_pos + queue_size) % Capacity] = value[p]]
      BY <1>3 DEF PushStore
    <3>2. ASSUME NEW i \in 1..queue_size
          PROVE queue'[(queue_pos + i - 1) % Capacity] = queue[(queue_pos + i - 1) % Capacity]
      <4>1. /\ Capacity \in Nat \ {0} /\ queue_pos \in 0..(Capacity - 1)
            /\ i - 1 \in 0..(Capacity - 1) /\ queue_size \in 0..(Capacity - 1)
            /\ i - 1 # queue_size /\ queue_pos + (i - 1) = queue_pos + i - 1
        BY <2>2
      <4>2. (queue_pos + i - 1) % Capacity # (queue_pos + queue_size) % Capacity
        BY ONLY <4>1, SlotsDiffer
      <4>3. (queue_pos + i - 1) % Capacity \in DOMAIN queue
        BY <4>1, ModRange
      <4>4. QED
        BY ONLY <3>1, <4>2, <4>3
    <3>3. QED
      BY <3>2
  <2>4. Content' = Content
    <3>1. UNCHANGED <<queue_size, queue_pos>>
      BY <1>3 DEF PushStore
    <3>2. Content' = [i \in 1..queue_size |-> queue'[(queue_pos + i - 1) % Capacity]]
      BY <2>1, <3>1 DEF Content
    <3>3. Content = [i \in 1..queue_size |-> queue[(queue_pos + i - 1) % Capacity]]
      BY <2>1 DEF Content
    <3>4. QED
      BY ONLY <2>3, <3>2, <3>3
  <2>5. Hand' = Hand
    BY <1>3 DEF PushStore, Hand
  <2>6. QED
    BY <2>4, <2>5 DEF Fifo!vars
<1>4. CASE PushGrow(p)
  BY <1>4, RefinePush DEF Fifo!Next
<1>5. QED
  BY <1>1, <1>2, <1>3, <1>4 DEF PushStep, Fifo!Next

LEMMA RefineConsumer ==
  ASSUME RInv, NEW c \in Consumers, PopStep(c) \/ PopCall(c)
  PROVE [Fifo!Next]_(Fifo!vars)
<1> USE QueueAssumption DEF RInv, IInv, TypeOK, Roles, LockHeld, RoomForAccess, Held, Threads,
       Locked, PushStates, PopStates, PeekStates, Goto,
       LockFree, HasRoom, LooksFilled, PushSlot, NextPos, SizeAfterPop
<1>1. CASE PopCall(c)
  <2>1. Hand' = [Hand EXCEPT ![c] = None]
    BY <1>1 DEF PopCall, Hand
  <2>2. Shrinking' <=> Shrinking
    BY <1>1 DEF PopCall, Shrinking
  <2>3. Content' = Content
    BY <1>1, <2>2, ContentKept DEF PopCall
  <2>4. CASE Hand[c] = None
    <3>1. Hand' = Hand
      BY <2>1, <2>4 DEF Hand
    <3>2. QED
      BY <2>3, <3>1 DEF Fifo!vars
  <2>5. CASE Hand[c] # None
    <3>1. Fifo!Release(c)
      BY ONLY <2>1, <2>3, <2>5 DEF Fifo!Release
    <3>2. QED
      BY ONLY <3>1 DEF Fifo!Next
  <2>6. QED
    BY <2>4, <2>5
<1>2. CASE PopSpin(c) \/ Lock(c, "pop_lock", "pop_test") \/ PopTest(c) \/ PopTake(c) \/ Unlock(c)
  <2>1. UNCHANGED <<queue, queue_size, queue_pos>>
    BY <1>2 DEF PopSpin, Lock, PopTest, PopTake, Unlock
  <2>2. Shrinking' <=> Shrinking
    BY <1>2 DEF PopSpin, Lock, PopTest, PopTake, Unlock, Shrinking
  <2>3. Hand' = Hand
    BY <1>2 DEF PopSpin, Lock, PopTest, PopTake, Unlock, Hand
  <2>4. QED
    BY <2>1, <2>2, <2>3, RefineQuiet
<1>3. CASE PopAdvance(c)
  BY <1>3, RefinePop DEF Fifo!Next
<1>4. CASE PopShrink(c)
  <2>1. Shrinking /\ ~Shrinking'
    BY <1>4 DEF Shrinking, PopShrink
  <2>2. Content' = Content
    <3>1. UNCHANGED <<queue, queue_pos>> /\ queue_size' = queue_size - 1
      BY <1>4 DEF PopShrink
    <3>2. QED
      BY <2>1, <3>1 DEF Content
  <2>3. Hand' = Hand
    BY <1>4 DEF PopShrink, Hand
  <2>4. QED
    BY <2>2, <2>3 DEF Fifo!vars
<1>5. QED
  BY <1>1, <1>2, <1>3, <1>4 DEF PopStep

LEMMA RefinePeeker ==
  ASSUME RInv, NEW k \in Peekers, PeekStep(k) \/ PeekCall(k)
  PROVE [Fifo!Next]_(Fifo!vars)
<1> USE QueueAssumption DEF RInv, IInv, TypeOK, Roles, LockHeld, RoomForAccess, Held, Threads,
       Locked, PushStates, PopStates, PeekStates, Goto,
       LockFree, HasRoom, LooksFilled, PushSlot, NextPos, SizeAfterPop
<1>1. Content' = Content
  <2>1. UNCHANGED <<queue, queue_size, queue_pos>>
    BY DEF PeekStep, PeekCall, PeekRead, Lock, Unlock
  <2>2. Shrinking' <=> Shrinking
    BY DEF PeekStep, PeekCall, PeekRead, Lock, Unlock, Shrinking
  <2>3. QED
    BY <2>1, <2>2, ContentKept
<1>2. CASE PeekCall(k)
  <2>1. Hand' = [Hand EXCEPT ![k] = None]
    BY <1>2 DEF PeekCall, Hand
  <2>2. CASE Hand[k] = None
    <3>1. Hand' = Hand
      BY <2>1, <2>2 DEF Hand
    <3>2. QED
      BY <1>1, <3>1 DEF Fifo!vars
  <2>3. CASE Hand[k] # None
    <3>1. Fifo!Release(k)
      BY ONLY <2>1, <1>1, <2>3 DEF Fifo!Release
    <3>2. QED
      BY ONLY <3>1 DEF Fifo!Next
  <2>4. QED
    BY <2>2, <2>3
<1>3. CASE Lock(k, "peek_lock", "peek_read") \/ Unlock(k)
  <2>1. Hand' = Hand
    BY <1>3 DEF Lock, Unlock, Hand
  <2>2. QED
    BY <1>1, <2>1 DEF Fifo!vars
<1>4. CASE PeekRead(k)
  <2>1. Hand[k] = None
    BY <1>4 DEF PeekRead, Hand
  <2>2. CASE queue_size = 0
    <3>1. Hand' = Hand
      BY <1>4, <2>2 DEF PeekRead, Hand
    <3>2. QED
      BY <1>1, <3>1 DEF Fifo!vars
  <2>3. CASE queue_size # 0
    <3>1. ~Shrinking /\ queue_size \in Nat \ {0}
      BY <1>4, <2>3 DEF PeekRead, Shrinking
    <3>2. Content \in [1..queue_size -> Items \cup {None}]
      BY <3>1, ContentShape
    <3>3. Content # <<>> /\ Head(Content) = Content[1]
      BY ONLY <3>1, <3>2, SequenceTail
    <3>4. Content[1] = queue[queue_pos]
      <4>1. (queue_pos + 1 - 1) % Capacity = queue_pos
        BY ModLow
      <4>2. Content = [i \in 1..queue_size |-> queue[(queue_pos + i - 1) % Capacity]]
        BY <3>1 DEF Content
      <4>3. 1 \in 1..queue_size
        BY ONLY <3>1
      <4>4. QED
        BY ONLY <4>1, <4>2, <4>3
    <3>5. Hand' = [Hand EXCEPT ![k] = queue[queue_pos]]
      <4>1. value' = [value EXCEPT ![k] = queue[queue_pos]]
        <5>1. queue_size > 0
          BY ONLY <3>1
        <5>2. value' = [value EXCEPT ![k] = IF queue_size > 0 THEN queue[queue_pos] ELSE None]
          BY ONLY <1>4 DEF PeekRead
        <5>3. QED
          BY ONLY <5>1, <5>2
      <4>2. QED
        BY <1>4, <4>1 DEF PeekRead, Hand
    <3>6. QED
      BY <1>1, <2>1, <3>3, <3>4, <3>5 DEF Fifo!Next, Fifo!Peek
  <2>4. QED
    BY <2>2, <2>3
<1>5. QED
  BY <1>2, <1>3, <1>4 DEF PeekStep

LEMMA RefineInit == Init => Fifo!Init
<1> SUFFICES ASSUME Init PROVE Fifo!Init
  OBVIOUS
<1>1. ~Shrinking
  BY QueueAssumption DEF Init, Shrinking, Threads
<1>2. Content = <<>>
  BY <1>1 DEF Init, Content
<1>3. Hand = [t \in Fifo!Threads |-> None]
  BY QueueAssumption DEF Init, Hand, Threads, Fifo!Threads
<1>4. QED
  BY <1>2, <1>3 DEF Fifo!Init

(* MyQueue is a first-in first-out buffer of the given capacity for any number
   of producer, consumer and peeking threads: each element pushed is popped
   once, in the order of the pushes. *)
THEOREM QueueImplementsFifo == Spec => ImplementsFifo
<1>1. Init => RInv
  <2>1. Init => Held
    BY QueueAssumption DEF Init, Held, Threads, PushStates, PeekStates
  <2>2. QED
    BY <2>1, InitIInv DEF RInv
<1>2. RInv /\ [Next]_vars => RInv'
  BY NextIInv, NextHeld DEF RInv
<1>3. RInv /\ [Next]_vars => [Fifo!Next]_(Fifo!vars)
  <2> SUFFICES ASSUME RInv, [Next]_vars PROVE [Fifo!Next]_(Fifo!vars)
    OBVIOUS
  <2>1. CASE UNCHANGED vars
    <3>1. Hand' = Hand
      BY <2>1 DEF vars, Hand
    <3>2. Shrinking' <=> Shrinking
      BY <2>1 DEF vars, Shrinking
    <3>3. QED
      BY <2>1, <3>1, <3>2, RefineQuiet DEF vars
  <2>2. CASE Next
    BY <2>2, RefineProducer, RefineConsumer, RefinePeeker DEF Next
  <2>3. QED
    BY <2>1, <2>2
<1>4. QED
  BY <1>1, <1>2, <1>3, RefineInit, PTL DEF Spec, ImplementsFifo, Fifo!Spec
=============================================================================
