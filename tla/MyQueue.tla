------------------------------- MODULE MyQueue -------------------------------
(***************************************************************************)
(* swm::util::MyQueue (sched-lib/auxl/my_queue.h): the ring buffer between *)
(* the Receiver, Processor, ChainController and Sender threads, at the     *)
(* grain of its shared accesses.  queue_size_ is a plain size_t that the   *)
(* spinning loops and element_count() read without the lock; everything    *)
(* else happens between lock() and unlock().  The call to yield() in every *)
(* spinning loop makes the compiler reload queue_size_, so an unlocked     *)
(* read returns the current value.                                         *)
(***************************************************************************)
EXTENDS Naturals, Sequences

CONSTANTS Producers, Consumers, Peekers, Items, None, Capacity

ASSUME QueueAssumption ==
  /\ Capacity \in Nat \ {0}           \* the constructor throws on 0
  /\ None \notin Items
  /\ None \notin Producers \cup Consumers \cup Peekers
  /\ Producers \cap Consumers = {}
  /\ Producers \cap Peekers = {}
  /\ Consumers \cap Peekers = {}

Threads == Producers \cup Consumers \cup Peekers

VARIABLES
  queue,         \* queue_: the slots, which keep what was popped until reused
  queue_size,    \* queue_size_
  queue_pos,     \* queue_pos_
  queue_locker,  \* queue_locker_: the thread that set the flag, or None
  pc,            \* per thread: the next shared access of its call
  value          \* per thread: the element it pushes, or was given

vars == <<queue, queue_size, queue_pos, queue_locker, pc, value>>

PushStates == {"push_spin", "push_lock", "push_test", "push_store", "push_grow"}
PopStates  == {"pop_spin", "pop_lock", "pop_test", "pop_take", "pop_advance", "pop_shrink"}
PeekStates == {"peek_lock", "peek_read"}

\* The states between lock() and unlock().
Locked == {"push_test", "push_store", "push_grow", "pop_test", "pop_take", "pop_advance",
           "pop_shrink", "peek_read", "unlock", "retry"}

Init ==
  /\ queue = [i \in 0..(Capacity - 1) |-> None]
  /\ queue_size = 0
  /\ queue_pos = 0
  /\ queue_locker = None
  /\ pc = [t \in Threads |-> "idle"]
  /\ value = [t \in Threads |-> None]

Goto(t, from, to) ==
  /\ pc[t] = from
  /\ pc' = [pc EXCEPT ![t] = to]

-----------------------------------------------------------------------------
\* What the code tests and computes, each after a slip it could contain

LockFree == queue_locker = None              \* test_and_set() returned false

HasRoom_Unchecked == TRUE
HasRoom == queue_size < Capacity             \* the test of push() under the lock

LooksFilled_OffByOne == queue_size > 1
LooksFilled == queue_size # 0                \* the spinning loop of pop()

PushSlot_FromZero == queue_size % Capacity
PushSlot == (queue_pos + queue_size) % Capacity

NextPos == (queue_pos + 1) % Capacity

SizeAfterPop_Kept == queue_size
SizeAfterPop == queue_size - 1

-----------------------------------------------------------------------------
Lock(t, from, to) ==
  /\ Goto(t, from, to)
  /\ LockFree
  /\ queue_locker' = t
  /\ UNCHANGED <<queue, queue_size, queue_pos, value>>

-----------------------------------------------------------------------------
\* push()

PushCall(p, item) ==
  /\ Goto(p, "idle", "push_spin")
  /\ value' = [value EXCEPT ![p] = item]
  /\ UNCHANGED <<queue, queue_size, queue_pos, queue_locker>>

\* The unlocked loop ends once the queue does not look full.
PushSpin(p) ==
  /\ Goto(p, "push_spin", "push_lock")
  /\ queue_size # Capacity
  /\ UNCHANGED <<queue, queue_size, queue_pos, queue_locker, value>>

\* The size is tested again under the lock.
PushTest(p) ==
  /\ Goto(p, "push_test", IF HasRoom THEN "push_store" ELSE "retry")
  /\ UNCHANGED <<queue, queue_size, queue_pos, queue_locker, value>>

PushStore(p) ==
  /\ Goto(p, "push_store", "push_grow")
  /\ queue' = [queue EXCEPT ![PushSlot] = value[p]]
  /\ UNCHANGED <<queue_size, queue_pos, queue_locker, value>>

PushGrow(p) ==
  /\ Goto(p, "push_grow", "unlock")
  /\ queue_size' = queue_size + 1
  /\ UNCHANGED <<queue, queue_pos, queue_locker, value>>

-----------------------------------------------------------------------------
\* pop()

PopCall(c) ==
  /\ Goto(c, "idle", "pop_spin")
  /\ value' = [value EXCEPT ![c] = None]
  /\ UNCHANGED <<queue, queue_size, queue_pos, queue_locker>>

PopSpin(c) ==
  /\ Goto(c, "pop_spin", "pop_lock")
  /\ LooksFilled
  /\ UNCHANGED <<queue, queue_size, queue_pos, queue_locker, value>>

PopTest(c) ==
  /\ Goto(c, "pop_test", IF queue_size > 0 THEN "pop_take" ELSE "retry")
  /\ UNCHANGED <<queue, queue_size, queue_pos, queue_locker, value>>

PopTake(c) ==
  /\ Goto(c, "pop_take", "pop_advance")
  /\ value' = [value EXCEPT ![c] = queue[queue_pos]]
  /\ UNCHANGED <<queue, queue_size, queue_pos, queue_locker>>

PopAdvance(c) ==
  /\ Goto(c, "pop_advance", "pop_shrink")
  /\ queue_pos' = NextPos
  /\ UNCHANGED <<queue, queue_size, queue_locker, value>>

PopShrink(c) ==
  /\ Goto(c, "pop_shrink", "unlock")
  /\ queue_size' = SizeAfterPop
  /\ UNCHANGED <<queue, queue_pos, queue_locker, value>>

-----------------------------------------------------------------------------
\* try_peek()

PeekCall(k) ==
  /\ Goto(k, "idle", "peek_lock")
  /\ value' = [value EXCEPT ![k] = None]
  /\ UNCHANGED <<queue, queue_size, queue_pos, queue_locker>>

PeekRead(k) ==
  /\ Goto(k, "peek_read", "unlock")
  /\ value' = [value EXCEPT ![k] = IF queue_size > 0 THEN queue[queue_pos] ELSE None]
  /\ UNCHANGED <<queue, queue_size, queue_pos, queue_locker>>

-----------------------------------------------------------------------------
\* unlock() before the return, and unlock() before the next round of the loop
Unlock(t) ==
  /\ \/ Goto(t, "unlock", "idle")
     \/ t \in Producers /\ Goto(t, "retry", "push_spin")
     \/ t \in Consumers /\ Goto(t, "retry", "pop_spin")
  /\ queue_locker' = None
  /\ UNCHANGED <<queue, queue_size, queue_pos, value>>

PushStep(p) ==
  \/ PushSpin(p) \/ Lock(p, "push_lock", "push_test") \/ PushTest(p)
  \/ PushStore(p) \/ PushGrow(p) \/ Unlock(p)

PopStep(c) ==
  \/ PopSpin(c) \/ Lock(c, "pop_lock", "pop_test") \/ PopTest(c)
  \/ PopTake(c) \/ PopAdvance(c) \/ PopShrink(c) \/ Unlock(c)

PeekStep(k) == Lock(k, "peek_lock", "peek_read") \/ PeekRead(k) \/ Unlock(k)

Next ==
  \/ \E p \in Producers : PushStep(p) \/ \E item \in Items : PushCall(p, item)
  \/ \E c \in Consumers : PopStep(c) \/ PopCall(c)
  \/ \E k \in Peekers : PeekStep(k) \/ PeekCall(k)

Spec == Init /\ [][Next]_vars

\* Every thread inside a call keeps running and gets the lock if it is free again and
\* again; the consumers, worker loops, keep calling pop() while the queue is in use.
Fairness ==
  /\ \A p \in Producers : WF_vars(PushStep(p)) /\ SF_vars(Lock(p, "push_lock", "push_test"))
  /\ \A c \in Consumers : /\ WF_vars(PopStep(c) \/ PopCall(c))
                          /\ SF_vars(Lock(c, "pop_lock", "pop_test"))
  /\ \A k \in Peekers : WF_vars(PeekStep(k))

FairSpec == Spec /\ Fairness

-----------------------------------------------------------------------------
\* Properties

(* The types of the queue's fields and of the threads' positions in its code. *)
TypeOK ==
  /\ queue \in [0..(Capacity - 1) -> Items \cup {None}]
  /\ queue_size \in 0..Capacity
  /\ queue_pos \in 0..(Capacity - 1)
  /\ queue_locker \in Threads \cup {None}
  /\ pc \in [Threads -> {"idle"} \cup PushStates \cup PopStates \cup PeekStates
                          \cup {"unlock", "retry"}]
  /\ value \in [Threads -> Items \cup {None}]

(* my_queue.h lock()/unlock(): the sections of push(), pop() and try_peek()
   that touch the slots never overlap, whichever threads run them. *)
MutualExclusion ==
  \A t, u \in Threads : pc[t] \in Locked /\ pc[u] \in Locked => t = u

(* push() and pop() decide on a size read under the lock, so the slot a push
   is about to write is free and the one a pop is about to take is filled,
   although the loops before them read the size without the lock. *)
RoomForAccess ==
  \A t \in Threads :
    /\ pc[t] \in {"push_store", "push_grow"} => queue_size < Capacity
    /\ pc[t] \in {"pop_take", "pop_advance", "pop_shrink"} => queue_size > 0

(* While a push() waits, some push() goes on, and while the queue holds an element,
   some pop() does: no lost wake-up between the unlocked test and the lock, and no
   threads that only send each other back to it.  A single thread may be overtaken
   for ever. *)
SomePushReturns ==
  (\E p \in Producers : pc[p] = "push_spin") ~> (\E p \in Producers : pc[p] = "push_store")
SomePopReturns == queue_size > 0 ~> \E c \in Consumers : pc[c] = "pop_shrink"

\* The elements in the buffer, oldest first: a pop that has moved queue_pos_
\* and not yet decremented queue_size_ has taken its element out.
Shrinking == \E c \in Consumers : pc[c] = "pop_shrink"
Content ==
  [i \in 1..(IF Shrinking THEN queue_size - 1 ELSE queue_size) |->
     queue[(queue_pos + i - 1) % Capacity]]

\* A thread holds its element before its push and after its pop took effect.
Hand ==
  [t \in Threads |->
     IF \/ t \in Producers /\ pc[t] \in {"idle", "unlock"}
        \/ t \in Consumers /\ pc[t] = "pop_advance"
     THEN None ELSE value[t]]

Fifo == INSTANCE BoundedFifo WITH fifo <- Content, hand <- Hand

(* The ring buffer with its spin lock implements the first-in first-out buffer:
   every element pushed is popped once, in order, whatever the interleaving. *)
ImplementsFifo == Fifo!Spec
=============================================================================
