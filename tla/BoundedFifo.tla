----------------------------- MODULE BoundedFifo -----------------------------
(***************************************************************************)
(* What swm::util::MyQueue promises the threads that share it: a first-in  *)
(* first-out buffer of at most Capacity elements.  A thread that pushes    *)
(* waits while the buffer is full, a thread that pops waits while it is    *)
(* empty, a thread that peeks sees the oldest element or nothing.  Each    *)
(* call takes effect in one step; MyQueue is shown to implement this.      *)
(***************************************************************************)
EXTENDS Naturals, Sequences

CONSTANTS Producers,   \* threads that call push()
          Consumers,   \* threads that call pop()
          Peekers,     \* threads that call try_peek()
          Items,       \* the elements
          None,        \* "no element"
          Capacity     \* max_size of the constructor

Threads == Producers \cup Consumers \cup Peekers

VARIABLES fifo,        \* the elements, oldest first
          hand         \* per thread: the element it is about to push, or was given

vars == <<fifo, hand>>

Init ==
  /\ fifo = <<>>
  /\ hand = [t \in Threads |-> None]

\* A caller comes with an element to push.
Offer(p, item) ==
  /\ hand[p] = None
  /\ hand' = [hand EXCEPT ![p] = item]
  /\ UNCHANGED fifo

\* push() takes effect.
Push(p) ==
  /\ hand[p] # None
  /\ Len(fifo) < Capacity
  /\ fifo' = Append(fifo, hand[p])
  /\ hand' = [hand EXCEPT ![p] = None]

\* pop() takes effect: the oldest element leaves the buffer.
Pop(c) ==
  /\ hand[c] = None
  /\ fifo # <<>>
  /\ hand' = [hand EXCEPT ![c] = Head(fifo)]
  /\ fifo' = Tail(fifo)

\* A successful try_peek(): the oldest element is copied.
Peek(k) ==
  /\ hand[k] = None
  /\ fifo # <<>>
  /\ hand' = [hand EXCEPT ![k] = Head(fifo)]
  /\ UNCHANGED fifo

\* The caller is done with the element it was given.
Release(t) ==
  /\ hand[t] # None
  /\ hand' = [hand EXCEPT ![t] = None]
  /\ UNCHANGED fifo

Next ==
  \/ \E p \in Producers : Push(p) \/ \E item \in Items : Offer(p, item)
  \/ \E c \in Consumers : Pop(c)
  \/ \E k \in Peekers : Peek(k)
  \/ \E t \in Consumers \cup Peekers : Release(t)

Spec == Init /\ [][Next]_vars
=============================================================================
