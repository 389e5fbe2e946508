------------------------------- MODULE RunQueue -------------------------------
(***************************************************************************)
(* RunQueue.hpp: the intrusive doubly linked list of runnable threads.     *)
(* The links are the Next and Prev fields of the threads themselves.       *)
(* fifo is an auxiliary variable: the sequence the list stands for, which  *)
(* is all that module Scheduler uses of the queue.                         *)
(***************************************************************************)
EXTENDS Integers, Sequences

CONSTANTS
  Threads,   \* the threads that may be queued
  NULL       \* nullptr

VARIABLES
  head, tail,   \* RunQueue::Head, RunQueue::Tail
  next, prev,   \* Thread::Next, Thread::Prev of every thread
  popped,       \* what the last PopFront returned
  fifo          \* auxiliary: the queued threads, oldest first

vars == <<head, tail, next, prev, popped, fifo>>

Queued == {fifo[k] : k \in DOMAIN fifo}

Init ==
  /\ head = NULL /\ tail = NULL
  /\ next = [t \in Threads |-> NULL]
  /\ prev = [t \in Threads |-> NULL]
  /\ popped = NULL
  /\ fifo = <<>>

(* Push.  Its callers pass a thread that is not queued: Scheduler shows it. *)
Push(t) ==
  /\ t \notin Queued
  /\ next' = IF tail # NULL
             THEN [next EXCEPT ![t] = NULL, ![tail] = t]
             ELSE [next EXCEPT ![t] = NULL]
  /\ prev' = [prev EXCEPT ![t] = tail]
  /\ head' = IF tail # NULL THEN head ELSE t
  /\ tail' = t
  /\ fifo' = Append(fifo, t)
  /\ UNCHANGED popped

(* PopFront: nullptr from an empty queue. *)
PopFront ==
  \/ /\ head = NULL
     /\ popped' = NULL
     /\ UNCHANGED <<head, tail, next, prev, fifo>>
  \/ /\ head # NULL
     /\ head' = next[head]
     /\ tail' = IF head' # NULL THEN tail ELSE NULL
     /\ next' = [next EXCEPT ![head] = NULL]
     /\ prev' = IF head' # NULL
                THEN [prev EXCEPT ![head'] = NULL, ![head] = NULL]
                ELSE [prev EXCEPT ![head] = NULL]
     /\ popped' = head
     /\ fifo' = Tail(fifo)

Next == PopFront \/ \E t \in Threads : Push(t)

Spec == Init /\ [][Next]_vars
-------------------------------------------------------------------------------
(* Properties. *)

(* Pointers are null or point to a thread. *)
TypeOK ==
  /\ head \in Threads \cup {NULL} /\ tail \in Threads \cup {NULL}
  /\ next \in [Threads -> Threads \cup {NULL}]
  /\ prev \in [Threads -> Threads \cup {NULL}]
  /\ popped \in Threads \cup {NULL}
  /\ fifo \in Seq(Threads)

NoDuplicates == \A j, k \in 1 .. Len(fifo) : fifo[j] = fifo[k] => j = k

(* The links of Head, Tail, Next and Prev after any sequence of Push and     *)
(* PopFront spell the queued threads in order, forwards and backwards, and   *)
(* a thread outside the queue has no links left.                             *)
ListIsFifo ==
  /\ NoDuplicates
  /\ head = IF fifo = <<>> THEN NULL ELSE fifo[1]
  /\ tail = IF fifo = <<>> THEN NULL ELSE fifo[Len(fifo)]
  /\ \A k \in 1 .. Len(fifo) :
       /\ next[fifo[k]] = IF k = Len(fifo) THEN NULL ELSE fifo[k + 1]
       /\ prev[fifo[k]] = IF k = 1 THEN NULL ELSE fifo[k - 1]
  /\ \A t \in Threads : t \notin Queued => next[t] = NULL /\ prev[t] = NULL

(* PopFront returns the thread that has been queued longest, and nullptr     *)
(* only when nothing is queued; Push never drops or reorders a thread.       *)
PopsInOrder ==
  [][\/ fifo' = fifo /\ (popped' # popped => fifo = <<>> /\ popped' = NULL)
     \/ fifo # <<>> /\ popped' = Head(fifo) /\ fifo' = Tail(fifo)
     \/ popped' = popped /\ \E t \in Threads : fifo' = Append(fifo, t)]_vars
===============================================================================
