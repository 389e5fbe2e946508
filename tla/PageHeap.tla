------------------------------- MODULE PageHeap -------------------------------
(***************************************************************************)
(* What a page allocator promises, without saying how: a set of free pages *)
(* becomes known once, at boot, and from then on every page is either free *)
(* or held by exactly the client it was handed to.  A client receives a    *)
(* contiguous run of free pages and gives back exactly what it received.   *)
(* PageAllocator is shown to implement this specification.                 *)
(***************************************************************************)
EXTENDS Integers

CONSTANTS
  Pages,      \* the page numbers the allocator can manage
  Clients     \* the callers; each holds at most one run at a time

VARIABLES
  booted,     \* whether the memory map has been read
  free,       \* the pages nobody holds
  held        \* the pages each client holds

vars == <<booted, free, held>>

Init ==
  /\ booted = FALSE
  /\ free = {}
  /\ held = [c \in Clients |-> {}]

(* The memory map is read; page 0 is never made available. *)
Boot(S) ==
  /\ ~booted
  /\ booted' = TRUE
  /\ free' = S
  /\ UNCHANGED held

(* A contiguous run of free pages moves to a client that holds nothing. *)
Allocate(c, first, last) ==
  /\ booted
  /\ held[c] = {}
  /\ first..last \subseteq free
  /\ held' = [held EXCEPT ![c] = first..last]
  /\ free' = free \ (first..last)
  /\ UNCHANGED booted

(* Everything the client holds becomes free again, and nothing else does. *)
Release(c) ==
  /\ held[c] # {}
  /\ held' = [held EXCEPT ![c] = {}]
  /\ free' = free \cup held[c]
  /\ UNCHANGED booted

Next ==
  \/ ~booted /\ \E S \in SUBSET (Pages \ {0}) : Boot(S)
  \/ \E c \in Clients, first, last \in free : Allocate(c, first, last)
  \/ \E c \in Clients : Release(c)

Spec == Init /\ [][Next]_vars
===============================================================================
