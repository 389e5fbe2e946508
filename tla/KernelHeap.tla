------------------------------ MODULE KernelHeap ------------------------------
(***************************************************************************)
(* NewDelete.cpp: operator new takes whole pages from the page allocator   *)
(* and writes its header, "KMEM" and the number of pages, just before the  *)
(* object, which is in the last bytes of the page before it.  Others take  *)
(* pages of the allocator directly: page tables, kernel stacks, the array  *)
(* of IOAPICs.  What matters of a page is what its last bytes hold.        *)
(***************************************************************************)
EXTENDS Integers, FiniteSets

CONSTANTS
  PAGE_SIZE,
  HEADER,      \* sizeof(AllocatedMemoryInfo): 8
  LastPage,    \* the memory is the pages 1 .. LastPage; page 0 is never free
  Sizes,       \* the sizes of the objects made
  RawPages     \* the numbers of pages taken directly

VARIABLES
  free,        \* the pages that are free
  blocks,      \* the blocks in use: first page, pages, bytes used, and by whom
  tail,        \* the last HEADER bytes of each page
  panicked

vars == <<free, blocks, tail, panicked>>

Data == [Magic |-> "data", AllocatedPages |-> 0]

Header(n) == [Magic |-> "KMEM", AllocatedPages |-> n]

PageCount(size) == (size + PAGE_SIZE - 1) \div PAGE_SIZE

Pages(b) == b.first .. b.first + b.n - 1

Init ==
  /\ free = 1 .. LastPage /\ blocks = {}
  /\ tail = [q \in 0 .. LastPage |-> Data]
  /\ panicked = FALSE

(* AllocatePage: the lowest run of n free pages. *)
Fits(n) == {q \in free : q .. q + n - 1 \subseteq free}

First(n) == CHOOSE q \in Fits(n) : \A r \in Fits(n) : q <= r

(* The pages whose last bytes the owner of a block writes: all that its      *)
(* bytes reach the end of.                                                   *)
Reaches(b) ==
  {q \in Pages(b) : b.size > (q - b.first) * PAGE_SIZE + PAGE_SIZE - HEADER}

SizeAlloc(size) == size + HEADER

(* operator new, and the constructor that then fills the object.  Without    *)
(* memory it panics; the nothrow form returns nullptr, which changes nothing. *)
New(size) ==
  LET n == PageCount(SizeAlloc(size)) IN
  /\ ~panicked
  /\ \/ /\ Fits(n) # {}
        /\ LET b == [first |-> First(n), n |-> n, size |-> size, by |-> "new"] IN
             /\ free' = free \ Pages(b)
             /\ blocks' = blocks \cup {b}
             /\ tail' = [q \in 0 .. LastPage |->
                           IF q = b.first - 1 THEN Header(n)
                           ELSE IF q \in Reaches(b) THEN Data ELSE tail[q]]
        /\ UNCHANGED panicked
     \/ /\ Fits(n) = {} /\ panicked' = TRUE
        /\ UNCHANGED <<free, blocks, tail>>

(* AllocatePage, by an owner that fills the pages at once: BuildIdentityMap2M *)
(* its tables, PrepareInitialStack the top of a stack, main its IOAPICs.      *)
TakePages(n) ==
  /\ ~panicked /\ Fits(n) # {}
  /\ LET b == [first |-> First(n), n |-> n, size |-> n * PAGE_SIZE, by |-> "raw"] IN
       /\ free' = free \ Pages(b)
       /\ blocks' = blocks \cup {b}
       /\ tail' = [q \in 0 .. LastPage |-> IF q \in Pages(b) THEN Data ELSE tail[q]]
  /\ UNCHANGED panicked

(* The owner of an object goes on writing to it. *)
Use(b) ==
  /\ ~panicked /\ b.by = "new"
  /\ tail' = [q \in 0 .. LastPage |-> IF q \in Reaches(b) THEN Data ELSE tail[q]]
  /\ UNCHANGED <<free, blocks, panicked>>

(* operator delete: FreePage of the header's address, with the number of     *)
(* pages as a size in bytes.  The nothrow form frees nothing when the header *)
(* is not there.  No object is deleted today: see RefPtr.                    *)
Delete(b, nothrow) ==
  /\ ~panicked /\ b.by = "new"
  /\ LET page == b.first - 1 IN
       free' = IF nothrow /\ tail[page].Magic # "KMEM" THEN free
               ELSE free \cup (page .. page + PageCount(tail[page].AllocatedPages) - 1)
  /\ blocks' = blocks \ {b}
  /\ UNCHANGED <<tail, panicked>>

Next ==
  \/ \E size \in Sizes : New(size)
  \/ \E n \in RawPages : TakePages(n)
  \/ \E b \in blocks : Use(b) \/ \E nothrow \in BOOLEAN : Delete(b, nothrow)

Spec == Init /\ [][Next]_vars
-------------------------------------------------------------------------------
(* Properties. *)

(* What AllocatePage reserves (EarlyPageAllocator.cpp:15) is its caller's:   *)
(* the pages that are taken directly keep what their owner has written.      *)
ReservedPagesKeepTheirData ==
  \A b \in blocks : b.by = "raw" => \A q \in Pages(b) : tail[q] = Data
===============================================================================
