----------------------------- MODULE PageAllocator -----------------------------
(***************************************************************************)
(* The early physical page allocator: PhysicalMemoryBitmap.cpp reads the   *)
(* boot loader's memory map into one bit per page, EarlyPageAllocator.cpp  *)
(* hands out and takes back pages by scanning and setting those bits.      *)
(*                                                                         *)
(* Pointers the allocator returns are page aligned, so a pointer is        *)
(* modelled by its page number (ADDRESS_TO_PAGE_INDEX); module Bitmap      *)
(* shows that the byte array with its index and bit offset represents the  *)
(* page-indexed bitmap used here.                                          *)
(*                                                                         *)
(* Nothing preempts the allocator: threads are switched only by Yield,     *)
(* which no allocator path calls, and no registered interrupt handler      *)
(* allocates.  Hence one action per call.                                  *)
(***************************************************************************)
EXTENDS Integers, FiniteSets, Sequences

CONSTANTS
  PAGE_SIZE,                    \* bytes in a page
  CHAR_BIT,                     \* bits in a byte of the bitmap
  MAX_PHYS_PAGE_BITMAP_INDEX,   \* bytes in the bitmap
  MemoryInfos,                  \* the memory maps a boot loader may pass
  Sizes,                        \* the byte sizes clients ask for
  Clients,                      \* callers of the allocator
  NULL                          \* nullptr

Total     == MAX_PHYS_PAGE_BITMAP_INDEX * CHAR_BIT
Pages     == 0 .. Total - 1
ScanTotal == (MAX_PHYS_PAGE_BITMAP_INDEX + 1) * CHAR_BIT

(* The bits of the byte that follows the bitmap array.  FindAvailableAddress *)
(* reads them although they belong to some other object.                     *)
Beyond == Total .. ScanTotal - 1

Region == [Base : Nat, Length : Nat]

ASSUME SizesAssumption ==
  /\ PAGE_SIZE \in Nat \ {0}
  /\ CHAR_BIT \in Nat \ {0}
  /\ MAX_PHYS_PAGE_BITMAP_INDEX \in Nat \ {0}
  /\ Sizes \subseteq Nat

ASSUME MemoryInfosAssumption == MemoryInfos \subseteq Seq(Region)

ASSUME NULLAssumption == NULL \notin Int /\ NULL \notin [first : Int, size : Int]

VARIABLES
  info,      \* the MemoryInfo main received
  bitmap,    \* PhysicalMemoryPageBitmap: TRUE where the bit is USED_BIT
  phase,     \* how far InitMemory has come
  live,      \* the block each client holds, NULL if none
  result     \* the last request: pages asked for, pointer returned

vars == <<info, bitmap, phase, live, result>>

NoRequest == [pages |-> 0, ptr |-> NULL]
-------------------------------------------------------------------------------
(* Reading the memory map. *)

(* Align: round up to a multiple of the page size. *)
Align(addr) == ((addr + PAGE_SIZE - 1) \div PAGE_SIZE) * PAGE_SIZE

\* Wrong form: the null page is not clipped off.
ClipKeepsNull(r) == r

(* A region that starts inside page 0 is moved up to page 1 so that nullptr *)
(* is never handed out.  The new length is computed from the new base.      *)
Clip(r) ==
  IF r.Base < PAGE_SIZE
  THEN [Base |-> PAGE_SIZE, Length |-> PAGE_SIZE - PAGE_SIZE]
  ELSE r

\* Wrong form: the tail page is rounded up instead of down.
PagesOfRoundingUp(r) ==
  LET c     == Clip(r)
      base  == Align(c.Base)
      size  == c.Base + c.Length - base
      first == base \div PAGE_SIZE
      count == (size + PAGE_SIZE - 1) \div PAGE_SIZE
  IN  IF c.Length < PAGE_SIZE \/ size < PAGE_SIZE \/ first + count > Total
      THEN {} ELSE first .. first + count - 1

\* Wrong form: the last page of a region is left out.
PagesOfOneShort(r) ==
  LET c     == Clip(r)
      base  == Align(c.Base)
      size  == c.Base + c.Length - base
      first == base \div PAGE_SIZE
      count == size \div PAGE_SIZE - 1
  IN  IF c.Length < PAGE_SIZE \/ size < PAGE_SIZE \/ first + count > Total
      THEN {} ELSE first .. first + count - 1

(* The pages one region of the map makes available.  SetBitRange refuses a   *)
(* range that leaves the bitmap; the one-page path calls SetBit unchecked,   *)
(* which past the end writes another object and marks no page.               *)
PagesOf(r) ==
  LET c     == Clip(r)
      base  == Align(c.Base)
      size  == c.Base + c.Length - base
      first == base \div PAGE_SIZE
      count == size \div PAGE_SIZE
  IN  IF \/ r.Base < PAGE_SIZE /\ r.Base + r.Length < PAGE_SIZE
         \/ c.Length < PAGE_SIZE
         \/ size < PAGE_SIZE
      THEN {}
      ELSE IF count = 1
           THEN {first} \cap Pages
           ELSE IF first + count > Total THEN {} ELSE first .. first + count - 1

(* All pages are marked used, then every region clears its bits. *)
FreeAtBoot(map) == UNION {PagesOf(map[i]) : i \in DOMAIN map}

Parsed(map) == [p \in Pages |-> p \notin FreeAtBoot(map)]

Init ==
  /\ info \in MemoryInfos
  /\ bitmap = [p \in Pages |-> FALSE]
  /\ phase = "reset"
  /\ live = [c \in Clients |-> NULL]
  /\ result = NoRequest

(* The direct call in InitMemory.  `called` is never set, so the guard at *)
(* the top of ParseMemoryInfo lets every call through.                    *)
ParseMemoryInfo ==
  /\ phase = "reset"
  /\ bitmap' = Parsed(info)
  /\ phase' = "parsed"
  /\ UNCHANGED <<info, live, result>>

(* InitEarlyPageAllocator parses the map again and constructs the allocator. *)
InitEarlyPageAllocator ==
  /\ phase = "parsed"
  /\ bitmap' = Parsed(info)
  /\ phase' = "ready"
  /\ UNCHANGED <<info, live, result>>
-------------------------------------------------------------------------------
(* Handing out pages. *)

(* The number of pages that hold size bytes. *)
PageCount(size) ==
  IF size % PAGE_SIZE # 0 THEN size \div PAGE_SIZE + 1 ELSE size \div PAGE_SIZE

FreePages == {p \in Pages : ~bitmap[p]}

Run(first, count) == first .. first + count - 1

(* The starts a scan over the given free bits may stop at. *)
Fits(free, count) == {s \in free : Run(s, count) \subseteq free}

First(s, S) == s \in S /\ \A t \in S : s <= t

\* Wrong form: the last page of the range is left out.
SetBitRangeOneShort(first, count, used) ==
  bitmap' = [p \in Pages |->
    IF first + count <= Total /\ p \in Run(first, count - 1) THEN used ELSE bitmap[p]]

(* Setting a range of bits: refused unless it lies inside the bitmap. *)
SetBitRange(first, count, used) ==
  bitmap' = [p \in Pages |->
    IF first + count <= Total /\ p \in Run(first, count) THEN used ELSE bitmap[p]]

Block(first, size) == [first |-> first, size |-> size]

(* AllocatePage(): the lowest free page of the bitmap. *)
AllocatePage(c) ==
  /\ phase = "ready" /\ live[c] = NULL
  /\ \/ \E p \in FreePages :
          /\ First(p, FreePages)
          /\ bitmap' = [bitmap EXCEPT ![p] = TRUE]
          /\ live' = [live EXCEPT ![c] = Block(p, PAGE_SIZE)]
          /\ result' = [pages |-> 1, ptr |-> p]
     \/ /\ FreePages = {}
        /\ result' = [pages |-> 1, ptr |-> NULL]
        /\ UNCHANGED <<bitmap, live>>
  /\ UNCHANGED <<info, phase>>

\* Wrong form: the scan stops one page early.
FoundStopsEarly(count, guard) == Fits(FreePages \ {Total - 2}, count)

\* Wrong form: the scan does not see what has been handed out since boot.
FoundAsParsed(count, guard) == Fits(FreeAtBoot(info) \cup guard, count)

(* FindAvailableAddress(count): the lowest run of count clear bits among the *)
(* bitmap and the byte after it, whose clear bits are `guard`.               *)
Found(count, guard) == Fits(FreePages \cup guard, count)

(* AllocatePage(minSize). *)
AllocatePages(c, minSize) ==
  LET count == PageCount(minSize) IN
  IF count = 1
  THEN AllocatePage(c)
  ELSE /\ phase = "ready" /\ live[c] = NULL
       /\ \E guard \in SUBSET Beyond :
            \/ \E s \in Found(count, guard) :
                 /\ count > 0
                 /\ First(s, Found(count, guard))
                 /\ SetBitRange(s, count, TRUE)
                 /\ live' = [live EXCEPT ![c] = Block(s, minSize)]
                 /\ result' = [pages |-> count, ptr |-> s]
            \/ /\ count = 0 \/ Found(count, guard) = {}
               /\ result' = [pages |-> count, ptr |-> NULL]
               /\ UNCHANGED <<bitmap, live>>
       /\ UNCHANGED <<info, phase>>

(* FreePage(ptr), for a block of one page. *)
FreePage(c) ==
  /\ live[c] # NULL /\ PageCount(live[c].size) = 1
  /\ bitmap' = [bitmap EXCEPT ![live[c].first] = FALSE]
  /\ live' = [live EXCEPT ![c] = NULL]
  /\ result' = NoRequest
  /\ UNCHANGED <<info, phase>>

(* FreePage(ptr, allocatedSize) with the size that was asked for. *)
FreePageSized(c) ==
  /\ live[c] # NULL
  /\ SetBitRange(live[c].first, PageCount(live[c].size), FALSE)
  /\ live' = [live EXCEPT ![c] = NULL]
  /\ result' = NoRequest
  /\ UNCHANGED <<info, phase>>

Next ==
  \/ ParseMemoryInfo
  \/ InitEarlyPageAllocator
  \/ \E c \in Clients :
       \/ AllocatePage(c)
       \/ \E size \in Sizes : AllocatePages(c, size)
       \/ FreePage(c)
       \/ FreePageSized(c)

Spec == Init /\ [][Next]_vars
-------------------------------------------------------------------------------
(* Properties. *)

BlockPages(b) == IF b = NULL THEN {} ELSE Run(b.first, PageCount(b.size))

Held(c) == BlockPages(live[c]) \cap Pages

Blocks == [first : 0 .. ScanTotal - 1, size : Sizes \cup {PAGE_SIZE}]

(* Every variable has the type its C++ counterpart has. *)
TypeOK ==
  /\ info \in MemoryInfos
  /\ bitmap \in [Pages -> BOOLEAN]
  /\ phase \in {"reset", "parsed", "ready"}
  /\ live \in [Clients -> Blocks \cup {NULL}]
  /\ result \in [pages : Nat, ptr : (0 .. ScanTotal - 1) \cup {NULL}]

(* The whole pages inside a region of the map. *)
Inside(p, r) == r.Base <= p * PAGE_SIZE /\ (p + 1) * PAGE_SIZE <= r.Base + r.Length

(* ParseMemoryInfo frees only pages that lie entirely inside a region the    *)
(* boot loader reported free, whatever the alignment and length of the       *)
(* regions; allocation and release keep it so.                               *)
OnlyReportedMemoryIsFree ==
  phase # "reset" =>
    \A p \in FreePages : \E i \in DOMAIN info : Inside(p, info[i])

(* GetAvailableSize: the bytes in the pages whose bit is clear. *)
GetAvailableSize == PAGE_SIZE * Cardinality(FreePages)

(* The regions that give their pages: one that starts in page 0, or reaches  *)
(* past the last page of the bitmap, gives none, not even those of its pages *)
(* that could be used; one of a single page does, though the comment at      *)
(* PhysicalMemoryBitmap.cpp:59 says that it is ignored.                      *)
Kept(r) == r.Base >= PAGE_SIZE /\ r.Base + r.Length < (Total + 1) * PAGE_SIZE

(* The pages that are free or held by a client are exactly the whole pages   *)
(* of the regions that are kept: neither parsing twice nor a sequence of     *)
(* allocations and releases loses a page, or makes one.  What                *)
(* GetAvailableSize reports plus what the clients hold is always what was    *)
(* available at boot.                                                        *)
NoPageIsLost ==
  phase # "reset" =>
    /\ \A p \in Pages :
         (p \in FreePages \/ \E c \in Clients : p \in Held(c))
           <=> \E i \in DOMAIN info : Kept(info[i]) /\ Inside(p, info[i])
    /\ GetAvailableSize + PAGE_SIZE * Cardinality({x \in Clients \X Pages : x[2] \in Held(x[1])})
         = PAGE_SIZE * Cardinality(FreeAtBoot(info))

(* No page of physical memory is in the blocks of two clients at once: what  *)
(* AllocatePage hands out stays out of its reach until FreePage.             *)
NoSharedPage ==
  \A c, d \in Clients : c # d => Held(c) \cap Held(d) = {}

(* The bitmap says exactly who holds memory: a bit is USED if and only if    *)
(* the page was not available at boot or belongs to a live block.            *)
BitmapExact ==
  phase # "reset" =>
    \A p \in Pages :
      bitmap[p] <=> p \notin FreeAtBoot(info) \/ \E c \in Clients : p \in Held(c)

(* AllocatePage returns nullptr only if the bitmap has no free run of the    *)
(* length that was asked for.                                                *)
NullOnlyWhenNoRunIsFree ==
  result.pages > 0 /\ result.ptr = NULL => Fits(FreePages, result.pages) = {}

(* The allocator implements PageHeap as far as physical memory is concerned: *)
(* every call either moves one free run to its caller, or gives back exactly *)
(* the caller's run, or changes nothing, and page 0 is never in a run.       *)
Heap == INSTANCE PageHeap WITH
  booted <- phase # "reset",
  free   <- IF phase = "reset" THEN {} ELSE FreePages,
  held   <- [c \in Clients |-> Held(c)]

ImplementsPageHeap == Heap!Spec
===============================================================================
