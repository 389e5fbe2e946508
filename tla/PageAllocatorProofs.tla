-------------------------- MODULE PageAllocatorProofs --------------------------
(***************************************************************************)
(* Proofs about PageAllocator, for every page size, bitmap size, memory    *)
(* map and number of clients.                                              *)
(***************************************************************************)
EXTENDS PageAllocator, TLAPS

(* The memory map leaves the last page the bitmap covers in use, so that no *)
(* run of free pages continues into the byte after the bitmap.              *)
TopPageReserved == \A m \in MemoryInfos : Total - 1 \notin FreeAtBoot(m)

(* A block is inside the bitmap or entirely past its end. *)
WellPlaced ==
  \A c \in Clients : live[c] # NULL =>
    /\ PageCount(live[c].size) > 0
    /\ \/ live[c].first + PageCount(live[c].size) <= Total
       \/ live[c].first >= Total

NothingHeldBeforeReady == phase # "ready" => \A c \in Clients : live[c] = NULL

HeldWasFree == \A c \in Clients : Held(c) \subseteq FreeAtBoot(info)

(* The inductive invariant. *)
IInv ==
  /\ TypeOK
  /\ NothingHeldBeforeReady
  /\ WellPlaced
  /\ HeldWasFree
  /\ NoSharedPage
  /\ BitmapExact
-------------------------------------------------------------------------------
LEMMA TotalType ==
  /\ Total \in Nat /\ Total > 0
  /\ ScanTotal \in Nat /\ ScanTotal = Total + CHAR_BIT
<1>1. \A a, b \in Nat \ {0} : a * b \in Nat /\ a * b > 0 /\ (a + 1) * b = a * b + b
  OBVIOUS
<1> QED  BY <1>1, SizesAssumption DEF Total, ScanTotal

LEMMA PageCountType ==
  ASSUME NEW size \in Nat
  PROVE  PageCount(size) \in Nat
BY SizesAssumption DEF PageCount

LEMMA PageCountOfPage == PageCount(PAGE_SIZE) = 1
BY SizesAssumption DEF PageCount

LEMMA BlockPagesType ==
  ASSUME TypeOK, NEW c \in Clients, live[c] # NULL
  PROVE  /\ live[c].first \in Nat
         /\ live[c].size \in Nat
         /\ PageCount(live[c].size) \in Nat
<1>1. live[c] \in Blocks
  BY DEF TypeOK
<1>2. live[c].first \in 0 .. ScanTotal - 1 /\ live[c].size \in Sizes \cup {PAGE_SIZE}
  BY <1>1 DEF Blocks
<1>3. live[c].first \in Nat
  BY <1>2, TotalType
<1>4. live[c].size \in Nat
  BY ZenonT(30), <1>2, SizesAssumption
<1> QED  BY <1>3, <1>4, PageCountType

(* Taking free pages: one client's block becomes the pages S, which were   *)
(* free, and their bits are set.                                           *)
LEMMA TakePreserves ==
  ASSUME IInv, phase = "ready", phase' = "ready", info' = info,
         NEW c \in Clients, NEW S \in SUBSET FreePages,
         Held(c) = {}, Held(c)' = S,
         \A d \in Clients \ {c} : Held(d)' = Held(d),
         \A p \in Pages : bitmap'[p] <=> p \in S \/ bitmap[p]
  PROVE  HeldWasFree' /\ NoSharedPage' /\ BitmapExact'
<1>1. \A d \in Clients : Held(d) \cap FreePages = {}
  BY DEF IInv, BitmapExact, FreePages
<1>2. HeldWasFree' /\ NoSharedPage'
  <2>1. FreePages \subseteq FreeAtBoot(info)
    BY DEF IInv, BitmapExact, FreePages
  <2>2. \A d \in Clients : Held(d)' \subseteq FreeAtBoot(info)
    BY <2>1 DEF IInv, HeldWasFree
  <2> QED  BY <1>1, <2>2 DEF IInv, NoSharedPage, HeldWasFree
<1>3. BitmapExact'
  <2> SUFFICES ASSUME NEW p \in Pages
               PROVE  bitmap'[p] <=> \/ p \notin FreeAtBoot(info)
                                     \/ \E d \in Clients : p \in Held(d)'
    <3>1. Pages' = Pages
      BY DEF Pages, Total
    <3>2. FreeAtBoot(info)' = FreeAtBoot(info)
      BY DEF FreeAtBoot, PagesOf, Clip, Align
    <3> QED  BY Zenon, <3>1, <3>2 DEF BitmapExact
  <2>1. bitmap[p] <=> p \notin FreeAtBoot(info) \/ \E d \in Clients : p \in Held(d)
    BY DEF IInv, BitmapExact
  <2>2. (\E d \in Clients : p \in Held(d)') <=> p \in S \/ \E d \in Clients : p \in Held(d)
    OBVIOUS
  <2> QED  BY Zenon, <2>1, <2>2
<1> QED  BY <1>2, <1>3

(* Giving pages back: the bits of one client's block are cleared. *)
LEMMA GivePreserves ==
  ASSUME IInv, phase = "ready", phase' = "ready", info' = info,
         NEW c \in Clients, Held(c)' = {},
         \A d \in Clients \ {c} : Held(d)' = Held(d),
         \A p \in Pages : bitmap'[p] <=> bitmap[p] /\ p \notin Held(c)
  PROVE  HeldWasFree' /\ NoSharedPage' /\ BitmapExact'
<1>1. HeldWasFree' /\ NoSharedPage'
  BY DEF IInv, NoSharedPage, HeldWasFree
<1>2. BitmapExact'
  <2> SUFFICES ASSUME NEW p \in Pages
               PROVE  bitmap'[p] <=> \/ p \notin FreeAtBoot(info)
                                     \/ \E d \in Clients : p \in Held(d)'
    <3>1. Pages' = Pages
      BY DEF Pages, Total
    <3>2. FreeAtBoot(info)' = FreeAtBoot(info)
      BY DEF FreeAtBoot, PagesOf, Clip, Align
    <3> QED  BY Zenon, <3>1, <3>2 DEF BitmapExact
  <2>1. bitmap[p] <=> p \notin FreeAtBoot(info) \/ \E d \in Clients : p \in Held(d)
    BY DEF IInv, BitmapExact
  <2>2. (\E d \in Clients : p \in Held(d)') <=> \E d \in Clients \ {c} : p \in Held(d)
    OBVIOUS
  <2>3. p \in Held(c) => \A d \in Clients \ {c} : p \notin Held(d)
    BY DEF IInv, NoSharedPage
  <2>4. CASE p \in Held(c)
    BY <2>1, <2>2, <2>3, <2>4 DEF IInv, HeldWasFree
  <2>5. CASE p \notin Held(c)
    BY <2>1, <2>2, <2>5
  <2> QED  BY SMTT(20), <2>4, <2>5
<1> QED  BY <1>1, <1>2

LEMMA HeldOfOthers ==
  ASSUME TypeOK, NEW c \in Clients, NEW b, live' = [live EXCEPT ![c] = b]
  PROVE  /\ \A d \in Clients \ {c} : Held(d)' = Held(d) /\ live'[d] = live[d]
         /\ live'[c] = b
         /\ Held(c)' = BlockPages(b) \cap Pages
<1>1. live'[c] = b /\ \A d \in Clients \ {c} : live'[d] = live[d]
  BY DEF TypeOK
<1> QED  BY <1>1 DEF Held, BlockPages, Pages, Total, Run, PageCount

(* A block record is not NULL, and its fields are the ones it was made of. *)
LEMMA BlockFacts ==
  ASSUME NEW first \in 0 .. ScanTotal - 1, NEW size \in Sizes \cup {PAGE_SIZE}
  PROVE  /\ Block(first, size) \in Blocks
         /\ Block(first, size) # NULL
         /\ BlockPages(Block(first, size)) = Run(first, PageCount(size))
         /\ Block(first, size).first = first
         /\ Block(first, size).size = size
<1>1. first \in Int
  BY TotalType
<1>2. size \in Int
  BY SizesAssumption
<1>3. Block(first, size) \in [first : Int, size : Int]
  BY <1>1, <1>2 DEF Block
<1>4. Block(first, size) # NULL
  BY <1>3, NULLAssumption
<1> QED  BY <1>4 DEF Block, Blocks, BlockPages

LEMMA PagesInScan == Pages \subseteq 0 .. ScanTotal - 1 /\ Beyond \subseteq 0 .. ScanTotal - 1
BY TotalType, SizesAssumption DEF Pages, Beyond

LEMMA AllocatePageStep ==
  ASSUME IInv, NEW c \in Clients, AllocatePage(c)
  PROVE  IInv'
<1> USE DEF IInv
<1>0. phase = "ready" /\ phase' = "ready" /\ info' = info /\ live[c] = NULL
  BY DEF AllocatePage
<1>1. ASSUME NEW p \in FreePages,
             bitmap' = [bitmap EXCEPT ![p] = TRUE],
             live' = [live EXCEPT ![c] = Block(p, PAGE_SIZE)],
             result' = [pages |-> 1, ptr |-> p]
      PROVE  IInv'
  <2>1. p \in Pages /\ p \in 0 .. ScanTotal - 1 /\ p \in Nat
    BY PagesInScan, TotalType DEF FreePages, Pages
  <2>2. BlockPages(Block(p, PAGE_SIZE)) = {p}
    BY <2>1, BlockFacts, PageCountOfPage DEF Run
  <2>3. TypeOK'
    BY <1>0, <1>1, <2>1, BlockFacts DEF TypeOK
  <2>4. /\ \A d \in Clients \ {c} : Held(d)' = Held(d) /\ live'[d] = live[d]
        /\ live'[c] = Block(p, PAGE_SIZE)
        /\ Held(c)' = {p}
    BY Zenon, <1>1, <2>1, <2>2, HeldOfOthers
  <2>5. WellPlaced'
    <3> SUFFICES ASSUME NEW d \in Clients, live'[d] # NULL
                 PROVE  /\ PageCount(live'[d].size) > 0
                        /\ \/ live'[d].first + PageCount(live'[d].size) <= Total
                           \/ live'[d].first >= Total
      BY DEF WellPlaced, PageCount, Total
    <3>1. CASE d = c
      BY <3>1, <2>1, <2>4, BlockFacts, PageCountOfPage, TotalType DEF Pages
    <3>2. CASE d # c
      BY <3>2, <2>4 DEF WellPlaced
    <3> QED  BY Zenon, <3>1, <3>2
  <2>6. Held(c) = {}
    BY <1>0 DEF Held, BlockPages
  <2>7. \A q \in Pages : bitmap'[q] <=> q \in {p} \/ bitmap[q]
    BY <1>1, <2>1 DEF TypeOK
  <2>8. HeldWasFree' /\ NoSharedPage' /\ BitmapExact'
    BY <1>0, <2>4, <2>6, <2>7, TakePreserves
  <2> QED  BY <1>0, <2>3, <2>5, <2>8 DEF NothingHeldBeforeReady
<1>2. ASSUME result' = [pages |-> 1, ptr |-> NULL], UNCHANGED <<bitmap, live>>
      PROVE  IInv'
  <2>1. TypeOK'
    BY <1>0, <1>2 DEF TypeOK
  <2>2. HeldWasFree' /\ NoSharedPage' /\ BitmapExact' /\ WellPlaced'
    BY <1>0, <1>2 DEF HeldWasFree, NoSharedPage, BitmapExact, WellPlaced, Held
  <2> QED  BY <1>0, <2>1, <2>2 DEF NothingHeldBeforeReady
<1> QED  BY <1>1, <1>2 DEF AllocatePage

(* A run found by the scan lies inside the bitmap or entirely past it: the   *)
(* last page of the bitmap is in use, so no run of clear bits crosses it.    *)
LEMMA FoundIsWellPlaced ==
  ASSUME IInv, TopPageReserved, phase = "ready",
         NEW count \in Nat \ {0}, NEW guard \in SUBSET Beyond,
         NEW s \in Found(count, guard)
  PROVE  /\ s \in 0 .. ScanTotal - 1
         /\ \/ s + count <= Total /\ Run(s, count) \subseteq FreePages
            \/ s >= Total /\ Run(s, count) \cap Pages = {}
<1>1. s \in FreePages \cup guard /\ Run(s, count) \subseteq FreePages \cup guard
  BY DEF Found, Fits
<1>2. s \in 0 .. ScanTotal - 1
  BY <1>1, PagesInScan DEF FreePages
<1>3. Total - 1 \in Pages /\ Total - 1 \notin FreePages
  <2>1. Total - 1 \in Pages
    BY TotalType DEF Pages
  <2>2. Total - 1 \notin FreeAtBoot(info)
    BY DEF TopPageReserved, IInv, TypeOK
  <2> QED  BY <2>1, <2>2 DEF IInv, BitmapExact, FreePages
<1>4. \A p \in guard : p \in Int /\ p >= Total
  BY TotalType DEF Beyond
<1>5. Total - 1 \notin Run(s, count)
  BY <1>1, <1>3, <1>4, TotalType
<1>6. s + count <= Total \/ s >= Total
  BY <1>2, <1>5, TotalType DEF Run
<1>7. CASE s + count <= Total
  BY <1>1, <1>2, <1>4, <1>7, TotalType DEF Run
<1>8. CASE s >= Total
  BY <1>2, <1>8, TotalType DEF Run, Pages
<1> QED  BY <1>2, <1>6, <1>7, <1>8

LEMMA AllocatePagesStep ==
  ASSUME IInv, TopPageReserved, NEW c \in Clients, NEW size \in Sizes,
         AllocatePages(c, size)
  PROVE  IInv'
<1> DEFINE count == PageCount(size)
<1>1. CASE count = 1
  BY <1>1, AllocatePageStep DEF AllocatePages
<1>2. CASE count # 1
  <2> USE DEF IInv
  <2>0. /\ phase = "ready" /\ phase' = "ready" /\ info' = info /\ live[c] = NULL
        /\ count \in Nat /\ size \in Sizes \cup {PAGE_SIZE}
    BY <1>2, PageCountType, SizesAssumption DEF AllocatePages
  <2>1. ASSUME NEW guard \in SUBSET Beyond, NEW s \in Found(count, guard), count > 0,
               SetBitRange(s, count, TRUE),
               live' = [live EXCEPT ![c] = Block(s, size)],
               result' = [pages |-> count, ptr |-> s]
        PROVE  IInv'
    <3>1. /\ s \in 0 .. ScanTotal - 1
          /\ \/ s + count <= Total /\ Run(s, count) \subseteq FreePages
             \/ s >= Total /\ Run(s, count) \cap Pages = {}
      BY <2>0, <2>1, FoundIsWellPlaced
    <3>2. /\ \A d \in Clients \ {c} : Held(d)' = Held(d) /\ live'[d] = live[d]
          /\ live'[c] = Block(s, size)
          /\ Held(c)' = Run(s, count) \cap Pages
      <4>1. BlockPages(Block(s, size)) = Run(s, count)
        BY <2>0, <3>1, BlockFacts
      <4> QED  BY Zenon, <4>1, <2>1, HeldOfOthers
    <3>3. TypeOK'
      <4>1. bitmap' \in [Pages -> BOOLEAN]
        BY Zenon, <2>1 DEF SetBitRange, TypeOK
      <4>2. live' \in [Clients -> Blocks \cup {NULL}]
        BY <2>0, <2>1, <3>1, BlockFacts DEF TypeOK
      <4> QED  BY <4>1, <4>2, <2>0, <2>1, <3>1 DEF TypeOK
    <3>4. WellPlaced'
      <4> SUFFICES ASSUME NEW d \in Clients, live'[d] # NULL
                   PROVE  /\ PageCount(live'[d].size) > 0
                          /\ \/ live'[d].first + PageCount(live'[d].size) <= Total
                             \/ live'[d].first >= Total
        BY DEF WellPlaced, PageCount, Total
      <4>1. CASE d = c
        BY <4>1, <2>0, <2>1, <3>1, <3>2, BlockFacts
      <4>2. CASE d # c
        BY Zenon, <4>2, <3>2 DEF WellPlaced
      <4> QED  BY Zenon, <4>1, <4>2
    <3>5. Held(c) = {}
      BY Zenon, <2>0 DEF Held, BlockPages
    <3>6. Held(c)' \subseteq FreePages
      BY <3>1, <3>2
    <3>7. \A p \in Pages : bitmap'[p] <=> p \in Run(s, count) \cap Pages \/ bitmap[p]
      <4>1. CASE s + count <= Total
        BY <4>1, <2>1 DEF SetBitRange
      <4>2. CASE ~(s + count <= Total)
        BY Zenon, <4>2, <2>1, <3>1 DEF SetBitRange
      <4> QED  BY <4>1, <4>2
    <3>8. HeldWasFree' /\ NoSharedPage' /\ BitmapExact'
      BY Zenon, <2>0, <3>2, <3>5, <3>6, <3>7, TakePreserves
    <3> QED  BY Zenon, <2>0, <3>3, <3>4, <3>8 DEF NothingHeldBeforeReady
  <2>2. ASSUME result' = [pages |-> count, ptr |-> NULL], UNCHANGED <<bitmap, live>>
        PROVE  IInv'
    <3>1. TypeOK'
      BY Zenon, <2>0, <2>2 DEF TypeOK
    <3>2. HeldWasFree' /\ NoSharedPage' /\ BitmapExact' /\ WellPlaced'
      BY <2>0, <2>2 DEF HeldWasFree, NoSharedPage, BitmapExact, WellPlaced, Held
    <3> QED  BY <2>0, <3>1, <3>2 DEF NothingHeldBeforeReady
  <2> QED  BY Zenon, <1>2, <2>1, <2>2 DEF AllocatePages
<1> QED  BY <1>1, <1>2

LEMMA FreePageStep ==
  ASSUME IInv, NEW c \in Clients, FreePage(c)
  PROVE  IInv'
<1> USE DEF IInv
<1>0. /\ live[c] # NULL /\ phase = "ready" /\ phase' = "ready" /\ info' = info
      /\ live' = [live EXCEPT ![c] = NULL]
  BY DEF FreePage, NothingHeldBeforeReady
<1>1. Held(c) = {live[c].first} \cap Pages
  BY <1>0, BlockPagesType DEF FreePage, Held, BlockPages, Run
<1>2. /\ \A d \in Clients \ {c} : Held(d)' = Held(d) /\ live'[d] = live[d]
      /\ live'[c] = NULL
      /\ Held(c)' = {}
  BY Zenon, <1>0, HeldOfOthers DEF BlockPages
<1>3. TypeOK'
  BY Zenon, <1>0 DEF FreePage, TypeOK, NoRequest
<1>4. WellPlaced'
  BY <1>2 DEF WellPlaced
<1>5. \A p \in Pages : bitmap'[p] <=> bitmap[p] /\ p \notin Held(c)
  BY <1>1 DEF FreePage, TypeOK
<1>6. HeldWasFree' /\ NoSharedPage' /\ BitmapExact'
  BY <1>0, <1>2, <1>5, GivePreserves
<1> QED  BY <1>0, <1>3, <1>4, <1>6 DEF NothingHeldBeforeReady

LEMMA FreePageSizedStep ==
  ASSUME IInv, NEW c \in Clients, FreePageSized(c)
  PROVE  IInv'
<1> USE DEF IInv
<1>0. /\ live[c] # NULL /\ phase = "ready" /\ phase' = "ready" /\ info' = info
      /\ live' = [live EXCEPT ![c] = NULL]
  BY DEF FreePageSized, NothingHeldBeforeReady
<1> DEFINE first == live[c].first
           count == PageCount(live[c].size)
<1>1. Held(c) = Run(first, count) \cap Pages
  BY <1>0 DEF Held, BlockPages
<1>2. /\ \A d \in Clients \ {c} : Held(d)' = Held(d) /\ live'[d] = live[d]
      /\ live'[c] = NULL
      /\ Held(c)' = {}
  BY Zenon, <1>0, HeldOfOthers DEF BlockPages
<1>3. TypeOK'
  BY Zenon, <1>0 DEF FreePageSized, SetBitRange, TypeOK, NoRequest
<1>4. WellPlaced'
  BY <1>2 DEF WellPlaced
<1>5. \A p \in Pages : bitmap'[p] <=> bitmap[p] /\ p \notin Held(c)
  <2>1. CASE first + count <= Total
    BY <1>1, <2>1 DEF FreePageSized, SetBitRange
  <2>2. CASE ~(first + count <= Total)
    <3>1. first >= Total
      BY <1>0, <2>2 DEF WellPlaced
    <3>2. Held(c) = {}
      BY <1>0, <1>1, <3>1, BlockPagesType, TotalType DEF Run, Pages
    <3> QED  BY <2>2, <3>2 DEF FreePageSized, SetBitRange
  <2> QED  BY <2>1, <2>2
<1>6. HeldWasFree' /\ NoSharedPage' /\ BitmapExact'
  BY <1>0, <1>2, <1>5, GivePreserves
<1> QED  BY <1>0, <1>3, <1>4, <1>6 DEF NothingHeldBeforeReady

(* Both calls of ParseMemoryInfo come before anybody holds memory. *)
LEMMA ParseStep ==
  ASSUME IInv, ParseMemoryInfo \/ InitEarlyPageAllocator
  PROVE  IInv'
<1>0. /\ phase # "ready" /\ phase' \in {"parsed", "ready"}
      /\ info' = info /\ live' = live /\ result' = result
      /\ bitmap' = Parsed(info)
  BY DEF ParseMemoryInfo, InitEarlyPageAllocator
<1>1. \A c \in Clients : live[c] = NULL /\ live'[c] = NULL
  BY <1>0 DEF IInv, NothingHeldBeforeReady
<1>2. \A c \in Clients : Held(c)' = {}
  BY <1>1 DEF Held, BlockPages
<1>3. TypeOK'
  BY <1>0 DEF IInv, TypeOK, Parsed
<1>4. BitmapExact'
  BY Zenon, <1>0, <1>2 DEF BitmapExact, Parsed
<1> QED  BY <1>1, <1>2, <1>3, <1>4, <1>0
         DEF IInv, NothingHeldBeforeReady, WellPlaced, HeldWasFree, NoSharedPage

LEMMA InitIInv == Init => IInv
<1> SUFFICES ASSUME Init PROVE IInv
  OBVIOUS
<1>1. \A c \in Clients : live[c] = NULL
  BY DEF Init
<1>2. \A c \in Clients : Held(c) = {}
  BY <1>1 DEF Held, BlockPages
<1>3. TypeOK
  BY DEF Init, TypeOK, NoRequest
<1> QED  BY <1>1, <1>2, <1>3
         DEF Init, IInv, NothingHeldBeforeReady, WellPlaced, HeldWasFree, NoSharedPage, BitmapExact

LEMMA NextIInv ==
  ASSUME TopPageReserved, IInv, [Next]_vars
  PROVE  IInv'
<1>1. CASE UNCHANGED vars
  BY <1>1 DEF vars, IInv, TypeOK, NothingHeldBeforeReady, WellPlaced, HeldWasFree,
              NoSharedPage, BitmapExact, Held
<1>2. CASE Next
  BY <1>2, ParseStep, AllocatePageStep, AllocatePagesStep, FreePageStep, FreePageSizedStep
  DEF Next
<1> QED  BY <1>1, <1>2

(* No page of physical memory is ever handed to two callers, for every page *)
(* size, bitmap size and memory map whose top page is in use.               *)
THEOREM PagesAreNeverShared ==
  ASSUME TopPageReserved
  PROVE  Spec => []NoSharedPage
<1>1. IInv => NoSharedPage
  BY DEF IInv
<1> QED  BY <1>1, InitIInv, NextIInv, PTL DEF Spec

(* The bitmap and the callers agree about every page at every moment. *)
THEOREM BitmapIsExact ==
  ASSUME TopPageReserved
  PROVE  Spec => []BitmapExact
<1>1. IInv => BitmapExact
  BY DEF IInv
<1> QED  BY <1>1, InitIInv, NextIInv, PTL DEF Spec

(* Type correctness. *)
THEOREM TypeCorrect ==
  ASSUME TopPageReserved
  PROVE  Spec => []TypeOK
<1>1. IInv => TypeOK
  BY DEF IInv
<1> QED  BY <1>1, InitIInv, NextIInv, PTL DEF Spec
-------------------------------------------------------------------------------
(* Page 0 is never made available: nullptr is not a block. *)
LEMMA NullPageIsNeverFree ==
  ASSUME NEW m \in MemoryInfos
  PROVE  FreeAtBoot(m) \subseteq Pages \ {0}
<1>1. \A a \in Nat, b \in Nat \ {0} : a >= b => a \div b \in Nat /\ a \div b >= 1
  OBVIOUS
<1>2. \A q \in Nat, b \in Nat \ {0} : (q * b) \div b = q
  OBVIOUS
<1>3. \A q \in Nat, b \in Nat \ {0} : q * b \in Nat
  OBVIOUS
<1>4. ASSUME NEW r \in Region PROVE PagesOf(r) \subseteq Pages \ {0}
  <2> DEFINE c == Clip(r)
             q == (c.Base + PAGE_SIZE - 1) \div PAGE_SIZE
             base == Align(c.Base)
             size == c.Base + c.Length - base
             first == base \div PAGE_SIZE
             count == size \div PAGE_SIZE
  <2>1. c.Base \in Nat /\ c.Length \in Nat /\ c.Base >= PAGE_SIZE
    BY SizesAssumption DEF Clip, Region
  <2>2. q \in Nat /\ q >= 1
    <3>1. c.Base + PAGE_SIZE - 1 \in Nat /\ c.Base + PAGE_SIZE - 1 >= PAGE_SIZE
      BY <2>1, SizesAssumption
    <3> HIDE DEF c
    <3> QED  BY <3>1, <1>1, SizesAssumption
  <2>3. first = q
    BY <2>2, <1>2, SizesAssumption DEF Align
  <2>4. base \in Nat
    BY <2>2, <1>3, SizesAssumption DEF Align
  <2>5. count \in Int
    <3> HIDE DEF c, base
    <3> QED  BY SMTT(20), <2>1, <2>4, SizesAssumption
  <2>6. PagesOf(r) = {} \/ PagesOf(r) = {first} \cap Pages \/ (first + count <= Total /\ PagesOf(r) = first .. first + count - 1)
    <3>1. ~(first + count > Total) => first + count <= Total
      <4> HIDE DEF first, count
      <4> QED  BY <2>2, <2>3, <2>5, TotalType
    <3> QED  BY <3>1 DEF PagesOf
  <2> HIDE DEF first, count
  <2> QED  BY <2>2, <2>3, <2>5, <2>6, TotalType DEF Pages
<1>5. \A i \in DOMAIN m : m[i] \in Region
  BY MemoryInfosAssumption
<1> QED  BY <1>4, <1>5 DEF FreeAtBoot
-------------------------------------------------------------------------------
(* What a region of the memory map makes available. *)

(* Facts about division that the page numbers of a region need. *)
LEMMA Division ==
  ASSUME NEW a \in Int, NEW d \in Nat \ {0}
  PROVE  /\ a \div d \in Int
         /\ (a \div d) * d <= a /\ a < (a \div d) * d + d
         /\ a \in Nat => a \div d \in Nat
BY SMT

LEMMA MultiplesAreOrdered ==
  ASSUME NEW a \in Int, NEW b \in Int, NEW d \in Nat \ {0}
  PROVE  /\ a * d \in Int /\ (a + b) * d = a * d + b * d
         /\ a <= b <=> a * d <= b * d
         /\ a < b <=> a * d < b * d
<1>1. a <= b => a * d <= b * d
  BY SMT
<1>2. a < b => a * d < b * d
  BY SMT
<1> QED  BY <1>1, <1>2, SMT

(* The pages of a region above page 0: the first whole page and how many     *)
(* there are, by rounding its start up and what is left of it down.          *)
LEMMA PagesOfRegion ==
  ASSUME NEW r \in Region, r.Base >= PAGE_SIZE
  PROVE  \E first, count \in Int :
           /\ first \in Nat
           /\ \A n \in Int : r.Base <= n * PAGE_SIZE <=> first <= n
           /\ \A n \in Int : n * PAGE_SIZE <= r.Base + r.Length <=> n <= first + count
           /\ PagesOf(r) = IF r.Length < PAGE_SIZE \/ count < 1 THEN {}
                          ELSE IF count = 1 THEN {first} \cap Pages
                          ELSE IF first + count > Total THEN {} ELSE first .. first + count - 1
<1> DEFINE base  == Align(r.Base)
           size  == r.Base + r.Length - base
           first == base \div PAGE_SIZE
           count == size \div PAGE_SIZE
           q     == (r.Base + PAGE_SIZE - 1) \div PAGE_SIZE
<1>1. r.Base \in Nat /\ r.Length \in Nat /\ PAGE_SIZE \in Nat \ {0}
  BY SizesAssumption DEF Region
<1>2. /\ q \in Nat
      /\ q * PAGE_SIZE <= r.Base + PAGE_SIZE - 1
      /\ r.Base + PAGE_SIZE - 1 < q * PAGE_SIZE + PAGE_SIZE
  <2> DEFINE a == r.Base + PAGE_SIZE - 1
  <2>1. a \in Nat
    BY <1>1
  <2> HIDE DEF a
  <2>2. /\ a \div PAGE_SIZE \in Nat
        /\ (a \div PAGE_SIZE) * PAGE_SIZE <= a
        /\ a < (a \div PAGE_SIZE) * PAGE_SIZE + PAGE_SIZE
    BY <1>1, <2>1, Division
  <2> QED  BY <2>2, Zenon DEF a
<1>3. base = q * PAGE_SIZE /\ base \in Int
  BY <1>2, <1>1, MultiplesAreOrdered DEF Align
<1>4. first = q
  <2>1. \A n \in Nat, d \in Nat \ {0} : (n * d) \div d = n
    OBVIOUS
  <2> QED  BY <1>1, <1>2, <1>3, <2>1
<1>5. /\ count \in Int /\ size \in Int
      /\ count * PAGE_SIZE <= size /\ size < count * PAGE_SIZE + PAGE_SIZE
  <2> HIDE DEF base
  <2>1. size \in Int
    BY <1>1, <1>3
  <2> HIDE DEF size
  <2> QED  BY <1>1, <2>1, Division
<1> HIDE DEF first, count
<1>6. ASSUME NEW n \in Int PROVE r.Base <= n * PAGE_SIZE <=> first <= n
  <2>1. n * PAGE_SIZE \in Int /\ (first - 1) * PAGE_SIZE = first * PAGE_SIZE - PAGE_SIZE
    BY <1>1, <1>2, <1>4, MultiplesAreOrdered
  <2>2. first <= n <=> first * PAGE_SIZE <= n * PAGE_SIZE
    BY <1>1, <1>2, <1>4, MultiplesAreOrdered
  <2>3. first - 1 < n <=> (first - 1) * PAGE_SIZE < n * PAGE_SIZE
    BY <1>1, <1>2, <1>4, MultiplesAreOrdered
  <2> QED  BY <1>1, <1>2, <1>3, <1>4, <2>1, <2>2, <2>3
<1>7. ASSUME NEW n \in Int PROVE n * PAGE_SIZE <= r.Base + r.Length <=> n <= first + count
  <2>1. /\ n * PAGE_SIZE \in Int
        /\ (first + count) * PAGE_SIZE = first * PAGE_SIZE + count * PAGE_SIZE
        /\ (first + count + 1) * PAGE_SIZE = first * PAGE_SIZE + count * PAGE_SIZE + PAGE_SIZE
    <3>1. (first + count + 1) * PAGE_SIZE = (first + count) * PAGE_SIZE + 1 * PAGE_SIZE
      BY <1>1, <1>2, <1>4, <1>5, MultiplesAreOrdered
    <3> QED  BY <3>1, <1>1, <1>2, <1>4, <1>5, MultiplesAreOrdered
  <2>2. n <= first + count <=> n * PAGE_SIZE <= (first + count) * PAGE_SIZE
    BY <1>1, <1>2, <1>4, <1>5, MultiplesAreOrdered
  <2>3. n < first + count + 1 <=> n * PAGE_SIZE < (first + count + 1) * PAGE_SIZE
    BY <1>1, <1>2, <1>4, <1>5, MultiplesAreOrdered
  <2>4. size = r.Base + r.Length - first * PAGE_SIZE
    BY <1>3, <1>4
  <2>5. first * PAGE_SIZE \in Int /\ count * PAGE_SIZE \in Int
    BY <1>1, <1>2, <1>4, <1>5, MultiplesAreOrdered
  <2> HIDE DEF size
  <2> QED  BY <1>1, <1>2, <1>4, <1>5, <2>1, <2>2, <2>3, <2>4, <2>5
<1>8. size < PAGE_SIZE <=> count < 1
  <2>1. (count < 1 <=> count * PAGE_SIZE < 1 * PAGE_SIZE) /\ (count <= 0 <=> count * PAGE_SIZE <= 0 * PAGE_SIZE)
    BY <1>1, <1>5, MultiplesAreOrdered
  <2> HIDE DEF size
  <2> QED  BY <1>1, <1>5, <2>1
<1>9. PagesOf(r) = IF r.Length < PAGE_SIZE \/ count < 1 THEN {}
                   ELSE IF count = 1 THEN {first} \cap Pages
                   ELSE IF first + count > Total THEN {} ELSE first .. first + count - 1
  <2>1. Clip(r) = r /\ ~(r.Base < PAGE_SIZE)
    BY <1>1 DEF Clip
  <2>2. PagesOf(r) = IF \/ r.Base < PAGE_SIZE /\ r.Base + r.Length < PAGE_SIZE
                        \/ r.Length < PAGE_SIZE
                        \/ size < PAGE_SIZE
                     THEN {}
                     ELSE IF count = 1 THEN {first} \cap Pages
                     ELSE IF first + count > Total THEN {} ELSE first .. first + count - 1
    BY <2>1, Zenon DEF PagesOf, first, count
  <2> HIDE DEF size
  <2>3. (\/ r.Base < PAGE_SIZE /\ r.Base + r.Length < PAGE_SIZE
         \/ r.Length < PAGE_SIZE
         \/ size < PAGE_SIZE) <=> r.Length < PAGE_SIZE \/ count < 1
    BY <2>1, <1>8, Zenon
  <2>4. CASE r.Length < PAGE_SIZE \/ count < 1
    <3>1. PagesOf(r) = {}
      BY <2>2, <2>3, <2>4
    <3> QED  BY <2>4, <3>1
  <2>5. CASE ~(r.Length < PAGE_SIZE \/ count < 1)
    <3>1. PagesOf(r) = IF count = 1 THEN {first} \cap Pages
                       ELSE IF first + count > Total THEN {} ELSE first .. first + count - 1
      BY <2>2, <2>3, <2>5, Zenon
    <3> QED  BY <2>5, <3>1, Zenon
  <2> QED  BY <2>4, <2>5
<1>10. first \in Nat
  BY <1>2, <1>4
<1> first \in Int /\ count \in Int
  BY <1>5, <1>10
<1> HIDE DEF q, base, size
<1> WITNESS first \in Int, count \in Int
<1> QED  BY <1>6, <1>7, <1>9, <1>10

(* Every page that a region makes available lies entirely inside it, and the *)
(* region is one that is kept.                                               *)
LEMMA AvailableIsInside ==
  ASSUME NEW r \in Region, NEW p \in PagesOf(r)
  PROVE  p \in Pages /\ Inside(p, r) /\ Kept(r)
<1>1. r.Base \in Nat /\ r.Length \in Nat /\ PAGE_SIZE \in Nat \ {0}
  BY SizesAssumption DEF Region
<1>2. r.Base >= PAGE_SIZE
  <2>1. Clip(r).Length = 0 /\ 0 < PAGE_SIZE => PagesOf(r) = {}
    BY Zenon DEF PagesOf
  <2>2. r.Base < PAGE_SIZE => Clip(r).Length = 0
    BY <1>1 DEF Clip
  <2> QED  BY <1>1, <2>1, <2>2
<1>3. PICK first, count \in Int :
           /\ first \in Nat
           /\ \A n \in Int : r.Base <= n * PAGE_SIZE <=> first <= n
           /\ \A n \in Int : n * PAGE_SIZE <= r.Base + r.Length <=> n <= first + count
           /\ PagesOf(r) = IF r.Length < PAGE_SIZE \/ count < 1 THEN {}
                          ELSE IF count = 1 THEN {first} \cap Pages
                          ELSE IF first + count > Total THEN {} ELSE first .. first + count - 1
  BY Zenon, <1>2, PagesOfRegion
<1>4. p \in Pages /\ first <= p /\ p + 1 <= first + count /\ first + count <= Total
  BY <1>3, TotalType DEF Pages
<1>5. p \in Int /\ p + 1 \in Int /\ Total + 1 \in Int /\ ~(Total + 1 <= first + count)
  BY <1>3, <1>4, TotalType DEF Pages
<1>6. r.Base + r.Length < (Total + 1) * PAGE_SIZE
  <2>1. (Total + 1) * PAGE_SIZE \in Int
    BY <1>1, <1>5, MultiplesAreOrdered
  <2>2. (Total + 1) * PAGE_SIZE <= r.Base + r.Length <=> Total + 1 <= first + count
    BY <1>3, <1>5
  <2> QED  BY <1>1, <1>5, <2>1, <2>2
<1> QED  BY <1>2, <1>3, <1>4, <1>5, <1>6 DEF Inside, Kept

(* Every whole page of a region that is kept is made available. *)
LEMMA InsideIsAvailable ==
  ASSUME NEW r \in Region, NEW p \in Pages, Inside(p, r), Kept(r)
  PROVE  p \in PagesOf(r)
<1>1. /\ r.Base \in Nat /\ r.Length \in Nat /\ PAGE_SIZE \in Nat \ {0}
      /\ r.Base >= PAGE_SIZE /\ r.Base + r.Length < (Total + 1) * PAGE_SIZE
  BY SizesAssumption DEF Region, Kept
<1>2. PICK first, count \in Int :
           /\ first \in Nat
           /\ \A n \in Int : r.Base <= n * PAGE_SIZE <=> first <= n
           /\ \A n \in Int : n * PAGE_SIZE <= r.Base + r.Length <=> n <= first + count
           /\ PagesOf(r) = IF r.Length < PAGE_SIZE \/ count < 1 THEN {}
                          ELSE IF count = 1 THEN {first} \cap Pages
                          ELSE IF first + count > Total THEN {} ELSE first .. first + count - 1
  BY Zenon, <1>1, PagesOfRegion
<1>3. p \in Int /\ p + 1 \in Int /\ Total + 1 \in Int
  BY TotalType DEF Pages
<1>4. first <= p /\ p + 1 <= first + count
  BY <1>2, <1>3 DEF Inside
<1>5. ~(Total + 1 <= first + count)
  <2>1. (Total + 1) * PAGE_SIZE \in Int
    BY <1>1, <1>3, MultiplesAreOrdered
  <2>2. (Total + 1) * PAGE_SIZE <= r.Base + r.Length <=> Total + 1 <= first + count
    BY <1>2, <1>3
  <2> QED  BY <1>1, <2>1, <2>2
<1>6. r.Length >= PAGE_SIZE
  <2>1. (p + 1) * PAGE_SIZE = p * PAGE_SIZE + 1 * PAGE_SIZE /\ p * PAGE_SIZE \in Int
    BY <1>1, <1>3, MultiplesAreOrdered
  <2> QED  BY <1>1, <2>1 DEF Inside
<1>7. PagesOf(r) = IF count = 1 THEN {first} \cap Pages ELSE first .. first + count - 1
  <2>1. ~(r.Length < PAGE_SIZE \/ count < 1) /\ ~(first + count > Total)
    BY <1>1, <1>2, <1>3, <1>4, <1>5, <1>6, TotalType
  <2> QED  BY <1>2, <2>1, Zenon
<1>8. CASE count = 1
  BY <1>2, <1>3, <1>4, <1>7, <1>8
<1>9. CASE count # 1
  <2>1. PagesOf(r) = first .. first + count - 1
    BY <1>7, <1>9
  <2> QED  BY <1>3, <1>4, <2>1
<1> QED  BY <1>8, <1>9

LEMMA RegionsOfInfo ==
  ASSUME TypeOK
  PROVE  \A i \in DOMAIN info : info[i] \in Region
BY MemoryInfosAssumption DEF TypeOK

(* Only memory that the boot loader reported is ever free, for every memory  *)
(* map: ParseMemoryInfo rounds every region inwards.                         *)
THEOREM FreeMemoryWasReported ==
  ASSUME TopPageReserved
  PROVE  Spec => []OnlyReportedMemoryIsFree
<1>1. IInv => OnlyReportedMemoryIsFree
  <2> SUFFICES ASSUME IInv, phase # "reset", NEW p \in FreePages
               PROVE  \E i \in DOMAIN info : Inside(p, info[i])
    BY DEF OnlyReportedMemoryIsFree
  <2>1. p \in FreeAtBoot(info)
    BY DEF IInv, BitmapExact, FreePages
  <2>2. PICK i \in DOMAIN info : p \in PagesOf(info[i])
    BY <2>1 DEF FreeAtBoot
  <2> QED  BY <2>2, RegionsOfInfo, AvailableIsInside DEF IInv
<1> QED  BY <1>1, InitIInv, NextIInv, PTL DEF Spec

(* Where every page that was available at boot is: free or in the block of   *)
(* just one client.                                                          *)
HeldPages == {p \in Pages : \E c \in Clients : p \in Held(c)}

LEMMA FreeOrHeld ==
  ASSUME IInv, phase # "reset"
  PROVE  /\ FreePages \cup HeldPages = FreeAtBoot(info)
         /\ FreePages \cap HeldPages = {}
<1>1. FreeAtBoot(info) \subseteq Pages
  BY NullPageIsNeverFree DEF IInv, TypeOK
<1>2. \A p \in Pages : bitmap[p] <=> p \notin FreeAtBoot(info) \/ p \in HeldPages
  BY DEF IInv, BitmapExact, HeldPages
<1>3. HeldPages \subseteq FreeAtBoot(info)
  BY DEF IInv, HeldWasFree, HeldPages
<1> QED  BY <1>1, <1>2, <1>3 DEF FreePages, HeldPages

(* What a failed request has seen is still so until the next one: nothing    *)
(* is requested before the allocator is made, and a release forgets it.      *)
NullIInv == IInv /\ (phase # "ready" => result = NoRequest) /\ NullOnlyWhenNoRunIsFree

LEMMA NullStep ==
  ASSUME TopPageReserved, NullIInv, [Next]_vars
  PROVE  NullIInv'
<1> USE DEF NullIInv
<1>1. IInv'
  BY NextIInv
<1>2. ASSUME NEW n, result' = [pages |-> n, ptr |-> NULL], phase' = "ready",
             Fits(FreePages, n) = {} \/ ~(n > 0), bitmap' = bitmap
      PROVE  NullIInv'
  <2>1. FreePages' = FreePages
    BY <1>2 DEF FreePages, Pages, Total
  <2>2. result'.pages = n
    BY <1>2
  <2>3. Fits(FreePages', result'.pages) = Fits(FreePages, n)
    BY <2>1, <2>2 DEF Fits, Run
  <2>4. result'.pages > 0 => Fits(FreePages', result'.pages) = {}
    BY <1>2, <2>2, <2>3
  <2>5. NullOnlyWhenNoRunIsFree'
    BY <2>4 DEF NullOnlyWhenNoRunIsFree, Fits, Run
  <2> QED  BY <1>1, <1>2, <2>5
<1>3. ASSUME NEW n, NEW p \in Int, result' = [pages |-> n, ptr |-> p], phase' = "ready"
      PROVE  NullIInv'
  BY <1>1, <1>3, NULLAssumption DEF NullOnlyWhenNoRunIsFree
<1>4. ASSUME result' = NoRequest PROVE NullIInv'
  BY <1>1, <1>4 DEF NullOnlyWhenNoRunIsFree, NoRequest
<1>5. ASSUME NEW c \in Clients, AllocatePage(c) PROVE NullIInv'
  <2>1. phase' = "ready"
    BY <1>5 DEF AllocatePage
  <2>2. FreePages \subseteq Int
    BY TotalType DEF FreePages, Pages
  <2>3. FreePages = {} => Fits(FreePages, 1) = {}
    BY DEF Fits
  <2> QED  BY Zenon, <1>2, <1>3, <1>5, <2>1, <2>2, <2>3 DEF AllocatePage
<1>6. ASSUME NEW c \in Clients, NEW size \in Sizes, AllocatePages(c, size) PROVE NullIInv'
  <2> DEFINE count == PageCount(size)
  <2>1. CASE count = 1
    BY <1>5, <1>6, <2>1 DEF AllocatePages
  <2>2. CASE count # 1
    <3>1. phase' = "ready" /\ count \in Nat
      BY <1>6, <2>2, PageCountType, SizesAssumption DEF AllocatePages
    <3>2. ASSUME NEW guard \in SUBSET Beyond PROVE Found(count, guard) \subseteq Int
      <4>1. Found(count, guard) \subseteq Pages \cup Beyond
        BY DEF Found, Fits, FreePages
      <4>2. 0 .. ScanTotal - 1 \subseteq Int
        BY TotalType
      <4> QED  BY <4>1, <4>2, PagesInScan, Zenon
    <3>3. ASSUME NEW guard PROVE Fits(FreePages, count) \subseteq Found(count, guard)
      BY DEF Found, Fits
    <3>4. ASSUME NEW guard \in SUBSET Beyond, NEW s \in Found(count, guard),
                 result' = [pages |-> count, ptr |-> s]
          PROVE  NullIInv'
      BY Zenon, <1>3, <3>1, <3>2, <3>4
    <3>5. ASSUME NEW guard \in SUBSET Beyond, count = 0 \/ Found(count, guard) = {},
                 result' = [pages |-> count, ptr |-> NULL], bitmap' = bitmap
          PROVE  NullIInv'
      <4>1. Fits(FreePages, count) = {} \/ ~(count > 0)
        BY <3>1, <3>3, <3>5
      <4> QED  BY <1>2, <3>1, <3>5, <4>1
    <3> QED  BY ZenonT(30), <1>6, <2>2, <3>4, <3>5 DEF AllocatePages
  <2> QED  BY Zenon, <2>1, <2>2
<1>7. CASE ParseMemoryInfo \/ InitEarlyPageAllocator
  BY <1>4, <1>7 DEF ParseMemoryInfo, InitEarlyPageAllocator
<1>8. CASE \E c \in Clients : FreePage(c) \/ FreePageSized(c)
  BY Zenon, <1>4, <1>8 DEF FreePage, FreePageSized
<1>9. CASE UNCHANGED vars
  BY <1>1, <1>9 DEF vars, NullOnlyWhenNoRunIsFree, FreePages
<1> QED  BY <1>5, <1>6, <1>7, <1>8, <1>9 DEF Next

(* A null pointer means that there is no free run of the length asked for:   *)
(* no request fails while the bitmap could serve it, wherever the scan       *)
(* starts and whatever the byte after the bitmap holds.                      *)
THEOREM NullMeansNoRun ==
  ASSUME TopPageReserved
  PROVE  Spec => []NullOnlyWhenNoRunIsFree
<1>1. Init => NullIInv
  BY InitIInv DEF Init, NullIInv, NullOnlyWhenNoRunIsFree, NoRequest
<1>2. NullIInv => NullOnlyWhenNoRunIsFree
  BY DEF NullIInv
<1> QED  BY <1>1, <1>2, NullStep, PTL DEF Spec
-------------------------------------------------------------------------------
(* The refinement.  The abstract state, as functions of the concrete one. *)

HeapFree == IF phase = "reset" THEN {} ELSE FreePages
HeapHeld == [c \in Clients |-> Held(c)]

(* Moving the free run S to client c is an abstract allocation. *)
LEMMA TakeIsAllocate ==
  ASSUME phase = "ready", phase' = "ready",
         NEW c \in Clients, NEW first \in FreePages, NEW last \in FreePages,
         first .. last \subseteq FreePages,
         Held(c) = {}, Held(c)' = first .. last,
         \A d \in Clients \ {c} : Held(d)' = Held(d),
         \A p \in Pages : bitmap'[p] <=> p \in first .. last \/ bitmap[p]
  PROVE  Heap!Next
<1>1. FreePages' = FreePages \ (first .. last)
  BY DEF FreePages, Pages, Total
<1>2. HeapHeld' = [HeapHeld EXCEPT ![c] = first .. last]
  BY Zenon DEF HeapHeld
<1>3. HeapHeld[c] = {}
  BY DEF HeapHeld
<1>4. Heap!Allocate(c, first, last)
  BY <1>1, <1>2, <1>3 DEF Heap!Allocate, HeapHeld
<1> QED  BY Zenon, <1>4 DEF Heap!Next

(* Clearing the bits of client c's block is an abstract release. *)
LEMMA GiveIsRelease ==
  ASSUME phase = "ready", phase' = "ready",
         NEW c \in Clients, Held(c) # {}, Held(c)' = {},
         \A d \in Clients \ {c} : Held(d)' = Held(d),
         \A p \in Pages : bitmap'[p] <=> bitmap[p] /\ p \notin Held(c)
  PROVE  Heap!Next
<1>1. FreePages' = FreePages \cup Held(c)
  BY DEF FreePages, Pages, Total, Held
<1>2. HeapHeld' = [HeapHeld EXCEPT ![c] = {}]
  BY Zenon DEF HeapHeld
<1>3. HeapHeld[c] = Held(c)
  BY DEF HeapHeld
<1>4. Heap!Release(c)
  BY <1>1, <1>2, <1>3 DEF Heap!Release, HeapHeld
<1> QED  BY <1>4 DEF Heap!Next

LEMMA NothingMoves ==
  ASSUME phase = "ready", phase' = "ready",
         \A d \in Clients : Held(d)' = Held(d),
         \A p \in Pages : bitmap'[p] <=> bitmap[p]
  PROVE  UNCHANGED Heap!vars
<1>1. FreePages' = FreePages
  BY DEF FreePages, Pages, Total
<1> QED  BY <1>1 DEF Heap!vars

LEMMA AllocatePageRefines ==
  ASSUME IInv, NEW c \in Clients, AllocatePage(c)
  PROVE  [Heap!Next]_(Heap!vars)
<1>0. phase = "ready" /\ phase' = "ready" /\ live[c] = NULL /\ Held(c) = {}
  BY DEF AllocatePage, Held, BlockPages
<1>1. ASSUME NEW p \in FreePages,
             bitmap' = [bitmap EXCEPT ![p] = TRUE],
             live' = [live EXCEPT ![c] = Block(p, PAGE_SIZE)]
      PROVE  Heap!Next
  <2>1. p \in Pages /\ p \in 0 .. ScanTotal - 1 /\ p \in Nat
    BY PagesInScan, TotalType DEF FreePages, Pages
  <2>2. BlockPages(Block(p, PAGE_SIZE)) = p .. p
    BY <2>1, BlockFacts, PageCountOfPage DEF Run
  <2>3. p .. p \subseteq FreePages /\ p .. p \subseteq Pages
    BY <2>1, <1>1
  <2>4. /\ \A d \in Clients \ {c} : Held(d)' = Held(d)
        /\ Held(c)' = p .. p
    BY ZenonT(30), <1>1, <2>2, <2>3, HeldOfOthers DEF IInv
  <2>5. \A q \in Pages : bitmap'[q] <=> q \in p .. p \/ bitmap[q]
    BY <1>1, <2>1 DEF IInv, TypeOK, Pages
  <2> QED  BY Zenon, <1>0, <2>3, <2>4, <2>5, TakeIsAllocate
<1>2. ASSUME UNCHANGED <<bitmap, live>>
      PROVE  UNCHANGED Heap!vars
  BY <1>0, <1>2, NothingMoves DEF Held
<1> QED  BY <1>1, <1>2 DEF AllocatePage

LEMMA AllocatePagesRefines ==
  ASSUME IInv, TopPageReserved, NEW c \in Clients, NEW size \in Sizes,
         AllocatePages(c, size)
  PROVE  [Heap!Next]_(Heap!vars)
<1> DEFINE count == PageCount(size)
<1>1. CASE count = 1
  BY <1>1, AllocatePageRefines DEF AllocatePages
<1>2. CASE count # 1
  <2>0. /\ phase = "ready" /\ phase' = "ready" /\ live[c] = NULL /\ Held(c) = {}
        /\ count \in Nat /\ size \in Sizes \cup {PAGE_SIZE}
    BY Zenon, <1>2, PageCountType, SizesAssumption DEF AllocatePages, Held, BlockPages
  <2>1. ASSUME NEW guard \in SUBSET Beyond, NEW s \in Found(count, guard), count > 0,
               SetBitRange(s, count, TRUE),
               live' = [live EXCEPT ![c] = Block(s, size)]
        PROVE  [Heap!Next]_(Heap!vars)
    <3>1. /\ s \in 0 .. ScanTotal - 1
          /\ \/ s + count <= Total /\ Run(s, count) \subseteq FreePages
             \/ s >= Total /\ Run(s, count) \cap Pages = {}
      BY <2>0, <2>1, FoundIsWellPlaced
    <3>2. /\ \A d \in Clients \ {c} : Held(d)' = Held(d)
          /\ Held(c)' = Run(s, count) \cap Pages
      <4>1. BlockPages(Block(s, size)) = Run(s, count)
        BY <2>0, <3>1, BlockFacts
      <4> QED  BY Zenon, <4>1, <2>1, HeldOfOthers DEF IInv
    <3>3. CASE s + count <= Total /\ Run(s, count) \subseteq FreePages
      <4> DEFINE last == s + count - 1
      <4>1. s \in Pages /\ last \in Pages /\ Run(s, count) = s .. last
        BY <3>1, <3>3, <2>0, <2>1, TotalType DEF Pages, Run
      <4>2. Run(s, count) \cap Pages = s .. last
        BY <4>1, <3>3 DEF FreePages
      <4>3. \A p \in Pages : bitmap'[p] <=> p \in s .. last \/ bitmap[p]
        BY Zenon, <2>1, <3>3, <4>1 DEF SetBitRange
      <4>4. s \in FreePages /\ last \in FreePages
        BY <2>0, <2>1, <3>1, <3>3, <4>1
      <4> HIDE DEF last
      <4> QED  BY ZenonT(30), <2>0, <3>2, <3>3, <4>1, <4>2, <4>3, <4>4, TakeIsAllocate
    <3>4. CASE s >= Total /\ Run(s, count) \cap Pages = {}
      <4>1. ~(s + count <= Total)
        BY <2>0, <2>1, <3>1, <3>4, TotalType
      <4>2. \A p \in Pages : bitmap'[p] <=> bitmap[p]
        BY <4>1, <2>1 DEF SetBitRange
      <4>3. \A d \in Clients : Held(d)' = Held(d)
        BY <2>0, <3>2, <3>4
      <4> QED  BY <2>0, <4>2, <4>3, NothingMoves
    <3> QED  BY <3>1, <3>3, <3>4
  <2>2. ASSUME UNCHANGED <<bitmap, live>>
        PROVE  UNCHANGED Heap!vars
    BY <2>0, <2>2, NothingMoves DEF Held
  <2> QED  BY ZenonT(30), <1>2, <2>1, <2>2 DEF AllocatePages
<1> QED  BY Zenon, <1>1, <1>2

LEMMA FreeRefines ==
  ASSUME IInv, NEW c \in Clients, FreePage(c) \/ FreePageSized(c)
  PROVE  [Heap!Next]_(Heap!vars)
<1> USE DEF IInv
<1>0. /\ live[c] # NULL /\ phase = "ready" /\ phase' = "ready"
      /\ live' = [live EXCEPT ![c] = NULL]
  BY Zenon DEF FreePage, FreePageSized, NothingHeldBeforeReady
<1> DEFINE first == live[c].first
           count == PageCount(live[c].size)
<1>1. Held(c) = Run(first, count) \cap Pages
  BY <1>0 DEF Held, BlockPages
<1>2. (\A d \in Clients \ {c} : Held(d)' = Held(d)) /\ Held(c)' = {}
  BY Zenon, <1>0, HeldOfOthers DEF BlockPages
<1>3. \A p \in Pages : bitmap'[p] <=> bitmap[p] /\ p \notin Held(c)
  <2>1. CASE FreePage(c)
    <3>1. Held(c) = {first} \cap Pages
      BY <1>0, <1>1, <2>1, BlockPagesType DEF FreePage, Run
    <3> QED  BY Zenon, <2>1, <3>1 DEF FreePage, TypeOK
  <2>2. CASE FreePageSized(c) /\ first + count <= Total
    BY Zenon, <1>1, <2>2 DEF FreePageSized, SetBitRange
  <2>3. CASE FreePageSized(c) /\ ~(first + count <= Total)
    <3>1. first >= Total
      BY Zenon, <1>0, <2>3 DEF WellPlaced
    <3>2. Held(c) = {}
      BY <1>0, <1>1, <3>1, BlockPagesType, TotalType DEF Run, Pages
    <3> QED  BY Zenon, <2>3, <3>2 DEF FreePageSized, SetBitRange
  <2> QED  BY <2>1, <2>2, <2>3
<1>4. CASE Held(c) # {}
  BY Zenon, <1>0, <1>2, <1>3, <1>4, GiveIsRelease
<1>5. CASE Held(c) = {}
  <2>1. \A d \in Clients : Held(d)' = Held(d)
    BY <1>2, <1>5
  <2>2. \A p \in Pages : bitmap'[p] <=> bitmap[p]
    BY <1>3, <1>5
  <2> QED  BY <1>0, <2>1, <2>2, NothingMoves
<1> QED  BY <1>4, <1>5

LEMMA ParseRefines ==
  ASSUME IInv, ParseMemoryInfo \/ InitEarlyPageAllocator
  PROVE  [Heap!Next]_(Heap!vars)
<1>0. live' = live /\ bitmap' = Parsed(info) /\ phase # "ready" /\ phase' # "reset"
  BY DEF ParseMemoryInfo, InitEarlyPageAllocator
<1>1. \A c \in Clients : Held(c)' = Held(c) /\ Held(c) = {}
  BY <1>0 DEF Held, IInv, NothingHeldBeforeReady, BlockPages
<1>2. FreePages' = FreeAtBoot(info)
  <2>1. FreeAtBoot(info) \subseteq Pages
    BY NullPageIsNeverFree DEF IInv, TypeOK
  <2>2. \A p \in Pages : bitmap'[p] <=> p \notin FreeAtBoot(info)
    BY Zenon, <1>0 DEF Parsed
  <2> QED  BY <2>1, <2>2 DEF FreePages, Pages, Total
<1>3. CASE phase = "reset"
  <2>1. FreePages' \in SUBSET (Pages \ {0})
    BY <1>2, NullPageIsNeverFree DEF IInv, TypeOK
  <2>2. Heap!Boot(FreePages')
    BY <1>0, <1>1, <1>3 DEF Heap!Boot
  <2> QED  BY Zenon, <2>1, <2>2 DEF Heap!Next, Heap!Boot
<1>4. CASE phase # "reset"
  <2>1. FreePages = FreeAtBoot(info)
    <3>1. FreeAtBoot(info) \subseteq Pages
      BY NullPageIsNeverFree DEF IInv, TypeOK
    <3>2. \A p \in Pages : bitmap[p] <=> p \notin FreeAtBoot(info)
      BY <1>1, <1>4 DEF IInv, BitmapExact
    <3> QED  BY <3>1, <3>2 DEF FreePages
  <2> QED  BY <1>0, <1>1, <1>2, <1>4, <2>1 DEF Heap!vars
<1> QED  BY <1>3, <1>4

LEMMA NextRefines ==
  ASSUME TopPageReserved, IInv, [Next]_vars
  PROVE  [Heap!Next]_(Heap!vars)
<1>1. CASE UNCHANGED vars
  BY <1>1 DEF vars, Heap!vars, FreePages, Held
<1>2. CASE Next
  BY <1>2, ParseRefines, AllocatePageRefines, AllocatePagesRefines, FreeRefines DEF Next
<1> QED  BY <1>1, <1>2

(* The allocator implements PageHeap: every call moves one free run to its  *)
(* caller, gives back exactly the caller's run, or changes nothing.         *)
THEOREM AllocatorImplementsPageHeap ==
  ASSUME TopPageReserved
  PROVE  Spec => ImplementsPageHeap
<1>1. Init => Heap!Init
  BY DEF Init, Heap!Init, Held, BlockPages
<1> QED  BY <1>1, InitIInv, NextIInv, NextRefines, PTL
         DEF Spec, ImplementsPageHeap, Heap!Spec
===============================================================================
