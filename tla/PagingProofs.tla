----------------------------- MODULE PagingProofs -----------------------------
(***************************************************************************)
(* Proofs about Paging, for every size of tables and of large pages, on    *)
(* top of what PageAllocatorProofs shows of the allocator.                 *)
(***************************************************************************)
EXTENDS Paging, PageAllocatorProofs

(* What is used of finite sets.  It is assumed until the end of the module,   *)
(* where the library's theorems prove it.                                    *)
FiniteSetFacts ==
  /\ \A a, b \in Int : IsFiniteSet(a .. b)
  /\ \A n \in Nat : Cardinality(0 .. n - 1) = n
  /\ \A S : IsFiniteSet(S) => Cardinality(S) \in Nat /\ \A x : IsFiniteSet(S \cup {x})
  /\ \A S, T : IsFiniteSet(S) /\ IsFiniteSet(T) => IsFiniteSet(S \cup T)
  /\ \A S, T : \A f \in [S -> T] :
       IsFiniteSet(S) /\ (\A y \in T : \E x \in S : f[x] = y) => IsFiniteSet(T)
  /\ \A S, T : \A f \in [S -> T] :
       IsFiniteSet(T) /\ (\A x, y \in S : f[x] = f[y] => x = y) =>
         IsFiniteSet(S) /\ Cardinality(S) <= Cardinality(T)
  /\ \A S \in SUBSET Nat :
       IsFiniteSet(S) /\ S # {} => Max(S) \in S /\ \A y \in S : y <= Max(S)
-------------------------------------------------------------------------------
(* The tables as they are built. *)

Slots == 0 .. ENTIRIES - 1

TableEntry == [kind : {"stale", "absent", "header", "table", "page"}, addr : Nat, cached : BOOLEAN]

(* Entry k of pdpt leads to a page of its own, the directory of GiB k.  In   *)
(* the last one operator new may have overwritten the last entry.            *)
HasDirectory(k) ==
  \E d \in Pages :
    /\ Held(2 + k) = {d} /\ mem[pdpt][k] = Table(d)
    /\ \A i \in Slots : \/ mem[d][i] = Directory(k)[i]
                        \/ k = gibCount - 1 /\ i = ENTIRIES - 1 /\ mem[d][i] = Header

(* A null pdpt is entered in pml4 like any other, but then no page is left   *)
(* for a directory: only a map without one is finished with it.              *)
TablesBuilt ==
  /\ pml4 \in Pages /\ Held(0) = {pml4}
  /\ g <= gibCount
  /\ pdpt = NULL =>
       /\ g = 0 /\ live[1] = NULL
       /\ pc = "pd" => FreePages = {}
       /\ pc \in {"done", "panic"} => gibCount = 0
  /\ pdpt # NULL =>
       /\ pdpt \in Pages /\ Held(1) = {pdpt}
       /\ mem[pml4][0] = Table(pdpt)
       /\ \A k \in 0 .. g - 1 : HasDirectory(k)
  /\ pc \in {"done", "panic"} => g = gibCount /\ cr3 = pml4

(* The tables took the lowest pages that were available, in their order: a   *)
(* page before that of a table is in an earlier table.                       *)
TablesFirst ==
  \A c \in Tables : \A p \in Held(c) : \A q \in FreeAtBoot(info) :
    p < q \/ \E d \in Tables : d <= c /\ q \in Held(d)

(* The inductive invariant of Paging. *)
PInv ==
  /\ IInv
  /\ ReservedMemory \in ReservedInfos
  /\ TablesFirst
  /\ mem \in [Pages -> [Slots -> TableEntry]]
  /\ pc \in {"begin", "pml4", "pdpt", "pd", "done", "failed", "panic"}
  /\ g \in Nat
  /\ pc # "begin" => phase = "ready"
  /\ pc \in {"pml4", "pdpt", "pd", "done", "panic"} => gibCount <= ENTIRIES
  /\ pc \in {"begin", "pml4"} => g = 0 /\ \A c \in Clients : live[c] = NULL
  /\ pc = "pdpt" => /\ g = 0 /\ pml4 \in Pages /\ Held(0) = {pml4}
                    /\ \A c \in Clients \ {0} : live[c] = NULL
  /\ pc = "pd" => \A c \in Clients \ (0 .. g + 1) : live[c] = NULL
  /\ pc \in {"pd", "done", "panic"} => TablesBuilt
  /\ FailsOnlyForCause

LEMMA TableSizes ==
  /\ ENTIRIES \in Nat \ {0} /\ PAGE_2M \in Nat \ {0} /\ PAGE_1G \in Nat \ {0}
  /\ 0 \in Clients /\ 1 \in Clients /\ 0 \in Tables /\ 1 \in Tables
  /\ \A k \in 0 .. ENTIRIES - 1 : 2 + k \in Clients /\ 2 + k \in Tables
<1>1. ENTIRIES \in Nat \ {0} /\ PAGE_2M \in Nat \ {0} /\ Tables \subseteq Clients
  BY PagingAssumption
<1>2. \A a, b \in Nat \ {0} : a * b \in Nat \ {0}
  OBVIOUS
<1>3. 0 \in Tables /\ 1 \in Tables /\ \A k \in 0 .. ENTIRIES - 1 : 2 + k \in Tables
  BY <1>1 DEF Tables
<1> QED  BY <1>1, <1>2, <1>3 DEF PAGE_1G

LEMMA MaxPhysIsNumber ==
  ASSUME FiniteSetFacts, TypeOK, ReservedMemory \in ReservedInfos
  PROVE  CalcMaxPhys \in Nat
<1> DEFINE n == Len(info)
           f == [i \in 1 .. n |-> End(info[i])]
           h == [x \in ReservedMemory |-> End(x)]
           free == {End(x) : x \in FreeMemory}
           reserved == {End(x) : x \in ReservedMemory}
           all == {0} \cup {End(x) : x \in FreeMemory \cup ReservedMemory}
<1>1. /\ n \in Nat /\ DOMAIN info = 1 .. n
      /\ \A i \in 1 .. n : info[i] \in Region
      /\ ReservedMemory \subseteq Region /\ IsFiniteSet(ReservedMemory)
  BY MemoryInfosAssumption, PagingAssumption DEF TypeOK
<1>2. \A x \in Region : End(x) \in Nat
  BY DEF Region, End
<1>3. IsFiniteSet(free)
  <2>1. f \in [1 .. n -> free]
    BY <1>1 DEF FreeMemory
  <2>2. \A y \in free : \E i \in 1 .. n : f[i] = y
    BY <1>1 DEF FreeMemory
  <2>3. IsFiniteSet(1 .. n)
    BY <1>1 DEF FiniteSetFacts
  <2> HIDE DEF f, free, n
  <2> QED  BY <2>1, <2>2, <2>3, ZenonT(30) DEF FiniteSetFacts
<1>4. IsFiniteSet(reserved)
  <2>1. h \in [ReservedMemory -> reserved] /\ \A y \in reserved : \E x \in ReservedMemory : h[x] = y
    BY Zenon
  <2> HIDE DEF h, reserved
  <2> QED  BY <1>1, <2>1, ZenonT(30) DEF FiniteSetFacts
<1>5. IsFiniteSet(all)
  <2>1. all = (free \cup reserved) \cup {0}
    BY Zenon
  <2> HIDE DEF free, reserved, all
  <2> QED  BY Zenon, <1>3, <1>4, <2>1 DEF FiniteSetFacts
<1>6. all \in SUBSET Nat /\ all # {}
  BY <1>1, <1>2 DEF FreeMemory
<1> HIDE DEF all
<1>7. Max(all) \in Nat
  BY Zenon, <1>5, <1>6 DEF FiniteSetFacts
<1> QED  BY <1>7 DEF CalcMaxPhys, all

LEMMA PagesAreFinite ==
  ASSUME FiniteSetFacts
  PROVE  IsFiniteSet(Pages)
BY TotalType DEF FiniteSetFacts, Pages

LEMMA HeldPair ==
  ASSUME NEW x \in {x \in Clients \X Pages : x[2] \in Held(x[1])}
  PROVE  \E c \in Clients, p \in Pages : x = <<c, p>> /\ x[2] = p /\ p \in Held(c)
OBVIOUS

LEMMA Distributes ==
  ASSUME NEW a \in Nat, NEW b \in Nat, NEW d \in Nat
  PROVE  d * a + d * b = d * (a + b) /\ a + b - 0 = a + b
OBVIOUS

(* Rounding up to a multiple. *)
LEMMA AlignUpFacts ==
  ASSUME NEW a \in Nat, NEW d \in Nat \ {0}
  PROVE  /\ AlignUp(a, d) \in Nat /\ AlignUp(a, d) \div d \in Nat
         /\ \A n \in Nat : AlignUp(a, d) \div d > n => a > n * d
<1> DEFINE b == a + d - 1
           q == b \div d
<1>1. b \in Nat
  OBVIOUS
<1> HIDE DEF b
<1>2. q \in Nat /\ q * d <= b /\ b < q * d + d
  BY <1>1, Division
<1>3. AlignUp(a, d) = q * d
  BY DEF AlignUp, b
<1> HIDE DEF q
<1>4. q * d \in Nat /\ (q * d) \div d = q
  <2>1. \A x \in Nat, y \in Nat \ {0} : x * y \in Nat /\ (x * y) \div y = x
    OBVIOUS
  <2> QED  BY <1>2, <2>1
<1>5. ASSUME NEW n \in Nat, q > n PROVE a > n * d
  <2>1. (n + 1) * d <= q * d /\ (n + 1) * d = n * d + 1 * d /\ n * d \in Int
    BY <1>2, <1>5, MultiplesAreOrdered
  <2> QED  BY <1>2, <1>4, <2>1 DEF b
<1> QED  BY <1>2, <1>3, <1>4, <1>5

LEMMA CountOfDirectories ==
  ASSUME FiniteSetFacts, PInv
  PROVE  /\ CalcMaxPhys \in Nat /\ lim \in Nat /\ gibCount \in Nat
         /\ gibCount > ENTIRIES => CalcMaxPhys > ENTIRIES * PAGE_1G
<1>1. CalcMaxPhys \in Nat
  BY MaxPhysIsNumber DEF PInv, IInv
<1> QED  BY Zenon, <1>1, TableSizes, AlignUpFacts DEF lim, gibCount

(* The memory map does not change, and with it what the tables should say. *)
LEMMA MapUnchanged ==
  ASSUME info' = info, ReservedMemory' = ReservedMemory
  PROVE  /\ CalcMaxPhys' = CalcMaxPhys /\ gibCount' = gibCount
         /\ \A k : Directory(k)' = Directory(k)
<1>1. FreeMemory' = FreeMemory
  BY DEF FreeMemory
<1>2. CalcMaxPhys' = CalcMaxPhys
  BY <1>1, Zenon DEF CalcMaxPhys, End
<1>3. lim' = lim /\ gibCount' = gibCount
  BY <1>2, Zenon DEF lim, gibCount, AlignUp, PAGE_1G
<1>4. \A x : IsMMIORegion(x)' <=> IsMMIORegion(x)
  BY Zenon DEF IsMMIORegion, End
<1>5. \A k : Directory(k)' = Directory(k)
  BY <1>3, Zenon DEF Directory, IsMMIORegion, End, PAGE_1G, Absent, Entry
<1> QED  BY <1>2, <1>3, <1>5

(* AllocatePage() gives a table the lowest free page, or there is none. *)
LEMMA TablePage ==
  ASSUME IInv, NEW c \in Clients, AllocatePage(c)
  PROVE  /\ phase = "ready" /\ phase' = "ready" /\ info' = info /\ live[c] = NULL
         /\ \A d \in Clients \ {c} : Held(d)' = Held(d) /\ live'[d] = live[d]
         /\ \/ /\ result'.ptr \in FreePages /\ Held(c)' = {result'.ptr}
               /\ First(result'.ptr, FreePages)
            \/ /\ FreePages = {} /\ FreePages' = {} /\ result'.ptr = NULL
               /\ live'[c] = NULL /\ Held(c)' = {}
<1>1. phase = "ready" /\ phase' = "ready" /\ info' = info /\ live[c] = NULL
  BY DEF AllocatePage
<1>2. ASSUME NEW p \in FreePages, First(p, FreePages),
             live' = [live EXCEPT ![c] = Block(p, PAGE_SIZE)],
             result' = [pages |-> 1, ptr |-> p]
      PROVE  /\ \A d \in Clients \ {c} : Held(d)' = Held(d) /\ live'[d] = live[d]
             /\ result'.ptr \in FreePages /\ Held(c)' = {result'.ptr}
             /\ First(result'.ptr, FreePages)
  <2>1. p \in Pages /\ p \in 0 .. ScanTotal - 1 /\ p \in Nat
    BY PagesInScan, TotalType DEF FreePages, Pages
  <2>2. BlockPages(Block(p, PAGE_SIZE)) = {p}
    BY <2>1, BlockFacts, PageCountOfPage DEF Run
  <2>3. /\ \A d \in Clients \ {c} : Held(d)' = Held(d) /\ live'[d] = live[d]
        /\ Held(c)' = {p} \cap Pages
    BY Zenon, <1>2, <2>2, HeldOfOthers DEF IInv
  <2> QED  BY <1>2, <2>1, <2>3
<1>3. ASSUME FreePages = {}, result' = [pages |-> 1, ptr |-> NULL], UNCHANGED <<bitmap, live>>
      PROVE  /\ \A d \in Clients \ {c} : Held(d)' = Held(d) /\ live'[d] = live[d]
             /\ FreePages' = {} /\ result'.ptr = NULL
             /\ live'[c] = NULL /\ Held(c)' = {}
  BY <1>1, <1>3 DEF Held, BlockPages, FreePages
<1> QED  BY <1>1, <1>2, <1>3 DEF AllocatePage

LEMMA TableTakesFirst ==
  ASSUME IInv, TablesFirst, NEW c \in Tables, c \in Clients, AllocatePage(c),
         \A d \in Clients : live[d] # NULL => d \in 0 .. c - 1
  PROVE  TablesFirst'
<1>1. /\ phase = "ready" /\ info' = info /\ Held(c) = {}
      /\ \A d \in Clients \ {c} : Held(d)' = Held(d)
      /\ \A p \in Held(c)' : Held(c)' = {p} /\ p \in FreePages /\ First(p, FreePages)
  BY TablePage DEF Held, BlockPages
<1>2. ENTIRIES \in Nat /\ Tables \subseteq Int /\ Tables \subseteq Clients /\ 0 .. c - 1 \subseteq Tables
      /\ c <= c /\ \A d \in 0 .. c - 1 : d <= c /\ d # c
  BY PagingAssumption DEF Tables
<1>3. FreePages \subseteq Int
  BY TotalType DEF FreePages, Pages
<1>4. ASSUME NEW k \in Tables, NEW p \in Held(k)', NEW q \in FreeAtBoot(info)
      PROVE  p < q \/ \E d \in Tables : d <= k /\ q \in Held(d)'
  <2>1. CASE k = c /\ q \in FreePages
    <3>1. p <= q /\ p \in Int /\ q \in Int /\ c <= c
      BY Zenon, <1>1, <1>2, <1>3, <1>4, <2>1 DEF First
    <3> QED  BY <1>4, <2>1, <3>1
  <2>2. CASE k = c /\ q \notin FreePages
    <3>1. PICK d \in Clients : q \in Held(d)
      BY <1>1, <2>2, FreeOrHeld DEF HeldPages
    <3>2. live[d] # NULL
      BY <3>1 DEF Held, BlockPages
    <3> QED  BY <1>1, <1>2, <2>2, <3>1, <3>2
  <2>3. CASE k # c
    <3>1. p \in Held(k)
      BY <1>1, <1>2, <1>4, <2>3
    <3>2. p < q \/ \E d \in Tables : d <= k /\ q \in Held(d)
      BY <3>1 DEF TablesFirst
    <3> QED  BY <1>1, <1>2, <3>2
  <2> QED  BY <2>1, <2>2, <2>3
<1> QED  BY Zenon, <1>1, <1>4 DEF TablesFirst, Tables

LEMMA TablesFirstStays ==
  ASSUME TablesFirst, info' = info, \A k \in Tables : Held(k)' = Held(k)
  PROVE  TablesFirst'
BY Zenon DEF TablesFirst, Tables

(* When nothing is free and only the first n clients hold pages, at most one *)
(* each, no more than n pages were available.                                *)
LEMMA FewPagesAvailable ==
  ASSUME FiniteSetFacts, IInv, phase = "ready", FreePages = {}, NEW n \in Nat,
         \A c \in Clients : Held(c) # {} => c \in 0 .. n - 1,
         \A c \in Clients : \A p, q \in Held(c) : p = q
  PROVE  /\ Cardinality(FreeAtBoot(info)) \in Nat
         /\ Cardinality(FreeAtBoot(info)) <= n
<1> DEFINE f == [p \in HeldPages |-> CHOOSE c \in Clients : p \in Held(c)]
<1>1. FreeAtBoot(info) = HeldPages
  BY FreeOrHeld
<1>2. ASSUME NEW p \in HeldPages PROVE f[p] \in Clients /\ p \in Held(f[p])
  BY DEF HeldPages
<1>3. f \in [HeldPages -> 0 .. n - 1]
  BY <1>2
<1> HIDE DEF f
<1>4. \A p, q \in HeldPages : f[p] = f[q] => p = q
  BY <1>2
<1>5. IsFiniteSet(0 .. n - 1) /\ Cardinality(0 .. n - 1) = n
  BY DEF FiniteSetFacts
<1>6. IsFiniteSet(HeldPages) /\ Cardinality(HeldPages) <= Cardinality(0 .. n - 1)
  BY <1>3, <1>4, <1>5, Zenon DEF FiniteSetFacts
<1>7. Cardinality(HeldPages) \in Nat
  BY <1>6 DEF FiniteSetFacts
<1> QED  BY Zenon, <1>1, <1>5, <1>6, <1>7

(* What the parser and the page tables do to the allocator is what any       *)
(* client may do.                                                            *)
LEMMA PagingUsesAllocator ==
  ASSUME FiniteSetFacts, PInv, [NextPaging]_allVars
  PROVE  [Next]_vars
<1>1. CASE UNCHANGED allVars
  BY <1>1 DEF allVars
<1>2. CASE ParseMap
  BY <1>2 DEF ParseMap, Next
<1>3. CASE Begin \/ LoadCR3 \/ PanicEx
  BY <1>3 DEF Begin, LoadCR3, PanicEx, allVars
<1>4. CASE NewPML4 \/ NewPDPT
  BY <1>4, TableSizes DEF NewPML4, NewPDPT, Next
<1>5. CASE NewPD
  <2>1. g \in 0 .. ENTIRIES - 1
    BY <1>5, CountOfDirectories, TableSizes DEF NewPD, PInv
  <2> QED  BY <1>5, <2>1, TableSizes DEF NewPD, Next
<1>6. CASE \E c \in Callers : Call(c) \/ \E size \in Sizes : OperatorNew(c, size)
  BY Zenon, <1>6 DEF Callers, Call, OperatorNew, Next
<1> QED  BY <1>1, <1>2, <1>3, <1>4, <1>5, <1>6 DEF NextPaging

LEMMA EntryTypes ==
  /\ \A p \in Nat : Table(p) \in TableEntry /\ Table(p).kind = "table" /\ Table(p).addr = p
  /\ Stale \in TableEntry /\ Absent \in TableEntry /\ Header \in TableEntry
  /\ \A a \in Nat, b \in BOOLEAN : Entry("page", a, b) \in TableEntry
  /\ Pages \subseteq Nat /\ NULL \notin Pages /\ 0 \in Pages /\ 0 \in Slots
  /\ FreePages \subseteq Pages
<1>1. Pages \subseteq Nat /\ 0 \in Pages
  BY TotalType DEF Pages
<1>2. \A p \in Nat : Table(p) \in TableEntry /\ Table(p).kind = "table" /\ Table(p).addr = p
  BY DEF Table, Entry, TableEntry
<1>3. Stale \in TableEntry /\ Absent \in TableEntry /\ Header \in TableEntry
  BY DEF Stale, Absent, Header, Entry, TableEntry
<1>4. ASSUME NEW a \in Nat, NEW b \in BOOLEAN PROVE Entry("page", a, b) \in TableEntry
  <2>1. CASE b = TRUE
    BY <2>1 DEF Entry, TableEntry
  <2>2. CASE b = FALSE
    BY <2>2 DEF Entry, TableEntry
  <2> QED  BY <2>1, <2>2, Zenon
<1>5. NULL \notin Pages
  <2>1. NULL \notin Int
    BY NULLAssumption, Zenon
  <2>2. NULL \notin Nat
    BY <2>1
  <2> QED  BY <1>1, <2>2, Zenon
<1>6. 0 \in Slots
  BY TableSizes DEF Slots
<1>7. FreePages \subseteq Pages
  BY DEF FreePages
<1> QED  BY <1>1, <1>2, <1>3, <1>4, <1>5, <1>6, <1>7, Zenon

LEMMA DirectoryIsTable ==
  ASSUME PInv, NEW k \in Nat
  PROVE  Directory(k) \in [Slots -> TableEntry]
<1>1. ASSUME NEW i \in Slots PROVE k * PAGE_1G + i * PAGE_2M \in Nat
  <2>1. \A a, b \in Nat : a * b \in Nat
    OBVIOUS
  <2>2. i \in Nat /\ PAGE_1G \in Nat /\ PAGE_2M \in Nat
    BY TableSizes DEF Slots
  <2>3. k * PAGE_1G \in Nat /\ i * PAGE_2M \in Nat
    BY <2>1, <2>2
  <2> QED  BY <2>3
<1>2. \A x : (~IsMMIORegion(x)) \in BOOLEAN
  BY Zenon DEF IsMMIORegion
<1>3. ASSUME NEW i \in Slots PROVE Directory(k)[i] \in TableEntry
  <2> DEFINE phys == k * PAGE_1G + i * PAGE_2M
  <2>1. Directory(k)[i] = IF phys >= lim THEN Absent ELSE Entry("page", phys, ~IsMMIORegion(phys))
    BY DEF Directory, Slots
  <2>2. phys \in Nat /\ (~IsMMIORegion(phys)) \in BOOLEAN
    BY <1>1, <1>2
  <2> HIDE DEF phys
  <2> QED  BY Zenon, <2>1, <2>2, EntryTypes
<1>4. Directory(k) = [i \in Slots |-> Directory(k)[i]]
  BY Zenon DEF Directory, Slots
<1> QED  BY <1>3, <1>4

(* A directory stays in place while nobody writes to its page, but for the   *)
(* last entry of the last one, or to its entry.                              *)
LEMMA DirectoryStays ==
  ASSUME NEW k, HasDirectory(k), info' = info, ReservedMemory' = ReservedMemory,
         pdpt' = pdpt, Held(2 + k)' = Held(2 + k), mem'[pdpt][k] = mem[pdpt][k],
         \A p \in Held(2 + k) : \A i \in Slots :
           mem'[p][i] = mem[p][i] \/ (k = gibCount - 1 /\ i = ENTIRIES - 1 /\ mem'[p][i] = Header)
  PROVE  HasDirectory(k)'
<1>1. PICK d \in Pages :
        /\ Held(2 + k) = {d} /\ mem[pdpt][k] = Table(d)
        /\ \A i \in Slots : \/ mem[d][i] = Directory(k)[i]
                            \/ k = gibCount - 1 /\ i = ENTIRIES - 1 /\ mem[d][i] = Header
  BY Zenon DEF HasDirectory
<1>2. gibCount' = gibCount /\ Directory(k)' = Directory(k)
  BY Zenon, <1>1, MapUnchanged
<1>3. ASSUME NEW i \in Slots
      PROVE  mem'[d][i] = Directory(k)'[i] \/ (k = gibCount' - 1 /\ i = ENTIRIES - 1 /\ mem'[d][i] = Header)
  BY Zenon, <1>1, <1>2
<1>4. Held(2 + k)' = {d} /\ mem'[pdpt'][k] = Table(d)
  BY Zenon, <1>1
<1> QED  BY Zenon, <1>3, <1>4 DEF HasDirectory, Pages, Total, Slots, Table, Header, Entry

(* The parts of the invariant that no step of the kernel changes. *)
LEMMA PagingFrame ==
  ASSUME TopPageReserved, FiniteSetFacts, PInv, [NextPaging]_allVars
  PROVE  /\ IInv' /\ info' = info /\ ReservedMemory' = ReservedMemory
         /\ gibCount' = gibCount /\ CalcMaxPhys' = CalcMaxPhys
         /\ ReservedMemory' \in ReservedInfos
<1>1. IInv'
  BY PagingUsesAllocator, NextIInv DEF PInv
<1>2. info' = info
  <2>1. [Next]_vars
    BY PagingUsesAllocator
  <2>2. \A c, n : AllocatePage(c) \/ AllocatePages(c, n) \/ FreePage(c) \/ FreePageSized(c)
                    => info' = info
    <3>1. \A c : AllocatePage(c) \/ FreePage(c) \/ FreePageSized(c) => info' = info
      BY Zenon DEF AllocatePage, FreePage, FreePageSized
    <3>2. \A c, n : AllocatePages(c, n) => info' = info
      BY <3>1, Zenon DEF AllocatePages
    <3> QED  BY <3>1, <3>2, Zenon
  <2>3. ParseMemoryInfo \/ InitEarlyPageAllocator \/ UNCHANGED vars => info' = info
    BY DEF ParseMemoryInfo, InitEarlyPageAllocator, vars
  <2> QED  BY <2>1, <2>2, <2>3, Zenon DEF Next
<1>3. ReservedMemory' = ReservedMemory
  BY DEF NextPaging, ParseMap, Begin, NewPML4, NewPDPT, NewPD, LoadCR3, PanicEx, Call,
         OperatorNew, allVars, tableVars
<1> QED  BY Zenon, <1>1, <1>2, <1>3, MapUnchanged DEF PInv

LEMMA InitPInv == InitPaging => PInv
<1> SUFFICES ASSUME InitPaging PROVE PInv
  OBVIOUS
<1>1. IInv
  BY InitIInv DEF InitPaging
<1>2. mem \in [Pages -> [Slots -> TableEntry]]
  <2>1. Filled(Stale) \in [Slots -> TableEntry]
    BY EntryTypes DEF Filled, Slots
  <2> QED  BY <2>1 DEF InitPaging
<1>3. \A c \in Clients : live[c] = NULL
  BY DEF InitPaging, Init
<1>4. TablesFirst
  BY Zenon, <1>3, PagingAssumption DEF TablesFirst, Held, BlockPages
<1> QED  BY <1>1, <1>2, <1>3, <1>4 DEF InitPaging, PInv, FailsOnlyForCause

LEMMA NewPML4Step ==
  ASSUME TopPageReserved, FiniteSetFacts, PInv, NewPML4
  PROVE  PInv'
<1>1. [NextPaging]_allVars
  BY DEF NextPaging
<1>2. IInv' /\ info' = info /\ gibCount' = gibCount /\ ReservedMemory' \in ReservedInfos
  BY Zenon, <1>1, PagingFrame
<1>3. /\ phase' = "ready"
      /\ \A d \in Clients \ {0} : live'[d] = NULL
      /\ \/ result'.ptr \in FreePages /\ Held(0)' = {result'.ptr}
         \/ FreePages = {} /\ result'.ptr = NULL
  BY TablePage, TableSizes DEF PInv, NewPML4
<1>4. mem' = mem /\ g' = 0 /\ gibCount' <= ENTIRIES /\ pml4' = result'.ptr
  BY Zenon, <1>2 DEF PInv, NewPML4
<1>0. TablesFirst'
  BY Zenon, TableTakesFirst, TableSizes DEF PInv, NewPML4
<1>5. CASE result'.ptr \in FreePages /\ Held(0)' = {result'.ptr}
  <2>1. pml4' \in Pages /\ pc' = "pdpt"
    BY Zenon, <1>4, <1>5, EntryTypes DEF NewPML4
  <2>2. FailsOnlyForCause'
    BY <2>1 DEF FailsOnlyForCause
  <2>3. (pml4 \in Pages /\ Held(0) = {pml4})'
    BY <1>4, <1>5, <2>1 DEF Pages, Total
  <2>4. (mem \in [Pages -> [Slots -> TableEntry]])'
    BY Zenon, <1>4 DEF PInv, Pages, Total, Slots, TableEntry
  <2> QED  BY Zenon, <1>0, <1>2, <1>3, <1>4, <2>1, <2>2, <2>3, <2>4 DEF PInv
<1>6. CASE FreePages = {} /\ result'.ptr = NULL
  <2>1. pc' = "failed"
    BY <1>4, <1>6 DEF NewPML4
  <2>2. \A c \in Clients : Held(c) = {}
    BY DEF PInv, NewPML4, Held, BlockPages
  <2>3. Cardinality(FreeAtBoot(info)) \in Nat /\ Cardinality(FreeAtBoot(info)) <= 0
    BY <1>6, <2>2, FewPagesAvailable DEF PInv, NewPML4
  <2>4. FailsOnlyForCause'
    <3>1. Cardinality(FreeAtBoot(info')) < 2 + gibCount'
      BY SMTT(20), <1>2, <2>3, CountOfDirectories
    <3> QED  BY <3>1 DEF FailsOnlyForCause
  <2>5. (mem \in [Pages -> [Slots -> TableEntry]])'
    BY <1>4 DEF PInv, Pages, Total, Slots, TableEntry
  <2> QED  BY Zenon, <1>0, <1>2, <1>3, <1>4, <2>1, <2>4, <2>5 DEF PInv
<1> QED  BY <1>3, <1>5, <1>6

LEMMA NewPDPTStep ==
  ASSUME TopPageReserved, FiniteSetFacts, PInv, NewPDPT
  PROVE  PInv'
<1>1. [NextPaging]_allVars
  BY Zenon DEF NextPaging
<1>2. IInv' /\ info' = info /\ gibCount' = gibCount /\ ReservedMemory' \in ReservedInfos
  BY <1>1, PagingFrame
<1>3. /\ phase' = "ready"
      /\ \A d \in Clients \ {1} : Held(d)' = Held(d) /\ live'[d] = live[d]
      /\ \/ result'.ptr \in FreePages /\ Held(1)' = {result'.ptr}
         \/ FreePages' = {} /\ result'.ptr = NULL /\ live'[1] = NULL
  BY TablePage, TableSizes DEF PInv, NewPDPT
<1>4. /\ pml4' = pml4 /\ pml4 \in Pages /\ pc' = "pd" /\ g' = 0
      /\ gibCount' \in Nat /\ gibCount' <= ENTIRIES /\ pdpt' = result'.ptr
  BY <1>2, CountOfDirectories DEF PInv, NewPDPT
<1>5. Held(0)' = {pml4}
  BY <1>3, TableSizes DEF PInv, NewPDPT
<1>6. At(pdpt') \in Nat
  BY Zenon, <1>3, <1>4, EntryTypes DEF At
<1>7. mem' \in [Pages -> [Slots -> TableEntry]] /\ mem'[pml4][0] = Table(At(pdpt'))
  BY <1>4, <1>6, EntryTypes DEF PInv, NewPDPT
<1>8. \A c \in Clients \ (0 .. g' + 1) : live'[c] = NULL
  <2>1. \A c \in Clients \ (0 .. g' + 1) : c # 0 /\ c # 1
    BY <1>4
  <2> QED  BY <1>3, <2>1 DEF PInv, NewPDPT
<1>9. TablesBuilt'
  <2>1. (pml4 \in Pages /\ Held(0) = {pml4} /\ g <= gibCount)'
    BY <1>4, <1>5 DEF Pages, Total
  <2>2. CASE result'.ptr \in FreePages /\ Held(1)' = {result'.ptr}
    <3>1. pdpt' \in Pages /\ pdpt' # NULL /\ Held(1)' = {pdpt'}
      BY Zenon, <1>4, <2>2, EntryTypes
    <3>2. mem'[pml4'][0] = Table(pdpt')
      BY <1>4, <1>7, <3>1 DEF At
    <3> QED  BY <1>4, <2>1, <3>1, <3>2 DEF TablesBuilt, Pages, Total, Table, Entry
  <2>3. CASE FreePages' = {} /\ result'.ptr = NULL /\ live'[1] = NULL
    BY <1>4, <2>1, <2>3 DEF TablesBuilt
  <2> QED  BY <1>3, <2>2, <2>3
<1>10. (mem \in [Pages -> [Slots -> TableEntry]])' /\ FailsOnlyForCause'
  BY <1>4, <1>7 DEF Pages, Total, Slots, TableEntry, FailsOnlyForCause
<1>11. TablesFirst'
  <2>1. \A d \in Clients : live[d] # NULL => d \in 0 .. 1 - 1
    BY DEF PInv, NewPDPT
  <2> QED  BY Zenon, <2>1, TableTakesFirst, TableSizes DEF PInv, NewPDPT
<1> QED  BY <1>2, <1>3, <1>4, <1>8, <1>9, <1>10, <1>11 DEF PInv

(* While the tables are built each of them has one page, if it has any. *)
LEMMA OnePageEach ==
  ASSUME PInv, pc = "pd"
  PROVE  /\ \A c \in Clients : Held(c) # {} => c \in 0 .. g + 1
         /\ \A c \in Clients : \A p, q \in Held(c) : p = q
<1>1. ASSUME NEW c \in Clients, Held(c) # {} PROVE c \in 0 .. g + 1
  BY <1>1 DEF PInv, Held, BlockPages
<1>2. ASSUME NEW c \in Clients, NEW p \in Held(c), NEW q \in Held(c) PROVE p = q
  <2>1. c \in 0 .. g + 1 /\ g \in Nat
    BY <1>1, <1>2 DEF PInv
  <2>2. TablesBuilt
    BY DEF PInv
  <2>3. CASE c = 0
    BY <1>2, <2>2, <2>3 DEF TablesBuilt
  <2>4. CASE c = 1
    <3>1. pdpt # NULL
      BY <1>2, <2>2, <2>4 DEF TablesBuilt, Held, BlockPages
    <3> QED  BY Zenon, <1>2, <2>2, <2>4, <3>1 DEF TablesBuilt
  <2>5. CASE c # 0 /\ c # 1
    <3>1. c - 2 \in 0 .. g - 1 /\ 2 + (c - 2) = c /\ g # 0
      BY <2>1, <2>5
    <3>2. HasDirectory(c - 2)
      BY <2>2, <3>1 DEF TablesBuilt
    <3>3. \E d \in Pages : Held(c) = {d}
      BY <3>1, <3>2 DEF HasDirectory
    <3> QED  BY <1>2, <3>3
  <2> QED  BY <2>3, <2>4, <2>5
<1> QED  BY <1>1, <1>2

(* No page of a table is free, and no two tables have the same page. *)
LEMMA TablesApart ==
  ASSUME IInv, phase = "ready"
  PROVE  /\ \A c \in Clients : Held(c) \cap FreePages = {}
         /\ \A c, d \in Clients : c # d => Held(c) \cap Held(d) = {}
BY DEF IInv, BitmapExact, NoSharedPage, FreePages

LEMMA NewPDStep ==
  ASSUME TopPageReserved, FiniteSetFacts, PInv, NewPD
  PROVE  PInv'
<1>1. [NextPaging]_allVars
  BY DEF NextPaging
<1>2. /\ IInv' /\ info' = info /\ ReservedMemory' = ReservedMemory /\ gibCount' = gibCount
      /\ ReservedMemory' \in ReservedInfos
  BY Zenon, <1>1, PagingFrame
<1>3. /\ pc = "pd" /\ g \in Nat /\ g < gibCount /\ gibCount \in Nat /\ gibCount <= ENTIRIES
      /\ TablesBuilt /\ phase = "ready" /\ pml4' = pml4 /\ pdpt' = pdpt
  BY CountOfDirectories DEF PInv, NewPD
<1>0. g \in Slots /\ 2 + g \in Clients /\ 0 \in Clients /\ 1 \in Clients
  BY <1>3, TableSizes DEF Slots
<1>4. PICK new \in Clients : new = 2 + g /\ new # 0 /\ new # 1
  BY SMTT(20), <1>0, <1>3
<1>5. /\ phase' = "ready"
      /\ \A d \in Clients \ {new} : Held(d)' = Held(d) /\ live'[d] = live[d]
      /\ \/ result'.ptr \in FreePages /\ Held(new)' = {result'.ptr}
         \/ FreePages = {} /\ result'.ptr = NULL
      /\ TablesFirst'
  <2>1. AllocatePage(new) /\ new \in Tables
    BY Zenon, <1>0, <1>4, TableSizes DEF NewPD, Slots
  <2>2. \A d \in Clients : live[d] # NULL => d \in 0 .. new - 1
    <3>1. 0 .. g + 1 = 0 .. new - 1
      BY <1>3, <1>4
    <3> QED  BY Zenon, <1>3, <3>1 DEF PInv
  <2>3. TablesFirst'
    BY Zenon, <2>1, <2>2, TableTakesFirst DEF PInv
  <2> QED  BY ZenonT(30), <2>1, <2>3, TablePage DEF PInv
<1>6. CASE FreePages = {} /\ result'.ptr = NULL
  <2>1. pc' = "failed" /\ mem' = mem /\ g' = g
    BY <1>6 DEF NewPD
  <2>2. \A c \in Clients : Held(c) # {} => c \in 0 .. (g + 2) - 1
    BY <1>3, OnePageEach
  <2>3. Cardinality(FreeAtBoot(info)) \in Nat /\ Cardinality(FreeAtBoot(info)) <= g + 2
    <3>1. g + 2 \in Nat
      BY <1>3
    <3> QED  BY <1>3, <1>6, <2>2, <3>1, OnePageEach, FewPagesAvailable DEF PInv
  <2>4. FailsOnlyForCause'
    <3>1. Cardinality(FreeAtBoot(info')) < 2 + gibCount'
      BY <1>2, <1>3, <2>3
    <3> QED  BY <3>1 DEF FailsOnlyForCause
  <2>5. (mem \in [Pages -> [Slots -> TableEntry]])'
    BY Zenon, <2>1 DEF PInv, Pages, Total, Slots, TableEntry
  <2> QED  BY Zenon, <1>2, <1>3, <1>5, <2>1, <2>4, <2>5 DEF PInv
<1>7. CASE result'.ptr \in FreePages /\ Held(new)' = {result'.ptr}
  <2> DEFINE page == result'.ptr
  <2>1. page \in Pages /\ page # NULL /\ page \in Nat
    BY ZenonT(30), <1>7, EntryTypes
  <2>2. /\ mem' = [mem EXCEPT ![page] = Directory(g), ![At(pdpt)][g] = Table(page)]
        /\ g' = g + 1 /\ pc' = "pd"
    BY Zenon, <1>3, <2>1 DEF NewPD
  <2> HIDE DEF page
  <2>3. pdpt # NULL /\ pdpt \in Pages /\ Held(1) = {pdpt} /\ At(pdpt) = pdpt
    BY <1>3, <1>7 DEF TablesBuilt, At
  <2>4. page \notin Held(0) /\ page \notin Held(1) /\ pml4 # pdpt /\ page # pdpt /\ page # pml4
    <3>1. page \notin Held(0) /\ page \notin Held(1) /\ Held(0) \cap Held(1) = {}
      BY <1>0, <1>3, <1>7, TablesApart DEF PInv, page
    <3>2. Held(0) = {pml4}
      BY Zenon, <1>3 DEF TablesBuilt
    <3> QED  BY <2>3, <3>1, <3>2
  <2>5. /\ mem' \in [Pages -> [Slots -> TableEntry]]
        /\ mem'[page] = Directory(g)
        /\ mem'[pdpt][g] = Table(page)
        /\ \A k \in Slots \ {g} : mem'[pdpt][k] = mem[pdpt][k]
        /\ \A p \in Pages \ {page, pdpt} : mem'[p] = mem[p]
    <3>1. Directory(g) \in [Slots -> TableEntry] /\ Table(page) \in TableEntry
      BY <1>3, <2>1, DirectoryIsTable, EntryTypes
    <3> QED  BY <1>0, <1>4, <2>1, <2>2, <2>3, <2>4, <3>1 DEF PInv
  <2>6. ASSUME NEW k \in Nat, k = g PROVE HasDirectory(k)'
    <3>1. Directory(k)' = Directory(k)
      BY <1>2, MapUnchanged
    <3>2. /\ Held(2 + k)' = {page} /\ mem'[pdpt'][k] = Table(page)
          /\ \A i \in Slots : mem'[page][i] = Directory(k)'[i]
      BY Zenon, <1>3, <1>4, <1>7, <2>5, <2>6, <3>1 DEF page
    <3> QED  BY ZenonT(30), <2>1, <3>2 DEF HasDirectory, Pages, Total, Slots, Table, Entry
  <2>7. ASSUME NEW k \in 0 .. g - 1 PROVE HasDirectory(k)'
    <3>1. HasDirectory(k) /\ k \in Slots \ {g} /\ 2 + k \in Clients \ {0, 1, new}
      <4>1. HasDirectory(k)
        BY Zenon, <1>3, <2>3 DEF TablesBuilt
      <4>2. k \in Nat /\ k < g /\ k < ENTIRIES
        BY <1>3, TableSizes
      <4>3. k \in Slots /\ k # g /\ 2 + k # 0 /\ 2 + k # 1 /\ 2 + k # 2 + g
        BY <1>3, <4>2, TableSizes DEF Slots
      <4>4. 2 + k \in Clients
        BY Zenon, <4>3, TableSizes DEF Slots
      <4> QED  BY Zenon, <1>4, <4>1, <4>3, <4>4
    <3>2. Held(2 + k)' = Held(2 + k) /\ mem'[pdpt][k] = mem[pdpt][k]
      BY Zenon, <1>5, <2>5, <3>1
    <3>3. \A p \in Held(2 + k) : p \in Pages /\ p # page /\ p # pdpt
      <4>1. Held(2 + k) \cap FreePages = {} /\ Held(2 + k) \cap Held(1) = {}
        BY Zenon, <1>0, <1>3, <3>1, TablesApart DEF PInv
      <4> QED  BY Zenon, <1>7, <2>3, <4>1 DEF Held, page
    <3>4. \A p \in Held(2 + k) : mem'[p] = mem[p]
      BY <2>5, <3>3
    <3> QED  BY Zenon, <1>2, <1>3, <3>1, <3>2, <3>4, DirectoryStays
  <2>8. TablesBuilt'
    <3>1. pml4 \in Pages /\ mem'[pml4] = mem[pml4] /\ mem[pml4][0] = Table(pdpt)
      BY Zenon, <1>3, <2>3, <2>4, <2>5 DEF TablesBuilt
    <3>2. Held(0)' = {pml4} /\ Held(1)' = {pdpt}
      BY Zenon, <1>3, <1>0, <1>4, <1>5, <2>3 DEF TablesBuilt
    <3>3. \A k \in 0 .. g' - 1 : HasDirectory(k)'
      BY <1>3, <2>2, <2>6, <2>7
    <3>4. g' <= gibCount'
      BY <1>2, <1>3, <2>2
    <3> QED  BY ZenonT(30), <1>3, <2>2, <2>3, <3>1, <3>2, <3>3, <3>4
             DEF TablesBuilt, Pages, Total, Table, Entry
  <2>9. \A c \in Clients \ (0 .. g' + 1) : live'[c] = NULL
    <3>1. \A c \in Clients \ (0 .. g' + 1) : c # new /\ c \notin 0 .. g + 1
      BY <1>3, <1>4, <2>2
    <3> QED  BY <1>3, <1>5, <3>1 DEF PInv
  <2>10. (mem \in [Pages -> [Slots -> TableEntry]])' /\ FailsOnlyForCause'
    BY Zenon, <2>2, <2>5 DEF Pages, Total, Slots, TableEntry, FailsOnlyForCause
  <2>11. g' \in Nat
    BY <1>3, <2>2
  <2> QED  BY Zenon, <1>2, <1>3, <1>5, <2>2, <2>8, <2>9, <2>10, <2>11 DEF PInv
<1> QED  BY <1>5, <1>6, <1>7

(* A call by one client leaves the blocks of all others alone. *)
LEMMA OthersKeepTheirs ==
  ASSUME IInv, NEW c \in Clients,
         \/ AllocatePage(c) \/ (\E size \in Sizes : AllocatePages(c, size))
         \/ FreePage(c) \/ FreePageSized(c)
  PROVE  /\ phase' = phase
         /\ \A d \in Clients \ {c} : Held(d)' = Held(d) /\ live'[d] = live[d]
<1>1. ASSUME NEW b, live' = [live EXCEPT ![c] = b]
      PROVE  \A d \in Clients \ {c} : Held(d)' = Held(d) /\ live'[d] = live[d]
  BY ZenonT(30), <1>1, HeldOfOthers DEF IInv
<1>2. ASSUME live' = live
      PROVE  \A d \in Clients \ {c} : Held(d)' = Held(d) /\ live'[d] = live[d]
  BY Zenon, <1>2 DEF Held, BlockPages, Pages, Total, Run, PageCount
<1>3. phase' = phase /\ (live' = live \/ \E b : live' = [live EXCEPT ![c] = b])
  <2>1. CASE AllocatePage(c)
    BY <2>1, Zenon DEF AllocatePage
  <2>2. CASE \E size \in Sizes : AllocatePages(c, size)
    BY <2>1, <2>2, Zenon DEF AllocatePages
  <2>3. CASE FreePage(c) \/ FreePageSized(c)
    BY <2>3, Zenon DEF FreePage, FreePageSized
  <2> QED  BY <2>1, <2>2, <2>3
<1> QED  BY <1>1, <1>2, <1>3

(* A call by a client that is not a table, after which every table is as it  *)
(* was but for the last entry of the last one that has a page.               *)
LastTable(k) == \A m \in Tables : m > k => Held(m) = {}

LEMMA CallerStep ==
  ASSUME TopPageReserved, FiniteSetFacts, PInv, [NextPaging]_allVars, NEW c \in Callers,
         \/ AllocatePage(c) \/ (\E size \in Sizes : AllocatePages(c, size))
         \/ FreePage(c) \/ FreePageSized(c),
         pc = "done", pc' \in {"done", "panic"}, UNCHANGED <<pml4, pdpt, g, cr3>>,
         mem' \in [Pages -> [Slots -> TableEntry]],
         \A k \in Tables : \A p \in Held(k) : \A i \in Slots :
           mem'[p][i] = mem[p][i] \/ (LastTable(k) /\ i = ENTIRIES - 1 /\ mem'[p][i] = Header)
  PROVE  PInv'
<1>2. /\ IInv' /\ info' = info /\ ReservedMemory' = ReservedMemory /\ gibCount' = gibCount
      /\ ReservedMemory' \in ReservedInfos
  BY ZenonT(30), PagingFrame
<1>3. /\ phase = "ready" /\ TablesBuilt /\ pml4' = pml4 /\ pdpt' = pdpt /\ g' = g /\ cr3' = cr3
      /\ g \in Nat /\ g = gibCount /\ gibCount <= ENTIRIES
  BY Zenon DEF PInv, TablesBuilt
<1>4. c \in Clients /\ c \notin Tables
  BY DEF Callers
<1>5. phase' = "ready" /\ \A d \in Clients \ {c} : Held(d)' = Held(d) /\ live'[d] = live[d]
  BY Zenon, <1>3, <1>4, OthersKeepTheirs DEF PInv
<1>6. \A k \in Tables : Held(k)' = Held(k) /\ k \in Int
  <2>1. Tables \subseteq Int /\ Tables \subseteq Clients
    BY PagingAssumption DEF Tables
  <2> QED  BY Zenon, <1>4, <1>5, <2>1
<1>7. /\ 0 \in Tables /\ 1 \in Tables /\ 0 \in Slots
      /\ \A k \in 0 .. g - 1 : 2 + k \in Tables /\ k \in Slots
  BY <1>3, TableSizes, EntryTypes DEF Tables, Slots
<1>8. ASSUME NEW k \in Tables, NEW m \in Tables, m > k, Held(m) # {}, NEW p \in Held(k), NEW i \in Slots
      PROVE  mem'[p][i] = mem[p][i]
  BY Zenon, <1>8 DEF LastTable
<1>9. TablesBuilt'
  <2>1. pml4 \in Pages /\ Held(0)' = {pml4} /\ pml4 \in Held(0)
    BY Zenon, <1>3, <1>6, <1>7 DEF TablesBuilt
  <2>2. CASE pdpt = NULL
    <3>1. 1 \in Clients \ {c}
      BY Zenon, <1>4, <1>7, PagingAssumption
    <3> QED  BY ZenonT(30), <1>2, <1>3, <1>5, <2>1, <2>2, <3>1 DEF TablesBuilt, Pages, Total
  <2>3. CASE pdpt # NULL
    <3>1. pdpt \in Pages /\ Held(1) = {pdpt} /\ mem[pml4][0] = Table(pdpt) /\ pdpt \in Held(1)
      BY ZenonT(30), <1>3, <2>3 DEF TablesBuilt
    <3>2. mem'[pml4][0] = mem[pml4][0] /\ Held(1)' = {pdpt}
      <4>1. 1 > 0 /\ Held(1) # {}
        BY <3>1
      <4> QED  BY Zenon, <1>6, <1>7, <1>8, <2>1, <3>1, <4>1
    <3>3. ASSUME NEW k \in 0 .. g - 1 PROVE HasDirectory(k)'
      <4>1. /\ \A j \in 0 .. g - 1 : HasDirectory(j) /\ Held(2 + j) # {}
            /\ 0 \in 0 .. g - 1 /\ 2 + 0 > 1
        <5>1. \A j \in 0 .. g - 1 : HasDirectory(j)
          BY Zenon, <1>3, <2>3 DEF TablesBuilt
        <5>2. \A j : HasDirectory(j) => Held(2 + j) # {}
          BY Zenon DEF HasDirectory
        <5>3. 0 \in 0 .. g - 1 /\ 2 + 0 > 1
          BY <1>3
        <5> QED  BY Zenon, <5>1, <5>2, <5>3
      <4>2. mem'[pdpt][k] = mem[pdpt][k]
        BY Zenon, <1>7, <1>8, <3>1, <4>1
      <4>3. LastTable(2 + k) => k = gibCount - 1
        <5>1. SUFFICES ASSUME k # gibCount - 1 PROVE ~LastTable(2 + k)
          BY Zenon
        <5>2. k + 1 \in 0 .. g - 1 /\ 2 + (k + 1) > 2 + k
          BY <1>3, <5>1
        <5> QED  BY Zenon, <1>7, <4>1, <5>2 DEF LastTable
      <4>4. \A p \in Held(2 + k) : \A i \in Slots :
              mem'[p][i] = mem[p][i] \/ (k = gibCount - 1 /\ i = ENTIRIES - 1 /\ mem'[p][i] = Header)
        BY Zenon, <1>7, <4>3
      <4> QED  BY ZenonT(30), <1>2, <1>3, <1>6, <1>7, <4>1, <4>2, <4>4, DirectoryStays
    <3>4. \A k \in 0 .. g' - 1 : HasDirectory(k)'
      BY Zenon, <1>3, <3>3
    <3>5. mem'[pml4'][0] = Table(pdpt)
      BY Zenon, <1>3, <3>1, <3>2
    <3> QED  BY Zenon, <1>2, <1>3, <2>1, <2>3, <3>1, <3>2, <3>4, <3>5
             DEF TablesBuilt, Pages, Total, Table, Entry
  <2> QED  BY Zenon, <2>2, <2>3
<1>10. (mem \in [Pages -> [Slots -> TableEntry]])' /\ FailsOnlyForCause' /\ TablesFirst'
  <2>1. pc' # "failed"
    OBVIOUS
  <2>2. TablesFirst'
    BY Zenon, <1>2, <1>6, TablesFirstStays DEF PInv
  <2> QED  BY Zenon, <2>1, <2>2 DEF Pages, Total, Slots, TableEntry, FailsOnlyForCause
<1> QED  BY Zenon, <1>2, <1>3, <1>5, <1>9, <1>10 DEF PInv

(* What other callers write to their pages leaves the tables as they are. *)
LEMMA CallStep ==
  ASSUME TopPageReserved, FiniteSetFacts, PInv, NEW c \in Callers, Call(c)
  PROVE  PInv'
<1>1. [NextPaging]_allVars /\ IInv'
  <2>1. [NextPaging]_allVars
    BY Zenon DEF NextPaging
  <2> QED  BY Zenon, <2>1, PagingFrame
<1>2. c \in Clients /\ \A k \in Tables : k \in Clients \ {c}
  BY Zenon, PagingAssumption DEF Callers
<1>3. \A k \in Tables : Held(k)' = Held(k)
  BY Zenon, <1>2, OthersKeepTheirs DEF PInv, Call
<1>4. mem' \in [Pages -> [Slots -> TableEntry]] /\ \A p \in Pages \ Held(c)' : mem'[p] = mem[p]
  <2>1. Filled(Stale) \in [Slots -> TableEntry]
    BY EntryTypes DEF Filled, Slots
  <2> QED  BY <2>1 DEF PInv, Call
<1>5. ASSUME NEW k \in Tables, NEW p \in Held(k) PROVE mem'[p] = mem[p]
  <2>1. p \in Pages /\ p \notin Held(c)'
    BY Zenon, <1>1, <1>2, <1>3 DEF IInv, NoSharedPage, Held
  <2> QED  BY Zenon, <1>4, <2>1
<1>6. pc = "done" /\ pc' = "done" /\ UNCHANGED <<pml4, pdpt, g, cr3>>
  BY DEF Call
<1> QED  BY ZenonT(30), <1>1, <1>4, <1>5, <1>6, CallerStep DEF Call

(* A block that is handed out later lies behind the pages of all the tables, *)
(* and the page before it can only be that of the last table.                *)
LEMMA BlocksFollowTables ==
  ASSUME TopPageReserved, IInv, TablesFirst, phase = "ready", NEW c \in Clients, NEW size \in Sizes,
         AllocatePages(c, size), result'.ptr # NULL
  PROVE  \A k \in Tables : \A p \in Held(k) : p = result'.ptr - 1 => LastTable(k)
<1> DEFINE s == result'.ptr
<1>1. s \in Int /\ (s \in FreePages \/ s >= Total)
  <2>1. FreePages \subseteq Int
    BY TotalType DEF FreePages, Pages
  <2>2. CASE PageCount(size) = 1
    <3>1. AllocatePage(c)
      BY Zenon, <2>2 DEF AllocatePages
    <3> QED  BY <2>1, <3>1, TablePage
  <2>3. CASE PageCount(size) # 1
    <3>1. PICK guard \in SUBSET Beyond :
            \E t \in Found(PageCount(size), guard) : PageCount(size) > 0 /\ s = t
      <4>1. \A n, t : [pages |-> n, ptr |-> t].ptr = t
        OBVIOUS
      <4> DEFINE n == PageCount(size)
      <4>2. PICK guard \in SUBSET Beyond :
              \/ \E t \in Found(n, guard) : n > 0 /\ result' = [pages |-> n, ptr |-> t]
              \/ result' = [pages |-> n, ptr |-> NULL]
        BY Zenon, <2>3 DEF AllocatePages
      <4> HIDE DEF n
      <4>3. PICK t \in Found(n, guard) : n > 0 /\ result' = [pages |-> n, ptr |-> t]
        BY Zenon, <4>1, <4>2
      <4>4. s = t
        BY Zenon, <4>1, <4>3
      <4> QED  BY Zenon, <4>3, <4>4 DEF n
    <3>2. PageCount(size) \in Nat \ {0}
      BY <3>1, PageCountType, SizesAssumption
    <3>3. /\ s \in 0 .. ScanTotal - 1
          /\ \/ s + PageCount(size) <= Total /\ Run(s, PageCount(size)) \subseteq FreePages
             \/ s >= Total
      BY Zenon, <3>1, <3>2, FoundIsWellPlaced
    <3> HIDE DEF s
    <3>4. s \in Int /\ s \in Run(s, PageCount(size))
      BY <3>2, <3>3, TotalType DEF Run
    <3> QED  BY Zenon, <3>3, <3>4
  <2> QED  BY Zenon, <2>2, <2>3
<1> HIDE DEF s
<1>2. Tables \subseteq Int /\ Tables \subseteq Clients
  BY PagingAssumption DEF Tables
<1>3. \A k \in Tables : \A p \in Held(k) : p \in Int /\ p < Total /\ p \in FreeAtBoot(info)
  BY <1>2, TotalType DEF Held, Pages, IInv, HeldWasFree
<1>4. ASSUME NEW k \in Tables, NEW p \in Held(k) PROVE p < s
  <2>1. CASE s \in FreePages
    <3>1. s \in FreeAtBoot(info) /\ \A d \in Tables : s \notin Held(d)
      BY Zenon, <1>2, <2>1, FreeOrHeld, TablesApart
    <3> QED  BY Zenon, <3>1 DEF TablesFirst
  <2>2. CASE s >= Total
    BY <1>1, <1>3, <2>2, TotalType
  <2> QED  BY Zenon, <1>1, <2>1, <2>2
<1>5. ASSUME NEW k \in Tables, NEW p \in Held(k), p = s - 1, NEW m \in Tables, m > k, NEW q \in Held(m)
      PROVE  FALSE
  <2>1. p < q
    <3>1. p < q \/ \E d \in Tables : d <= k /\ q \in Held(d)
      BY Zenon, <1>3 DEF TablesFirst
    <3>2. \A d \in Tables : d <= k => d # m
      BY <1>2, <1>5
    <3> QED  BY Zenon, <1>2, <3>1, <3>2, TablesApart
  <2>2. q < s
    BY Zenon, <1>4
  <2> QED  BY <1>1, <1>3, <1>5, <2>1, <2>2
<1> QED  BY Zenon, <1>5 DEF LastTable, s

(* operator new reaches no table but the last, and of it the last entry. *)
LEMMA OperatorNewStep ==
  ASSUME TopPageReserved, FiniteSetFacts, PInv, NEW c \in Callers, NEW size \in Sizes, OperatorNew(c, size)
  PROVE  PInv'
<1>1. [NextPaging]_allVars /\ IInv'
  <2>1. [NextPaging]_allVars
    BY Zenon DEF NextPaging
  <2> QED  BY Zenon, <2>1, PagingFrame
<1>2. c \in Clients /\ \A k \in Tables : k \in Clients \ {c}
  BY Zenon, PagingAssumption DEF Callers
<1>3. AllocatePages(c, size) /\ pc = "done" /\ UNCHANGED <<pml4, pdpt, g, cr3>> /\ pc' \in {"done", "panic"}
  BY DEF OperatorNew
<1>4. \A k \in Tables : Held(k)' = Held(k)
  BY Zenon, <1>2, <1>3, OthersKeepTheirs DEF PInv
<1>5. CASE result'.ptr = NULL
  <2>1. mem' = mem
    BY Zenon, <1>5 DEF OperatorNew
  <2> QED  BY ZenonT(30), <1>1, <1>3, <2>1, CallerStep DEF PInv
<1>6. CASE result'.ptr # NULL
  <2> DEFINE last == ENTIRIES - 1
             page == result'.ptr
  <2>1. mem' = [p \in Pages |->
                  IF p \in Held(c)' THEN Filled(Stale)
                  ELSE IF p = page - 1 THEN [mem[p] EXCEPT ![last] = Header]
                  ELSE mem[p]]
    BY Zenon, <1>6 DEF OperatorNew
  <2>2. last \in Slots /\ Header \in TableEntry /\ Filled(Stale) \in [Slots -> TableEntry]
    BY TableSizes, EntryTypes DEF Slots, Filled
  <2>3. mem \in [Pages -> [Slots -> TableEntry]]
    BY Zenon DEF PInv
  <2> HIDE DEF page, last
  <2>4. mem' \in [Pages -> [Slots -> TableEntry]]
    BY <2>1, <2>2, <2>3
  <2>5. ASSUME NEW k \in Tables, NEW p \in Held(k), NEW i \in Slots
        PROVE  mem'[p][i] = mem[p][i] \/ (LastTable(k) /\ i = last /\ mem'[p][i] = Header)
    <3>1. p \in Pages /\ p \notin Held(c)'
      BY Zenon, <1>1, <1>2, <1>4 DEF IInv, NoSharedPage, Held
    <3>2. p = page - 1 => LastTable(k)
      BY Zenon, <1>2, <1>3, <1>6, BlocksFollowTables DEF PInv, page
    <3>3. mem'[p] = IF p = page - 1 THEN [mem[p] EXCEPT ![last] = Header] ELSE mem[p]
      BY Zenon, <2>1, <3>1
    <3>4. mem[p] \in [Slots -> TableEntry]
      BY Zenon, <2>3, <3>1
    <3> QED  BY <2>2, <3>2, <3>3, <3>4
  <2> QED  BY ZenonT(30), <1>1, <1>3, <2>4, <2>5, CallerStep DEF last
<1> QED  BY Zenon, <1>5, <1>6

(* Steps in which no page changes hands and no table is written. *)
LEMMA QuietStep ==
  ASSUME TopPageReserved, FiniteSetFacts, PInv, ParseMap \/ Begin \/ LoadCR3 \/ PanicEx \/ UNCHANGED allVars
  PROVE  PInv'
<1>1. [NextPaging]_allVars
  BY DEF NextPaging
<1>2. /\ IInv' /\ info' = info /\ ReservedMemory' = ReservedMemory
      /\ gibCount' = gibCount /\ CalcMaxPhys' = CalcMaxPhys
      /\ ReservedMemory' \in ReservedInfos
  BY Zenon, <1>1, PagingFrame
<1>3. /\ live' = live /\ mem' = mem /\ pml4' = pml4 /\ pdpt' = pdpt /\ g' = g
      /\ \A c : Held(c)' = Held(c)
  <2>1. live' = live /\ mem' = mem /\ pml4' = pml4 /\ pdpt' = pdpt /\ g' = g
    BY DEF ParseMap, ParseMemoryInfo, InitEarlyPageAllocator, Begin, LoadCR3, PanicEx,
           vars, tableVars, allVars
  <2> QED  BY Zenon, <2>1 DEF Held, BlockPages, Pages, Total, Run, PageCount
<1>4. (mem \in [Pages -> [Slots -> TableEntry]])'
  BY <1>3 DEF PInv, Pages, Total, Slots, TableEntry
<1>5. ASSUME FailsOnlyForCause, pc' = pc PROVE FailsOnlyForCause'
  <2>1. Cardinality(FreeAtBoot(info))' = Cardinality(FreeAtBoot(info))
    BY <1>2, Zenon
  <2> QED  BY <1>2, <1>5, <2>1, Zenon DEF FailsOnlyForCause, PAGE_1G
<1>0. TablesFirst'
  BY Zenon, <1>2, <1>3, TablesFirstStays DEF PInv
<1>6. CASE ParseMap
  <2>1. pc = "begin" /\ pc' = pc
    BY Zenon, <1>6 DEF PInv, ParseMap, ParseMemoryInfo, InitEarlyPageAllocator, tableVars
  <2> QED  BY Zenon, <1>0, <1>2, <1>3, <1>4, <1>5, <2>1 DEF PInv
<1>7. CASE Begin
  <2>1. pc = "begin" /\ phase' = "ready" /\ pc' = IF gibCount > ENTIRIES THEN "failed" ELSE "pml4"
    BY <1>7 DEF Begin, vars
  <2>2. gibCount \in Nat /\ ENTIRIES \in Nat /\ (gibCount > ENTIRIES => CalcMaxPhys > ENTIRIES * PAGE_1G)
    BY CountOfDirectories, TableSizes
  <2>3. FailsOnlyForCause'
    BY <1>2, <2>1, <2>2 DEF FailsOnlyForCause, PAGE_1G
  <2> QED  BY <1>0, <1>2, <1>3, <1>4, <2>1, <2>2, <2>3 DEF PInv
<1>8. ASSUME TablesBuilt, pc \in {"pd", "done", "panic"}, pc' \in {"pd", "done", "panic"},
             pc' = "pd" => pc = "pd" /\ FreePages' = FreePages,
             pc' \in {"done", "panic"} => g = gibCount /\ cr3' = pml4
      PROVE  TablesBuilt'
  <2>1. ASSUME NEW k \in 0 .. g - 1, HasDirectory(k) PROVE HasDirectory(k)'
    BY Zenon, <1>2, <1>3, <2>1, DirectoryStays
  <2>2. CASE pdpt = NULL
    BY Zenon, <1>2, <1>3, <1>8, <2>2 DEF TablesBuilt, Pages, Total
  <2>3. CASE pdpt # NULL
    <3>1. \A k \in 0 .. g' - 1 : HasDirectory(k)'
      BY Zenon, <1>3, <1>8, <2>1, <2>3 DEF TablesBuilt
    <3> QED  BY Zenon, <1>2, <1>3, <1>8, <2>3, <3>1 DEF TablesBuilt, Pages, Total, Table, Entry
  <2> QED  BY <2>2, <2>3
<1>9. CASE LoadCR3
  <2>1. pc = "pd" /\ pc' = "done" /\ phase' = phase /\ g = gibCount /\ cr3' = pml4
    BY <1>9 DEF LoadCR3, vars
  <2>2. TablesBuilt' /\ FailsOnlyForCause'
    BY Zenon, <1>8, <2>1 DEF PInv, FailsOnlyForCause
  <2> QED  BY <1>0, <1>2, <1>3, <1>4, <2>1, <2>2 DEF PInv
<1>10. CASE PanicEx \/ UNCHANGED allVars
  <2>1. pc' = pc /\ phase' = phase /\ cr3' = cr3 /\ FreePages' = FreePages
    BY SMTT(20), <1>10 DEF PanicEx, allVars, vars, tableVars, FreePages, Pages, Total
  <2>2. pc \in {"pd", "done", "panic"} => TablesBuilt'
    BY Zenon, <1>8, <2>1 DEF PInv, TablesBuilt
  <2>3. pml4 \in Pages => (pml4 \in Pages)'
    BY <1>3 DEF Pages, Total
  <2> QED  BY Zenon, <1>0, <1>2, <1>3, <1>4, <1>5, <2>1, <2>2, <2>3 DEF PInv
<1> QED  BY Zenon, <1>6, <1>7, <1>9, <1>10

LEMMA NextPInv ==
  ASSUME TopPageReserved, FiniteSetFacts, PInv, [NextPaging]_allVars
  PROVE  PInv'
<1>1. CASE ParseMap \/ Begin \/ LoadCR3 \/ PanicEx \/ UNCHANGED allVars
  BY <1>1, QuietStep
<1>2. CASE NewPML4
  BY Zenon, <1>2, NewPML4Step
<1>3. CASE NewPDPT
  BY Zenon, <1>3, NewPDPTStep
<1>4. CASE NewPD
  BY <1>4, NewPDStep
<1>5. CASE \E c \in Callers : Call(c)
  BY Zenon, <1>5, CallStep
<1>6. CASE \E c \in Callers, size \in Sizes : OperatorNew(c, size)
  BY Zenon, <1>6, OperatorNewStep
<1> QED  BY Zenon, <1>1, <1>2, <1>3, <1>4, <1>5, <1>6 DEF NextPaging

LEMMA PagingInvariant ==
  ASSUME TopPageReserved, FiniteSetFacts
  PROVE  SpecPaging => []PInv
<1>1. InitPaging => PInv
  BY InitPInv
<1>2. PInv /\ [NextPaging]_allVars => PInv'
  BY Zenon, NextPInv
<1> QED  BY <1>1, <1>2, PTL DEF SpecPaging

(* The walk splits an address into the number of its GiB and of its page. *)
LEMMA AddressSplits ==
  ASSUME NEW a \in Nat, NEW e \in Nat \ {0}, NEW d \in Nat \ {0}, a % d = 0
  PROVE  /\ a \div (e * d) \in Nat
         /\ (a % (e * d)) \div d \in 0 .. e - 1
         /\ (a \div (e * d)) * (e * d) + ((a % (e * d)) \div d) * d = a
         /\ \A m \in Nat : a < m * (e * d) => a \div (e * d) < m
<1> DEFINE big == e * d
           n == a \div big
           r == a % big
           i == r \div d
           q == a \div d
           s == r - i * d
<1>1. big \in Nat \ {0}
  OBVIOUS
<1>2. n \in Nat /\ n * big <= a /\ a < n * big + big /\ r = a - n * big /\ r \in Nat /\ r < big
  <2> HIDE DEF big
  <2>1. n \in Nat /\ n * big <= a /\ a < n * big + big /\ n * big \in Int
    BY <1>1, Division
  <2>2. r = a - n * big
    BY <1>1
  <2> HIDE DEF n, r
  <2> QED  BY <1>1, <2>1, <2>2
<1>3. i \in Nat /\ i * d <= r /\ r < i * d + d /\ i * d \in Int
  <2> HIDE DEF r
  <2> QED  BY <1>2, Division
<1>4. q \in Nat /\ q * d = a
  BY Division
<1>5. n * big + i * d = (n * e + i) * d /\ n * e + i \in Nat
  <2> HIDE DEF n, i
  <2>1. n \in Nat /\ i \in Nat
    BY <1>2, <1>3
  <2> QED  BY <2>1
<1>6. i \in 0 .. e - 1
  <2> SUFFICES ASSUME i >= e PROVE FALSE
    BY <1>3
  <2>1. e * d <= i * d
    BY <1>3, MultiplesAreOrdered
  <2> QED  BY <1>1, <1>2, <1>3, <2>1
<1>7. n * big + i * d = a
  <2> DEFINE t == n * e + i
  <2>1. t \in Nat /\ t * d \in Int /\ t * d <= q * d /\ q * d < t * d + d
    <3>1. t \in Nat /\ t * d = n * big + i * d /\ n * big \in Int
      BY <1>1, <1>2, <1>5
    <3> HIDE DEF t, n, i, big, q, r
    <3> QED  BY SMTT(20), <1>2, <1>3, <1>4, <3>1
  <2> HIDE DEF t, n, i, big, q, r
  <2>2. q <= t
    <3> SUFFICES ASSUME q >= t + 1 PROVE FALSE
      BY <1>4, <2>1
    <3>1. (t + 1) * d <= q * d /\ (t + 1) * d = t * d + d
      BY <1>4, <2>1, MultiplesAreOrdered
    <3> QED  BY <1>4, <2>1, <3>1
  <2>3. q * d <= t * d
    BY SMTT(20), <1>4, <2>1, <2>2, MultiplesAreOrdered
  <2>4. t * d = q * d
    BY <1>4, <2>1, <2>3
  <2> QED  BY <1>4, <1>5, <2>4 DEF t
<1>8. ASSUME NEW m \in Nat, a < m * big PROVE n < m
  <2> HIDE DEF big, n
  <2> SUFFICES ASSUME m <= n PROVE FALSE
    BY <1>2
  <2>1. m * big <= n * big /\ m * big \in Int /\ n * big \in Int
    BY <1>1, <1>2, MultiplesAreOrdered
  <2> QED  BY <1>2, <1>8, <2>1
<1> QED  BY Zenon, <1>2, <1>6, <1>7, <1>8

(* The directories cache a page unless its first byte is reserved. *)
LEMMA FirstByteDecides ==
  ASSUME NEW addr \in Nat, ReservedMemory \in ReservedInfos
  PROVE  CachedAsReserved(addr, ~IsMMIORegion(addr))
<1>1. /\ \A r \in ReservedMemory : r.Base \in Nat /\ r.Length \in Nat /\ End(r) \in Nat
      /\ PAGE_2M \in Nat \ {0}
  BY PagingAssumption DEF Region, End
<1>2. addr \in addr .. addr + PAGE_2M - 1
  BY <1>1
<1>3. IsMMIORegion(addr) <=> \E r \in ReservedMemory : addr \in Within(r)
  BY <1>1 DEF IsMMIORegion, Within
<1> QED  BY Zenon, <1>2, <1>3 DEF CachedAsReserved

LEMMA LastAddress ==
  ASSUME NEW m \in Nat, NEW e \in Nat, NEW d \in Nat
  PROVE  (m - 1) * (e * d) + (e - 1) * d = m * (e * d) - d
OBVIOUS

(* The walk of an address that has a directory ends in its entry there, or   *)
(* in what operator new left of it.                                          *)
LEMMA WalkEndsInDirectory ==
  ASSUME FiniteSetFacts, PInv, pc \in {"done", "panic"},
         NEW addr \in 0 .. gibCount * PAGE_1G - 1, addr % PAGE_2M = 0
  PROVE  \/ addr = LastMapped /\ Walk(addr) = Header
         \/ Walk(addr) = IF addr >= lim THEN Absent ELSE Entry("page", addr, ~IsMMIORegion(addr))
<1> DEFINE n == addr \div PAGE_1G
           i == (addr % PAGE_1G) \div PAGE_2M
<1>1. /\ TablesBuilt /\ g = gibCount /\ cr3 = pml4 /\ gibCount \in Nat
      /\ PAGE_1G \in Nat \ {0} /\ PAGE_2M \in Nat \ {0} /\ ENTIRIES \in Nat \ {0}
  BY Zenon, CountOfDirectories, TableSizes DEF PInv, TablesBuilt
<1>2. gibCount * PAGE_1G \in Nat /\ addr \in Nat /\ addr < gibCount * PAGE_1G
  <2>1. \A a, b \in Nat : a * b \in Nat
    OBVIOUS
  <2>2. gibCount * PAGE_1G \in Nat
    BY <1>1, <2>1
  <2> QED  BY <2>2
<1>3. n \in Nat /\ n < gibCount /\ i \in Slots /\ n * PAGE_1G + i * PAGE_2M = addr
  BY ZenonT(30), <1>1, <1>2, AddressSplits DEF PAGE_1G, Slots
<1> HIDE DEF n, i
<1>4. pdpt # NULL /\ n \in 0 .. g - 1
  BY <1>1, <1>3 DEF TablesBuilt
<1>5. mem[cr3][0] = Table(pdpt) /\ pdpt \in Nat /\ HasDirectory(n)
  BY Zenon, <1>1, <1>4, EntryTypes DEF TablesBuilt
<1>6. PICK d \in Pages :
        /\ mem[pdpt][n] = Table(d)
        /\ \/ mem[d][i] = Directory(n)[i]
           \/ n = gibCount - 1 /\ i = ENTIRIES - 1 /\ mem[d][i] = Header
  BY Zenon, <1>3, <1>5 DEF HasDirectory
<1>7. Walk(addr) = mem[d][i]
  <2>1. /\ Table(pdpt).kind = "table" /\ Table(pdpt).addr = pdpt
        /\ Table(d).kind = "table" /\ Table(d).addr = d
    BY <1>5, EntryTypes, Zenon
  <2> QED  BY <1>5, <1>6, <2>1, Zenon DEF Walk, n, i
<1>8. Directory(n)[i] = IF addr >= lim THEN Absent ELSE Entry("page", addr, ~IsMMIORegion(addr))
  BY <1>3, Zenon DEF Directory, Slots
<1>9. n = gibCount - 1 /\ i = ENTIRIES - 1 => addr = LastMapped
  <2>1. (gibCount - 1) * PAGE_1G + (ENTIRIES - 1) * PAGE_2M = LastMapped
    BY Zenon, <1>1, LastAddress DEF LastMapped, PAGE_1G
  <2> QED  BY Zenon, <1>3, <2>1
<1> QED  BY Zenon, <1>6, <1>7, <1>8, <1>9

LEMMA IdentityWhenDone ==
  ASSUME FiniteSetFacts, PInv
  PROVE  MapIsIdentity
<1> SUFFICES ASSUME pc \in {"done", "panic"},
                    NEW addr \in {a \in 0 .. gibCount * PAGE_1G - 1 : a % PAGE_2M = 0},
                    ~(addr = LastMapped /\ Walk(addr) = Header)
             PROVE  IF addr < lim
                    THEN /\ Walk(addr).kind = "page" /\ Walk(addr).addr = addr
                         /\ CachedAsReserved(addr, Walk(addr).cached)
                    ELSE Walk(addr).kind = "absent"
  BY Zenon DEF MapIsIdentity, lim
<1>1. Walk(addr) = IF addr >= lim THEN Absent ELSE Entry("page", addr, ~IsMMIORegion(addr))
  BY Zenon, WalkEndsInDirectory
<1>2. addr \in Nat /\ lim \in Nat
  BY CountOfDirectories
<1>3. CachedAsReserved(addr, ~IsMMIORegion(addr))
  BY <1>2, FirstByteDecides DEF PInv
<1>4. CASE addr < lim
  <2>1. Walk(addr) = Entry("page", addr, ~IsMMIORegion(addr))
    BY <1>1, <1>2, <1>4
  <2> DEFINE cached == ~IsMMIORegion(addr)
  <2> HIDE DEF cached
  <2>2. Walk(addr) = Entry("page", addr, cached) /\ CachedAsReserved(addr, cached)
    BY <1>3, <2>1 DEF cached
  <2>3. Walk(addr).kind = "page" /\ Walk(addr).addr = addr /\ Walk(addr).cached = cached
    BY <2>2 DEF Entry
  <2> QED  BY <1>4, <2>2, <2>3, Zenon
<1>5. CASE ~(addr < lim)
  <2>1. Walk(addr) = Absent
    BY SMTT(20), <1>1, <1>2, <1>5
  <2> QED  BY <1>5, <2>1 DEF Absent, Entry
<1> QED  BY <1>4, <1>5
-------------------------------------------------------------------------------
(* The facts about finite sets. *)

FS == INSTANCE FiniteSetTheorems

LEMMA SameSets == \A S : FS!Cardinality(S) = Cardinality(S) /\ (FS!IsFiniteSet(S) <=> IsFiniteSet(S))
BY DEF FS!IsFiniteSet, IsFiniteSet, FS!Cardinality, Cardinality

(* A finite set of numbers has a largest one. *)
LEMMA LeastNumber ==
  ASSUME NEW T \in SUBSET Nat, T # {}
  PROVE  \E n \in T : \A m \in T : n <= m
<1>1. PICK n \in T : \A m \in T : ~(<<m, n>> \in FS!OpToRel(<, Nat))
  BY FS!NatLessThanWellFounded, FS!WFMin, Zenon
<1>2. \A m \in T : ~(m < n)
  BY Zenon, <1>1 DEF FS!OpToRel
<1> QED  BY <1>2

LEMMA FiniteIsBounded ==
  ASSUME NEW S \in SUBSET Nat, IsFiniteSet(S)
  PROVE  \E b \in Nat : \A y \in S : y <= b
<1>1. PICK n \in Nat : FS!ExistsSurjection(1 .. n, S)
  BY Zenon, SameSets, FS!FS_NatSurjection
<1>2. PICK f \in [1 .. n -> S] : \A y \in S : \E i \in 1 .. n : f[i] = y
  BY <1>1 DEF FS!ExistsSurjection, FS!Surjection
<1> DEFINE Bounds(k, b) == \A i \in 1 .. k : f[i] <= b
           T == {k \in 0 .. n : ~\E b \in Nat : Bounds(k, b)}
<1>3. T = {}
  <2> SUFFICES ASSUME T # {} PROVE FALSE
    BY Zenon
  <2>1. T \in SUBSET Nat
    BY SMTT(20)
  <2>2. PICK k \in T : \A m \in T : k <= m
    <3> HIDE DEF T
    <3> QED  BY <2>1, LeastNumber
  <2>3. k \in 0 .. n /\ ~\E b \in Nat : Bounds(k, b)
    OBVIOUS
  <2>4. k # 0
    BY <2>3
  <2>5. k - 1 \in 0 .. n /\ ~(k <= k - 1)
    BY <2>3, <2>4
  <2>6. PICK b \in Nat : Bounds(k - 1, b)
    BY Zenon, <2>2, <2>5
  <2>7. f[k] \in Nat
    <3>1. k \in 1 .. n
      BY <2>3, <2>4
    <3> QED  BY Zenon, <3>1
  <2>8. PICK d \in Nat : b <= d /\ f[k] <= d
    <3>1. \A x, y \in Nat : x + y \in Nat /\ x <= x + y /\ y <= x + y
      OBVIOUS
    <3> QED  BY ZenonT(30), <2>7, <3>1
  <2>9. Bounds(k, d)
    <3> SUFFICES ASSUME NEW i \in 1 .. k PROVE f[i] <= d
      OBVIOUS
    <3>1. CASE i = k
      BY Zenon, <2>8, <3>1
    <3>2. CASE i # k
      <4>1. i \in 1 .. k - 1 /\ i \in 1 .. n
        BY <2>3, <3>2
      <4>2. f[i] <= b /\ f[i] \in Nat
        BY ZenonT(30), <2>6, <4>1
      <4>3. \A x, y, z \in Nat : x <= y /\ y <= z => x <= z
        OBVIOUS
      <4> QED  BY ZenonT(30), <2>8, <4>2, <4>3
    <3> QED  BY Zenon, <3>1, <3>2
  <2> QED  BY ZenonT(30), <2>3, <2>9
<1>4. \E b \in Nat : Bounds(n, b)
  <2>1. n \in 0 .. n
    OBVIOUS
  <2> QED  BY Zenon, <1>3, <2>1
<1> QED  BY Zenon, <1>2, <1>4

LEMMA MaxOfFinite ==
  ASSUME NEW S \in SUBSET Nat, IsFiniteSet(S), S # {}
  PROVE  Max(S) \in S /\ \A y \in S : y <= Max(S)
<1> DEFINE U == {b \in Nat : \A y \in S : y <= b}
<1>1. U \in SUBSET Nat /\ U # {}
  BY Zenon, FiniteIsBounded
<1>2. PICK m \in U : \A b \in U : m <= b
  <2> HIDE DEF U
  <2> QED  BY Zenon, <1>1, LeastNumber
<1>3. m \in S
  <2> SUFFICES ASSUME m \notin S PROVE FALSE
    OBVIOUS
  <2>1. \A y \in S : y \in Nat /\ y <= m - 1
    OBVIOUS
  <2>2. m - 1 \in U
    <3>1. PICK y \in S : TRUE
      BY Zenon
    <3>2. m - 1 \in Nat
      BY <2>1, <3>1
    <3> QED  BY Zenon, <2>1, <3>2
  <2> QED  BY <1>2, <2>2
<1>4. \E x \in S : \A y \in S : x >= y
  BY <1>3
<1>5. Max(S) \in S /\ \A y \in S : Max(S) >= y
  BY Zenon, <1>4 DEF Max
<1> QED  BY <1>5

LEMMA FiniteSetFactsHold == FiniteSetFacts
<1>1. \A a, b \in Int : IsFiniteSet(a .. b)
  BY SameSets, FS!FS_Interval, Zenon
<1>2. \A n \in Nat : Cardinality(0 .. n - 1) = n
  BY SameSets, FS!FS_Interval
<1>3. \A S : IsFiniteSet(S) => Cardinality(S) \in Nat /\ \A x : IsFiniteSet(S \cup {x})
  BY SameSets, FS!FS_CardinalityType, FS!FS_AddElement, Zenon
<1>6. \A S, T : IsFiniteSet(S) /\ IsFiniteSet(T) => IsFiniteSet(S \cup T)
  BY SameSets, FS!FS_Union, Zenon
<1>4. ASSUME NEW S, NEW T, NEW f \in [S -> T], IsFiniteSet(S), \A y \in T : \E x \in S : f[x] = y
      PROVE  IsFiniteSet(T)
  <2>1. f \in FS!Surjection(S, T)
    BY <1>4, Zenon DEF FS!Surjection
  <2> QED  BY <1>4, <2>1, SameSets, FS!FS_Surjection, ZenonT(30)
<1>5. ASSUME NEW S, NEW T, NEW f \in [S -> T], IsFiniteSet(T), \A x, y \in S : f[x] = f[y] => x = y
      PROVE  IsFiniteSet(S) /\ Cardinality(S) <= Cardinality(T)
  <2>1. f \in FS!Injection(S, T)
    BY <1>5, Zenon DEF FS!Injection, FS!IsInjective
  <2> QED  BY <1>5, <2>1, SameSets, FS!FS_Injection, ZenonT(30)
<1> QED  BY ZenonT(30), <1>1, <1>2, <1>3, <1>4, <1>5, <1>6, MaxOfFinite DEF FiniteSetFacts
-------------------------------------------------------------------------------
(* What the page tables do. *)

(* InitMemory, BuildIdentityMap2M and the callers after them use the         *)
(* allocator only as PageAllocator allows: what is proved of it holds while  *)
(* the page tables are built and in use.                                     *)
THEOREM PagingRespectsAllocator ==
  ASSUME TopPageReserved
  PROVE  SpecPaging => Spec
<1>1. InitPaging => Init
  BY Zenon DEF InitPaging
<1>2. PInv /\ [NextPaging]_allVars => [Next]_vars
  BY Zenon, PagingUsesAllocator, FiniteSetFactsHold
<1> QED  BY <1>1, <1>2, PagingInvariant, FiniteSetFactsHold, PTL DEF SpecPaging, Spec

(* BuildIdentityMap2M returns false only when there is more memory than one  *)
(* pdpt can map, or too little to have a page for each table.                *)
THEOREM MapFailsOnlyForCause ==
  ASSUME TopPageReserved
  PROVE  SpecPaging => []FailsOnlyForCause
<1>1. PInv => FailsOnlyForCause
  BY Zenon DEF PInv
<1> QED  BY <1>1, PagingInvariant, FiniteSetFactsHold, PTL

(* From LoadCR3 on the MMU maps every page of the memory map to itself,      *)
(* uncached where it is reserved, and nothing above it, whatever pages the   *)
(* rest of the kernel takes, writes to and releases, but for the one entry   *)
(* that a header of operator new may overwrite: the last one of the last     *)
(* directory.                                                                *)
THEOREM MapStaysIdentity ==
  ASSUME TopPageReserved
  PROVE  SpecPaging => []MapIsIdentity
<1>1. PInv => MapIsIdentity
  BY Zenon, IdentityWhenDone, FiniteSetFactsHold
<1> QED  BY <1>1, PagingInvariant, FiniteSetFactsHold, PTL
-------------------------------------------------------------------------------
(* What the allocator has of pages, which counts them. *)

LEMMA DisjointUnion ==
  ASSUME NEW S, NEW T, IsFiniteSet(S), IsFiniteSet(T), S \cap T = {}
  PROVE  Cardinality(S \cup T) = Cardinality(S) + Cardinality(T) - Cardinality({})
<1>1. FS!Cardinality(S \cup T) = FS!Cardinality(S) + FS!Cardinality(T) - FS!Cardinality(S \cap T)
  BY Zenon, SameSets, FS!FS_Union
<1> QED  BY Zenon, SameSets, <1>1

(* As no two clients share a page, the blocks have as many pages as there    *)
(* are pages in blocks.                                                      *)
LEMMA HeldPairs ==
  ASSUME NoSharedPage
  PROVE  /\ IsFiniteSet(HeldPages)
         /\ Cardinality({x \in Clients \X Pages : x[2] \in Held(x[1])}) = Cardinality(HeldPages)
<1> DEFINE pairs == {x \in Clients \X Pages : x[2] \in Held(x[1])}
           f == [x \in pairs |-> x[2]]
<1>0. ASSUME NEW x \in pairs
      PROVE  \E c \in Clients, p \in Pages : x = <<c, p>> /\ x[2] = p /\ p \in Held(c)
  BY Zenon, HeldPair
<1>1. IsFiniteSet(HeldPages)
  <2>1. IsFiniteSet(Pages)
    BY Zenon, PagesAreFinite, FiniteSetFactsHold
  <2> QED  BY Zenon, SameSets, <2>1, FS!FS_Subset DEF HeldPages
<1>2. f \in [pairs -> HeldPages]
  <2>1. \A x \in pairs : x[2] \in HeldPages
    BY Zenon, <1>0 DEF HeldPages
  <2> QED  BY Zenon, <2>1
<1>3. ASSUME NEW x \in pairs, NEW y \in pairs, f[x] = f[y] PROVE x = y
  <2>1. PICK c \in Clients, p \in Pages : x = <<c, p>> /\ p \in Held(c)
    BY Zenon, <1>0
  <2>2. PICK d \in Clients, q \in Pages : y = <<d, q>> /\ q \in Held(d)
    BY Zenon, <1>0
  <2>3. p = q
    BY Zenon, <1>3, <2>1, <2>2
  <2>4. c = d
    BY Zenon, <2>1, <2>2, <2>3 DEF NoSharedPage
  <2> QED  BY Zenon, <2>1, <2>2, <2>3, <2>4
<1>4. ASSUME NEW p \in HeldPages PROVE \E x \in pairs : f[x] = p
  <2>1. PICK c \in Clients : p \in Pages /\ p \in Held(c)
    BY Zenon DEF HeldPages
  <2>2. <<c, p>> \in pairs
    BY Zenon, <2>1
  <2> QED  BY Zenon, <2>2
<1> HIDE DEF pairs, f
<1>5. f \in FS!Injection(pairs, HeldPages) /\ f \in FS!Surjection(pairs, HeldPages)
  BY Zenon, <1>2, <1>3, <1>4 DEF FS!Injection, FS!IsInjective, FS!Surjection
<1>6. Cardinality(pairs) = Cardinality(HeldPages)
  BY Zenon, SameSets, <1>1, <1>5, FS!FS_Injection
<1> QED  BY Zenon, <1>1, <1>6 DEF pairs

(* No page of the memory map is ever lost or made, through every sequence of *)
(* allocations and releases: those that are free or held are exactly the     *)
(* whole pages of the regions that ParseMemoryInfo keeps, and what is free   *)
(* and what is held add up to what was available at boot.                    *)
THEOREM PagesAreNeverLost ==
  ASSUME TopPageReserved
  PROVE  Spec => []NoPageIsLost
<1>1. IInv => NoPageIsLost
  <2> SUFFICES ASSUME IInv, phase # "reset"
               PROVE  NoPageIsLost
    BY Zenon DEF NoPageIsLost
  <2>1. ASSUME NEW p \in Pages
        PROVE  (p \in FreePages \/ \E c \in Clients : p \in Held(c))
                 <=> \E i \in DOMAIN info : Kept(info[i]) /\ Inside(p, info[i])
    <3>1. p \in FreeAtBoot(info) <=> \E i \in DOMAIN info : p \in PagesOf(info[i])
      BY Zenon DEF FreeAtBoot
    <3>2. \A i \in DOMAIN info : p \in PagesOf(info[i]) <=> Kept(info[i]) /\ Inside(p, info[i])
      BY Zenon, RegionsOfInfo, AvailableIsInside, InsideIsAvailable DEF IInv
    <3>3. p \in FreeAtBoot(info) <=> p \in FreePages \/ \E c \in Clients : p \in Held(c)
      BY Zenon, FreeOrHeld DEF HeldPages
    <3> QED  BY Zenon, <3>1, <3>2, <3>3
  <2>2. GetAvailableSize + PAGE_SIZE * Cardinality({x \in Clients \X Pages : x[2] \in Held(x[1])})
          = PAGE_SIZE * Cardinality(FreeAtBoot(info))
    <3>1. IsFiniteSet(HeldPages)
          /\ Cardinality({x \in Clients \X Pages : x[2] \in Held(x[1])}) = Cardinality(HeldPages)
      BY Zenon, HeldPairs DEF IInv
    <3>2. IsFiniteSet(FreePages)
      <4>1. IsFiniteSet(Pages)
        BY Zenon, PagesAreFinite, FiniteSetFactsHold
      <4> QED  BY Zenon, SameSets, <4>1, FS!FS_Subset DEF FreePages
    <3>3. Cardinality(FreeAtBoot(info)) = Cardinality(FreePages) + Cardinality(HeldPages)
      <4>1. Cardinality(FreePages \cup HeldPages)
              = Cardinality(FreePages) + Cardinality(HeldPages) - Cardinality({})
        BY Zenon, <3>1, <3>2, FreeOrHeld, DisjointUnion
      <4>2. Cardinality({}) = 0 /\ Cardinality(FreePages) \in Nat /\ Cardinality(HeldPages) \in Nat
        BY Zenon, SameSets, <3>1, <3>2, FS!FS_EmptySet, FS!FS_CardinalityType
      <4>3. FreePages \cup HeldPages = FreeAtBoot(info)
        BY Zenon, FreeOrHeld
      <4>4. Cardinality(FreeAtBoot(info)) = Cardinality(FreePages) + Cardinality(HeldPages) - 0
        BY <4>1, <4>2, <4>3, ZenonT(30)
      <4> QED  BY Zenon, <4>2, <4>4, Distributes
    <3>5. Cardinality(FreePages) \in Nat /\ Cardinality(HeldPages) \in Nat /\ PAGE_SIZE \in Nat
      BY Zenon, SameSets, <3>1, <3>2, FS!FS_CardinalityType, SizesAssumption
    <3>6. PAGE_SIZE * Cardinality(FreePages) + PAGE_SIZE * Cardinality(HeldPages)
            = PAGE_SIZE * (Cardinality(FreePages) + Cardinality(HeldPages))
      BY Zenon, <3>5, Distributes
    <3> QED  BY Zenon, <3>1, <3>3, <3>6 DEF GetAvailableSize
  <2> QED  BY ZenonT(30), <2>1, <2>2 DEF NoPageIsLost
<1> QED  BY <1>1, InitIInv, NextIInv, PTL DEF Spec
===============================================================================
