-------------------------------- MODULE Paging --------------------------------
(***************************************************************************)
(* InitMemory of KernelMain.cpp with BuildIdentityMap2M of Paging.cpp, on  *)
(* top of PageAllocator: the memory map is parsed, the page tables take    *)
(* their pages from the allocator, CR3 is loaded, and from then on other   *)
(* callers take and release pages and write to the pages they hold, and    *)
(* operator new of NewDelete.cpp to the end of the page before them.  The  *)
(* constants of Paging.cpp are parameters; addresses are in bytes.         *)
(***************************************************************************)
EXTENDS PageAllocator, FiniteSetsExt

CONSTANTS
  PAGE_2M,          \* bytes in a large page
  ENTIRIES,         \* entries of a table
  ReservedInfos     \* the sets of reserved regions that a memory map may have

(* The tables are clients of the allocator: 0 is pml4, 1 is pdpt, and 2 + g  *)
(* is the page directory of GiB g.                                           *)
Tables == 0 .. ENTIRIES + 1
Callers == Clients \ Tables

ASSUME PagingAssumption ==
  /\ ENTIRIES \in Nat \ {0} /\ PAGE_2M \in Nat \ {0} /\ PAGE_2M % PAGE_SIZE = 0
  /\ \A rs \in ReservedInfos : rs \subseteq Region /\ IsFiniteSet(rs)
  /\ Tables \subseteq Clients

VARIABLES
  ReservedMemory,   \* the other part of MemoryInfo
  mem,              \* what is in each page, as a table
  pc,               \* where BuildIdentityMap2M is, or "panic": operator new had no page
  pml4, pdpt, g,
  cr3

tableVars == <<ReservedMemory, mem, pc, pml4, pdpt, g, cr3>>
allVars == <<vars, tableVars>>

PAGE_1G == ENTIRIES * PAGE_2M

(* An entry of a table: what page it points to.  Pages are not cleared, and  *)
(* what is in a new one is not known.                                        *)
Entry(kind, addr, cached) == [kind |-> kind, addr |-> addr, cached |-> cached]
Stale == Entry("stale", 0, FALSE)
Absent == Entry("absent", 0, FALSE)
Header == Entry("header", 0, FALSE)
Table(page) == Entry("table", page, TRUE)
Filled(entry) == [i \in 0 .. ENTIRIES - 1 |-> entry]

End(r) == r.Base + r.Length
Within(r) == r.Base .. End(r) - 1
FreeMemory == {info[i] : i \in DOMAIN info}

(* No region of a memory map is free and reserved. *)
InitPaging ==
  /\ Init
  /\ ReservedMemory \in ReservedInfos
  /\ \A f \in FreeMemory, r \in ReservedMemory : Within(f) \cap Within(r) = {}
  /\ mem = [p \in Pages |-> Filled(Stale)]
  /\ pc = "begin"
  /\ pml4 = NULL /\ pdpt = NULL /\ g = 0 /\ cr3 = NULL

AlignUp(addr, align) == ((addr + align - 1) \div align) * align

CalcMaxPhys == Max({0} \cup {End(r) : r \in FreeMemory \cup ReservedMemory})

\* Wrong form: the memory past the last whole page is left out.
LimRoundedDown == (CalcMaxPhys \div PAGE_2M) * PAGE_2M

lim == AlignUp(CalcMaxPhys, PAGE_2M)

gibCount == AlignUp(CalcMaxPhys, PAGE_1G) \div PAGE_1G

IsMMIORegion(phys) == \E r \in ReservedMemory : phys >= r.Base /\ phys < End(r)

(* What is at the page ptr points to; a null pointer is to page 0. *)
At(ptr) == IF ptr = NULL THEN 0 ELSE ptr

ParseMap ==
  /\ ParseMemoryInfo \/ InitEarlyPageAllocator
  /\ UNCHANGED tableVars

\* Wrong form: a map of just 512 GiB is refused.
BeginBelow ==
  /\ pc = "begin" /\ phase = "ready"
  /\ pc' = IF gibCount >= ENTIRIES THEN "failed" ELSE "pml4"
  /\ UNCHANGED <<vars, ReservedMemory, mem, pml4, pdpt, g, cr3>>

(* The MemoryInfo is not null: ParseMemoryInfo has read it. *)
Begin ==
  /\ pc = "begin" /\ phase = "ready"
  /\ pc' = IF gibCount > ENTIRIES THEN "failed" ELSE "pml4"
  /\ UNCHANGED <<vars, ReservedMemory, mem, pml4, pdpt, g, cr3>>

NewPML4 ==
  /\ pc = "pml4"
  /\ AllocatePage(0)
  /\ pml4' = result'.ptr
  /\ pc' = IF pml4' = NULL THEN "failed" ELSE "pdpt"
  /\ UNCHANGED <<ReservedMemory, mem, pdpt, g, cr3>>

(* The test that follows is of pml4 again: a null pdpt is entered. *)
NewPDPT ==
  /\ pc = "pdpt"
  /\ AllocatePage(1)
  /\ pdpt' = result'.ptr
  /\ mem' = [mem EXCEPT ![pml4][0] = Table(At(pdpt'))]
  /\ pc' = "pd"
  /\ UNCHANGED <<ReservedMemory, pml4, g, cr3>>

(* What the inner loop leaves in the page directory of GiB n. *)
Directory(n) ==
  [i \in 0 .. ENTIRIES - 1 |->
     LET phys == n * PAGE_1G + i * PAGE_2M
     IN  IF phys >= lim THEN Absent ELSE Entry("page", phys, ~IsMMIORegion(phys))]

NewPD ==
  /\ pc = "pd" /\ g < gibCount
  /\ AllocatePage(2 + g)
  /\ LET page == result'.ptr IN
       \/ /\ page = NULL
          /\ pc' = "failed"
          /\ UNCHANGED <<mem, g>>
       \/ /\ page # NULL
          /\ mem' = [mem EXCEPT ![page] = Directory(g), ![At(pdpt)][g] = Table(page)]
          /\ g' = g + 1
          /\ UNCHANGED pc
  /\ UNCHANGED <<ReservedMemory, pml4, pdpt, cr3>>

(* BuildIdentityMap2M returns true and InitMemory loads CR3. *)
LoadCR3 ==
  /\ pc = "pd" /\ g = gibCount
  /\ pc' = "done" /\ cr3' = pml4
  /\ UNCHANGED <<vars, ReservedMemory, mem, pml4, pdpt, g>>

(* InitMemory panics, or operator new. *)
PanicEx == pc \in {"failed", "panic"} /\ UNCHANGED allVars

(* A part of the kernel takes pages of the allocator or releases them, and   *)
(* writes to what it holds.                                                  *)
Call(c) ==
  /\ pc = "done"
  /\ AllocatePage(c) \/ (\E size \in Sizes : AllocatePages(c, size)) \/ FreePage(c) \/ FreePageSized(c)
  /\ mem' = [p \in Pages |-> IF p \in Held(c)' THEN Filled(Stale) ELSE mem[p]]
  /\ UNCHANGED <<ReservedMemory, pc, pml4, pdpt, g, cr3>>

(* operator new for an object that is sizeAlloc bytes with its header.  The  *)
(* header, "KMEM" and the number of pages, is as long as an entry of a table *)
(* and is the last one of the page before the block, whoever has that page.  *)
(* (No object is deleted: see RefPtr.)                                       *)
OperatorNew(c, sizeAlloc) ==
  /\ pc = "done" /\ sizeAlloc > 0
  /\ AllocatePages(c, sizeAlloc)
  /\ LET page == result'.ptr IN
       \/ /\ page = NULL
          /\ pc' = "panic"
          /\ UNCHANGED mem
       \/ /\ page # NULL
          /\ mem' = [p \in Pages |->
                       IF p \in Held(c)' THEN Filled(Stale)
                       ELSE IF p = page - 1 THEN [mem[p] EXCEPT ![ENTIRIES - 1] = Header]
                       ELSE mem[p]]
          /\ UNCHANGED pc
  /\ UNCHANGED <<ReservedMemory, pml4, pdpt, g, cr3>>

NextPaging ==
  \/ ParseMap \/ Begin \/ NewPML4 \/ NewPDPT \/ NewPD \/ LoadCR3 \/ PanicEx
  \/ \E c \in Callers : Call(c) \/ \E size \in Sizes : OperatorNew(c, size)

SpecPaging == InitPaging /\ [][NextPaging]_allVars
-------------------------------------------------------------------------------
(* Properties. *)

(* What the MMU makes of addr: the entry at the end of its walk. *)
Walk(addr) ==
  LET third  == mem[cr3][0]
      second == mem[third.addr][addr \div PAGE_1G]
  IN  IF third.kind # "table" \/ second.kind # "table" THEN Stale
      ELSE mem[second.addr][(addr % PAGE_1G) \div PAGE_2M]

(* A large page is not cached when it is all reserved, and cached when it    *)
(* has nothing reserved.                                                     *)
CachedAsReserved(addr, cached) ==
  LET bytes    == addr .. addr + PAGE_2M - 1
      reserved == {a \in bytes : \E r \in ReservedMemory : a \in Within(r)}
  IN  (reserved = bytes => ~cached) /\ (reserved = {} => cached)

(* The address whose entry is the last one of the last directory. *)
LastMapped == gibCount * PAGE_1G - PAGE_2M

(* From LoadCR3 on every page up to the end of the memory map is mapped to   *)
(* itself, the kernel and the tables with it, uncached where it is reserved  *)
(* and only there, and nothing above it in the GiBs that have a directory.   *)
(* In particular a null pdpt, which the code does not test for, is never put *)
(* in use.  Of all the entries the headers of operator new can overwrite     *)
(* just one, the last entry of the last directory, with which the last large *)
(* page of the last GiB is lost: the tables lie before all the pages that    *)
(* are handed out later.                                                     *)
MapIsIdentity ==
  pc \in {"done", "panic"} =>
    \A addr \in {a \in 0 .. gibCount * PAGE_1G - 1 : a % PAGE_2M = 0} :
      LET e == Walk(addr) IN
      \/ addr = LastMapped /\ e = Header
      \/ IF addr < AlignUp(CalcMaxPhys, PAGE_2M)
         THEN e.kind = "page" /\ e.addr = addr /\ CachedAsReserved(addr, e.cached)
         ELSE e.kind = "absent"

(* BuildIdentityMap2M fails only when there is more memory than one table of *)
(* directories can map, or not a page for each table.                        *)
FailsOnlyForCause ==
  pc = "failed" =>
    \/ CalcMaxPhys > ENTIRIES * PAGE_1G
    \/ Cardinality(FreeAtBoot(info)) < 2 + gibCount
===============================================================================
