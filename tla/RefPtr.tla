-------------------------------- MODULE RefPtr --------------------------------
(***************************************************************************)
(* RefPtr.hpp and RefCountedBase.hpp: reference-counted kernel objects,    *)
(* the smart pointers that hold them, and the plain references that new    *)
(* and QueryInterface hand out with a count of their own.                  *)
(***************************************************************************)
EXTENDS Integers, FiniteSets

CONSTANTS
  Objects, Pointers,   \* the objects that can be made and the RefPtr variables
  nullptr,
  MaxPlain             \* bound: plain references held to one object

ASSUME RefPtrAssumption ==
  IsFiniteSet(Pointers) /\ nullptr \notin Objects /\ MaxPlain \in Nat

VARIABLES
  m_RefCount,   \* the count of each object; 0 before it is made and once deleted
  made,         \* the objects that have been made
  deleted,      \* those on which delete has been called, with how often
  m_Ptr,        \* what each RefPtr holds
  plain         \* auxiliary: plain references that own a count

refVars == <<m_RefCount, made, deleted, m_Ptr, plain>>

RefInit ==
  /\ m_RefCount = [x \in Objects |-> 0]
  /\ made = {}
  /\ deleted = [x \in Objects |-> 0]
  /\ m_Ptr = [r \in Pointers |-> nullptr]
  /\ plain = [x \in Objects |-> 0]

AddRef(count, a) == [x \in Objects |-> IF x = a THEN count[x] + 1 ELSE count[x]]

(* Release: the count after it, and delete when it was 1. *)
Drop(count, b) == [x \in Objects |-> IF x = b THEN count[x] - 1 ELSE count[x]]

DeleteIfLast(b) ==
  deleted' = [x \in Objects |->
                IF x = b /\ m_RefCount[x] = 1 THEN deleted[x] + 1 ELSE deleted[x]]

Release(b) == m_RefCount' = Drop(m_RefCount, b) /\ DeleteIfLast(b)

Set(r, v) == m_Ptr' = [m_Ptr EXCEPT ![r] = v]

(* new T: the count starts at 1, for the plain pointer that new returns. *)
New(x) ==
  /\ x \notin made /\ made' = made \cup {x}
  /\ m_RefCount' = [m_RefCount EXCEPT ![x] = 1]
  /\ plain' = [plain EXCEPT ![x] = 1]
  /\ UNCHANGED <<deleted, m_Ptr>>

(* RefPtr of a plain pointer whose object is alive. *)
Construct(r, x) ==
  /\ m_Ptr[r] = nullptr /\ m_RefCount[x] > 0
  /\ Set(r, x)
  /\ m_RefCount' = AddRef(m_RefCount, x)
  /\ UNCHANGED <<made, deleted, plain>>

(* RefPtr(const RefPtr&) *)
Copy(r, v) ==
  /\ r # v /\ m_Ptr[r] = nullptr
  /\ Set(r, m_Ptr[v])
  /\ m_RefCount' = AddRef(m_RefCount, m_Ptr[v])
  /\ UNCHANGED <<made, deleted, plain>>

(* RefPtr(RefPtr&&) *)
Move(r, v) ==
  /\ r # v /\ m_Ptr[r] = nullptr
  /\ m_Ptr' = [m_Ptr EXCEPT ![r] = m_Ptr[v], ![v] = nullptr]
  /\ UNCHANGED <<m_RefCount, made, deleted, plain>>

(* ~RefPtr *)
Destroy(r) ==
  /\ m_Ptr[r] # nullptr
  /\ Set(r, nullptr)
  /\ Release(m_Ptr[r])
  /\ UNCHANGED <<made, plain>>

\* Wrong form: the new object is not counted.
CopyAssignUncounted(r, v) ==
  /\ r # v
  /\ Set(r, m_Ptr[v])
  /\ Release(m_Ptr[r])
  /\ UNCHANGED <<made, plain>>

(* operator=(const RefPtr&): the old object is released first. *)
CopyAssign(r, v) ==
  /\ r # v
  /\ Set(r, m_Ptr[v])
  /\ m_RefCount' = AddRef(Drop(m_RefCount, m_Ptr[r]), m_Ptr[v])
  /\ DeleteIfLast(m_Ptr[r])
  /\ UNCHANGED <<made, plain>>

(* operator=(RefPtr&&) *)
MoveAssign(r, v) ==
  /\ r # v
  /\ m_Ptr' = [m_Ptr EXCEPT ![r] = m_Ptr[v], ![v] = nullptr]
  /\ Release(m_Ptr[r])
  /\ UNCHANGED <<made, plain>>

(* QueryInterface with an interface the object has. *)
QueryInterface(r) ==
  LET x == m_Ptr[r] IN
  /\ x # nullptr /\ plain[x] < MaxPlain
  /\ m_RefCount' = AddRef(m_RefCount, x)
  /\ plain' = [plain EXCEPT ![x] = @ + 1]
  /\ UNCHANGED <<made, deleted, m_Ptr>>

(* Release by the holder of a plain reference. *)
ReleasePlain(x) ==
  /\ plain[x] > 0 /\ plain' = [plain EXCEPT ![x] = @ - 1]
  /\ Release(x)
  /\ UNCHANGED <<made, m_Ptr>>

RefNext ==
  \/ \E x \in Objects :
       New(x) \/ ReleasePlain(x) \/ \E r \in Pointers : Construct(r, x)
  \/ \E r, v \in Pointers : Copy(r, v) \/ Move(r, v) \/ CopyAssign(r, v) \/ MoveAssign(r, v)
  \/ \E r \in Pointers : Destroy(r) \/ QueryInterface(r)

RefSpec == RefInit /\ [][RefNext]_refVars
-------------------------------------------------------------------------------
(* Properties. *)

Holders(x) == {r \in Pointers : m_Ptr[r] = x}

(* An object is deleted once, when nothing holds it any more, and never      *)
(* before: no RefPtr is left with an object that is gone.  Until then its    *)
(* count is the number of pointers that hold it and of plain references to   *)
(* it, through every copy, move and assignment.  The plain reference of new  *)
(* counts as well, so that RefPtr(new T) alone never lets its object go.     *)
DeletedExactlyWhenUnheld ==
  \A x \in Objects :
    /\ m_RefCount[x] = Cardinality(Holders(x)) + plain[x]
    /\ deleted[x] = IF x \in made /\ Holders(x) = {} /\ plain[x] = 0 THEN 1 ELSE 0
===============================================================================
