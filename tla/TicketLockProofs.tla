--------------------------- MODULE TicketLockProofs ---------------------------
(***************************************************************************)
(* Mutual exclusion and the order of service, for any finite set of CPUs   *)
(* that is smaller than the range of the counters.                         *)
(***************************************************************************)
EXTENDS TicketLock, FiniteSetTheorems, TLAPS

Off(c) == Dist(Owner, t[c])

(* Each CPU in line has a ticket of its own between Owner and Next; the      *)
(* holder's is Owner.                                                        *)
Tickets ==
  /\ \A c \in InLine : Off(c) < Dist(Owner, Next)
  /\ \A c, d \in InLine : t[c] = t[d] => c = d
  /\ \A c \in CPUs : pc[c] = "held" => t[c] = Owner

(* The Owner that a TryLock has read is behind Owner, which is behind Next,  *)
(* and Next has not come round to it.                                        *)
Reads == \A c \in Trying : Dist(o[c], Owner) + Dist(Owner, Next) = Dist(o[c], Next)

Ahead == \A c \in InLine : ahead[c] = {d \in InLine : Off(d) < Off(c)}

IInv == TypeOK /\ NoTicketIsLost /\ Tickets /\ Reads /\ Ahead

(* Arithmetic on the ring of counter values. *)
LEMMA Ring ==
  ASSUME M > 0
  PROVE  /\ \A x \in Counter : Inc(x) \in Counter
         /\ \A a, b \in Counter : Dist(a, b) \in 0 .. M - 1
         /\ \A a, b \in Counter : Dist(a, b) = 0 <=> a = b
         /\ \A a, b \in Counter : Dist(a, b) < M - 1 => Dist(a, Inc(b)) = Dist(a, b) + 1
         /\ \A a, b \in Counter : Dist(a, b) = M - 1 <=> Inc(b) = a
         /\ \A a, b \in Counter : a # b => Dist(Inc(a), b) = Dist(a, b) - 1
         /\ \A a, b, c \in Counter : Dist(a, b) = Dist(a, c) <=> b = c
<1>1. M \in Nat
  BY CountersAssumption
<1> QED  BY <1>1 DEF Counter, Inc, Dist

LEMMA Positive == M \in Nat /\ M > 0
<1>1. Cardinality(CPUs) \in Nat
  BY CountersAssumption, FS_CardinalityType
<1> QED  BY <1>1, CountersAssumption

LEMMA InLineFinite ==
  /\ IsFiniteSet(InLine) /\ Cardinality(InLine) \in Nat
  /\ \A c \in CPUs : c \notin InLine => Cardinality(InLine) + 1 < M
<1>1. IsFiniteSet(InLine) /\ Cardinality(InLine) \in Nat
  BY CountersAssumption, FS_Subset, FS_CardinalityType DEF InLine
<1>2. ASSUME NEW c \in CPUs, c \notin InLine PROVE Cardinality(InLine) + 1 < M
  <2>1. InLine \cup {c} \subseteq CPUs
    BY DEF InLine
  <2>2. Cardinality(InLine \cup {c}) = Cardinality(InLine) + 1
    BY Zenon, <1>1, <1>2, FS_AddElement
  <2>3. Cardinality(InLine \cup {c}) <= Cardinality(CPUs)
    BY <2>1, CountersAssumption, FS_Subset
  <2>4. Cardinality(CPUs) \in Nat
    BY CountersAssumption, FS_CardinalityType
  <2> QED  BY <1>1, <2>2, <2>3, <2>4, CountersAssumption
<1> QED  BY <1>1, <1>2

LEMMA InitIInv == Init => IInv
<1> SUFFICES ASSUME Init PROVE IInv
  OBVIOUS
<1>1. InLine = {} /\ Trying = {}
  BY DEF Init, InLine, Trying
<1>2. TypeOK
  BY Positive DEF Init, TypeOK, Counter
<1>3. NoTicketIsLost
  BY <1>1, FS_EmptySet DEF NoTicketIsLost, Init, Dist
<1> QED  BY <1>1, <1>2, <1>3 DEF IInv, Tickets, Reads, Ahead, Init

(* A new ticket, from Lock or from TryLock. *)
LEMMA TakeStep ==
  ASSUME IInv, NEW c \in CPUs, c \notin InLine, Take(c),
         NEW to \in {"spin", "held"}, Goto(c, to), to = "held" => Next = Owner
  PROVE  IInv'
<1> USE Positive, Ring
<1> DEFINE len == Dist(Owner, Next)
<1>1. /\ Next \in Counter /\ Owner \in Counter /\ Next' = Inc(Next) /\ Owner' = Owner
      /\ len \in Nat /\ len + 1 < M
      /\ Next' \in Counter /\ Dist(Owner', Next') = len + 1
  BY InLineFinite DEF IInv, TypeOK, NoTicketIsLost, Take
<1>2. /\ InLine' = InLine \cup {c} /\ Trying' = Trying \ {c}
      /\ \A d \in CPUs : pc'[d] = IF d = c THEN to ELSE pc[d]
  BY DEF IInv, TypeOK, Goto, InLine, Trying
<1>3. /\ \A d \in CPUs : t'[d] = IF d = c THEN Next ELSE t[d]
      /\ \A d \in CPUs : o'[d] = IF d = c THEN 0 ELSE o[d]
      /\ \A d \in CPUs : ahead'[d] = IF d = c THEN InLine ELSE ahead[d]
      /\ \A d \in CPUs : t[d] \in Counter /\ o[d] \in Counter
  BY DEF IInv, TypeOK, Take
<1>4. TypeOK'
  <2>1. InLine \in SUBSET CPUs /\ 0 \in Counter
    BY DEF InLine, Counter
  <2>2. pc' \in [CPUs -> {"out", "spin", "owner", "next", "held"}]
    BY DEF IInv, TypeOK, Goto
  <2>3. t' \in [CPUs -> Counter] /\ o' \in [CPUs -> Counter] /\ ahead' \in [CPUs -> SUBSET CPUs]
    BY <2>1, <1>1 DEF IInv, TypeOK, Take
  <2> QED  BY <1>1, <2>2, <2>3 DEF TypeOK
<1>5. NoTicketIsLost'
  <2>1. Cardinality(InLine \cup {c}) = Cardinality(InLine) + 1
    BY Zenon, InLineFinite, FS_AddElement
  <2> QED  BY <1>1, <1>2, <2>1 DEF IInv, NoTicketIsLost
<1>6. Off(c)' = len /\ \A d \in InLine : Off(d)' = Off(d) /\ Off(d) \in Nat /\ Off(d) < len
  <2>1. Off(c)' = len
    BY <1>1, <1>3 DEF Off
  <2>2. ASSUME NEW d \in InLine PROVE Off(d)' = Off(d) /\ Off(d) \in Nat /\ Off(d) < len
    <3>1. d \in CPUs /\ d # c
      BY DEF InLine
    <3>2. t'[d] = t[d] /\ t[d] \in Counter
      BY <1>3, <3>1
    <3>3. Off(d)' = Off(d)
      BY <1>1, <3>2 DEF Off
    <3>4. Off(d) \in Nat
      BY <1>1, <3>2 DEF Off
    <3>5. Off(d) < len
      BY DEF IInv, Tickets
    <3> QED  BY <3>3, <3>4, <3>5
  <2> QED  BY <2>1, <2>2
<1>7. Tickets'
  <2>1. \A d \in InLine' : Off(d)' < len + 1
    BY <1>1, <1>2, <1>6
  <2>2. \A d, e \in InLine' : t'[d] = t'[e] => d = e
    <3>1. \A d \in InLine : t'[d] = t[d] /\ t[d] # Next /\ d # c
      BY <1>1, <1>3, <1>6 DEF Off, InLine
    <3> QED  BY <1>2, <1>3, <3>1 DEF IInv, Tickets
  <2>3. \A d \in CPUs : pc'[d] = "held" => t'[d] = Owner'
    BY SMTT(20), <1>1, <1>2, <1>3 DEF IInv, Tickets
  <2> QED  BY <1>1, <2>1, <2>2, <2>3 DEF Tickets
<1>8. Reads'
  <2> SUFFICES ASSUME NEW d \in Trying, d # c
               PROVE  Dist(o[d], Owner) + Dist(Owner, Inc(Next)) = Dist(o[d], Inc(Next))
    BY <1>1, <1>2, <1>3 DEF Reads, Trying
  <2>1. o[d] \in Counter /\ Inc(Next) # o[d]
    BY <1>3 DEF Trying, Take, NoFullWrap
  <2>2. Dist(o[d], Next) < M - 1
    BY <1>1, <2>1
  <2>3. Dist(o[d], Inc(Next)) = Dist(o[d], Next) + 1
    BY <1>1, <2>1, <2>2
  <2> QED  BY <1>1, <2>1, <2>3 DEF IInv, Reads
<1>9. Ahead'
  <2>1. \A d \in InLine : ahead'[d] = ahead[d] /\ d # c
    BY Zenon, <1>3 DEF InLine
  <2>2. \A d \in InLine : {e \in InLine' : Off(e)' < Off(d)'} = {e \in InLine : Off(e) < Off(d)}
    BY <1>1, <1>2, <1>6
  <2>3. {e \in InLine' : Off(e)' < Off(c)'} = InLine
    BY <1>1, <1>2, <1>6
  <2> QED  BY <1>2, <1>3, <2>1, <2>2, <2>3 DEF IInv, Ahead
<1> QED  BY <1>4, <1>5, <1>7, <1>8, <1>9 DEF IInv

LEMMA UnlockStep ==
  ASSUME IInv, NEW c \in CPUs, Unlock(c)
  PROVE  IInv'
<1> USE Positive, Ring
<1> DEFINE len == Dist(Owner, Next)
<1>1. /\ c \in InLine /\ t[c] = Owner /\ pc[c] = "held" /\ Off(c) = 0
      /\ Next \in Counter /\ Owner \in Counter /\ Next' = Next /\ Owner' = Inc(Owner)
      /\ len \in Nat /\ len > 0 /\ Owner # Next
      /\ Owner' \in Counter /\ Dist(Owner', Next') = len - 1
  BY DEF IInv, TypeOK, Tickets, Unlock, InLine, Off
<1>2. /\ InLine' = InLine \ {c} /\ Trying' = Trying
      /\ \A d \in CPUs : pc'[d] = IF d = c THEN "out" ELSE pc[d]
  BY <1>1 DEF IInv, TypeOK, Unlock, Goto, InLine, Trying
<1>3. /\ \A d \in CPUs : t'[d] = IF d = c THEN 0 ELSE t[d]
      /\ o' = o
      /\ \A d \in CPUs : ahead'[d] = ahead[d] \ {c}
      /\ \A d \in CPUs : t[d] \in Counter /\ o[d] \in Counter
  BY DEF IInv, TypeOK, Unlock
<1>4. TypeOK'
  <2>1. pc' \in [CPUs -> {"out", "spin", "owner", "next", "held"}]
    BY DEF IInv, TypeOK, Unlock, Goto
  <2>2. 0 \in Counter
    BY DEF Counter
  <2> QED  BY Zenon, <1>1, <2>1, <2>2 DEF IInv, TypeOK, Unlock
<1>5. NoTicketIsLost'
  <2>1. Cardinality(InLine \ {c}) = Cardinality(InLine) - 1
    BY Zenon, <1>1, InLineFinite, FS_RemoveElement
  <2> QED  BY <1>1, <1>2, <2>1 DEF IInv, NoTicketIsLost
<1>6. \A d \in InLine' : /\ d \in InLine /\ d # c /\ t'[d] = t[d] /\ t[d] # Owner
                         /\ Off(d)' = Off(d) - 1 /\ Off(d) \in Nat /\ Off(d) > 0
  <2> SUFFICES ASSUME NEW d \in InLine, d # c
               PROVE  /\ t'[d] = t[d] /\ t[d] # Owner
                      /\ Off(d)' = Off(d) - 1 /\ Off(d) \in Nat /\ Off(d) > 0
    BY <1>2
  <2>1. d \in CPUs /\ t'[d] = t[d] /\ t[d] \in Counter /\ t[d] # Owner
    BY <1>1, <1>3 DEF InLine, IInv, Tickets
  <2> QED  BY <1>1, <2>1 DEF Off
<1>7. Tickets'
  <2>1. \A d \in InLine' : Off(d)' < len - 1
    BY <1>1, <1>6 DEF IInv, Tickets
  <2>2. \A d, e \in InLine' : t'[d] = t'[e] => d = e
    BY <1>6 DEF IInv, Tickets
  <2>3. \A d \in CPUs : pc'[d] # "held"
    BY Zenon, <1>1, <1>2 DEF IInv, Tickets, InLine
  <2> QED  BY <1>1, <2>1, <2>2, <2>3 DEF Tickets
<1>8. Reads'
  <2> SUFFICES ASSUME NEW d \in Trying
               PROVE  Dist(o[d], Inc(Owner)) + Dist(Inc(Owner), Next) = Dist(o[d], Next)
    BY <1>1, <1>2, <1>3 DEF Reads
  <2>1. o[d] \in Counter /\ Dist(o[d], Owner) + len = Dist(o[d], Next)
    BY <1>3 DEF Trying, IInv, Reads
  <2>2. Dist(o[d], Owner) < M - 1
    BY <1>1, <2>1
  <2>3. Dist(o[d], Inc(Owner)) = Dist(o[d], Owner) + 1
    BY <1>1, <2>1, <2>2
  <2> QED  BY <1>1, <2>1, <2>3
<1>9. Ahead'
  <2> SUFFICES ASSUME NEW d \in InLine'
               PROVE  ahead'[d] = {e \in InLine' : Off(e)' < Off(d)'}
    BY DEF Ahead
  <2>1. ahead'[d] = {e \in InLine : Off(e) < Off(d)} \ {c}
    BY <1>3, <1>6 DEF IInv, Ahead, InLine
  <2>2. \A e \in InLine \ {c} : Off(e)' < Off(d)' <=> Off(e) < Off(d)
    BY <1>2, <1>6
  <2> QED  BY <1>2, <2>1, <2>2
<1> QED  BY <1>4, <1>5, <1>7, <1>8, <1>9 DEF IInv

(* The steps that leave the counters alone. *)
LEMMA LocalStep ==
  ASSUME IInv, NEW c \in CPUs, Spin(c) \/ TryOwner(c) \/ TryNext(c)
  PROVE  IInv'
<1> USE Positive, Ring
<1>1. /\ Next' = Next /\ Owner' = Owner /\ t' = t /\ ahead' = ahead
      /\ Owner \in Counter /\ Next \in Counter /\ 0 \in Counter
  <2>1. Next' = Next /\ Owner' = Owner /\ t' = t /\ ahead' = ahead
    BY Zenon DEF Spin, TryOwner, TryNext
  <2>2. 0 \in Counter
    BY DEF Counter
  <2> QED  BY <2>1, <2>2 DEF IInv, TypeOK
<1>2. TypeOK'
  <2>1. pc' \in [CPUs -> {"out", "spin", "owner", "next", "held"}]
    BY Zenon DEF IInv, TypeOK, Spin, TryOwner, TryNext, Goto
  <2>2. o' \in [CPUs -> Counter]
    <3>1. o \in [CPUs -> Counter]
      BY DEF IInv, TypeOK
    <3>2. \E x \in Counter : o' = o \/ o' = [o EXCEPT ![c] = x]
      BY <1>1, Zenon DEF Spin, TryOwner, TryNext
    <3> QED  BY <3>1, <3>2
  <2> QED  BY <1>1, <2>1, <2>2 DEF IInv, TypeOK
<1>3. InLine' = InLine /\ Trying' \subseteq Trying \cup {c}
  BY SMTT(20) DEF IInv, TypeOK, Spin, TryOwner, TryNext, Goto, InLine, Trying
<1>4. \A d \in CPUs : Off(d)' = Off(d)
  BY <1>1 DEF Off
<1>5. \A d \in CPUs : pc'[d] = "held" => t[d] = Owner
  BY DEF IInv, TypeOK, Tickets, Spin, TryOwner, TryNext, Goto
<1>6. NoTicketIsLost' /\ Tickets' /\ Ahead'
  <2>1. NoTicketIsLost'
    BY <1>1, <1>3 DEF IInv, NoTicketIsLost
  <2>2. Tickets'
    BY <1>1, <1>3, <1>4, <1>5 DEF IInv, Tickets, InLine
  <2>3. InLine \subseteq CPUs
    BY DEF InLine
  <2>4. Ahead'
    BY <1>1, <1>3, <1>4, <2>3 DEF IInv, Ahead
  <2> QED  BY <2>1, <2>2, <2>4
<1>7. Reads'
  <2> SUFFICES ASSUME NEW d \in Trying'
               PROVE  Dist(o'[d], Owner) + Dist(Owner, Next) = Dist(o'[d], Next)
    BY <1>1 DEF Reads
  <2>1. CASE TryOwner(c) /\ d = c
    <3>1. o'[d] = Owner
      BY <2>1 DEF TryOwner, IInv, TypeOK
    <3> QED  BY <1>1, <3>1
  <2>2. CASE ~(TryOwner(c) /\ d = c)
    <3>1. o'[d] = o[d] /\ d \in Trying
      BY <2>2 DEF IInv, TypeOK, Spin, TryOwner, TryNext, Goto, Trying
    <3> QED  BY <1>1, <3>1 DEF IInv, Reads
  <2> QED  BY <2>1, <2>2
<1> QED  BY <1>2, <1>6, <1>7 DEF IInv

LEMMA LockStep ==
  ASSUME IInv, NEW c \in CPUs, Lock(c)
  PROVE  IInv'
<1>1. c \notin InLine
  BY DEF Lock, InLine
<1> QED  BY <1>1, TakeStep DEF Lock

(* The exchange succeeds only on a free lock: Next is the Owner that was     *)
(* read, and Owner lies between the two.                                     *)
LEMMA TryExchangeStep ==
  ASSUME IInv, NEW c \in CPUs, TryExchange(c)
  PROVE  IInv'
<1> USE Positive, Ring
<1>1. c \notin InLine /\ c \in Trying
  BY DEF TryExchange, InLine, Trying
<1>2. CASE Next = o[c] /\ Goto(c, "held") /\ Take(c)
  <2>1. Next \in Counter /\ Owner \in Counter /\ o[c] \in Counter
    BY DEF IInv, TypeOK
  <2>2. Dist(o[c], Owner) + Dist(Owner, Next) = 0
    BY <1>1, <1>2, <2>1 DEF IInv, Reads
  <2>3. Next = Owner
    BY <2>1, <2>2
  <2> QED  BY <1>1, <1>2, <2>3, TakeStep
<1>3. CASE /\ Next # o[c] /\ Goto(c, "out") /\ o' = [o EXCEPT ![c] = 0]
           /\ UNCHANGED <<Next, Owner, t, ahead>>
  <2>1. 0 \in Counter
    BY DEF Counter
  <2>2. TypeOK'
    BY <1>3, <2>1 DEF IInv, TypeOK, Goto
  <2>3. /\ InLine' = InLine /\ Trying' = Trying \ {c}
        /\ \A d \in CPUs : pc'[d] = "held" => pc[d] = "held"
    BY <1>1, <1>3 DEF IInv, TypeOK, Goto, InLine, Trying
  <2>4. \A d \in CPUs : Off(d)' = Off(d)
    BY <1>3 DEF Off
  <2>5. InLine \subseteq CPUs /\ Trying \subseteq CPUs
    BY DEF InLine, Trying
  <2>6. Tickets' /\ NoTicketIsLost'
    BY <1>3, <2>3, <2>4, <2>5 DEF IInv, Tickets, NoTicketIsLost
  <2>7. Ahead'
    BY <1>3, <2>3, <2>4, <2>5 DEF IInv, Ahead
  <2>8. \A d \in Trying' : d \in Trying /\ o'[d] = o[d]
    BY <1>3, <2>3, <2>5 DEF IInv, TypeOK
  <2>9. Reads'
    BY <1>3, <2>8 DEF IInv, Reads
  <2> QED  BY <2>2, <2>6, <2>7, <2>9 DEF IInv
<1> QED  BY <1>2, <1>3 DEF TryExchange

LEMMA NextIInv ==
  ASSUME IInv, [NextStep]_vars
  PROVE  IInv'
<1>1. CASE UNCHANGED vars
  BY <1>1 DEF vars, IInv, TypeOK, NoTicketIsLost, Tickets, Reads, Ahead, InLine, Trying, Off
<1> QED  BY <1>1, LockStep, LocalStep, TryExchangeStep, UnlockStep DEF NextStep, Step

LEMMA AlwaysIInv == Spec => []IInv
BY InitIInv, NextIInv, PTL DEF Spec
-------------------------------------------------------------------------------
(* Two holders would have the same ticket. *)
LEMMA Exclusive == IInv => MutualExclusion
BY DEF IInv, Tickets, InLine, MutualExclusion

(* Lock, TryLock and Unlock exclude one another's holders. *)
THEOREM LockExcludes == Spec => []MutualExclusion
BY Exclusive, AlwaysIInv, PTL

(* The lock is handed over in the order of the tickets. *)
THEOREM LockIsFair == Spec => []FirstComeFirstServed
<1>1. IInv => FirstComeFirstServed
  <2> SUFFICES ASSUME IInv, NEW c \in CPUs, pc[c] = "held" PROVE ahead[c] = {}
    BY DEF FirstComeFirstServed
  <2>1. c \in InLine /\ Off(c) = 0
    BY Positive, Ring DEF IInv, TypeOK, Tickets, InLine, Off
  <2>2. \A d \in InLine : ~(Off(d) < 0)
    BY Positive, Ring DEF IInv, TypeOK, InLine, Off
  <2> QED  BY <2>1, <2>2 DEF IInv, Ahead
<1> QED  BY <1>1, AlwaysIInv, PTL

(* The counters account for every CPU in line. *)
THEOREM TicketsAreNeverLost == Spec => []NoTicketIsLost
<1>1. IInv => NoTicketIsLost
  BY DEF IInv
<1> QED  BY <1>1, AlwaysIInv, PTL

(* The counters stay within their width and the tickets with them. *)
THEOREM TypeCorrect == Spec => []TypeOK
<1>1. IInv => TypeOK
  BY DEF IInv
<1> QED  BY <1>1, AlwaysIInv, PTL
===============================================================================
