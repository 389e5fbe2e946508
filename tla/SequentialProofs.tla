--------------------------- MODULE SequentialProofs ---------------------------
(***************************************************************************)
(* Proofs about the parts that one caller at a time uses: the loops over   *)
(* the bitmap (Bitmap), the frame buffer console (Console) and the linked  *)
(* list of threads (RunQueue).                                             *)
(***************************************************************************)
EXTENDS Bitmap, Console, FiniteSets, TLAPS

-------------------------------------------------------------------------------
(* Bitmap: the scan of FindAvailableAddress is first fit, for every width of *)
(* a byte, length of the array, content of the bitmap and requested length.  *)

(* What the scan knows after i bits: the last `run` of them are clear, the  *)
(* one before those is set, and no run of the requested length ends so far. *)
ScanInv ==
  pc = "find" =>
    /\ call.op = "Find" /\ call.length > 0
    /\ i <= ScanTotal /\ run <= i /\ run < call.length
    /\ \A q \in i - run .. i - 1 : Clear(q)
    /\ i - run > 0 => ~Clear(i - run - 1)
    /\ \A p \in Pages : p + call.length <= i => ~FitsAt(p, call.length)

(* The inductive invariant. *)
FindInv ==
  /\ call \in Calls
  /\ pc \in {"call", "set", "find", "done"}
  /\ i \in Nat /\ run \in Nat
  /\ call.op = "Find" => pc # "set" /\ (pc = "call" => i = 0 /\ run = 0)
  /\ ScanInv
  /\ FindIsFirstFit

LEMMA ScanTotalType == ScanTotal \in Nat /\ ScanTotal > 0
<1>1. \A a, b \in Nat \ {0} : (a + 1) * b \in Nat /\ (a + 1) * b > 0
  OBVIOUS
<1> QED  BY <1>1, BitmapAssumption DEF ScanTotal, size

LEMMA CallType ==
  ASSUME call \in Calls
  PROVE  /\ call.op \in {"SetBitRange", "Find", "AllocatePage"}
         /\ call.first \in Nat /\ call.length \in Nat /\ call.flag \in {0, 1}
BY BitmapAssumption, ScanTotalType DEF Calls

(* One iteration of the loop keeps what the scan knows. *)
LEMMA FindStepInv ==
  ASSUME FindInv, FindStep
  PROVE  FindInv'
<1> USE CallType, ScanTotalType
<1>0. /\ pc = "find" /\ i < ScanTotal /\ data' = data /\ call' = call
      /\ call \in Calls /\ i \in Nat /\ run \in Nat
      /\ call.op = "Find" /\ call.length \in Nat \ {0}
      /\ run <= i /\ run < call.length
  BY DEF FindStep, Return, FindInv, ScanInv
<1>1. \A q : Clear(q)' = Clear(q)
  BY <1>0 DEF Clear, BitOf
<1>2. \A p, n : FitsAt(p, n)' = FitsAt(p, n)
  BY <1>1 DEF FitsAt, Run, Pages, ScanTotal, size
<1>3. /\ \A q \in i - run .. i - 1 : Clear(q)
      /\ i - run > 0 => ~Clear(i - run - 1)
      /\ \A p \in Pages : p + call.length <= i => ~FitsAt(p, call.length)
  BY <1>0 DEF FindInv, ScanInv
<1>4. ASSUME Clear(i), run + 1 = call.length, pc' = "done", i' = i, run' = run,
             result' = i - (call.length - 1)
      PROVE  FindInv'
  <2>1. i - (call.length - 1) \in Pages
    BY <1>0, <1>4 DEF Pages
  <2>2. FitsAt(i - (call.length - 1), call.length)
    <3>1. ASSUME NEW q \in Run(i - (call.length - 1), call.length)
          PROVE  q \in Pages /\ Clear(q)
      <4>1. q \in Int /\ i - run <= q /\ q <= i /\ q \in Pages
        BY <1>0, <1>4 DEF Run, Pages
      <4>2. q = i \/ q \in i - run .. i - 1
        BY <1>0, <4>1
      <4> QED  BY <1>3, <1>4, <4>1, <4>2
    <3> QED  BY <3>1 DEF FitsAt
  <2>3. \A p \in Pages : p < i - (call.length - 1) => ~FitsAt(p, call.length)
    BY <1>0, <1>3, <1>4 DEF Pages
  <2>4. result' # NULL
    BY <1>0, <1>4, BitmapAssumption
  <2>5. FindIsFirstFit'
    BY <1>0, <1>2, <1>4, <2>1, <2>2, <2>3, <2>4 DEF FindIsFirstFit, Pages, ScanTotal, size
  <2> QED  BY <1>0, <1>4, <2>5 DEF FindInv, ScanInv
<1>5. ASSUME Clear(i), run + 1 # call.length, pc' = pc, i' = i + 1, run' = run + 1
      PROVE  FindInv'
  <2>1. \A q \in i' - run' .. i' - 1 : Clear(q)
    BY <1>0, <1>3, <1>5
  <2>2. i' - run' > 0 => ~Clear(i' - run' - 1)
    BY <1>0, <1>3, <1>5
  <2>3. ASSUME NEW p \in Pages, p + call.length <= i + 1
        PROVE  ~FitsAt(p, call.length)
    <3>1. CASE p + call.length <= i
      BY <1>3, <3>1
    <3>2. CASE p + call.length = i + 1
      <4>1. i - run > 0 /\ i - run - 1 \in Run(p, call.length)
        BY <1>0, <1>5, <3>2 DEF Pages, Run
      <4> QED  BY <1>3, <4>1 DEF FitsAt
    <3> QED  BY <1>0, <2>3, <3>1, <3>2 DEF Pages
  <2>4. ScanInv'
    BY <1>0, <1>1, <1>2, <1>5, <2>1, <2>2, <2>3 DEF ScanInv, Pages, ScanTotal, size
  <2> QED  BY <1>0, <1>5, <2>4 DEF FindInv, FindIsFirstFit
<1>6. ASSUME ~Clear(i), pc' = pc, i' = i + 1, run' = 0
      PROVE  FindInv'
  <2>1. ASSUME NEW p \in Pages, p + call.length <= i + 1
        PROVE  ~FitsAt(p, call.length)
    <3>1. CASE p + call.length <= i
      BY <1>3, <3>1
    <3>2. CASE p + call.length = i + 1
      <4>1. i \in Run(p, call.length)
        BY <1>0, <3>2 DEF Pages, Run
      <4> QED  BY <1>6, <4>1 DEF FitsAt
    <3> QED  BY <1>0, <2>1, <3>1, <3>2 DEF Pages
  <2>2. ScanInv'
    BY <1>0, <1>1, <1>2, <1>6, <2>1 DEF ScanInv, Pages, ScanTotal, size
  <2> QED  BY <1>0, <1>6, <2>2 DEF FindInv, FindIsFirstFit
<1> QED  BY <1>4, <1>5, <1>6 DEF FindStep, Return

(* Leaving the loop without a hit: every start was refuted. *)
LEMMA FindExitInv ==
  ASSUME FindInv, FindExit
  PROVE  FindInv'
<1> USE CallType, ScanTotalType
<1>1. /\ pc = "find" /\ i = ScanTotal /\ pc' = "done" /\ result' = NULL
      /\ UNCHANGED <<data, call, run, i>>
      /\ call.length \in Nat \ {0}
  BY DEF FindExit, Return, FindInv, ScanInv
<1>2. ASSUME NEW p \in Pages PROVE ~FitsAt(p, call.length)
  <2>1. CASE p + call.length <= i
    BY <1>1, <2>1 DEF FindInv, ScanInv
  <2>2. CASE p + call.length > i
    <3>1. p + call.length - 1 \in Run(p, call.length) /\ p + call.length - 1 \notin Pages
      BY <1>1, <2>2 DEF Run, Pages
    <3> QED  BY <3>1 DEF FitsAt
  <2> QED  BY <1>1, <2>1, <2>2 DEF Pages
<1>3. \A q : Clear(q)' = Clear(q)
  BY <1>1 DEF Clear, BitOf
<1>4. \A p, n : FitsAt(p, n)' = FitsAt(p, n)
  BY <1>3 DEF FitsAt, Run, Pages, ScanTotal, size
<1> QED  BY <1>1, <1>2, <1>4 DEF FindInv, ScanInv, FindIsFirstFit, Pages, ScanTotal, size

(* Entering the loop, or returning at once because no run can be that long. *)
LEMMA FindEnterInv ==
  ASSUME FindInv, FindEnter
  PROVE  FindInv'
<1> USE CallType, ScanTotalType
<1>1. /\ pc = "call" /\ call.op = "Find" /\ i = 0 /\ run = 0 /\ call.length \in Nat
      /\ UNCHANGED <<data, call, run, i>>
  BY DEF FindEnter, Return, FindInv
<1>2. ASSUME NEW p \in Pages, call.length > 0, p + call.length <= 0 PROVE FALSE
  BY <1>1, <1>2 DEF Pages
<1>3. CASE ~(call.length = 0 \/ ScanTotal < call.length)
  <2>1. pc' = "find" /\ call.length > 0
    BY <1>1, <1>3 DEF FindEnter
  <2>2. ScanInv'
    BY <1>1, <1>2, <2>1 DEF ScanInv, Pages, ScanTotal, size
  <2> QED  BY <1>1, <2>1, <2>2 DEF FindInv, FindIsFirstFit
<1>4. CASE call.length = 0 \/ ScanTotal < call.length
  <2>1. pc' = "done" /\ result' = NULL
    BY <1>1, <1>4 DEF FindEnter, Return
  <2>2. ASSUME NEW p \in Pages, ScanTotal < call.length PROVE ~FitsAt(p, call.length)
    <3>1. ScanTotal \in Run(p, call.length) /\ ScanTotal \notin Pages
      BY <1>1, <2>2 DEF Run, Pages
    <3> QED  BY <3>1 DEF FitsAt
  <2>3. \A q : Clear(q)' = Clear(q)
    BY <1>1 DEF Clear, BitOf
  <2>4. \A p, n : FitsAt(p, n)' = FitsAt(p, n)
    BY <2>3 DEF FitsAt, Run, Pages, ScanTotal, size
  <2>5. FindIsFirstFit'
    BY <1>1, <1>4, <2>1, <2>2, <2>4 DEF FindIsFirstFit, Pages, ScanTotal, size
  <2> QED  BY <1>1, <2>1, <2>5 DEF FindInv, ScanInv
<1> QED  BY <1>3, <1>4

(* The other operations are not a Find. *)
LEMMA OtherStepsInv ==
  ASSUME FindInv,
         \/ SetBitRangeEnter \/ SetBitRangeStep \/ SetBitRangeExit
         \/ AllocatePageStep \/ Done \/ UNCHANGED vars
  PROVE  FindInv'
<1> USE CallType
<1>1. CASE SetBitRangeEnter \/ SetBitRangeStep \/ SetBitRangeExit
  BY <1>1 DEF FindInv, ScanInv, FindIsFirstFit, SetBitRangeEnter, SetBitRangeStep,
              SetBitRangeExit, Return
<1>2. CASE AllocatePageStep
  BY <1>2 DEF FindInv, ScanInv, FindIsFirstFit, AllocatePageStep, Return
<1>3. CASE Done \/ UNCHANGED vars
  BY <1>3 DEF Done, vars, FindInv, ScanInv, FindIsFirstFit, FitsAt, Clear, BitOf
<1> QED  BY <1>1, <1>2, <1>3

(* FindAvailableAddress returns the lowest run of the requested length among *)
(* the bits it scans, and nullptr exactly if there is none.                  *)
THEOREM FindIsFirstFitAlways == Spec => []FindIsFirstFit
<1>1. Init => FindInv
  BY CallType DEF Init, FindInv, ScanInv, FindIsFirstFit
<1>2. FindInv /\ [Next]_vars => FindInv'
  BY FindEnterInv, FindStepInv, FindExitInv, OtherStepsInv DEF Next
<1>3. FindInv => FindIsFirstFit
  BY DEF FindInv
<1> QED  BY <1>1, <1>2, <1>3, PTL DEF Spec

-------------------------------------------------------------------------------
(* Bitmap: SetBitRange and AllocatePage() change the bits they are to change *)
(* and no others, for every width of a byte and length of the array.         *)

(* What is used of the powers of two.  It is assumed until the end of the    *)
(* module, where it is proved.                                               *)
PowersOfTwo ==
  \A k, n \in Nat : 2^k \in Nat \ {0} /\ 2^(k + n) = 2^k * 2^n /\ 2^1 = 2

(* Division finds the only quotient that leaves a remainder below d. *)
LEMMA QuotientIsUnique ==
  ASSUME NEW v \in Int, NEW d \in Nat \ {0}, NEW q \in Int, NEW r \in 0 .. d - 1, v = d * q + r
  PROVE  v \div d = q
<1> DEFINE u == v \div d
<1>1. u \in Int /\ d * u <= v /\ v < d * u + d
  OBVIOUS
<1> HIDE DEF u
<1>2. d * u < d * (q + 1) /\ d * q < d * (u + 1)
  BY <1>1
<1>3. \A x, y \in Int : d * x < d * y => x < y
  OBVIOUS
<1>4. u < q + 1 /\ q < u + 1
  BY <1>1, <1>2, <1>3
<1> QED  BY <1>1, <1>4 DEF u

(* There is one. *)
LEMMA Quotient ==
  ASSUME NEW v \in Nat, NEW d \in Nat \ {0}
  PROVE  \E q \in Nat, r \in 0 .. d - 1 : v = d * q + r /\ v \div d = q
<1> DEFINE q == v \div d
           r == v - d * q
<1>1. q \in Nat /\ d * q \in Nat /\ d * q <= v /\ v < d * q + d
  OBVIOUS
<1> HIDE DEF q
<1>2. r \in 0 .. d - 1 /\ v = d * q + r
  BY <1>1
<1> QED  BY <1>1, <1>2 DEF q

(* Dividing by d and then by m divides by their product. *)
LEMMA QuotientOfQuotient ==
  ASSUME NEW v \in Nat, NEW d \in Nat \ {0}, NEW m \in Nat \ {0}
  PROVE  v \div (d * m) = (v \div d) \div m
<1>1. PICK q \in Nat, r \in 0 .. d - 1 : v = d * q + r /\ v \div d = q
  BY Zenon, Quotient
<1>2. PICK h \in Nat, s \in 0 .. m - 1 : q = m * h + s /\ q \div m = h
  BY Zenon, Quotient
<1>3. d * m \in Nat \ {0}
  OBVIOUS
<1>4. v = (d * m) * h + (d * s + r)
  BY <1>1, <1>2
<1>5. d * s + r \in 0 .. d * m - 1
  <2>1. d * s <= d * (m - 1) /\ d * (m - 1) = d * m - d /\ d * s \in Nat /\ d * m \in Nat
    OBVIOUS
  <2> QED  BY <2>1
<1>6. v \div (d * m) = h
  BY <1>3, <1>4, <1>5, QuotientIsUnique
<1> QED  BY <1>1, <1>2, <1>3, <1>6

(* A number is even or odd. *)
LEMMA Halves ==
  ASSUME NEW q \in Nat
  PROVE  \E h \in Nat, o \in {0, 1} : q = 2 * h + o /\ q % 2 = o /\ q \div 2 = h
<1>1. PICK h \in Nat, o \in 0 .. 2 - 1 : q = 2 * h + o /\ q \div 2 = h
  BY Quotient
<1>2. o \in {0, 1}
  OBVIOUS
<1>3. q % 2 = o
  BY <1>1, <1>2
<1> QED  BY Zenon, <1>1, <1>2, <1>3

(* Adding an even number does not change that. *)
LEMMA SameParity ==
  ASSUME NEW y \in Nat, NEW k \in Int
  PROVE  (y + 2 * k) % 2 = y % 2
OBVIOUS

(* Another multiple of d, the same remainder. *)
LEMMA OtherMultiple ==
  ASSUME NEW v, NEW d \in Int, NEW q \in Int, NEW r \in Int, NEW k \in Int, v = d * q + r
  PROVE  v + k * d = d * (q + k) + r
OBVIOUS

(* 2^bit of a smaller and of a larger bit differ by an even factor. *)
LEMMA EvenFactor ==
  ASSUME PowersOfTwo, NEW b \in Nat, NEW c \in Nat, b < c
  PROVE  \E m \in Nat \ {0} : 2^c = 2^b * (2 * m)
<1> DEFINE k == c - (b + 1)
<1>1. k \in Nat /\ b + 1 \in Nat /\ c = (b + 1) + k /\ 1 \in Nat
  OBVIOUS
<1> HIDE DEF k
<1>2. 2^c = 2^(b + 1) * 2^k /\ 2^(b + 1) = 2^b * 2^1 /\ 2^k \in Nat \ {0} /\ 2^1 = 2
  BY Zenon, <1>1 DEF PowersOfTwo
<1>3. 2^b \in Nat \ {0}
  BY DEF PowersOfTwo
<1>4. 2^c = 2^b * (2 * 2^k)
  BY <1>2, <1>3
<1> QED  BY Zenon, <1>2, <1>4

(* SetBit adds 2^bit, takes it away or does neither. *)
LEMMA SetBitAddsTheDifference ==
  ASSUME NEW v, NEW b, NEW flag, NEW o, Bit(v, b) = o, ~(b >= CHAR_BIT)
  PROVE  SetBit(v, b, flag) = v + (flag - o) * 2^b
BY DEF SetBit

(* SetBit gives the bit its value and no other bit another one. *)
LEMMA SetBitSetsOneBit ==
  ASSUME PowersOfTwo, NEW v \in Nat, NEW flag \in {0, 1},
         NEW b \in 0 .. CHAR_BIT - 1, NEW c \in 0 .. CHAR_BIT - 1
  PROVE  /\ SetBit(v, b, flag) \in Nat
         /\ Bit(SetBit(v, b, flag), c) = IF c = b THEN flag ELSE Bit(v, c)
<1> DEFINE d == 2^b
           e == 2^c
           w == SetBit(v, b, flag)
<1>0. b \in Nat /\ c \in Nat /\ ~(b >= CHAR_BIT) /\ ~(c >= CHAR_BIT)
  BY BitmapAssumption
<1>1. d \in Nat \ {0} /\ e \in Nat \ {0}
  BY <1>0 DEF PowersOfTwo
<1>2. /\ Bit(v, b) = (v \div d) % 2
      /\ \A u : Bit(u, c) = (u \div e) % 2
      /\ \A o : Bit(v, b) = o => w = v + (flag - o) * d
  <2>1. \A u : Bit(u, c) = (u \div e) % 2
    BY Zenon, <1>0 DEF Bit
  <2>2. Bit(v, b) = (v \div d) % 2
    BY Zenon, <1>0 DEF Bit
  <2>3. \A o : Bit(v, b) = o => w = v + (flag - o) * d
    BY Zenon, <1>0, SetBitAddsTheDifference
  <2> QED  BY Zenon, <2>1, <2>2, <2>3
<1>3. b < c => \E m \in Nat \ {0} : e = d * (2 * m)
  BY Zenon, <1>0, EvenFactor
<1>4. c < b => \E m \in Nat \ {0} : d = e * (2 * m)
  BY Zenon, <1>0, EvenFactor
<1> HIDE DEF d, e, w
<1>5. PICK q \in Nat, r \in 0 .. d - 1 : v = d * q + r /\ v \div d = q
  BY Zenon, <1>1, Quotient
<1>6. PICK h \in Nat, o \in {0, 1} : q = 2 * h + o /\ q % 2 = o /\ q \div 2 = h
  BY Zenon, Halves
<1>7. w = v + (flag - o) * d
  <2>1. Bit(v, b) = o
    BY Zenon, <1>2, <1>5, <1>6
  <2> QED  BY Zenon, <1>2, <2>1
<1>8. w = d * (2 * h + flag) + r /\ w \in Nat
  <2>1. flag - o \in Int /\ d \in Int /\ q \in Int /\ r \in Int /\ q + (flag - o) = 2 * h + flag
    BY <1>1, <1>6
  <2>2. v + (flag - o) * d = d * (q + (flag - o)) + r
    BY <1>5, <2>1, OtherMultiple
  <2>3. w = d * (2 * h + flag) + r
    BY Zenon, <1>7, <2>1, <2>2
  <2>4. 2 * h + flag \in Nat /\ r \in Nat /\ d \in Nat
    BY <1>1
  <2>5. \A x, y, z \in Nat : x * y + z \in Nat
    OBVIOUS
  <2> QED  BY Zenon, <2>3, <2>4, <2>5
<1>9. w \div d = 2 * h + flag
  <2>1. 2 * h + flag \in Int /\ w \in Int
    BY <1>8
  <2> QED  BY Zenon, <1>1, <1>8, <2>1, QuotientIsUnique
<1>10. CASE b < c
  <2>1. PICK m \in Nat \ {0} : e = d * (2 * m)
    BY <1>3, <1>10
  <2>2. 2 * m \in Nat \ {0} /\ 2 \in Nat \ {0}
    OBVIOUS
  <2>3. \A u \in Nat : u \div e = ((u \div d) \div 2) \div m
    <3> SUFFICES ASSUME NEW u \in Nat PROVE u \div e = ((u \div d) \div 2) \div m
      OBVIOUS
    <3>1. u \div (d * (2 * m)) = (u \div d) \div (2 * m)
      BY ZenonT(30), <1>1, <2>2, QuotientOfQuotient
    <3>2. u \div d \in Nat
      BY Zenon, <1>1, Quotient
    <3>3. (u \div d) \div (2 * m) = ((u \div d) \div 2) \div m
      BY ZenonT(30), <2>2, <3>2, QuotientOfQuotient
    <3> QED  BY Zenon, <2>1, <3>1, <3>3
  <2>4. (2 * h + flag) \div 2 = h
    OBVIOUS
  <2>5. w \div e = v \div e
    BY ZenonT(30), <1>5, <1>6, <1>8, <1>9, <2>3, <2>4
  <2> QED  BY <1>0, <1>2, <1>8, <1>10, <2>5 DEF w
<1>11. CASE c < b
  <2>1. PICK m \in Nat \ {0} : d = e * (2 * m)
    BY <1>4, <1>11
  <2>2. PICK y \in Nat, s \in 0 .. e - 1 : v = e * y + s /\ v \div e = y
    BY Zenon, <1>1, Quotient
  <2> DEFINE k == m * (flag - o)
  <2>4. w = e * (y + 2 * k) + s
    <3>1. \A a, x, z \in Int : z * (a * (2 * x)) = (2 * (x * z)) * a
      OBVIOUS
    <3>2. (flag - o) * d = (2 * k) * e
      BY <1>1, <2>1, <3>1
    <3>3. 2 * k \in Int /\ e \in Int /\ y \in Int /\ s \in Int
      BY <1>1
    <3> HIDE DEF k
    <3>4. v + (2 * k) * e = e * (y + 2 * k) + s
      BY <2>2, <3>3, OtherMultiple
    <3> QED  BY Zenon, <1>7, <3>2, <3>4
  <2>5. y + 2 * k \in Int /\ w \in Int /\ k \in Int
    BY <1>8
  <2> HIDE DEF k
  <2>6. w \div e = y + 2 * k
    BY Zenon, <1>1, <2>4, <2>5, QuotientIsUnique
  <2>7. (y + 2 * k) % 2 = y % 2
    BY Zenon, <2>5, SameParity
  <2> QED  BY <1>0, <1>2, <1>8, <1>11, <2>2, <2>6, <2>7 DEF w
<1>12. CASE c = b
  <2>1. (2 * h + flag) % 2 = flag
    OBVIOUS
  <2>2. w \div e = 2 * h + flag
    BY Zenon, <1>9, <1>12 DEF d, e
  <2>3. Bit(w, c) = flag
    BY Zenon, <1>2, <2>1, <2>2
  <2> QED  BY Zenon, <1>8, <1>12, <2>3 DEF w
<1> QED  BY <1>0, <1>10, <1>11, <1>12

(* The bytes e are the bytes d with one bit written. *)
OneBitSet(e, d, p, flag) ==
  /\ e \in [0 .. size -> Nat]
  /\ \A q \in Pages : BitOf(e, q) = IF q = p THEN flag ELSE BitOf(d, q)

(* Put writes the bit of its page and no other. *)
LEMMA PutSetsOneBit ==
  ASSUME PowersOfTwo, NEW d \in [0 .. size -> Nat], NEW p \in Pages, NEW flag \in {0, 1},
         NEW e, e = [d EXCEPT ![p \div CHAR_BIT] = SetBit(@, p % CHAR_BIT, flag)]
  PROVE  OneBitSet(e, d, p, flag)
<1> DEFINE At(q)  == q \div CHAR_BIT
           Off(q) == q % CHAR_BIT
<1>1. ASSUME NEW q \in Pages
      PROVE  At(q) \in 0 .. size /\ Off(q) \in 0 .. CHAR_BIT - 1 /\ q = CHAR_BIT * At(q) + Off(q)
  <2>1. q \in Nat /\ CHAR_BIT \in Nat \ {0} /\ size \in Nat
    BY BitmapAssumption DEF Pages, size
  <2>2. q < (size + 1) * CHAR_BIT
    BY <2>1, BitmapAssumption DEF Pages, ScanTotal
  <2>3. /\ Off(q) \in 0 .. CHAR_BIT - 1
        /\ At(q) \in Nat
        /\ q = CHAR_BIT * At(q) + Off(q)
    BY <2>1
  <2> HIDE DEF At, Off
  <2>4. CHAR_BIT * At(q) < CHAR_BIT * (size + 1)
    <3>1. \A a, b, c \in Int :
            c = CHAR_BIT * a + b /\ 0 <= b /\ c < (size + 1) * CHAR_BIT
              => CHAR_BIT * a < CHAR_BIT * (size + 1)
      BY <2>1
    <3>2. At(q) \in Int /\ Off(q) \in Int /\ q \in Int /\ 0 <= Off(q)
      BY <2>1, <2>3
    <3> QED  BY Zenon, <2>2, <2>3, <3>1, <3>2
  <2>5. \A a, b, c \in Nat : c * a < c * b => a < b
    OBVIOUS
  <2>6. At(q) < size + 1
    BY <2>1, <2>3, <2>4, <2>5
  <2> QED  BY <2>1, <2>3, <2>6
<1>2. \A q : BitOf(d, q) = Bit(d[At(q)], Off(q)) /\ BitOf(e, q) = Bit(e[At(q)], Off(q))
  BY DEF BitOf
<1> HIDE DEF At, Off
<1>3. e = [d EXCEPT ![At(p)] = SetBit(@, Off(p), flag)]
  BY Zenon DEF At, Off
<1>4. d[At(p)] \in Nat /\ SetBit(d[At(p)], Off(p), flag) \in Nat
  BY Zenon, <1>1, SetBitSetsOneBit
<1>5. e \in [0 .. size -> Nat]
  BY Zenon, <1>3, <1>4
<1>6. ASSUME NEW q \in Pages
      PROVE  BitOf(e, q) = IF q = p THEN flag ELSE BitOf(d, q)
  <2>1. At(q) \in 0 .. size /\ Off(q) \in 0 .. CHAR_BIT - 1 /\ q = CHAR_BIT * At(q) + Off(q)
    BY Zenon, <1>1
  <2>2. At(p) \in 0 .. size /\ Off(p) \in 0 .. CHAR_BIT - 1 /\ p = CHAR_BIT * At(p) + Off(p)
    BY Zenon, <1>1
  <2>3. CASE At(q) = At(p)
    <3>1. e[At(q)] = SetBit(d[At(p)], Off(p), flag)
      BY <1>3, <2>2, <2>3
    <3>2. Bit(e[At(q)], Off(q)) = IF Off(q) = Off(p) THEN flag ELSE Bit(d[At(p)], Off(q))
      <4>1. Bit(SetBit(d[At(p)], Off(p), flag), Off(q)) =
              IF Off(q) = Off(p) THEN flag ELSE Bit(d[At(p)], Off(q))
        BY ZenonT(20), <1>4, <2>1, <2>2, SetBitSetsOneBit
      <4> QED  BY Zenon, <3>1, <4>1
    <3>3. (Off(q) = Off(p)) <=> (q = p)
      BY Zenon, <2>1, <2>2, <2>3
    <3> QED  BY Zenon, <1>2, <2>3, <3>2, <3>3
  <2>4. CASE At(q) # At(p)
    <3>1. e[At(q)] = d[At(q)]
      BY <1>3, <2>1, <2>4
    <3> QED  BY Zenon, <1>2, <2>4, <3>1
  <2> QED  BY Zenon, <2>3, <2>4
<1> QED  BY Zenon, <1>5, <1>6 DEF OneBitSet

(* n bits from first on have been given the value flag, the others are old. *)
Wrote(bytes, old, first, n, flag) ==
  \A p \in Pages : BitOf(bytes, p) = IF p \in Run(first, n) THEN flag ELSE BitOf(old, p)

(* The inductive invariant. *)
WriteInv ==
  /\ data \in [0 .. size -> Nat]
  /\ call \in Calls
  /\ i \in Nat
  /\ pc = "call" => /\ data = before
                    /\ call.op = "SetBitRange" => i = 0
                    /\ call.op = "AllocatePage" =>
                         i <= Total /\ \A p \in Pages : p < i => BitOf(before, p) # 0
  /\ pc = "set"  => /\ call.op = "SetBitRange" /\ call.first + call.length <= Total
                    /\ i <= call.length /\ Wrote(data, before, call.first, i, call.flag)
  /\ pc = "find" => call.op = "Find"
  /\ WritesAreExact

(* The array is a part of what FindAvailableAddress scans. *)
LEMMA TotalInScan == Total \in Nat /\ Total <= ScanTotal /\ ScanTotal \in Nat
<1>1. /\ size * CHAR_BIT \in Nat /\ CHAR_BIT \in Nat
      /\ (size + 1) * CHAR_BIT = size * CHAR_BIT + CHAR_BIT
  BY BitmapAssumption DEF size
<1> QED  BY <1>1 DEF Total, ScanTotal

(* Entering the loop, or returning at once with nothing written. *)
LEMMA SetBitRangeEnterWrites ==
  ASSUME WriteInv, SetBitRangeEnter
  PROVE  WriteInv'
<1>1. /\ call.first \in Nat /\ call.length \in Nat
  BY CallType DEF WriteInv
<1>2. /\ call.op = "SetBitRange" /\ data = before /\ i = 0
      /\ UNCHANGED <<data, before, call, i>>
  BY DEF WriteInv, SetBitRangeEnter, Return
<1>3. CASE call.length = 0 \/ call.first >= Total \/ call.first + call.length > Total
  <2>1. pc' = "done"
    BY <1>3 DEF SetBitRangeEnter, Return
  <2>2. ASSUME call.first + call.length <= Total, NEW p \in Pages
        PROVE  p \notin Run(call.first, call.length)
    BY <1>1, <1>3, <2>2, TotalInScan DEF Run
  <2>3. WritesAreExact'
    BY <1>2, <2>1, <2>2 DEF WritesAreExact, BitOf
  <2> QED  BY <1>2, <2>1, <2>3 DEF WriteInv
<1>4. CASE ~(call.length = 0 \/ call.first >= Total \/ call.first + call.length > Total)
  <2>1. pc' = "set"
    BY <1>4 DEF SetBitRangeEnter
  <2>2. \A p : p \notin Run(call.first, 0)
    BY <1>1 DEF Run
  <2>3. Wrote(data', before', call'.first, i', call'.flag)
    BY <1>2, <2>2 DEF Wrote
  <2>4. call'.first + call'.length <= Total /\ i' <= call'.length
    BY <1>1, <1>2, <1>4, TotalInScan
  <2> QED  BY <1>2, <2>1, <2>3, <2>4 DEF WriteInv, WritesAreExact
<1> QED  BY <1>3, <1>4

(* One iteration writes one more bit of the range. *)
LEMMA SetBitRangeStepWrites ==
  ASSUME PowersOfTwo, WriteInv, SetBitRangeStep
  PROVE  WriteInv'
<1>1. call.first \in Nat /\ call.length \in Nat /\ call.flag \in {0, 1} /\ i \in Nat
  BY CallType DEF WriteInv
<1>2. /\ pc = "set" /\ pc' = "set" /\ i < call.length /\ i' = i + 1
      /\ UNCHANGED <<before, call>>
      /\ call.op = "SetBitRange" /\ call.first + call.length <= Total
      /\ Wrote(data, before, call.first, i, call.flag)
      /\ data \in [0 .. size -> Nat]
      /\ data' = [data EXCEPT ![(call.first + i) \div CHAR_BIT] =
                                SetBit(@, (call.first + i) % CHAR_BIT, call.flag)]
  BY DEF WriteInv, SetBitRangeStep, Put
<1>3. call.first + i \in Pages
  BY <1>1, <1>2, TotalInScan DEF Pages
<1>4. OneBitSet(data', data, call.first + i, call.flag)
  BY Zenon, <1>1, <1>2, <1>3, PutSetsOneBit
<1>5. \A q \in Pages :
        q \in Run(call.first, i + 1) <=> q = call.first + i \/ q \in Run(call.first, i)
  BY <1>1, TotalInScan DEF Run, Pages
<1>6. Wrote(data', before', call'.first, i', call'.flag)
  BY Zenon, <1>2, <1>4, <1>5 DEF Wrote, OneBitSet
<1>7. i' \in Nat /\ i' <= call'.length
  BY <1>1, <1>2
<1> QED  BY <1>2, <1>4, <1>6, <1>7 DEF WriteInv, WritesAreExact, OneBitSet

(* Leaving the loop, all bits of the range are written. *)
LEMMA SetBitRangeExitWrites ==
  ASSUME WriteInv, SetBitRangeExit
  PROVE  WriteInv'
<1>1. /\ pc' = "done" /\ i = call.length /\ UNCHANGED <<data, before, call, i>>
      /\ call.op = "SetBitRange" /\ call.first + call.length <= Total
      /\ Wrote(data, before, call.first, i, call.flag)
  BY DEF WriteInv, SetBitRangeExit, Return
<1>2. WritesAreExact'
  BY <1>1 DEF WritesAreExact, Wrote
<1> QED  BY <1>1, <1>2 DEF WriteInv

(* The search writes nothing. *)
LEMMA FindWrites ==
  ASSUME WriteInv, FindEnter \/ FindStep \/ FindExit
  PROVE  WriteInv'
<1>1. call.op = "Find" /\ UNCHANGED <<data, before, call>> /\ i' \in Nat /\ pc' \in {"find", "done"}
  BY DEF WriteInv, FindEnter, FindStep, FindExit, Return
<1>2. WritesAreExact'
  BY <1>1 DEF WritesAreExact
<1> QED  BY <1>1, <1>2 DEF WriteInv

(* The bits passed are set, and the first that is not is taken. *)
LEMMA AllocatePageWrites ==
  ASSUME PowersOfTwo, WriteInv, AllocatePageStep
  PROVE  WriteInv'
<1>1. /\ pc = "call" /\ call.op = "AllocatePage" /\ data = before
      /\ i \in Nat /\ i <= Total /\ \A p \in Pages : p < i => BitOf(before, p) # 0
      /\ data \in [0 .. size -> Nat] /\ call \in Calls
      /\ UNCHANGED <<before, call>>
  BY DEF WriteInv, AllocatePageStep, Return
<1>2. CASE i < Total /\ Clear(i) /\ Put(i, 1) /\ Return(i) /\ UNCHANGED i
  <2>1. i \in Pages /\ 1 \in {0, 1}
    BY <1>1, <1>2, TotalInScan DEF Pages
  <2>2. data' = [data EXCEPT ![i \div CHAR_BIT] = SetBit(@, i % CHAR_BIT, 1)]
    BY Zenon, <1>2 DEF Put
  <2>3. OneBitSet(data', data, i, 1)
    BY Zenon, <1>1, <2>1, <2>2, PutSetsOneBit
  <2>4. pc' = "done" /\ result' = i /\ i' = i /\ BitOf(before, i) = 0
    BY <1>1, <1>2 DEF Return, Clear
  <2>5. i # NULL
    BY <1>1, BitmapAssumption
  <2>6. \A p \in Pages : BitOf(before, p) = 0 => i <= p
    BY <1>1, TotalInScan DEF Pages
  <2>7. WritesAreExact'
    BY <1>1, <2>3, <2>4, <2>5, <2>6 DEF WritesAreExact, OneBitSet
  <2> QED  BY <1>1, <2>3, <2>4, <2>7 DEF WriteInv, OneBitSet
<1>3. CASE i < Total /\ ~Clear(i) /\ i' = i + 1 /\ UNCHANGED <<data, before, call, pc, run, result>>
  <2>1. \A p \in Pages : p < i + 1 => BitOf(before, p) # 0
    BY <1>1, <1>3, TotalInScan DEF Clear, Pages
  <2>2. i' \in Nat /\ i' <= Total
    BY <1>1, <1>3, TotalInScan
  <2> QED  BY <1>1, <1>3, <2>1, <2>2 DEF WriteInv, WritesAreExact
<1>4. CASE i = Total /\ Return(NULL) /\ UNCHANGED <<data, i>>
  <2>1. \A p \in Pages : p # NULL
    BY BitmapAssumption DEF Pages
  <2>2. WritesAreExact'
    BY <1>1, <1>4, <2>1 DEF WritesAreExact, Return
  <2> QED  BY <1>1, <1>4, <2>2 DEF WriteInv, Return
<1> QED  BY <1>1, <1>2, <1>3, <1>4 DEF AllocatePageStep

(* The invariant holds throughout. *)
LEMMA WriteInvAlways ==
  ASSUME PowersOfTwo
  PROVE  Spec => []WriteInv
<1>1. Init => WriteInv
  <2>1. Byte \subseteq Nat
    BY BitmapAssumption DEF PowersOfTwo, Byte
  <2>2. 0 \in Nat /\ 0 <= Total /\ \A p \in Pages : ~(p < 0)
    BY TotalInScan DEF Pages
  <2> QED  BY Zenon, <2>1, <2>2 DEF Init, WriteInv, WritesAreExact
<1>2. WriteInv /\ [Next]_vars => WriteInv'
  <2> SUFFICES ASSUME WriteInv, [Next]_vars PROVE WriteInv'
    BY Zenon
  <2>1. CASE UNCHANGED vars
    BY Zenon, <2>1 DEF vars, WriteInv, WritesAreExact, Wrote, BitOf
  <2> QED
    BY <2>1, SetBitRangeEnterWrites, SetBitRangeStepWrites, SetBitRangeExitWrites,
       FindWrites, AllocatePageWrites DEF Next, Done
<1> QED  BY <1>1, <1>2, PTL DEF Spec
-------------------------------------------------------------------------------
(* Console: proofs for a screen of any resolution. *)

Spot == [x : Nat, y : Nat]

(* The cursor is on a line that is wholly on the screen, in it or just past  *)
(* its last character.                                                       *)
Cursor ==
  /\ X \in Nat /\ X <= HorizontalResolution
  /\ Y \in Nat /\ Y + FONT_HEIGHT <= VerticalResolution

(* A spot where a glyph is whole. *)
Whole(p) ==
  /\ p.x + FONT_WIDTH <= HorizontalResolution
  /\ p.y + FONT_HEIGHT <= VerticalResolution

(* Everything drawn is whole, in order, and before the cursor. *)
Drawn(s, x, y) ==
  /\ s \in Seq(Spot)
  /\ \A n \in DOMAIN s : Whole(s[n]) /\ After(s[n], [x |-> x, y |-> y])
  /\ \A n, m \in DOMAIN s : n < m => After(s[n], s[m])

ScreenInv == Cursor /\ Drawn(screen, X, Y)
(* The start of the next line is after everything drawn. *)
LEMMA NextLine ==
  ASSUME NEW s, NEW x \in Nat, NEW y \in Nat, Drawn(s, x, y)
  PROVE  Drawn(s, 0, y + FONT_HEIGHT)
<1>1. ASSUME NEW n \in DOMAIN s PROVE After(s[n], [x |-> 0, y |-> y + FONT_HEIGHT])
  <2>1. s[n] \in Spot /\ After(s[n], [x |-> x, y |-> y]) BY <1>1 DEF Drawn
  <2>2. s[n].y \in Nat /\ y >= s[n].y BY <2>1, ScreenAssumption DEF After, Spot
  <2> QED BY <2>2, ScreenAssumption DEF After
<1> QED BY <1>1 DEF Drawn

(* The next character has a place where it is whole, after all that is kept. *)
LEMMA PlaceIsWhole ==
  ASSUME ScreenInv
  PROVE  /\ Place \in Spot /\ Whole(Place)
         /\ Drawn(Kept, Place.x, Place.y)
<1> USE ScreenAssumption
<1>1. /\ X \in Nat /\ X <= HorizontalResolution
      /\ Y \in Nat /\ Y + FONT_HEIGHT <= VerticalResolution
      /\ Drawn(screen, X, Y)
  BY DEF ScreenInv, Cursor
<1>2. CASE ~IsNewLineRequired(X)
  <2>1. Wrapped = [x |-> X, y |-> Y] BY <1>2 DEF Wrapped
  <2>2. X + FONT_WIDTH <= HorizontalResolution BY <1>1, <1>2 DEF IsNewLineRequired, Sub
  <2>3. ~IsEndOfScreen(Y) BY <1>1 DEF IsEndOfScreen, Sub
  <2>4. Place = [x |-> X, y |-> Y] /\ Kept = screen BY <2>1, <2>3 DEF Place, Kept
  <2> QED BY <1>1, <2>2, <2>4 DEF Whole, Spot
<1>3. CASE IsNewLineRequired(X)
  <2>1. Wrapped = [x |-> 0, y |-> Y + FONT_HEIGHT] BY <1>1, <1>3 DEF Wrapped, Add
  <2>2. CASE IsEndOfScreen(Y + FONT_HEIGHT)
    <3>1. Place = [x |-> 0, y |-> 0] /\ Kept = <<>> BY <2>1, <2>2 DEF Place, Kept
    <3>2. Drawn(<<>>, 0, 0) BY DEF Drawn
    <3> QED BY <3>1, <3>2 DEF Whole, Spot
  <2>3. CASE ~IsEndOfScreen(Y + FONT_HEIGHT)
    <3>1. Place = [x |-> 0, y |-> Y + FONT_HEIGHT] /\ Kept = screen
      BY <2>1, <2>3 DEF Place, Kept
    <3>2. Y + FONT_HEIGHT + FONT_HEIGHT <= VerticalResolution
      BY <1>1, <2>3 DEF IsEndOfScreen, Sub
    <3>3. Drawn(screen, 0, Y + FONT_HEIGHT) BY <1>1, NextLine
    <3> QED BY <1>1, <3>1, <3>2, <3>3 DEF Whole, Spot
  <2> QED BY <2>2, <2>3
<1> QED BY <1>2, <1>3

(* The cursor moves past the place of the character. *)
LEMMA Advance ==
  ASSUME NEW p \in Spot, Whole(p), NEW s, Drawn(s, p.x, p.y)
  PROVE  /\ Add(p.x, FONT_WIDTH) = p.x + FONT_WIDTH
         /\ Drawn(s, p.x + FONT_WIDTH, p.y)
         /\ Drawn(Append(s, p), p.x + FONT_WIDTH, p.y)
<1> USE ScreenAssumption
<1>1. p.x \in Nat /\ p.y \in Nat BY DEF Spot
<1>2. Add(p.x, FONT_WIDTH) = p.x + FONT_WIDTH BY <1>1 DEF Add, Whole
<1>3. s \in Seq(Spot) /\ \A n \in DOMAIN s : s[n] \in Spot BY SMTT(20) DEF Drawn
<1>4. Drawn(s, p.x + FONT_WIDTH, p.y) BY <1>1, <1>3 DEF Drawn, After, Spot
<1>5. Drawn(Append(s, p), p.x + FONT_WIDTH, p.y)
  <2> DEFINE u == Append(s, p)
  <2>1. u \in Seq(Spot) BY <1>3
  <2>2. \A n \in DOMAIN u : \/ n \in DOMAIN s /\ u[n] = s[n]
                            \/ n = Len(s) + 1 /\ u[n] = p
    BY <1>3
  <2>3. \A n \in DOMAIN s : n \in Nat /\ n <= Len(s) BY <1>3
  <2>4. p = [x |-> p.x, y |-> p.y] BY DEF Spot
  <2>5. \A n \in DOMAIN s : After(s[n], p) BY <2>4 DEF Drawn
  <2>6. After(p, [x |-> p.x + FONT_WIDTH, y |-> p.y]) BY <1>1 DEF After
  <2>7. \A n \in DOMAIN u : Whole(u[n]) /\ After(u[n], [x |-> p.x + FONT_WIDTH, y |-> p.y])
    BY <1>4, <2>2, <2>6 DEF Drawn
  <2>8. ASSUME NEW n \in DOMAIN u, NEW m \in DOMAIN u, n < m PROVE After(u[n], u[m])
    <3>1. n \in DOMAIN s /\ u[n] = s[n] BY <1>3, <2>2, <2>3, <2>8
    <3>2. CASE m \in DOMAIN s /\ u[m] = s[m] BY <2>8, <3>1, <3>2 DEF Drawn
    <3>3. CASE u[m] = p BY <2>5, <3>1, <3>3
    <3> QED BY Zenon, <2>2, <3>2, <3>3
  <2> HIDE DEF u
  <2> QED BY <2>1, <2>7, <2>8 DEF Drawn, u
<1> QED BY <1>2, <1>4, <1>5

(* The empty screen, with the cursor at the top left corner. *)
LEMMA Cleared == X' = 0 /\ Y' = 0 /\ screen' = <<>> => ScreenInv'
<1> SUFFICES ASSUME X' = 0, Y' = 0, screen' = <<>> PROVE ScreenInv'
  OBVIOUS
<1>1. Cursor' BY ScreenAssumption DEF Cursor
<1>2. Drawn(screen', X', Y') BY DEF Drawn
<1> QED BY <1>1, <1>2 DEF ScreenInv, Drawn

(* Every step preserves the invariant. *)
LEMMA NextScreenInv == ScreenInv /\ [ConsoleNext]_consoleVars => ScreenInv'
<1> SUFFICES ASSUME ScreenInv, [ConsoleNext]_consoleVars PROVE ScreenInv'
  OBVIOUS
<1> USE ScreenAssumption
<1> DEFINE p == Place
<1>1. p \in Spot /\ Whole(p) /\ Drawn(Kept, p.x, p.y) BY PlaceIsWhole
<1>2. /\ Add(p.x, FONT_WIDTH) = p.x + FONT_WIDTH
      /\ Drawn(Kept, p.x + FONT_WIDTH, p.y)
      /\ Drawn(Append(Kept, p), p.x + FONT_WIDTH, p.y)
  BY <1>1, Advance
<1>3. ASSUME X' = p.x + FONT_WIDTH, Y' = p.y PROVE Cursor'
  <2> HIDE DEF p
  <2> QED BY SMTT(20), <1>1, <1>3 DEF Cursor, Spot, Whole
<1>4. CASE PutGlyph BY Zenon, <1>2, <1>3, <1>4 DEF PutGlyph, ScreenInv, Drawn
<1>5. CASE PutSpace BY <1>2, <1>3, <1>5 DEF PutSpace, ScreenInv, Drawn
<1>6. CASE PutNewLine
  <2>1. /\ Y \in Nat /\ Y + FONT_HEIGHT <= VerticalResolution /\ Drawn(screen, X, Y)
        /\ X \in Nat
    BY DEF ScreenInv, Cursor
  <2>2. Add(Y, FONT_HEIGHT) = Y + FONT_HEIGHT BY <2>1 DEF Add
  <2>3. CASE IsEndOfScreen(Y + FONT_HEIGHT) BY Zenon, <1>6, <2>2, <2>3, Cleared DEF PutNewLine
  <2>4. CASE ~IsEndOfScreen(Y + FONT_HEIGHT)
    <3>1. X' = 0 /\ Y' = Y + FONT_HEIGHT /\ screen' = screen BY <1>6, <2>2, <2>4 DEF PutNewLine
    <3>2. Cursor' BY <2>1, <2>4, <3>1 DEF Cursor, IsEndOfScreen, Sub
    <3>3. Drawn(screen, 0, Y + FONT_HEIGHT) BY <2>1, NextLine
    <3> QED BY <3>1, <3>2, <3>3 DEF ScreenInv, Drawn
  <2> QED BY <2>3, <2>4
<1>7. CASE Reset BY Zenon, <1>7, Cleared DEF Reset
<1>8. CASE UNCHANGED consoleVars BY <1>8 DEF consoleVars, ScreenInv, Cursor, Drawn
<1> QED BY <1>4, <1>5, <1>6, <1>7, <1>8 DEF ConsoleNext

(* The invariant holds throughout. *)
LEMMA ScreenInvAlways == ConsoleSpec => []ScreenInv
<1>1. ConsoleInit => ScreenInv BY ScreenAssumption DEF ConsoleInit, ScreenInv, Cursor, Drawn
<1> QED BY <1>1, NextScreenInv, PTL DEF ConsoleSpec
(* On a screen of any resolution, no glyph is cut off at an edge: PutChar    *)
(* wraps and clears in time.                                                 *)
THEOREM GlyphsAreAlwaysOnScreen == ConsoleSpec => []GlyphsAreOnScreen
<1>1. ScreenInv => GlyphsAreOnScreen BY DEF ScreenInv, Drawn, Whole, GlyphsAreOnScreen
<1> QED BY <1>1, ScreenInvAlways, PTL

(* On a screen of any resolution, the glyphs stand in the order in which     *)
(* they were put, and none covers another.                                   *)
THEOREM AlwaysReadsInOrder == ConsoleSpec => []ReadsInOrder
<1>1. ScreenInv => ReadsInOrder BY DEF ScreenInv, Drawn, ReadsInOrder
<1> QED BY <1>1, ScreenInvAlways, PTL

-------------------------------------------------------------------------------
(* The linked list of module RunQueue, for threads that are not null. *)

CONSTANT Threads

VARIABLES head, tail, next, prev, popped, fifo

Q == INSTANCE RunQueue

NullIsNoThread == NULL \notin Threads

ListInv == Q!TypeOK /\ Q!ListIsFifo

LEMMA InitListInv == Q!Init => ListInv
BY DEF Q!Init, ListInv, Q!TypeOK, Q!ListIsFifo, Q!NoDuplicates, Q!Queued

(* ListIsFifo over the entries of the queue alone, which is how the steps   *)
(* use it and establish it.                                                 *)
Spells(f, n, h, e, nx, pv) ==
  /\ n \in Nat
  /\ \A k \in 1 .. n : f[k] \in Threads
  /\ \A j, k \in 1 .. n : f[j] = f[k] => j = k
  /\ n = 0 => h = NULL /\ e = NULL
  /\ n > 0 => h = f[1] /\ e = f[n]
  /\ \A k \in 1 .. n : nx[f[k]] = IF k = n THEN NULL ELSE f[k + 1]
  /\ \A k \in 1 .. n : pv[f[k]] = IF k = 1 THEN NULL ELSE f[k - 1]
  /\ \A t \in Threads : (\A k \in 1 .. n : f[k] # t) => nx[t] = NULL /\ pv[t] = NULL

Links ==
  /\ head \in Threads \cup {NULL} /\ tail \in Threads \cup {NULL}
  /\ next \in [Threads -> Threads \cup {NULL}]
  /\ prev \in [Threads -> Threads \cup {NULL}]
  /\ popped \in Threads \cup {NULL}

LEMMA FifoSpells ==
  ASSUME fifo \in Seq(Threads), Q!ListIsFifo
  PROVE  Spells(fifo, Len(fifo), head, tail, next, prev)
<1>1. /\ Len(fifo) \in Nat /\ DOMAIN fifo = 1 .. Len(fifo)
      /\ \A k \in 1 .. Len(fifo) : fifo[k] \in Threads
      /\ fifo = <<>> <=> Len(fifo) = 0
  OBVIOUS
<1>2. \A t : t \notin Q!Queued <=> \A k \in 1 .. Len(fifo) : fifo[k] # t
  BY <1>1 DEF Q!Queued
<1> DEFINE n == Len(fifo)
<1>3. /\ \A j, k \in 1 .. n : fifo[j] = fifo[k] => j = k
      /\ n = 0 => head = NULL /\ tail = NULL
      /\ n > 0 => head = fifo[1] /\ tail = fifo[n]
  <2>1. \A j, k \in 1 .. n : fifo[j] = fifo[k] => j = k
    BY Zenon DEF Q!ListIsFifo, Q!NoDuplicates
  <2>2. /\ head = IF fifo = <<>> THEN NULL ELSE fifo[1]
        /\ tail = IF fifo = <<>> THEN NULL ELSE fifo[n]
    BY Zenon DEF Q!ListIsFifo
  <2>3. (n = 0 => fifo = <<>>) /\ (n > 0 => fifo # <<>>)
    BY SMTT(20), <1>1
  <2> QED  BY <2>1, <2>2, <2>3, Zenon
<1>4. /\ \A k \in 1 .. n : next[fifo[k]] = IF k = n THEN NULL ELSE fifo[k + 1]
      /\ \A k \in 1 .. n : prev[fifo[k]] = IF k = 1 THEN NULL ELSE fifo[k - 1]
  BY DEF Q!ListIsFifo
<1>5. \A t \in Threads : (\A k \in 1 .. n : fifo[k] # t) => next[t] = NULL /\ prev[t] = NULL
  BY <1>2, Zenon DEF Q!ListIsFifo
<1> HIDE DEF n
<1>6. Spells(fifo, n, head, tail, next, prev)
  BY <1>1, <1>3, <1>4, <1>5, Zenon DEF Spells, n
<1> QED  BY <1>6 DEF n

LEMMA SpellsFifo ==
  ASSUME fifo' \in Seq(Threads), NEW n,
         n = Len(fifo'), Spells(fifo', n, head', tail', next', prev')
  PROVE  Q!ListIsFifo'
<1>1. /\ n \in Nat /\ DOMAIN fifo' = 1 .. n
      /\ fifo' = <<>> <=> n = 0
  OBVIOUS
<1>2. \A t : t \notin Q!Queued' <=> \A k \in 1 .. n : fifo'[k] # t
  BY <1>1, Zenon DEF Q!Queued
<1>3. Q!NoDuplicates' /\ head' = (IF fifo' = <<>> THEN NULL ELSE fifo'[1])
      /\ tail' = (IF fifo' = <<>> THEN NULL ELSE fifo'[n])
  BY <1>1 DEF Q!NoDuplicates, Spells
<1>4. \A t \in Threads : t \notin Q!Queued' => next'[t] = NULL /\ prev'[t] = NULL
  BY <1>2, Zenon DEF Spells
<1>5. \A k \in 1 .. n :
        /\ next'[fifo'[k]] = IF k = n THEN NULL ELSE fifo'[k + 1]
        /\ prev'[fifo'[k]] = IF k = 1 THEN NULL ELSE fifo'[k - 1]
  BY DEF Spells
<1> QED  BY <1>3, <1>4, <1>5, Zenon DEF Q!ListIsFifo

LEMMA PushStep ==
  ASSUME NullIsNoThread, ListInv, NEW t \in Threads, Q!Push(t)
  PROVE  ListInv'
<1>0. NULL \notin Threads
  BY DEF NullIsNoThread
<1> DEFINE n == Len(fifo)
<1>1. /\ fifo \in Seq(Threads) /\ fifo' \in Seq(Threads)
      /\ n \in Nat /\ Len(fifo') = n + 1 /\ fifo'[n + 1] = t
      /\ \A k \in 1 .. n : fifo'[k] = fifo[k] /\ fifo[k] # t
  BY SMTT(20) DEF Q!Push, Q!Queued, ListInv, Q!TypeOK
<1>2. Spells(fifo, n, head, tail, next, prev) /\ Links
  BY Zenon, <1>1, FifoSpells DEF ListInv, Q!TypeOK, Links
<1>3. SUFFICES Spells(fifo', n + 1, head', tail', next', prev') /\ Links'
  BY SMTT(20), <1>1, SpellsFifo DEF ListInv, Q!TypeOK, Links
<1> HIDE DEF n
<1>4. CASE n = 0
  <2>1. /\ head' = t /\ tail' = t /\ popped' = popped
        /\ next' = [next EXCEPT ![t] = NULL] /\ prev' = [prev EXCEPT ![t] = NULL]
    BY <1>2, <1>4, <1>0 DEF Q!Push, Spells
  <2>2. Links'
    BY <1>2, <2>1 DEF Links
  <2>3. \A u \in Threads : next[u] = NULL /\ prev[u] = NULL
    BY <1>2, <1>4 DEF Spells
  <2>4. \A u \in Threads : next'[u] = NULL /\ prev'[u] = NULL
    BY Zenon, <1>2, <2>1, <2>3 DEF Links
  <2>5. n + 1 = 1 /\ fifo'[1] = t /\ 1 .. 1 = {1} /\ 1 \in Nat /\ 1 # 0
    BY <1>1, <1>4
  <2>6. Spells(fifo', 1, head', tail', next', prev')
    BY Zenon, <2>1, <2>4, <2>5 DEF Spells
  <2> QED  BY Zenon, <2>2, <2>5, <2>6
<1>5. CASE n > 0
  <2>1. /\ head' = head /\ tail' = t /\ popped' = popped
        /\ tail = fifo[n] /\ tail \in Threads /\ tail # t
        /\ next' = [next EXCEPT ![t] = NULL, ![tail] = t]
        /\ prev' = [prev EXCEPT ![t] = tail]
    BY <1>1, <1>2, <1>5, <1>0 DEF Q!Push, Spells
  <2>2. Links'
    BY <1>2, <2>1 DEF Links
  <2>3. /\ \A k \in 1 .. n + 1 : fifo'[k] \in Threads
        /\ \A j, k \in 1 .. n + 1 : fifo'[j] = fifo'[k] => j = k
        /\ head' = fifo'[1] /\ tail' = fifo'[n + 1]
    <3>1. ASSUME NEW j \in 1 .. n + 1, NEW k \in 1 .. n + 1, fifo'[j] = fifo'[k]
          PROVE  j = k
      <4>1. (j \in 1 .. n \/ j = n + 1) /\ (k \in 1 .. n \/ k = n + 1)
        BY <1>1
      <4>2. CASE j \in 1 .. n /\ k \in 1 .. n
        <5>1. fifo[j] = fifo[k]
          BY Zenon, <1>1, <3>1, <4>2
        <5> QED  BY SMTT(20), <1>2, <4>2, <5>1 DEF Spells
      <4> QED  BY <1>1, <3>1, <4>1, <4>2
    <3>2. \A k \in 1 .. n + 1 : fifo'[k] \in Threads
      BY SMTT(20), <1>1, <1>2 DEF Spells
    <3>3. head' = fifo'[1] /\ tail' = fifo'[n + 1]
      BY SMTT(20), <1>1, <1>2, <1>5, <2>1 DEF Spells
    <3> QED  BY <3>1, <3>2, <3>3
  <2>4. ASSUME NEW k \in 1 .. n + 1
        PROVE  /\ next'[fifo'[k]] = IF k = n + 1 THEN NULL ELSE fifo'[k + 1]
               /\ prev'[fifo'[k]] = IF k = 1 THEN NULL ELSE fifo'[k - 1]
    <3>1. CASE k = n + 1
      BY SMTT(20), <1>1, <1>2, <1>5, <2>1, <3>1 DEF Links
    <3>2. CASE k # n + 1
      <4>1. k \in 1 .. n /\ fifo'[k] = fifo[k] /\ fifo[k] \in Threads /\ fifo[k] # t
            /\ (k # n => fifo[k] # tail)
        <5>1. k \in 1 .. n /\ n \in 1 .. n
          BY <1>1, <3>2
        <5>2. fifo'[k] = fifo[k] /\ fifo[k] # t
          BY Zenon, <1>1, <1>5, <5>1
        <5>3. fifo[k] \in Threads /\ tail = fifo[n]
          BY <1>2, <5>1 DEF Spells
        <5>4. k # n => fifo[k] # fifo[n]
          BY <1>2, <5>1 DEF Spells
        <5> QED  BY <5>1, <5>2, <5>3, <5>4
      <4>2. prev'[fifo'[k]] = IF k = 1 THEN NULL ELSE fifo'[k - 1]
        <5>1. prev'[fifo'[k]] = prev[fifo[k]]
          BY Zenon, <1>2, <2>1, <4>1 DEF Links
        <5>2. prev[fifo[k]] = IF k = 1 THEN NULL ELSE fifo[k - 1]
          BY <1>2, <4>1 DEF Spells
        <5>3. k # 1 => fifo'[k - 1] = fifo[k - 1]
          BY SMTT(20), <1>1, <4>1
        <5> QED  BY Zenon, <5>1, <5>2, <5>3
      <4>3. next'[fifo'[k]] = fifo'[k + 1]
        BY <1>1, <1>2, <2>1, <4>1 DEF Spells, Links
      <4> QED  BY Zenon, <3>2, <4>2, <4>3
    <3> QED  BY Zenon, <3>1, <3>2
  <2>5. ASSUME NEW u \in Threads, \A k \in 1 .. n + 1 : fifo'[k] # u
        PROVE  next'[u] = NULL /\ prev'[u] = NULL
    <3>1. u # t /\ u # tail /\ \A k \in 1 .. n : fifo[k] # u
      BY <1>1, <1>5, <2>1, <2>5
    <3> QED  BY <1>2, <2>1, <3>1 DEF Spells, Links
  <2>6. n + 1 \in Nat /\ n + 1 # 0
    BY <1>1
  <2> QED  BY ZenonT(30), <2>2, <2>3, <2>4, <2>5, <2>6 DEF Spells
<1> QED  BY <1>1, <1>4, <1>5

LEMMA PopFrontStep ==
  ASSUME NullIsNoThread, ListInv, Q!PopFront
  PROVE  ListInv'
<1>0. NULL \notin Threads
  BY Zenon DEF NullIsNoThread
<1>1. CASE head = NULL
  BY SMTT(20), <1>1, <1>0 DEF Q!PopFront, ListInv, Q!TypeOK, Q!ListIsFifo, Q!NoDuplicates, Q!Queued
<1>2. CASE head # NULL
  <2> DEFINE n == Len(fifo)
  <2>1. fifo \in Seq(Threads) /\ fifo # <<>> /\ fifo' = Tail(fifo)
    BY <1>2 DEF ListInv, Q!TypeOK, Q!ListIsFifo, Q!PopFront
  <2>2. /\ fifo' \in Seq(Threads) /\ Len(fifo') = n - 1
        /\ n \in Nat /\ n > 0
        /\ \A k \in 1 .. n - 1 : fifo'[k] = fifo[k + 1]
    BY <2>1
  <2>3. Spells(fifo, n, head, tail, next, prev) /\ Links
    BY Zenon, <2>1, FifoSpells DEF ListInv, Q!TypeOK, Links
  <2>4. SUFFICES Spells(fifo', n - 1, head', tail', next', prev') /\ Links'
    BY Zenon, <2>2, SpellsFifo DEF ListInv, Q!TypeOK, Links
  <2> HIDE DEF n
  <2>5. /\ head = fifo[1] /\ head \in Threads /\ popped' = head
        /\ head' = (IF n = 1 THEN NULL ELSE fifo[2])
        /\ next' = [next EXCEPT ![head] = NULL]
    BY <1>2, <2>2, <2>3 DEF Spells, Q!PopFront
  <2>6. /\ \A k \in 1 .. n - 1 : fifo'[k] \in Threads
        /\ \A j, k \in 1 .. n - 1 : fifo'[j] = fifo'[k] => j = k
    <3>1. \A k \in 1 .. n - 1 : k + 1 \in 1 .. n /\ fifo'[k] = fifo[k + 1]
      BY <2>2
    <3>2. /\ \A k \in 1 .. n : fifo[k] \in Threads
          /\ \A j, k \in 1 .. n : fifo[j] = fifo[k] => j = k
      BY <2>3 DEF Spells
    <3>3. ASSUME NEW j \in 1 .. n - 1, NEW k \in 1 .. n - 1, fifo'[j] = fifo'[k] PROVE j = k
      <4>1. fifo[j + 1] = fifo[k + 1] /\ j + 1 \in 1 .. n /\ k + 1 \in 1 .. n
        BY <3>1, <3>3
      <4>2. j + 1 = k + 1
        BY Zenon, <3>2, <4>1
      <4> QED  BY <4>2, <2>2
    <3> QED  BY <3>1, <3>2, <3>3
  <2>7. CASE n = 1
    <3>1. head' = NULL /\ tail' = NULL /\ prev' = [prev EXCEPT ![head] = NULL]
      BY SMTT(20), <1>2, <2>5, <2>7 DEF Q!PopFront
    <3> QED  BY <2>3, <2>5, <2>7, <3>1 DEF Spells, Links
  <2>8. CASE n > 1
    <3>1. /\ head' = fifo[2] /\ head' \in Threads /\ head' # head /\ tail' = tail
          /\ prev' = [prev EXCEPT ![head'] = NULL, ![head] = NULL]
      BY <1>2, <2>2, <2>3, <2>5, <2>8, <1>0 DEF Spells, Q!PopFront
    <3>2. Links'
      BY Zenon, <2>3, <2>5, <3>1 DEF Links
    <3>3. head' = fifo'[1] /\ tail' = fifo'[n - 1]
      BY SMTT(20), <2>2, <2>3, <2>8, <3>1 DEF Spells
    <3>4. ASSUME NEW k \in 1 .. n - 1
          PROVE  /\ next'[fifo'[k]] = IF k = n - 1 THEN NULL ELSE fifo'[k + 1]
                 /\ prev'[fifo'[k]] = IF k = 1 THEN NULL ELSE fifo'[k - 1]
      <4>1. /\ fifo'[k] = fifo[k + 1] /\ fifo[k + 1] \in Threads /\ k + 1 \in 1 .. n
            /\ fifo[k + 1] # head /\ (k # 1 => fifo[k + 1] # head')
        BY SMTT(20), <2>2, <2>3, <2>5, <3>1, <2>8 DEF Spells
      <4>2. /\ next[fifo[k + 1]] = IF k + 1 = n THEN NULL ELSE fifo[k + 1 + 1]
            /\ prev[fifo[k + 1]] = fifo[k]
        BY SMTT(20), <2>2, <2>3, <4>1 DEF Spells
      <4>3. next'[fifo'[k]] = IF k = n - 1 THEN NULL ELSE fifo'[k + 1]
        BY SMTT(20), <2>2, <2>3, <2>5, <4>1, <4>2 DEF Links
      <4>4. CASE k = 1
        BY SMTT(20), <2>2, <2>3, <3>1, <4>1, <4>3, <4>4 DEF Links
      <4>5. CASE k # 1
        <5>1. k - 1 \in 1 .. n - 1 /\ fifo'[k - 1] = fifo[k]
          BY SMTT(20), <2>2, <4>5
        <5>2. prev'[fifo[k + 1]] = fifo[k]
          BY <2>3, <3>1, <4>1, <4>2, <4>5 DEF Links
        <5> QED  BY Zenon, <4>1, <4>3, <4>5, <5>1, <5>2
      <4> QED  BY Zenon, <4>4, <4>5
    <3>5. ASSUME NEW u \in Threads, \A k \in 1 .. n - 1 : fifo'[k] # u
          PROVE  next'[u] = NULL /\ prev'[u] = NULL
      <4>1. CASE u = head
        BY <2>3, <2>5, <3>1, <4>1 DEF Links
      <4>2. CASE u # head
        <5>1. ASSUME NEW k \in 1 .. n PROVE fifo[k] # u
          <6>1. CASE k = 1
            BY <2>5, <4>2, <6>1
          <6>2. CASE k # 1
            <7>1. k - 1 \in 1 .. n - 1 /\ fifo'[k - 1] = fifo[k]
              BY <2>2, <6>2
            <7> QED  BY Zenon, <3>5, <7>1
          <6> QED  BY <6>1, <6>2
        <5>2. u # head'
          BY <2>2, <2>8, <3>1, <5>1
        <5>3. next[u] = NULL /\ prev[u] = NULL
          BY Zenon, <2>3, <5>1 DEF Spells
        <5>4. next'[u] = next[u] /\ prev'[u] = prev[u]
          BY Zenon, <2>3, <2>5, <3>1, <4>2, <5>2 DEF Links
        <5> QED  BY Zenon, <5>3, <5>4
      <4> QED  BY <4>1, <4>2
    <3>6. n - 1 \in Nat /\ n - 1 # 0
      BY <2>2, <2>8
    <3> QED  BY ZenonT(30), <2>6, <3>2, <3>3, <3>4, <3>5, <3>6 DEF Spells
  <2>9. n = 1 \/ n > 1
    BY <2>2
  <2> QED  BY Zenon, <2>7, <2>8, <2>9
<1> QED  BY <1>1, <1>2

LEMMA NextListInv ==
  ASSUME NullIsNoThread, ListInv, [Q!Next]_Q!vars
  PROVE  ListInv'
<1>1. CASE UNCHANGED Q!vars
  BY <1>1 DEF Q!vars, ListInv, Q!TypeOK, Q!ListIsFifo, Q!NoDuplicates, Q!Queued
<1> QED  BY Zenon, <1>1, PushStep, PopFrontStep DEF Q!Next

(* The links spell the queue, forwards and backwards, after any sequence of *)
(* Push and PopFront calls on any set of threads.                           *)
THEOREM ListIsAlwaysFifo ==
  ASSUME NullIsNoThread
  PROVE  Q!Spec => []Q!ListIsFifo
<1>1. ListInv => Q!ListIsFifo
  BY DEF ListInv
<1> QED  BY <1>1, InitListInv, NextListInv, PTL DEF Q!Spec

(* Threads leave the queue in the order they entered it. *)
THEOREM PopsAreInOrder ==
  ASSUME NullIsNoThread
  PROVE  Q!Spec => Q!PopsInOrder
<1>0. NULL \notin Threads
  BY DEF NullIsNoThread
<1> DEFINE Step ==
      \/ fifo' = fifo /\ (popped' # popped => fifo = <<>> /\ popped' = NULL)
      \/ fifo # <<>> /\ popped' = Head(fifo) /\ fifo' = Tail(fifo)
      \/ popped' = popped /\ \E t \in Threads : fifo' = Append(fifo, t)
<1>1. ASSUME ListInv, [Q!Next]_Q!vars PROVE [Step]_Q!vars
  <2>1. ASSUME NEW t \in Threads, Q!Push(t) PROVE Step
    BY <2>1 DEF Q!Push
  <2>2. ASSUME Q!PopFront PROVE Step
    <3>1. CASE head = NULL
      BY SMTT(20), <1>1, <2>2, <3>1, <1>0 DEF Q!PopFront, ListInv, Q!TypeOK, Q!ListIsFifo
    <3>2. CASE head # NULL
      BY <1>1, <2>2, <3>2 DEF Q!PopFront, ListInv, Q!TypeOK, Q!ListIsFifo
    <3> QED  BY Zenon, <3>1, <3>2
  <2> HIDE DEF Step
  <2> QED  BY <1>1, <2>1, <2>2 DEF Q!Next
<1> QED  BY <1>1, InitListInv, NextListInv, PTL DEF Q!Spec, Q!PopsInOrder
-------------------------------------------------------------------------------
(* The powers of two that Bitmap uses, from the cardinality of finite sets. *)

FS == INSTANCE FiniteSetTheorems

(* The library's cardinality is that of the standard module. *)
LEMMA SameSets ==
  \A T : FS!Cardinality(T) = Cardinality(T) /\ (FS!IsFiniteSet(T) <=> IsFiniteSet(T))
BY DEF FS!IsFiniteSet, IsFiniteSet, FS!Cardinality, Cardinality

(* 2^n is the number of subsets of n things, and a subset of two disjoint    *)
(* sets is a subset of each.                                                 *)
LEMMA PowersOfTwoHold == PowersOfTwo
<1> SUFFICES ASSUME NEW k \in Nat, NEW n \in Nat
             PROVE  2^k \in Nat \ {0} /\ 2^(k + n) = 2^k * 2^n /\ 2^1 = 2
  BY DEF PowersOfTwo
<1>1. ASSUME NEW a \in Nat, NEW b \in Nat
      PROVE  /\ IsFiniteSet(SUBSET (a + 1 .. a + b)) /\ Cardinality(SUBSET (a + 1 .. a + b)) = 2^b
  <2>1. IsFiniteSet(a + 1 .. a + b) /\ Cardinality(a + 1 .. a + b) = b
    <3>1. a + 1 \in Int /\ a + b \in Int /\ (IF a + 1 > a + b THEN 0 ELSE a + b - (a + 1) + 1) = b
      OBVIOUS
    <3>2. /\ FS!IsFiniteSet(a + 1 .. a + b)
          /\ FS!Cardinality(a + 1 .. a + b) = IF a + 1 > a + b THEN 0 ELSE a + b - (a + 1) + 1
      BY <3>1, FS!FS_Interval
    <3> QED  BY SameSets, <3>1, <3>2
  <2> QED  BY ZenonT(30), SameSets, <2>1, FS!FS_SUBSET
<1> DEFINE A == 1 .. k
           B == k + 1 .. k + n
           C == 1 .. k + n
           f == [x \in (SUBSET A) \X (SUBSET B) |-> x[1] \cup x[2]]
<1>2. /\ IsFiniteSet(SUBSET A) /\ Cardinality(SUBSET A) = 2^k
      /\ IsFiniteSet(SUBSET B) /\ Cardinality(SUBSET B) = 2^n
      /\ Cardinality(SUBSET C) = 2^(k + n)
  <2>1. 0 + 1 = 1 /\ 0 + k = k /\ 0 + (k + n) = k + n /\ 0 \in Nat /\ k + n \in Nat
    OBVIOUS
  <2>2. /\ IsFiniteSet(SUBSET (0 + 1 .. 0 + k)) /\ Cardinality(SUBSET (0 + 1 .. 0 + k)) = 2^k
        /\ Cardinality(SUBSET (0 + 1 .. 0 + (k + n))) = 2^(k + n)
    BY Zenon, <1>1, <2>1
  <2>3. IsFiniteSet(SUBSET B) /\ Cardinality(SUBSET B) = 2^n
    BY Zenon, <1>1
  <2> QED  BY Zenon, <2>1, <2>2, <2>3
<1>3. A \cap B = {} /\ A \cup B = C
  OBVIOUS
<1> HIDE DEF A, B, C
<1>4. f \in [(SUBSET A) \X (SUBSET B) -> SUBSET C]
  BY <1>3
<1>5. \A x, y \in (SUBSET A) \X (SUBSET B) : f[x] = f[y] => x = y
  <2> SUFFICES ASSUME NEW x1 \in SUBSET A, NEW x2 \in SUBSET B,
                      NEW y1 \in SUBSET A, NEW y2 \in SUBSET B,
                      x1 \cup x2 = y1 \cup y2
               PROVE  x1 = y1 /\ x2 = y2
    OBVIOUS
  <2> QED  BY Zenon, <1>3
<1>6. \A z \in SUBSET C : \E x \in (SUBSET A) \X (SUBSET B) : f[x] = z
  <2> SUFFICES ASSUME NEW z \in SUBSET C PROVE \E x \in (SUBSET A) \X (SUBSET B) : f[x] = z
    BY Zenon
  <2>1. <<z \cap A, z \cap B>> \in (SUBSET A) \X (SUBSET B) /\ (z \cap A) \cup (z \cap B) = z
    BY Zenon, <1>3
  <2>2. f[<<z \cap A, z \cap B>>] = z
    BY <2>1
  <2> QED  BY Zenon, <2>1, <2>2
<1>7. FS!ExistsBijection((SUBSET A) \X (SUBSET B), SUBSET C)
  <2> HIDE DEF f
  <2>1. f \in FS!Injection((SUBSET A) \X (SUBSET B), SUBSET C)
    BY <1>4, <1>5 DEF FS!Injection, FS!IsInjective
  <2>2. f \in FS!Surjection((SUBSET A) \X (SUBSET B), SUBSET C)
    BY Zenon, <1>4, <1>6 DEF FS!Surjection
  <2> QED  BY Zenon, <2>1, <2>2 DEF FS!ExistsBijection, FS!Bijection
<1>8. /\ IsFiniteSet((SUBSET A) \X (SUBSET B))
      /\ Cardinality((SUBSET A) \X (SUBSET B)) = 2^k * 2^n
  <2>1. FS!IsFiniteSet(SUBSET A) /\ FS!IsFiniteSet(SUBSET B)
    BY Zenon, SameSets, <1>2
  <2>2. /\ FS!IsFiniteSet((SUBSET A) \X (SUBSET B))
        /\ FS!Cardinality((SUBSET A) \X (SUBSET B)) =
             FS!Cardinality(SUBSET A) * FS!Cardinality(SUBSET B)
    BY Zenon, <2>1, FS!FS_Product
  <2> QED  BY Zenon, SameSets, <1>2, <2>2
<1>9. 2^(k + n) = 2^k * 2^n
  BY ZenonT(30), SameSets, <1>2, <1>7, <1>8, FS!FS_Bijection
<1>10. 2^k \in Nat \ {0}
  <2>1. SUBSET A # {}
    BY Zenon
  <2>2. 2^k \in Nat
    BY Zenon, SameSets, <1>2, FS!FS_CardinalityType
  <2>3. 2^k # 0
    BY Zenon, SameSets, <1>2, <2>1, FS!FS_EmptySet
  <2> QED  BY <2>2, <2>3
<1>11. 2^1 = 2
  <2>1. 0 + 1 = 1 /\ 0 \in Nat /\ 1 \in Nat /\ 1 .. 1 = {1} /\ 1 + 1 = 2
    OBVIOUS
  <2>2. Cardinality(SUBSET {1}) = 2^1
    <3>1. Cardinality(SUBSET (0 + 1 .. 0 + 1)) = 2^1
      BY Zenon, <1>1, <2>1
    <3>2. 0 + 1 .. 0 + 1 = {1}
      OBVIOUS
    <3> QED  BY Zenon, <3>1, <3>2
  <2>3. SUBSET {1} = {{}} \cup {{1}} /\ {1} \notin {{}}
    OBVIOUS
  <2>4. IsFiniteSet({{}}) /\ Cardinality({{}}) = 1
    BY Zenon, SameSets, FS!FS_Singleton
  <2>5. Cardinality({{}} \cup {{1}}) = 1 + 1
    BY ZenonT(30), SameSets, <2>3, <2>4, FS!FS_AddElement
  <2> QED  BY Zenon, <2>1, <2>2, <2>3, <2>5
<1> QED  BY Zenon, <1>9, <1>10, <1>11

(* WritesAreExact for every width of a byte, length of the array, content of *)
(* the bitmap and range: SetBitRange writes the bits of its range and        *)
(* AllocatePage() the lowest clear bit, and neither writes any other.        *)
THEOREM WritesAreAlwaysExact == Spec => []WritesAreExact
<1>1. WriteInv => WritesAreExact
  BY DEF WriteInv
<1>2. Spec => []WriteInv
  BY PowersOfTwoHold, WriteInvAlways
<1> QED  BY <1>1, <1>2, PTL
===============================================================================
