--------------------------- MODULE SerialWriteProofs ---------------------------
(***************************************************************************)
(* What holds of the serial port for any number of CPUs, any strings and   *)
(* any number of calls.  The lock is used through the invariant of module  *)
(* TicketLockProofs, whose steps those of TakeLock and ReleaseLock are.    *)
(***************************************************************************)
EXTENDS SerialWrite, TLAPS

Places == {"out", "save", "lock", "send", "put", "flush", "restore", "ends"}

Byte == [call : Nat, put : BOOLEAN, place : Nat, byte : Letters \cup {"\r"}]

TypeOK ==
  /\ at \in [Contexts -> Places]
  /\ call \in [Contexts -> Nat] /\ writes \in Nat
  /\ text \in [Contexts -> Seq(Letters)] /\ p \in [Contexts -> Nat \ {0}]
  /\ cr \in [Contexts -> BOOLEAN] /\ polled \in [Contexts -> BOOLEAN]
  /\ State \in [Contexts -> BOOLEAN]
  /\ flag \in [CPUs -> BOOLEAN] /\ asked \in [CPUs -> BOOLEAN]
  /\ mode \in [CPUs -> {"thread", "handler", "halted"}]
  /\ held \in Nat /\ wire \in Seq(Byte)

(* Where a context has turned interrupts off and not restored them yet. *)
Off == {"lock", "send", "restore"}

(* A thread that has turned interrupts off is not interrupted, and has saved *)
(* what it had asked for; a handler is in no call when it does not run, and  *)
(* saves that they were off.                                                 *)
FlagOf(c) ==
  LET th == <<c, "thread">>
      h  == <<c, "handler">>
  IN  /\ mode[c] = "handler" => ~flag[c] /\ at[th] \notin Off
      /\ mode[c] # "handler" => at[h] = "out"
      /\ at[h] \notin {"put", "flush"} /\ ~State[h]
      /\ mode[c] = "thread" /\ at[th] \notin Off => flag[c] = asked[c]
      /\ at[th] \in Off => State[th] = asked[c] /\ ~flag[c]

FlagInv == \A c \in CPUs : FlagOf(c)

HoldInv == \A x \in Contexts : at[x] = "send" => pc[x] = "held"

(* Calls have different numbers, and none is higher than writes. *)
CallInv ==
  /\ \A x \in Contexts : call[x] <= writes
  /\ \A x, y \in Contexts : call[x] = call[y] /\ call[x] # 0 => x = y
  /\ \A x \in Contexts : at[x] \in {"save", "lock", "send", "put"} => call[x] # 0
  /\ \A i \in DOMAIN wire : wire[i].call <= writes

(* What is on the wire of a call that is under way. *)
WireInv ==
  \A x \in Contexts :
    /\ at[x] \in {"save", "lock"} => \A i \in DOMAIN wire : wire[i].call # call[x]
    /\ at[x] = "put" => \A i \in DOMAIN wire : wire[i].call = call[x] => wire[i].put
    /\ at[x] = "send" =>
         \A i, j \in DOMAIN wire :
           i <= j /\ wire[i].call = call[x] => wire[j].call = call[x] \/ wire[j].put

Polled == {x \in Contexts : polled[x]}

(* A context that has found the port empty sends its byte next; those that   *)
(* have, and the bytes sent since, are never more than the threads and one.  *)
PollInv ==
  /\ \A x \in Polled : at[x] \in {"send", "put"} /\ p[x] <= Len(text[x])
  /\ held + Cardinality(Polled) <= Cardinality(CPUs) + 1

Marks == HoldInv /\ CallInv /\ WireInv /\ StringsNeverMix

(* What is used of the lock. *)
OneHolder ==
  /\ pc \in [Contexts -> {"out", "spin", "owner", "next", "held"}]
  /\ \A x, y \in Contexts : pc[x] = "held" /\ pc[y] = "held" => x = y
-------------------------------------------------------------------------------
(* The wire: what a call does to the marks of the bytes. *)

LEMMA Appended ==
  ASSUME NEW S, NEW q \in Seq(S), NEW b
  PROVE  /\ b \in S => Append(q, b) \in Seq(S)
         /\ Len(q) \in Nat /\ DOMAIN q = 1 .. Len(q)
         /\ DOMAIN Append(q, b) = 1 .. Len(q) + 1
         /\ \A i \in 1 .. Len(q) : Append(q, b)[i] = q[i]
         /\ Append(q, b)[Len(q) + 1] = b
OBVIOUS

LEMMA BytesAreTyped ==
  ASSUME TypeOK
  PROVE  \A i \in DOMAIN wire : wire[i].call \in Nat /\ wire[i].put \in BOOLEAN
<1>1. \A i \in DOMAIN wire : wire[i] \in Byte
  BY DEF TypeOK
<1> QED  BY <1>1 DEF Byte

LEMMA EnterMarks ==
  ASSUME TypeOK, Marks, NEW x \in Contexts, NEW s, NEW to \in {"save", "put", "flush"},
         Enter(x, s, to), wire' = wire, pc' = pc
  PROVE  Marks'
<1> USE DEF TypeOK, Marks
<1>1. writes' = writes + 1 /\ call' = [call EXCEPT ![x] = writes + 1]
  BY DEF Enter
<1>2. \E q \in {"save", "put", "flush", "out", "ends"} : at' = [at EXCEPT ![x] = q]
  BY Zenon DEF Enter, Goto, Returned
<1>3. HoldInv'
  BY <1>2 DEF HoldInv
<1>4. CallInv'
  <2>1. \A y \in Contexts : call[y] \in Nat /\ call[y] <= writes /\ call'[y] = IF y = x THEN writes + 1 ELSE call[y]
    BY <1>1 DEF CallInv
  <2>2. \A i \in DOMAIN wire : wire[i].call \in Nat /\ wire[i].call <= writes
    BY BytesAreTyped DEF CallInv
  <2>3. \A y \in Contexts : at'[y] \in {"save", "lock", "send", "put"} => call'[y] # 0
    BY <1>2, <2>1 DEF CallInv
  <2>4. \A y, z \in Contexts : call'[y] = call'[z] /\ call'[y] # 0 => y = z
    <3> SUFFICES ASSUME NEW y \in Contexts, NEW z \in Contexts, call'[y] = call'[z], call'[y] # 0
                 PROVE  y = z
      OBVIOUS
    <3>1. y = x <=> z = x
      BY <2>1
    <3> QED  BY Zenon, <2>1, <3>1 DEF CallInv
  <2> QED  BY <1>1, <2>1, <2>2, <2>3, <2>4 DEF CallInv
<1>5. \A i \in DOMAIN wire : wire[i].call # call'[x]
  BY SMTT(20), <1>1 DEF CallInv, Byte
<1>6. WireInv'
  BY <1>1, <1>2, <1>5 DEF WireInv
<1>7. StringsNeverMix'
  BY Zenon DEF StringsNeverMix
<1> QED  BY <1>3, <1>4, <1>6, <1>7

LEMMA MoveMarks ==
  ASSUME TypeOK, Marks, NEW x \in Contexts, NEW to,
         at' = [at EXCEPT ![x] = to], to \notin {"save", "put"},
         to = "lock" => at[x] = "save",
         to = "send" => at[x] = "lock" /\ pc'[x] = "held",
         \A y \in Contexts \ {x} : pc'[y] = pc[y],
         UNCHANGED <<call, writes, wire>>
  PROVE  Marks'
<1> USE DEF TypeOK, Marks
<1>1. HoldInv'
  BY Zenon DEF HoldInv
<1>2. CallInv'
  BY DEF CallInv
<1>3. WireInv'
  BY DEF WireInv
<1>4. StringsNeverMix'
  BY Zenon DEF StringsNeverMix
<1> QED  BY <1>1, <1>2, <1>3, <1>4

LEMMA SendMarks ==
  ASSUME TypeOK, OneHolder, Marks, NEW x \in Contexts, at[x] \in {"send", "put"}, NEW v,
         wire' = Append(wire, Taken(x, v)),
         UNCHANGED <<at, call, writes, pc>>
  PROVE  Marks'
<1> USE DEF TypeOK, Marks
<1> DEFINE n == Len(wire) + 1
<1>1. /\ DOMAIN wire = 1 .. n - 1 /\ DOMAIN wire' = 1 .. n
      /\ \A i \in DOMAIN wire : wire'[i] = wire[i]
      /\ wire'[n].call = call[x] /\ (wire'[n].put <=> at[x] = "put")
  <2> DEFINE b == Taken(x, v)
  <2>1. b.call = call[x] /\ (b.put <=> at[x] = "put")
    BY Zenon DEF Taken
  <2> HIDE DEF b
  <2>2. wire \in Seq(Byte) /\ wire' = Append(wire, b)
    BY DEF b
  <2> QED  BY <2>1, <2>2, Appended
<1>2. n \in Nat /\ n \in DOMAIN wire' /\ \A i \in DOMAIN wire' : i = n \/ (i \in DOMAIN wire /\ i < n)
  BY <1>1
<1>3. call[x] # 0 /\ call[x] <= writes
  BY DEF CallInv
<1> HIDE DEF n
<1>4. HoldInv'
  BY DEF HoldInv
<1>5. CallInv'
  BY <1>1, <1>2, <1>3 DEF CallInv
<1>6. ASSUME NEW y \in Contexts, y # x PROVE call[y] # call[x] /\ ~(at[y] = "send" /\ at[x] = "send")
  BY <1>3, <1>6 DEF CallInv, HoldInv, OneHolder
<1>7. WireInv'
  <2> SUFFICES ASSUME NEW y \in Contexts
               PROVE  /\ at[y] \in {"save", "lock"} => \A i \in DOMAIN wire' : wire'[i].call # call[y]
                      /\ at[y] = "put" => \A i \in DOMAIN wire' : wire'[i].call = call[y] => wire'[i].put
                      /\ at[y] = "send" =>
                           \A i, j \in DOMAIN wire' :
                             i <= j /\ wire'[i].call = call[y] => wire'[j].call = call[y] \/ wire'[j].put
    BY Zenon DEF WireInv
  <2>1. at[y] \in {"save", "lock"} => \A i \in DOMAIN wire' : wire'[i].call # call[y]
    BY <1>1, <1>2, <1>6 DEF WireInv
  <2>2. at[y] = "put" => \A i \in DOMAIN wire' : wire'[i].call = call[y] => wire'[i].put
    BY <1>1, <1>2, <1>6 DEF WireInv
  <2>3. ASSUME at[y] = "send", NEW i \in DOMAIN wire', NEW j \in DOMAIN wire', i <= j,
               wire'[i].call = call[y]
        PROVE  wire'[j].call = call[y] \/ wire'[j].put
    <3>1. CASE j = n
      BY <1>1, <1>6, <2>3, <3>1
    <3>2. CASE j # n
      <4>1. i \in DOMAIN wire /\ j \in DOMAIN wire
        BY <1>1, <1>2, <2>3, <3>2
      <4> QED  BY ZenonT(30), <1>1, <2>3, <4>1 DEF WireInv
    <3> QED  BY <3>1, <3>2
  <2> QED  BY Zenon, <2>1, <2>2, <2>3
<1>8. StringsNeverMix'
  <2> SUFFICES ASSUME NEW i \in DOMAIN wire', NEW k \in DOMAIN wire', NEW j \in i .. k,
                      wire'[i].call = wire'[k].call, ~wire'[i].put
               PROVE  wire'[j].call = wire'[i].call \/ wire'[j].put
    BY Zenon DEF StringsNeverMix
  <2>1. CASE i = n
    BY <1>1, <1>2, <2>1
  <2>2. CASE i # n /\ k # n
    <3>1. i \in DOMAIN wire /\ k \in DOMAIN wire /\ j \in DOMAIN wire
      BY <1>1, <1>2, <2>2
    <3> QED  BY ZenonT(30), <1>1, <3>1 DEF StringsNeverMix
  <2>3. CASE i # n /\ k = n
    <3>1. i \in DOMAIN wire /\ wire[i].call = call[x] /\ ~wire[i].put
      BY <1>1, <1>2, <2>3
    <3>2. at[x] = "send"
      BY <3>1 DEF WireInv
    <3>3. j = n \/ (j \in DOMAIN wire /\ i <= j)
      BY <1>1, <1>2, <2>3
    <3>4. CASE j = n
      BY <1>1, <3>1, <3>4
    <3>5. CASE j \in DOMAIN wire /\ i <= j
      <4>1. wire[j].call = call[x] \/ wire[j].put
        BY <3>1, <3>2, <3>5 DEF WireInv
      <4> QED  BY Zenon, <1>1, <3>1, <3>5, <4>1
    <3> QED  BY <3>3, <3>4, <3>5
  <2> QED  BY Zenon, <2>1, <2>2, <2>3
<1> QED  BY Zenon, <1>4, <1>5, <1>7, <1>8
-------------------------------------------------------------------------------
(* Types. *)

LEMMA ContextPairs ==
  /\ \A x \in Contexts : x[1] \in CPUs /\ x[2] \in {"thread", "handler"} /\ x = <<x[1], x[2]>>
  /\ \A c \in CPUs : <<c, "thread">> \in Contexts /\ <<c, "handler">> \in Contexts
BY DEF Contexts

LEMMA EnterTypes ==
  ASSUME TypeOK, NEW x \in Contexts, NEW s \in Seq(Letters), NEW to \in {"save", "put", "flush"},
         Enter(x, s, to)
  PROVE  /\ at' \in [Contexts -> Places]
         /\ call' \in [Contexts -> Nat] /\ writes' \in Nat
         /\ text' \in [Contexts -> Seq(Letters)] /\ p' \in [Contexts -> Nat \ {0}]
         /\ cr' \in [Contexts -> BOOLEAN]
         /\ UNCHANGED <<State, polled>>
BY DEF TypeOK, Enter, Goto, Returned, Places

LEMMA TextsAreTyped ==
  (\A s \in Texts : s \in Seq(Letters)) /\ (\A ch \in Chars : <<ch>> \in Seq(Letters)) /\ <<>> \in Seq(Letters)
BY TextsAssumption DEF Letters

LEMMA TypeStep ==
  ASSUME TypeOK, NextStep
  PROVE  TypeOK'
<1>1. CASE Transmit
  BY <1>1 DEF TypeOK, Transmit, lockVars, callVars
<1>2. ASSUME NEW x \in Contexts, CallWrite(x) \/ CallPutChar(x) \/ CallFlush(x) PROVE TypeOK'
  <2>1. PICK s \in Seq(Letters), to \in {"save", "put", "flush"} :
          Enter(x, s, to) /\ UNCHANGED <<held, flag, mode, wire, asked>>
    BY Zenon, <1>2, TextsAreTyped DEF CallWrite, CallPutChar, CallFlush
  <2>2. TypeOK /\ at' \in [Contexts -> Places]
        /\ call' \in [Contexts -> Nat] /\ writes' \in Nat
        /\ text' \in [Contexts -> Seq(Letters)] /\ p' \in [Contexts -> Nat \ {0}]
        /\ cr' \in [Contexts -> BOOLEAN]
        /\ UNCHANGED <<State, polled>>
    BY <2>1, EnterTypes
  <2> QED  BY Zenon, <2>1, <2>2 DEF TypeOK
<1>3. ASSUME NEW x \in Contexts, IRQSaveAndDisable(x) \/ IRQRestore(x) PROVE TypeOK'
  <2>1. PICK to \in Places, b \in BOOLEAN, d \in BOOLEAN :
          /\ at' = [at EXCEPT ![x] = to]
          /\ State' = [State EXCEPT ![x] = b]
          /\ flag' = [flag EXCEPT ![x[1]] = d]
    BY <1>3, ContextPairs, Zenon DEF TypeOK, IRQSaveAndDisable, IRQRestore, Goto, Returned, Places
  <2>2. /\ at' \in [Contexts -> Places] /\ State' \in [Contexts -> BOOLEAN]
        /\ flag' \in [CPUs -> BOOLEAN]
    BY <2>1, ContextPairs DEF TypeOK
  <2> QED  BY <1>3, <2>2 DEF TypeOK, IRQSaveAndDisable, IRQRestore
<1>4. ASSUME NEW x \in Contexts, TakeLock(x) \/ ReleaseLock(x) \/ PutCharReturns(x) \/ FlushReturns(x)
      PROVE  TypeOK'
  BY Zenon, <1>4 DEF TypeOK, TakeLock, ReleaseLock, PutCharReturns, FlushReturns, Goto, Places, callVars
<1>5. ASSUME NEW x \in Contexts, CanTx(x) PROVE TypeOK'
  BY <1>5 DEF TypeOK, CanTx
<1>6. ASSUME NEW x \in Contexts, Send(x) PROVE TypeOK'
  <2>1. text[x][p[x]] \in Letters
    BY <1>6 DEF TypeOK, Send, Sending
  <2>2. PICK v \in Letters \cup {"\r"} : Out8(x, v)
    BY <1>6, <2>1 DEF Send
  <2>3. held' \in Nat /\ polled' \in [Contexts -> BOOLEAN]
    BY <2>2 DEF TypeOK, Out8
  <2>4. Taken(x, v) \in Byte
    BY DEF TypeOK, Byte, Taken
  <2>5. wire' \in Seq(Byte)
    <3>1. wire' = wire \/ wire' = Append(wire, Taken(x, v))
      BY <2>2 DEF Out8
    <3>2. wire \in Seq(Byte)
      BY DEF TypeOK
    <3> QED  BY <2>4, <3>1, <3>2, Appended
  <2>6. p' \in [Contexts -> Nat \ {0}] /\ cr' \in [Contexts -> BOOLEAN]
    <3>1. p' = p \/ p' = [p EXCEPT ![x] = p[x] + 1]
      BY <1>6 DEF Send
    <3>2. \E b \in BOOLEAN : cr' = [cr EXCEPT ![x] = b]
      BY Zenon, <1>6 DEF Send
    <3> QED  BY <3>1, <3>2 DEF TypeOK
  <2> QED  BY Zenon, <1>6, <2>3, <2>5, <2>6 DEF TypeOK, Send
<1>7. ASSUME NEW c \in CPUs, CriticalSection(c) PROVE TypeOK'
  BY <1>7 DEF TypeOK, CriticalSection, callVars
<1>8. ASSUME NEW c \in CPUs, Interrupt(c) PROVE TypeOK'
  <2>1. PICK s \in Seq(Letters) : Enter(<<c, "handler">>, s, "save")
    BY <1>8, TextsAreTyped DEF Interrupt
  <2>2. mode' \in [CPUs -> {"thread", "handler", "halted"}] /\ flag' \in [CPUs -> BOOLEAN]
    BY <1>8 DEF TypeOK, Interrupt
  <2>3. UNCHANGED <<held, wire, asked>>
    BY <1>8 DEF Interrupt
  <2> QED  BY Zenon, <2>1, <2>2, <2>3, EnterTypes, ContextPairs DEF TypeOK
<1>9. ASSUME NEW c \in CPUs, HandlerEnds(c) PROVE TypeOK'
  BY Zenon, <1>9 DEF TypeOK, HandlerEnds, Goto, Places, callVars
<1> QED  BY <1>1, <1>2, <1>3, <1>4, <1>5, <1>6, <1>7, <1>8, <1>9 DEF NextStep, InWrite
-------------------------------------------------------------------------------
(* The interrupt flag. *)

(* A step at one CPU leaves the others as they are. *)
LEMMA FlagElsewhere ==
  ASSUME FlagInv, NEW c \in CPUs, FlagOf(c)',
         \A d \in CPUs \ {c} : mode'[d] = mode[d] /\ flag'[d] = flag[d] /\ asked'[d] = asked[d],
         \A x \in Contexts : x[1] # c => at'[x] = at[x] /\ State'[x] = State[x]
  PROVE  FlagInv'
<1> SUFFICES ASSUME NEW d \in CPUs, d # c PROVE FlagOf(d)'
  BY DEF FlagInv
<1>1. /\ at'[<<d, "thread">>] = at[<<d, "thread">>] /\ at'[<<d, "handler">>] = at[<<d, "handler">>]
      /\ State'[<<d, "thread">>] = State[<<d, "thread">>]
      /\ State'[<<d, "handler">>] = State[<<d, "handler">>]
  BY ContextPairs
<1>2. FlagOf(d)
  BY DEF FlagInv
<1> QED  BY <1>1, <1>2 DEF FlagOf

LEMMA FlagStep ==
  ASSUME TypeOK, FlagInv, NextStep
  PROVE  FlagInv'
<1> USE DEF TypeOK
<1>0. ASSUME UNCHANGED <<mode, flag, asked, at, State>> PROVE FlagInv'
  BY Zenon, <1>0 DEF FlagInv, FlagOf
<1>1. CASE Transmit
  BY <1>0, <1>1 DEF Transmit, callVars
<1>2. ASSUME NEW x \in Contexts, CanTx(x) \/ Send(x) PROVE FlagInv'
  BY <1>0, <1>2 DEF CanTx, Send
<1>3. ASSUME NEW c \in CPUs, CriticalSection(c) PROVE FlagInv'
  <2>1. FlagOf(c)'
    BY <1>3 DEF CriticalSection, FlagInv, FlagOf, Off, callVars
  <2> QED  BY <1>3, <2>1, FlagElsewhere DEF CriticalSection, callVars
<1>4. ASSUME NEW c \in CPUs, Interrupt(c) PROVE FlagInv'
  <2>1. PICK to \in {"save", "ends"} :
          at' = [at EXCEPT ![<<c, "handler">>] = to] /\ State' = State
    BY Zenon, <1>4 DEF Interrupt, Enter, Goto, Returned
  <2>2. FlagOf(c) /\ FlagOf(c)'
    BY <1>4, <2>1, ContextPairs DEF Interrupt, FlagInv, FlagOf, Off
  <2>3. \A d \in CPUs \ {c} : mode'[d] = mode[d] /\ flag'[d] = flag[d] /\ asked'[d] = asked[d]
    BY <1>4 DEF Interrupt
  <2>4. \A x \in Contexts : x[1] # c => at'[x] = at[x] /\ State'[x] = State[x]
    BY <2>1
  <2> QED  BY Zenon, <2>2, <2>3, <2>4, FlagElsewhere
<1>5. ASSUME NEW c \in CPUs, HandlerEnds(c) PROVE FlagInv'
  <2>1. at' = [at EXCEPT ![<<c, "handler">>] = "out"] /\ State' = State /\ asked' = asked
    BY <1>5 DEF HandlerEnds, Goto, callVars
  <2>2. FlagOf(c)
    BY DEF FlagInv
  <2>3. FlagOf(c)'
    BY ZenonT(30), <1>5, <2>1, <2>2, ContextPairs DEF HandlerEnds, FlagOf, Off
  <2>4. \A d \in CPUs \ {c} : mode'[d] = mode[d] /\ flag'[d] = flag[d] /\ asked'[d] = asked[d]
    BY <1>5 DEF HandlerEnds
  <2>5. \A x \in Contexts : x[1] # c => at'[x] = at[x] /\ State'[x] = State[x]
    BY <2>1
  <2> QED  BY Zenon, <2>3, <2>4, <2>5, FlagElsewhere
<1>6. ASSUME NEW x \in Contexts, Runs(x), NEW to \in Places,
             at' = [at EXCEPT ![x] = to], UNCHANGED <<mode, asked>>,
             \A y \in Contexts \ {x} : State'[y] = State[y],
             \A d \in CPUs \ {x[1]} : flag'[d] = flag[d],
             x[2] = "handler" => to \notin {"put", "flush"} /\ ~State'[x] /\ ~flag'[x[1]],
             x[2] = "thread" => IF to \in Off THEN State'[x] = asked[x[1]] /\ ~flag'[x[1]]
                                              ELSE flag'[x[1]] = asked[x[1]]
      PROVE  FlagInv'
  <2> DEFINE c == x[1]
  <2>1. c \in CPUs /\ FlagOf(c)
    BY ContextPairs DEF FlagInv
  <2>2. \A d \in CPUs \ {c} : mode'[d] = mode[d] /\ flag'[d] = flag[d] /\ asked'[d] = asked[d]
    BY <1>6
  <2>3. \A y \in Contexts : y[1] # c => at'[y] = at[y] /\ State'[y] = State[y]
    BY <1>6
  <2>4. CASE x = <<c, "thread">>
    <3>1. FlagOf(c)'
      BY ZenonT(30), <1>6, <2>1, <2>4, ContextPairs DEF FlagOf, Runs
    <3> QED  BY Zenon, <2>1, <2>2, <2>3, <3>1, FlagElsewhere
  <2>5. CASE x = <<c, "handler">>
    <3>1. FlagOf(c)'
      BY ZenonT(30), <1>6, <2>1, <2>5, ContextPairs DEF FlagOf, Runs
    <3> QED  BY Zenon, <2>1, <2>2, <2>3, <3>1, FlagElsewhere
  <2> QED  BY <2>4, <2>5, ContextPairs
<1>7. ASSUME NEW x \in Contexts, Runs(x)
      PROVE  /\ x[2] = "handler" => at[x] \notin {"put", "flush"} /\ ~State[x] /\ ~flag[x[1]]
             /\ x[2] = "thread" => IF at[x] \in Off THEN State[x] = asked[x[1]] /\ ~flag[x[1]]
                                                    ELSE flag[x[1]] = asked[x[1]]
  <2>1. FlagOf(x[1])
    BY ContextPairs DEF FlagInv
  <2>2. x = <<x[1], "thread">> \/ x = <<x[1], "handler">>
    BY ContextPairs
  <2>3. CASE x = <<x[1], "thread">>
    <3>1. x[2] = "thread" /\ mode[x[1]] = "thread"
      BY <1>7, <2>3 DEF Runs
    <3>2. IF at[x] \in Off THEN State[x] = asked[x[1]] /\ ~flag[x[1]] ELSE flag[x[1]] = asked[x[1]]
      BY <2>1, <2>3, <3>1, Zenon DEF FlagOf
    <3> QED  BY <3>1, <3>2
  <2>4. CASE x = <<x[1], "handler">>
    <3>1. x[2] = "handler" /\ mode[x[1]] = "handler"
      BY <1>7, <2>4 DEF Runs
    <3>2. at[x] \notin {"put", "flush"} /\ ~State[x] /\ ~flag[x[1]]
      BY <2>1, <2>4, <3>1, Zenon DEF FlagOf
    <3> QED  BY <3>1, <3>2
  <2> QED  BY <2>2, <2>3, <2>4
<1>8. ASSUME NEW x \in Contexts, CallWrite(x) \/ CallPutChar(x) \/ CallFlush(x) PROVE FlagInv'
  <2>1. PICK to \in {"save", "put", "flush", "out"} : at' = [at EXCEPT ![x] = to]
    BY <1>8 DEF CallWrite, CallPutChar, CallFlush, Enter, Goto, Returned
  <2>2. Runs(x) /\ x[2] = "thread" /\ at[x] = "out" /\ UNCHANGED <<mode, asked, State, flag>>
    BY <1>8 DEF CallWrite, CallPutChar, CallFlush, Enter
  <2>3. flag'[x[1]] = asked[x[1]]
    BY Zenon, <1>7, <2>2 DEF Off
  <2> QED  BY Zenon, <1>6, <2>1, <2>2, <2>3 DEF Off, Places
<1>9. ASSUME NEW x \in Contexts, IRQSaveAndDisable(x) PROVE FlagInv'
  <2>1. /\ Runs(x) /\ at[x] = "save" /\ UNCHANGED <<mode, asked>>
        /\ at' = [at EXCEPT ![x] = "lock"]
        /\ State'[x] = flag[x[1]] /\ \A y \in Contexts \ {x} : State'[y] = State[y]
        /\ ~flag'[x[1]] /\ \A d \in CPUs \ {x[1]} : flag'[d] = flag[d]
    BY Zenon, <1>9, ContextPairs DEF IRQSaveAndDisable, Goto
  <2> QED  BY Zenon, <1>6, <1>7, <2>1 DEF Off, Places
<1>10. ASSUME NEW x \in Contexts, TakeLock(x) \/ ReleaseLock(x) PROVE FlagInv'
  <2>1. Runs(x) /\ at[x] \in Off /\ UNCHANGED <<mode, asked, State, flag>>
    BY <1>10 DEF TakeLock, ReleaseLock, Off, callVars
  <2>2. CASE UNCHANGED at
    BY <1>0, <2>1, <2>2
  <2>3. CASE \E to \in {"send", "restore"} : at' = [at EXCEPT ![x] = to]
    BY ZenonT(30), <1>6, <1>7, <2>1, <2>3 DEF Off, Places
  <2> QED  BY Zenon, <1>10, <2>2, <2>3 DEF TakeLock, ReleaseLock, Goto
<1>11. ASSUME NEW x \in Contexts, IRQRestore(x) PROVE FlagInv'
  <2>1. /\ Runs(x) /\ at[x] = "restore" /\ UNCHANGED <<mode, asked>>
        /\ at' = [at EXCEPT ![x] = Returned(x)]
        /\ State'[x] = FALSE /\ \A y \in Contexts \ {x} : State'[y] = State[y]
        /\ flag'[x[1]] = (flag[x[1]] \/ State[x]) /\ \A d \in CPUs \ {x[1]} : flag'[d] = flag[d]
    BY <1>11, ContextPairs DEF IRQRestore, Goto
  <2>2. Returned(x) \in {"out", "ends"}
    BY DEF Returned
  <2>3. flag[x[1]] \in BOOLEAN /\ State[x] \in BOOLEAN /\ asked[x[1]] \in BOOLEAN
    BY ContextPairs
  <2>4. /\ x[2] = "handler" => ~flag'[x[1]]
        /\ x[2] = "thread" => flag'[x[1]] = asked[x[1]]
    BY <1>7, <2>1, <2>3 DEF Off
  <2> QED  BY Zenon, <1>6, <2>1, <2>2, <2>4 DEF Off, Places
<1>12. ASSUME NEW x \in Contexts, PutCharReturns(x) \/ FlushReturns(x) PROVE FlagInv'
  <2>1. Runs(x) /\ at[x] \in {"put", "flush"} /\ UNCHANGED <<mode, asked, State, flag>>
    BY <1>12 DEF PutCharReturns, FlushReturns, callVars
  <2>2. at' = [at EXCEPT ![x] = "out"]
    BY <1>12 DEF PutCharReturns, FlushReturns, Goto
  <2> QED  BY ZenonT(30), <1>6, <1>7, <2>1, <2>2 DEF Off, Places
<1> QED  BY <1>1, <1>2, <1>3, <1>4, <1>5, <1>8, <1>9, <1>10, <1>11, <1>12 DEF NextStep, InWrite
-------------------------------------------------------------------------------
(* The marks of the bytes, in each step. *)

LEMMA MarksStep ==
  ASSUME TypeOK, OneHolder, Marks, NextStep
  PROVE  Marks'
<1>1. ASSUME UNCHANGED <<at, call, writes, wire, pc>> PROVE Marks'
  BY <1>1 DEF Marks, HoldInv, CallInv, WireInv, StringsNeverMix
<1>2. ASSUME Transmit \/ (\E x \in Contexts : CanTx(x)) \/ (\E c \in CPUs : CriticalSection(c)) PROVE Marks'
  BY Zenon, <1>1, <1>2 DEF Transmit, CanTx, CriticalSection, lockVars, callVars
<1>3. ASSUME NEW x \in Contexts, CallWrite(x) \/ CallPutChar(x) \/ CallFlush(x) PROVE Marks'
  <2>1. PICK s \in Seq(Letters), to \in {"save", "put", "flush"} : Enter(x, s, to)
    BY Zenon, <1>3, TextsAreTyped DEF CallWrite, CallPutChar, CallFlush
  <2>2. wire' = wire /\ pc' = pc
    BY Zenon, <1>3 DEF CallWrite, CallPutChar, CallFlush, lockVars
  <2> QED  BY Zenon, <2>1, <2>2, EnterMarks
<1>4. ASSUME NEW c \in CPUs, Interrupt(c) PROVE Marks'
  <2>1. PICK s : Enter(<<c, "handler">>, s, "save")
    BY Zenon, <1>4 DEF Interrupt
  <2>2. wire' = wire /\ pc' = pc
    BY Zenon, <1>4 DEF Interrupt, lockVars
  <2> QED  BY Zenon, <2>1, <2>2, EnterMarks, ContextPairs
<1>5. ASSUME NEW c \in CPUs, HandlerEnds(c) PROVE Marks'
  <2>1. PICK h \in Contexts : at' = [at EXCEPT ![h] = "out"]
    BY ZenonT(30), <1>5, ContextPairs DEF HandlerEnds, Goto
  <2>2. UNCHANGED <<call, writes, wire, pc>>
    BY <1>5 DEF HandlerEnds, lockVars, callVars
  <2> QED  BY Zenon, <2>1, <2>2, MoveMarks
<1>6. ASSUME NEW x \in Contexts, IRQSaveAndDisable(x) PROVE Marks'
  BY ZenonT(30), <1>6, MoveMarks DEF IRQSaveAndDisable, Goto, lockVars
<1>7. ASSUME NEW x \in Contexts, IRQRestore(x) \/ PutCharReturns(x) \/ FlushReturns(x) PROVE Marks'
  <2>1. \E to \in {"out", "ends"} : at' = [at EXCEPT ![x] = to]
    BY <1>7 DEF IRQRestore, PutCharReturns, FlushReturns, Goto, Returned
  <2>2. UNCHANGED <<call, writes, wire, pc>>
    BY <1>7 DEF IRQRestore, PutCharReturns, FlushReturns, lockVars, callVars
  <2> QED  BY Zenon, <2>1, <2>2, MoveMarks
<1>8. ASSUME NEW x \in Contexts, TakeLock(x) PROVE Marks'
  <2>1. at[x] = "lock" /\ UNCHANGED <<call, writes, wire>>
    BY Zenon, <1>8 DEF TakeLock, callVars
  <2>2. CASE Lk!Lock(x) /\ UNCHANGED at
    <3>1. \A y \in Contexts \ {x} : pc'[y] = pc[y]
      BY <2>2 DEF Lk!Lock, Lk!Goto, OneHolder
    <3>2. HoldInv'
      BY <2>1, <2>2, <3>1 DEF HoldInv, Marks
    <3> QED  BY <2>1, <2>2, <3>2 DEF Marks, CallInv, WireInv, StringsNeverMix
  <2>3. CASE Lk!Spin(x) /\ Goto(x, "send")
    <3>1. pc'[x] = "held" /\ \A y \in Contexts \ {x} : pc'[y] = pc[y]
      BY <2>3 DEF Lk!Spin, Lk!Goto, OneHolder
    <3> QED  BY Zenon, <2>1, <2>3, <3>1, MoveMarks DEF Goto
  <2> QED  BY <1>8, <2>2, <2>3 DEF TakeLock
<1>9. ASSUME NEW x \in Contexts, ReleaseLock(x) PROVE Marks'
  <2>1. \A y \in Contexts \ {x} : pc'[y] = pc[y]
    BY <1>9 DEF ReleaseLock, Lk!Unlock, Lk!Goto, OneHolder
  <2>2. at' = [at EXCEPT ![x] = "restore"] /\ UNCHANGED <<call, writes, wire>>
    BY <1>9 DEF ReleaseLock, Goto, callVars
  <2> QED  BY Zenon, <2>1, <2>2, MoveMarks
<1>10. ASSUME NEW x \in Contexts, Send(x) PROVE Marks'
  <2>1. at[x] \in {"send", "put"} /\ UNCHANGED <<at, call, writes, pc>>
    BY Zenon, <1>10 DEF Send, Sending, lockVars
  <2>2. PICK v : Out8(x, v)
    BY Zenon, <1>10 DEF Send
  <2>3. CASE wire' = wire
    BY <1>1, <2>1, <2>3
  <2>4. CASE wire' = Append(wire, Taken(x, v))
    BY <2>1, <2>4, SendMarks
  <2> QED  BY Zenon, <2>2, <2>3, <2>4 DEF Out8
<1> QED  BY Zenon, <1>2, <1>3, <1>4, <1>5, <1>6, <1>7, <1>8, <1>9, <1>10 DEF NextStep, InWrite
-------------------------------------------------------------------------------
(* The room in the port. *)

(* What is used of the cardinality of finite sets.  It is assumed until the  *)
(* library's theorems, which come with those about the lock, prove it.       *)
FiniteSetFacts ==
  /\ Cardinality({}) = 0
  /\ \A S : IsFiniteSet(S) =>
       /\ Cardinality(S) \in Nat
       /\ Cardinality(S) = 0 => S = {}
       /\ \A x \in S : Cardinality(S \ {x}) = Cardinality(S) - 1
       /\ \A x : x \notin S => IsFiniteSet(S \cup {x}) /\ Cardinality(S \cup {x}) = Cardinality(S) + 1
  /\ \A S, T : \A f \in [S -> T] :
       IsFiniteSet(T) /\ (\A x, y \in S : f[x] = f[y] => x = y) =>
         IsFiniteSet(S) /\ Cardinality(S) <= Cardinality(T)

(* The contexts that send are threads in PutChar and the holder of the lock. *)
LEMMA FewSend ==
  ASSUME FiniteSetFacts, TypeOK, OneHolder, FlagInv, HoldInv, NEW S \in SUBSET Contexts,
         \A x \in S : at[x] \in {"send", "put"}
  PROVE  /\ IsFiniteSet(S) /\ Cardinality(S) \in Nat
         /\ Cardinality(S) <= Cardinality(CPUs) + 1
<1> DEFINE P == {x \in S : at[x] = "put"}
           f == [x \in P |-> x[1]]
<1>1. \A x \in P : x = <<x[1], "thread">> /\ x[1] \in CPUs
  <2> SUFFICES ASSUME NEW x \in P PROVE x = <<x[1], "thread">> /\ x[1] \in CPUs
    OBVIOUS
  <2>1. x[1] \in CPUs /\ (x = <<x[1], "thread">> \/ x = <<x[1], "handler">>) /\ at[x] = "put"
    BY ContextPairs
  <2>2. FlagOf(x[1])
    BY <2>1 DEF FlagInv
  <2>3. at[<<x[1], "handler">>] # "put"
    BY <2>2, Zenon DEF FlagOf
  <2> QED  BY <2>1, <2>3
<1>2. f \in [P -> CPUs] /\ \A x, y \in P : f[x] = f[y] => x = y
  BY <1>1
<1>3. /\ IsFiniteSet(P) /\ Cardinality(P) <= Cardinality(CPUs)
      /\ Cardinality(P) \in Nat /\ Cardinality(CPUs) \in Nat
  <2> HIDE DEF P, f
  <2> QED  BY <1>2, ContextsAssumption, Zenon DEF FiniteSetFacts
<1>5. \A x, y \in S \ P : x = y
  BY DEF HoldInv, OneHolder
<1>6. CASE S \ P = {}
  <2>1. S = P
    BY <1>6
  <2> QED  BY <1>3, <2>1
<1>7. CASE S \ P # {}
  <2>1. PICK h \in S \ P : S = P \cup {h}
    BY <1>5, <1>7
  <2>2. h \notin P
    OBVIOUS
  <2> HIDE DEF P
  <2>3. IsFiniteSet(S) /\ Cardinality(S) = Cardinality(P) + 1
    BY <1>3, <2>1, <2>2, ZenonT(30) DEF FiniteSetFacts
  <2> QED  BY <1>3, <2>3
<1> QED  BY <1>6, <1>7

LEMMA PollElsewhere ==
  ASSUME PollInv, NEW x \in Contexts,
         at[x] \in {"send", "put"} => ~(p[x] <= Len(text[x])),
         UNCHANGED <<polled, held>>,
         \A y \in Contexts \ {x} : at'[y] = at[y] /\ p'[y] = p[y] /\ text'[y] = text[y]
  PROVE  PollInv'
<1>1. Polled' = Polled
  BY DEF Polled
<1>2. x \notin Polled
  BY DEF PollInv
<1>3. Polled \subseteq Contexts \ {x}
  BY <1>2 DEF Polled
<1> QED  BY <1>1, <1>3 DEF PollInv

LEMMA PollStep ==
  ASSUME FiniteSetFacts, TypeOK, OneHolder, FlagInv, HoldInv, PollInv, NextStep
  PROVE  PollInv'
<1>1. Polled \subseteq Contexts /\ IsFiniteSet(Polled) /\ Cardinality(Polled) \in Nat
  BY FewSend DEF PollInv, Polled
<1>2. held \in Nat /\ Cardinality(CPUs) \in Nat
  BY ContextsAssumption DEF TypeOK, FiniteSetFacts
<1>3. CASE Transmit
  <2>1. Polled' = Polled /\ held' = held - 1 /\ UNCHANGED <<at, p, text>>
    BY <1>3 DEF Transmit, Polled, callVars
  <2> QED  BY <1>1, <1>2, <2>1 DEF PollInv
<1>4. ASSUME NEW x \in Contexts, CanTx(x) PROVE PollInv'
  <2>1. held' = 0 /\ UNCHANGED <<at, p, text, pc>> /\ at[x] \in {"send", "put"} /\ p[x] <= Len(text[x])
    BY <1>4 DEF CanTx, Sending, lockVars
  <2>2. Polled' = Polled \cup {x}
    BY Zenon, <1>4 DEF CanTx, Polled, TypeOK
  <2>3. \A y \in Polled' : at[y] \in {"send", "put"} /\ p[y] <= Len(text[y])
    BY <2>1, <2>2 DEF PollInv
  <2>4. Cardinality(Polled') \in Nat /\ Cardinality(Polled') <= Cardinality(CPUs) + 1
    BY <1>1, <2>2, <2>3, FewSend
  <2> QED  BY <1>2, <2>1, <2>3, <2>4 DEF PollInv
<1>5. ASSUME NEW x \in Contexts, Send(x) PROVE PollInv'
  <2>1. PICK v : Out8(x, v)
    BY <1>5 DEF Send
  <2>2. x \in Polled /\ Polled' = Polled \ {x} /\ held' \in {held, held + 1}
    BY <2>1 DEF Out8, Polled, TypeOK
  <2>3. Cardinality(Polled') = Cardinality(Polled) - 1
    BY <1>1, <2>2 DEF FiniteSetFacts
  <2>4. UNCHANGED <<at, text>> /\ \A y \in Contexts \ {x} : p'[y] = p[y]
    BY Zenon, <1>5 DEF Send, TypeOK
  <2>5. \A y \in Polled' : at'[y] \in {"send", "put"} /\ p'[y] <= Len(text'[y])
    BY <1>1, <2>2, <2>4 DEF PollInv
  <2>6. held' + Cardinality(Polled') <= Cardinality(CPUs) + 1
    BY <1>1, <1>2, <2>2, <2>3 DEF PollInv
  <2> QED  BY Zenon, <2>5, <2>6 DEF PollInv
<1>6. ASSUME NEW x \in Contexts, NEW s, NEW to, at[x] = "out", Enter(x, s, to), UNCHANGED held PROVE PollInv'
  BY Zenon, <1>6, PollElsewhere DEF Enter, Goto, TypeOK
<1>7. ASSUME NEW x \in Contexts, CallWrite(x) \/ CallPutChar(x) \/ CallFlush(x) PROVE PollInv'
  <2>1. \E s, to : Enter(x, s, to)
    BY Zenon, <1>7 DEF CallWrite, CallPutChar, CallFlush
  <2> QED  BY <1>6, <1>7, <2>1 DEF CallWrite, CallPutChar, CallFlush
<1>8. ASSUME NEW c \in CPUs, Interrupt(c) PROVE PollInv'
  <2>1. mode[c] = "thread" /\ FlagOf(c)
    BY <1>8 DEF Interrupt, FlagInv
  <2>2. at[<<c, "handler">>] = "out"
    BY <2>1 DEF FlagOf
  <2> QED  BY <1>6, <1>8, <2>2, ContextPairs DEF Interrupt
<1>9. ASSUME NEW c \in CPUs, HandlerEnds(c) PROVE PollInv'
  <2>1. /\ at[<<c, "handler">>] = "ends" /\ at' = [at EXCEPT ![<<c, "handler">>] = "out"]
        /\ UNCHANGED <<polled, held, p, text>>
    BY SMTT(20), <1>9 DEF HandlerEnds, Goto, callVars
  <2> QED  BY ZenonT(30), <2>1, PollElsewhere, ContextPairs DEF TypeOK
<1>10. ASSUME NEW c \in CPUs, CriticalSection(c) PROVE PollInv'
  BY Zenon, <1>10 DEF CriticalSection, callVars, PollInv, Polled
<1>11. ASSUME NEW x \in Contexts, IRQSaveAndDisable(x) \/ IRQRestore(x) \/ TakeLock(x) \/ FlushReturns(x) PROVE PollInv'
  <2>1. at[x] \notin {"send", "put"} /\ UNCHANGED <<polled, held, p, text>>
    BY Zenon, <1>11 DEF IRQSaveAndDisable, IRQRestore, TakeLock, FlushReturns, callVars
  <2>2. \A y \in Contexts \ {x} : at'[y] = at[y]
    BY Zenon, <1>11 DEF IRQSaveAndDisable, IRQRestore, TakeLock, FlushReturns, Goto, TypeOK
  <2> QED  BY Zenon, <2>1, <2>2, PollElsewhere
<1>12. ASSUME NEW x \in Contexts, ReleaseLock(x) \/ PutCharReturns(x) PROVE PollInv'
  <2>1. ~(p[x] <= Len(text[x])) /\ UNCHANGED <<polled, held, p, text>>
    BY <1>12 DEF ReleaseLock, PutCharReturns, callVars, TypeOK
  <2>2. \A y \in Contexts \ {x} : at'[y] = at[y]
    BY <1>12 DEF ReleaseLock, PutCharReturns, Goto, TypeOK
  <2> QED  BY <2>1, <2>2, PollElsewhere
<1> QED  BY Zenon, <1>3, <1>4, <1>5, <1>7, <1>8, <1>9, <1>10, <1>11, <1>12 DEF NextStep, InWrite

(* So the port has room for the byte of each that has found it empty. *)
LEMMA RoomForAll ==
  ASSUME FiniteSetFacts, TypeOK, OneHolder, FlagInv, HoldInv, PollInv
  PROVE  \A x \in Contexts : polled[x] => Room > 0
<1> SUFFICES ASSUME NEW x \in Contexts, polled[x] PROVE Room > 0
  OBVIOUS
<1>1. IsFiniteSet(Polled) /\ Cardinality(Polled) \in Nat
  BY FewSend DEF PollInv, Polled
<1>2. Cardinality(Polled) # 0
  BY Zenon, <1>1 DEF Polled, FiniteSetFacts
<1>3. held \in Nat /\ Cardinality(CPUs) \in Nat /\ held + Cardinality(Polled) <= Cardinality(CPUs) + 1
  BY ContextsAssumption DEF FiniteSetFacts, TypeOK, PollInv
<1> QED  BY <1>1, <1>2, <1>3, FifoAssumption DEF Room
-------------------------------------------------------------------------------
(* The string of a call. *)

(* How far a call has come in its string: the characters before place m are  *)
(* sent, of the one at m the '\r' if half.                                   *)
UpTo(w, n, s, m, half) ==
  /\ \A i \in BytesOf(w, n) :
       /\ w[i].place \in DOMAIN s /\ w[i].byte \in Encoding(s[w[i].place])
       /\ w[i].place < m \/ (w[i].place = m /\ half /\ w[i].byte = "\r")
  /\ \A i, j \in BytesOf(w, n) : i < j => Before(w[i].place, w[i].byte, w[j].place, w[j].byte)
  /\ \A k \in DOMAIN s : \A b \in Encoding(s[k]) : k < m => Sent(w, n, k, b)
  /\ half => m \in DOMAIN s /\ s[m] = "\n" /\ Sent(w, n, m, "\r")

LEMMA UpToBegins ==
  ASSUME NEW w, NEW n, NEW s, DOMAIN s \subseteq Int, NEW m \in Int, NEW half \in BOOLEAN,
         UpTo(w, n, s, m, half)
  PROVE  BeginsWith(w, n, s)
<1>1. ASSUME NEW j \in BytesOf(w, n), NEW k \in DOMAIN s, NEW b \in Encoding(s[k]),
             Before(k, b, w[j].place, w[j].byte)
      PROVE  Sent(w, n, k, b)
  <2>1. "\r" # "\n"
    OBVIOUS
  <2>2. k \in Int /\ w[j].place \in Int
    BY Zenon DEF UpTo
  <2>3. w[j].place < m \/ (w[j].place = m /\ w[j].byte = "\r")
    BY Zenon DEF UpTo
  <2>4. k < m
    BY <1>1, <2>1, <2>2, <2>3 DEF Before
  <2> QED  BY Zenon, <2>4 DEF UpTo
<1> QED  BY Zenon, <1>1 DEF BeginsWith, UpTo

(* A call whose number is new has sent nothing. *)
LEMMA UpToNothing ==
  ASSUME NEW w, NEW n, NEW s, DOMAIN s \subseteq Nat \ {0}, \A i \in DOMAIN w : w[i].call # n
  PROVE  UpTo(w, n, s, 1, FALSE)
<1>1. BytesOf(w, n) = {}
  BY Zenon DEF BytesOf
<1>2. \A k \in DOMAIN s : ~(k < 1)
  OBVIOUS
<1> QED  BY Zenon, <1>1, <1>2 DEF UpTo

(* w with the byte e after it. *)
Then(w, v, e) ==
  /\ DOMAIN w \subseteq Nat
  /\ \E n \in Nat : /\ DOMAIN v = DOMAIN w \cup {n} /\ v[n] = e
                    /\ \A i \in DOMAIN w : i < n /\ v[i] = w[i]

LEMMA Longer ==
  ASSUME NEW S, NEW w \in Seq(S), NEW e
  PROVE  Then(w, Append(w, e), e)
<1>1. /\ Len(w) + 1 \in Nat /\ DOMAIN w \subseteq Nat /\ \A i \in DOMAIN w : i < Len(w) + 1
      /\ DOMAIN Append(w, e) = DOMAIN w \cup {Len(w) + 1}
  OBVIOUS
<1>2. Append(w, e)[Len(w) + 1] = e /\ \A i \in DOMAIN w : Append(w, e)[i] = w[i]
  OBVIOUS
<1> QED  BY Zenon, <1>1, <1>2 DEF Then

(* A byte of another call. *)
LEMMA UpToElsewhere ==
  ASSUME NEW w, NEW v, NEW e, Then(w, v, e), NEW n, e.call # n, NEW s, NEW m, NEW half,
         UpTo(w, n, s, m, half)
  PROVE  UpTo(v, n, s, m, half)
<1>1. PICK z \in Nat : /\ DOMAIN v = DOMAIN w \cup {z} /\ v[z] = e
                       /\ \A i \in DOMAIN w : i < z /\ v[i] = w[i]
  BY Zenon DEF Then
<1>2. BytesOf(v, n) = BytesOf(w, n) /\ \A i \in BytesOf(w, n) : v[i] = w[i]
  BY Zenon, <1>1 DEF BytesOf
<1>3. \A k, b : Sent(w, n, k, b) => Sent(v, n, k, b)
  BY Zenon, <1>2 DEF Sent
<1>4. \A i \in BytesOf(v, n) :
        /\ v[i].place \in DOMAIN s /\ v[i].byte \in Encoding(s[v[i].place])
        /\ v[i].place < m \/ (v[i].place = m /\ half /\ v[i].byte = "\r")
  BY Zenon, <1>2 DEF UpTo
<1>5. \A i, j \in BytesOf(v, n) : i < j => Before(v[i].place, v[i].byte, v[j].place, v[j].byte)
  BY Zenon, <1>2 DEF UpTo
<1> QED  BY Zenon, <1>3, <1>4, <1>5 DEF UpTo

(* What Send does to a call that has come to m. *)
Moves(v, n, s, m, half, b) ==
  /\ s[m] = "\n" /\ ~half /\ b = "\r" => UpTo(v, n, s, m, TRUE)
  /\ (s[m] # "\n" \/ half) /\ b = s[m] => UpTo(v, n, s, m + 1, FALSE)

(* The next byte of the call itself. *)
LEMMA UpToNext ==
  ASSUME NEW w, NEW v, NEW e, Then(w, v, e), NEW n, e.call = n, NEW s, DOMAIN s \subseteq Nat \ {0},
         NEW m \in DOMAIN s, NEW half \in BOOLEAN, UpTo(w, n, s, m, half), e.place = m
  PROVE  Moves(v, n, s, m, half, e.byte)
<1>1. PICK z \in Nat : /\ DOMAIN v = DOMAIN w \cup {z} /\ v[z] = e
                       /\ \A i \in DOMAIN w : i < z /\ v[i] = w[i]
  BY Zenon DEF Then
<1>2. BytesOf(v, n) = BytesOf(w, n) \cup {z} /\ \A i \in BytesOf(w, n) : v[i] = w[i] /\ i < z /\ i \in Nat
  BY Zenon, <1>1 DEF BytesOf, Then
<1>3. Sent(v, n, m, e.byte) /\ \A k, b : Sent(w, n, k, b) => Sent(v, n, k, b)
  BY Zenon, <1>1, <1>2 DEF Sent
<1>4. "\r" # "\n" /\ m \in Nat
  OBVIOUS
<1>5. \A i \in BytesOf(w, n) :
        /\ w[i].place \in DOMAIN s /\ w[i].byte \in Encoding(s[w[i].place]) /\ w[i].place \in Nat
        /\ w[i].place < m \/ (w[i].place = m /\ half /\ w[i].byte = "\r")
  BY Zenon DEF UpTo
<1>6. ASSUME s[m] = "\n", ~half, e.byte = "\r" PROVE UpTo(v, n, s, m, TRUE)
  <2>1. e.byte \in Encoding(s[m])
    BY Zenon, <1>6 DEF Encoding
  <2>2. \A i \in BytesOf(w, n) : w[i].place < m
    BY Zenon, <1>5, <1>6
  <2>3. \A i \in BytesOf(v, n) :
          /\ v[i].place \in DOMAIN s /\ v[i].byte \in Encoding(s[v[i].place])
          /\ v[i].place < m \/ (v[i].place = m /\ TRUE /\ v[i].byte = "\r")
    BY Zenon, <1>1, <1>2, <1>5, <1>6, <2>1, <2>2
  <2>4. \A i, j \in BytesOf(v, n) : i < j => Before(v[i].place, v[i].byte, v[j].place, v[j].byte)
    <3> SUFFICES ASSUME NEW i \in BytesOf(v, n), NEW j \in BytesOf(v, n), i < j
                 PROVE  Before(v[i].place, v[i].byte, v[j].place, v[j].byte)
      BY Zenon
    <3>1. i \in BytesOf(w, n)
      BY <1>2
    <3>2. CASE j = z
      BY Zenon, <1>1, <1>2, <2>2, <3>1, <3>2 DEF Before
    <3>3. CASE j \in BytesOf(w, n)
      BY Zenon, <1>2, <3>1, <3>3 DEF UpTo
    <3> QED  BY Zenon, <1>2, <3>2, <3>3
  <2>5. \A k \in DOMAIN s : \A b \in Encoding(s[k]) : k < m => Sent(v, n, k, b)
    BY Zenon, <1>3 DEF UpTo
  <2>6. Sent(v, n, m, "\r")
    BY Zenon, <1>3, <1>6
  <2> QED  BY Zenon, <1>6, <2>3, <2>4, <2>5, <2>6 DEF UpTo
<1>7. ASSUME s[m] # "\n" \/ half, e.byte = s[m] PROVE UpTo(v, n, s, m + 1, FALSE)
  <2>1. e.byte \in Encoding(s[m])
    BY Zenon, <1>7 DEF Encoding
  <2>2. half => s[m] = "\n"
    BY Zenon DEF UpTo
  <2>3. \A i \in BytesOf(w, n) : Before(w[i].place, w[i].byte, m, e.byte)
    BY Zenon, <1>5, <1>7, <2>2 DEF Before
  <2>4. \A k \in DOMAIN s : k < m + 1 <=> k < m \/ k = m
    OBVIOUS
  <2>5. \A i \in BytesOf(v, n) :
          /\ v[i].place \in DOMAIN s /\ v[i].byte \in Encoding(s[v[i].place])
          /\ v[i].place < m + 1
    BY ZenonT(30), <1>1, <1>2, <1>5, <2>1, <2>4
  <2>6. \A i, j \in BytesOf(v, n) : i < j => Before(v[i].place, v[i].byte, v[j].place, v[j].byte)
    <3> SUFFICES ASSUME NEW i \in BytesOf(v, n), NEW j \in BytesOf(v, n), i < j
                 PROVE  Before(v[i].place, v[i].byte, v[j].place, v[j].byte)
      BY Zenon
    <3>1. i \in BytesOf(w, n)
      BY <1>2
    <3>2. CASE j = z
      BY Zenon, <1>1, <1>2, <2>3, <3>1, <3>2
    <3>3. CASE j \in BytesOf(w, n)
      BY Zenon, <1>2, <3>1, <3>3 DEF UpTo
    <3> QED  BY Zenon, <1>2, <3>2, <3>3
  <2>7. ASSUME NEW k \in DOMAIN s, NEW b \in Encoding(s[k]), k < m + 1 PROVE Sent(v, n, k, b)
    <3>1. CASE k < m
      BY Zenon, <1>3, <3>1 DEF UpTo
    <3>2. CASE k = m
      <4>1. b = s[m] \/ (b = "\r" /\ half)
        BY Zenon, <1>7, <2>7, <3>2 DEF Encoding
      <4> QED  BY Zenon, <1>3, <1>7, <3>2, <4>1 DEF UpTo
    <3> QED  BY Zenon, <2>4, <2>7, <3>1, <3>2
  <2> QED  BY Zenon, <2>5, <2>6, <2>7 DEF UpTo
<1> QED  BY Zenon, <1>6, <1>7 DEF Moves

(* Where the string of a call is all sent, if there is a port. *)
AllSent == {"restore", "ends", "out", "flush"}

SpellOf(x) ==
  call[x] # 0 => /\ UpTo(wire, call[x], text[x], p[x], cr[x])
                 /\ ready /\ at[x] \in AllSent => p[x] > Len(text[x])

SpellInv == \A x \in Contexts : SpellOf(x)

LEMMA TextTypes ==
  ASSUME TypeOK, NEW x \in Contexts
  PROVE  /\ text[x] \in Seq(Letters) /\ DOMAIN text[x] = 1 .. Len(text[x]) /\ Len(text[x]) \in Nat
         /\ DOMAIN text[x] \subseteq Nat \ {0} /\ DOMAIN text[x] \subseteq Int
         /\ p[x] \in Nat \ {0} /\ p[x] \in Int /\ cr[x] \in BOOLEAN
<1>1. text[x] \in Seq(Letters) /\ p[x] \in Nat \ {0} /\ cr[x] \in BOOLEAN
  BY Zenon DEF TypeOK
<1> QED  BY <1>1

LEMMA Within ==
  ASSUME NEW n \in Nat, NEW m \in Nat \ {0}, m <= n
  PROVE  m \in 1 .. n
OBVIOUS

(* What the invariant says is what the property asks for. *)
LEMMA SpellsWhole ==
  ASSUME TypeOK, SpellInv
  PROVE  StringsAreSentWhole
<1> SUFFICES ASSUME NEW x \in Contexts, call[x] # 0
             PROVE  /\ BeginsWith(wire, call[x], text[x])
                    /\ ready /\ at[x] \in {"restore", "ends", "out"} =>
                         \A k \in DOMAIN text[x] : \A b \in Encoding(text[x][k]) : Sent(wire, call[x], k, b)
  BY Zenon DEF StringsAreSentWhole
<1>1. UpTo(wire, call[x], text[x], p[x], cr[x])
  BY Zenon DEF SpellInv, SpellOf
<1>2. BeginsWith(wire, call[x], text[x])
  BY Zenon, <1>1, TextTypes, UpToBegins
<1>3. ASSUME ready, at[x] \in {"restore", "ends", "out"}, NEW k \in DOMAIN text[x],
             NEW b \in Encoding(text[x][k])
      PROVE  Sent(wire, call[x], k, b)
  <2>1. p[x] > Len(text[x])
    BY Zenon, <1>3 DEF SpellInv, SpellOf, AllSent
  <2>2. k < p[x]
    BY <2>1, TextTypes
  <2> QED  BY Zenon, <1>1, <2>2 DEF UpTo
<1> QED  BY Zenon, <1>2, <1>3

(* A step that sends nothing and begins no call. *)
LEMMA MoveSpells ==
  ASSUME SpellInv, UNCHANGED <<call, text, p, cr, wire, ready>>,
         \A x \in Contexts : at'[x] \in AllSent => at[x] \in AllSent \/ p[x] > Len(text[x])
  PROVE  SpellInv'
BY Zenon DEF SpellInv, SpellOf

LEMMA EnterSpells ==
  ASSUME TypeOK, CallInv, SpellInv, NEW x \in Contexts, NEW s \in Seq(Letters),
         NEW to \in {"save", "put", "flush"}, to = "flush" => s = <<>>,
         Enter(x, s, to), UNCHANGED <<wire, ready>>
  PROVE  SpellInv'
<1>1. /\ call'[x] = writes + 1 /\ text'[x] = s /\ p'[x] = 1 /\ cr'[x] = FALSE
      /\ at'[x] = IF ready THEN to ELSE Returned(x)
      /\ \A y \in Contexts \ {x} : /\ call'[y] = call[y] /\ text'[y] = text[y] /\ p'[y] = p[y]
                                   /\ cr'[y] = cr[y] /\ at'[y] = at[y]
  BY DEF Enter, Goto, TypeOK
<1>2. \A i \in DOMAIN wire : wire[i].call # writes + 1
  <2>1. writes \in Nat /\ \A i \in DOMAIN wire : wire[i].call \in Nat /\ wire[i].call <= writes
    BY SMTT(20), BytesAreTyped DEF CallInv, TypeOK
  <2> QED  BY SMTT(20), <2>1
<1>3. SpellOf(x)'
  <2>1. DOMAIN s \subseteq Nat \ {0} /\ Len(<<>>) = 0 /\ 1 > 0
    OBVIOUS
  <2>2. UpTo(wire, writes + 1, s, 1, FALSE)
    BY ZenonT(30), <1>2, <2>1, UpToNothing
  <2>3. ready /\ at'[x] \in AllSent => to = "flush"
    BY <1>1 DEF AllSent
  <2>4. ready /\ at'[x] \in AllSent => 1 > Len(s)
    BY Zenon, <2>1, <2>3
  <2> QED  BY Zenon, <1>1, <2>2, <2>4 DEF SpellOf
<1>4. \A y \in Contexts \ {x} : SpellOf(y)'
  BY Zenon, <1>1 DEF SpellInv, SpellOf
<1> QED  BY Zenon, <1>3, <1>4 DEF SpellInv

LEMMA SendSpells ==
  ASSUME TypeOK, CallInv, SpellInv, NEW x \in Contexts, polled[x] => Room > 0, Send(x)
  PROVE  SpellInv'
<1>1. /\ at[x] \in {"send", "put"} /\ p[x] <= Len(text[x])
      /\ UNCHANGED <<at, text, call, ready>>
      /\ \A y \in Contexts \ {x} : p'[y] = p[y] /\ cr'[y] = cr[y]
  BY DEF Send, Sending, TypeOK
<1>2. PICK v :
        /\ wire' = Append(wire, Taken(x, v))
        /\ \/ text[x][p[x]] = "\n" /\ ~cr[x] /\ v = "\r" /\ p'[x] = p[x] /\ cr'[x] = TRUE
           \/ /\ text[x][p[x]] # "\n" \/ cr[x]
              /\ v = text[x][p[x]] /\ p'[x] = p[x] + 1 /\ cr'[x] = FALSE
  BY ZenonT(30) DEF Send, Out8, TypeOK
<1> DEFINE e == Taken(x, v)
<1>3. e.call = call[x] /\ e.place = p[x] /\ e.byte = v
  BY Zenon DEF Taken
<1>4. Then(wire, wire', e)
  <2>1. wire \in Seq(Byte) /\ wire' = Append(wire, e)
    BY Zenon, <1>2 DEF TypeOK
  <2> HIDE DEF e
  <2> QED  BY Zenon, <2>1, Longer
<1> HIDE DEF e
<1>5. call[x] # 0
  BY Zenon, <1>1 DEF CallInv
<1>6. SpellOf(x)'
  <2>1. UpTo(wire, call[x], text[x], p[x], cr[x])
    BY Zenon, <1>5 DEF SpellInv, SpellOf
  <2>2. p[x] \in DOMAIN text[x]
    BY Zenon, <1>1, TextTypes, Within
  <2>3. Moves(wire', call[x], text[x], p[x], cr[x], e.byte)
    <3>1. DOMAIN text[x] \subseteq Nat \ {0} /\ cr[x] \in BOOLEAN
      BY Zenon, TextTypes
    <3> QED  BY Zenon, <1>3, <1>4, <2>1, <2>2, <3>1, UpToNext
  <2>4. UpTo(wire', call[x], text[x], p'[x], cr'[x])
    BY ZenonT(30), <1>2, <1>3, <2>3 DEF Moves
  <2>5. at[x] \notin AllSent
    BY Zenon, <1>1 DEF AllSent
  <2> QED  BY Zenon, <1>1, <2>4, <2>5 DEF SpellOf
<1>7. ASSUME NEW y \in Contexts, y # x PROVE SpellOf(y)'
  <2>1. call[y] # 0 => e.call # call[y]
    BY Zenon, <1>3, <1>5, <1>7 DEF CallInv
  <2>2. call[y] # 0 => UpTo(wire', call[y], text[y], p[y], cr[y])
    BY Zenon, <1>4, <2>1, UpToElsewhere DEF SpellInv, SpellOf
  <2> QED  BY Zenon, <1>1, <1>7, <2>2 DEF SpellInv, SpellOf
<1> QED  BY ZenonT(30), <1>6, <1>7 DEF SpellInv

LEMMA SpellStep ==
  ASSUME TypeOK, CallInv, SpellInv, \A x \in Contexts : polled[x] => Room > 0, NextStep
  PROVE  SpellInv'
<1>1. ASSUME Transmit \/ \E c \in CPUs : CriticalSection(c) PROVE SpellInv'
  BY Zenon, <1>1, MoveSpells DEF Transmit, CriticalSection, callVars
<1>2. ASSUME NEW x \in Contexts, CallWrite(x) \/ CallPutChar(x) \/ CallFlush(x) PROVE SpellInv'
  <2>1. PICK s \in Seq(Letters), to \in {"save", "put", "flush"} :
          Enter(x, s, to) /\ (to = "flush" => s = <<>>)
    BY Zenon, <1>2, TextsAreTyped DEF CallWrite, CallPutChar, CallFlush
  <2>2. UNCHANGED <<wire, ready>>
    BY Zenon, <1>2 DEF CallWrite, CallPutChar, CallFlush
  <2> QED  BY Zenon, <2>1, <2>2, EnterSpells
<1>3. ASSUME NEW c \in CPUs, Interrupt(c) PROVE SpellInv'
  <2>1. PICK s \in Seq(Letters) : Enter(<<c, "handler">>, s, "save")
    BY Zenon, <1>3, TextsAreTyped DEF Interrupt
  <2>2. UNCHANGED <<wire, ready>>
    BY Zenon, <1>3 DEF Interrupt
  <2>3. "save" # "flush"
    OBVIOUS
  <2> QED  BY Zenon, <2>1, <2>2, <2>3, EnterSpells, ContextPairs
<1>4. ASSUME NEW x \in Contexts, NEW to, at' = [at EXCEPT ![x] = to],
             to \in AllSent => at[x] \in AllSent \/ p[x] > Len(text[x]),
             UNCHANGED <<call, text, p, cr, wire, ready>>
      PROVE  SpellInv'
  <2>1. \A y \in Contexts : at'[y] = IF y = x THEN to ELSE at[y]
    BY Zenon, <1>4 DEF TypeOK
  <2> QED  BY Zenon, <1>4, <2>1, MoveSpells
<1>5. ASSUME NEW c \in CPUs, HandlerEnds(c) PROVE SpellInv'
  <2>1. /\ at[<<c, "handler">>] \in AllSent /\ at' = [at EXCEPT ![<<c, "handler">>] = "out"]
        /\ UNCHANGED <<call, text, p, cr, wire, ready>>
    BY Zenon, <1>5 DEF HandlerEnds, Goto, callVars, AllSent
  <2> QED  BY Zenon, <1>4, <2>1, ContextPairs
<1>6. ASSUME NEW x \in Contexts, TakeLock(x) PROVE SpellInv'
  <2>1. UNCHANGED <<call, text, p, cr, wire, ready>>
    BY Zenon, <1>6 DEF TakeLock, callVars
  <2>2. "send" \notin AllSent
    BY DEF AllSent
  <2>3. CASE UNCHANGED at
    BY Zenon, <2>1, <2>3, MoveSpells
  <2>4. CASE Goto(x, "send")
    BY Zenon, <1>4, <2>1, <2>2, <2>4 DEF Goto
  <2> QED  BY Zenon, <1>6, <2>3, <2>4 DEF TakeLock
<1>7. ASSUME NEW x \in Contexts,
             IRQSaveAndDisable(x) \/ IRQRestore(x) \/ FlushReturns(x) \/ ReleaseLock(x) \/ PutCharReturns(x)
      PROVE  SpellInv'
  <2>1. UNCHANGED <<call, text, p, cr, wire, ready>>
    BY Zenon, <1>7 DEF IRQSaveAndDisable, IRQRestore, FlushReturns, ReleaseLock, PutCharReturns, callVars
  <2>2. "lock" \notin AllSent /\ "restore" \in AllSent /\ "flush" \in AllSent
    BY DEF AllSent
  <2>3. PICK to : at' = [at EXCEPT ![x] = to] /\ (to \in AllSent => at[x] \in AllSent \/ p[x] > Len(text[x]))
    BY Zenon, <1>7, <2>2 DEF IRQSaveAndDisable, IRQRestore, FlushReturns, ReleaseLock, PutCharReturns, Goto
  <2> QED  BY Zenon, <1>4, <2>1, <2>3
<1>8. ASSUME NEW x \in Contexts, CanTx(x) PROVE SpellInv'
  BY Zenon, <1>8, MoveSpells DEF CanTx
<1>9. ASSUME NEW x \in Contexts, Send(x) PROVE SpellInv'
  BY Zenon, <1>9, SendSpells
<1> QED  BY Zenon, <1>1, <1>2, <1>3, <1>5, <1>6, <1>7, <1>8, <1>9 DEF NextStep, InWrite
-------------------------------------------------------------------------------
(* At first, and in a step that changes nothing. *)

LEMMA OthersInit ==
  ASSUME Init
  PROVE  TypeOK /\ FlagInv /\ Marks /\ SpellInv
<1>1. TypeOK
  BY TextsAreTyped DEF Init, TypeOK, Places
<1>2. FlagInv
  BY ZenonT(30), ContextPairs DEF Init, FlagInv, FlagOf, Off
<1>3. HoldInv
  BY DEF Init, HoldInv
<1>4. CallInv
  BY DEF Init, CallInv
<1>5. WireInv /\ StringsNeverMix
  BY DEF Init, WireInv, StringsNeverMix
<1>6. SpellInv
  BY Zenon DEF Init, SpellInv, SpellOf
<1> QED  BY Zenon, <1>1, <1>2, <1>3, <1>4, <1>5, <1>6 DEF Marks

LEMMA PollInit ==
  ASSUME FiniteSetFacts, Init
  PROVE  PollInv
<1>1. Polled = {} /\ held = 0
  BY DEF Init, Polled
<1> QED  BY <1>1, ContextsAssumption DEF PollInv, FiniteSetFacts

LEMMA OthersUnchanged ==
  ASSUME TypeOK, FlagInv, Marks, PollInv, SpellInv, UNCHANGED vars
  PROVE  TypeOK' /\ FlagInv' /\ Marks' /\ PollInv' /\ SpellInv'
<1>1. TypeOK'
  BY Zenon DEF vars, callVars, TypeOK
<1>2. FlagInv'
  BY Zenon DEF vars, callVars, FlagInv, FlagOf
<1>3. Marks' /\ PollInv'
  BY Zenon DEF vars, callVars, lockVars, Marks, HoldInv, CallInv, WireInv, StringsNeverMix, PollInv, Polled
<1>4. SpellInv'
  BY Zenon DEF vars, callVars, SpellInv, SpellOf
<1> QED  BY Zenon, <1>1, <1>2, <1>3, <1>4

LEMMA FlagsAsFound ==
  ASSUME FlagInv
  PROVE  InterruptsAsFound
<1> SUFFICES ASSUME NEW c \in CPUs
             PROVE  /\ mode[c] = "handler" => ~flag[c]
                    /\ mode[c] = "thread" /\ at[<<c, "thread">>] \in {"out", "put", "flush"} => flag[c] = asked[c]
  BY Zenon DEF InterruptsAsFound
<1>1. FlagOf(c)
  BY Zenon DEF FlagInv
<1> QED  BY <1>1 DEF FlagOf, Off
-------------------------------------------------------------------------------
(* The lock. *)

LP == INSTANCE TicketLockProofs WITH CPUs <- Contexts

LEMMA SameSets == \A S : Cardinality(S) = LP!Cardinality(S) /\ (IsFiniteSet(S) <=> LP!IsFiniteSet(S))
BY DEF IsFiniteSet, LP!IsFiniteSet, Cardinality, LP!Cardinality

(* What TicketLock assumes of its CPUs holds of the contexts. *)
LEMMA LockAssumption == M \in Nat /\ LP!IsFiniteSet(Contexts) /\ LP!Cardinality(Contexts) < M
BY Zenon, SameSets, ContextsAssumption

LEMMA FiniteSetFactsHold == FiniteSetFacts
<1>1. Cardinality({}) = 0 /\ \A S : IsFiniteSet(S) /\ Cardinality(S) = 0 => S = {}
  BY Zenon, SameSets, LockAssumption, LP!FS_EmptySet
<1>2. \A S : IsFiniteSet(S) => Cardinality(S) \in Nat
  BY Zenon, SameSets, LockAssumption, LP!FS_CardinalityType
<1>3. \A S, x : IsFiniteSet(S) /\ x \in S => Cardinality(S \ {x}) = Cardinality(S) - 1
  BY ZenonT(30), SameSets, LockAssumption, LP!FS_RemoveElement
<1>4. \A S, x : IsFiniteSet(S) /\ x \notin S =>
        IsFiniteSet(S \cup {x}) /\ Cardinality(S \cup {x}) = Cardinality(S) + 1
  BY Zenon, SameSets, LockAssumption, LP!FS_AddElement
<1>5. ASSUME NEW S, NEW T, NEW f \in [S -> T], IsFiniteSet(T), \A x, y \in S : f[x] = f[y] => x = y
      PROVE  IsFiniteSet(S) /\ Cardinality(S) <= Cardinality(T)
  <2>1. f \in LP!Injection(S, T)
    BY <1>5, Zenon DEF LP!Injection, LP!IsInjective
  <2> QED  BY Zenon, <1>5, <2>1, SameSets, LockAssumption, LP!FS_Injection
<1> QED  BY <1>1, <1>2, <1>3, <1>4, <1>5, ZenonT(30) DEF FiniteSetFacts

LEMMA LockInit == Lk!Init => LP!IInv
BY Zenon, LP!InitIInv, LockAssumption DEF Lk!Init, LP!Init

LEMMA LockStep ==
  ASSUME LP!IInv, NEW x \in Contexts,
         Lk!Lock(x) \/ Lk!Spin(x) \/ Lk!Unlock(x) \/ UNCHANGED lockVars
  PROVE  LP!IInv'
<1>1. [LP!NextStep]_LP!vars
  <2>1. Lk!Lock(x) => LP!Lock(x)
    BY Zenon DEF Lk!Lock, Lk!Goto, Lk!Take, Lk!Inc, Lk!InLine, Lk!NoFullWrap, Lk!Trying,
       LP!Lock, LP!Goto, LP!Take, LP!Inc, LP!InLine, LP!NoFullWrap, LP!Trying
  <2>2. Lk!Spin(x) => LP!Spin(x)
    BY Zenon DEF Lk!Spin, Lk!Goto, LP!Spin, LP!Goto
  <2>3. Lk!Unlock(x) => LP!Unlock(x)
    BY Zenon DEF Lk!Unlock, Lk!Goto, Lk!Inc, LP!Unlock, LP!Goto, LP!Inc
  <2> QED  BY Zenon, <2>1, <2>2, <2>3 DEF LP!NextStep, LP!Step, LP!vars, lockVars
<1> QED  BY Zenon, <1>1, LP!NextIInv, LockAssumption

LEMMA LockExcludes == LP!IInv => OneHolder
<1>1. LP!IInv => pc \in [Contexts -> {"out", "spin", "owner", "next", "held"}]
  BY Zenon DEF LP!IInv, LP!TypeOK
<1> QED  BY Zenon, <1>1, LP!Exclusive, LockAssumption DEF LP!MutualExclusion, OneHolder

LEMMA LockUnchanged == LP!IInv /\ UNCHANGED lockVars => LP!IInv'
BY Zenon, LP!NextIInv, LockAssumption DEF LP!vars, lockVars

LEMMA LockNext ==
  ASSUME LP!IInv, NextStep
  PROVE  LP!IInv'
<1>1. CASE Transmit \/ \E c \in CPUs : CriticalSection(c) \/ Interrupt(c) \/ HandlerEnds(c)
  BY ZenonT(30), <1>1, LockUnchanged DEF Transmit, CriticalSection, Interrupt, HandlerEnds
<1>2. ASSUME NEW x \in Contexts, CallWrite(x) \/ CallPutChar(x) \/ CallFlush(x) \/ InWrite(x)
      PROVE  LP!IInv'
  <2>1. CASE TakeLock(x) \/ ReleaseLock(x)
    BY ZenonT(30), <2>1, LockStep DEF TakeLock, ReleaseLock
  <2>2. CASE ~(TakeLock(x) \/ ReleaseLock(x))
    <3>1. UNCHANGED lockVars
      BY ZenonT(30), <1>2, <2>2 DEF InWrite, CallWrite, CallPutChar, CallFlush, IRQSaveAndDisable, CanTx, Send,
                        IRQRestore, PutCharReturns, FlushReturns
    <3> QED  BY Zenon, <3>1, LockUnchanged
  <2> QED  BY Zenon, <2>1, <2>2
<1> QED  BY Zenon, <1>1, <1>2 DEF NextStep
-------------------------------------------------------------------------------
(* The invariant. *)

IInv == TypeOK /\ LP!IInv /\ FlagInv /\ Marks /\ PollInv /\ SpellInv

LEMMA InitIInv == Init => IInv
<1> SUFFICES ASSUME Init PROVE IInv
  BY Zenon
<1>1. TypeOK /\ FlagInv /\ Marks /\ SpellInv
  BY Zenon, OthersInit
<1>2. LP!IInv
  BY Zenon, LockInit DEF Init
<1>3. PollInv
  BY Zenon, PollInit, FiniteSetFactsHold
<1> QED  BY Zenon, <1>1, <1>2, <1>3 DEF IInv

LEMMA NextIInv == IInv /\ [NextStep]_vars => IInv'
<1>1. ASSUME IInv, NextStep PROVE IInv'
  <2>1. TypeOK /\ OneHolder /\ FlagInv /\ Marks /\ HoldInv /\ CallInv /\ PollInv /\ SpellInv
    BY ZenonT(30), <1>1, LockExcludes DEF IInv, Marks
  <2>2. TypeOK' /\ LP!IInv' /\ FlagInv' /\ Marks'
    BY ZenonT(30), <1>1, <2>1, TypeStep, LockNext, FlagStep, MarksStep DEF IInv
  <2>3. PollInv' /\ SpellInv'
    BY ZenonT(30), <1>1, <2>1, PollStep, RoomForAll, SpellStep, FiniteSetFactsHold
  <2> QED  BY ZenonT(30), <2>2, <2>3 DEF IInv
<1>2. ASSUME IInv, UNCHANGED vars PROVE IInv'
  <2>1. LP!IInv'
    BY Zenon, <1>2, LockUnchanged DEF IInv, vars
  <2>2. TypeOK' /\ FlagInv' /\ Marks' /\ PollInv' /\ SpellInv'
    BY Zenon, <1>2, OthersUnchanged DEF IInv
  <2> QED  BY Zenon, <2>1, <2>2 DEF IInv
<1> QED  BY Zenon, <1>1, <1>2

LEMMA AlwaysIInv == Spec => []IInv
BY InitIInv, NextIInv, PTL DEF Spec
-------------------------------------------------------------------------------
(* The strings of two calls of Write never mix on the wire, whatever the     *)
(* number of CPUs and of handlers that interrupt them: the lock is held, and *)
(* interrupts are off, from the first byte of a string to its last.          *)
THEOREM WriteIsWhole == Spec => []StringsNeverMix
<1>1. IInv => Marks
  BY Zenon DEF IInv
<1>2. Marks => StringsNeverMix
  BY Zenon DEF Marks
<1> QED  BY <1>1, <1>2, AlwaysIInv, PTL

(* Write, PutChar and Flush return with the interrupt flag as it was when    *)
(* they were called, whatever LockIRQSave of other contexts does meanwhile.  *)
THEOREM FlagIsRestored == Spec => []InterruptsAsFound
<1>1. IInv => InterruptsAsFound
  BY Zenon, FlagsAsFound DEF IInv
<1> QED  BY <1>1, AlwaysIInv, PTL

(* A byte that WriteByte sends after CanTx has found the port empty is never *)
(* lost, though PutChar sends without the lock: the FIFO has room for a byte *)
(* of each thread and of the holder of the lock.                             *)
THEOREM NoByteIsLost == Spec => [](\A x \in Contexts : polled[x] => Room > 0)
<1>1. IInv => \A x \in Contexts : polled[x] => Room > 0
  BY ZenonT(30), RoomForAll, LockExcludes, FiniteSetFactsHold DEF IInv, Marks
<1> QED  BY <1>1, AlwaysIInv, PTL

(* StringsAreSentWhole for any number of CPUs, any strings and any number of *)
(* calls: what is on the wire of a call is what its string begins with, '\r' *)
(* before each '\n', and all of it when the call has returned.               *)
THEOREM AllIsSent == Spec => []StringsAreSentWhole
<1>1. IInv => StringsAreSentWhole
  BY Zenon, SpellsWhole DEF IInv
<1> QED  BY <1>1, AlwaysIInv, PTL
===============================================================================
