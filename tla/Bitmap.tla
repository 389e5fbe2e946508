-------------------------------- MODULE Bitmap --------------------------------
(***************************************************************************)
(* The page bitmap as the code stores it: an array of bytes, read and      *)
(* written one bit at a time (Bit.hpp), with the loops of SetBitRange,     *)
(* FindAvailableAddress and AllocatePage() taken one iteration per step.   *)
(* The properties say that each loop computes what PageAllocator takes it  *)
(* to compute in one step.                                                 *)
(***************************************************************************)
EXTENDS Integers

CONSTANTS
  CHAR_BIT,                     \* bits in a byte
  MAX_PHYS_PAGE_BITMAP_INDEX,   \* bytes in the array
  MaxLength,                    \* bound: the longest range asked for
  NULL                          \* nullptr

ASSUME BitmapAssumption ==
  /\ CHAR_BIT \in Nat \ {0}
  /\ MAX_PHYS_PAGE_BITMAP_INDEX \in Nat \ {0}
  /\ MaxLength \in Nat
  /\ NULL \notin Int

size      == MAX_PHYS_PAGE_BITMAP_INDEX
Total     == size * CHAR_BIT
ScanTotal == (size + 1) * CHAR_BIT
Byte      == 0 .. 2^CHAR_BIT - 1

VARIABLES
  data,     \* the array and, at index size, the byte that follows it
  before,   \* data when the call began
  call,     \* the call being executed: operation, first page, length, flag
  pc,       \* "call", inside a loop, or "done"
  i,        \* the loop counter
  run,      \* FindAvailableAddress: clear bits seen in a row
  result    \* the page returned, NULL for nullptr

vars == <<data, before, call, pc, i, run, result>>

Calls ==
  [op : {"SetBitRange"}, first : 0 .. ScanTotal - 1, length : 0 .. MaxLength, flag : {0, 1}]
    \cup [op : {"Find"}, first : {0}, length : 0 .. MaxLength, flag : {0}]
    \cup [op : {"AllocatePage"}, first : {0}, length : {1}, flag : {0}]
-------------------------------------------------------------------------------
(* Bit: 0 past the byte. *)
Bit(value, bit) == IF bit >= CHAR_BIT THEN 0 ELSE (value \div 2^bit) % 2

\* Wrong form: a bit that is already set is added once more.
SetBitAdds(value, bit, flag) ==
  IF bit >= CHAR_BIT THEN value ELSE (value + flag * 2^bit) % 2^CHAR_BIT

(* SetBit: the other bits of the byte keep their value. *)
SetBit(value, bit, flag) ==
  IF bit >= CHAR_BIT THEN value ELSE value + (flag - Bit(value, bit)) * 2^bit

(* The bit of page p, through its index and bit offset. *)
BitOf(bytes, p) == Bit(bytes[p \div CHAR_BIT], p % CHAR_BIT)

Clear(p) == BitOf(data, p) = 0

Put(p, flag) ==
  data' = [data EXCEPT ![p \div CHAR_BIT] = SetBit(@, p % CHAR_BIT, flag)]

Init ==
  /\ data \in [0 .. size -> Byte]
  /\ before = data
  /\ call \in Calls
  /\ pc = "call"
  /\ i = 0 /\ run = 0 /\ result = NULL

Return(value) ==
  /\ pc' = "done" /\ result' = value
  /\ UNCHANGED <<before, call, run>>
-------------------------------------------------------------------------------
(* SetBitRange: the early returns, then one bit per iteration. *)
SetBitRangeEnter ==
  /\ pc = "call" /\ call.op = "SetBitRange"
  /\ IF call.length = 0 \/ call.first >= Total \/ call.first + call.length > Total
     THEN Return(NULL) /\ UNCHANGED <<data, i>>
     ELSE pc' = "set" /\ UNCHANGED <<data, before, call, i, run, result>>

SetBitRangeStep ==
  /\ pc = "set" /\ i < call.length
  /\ Put(call.first + i, call.flag)
  /\ i' = i + 1
  /\ UNCHANGED <<before, call, pc, run, result>>

SetBitRangeExit ==
  /\ pc = "set" /\ i = call.length
  /\ Return(NULL) /\ UNCHANGED <<data, i>>

(* FindAvailableAddress: scans one byte more than the array has. *)
FindEnter ==
  /\ pc = "call" /\ call.op = "Find"
  /\ IF call.length = 0 \/ ScanTotal < call.length
     THEN Return(NULL) /\ UNCHANGED <<data, i>>
     ELSE pc' = "find" /\ UNCHANGED <<data, before, call, i, run, result>>

\* Wrong form: a set bit does not end the run.
FindStepKeepsRun ==
  /\ pc = "find" /\ i < ScanTotal
  /\ IF Clear(i)
     THEN IF run + 1 = call.length
          THEN Return(i - (call.length - 1)) /\ UNCHANGED <<data, i>>
          ELSE run' = run + 1 /\ i' = i + 1 /\ UNCHANGED <<data, before, call, pc, result>>
     ELSE i' = i + 1 /\ UNCHANGED <<data, before, call, pc, run, result>>

FindStep ==
  /\ pc = "find" /\ i < ScanTotal
  /\ \/ /\ Clear(i) /\ run + 1 = call.length
        /\ Return(i - (call.length - 1)) /\ UNCHANGED <<data, i>>
     \/ /\ Clear(i) /\ run + 1 # call.length
        /\ run' = run + 1 /\ i' = i + 1
        /\ UNCHANGED <<data, before, call, pc, result>>
     \/ /\ ~Clear(i)
        /\ run' = 0 /\ i' = i + 1
        /\ UNCHANGED <<data, before, call, pc, result>>

FindExit ==
  /\ pc = "find" /\ i = ScanTotal
  /\ Return(NULL) /\ UNCHANGED <<data, i>>

(* AllocatePage(): the nested loops over bytes and bits visit page i; the *)
(* first clear bit is set and its page returned.                          *)
AllocatePageStep ==
  /\ pc = "call" /\ call.op = "AllocatePage"
  /\ \/ /\ i < Total /\ Clear(i)
        /\ Put(i, 1) /\ Return(i) /\ UNCHANGED i
     \/ /\ i < Total /\ ~Clear(i)
        /\ i' = i + 1 /\ UNCHANGED <<data, before, call, pc, run, result>>
     \/ /\ i = Total
        /\ Return(NULL) /\ UNCHANGED <<data, i>>

Done == pc = "done" /\ UNCHANGED vars

Next ==
  \/ SetBitRangeEnter \/ SetBitRangeStep \/ SetBitRangeExit
  \/ FindEnter \/ FindStep \/ FindExit
  \/ AllocatePageStep
  \/ Done

Spec == Init /\ [][Next]_vars
-------------------------------------------------------------------------------
(* Properties. *)

Pages == 0 .. ScanTotal - 1

Run(first, length) == first .. first + length - 1

FitsAt(p, length) == \A q \in Run(p, length) : q \in Pages /\ Clear(q)

(* A finished FindAvailableAddress returns the lowest page at which a run of *)
(* the requested length is clear, and nullptr exactly if there is none.      *)
FindIsFirstFit ==
  pc = "done" /\ call.op = "Find" =>
    IF result = NULL
    THEN call.length = 0 \/ \A p \in Pages : ~FitsAt(p, call.length)
    ELSE /\ result \in Pages /\ FitsAt(result, call.length)
         /\ \A p \in Pages : p < result => ~FitsAt(p, call.length)

(* A finished SetBitRange has set exactly the bits of its range, across byte *)
(* boundaries, or, if the range leaves the array, no bit at all; the byte    *)
(* after the array is never written.  A finished AllocatePage() has taken    *)
(* the lowest clear bit of the array and changed no other bit; it returns    *)
(* nullptr only if every bit was set.                                        *)
WritesAreExact ==
  pc = "done" =>
    \A p \in Pages :
      /\ call.op = "SetBitRange" =>
           BitOf(data, p) =
             IF call.first + call.length <= Total /\ p \in Run(call.first, call.length)
             THEN call.flag ELSE BitOf(before, p)
      /\ call.op = "AllocatePage" =>
           /\ BitOf(data, p) = IF p = result THEN 1 ELSE BitOf(before, p)
           /\ BitOf(before, p) = 0 /\ p < Total => result # NULL /\ result <= p
           /\ p = result => BitOf(before, p) = 0
===============================================================================
