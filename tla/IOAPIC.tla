-------------------------------- MODULE IOAPIC --------------------------------
(***************************************************************************)
(* IOAPIC.cpp in front of the local APIC of module Interrupts: the lines   *)
(* of the devices reach it through the redirection table, which RouteGSI   *)
(* fills in one half of an entry at a time while the lines are live.       *)
(* A line that is masked is not remembered.  What a level-triggered line  *)
(* asks for again after the end of its interrupt is one more request.      *)
(***************************************************************************)
EXTENDS Interrupts

CONSTANTS
  GSIBase, RedirCount,     \* m_GSIBase, and the last entry of the table
  GSIs,                    \* what RouteGSI may be called for
  Lines,                   \* the vectors given to lines
  Polarities, Triggers,    \* the polarities and triggers they may be given
  Here, Elsewhere,         \* the APIC IDs of this CPU and of another one
  M                        \* numbers are below M: 2^32 in the code

ASSUME IOAPICAssumption ==
  /\ GSIBase \in Nat /\ RedirCount \in Nat /\ M \in Nat /\ GSIBase + RedirCount + 1 < M
  /\ GSIs \subseteq 0 .. M - 1
  /\ Lines \subseteq Devices
  /\ Polarities \subseteq BOOLEAN /\ Triggers \subseteq BOOLEAN
  /\ Here # Elsewhere

VARIABLES
  regs,        \* the registers of the table: the low and the high halves
  call,        \* the call of RouteGSI that is under way
  routed       \* history: what the last call that returned has asked for, of each entry

ioVars == <<regs, call, routed>>
allVars == <<vars, ioVars>>

Entries == 0 .. RedirCount
Dests == {Here, Elsewhere}

regLo(idx) == 16 + 2 * idx
regHi(idx) == regLo(idx) + 1

Low ==
  [vector : Lines \cup {0}, polarity : BOOLEAN, trigger : BOOLEAN, masked : BOOLEAN]

ResetLow == [vector |-> 0, polarity |-> FALSE, trigger |-> FALSE, masked |-> TRUE]

Call == [at : {"none", "first", "second"}, idx : Entries, dest : Dests, low : Low]

NoCall ==
  [at |-> "none", idx |-> 0, dest |-> Here, low |-> ResetLow]

(* Reset leaves the entries masked. *)
IOInit ==
  /\ Init
  /\ regs = [r \in 16 .. regHi(RedirCount) |->
               IF r % 2 = 0 THEN ResetLow ELSE Here]
  /\ call = NoCall
  /\ routed = [i \in Entries |-> [dest |-> Here, low |-> ResetLow]]

OwnsGSI(gsi) ==
  LET max == RedirCount + 1 IN gsi >= GSIBase /\ gsi < (GSIBase + max) % M

Masked(idx) == regs[regLo(idx)].masked

(* RouteGSI up to WriteRedir; it returns at once for a line it does not own. *)
(* The line may be live.                                                     *)
RouteGSI(gsi, vector, destAPICID, polarity, trigger, masked) ==
  LET idx == gsi - GSIBase IN
  /\ frames = <<>> /\ call.at = "none"
  /\ OwnsGSI(gsi)
  /\ call' = [at |-> "first", idx |-> idx, dest |-> destAPICID,
              low |-> [vector |-> vector, polarity |-> polarity, trigger |-> trigger,
                       masked |-> masked]]
  /\ UNCHANGED <<vars, regs, routed>>

\* Wrong form: the low half, with the mask, is written first.
HalfLowFirst(at) == IF at = "first" THEN "lo" ELSE "hi"

(* Which half WriteRedir writes. *)
Half(at) == IF at = "first" THEN "hi" ELSE "lo"

WriteRedir ==
  /\ frames = <<>> /\ call.at # "none"
  /\ regs' = IF Half(call.at) = "hi" THEN [regs EXCEPT ![regHi(call.idx)] = call.dest]
                                     ELSE [regs EXCEPT ![regLo(call.idx)] = call.low]
  /\ \/ /\ call.at = "first" /\ call' = [call EXCEPT !.at = "second"]
        /\ UNCHANGED routed
     \/ /\ call.at = "second" /\ call' = NoCall
        /\ routed' = [routed EXCEPT ![call.idx] = [dest |-> call.dest, low |-> call.low]]
  /\ UNCHANGED vars

(* A device pulls its line. *)
Assert(idx) ==
  /\ ~Masked(idx) /\ regs[regHi(idx)] = Here
  /\ Raise(regs[regLo(idx)].vector)
  /\ UNCHANGED ioVars

IONext ==
  \/ \E gsi \in GSIs, vector \in Lines, dest \in Dests :
       \E polarity \in Polarities, trigger \in Triggers, masked \in BOOLEAN :
         RouteGSI(gsi, vector, dest, polarity, trigger, masked)
  \/ WriteRedir
  \/ \E idx \in Entries : Assert(idx)
  \/ /\ \/ \E v \in Sources \ Lines : Raise(v)
        \/ Deliver \/ Spurious \/ Handling \/ Thread
     /\ UNCHANGED ioVars

IOSpec == IOInit /\ [][IONext]_allVars

FairIOSpec == IOSpec /\ Fairness
-------------------------------------------------------------------------------
(* Properties. *)

(* A line that can interrupt does so as the last call of RouteGSI that has   *)
(* returned asked: with its vector, polarity and trigger and at its CPU.     *)
(* The one exception is the window between the two writes of WriteRedir when *)
(* a line is moved that is live: it still has the old vector, and is at the  *)
(* new CPU already.  A line that was masked is never live half-written, for  *)
(* the half with the mask is written last.                                   *)
LinesGoAsRouted ==
  \A idx \in Entries : ~Masked(idx) =>
    /\ regs[regLo(idx)] = routed[idx].low
    /\ \/ regs[regHi(idx)] = routed[idx].dest
       \/ call.at = "second" /\ call.idx = idx /\ regs[regHi(idx)] = call.dest
===============================================================================
