--------------------------------- MODULE MADT ---------------------------------
(***************************************************************************)
(* MADT.cpp: ParseMADT walks the entries of the firmware's interrupt table *)
(* and keeps where the I/O APICs and the interrupt source overrides are.   *)
(* Offsets are in bytes from the first entry.  Entries overlap or reach    *)
(* past the end when the firmware's lengths say so; p only grows, so the   *)
(* header at p can be chosen when p gets there.                            *)
(***************************************************************************)
EXTENDS Integers, Sequences

CONSTANTS
  MADTEntryHeader,              \* size of an entry's header: 2 in the code
  MADTHeader,                   \* size of the table's header: 44 in the code
  MADT_IOAPIC, MADT_ISO,        \* sizes of the bodies: 10 and 8 in the code
  IOAPICs, ISOs,                \* lengths of the arrays: 8 and 32 in the code
  MaxEnd,                       \* bound: the length of the table
  MaxEntryLength                \* bound: the length of an entry, 255 in the code

ASSUME MADTAssumption ==
  /\ \A n \in {MADTEntryHeader, MADTHeader, MADT_IOAPIC, MADT_ISO, IOAPICs, ISOs} : n \in Nat \ {0}
  /\ MaxEnd \in Nat /\ MaxEntryLength \in Nat

VARIABLES
  stage, p, end,
  eh,                   \* the header at p
  ioapics, isos,        \* out: where the body of each entry was read
  entries               \* history: the headers that were read

parseVars == <<stage, p, end, eh, ioapics, isos, entries>>

EntryType == {"IOAPIC", "InterruptSourceOverride", "other"}

EntryHeader == [Type : EntryType, Length : 0 .. MaxEntryLength]

ParseInit ==
  /\ stage = "find" /\ p = 0 /\ end = 0
  /\ eh \in EntryHeader
  /\ ioapics = <<>> /\ isos = <<>> /\ entries = <<>>

(* What FindTable returns is left open: the table, or nothing, and then       *)
(* ParseMADT fails and main panics.                                          *)
Begin ==
  /\ stage = "find"
  /\ \/ stage' = "failed" /\ UNCHANGED end
     \/ stage' = "walk" /\ end' \in -MADTHeader .. MaxEnd
  /\ UNCHANGED <<p, eh, ioapics, isos, entries>>

\* Wrong form: a full array is written past its end.
RecordIOAPICUnbounded(at, length, out) ==
  IF length >= MADTEntryHeader + MADT_IOAPIC THEN Append(out, at + MADTEntryHeader) ELSE out

RecordIOAPIC(at, length, out) ==
  IF length >= MADTEntryHeader + MADT_IOAPIC /\ Len(out) < IOAPICs
  THEN Append(out, at + MADTEntryHeader) ELSE out

(* The body is read at the distance of the table's header, not the entry's. *)
RecordISO(at, length, out) ==
  IF length >= MADTEntryHeader + MADT_ISO /\ Len(out) < ISOs
  THEN Append(out, at + MADTHeader) ELSE out

(* p moves to next, where there is a header of its own. *)
MoveTo(next) ==
  /\ p' = next
  /\ \/ next = p /\ eh' = eh
     \/ next # p /\ eh' \in EntryHeader

More == stage = "walk" /\ p + MADTEntryHeader <= end

\* Wrong form: an entry of length 0 is an entry like any other.
EntryOfAnyLength ==
  /\ More
  /\ MoveTo(p + eh.Length)
  /\ entries' = IF eh.Length = 0 THEN entries
                ELSE Append(entries, [at |-> p, type |-> eh.Type, length |-> eh.Length])
  /\ ioapics' = IF eh.Type = "IOAPIC" THEN RecordIOAPIC(p, eh.Length, ioapics) ELSE ioapics
  /\ isos' = IF eh.Type = "InterruptSourceOverride" THEN RecordISO(p, eh.Length, isos) ELSE isos
  /\ UNCHANGED <<stage, end>>

(* One turn of the loop. *)
Entry ==
  /\ More
  /\ \/ /\ eh.Length = 0
        /\ stage' = "done"
        /\ UNCHANGED <<p, eh, ioapics, isos, entries>>
     \/ /\ eh.Length # 0
        /\ MoveTo(p + eh.Length)
        /\ entries' = Append(entries, [at |-> p, type |-> eh.Type, length |-> eh.Length])
        /\ ioapics' = IF eh.Type = "IOAPIC" THEN RecordIOAPIC(p, eh.Length, ioapics) ELSE ioapics
        /\ isos' = IF eh.Type = "InterruptSourceOverride"
                   THEN RecordISO(p, eh.Length, isos) ELSE isos
        /\ UNCHANGED stage
  /\ UNCHANGED end

ReturnTrue ==
  /\ stage = "walk" /\ ~More
  /\ stage' = "done"
  /\ UNCHANGED <<p, end, eh, ioapics, isos, entries>>

Finished == stage \in {"done", "failed"} /\ UNCHANGED parseVars

ParseNext == Begin \/ Entry \/ ReturnTrue \/ Finished

ParseSpec == ParseInit /\ [][ParseNext]_parseVars

FairParseSpec == ParseSpec /\ WF_parseVars(Begin \/ Entry \/ ReturnTrue)
-------------------------------------------------------------------------------
(* Properties. *)

Fits(header, type, least) == header.type = type /\ header.length >= least

(* where lists the first n entries of the type that are long enough, in the  *)
(* order of the table, or all of them if there are fewer.                    *)
AreFirst(where, table, type, least, n) ==
  /\ \A k \in DOMAIN where : k <= n /\ Fits(table[where[k]], type, least)
  /\ \A j, k \in DOMAIN where : j < k => where[j] < where[k]
  /\ \A e \in DOMAIN table : Fits(table[e], type, least) =>
       \/ \E k \in DOMAIN where : where[k] = e
       \/ n \in DOMAIN where /\ where[n] < e

(* The I/O APICs that main makes are the first eight of the table, in its    *)
(* order, each with its own address: none is missed, read twice or mixed up. *)
(* An override is kept for each of the first 32 whole override entries.      *)
TheFirstAreKept ==
  /\ \E where \in [1 .. Len(ioapics) -> DOMAIN entries] :
       /\ AreFirst(where, entries, "IOAPIC", MADTEntryHeader + MADT_IOAPIC, IOAPICs)
       /\ \A k \in 1 .. Len(ioapics) : ioapics[k] = entries[where[k]].at + MADTEntryHeader
  /\ \E where \in [1 .. Len(isos) -> DOMAIN entries] :
       AreFirst(where, entries, "InterruptSourceOverride", MADTEntryHeader + MADT_ISO, ISOs)

(* The walk ends for every table, an entry of length 0 included. *)
ParseEnds == <>(stage \in {"done", "failed"})
===============================================================================
