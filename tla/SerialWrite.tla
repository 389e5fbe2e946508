----------------------------- MODULE SerialWrite -----------------------------
(***************************************************************************)
(* The serial port.  Serial16550::Write sends a string byte by byte under  *)
(* the ticket lock of the port, taken with interrupts off (LockIRQSave);   *)
(* it is called by kernel threads and by the interrupt and exception       *)
(* handlers that print.  SerialConsole::PutChar sends a character, and     *)
(* Flush waits for the port, without the lock.  The lock is that of module *)
(* TicketLock, used here by contexts: on each CPU a thread and a handler   *)
(* that may interrupt it.                                                  *)
(***************************************************************************)
EXTENDS Integers, FiniteSets, Sequences

CONSTANTS
  CPUs,
  M,           \* where the counters of the lock wrap
  Texts,       \* the strings that are written: sequences of characters
  Chars,       \* the characters that are put
  FIFO,        \* how many bytes the port takes when it is empty: 16
  MaxWrites    \* bound: how many calls of Write, PutChar and Flush are made

Contexts == CPUs \X {"thread", "handler"}

Letters == Chars \cup UNION {{s[i] : i \in DOMAIN s} : s \in Texts}

ASSUME ContextsAssumption ==
  /\ IsFiniteSet(CPUs) /\ IsFiniteSet(Contexts)
  /\ M \in Nat /\ Cardinality(Contexts) < M

(* Each thread and one more context can find the port empty at once. *)
ASSUME FifoAssumption == FIFO \in Nat /\ Cardinality(CPUs) < FIFO

ASSUME TextsAssumption == \A s \in Texts : s \in Seq(Letters)

VARIABLES
  Next, Owner, pc, t, o, ahead,   \* the lock: see TicketLock
  ready,       \* m_IsReady: the constructor has found a port
  held,        \* the bytes that the port has taken and not sent yet
  flag,        \* the interrupt flag of each CPU
  mode,        \* what a CPU runs: its thread, a handler, or nothing any more
  at,          \* where each context is in Write, PutChar or Flush
  polled,      \* whether its WriteByte has found the port empty
  State,       \* the interrupt flag LockIRQSave has saved
  text, p, cr, \* Write's string, its place in it, and whether '\r' has been sent
  wire,        \* the bytes taken; auxiliary: of which call and place in its string
  call,        \* the number of a context's call
  writes,      \* the number of calls so far
  asked        \* auxiliary: the interrupt flag a CPU's thread last asked for

lockVars == <<Next, Owner, pc, t, o, ahead>>
callVars == <<State, text, p, cr, polled, call, writes>>
vars == <<lockVars, callVars, ready, held, flag, mode, at, wire, asked>>

Lk == INSTANCE TicketLock WITH CPUs <- Contexts

Runs(x) == mode[x[1]] = x[2]

Goto(x, to) == at' = [at EXCEPT ![x] = to]

(* The constructor probes four ports and is ready when one of them answers. *)
Init ==
  /\ Lk!Init
  /\ ready \in BOOLEAN
  /\ held = 0
  /\ flag = [c \in CPUs |-> FALSE]
  /\ asked = flag
  /\ mode = [c \in CPUs |-> "thread"]
  /\ at = [x \in Contexts |-> "out"]
  /\ State = [x \in Contexts |-> FALSE]
  /\ text = [x \in Contexts |-> <<>>]
  /\ p = [x \in Contexts |-> 1]
  /\ cr = [x \in Contexts |-> FALSE]
  /\ polled = [x \in Contexts |-> FALSE]
  /\ call = [x \in Contexts |-> 0]
  /\ wire = <<>> /\ writes = 0
-------------------------------------------------------------------------------
(* Write. *)

(* A thread is back in its code, a handler at its end. *)
Returned(x) == IF x[2] = "thread" THEN "out" ELSE "ends"

Enter(x, s, to) ==
  /\ writes < MaxWrites
  /\ writes' = writes + 1
  /\ text' = [text EXCEPT ![x] = s]
  /\ p' = [p EXCEPT ![x] = 1]
  /\ cr' = [cr EXCEPT ![x] = FALSE]
  /\ call' = [call EXCEPT ![x] = writes']
  /\ Goto(x, IF ready THEN to ELSE Returned(x))
  /\ UNCHANGED <<State, polled>>

(* A thread calls Write; a handler does as soon as it runs: see Interrupt. *)
CallWrite(x) ==
  /\ Runs(x) /\ x[2] = "thread" /\ at[x] = "out"
  /\ \E s \in Texts : Enter(x, s, "save")
  /\ UNCHANGED <<lockVars, ready, held, flag, mode, wire, asked>>

(* SerialConsole::PutChar, which no handler calls. *)
CallPutChar(x) ==
  /\ Runs(x) /\ x[2] = "thread" /\ at[x] = "out"
  /\ \E ch \in Chars : Enter(x, <<ch>>, "put")
  /\ UNCHANGED <<lockVars, ready, held, flag, mode, wire, asked>>

(* Serial16550::Flush, which waits for the port to be empty. *)
CallFlush(x) ==
  /\ Runs(x) /\ x[2] = "thread" /\ at[x] = "out"
  /\ Enter(x, <<>>, "flush")
  /\ UNCHANGED <<lockVars, ready, held, flag, mode, wire, asked>>

\* Wrong form: the flag is saved and interrupts stay on.
IRQSaveOnly(x) ==
  /\ Runs(x) /\ at[x] = "save"
  /\ State' = [State EXCEPT ![x] = flag[x[1]]]
  /\ Goto(x, "lock")
  /\ UNCHANGED <<lockVars, ready, held, flag, mode, text, p, cr, polled, call, writes, wire, asked>>

IRQSaveAndDisable(x) ==
  /\ Runs(x) /\ at[x] = "save"
  /\ State' = [State EXCEPT ![x] = flag[x[1]]]
  /\ flag' = [flag EXCEPT ![x[1]] = FALSE]
  /\ Goto(x, "lock")
  /\ UNCHANGED <<lockVars, ready, held, mode, text, p, cr, polled, call, writes, wire, asked>>

\* Wrong form: the bytes are sent without waiting for the lock.
TakeLockAtOnce(x) ==
  /\ Runs(x) /\ at[x] = "lock"
  /\ Goto(x, "send")
  /\ UNCHANGED <<lockVars, ready, held, flag, mode, callVars, wire, asked>>

TakeLock(x) ==
  /\ Runs(x) /\ at[x] = "lock"
  /\ \/ Lk!Lock(x) /\ UNCHANGED at
     \/ Lk!Spin(x) /\ Goto(x, "send")
  /\ UNCHANGED <<ready, held, flag, mode, callVars, wire, asked>>

Sending(x) == Runs(x) /\ at[x] \in {"send", "put"} /\ p[x] <= Len(text[x])

(* The loop of WriteByte ends when CanTx reads that the port is empty. *)
CanTx(x) ==
  /\ Sending(x) /\ ~polled[x] /\ held = 0
  /\ polled' = [polled EXCEPT ![x] = TRUE]
  /\ UNCHANGED <<lockVars, ready, held, flag, mode, at, State, text, p, cr, call, writes, wire, asked>>

\* Wrong form: the constructor leaves the FIFO off.
RoomForOne == 1 - held

(* The bytes the port has room for: the constructor has turned the FIFO on. *)
Room == FIFO - held

(* The byte v of x as the wire records it. *)
Taken(x, v) == [call |-> call[x], put |-> at[x] = "put", place |-> p[x], byte |-> v]

(* Out8 of WriteByte.  A byte for which there is no room is lost. *)
Out8(x, v) ==
  /\ polled[x] /\ polled' = [polled EXCEPT ![x] = FALSE]
  /\ IF Room > 0 THEN held' = held + 1 /\ wire' = Append(wire, Taken(x, v))
                 ELSE UNCHANGED <<held, wire>>

(* The bodies of Write and of PutChar send a character in the same way. *)
Send(x) ==
  /\ Sending(x)
  /\ LET ch == text[x][p[x]] IN
       \/ /\ ch = "\n" /\ ~cr[x]
          /\ Out8(x, "\r")
          /\ cr' = [cr EXCEPT ![x] = TRUE]
          /\ UNCHANGED p
       \/ /\ ch # "\n" \/ cr[x]
          /\ Out8(x, ch)
          /\ cr' = [cr EXCEPT ![x] = FALSE]
          /\ p' = [p EXCEPT ![x] = p[x] + 1]
  /\ UNCHANGED <<lockVars, ready, flag, mode, at, State, text, call, writes, asked>>

PutCharReturns(x) ==
  /\ Runs(x) /\ at[x] = "put" /\ p[x] > Len(text[x])
  /\ Goto(x, "out")
  /\ UNCHANGED <<lockVars, callVars, ready, held, flag, mode, wire, asked>>

FlushReturns(x) ==
  /\ Runs(x) /\ at[x] = "flush" /\ held = 0
  /\ Goto(x, "out")
  /\ UNCHANGED <<lockVars, callVars, ready, held, flag, mode, wire, asked>>

ReleaseLock(x) ==
  /\ Runs(x) /\ at[x] = "send" /\ p[x] > Len(text[x])
  /\ Lk!Unlock(x)
  /\ Goto(x, "restore")
  /\ UNCHANGED <<ready, held, flag, mode, callVars, wire, asked>>

\* Wrong form: interrupts are turned on whatever they were.
IRQEnable(x) ==
  /\ Runs(x) /\ at[x] = "restore"
  /\ flag' = [flag EXCEPT ![x[1]] = TRUE]
  /\ State' = [State EXCEPT ![x] = FALSE]
  /\ Goto(x, Returned(x))
  /\ UNCHANGED <<lockVars, ready, held, mode, text, p, cr, polled, call, writes, wire, asked>>

(* Then the guard, with its State, is out of scope. *)
IRQRestore(x) ==
  /\ Runs(x) /\ at[x] = "restore"
  /\ flag' = [flag EXCEPT ![x[1]] = @ \/ State[x]]
  /\ State' = [State EXCEPT ![x] = FALSE]
  /\ Goto(x, Returned(x))
  /\ UNCHANGED <<lockVars, ready, held, mode, text, p, cr, polled, call, writes, wire, asked>>
-------------------------------------------------------------------------------
(* The CPUs and the device around Write. *)

(* The device has sent a byte on. *)
Transmit ==
  /\ held > 0 /\ held' = held - 1
  /\ UNCHANGED <<lockVars, callVars, ready, flag, mode, at, wire, asked>>

(* StartCriticalSection and EndCriticalSection, called by a thread. *)
CriticalSection(c) ==
  /\ mode[c] = "thread" /\ at[<<c, "thread">>] = "out"
  /\ asked' = [asked EXCEPT ![c] = ~@]
  /\ flag' = [flag EXCEPT ![c] = ~asked[c]]
  /\ UNCHANGED <<lockVars, callVars, ready, held, mode, at, wire>>

(* An interrupt gate turns interrupts off and the handler prints: on an      *)
(* interrupt, at any point where they are on; on an exception of the thread, *)
(* whether they are on or not.  Write itself raises no exception.            *)
Interrupt(c) ==
  /\ mode[c] = "thread"
  /\ flag[c] \/ at[<<c, "thread">>] = "out"
  /\ mode' = [mode EXCEPT ![c] = "handler"]
  /\ flag' = [flag EXCEPT ![c] = FALSE]
  /\ \E s \in Texts : Enter(<<c, "handler">>, s, "save")
  /\ UNCHANGED <<lockVars, ready, held, wire, asked>>

(* The handler of an interrupt returns with iretq, which restores the flag;  *)
(* that of an exception halts the processor.  Only a thread that had asked   *)
(* for interrupts can have been interrupted, and only outside Write can it   *)
(* have raised an exception.                                                 *)
HandlerEnds(c) ==
  LET h == <<c, "handler">> IN
  /\ mode[c] = "handler" /\ at[h] = "ends"
  /\ Goto(h, "out")
  /\ \/ /\ asked[c]
        /\ mode' = [mode EXCEPT ![c] = "thread"]
        /\ flag' = [flag EXCEPT ![c] = TRUE]
     \/ /\ at[<<c, "thread">>] = "out"
        /\ mode' = [mode EXCEPT ![c] = "halted"]
        /\ UNCHANGED flag
  /\ UNCHANGED <<lockVars, callVars, ready, held, wire, asked>>

InWrite(x) ==
  \/ IRQSaveAndDisable(x) \/ TakeLock(x) \/ CanTx(x) \/ Send(x)
  \/ ReleaseLock(x) \/ IRQRestore(x) \/ PutCharReturns(x) \/ FlushReturns(x)

NextStep ==
  \/ Transmit
  \/ \E x \in Contexts : CallWrite(x) \/ CallPutChar(x) \/ CallFlush(x) \/ InWrite(x)
  \/ \E c \in CPUs : CriticalSection(c) \/ Interrupt(c) \/ HandlerEnds(c)

(* A CPU goes on with the code it is running, and the device with sending.   *)
Fairness ==
  /\ WF_vars(Transmit)
  /\ \A c \in CPUs : WF_vars(HandlerEnds(c) \/ InWrite(<<c, "thread">>) \/ InWrite(<<c, "handler">>))

Spec == Init /\ [][NextStep]_vars /\ Fairness
-------------------------------------------------------------------------------
(* Properties. *)

(* The strings of two calls of Write never mix on the wire, whichever threads *)
(* and handlers of whichever CPUs make them: only what PutChar sends comes    *)
(* between the bytes of a call.                                               *)
StringsNeverMix ==
  \A i, k \in DOMAIN wire : \A j \in i .. k :
    wire[i].call = wire[k].call /\ ~wire[i].put => wire[j].call = wire[i].call \/ wire[j].put

(* What is sent for a character, '\r' before '\n'. *)
Encoding(ch) == IF ch = "\n" THEN {"\r", "\n"} ELSE {ch}

Before(k, a, m, b) == k < m \/ (k = m /\ a = "\r" /\ b = "\n")

BytesOf(bytes, n) == {i \in DOMAIN bytes : bytes[i].call = n}

Sent(bytes, n, k, b) == \E i \in BytesOf(bytes, n) : bytes[i].place = k /\ bytes[i].byte = b

(* The bytes of call n are what begins the string s: each belongs to the     *)
(* character at its place, they are in order, and none is left out.          *)
BeginsWith(bytes, n, s) ==
  /\ \A i \in BytesOf(bytes, n) :
       bytes[i].place \in DOMAIN s /\ bytes[i].byte \in Encoding(s[bytes[i].place])
  /\ \A i, j \in BytesOf(bytes, n) :
       i < j => Before(bytes[i].place, bytes[i].byte, bytes[j].place, bytes[j].byte)
  /\ \A j \in BytesOf(bytes, n) : \A k \in DOMAIN s : \A b \in Encoding(s[k]) :
       Before(k, b, bytes[j].place, bytes[j].byte) => Sent(bytes, n, k, b)

(* Write and PutChar send all that they are given: the bytes of a call are a *)
(* prefix of the string with each '\n' preceded by '\r', and all of it once  *)
(* it has returned on a port that is ready.  None is lost to a full port,    *)
(* although PutChar and a Write, or several of PutChar, find it empty at the *)
(* same time and each send a byte.                                           *)
StringsAreSentWhole ==
  \A x \in Contexts : call[x] # 0 =>
    /\ BeginsWith(wire, call[x], text[x])
    /\ ready /\ at[x] \in {"restore", "ends", "out"} =>
         \A k \in DOMAIN text[x] : \A b \in Encoding(text[x][k]) : Sent(wire, call[x], k, b)

(* Write leaves the interrupt flag as it found it: off in a handler, so that *)
(* handlers do not nest, and as the thread had set it in a thread.           *)
InterruptsAsFound ==
  \A c \in CPUs :
    /\ mode[c] = "handler" => ~flag[c]
    /\ mode[c] = "thread" /\ at[<<c, "thread">>] \in {"out", "put", "flush"} => flag[c] = asked[c]

(* A CPU comes to the end of its calls of Write, PutChar and Flush, unless   *)
(* it is halted by an exception: no handler waits for a lock that the code   *)
(* it has interrupted holds.                                                 *)
WritesReturn ==
  \A c \in CPUs :
    LET out(kind) == at[<<c, kind>>] = "out" IN
    ~(out("thread") /\ out("handler")) ~> (out("thread") /\ out("handler")) \/ mode[c] = "halted"
===============================================================================
