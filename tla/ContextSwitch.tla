----------------------------- MODULE ContextSwitch -----------------------------
(***************************************************************************)
(* SwitchContext.S, one instruction at a time, with SwitchTo that calls it *)
(* and PrepareInitialStack that makes the stack of a new thread look like  *)
(* one that has called it.  Interrupts come between any two instructions   *)
(* and write below the stack pointer.  A word of a stack is known by its   *)
(* depth: word 1 is the one below KernelStack::Top.                        *)
(***************************************************************************)
EXTENDS Integers, Sequences

CONSTANTS
  Threads,      \* those that CreateKernel has made
  Bootstrap,    \* the thread that calls Start
  MaxDepth,     \* bound: how deep a thread calls before it yields
  Versions,     \* bound: how many values a thread gives to a register
  FrameWords    \* what an interrupt pushes

ASSUME ContextSwitchAssumption ==
  /\ Bootstrap \notin Threads
  /\ MaxDepth \in Nat \ {0} /\ Versions \in Nat \ {0} /\ FrameWords \in Nat

VARIABLES
  CurrentThread,
  CtxRSP,       \* Thread::Ctx.RSP, as a depth in the stack of the thread
  stack,        \* the words of every stack
  rsp,          \* the stack pointer: whose stack, and the depth
  reg,          \* the registers that a function preserves
  rip,          \* "run" in the code of a thread, or the next instruction of Code
  rdi, rsi,     \* the arguments of ArchSwitchContext: both name a thread
  left          \* what each thread leaves behind when it calls ArchSwitchContext

switchVars == <<CurrentThread, CtxRSP, stack, rsp, reg, rip, rdi, rsi, left>>

All == Threads \cup {Bootstrap}
Registers == {"rbp", "rbx", "r12", "r13", "r14", "r15"}
Words == 1 .. MaxDepth + 7 + FrameWords

Ins(op, operand) == [op |-> op, reg |-> operand]

\* Wrong form: two registers are restored in the order they were saved in.
CodeSwapped ==
  << Ins("push", "rbp"), Ins("push", "rbx"), Ins("push", "r12"),
     Ins("push", "r13"), Ins("push", "r14"), Ins("push", "r15"),
     Ins("save", "rsp"), Ins("load", "rsp"),
     Ins("pop", "r15"), Ins("pop", "r14"), Ins("pop", "r13"),
     Ins("pop", "r12"), Ins("pop", "rbp"), Ins("pop", "rbx"),
     Ins("ret", "rip") >>

\* Wrong form: the stack pointer is saved before the last register.
CodeSavesEarly ==
  << Ins("push", "rbp"), Ins("push", "rbx"), Ins("push", "r12"),
     Ins("push", "r13"), Ins("push", "r14"), Ins("save", "rsp"),
     Ins("push", "r15"), Ins("load", "rsp"),
     Ins("pop", "r15"), Ins("pop", "r14"), Ins("pop", "r13"),
     Ins("pop", "r12"), Ins("pop", "rbx"), Ins("pop", "rbp"),
     Ins("ret", "rip") >>

(* ArchSwitchContext *)
Code ==
  << Ins("push", "rbp"), Ins("push", "rbx"), Ins("push", "r12"),
     Ins("push", "r13"), Ins("push", "r14"), Ins("push", "r15"),
     Ins("save", "rsp"), Ins("load", "rsp"),
     Ins("pop", "r15"), Ins("pop", "r14"), Ins("pop", "r13"),
     Ins("pop", "r12"), Ins("pop", "rbx"), Ins("pop", "rbp"),
     Ins("ret", "rip") >>

(* What a word or a register holds: a value of a thread's register, a place  *)
(* to return to, 0, or what an interrupt has left there.                     *)
Word(kind, t, r, version) == [kind |-> kind, thread |-> t, reg |-> r, version |-> version]
Zero == Word("zero", Bootstrap, "none", 0)
Junk == Word("junk", Bootstrap, "none", 0)
Address(place, t) == Word(place, t, "rip", 0)

Values(t, version) == [r \in Registers |-> Word("value", t, r, version)]

(* PrepareInitialStack: a 0, ThreadStartTrampoline and six times 0. *)
PrepareInitialStack(t) ==
  [k \in Words |-> IF k = 2 THEN Address("trampoline", t) ELSE Zero]

SwitchInit ==
  /\ CurrentThread = Bootstrap
  /\ stack = [t \in All |-> IF t = Bootstrap THEN [k \in Words |-> Junk]
                            ELSE PrepareInitialStack(t)]
  /\ CtxRSP = [t \in All |-> IF t = Bootstrap THEN 0 ELSE 8]
  /\ rsp = [thread |-> Bootstrap, depth |-> 1]
  /\ reg = Values(Bootstrap, 0)
  /\ rip = [at |-> "run", k |-> 0]
  /\ rdi = Bootstrap /\ rsi = Bootstrap
  /\ left = [t \in All |-> [reg |-> [r \in Registers |-> Zero], depth |-> 1, at |-> "trampoline"]]

(* A thread works: it changes its registers, calls and returns. *)
Run ==
  /\ rip.at = "run"
  /\ \E version \in 1 .. Versions, depth \in 1 .. MaxDepth :
       /\ reg' = Values(CurrentThread, version)
       /\ rsp' = [rsp EXCEPT !.depth = depth]
  /\ UNCHANGED <<CurrentThread, CtxRSP, stack, rip, rdi, rsi, left>>

(* SwitchTo up to the call, which pushes the address to return to. *)
SwitchTo(next) ==
  /\ rip.at = "run" /\ next # CurrentThread
  /\ rdi' = CurrentThread /\ rsi' = next
  /\ CurrentThread' = next
  /\ left' = [left EXCEPT ![CurrentThread] =
                [reg |-> reg, depth |-> rsp.depth, at |-> "SwitchTo"]]
  /\ stack' = [stack EXCEPT ![rsp.thread][rsp.depth + 1] = Address("SwitchTo", CurrentThread)]
  /\ rsp' = [rsp EXCEPT !.depth = @ + 1]
  /\ rip' = [at |-> "Code", k |-> 1]
  /\ UNCHANGED <<CtxRSP, reg>>

AtOp(op) == rip.at = "Code" /\ Code[rip.k].op = op

Forward == rip' = [rip EXCEPT !.k = @ + 1]

Push ==
  /\ AtOp("push")
  /\ stack' = [stack EXCEPT ![rsp.thread][rsp.depth + 1] = reg[Code[rip.k].reg]]
  /\ rsp' = [rsp EXCEPT !.depth = @ + 1]
  /\ Forward
  /\ UNCHANGED <<CurrentThread, CtxRSP, reg, rdi, rsi, left>>

Save ==
  /\ AtOp("save")
  /\ CtxRSP' = [CtxRSP EXCEPT ![rdi] = rsp.depth]
  /\ Forward
  /\ UNCHANGED <<CurrentThread, stack, rsp, reg, rdi, rsi, left>>

(* rsi was read from Ctx.RSP before the call; only Save of its thread, which *)
(* is not running, could have changed it since.                              *)
Load ==
  /\ AtOp("load")
  /\ rsp' = [thread |-> rsi, depth |-> CtxRSP[rsi]]
  /\ Forward
  /\ UNCHANGED <<CurrentThread, CtxRSP, stack, reg, rdi, rsi, left>>

TopWord == stack[rsp.thread][rsp.depth]

Pop ==
  /\ AtOp("pop")
  /\ reg' = [reg EXCEPT ![Code[rip.k].reg] = TopWord]
  /\ rsp' = [rsp EXCEPT !.depth = @ - 1]
  /\ Forward
  /\ UNCHANGED <<CurrentThread, CtxRSP, stack, rdi, rsi, left>>

(* To SwitchTo, which returns, or to ThreadStartTrampoline, which calls the  *)
(* entry function.                                                           *)
Ret ==
  /\ AtOp("ret")
  /\ rip' = [at |-> IF TopWord.kind \in {"SwitchTo", "trampoline"} THEN "run" ELSE "lost", k |-> 0]
  /\ rsp' = [rsp EXCEPT !.depth = @ - 1]
  /\ UNCHANGED <<CurrentThread, CtxRSP, stack, reg, rdi, rsi, left>>

(* An interrupt, from its frame to its iretq. *)
Interrupt ==
  /\ stack' = [stack EXCEPT ![rsp.thread] =
                 [k \in Words |-> IF k \in rsp.depth + 1 .. rsp.depth + FrameWords
                                  THEN Junk ELSE @[k]]]
  /\ UNCHANGED <<CurrentThread, CtxRSP, rsp, reg, rip, rdi, rsi, left>>

SwitchNext ==
  \/ Run \/ Push \/ Save \/ Load \/ Pop \/ Ret \/ Interrupt
  \/ \E next \in Threads : SwitchTo(next)

SwitchSpec == SwitchInit /\ [][SwitchNext]_switchVars
-------------------------------------------------------------------------------
(* Properties. *)

(* A thread goes on where it called SwitchTo, with the registers and the     *)
(* stack pointer it had, and a new one in the trampoline, with the alignment *)
(* that the entry of a function has: whatever other threads and interrupts   *)
(* have done since.                                                          *)
ResumesAsItLeft ==
  [][rip.at = "Code" /\ rip'.at # "Code" =>
       LET was == left[CurrentThread]
       IN  /\ rip'.at = "run"
           /\ TopWord = Address(was.at, CurrentThread)
           /\ reg' = was.reg
           /\ rsp' = [thread |-> CurrentThread, depth |-> was.depth]]_switchVars

(* While a thread does not run, the context that ArchSwitchContext will take *)
(* from its stack is complete: nothing writes to the stack of another.       *)
ContextsAreWhole ==
  \A t \in Threads \ {CurrentThread, rsp.thread} :
    LET top == CtxRSP[t]
        saved == << "r15", "r14", "r13", "r12", "rbx", "rbp" >>
    IN  /\ \A k \in 1 .. 6 : stack[t][top - k + 1] = left[t].reg[saved[k]]
        /\ stack[t][top - 6] = Address(left[t].at, t)
===============================================================================
