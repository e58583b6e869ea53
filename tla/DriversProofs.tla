---------------------------- MODULE DriversProofs ----------------------------
(***************************************************************************)
(* What is proved of the parts that Drivers puts side by side: one section *)
(* for each part, and in the last section that they behave in the          *)
(* composition as they do alone, so that the whole holds of the            *)
(* specification that the model checker explores.                          *)
(***************************************************************************)
EXTENDS Drivers, SequenceTheorems, TLAPS

-----------------------------------------------------------------------------
(***************************************************************************)
(* The NC200's gate is safe for interrupts and gives back the machine as   *)
(* it was, for any set of banks in which programs keep their stacks.  The  *)
(* invariant says, for each place of the main line, which pages are mapped,*)
(* where SP points and whether interrupts may come; and for each place of  *)
(* an interrupt routine how the CPU differs from what it was before.       *)
(***************************************************************************)
\* The places of the main line, by what they need.
Enabled == {"user", "handler", "disk", "pop", "exit", "cache", "vectors", "boot"}
InUserSpace == {"user", "save", "map", "restore", "return", "ccp"}
Bank0User   == InUserSpace \cup {"user12", "boot12"}
Bank3User   == Bank0User \cup {"user0", "vectors", "boot", "boot0"}
OnSystemStack ==
  {"enable", "handler", "critical", "disk", "transfer", "pop", "exit", "user3", "user0",
   "user12", "restore", "cache", "vectors", "boot", "boot0", "boot12"}
Place == Enabled \cup Bank3User \cup OnSystemStack \cup {"switch"}

Cpu == [bank : [0..3 -> Page], sp : UserStack \cup {SystemStack}, iff : BOOLEAN,
    index : BOOLEAN]

\* The CPU at a place of the main line, when no interrupt is being served.
Interruptible(c) == c.iff <=> pc \in Enabled
Stacked(c)       == c.sp = SystemStack <=> pc \in OnSystemStack
Bank0(c)         == c.bank[0] = IF pc \in Bank0User THEN User(0) ELSE SupervisorPage
Bank3(c)         == pc \in Bank3User => c.bank[3] = User(3)
AllBanks(c)      == pc \in InUserSpace => c.bank = UserSpace

\* The rest of the call: where it will return to, and with which registers.
BeforeSwitch == {"save", "map", "switch"}
InCall ==
  {"map", "switch", "enable", "handler", "critical", "disk", "transfer", "pop",
      "exit", "user3", "user0",
   "user12", "restore", "return"}
Own     == {"user", "save", "map", "switch", "enable", "exit", "user3", "user0", "user12",
            "restore", "return"}
Returns(c) == pc \in BeforeSwitch \cup {"return"} => c.sp = caller
Saved      == pc \in InCall => saved = caller
Index(c)   == pc \in Own => c.index

\* What the supervisor's stack holds while a handler runs.
Frames ==
  /\ pc \in {"handler", "critical", "pop"} => Len(stack) = 1 /\ stack[1] = "index"
  /\ pc \in {"disk", "transfer"} => Len(stack) = 2 /\ stack[1] = "index"

At(c) ==
  /\ Interruptible(c) /\ Stacked(c) /\ Bank0(c) /\ Bank3(c) /\ AllBanks(c)
  /\ Returns(c) /\ Index(c)

Masked == [before EXCEPT !.iff = FALSE]

\* An interrupt routine: "before" is what the main line had, and the CPU differs
\* from it as far as the routine has come.
Interrupted ==
  /\ before \in Cpu /\ before.iff /\ At(before)
  /\ irq \in {"save", "enter", "sirq", "restore", "return"} => pc = "user"
  /\ irq \in {"enter", "sirq", "restore"} => saved = before.sp
  /\ irq \in {"supervisor", "save", "return"} => cpu = Masked
  /\ irq \in {"enter", "restore"} => cpu = [Masked EXCEPT !.sp = SystemStack]
  /\ irq = "sirq" => cpu = [Masked EXCEPT !.sp = SystemStack, !.bank[0] = SupervisorPage]

Frame == {"index", "exit_read_or_write"}

GateInv ==
  /\ cpu \in Cpu /\ stack \in Seq(Frame)
  /\ saved \in UserStack /\ caller \in UserStack
  /\ pc \in Place
  /\ irq \in {"none", "supervisor", "save", "enter", "sirq", "restore", "return"}
  /\ Saved /\ Frames
  /\ irq = "none" => At(cpu)
  /\ irq # "none" => Interrupted

-----------------------------------------------------------------------------
\* What pushing a frame and popping one does to the supervisor's stack.
LEMMA Pushed ==
  ASSUME stack \in Seq(Frame), NEW f \in Frame
  PROVE  /\ Append(stack, f) \in Seq(Frame) /\ Len(Append(stack, f)) = Len(stack) + 1
         /\ \A i \in 1..Len(stack) : Append(stack, f)[i] = stack[i]
BY AppendProperties

\* The same for a frame that is popped.
LEMMA Popped ==
  ASSUME stack \in Seq(Frame), Len(stack) > 0
  PROVE  LET s == SubSeq(stack, 1, Len(stack) - 1)
         IN  /\ s \in Seq(Frame) /\ Len(s) = Len(stack) - 1
             /\ \A i \in 1..Len(stack) - 1 : s[i] = stack[i]
<1> DEFINE n == Len(stack) - 1
<1>1. n \in Int /\ 1 \in Int /\ n >= 0
  BY LenProperties
<1>2. \A i \in 1..n : stack[i] \in Frame
  BY ElementOfSeq
<1> HIDE DEF n
<1>3. /\ SubSeq(stack, 1, n) \in Seq(Frame)
      /\ Len(SubSeq(stack, 1, n)) = IF 1 <= n THEN n - 1 + 1 ELSE 0
      /\ \A i \in 1..n - 1 + 1 : SubSeq(stack, 1, n)[i] = stack[1 + i - 1]
  BY <1>1, <1>2, SubSeqProperties
<1>4. n - 1 + 1 = n /\ \A i \in 1..n : 1 + i - 1 = i
  BY <1>1
<1>5. /\ SubSeq(stack, 1, n) \in Seq(Frame) /\ Len(SubSeq(stack, 1, n)) = n
      /\ \A i \in 1..n : SubSeq(stack, 1, n)[i] = stack[i]
  BY <1>1, <1>3, <1>4
<1> QED
  BY <1>5 DEF n

\* What a handler maps for its work, it maps to the upper banks.
LEMMA WorkMaps ==
  ASSUME cpu \in Cpu,
         NEW c \in {Mapped(3, CardPage)} \cup
           {[cpu EXCEPT !.bank[2] = User(k), !.bank[3] = User(k + 1)] : k \in 0..3}
  PROVE  c \in Cpu /\ c.bank[0] = cpu.bank[0] /\ c.sp = cpu.sp /\ c.iff = cpu.iff
<1>1. CASE c = Mapped(3, CardPage)
  BY <1>1 DEF Mapped, Cpu, Page
<1>2. ASSUME NEW k \in 0..3, c = [cpu EXCEPT !.bank[2] = User(k), !.bank[3] = User(k + 1)]
      PROVE  c \in Cpu /\ c.bank[0] = cpu.bank[0] /\ c.sp = cpu.sp /\ c.iff = cpu.iff
  <2> DEFINE b == [cpu.bank EXCEPT ![2] = User(k)]
  <2> DEFINE e == [b EXCEPT ![3] = User(k + 1)]
  <2>1. User(k) \in Page /\ User(k + 1) \in Page
    BY DEF User, Page
  <2>2. cpu.bank \in [0..3 -> Page]
    BY DEF Cpu
  <2>3. b \in [0..3 -> Page] /\ b[0] = cpu.bank[0]
    BY <2>1, <2>2
  <2> HIDE DEF b
  <2>4. e \in [0..3 -> Page] /\ e[0] = b[0]
    BY <2>1, <2>3
  <2>5. c = [cpu EXCEPT !.bank = e]
    BY <1>2 DEF Cpu, b
  <2> HIDE DEF e
  <2> QED
    BY <2>3, <2>4, <2>5 DEF Cpu
<1> QED
  BY <1>1, <1>2

\* The first frame of a system call.
LEMMA First ==
  /\ <<"index">> \in Seq(Frame) /\ <<>> \in Seq(Frame)
  /\ Len(<<"index">>) = 1 /\ <<"index">>[1] = "index"
BY DEF Frame

\* The order of the instructions keeps the invariant: each step of the main line
\* from its place to the next one, each step of an interrupt routine.
LEMMA MainStep ==
  ASSUME Disk \subseteq 0..1, GateInv, irq = "none", irq' = "none",
         GateNext
  PROVE  GateInv'
<1> USE UserStackAssumption DEF GateInv, At, Interruptible, Stacked, Bank0, Bank3, AllBanks,
        Returns, Saved, Index, Frames, Cpu, Page, UserSpace, User, SupervisorPage,
            CpmPage, CardPage,
        SystemStack, Enabled, InUserSpace, Bank0User, Bank3User, OnSystemStack, Place,
        BeforeSwitch, InCall, Own
<1>1. CASE Program
  BY <1>1 DEF Program, Main, Mapped, Interrupts, StackAt
<1>2. CASE SyscallDisable
  BY <1>2 DEF SyscallDisable, Main, Mapped, Interrupts, StackAt
<1>3. CASE SyscallSave
  BY <1>3 DEF SyscallSave, Main, Mapped, Interrupts, StackAt
<1>4. CASE SyscallMap
  BY <1>4 DEF SyscallMap, Main, Mapped, Interrupts, StackAt
<1>5. CASE SyscallSwitch
  BY <1>5, Popped, Pushed, First DEF SyscallSwitch, Main, Mapped, Interrupts, StackAt
<1>6. CASE SyscallEnable
  BY <1>6, Popped, Pushed, First DEF SyscallEnable, Main, Mapped, Interrupts, StackAt
<1>7. CASE HandlerWork
  <2>1. PICK at \in {"handler", "disk"}, c \in {Mapped(3, CardPage)} \cup
          {[cpu EXCEPT !.bank[2] = User(k), !.bank[3] = User(k + 1)] : k \in 0..3} :
            Main(at, at, [c EXCEPT !.index = FALSE])
    BY <1>7 DEF HandlerWork
  <2>2. c \in Cpu /\ c.bank[0] = cpu.bank[0] /\ c.sp = cpu.sp /\ c.iff = cpu.iff
    BY <2>1, WorkMaps
  <2>3. /\ cpu' = [c EXCEPT !.index = FALSE]
        /\ pc \in {"handler", "disk"} /\ pc' = pc /\ irq' = irq /\ before' = before
    BY <2>1 DEF Main
  <2>4. stack' = stack /\ saved' = saved /\ caller' = caller
    BY <1>7 DEF HandlerWork
  <2>5. /\ cpu' \in Cpu
        /\ cpu'.bank[0] = cpu.bank[0] /\ cpu'.sp = cpu.sp /\ cpu'.iff = cpu.iff
    BY <2>2, <2>3
  <2> HIDE DEF Cpu, Page, User, UserSpace
  <2> QED
    BY <2>3, <2>4, <2>5
<1>8. CASE HandlerDisable
  <2>1. CASE Main("handler", "critical", Interrupts(FALSE))
    BY <1>8, <2>1 DEF HandlerDisable, Main, Interrupts
  <2>2. CASE Main("disk", "transfer", Interrupts(FALSE))
    BY <1>8, <2>2 DEF HandlerDisable, Main, Interrupts
  <2> QED
    BY <1>8, <2>1, <2>2 DEF HandlerDisable
<1>9. CASE HandlerEnable
  <2>1. CASE Main("critical", "handler", Interrupts(TRUE))
    BY <1>9, <2>1 DEF HandlerEnable, Main, Interrupts
  <2>2. CASE Main("transfer", "disk", Interrupts(TRUE))
    BY <1>9, <2>2 DEF HandlerEnable, Main, Interrupts
  <2> QED
    BY <1>9, <2>1, <2>2 DEF HandlerEnable
<1>10. CASE HandlerDone
  BY <1>10 DEF HandlerDone, Main, Mapped, Interrupts, StackAt
<1>11. CASE DiskDone
  <2>1. Len(stack) = 2 /\ stack[1] = "index"
    BY <1>11 DEF DiskDone, Main
  <2>2. stack' \in Seq(Frame) /\ Len(stack') = 1 /\ stack'[1] = "index"
    BY <1>11, <2>1, Popped DEF DiskDone
  <2> QED
    BY <1>11, <2>2 DEF DiskDone, Main
<1>12. CASE ExitPop
  <2>1. Len(stack) = 1 /\ stack[1] = "index"
    BY <1>12 DEF ExitPop, Main
  <2>2. stack' \in Seq(Frame)
    BY <1>12, <2>1, Popped DEF ExitPop
  <2>3. cpu' = [cpu EXCEPT !.index = TRUE]
    BY <1>12, <2>1 DEF ExitPop, Main
  <2> QED
    BY <1>12, <2>2, <2>3, ZenonT(30) DEF ExitPop, Main
<1>13. CASE ExitDisable
  BY <1>13 DEF ExitDisable, Main, Mapped, Interrupts, StackAt
<1>14. CASE ExitMap3
  BY <1>14 DEF ExitMap3, Main, Mapped, Interrupts, StackAt
<1>15. CASE ExitMap0
  BY <1>15 DEF ExitMap0, Main, Mapped, Interrupts, StackAt
<1>16. CASE ExitMap12
  <2>1. cpu' = [cpu EXCEPT !.bank[1] = User(1), !.bank[2] = User(2)]
    BY <1>16 DEF ExitMap12, Main
  <2>2. /\ cpu' \in Cpu /\ cpu'.iff = cpu.iff /\ cpu'.index = cpu.index
        /\ cpu'.sp = cpu.sp
        /\ \A k \in 0..3 : cpu'.bank[k] = IF k \in {1, 2} THEN User(k) ELSE cpu.bank[k]
    <3>1. User(1) \in Page /\ User(2) \in Page
      OBVIOUS
    <3> HIDE DEF User, Page
    <3> QED
      BY <2>1, <3>1
  <2>3. cpu.bank[0] = User(0) /\ cpu.bank[3] = User(3)
    BY <1>16 DEF ExitMap12, Main
  <2>4. cpu'.bank = UserSpace
    BY <2>2, <2>3
  <2> QED
    BY <1>16, <2>2, <2>4 DEF ExitMap12, Main
<1>17. CASE ExitRestore
  BY <1>17 DEF ExitRestore, Main, Mapped, Interrupts, StackAt
<1>18. CASE ExitReturn
  BY <1>18 DEF ExitReturn, Main, Mapped, Interrupts, StackAt
<1>19. CASE WarmBoot
  BY <1>19 DEF WarmBoot, Main, Mapped, Interrupts, StackAt
<1>20. CASE WarmBootCopy
  <2>1. cpu' = [cpu EXCEPT !.bank[1] = CpmPage, !.bank[3] = User(3)]
    BY <1>20 DEF WarmBootCopy, Main
  <2>2. /\ cpu' \in Cpu /\ cpu'.iff = cpu.iff /\ cpu'.index = cpu.index /\ cpu'.sp = cpu.sp
        /\ cpu'.bank[0] = cpu.bank[0] /\ cpu'.bank[3] = User(3)
    BY <2>1
  <2> QED
    BY <1>20, <2>2 DEF WarmBootCopy, Main
<1>21. CASE WarmBootVectors
  <2>1. /\ cpu' \in Cpu /\ cpu'.iff = cpu.iff /\ cpu'.index = cpu.index /\ cpu'.sp = cpu.sp
        /\ cpu'.bank[0] = cpu.bank[0] /\ cpu'.bank[3] = cpu.bank[3]
    <3>1. User(0) \in Page
      OBVIOUS
    <3>2. cpu' = [cpu EXCEPT !.bank[1] = User(0)]
      BY <1>21 DEF WarmBootVectors, Main, Mapped
    <3> HIDE DEF User, Page
    <3> QED
      BY <3>1, <3>2
  <2> QED
    BY <1>21, <2>1 DEF WarmBootVectors, Main
<1>22. CASE BootDisable
  BY <1>22 DEF BootDisable, Main, Mapped, Interrupts, StackAt
<1>23. CASE BootMap0
  <2>1. /\ cpu' = [cpu EXCEPT !.bank[0] = User(0)]
        /\ pc = "boot0" /\ pc' = "boot12" /\ irq' = irq /\ before' = before
    BY <1>23 DEF BootMap0, Main, Mapped
  <2>2. stack' = stack /\ saved' = saved /\ caller' = caller
    BY <1>23 DEF BootMap0
  <2>3. /\ cpu' \in Cpu /\ cpu'.iff = cpu.iff /\ cpu'.index = cpu.index /\ cpu'.sp = cpu.sp
        /\ cpu'.bank[0] = User(0) /\ cpu'.bank[3] = cpu.bank[3]
    BY <2>1
  <2> HIDE DEF Cpu, Page, User, UserSpace
  <2> QED
    BY <2>1, <2>2, <2>3
<1>24. CASE BootMap12
  <2>1. cpu' = [cpu EXCEPT !.bank[1] = User(1), !.bank[2] = User(2), !.sp = 0]
    BY <1>24 DEF BootMap12, Main
  <2>2. /\ cpu' \in Cpu /\ cpu'.iff = cpu.iff /\ cpu'.index = cpu.index
        /\ cpu'.sp = 0
        /\ \A k \in 0..3 : cpu'.bank[k] = IF k \in {1, 2} THEN User(k) ELSE cpu.bank[k]
    <3>1. User(1) \in Page /\ User(2) \in Page
      OBVIOUS
    <3> HIDE DEF User, Page
    <3> QED
      BY <2>1, <3>1
  <2>3. cpu.bank[0] = User(0) /\ cpu.bank[3] = User(3)
    BY <1>24 DEF BootMap12, Main
  <2>4. cpu'.bank = UserSpace
    BY <2>2, <2>3
  <2> QED
    BY <1>24, <2>2, <2>4 DEF BootMap12, Main
<1>25. CASE BootReturn
  BY <1>25 DEF BootReturn, Main, Mapped, Interrupts, StackAt
<1>26. ASSUME NEW d \in Disk, ReadOrWrite(d) PROVE GateInv'
  <2>1. Len(stack) = 1 /\ stack[1] = "index" /\ d <= 1
    BY <1>26 DEF ReadOrWrite, Main
  <2>2. stack' \in Seq(Frame) /\ Len(stack') = 2 /\ stack'[1] = "index"
    BY <1>26, <2>1, Pushed DEF ReadOrWrite, Frame
  <2>3. Main("handler", "disk", cpu)
    BY <1>26, <2>1 DEF ReadOrWrite
  <2> QED
    BY <1>26, <2>2, <2>3 DEF ReadOrWrite, Main
<1>27. ~Interrupt
  BY DEF Interrupt
<1>28. ~InterruptReturn
  BY DEF InterruptReturn
<1>29. ~BirqSave
  BY DEF BirqSave
<1>30. ~BirqEnter
  BY DEF BirqEnter
<1>31. ~BirqLeave
  BY DEF BirqLeave
<1>32. ~BirqRestore
  BY DEF BirqRestore
<1> QED
  BY <1>1, <1>2, <1>3, <1>4, <1>5, <1>6, <1>7, <1>8, <1>9, <1>10, <1>11, <1>12,
     <1>13, <1>14, <1>15, <1>16, <1>17, <1>18, <1>19, <1>20, <1>21, <1>22, <1>23, <1>24,
     <1>25, <1>26, <1>27, <1>28, <1>29, <1>30, <1>31, <1>32 DEF GateNext

\* What an interrupt leaves alone.
LEMMA PlaceKept ==
  ASSUME pc' = pc, caller' = caller, NEW c, At(c)
  PROVE  At(c)'
BY DEF At, Interruptible, Stacked, Bank0, Bank3, AllBanks, Returns, Index

\* An interrupt finds the machine as the place of the main line says.
LEMMA InterruptStep ==
  ASSUME GateInv, Interrupt
  PROVE  GateInv'
<1> USE UserStackAssumption
<1>1. At(cpu) /\ cpu \in Cpu /\ cpu.iff /\ before' = cpu /\ cpu' = [cpu EXCEPT !.iff
    = FALSE]
  BY DEF Interrupt, GateInv, Interrupts
<1>2. At(before)'
  BY <1>1 DEF Interrupt, At, Interruptible, Stacked, Bank0, Bank3, AllBanks, Returns, Index
<1>3. cpu' = Masked'
  BY <1>1 DEF Masked
<1>4. cpu' \in Cpu
  BY <1>1 DEF Cpu
<1>5. irq' = "save" => pc = "user"
  BY <1>1 DEF Interrupt, At, Bank0, Interruptible, Enabled, Bank0User, InUserSpace,
     User, SupervisorPage
<1>6. Interrupted'
  BY <1>1, <1>2, <1>3, <1>5 DEF Interrupted, Interrupt
<1>7. irq' \in {"save", "supervisor"}
  BY DEF Interrupt
<1> QED
  BY <1>4, <1>6, <1>7 DEF GateInv, Saved, Frames, Interrupt

\* While one is served the main line stands still and no other comes.
LEMMA OnlyInterrupt ==
  ASSUME GateNext, irq # "none"
  PROVE  InterruptReturn \/ BirqSave \/ BirqEnter \/ BirqLeave \/ BirqRestore
BY DEF GateNext, Interrupt, Main, Program, SyscallDisable, SyscallSave, SyscallMap,
       SyscallSwitch, SyscallEnable, HandlerWork, HandlerDisable, HandlerEnable,
           HandlerDone,
       ReadOrWrite, DiskDone, ExitPop, ExitDisable, ExitMap3, ExitMap0, ExitMap12,
           ExitRestore,
       ExitReturn, WarmBoot, WarmBootCopy, WarmBootVectors, BootDisable, BootMap0,
           BootMap12,
       BootReturn

\* And the routine undoes, step by step, what it has done to the CPU.
LEMMA InterruptStepBack ==
  ASSUME GateInv, irq # "none", GateNext
  PROVE  GateInv'
<1> USE UserStackAssumption
<1>1. Interrupted /\ before \in Cpu /\ before.iff /\ At(before)
  BY DEF GateInv, Interrupted
<1>2. UNCHANGED <<pc, caller, before>>
  BY OnlyInterrupt DEF InterruptReturn, BirqSave, BirqEnter, BirqLeave, BirqRestore
<1>3. At(before)' /\ Masked' = Masked
  BY <1>1, <1>2, PlaceKept DEF Masked
<1>4. Masked \in Cpu /\ [Masked EXCEPT !.iff = TRUE] = before
  BY <1>1 DEF Masked, Cpu
<1>5. CASE InterruptReturn
  <2>1. cpu' = before
    BY <1>1, <1>4, <1>5 DEF InterruptReturn, Interrupted, Interrupts
  <2>2. At(cpu)'
    BY <2>1, <1>1, <1>2, PlaceKept
  <2> QED
    BY <1>1, <1>2, <1>5, <2>1, <2>2 DEF InterruptReturn, GateInv, Saved, Frames
<1>6. CASE BirqSave
  <2>1. cpu' = [Masked EXCEPT !.sp = SystemStack] /\ saved' = before.sp /\ before.sp
      \in UserStack
    BY <1>1, <1>6 DEF BirqSave, Interrupted, StackAt, Masked, Cpu, At, Stacked,
       OnSystemStack
  <2>2. cpu' \in Cpu
    BY <2>1, <1>4 DEF Cpu
  <2> QED
    BY <1>1, <1>2, <1>3, <1>6, <2>1, <2>2 DEF BirqSave, GateInv, Interrupted, Saved,
       Frames, InCall
<1>7. CASE BirqEnter
  <2>1. cpu' = [Masked EXCEPT !.sp = SystemStack, !.bank[0] = SupervisorPage]
    BY <1>1, <1>4, <1>7 DEF BirqEnter, Interrupted, Mapped, Cpu
  <2>2. cpu' \in Cpu
    BY <2>1, <1>4 DEF Cpu, Page
  <2>3. stack' \in Seq(Frame)
    BY <1>7, First DEF BirqEnter
  <2> QED
    BY <1>1, <1>2, <1>3, <1>7, <2>1, <2>2, <2>3 DEF BirqEnter, GateInv, Interrupted,
       Saved, Frames, InCall
<1>8. CASE BirqLeave
  <2>0. before.bank[0] = User(0) /\ pc = "user"
    BY <1>1, <1>8 DEF BirqLeave, Interrupted, At, Bank0, Bank0User, InUserSpace
  <2>1. cpu' = [Masked EXCEPT !.sp = SystemStack]
    <3>1. cpu' = [[Masked EXCEPT !.sp = SystemStack, !.bank[0] = SupervisorPage]
        EXCEPT !.bank[0] = User(0)]
      BY <1>1, <1>8 DEF BirqLeave, Interrupted, Mapped
    <3>2. Masked.bank \in [0..3 -> Page] /\ Masked.bank[0] = User(0)
      BY <1>1, <2>0 DEF Masked, Cpu
    <3>3. [[Masked.bank EXCEPT ![0] = SupervisorPage] EXCEPT ![0] = User(0)] = Masked.bank
      BY <3>2
    <3> QED
      BY <3>1, <3>2, <3>3, <1>4 DEF Cpu
  <2>2. cpu' \in Cpu
    BY <2>1, <1>4 DEF Cpu
  <2> QED
    BY <1>1, <1>2, <1>3, <1>8, <2>1, <2>2 DEF BirqLeave, GateInv, Interrupted, Saved, Frames
<1>9. CASE BirqRestore
  <2>1. cpu' = Masked
    BY <1>1, <1>4, <1>9 DEF BirqRestore, Interrupted, StackAt, Masked, Cpu
  <2> QED
    BY <1>1, <1>2, <1>3, <1>4, <1>9, <2>1 DEF BirqRestore, GateInv, Interrupted,
       Saved, Frames
<1> QED
  BY <1>5, <1>6, <1>7, <1>8, <1>9, OnlyInterrupt

-----------------------------------------------------------------------------
\* The invariant holds in every state of the gate.
LEMMA GateInvariant ==
  ASSUME Disk \subseteq 0..1
  PROVE  GateSpec => []GateInv
<1>1. GateInit => GateInv
  <2> SUFFICES ASSUME GateInit PROVE GateInv
    OBVIOUS
  <2>1. cpu = [bank |-> [UserSpace EXCEPT ![0] = SupervisorPage, ![1] = User(0), ![2] = User(3)],
               sp |-> SystemStack, iff |-> TRUE, index |-> TRUE] /\ pc = "cache" /\ irq = "none"
    BY DEF GateInit
  <2>2. cpu \in Cpu /\ cpu.bank[0] = SupervisorPage /\ cpu.sp = SystemStack /\ cpu.iff
    <3>1. \A k \in 0..4 : User(k) \in Page
      BY Zenon DEF Page
    <3>2. SupervisorPage \in Page
      BY Zenon DEF Page
    <3>3. UserSpace \in [0..3 -> Page]
      BY <3>1 DEF UserSpace
    <3>5. User(0) \in Page /\ User(3) \in Page
      BY <3>1
    <3>6. [UserSpace EXCEPT ![0] = SupervisorPage, ![1] = User(0), ![2] = User(3)]
        \in [0..3 -> Page]
      BY <3>2, <3>3, <3>5
    <3>4. [UserSpace EXCEPT ![0] = SupervisorPage, ![1] = User(0), ![2] =
        User(3)][0] = SupervisorPage
      BY DEF UserSpace
    <3> QED
      BY <2>1, <3>4, <3>6 DEF Cpu
  <2>3. At(cpu)
    BY <2>1, <2>2 DEF At, Interruptible, Stacked, Bank0, Bank3, AllBanks, Returns,
       Index, Enabled,
          OnSystemStack, InUserSpace, Bank0User, Bank3User, BeforeSwitch, Own
  <2> QED
    BY <2>1, <2>2, <2>3, First, UserStackAssumption
       DEF GateInit, GateInv, Saved, Frames, InCall, Place, Enabled
<1>2. GateInv /\ [GateNext]_gateVars => GateInv'
  <2> SUFFICES ASSUME GateInv, [GateNext]_gateVars PROVE GateInv'
    OBVIOUS
  <2>1. CASE UNCHANGED gateVars
    BY <2>1 DEF gateVars, GateInv, Saved, Frames, At, Interruptible, Stacked, Bank0,
       Bank3, AllBanks,
          Returns, Index, Interrupted, Masked
  <2>2. CASE GateNext /\ irq # "none"
    BY <2>2, InterruptStepBack
  <2>3. CASE GateNext /\ irq = "none"
    <3>1. CASE Interrupt
      BY <3>1, InterruptStep
    <3>2. CASE ~Interrupt
      <4>1. irq' = "none"
        BY <2>3, <3>2
           DEF GateNext, Main, Program, SyscallDisable, SyscallSave, SyscallMap,
               SyscallSwitch,
               SyscallEnable, HandlerWork, HandlerDisable, HandlerEnable, HandlerDone,
               ReadOrWrite, DiskDone, ExitPop, ExitDisable, ExitMap3, ExitMap0, ExitMap12,
               ExitRestore, ExitReturn, WarmBoot, WarmBootCopy, WarmBootVectors,
                   BootDisable,
               BootMap0, BootMap12, BootReturn, InterruptReturn, BirqSave, BirqEnter,
               BirqLeave, BirqRestore
      <4> QED
        BY <2>3, <4>1, MainStep
    <3> QED
      BY <3>1, <3>2
  <2> QED
    BY <2>1, <2>2, <2>3
<1> QED
  BY <1>1, <1>2, PTL DEF GateSpec

\* The supervisor's stack: a call has two frames at most, wherever it is.
LEMMA TwoFrames ==
  ASSUME GateInv, Len(stack) <= 2, [GateNext]_gateVars
  PROVE  Len(stack') <= 2
<1>1. CASE stack' = stack
  BY <1>1
<1>2. CASE stack' = <<>> \/ stack' = <<"index">>
  BY <1>2
<1>3. ASSUME NEW d \in Disk, ReadOrWrite(d) PROVE Len(stack') <= 2
  <2>1. Len(stack) = 1 /\ stack \in Seq(Frame)
    BY <1>3 DEF ReadOrWrite, Main, GateInv, Frames
  <2>2. Len(stack') = Len(stack) + 1
    BY <1>3, <2>1, Pushed DEF ReadOrWrite, Frame
  <2> QED
    BY <2>1, <2>2
<1>4. CASE DiskDone \/ ExitPop
  <2>1. Len(stack) \in {1, 2} /\ stack \in Seq(Frame)
    BY <1>4 DEF DiskDone, ExitPop, Main, GateInv, Frames
  <2>2. Len(SubSeq(stack, 1, Len(stack) - 1)) = Len(stack) - 1
    BY <2>1, Popped
  <2>3. Len(stack') = Len(stack) - 1
    BY <1>4, <2>2 DEF DiskDone, ExitPop
  <2> QED
    BY <2>1, <2>3
<1> QED
  BY <1>1, <1>2, <1>3, <1>4
     DEF GateNext, gateVars, Program, SyscallDisable, SyscallSave, SyscallMap, SyscallSwitch,
         SyscallEnable, HandlerWork, HandlerDisable, HandlerEnable, HandlerDone, ExitDisable,
         ExitMap3, ExitMap0, ExitMap12, ExitRestore, ExitReturn, WarmBoot, WarmBootCopy,
         WarmBootVectors, BootDisable, BootMap0, BootMap12, BootReturn, Interrupt,
         InterruptReturn, BirqSave, BirqEnter, BirqLeave, BirqRestore

\* The registers, pages and places are what GateTypeOK says, and no path through the
\* handlers stacks up more than a call's own two frames.
THEOREM GateTypeCorrect ==
  ASSUME Disk \subseteq 0..1
  PROVE  GateSpec => []GateTypeOK
<1>1. GateInit => Len(stack) <= 2
  BY DEF GateInit
<1>2. GateInv /\ Len(stack) <= 2 /\ [GateNext]_gateVars => (Len(stack) <= 2)'
  BY TwoFrames
<1>3. GateInv /\ Len(stack) <= 2 => GateTypeOK
  <2> SUFFICES ASSUME GateInv, Len(stack) <= 2 PROVE GateTypeOK
    OBVIOUS
  <2>1. pc \in Place
    BY DEF GateInv
  <2> QED
    BY <2>1 DEF GateInv, GateTypeOK, Cpu, Place, Enabled, Bank3User, Bank0User, InUserSpace,
                OnSystemStack
<1> QED
  BY <1>1, <1>2, <1>3, GateInvariant, PTL DEF GateSpec

\* Wherever an interrupt may strike, in the program, in a system call on its way in
\* or out, in a handler or in a warm boot, it finds a handler and a stack; and BIRQ
\* finds user space.  For every set of banks that programs have stacks in.
THEOREM GateSafe ==
  ASSUME Disk \subseteq 0..1
  PROVE  GateSpec => []InterruptsSafe
<1>1. GateInv => InterruptsSafe
  BY UserStackAssumption
     DEF GateInv, InterruptsSafe, StackMapped, At, Interruptible, Stacked, Bank0,
         AllBanks, Cpu,
         Enabled, OnSystemStack, InUserSpace, Bank0User, UserSpace, User, SystemStack
<1> QED
  BY <1>1, GateInvariant, PTL

\* The next instruction of the main line and of BIRQ is always in a mapped page.
THEOREM GateMapped ==
  ASSUME Disk \subseteq 0..1
  PROVE  GateSpec => []CodeMapped
<1>1. GateInv => CodeMapped
  <2> SUFFICES ASSUME GateInv PROVE CodeMapped
    OBVIOUS
  <2>1. CASE irq = "none"
    BY <2>1 DEF GateInv, CodeMapped, At, Bank0, Bank3, Bank0User, Bank3User, InUserSpace
  <2>2. CASE irq # "none"
    <3>1. At(before) /\ before \in Cpu
      BY <2>2 DEF GateInv, Interrupted
    <3>2. cpu.bank[3] = before.bank[3]
      <4>1. Masked.bank = before.bank /\ before.bank \in [0..3 -> Page] /\ Masked \in Cpu
        BY <3>1 DEF Masked, Cpu
      <4>2. CASE irq = "sirq"
        <5>1. cpu = [Masked EXCEPT !.sp = SystemStack, !.bank[0] = SupervisorPage]
          BY <2>2, <4>2 DEF GateInv, Interrupted
        <5>2. cpu.bank = [before.bank EXCEPT ![0] = SupervisorPage]
          <6> DEFINE m == Masked
          <6>1. m \in Cpu /\ m.bank = before.bank /\ cpu = [m EXCEPT !.sp =
              SystemStack, !.bank[0] = SupervisorPage]
            BY <4>1, <5>1
          <6> HIDE DEF m
          <6> QED
            BY <6>1 DEF Cpu
        <5> QED
          BY <4>1, <5>2
      <4>3. CASE irq \in {"supervisor", "save", "return"}
        <5>1. cpu = Masked
          BY <2>2, <4>3 DEF GateInv, Interrupted
        <5> QED
          BY <4>1, <5>1
      <4>4. CASE irq \in {"enter", "restore"}
        <5>1. cpu = [Masked EXCEPT !.sp = SystemStack]
          BY <2>2, <4>4 DEF GateInv, Interrupted
        <5> QED
          BY <4>1, <5>1 DEF Cpu
      <4> QED
        BY <2>2, <4>2, <4>3, <4>4 DEF GateInv
    <3> QED
      BY <2>2, <3>1, <3>2
         DEF GateInv, Interrupted, CodeMapped, At, Bank3, Bank0User, Bank3User, InUserSpace
  <2> QED
    BY <2>1, <2>2
<1> QED
  BY <1>1, GateInvariant, PTL

\* A system call comes back to the caller's memory, stack and index registers, and
\* an interrupt leaves no trace, although both use saved_stack.
THEOREM GateUnnoticed ==
  ASSUME Disk \subseteq 0..1
  PROVE  GateSpec => GateTransparent
<1>1. GateInv /\ [GateNext]_gateVars =>
        [pc = "return" /\ pc' = "user"
           => cpu'.bank = UserSpace /\ cpu'.sp = caller /\ cpu'.index]_gateVars
  <2> SUFFICES ASSUME GateInv, GateNext, pc = "return", pc' = "user"
               PROVE  cpu'.bank = UserSpace /\ cpu'.sp = caller /\ cpu'.index
    OBVIOUS
  <2>1. irq = "none" /\ ExitReturn
    BY DEF GateNext, Main, Program, SyscallDisable, SyscallSave, SyscallMap, SyscallSwitch,
           SyscallEnable, HandlerWork, HandlerDisable, HandlerEnable, HandlerDone,
           ReadOrWrite, DiskDone, ExitPop, ExitDisable, ExitMap3, ExitMap0, ExitMap12,
           ExitRestore, ExitReturn, WarmBoot, WarmBootCopy, WarmBootVectors, BootDisable,
           BootMap0, BootMap12, BootReturn, Interrupt, InterruptReturn, BirqSave, BirqEnter,
           BirqLeave, BirqRestore
  <2>2. cpu.bank = UserSpace /\ cpu.sp = caller /\ cpu.index /\ cpu \in Cpu
    BY <2>1 DEF GateInv, At, AllBanks, Returns, Index, InUserSpace, Own
  <2> QED
    BY <2>1, <2>2 DEF ExitReturn, Main, Interrupts, Cpu
<1>2. GateInv /\ [GateNext]_gateVars =>
        [irq # "none" /\ irq' = "none" => cpu' = before]_gateVars
  <2> SUFFICES ASSUME GateInv, GateNext, irq # "none", irq' = "none"
               PROVE  cpu' = before
    OBVIOUS
  <2>1. InterruptReturn
    BY OnlyInterrupt DEF BirqSave, BirqEnter, BirqLeave, BirqRestore
  <2>2. cpu = Masked /\ before \in Cpu /\ before.iff
    BY <2>1 DEF InterruptReturn, GateInv, Interrupted
  <2> QED
    BY <2>1, <2>2 DEF InterruptReturn, Interrupts, Masked, Cpu
<1> QED
  BY <1>1, <1>2, GateInvariant, PTL DEF GateSpec, GateTransparent, CallerRestored,
     InterruptTransparent

-----------------------------------------------------------------------------
(***************************************************************************)
(* The keyboard scan types no character that was not pressed and leaves no *)
(* modifier set, for every set of keys and however they move while the     *)
(* handler is at work.                                                     *)
(*                                                                         *)
(* The invariant keeps an account for each key: a press is owed while the  *)
(* key is down, while the bitmap says so, and while its release waits in H *)
(* to be decoded -- once more if it has been pressed again meanwhile.      *)
(***************************************************************************)

Types ==
  /\ down \subseteq Key /\ bitmap \subseteq Key /\ changed \subseteq Key
  /\ row \in 0..10
  /\ \A k \in changed : Row(k) = row
  /\ started \in BOOLEAN
  /\ owed \in [Typing -> 0..2]

\* L agrees with the bitmap on the changes that are still to be decoded.
BytesAgree == \A k \in changed : k \in byte <=> k \in bitmap

\* A modifier is set for a key that is down or whose change is still to come.
ModifiersHeld ==
  /\ "shift" \in modifiers => \E k \in ShiftKey : k \in bitmap \/ k \in changed
  /\ "ctrl" \in modifiers => CtrlKey \in bitmap \/ CtrlKey \in changed

\* The key's bit in the bitmap has been read, and is not one of the "ds 10, 0x55".
Seen(k) == started \/ Row(k) < row \/ (Row(k) = row /\ changed # {})

Account(k) ==
  /\ k \in down => owed[k] >= 1
  /\ Seen(k) /\ k \in bitmap => owed[k] >= 1
  /\ started /\ k \in changed /\ k \notin byte =>
       owed[k] >= 1 /\ (k \in down => owed[k] >= 2)

ScanInv ==
  /\ Types /\ BytesAgree /\ ModifiersHeld
  /\ row = 10 => started
  /\ \A k \in Typing : Account(k)

-----------------------------------------------------------------------------
\* There are ten bytes, and a typing key is none of the modifiers.
LEMMA Keys ==
  /\ \A k \in Key : Row(k) \in 0..9
  /\ Typing \subseteq Key
  /\ \A k \in Typing : k \notin ShiftKey /\ k # CtrlKey /\ k # CapsKey
  /\ CtrlKey \notin ShiftKey /\ CapsKey \notin ShiftKey /\ CapsKey # CtrlKey
<1>1. ASSUME NEW k \in Key PROVE Row(k) \in 0..9
  <2>1. k \in Int /\ 0 <= k /\ k <= 79
    BY KeyAssumption
  <2> QED
    BY <2>1 DEF Row
<1> QED
  BY <1>1 DEF Typing, ShiftKey, CtrlKey, CapsKey

\* A key moves: a press is owed, twice if a release is still to be decoded.
LEMMA MoveStep ==
  ASSUME ScanInv, NEW k \in Key, Move(k)
  PROVE  ScanInv'
<1>1. UNCHANGED <<bitmap, modifiers, row, changed, byte, started>> /\ down' \subseteq Key
  BY DEF Move, ScanInv, Types
<1>2. owed' \in [Typing -> 0..2]
  <2>1. CASE k \in Typing \ down /\ owed[k] < MaxOwed
    BY <2>1 DEF Move, ScanInv, Types, MaxOwed
  <2>2. CASE ~(k \in Typing \ down /\ owed[k] < MaxOwed)
    BY <2>2 DEF Move, ScanInv, Types
  <2> QED
    BY <2>1, <2>2
<1>3. ASSUME NEW t \in Typing PROVE Account(t)'
  <2>1. owed[t] \in 0..2 /\ owed'[t] \in 0..2 /\ Account(t) /\ Seen(t)' = Seen(t)
    BY <1>1, <1>2 DEF ScanInv, Types, Seen
  <2>2. CASE t # k
    <3>1. (t \in down' <=> t \in down) /\ owed'[t] = owed[t]
      BY <2>2 DEF Move, ScanInv, Types
    <3> QED
      BY <1>1, <2>1, <3>1 DEF Account
  <2>3. CASE t = k /\ t \in down
    <3>1. t \notin down' /\ owed'[t] = owed[t]
      BY <2>3 DEF Move, ScanInv, Types
    <3> QED
      BY <1>1, <2>1, <3>1 DEF Account
  <2>4. CASE t = k /\ t \notin down
    <3>1. owed'[t] >= 1 /\ (owed[t] >= 1 => owed'[t] >= 2)
      BY <2>1, <2>4 DEF Move, ScanInv, Types, MaxOwed
    <3> QED
      BY <1>1, <2>1, <3>1 DEF Account
  <2> QED
    BY <2>2, <2>3, <2>4
<1>4. BytesAgree' /\ ModifiersHeld' /\ (row = 10 => started)'
  BY <1>1 DEF ScanInv, BytesAgree, ModifiersHeld
<1> QED
  BY <1>1, <1>2, <1>3, <1>4 DEF ScanInv, Types

\* A scan begins, a byte without a change is passed by, another one is read.
LEMMA ReadStep ==
  ASSUME ScanInv, ScanInterrupt \/ SkipRow \/ ReadRow
  PROVE  ScanInv'
<1>0. /\ Types /\ BytesAgree /\ ModifiersHeld /\ (row = 10 => started)
      /\ \A k \in Typing : Account(k)
  BY DEF ScanInv
<1>1. CASE ScanInterrupt
  <2>1. started /\ row' = 0 /\ UNCHANGED <<down, bitmap, modifiers, changed, byte, started, owed>>
    BY <1>0, <1>1 DEF ScanInterrupt
  <2>2. changed = {}
    BY <1>0, <1>1, Keys DEF ScanInterrupt, Types
  <2>3. Types' /\ BytesAgree' /\ ModifiersHeld'
    BY <1>0, <2>1, <2>2 DEF Types, BytesAgree, ModifiersHeld
  <2>4. \A k \in Typing : Account(k)'
    BY <1>0, <2>1, <2>2 DEF Account, Seen
  <2> QED
    BY <2>1, <2>3, <2>4 DEF ScanInv
<1>2. CASE SkipRow
  <2>1. /\ row < 10 /\ changed = {} /\ Differs = {} /\ row' = row + 1
        /\ started' = (started \/ row = 9)
        /\ UNCHANGED <<down, bitmap, modifiers, changed, byte, owed>>
    BY <1>2 DEF SkipRow, NextRow
  <2>4. started' \in BOOLEAN /\ (started' => started \/ row = 9) /\ (row = 9 => started')
    BY <2>1, Zenon
  <2>5. row \in 0..9 /\ row' \in 0..10 /\ (row' = 10 => row = 9)
    BY <1>0, <2>1 DEF Types
  <2>6. Types'
    BY <1>0, <2>1, <2>4, <2>5 DEF Types
  <2>2. Types' /\ BytesAgree' /\ ModifiersHeld' /\ (row = 10 => started)'
    BY <1>0, <2>1, <2>4, <2>5, <2>6 DEF BytesAgree, ModifiersHeld
  <2>3. ASSUME NEW k \in Typing PROVE Account(k)'
    <3>1. Account(k) /\ k \in Key /\ Row(k) \in 0..9 /\ row \in 0..10
      BY <1>0, Keys DEF Types
    <3>2. Row(k) = row => (k \in bitmap => k \in down)
      BY <2>1, <3>1 DEF Differs
    <3>3. Seen(k)' => Seen(k) \/ Row(k) = row
      <4>1. Seen(k)' => started' \/ Row(k) < row'
        BY <2>1 DEF Seen
      <4>2. row = 9 => Row(k) < row \/ Row(k) = row
        BY <3>1
      <4>3. Row(k) < row' => Row(k) < row \/ Row(k) = row
        BY <2>1, <3>1
      <4> QED
        BY <2>4, <4>1, <4>2, <4>3 DEF Seen
    <3> QED
      BY <2>1, <3>1, <3>2, <3>3 DEF Account
  <2> QED
    BY <2>2, <2>3 DEF ScanInv
<1>3. CASE ReadRow
  <2>1. /\ row < 10 /\ changed = {} /\ changed' = Differs
        /\ byte' = {k \in down : Row(k) = row}
        /\ bitmap' = (bitmap \ Differs) \cup (Differs \cap down)
        /\ UNCHANGED <<down, modifiers, row, started, owed>>
    BY <1>3 DEF ReadRow
  <2>2. \A k \in Differs : k \in Key /\ Row(k) = row /\ (k \in down <=> k \notin bitmap)
    BY DEF Differs
  <2>3. \A k \in Key : Row(k) = row => (k \in bitmap' <=> k \in down)
    BY <2>1 DEF Differs
  <2>4. \A k \in Key : k \in bitmap => k \in bitmap' \/ k \in changed'
    BY <2>1
  <2>5. Types' /\ BytesAgree'
    BY <1>0, <2>1, <2>2, <2>3 DEF Types, BytesAgree
  <2>6. ModifiersHeld' /\ (row = 10 => started)'
    BY <1>0, <2>1, <2>4 DEF ModifiersHeld, Types
  <2>7. ASSUME NEW k \in Typing PROVE Account(k)'
    <3>1. Account(k) /\ k \in Key /\ Row(k) \in 0..9 /\ row \in 0..10
      BY <1>0, Keys DEF Types
    <3>2. CASE Row(k) = row
      <4>1. k \in bitmap' => k \in down
        BY <2>3, <3>1, <3>2
      <4>2. k \in changed' /\ k \notin byte' => k \notin down /\ k \in bitmap
        BY <2>1, <2>2, <3>2
      <4> QED
        BY <2>1, <3>1, <4>1, <4>2 DEF Account, Seen
    <3>3. CASE Row(k) # row
      <4>1. k \notin changed' /\ (k \in bitmap' => k \in bitmap)
        BY <2>1, <2>2, <3>3
      <4>2. Seen(k)' => Seen(k)
        BY <2>1, <3>3 DEF Seen
      <4> QED
        BY <2>1, <3>1, <4>1, <4>2 DEF Account
    <3> QED
      BY <3>2, <3>3
  <2> QED
    BY <2>5, <2>6, <2>7 DEF ScanInv
<1> QED
  BY <1>1, <1>2, <1>3

\* What decoding any key leaves of the invariant: all but the modifiers and its own
\* account.
LEMMA Decoded ==
  ASSUME ScanInv, NEW k \in Key, Decode(k), owed' \in [Typing -> 0..2],
         \A t \in Typing \ {k} : owed'[t] = owed[t]
  PROVE  /\ Types' /\ BytesAgree' /\ (row = 10 => started)'
         /\ \A t \in Typing \ {k} : Account(t)'
         /\ k \in changed /\ k \notin changed' /\ (k \in byte <=> k \in bitmap)
         /\ \A t \in changed : t # k => t \in changed'
         /\ UNCHANGED <<down, bitmap>>
         /\ Seen(k)
<1>0. /\ Types /\ BytesAgree /\ (row = 10 => started)
      /\ \A t \in Typing : Account(t)
  BY DEF ScanInv
<1>1. /\ k \in changed /\ changed' = changed \ {k} /\ UNCHANGED <<down, bitmap>>
      /\ Row(k) = row /\ row \in 0..9
  BY <1>0, Keys DEF Decode, Types
<1>2. CASE changed = {k}
  <2>1. row' = row + 1 /\ started' = (started \/ row = 9) /\ changed' = {}
    BY <1>1, <1>2 DEF Decode, LeaveKey, NextRow
  <2>4. started' \in BOOLEAN /\ (started' => started \/ row = 9) /\ (row = 9 => started')
    BY <2>1, Zenon
  <2>5. row' \in 0..10 /\ (row' = 10 => row = 9)
    BY <1>1, <2>1
  <2>2. Types' /\ BytesAgree' /\ (row = 10 => started)'
    BY <1>0, <1>1, <2>1, <2>4, <2>5 DEF Types, BytesAgree
  <2>3. ASSUME NEW t \in Typing \ {k} PROVE Account(t)'
    <3>1. Row(t) \in 0..9 /\ Account(t) /\ owed'[t] = owed[t]
      BY <1>0, Keys
    <3>2. Seen(t)' => Seen(t)
      <4>1. Seen(t)' => started' \/ Row(t) < row'
        BY <2>1 DEF Seen
      <4>2. row = 9 => Row(t) < row \/ Row(t) = row
        BY <3>1
      <4>3. Row(t) < row' => Row(t) < row \/ Row(t) = row
        BY <1>1, <2>1, <3>1
      <4> QED
        BY <1>1, <2>4, <4>1, <4>2, <4>3 DEF Seen
    <3> QED
      BY <1>1, <2>1, <3>1, <3>2 DEF Account
  <2> QED
    BY <1>0, <1>1, <2>2, <2>3 DEF BytesAgree, Seen
<1>3. CASE changed # {k}
  <2>1. UNCHANGED <<row, started, byte>> /\ changed' # {}
    BY <1>1, <1>3 DEF Decode, LeaveKey
  <2>2. Types' /\ BytesAgree' /\ (row = 10 => started)'
    BY <1>0, <1>1, <2>1 DEF Types, BytesAgree
  <2>3. \A t \in Typing \ {k} : Account(t)'
    BY <1>0, <1>1, <2>1 DEF Account, Seen
  <2> QED
    BY <1>0, <1>1, <2>2, <2>3 DEF BytesAgree, Seen
<1> QED
  BY <1>2, <1>3

\* Decoding a key keeps the invariant: a shift key's release takes the bit away, and
\* a character is paid for.
LEMMA DecodeStep ==
  ASSUME ScanInv, NEW k \in Key,
         \/ DecodeModifier(k) \/ DecodeIgnored(k) \/ DecodeCaps(k)
         \/ k \in Typing /\ DecodeCharacter(k)
  PROVE  ScanInv'
<1>0. ModifiersHeld /\ owed \in [Typing -> 0..2] /\ \A t \in Typing : Account(t)
  BY DEF ScanInv, Types
<1>1. CASE DecodeModifier(k)
  <2>1. k \notin Typing /\ owed' = owed /\ Decode(k)
    BY <1>1, Keys DEF DecodeModifier
  <2>2. /\ Types' /\ BytesAgree' /\ (row = 10 => started)' /\ \A t \in Typing : Account(t)'
        /\ k \notin changed' /\ (k \in byte <=> k \in bitmap) /\ bitmap' = bitmap
        /\ \A t \in changed : t # k => t \in changed'
    BY <1>0, <2>1, Decoded
  <2>3. CASE k \in ShiftKey /\ modifiers' = Held("shift", k)
    <3>1. /\ "shift" \in modifiers' => k \in byte
          /\ "ctrl" \in modifiers' => "ctrl" \in modifiers
      BY <2>3 DEF Held
    <3>2. ModifiersHeld'
      BY <1>0, <2>2, <2>3, <3>1, Keys DEF ModifiersHeld
    <3> QED
      BY <2>2, <3>2 DEF ScanInv
  <2>4. CASE k = CtrlKey /\ modifiers' = Held("ctrl", k)
    <3>1. /\ "ctrl" \in modifiers' => k \in byte
          /\ "shift" \in modifiers' => "shift" \in modifiers
      BY <2>4 DEF Held
    <3>2. ModifiersHeld'
      BY <1>0, <2>2, <2>4, <3>1, Keys DEF ModifiersHeld
    <3> QED
      BY <2>2, <3>2 DEF ScanInv
  <2> QED
    BY <1>1, <2>3, <2>4 DEF DecodeModifier
<1>2. CASE ~DecodeModifier(k)
  <2>1. /\ k \notin ShiftKey /\ k # CtrlKey /\ Decode(k)
        /\ "shift" \in modifiers' => "shift" \in modifiers
        /\ "ctrl" \in modifiers' => "ctrl" \in modifiers
    BY <1>2, Keys DEF DecodeIgnored, DecodeCaps, DecodeCharacter, Ordinary
  <2>2. \/ owed' = owed
        \/ k \in Typing /\ owed' = [owed EXCEPT ![k] = @ - 1] /\ owed[k] > 0
    BY <1>2 DEF DecodeIgnored, DecodeCaps, DecodeCharacter
  <2>3. owed' \in [Typing -> 0..2] /\ \A t \in Typing \ {k} : owed'[t] = owed[t]
    <3>1. CASE owed' = owed
      BY <1>0, <3>1
    <3>2. CASE k \in Typing /\ owed' = [owed EXCEPT ![k] = @ - 1] /\ owed[k] > 0
      <4>1. owed[k] \in 0..2
        BY <1>0, <3>2
      <4>2. owed[k] - 1 \in 0..2
        BY <3>2, <4>1
      <4> QED
        BY <1>0, <3>2, <4>2
    <3> QED
      BY <2>2, <3>1, <3>2
  <2>4. /\ Types' /\ BytesAgree' /\ (row = 10 => started)' /\ \A t \in Typing \ {k} : Account(t)'
        /\ k \in changed /\ k \notin changed' /\ (k \in byte <=> k \in bitmap)
        /\ \A t \in changed : t # k => t \in changed'
        /\ UNCHANGED <<down, bitmap>> /\ Seen(k)
    BY <2>1, <2>3, Decoded
  <2>5. ModifiersHeld'
    BY <1>0, <2>1, <2>4 DEF ModifiersHeld
  <2>6. ASSUME k \in Typing PROVE Account(k)'
    <3>1. Account(k) /\ owed[k] \in 0..2
      BY <1>0, <2>6
    <3>2. CASE owed' = owed
      BY <2>4, <3>1, <3>2 DEF Account
    <3>3. CASE owed' = [owed EXCEPT ![k] = @ - 1] /\ owed' # owed
      <4>1. started /\ k \notin byte
        BY <1>2, <3>3 DEF DecodeIgnored, DecodeCaps, DecodeCharacter
      <4>2. owed'[k] = owed[k] - 1
        BY <1>0, <2>6, <3>3
      <4>3. k \notin bitmap' /\ (k \in down' => owed'[k] >= 1)
        BY <2>4, <3>1, <4>1, <4>2 DEF Account
      <4> QED
        BY <2>4, <4>3 DEF Account
    <3> QED
      BY <2>2, <3>2, <3>3
  <2> QED
    BY <2>4, <2>5, <2>6 DEF ScanInv
<1> QED
  BY <1>1, <1>2

\* The invariant holds from the first scan on, which starts from "ds 10, 0x55".
LEMMA ScanInvariant == ScanSpec => []ScanInv
<1>1. ScanInit => ScanInv
  <2> SUFFICES ASSUME ScanInit PROVE ScanInv
    OBVIOUS
  <2>4. bitmap \subseteq Key /\ owed \in [Typing -> 0..2]
    BY DEF ScanInit
  <2>5. down \subseteq Key /\ row = 0 /\ changed = {} /\ modifiers = {}
    BY Zenon DEF ScanInit
  <2>8. started \in BOOLEAN
    BY Zenon DEF ScanInit
  <2>6. BytesAgree /\ ModifiersHeld
    BY <2>5 DEF BytesAgree, ModifiersHeld
  <2>7. changed \subseteq Key /\ row \in 0..10
    BY <2>5
  <2>1. Types /\ BytesAgree /\ ModifiersHeld
    BY <2>4, <2>5, <2>6, <2>7, <2>8 DEF Types
  <2>2. \A k \in Typing : Row(k) \in 0..9
    BY Keys
  <2>3. \A k \in Typing : Account(k)
    BY <2>2 DEF ScanInit, Account, Seen
  <2> QED
    BY <2>1, <2>3 DEF ScanInit, ScanInv
<1>2. ScanInv /\ [ScanNext]_scanVars => ScanInv'
  <2> SUFFICES ASSUME ScanInv, [ScanNext]_scanVars PROVE ScanInv'
    OBVIOUS
  <2>1. CASE UNCHANGED scanVars
    BY <2>1 DEF scanVars, ScanInv, Types, BytesAgree, ModifiersHeld, Account, Seen
  <2>2. CASE ScanNext
    BY <2>2, MoveStep, ReadStep, DecodeStep, Keys DEF ScanNext
  <2> QED
    BY <2>1, <2>2
<1> QED
  BY <1>1, <1>2, PTL DEF ScanSpec

-----------------------------------------------------------------------------
\* Neither shift nor control stays set when the keys are seen to be up, for any
\* order in which the two shift keys and control go down and up.
THEOREM ModifiersReleased == ScanSpec => []NoStuckModifier
<1>1. ScanInv => NoStuckModifier
  BY DEF ScanInv, ModifiersHeld, NoStuckModifier
<1> QED
  BY <1>1, ScanInvariant, PTL

\* No key gives more characters than it has been pressed.
THEOREM CharactersPressed == ScanSpec => CharacterPerPress
<1>1. ScanInv /\ [ScanNext]_scanVars =>
        [started => \A k \in Typing : DecodeCharacter(k) => owed[k] > 0]_scanVars
  <2> SUFFICES ASSUME ScanInv, started, NEW k \in Typing, DecodeCharacter(k)
               PROVE  owed[k] > 0
    OBVIOUS
  <2>1. Account(k) /\ owed[k] \in 0..2 /\ k \in changed /\ k \notin byte
    BY DEF ScanInv, Types, DecodeCharacter, Decode
  <2> QED
    BY <2>1 DEF Account
<1> QED
  BY <1>1, ScanInvariant, PTL DEF ScanSpec, CharacterPerPress
-----------------------------------------------------------------------------
\* The rest of the types: between the bytes L is empty.
Rest ==
  /\ modifiers \subseteq Modifier
  /\ typed \in [key : Typing \cup {0}, with : SUBSET Modifier]
  /\ byte \subseteq {k \in Key : Row(k) = row}
  /\ changed = {} => byte = {}

\* Decoding a key leaves L for the byte it was read from, or for none.
LEMMA ByteDecoded ==
  ASSUME Rest, NEW k \in Key, Decode(k)
  PROVE  byte' \subseteq {c \in Key : Row(c) = row'} /\ (changed' = {} => byte' = {})
<1>1. CASE changed = {k}
  BY <1>1 DEF Decode, LeaveKey
<1>2. CASE changed # {k}
  BY <1>2 DEF Decode, LeaveKey, Rest
<1> QED
  BY <1>1, <1>2

\* Each step keeps the rest of the types.
LEMMA RestStep ==
  ASSUME Rest, down \subseteq Key, row = 10 => changed = {}, [ScanNext]_scanVars
  PROVE  Rest'
<1>0. NoChar \in [key : Typing \cup {0}, with : SUBSET Modifier]
  BY DEF NoChar
<1>1. ASSUME NEW k \in Key, Move(k) PROVE Rest'
  BY <1>0, <1>1 DEF Move, Silent, Rest
<1>2. CASE ScanInterrupt
  BY <1>0, <1>2 DEF ScanInterrupt, Silent, Rest
<1>3. CASE SkipRow
  BY <1>0, <1>3 DEF SkipRow, NextRow, Silent, Rest
<1>4. CASE ReadRow
  <2>1. byte' = {k \in down : Row(k) = row} /\ row' = row /\ changed' # {}
    BY <1>4 DEF ReadRow
  <2> QED
    BY <1>0, <1>4, <2>1 DEF ReadRow, Silent, Rest
<1>5. ASSUME NEW k \in Key, DecodeModifier(k) PROVE Rest'
  BY <1>0, <1>5, ByteDecoded DEF DecodeModifier, Held, Modifier, Silent, Rest
<1>6. ASSUME NEW k \in Key, DecodeIgnored(k) PROVE Rest'
  BY <1>0, <1>6, ByteDecoded DEF DecodeIgnored, Silent, Rest
<1>7. ASSUME NEW k \in Key, DecodeCaps(k) PROVE Rest'
  BY <1>0, <1>7, ByteDecoded DEF DecodeCaps, Modifier, Silent, Rest
<1>8. ASSUME NEW k \in Typing, DecodeCharacter(k) PROVE Rest'
  BY <1>8, ByteDecoded, Keys DEF DecodeCharacter, Rest
<1>9. CASE UNCHANGED scanVars
  BY <1>9 DEF scanVars, Rest
<1> QED
  BY <1>1, <1>2, <1>3, <1>4, <1>5, <1>6, <1>7, <1>8, <1>9 DEF ScanNext

\* H and L hold keys of the byte the handler is at, and what is queued is a key that
\* types, with the modifiers there are.
THEOREM ScanTypeCorrect == ScanSpec => []ScanTypeOK
<1>1. ScanInit => Rest
  <2>1. NoChar \in [key : Typing \cup {0}, with : SUBSET Modifier]
    BY DEF NoChar
  <2> QED
    BY <2>1 DEF ScanInit, Rest
<1>2. ScanInv => down \subseteq Key /\ (row = 10 => changed = {})
  BY Keys DEF ScanInv, Types
<1>3. Rest /\ down \subseteq Key /\ (row = 10 => changed = {}) /\ [ScanNext]_scanVars => Rest'
  BY RestStep
<1>4. ScanInv /\ Rest => ScanTypeOK
  BY DEF ScanInv, Types, Rest, ScanTypeOK, MaxOwed
<1> QED
  BY <1>1, <1>2, <1>3, <1>4, ScanInvariant, PTL DEF ScanSpec

-----------------------------------------------------------------------------
(***************************************************************************)
(* The floppy motor outlasts every transfer and no user of port 0x30 works *)
(* on an outdated copy of PBAUD, for all lengths of the timer, the wait    *)
(* for the drive and the seek that keep to TimeAssumption.                 *)
(*                                                                         *)
(* That the motor runs is not inductive: it depends on how much time is    *)
(* left.  The invariant bounds the timer from below at each place between  *)
(* the wait and the transfer, by what the places before it can have used.  *)
(***************************************************************************)

Places ==
  {"idle", "motor", "motor out", "time", "sense", "halt", "seek", "poll", "command",
   "transfer", "card", "card out", "strobe low", "strobe high"}
Disabled ==
  {"motor", "motor out", "time", "transfer", "card", "card out", "strobe low", "strobe high"}

\* The type invariant, in three parts.
Control == iff \in BOOLEAN /\ portPc \in Places /\ (portPc \in Disabled <=> ~iff)
Values  == shadow \in Bits /\ port \in Bits /\ a \in Bits
Numbers == timer \in 0..MotorTime /\ count \in 0..ReadyCounts /\ ticks \in 0..SeekTime

\* A turn of the wait takes two ticks at most.
TimeLeft ==
  /\ portPc = "sense"    => timer >= MotorTime - 2 * (ReadyCounts - count) - ticks /\ count >= 1
  /\ portPc = "halt"     => timer >= MotorTime - 2 * (ReadyCounts - count) + 1
  /\ portPc = "seek"     => timer >= MotorTime - 2 * ReadyCounts + 1 - ticks
  /\ portPc = "poll"     => timer >= MotorTime - 2 * ReadyCounts - ticks
  /\ portPc = "command"  => timer >= MotorTime - 2 * ReadyCounts - SeekTime - ticks
  /\ portPc # "poll"     => ticks <= 1

\* The motor's part of the port, and the card's.
Running == ~shadow.motorOff /\ ~port.motorOff
Matches == port.motorOff = shadow.motorOff /\ (shadow.card => port.card)

BitsRight ==
  /\ portPc \in {"time", "sense", "halt", "seek", "poll", "command", "transfer"} => Running
  /\ portPc = "motor out" => ~shadow.motorOff
  /\ portPc = "card out" => port.motorOff = shadow.motorOff
  /\ portPc \notin {"motor out", "card out"} => Matches
  /\ portPc \in {"strobe low", "strobe high"}
       => a.motorOff = shadow.motorOff /\ a.card = shadow.card

PortInv == Control /\ Values /\ Numbers /\ TimeLeft /\ BitsRight

-----------------------------------------------------------------------------
\* The parts make up the type invariant.
LEMMA Parts ==
  ASSUME PortInv
  PROVE  PortTypeOK
BY DEF PortInv, Control, Values, Numbers, Places, Disabled, PortTypeOK

\* What arithmetic needs to know of the constants and the counters.
LEMMA Bounds ==
  ASSUME Numbers
  PROVE  /\ MotorTime \in Int /\ ReadyCounts \in Int /\ SeekTime \in Int
         /\ ReadyCounts >= 1 /\ SeekTime >= 1
         /\ MotorTime >= 2 * ReadyCounts + SeekTime + 3
         /\ timer \in Int /\ 0 <= timer /\ timer <= MotorTime
         /\ count \in Int /\ 0 <= count /\ count <= ReadyCounts
         /\ ticks \in Int /\ 0 <= ticks /\ ticks <= SeekTime
BY TimeAssumption DEF Numbers

\* While the timer bounds anything it has not run out, so a tick leaves the motor
\* alone.
LEMMA NotYet ==
  ASSUME PortInv, portPc \in {"sense", "halt", "seek", "poll", "command"}
  PROVE  timer >= 1
<1>1. Numbers /\ TimeLeft
  BY DEF PortInv
<1>2. CASE portPc = "sense"
  BY <1>1, <1>2, Bounds DEF TimeLeft
<1>3. CASE portPc = "halt"
  BY <1>1, <1>3, Bounds DEF TimeLeft
<1>4. CASE portPc = "seek"
  BY <1>1, <1>4, Bounds DEF TimeLeft
<1>5. CASE portPc = "poll"
  BY <1>1, <1>5, Bounds DEF TimeLeft
<1>6. CASE portPc = "command"
  BY <1>1, <1>6, Bounds DEF TimeLeft
<1> QED
  BY <1>2, <1>3, <1>4, <1>5, <1>6

\* A tick of the timer, wherever interrupts are enabled.
LEMMA TickStep ==
  ASSUME PortInv, Tick
  PROVE  PortInv'
<1>1. /\ Control /\ Values /\ Numbers /\ TimeLeft /\ BitsRight
      /\ iff /\ iff' = iff /\ a' = a /\ count' = count
  BY DEF Tick, PortInv
<1>2. portPc \in {"idle", "sense", "halt", "seek", "poll", "command"}
  BY <1>1 DEF Control, Places, Disabled
<1>3. /\ portPc' = portPc \/ (portPc = "halt" /\ portPc' \in {"idle", "sense"})
      /\ ticks' \in Int /\ 0 <= ticks' /\ ticks' <= SeekTime /\ (portPc' # "poll" => ticks' <= 1)
  <2>1. CASE portPc = "halt"
    BY <1>1, <2>1, Bounds DEF Tick, Elapse
  <2>2. CASE portPc = "poll"
    BY <1>1, <2>2, Bounds DEF Tick, Elapse
  <2>3. CASE portPc = "idle"
    BY <1>1, <2>3, Bounds DEF Tick, Elapse, TimeLeft
  <2>4. CASE portPc \in {"sense", "seek", "command"}
    BY <1>1, <2>4, Bounds DEF Tick, Elapse
  <2> QED
    BY <1>2, <2>1, <2>2, <2>3, <2>4
<1>4. Control'
  BY <1>1, <1>2, <1>3 DEF Control, Places, Disabled
<1>5. CASE timer > 0
  <2>1. timer' = timer - 1 /\ UNCHANGED <<shadow, port>>
    BY <1>5 DEF Tick
  <2>2. Values' /\ BitsRight'
    BY <1>1, <1>2, <1>3, <2>1 DEF Values, BitsRight, Running, Matches
  <2>3. Numbers'
    BY <1>1, <1>3, <1>5, <2>1, Bounds DEF Numbers
  <2>4. TimeLeft'
    <3>1. CASE portPc = "halt"
      BY <1>1, <1>3, <2>1, <3>1, Bounds DEF Tick, Elapse, TimeLeft
    <3>2. CASE portPc = "poll"
      BY <1>1, <1>3, <2>1, <3>2, Bounds DEF Tick, Elapse, TimeLeft
    <3>3. CASE portPc = "idle"
      BY <1>1, <1>3, <2>1, <3>3, Bounds DEF Tick, Elapse, TimeLeft
    <3>4. CASE portPc \in {"sense", "seek", "command"}
      <4>1. ticks = 0 /\ ticks' = 1 /\ portPc' = portPc
        BY <3>4 DEF Tick, Elapse
      <4>2. CASE portPc = "sense"
        BY <1>1, <2>1, <4>1, <4>2, Bounds DEF TimeLeft
      <4>3. CASE portPc = "seek"
        BY <1>1, <2>1, <4>1, <4>3, Bounds DEF TimeLeft
      <4>4. CASE portPc = "command"
        BY <1>1, <2>1, <4>1, <4>4, Bounds DEF TimeLeft
      <4> QED
        BY <3>4, <4>2, <4>3, <4>4
    <3> QED
      BY <1>2, <3>1, <3>2, <3>3, <3>4
  <2> QED
    BY <1>4, <2>2, <2>3, <2>4 DEF PortInv
<1>6. CASE ~(timer > 0)
  <2>1. portPc = "idle"
    <3>1. ~(timer >= 1)
      BY <1>1, <1>6, Bounds
    <3> QED
      BY <1>2, <3>1, NotYet
  <2>2. portPc' = "idle" /\ ticks' = ticks
    BY <2>1 DEF Tick, Elapse
  <2>3. /\ timer' = timer /\ shadow' = [shadow EXCEPT !.motorOff = TRUE]
        /\ port' = [shadow EXCEPT !.motorOff = TRUE]
    BY <1>6 DEF Tick, MotorOff
  <2>4. Values' /\ port' = shadow'
    BY <1>1, <2>3 DEF Values, Bits
  <2>5. Numbers'
    BY <1>1, <2>2, <2>3 DEF Numbers
  <2>6. TimeLeft'
    BY <1>3, <2>2 DEF TimeLeft
  <2>7. BitsRight'
    BY <2>2, <2>4 DEF BitsRight, Matches
  <2> QED
    BY <1>4, <2>4, <2>5, <2>6, <2>7 DEF PortInv
<1> QED
  BY <1>5, <1>6

\* The main line of a transfer: from the motor's start to the last byte.
LEMMA TransferStep ==
  ASSUME PortInv,
         \/ MotorOn \/ MotorOnShadow \/ MotorOnPort \/ MotorOnTime \/ DriveReady
         \/ DriveNotReady \/ Seek \/ SeekEnds \/ Command \/ Transfer
  PROVE  PortInv'
<1>0. Control /\ Values /\ Numbers /\ TimeLeft /\ BitsRight
  BY DEF PortInv
<1>1. CASE MotorOn
  <2>1. Control'
    BY <1>0, <1>1 DEF MotorOn, Step, Control, Places, Disabled
  <2>2. Numbers' /\ TimeLeft'
    BY <1>0, <1>1, Bounds DEF MotorOn, Step, Numbers, TimeLeft
  <2>3. Values'
    BY <1>0, <1>1 DEF MotorOn, Values, Bits
  <2>4. BitsRight'
    BY <1>0, <1>1 DEF MotorOn, Step, Values, Bits, BitsRight, Running, Matches
  <2> QED
    BY <2>1, <2>2, <2>3, <2>4 DEF PortInv
<1>2. CASE MotorOnShadow
  <2>1. Control'
    BY <1>0, <1>2 DEF MotorOnShadow, Step, Control, Places, Disabled
  <2>2. Numbers' /\ TimeLeft'
    <3>0. timer' = timer /\ count' = count /\ ticks' = 0
      BY <1>2 DEF MotorOnShadow, Step
    <3>1. Numbers'
      BY <1>0, <3>0, Bounds DEF Numbers
    <3>2. portPc' \notin {"sense", "halt", "seek", "poll", "command"} /\ ticks' = 0
      BY <1>2 DEF MotorOnShadow, Step
    <3> QED
      BY <3>1, <3>2 DEF TimeLeft
  <2>3. Values'
    BY <1>0, <1>2 DEF MotorOnShadow, Values, Bits
  <2>4. BitsRight'
    BY <1>0, <1>2 DEF MotorOnShadow, Step, Values, Bits, BitsRight, Running, Matches
  <2> QED
    BY <2>1, <2>2, <2>3, <2>4 DEF PortInv
<1>3. CASE MotorOnPort
  <2>1. Control'
    BY <1>0, <1>3 DEF MotorOnPort, Step, Control, Places, Disabled
  <2>2. Numbers' /\ TimeLeft'
    <3>0. timer' = timer /\ count' = count /\ ticks' = 0
      BY <1>3 DEF MotorOnPort, Step
    <3>1. Numbers'
      BY <1>0, <3>0, Bounds DEF Numbers
    <3>2. portPc' \notin {"sense", "halt", "seek", "poll", "command"} /\ ticks' = 0
      BY <1>3 DEF MotorOnPort, Step
    <3> QED
      BY <3>1, <3>2 DEF TimeLeft
  <2>3. Values'
    BY <1>0, <1>3 DEF MotorOnPort, Values, Bits
  <2>4. BitsRight'
    BY <1>0, <1>3 DEF MotorOnPort, Step, Values, Bits, BitsRight, Running, Matches
  <2> QED
    BY <2>1, <2>2, <2>3, <2>4 DEF PortInv
<1>4. CASE MotorOnTime
  <2>1. Control'
    BY <1>0, <1>4 DEF MotorOnTime, Step, Control, Places, Disabled
  <2>2. Numbers' /\ TimeLeft'
    BY <1>0, <1>4, Bounds DEF MotorOnTime, Step, Numbers, TimeLeft
  <2>3. Values'
    BY <1>0, <1>4 DEF MotorOnTime, Values, Bits
  <2>4. BitsRight'
    BY <1>0, <1>4 DEF MotorOnTime, Step, Values, Bits, BitsRight, Running, Matches
  <2> QED
    BY <2>1, <2>2, <2>3, <2>4 DEF PortInv
<1>5. CASE DriveReady
  <2>1. Control'
    BY <1>0, <1>5 DEF DriveReady, Step, Control, Places, Disabled
  <2>2. Numbers' /\ TimeLeft'
    BY <1>0, <1>5, Bounds DEF DriveReady, Step, Numbers, TimeLeft
  <2>3. Values'
    BY <1>0, <1>5 DEF DriveReady, Values, Bits
  <2>4. BitsRight'
    BY <1>0, <1>5 DEF DriveReady, Step, Values, Bits, BitsRight, Running, Matches
  <2> QED
    BY <2>1, <2>2, <2>3, <2>4 DEF PortInv
<1>6. CASE DriveNotReady
  <2>1. Control'
    BY <1>0, <1>6 DEF DriveNotReady, Step, Control, Places, Disabled
  <2>2. Numbers' /\ TimeLeft'
    BY <1>0, <1>6, Bounds DEF DriveNotReady, Step, Numbers, TimeLeft
  <2>3. Values'
    BY <1>0, <1>6 DEF DriveNotReady, Values, Bits
  <2>4. BitsRight'
    BY <1>0, <1>6 DEF DriveNotReady, Step, Values, Bits, BitsRight, Running, Matches
  <2> QED
    BY <2>1, <2>2, <2>3, <2>4 DEF PortInv
<1>7. CASE Seek
  <2>1. Control'
    BY <1>0, <1>7 DEF Seek, Step, Control, Places, Disabled
  <2>2. Numbers' /\ TimeLeft'
    BY <1>0, <1>7, Bounds DEF Seek, Step, Numbers, TimeLeft
  <2>3. Values'
    BY <1>0, <1>7 DEF Seek, Values, Bits
  <2>4. BitsRight'
    BY <1>0, <1>7 DEF Seek, Step, Values, Bits, BitsRight, Running, Matches
  <2> QED
    BY <2>1, <2>2, <2>3, <2>4 DEF PortInv
<1>8. CASE SeekEnds
  <2>1. Control'
    BY <1>0, <1>8 DEF SeekEnds, Step, Control, Places, Disabled
  <2>2. Numbers' /\ TimeLeft'
    BY <1>0, <1>8, Bounds DEF SeekEnds, Step, Numbers, TimeLeft
  <2>3. Values'
    BY <1>0, <1>8 DEF SeekEnds, Values, Bits
  <2>4. BitsRight'
    BY <1>0, <1>8 DEF SeekEnds, Step, Values, Bits, BitsRight, Running, Matches
  <2> QED
    BY <2>1, <2>2, <2>3, <2>4 DEF PortInv
<1>9. CASE Command
  <2>1. Control'
    BY <1>0, <1>9 DEF Command, Step, Control, Places, Disabled
  <2>2. Numbers' /\ TimeLeft'
    BY <1>0, <1>9, Bounds DEF Command, Step, Numbers, TimeLeft
  <2>3. Values'
    BY <1>0, <1>9 DEF Command, Values, Bits
  <2>4. BitsRight'
    BY <1>0, <1>9 DEF Command, Step, Values, Bits, BitsRight, Running, Matches
  <2> QED
    BY <2>1, <2>2, <2>3, <2>4 DEF PortInv
<1>10. CASE Transfer
  <2>1. Control'
    BY <1>0, <1>10 DEF Transfer, Step, Control, Places, Disabled
  <2>2. Numbers' /\ TimeLeft'
    BY <1>0, <1>10, Bounds DEF Transfer, Step, Numbers, TimeLeft
  <2>3. Values'
    BY <1>0, <1>10 DEF Transfer, Values, Bits
  <2>4. BitsRight'
    BY <1>0, <1>10 DEF Transfer, Step, Values, Bits, BitsRight, Running, Matches
  <2> QED
    BY <2>1, <2>2, <2>3, <2>4 DEF PortInv
<1> QED
  BY <1>1, <1>2, <1>3, <1>4, <1>5, <1>6, <1>7, <1>8, <1>9, <1>10

\* The card's select and the printer's strobe.
LEMMA OtherStep ==
  ASSUME PortInv,
         \/ SelectCard \/ SelectCardShadow \/ SelectCardPort
         \/ LstPrint \/ StrobeLow \/ StrobeHigh
  PROVE  PortInv'
<1>0. Control /\ Values /\ Numbers /\ TimeLeft /\ BitsRight
  BY DEF PortInv
<1>1. CASE SelectCard
  <2>1. Control'
    BY <1>0, <1>1 DEF SelectCard, Step, Control, Places, Disabled
  <2>2. Numbers' /\ TimeLeft'
    BY <1>0, <1>1, Bounds DEF SelectCard, Step, Numbers, TimeLeft
  <2>3. Values'
    BY <1>0, <1>1 DEF SelectCard, Values, Bits
  <2>4. BitsRight'
    BY <1>0, <1>1 DEF SelectCard, Step, Values, Bits, BitsRight, Running, Matches
  <2> QED
    BY <2>1, <2>2, <2>3, <2>4 DEF PortInv
<1>2. CASE SelectCardShadow
  <2>1. Control'
    BY <1>0, <1>2 DEF SelectCardShadow, Step, Control, Places, Disabled
  <2>2. Numbers' /\ TimeLeft'
    <3>0. timer' = timer /\ count' = count /\ ticks' = 0
      BY <1>2 DEF SelectCardShadow, Step
    <3>1. Numbers'
      BY <1>0, <3>0, Bounds DEF Numbers
    <3>2. portPc' \notin {"sense", "halt", "seek", "poll", "command"} /\ ticks' = 0
      BY <1>2 DEF SelectCardShadow, Step
    <3> QED
      BY <3>1, <3>2 DEF TimeLeft
  <2>3. Values'
    BY <1>0, <1>2 DEF SelectCardShadow, Values, Bits
  <2>4. BitsRight'
    BY <1>0, <1>2 DEF SelectCardShadow, Step, Values, Bits, BitsRight, Running, Matches
  <2> QED
    BY <2>1, <2>2, <2>3, <2>4 DEF PortInv
<1>3. CASE SelectCardPort
  <2>1. Control'
    BY <1>0, <1>3 DEF SelectCardPort, Step, Control, Places, Disabled
  <2>2. Numbers' /\ TimeLeft'
    <3>0. timer' = timer /\ count' = count /\ ticks' = 0
      BY <1>3 DEF SelectCardPort, Step
    <3>1. Numbers'
      BY <1>0, <3>0, Bounds DEF Numbers
    <3>2. portPc' \notin {"sense", "halt", "seek", "poll", "command"} /\ ticks' = 0
      BY <1>3 DEF SelectCardPort, Step
    <3> QED
      BY <3>1, <3>2 DEF TimeLeft
  <2>3. Values'
    BY <1>0, <1>3 DEF SelectCardPort, Values, Bits
  <2>4. BitsRight'
    BY <1>0, <1>3 DEF SelectCardPort, Step, Values, Bits, BitsRight, Running, Matches
  <2> QED
    BY <2>1, <2>2, <2>3, <2>4 DEF PortInv
<1>4. CASE LstPrint
  <2>1. Control'
    BY <1>0, <1>4 DEF LstPrint, Step, Control, Places, Disabled
  <2>2. Numbers' /\ TimeLeft'
    <3>0. timer' = timer /\ count' = count /\ ticks' = 0
      BY <1>4 DEF LstPrint, Step
    <3>1. Numbers'
      BY <1>0, <3>0, Bounds DEF Numbers
    <3>2. portPc' \notin {"sense", "halt", "seek", "poll", "command"} /\ ticks' = 0
      BY <1>4 DEF LstPrint, Step
    <3> QED
      BY <3>1, <3>2 DEF TimeLeft
  <2>3. Values'
    BY <1>0, <1>4 DEF LstPrint, Values, Bits
  <2>4. BitsRight'
    BY <1>0, <1>4 DEF LstPrint, Step, Values, Bits, BitsRight, Running, Matches
  <2> QED
    BY <2>1, <2>2, <2>3, <2>4 DEF PortInv
<1>5. CASE StrobeLow
  <2>1. Control'
    BY <1>0, <1>5 DEF StrobeLow, Step, Control, Places, Disabled
  <2>2. Numbers' /\ TimeLeft'
    <3>0. timer' = timer /\ count' = count /\ ticks' = 0
      BY <1>5 DEF StrobeLow, Step
    <3>1. Numbers'
      BY <1>0, <3>0, Bounds DEF Numbers
    <3>2. portPc' \notin {"sense", "halt", "seek", "poll", "command"} /\ ticks' = 0
      BY <1>5 DEF StrobeLow, Step
    <3> QED
      BY <3>1, <3>2 DEF TimeLeft
  <2>3. Values'
    BY <1>0, <1>5 DEF StrobeLow, Values, Bits
  <2>4. BitsRight'
    BY <1>0, <1>5 DEF StrobeLow, Step, Values, Bits, BitsRight, Running, Matches
  <2> QED
    BY <2>1, <2>2, <2>3, <2>4 DEF PortInv
<1>6. CASE StrobeHigh
  <2>1. Control'
    BY <1>0, <1>6 DEF StrobeHigh, Step, Control, Places, Disabled
  <2>2. Numbers' /\ TimeLeft'
    <3>0. timer' = timer /\ count' = count /\ ticks' = 0
      BY <1>6 DEF StrobeHigh, Step
    <3>1. Numbers'
      BY <1>0, <3>0, Bounds DEF Numbers
    <3>2. portPc' \notin {"sense", "halt", "seek", "poll", "command"} /\ ticks' = 0
      BY <1>6 DEF StrobeHigh, Step
    <3> QED
      BY <3>1, <3>2 DEF TimeLeft
  <2>3. Values'
    BY <1>0, <1>6 DEF StrobeHigh, Values, Bits
  <2>4. BitsRight'
    BY <1>0, <1>6 DEF StrobeHigh, Step, Values, Bits, BitsRight, Running, Matches
  <2> QED
    BY <2>1, <2>2, <2>3, <2>4 DEF PortInv
<1> QED
  BY <1>1, <1>2, <1>3, <1>4, <1>5, <1>6

\* The invariant holds throughout; fairness is not needed for it.
LEMMA PortInvariant == PortInit /\ [][PortNext]_portVars => []PortInv
<1>1. PortInit => PortInv
  <2> SUFFICES ASSUME PortInit PROVE PortInv
    OBVIOUS
  <2>1. Control /\ Values
    BY DEF PortInit, Control, Places, Disabled, Values, Bits
  <2>2. Numbers
    BY TimeAssumption DEF PortInit, Numbers
  <2>3. TimeLeft /\ BitsRight
    BY DEF PortInit, TimeLeft, BitsRight, Matches
  <2> QED
    BY <2>1, <2>2, <2>3 DEF PortInv
<1>2. PortInv /\ [PortNext]_portVars => PortInv'
  <2> SUFFICES ASSUME PortInv, [PortNext]_portVars PROVE PortInv'
    OBVIOUS
  <2>1. CASE Tick
    BY <2>1, TickStep
  <2>2. CASE Begin \/ Continue
    BY <2>2, TransferStep, OtherStep DEF Begin, Continue
  <2>3. CASE UNCHANGED portVars
    BY <2>3, ZenonT(30) DEF portVars, PortInv, Control, Values, Numbers, TimeLeft, BitsRight, Running,
                Matches
  <2> QED
    BY <2>1, <2>2, <2>3 DEF PortNext
<1> QED
  BY <1>1, <1>2, PTL

\* What the invariant is for.
LEMMA InvariantSafe == PortInv => PortTypeOK /\ MotorRunsDuringTransfer /\ PortMatchesShadow
BY Parts DEF PortInv, Control, Disabled, BitsRight, Running, Matches,
             MotorRunsDuringTransfer, PortMatchesShadow

\* The shadow, the port and the timer keep their types, and interrupts are disabled in
\* the sections that say so.
THEOREM PortTypeCorrect == PortSpec => []PortTypeOK
BY InvariantSafe, PortInvariant, PTL DEF PortSpec

\* From the seek to the last byte the motor runs, however long the drive took to
\* become ready and however the ticks fell: FD_MOTOR_ON_TIME covers two ticks for
\* each turn of the wait, the seek, and one tick at each place in between.
THEOREM MotorOutlastsTransfer == PortSpec => []MotorRunsDuringTransfer
BY InvariantSafe, PortInvariant, PTL DEF PortSpec

\* Outside the sections that disable interrupts the port shows what PBAUD says of the
\* motor, and of the card once it has been selected.
THEOREM ShadowKept == PortSpec => []PortMatchesShadow
BY InvariantSafe, PortInvariant, PTL DEF PortSpec

-----------------------------------------------------------------------------
(***************************************************************************)
(* The track cache is a record store, for any number of tracks and records *)
(* and whatever the controller's reads do, as long as the PN-8510's writes *)
(* work.  The invariant says what each place of change_track may rely on:  *)
(* a track is only read over a clean cache, and a clean cache that was     *)
(* read without an error is a copy of its track.                           *)
(***************************************************************************)

Store == [t \in Track |-> IF t = cur THEN buf ELSE disk[t]]
Doubt == IF spoiled THEN {cur} ELSE {}

Result == [status : {"none", "ok", "error"}, data : Data \cup {NoData}]

TrackInv ==
  /\ TrackTypeOK
  /\ (cachePc = "idle") <=> (req = NoReq)
  /\ cachePc = "load" => ~dirty
  /\ cachePc = "transfer" => cur = req.at
  /\ cur \in Track /\ ~dirty /\ ~spoiled => buf = disk[cur]

-----------------------------------------------------------------------------
\* A call is one that the record store takes, and no call is none.
LEMMA CallsAreRequests ==
  ASSUME NEW q \in Calls
  PROVE  /\ q \in Records!Request /\ q # NoReq
         /\ q.at \in Track /\ q.at # NoTrack /\ q.slot \in Slot /\ q.data \in Data
BY GeometryAssumption DEF Calls, Request, Records!Request, NoReq, NoTrack

\* Each step keeps the invariant: the cache is written back before it is read over.
LEMMA TrackStep ==
  ASSUME "pn8510" \notin WritesFail, TrackInv, [TrackNext]_trackVars
  PROVE  TrackInv'
<1> USE DEF TrackInv, TrackTypeOK, Result
<1>0. NoTrack \notin Track
  BY GeometryAssumption DEF NoTrack
<1>1. ASSUME NEW q \in Calls, Call(q) PROVE TrackInv'
  BY <1>1, CallsAreRequests DEF Call, NoResult
<1>2. ASSUME NEW r \in Result, Return(r)
      PROVE  cachePc' = "idle" /\ req' = NoReq /\ res' \in Result
  BY <1>2 DEF Return
<1>3. Error \in Result
  BY DEF Error
<1>4. \A d \in Data \cup {NoData} : Ok(d) \in Result
  BY DEF Ok
<1>5. CASE ChangeHit
  BY <1>5 DEF ChangeHit
<1>6. CASE ChangeClean
  BY <1>6 DEF ChangeClean
<1>7. CASE ChangeFlush
  <2>1. disk' \in [Track -> [Slot -> Data]]
    BY <1>7 DEF ChangeFlush, FlushOk, FlushFails
  <2>2. CASE FlushOk(buf) /\ cachePc' = "load" /\ UNCHANGED <<req, res>>
    BY <1>7, <2>1, <2>2 DEF ChangeFlush, FlushOk
  <2>3. CASE FlushFails(buf) /\ Return(Error)
    BY <1>7, <1>2, <1>3, <2>1, <2>3 DEF ChangeFlush, FlushFails
  <2>4. machine \in WritesFail => machine = "pn8800"
    BY MachineAssumption
  <2> QED
    BY <1>7, <2>2, <2>3, <2>4 DEF ChangeFlush, FlushFails
<1>8. CASE Load
  <2>1. req \in Calls /\ req.at \in Track
    BY <1>8, CallsAreRequests DEF Load
  <2>2. CASE spoiled' = FALSE
    BY <1>8, <2>1, <2>2, ZenonT(30) DEF Load
  <2>3. CASE spoiled' = TRUE
    BY <1>8, <1>2, <1>3, <2>1, <2>3 DEF Load
  <2> QED
    BY <1>8, <2>2, <2>3 DEF Load
<1>9. CASE TransferRead
  <2>1. req \in Calls /\ buf[req.slot] \in Data
    BY <1>9, CallsAreRequests DEF TransferRead
  <2> QED
    BY <1>9, <1>2, <1>4, <2>1 DEF TransferRead
<1>10. CASE TransferWrite
  <2>1. req \in Calls /\ cur \in Track /\ buf' \in [Slot -> Data]
    BY <1>10, CallsAreRequests DEF TransferWrite
  <2>2. disk' \in [Track -> [Slot -> Data]]
    BY <1>10, <2>1 DEF TransferWrite, FlushOk, FlushFails
  <2>3. cachePc' = "idle" /\ req' = NoReq /\ res' \in Result
    BY <1>10, <1>2, <1>3, <1>4 DEF TransferWrite
  <2>4. ~dirty' => disk'[cur] = buf'
    BY <1>10, <2>1 DEF TransferWrite, FlushOk, FlushFails
  <2>5. dirty' \in BOOLEAN
    BY <1>10 DEF TransferWrite, FlushOk, FlushFails
  <2> QED
    BY <1>10, <2>1, <2>2, <2>3, <2>4, <2>5 DEF TransferWrite
<1>11. CASE Login
  BY <1>0, <1>11 DEF Login, NoResult
<1>12. CASE PowerCycle
  BY <1>0, <1>12, DataAssumption DEF PowerCycle, NoResult
<1>13. CASE UNCHANGED trackVars
  BY <1>13 DEF trackVars
<1> QED
  BY <1>1, <1>5, <1>6, <1>7, <1>8, <1>9, <1>10, <1>11, <1>12, <1>13 DEF TrackNext

\* The invariant holds throughout.
LEMMA TrackInvariant ==
  ASSUME "pn8510" \notin WritesFail
  PROVE  TrackSpec => []TrackInv
<1>1. TrackInit => TrackInv
  <2> SUFFICES ASSUME TrackInit PROVE TrackInv
    OBVIOUS
  <2>1. NoTrack \notin Track
    BY GeometryAssumption DEF NoTrack
  <2>2. disk \in [Track -> [Slot -> Data]] /\ buf \in [Slot -> Data]
    BY DataAssumption DEF TrackInit
  <2> QED
    BY <2>1, <2>2 DEF TrackInit, TrackInv, TrackTypeOK, NoResult
<1>2. TrackInv /\ [TrackNext]_trackVars => TrackInv'
  BY TrackStep
<1> QED
  BY <1>1, <1>2, PTL DEF TrackSpec

-----------------------------------------------------------------------------
\* What the record store sees of a call's end and of its failure.
LEMMA Returned ==
  ASSUME NEW r, Return(r)
  PROVE  Records!Return(r)
BY DEF Return, Records!Return, NoReq, Records!NoReq

\* A clean cache hides nothing: what a read returns is on the medium, except of
\* the track in doubt.
LEMMA CleanStoreIsDisk ==
  ASSUME TrackInv, ~dirty
  PROVE  \A t \in Track \ Doubt : Store[t] = disk[t]
BY DEF TrackInv, TrackTypeOK, Store, Doubt

\* The store holds a block for each track, before a step and after it.
LEMMA StoreType ==
  ASSUME TrackInv, TrackInv'
  PROVE  /\ Store \in [Track -> [Slot -> Data]]
         /\ Store' \in [Track -> [Slot -> Data]]
BY DEF TrackInv, TrackTypeOK, Store

\* Each step of the cache is one of the record store or changes nothing there.
LEMMA TrackRefines ==
  ASSUME "pn8510" \notin WritesFail, TrackInv, TrackInv', [TrackNext]_trackVars
  PROVE  [Records!Next]_(Records!vars)
<1>0. NoTrack \notin Track
  BY GeometryAssumption DEF NoTrack
<1>1. ASSUME NEW q \in Calls, Call(q) PROVE Records!Next
  <2>1. Records!Call(q)
    BY <1>1 DEF Call, TrackInv, Records!Call, NoResult, Records!NoResult, NoReq, Records!NoReq
  <2> QED
    BY <2>1, CallsAreRequests DEF Records!Next
<1>2. CASE ChangeHit
  BY <1>2 DEF ChangeHit, Records!vars
<1>3. CASE ChangeClean
  BY <1>3 DEF ChangeClean, Records!vars
<1>4. CASE ChangeFlush
  <2>1. cur \in Track /\ Store[cur] = buf
    BY <1>4 DEF ChangeFlush, TrackInv, TrackTypeOK, Store
  <2>2. Store' = Store /\ Doubt' = Doubt
    BY <1>4, <2>1 DEF ChangeFlush, FlushOk, FlushFails, Store, Doubt, TrackInv, TrackTypeOK
  <2>3. CASE FlushOk(buf) /\ UNCHANGED <<req, res>>
    <3>1. Records!Sync(cur)
      BY <2>1, <2>2, <2>3 DEF FlushOk, Records!Sync, Store, Doubt
    <3> QED
      BY <2>1, <3>1 DEF Records!Next
  <2>4. CASE FlushFails(buf) /\ Return(Error)
    <3>1. Records!Return(Records!Error) /\ req # Records!NoReq
      BY <1>4, <2>4, Returned
         DEF Error, Records!Error, ChangeFlush, TrackInv, NoReq, Records!NoReq
    <3>2. Records!FailClean
      BY <2>1, <2>2, <2>4 DEF FlushFails, Records!FailClean, Store, Doubt
    <3> QED
      BY <3>1, <3>2 DEF Records!Fail, Records!Next
  <2>5. machine \in WritesFail => machine = "pn8800"
    BY MachineAssumption DEF TrackInv, TrackTypeOK
  <2> QED
    BY <1>4, <2>3, <2>4, <2>5 DEF ChangeFlush, FlushFails
<1>5. CASE Load
  <2>1. req \in Calls /\ req.at \in Track /\ req # NoReq /\ ~dirty
    BY <1>5, CallsAreRequests DEF Load, TrackInv, TrackTypeOK
  <2>2. disk' = disk /\ cur' = req.at
    BY <1>5 DEF Load
  <2>3. \A t \in Track \ Doubt : Store[t] = disk[t]
    BY <2>1, CleanStoreIsDisk
  <2>4. CASE buf' = disk[req.at] /\ spoiled' = FALSE /\ UNCHANGED <<req, res>>
    <3>1. Store' = disk /\ Doubt' = {}
      BY <2>2, <2>4 DEF Store, Doubt, TrackInv, TrackTypeOK
    <3>2. CASE Doubt = {}
      <4>1. Store = disk
        BY <2>3, <3>2 DEF Store, TrackInv, TrackTypeOK
      <4> QED
        BY <2>2, <2>4, <3>1, <3>2, <4>1 DEF Records!vars, Store, Doubt
    <3>3. CASE Doubt # {}
      <4>1. Records!Settle
        BY <2>2, <2>3, <2>4, <3>1, <3>3, StoreType
           DEF Records!Settle, Records!SameOutside, Records!Block, Store, Doubt
      <4> QED
        BY <4>1 DEF Records!Next
    <3> QED
      BY <3>2, <3>3
  <2>5. CASE ReadsFail /\ spoiled' = TRUE /\ Return(Error)
    <3>1. Records!Return(Records!Error) /\ req # Records!NoReq
      BY <2>1, <2>5, Returned DEF Error, Records!Error, NoReq, Records!NoReq
    <3>2. Doubt' = {req.at} /\ \A t \in Track \ {req.at} : Store'[t] = disk[t]
      BY <2>2, <2>5 DEF Store, Doubt
    <3>3. Records!FailSpoiled
      BY <2>1, <2>2, <2>3, <2>5, <3>2, StoreType
         DEF Records!FailSpoiled, Records!SameOutside, Records!Block, Store, Doubt
    <3> QED
      BY <3>1, <3>3 DEF Records!Fail, Records!Next
  <2> QED
    BY <1>5, <2>4, <2>5 DEF Load
<1>6. CASE TransferRead
  <2>1. req \in Calls /\ req # NoReq /\ cur = req.at /\ cur \in Track
    BY <1>6, CallsAreRequests DEF TransferRead, TrackInv, TrackTypeOK
  <2>2. Store[req.at] = buf
    BY <2>1 DEF Store
  <2>3. Records!Return(Records!Ok(buf[req.slot]))
    BY <1>6, Returned DEF TransferRead, Ok, Records!Ok
  <2>4. Records!ReadOk
    BY <1>6, <2>1, <2>2, <2>3
       DEF TransferRead, Records!ReadOk, NoReq, Records!NoReq, Store, Doubt
  <2> QED
    BY <2>4 DEF Records!Next
<1>7. CASE TransferWrite
  <2>1. req \in Calls /\ req # NoReq /\ cur = req.at /\ cur \in Track
    BY <1>7, CallsAreRequests DEF TransferWrite, TrackInv, TrackTypeOK
  <2>2. buf' = [buf EXCEPT ![req.slot] = req.data] /\ cur' = cur /\ Doubt' = Doubt
    BY <1>7 DEF TransferWrite, Doubt
  <2>3. \A t \in Track \ {cur} : disk'[t] = disk[t]
    BY <1>7 DEF TransferWrite, FlushOk, FlushFails, TrackInv, TrackTypeOK
  <2>4. Store' = Records!Applied /\ Store'[req.at] = buf'
    BY <2>1, <2>2, <2>3 DEF Records!Applied, Store
  <2>5. CASE /\ Return(Ok(NoData))
             /\ disk' = IF req.mode = 1 THEN [disk EXCEPT ![cur] = buf'] ELSE disk
    <3>1. Records!Return(Records!Ok(NoData)) /\ req # Records!NoReq
      BY <2>1, <2>5, Returned DEF Ok, Records!Ok, NoReq, Records!NoReq
    <3>2. Records!WriteOk
      BY <1>7, <2>1, <2>2, <2>4, <2>5, <3>1
         DEF TransferWrite, Records!WriteOk, Store, Doubt
    <3> QED
      BY <3>2 DEF Records!Next
  <2>6. CASE req.mode = 1 /\ FlushFails(buf') /\ Return(Error)
    <3>1. Records!Return(Records!Error) /\ req # Records!NoReq
      BY <2>1, <2>6, Returned DEF Error, Records!Error, NoReq, Records!NoReq
    <3>2. Records!FailWritten
      BY <1>7, <2>1, <2>2, <2>4, <2>6
         DEF TransferWrite, FlushFails, Records!FailWritten, Store, Doubt
    <3> QED
      BY <3>1, <3>2 DEF Records!Fail, Records!Next
  <2> QED
    BY <1>7, <2>5, <2>6 DEF TransferWrite, FlushOk
<1>8. CASE Login
  <2>1. Store' = disk /\ Doubt' = {} /\ disk' = disk
    BY <1>0, <1>8 DEF Login, Store, Doubt, TrackInv, TrackTypeOK
  <2>2. req' = Records!NoReq /\ res' = Records!NoResult
    BY <1>8 DEF Login, TrackInv, NoReq, Records!NoReq, NoResult, Records!NoResult
  <2>3. Records!PowerCycle
    BY <2>1, <2>2 DEF Records!PowerCycle, Store, Doubt
  <2> QED
    BY <2>3 DEF Records!Next
<1>9. CASE PowerCycle
  <2>1. Store' = disk /\ Doubt' = {} /\ disk' = disk
    BY <1>0, <1>9 DEF PowerCycle, Store, Doubt, TrackInv, TrackTypeOK
  <2>2. req' = Records!NoReq /\ res' = Records!NoResult
    BY <1>9 DEF PowerCycle, NoReq, Records!NoReq, NoResult, Records!NoResult
  <2>3. Records!PowerCycle
    BY <2>1, <2>2 DEF Records!PowerCycle, Store, Doubt
  <2> QED
    BY <2>3 DEF Records!Next
<1>10. CASE UNCHANGED trackVars
  BY <1>10 DEF trackVars, Records!vars
<1> QED
  BY <1>1, <1>2, <1>3, <1>4, <1>5, <1>6, <1>7, <1>8, <1>9, <1>10 DEF TrackNext

\* The PN-8800's cache is a record store whatever its transfers do, and so is the
\* PN-8510's while its writes work: a read returns what was last written, a failing
\* read puts no track but its own in doubt, and what a mode 1 write was told is
\* done outlives the power.  For all tracks, records and contents.
THEOREM TrackCacheIsAStore ==
  ASSUME "pn8510" \notin WritesFail
  PROVE  TrackSpec => ImplementsRecordStore
<1>1. TrackInit => Records!Init
  <2> SUFFICES ASSUME TrackInit PROVE Records!Init
    OBVIOUS
  <2>1. Store = disk /\ Doubt = {} /\ disk \in [Track -> [Slot -> Data]]
    BY GeometryAssumption, DataAssumption DEF TrackInit, Store, Doubt, NoTrack
  <2> QED
    BY <2>1 DEF TrackInit, Records!Init, Records!Block, Store, Doubt, NoReq, Records!NoReq,
                NoResult, Records!NoResult
<1>2. TrackInv /\ TrackInv' /\ [TrackNext]_trackVars => [Records!Next]_(Records!vars)
  BY TrackRefines
<1> QED
  BY <1>1, <1>2, TrackInvariant, PTL DEF TrackSpec, ImplementsRecordStore, Records!Spec
\* The cache, the disk and the call in progress keep their types, and a dirty or
\* spoiled cache is one of a track.
THEOREM TrackTypeCorrect ==
  ASSUME "pn8510" \notin WritesFail
  PROVE  TrackSpec => []TrackTypeOK
<1>1. TrackInv => TrackTypeOK
  BY DEF TrackInv
<1> QED
  BY <1>1, TrackInvariant, PTL

-----------------------------------------------------------------------------

(***************************************************************************)
(* The judgement of a transfer is right in both directions, for any sets   *)
(* of status bytes, unless the WP2450DS is among the drivers: there the    *)
(* run fdcstatus_wp2450 shows the opposite.                                *)
(***************************************************************************)

\* The rotations give a number of three bits, each of which is what the data sheet says.
LEMMA CodeOfStatus ==
  ASSUME NEW s0 \in 0..255, NEW s1 \in 0..255
  PROVE  /\ Code(s0, s1) \in 0..7
         /\ s0 \div 64 = Code(s0, s1) % 4
         /\ s1 \div 128 = Code(s0, s1) \div 4
BY DEF Code

\* Which codes are those of a transfer that has failed.
LEMMA FailedByCode ==
  ASSUME NEW s0 \in 0..255, NEW s1 \in 0..255
  PROVE  Failed(s0, s1) <=> Code(s0, s1) \notin {0, 4, 5}
<1> DEFINE c == Code(s0, s1)
<1>1. c \in 0..7 /\ s0 \div 64 = c % 4 /\ s1 \div 128 = c \div 4
  BY CodeOfStatus, ZenonT(30)
<1>2. Failed(s0, s1) <=> ~(c % 4 = 0 \/ (c % 4 = 1 /\ c \div 4 = 1))
  BY <1>1 DEF Failed
<1> HIDE DEF c
<1>3. ~(c % 4 = 0 \/ (c % 4 = 1 /\ c \div 4 = 1)) <=> c \notin {0, 4, 5}
  BY <1>1
<1> QED
  BY <1>2, <1>3 DEF c

\* The bitmap of the PN-8800, shifted once more than the code says, holds the same set.
LEMMA BitmapOfPn8800 ==
  ASSUME NEW n \in 0..7
  PROVE  Carry(115, n + 1) = 0 <=> n \in {0, 4, 5}
<1>1. CASE n = 0  BY <1>1 DEF Carry, Doubled
<1>2. CASE n = 1  BY <1>2 DEF Carry, Doubled
<1>3. CASE n = 2  BY <1>3 DEF Carry, Doubled
<1>4. CASE n = 3  BY <1>4 DEF Carry, Doubled
<1>5. CASE n = 4  BY <1>5 DEF Carry, Doubled
<1>6. CASE n = 5  BY <1>6 DEF Carry, Doubled
<1>7. CASE n = 6  BY <1>7 DEF Carry, Doubled
<1>8. CASE n = 7  BY <1>8 DEF Carry, Doubled
<1> QED
  BY <1>1, <1>2, <1>3, <1>4, <1>5, <1>6, <1>7, <1>8

\* What each driver accepts, in the controller's terms: all but the mask of the PN-8510,
\* which wants ST0 clean, draw the line where the controller does.
LEMMA AcceptedIsNotFailed ==
  ASSUME NEW s0 \in 0..255, NEW s1 \in 0..255
  PROVE  /\ Accepted("nc200", s0, s1) <=> ~Failed(s0, s1)
         /\ Accepted("pn8800", s0, s1) <=> ~Failed(s0, s1)
         /\ Accepted("pn8510", s0, s1) => ~Failed(s0, s1)
         /\ (s0 \div 64 = 0 => s0 \div 16 = 0) =>
              (~Accepted("pn8510", s0, s1) => Failed(s0, s1) \/ s0 \div 64 = 1)
<1>1. Accepted("nc200", s0, s1) <=> ~Failed(s0, s1)
  BY FailedByCode, ZenonT(30) DEF Accepted, Nc200Ok
<1>2. Accepted("pn8800", s0, s1) <=> ~Failed(s0, s1)
  BY FailedByCode, CodeOfStatus, BitmapOfPn8800, ZenonT(30) DEF Accepted, Pn8800Ok
<1>3. Accepted("pn8510", s0, s1) <=> s0 \div 16 = 0
  BY DEF Accepted, Pn8510Ok
<1> QED
  BY <1>1, <1>2, <1>3 DEF Failed

\* The verdict is one on the status bytes that are there, and the right one.
FdcInv ==
  /\ driver \in Driver /\ st0 \in 0..255 /\ st1 \in 0..255
  /\ VerdictRight

\* No driver but the WP2450DS's takes a failed transfer for a success, and none rejects one
\* that worked, except for the PN-8510 at the end of a track: with every status byte a
\* controller can give.
THEOREM VerdictsRight ==
  ASSUME "wp2450" \notin Driver
  PROVE  FdcSpec => []VerdictRight
<1>1. FdcInit => FdcInv
  BY ByteAssumption DEF FdcInit, FdcInv, VerdictRight, FailureSeen, SuccessSeen
<1>2. ASSUME FdcInv, NEW s0 \in Byte0, NEW s1 \in Byte1, Ends(s0, s1)
      PROVE  FdcInv'
  <2>1. s0 \in 0..255 /\ s1 \in 0..255 /\ (s0 \div 64 = 0 => s0 \div 16 = 0)
    BY ByteAssumption, NormalAssumption
  <2>2. driver \in {"nc200", "pn8800", "pn8510"} /\ driver \in Driver
    BY <1>2, DriverAssumption DEF FdcInv
  <2>3. /\ driver' = driver /\ st0' = s0 /\ st1' = s1
        /\ verdict' = IF Accepted(driver, s0, s1) THEN "ok" ELSE "error"
    BY <1>2 DEF Ends
  <2>4. Accepted(driver, s0, s1) => ~Failed(s0, s1)
    BY <2>1, <2>2, AcceptedIsNotFailed, ZenonT(30)
  <2>5. ~Accepted(driver, s0, s1) => Failed(s0, s1) \/ (driver = "pn8510" /\ s0 \div 64 = 1)
    BY <2>1, <2>2, AcceptedIsNotFailed, ZenonT(30)
  <2>6. FailureSeen'
    BY <2>3, <2>4 DEF FailureSeen
  <2>7. SuccessSeen'
    BY <2>3, <2>5 DEF SuccessSeen
  <2> QED
    BY <2>1, <2>2, <2>3, <2>6, <2>7 DEF FdcInv, VerdictRight
<1>3. FdcInv /\ UNCHANGED fdcVars => FdcInv'
  BY DEF FdcInv, fdcVars, VerdictRight, FailureSeen, SuccessSeen
<1>4. FdcInv => VerdictRight
  BY DEF FdcInv
<1>5. FdcInv /\ [FdcNext]_fdcVars => FdcInv'
  BY <1>2, <1>3 DEF FdcNext
<1> QED
  BY <1>1, <1>4, <1>5, PTL DEF FdcSpec

-----------------------------------------------------------------------------
\* Each part of the composition is its own specification: a step of another part
\* leaves it alone.
LEMMA PartsAlone ==
  /\ Spec => GateSpec
  /\ Spec => ScanSpec
  /\ Spec => PortInit /\ [][PortNext]_portVars
  /\ Spec => TrackSpec
  /\ Spec => FdcSpec
<1>1. Init => GateInit /\ ScanInit /\ PortInit /\ TrackInit /\ FdcInit
  BY DEF Init
<1>2. [Next]_driversVars =>
        /\ [GateNext]_gateVars /\ [ScanNext]_scanVars /\ [PortNext]_portVars
        /\ [TrackNext]_trackVars /\ [FdcNext]_fdcVars
  BY Zenon DEF Next, driversVars
<1> QED
  BY <1>1, <1>2, PTL DEF Spec, GateSpec, ScanSpec, TrackSpec, FdcSpec

\* The safety of the drivers, in one place: types, interrupts, mapped code, modifiers, motor
\* and port, system calls, characters, the track cache and the verdicts on transfers.  It is assumed
\* that disks have one of the two numbers that SREAD and SWRITE dispatch on, that writes on
\* the PN-8510 work, and that the WP2450DS's verdict is not looked at.
THEOREM DriversSafe ==
  ASSUME Disk \subseteq 0..1, "pn8510" \notin WritesFail, "wp2450" \notin Driver
  PROVE  Spec => /\ []DriversTypeOK
                 /\ [](InterruptsSafe /\ CodeMapped /\ NoStuckModifier)
                 /\ [](MotorRunsDuringTransfer /\ PortMatchesShadow /\ VerdictRight)
                 /\ GateTransparent /\ CharacterPerPress /\ ImplementsRecordStore
<1>1. GateSpec => []GateTypeOK /\ []InterruptsSafe /\ []CodeMapped /\ GateTransparent
  BY GateTypeCorrect, GateSafe, GateMapped, GateUnnoticed, PTL
<1>2. ScanSpec => []ScanTypeOK /\ []NoStuckModifier /\ CharacterPerPress
  BY ScanTypeCorrect, ModifiersReleased, CharactersPressed, PTL
<1>3. PortInit /\ [][PortNext]_portVars =>
        []PortTypeOK /\ []MotorRunsDuringTransfer /\ []PortMatchesShadow
  BY PortInvariant, InvariantSafe, PTL
<1>4. TrackSpec => []TrackTypeOK /\ ImplementsRecordStore
  BY TrackTypeCorrect, TrackCacheIsAStore
<1>5. FdcSpec => []VerdictRight
  BY VerdictsRight
<1>6. GateTypeOK /\ ScanTypeOK /\ PortTypeOK /\ TrackTypeOK <=> DriversTypeOK
  BY DEF DriversTypeOK
<1> QED
  BY <1>1, <1>2, <1>3, <1>4, <1>5, <1>6, PartsAlone, PTL
===============================================================================
