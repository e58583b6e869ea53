----------------------------- MODULE Supervisor -----------------------------
(***************************************************************************)
(* The NC200's gate between user space and the supervisor: syscall, SYSOUT,*)
(* BIRQ and BOOTE (nc200/bios.z80), SYSIN, syscall_exit, SREAD and SWRITE  *)
(* (nc200/supervisor/syscalls.inc), SIRQ and the handler at 0x0038         *)
(* (interrupts.inc, boot/sirq.z80) and warmboot (startup.inc).             *)
(*                                                                         *)
(* Code, both stacks and the handlers at 0x0038 sit in the banks that these*)
(* routines switch, so what matters is which instruction an interrupt may  *)
(* come before.  One action is one instruction that touches SP, a bank or  *)
(* the interrupt flag; "ei" is one with the instruction after it, before   *)
(* which the Z80 takes no interrupt.                                       *)
(***************************************************************************)
EXTENDS Integers, Sequences

CONSTANTS UserStack,   \* banks in which programs keep their stacks
          Disk         \* what SELDSKE stores in BDISK

ASSUME UserStackAssumption == UserStack \subseteq 0..3 /\ 0 \in UserStack
ASSUME DiskAssumption == Disk \subseteq 0..255

VARIABLES cpu,     \* the mapped pages, the bank SP points into, IFF1, and whether
                   \* IX and IY are still the program's
          stack,   \* the supervisor's stack
          saved,   \* saved_stack
          pc,      \* where the main line of control is
          irq,     \* where the interrupt routine is that has interrupted it
          caller,  \* history: SP at the system call
          before   \* history: the CPU at the interrupt

gateVars == <<cpu, stack, saved, pc, irq, caller, before>>

\* Pages by the number written to PORT_BANK0 .. PORT_BANK3.
SupervisorPage == 64
CpmPage        == 65
User(k)        == 68 + k
CardPage       == 128
Page           == {SupervisorPage, CpmPage, CardPage} \cup {User(k) : k \in 0..4}
UserSpace      == [k \in 0..3 |-> User(k)]

\* SYSSTK is in the supervisor's page; it is always mapped to bank 0.
SystemStack == 4
StackMapped ==
  IF cpu.sp = SystemStack THEN cpu.bank[0] = SupervisorPage
                          ELSE cpu.bank[cpu.sp] = User(cpu.sp)

GateTypeOK ==
  /\ cpu \in [bank : [0..3 -> Page], sp : UserStack \cup {SystemStack},
              iff : BOOLEAN, index : BOOLEAN]
  /\ Len(stack) <= 2
  /\ saved \in UserStack
  /\ pc \in {"user", "save", "map", "switch", "enable", "handler", "critical", "disk",
             "transfer", "pop", "exit", "user3", "user0", "user12", "restore", "return",
             "cache", "vectors", "boot", "boot0", "boot12", "ccp"}
  /\ irq \in {"none", "supervisor", "save", "enter", "sirq", "restore", "return"}
  /\ caller \in UserStack

\* STARTUP has loaded CP/M to the top of user space, through banks 2 and 3, and
\* coldboot, which writes to page zero through bank 1, falls into warmboot.
GateInit ==
  /\ cpu = [bank |-> [UserSpace EXCEPT ![0] = SupervisorPage, ![1] = User(0), ![2] = User(3)],
            sp |-> SystemStack, iff |-> TRUE, index |-> TRUE]
  /\ stack = <<>>
  /\ saved = 0
  /\ pc = "cache"
  /\ irq = "none"
  /\ caller = 0
  /\ before = cpu

-----------------------------------------------------------------------------
\* The main line advances and leaves CPU c behind; the interrupt routines do.
Main(from, to, c) ==
  irq = "none" /\ pc = from /\ pc' = to /\ cpu' = c /\ UNCHANGED <<irq, before>>

Mapped(k, p)   == [cpu EXCEPT !.bank[k] = p]
Interrupts(b)  == [cpu EXCEPT !.iff = b]
StackAt(s)     == [cpu EXCEPT !.sp = s]

\* A program uses any stack of its own.
Program ==
  /\ \E s \in UserStack : Main("user", "user", StackAt(s))
  /\ UNCHANGED <<stack, saved, caller>>

\* syscall in bios.z80: di; save SP; map the supervisor.
SyscallDisable ==
  /\ Main("user", "save", Interrupts(FALSE))
  /\ caller' = cpu.sp
  /\ UNCHANGED <<stack, saved>>

SyscallSave ==
  /\ Main("save", "map", cpu)
  /\ saved' = cpu.sp
  /\ UNCHANGED <<stack, caller>>

SyscallMap ==
  /\ Main("map", "switch", Mapped(0, SupervisorPage))
  /\ UNCHANGED <<stack, saved, caller>>

\* SYSIN: ld sp, SYSSTK; ei; push ix; push iy.
SyscallSwitch ==
  /\ Main("switch", "enable", StackAt(SystemStack))
  /\ stack' = <<>>
  /\ UNCHANGED <<saved, caller>>

SyscallEnable ==
  /\ Main("enable", "handler", Interrupts(TRUE))
  /\ stack' = <<"index">>
  /\ UNCHANGED <<saved, caller>>

-----------------------------------------------------------------------------
\* The handlers use IX and IY, map user memory for a transfer, two banks of it
\* (map_userspace_dma), or the card (pcmcia.inc), and disable interrupts for a
\* while (fd765_motor_on, kbd_get_next_key, ...).
HandlerWork ==
  /\ \E at \in {"handler", "disk"}, c \in {Mapped(3, CardPage)} \cup
        {[cpu EXCEPT !.bank[2] = User(k), !.bank[3] = User(k + 1)] : k \in 0..3} :
       Main(at, at, [c EXCEPT !.index = FALSE])
  /\ UNCHANGED <<stack, saved, caller>>

HandlerDisable ==
  /\ Main("handler", "critical", Interrupts(FALSE)) \/ Main("disk", "transfer", Interrupts(FALSE))
  /\ UNCHANGED <<stack, saved, caller>>

HandlerEnable ==
  /\ Main("critical", "handler", Interrupts(TRUE)) \/ Main("transfer", "disk", Interrupts(TRUE))
  /\ UNCHANGED <<stack, saved, caller>>

HandlerDone ==
  /\ Main("handler", "pop", cpu)
  /\ UNCHANGED <<stack, saved, caller>>

\* SREAD and SWRITE push exit_read_or_write and dispatch on BDISK.  The disk
\* routine returns there; general_purpose_failure does not.
ReadOrWrite(d) ==
  /\ Main("handler", IF d <= 1 THEN "disk" ELSE "pop", cpu)
  /\ stack' = Append(stack, "exit_read_or_write")
  /\ UNCHANGED <<saved, caller>>

\* Mutant: the disk routine's return address is left on the stack.
DiskDoneUnpopped ==
  /\ Main("disk", "pop", cpu)
  /\ UNCHANGED <<stack, saved, caller>>

DiskDone ==
  /\ Main("disk", "pop", cpu)
  /\ stack' = SubSeq(stack, 1, Len(stack) - 1)
  /\ UNCHANGED <<saved, caller>>

-----------------------------------------------------------------------------
\* syscall_exit: pop iy; pop ix; di; map USER3.
ExitPop ==
  /\ Main("pop", "exit", [cpu EXCEPT !.index = stack[Len(stack)] = "index"])
  /\ stack' = SubSeq(stack, 1, Len(stack) - 1)
  /\ UNCHANGED <<saved, caller>>

ExitDisable ==
  /\ Main("exit", "user3", Interrupts(FALSE))
  /\ UNCHANGED <<stack, saved, caller>>

\* Mutant: USER3 is not mapped.
ExitMapped2 ==
  /\ Main("user3", "user0", Mapped(2, User(3)))
  /\ UNCHANGED <<stack, saved, caller>>

ExitMap3 ==
  /\ Main("user3", "user0", Mapped(3, User(3)))
  /\ UNCHANGED <<stack, saved, caller>>

\* SYSOUT: map USER0 to USER2; restore SP; ei; ret.
ExitMap0 ==
  /\ Main("user0", "user12", Mapped(0, User(0)))
  /\ UNCHANGED <<stack, saved, caller>>

ExitMap12 ==
  /\ Main("user12", "restore", [cpu EXCEPT !.bank[1] = User(1), !.bank[2] = User(2)])
  /\ UNCHANGED <<stack, saved, caller>>

ExitRestore ==
  /\ Main("restore", "return", StackAt(saved))
  /\ UNCHANGED <<stack, saved, caller>>

ExitReturn ==
  /\ Main("return", "user", Interrupts(TRUE))
  /\ UNCHANGED <<stack, saved, caller>>

-----------------------------------------------------------------------------
\* SWBOOT jumps to warmboot: copy the CCP and BDOS from the cache, then write
\* page zero; BOOTE maps user space and sets up a stack there.
WarmBoot ==
  /\ Main("handler", "cache", cpu)
  /\ UNCHANGED <<stack, saved, caller>>

WarmBootCopy ==
  /\ Main("cache", "vectors", [cpu EXCEPT !.bank[1] = CpmPage, !.bank[3] = User(3)])
  /\ UNCHANGED <<stack, saved, caller>>

WarmBootVectors ==
  /\ Main("vectors", "boot", Mapped(1, User(0)))
  /\ UNCHANGED <<stack, saved, caller>>

\* Mutant: BOOTE does not disable interrupts.
BootEnabled ==
  /\ Main("boot", "boot0", cpu)
  /\ UNCHANGED <<stack, saved, caller>>

BootDisable ==
  /\ Main("boot", "boot0", Interrupts(FALSE))
  /\ UNCHANGED <<stack, saved, caller>>

BootMap0 ==
  /\ Main("boot0", "boot12", Mapped(0, User(0)))
  /\ UNCHANGED <<stack, saved, caller>>

BootMap12 ==
  /\ Main("boot12", "ccp", [cpu EXCEPT !.bank[1] = User(1), !.bank[2] = User(2), !.sp = 0])
  /\ UNCHANGED <<stack, saved, caller>>

BootReturn ==
  /\ Main("ccp", "user", [cpu EXCEPT !.iff = TRUE, !.index = TRUE])
  /\ UNCHANGED <<stack, saved, caller>>

-----------------------------------------------------------------------------
\* An interrupt is a call of 0x0038, in whatever page bank 0 holds: the BIOS's
\* vector to BIRQ or the supervisor's own handler.
Interrupt ==
  /\ irq = "none"
  /\ cpu.iff
  /\ irq' = IF cpu.bank[0] = User(0) THEN "save" ELSE "supervisor"
  /\ before' = cpu
  /\ cpu' = Interrupts(FALSE)
  /\ UNCHANGED <<stack, saved, pc, caller>>

\* The supervisor's handler, or BIRQ from its "ei" on: ei; reti.
InterruptReturn ==
  /\ irq \in {"supervisor", "return"}
  /\ irq' = "none"
  /\ cpu' = Interrupts(TRUE)
  /\ UNCHANGED <<stack, saved, pc, caller, before>>

\* BIRQ: save SP, switch to SYSSTK, map the supervisor, call SIRQ, and back.
BirqSave ==
  /\ irq = "save" /\ irq' = "enter"
  /\ saved' = cpu.sp
  /\ cpu' = StackAt(SystemStack)
  /\ UNCHANGED <<stack, pc, caller, before>>

BirqEnter ==
  /\ irq = "enter" /\ irq' = "sirq"
  /\ cpu' = Mapped(0, SupervisorPage)
  /\ stack' = <<>>                       \* SIRQ's frame is pushed over it
  /\ UNCHANGED <<saved, pc, caller, before>>

BirqLeave ==
  /\ irq = "sirq" /\ irq' = "restore"
  /\ cpu' = Mapped(0, User(0))
  /\ UNCHANGED <<stack, saved, pc, caller, before>>

BirqRestore ==
  /\ irq = "restore" /\ irq' = "return"
  /\ cpu' = StackAt(saved)
  /\ UNCHANGED <<stack, saved, pc, caller, before>>

GateNext ==
  \/ Program
  \/ SyscallDisable
  \/ SyscallSave
  \/ SyscallMap
  \/ SyscallSwitch
  \/ SyscallEnable
  \/ HandlerWork
  \/ HandlerDisable
  \/ HandlerEnable
  \/ HandlerDone
  \/ \E d \in Disk : ReadOrWrite(d)
  \/ DiskDone
  \/ ExitPop
  \/ ExitDisable
  \/ ExitMap3
  \/ ExitMap0
  \/ ExitMap12
  \/ ExitRestore
  \/ ExitReturn
  \/ WarmBoot
  \/ WarmBootCopy
  \/ WarmBootVectors
  \/ BootDisable
  \/ BootMap0
  \/ BootMap12
  \/ BootReturn
  \/ Interrupt
  \/ InterruptReturn
  \/ BirqSave
  \/ BirqEnter
  \/ BirqLeave
  \/ BirqRestore

GateSpec == GateInit /\ [][GateNext]_gateVars

-----------------------------------------------------------------------------
\* Whenever an interrupt can come there is a handler at 0x0038 and a stack, and
\* BIRQ, which assumes "the stack is valid (because interrupts won't work
\* otherwise)" (bios.z80:68-70), is entered with user space mapped, itself
\* included, and neither SYSSTK nor saved_stack in use.
InterruptsSafe ==
  irq = "none" /\ cpu.iff =>
    /\ StackMapped
    /\ \/ cpu.bank[0] = SupervisorPage /\ cpu.sp = SystemStack
       \/ cpu.bank = UserSpace /\ cpu.sp # SystemStack /\ pc \notin {"map", "restore"}

\* The instruction executed next is mapped: user code and the BIOS need bank 3,
\* the supervisor bank 0 -- every jump between them comes after the switch.
CodeMapped ==
  /\ pc \in {"user", "save", "map", "user0", "user12", "restore", "return",
             "boot", "boot0", "boot12", "ccp"} => cpu.bank[3] = User(3)
  /\ irq = "none" /\ pc \in {"switch", "enable", "handler", "disk", "critical", "transfer", "pop",
             "exit", "user3", "cache", "vectors"} => cpu.bank[0] = SupervisorPage
  /\ irq \in {"save", "enter", "sirq", "restore", "return"} => cpu.bank[3] = User(3)

\* A system call returns on the stack and in the memory it was made from, with
\* IX and IY as they were.
CallerRestored ==
  [][pc = "return" /\ pc' = "user"
       => cpu'.bank = UserSpace /\ cpu'.sp = caller /\ cpu'.index]_gateVars

\* An interrupt changes nothing the program it interrupts can see.
InterruptTransparent == [][irq # "none" /\ irq' = "none" => cpu' = before]_gateVars

\* A program notices neither its own system calls nor the interrupts, although both
\* gates switch the stack and share saved_stack (bios.z80:71, :224).
GateTransparent == CallerRestored /\ InterruptTransparent
=============================================================================
