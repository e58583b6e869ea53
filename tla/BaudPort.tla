------------------------------- MODULE BaudPort -------------------------------
(***************************************************************************)
(* The NC200's port 0x30 (PORT_BAUDRATE), its shadow PBAUD, and everything *)
(* that shares them: the floppy motor and its timer and the wait for the   *)
(* drive (nc200/supervisor/floppy.inc), the memory card's register select  *)
(* (pcmcia.inc) and the printer strobe (printer.inc).                      *)
(*                                                                         *)
(* The main line does one transfer or character at a time; the 10ms        *)
(* interrupt (fd765_motor_interrupt_handler) comes between any two of its  *)
(* instructions while IFF1 is set.                                         *)
(***************************************************************************)
EXTENDS Integers

CONSTANTS MotorTime,    \* FD_MOTOR_ON_TIME, in interrupts
          ReadyCounts,  \* FD_DRIVE_READY_COUNTS
          SeekTime      \* interrupts in which any seek ends

\* The motor runs longer than waiting for the drive, seeking and the code in
\* between can take: 500 ticks against 200 and the drive's fraction of a second.
ASSUME TimeAssumption ==
  /\ MotorTime \in Nat /\ ReadyCounts \in Nat \ {0} /\ SeekTime \in Nat \ {0}
  /\ MotorTime > 2 * ReadyCounts + SeekTime + 2

VARIABLES shadow,   \* PBAUD
          port,     \* what was last written to the port
          timer,    \* data.fd765_motor_on_time
          iff,
          portPc,
          a,        \* the register, where the printer's value is built
          count,    \* HL of fd765_wait_until_drive_ready
          ticks     \* interrupts since the main line's last step

portVars == <<shadow, port, timer, iff, portPc, a, count, ticks>>

\* Bit 7 (card: common, not attribute, space), bit 6 (strobe), bit 5 (motor,
\* active low).
Bits == [card : BOOLEAN, strobe : BOOLEAN, motorOff : BOOLEAN]

PortTypeOK ==
  /\ shadow \in Bits /\ port \in Bits /\ a \in Bits
  /\ timer \in 0 .. MotorTime
  /\ iff \in BOOLEAN
  /\ portPc \in {"idle", "motor", "motor out", "time", "sense", "halt", "seek", "poll", "command",
             "transfer", "card", "card out", "strobe low", "strobe high"}
  /\ count \in 0 .. ReadyCounts
  /\ ticks \in 0 .. SeekTime
  /\ portPc \in {"motor", "motor out", "time", "transfer", "card", "card out",
             "strobe low", "strobe high"} <=> ~iff

\* init_interrupts has set PBAUD to 0x20; the first interrupt that finds the
\* timer at zero writes it to the port, which "on reset" is all ones.
PortInit ==
  /\ shadow = [card |-> FALSE, strobe |-> FALSE, motorOff |-> TRUE]
  /\ port = [card |-> TRUE, strobe |-> TRUE, motorOff |-> TRUE]
  /\ timer = MotorTime
  /\ iff = TRUE
  /\ portPc = "idle"
  /\ a = shadow
  /\ count = ReadyCounts
  /\ ticks = 0

-----------------------------------------------------------------------------
\* How the main line and the 10ms ticks keep pace: a halt ends with the tick, a
\* seek within SeekTime, and any other step takes less than the time between two.
Elapse ==
  \/ portPc = "halt" /\ portPc' = (IF count = 0 THEN "idle" ELSE "sense") /\ ticks' = 0
  \/ portPc = "poll" /\ ticks < SeekTime /\ ticks' = ticks + 1 /\ UNCHANGED portPc
  \/ portPc = "idle" /\ UNCHANGED <<portPc, ticks>>
  \/ portPc \notin {"halt", "poll", "idle"} /\ ticks = 0 /\ ticks' = 1 /\ UNCHANGED portPc

\* fd765_irq_motor_off.  Mutant: the port is not written.
MotorOffShadow ==
  /\ shadow' = [shadow EXCEPT !.motorOff = TRUE]
  /\ UNCHANGED port

MotorOff ==
  /\ shadow' = [shadow EXCEPT !.motorOff = TRUE]
  /\ port' = shadow'

\* fd765_motor_interrupt_handler.  Mutant: the timer is not tested for zero.
TickUntested ==
  /\ iff
  /\ timer' = timer - 1 /\ UNCHANGED <<shadow, port>>
  /\ Elapse
  /\ UNCHANGED <<iff, a, count>>

Tick ==
  /\ iff
  /\ IF timer > 0 THEN timer' = timer - 1 /\ UNCHANGED <<shadow, port>>
                  ELSE MotorOff /\ UNCHANGED timer
  /\ Elapse
  /\ UNCHANGED <<iff, a, count>>

\* The main line goes on, with interrupts disabled or not.
Step(from, to, enabled) == portPc = from /\ portPc' = to /\ iff' = enabled /\ ticks' = 0

\* fd765_motor_on at the start of fd765_seek: di; res 5; out; set the timer; ei.
MotorOn ==
  /\ Step("idle", "motor", FALSE)
  /\ UNCHANGED <<shadow, port, timer, a, count>>

MotorOnShadow ==
  /\ Step("motor", "motor out", iff)
  /\ shadow' = [shadow EXCEPT !.motorOff = FALSE]
  /\ UNCHANGED <<port, timer, a, count>>

MotorOnPort ==
  /\ Step("motor out", "time", iff)
  /\ port' = shadow
  /\ UNCHANGED <<shadow, timer, a, count>>

\* Mutant: the timer is left as it was.
MotorOnUntimed ==
  /\ Step("time", "sense", TRUE)
  /\ count' = ReadyCounts
  /\ UNCHANGED <<shadow, port, timer, a>>

MotorOnTime ==
  /\ Step("time", "sense", TRUE)
  /\ timer' = MotorTime
  /\ count' = ReadyCounts
  /\ UNCHANGED <<shadow, port, a>>

\* fd765_wait_until_drive_ready: sense the drive, wait a tick, ReadyCounts times.
DriveReady ==
  /\ Step("sense", "seek", TRUE)
  /\ UNCHANGED <<shadow, port, timer, a, count>>

DriveNotReady ==
  /\ Step("sense", "halt", TRUE)
  /\ count' = count - 1
  /\ UNCHANGED <<shadow, port, timer, a>>

\* fd765_seek; fd765_wait_for_seek_ending polls; the command; the transfer with
\* interrupts disabled; its status.
Seek ==
  /\ Step("seek", "poll", TRUE)
  /\ UNCHANGED <<shadow, port, timer, a, count>>

SeekEnds ==
  /\ Step("poll", "command", TRUE)
  /\ UNCHANGED <<shadow, port, timer, a, count>>

Command ==
  /\ Step("command", "transfer", FALSE)
  /\ UNCHANGED <<shadow, port, timer, a, count>>

Transfer ==
  /\ Step("transfer", "idle", TRUE)
  /\ UNCHANGED <<shadow, port, timer, a, count>>

\* setup_ata_read_or_write: di; set 7; out; ei.
SelectCard ==
  /\ Step("idle", "card", FALSE)
  /\ UNCHANGED <<shadow, port, timer, a, count>>

SelectCardShadow ==
  /\ Step("card", "card out", FALSE)
  /\ shadow' = [shadow EXCEPT !.card = TRUE]
  /\ UNCHANGED <<port, timer, a, count>>

SelectCardPort ==
  /\ Step("card out", "idle", TRUE)
  /\ port' = shadow
  /\ UNCHANGED <<shadow, timer, a, count>>

\* Mutant: lst_print does not disable interrupts.
LstPrintEnabled ==
  /\ Step("idle", "strobe low", TRUE)
  /\ a' = [shadow EXCEPT !.strobe = FALSE]
  /\ UNCHANGED <<shadow, port, timer, count>>

\* lst_print, once the printer is ready and has the data: di; the shadow with
\* strobe low; strobe high; ei.
LstPrint ==
  /\ Step("idle", "strobe low", FALSE)
  /\ a' = [shadow EXCEPT !.strobe = FALSE]
  /\ UNCHANGED <<shadow, port, timer, count>>

StrobeLow ==
  /\ Step("strobe low", "strobe high", iff)
  /\ port' = a
  /\ UNCHANGED <<shadow, timer, a, count>>

StrobeHigh ==
  /\ Step("strobe high", "idle", TRUE)
  /\ a' = [a EXCEPT !.strobe = TRUE]
  /\ port' = a'
  /\ UNCHANGED <<shadow, timer, count>>

\* Programs begin transfers and print as they like; the CPU, the drive and the
\* printer finish what was begun.
Begin ==
  \/ MotorOn
  \/ SelectCard
  \/ LstPrint

Continue ==
  \/ MotorOnShadow
  \/ MotorOnPort
  \/ MotorOnTime
  \/ DriveReady
  \/ DriveNotReady
  \/ Seek
  \/ SeekEnds
  \/ Command
  \/ Transfer
  \/ SelectCardShadow
  \/ SelectCardPort
  \/ StrobeLow
  \/ StrobeHigh

PortNext ==
  \/ Tick
  \/ Begin
  \/ Continue

\* The key scan interrupt stays pending until it is taken.
PortSpec == PortInit /\ [][PortNext]_portVars /\ SF_portVars(Tick) /\ WF_portVars(Continue)

-----------------------------------------------------------------------------
\* The drive's motor runs from the seek to the last byte, however long the drive
\* took to become ready and wherever a tick of the timer started for an earlier
\* transfer strikes (floppy.inc:15-44, the timer is 500 ticks of 10ms).
MotorRunsDuringTransfer ==
  portPc \in {"seek", "poll", "command", "transfer"} => ~port.motorOff

\* No user of the port works on an outdated copy of PBAUD: while interrupts are
\* enabled the port has the shadow's motor bit, and the card's registers stay
\* selected once they are.
PortMatchesShadow ==
  iff => /\ port.motorOff = shadow.motorOff
         /\ shadow.card => port.card

\* "Turn the motor on (it turns off by itself)" (floppy.inc:33): when there are
\* no more transfers the motor stops, and printing does not start it again.
MotorStops ==
  <>[](portPc \in {"idle", "card", "card out", "strobe low", "strobe high"}) => <>[]port.motorOff

\* A byte in the printer's register is printed by taking "the Strobe signal (I/O
\* address 30 bit 6) low and then high again" (doc/Amstrad NC100 ASM.txt:315-317):
\* the strobe goes low only for lst_print to print a character.
StrobeBelongsToPrinter ==
  [][port.strobe /\ ~port'.strobe => portPc = "strobe low"]_portVars
=============================================================================
