------------------------------- MODULE Debugger -------------------------------
(***************************************************************************)
(* The debugger of the CP/M emulator, utils/emu/emulator.c: the main loop, *)
(* the commands that change its state and SIGUSR1.  A Z80 step is external:*)
(* it may write a byte, change pc, be a prefix of the instruction that     *)
(* follows, or call the BIOS or BDOS.                                      *)
(***************************************************************************)
EXTENDS Integers

CONSTANTS
  Addr,       \* addresses, 0xffff among them
  Free,       \* 0xffff, which marks a free breakpoint
  DbData,     \* addresses whose bytes are watched
  DbByte,     \* values of a byte
  DbSlots     \* breakpoints, and watchpoints: 16

ASSUME DbAssumption == Free \in Addr /\ DbData \subseteq Addr /\ DbData # {} /\ DbSlots \in Nat \ {0} /\ DbByte # {}

VARIABLES
  at,         \* where the emulator is: "top" of the loop, "debug", "step"; "off", not started
  pc, ram, prefix,
  breaks, watch, single, bdosbreak,
  stopped,    \* history: the debugger was entered before this step
  due         \* history: 0, or 1 + the instructions that may begin before the
              \* debugger must be entered

dbVars == <<at, pc, ram, prefix, breaks, watch, single, bdosbreak, stopped, due>>

DbSlot == 1..DbSlots

DbTypeOK ==
  /\ at \in {"off", "top", "debug", "step"} /\ pc \in Addr /\ ram \in [DbData -> DbByte]
  /\ prefix \in BOOLEAN /\ breaks \in [DbSlot -> Addr]
  /\ watch \in [DbSlot -> [enabled : BOOLEAN, address : DbData, value : DbByte]]
  /\ single \in BOOLEAN /\ bdosbreak \in BOOLEAN
  /\ stopped \in BOOLEAN /\ due \in 0..2

DbNow(place, start, value, watched) ==
  /\ at = place /\ pc = start /\ prefix = FALSE
  /\ ram = [a \in DbData |-> value]
  /\ watch = [i \in DbSlot |-> [enabled |-> FALSE, address |-> watched, value |-> value]]
  /\ breaks = [i \in DbSlot |-> Free]
  /\ bdosbreak = FALSE /\ stopped = FALSE /\ due = 0

\* emulator_init; single is flag_enter_debugger.
DbStart ==
  /\ \E start \in Addr \ {Free}, value \in DbByte, watched \in DbData : DbNow("top", start, value, watched)
  /\ single \in BOOLEAN
DbOff ==
  /\ DbNow("off", Free, CHOOSE v \in DbByte : TRUE, CHOOSE d \in DbData : TRUE)
  /\ single = FALSE

Changed(i) == watch[i].enabled /\ ram[watch[i].address] # watch[i].value

\* Mutant: a watchpoint that has been hit while single stepping keeps its value and
\* breakpoints are only looked at when no watchpoint is hit.
DbTopFirst ==
  /\ at = "top"
  /\ single' = (single \/ IF \E i \in DbSlot : watch[i].enabled
                          THEN \E i \in DbSlot : Changed(i)
                          ELSE \E i \in DbSlot : pc = breaks[i])
  /\ watch' = [i \in DbSlot |-> IF Changed(i) THEN [watch[i] EXCEPT !.value = ram[watch[i].address]]
                                ELSE watch[i]]
  /\ IF single' /\ ~prefix
     THEN at' = "debug" /\ stopped' = TRUE /\ due' = 0
     ELSE at' = "step" /\ UNCHANGED <<stopped, due>>
  /\ UNCHANGED <<pc, ram, prefix, breaks, bdosbreak>>

\* The top of emulator_run's loop.
DbTop ==
  /\ at = "top"
  /\ single' = (single \/ \E i \in DbSlot : pc = breaks[i] \/ Changed(i))
  /\ watch' = [i \in DbSlot |-> IF Changed(i) THEN [watch[i] EXCEPT !.value = ram[watch[i].address]]
                                ELSE watch[i]]
  /\ IF single' /\ ~prefix
     THEN at' = "debug" /\ stopped' = TRUE /\ due' = 0
     ELSE at' = "step" /\ UNCHANGED <<stopped, due>>
  /\ UNCHANGED <<pc, ram, prefix, breaks, bdosbreak>>

DbFirst(slots) == CHOOSE i \in slots : \A j \in slots : i <= j

CmdBreak ==
  /\ at = "debug"
  /\ LET free == {i \in DbSlot : breaks[i] = Free} IN
       IF free # {} THEN \E a \in Addr : breaks' = [breaks EXCEPT ![DbFirst(free)] = a]
       ELSE UNCHANGED breaks
  /\ UNCHANGED <<at, pc, ram, prefix, watch, single, bdosbreak, stopped, due>>

CmdWatch ==
  /\ at = "debug"
  /\ LET free == {i \in DbSlot : ~watch[i].enabled} IN
       IF free # {}
       THEN \E a \in DbData : watch' = [watch EXCEPT ![DbFirst(free)] =
                                        [enabled |-> TRUE, address |-> a, value |-> ram[a]]]
       ELSE UNCHANGED watch
  /\ UNCHANGED <<at, pc, ram, prefix, breaks, single, bdosbreak, stopped, due>>

CmdDeleteBreakpoint ==
  /\ at = "debug"
  /\ \E a \in Addr :
       LET hit == {i \in DbSlot : breaks[i] = a} IN
       hit # {} /\ breaks' = [breaks EXCEPT ![DbFirst(hit)] = Free]
  /\ UNCHANGED <<at, pc, ram, prefix, watch, single, bdosbreak, stopped, due>>

CmdDeleteWatchpoint ==
  /\ at = "debug"
  /\ \E a \in DbData :
       LET hit == {i \in DbSlot : watch[i].enabled /\ watch[i].address = a} IN
       hit # {} /\ watch' = [watch EXCEPT ![DbFirst(hit)].enabled = FALSE]
  /\ UNCHANGED <<at, pc, ram, prefix, breaks, single, bdosbreak, stopped, due>>

CmdBdos ==
  /\ at = "debug"
  /\ bdosbreak' \in BOOLEAN
  /\ UNCHANGED <<at, pc, ram, prefix, breaks, watch, single, stopped, due>>

CmdRegister ==
  /\ at = "debug"
  /\ pc' \in Addr
  /\ UNCHANGED <<at, ram, prefix, breaks, watch, single, bdosbreak, stopped, due>>

\* "s" and "g"
CmdRun ==
  /\ at = "debug"
  /\ single' \in BOOLEAN
  /\ at' = "step"
  /\ UNCHANGED <<pc, ram, prefix, breaks, watch, bdosbreak, stopped, due>>

\* z80ex_step (external) with iowrite_cb.
DbStep ==
  /\ at = "step"
  /\ at' = "top"
  /\ pc' \in Addr
  /\ \/ prefix' = TRUE /\ UNCHANGED <<ram, single>>
     \/ /\ prefix' = FALSE
        /\ \E a \in DbData, v \in DbByte : ram' = [ram EXCEPT ![a] = v]
        /\ \/ UNCHANGED single
           \/ single' = (single \/ bdosbreak)
  /\ stopped' = FALSE
  /\ due' = IF single' # single \/ \E i \in DbSlot : watch[i].enabled /\ ram'[watch[i].address] # ram[watch[i].address]
            THEN 1
            ELSE IF due = 2 /\ ~prefix THEN 1 ELSE due
  /\ UNCHANGED <<breaks, watch, bdosbreak>>

\* sigusr1_cb.  What the debugger is told while it is open is not waited for.
DbSignal ==
  /\ at # "off"
  /\ single' = TRUE
  /\ due' = IF at = "debug" \/ due # 0 THEN due ELSE 2
  /\ UNCHANGED <<at, pc, ram, prefix, breaks, watch, bdosbreak, stopped>>

DbNext ==
  DbTop \/ CmdBreak \/ CmdWatch \/ CmdDeleteBreakpoint \/ CmdDeleteWatchpoint
    \/ CmdBdos \/ CmdRegister \/ CmdRun \/ DbStep \/ DbSignal

-----------------------------------------------------------------------------
\* No instruction at a breakpoint is executed before the debugger was entered, be
\* it the one the debugger went on with or one it has just been given.
DbBreakpointsStop ==
  [][at = "step" /\ at' = "top" /\ ~prefix /\ (\E i \in DbSlot : breaks[i] = pc)
       => stopped]_dbVars

\* After a watched byte has changed, or a BDOS call with "bdos 1", no other
\* instruction begins before the debugger is entered; after a signal at most
\* one does.  Bytes of a prefixed instruction are one instruction.
DbStopsInTime ==
  [][at = "step" /\ at' = "top" /\ ~prefix => due # 1]_dbVars

\* The debugger is entered where and when it was asked to be.
DbEntersInTime == DbBreakpointsStop /\ DbStopsInTime
===============================================================================
