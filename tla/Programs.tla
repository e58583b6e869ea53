------------------------------- MODULE Programs -------------------------------
(***************************************************************************)
(* The programs beside the BIOSes, of which the command processor (or, for *)
(* the debugger, the host) starts one: SUBMIT, COPY, STAT, ASM with        *)
(* read_expression on its own, NANOTERM on the two machines of a transfer, *)
(* and the emulator's debugger.  The others wait in their "off" state, and *)
(* nothing happens when the one that runs has come to its end.             *)
(***************************************************************************)
EXTENDS Submit, Copy, Stat, Asm, AsmExpr, XModem, Debugger

programVars == <<sbVars, cpVars, stVars, asVars, axVars, xmVars, dbVars>>

Init ==
  \/ SbStart /\ CpOff   /\ StOff   /\ AsOff   /\ AxOff   /\ XmOff   /\ DbOff
  \/ SbOff   /\ CpStart /\ StOff   /\ AsOff   /\ AxOff   /\ XmOff   /\ DbOff
  \/ SbOff   /\ CpOff   /\ StStart /\ AsOff   /\ AxOff   /\ XmOff   /\ DbOff
  \/ SbOff   /\ CpOff   /\ StOff   /\ AsStart /\ AxOff   /\ XmOff   /\ DbOff
  \/ SbOff   /\ CpOff   /\ StOff   /\ AsOff   /\ AxStart /\ XmOff   /\ DbOff
  \/ SbOff   /\ CpOff   /\ StOff   /\ AsOff   /\ AxOff   /\ XmStart /\ DbOff
  \/ SbOff   /\ CpOff   /\ StOff   /\ AsOff   /\ AxOff   /\ XmOff   /\ DbStart

\* The programs after which nothing follows but the command processor.
Ended ==
  \/ sbPc \in {"restart", "exit"} \/ cpPc \in {"done", "failed"} \/ stPc \in {"done", "stopped"}
  \/ asPc \in {"done", "fatal"} \/ axPc \in {"value", "error", "full", "lost"}
  \/ rx.pc \in RxEnd /\ (tx.pc \in TxEnd \/ (tx.pc = "wait" /\ toTx = <<>>))

Next ==
  \/ SbNext /\ UNCHANGED <<cpVars, stVars, asVars, axVars, xmVars, dbVars>>
  \/ CpStep /\ UNCHANGED <<sbVars, stVars, asVars, axVars, xmVars, dbVars>>
  \/ StStep /\ UNCHANGED <<sbVars, cpVars, asVars, axVars, xmVars, dbVars>>
  \/ AsStep /\ UNCHANGED <<sbVars, cpVars, stVars, axVars, xmVars, dbVars>>
  \/ AxNext /\ UNCHANGED <<sbVars, cpVars, stVars, asVars, xmVars, dbVars>>
  \/ XmNext /\ UNCHANGED <<sbVars, cpVars, stVars, asVars, axVars, dbVars>>
  \/ DbNext /\ UNCHANGED <<sbVars, cpVars, stVars, asVars, axVars, xmVars>>
  \/ Ended /\ UNCHANGED programVars

\* Only of a transfer is it asked whether it ends.
Spec == Init /\ [][Next]_programVars /\ XmFair

\* The type invariants of the programs: among them, that nothing is put behind the
\* end of SUBMIT's line, COPY's buffer, ASM's record and stacks or a packet.
ProgramsTypeOK ==
  SbTypeOK /\ CpTypeOK /\ StTypeOK /\ AsTypeOK /\ AxTypeOK /\ XmTypeOK /\ DbTypeOK
===============================================================================
