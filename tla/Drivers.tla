-------------------------------- MODULE Drivers --------------------------------
(***************************************************************************)
(* The parts of the BIOSes that share no state with one another, side by   *)
(* side: the NC200's supervisor gate, its keyboard scan and its port 0x30, *)
(* the PowerNotes' track cache and the judgement of a floppy transfer.     *)
(* "subject" is the one that is looked at; the others stay as they began.  *)
(***************************************************************************)
EXTENDS Supervisor, KeyScan, BaudPort, TrackCache, FdcStatus

VARIABLE subject   \* never changes

driversVars == <<subject, gateVars, scanVars, portVars, trackVars, fdcVars>>

Of(s) == subject = s /\ UNCHANGED subject

\* One state of the part that is not looked at.
AtRest ==
  /\ subject # "scan" => down = {}
  /\ subject # "track" => machine = CHOOSE m \in Machine : TRUE
  /\ subject # "fdc" => driver = (CHOOSE d \in Driver : TRUE) /\ st0 = 0 /\ st1 = 0

Init ==
  /\ subject \in {"gate", "scan", "port", "track", "fdc"}
  /\ GateInit /\ ScanInit /\ PortInit /\ TrackInit /\ FdcInit
  /\ AtRest

Next ==
  \/ Of("gate") /\ GateNext /\ UNCHANGED <<scanVars, portVars, trackVars, fdcVars>>
  \/ Of("scan") /\ ScanNext /\ UNCHANGED <<gateVars, portVars, trackVars, fdcVars>>
  \/ Of("port") /\ PortNext /\ UNCHANGED <<gateVars, scanVars, trackVars, fdcVars>>
  \/ Of("track") /\ TrackNext /\ UNCHANGED <<gateVars, scanVars, portVars, fdcVars>>
  \/ Of("fdc") /\ FdcNext /\ UNCHANGED <<gateVars, scanVars, portVars, trackVars>>

\* The fairness of BaudPort, where the port is looked at.
Spec ==
  Init /\ [][Next]_driversVars
    /\ SF_portVars(subject = "port" /\ Tick) /\ WF_portVars(subject = "port" /\ Continue)

\* The type invariants of the parts: among them, interrupts are disabled where the
\* gate and the users of the port expect it, and no track but a real one is dirty.
DriversTypeOK == GateTypeOK /\ ScanTypeOK /\ PortTypeOK /\ TrackTypeOK
===============================================================================
