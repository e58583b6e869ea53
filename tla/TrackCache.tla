------------------------------ MODULE TrackCache ------------------------------
(***************************************************************************)
(* The single-track cache of the Brother PN-8510 and PN-8800: READE,       *)
(* WRITEE, change_track, flush_track and flush_cache of                    *)
(* brother/pn8510/floppy.z80 and brother/pn8800/floppy.z80.  The two files *)
(* differ where a track is written back: the PN-8800 gives up when that    *)
(* fails ("ret nz"), the PN-8510 goes on to the new track.  A whole track  *)
(* is always read before it is written to, so deblock mode 2 is mode 0.    *)
(***************************************************************************)
EXTENDS Integers

CONSTANTS
  Track, Slot,           \* tracks the BDOS uses, CP/M records of a track
  Data, Blank, NoData, Nowhere,
  Machine,               \* which of "pn8800" and "pn8510"
  ReadsFail,             \* may the controller's reads fail?
  WritesFail             \* the machines on which its writes may fail

NoTrack == 255           \* current_track: 0xff

ASSUME GeometryAssumption == Track \subseteq 0..159
ASSUME MachineAssumption ==
  /\ Machine \subseteq {"pn8800", "pn8510"}
  /\ ReadsFail \in BOOLEAN /\ WritesFail \subseteq Machine
ASSUME DataAssumption == Blank \in Data /\ NoData \notin Data

VARIABLES machine, \* never changes
          disk,   \* the tracks of the medium
          buf,    \* CACHE_BANK
          cur,    \* current_track
          dirty,  \* track_dirty
          cachePc, req, res,
          spoiled \* history: reading track cur failed, so buf is not its copy

trackVars == <<machine, disk, buf, cur, dirty, cachePc, req, res, spoiled>>

Request == [op : {"read", "write"}, at : Track, slot : Slot, data : Data,
            mode : 0..2]
Calls   == {q \in Request : q.op = "read" => q.mode = 0 /\ q.data = Blank}
NoReq   == [op |-> "none"]

NoResult == [status |-> "none", data |-> NoData]
Ok(d)    == [status |-> "ok", data |-> d]
Error    == [status |-> "error", data |-> NoData]

TrackTypeOK ==
  /\ machine \in Machine
  /\ disk \in [Track -> [Slot -> Data]]
  /\ buf \in [Slot -> Data]
  /\ cur \in Track \cup {NoTrack}
  /\ dirty \in BOOLEAN
  /\ cachePc \in {"idle", "change", "load", "transfer"}
  /\ req \in Calls \cup {NoReq}
  /\ res \in [status : {"none", "ok", "error"}, data : Data \cup {NoData}]
  /\ spoiled \in BOOLEAN
  /\ dirty \/ spoiled => cur \in Track

TrackInit ==
  /\ machine \in Machine
  /\ disk = [t \in Track |-> [i \in Slot |-> Blank]]
  /\ buf = [i \in Slot |-> Blank]
  /\ cur = NoTrack
  /\ dirty = FALSE
  /\ cachePc = "idle"
  /\ req = NoReq
  /\ res = NoResult
  /\ spoiled = FALSE

-----------------------------------------------------------------------------
Call(q) ==
  /\ cachePc = "idle"
  /\ cachePc' = "change"
  /\ req' = q
  /\ res' = NoResult
  /\ UNCHANGED <<machine, disk, buf, cur, dirty, spoiled>>

Return(r) == cachePc' = "idle" /\ req' = NoReq /\ res' = r

\* flush_track, with the contents c of the cache.
FlushOk(c) ==
  /\ disk' = [disk EXCEPT ![cur] = c]
  /\ dirty' = FALSE

FlushFails(c) ==
  /\ machine \in WritesFail
  /\ disk' \in {disk, [disk EXCEPT ![cur] = c]}
  /\ dirty' = TRUE

\* change_track up to the point where the old track is dealt with.
ChangeHit ==
  /\ cachePc = "change"
  /\ cur = req.at
  /\ cachePc' = "transfer"
  /\ UNCHANGED <<machine, disk, buf, cur, dirty, req, res, spoiled>>

ChangeClean ==
  /\ cachePc = "change"
  /\ cur # req.at
  /\ ~dirty
  /\ cachePc' = "load"
  /\ UNCHANGED <<machine, disk, buf, cur, dirty, req, res, spoiled>>

\* Mutant: no "ret nz" after flush_track.
ChangeFlushUnchecked ==
  /\ cachePc = "change"
  /\ cur # req.at
  /\ dirty
  /\ FlushOk(buf) \/ FlushFails(buf)
  /\ cachePc' = "load"
  /\ UNCHANGED <<machine, buf, cur, req, res, spoiled>>

ChangeFlush ==
  /\ cachePc = "change"
  /\ cur # req.at
  /\ dirty
  /\ \/ FlushOk(buf) /\ cachePc' = "load" /\ UNCHANGED <<req, res>>
     \/ /\ FlushFails(buf)
        /\ IF machine = "pn8800" THEN Return(Error)
                                 ELSE cachePc' = "load" /\ UNCHANGED <<req, res>>
  /\ UNCHANGED <<machine, buf, cur, spoiled>>

\* The rest of change_track: current_track is set before the track is read.
Load ==
  /\ cachePc = "load"
  /\ cur' = req.at
  /\ \/ /\ buf' = disk[req.at]
        /\ cachePc' = "transfer" /\ spoiled' = FALSE
        /\ UNCHANGED <<req, res>>
     \/ /\ ReadsFail
        /\ buf' \in {buf, disk[req.at]}
        /\ spoiled' = TRUE
        /\ Return(Error)
  /\ UNCHANGED <<machine, disk, dirty>>

TransferRead ==
  /\ cachePc = "transfer"
  /\ req.op = "read"
  /\ Return(Ok(buf[req.slot]))
  /\ UNCHANGED <<machine, disk, buf, cur, dirty, spoiled>>

\* WRITEE after change_track; in mode 1 the result is flush_track's.
TransferWrite ==
  /\ cachePc = "transfer"
  /\ req.op = "write"
  /\ buf' = [buf EXCEPT ![req.slot] = req.data]
  /\ IF req.mode = 1
       THEN \/ FlushOk(buf') /\ Return(Ok(NoData))
            \/ FlushFails(buf') /\ Return(Error)
       ELSE dirty' = TRUE /\ UNCHANGED disk /\ Return(Ok(NoData))
  /\ UNCHANGED <<machine, cur, spoiled>>

\* SELDSKE for a disk that is not logged in (bit 0 of E clear): flush_cache
\* forgets the track, dirty or not.
Login ==
  /\ cachePc = "idle"
  /\ cur' = NoTrack
  /\ dirty' = FALSE
  /\ res' = NoResult
  /\ spoiled' = FALSE
  /\ UNCHANGED <<machine, disk, buf, cachePc, req>>

\* As power comes back the program is loaded anew.
PowerCycle ==
  /\ buf' = [i \in Slot |-> Blank]
  /\ cur' = NoTrack
  /\ dirty' = FALSE
  /\ cachePc' = "idle"
  /\ req' = NoReq
  /\ res' = NoResult
  /\ spoiled' = FALSE
  /\ UNCHANGED <<machine, disk>>

TrackNext ==
  \/ \E q \in Calls : Call(q)
  \/ ChangeHit
  \/ ChangeClean
  \/ ChangeFlush
  \/ Load
  \/ TransferRead
  \/ TransferWrite
  \/ Login
  \/ PowerCycle

TrackSpec == TrackInit /\ [][TrackNext]_trackVars

-----------------------------------------------------------------------------
\* The BDOS's view: a record store, of which a login is a power cycle.
Records == INSTANCE RecordStore WITH
  Sector  <- Track,
  Spoils  <- ReadsFail,
  store   <- [t \in Track |-> IF t = cur THEN buf ELSE disk[t]],
  durable <- disk,
  doubt   <- IF spoiled THEN {cur} ELSE {}

\* The PN-8800's cache is a record store whatever its transfers do, and the
\* PN-8510's as long as its writes work: a failing read puts its own track in
\* doubt and never another one.
ImplementsRecordStore == Records!Spec
=============================================================================
