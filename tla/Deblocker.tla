------------------------------ MODULE Deblocker ------------------------------
(***************************************************************************)
(* arch/common/utils/deblocker.lib, the sector deblocker of the NC200      *)
(* (floppy and ATA card) and of the WP2450DS, together with the callers    *)
(* that copy a CP/M record in or out of its buffer: generic_read128 and    *)
(* generic_write128 (nc200/supervisor/io.inc), FDR128 and FDW128           *)
(* (brother/wp2450/upd765.z80).                                            *)
(*                                                                         *)
(* The calls are sequential; what is nondeterministic is the hardware: the *)
(* RNATIVE and WNATIVE callbacks may fail, and the power may be cycled     *)
(* between any two steps.  A callback's status is taken to be right: how   *)
(* the drivers derive it is in FdcStatus.                                  *)
(***************************************************************************)
EXTENDS Integers

CONSTANTS
  NumSectors,        \* DBS_NUM_SECTORS
  NumTracks,         \* DBS_NUM_TRACKS
  RecordsPerSector,  \* 1 << (DBS_BLOCK_SHIFT - 7)
  CpmSector,         \* CP/M sectors callers ask for, some out of bounds
  CpmTrack,          \* CP/M tracks callers ask for, some out of bounds
  Data,              \* contents of a 128-byte record
  Blank,             \* what the medium and the RAM hold at first
  ReadsFail,         \* TRUE iff RNATIVE may fail
  Nowhere, NoData

ASSUME GeometryAssumption ==
  /\ NumSectors \in Nat /\ NumTracks \in Nat
  /\ RecordsPerSector \in Nat \ {0}
  /\ CpmSector \subseteq Nat /\ CpmTrack \subseteq Nat
ASSUME DataAssumption == Blank \in Data /\ NoData \notin Data
ASSUME FlagAssumption == ReadsFail \in BOOLEAN

VARIABLES disk,   \* the medium
          buf,    \* DBS_BUFFER and the memory after it the code can address
          cur,    \* DBS_CUR_TRACK, DBS_CUR_SECTOR
          dirty,  \* DBS_DIRTY
          pc, req, res,
          spoiled \* history: reading sector cur failed, so buf is not its copy

vars == <<disk, buf, cur, dirty, pc, req, res, spoiled>>

Slot   == 0 .. RecordsPerSector - 1
Window == 0 .. (IF RecordsPerSector > 4 THEN RecordsPerSector ELSE 4) - 1
Sector == (0 .. NumTracks - 1) \X (0 .. NumSectors - 1)

\* cur_sector starts as 0xffff, which no sector below DBS_NUM_SECTORS equals.
NoSector == <<0, 65535>>
ASSUME SentinelAssumption == NoSector \notin Sector

\* The calls: a read passes deblock mode 0 (and has no data, here Blank).
Request == [op : {"read", "write"}, track : CpmTrack, sector : CpmSector,
            data : Data, mode : 0..2]
Calls   == {q \in Request : q.op = "read" => q.mode = 0 /\ q.data = Blank}
NoReq   == [op |-> "none"]

NoResult == [status |-> "none", data |-> NoData]
Ok(d)    == [status |-> "ok", data |-> d]
Error    == [status |-> "error", data |-> NoData]

\* dbs_i_calculate_physical: the shifts and the "and 3".
Physical(q) == <<q.track, q.sector \div RecordsPerSector>>
Offset(q)   == q.sector % 4
InBounds(q) == Physical(q) \in Sector

\* The native sector as the buffer holds it, and the buffer after a read of s.
Held        == [i \in Slot |-> buf[i]]
Loaded(s)   == [i \in Window |-> IF i \in Slot THEN disk[s][i] ELSE buf[i]]

TypeOK ==
  /\ disk \in [Sector -> [Slot -> Data]]
  /\ buf \in [Window -> Data]
  /\ cur \in Sector \cup {NoSector}
  /\ dirty \in BOOLEAN
  /\ pc \in {"idle", "get", "writeback", "switch", "transfer"}
  /\ req \in Calls \cup {NoReq}
  /\ res \in [status : {"none", "ok", "error"}, data : Data \cup {NoData}]
  /\ spoiled \in BOOLEAN
  /\ (pc = "idle") <=> (req = NoReq)
  /\ pc \in {"writeback", "switch", "transfer"} => InBounds(req)
  /\ pc = "writeback" \/ dirty \/ spoiled => cur \in Sector
  /\ pc = "switch" => ~dirty
  /\ pc = "transfer" => cur = Physical(req)

Init ==
  /\ disk = [s \in Sector |-> [i \in Slot |-> Blank]]
  /\ buf = [i \in Window |-> Blank]
  /\ cur = NoSector
  /\ dirty = FALSE
  /\ pc = "idle"
  /\ req = NoReq
  /\ res = NoResult
  /\ spoiled = FALSE

-----------------------------------------------------------------------------
Call(q) ==
  /\ pc = "idle"
  /\ pc' = "get"
  /\ req' = q
  /\ res' = NoResult
  /\ UNCHANGED <<disk, buf, cur, dirty, spoiled>>

Return(r) == pc' = "idle" /\ req' = NoReq /\ res' = r

\* db_get up to the decision what dbs_i_change_block has to do.
Get ==
  /\ pc = "get"
  /\ \/ /\ ~InBounds(req)
        /\ Return(Error)
     \/ /\ InBounds(req)
        /\ pc' = IF cur = Physical(req) THEN "transfer"
                 ELSE IF dirty THEN "writeback" ELSE "switch"
        /\ UNCHANGED <<req, res>>
  /\ UNCHANGED <<disk, buf, cur, dirty, spoiled>>

\* Mutant: DBS_DIRTY is not reset once the sector is written back.
WriteBackOkStillDirty ==
  /\ pc = "writeback"
  /\ disk' = [disk EXCEPT ![cur] = Held]
  /\ pc' = "switch"
  /\ UNCHANGED <<buf, cur, dirty, req, res, spoiled>>

\* Mutant: DBS_DIRTY is reset before WNATIVE is called.
WriteBackFailsClean ==
  /\ pc = "writeback"
  /\ disk' \in {disk, [disk EXCEPT ![cur] = Held]}
  /\ dirty' = FALSE
  /\ Return(Error)
  /\ UNCHANGED <<buf, cur, spoiled>>

\* dbs_i_change_block writes the previous sector back.  A write that fails may
\* have reached the medium all the same.
WriteBackOk ==
  /\ pc = "writeback"
  /\ disk' = [disk EXCEPT ![cur] = Held]
  /\ dirty' = FALSE
  /\ pc' = "switch"
  /\ UNCHANGED <<buf, cur, req, res, spoiled>>

WriteBackFails ==
  /\ pc = "writeback"
  /\ disk' \in {disk, [disk EXCEPT ![cur] = Held]}
  /\ Return(Error)
  /\ UNCHANGED <<buf, cur, dirty, spoiled>>

\* Mutant: the test for mode 2 skips the read in mode 1 too.
SwitchUnreadMode1 ==
  /\ pc = "switch"
  /\ req.mode # 0
  /\ cur' = Physical(req)
  /\ pc' = "transfer"
  /\ spoiled' = FALSE
  /\ UNCHANGED <<disk, buf, dirty, req, res>>

\* The new sector is current before it is read; mode 2 does not read it.
SwitchUnread ==
  /\ pc = "switch"
  /\ req.mode = 2
  /\ cur' = Physical(req)
  /\ pc' = "transfer"
  /\ spoiled' = FALSE
  /\ UNCHANGED <<disk, buf, dirty, req, res>>

SwitchRead ==
  /\ pc = "switch"
  /\ req.mode # 2
  /\ cur' = Physical(req)
  /\ buf' = Loaded(Physical(req))
  /\ pc' = "transfer"
  /\ spoiled' = FALSE
  /\ UNCHANGED <<disk, dirty, req, res>>

\* A failed read leaves the buffer alone (seek error) or filled (data error).
SwitchReadFails ==
  /\ ReadsFail
  /\ pc = "switch"
  /\ req.mode # 2
  /\ cur' = Physical(req)
  /\ buf' \in {buf, Loaded(Physical(req))}
  /\ Return(Error)
  /\ spoiled' = TRUE
  /\ UNCHANGED <<disk, dirty>>

\* generic_read128, FDR128: copy the record out.
TransferRead ==
  /\ pc = "transfer"
  /\ req.op = "read"
  /\ Return(Ok(buf[Offset(req)]))
  /\ UNCHANGED <<disk, buf, cur, dirty, spoiled>>

\* generic_write128, FDW128: copy the record in, mark the block dirty; mode 1
\* then calls db_flush and returns its status.
Stored == [buf EXCEPT ![Offset(req)] = req.data]

TransferWrite ==
  /\ pc = "transfer"
  /\ req.op = "write"
  /\ req.mode # 1
  /\ buf' = Stored
  /\ dirty' = TRUE
  /\ Return(Ok(NoData))
  /\ UNCHANGED <<disk, cur, spoiled>>

Flushed == [disk EXCEPT ![cur] = [i \in Slot |-> buf'[i]]]

\* Mutant: mode 1 does not call db_flush.
TransferWriteUnflushed ==
  /\ pc = "transfer"
  /\ req.op = "write"
  /\ req.mode = 1
  /\ buf' = Stored
  /\ dirty' = TRUE
  /\ Return(Ok(NoData))
  /\ UNCHANGED <<disk, cur, spoiled>>

TransferWriteThrough ==
  /\ pc = "transfer"
  /\ req.op = "write"
  /\ req.mode = 1
  /\ buf' = Stored
  /\ \/ disk' = Flushed /\ dirty' = FALSE /\ Return(Ok(NoData))
     \/ disk' \in {disk, Flushed} /\ dirty' = TRUE /\ Return(Error)
  /\ UNCHANGED <<cur, spoiled>>

\* The machine is switched off and on: the deblocker's data are as assembled.
PowerCycle ==
  /\ buf' = [i \in Window |-> Blank]
  /\ cur' = NoSector
  /\ dirty' = FALSE
  /\ pc' = "idle"
  /\ req' = NoReq
  /\ res' = NoResult
  /\ spoiled' = FALSE
  /\ UNCHANGED disk

Next ==
  \/ \E q \in Calls : Call(q)
  \/ Get
  \/ WriteBackOk
  \/ WriteBackFails
  \/ SwitchUnread
  \/ SwitchRead
  \/ SwitchReadFails
  \/ TransferRead
  \/ TransferWrite
  \/ TransferWriteThrough
  \/ PowerCycle

Spec == Init /\ [][Next]_vars

-----------------------------------------------------------------------------
\* A buffer that is not dirty is a copy of the sector it is labelled with: what
\* db_get relies on when it finds the sector unchanged and skips the callbacks
\* (deblocker.lib:136-139).  The block a mode 2 call is about to fill is exempt,
\* and so is a sector whose read failed, up to the next change of sector.
CleanBufferMatchesDisk ==
  ~dirty /\ ~spoiled /\ cur \in Sector /\ ~(pc = "transfer" /\ req.mode = 2)
    => Held = disk[cur]

\* Modified data leave the buffer only by reaching the medium or by the power
\* being cycled: no failing call, in any order, loses an acknowledged write
\* (dbs_i_change_block and db_flush clear DBS_DIRTY after WNATIVE succeeded).
DirtyDataReachesDisk ==
  [][dirty /\ ~dirty' /\ ~PowerCycle
       => disk'[cur] = [i \in Slot |-> buf'[i]]]_vars

\* When a mode 1 write is acknowledged its record is on the medium, and so is
\* everything written before it: power cycled at once, all of it is read back.
WriteThroughIsDurable ==
  [][pc = "transfer" /\ req.mode = 1 /\ res'.status = "ok"
       => /\ disk'[Physical(req)][Offset(req)] = req.data
          /\ ~dirty']_vars

\* db_get's "NZ on success, HL = address of 128 byte data in buffer"
\* (deblocker.lib:44-46): unless the buffer holds newer data, what a successful
\* read returns is what the medium holds.
ReadReturnsTheRecord ==
  [][pc = "transfer" /\ req.op = "read" /\ ~dirty /\ res'.status = "ok"
       => res'.data = disk[Physical(req)][Offset(req)]]_vars

\* What the BDOS is promised.  The store is the medium overlaid by the buffer,
\* in doubt is the sector whose read failed.
Abstracted(q) ==
  IF q = NoReq THEN NoReq
  ELSE [op |-> q.op, at |-> IF InBounds(q) THEN Physical(q) ELSE Nowhere,
        slot |-> Offset(q), data |-> q.data, mode |-> q.mode]

Store == [s \in Sector |-> IF s = cur THEN Held ELSE disk[s]]
Doubt == IF spoiled THEN {cur} ELSE {}

Records == INSTANCE RecordStore WITH
  Spoils  <- ReadsFail,
  store   <- Store,
  durable <- disk,
  doubt   <- Doubt,
  req     <- Abstracted(req)

\* Every behaviour of the deblocker is one of the record store, in all three
\* modes and with power cycles and failing writes.  A failing read puts its own
\* sector in doubt and never another one, dirty or not.
ImplementsRecordStore == Records!Spec

=============================================================================
