------------------------------- MODULE GetBlock -------------------------------
(***************************************************************************)
(* The private deblocker of the Brother WP-1 and LW-30: getblock,          *)
(* flush_current_block, READE and WRITEE of brother/wp1/floppy.z80 and its *)
(* copy brother/lw30/floppy.z80.  A 256-byte block holds two CP/M records. *)
(* The transfers are calls into the Brother ROM, which may fail.  The two  *)
(* copies differ in those calls: the LW-30's ROM reads into disk_buffer and*)
(* its carry flag comes back; the WP-1 copies the ROM's own buffer in with *)
(* DMAMEM, whose last "and" clears the carry.                              *)
(***************************************************************************)
EXTENDS Integers

CONSTANTS
  CpmAddress,            \* what the BDOS asks for: tracks and sectors
  Data, Blank, NoData,
  Environment            \* the situations to look at: sets of the below

ASSUME RequestAssumption ==
  CpmAddress \subseteq (0..77) \X (0..23)

\* What may happen: the ROM's sector read or write fails, the BDOS writes in
\* deblock mode 2.
ASSUME EnvironmentAssumption ==
  Environment \subseteq SUBSET {"read fails", "write fails", "mode 2"}
ASSUME DataAssumption == Blank \in Data /\ NoData \notin Data

VARIABLES machine, env,  \* "wp1" or "lw30", and its situation; never change
          disk,   \* the blocks of the medium
          buf,    \* disk_buffer
          cur,    \* current_block
          dirty, pc, req, res,
          kept    \* history: for each block that no failed read and no misplaced
                  \* record has touched, what the acknowledged writes made of it

vars == <<machine, env, disk, buf, cur, dirty, pc, req, res, kept>>

\* getblock's arithmetic: twelve native sectors to a track, two records each.
BlockOf(q)  == q.at[1] * 12 + q.at[2] \div 2
RecordOf(q) == q.at[2] % 2

Slot    == 0..1
Block   == {BlockOf([at |-> a]) : a \in CpmAddress}
NoBlock == 65535        \* current_block: dw 0xffff

Request == [op : {"read", "write"}, at : CpmAddress, data : Data, mode : 0..2]
Calls   == {q \in Request : q.op = "read" => q.mode = 0 /\ q.data = Blank}
Sound   == env = {}
NoReq   == [op |-> "none"]

NoResult == [status |-> "none", data |-> NoData]
Ok(d)    == [status |-> "ok", data |-> d]
Error    == [status |-> "error", data |-> NoData]

TypeOK ==
  /\ machine \in {"wp1", "lw30"} /\ env \in Environment
  /\ disk \in [Block -> [Slot -> Data]]
  /\ buf \in [Slot -> Data]
  /\ cur \in Block \cup {NoBlock}
  /\ dirty \in BOOLEAN
  /\ pc \in {"idle", "get", "fill", "transfer"}
  /\ req \in Calls \cup {NoReq}
  /\ res \in [status : {"none", "ok", "error"}, data : Data \cup {NoData}]
  /\ DOMAIN kept \subseteq Block
  /\ kept \in [DOMAIN kept -> [Slot -> Data]]
  /\ pc = "fill" => ~dirty

\* Nothing is promised of the blocks in B any more.
Forget(B) == kept' = [b \in DOMAIN kept \ B |-> kept[b]]

\* The write that is being answered is acknowledged.
Acknowledge ==
  kept' = [b \in DOMAIN kept |->
             IF b = BlockOf(req) THEN [kept[b] EXCEPT ![RecordOf(req)] = req.data]
                                 ELSE kept[b]]

Init ==
  /\ machine \in {"wp1", "lw30"}
  /\ env \in Environment
  /\ disk = [b \in Block |-> [i \in Slot |-> Blank]]
  /\ buf = [i \in Slot |-> Blank]
  /\ cur = NoBlock
  /\ dirty = FALSE
  /\ pc = "idle"
  /\ req = NoReq
  /\ res = NoResult
  /\ kept = disk

-----------------------------------------------------------------------------
Call(q) ==
  /\ pc = "idle"
  /\ q.mode = 2 => "mode 2" \in env
  /\ pc' = "get"
  /\ req' = q
  /\ res' = NoResult
  /\ UNCHANGED <<machine, env, disk, buf, cur, dirty, kept>>

Return(r) == pc' = "idle" /\ req' = NoReq /\ res' = r

\* flush_current_block, with the contents c of the buffer.  A failed write may
\* have reached the medium; there is no block "0xffff" to write to.
FlushOk(c) ==
  /\ cur # NoBlock
  /\ disk' = [disk EXCEPT ![cur] = c]
  /\ dirty' = FALSE

\* Mutant: "dirty" is cleared before the block is written.
FlushFailsClean(c) ==
  /\ "write fails" \in env \/ cur = NoBlock
  /\ disk' \in {disk} \cup {[disk EXCEPT ![cur] = c] : x \in {cur} \ {NoBlock}}
  /\ dirty' = FALSE

FlushFails(c) ==
  /\ "write fails" \in env \/ cur = NoBlock
  /\ disk' \in {disk} \cup {[disk EXCEPT ![cur] = c] : x \in {cur} \ {NoBlock}}
  /\ dirty' = TRUE

\* getblock: is the block in the buffer?  If not, write the old one back.
GetHit ==
  /\ pc = "get"
  /\ cur = BlockOf(req)
  /\ pc' = "transfer"
  /\ UNCHANGED <<machine, env, disk, buf, cur, dirty, req, res, kept>>

\* Mutant: the old block is not flushed.
GetMissUnflushed ==
  /\ pc = "get"
  /\ cur # BlockOf(req)
  /\ pc' = "fill"
  /\ UNCHANGED <<machine, env, disk, dirty, buf, cur, req, res, kept>>

GetMiss ==
  /\ pc = "get"
  /\ cur # BlockOf(req)
  /\ IF dirty THEN FlushOk(buf) ELSE UNCHANGED <<disk, dirty>>
  /\ pc' = "fill"
  /\ UNCHANGED <<machine, env, buf, cur, req, res, kept>>

GetFlushFails ==
  /\ pc = "get"
  /\ cur # BlockOf(req)
  /\ dirty
  /\ FlushFails(buf)
  /\ Return(Error)
  /\ UNCHANGED <<machine, env, buf, cur, kept>>

\* Deblock mode 2 skips the read, and with it the update of current_block: the
\* record will be stored in the old block and not in its own.
FillSkipped ==
  /\ pc = "fill"
  /\ req.mode = 2
  /\ pc' = "transfer"
  /\ Forget({cur, BlockOf(req)})
  /\ UNCHANGED <<machine, env, disk, buf, cur, dirty, req, res>>

\* Mutant: current_block is left alone by a read, too.
FillReadUnlabelled ==
  /\ pc = "fill"
  /\ req.mode # 2
  /\ buf' = disk[BlockOf(req)]
  /\ pc' = "transfer"
  /\ UNCHANGED <<machine, env, disk, cur, dirty, req, res, kept>>

FillRead ==
  /\ pc = "fill"
  /\ req.mode # 2
  /\ buf' = disk[BlockOf(req)]
  /\ cur' = BlockOf(req)
  /\ pc' = "transfer"
  /\ UNCHANGED <<machine, env, disk, dirty, req, res, kept>>

\* The LW-30's read fails, before or after disk_buffer is filled; the label
\* stays the old block's.
FillFails ==
  /\ "read fails" \in env /\ machine = "lw30"
  /\ pc = "fill"
  /\ req.mode # 2
  /\ buf' \in {buf, disk[BlockOf(req)]}
  /\ Return(Error)
  /\ Forget({cur})
  /\ UNCHANGED <<machine, env, disk, cur, dirty>>

\* The WP-1's read fails: read_syscall copies what the ROM's buffer holds and
\* getblock's "ret c" does not see the error.
FillFailsUnseen ==
  /\ "read fails" \in env /\ machine = "wp1"
  /\ pc = "fill"
  /\ req.mode # 2
  /\ buf' \in [Slot -> Data]
  /\ cur' = BlockOf(req)
  /\ pc' = "transfer"
  /\ Forget({BlockOf(req)})
  /\ UNCHANGED <<machine, env, disk, dirty, req, res>>

TransferRead ==
  /\ pc = "transfer"
  /\ req.op = "read"
  /\ Return(Ok(buf[RecordOf(req)]))
  /\ UNCHANGED <<machine, env, disk, buf, cur, dirty, kept>>

\* Mutant: no mode flushes.
TransferWriteUnflushed ==
  /\ pc = "transfer"
  /\ req.op = "write"
  /\ buf' = [buf EXCEPT ![RecordOf(req)] = req.data]
  /\ dirty' = TRUE
  /\ Return(Ok(NoData))
  /\ Acknowledge
  /\ UNCHANGED <<machine, env, disk, cur>>

\* WRITEE after getblock: in mode 1 the block is flushed at once, and "xor a"
\* reports success whether or not that worked.
TransferWrite ==
  /\ pc = "transfer"
  /\ req.op = "write"
  /\ buf' = [buf EXCEPT ![RecordOf(req)] = req.data]
  /\ IF req.mode = 1 THEN FlushOk(buf') \/ FlushFails(buf')
                     ELSE dirty' = TRUE /\ UNCHANGED disk
  /\ Return(Ok(NoData))
  /\ Acknowledge
  /\ UNCHANGED <<machine, env, cur>>

\* What the medium holds then is what the next session starts from.
PowerCycle ==
  /\ buf' = [i \in Slot |-> Blank]
  /\ cur' = NoBlock
  /\ dirty' = FALSE
  /\ pc' = "idle"
  /\ req' = NoReq
  /\ res' = NoResult
  /\ kept' = disk
  /\ UNCHANGED <<machine, env, disk>>

Next ==
  \/ \E q \in Calls : Call(q)
  \/ GetHit
  \/ GetMiss
  \/ GetFlushFails
  \/ FillSkipped
  \/ FillRead
  \/ FillFails
  \/ FillFailsUnseen
  \/ TransferRead
  \/ TransferWrite
  \/ PowerCycle

Spec == Init /\ [][Next]_vars

-----------------------------------------------------------------------------
\* getblock returns the address of the CP/M sector that was asked for, in the
\* buffer of the block it changed to (wp1/floppy.z80:148-149).
GetblockReturnsItsBlock == pc = "transfer" => cur = BlockOf(req)

\* It does, whatever fails, when the BDOS never allocates a block.
BufferHoldsTheBlock == "mode 2" \notin env => GetblockReturnsItsBlock

\* "if deblock mode 1, flush the block now" (wp1/floppy.z80:96): a mode 1 write
\* that reports success is on the medium, as long as writes work and no mode 2
\* write has put the block under another one's label.
WriteThroughIsDurable ==
  [][{"write fails", "mode 2"} \cap env = {}
       /\ pc = "transfer" /\ req.mode = 1 /\ res'.status = "ok"
       => disk'[BlockOf(req)][RecordOf(req)] = req.data]_vars

\* What a later call finds: the buffer for the block it is labelled with, the
\* medium for the others.
Store == [b \in Block |-> IF b = cur THEN buf ELSE disk[b]]

\* The BDOS's view, as for the general deblocker.
Abstracted(q) ==
  IF q = NoReq THEN NoReq
  ELSE [op |-> q.op, at |-> BlockOf(q), slot |-> RecordOf(q),
        data |-> q.data, mode |-> q.mode]

Records == INSTANCE RecordStore WITH
  Sector  <- Block,
  Nowhere <- NoBlock,
  Spoils  <- FALSE,
  store   <- Store,
  durable <- disk,
  doubt   <- {},
  req     <- Abstracted(req)

\* Without mode 2 and without failing transfers both copies are a record store.
ImplementsRecordStore ==
  /\ Records!Init
  /\ [][Sound => [Records!Next]_(Records!vars)]_vars

\* What was acknowledged is what the store holds, whatever fails: a flush that
\* fails, in a change of block or unseen after a mode 1 write, leaves the records
\* in the buffer, dirty, until one works; a misplaced record or a failed read harms
\* no blocks but the two it is about.
RecordsKept == \A b \in DOMAIN kept : Store[b] = kept[b]

\* And that is what a read which reports success returns.
ReadsReturnThem ==
  [][pc = "transfer" /\ req.op = "read" /\ res'.status = "ok" /\ BlockOf(req) \in DOMAIN kept
       => res'.data = kept[BlockOf(req)][RecordOf(req)]]_vars

\* No call of any kind, failing or not, loses or changes an acknowledged record of a
\* block that no failed read and no misplaced mode 2 record has touched since the
\* machine was switched on; and in mode 1, when flushes work, not even switching it
\* off does.
AcknowledgedDataKept == [][RecordsKept']_vars /\ ReadsReturnThem /\ WriteThroughIsDurable
=============================================================================
