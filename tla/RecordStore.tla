---------------------------- MODULE RecordStore ----------------------------
(***************************************************************************)
(* What the BDOS may rely on when it calls a BIOS READ or WRITE on a disk  *)
(* whose native sectors hold several 128-byte CP/M records: a store of     *)
(* records behind a volatile write-back cache.  "store" is what a read     *)
(* returns now, "durable" what is left after the power is cycled.          *)
(*                                                                         *)
(* The three deblock modes are those of deblocker.lib and of the CP/M 2.2  *)
(* WRITE call: 0 may stay in the cache, 1 is on the medium when the call   *)
(* succeeds, 2 is the first write into a block the BDOS just allocated, so *)
(* the other records of that sector are nobody's and may become anything.  *)
(*                                                                         *)
(* When a call fails, the sector it was for is in doubt: until the cache   *)
(* has been through with it, a later read may be answered with anything.   *)
(* No other sector ever is.                                                *)
(***************************************************************************)
EXTENDS Naturals

CONSTANTS Sector,      \* native sectors of the medium
          Slot,        \* the records of a native sector
          Data,        \* contents of a record
          Nowhere,     \* the address of a request out of the disk's bounds
          NoData,      \* no record was returned
          Spoils       \* may a failed call leave its sector in doubt?

VARIABLES store, durable,
          doubt,       \* the sectors in doubt
          req, res

vars == <<store, durable, doubt, req, res>>

Block == [Slot -> Data]

Request  == [op : {"read", "write"}, at : Sector \cup {Nowhere}, slot : Slot,
             data : Data, mode : 0..2]
NoReq    == [op |-> "none"]
Result   == [status : {"none", "ok", "error"}, data : Data \cup {NoData}]

NoResult == [status |-> "none", data |-> NoData]
Ok(d)    == [status |-> "ok", data |-> d]
Error    == [status |-> "error", data |-> NoData]

TypeOK ==
  /\ store \in [Sector -> Block]
  /\ durable \in [Sector -> Block]
  /\ doubt \in SUBSET Sector
  /\ req \in Request \cup {NoReq}
  /\ res \in Result

Init ==
  /\ store \in [Sector -> Block]
  /\ durable = store
  /\ doubt = {}
  /\ req = NoReq
  /\ res = NoResult

Call(q) ==
  /\ req = NoReq
  /\ req' = q
  /\ res' = NoResult
  /\ UNCHANGED <<store, durable, doubt>>

Return(r) == req' = NoReq /\ res' = r

\* A read that succeeds returns the record as last written.
ReadOk ==
  /\ req # NoReq
  /\ req.op = "read"
  /\ req.at \in Sector
  /\ Return(Ok(store[req.at][req.slot]))
  /\ UNCHANGED <<store, durable, doubt>>

\* Sectors outside D keep their contents, the others are arbitrary.
SameOutside(D) ==
  /\ store' \in [Sector -> Block]
  /\ \A s \in Sector \ D : store'[s] = store[s]

Applied == [store EXCEPT ![req.at] = [@ EXCEPT ![req.slot] = req.data]]

\* A write that succeeds is seen by later reads; in mode 1 it is on the medium.
WriteOk ==
  /\ req # NoReq
  /\ req.op = "write"
  /\ req.at \in Sector
  /\ store' = Applied
  /\ durable' = IF req.mode = 1 THEN [durable EXCEPT ![req.at] = store'[req.at]]
                                ELSE durable
  /\ Return(Ok(NoData))
  /\ UNCHANGED doubt

\* A failed call changes nothing, or the cache has written a sector back.
FailClean ==
  /\ UNCHANGED <<store, doubt>>
  /\ \/ UNCHANGED durable
     \/ \E s \in Sector : durable' = [durable EXCEPT ![s] = store[s]]

\* A failed write-through may leave its own record written or not, in the cache
\* alone or on the medium too.
FailWritten ==
  /\ req.op = "write" /\ req.at \in Sector /\ req.mode = 1
  /\ store' = Applied
  /\ durable' \in {durable, [durable EXCEPT ![req.at] = store'[req.at]]}
  /\ UNCHANGED doubt

\* The sector could not be read: the cache may hold anything for it.
FailSpoiled ==
  /\ Spoils
  /\ req.at \in Sector
  /\ SameOutside(doubt \cup {req.at})
  /\ doubt' = {req.at}
  /\ UNCHANGED durable

Fail ==
  /\ req # NoReq
  /\ Return(Error)
  /\ FailClean \/ FailWritten \/ FailSpoiled

\* The cache writes a sector back.
Sync(s) ==
  /\ durable' = [durable EXCEPT ![s] = store[s]]
  /\ UNCHANGED <<store, doubt, req, res>>

\* The cache drops what it held of the sectors in doubt.
Settle ==
  /\ doubt # {}
  /\ SameOutside(doubt)
  /\ doubt' = {}
  /\ UNCHANGED <<durable, req, res>>

\* A mode 2 write does not read the block it lands in.
Scratch ==
  /\ req # NoReq
  /\ req.op = "write"
  /\ req.at \in Sector
  /\ req.mode = 2
  /\ SameOutside(doubt \cup {req.at})
  /\ doubt' = {}
  /\ UNCHANGED <<durable, req, res>>

PowerCycle ==
  /\ store' = durable
  /\ doubt' = {}
  /\ req' = NoReq
  /\ res' = NoResult
  /\ UNCHANGED durable

Next ==
  \/ \E q \in Request : Call(q)
  \/ ReadOk
  \/ WriteOk
  \/ Fail
  \/ \E s \in Sector : Sync(s)
  \/ Settle
  \/ Scratch
  \/ PowerCycle

Spec == Init /\ [][Next]_vars
=============================================================================
