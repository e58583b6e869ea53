--------------------------- MODULE DeblockerProofs ---------------------------
(* Proofs about Deblocker for every geometry, set of requests and data.      *)
EXTENDS Deblocker, TLAPS

USE GeometryAssumption, DataAssumption, FlagAssumption, SentinelAssumption

\* The record "and 3" selects is inside the memory the model gives the buffer.
LEMMA OffsetInWindow ==
  ASSUME NEW q \in Request
  PROVE  Offset(q) \in 0..3 /\ Offset(q) \in Window
<1>1. q.sector \in Nat
  BY DEF Request
<1>2. Offset(q) \in 0..3
  BY <1>1 DEF Offset
<1> QED
  BY <1>2 DEF Window

\* What callers ask for is a request, never the absence of one.
LEMMA CallsAreRequests == Calls \subseteq Request /\ NoReq \notin Calls
BY DEF Calls, Request, NoReq

\* The native sector lies inside that memory.
LEMMA SlotsInWindow == Slot \subseteq Window
BY DEF Slot, Window

\* Every variable has its type, and the program counter agrees with the request
\* and with the dirty flag, whatever the hardware does.
THEOREM TypeCorrect == Spec => []TypeOK
<1>1. Init => TypeOK
  <2> SUFFICES ASSUME Init PROVE TypeOK
    OBVIOUS
  <2>1. disk \in [Sector -> [Slot -> Data]] /\ buf \in [Window -> Data]
    BY DEF Init
  <2>2. res \in [status : {"none", "ok", "error"}, data : Data \cup {NoData}]
    BY DEF Init, NoResult
  <2> QED
    BY <2>1, <2>2 DEF Init, TypeOK
<1>2. TypeOK /\ [Next]_vars => TypeOK'
  <2> SUFFICES ASSUME TypeOK, [Next]_vars PROVE TypeOK'
    OBVIOUS
  <2>1. ASSUME NEW q \in Calls, Call(q) PROVE TypeOK'
    BY <2>1, CallsAreRequests DEF TypeOK, Call, NoResult
  <2>2. CASE Get
    BY <2>2 DEF TypeOK, Get, Return, Error, InBounds
  <2>3. CASE WriteBackOk
    <3>1. Held \in [Slot -> Data]
      BY SlotsInWindow DEF TypeOK, Held
    <3>2. disk' \in [Sector -> [Slot -> Data]]
      BY <2>3, <3>1 DEF TypeOK, WriteBackOk
    <3> QED
      BY <2>3, <3>2 DEF TypeOK, WriteBackOk, InBounds, Physical
  <2>4. CASE WriteBackFails
    <3>1. Held \in [Slot -> Data]
      BY SlotsInWindow DEF TypeOK, Held
    <3>2. disk' \in [Sector -> [Slot -> Data]]
      BY <2>4, <3>1 DEF TypeOK, WriteBackFails
    <3> QED
      BY <2>4, <3>2 DEF TypeOK, WriteBackFails, Return, Error
  <2>5. CASE SwitchUnread
    BY <2>5 DEF TypeOK, SwitchUnread, InBounds, Physical
  <2>6. CASE SwitchRead
    <3>1. Loaded(Physical(req)) \in [Window -> Data]
      BY <2>6 DEF TypeOK, SwitchRead, Loaded, InBounds
    <3> QED
      BY <2>6, <3>1 DEF TypeOK, SwitchRead, InBounds, Physical
  <2>7. CASE SwitchReadFails
    <3>1. Loaded(Physical(req)) \in [Window -> Data]
      BY <2>7 DEF TypeOK, SwitchReadFails, Loaded, InBounds
    <3> QED
      BY <2>7, <3>1 DEF TypeOK, SwitchReadFails, InBounds, Return, Error
  <2>8. CASE TransferRead
    <3>1. req \in Request
      BY <2>8 DEF TypeOK, TransferRead, Calls
    <3>2. buf[Offset(req)] \in Data
      BY <3>1, OffsetInWindow DEF TypeOK
    <3> QED
      BY <2>8, <3>2 DEF TypeOK, TransferRead, Return, Ok
  <2>9. CASE TransferWrite
    <3>1. req \in Request
      BY <2>9 DEF TypeOK, TransferWrite, Calls
    <3>2. buf' \in [Window -> Data]
      BY <2>9, <3>1, OffsetInWindow DEF TypeOK, TransferWrite, Stored, Request
    <3> QED
      BY <2>9, <3>2 DEF TypeOK, TransferWrite, Return, Ok, InBounds
  <2>10. CASE TransferWriteThrough
    <3>1. req \in Request
      BY <2>10 DEF TypeOK, TransferWriteThrough, Calls
    <3>2. buf' \in [Window -> Data]
      BY <2>10, <3>1, OffsetInWindow
         DEF TypeOK, TransferWriteThrough, Stored, Request
    <3>3. disk' \in [Sector -> [Slot -> Data]]
      BY <2>10, <3>2, SlotsInWindow DEF TypeOK, TransferWriteThrough, Flushed
    <3>4. cur' \in Sector
      BY <2>10 DEF TypeOK, TransferWriteThrough, InBounds
    <3>5. dirty' \in BOOLEAN /\ spoiled' \in BOOLEAN
      BY <2>10 DEF TypeOK, TransferWriteThrough
    <3>6. pc' = "idle" /\ req' = NoReq /\ (res' = Ok(NoData) \/ res' = Error)
      BY <2>10 DEF TransferWriteThrough, Return
    <3>7. res' \in [status : {"none", "ok", "error"}, data : Data \cup {NoData}]
      BY <3>6 DEF Ok, Error
    <3> QED
      BY <3>2, <3>3, <3>4, <3>5, <3>6, <3>7 DEF TypeOK
  <2>11. CASE PowerCycle
    BY <2>11 DEF TypeOK, PowerCycle, NoResult
  <2>12. CASE UNCHANGED vars
    BY <2>12 DEF TypeOK, vars, InBounds, Physical
  <2> QED
    BY <2>1, <2>2, <2>3, <2>4, <2>5, <2>6, <2>7, <2>8, <2>9, <2>10, <2>11, <2>12
       DEF Next
<1> QED
  BY <1>1, <1>2, PTL DEF Spec

\* The sector buffer after the native read of a sector is that sector.
LEMMA HeldAfterLoad ==
  ASSUME TypeOK, NEW s \in Sector, buf' = Loaded(s)
  PROVE  Held' = disk[s]
<1>1. disk[s] \in [Slot -> Data]
  BY DEF TypeOK
<1>2. Held' = [i \in Slot |-> disk[s][i]]
  BY SlotsInWindow DEF Held, Loaded
<1> QED
  BY <1>1, <1>2

\* One step of the deblocker keeps clean buffers equal to their sectors, but for
\* a sector whose native read fails.
LEMMA CoherenceStep ==
  ASSUME TypeOK, TypeOK', CleanBufferMatchesDisk, [Next]_vars
  PROVE  CleanBufferMatchesDisk'
<1>1. ASSUME NEW q \in Calls, Call(q) PROVE CleanBufferMatchesDisk'
  BY <1>1 DEF Call, CleanBufferMatchesDisk, Held
<1>2. CASE Get
  BY <1>2 DEF Get, Return, CleanBufferMatchesDisk, Held
<1>3. CASE WriteBackOk
  <2>1. cur \in Sector /\ disk \in [Sector -> [Slot -> Data]]
    BY <1>3 DEF WriteBackOk, TypeOK
  <2>2. disk'[cur] = Held
    BY <1>3, <2>1 DEF WriteBackOk
  <2> QED
    BY <1>3, <2>2 DEF WriteBackOk, CleanBufferMatchesDisk, Held
<1>4. CASE WriteBackFails
  <2>1. cur \in Sector /\ disk \in [Sector -> [Slot -> Data]]
    BY <1>4 DEF WriteBackFails, TypeOK
  <2>2. disk'[cur] = disk[cur] \/ disk'[cur] = Held
    BY <1>4, <2>1 DEF WriteBackFails
  <2> QED
    BY <1>4, <2>2 DEF WriteBackFails, Return, CleanBufferMatchesDisk, Held
<1>5. CASE SwitchUnread
  BY <1>5 DEF SwitchUnread, CleanBufferMatchesDisk
<1>6. CASE SwitchRead
  <2>1. Physical(req) \in Sector
    BY <1>6 DEF SwitchRead, TypeOK, InBounds
  <2> QED
    BY <1>6, <2>1, HeldAfterLoad DEF SwitchRead, CleanBufferMatchesDisk
<1>7. CASE SwitchReadFails
  BY <1>7 DEF SwitchReadFails, CleanBufferMatchesDisk
<1>8. CASE TransferRead
  <2>1. req.mode = 0
    BY <1>8 DEF TransferRead, TypeOK, Calls
  <2> QED
    BY <1>8, <2>1 DEF TransferRead, CleanBufferMatchesDisk, Held
<1>9. CASE TransferWrite
  BY <1>9 DEF TransferWrite, CleanBufferMatchesDisk
<1>10. CASE TransferWriteThrough
  <2>1. CASE dirty' = FALSE
    <3>1. disk' = Flushed /\ cur' = cur
      BY <1>10, <2>1 DEF TransferWriteThrough
    <3>2. disk \in [Sector -> [Slot -> Data]]
      BY DEF TypeOK
    <3>3. cur \in Sector
      BY <1>10 DEF TransferWriteThrough, TypeOK, InBounds
    <3>4. disk'[cur] = [i \in Slot |-> buf'[i]]
      BY <3>1, <3>2, <3>3 DEF Flushed
    <3> QED
      BY <3>1, <3>4 DEF CleanBufferMatchesDisk, Held
  <2>2. CASE dirty'
    BY <2>2 DEF CleanBufferMatchesDisk
  <2> QED
    BY <2>1, <2>2 DEF TypeOK
<1>11. CASE PowerCycle
  BY <1>11 DEF PowerCycle, CleanBufferMatchesDisk
<1>12. CASE UNCHANGED vars
  BY <1>12 DEF vars, CleanBufferMatchesDisk, Held
<1> QED
  BY <1>1, <1>2, <1>3, <1>4, <1>5, <1>6, <1>7, <1>8, <1>9, <1>10, <1>11, <1>12
     DEF Next

\* A clean buffer is a copy of the sector it is labelled with, for every disk
\* and every sequence of calls, unless the last native read failed.
THEOREM Coherent == Spec => []CleanBufferMatchesDisk
<1>1. Init => CleanBufferMatchesDisk
  BY DEF Init, CleanBufferMatchesDisk
<1>2. TypeOK /\ TypeOK' /\ CleanBufferMatchesDisk /\ [Next]_vars
        => CleanBufferMatchesDisk'
  BY CoherenceStep
<1> QED
  BY <1>1, <1>2, TypeCorrect, PTL DEF Spec

\* Different records of the disk are kept in different places: with four records
\* to a native sector, sector and offset determine the CP/M track and sector.
THEOREM AddressingInjective ==
  ASSUME RecordsPerSector = 4, NEW p \in Request, NEW q \in Request,
         Physical(p) = Physical(q), Offset(p) = Offset(q)
  PROVE  p.track = q.track /\ p.sector = q.sector
<1>1. p.sector \in Nat /\ q.sector \in Nat
  BY DEF Request
<1>2. p.track = q.track /\ p.sector \div 4 = q.sector \div 4
  BY DEF Physical
<1>3. p.sector % 4 = q.sector % 4
  BY DEF Offset
<1> QED
  BY <1>1, <1>2, <1>3

\* No step but a power cycle drops modified data that the medium has not got.
THEOREM NoDirtyDataDropped == Spec => DirtyDataReachesDisk
<1>1. TypeOK /\ [Next]_vars
        => [dirty /\ ~dirty' /\ ~PowerCycle
              => disk'[cur] = [i \in Slot |-> buf'[i]]]_vars
  <2> SUFFICES ASSUME TypeOK, Next, dirty, ~dirty', ~PowerCycle
               PROVE  disk'[cur] = [i \in Slot |-> buf'[i]]
    OBVIOUS
  <2>1. cur \in Sector /\ disk \in [Sector -> [Slot -> Data]]
    BY DEF TypeOK
  <2>2. WriteBackOk \/ TransferWriteThrough
    BY DEF Next, Call, Get, WriteBackFails, SwitchUnread, SwitchRead,
           SwitchReadFails, TransferRead, TransferWrite
  <2>3. CASE WriteBackOk
    BY <2>1, <2>3 DEF WriteBackOk, Held
  <2>4. CASE TransferWriteThrough
    <3>1. disk' = Flushed
      BY <2>4 DEF TransferWriteThrough
    <3> QED
      BY <2>1, <3>1 DEF Flushed
  <2> QED
    BY <2>2, <2>3, <2>4
<1> QED
  BY <1>1, TypeCorrect, PTL DEF Spec, DirtyDataReachesDisk

\* An acknowledged mode 1 write is on the medium.
THEOREM WriteThroughDurable ==
  ASSUME RecordsPerSector >= 4
  PROVE  Spec => WriteThroughIsDurable
<1>1. TypeOK /\ [Next]_vars
        => [pc = "transfer" /\ req.mode = 1 /\ res'.status = "ok"
              => /\ disk'[Physical(req)][Offset(req)] = req.data
                 /\ ~dirty']_vars
  <2> SUFFICES ASSUME TypeOK, Next, pc = "transfer", req.mode = 1,
                      res'.status = "ok"
               PROVE  /\ disk'[Physical(req)][Offset(req)] = req.data
                      /\ ~dirty'
    OBVIOUS
  <2>1. /\ cur \in Sector /\ disk \in [Sector -> [Slot -> Data]]
        /\ cur = Physical(req) /\ buf \in [Window -> Data] /\ req \in Calls
    BY CallsAreRequests DEF TypeOK, InBounds
  <2>2. Offset(req) \in Slot /\ Offset(req) \in Window
    BY <2>1, CallsAreRequests, OffsetInWindow DEF Slot
  <2>3. CASE TransferWriteThrough
    <3>1. disk' = Flushed /\ ~dirty' /\ buf' = Stored
      BY <2>3 DEF TransferWriteThrough, Return, Error
    <3>2. buf'[Offset(req)] = req.data
      BY <2>1, <2>2, <3>1 DEF Stored
    <3>3. disk'[cur] = [i \in Slot |-> buf'[i]]
      BY <2>1, <3>1 DEF Flushed
    <3> QED
      BY <2>1, <2>2, <3>1, <3>2, <3>3
  <2>4. CASE PowerCycle
    BY <2>4 DEF PowerCycle, NoResult
  <2>5. ~TransferRead
    BY <2>1 DEF TransferRead, Calls
  <2> QED
    BY <2>3, <2>4, <2>5
       DEF Next, Call, Get, WriteBackOk, WriteBackFails, SwitchUnread,
           SwitchRead, SwitchReadFails, TransferWrite
<1> QED
  BY <1>1, TypeCorrect, PTL DEF Spec, WriteThroughIsDurable

-----------------------------------------------------------------------------
\* The implementation of RecordStore.

\* The buffer holds a whole native sector (DBS_BUFFER, deblocker.lib:18).
LEMMA HeldIsBlock ==
  ASSUME TypeOK PROVE Held \in [Slot -> Data]
BY SlotsInWindow DEF TypeOK, Held

\* The store read through the buffer is one block for every native sector.
LEMMA StoreType ==
  ASSUME TypeOK PROVE Store \in [Sector -> [Slot -> Data]]
BY HeldIsBlock DEF TypeOK, Store

\* The same after a step that keeps the types.
LEMMA StoreTypeNext ==
  ASSUME TypeOK' PROVE Store' \in [Sector -> [Slot -> Data]]
BY SlotsInWindow DEF TypeOK, Store, Held

\* A clean buffer hides nothing: the store is the medium, but for the sector in
\* doubt.
LEMMA CleanStoreIsDisk ==
  ASSUME TypeOK, CleanBufferMatchesDisk, ~dirty,
         ~(pc = "transfer" /\ req.mode = 2)
  PROVE  \A s \in Sector \ Doubt : Store[s] = disk[s]
BY DEF TypeOK, CleanBufferMatchesDisk, Store, Doubt

\* A request as RecordStore sees it.
LEMMA AbstractedFields ==
  ASSUME RecordsPerSector >= 4, NEW q \in Request
  PROVE  /\ Abstracted(q) # Records!NoReq
         /\ Abstracted(q) \in Records!Request
         /\ Abstracted(q).op = q.op /\ Abstracted(q).slot = Offset(q)
         /\ Abstracted(q).data = q.data /\ Abstracted(q).mode = q.mode
         /\ InBounds(q) => Abstracted(q).at = Physical(q)
<1>1. Offset(q) \in Slot
  BY OffsetInWindow DEF Slot
<1>2. q # NoReq
  BY DEF Request, NoReq
<1>3. Abstracted(q) = [op |-> q.op,
                at |-> IF InBounds(q) THEN Physical(q) ELSE Nowhere,
                slot |-> Offset(q), data |-> q.data, mode |-> q.mode]
  BY <1>2 DEF Abstracted
<1>4. Abstracted(q) \in Records!Request
  BY <1>1, <1>3 DEF Request, Records!Request, InBounds
<1>5. Abstracted(q) # Records!NoReq
  BY <1>4 DEF Records!Request, Records!NoReq
<1> QED
  BY <1>3, <1>4, <1>5

\* No call in progress is none for the record store either.
LEMMA AbstractedIdle == Abstracted(NoReq) = Records!NoReq
BY DEF Abstracted, NoReq, Records!NoReq

\* A write lands in the buffer: the store changes in its one record.
LEMMA StoreAfterWrite ==
  ASSUME RecordsPerSector >= 4, TypeOK, pc = "transfer", buf' = Stored, cur' = cur,
         \A s \in Sector : s # cur => disk'[s] = disk[s]
  PROVE  Store' = [Store EXCEPT ![Physical(req)] =
                     [@ EXCEPT ![Offset(req)] = req.data]]
<1>1. cur \in Sector /\ cur = Physical(req) /\ req \in Request
  BY CallsAreRequests DEF TypeOK, InBounds, NoReq
<1>2. Offset(req) \in Slot
  BY <1>1, OffsetInWindow DEF Slot
<1>3. Held' = [Held EXCEPT ![Offset(req)] = req.data]
  BY <1>2, SlotsInWindow DEF TypeOK, Held, Stored
<1>4. Store[cur] = Held
  BY <1>1 DEF Store
<1> QED
  BY <1>1, <1>3, <1>4 DEF Store

\* Each step of the deblocker is a step of the record store or leaves it alone.
LEMMA RefinementStep ==
  ASSUME RecordsPerSector >= 4, TypeOK, TypeOK',
         CleanBufferMatchesDisk, CleanBufferMatchesDisk', [Next]_vars
  PROVE  [Records!Next]_(Records!vars)
<1>1. ASSUME NEW q \in Calls, Call(q) PROVE Records!Next
  <2>1. req = NoReq /\ req' = q /\ res' = Records!NoResult
    BY <1>1 DEF Call, TypeOK, NoResult, Records!NoResult
  <2>2. Abstracted(q) \in Records!Request
    BY CallsAreRequests, AbstractedFields
  <2>3. Abstracted(req) = Records!NoReq /\ Abstracted(req)' = Abstracted(q)
    BY <2>1, AbstractedIdle DEF Abstracted, InBounds, Physical, Offset
  <2>4. UNCHANGED <<Store, disk, Doubt>>
    BY <1>1 DEF Call, Store, Held, Doubt
  <2>5. Records!Call(Abstracted(q))
    BY <2>1, <2>3, <2>4 DEF Records!Call
  <2> QED
    BY <2>2, <2>5 DEF Records!Next
<1>2. ASSUME req \in Request
      PROVE  /\ Abstracted(req) # Records!NoReq
             /\ Abstracted(req).op = req.op /\ Abstracted(req).slot = Offset(req)
             /\ Abstracted(req).data = req.data /\ Abstracted(req).mode = req.mode
             /\ InBounds(req) => Abstracted(req).at = Physical(req)
  BY <1>2, AbstractedFields
<1>3. ASSUME NEW r, Return(r)
      PROVE  Abstracted(req)' = Records!NoReq /\ res' = r
  BY <1>3, AbstractedIdle DEF Return, Abstracted
<1>4. CASE Get
  <2>1. UNCHANGED <<Store, disk, Doubt>>
    BY <1>4 DEF Get, Store, Held, Doubt
  <2>2. CASE Return(Error)
    <3>1. req \in Request
      BY <1>4, CallsAreRequests DEF Get, TypeOK
    <3>2. Records!Fail
      BY <1>2, <1>3, <2>1, <2>2, <3>1
         DEF Error, Records!Error, Records!Fail, Records!FailClean,
             Records!Return
    <3> QED
      BY <3>2 DEF Records!Next
  <2>3. CASE UNCHANGED <<req, res>>
    BY <2>1, <2>3 DEF Records!vars, Abstracted, InBounds, Physical, Offset
  <2> QED
    BY <1>4, <2>2, <2>3 DEF Get
<1>5. CASE WriteBackOk
  <2>1. cur \in Sector /\ disk \in [Sector -> [Slot -> Data]]
    BY <1>5 DEF WriteBackOk, TypeOK
  <2>2. Store[cur] = Held
    BY <2>1 DEF Store
  <2>3. Store' = Store /\ Doubt' = Doubt
    BY <1>5, <2>1 DEF WriteBackOk, Store, Held, Doubt
  <2>4. disk' = [disk EXCEPT ![cur] = Store[cur]]
    BY <1>5, <2>2 DEF WriteBackOk
  <2>5. UNCHANGED <<Abstracted(req), res>>
    BY <1>5 DEF WriteBackOk, Abstracted, InBounds, Physical, Offset
  <2>6. Records!Sync(cur)
    BY <2>3, <2>4, <2>5 DEF Records!Sync
  <2> QED
    BY <2>1, <2>6 DEF Records!Next
<1>6. CASE WriteBackFails
  <2>1. /\ cur \in Sector /\ disk \in [Sector -> [Slot -> Data]]
        /\ req \in Request
    BY <1>6, CallsAreRequests DEF WriteBackFails, TypeOK
  <2>2. Store[cur] = Held
    BY <2>1 DEF Store
  <2>3. Store' = Store /\ Doubt' = Doubt
    BY <1>6, <2>1 DEF WriteBackFails, Store, Held, Doubt
  <2>4. disk' = disk \/ disk' = [disk EXCEPT ![cur] = Store[cur]]
    BY <1>6, <2>2 DEF WriteBackFails
  <2>5. Records!Return(Records!Error) /\ Abstracted(req) # Records!NoReq
    BY <1>6, <1>2, <1>3, <2>1
       DEF WriteBackFails, Error, Records!Error, Records!Return
  <2>6. Records!Fail
    BY <2>1, <2>3, <2>4, <2>5 DEF Records!Fail, Records!FailClean
  <2> QED
    BY <2>6 DEF Records!Next
<1>s. ASSUME pc = "switch", cur' = Physical(req), UNCHANGED <<disk, dirty>>
      PROVE  /\ Physical(req) \in Sector /\ InBounds(req) /\ req \in Request
             /\ Store' \in [Sector -> Records!Block]
             /\ \A s \in Sector \ (Doubt \cup {Physical(req)}) :
                  Store'[s] = Store[s]
  <2>1. /\ Physical(req) \in Sector /\ InBounds(req) /\ ~dirty
        /\ disk \in [Sector -> [Slot -> Data]] /\ req \in Request
    BY <1>s, CallsAreRequests DEF TypeOK, InBounds
  <2>2. \A s \in Sector \ Doubt : Store[s] = disk[s]
    BY <1>s, <2>1, CleanStoreIsDisk
  <2>3. \A s \in Sector : s # Physical(req) => Store'[s] = disk[s]
    BY <1>s DEF Store
  <2>4. Store' \in [Sector -> Records!Block]
    BY StoreTypeNext DEF Records!Block
  <2> QED
    BY <2>1, <2>2, <2>3, <2>4
<1>7. CASE SwitchUnread
  <2>1. /\ pc = "switch" /\ cur' = Physical(req) /\ UNCHANGED <<disk, dirty>>
        /\ req.mode = 2 /\ Doubt' = {}
    BY <1>7 DEF SwitchUnread, Doubt
  <2>2. req.op = "write"
    BY <2>1, <1>s DEF TypeOK, Calls, Request, NoReq
  <2>3. UNCHANGED <<Abstracted(req), res>>
    BY <1>7 DEF SwitchUnread, Abstracted, InBounds, Physical, Offset
  <2>4. /\ Abstracted(req) # Records!NoReq /\ Abstracted(req).op = "write"
        /\ Abstracted(req).at = Physical(req) /\ Abstracted(req).mode = 2
    BY <1>2, <1>s, <2>1, <2>2
  <2>5. Records!Scratch
    BY <1>s, <2>1, <2>3, <2>4 DEF Records!Scratch, Records!SameOutside, Doubt
  <2> QED
    BY <2>5 DEF Records!Next
<1>8. CASE SwitchRead
  <2>1. /\ pc = "switch" /\ cur' = Physical(req) /\ UNCHANGED <<disk, dirty>>
        /\ Doubt' = {}
    BY <1>8 DEF SwitchRead, Doubt
  <2>2. Held' = disk[Physical(req)]
    BY <1>8, <1>s, <2>1, HeldAfterLoad DEF SwitchRead
  <2>3. Store' = disk
    BY <2>1, <2>2 DEF Store, TypeOK
  <2>4. \A s \in Sector \ Doubt : Store[s] = disk[s]
    BY <2>1, CleanStoreIsDisk DEF TypeOK
  <2>5. UNCHANGED <<Abstracted(req), res>>
    BY <1>8 DEF SwitchRead, Abstracted, InBounds, Physical, Offset
  <2>6. CASE Doubt = {}
    <3>1. Store' = Store
      BY <2>3, <2>4, <2>6, StoreType DEF TypeOK
    <3> QED
      BY <2>1, <2>5, <2>6, <3>1 DEF Records!vars, Doubt
  <2>7. CASE Doubt # {}
    <3>1. Records!Settle
      BY <1>s, <2>1, <2>3, <2>4, <2>5, <2>7
         DEF Records!Settle, Records!SameOutside, Doubt
    <3> QED
      BY <3>1 DEF Records!Next
  <2> QED
    BY <2>6, <2>7
<1>9. CASE SwitchReadFails
  <2>1. /\ pc = "switch" /\ cur' = Physical(req) /\ UNCHANGED <<disk, dirty>>
        /\ Doubt' = {Physical(req)} /\ ReadsFail
    BY <1>9 DEF SwitchReadFails, Doubt
  <2>2. Records!Return(Records!Error)
    BY <1>9, <1>3 DEF SwitchReadFails, Error, Records!Error, Records!Return
  <2>3. Abstracted(req) # Records!NoReq /\ Abstracted(req).at = Physical(req)
    BY <1>2, <1>s, <2>1
  <2>4. Records!FailSpoiled
    BY <1>s, <2>1, <2>3 DEF Records!FailSpoiled, Records!SameOutside, Doubt
  <2>5. Records!Fail
    BY <2>2, <2>3, <2>4 DEF Records!Fail
  <2> QED
    BY <2>5 DEF Records!Next
<1>10. CASE TransferRead
  <2>1. /\ cur = Physical(req) /\ Physical(req) \in Sector /\ InBounds(req)
        /\ req \in Request /\ req.op = "read"
    BY <1>10, CallsAreRequests DEF TransferRead, TypeOK, InBounds, NoReq
  <2>2. Offset(req) \in Slot
    BY <2>1, OffsetInWindow DEF Slot
  <2>3. Store[cur][Offset(req)] = buf[Offset(req)]
    BY <2>1, <2>2 DEF Store, Held
  <2>4. UNCHANGED <<Store, disk, Doubt>>
    BY <1>10 DEF TransferRead, Store, Held, Doubt
  <2>5. Records!Return(Records!Ok(Store[Physical(req)][Offset(req)]))
    BY <1>10, <1>3, <2>1, <2>3 DEF TransferRead, Ok, Records!Ok, Records!Return
  <2>6. Records!ReadOk
    BY <1>2, <2>1, <2>4, <2>5 DEF Records!ReadOk
  <2> QED
    BY <2>6 DEF Records!Next
<1>11. ASSUME pc = "transfer", req.op = "write", buf' = Stored, cur' = cur,
              \A s \in Sector : s # cur => disk'[s] = disk[s]
       PROVE  /\ Abstracted(req) # Records!NoReq
              /\ Abstracted(req).op = "write" /\ Abstracted(req).at \in Sector
              /\ Abstracted(req).at = cur /\ Abstracted(req).mode = req.mode
              /\ Store' = Records!Applied
              /\ cur \in Sector /\ Store'[cur] = Held'
  <2>1. /\ cur = Physical(req) /\ Physical(req) \in Sector /\ InBounds(req)
        /\ req \in Request
    BY <1>11, CallsAreRequests DEF TypeOK, InBounds, NoReq
  <2>2. Store' = [Store EXCEPT ![Physical(req)] =
                    [@ EXCEPT ![Offset(req)] = req.data]]
    BY <1>11, StoreAfterWrite
  <2>3. Store'[cur] = Held'
    BY <1>11, <2>1 DEF Store
  <2> QED
    BY <1>2, <1>11, <2>1, <2>2, <2>3 DEF Records!Applied
<1>12. CASE TransferWrite
  <2>1. /\ pc = "transfer" /\ req.op = "write" /\ buf' = Stored /\ cur' = cur
        /\ disk' = disk /\ req.mode # 1 /\ Doubt' = Doubt
    BY <1>12 DEF TransferWrite, Doubt
  <2>2. Records!Return(Records!Ok(NoData))
    BY <1>12, <1>3 DEF TransferWrite, Ok, Records!Ok, Records!Return
  <2>3. Records!WriteOk
    BY <1>11, <2>1, <2>2 DEF Records!WriteOk
  <2> QED
    BY <2>3 DEF Records!Next
<1>13. CASE TransferWriteThrough
  <2>1. /\ pc = "transfer" /\ req.op = "write" /\ buf' = Stored /\ cur' = cur
        /\ req.mode = 1 /\ disk' \in {disk, Flushed} /\ Doubt' = Doubt
    BY <1>13 DEF TransferWriteThrough, Doubt
  <2>2. \A s \in Sector : s # cur => disk'[s] = disk[s]
    BY <2>1 DEF Flushed, TypeOK
  <2>3. Flushed = [disk EXCEPT ![cur] = Store'[cur]]
    BY <1>11, <2>1, <2>2 DEF Flushed, Held
  <2>4. CASE disk' = Flushed /\ Return(Ok(NoData))
    <3>1. Records!Return(Records!Ok(NoData))
      BY <1>3, <2>4 DEF Ok, Records!Ok, Records!Return
    <3>2. Records!WriteOk
      BY <1>11, <2>1, <2>2, <2>3, <2>4, <3>1 DEF Records!WriteOk
    <3> QED
      BY <3>2 DEF Records!Next
  <2>5. CASE Return(Error)
    <3>1. Records!Return(Records!Error)
      BY <1>3, <2>5 DEF Error, Records!Error, Records!Return
    <3>2. Records!Fail
      BY <1>11, <2>1, <2>2, <2>3, <3>1 DEF Records!Fail, Records!FailWritten
    <3> QED
      BY <3>2 DEF Records!Next
  <2> QED
    BY <1>13, <2>4, <2>5 DEF TransferWriteThrough
<1>14. CASE PowerCycle
  <2>1. /\ cur' = NoSector /\ disk' = disk /\ req' = NoReq
        /\ res' = Records!NoResult /\ Doubt' = {}
    BY <1>14 DEF PowerCycle, NoResult, Records!NoResult, Doubt
  <2>2. Store' = disk
    BY <2>1 DEF Store, TypeOK
  <2>3. Records!PowerCycle
    BY <2>1, <2>2, AbstractedIdle DEF Records!PowerCycle, Abstracted
  <2> QED
    BY <2>3 DEF Records!Next
<1>15. CASE UNCHANGED vars
  BY <1>15 DEF vars, Records!vars, Store, Held, Abstracted, InBounds, Physical,
               Offset, Doubt
<1> QED
  BY <1>1, <1>4, <1>5, <1>6, <1>7, <1>8, <1>9, <1>10, <1>12, <1>13, <1>14, <1>15
     DEF Next

\* The deblocker, its callers and a medium whose reads and writes may fail at any
\* time are a RecordStore: reads return what was last written, a failed call puts
\* no other sector in doubt, and a power cycle loses no mode 1 write, for every
\* geometry and every sequence of calls.
THEOREM Refinement ==
  ASSUME RecordsPerSector >= 4
  PROVE  Spec => ImplementsRecordStore
<1>1. Init => Records!Init
  <2> SUFFICES ASSUME Init PROVE Records!Init
    OBVIOUS
  <2>1. Store = disk /\ Doubt = {}
    BY DEF Init, Store, Doubt
  <2>2. disk \in [Sector -> Records!Block]
    BY DEF Init, Records!Block
  <2> QED
    BY <2>1, <2>2, AbstractedIdle
       DEF Init, Records!Init, NoResult, Records!NoResult
<1>2. TypeOK /\ TypeOK' /\ CleanBufferMatchesDisk /\ CleanBufferMatchesDisk'
        /\ [Next]_vars => [Records!Next]_(Records!vars)
  BY RefinementStep
<1> QED
  BY <1>1, <1>2, TypeCorrect, Coherent, PTL
     DEF Spec, ImplementsRecordStore, Records!Spec
=============================================================================
