---------------------------- MODULE GetBlockProofs ----------------------------
(***************************************************************************)
(* The WP-1's and LW-30's deblocker for all tracks, sectors and contents:  *)
(* its types, the block it is asked for, the data it acknowledged, and     *)
(* that it is a record store while nothing fails.                          *)
(*                                                                         *)
(* Mode 2 is what the invariant is about: without it every call that gets  *)
(* to the transfer has the right label on the buffer, with it the label    *)
(* may be an old one, or none.                                             *)
(***************************************************************************)
EXTENDS GetBlock, TLAPS

Result == [status : {"none", "ok", "error"}, data : Data \cup {NoData}]

\* What the buffer is known to be in each place, whatever fails.
Labelled ==
  "mode 2" \notin env =>
    /\ req # NoReq => req.mode # 2
    /\ pc = "transfer" => cur = BlockOf(req)
    /\ dirty => cur \in Block

\* What is known of the blocks that are still promised: a clean buffer is a copy of
\* its block, and a record about to be copied is one of the block it was asked in.
Promised ==
  /\ RecordsKept
  /\ ~dirty /\ cur \in DOMAIN kept => buf = disk[cur]
  /\ pc = "transfer" =>
       cur = BlockOf(req) \/ (cur \notin DOMAIN kept /\ BlockOf(req) \notin DOMAIN kept)
  /\ Sound => DOMAIN kept = Block

BlockInv ==
  /\ TypeOK
  /\ (pc = "idle") <=> (req = NoReq)
  /\ Labelled
  /\ Promised

-----------------------------------------------------------------------------
\* getblock's arithmetic never gives the number that stands for "no block".
LEMMA BlockNumbers == NoBlock \notin Block
<1> DEFINE N(a) == a[1] * 12 + a[2] \div 2
<1>1. ASSUME NEW a \in CpmAddress
      PROVE  N(a) <= 936
  <2>1. a[1] \in 0..77 /\ a[2] \in 0..23
    BY RequestAssumption
  <2>2. a[2] \div 2 \in Int /\ a[2] \div 2 <= 11
    BY <2>1
  <2> QED
    BY <2>1, <2>2
<1>2. ~(NoBlock <= 936)
  BY DEF NoBlock
<1>3. Block = {N(a) : a \in CpmAddress}
  BY DEF Block, BlockOf
<1> HIDE DEF N
<1>4. \A b \in Block : b <= 936
  BY <1>1, <1>3
<1> QED
  BY <1>2, <1>4

\* A call is for a block and one of its two records, and no call is none.
LEMMA CallFields ==
  ASSUME NEW q \in Calls
  PROVE  /\ q # NoReq /\ q.op \in {"read", "write"} /\ q.mode \in 0..2
         /\ BlockOf(q) \in Block /\ BlockOf(q) # NoBlock
         /\ RecordOf(q) \in Slot /\ q.data \in Data
         /\ q.op = "read" => q.mode = 0
<1>1. /\ q.op \in {"read", "write"} /\ q.mode \in 0..2 /\ q.data \in Data
      /\ q.at \in CpmAddress /\ (q.op = "read" => q.mode = 0)
  BY DEF Calls, Request
<1>2. q # NoReq
  BY <1>1 DEF NoReq
<1>3. BlockOf(q) = BlockOf([at |-> q.at])
  BY DEF BlockOf
<1>4. BlockOf(q) \in Block
  BY <1>1, <1>3 DEF Block
<1>5. RecordOf(q) \in Slot
  <2>1. q.at[2] \in Int
    BY <1>1, RequestAssumption
  <2> QED
    BY <2>1 DEF RecordOf, Slot
<1> QED
  BY <1>1, <1>2, <1>4, <1>5, BlockNumbers

\* How a call ends.
LEMMA Returns ==
  /\ Error \in Result
  /\ \A d \in Data \cup {NoData} : Ok(d) \in Result
  /\ NoResult \in Result
BY DEF Error, Ok, NoResult, Result

\* What a flush leaves on the medium.
LEMMA Flushed ==
  ASSUME TypeOK, NEW c \in [Slot -> Data], FlushOk(c) \/ FlushFails(c)
  PROVE  /\ disk' \in [Block -> [Slot -> Data]] /\ dirty' \in BOOLEAN
         /\ FlushOk(c) => cur \in Block /\ disk'[cur] = c /\ ~dirty'
BY DEF TypeOK, FlushOk, FlushFails

\* What Forget and Acknowledge leave in the history.
LEMMA Promises ==
  ASSUME TypeOK
  PROVE  /\ \A B : Forget(B) => /\ DOMAIN kept' = DOMAIN kept \ B
                              /\ kept' \in [DOMAIN kept' -> [Slot -> Data]]
                              /\ \A b \in DOMAIN kept' : kept'[b] = kept[b]
         /\ Acknowledge /\ req \in Calls
              => /\ DOMAIN kept' = DOMAIN kept
                 /\ kept' \in [DOMAIN kept' -> [Slot -> Data]]
                 /\ \A b \in DOMAIN kept : b # BlockOf(req) => kept'[b] = kept[b]
                 /\ BlockOf(req) \in DOMAIN kept
                      => kept'[BlockOf(req)] = [kept[BlockOf(req)] EXCEPT ![RecordOf(req)] = req.data]
<1>1. ASSUME NEW B, Forget(B)
      PROVE  /\ DOMAIN kept' = DOMAIN kept \ B
             /\ kept' \in [DOMAIN kept' -> [Slot -> Data]]
             /\ \A b \in DOMAIN kept' : kept'[b] = kept[b]
  BY <1>1 DEF Forget, TypeOK
<1>2. ASSUME Acknowledge, req \in Calls
      PROVE  /\ DOMAIN kept' = DOMAIN kept
             /\ kept' \in [DOMAIN kept' -> [Slot -> Data]]
             /\ \A b \in DOMAIN kept : b # BlockOf(req) => kept'[b] = kept[b]
             /\ BlockOf(req) \in DOMAIN kept
                  => kept'[BlockOf(req)] = [kept[BlockOf(req)] EXCEPT ![RecordOf(req)] = req.data]
  <2>1. RecordOf(req) \in Slot /\ req.data \in Data
    BY <1>2, CallFields
  <2> QED
    BY <1>2, <2>1 DEF Acknowledge, TypeOK
<1> QED
  BY <1>1, <1>2

\* Each step keeps the types, and the label where there is no mode 2.
LEMMA TypesStep ==
  ASSUME BlockInv, [Next]_vars
  PROVE  TypeOK' /\ ((pc = "idle") <=> (req = NoReq))' /\ Labelled'
<1> USE DEF BlockInv, TypeOK, Labelled
<1>1. ASSUME NEW q \in Calls, Call(q) PROVE TypeOK' /\ ((pc = "idle") <=> (req = NoReq))' /\ Labelled'
  BY <1>1, CallFields, Returns DEF Call, Result
<1>2. CASE GetHit
  BY <1>2 DEF GetHit
<1>3. CASE GetMiss
  <2>1. CASE dirty
    BY <1>3, <2>1, Flushed DEF GetMiss, FlushOk
  <2>2. CASE ~dirty
    BY <1>3, <2>2 DEF GetMiss
  <2> QED
    BY <2>1, <2>2
<1>4. CASE GetFlushFails
  <2>1. disk' \in [Block -> [Slot -> Data]] /\ dirty'
    BY <1>4, Flushed DEF GetFlushFails, FlushFails
  <2> QED
    BY <1>4, <2>1, Returns DEF GetFlushFails, Return, Result
<1>5. CASE FillSkipped
  BY <1>5, Promises DEF FillSkipped
<1>6. CASE FillRead
  <2>1. req \in Calls /\ BlockOf(req) \in Block
    BY <1>6, CallFields DEF FillRead
  <2> QED
    BY <1>6, <2>1 DEF FillRead
<1>7. CASE FillFails
  <2>1. req \in Calls /\ BlockOf(req) \in Block
    BY <1>7, CallFields DEF FillFails
  <2>2. buf' \in [Slot -> Data] /\ env' = env
    BY <1>7, <2>1 DEF FillFails
  <2>3. pc' = "idle" /\ req' = NoReq /\ res' \in Result /\ UNCHANGED <<machine, disk, cur, dirty>>
    BY <1>7, Returns DEF FillFails, Return
  <2>4. DOMAIN kept' \subseteq Block /\ kept' \in [DOMAIN kept' -> [Slot -> Data]]
    BY <1>7, Promises DEF FillFails
  <2> QED
    BY <2>2, <2>3, <2>4 DEF Result
<1>8. CASE FillFailsUnseen
  <2>1. req \in Calls /\ BlockOf(req) \in Block
    BY <1>8, CallFields DEF FillFailsUnseen
  <2> QED
    BY <1>8, <2>1, Promises DEF FillFailsUnseen
<1>9. CASE TransferRead
  <2>1. req \in Calls /\ buf[RecordOf(req)] \in Data
    BY <1>9, CallFields DEF TransferRead
  <2> QED
    BY <1>9, <2>1, Returns DEF TransferRead, Return, Result
<1>10. CASE TransferWrite
  <2>1. req \in Calls /\ BlockOf(req) \in Block /\ buf' \in [Slot -> Data]
    BY <1>10, CallFields DEF TransferWrite
  <2>2. /\ pc' = "idle" /\ req' = NoReq /\ res' \in Result
        /\ UNCHANGED <<machine, env, cur>>
        /\ DOMAIN kept' \subseteq Block /\ kept' \in [DOMAIN kept' -> [Slot -> Data]]
    BY <1>10, <2>1, Returns, Promises DEF TransferWrite, Return
  <2>3. CASE req.mode # 1 /\ dirty' = TRUE /\ UNCHANGED disk
    BY <1>10, <2>1, <2>2, <2>3 DEF TransferWrite, Result
  <2>4. CASE FlushOk(buf')
    BY <1>10, <2>1, <2>2, <2>4, Flushed DEF TransferWrite, Result
  <2>5. CASE FlushFails(buf')
    <3>1. disk' \in [Block -> [Slot -> Data]] /\ dirty' = TRUE
      BY <2>1, <2>5, Flushed DEF FlushFails
    <3> QED
      BY <1>10, <2>1, <2>2, <3>1 DEF TransferWrite, Result
  <2> QED
    BY <1>10, <2>3, <2>4, <2>5 DEF TransferWrite
<1>11. CASE PowerCycle
  BY <1>11, BlockNumbers, DataAssumption, Returns DEF PowerCycle, Result
<1>12. CASE UNCHANGED vars
  BY <1>12 DEF vars
<1> QED
  BY <1>1, <1>2, <1>3, <1>4, <1>5, <1>6, <1>7, <1>8, <1>9, <1>10, <1>11, <1>12 DEF Next

\* What a flush, successful or not, leaves for later calls to find.
LEMMA FlushKeeps ==
  ASSUME TypeOK, NEW c \in [Slot -> Data], FlushOk(c) \/ FlushFails(c)
  PROVE  /\ \A b \in Block : b # cur => disk'[b] = disk[b]
         /\ ~dirty' => cur \in Block /\ disk'[cur] = c
<1>1. CASE FlushOk(c)
  BY <1>1, Flushed DEF FlushOk, TypeOK
<1>2. CASE FlushFails(c)
  BY <1>2 DEF FlushFails, TypeOK
<1> QED
  BY <1>1, <1>2

\* Each step keeps the promises.
LEMMA PromisedStep ==
  ASSUME BlockInv, [Next]_vars
  PROVE  Promised'
<1> USE DEF Promised, RecordsKept
<1>0. TypeOK /\ TypeOK' /\ Promised /\ NoBlock \notin Block
  BY TypesStep, BlockNumbers DEF BlockInv
<1>1. ASSUME pc # "idle"
      PROVE  req \in Calls /\ BlockOf(req) \in Block
  BY <1>1, CallFields DEF BlockInv, TypeOK
<1>2. ASSUME UNCHANGED <<env, disk, buf, cur, dirty, kept>>,
             pc' = "transfer" => (pc = "transfer" \/ cur = BlockOf(req)) /\ req' = req
      PROVE  Promised'
  BY <1>0, <1>2 DEF Store, Sound, BlockOf
<1>3. ASSUME NEW c, c = buf, FlushOk(c) \/ FlushFails(c), UNCHANGED <<env, buf, cur, kept>>,
             pc' # "transfer"
      PROVE  Promised'
  <2>1. /\ \A b \in Block : b # cur => disk'[b] = disk[b]
        /\ ~dirty' => cur \in Block /\ disk'[cur] = buf
    BY <1>0, <1>3, FlushKeeps DEF TypeOK
  <2>2. \A b \in Block : Store'[b] = Store[b]
    BY <1>3, <2>1 DEF Store
  <2> QED
    BY <1>0, <1>3, <2>1, <2>2 DEF Sound, TypeOK
<1>4. ASSUME NEW q \in Calls, Call(q) PROVE Promised'
  BY <1>2, <1>4 DEF Call
<1>5. CASE GetHit
  BY <1>2, <1>5 DEF GetHit
<1>6. CASE GetMiss
  <2>1. CASE dirty
    BY <1>3, <1>6, <2>1 DEF GetMiss
  <2>2. CASE ~dirty
    BY <1>2, <1>6, <2>2 DEF GetMiss
  <2> QED
    BY <2>1, <2>2
<1>7. CASE GetFlushFails
  BY <1>3, <1>7 DEF GetFlushFails, Return
<1>8. CASE FillSkipped
  <2>1. /\ DOMAIN kept' = DOMAIN kept \ {cur, BlockOf(req)}
        /\ \A b \in DOMAIN kept' : kept'[b] = kept[b]
    BY <1>0, <1>8, Promises DEF FillSkipped
  <2>2. UNCHANGED <<env, disk, buf, cur, dirty, req>> /\ Store' = Store /\ ~Sound'
    BY <1>8 DEF FillSkipped, Store, Sound, BlockInv, Labelled
  <2> QED
    BY <1>0, <2>1, <2>2 DEF TypeOK, BlockOf
<1>9. CASE FillRead
  <2>1. /\ ~dirty /\ BlockOf(req) \in Block /\ buf' = disk[BlockOf(req)] /\ cur' = BlockOf(req)
        /\ UNCHANGED <<env, disk, dirty, req, kept>>
    BY <1>0, <1>1, <1>9 DEF FillRead, TypeOK
  <2>2. \A b \in DOMAIN kept : b \in Block /\ Store'[b] = disk[b] /\ Store[b] = disk[b]
    BY <1>0, <2>1 DEF Store, TypeOK
  <2> QED
    BY <1>0, <2>1, <2>2 DEF Sound, BlockOf
<1>10. CASE FillFails
  <2>1. /\ DOMAIN kept' = DOMAIN kept \ {cur}
        /\ \A b \in DOMAIN kept' : kept'[b] = kept[b]
    BY <1>0, <1>10, Promises DEF FillFails
  <2>2. UNCHANGED <<env, disk, cur, dirty>> /\ pc' # "transfer" /\ ~Sound'
    BY <1>10 DEF FillFails, Return, Sound
  <2>3. \A b \in DOMAIN kept' : b \in Block /\ Store'[b] = Store[b]
    BY <1>0, <2>1, <2>2 DEF Store, TypeOK
  <2> QED
    BY <1>0, <2>1, <2>2, <2>3
<1>11. CASE FillFailsUnseen
  <2>1. /\ DOMAIN kept' = DOMAIN kept \ {BlockOf(req)}
        /\ \A b \in DOMAIN kept' : kept'[b] = kept[b]
    BY <1>0, <1>11, Promises DEF FillFailsUnseen
  <2>2. ~dirty /\ UNCHANGED <<env, disk, dirty, req>> /\ cur' = BlockOf(req) /\ ~Sound'
    BY <1>0, <1>11 DEF FillFailsUnseen, Sound, TypeOK
  <2>3. \A b \in DOMAIN kept' : b \in Block /\ Store'[b] = disk[b] /\ Store[b] = disk[b]
    BY <1>0, <2>1, <2>2 DEF Store, TypeOK
  <2> QED
    BY <1>0, <2>1, <2>2, <2>3 DEF BlockOf
<1>12. CASE TransferRead
  BY <1>2, <1>12 DEF TransferRead, Return
<1>13. CASE TransferWrite
  <2> DEFINE at == BlockOf(req)
  <2>1. /\ req \in Calls /\ at \in Block
        /\ buf' = [buf EXCEPT ![RecordOf(req)] = req.data] /\ buf' \in [Slot -> Data]
        /\ UNCHANGED <<env, cur>> /\ pc' # "transfer"
    BY <1>0, <1>1, <1>13, CallFields DEF TransferWrite, Return, TypeOK
  <2>2. /\ DOMAIN kept' = DOMAIN kept
        /\ \A b \in DOMAIN kept : b # at => kept'[b] = kept[b]
        /\ at \in DOMAIN kept => kept'[at] = [kept[at] EXCEPT ![RecordOf(req)] = req.data]
    BY <1>0, <1>13, <2>1, Promises DEF TransferWrite
  <2>3. /\ \A b \in Block : b # cur => disk'[b] = disk[b]
        /\ ~dirty' => cur \in Block /\ disk'[cur] = buf'
    <3>1. CASE req.mode # 1
      BY <1>13, <3>1 DEF TransferWrite
    <3>2. CASE req.mode = 1
      BY <1>0, <1>13, <2>1, <3>2, FlushKeeps DEF TransferWrite
    <3> QED
      BY <3>1, <3>2
  <2>4. cur = at \/ (cur \notin DOMAIN kept /\ at \notin DOMAIN kept)
    BY <1>0, <1>13 DEF TransferWrite
  <2> HIDE DEF at
  <2>5. ASSUME NEW b \in DOMAIN kept PROVE Store'[b] = kept'[b]
    <3>1. b \in Block /\ Store[b] = kept[b]
      BY <1>0 DEF TypeOK
    <3>2. CASE b = cur
      BY <2>1, <2>2, <2>4, <3>1, <3>2 DEF Store
    <3>3. CASE b # cur
      BY <2>1, <2>2, <2>3, <2>4, <3>1, <3>3 DEF Store
    <3> QED
      BY <3>2, <3>3
  <2> QED
    BY <1>0, <2>1, <2>2, <2>3, <2>5 DEF Sound
<1>14. CASE PowerCycle
  <2>1. cur' = NoBlock /\ disk' = disk /\ kept' = disk /\ pc' # "transfer" /\ DOMAIN disk = Block
    BY <1>0, <1>14 DEF PowerCycle, TypeOK
  <2> QED
    BY <1>0, <2>1 DEF Store
<1>15. CASE UNCHANGED vars
  BY <1>2, <1>15 DEF vars
<1> QED
  BY <1>4, <1>5, <1>6, <1>7, <1>8, <1>9, <1>10, <1>11, <1>12, <1>13, <1>14, <1>15 DEF Next

\* The invariant holds throughout.
LEMMA BlockInvariant == Spec => []BlockInv
<1>1. Init => BlockInv
  <2> SUFFICES ASSUME Init PROVE BlockInv
    OBVIOUS
  <2>1. disk \in [Block -> [Slot -> Data]] /\ buf \in [Slot -> Data]
    BY DataAssumption DEF Init
  <2>2. Promised
    BY <2>1, BlockNumbers DEF Init, Promised, RecordsKept, Store
  <2> QED
    BY <2>1, <2>2, BlockNumbers, Returns DEF Init, BlockInv, TypeOK, Labelled, Result
<1>2. BlockInv /\ [Next]_vars => BlockInv'
  BY TypesStep, PromisedStep DEF BlockInv
<1> QED
  BY <1>1, <1>2, PTL DEF Spec

-----------------------------------------------------------------------------
\* The variables keep their types, and the buffer is clean when a block is read
\* over it, whatever the ROM's transfers do.
THEOREM BlockTypes == Spec => []TypeOK
<1>1. BlockInv => TypeOK
  BY DEF BlockInv
<1> QED
  BY <1>1, BlockInvariant, PTL

\* Without mode 2 getblock returns the block it was asked for: no failed read or
\* write leaves another one's label on the buffer.
THEOREM BlockHeld == Spec => []BufferHoldsTheBlock
<1>1. BlockInv => BufferHoldsTheBlock
  BY DEF BlockInv, Labelled, BufferHoldsTheBlock, GetblockReturnsItsBlock
<1> QED
  BY <1>1, BlockInvariant, PTL

\* Whatever fails, an acknowledged record stays where a read finds it, in each block
\* that no failed read or misplaced record has touched; and a mode 1 write that
\* reports success is on the medium, in the situations WriteThroughIsDurable names.
THEOREM AcknowledgedKept == Spec => AcknowledgedDataKept
<1>1. BlockInv => RecordsKept
  BY DEF BlockInv, Promised
<1>3. BlockInv /\ [Next]_vars =>
        [pc = "transfer" /\ req.op = "read" /\ res'.status = "ok" /\ BlockOf(req) \in DOMAIN kept
           => res'.data = kept[BlockOf(req)][RecordOf(req)]]_vars
  <2> SUFFICES ASSUME BlockInv, Next, pc = "transfer", req.op = "read", res'.status = "ok",
                      BlockOf(req) \in DOMAIN kept
               PROVE  res'.data = kept[BlockOf(req)][RecordOf(req)]
    OBVIOUS
  <2>1. ~PowerCycle
    BY DEF PowerCycle, NoResult
  <2>2. TransferRead
    BY <2>1 DEF Next, Call, GetHit, GetMiss, GetFlushFails, FillSkipped, FillRead, FillFails,
                FillFailsUnseen, TransferWrite
  <2>3. cur = BlockOf(req) /\ cur \in Block /\ Store[cur] = kept[cur]
    BY DEF BlockInv, TypeOK, Promised, RecordsKept
  <2>4. buf = kept[cur]
    BY <2>3 DEF Store
  <2> QED
    BY <2>2, <2>3, <2>4 DEF TransferRead, Return, Ok
<1>2. BlockInv /\ [Next]_vars =>
        [{"write fails", "mode 2"} \cap env = {}
           /\ pc = "transfer" /\ req.mode = 1 /\ res'.status = "ok"
           => disk'[BlockOf(req)][RecordOf(req)] = req.data]_vars
  <2> DEFINE Quiet == {"write fails", "mode 2"} \cap env = {}
  <2> SUFFICES ASSUME BlockInv, Next, Quiet, pc = "transfer", req.mode = 1, res'.status = "ok"
               PROVE  disk'[BlockOf(req)][RecordOf(req)] = req.data
    OBVIOUS
  <2>0. "write fails" \notin env /\ "mode 2" \notin env
    OBVIOUS
  <2> HIDE DEF Quiet
  <2>1. TypeOK /\ req \in Calls /\ cur = BlockOf(req)
    BY <2>0 DEF BlockInv, TypeOK, Labelled
  <2>2. cur \in Block /\ cur # NoBlock /\ req.op = "write" /\ RecordOf(req) \in Slot
    BY <2>1, CallFields
  <2>3. ~PowerCycle
    BY DEF PowerCycle, NoResult
  <2>4. TransferWrite
    BY <2>2, <2>3 DEF Next, Call, GetHit, GetMiss, GetFlushFails, FillSkipped, FillRead, FillFails,
                      FillFailsUnseen, TransferRead
  <2>5. FlushOk(buf') /\ buf' = [buf EXCEPT ![RecordOf(req)] = req.data]
    BY <2>0, <2>2, <2>4 DEF TransferWrite, FlushFails
  <2>6. buf' \in [Slot -> Data] /\ buf'[RecordOf(req)] = req.data
    BY <2>1, <2>2, <2>5, CallFields DEF TypeOK
  <2>7. disk'[cur] = buf'
    BY <2>1, <2>5, <2>6, Flushed
  <2> QED
    BY <2>1, <2>6, <2>7
<1> QED
  BY <1>1, <1>2, <1>3, BlockInvariant, PTL
     DEF Spec, AcknowledgedDataKept, ReadsReturnThem, WriteThroughIsDurable

-----------------------------------------------------------------------------
\* A request as RecordStore sees it.
LEMMA AbstractedFields ==
  ASSUME NEW q \in Calls
  PROVE  /\ Abstracted(q) # Records!NoReq
         /\ Abstracted(q) \in Records!Request
         /\ Abstracted(q).op = q.op /\ Abstracted(q).slot = RecordOf(q)
         /\ Abstracted(q).data = q.data /\ Abstracted(q).mode = q.mode
         /\ Abstracted(q).at = BlockOf(q)
<1>1. Abstracted(q) = [op |-> q.op, at |-> BlockOf(q), slot |-> RecordOf(q),
                       data |-> q.data, mode |-> q.mode]
  BY CallFields DEF Abstracted
<1>2. Abstracted(q) \in Records!Request
  BY <1>1, CallFields DEF Records!Request
<1> QED
  BY <1>1, <1>2, CallFields DEF Records!NoReq

\* No call in progress is none for the record store either.
LEMMA AbstractedIdle == Abstracted(NoReq) = Records!NoReq
BY DEF Abstracted, NoReq, Records!NoReq

\* While nothing fails, each step is one of the record store or changes nothing there.
LEMMA BlockRefines ==
  ASSUME BlockInv, BlockInv', Sound, Next
  PROVE  [Records!Next]_(Records!vars)
<1>0. /\ "mode 2" \notin env /\ "read fails" \notin env /\ "write fails" \notin env
      /\ TypeOK /\ TypeOK' /\ NoBlock \notin Block
  BY BlockNumbers DEF Sound, BlockInv
<1>1. ASSUME NEW q \in Calls, Call(q) PROVE Records!Next
  <2>1. req = NoReq /\ req' = q /\ res' = Records!NoResult
    BY <1>1 DEF Call, BlockInv, NoResult, Records!NoResult
  <2>2. Abstracted(req) = Records!NoReq /\ Abstracted(req)' = Abstracted(q)
    BY <2>1, AbstractedIdle DEF Abstracted
  <2>3. UNCHANGED <<Store, disk>>
    BY <1>1 DEF Call, Store
  <2>4. Records!Call(Abstracted(q))
    BY <2>1, <2>2, <2>3 DEF Records!Call
  <2> QED
    BY <2>4, AbstractedFields DEF Records!Next
<1>2. ASSUME pc # "idle"
      PROVE  /\ req \in Calls /\ req # NoReq /\ req.mode # 2 /\ BlockOf(req) \in Block
             /\ RecordOf(req) \in Slot
             /\ Abstracted(req) # Records!NoReq
             /\ Abstracted(req).op = req.op /\ Abstracted(req).slot = RecordOf(req)
             /\ Abstracted(req).data = req.data /\ Abstracted(req).mode = req.mode
             /\ Abstracted(req).at = BlockOf(req)
  <2>1. req \in Calls /\ req # NoReq /\ req.mode # 2
    BY <1>0, <1>2 DEF BlockInv, TypeOK, Labelled
  <2> QED
    BY <2>1, CallFields, AbstractedFields
<1>3. ASSUME NEW r, Return(r)
      PROVE  Records!Return(r)
  BY <1>3, AbstractedIdle DEF Return, Records!Return, Abstracted
<1>4. CASE GetHit
  BY <1>4 DEF GetHit, Records!vars, Store, Abstracted, BlockOf, RecordOf
<1>5. CASE GetMiss
  <2>1. Abstracted(req)' = Abstracted(req) /\ UNCHANGED <<res, cur, buf>>
    BY <1>5 DEF GetMiss, Abstracted, BlockOf, RecordOf
  <2>2. CASE ~dirty
    BY <1>5, <2>1, <2>2 DEF GetMiss, Records!vars, Store
  <2>3. CASE dirty
    <3>1. cur \in Block /\ disk' = [disk EXCEPT ![cur] = buf]
      BY <1>0, <1>5, <2>3 DEF GetMiss, FlushOk, TypeOK
    <3>2. Store' = Store /\ Store[cur] = buf
      BY <1>0, <2>1, <3>1 DEF Store, TypeOK
    <3>3. Records!Sync(cur)
      BY <2>1, <3>1, <3>2 DEF Records!Sync, Store
    <3> QED
      BY <3>1, <3>3 DEF Records!Next
  <2> QED
    BY <2>2, <2>3
<1>6. ~GetFlushFails
  BY <1>0 DEF GetFlushFails, FlushFails, BlockInv, Labelled
<1>7. ~FillSkipped /\ ~FillFails /\ ~FillFailsUnseen
  BY <1>0, <1>2 DEF FillSkipped, FillFails, FillFailsUnseen
<1>8. CASE FillRead
  <2>1. /\ ~dirty /\ BlockOf(req) \in Block /\ disk' = disk /\ buf' = disk[BlockOf(req)]
        /\ cur' = BlockOf(req)
    BY <1>0, <1>2, <1>8 DEF FillRead, TypeOK
  <2>2. Store = disk
    BY <1>0, <2>1 DEF Store, TypeOK, BlockInv, Promised
  <2>3. Store' = disk
    BY <1>0, <2>1 DEF Store, TypeOK
  <2>4. Abstracted(req)' = Abstracted(req) /\ res' = res
    BY <1>8 DEF FillRead, Abstracted, BlockOf, RecordOf
  <2> QED
    BY <2>1, <2>2, <2>3, <2>4 DEF Records!vars, Store
<1>9. CASE TransferRead
  <2>1. cur = BlockOf(req) /\ cur \in Block /\ Store[cur] = buf
    BY <1>0, <1>2, <1>9 DEF TransferRead, BlockInv, Labelled, Store
  <2>2. Records!Return(Records!Ok(buf[RecordOf(req)]))
    BY <1>3, <1>9 DEF TransferRead, Ok, Records!Ok
  <2>3. Records!ReadOk
    BY <1>2, <1>9, <2>1, <2>2 DEF TransferRead, Records!ReadOk, Store
  <2> QED
    BY <2>3 DEF Records!Next
<1>10. CASE TransferWrite
  <2>1. cur = BlockOf(req) /\ cur \in Block /\ Store[cur] = buf
    BY <1>0, <1>2, <1>10 DEF TransferWrite, BlockInv, Labelled, Store
  <2>2. /\ buf' = [buf EXCEPT ![RecordOf(req)] = req.data] /\ cur' = cur
        /\ disk' = IF req.mode = 1 THEN [disk EXCEPT ![cur] = buf'] ELSE disk
    BY <1>0, <1>10, <2>1 DEF TransferWrite, FlushOk, FlushFails
  <2>3. Store' = [Store EXCEPT ![BlockOf(req)] = [@ EXCEPT ![RecordOf(req)] = req.data]]
    BY <1>0, <2>1, <2>2 DEF Store, TypeOK
  <2>4. Store'[BlockOf(req)] = buf'
    BY <2>1, <2>2 DEF Store
  <2>5. Records!Return(Records!Ok(NoData))
    BY <1>3, <1>10 DEF TransferWrite, Ok, Records!Ok
  <2>6. Records!WriteOk
    BY <1>2, <1>10, <2>1, <2>2, <2>3, <2>4, <2>5
       DEF TransferWrite, Records!WriteOk, Records!Applied, Store
  <2> QED
    BY <2>6 DEF Records!Next
<1>11. CASE PowerCycle
  <2>1. NoBlock \notin Block /\ disk \in [Block -> [Slot -> Data]]
    BY <1>0 DEF TypeOK
  <2>4. Store' = disk /\ disk' = disk
    BY <1>11, <2>1 DEF PowerCycle, Store
  <2>2. Abstracted(req)' = Records!NoReq /\ res' = Records!NoResult
    BY <1>11, AbstractedIdle DEF PowerCycle, Abstracted, NoResult, Records!NoResult
  <2>3. Records!PowerCycle
    BY <2>2, <2>4 DEF Records!PowerCycle, Store
  <2> QED
    BY <2>3 DEF Records!Next
<1> QED
  BY <1>1, <1>4, <1>5, <1>6, <1>7, <1>8, <1>9, <1>10, <1>11 DEF Next

\* Both copies are a record store when the BDOS allocates no block and the ROM's
\* transfers work: what is read is what was last written, across write-backs and
\* power cycles.  For all tracks, sectors and contents.
THEOREM BlockStore == Spec => ImplementsRecordStore
<1>1. Init => Records!Init
  <2> SUFFICES ASSUME Init PROVE Records!Init
    OBVIOUS
  <2>1. Store = disk /\ disk \in [Block -> [Slot -> Data]]
    BY BlockNumbers, DataAssumption DEF Init, Store
  <2> QED
    BY <2>1, AbstractedIdle
       DEF Init, Records!Init, Records!Block, Store, NoResult, Records!NoResult
<1>2. BlockInv /\ BlockInv' /\ [Next]_vars =>
        [Sound => [Records!Next]_(Records!vars)]_vars
  BY BlockRefines
<1> QED
  BY <1>1, <1>2, BlockInvariant, PTL DEF Spec, ImplementsRecordStore
===============================================================================
