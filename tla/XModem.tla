-------------------------------- MODULE XModem --------------------------------
(***************************************************************************)
(* A file sent with xmodem_send and received with xmodem_receive, both of  *)
(* nano-z80/tools/nanoterm.c, over a serial line.  Bytes are numbers below *)
(* Bytes (256 in the code), so that the complement, the checksum and the   *)
(* block number are those of the code.  toRx and toTx are the bytes under  *)
(* way; a packet is put on the line in one step, since the sender looks at *)
(* nothing while it sends.  What may go wrong is chosen once, in "trouble":*)
(*   "slow"   the receiver's wait for a header ends while an answer or a   *)
(*            packet is still under way (a sender reading its disk)        *)
(*   "noise"  a byte of a packet is lost or garbled                        *)
(*   "answer" an answer is lost                                            *)
(*   "full"   the receiver's disk does not take a block                    *)
(*   "key"    somebody presses a key                                       *)
(***************************************************************************)
EXTENDS Integers, Sequences, SequencesExt

CONSTANTS
  Bytes,                     \* size of a byte, a power of two
  SOH, EOT, ACK, NAK, CAN,   \* the control bytes
  DataLen,                   \* data bytes of a packet: 128
  NakLimit,                  \* 11
  SentFiles,                 \* the files to send: sequences of blocks
  Troubles,                  \* sets of troubles to consider
  Garbage,                   \* what a byte is garbled into
  UartDepth,                 \* bytes the sender's UART keeps
  LineDepth,                 \* packets under way are no longer than this
  MaxFaults                  \* bytes lost or garbled

Byte    == 0..Bytes - 1
Control == {SOH, EOT, ACK, NAK, CAN}
Zeroes  == [i \in 1..DataLen |-> 0]

ASSUME XmByteAssumption == Bytes \in Nat /\ Bytes > 1 /\ Control \subseteq Byte
\* They are told apart where they are read.
ASSUME XmControlAssumption == SOH \notin {EOT, CAN} /\ EOT # CAN /\ ACK # NAK
ASSUME XmSizeAssumption ==
  /\ DataLen \in Nat \ {0} /\ NakLimit \in Nat \ {0}
  /\ UartDepth \in Nat \ {0} /\ LineDepth \in Nat /\ MaxFaults \in Nat
ASSUME XmFileAssumption ==
  /\ \A f \in SentFiles : Len(f) < Bytes
  /\ \A f \in SentFiles : f \in Seq([1..DataLen -> Byte])
ASSUME XmTroubleAssumption ==
  Garbage \subseteq Byte /\ \A t \in Troubles : t \subseteq {"slow", "noise", "answer", "full", "key"}

VARIABLES trouble, sent, dirSlot,  \* never change
          toRx, toTx,              \* bytes under way
          tx,                      \* xmodem_send
          rx,                      \* xmodem_receive
          got,                     \* the receiver's file
          faults                   \* bytes lost or garbled so far

xmVars == <<trouble, sent, dirSlot, toRx, toTx, tx, rx, got, faults>>

TxPlace == {"off", "open", "wait", "sent", "aborted", "refused"}
RxPlace == {"off", "start", "answer", "header", "number", "inverse", "data", "sum",
            "done", "cancelled", "closed"}
RxEnd   == {"done", "cancelled", "closed"}
TxEnd   == {"sent", "aborted", "refused"}

XmTypeOK ==
  /\ trouble \in Troubles \cup {{}} /\ sent \in SentFiles \cup {<<>>} /\ dirSlot \in 0..3
  /\ toRx \in Seq(Byte) /\ toTx \in Seq(Byte)
  /\ tx \in [pc : TxPlace, buf : [1..DataLen -> Byte], block : Byte,
             read : Nat, naks : 0..NakLimit]
  /\ rx \in [pc : RxPlace, outp : {ACK, NAK}, exp : Byte, cnt : Byte,
             inp : Byte, buf : Seq(Byte), sum : Byte]
  /\ Len(rx.buf) <= DataLen
  /\ got \in Seq([1..DataLen -> Byte])
  /\ faults \in 0..MaxFaults

XmNow(txAt, rxAt) ==
  /\ toRx = <<>> /\ toTx = <<>>
  /\ tx = [pc |-> txAt, buf |-> Zeroes, block |-> 1, read |-> 0, naks |-> 0]
  /\ rx = [pc |-> rxAt, outp |-> NAK, exp |-> 1, cnt |-> 0, inp |-> 0,
           buf |-> <<>>, sum |-> 0]
  /\ got = <<>>
  /\ faults = 0

XmStart ==
  /\ trouble \in Troubles
  /\ sent \in SentFiles /\ dirSlot \in 0..3
  /\ XmNow("open", "start")
XmOff ==
  /\ trouble = {} /\ sent = <<>> /\ dirSlot = 0
  /\ XmNow("off", "off")

Complement(b) == Bytes - 1 - b

Checksum(data) ==
  LET s[i \in 0..DataLen] == IF i = 0 THEN 0 ELSE (s[i-1] + data[i]) % Bytes
  IN  s[DataLen]

-----------------------------------------------------------------------------
(* xmodem_send *)

\* xmodem_send_block
Packet(block, data) ==
  <<SOH, block, Complement(block)>> \o data \o <<Checksum(data)>>

Room == Len(toRx) + DataLen + 5 <= LineDepth

\* Once the receiver has returned, its terminal shows what arrives.
Put(bytes) == toRx' = IF rx.pc \in RxEnd THEN <<>> ELSE toRx \o bytes

\* cpm_read_sequential into xmodem_buffer: at the end of the file the buffer
\* keeps what it has.
ReadInto(n) == IF n < Len(sent) THEN sent[n + 1] ELSE tx.buf

\* cpm_open_file returns 0 to 3, the entry's place in its directory record;
\* anything but 0 is taken for an error.
TxOpen ==
  /\ tx.pc = "open"
  /\ IF dirSlot = 0
     THEN tx' = [tx EXCEPT !.pc = "wait", !.buf = ReadInto(0), !.read = 1]
     ELSE tx' = [tx EXCEPT !.pc = "refused"]
  /\ UNCHANGED <<trouble, sent, dirSlot, toRx, toTx, rx, got, faults>>

TxNak ==
  /\ tx.pc = "wait" /\ toTx # <<>> /\ Head(toTx) = NAK /\ Room
  /\ toTx' = Tail(toTx)
  /\ IF tx.naks + 1 = NakLimit
     THEN /\ Put(Packet(tx.block, tx.buf) \o <<CAN>>)
          /\ tx' = [tx EXCEPT !.naks = NakLimit, !.pc = "aborted"]
     ELSE /\ Put(Packet(tx.block, tx.buf))
          /\ tx' = [tx EXCEPT !.naks = @ + 1]
  /\ UNCHANGED <<trouble, sent, dirSlot, rx, got, faults>>

TxAck ==
  /\ tx.pc = "wait" /\ toTx # <<>> /\ Head(toTx) = ACK /\ Room
  /\ toTx' = Tail(toTx)
  /\ IF tx.read >= Len(sent)
     THEN /\ Put(<<EOT>>)
          /\ tx' = [tx EXCEPT !.pc = "sent"]
     ELSE LET n == (tx.block + 1) % Bytes
              d == ReadInto(tx.read)
          IN  /\ Put(Packet(n, d))
              /\ tx' = [tx EXCEPT !.block = n, !.buf = d, !.read = @ + 1]
  /\ UNCHANGED <<trouble, sent, dirSlot, rx, got, faults>>

TxOther ==
  /\ tx.pc = "wait" /\ toTx # <<>> /\ Head(toTx) \notin {ACK, NAK}
  /\ toTx' = Tail(toTx)
  /\ UNCHANGED <<trouble, sent, dirSlot, toRx, tx, rx, got, faults>>

TxKey ==
  /\ "key" \in trouble
  /\ tx.pc = "wait"
  /\ Put(<<CAN>>)
  /\ tx' = [tx EXCEPT !.pc = "aborted"]
  /\ UNCHANGED <<trouble, sent, dirSlot, toTx, rx, got, faults>>

-----------------------------------------------------------------------------
(* xmodem_receive *)

Answered(b) == IF Len(toTx) < UartDepth THEN Append(toTx, b) ELSE toTx

\* The top of the loop: the last answer is sent again, whatever it was.
RxAnswer ==
  /\ rx.pc \in {"start", "answer"}
  /\ toTx' = Answered(rx.outp)
  /\ rx' = [rx EXCEPT !.pc = "header"]
  /\ UNCHANGED <<trouble, sent, dirSlot, toRx, tx, got, faults>>

\* getblockchar
Arrives(b) == toRx # <<>> /\ b = Head(toRx) /\ toRx' = Tail(toRx)
NothingComes == toRx = <<>> /\ toRx' = toRx

\* It gives up between packets, when the line is quiet or the sender slow; its answer
\* is then sent twice, and so is the packet.
HeaderTimesOut ==
  /\ "slow" \in trouble \/ (toRx = <<>> /\ (tx.pc \in TxEnd \/ (tx.pc = "wait" /\ toTx = <<>>)))
  /\ toRx' = toRx

RxHeader ==
  /\ rx.pc = "header"
  /\ \E b \in {toRx[i] : i \in 1..Len(toRx)} :
       /\ Arrives(b)
       /\ CASE b = EOT -> /\ rx' = [rx EXCEPT !.pc = "done", !.inp = b]
                          /\ toTx' = Answered(ACK)
            [] b = CAN -> /\ rx' = [rx EXCEPT !.pc = "cancelled", !.inp = b]
                          /\ UNCHANGED toTx
            [] b = SOH -> /\ rx' = [rx EXCEPT !.pc = "number", !.inp = b,
                                              !.outp = NAK, !.sum = 0]
                          /\ UNCHANGED toTx
            [] OTHER   -> /\ rx' = [rx EXCEPT !.pc = "answer", !.inp = b]
                          /\ UNCHANGED toTx
  /\ UNCHANGED <<trouble, sent, dirSlot, tx, got, faults>>

RxHeaderTimeout ==
  /\ rx.pc = "header"
  /\ HeaderTimesOut
  /\ Len(toTx) < UartDepth \/ tx.pc \in TxEnd   \* bound: more would be dropped
  /\ rx' = [rx EXCEPT !.pc = "answer"]
  /\ UNCHANGED <<trouble, sent, dirSlot, toTx, tx, got, faults>>

\* Mutant: the block number is only compared with its complement.
RxInverseAny ==
  /\ rx.pc = "inverse"
  /\ \E b \in Byte :
       /\ Arrives(b) \/ (NothingComes /\ b = rx.inp)
       /\ IF rx.cnt = Complement(b)
          THEN rx' = [rx EXCEPT !.pc = "data", !.inp = b, !.buf = <<>>]
          ELSE rx' = [rx EXCEPT !.pc = "answer", !.inp = b]
  /\ UNCHANGED <<trouble, sent, dirSlot, toTx, tx, got, faults>>

\* The two block numbers, then the data and the checksum.  A byte that does
\* not come leaves inp as it was.
RxNumber ==
  /\ rx.pc = "number"
  /\ \E b \in Byte :
       /\ Arrives(b) \/ (NothingComes /\ b = rx.inp)
       /\ rx' = [rx EXCEPT !.pc = "inverse", !.inp = b, !.cnt = b]
  /\ UNCHANGED <<trouble, sent, dirSlot, toTx, tx, got, faults>>

RxInverse ==
  /\ rx.pc = "inverse"
  /\ \E b \in Byte :
       /\ Arrives(b) \/ (NothingComes /\ b = rx.inp)
       /\ IF rx.cnt = Complement(b) /\ rx.cnt = rx.exp
          THEN rx' = [rx EXCEPT !.pc = "data", !.inp = b, !.buf = <<>>]
          ELSE rx' = [rx EXCEPT !.pc = "answer", !.inp = b]
  /\ UNCHANGED <<trouble, sent, dirSlot, toTx, tx, got, faults>>

RxData ==
  /\ rx.pc = "data"
  /\ \E b \in Byte :
       /\ Arrives(b) \/ (NothingComes /\ b = rx.inp)
       /\ rx' = [rx EXCEPT !.inp = b, !.buf = Append(@, b),
                           !.sum = (@ + b) % Bytes,
                           !.pc = IF Len(rx.buf) + 1 = DataLen THEN "sum" ELSE "data"]
  /\ UNCHANGED <<trouble, sent, dirSlot, toTx, tx, got, faults>>

\* Mutant: block_exp is left alone.
RxSumNoCount ==
  /\ rx.pc = "sum"
  /\ \E b \in Byte :
       /\ Arrives(b) \/ (NothingComes /\ b = rx.inp)
       /\ rx' = [rx EXCEPT !.pc = "answer", !.inp = b, !.buf = <<>>,
                           !.outp = IF rx.sum = b THEN ACK ELSE NAK]
       /\ got' = IF rx.sum = b THEN Append(got, rx.buf) ELSE got
  /\ UNCHANGED <<trouble, sent, dirSlot, toTx, tx, faults>>

\* The result of the write is not looked at, and block_exp moves on whether
\* the checksum was right or not.
RxSum ==
  /\ rx.pc = "sum"
  /\ \E b \in Byte :
       /\ Arrives(b) \/ (NothingComes /\ b = rx.inp)
       /\ rx' = [rx EXCEPT !.pc = "answer", !.inp = b, !.buf = <<>>,
                           !.exp = (@ + 1) % Bytes,
                           !.outp = IF rx.sum = b THEN ACK ELSE NAK]
       /\ \/ got' = IF rx.sum = b THEN Append(got, rx.buf) ELSE got
          \/ "full" \in trouble /\ got' = got
  /\ UNCHANGED <<trouble, sent, dirSlot, toTx, tx, faults>>

\* cpm_const at the end of the loop: the sender is not told.
RxKey ==
  /\ "key" \in trouble
  /\ rx.pc = "answer"
  /\ rx' = [rx EXCEPT !.pc = "closed"]
  /\ UNCHANGED <<trouble, sent, dirSlot, toRx, toTx, tx, got, faults>>

-----------------------------------------------------------------------------
\* The serial line (external).
Without(s, i) == SubSeq(s, 1, i - 1) \o SubSeq(s, i + 1, Len(s))

Noise ==
  /\ faults < MaxFaults
  /\ faults' = faults + 1
  /\ \/ /\ "noise" \in trouble
        /\ UNCHANGED toTx
        /\ \E i \in 1..Len(toRx) :
             \/ toRx' = Without(toRx, i)
             \/ \E b \in Garbage \ {toRx[i]} : toRx' = [toRx EXCEPT ![i] = b]
     \/ /\ "answer" \in trouble
        /\ UNCHANGED toRx
        /\ \E i \in 1..Len(toTx) : toTx' = Without(toTx, i)
  /\ UNCHANGED <<trouble, sent, dirSlot, tx, rx, got>>

TxNext == TxOpen \/ TxNak \/ TxAck \/ TxOther
RxNext == RxAnswer \/ RxHeader \/ RxHeaderTimeout \/ RxNumber \/ RxInverse
            \/ RxData \/ RxSum
XmNext == TxNext \/ TxKey \/ RxNext \/ RxKey \/ Noise

-----------------------------------------------------------------------------
\* A byte that is lost is made up for by the last one, read again: the checksum
\* tells unless the other bytes of the block add up to nothing.
LossShows(block) == \A i \in 1..DataLen : Checksum([block EXCEPT ![i] = 0]) # 0

\* Of a packet that it refuses, or whose header is spoilt, the receiver reads the rest
\* as headers.  It stays in step with the sender only if no byte of the data, no
\* checksum and nothing that a byte is garbled into is one.
NoHeaderInside ==
  \A i \in 1..Len(sent) :
    (Range(Append(sent[i], Checksum(sent[i]))) \cup Garbage) \cap {SOH, EOT, CAN} = {}

\* What the claims below are about: packets that are whole, the receiver waiting for
\* each, or at least nothing in them that looks like a header; or a byte spoilt, but
\* then with the receiver waiting and a checksum that tells.
InStep ==
  /\ trouble \cap {"slow", "noise"} # {} => NoHeaderInside
  /\ "noise" \in trouble =>
       /\ "slow" \notin trouble /\ faults <= 1
       /\ \A i \in 1..Len(sent) : LossShows(sent[i])

\* A file reported as received ("Transmission done") is the file that was sent, though
\* answers are lost or sent twice, as long as the two stay in step.  A spoilt packet, a
\* disk that is full and an empty file are excepted: the code misses each of them.
DoneMeansComplete ==
  rx.pc = "done" /\ sent # <<>> /\ InStep /\ trouble \cap {"full", "noise"} = {}
    => got = sent

\* As long as the two stay in step only blocks of the file are stored, none of them
\* twice or before one that precedes it.
InOrder(s, t) ==
  \E f \in [1..Len(s) -> 1..Len(t)] :
     /\ \A i \in 1..Len(s) : s[i] = t[f[i]]
     /\ \A i, j \in 1..Len(s) : i < j => f[i] < f[j]

BlocksInOrder == sent # <<>> /\ InStep => InOrder(got, sent)

\* With a quiet line, nobody at the keyboard and the file's directory entry
\* the first of its record, the transfer ends and the whole file has arrived,
\* whatever is in it.
TransferEnds ==
  trouble = {} /\ dirSlot = 0 /\ sent # <<>>
    ~> rx.pc = "done" /\ got = sent /\ tx.pc = "sent"

\* The receiver does not wait for a sender that has given up: the CAN arrives
\* behind whatever else is under way, and is not taken for data as long as the two
\* stay in step.
CancelReachesReceiver ==
  tx.pc = "aborted" /\ "noise" \notin trouble /\ InStep ~> rx.pc \in RxEnd

\* Both programs run on; a byte that is under way is there in the end, however
\* often the receiver has stopped waiting for it before.
XmFair == WF_xmVars(TxNext) /\ WF_xmVars(RxNext) /\ SF_xmVars(RxHeader)

\* As long as the two stay in step, what is stored are blocks of the file in their
\* order, and where the code notices its faults "done" means all of them.
BlocksRight == BlocksInOrder /\ DoneMeansComplete

\* Neither program waits for ever for the other: a transfer ends, well if nothing
\* disturbs it, and a sender that gives up takes the receiver with it.
BothEnd == TransferEnds /\ CancelReachesReceiver
===============================================================================
