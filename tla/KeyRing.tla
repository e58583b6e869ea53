------------------------------- MODULE KeyRing -------------------------------
(***************************************************************************)
(* The keyboard ring buffer of the NC200 (nc200/supervisor/keyboard.inc:   *)
(* queue_key, kbd_test_pending_key, kbd_get_next_key) and that of the      *)
(* PN-8510 and PN-8800 (brother/pn8510/keyboard.z80 and its twin: the tail *)
(* of key_down, KBTEST, KBGET).                                            *)
(*                                                                         *)
(* On the NC200 keys arrive in the 10ms interrupt, which may come between  *)
(* any two instructions of the console calls while IFF1 is set; on the     *)
(* PowerNotes (polled) the matrix is scanned at the start of KBTEST, and   *)
(* no interrupt is enabled.                                                *)
(***************************************************************************)
EXTENDS Integers

CONSTANTS Size,     \* of the buffer: 8 on the NC200, 16 on the PowerNotes
          Key,      \* decoded keys
          NoKey     \* what the buffer is assembled with

ASSUME SizeAssumption == Size \in {8, 16}
ASSUME KeyAssumption == NoKey \notin Key

VARIABLES polled,  \* FALSE: NC200, TRUE: PowerNote; never changes
          buffer, rdptr, wrptr,
          iff,     \* the CPU's interrupt enable flag
          pc,      \* where the console call in progress is
          call,    \* which one it is: "none", "test" or "get"
          de,      \* the register with the address to read, as an index
          event,   \* history: what became of the key pressed last
          res      \* what the last console call returned

vars == <<polled, buffer, rdptr, wrptr, iff, pc, call, de, event, res>>

Index == 0 .. Size - 1

NoResult   == [status |-> "none", key |-> NoKey]
KeyRead(k) == [status |-> "key", key |-> k]
Pending(b) == [status |-> IF b THEN "pending" ELSE "nothing", key |-> NoKey]
Result     == [status : {"none", "pending", "nothing", "key"}, key : Key \cup {NoKey}]

TypeOK ==
  /\ polled \in BOOLEAN
  /\ buffer \in [Index -> Key \cup {NoKey}]
  /\ rdptr \in Index
  /\ wrptr \in Index
  /\ iff \in BOOLEAN
  /\ pc \in {"run", "test", "compare", "take", "address", "advance", "load"}
  /\ call \in {"none", "test", "get"}
  /\ de \in Index
  /\ event \in {"none", "kept", "lost"}
  /\ res \in Result
  /\ (pc = "run") <=> (call = "none")
  /\ pc \in {"take", "address", "advance", "load"} => call = "get"

\* init_interrupts empties the buffer, then enables interrupts; the pointers
\* of the PowerNotes are assembled as 0.
Init ==
  /\ polled \in BOOLEAN
  /\ buffer = [i \in Index |-> NoKey]
  /\ rdptr = 0
  /\ wrptr = 0
  /\ iff = ~polled
  /\ pc = "run"
  /\ call = "none"
  /\ de = 0
  /\ event = "none"
  /\ res = NoResult

-----------------------------------------------------------------------------
\* Mutant: the pointer is not masked.
SuccUnmasked(i) == i + 1

\* Pointer arithmetic: "inc a; and 7" and "dec a; and 7" (and 0x0f).
Succ(i) == (i + 1) % Size
Pred(i) == (i - 1) % Size

Full == Pred(rdptr) = wrptr

\* queue_key, inside the interrupt handler.
QueueKey(k) ==
  /\ ~polled
  /\ iff
  /\ IF Full THEN /\ event' = "lost"
                  /\ UNCHANGED <<buffer, wrptr>>
             ELSE /\ buffer' = [buffer EXCEPT ![wrptr] = k]
                  /\ wrptr' = Succ(wrptr)
                  /\ event' = "kept"
  /\ UNCHANGED <<polled, rdptr, iff, pc, call, de, res>>

\* Mutant: no test for room.
ScanKeyUnchecked(k) ==
  /\ polled
  /\ pc = "test"
  /\ buffer' = [buffer EXCEPT ![wrptr] = k]
  /\ event' = "kept" /\ wrptr' = Succ(wrptr)
  /\ UNCHANGED <<polled, rdptr, iff, pc, call, de, res>>

\* The PowerNotes' scan_keys: the key is stored before the test for room, in
\* the slot that is always free.
ScanKey(k) ==
  /\ polled
  /\ pc = "test"
  /\ buffer' = [buffer EXCEPT ![wrptr] = k]
  /\ IF Succ(wrptr) = rdptr THEN event' = "lost" /\ UNCHANGED wrptr
                            ELSE event' = "kept" /\ wrptr' = Succ(wrptr)
  /\ UNCHANGED <<polled, rdptr, iff, pc, call, de, res>>

-----------------------------------------------------------------------------
\* The program calls CONST or CONIN.
Call(op) ==
  /\ pc = "run"
  /\ pc' = "test"
  /\ call' = op
  /\ res' = NoResult
  /\ UNCHANGED <<polled, buffer, rdptr, wrptr, iff, de, event>>

\* "di" in kbd_test_pending_key; the PowerNotes have done their scan.
TestBegin ==
  /\ pc = "test"
  /\ pc' = "compare"
  /\ iff' = FALSE
  /\ UNCHANGED <<polled, buffer, rdptr, wrptr, call, de, event, res>>

\* Mutant: no "ei" on the way back to the loop.
TestEndClosed ==
  /\ pc = "compare"
  /\ iff' = (~polled /\ (call = "test" \/ rdptr # wrptr))
  /\ \/ /\ call = "test"
        /\ pc' = "run" /\ call' = "none"
        /\ res' = Pending(rdptr # wrptr)
     \/ /\ call = "get"
        /\ pc' = IF rdptr = wrptr THEN "test" ELSE "take"
        /\ UNCHANGED <<call, res>>
  /\ UNCHANGED <<polled, buffer, rdptr, wrptr, de, event>>

\* The comparison up to "ei"; kbd_get_next_key loops while there is no key.
TestEnd ==
  /\ pc = "compare"
  /\ iff' = ~polled
  /\ \/ /\ call = "test"
        /\ pc' = "run" /\ call' = "none"
        /\ res' = Pending(rdptr # wrptr)
     \/ /\ call = "get"
        /\ pc' = IF rdptr = wrptr THEN "test" ELSE "take"
        /\ UNCHANGED <<call, res>>
  /\ UNCHANGED <<polled, buffer, rdptr, wrptr, de, event>>

\* kbd_get_next_key with a key in the buffer: di, compute its address, step
\* the read pointer, fetch the key, ei.
TakeBegin ==
  /\ pc = "take"
  /\ pc' = "address"
  /\ iff' = FALSE
  /\ UNCHANGED <<polled, buffer, rdptr, wrptr, call, de, event, res>>

TakeAddress ==
  /\ pc = "address"
  /\ pc' = "advance"
  /\ de' = rdptr
  /\ UNCHANGED <<polled, buffer, rdptr, wrptr, iff, call, event, res>>

TakeAdvance ==
  /\ pc = "advance"
  /\ pc' = "load"
  /\ rdptr' = Succ(rdptr)
  /\ UNCHANGED <<polled, buffer, wrptr, iff, call, de, event, res>>

TakeLoad ==
  /\ pc = "load"
  /\ pc' = "run" /\ call' = "none"
  /\ iff' = ~polled
  /\ res' = KeyRead(buffer[de])
  /\ UNCHANGED <<polled, buffer, rdptr, wrptr, de, event>>

Console ==
  \/ TestBegin
  \/ TestEnd
  \/ TakeBegin
  \/ TakeAddress
  \/ TakeAdvance
  \/ TakeLoad

Next ==
  \/ \E k \in Key : QueueKey(k)
  \/ \E k \in Key : ScanKey(k)
  \/ \E op \in {"test", "get"} : Call(op)
  \/ Console

Spec == Init /\ [][Next]_vars

\* An interrupt returns to the instruction it came before, and they are 10ms
\* apart: the CPU goes on executing the console call.
FairSpec == Spec /\ WF_vars(Console)

-----------------------------------------------------------------------------
\* The keys in the buffer b between read pointer r and write pointer w.
Count(r, w)      == (w - r) % Size
At(r, i)         == (r + i - 1) % Size
Content(b, r, w) == [i \in 1 .. Count(r, w) |-> b[At(r, i)]]

\* The ring is a bounded queue whose Get takes effect when the read pointer is
\* stepped: no key is lost, duplicated or reordered, none is dropped before
\* Size - 1 are waiting, and the status call never lies.
Ring == INSTANCE KeyQueue WITH
  Capacity <- Size - 1,
  queue    <- Content(buffer, rdptr, wrptr),
  req      <- IF pc = "load" THEN "none" ELSE call,
  res      <- IF pc = "load" THEN KeyRead(buffer[de]) ELSE res

ImplementsKeyQueue == Ring!Spec

\* A program that waits for a key gets it once there is one
\* (keyboard.inc:147-171: "Returns the next keypress, blocking"), and while there is none
\* it lets the interrupt in again and again, without which none would ever come.
WaitingReaderGetsTheKey ==
  /\ (call = "get" /\ rdptr # wrptr) ~> (call = "none")
  /\ (call = "get" /\ ~polled) ~> (call = "none" \/ iff)
=============================================================================
