------------------------------ MODULE KeyQueue ------------------------------
(***************************************************************************)
(* What a BIOS promises of its type-ahead: keys are read in the order they *)
(* were pressed, each exactly once, and a key is only ever lost because    *)
(* Capacity keys are waiting.  The console status call (op "test") tells   *)
(* whether a key is waiting; the console input call (op "get") waits for   *)
(* one.                                                                    *)
(***************************************************************************)
EXTENDS Naturals, Sequences

CONSTANTS Key, Capacity,
          NoKey    \* no key was returned

VARIABLES queue,   \* the keys waiting
          event,   \* what became of the key pressed last
          req, res

vars == <<queue, event, req, res>>

NoResult   == [status |-> "none", key |-> NoKey]
KeyRead(k) == [status |-> "key", key |-> k]
Pending(b) == [status |-> IF b THEN "pending" ELSE "nothing", key |-> NoKey]

Init ==
  /\ queue = <<>>
  /\ event = "none"
  /\ req = "none"
  /\ res = NoResult

Press(k) ==
  /\ \/ /\ Len(queue) < Capacity
        /\ queue' = Append(queue, k)
        /\ event' = "kept"
     \/ /\ Len(queue) = Capacity
        /\ event' = "lost"
        /\ UNCHANGED queue
  /\ UNCHANGED <<req, res>>

Call(op) ==
  /\ req = "none"
  /\ req' = op
  /\ res' = NoResult
  /\ UNCHANGED <<queue, event>>

Test ==
  /\ req = "test"
  /\ req' = "none"
  /\ res' = Pending(queue # <<>>)
  /\ UNCHANGED <<queue, event>>

Get ==
  /\ req = "get"
  /\ queue # <<>>
  /\ queue' = Tail(queue)
  /\ req' = "none"
  /\ res' = KeyRead(Head(queue))
  /\ UNCHANGED event

Next ==
  \/ \E k \in Key : Press(k)
  \/ \E op \in {"test", "get"} : Call(op)
  \/ Test
  \/ Get

Spec == Init /\ [][Next]_vars
=============================================================================
