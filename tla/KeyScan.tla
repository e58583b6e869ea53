------------------------------- MODULE KeyScan -------------------------------
(***************************************************************************)
(* The NC200's keyboard between the matrix and queue_key:                  *)
(* keyboard_interrupt_handler (nc200/supervisor/interrupts.inc), which     *)
(* compares each of ten port bytes with the last scan's, and               *)
(* process_keyboard_event with its modifiers (keyboard.inc).               *)
(*                                                                         *)
(* The gate array scans every 10ms and then interrupts.  Within the        *)
(* handler one action reads one byte or decodes one key that has changed,  *)
(* in the order of the code; keys go up and down between any two of them.  *)
(***************************************************************************)
EXTENDS Integers, FiniteSets

CONSTANT Key     \* the keys that are used, by their key code

ASSUME KeyAssumption == Key \subseteq 0..79

VARIABLES down,        \* the keys held down: the bits set in the ports
          bitmap,      \* data.keyboard_bitmap: those of the last scan
          modifiers,   \* keyboard_modifiers
          row,         \* the byte the handler is at; 10 between interrupts
          changed,     \* H in its inner loop: the byte's changes still to be decoded
          byte,        \* L there: the keys down in the byte when it was read
          started,     \* init_interrupts has done its scan and emptied the buffer
          typed,       \* what the last step gave to queue_key: a key and the modifiers applied
          owed         \* history: presses of each key not typed yet, up to MaxOwed

scanVars == <<down, bitmap, modifiers, row, changed, byte, started, typed, owed>>

\* Key codes with a meaning of their own.
ShiftKey == {0, 1}
CtrlKey  == 9
CapsKey  == 16
Typing   == Key \ (ShiftKey \cup {CtrlKey, CapsKey})

Row(k)   == k \div 8
Modifier == {"shift", "ctrl", "caps"}
NoChar   == [key |-> 0, with |-> {}]

\* The presses counted: one that is being decoded and one made meanwhile.
MaxOwed == 2

ScanTypeOK ==
  /\ down \subseteq Key
  /\ bitmap \subseteq Key
  /\ modifiers \subseteq Modifier
  /\ row \in 0..10
  /\ changed \subseteq {k \in Key : Row(k) = row}
  /\ byte \subseteq {k \in Key : Row(k) = row}
  /\ started \in BOOLEAN
  /\ typed \in [key : Typing \cup {0}, with : SUBSET Modifier]
  /\ owed \in [Typing -> 0..MaxOwed]

\* "ds 10, 0x55": every other bit is set, starting with bit 0.  init_interrupts
\* calls keyboard_interrupt_handler before it enables interrupts.
ScanInit ==
  /\ down \in SUBSET Key
  /\ bitmap = {k \in Key : k % 2 = 0}
  /\ modifiers = {}
  /\ row = 0
  /\ changed = {}
  /\ byte = {}
  /\ started = FALSE
  /\ typed = NoChar
  /\ owed = [k \in Typing |-> IF k \in down THEN 1 ELSE 0]

-----------------------------------------------------------------------------
\* Nothing is queued.
Silent == typed' = NoChar

\* A key goes down or up.
Move(k) ==
  /\ down' = (IF k \in down THEN down \ {k} ELSE down \cup {k})
  /\ owed' = (IF k \in Typing \ down /\ owed[k] < MaxOwed
              THEN [owed EXCEPT ![k] = @ + 1] ELSE owed)
  /\ Silent
  /\ UNCHANGED <<bitmap, modifiers, row, changed, byte, started>>

ScanInterrupt ==
  /\ row = 10
  /\ row' = 0
  /\ Silent
  /\ UNCHANGED <<down, bitmap, modifiers, changed, byte, started, owed>>

\* On to the next byte; the first scan ends with the buffer emptied.
NextRow == row' = row + 1 /\ started' = (started \/ row = 9)

Differs == {k \in Key : Row(k) = row /\ (k \in down <=> k \notin bitmap)}

SkipRow ==
  /\ row < 10 /\ changed = {}
  /\ Differs = {}
  /\ NextRow
  /\ Silent
  /\ UNCHANGED <<down, bitmap, modifiers, changed, byte, owed>>

\* Mutant: the byte is not stored in the bitmap.
ReadRowUnstored ==
  /\ row < 10 /\ changed = {}
  /\ Differs # {}
  /\ changed' = Differs
  /\ byte' = {k \in down : Row(k) = row}
  /\ Silent
  /\ UNCHANGED <<down, bitmap, modifiers, row, started, owed>>

ReadRow ==
  /\ row < 10 /\ changed = {}
  /\ Differs # {}
  /\ changed' = Differs
  /\ byte' = {k \in down : Row(k) = row}
  /\ bitmap' = (bitmap \ Differs) \cup (Differs \cap down)
  /\ Silent
  /\ UNCHANGED <<down, modifiers, row, started, owed>>

LeaveKey(k) ==
  IF changed = {k} THEN NextRow /\ byte' = {} ELSE UNCHANGED <<row, started, byte>>

\* The inner loop starts at bit 7 of the byte.
Decode(k) ==
  /\ k \in changed
  /\ \A c \in changed : c <= k
  /\ changed' = changed \ {k}
  /\ LeaveKey(k)
  /\ UNCHANGED <<down, bitmap>>

\* Mutant: the modifier is not reset first.
HeldOnly(m, k) == IF k \in byte THEN modifiers \cup {m} ELSE modifiers

\* shift_change and ctrl_change: the key's bit in the byte decides.
Held(m, k) == IF k \in byte THEN modifiers \cup {m} ELSE modifiers \ {m}

DecodeModifier(k) ==
  /\ Decode(k)
  /\ \/ k \in ShiftKey /\ modifiers' = Held("shift", k)
     \/ k = CtrlKey /\ modifiers' = Held("ctrl", k)
  /\ Silent
  /\ UNCHANGED owed

\* "sla a; ret nc" looks at the bit that the interrupt handler sets for a key
\* that is not in the byte: other keys are ignored when they go down.
Ordinary(k) == k \notin ShiftKey \cup {CtrlKey}

DecodeIgnored(k) ==
  /\ Decode(k)
  /\ Ordinary(k)
  /\ k \in byte
  /\ Silent
  /\ UNCHANGED <<modifiers, owed>>

DecodeCaps(k) ==
  /\ Decode(k)
  /\ k = CapsKey
  /\ k \notin byte
  /\ modifiers' = (IF "caps" \in modifiers THEN modifiers \ {"caps"} ELSE modifiers \cup {"caps"})
  /\ Silent
  /\ UNCHANGED owed

\* The rest of process_keyboard_event, for a key with a character in both tables.
DecodeCharacter(k) ==
  /\ Decode(k)
  /\ k \in Typing
  /\ k \notin byte
  /\ typed' = [key |-> k, with |-> modifiers]
  /\ owed' = (IF started /\ owed[k] > 0 THEN [owed EXCEPT ![k] = @ - 1] ELSE owed)
  /\ UNCHANGED modifiers

ScanNext ==
  \/ \E k \in Key : Move(k)
  \/ ScanInterrupt
  \/ SkipRow
  \/ ReadRow
  \/ \E k \in Key : DecodeModifier(k)
  \/ \E k \in Key : DecodeIgnored(k)
  \/ \E k \in Key : DecodeCaps(k)
  \/ \E k \in Typing : DecodeCharacter(k)

ScanSpec == ScanInit /\ [][ScanNext]_scanVars

-----------------------------------------------------------------------------
\* A key never gives more characters than it has been pressed
\* (keyboard_interrupt_handler), however it moves while the handler is at work
\* and whatever else changes in the same byte.
CharacterPerPress ==
  [][started => \A k \in Typing : DecodeCharacter(k) => owed[k] > 0]_scanVars

\* Neither shift nor control is left set once the keys are seen to be up
\* (shift_change, ctrl_change), although two keys share the one shift bit.
NoStuckModifier ==
  started /\ changed = {} =>
    /\ "shift" \in modifiers => ShiftKey \cap bitmap # {}
    /\ "ctrl" \in modifiers => CtrlKey \in bitmap
=============================================================================
