------------------------------- MODULE QeEditor -------------------------------
(***************************************************************************)
(* The editor cpmtools/qe.c at work: the keys of each mode on the buffer   *)
(* (QeBuffer), and ":" and "ZZ" with save_file, one BDOS call at a time.   *)
(* The file and QETEMP.$$$ hold what was there ("old"), the text that is   *)
(* being saved ("new"), a part of it ("part"), or are not there ("none").  *)
(* The machine may be reset at any BDOS call.                              *)
(***************************************************************************)
EXTENDS QeBuffer

CONSTANTS Texts, Digits, MaxCount, Faults

ASSUME QeAssumption ==
  /\ \A t \in Texts : t \in Seq(Char)
  /\ Digits \subseteq 0..9 /\ MaxCount \in Nat
  /\ "none" \in Faults
  /\ Faults \subseteq {"none", "make", "full", "error", "close", "delete", "rename"}

VARIABLES
  b,           \* the buffer
  mode,        \* bindings, and what the editor waits for
  count,       \* command_count
  dirty,
  named,       \* cpm_fcb has a name
  file, temp,  \* the file and QETEMP.$$$
  save,        \* save_file: where it is, what it writes, what goes wrong
  saved,       \* history: the file of a document that is not dirty holds the text
               \* ("yes"), or need not for a reason the code lets pass ("excused")
  bent,        \* history: b, or a newline typed as such, was used
  prior        \* history: what the file held when save_file began

qeVars == <<b, mode, count, dirty, named, file, temp, save, saved, bent, prior>>
disk   == <<named, file, temp, save, prior>>

Commands == {"normal", "delete", "change", "zed"}
Modes    == Commands \cup {"insert", "replace", "char", "colon", "save", "quit", "lost", "off"}
Held     == {"none", "old", "new", "part"}
Idle     == [pc |-> "idle", to |-> "file", fault |-> "none", quit |-> FALSE, from |-> "normal"]
SavePlace == {"idle", "open", "make", "write", "close", "delete", "rename", "failed", "done"}

QeTypeOK ==
  /\ b \in Buffer /\ b.gs <= b.ge
  /\ mode \in Modes /\ count \in 0..MaxCount /\ dirty \in BOOLEAN /\ named \in BOOLEAN
  /\ file \in Held /\ temp \in Held
  /\ save \in [pc : SavePlace, to : {"file", "temp"}, fault : Faults, quit : BOOLEAN,
               from : {"normal", "colon"}]
  /\ saved \in {"yes", "excused", "no"} /\ bent \in BOOLEAN /\ prior \in Held

\* What is known of a document after a file of text t has been read, which may
\* have failed ("read" is then not t): it is t, unless there was no room for it.
Known(t, read) == IF read = t /\ Len(t) <= Cap THEN "yes" ELSE "excused"

\* main: the memory holds anything; load_file takes a file that is not there
\* for an empty one, one that is too long is cut, and of one that cannot be read
\* (it is shorter than a record here) there is nothing.
QeInit ==
  /\ \E m \in [0..Cap - 1 -> Char], t \in Texts :
       \E read \in {t, <<>>} :
         /\ b = LoadFile([mem |-> m, gs |-> 0, ge |-> 0, cl |-> 0], read)
         /\ saved = Known(t, read)
         /\ file \in IF t = <<>> THEN {"none", "old"} ELSE {"old"}
         /\ named = TRUE \/ (named = FALSE /\ t = <<>>)
  /\ mode = "normal" /\ count = 0 /\ dirty = FALSE
  /\ temp = "none" /\ save = Idle
  /\ bent = FALSE /\ prior = "none"

-----------------------------------------------------------------------------
Times1 == IF count = 0 THEN 1 ELSE count

\* What a command leaves: the buffer, whether it says so, and the mode.
Becomes(new, says, to) ==
  /\ b' = new
  /\ dirty' = (dirty \/ says)
  /\ saved' = IF dirty' \/ (saved = "yes" /\ Text(new) # Text(b)) THEN "no" ELSE saved
  /\ mode' = to /\ count' = 0
  /\ UNCHANGED disk

\* The same for b, r, O and o, which change the text and do not set dirty.
BecomesQuietly(new, to) ==
  /\ b' = new
  /\ saved' = IF saved = "yes" /\ Text(new) # Text(b) THEN "excused" ELSE saved
  /\ mode' = to /\ count' = 0
  /\ UNCHANGED <<dirty, disk>>

\* A loop that counts to current_line and starts behind it copies over all of the
\* memory: nothing is left to say what the text would be.
Runaway ==
  /\ mode' = "lost"
  /\ \E m \in [0..Cap - 1 -> Char] : b' = [b EXCEPT !.mem = m]
  /\ UNCHANGED <<count, dirty, saved, bent, disk>>

Digit(d) ==
  /\ mode \in Commands /\ count * 10 + d <= MaxCount
  /\ count' = count * 10 + d
  /\ UNCHANGED <<b, mode, dirty, saved, bent, disk>>

\* Keys that only move.
Moves == {CursorLeft(b, Times1), CursorRight(b, Times1), CursorDown(b, Times1),
          CursorEnd(b), CursorWordRight(b, Times1),
          GotoLine(b, IF count = 0 THEN Cap + 2 ELSE count)}
Move ==
  /\ mode = "normal"
  /\ \E new \in Moves : Becomes(new, FALSE, "normal")
  /\ UNCHANGED bent

\* "^", "k" and the commands that begin with cursor_home.
MoveHome ==
  /\ mode = "normal"
  /\ IF HomeRunsAway(b) THEN Runaway
     ELSE /\ \E new \in {CursorHome(b), CursorUp(b, Times1)} : Becomes(new, FALSE, "normal")
          /\ UNCHANGED bent

MoveWordLeft ==
  /\ mode = "normal"
  /\ BecomesQuietly(CursorWordLeft(b, Times1), "normal")
  /\ bent' = TRUE

\* i, A, R, "x", "J"
Edit ==
  /\ mode = "normal"
  /\ \/ Becomes(b, FALSE, "insert")
     \/ Becomes(CursorEnd(b), FALSE, "insert")
     \/ Becomes(b, FALSE, "replace")
     \/ Becomes(DeleteRight(b, Times1), TRUE, "normal")
     \/ Becomes(Join(b, Times1), TRUE, "normal")
  /\ UNCHANGED bent

\* O and o; o is O on the next line, or on the last one.
Open ==
  /\ mode = "normal"
  /\ \E at \in {b, CursorDown(b, 1)} :
       IF at.gs = at.ge THEN Becomes(at, FALSE, "normal") /\ UNCHANGED bent
       ELSE IF HomeRunsAway(at) THEN Runaway
       ELSE BecomesQuietly(LineAbove(at), "insert") /\ UNCHANGED bent

\* r waits for a character; a newline is the key for "down".
ReplaceKey == mode = "normal" /\ Becomes(b, FALSE, "char") /\ UNCHANGED bent
ReplaceBy ==
  /\ mode = "char"
  /\ \E c \in Char : BecomesQuietly(ReplaceChar(b, c), "normal")
  /\ UNCHANGED bent

\* d, c and Z: the count is kept, or is 1, and further digits are added to it.
Prefix ==
  /\ mode = "normal" /\ Times1 <= MaxCount
  /\ mode' \in {"delete", "change", "zed"}
  /\ count' = Times1
  /\ UNCHANGED <<b, dirty, saved, bent, disk>>

DeleteKey ==
  /\ mode = "delete"
  /\ \/ Becomes(DeleteWord(b, Times1), TRUE, "normal") /\ UNCHANGED bent
     \/ Becomes(DeleteRestOfLine(b), TRUE, "normal") /\ UNCHANGED bent
     \/ IF HomeRunsAway(b) THEN Runaway
        ELSE Becomes(DeleteLine(b, Times1), TRUE, "normal") /\ UNCHANGED bent

ChangeKey ==
  /\ mode = "change"
  /\ \E new \in {DeleteWord(b, 1), DeleteRestOfLine(b)} : Becomes(new, TRUE, "insert")
  /\ UNCHANGED bent

UnknownKey ==
  /\ mode \in Commands
  /\ Becomes(b, FALSE, "normal")
  /\ UNCHANGED bent

\* insert_mode
Room == b.gs # b.ge
Base == IF mode = "replace" THEN Overwritten(b) ELSE b
TypeKey ==
  /\ mode \in {"insert", "replace"}
  /\ \/ Becomes(b, FALSE, "normal") /\ UNCHANGED bent         \* ESC
     \/ IF BackspaceRunsAway(b) THEN Runaway
        ELSE Becomes(Backspace(b), TRUE, mode) /\ UNCHANGED bent
     \/ /\ Room
        /\ \E new \in {InsertNewline(Base)} \cup {InsertChar(Base, c) : c \in Char \ {NL}} :
             Becomes(new, TRUE, mode)
        /\ UNCHANGED bent
     \/ Room /\ Becomes(InsertChar(Base, NL), TRUE, mode) /\ bent' = TRUE   \* "down"
     \/ ~Room /\ Becomes(b, TRUE, mode) /\ UNCHANGED bent

-----------------------------------------------------------------------------
(* Colon commands *)

ColonKey == mode = "normal" /\ Becomes(b, FALSE, "colon") /\ UNCHANGED bent
ColonEnd == mode = "colon" /\ Becomes(b, FALSE, "normal") /\ UNCHANGED bent

Loaded(t) ==
  /\ \E read \in {t, <<>>} :
       b' = LoadFile(b, read) /\ saved' = Known(t, read)
  /\ bent' = FALSE
  /\ file' \in IF t = <<>> THEN {"none", "old"} ELSE {"old"}
  /\ UNCHANGED <<mode, count, temp, save, prior>>

\* ":e" and ":n"; the exclamation mark is "sure".
ColonEdit(sure) ==
  /\ mode = "colon" /\ (~dirty \/ sure)
  /\ named' = TRUE /\ dirty' = FALSE
  /\ \E t \in Texts : Loaded(t)

ColonNew(sure) ==
  /\ mode = "colon" /\ (~dirty \/ sure)
  /\ named' = FALSE /\ dirty' = TRUE
  /\ b' = NewFile(b)
  /\ saved' = "no" /\ bent' = FALSE
  /\ UNCHANGED <<mode, count, file, temp, save, prior>>

\* Mutant: the document does not become dirty.
ColonReadClean ==
  /\ mode = "colon"
  /\ \E t \in Texts :
       /\ Becomes(InsertFile(b, t), FALSE, "colon")
       /\ bent' = (bent \/ \E i \in 1..Len(t) : t[i] = NL)

\* ":r": current_line is left where it was.
ColonRead ==
  /\ mode = "colon"
  /\ \E t \in Texts :
       /\ Becomes(InsertFile(b, t), TRUE, "colon")
       /\ bent' = (bent \/ \E i \in 1..Len(t) : t[i] = NL)

ColonQuit(sure) ==
  /\ mode = "colon" /\ (~dirty \/ sure)
  /\ mode' = "quit"
  /\ UNCHANGED <<b, count, dirty, saved, bent, disk>>

\* ":w" with another name: another file, and a document not saved.
ColonName ==
  /\ mode = "colon"
  /\ named' = TRUE /\ dirty' = TRUE
  /\ file' \in {"none", "old"}
  /\ saved' = "no"
  /\ UNCHANGED <<b, mode, count, bent, temp, save, prior>>

\* ZQ, and ZZ when there is nothing to save.
ZedQuit ==
  /\ mode = "zed"
  /\ mode' = "quit"
  /\ UNCHANGED <<b, count, dirty, saved, bent, disk>>

-----------------------------------------------------------------------------
(* save_file and really_save_file *)

\* Outside of a save, "old" is whatever the file holds.
Settled(held) == IF held = "none" THEN "none" ELSE "old"

\* QETEMP.$$$ may be there from a save that failed.
SaveStart ==
  /\ named
  /\ mode = "colon" \/ (mode = "zed" /\ dirty)
  /\ \E quits \in BOOLEAN :
       /\ mode = "zed" => quits
       /\ save' = [pc |-> "open", to |-> "file", fault |-> "none", quit |-> quits,
                   from |-> IF mode = "zed" THEN "normal" ELSE mode]
  /\ mode' = "save" /\ count' = 0
  /\ temp' \in {"none", "old"} /\ prior' = file
  /\ UNCHANGED <<b, dirty, named, file, saved, bent>>

Saving(pc) == mode = "save" /\ save.pc = pc
Target(held) == IF save.to = "file" THEN file' = held /\ UNCHANGED temp
                ELSE temp' = held /\ UNCHANGED file
GoesWith(pc, f) ==
  /\ save' = [save EXCEPT !.pc = pc, !.fault = f]
  /\ UNCHANGED <<b, mode, count, named, saved, bent, prior>>
Goes(pc)     == GoesWith(pc, save.fault)
Fails(pc, f) == save.fault = "none" /\ f \in Faults /\ GoesWith(pc, f)

\* Mutant: the file is written over.
SaveOpenOver ==
  /\ Saving("open")
  /\ save' = [save EXCEPT !.pc = "make", !.to = "file"]
  /\ UNCHANGED <<b, mode, count, dirty, named, file, temp, saved, bent, prior>>

SaveOpen ==
  /\ Saving("open")
  /\ save' = [save EXCEPT !.pc = "make", !.to = IF file = "none" THEN "file" ELSE "temp"]
  /\ UNCHANGED <<b, mode, count, dirty, named, file, temp, saved, bent, prior>>

\* Where really_save_file goes when it returns false: save_file compares that
\* with 0xff, and goes on.
NotWritten == IF save.to = "file" THEN "failed" ELSE "delete"

SaveMake ==
  /\ Saving("make")
  /\ \/ Fails(NotWritten, "make") /\ UNCHANGED <<file, temp>>
     \/ Goes("write") /\ Target("part")
  /\ UNCHANGED dirty

\* Only 0xff is an error: a disk that is full (1 or 2) is not noticed.
SaveWrite ==
  /\ Saving("write")
  /\ \/ Fails(NotWritten, "error")
     \/ Fails("close", "full")
     \/ Goes("close")
  /\ UNCHANGED <<dirty, file, temp>>

\* The directory learns of the last blocks when the file is closed; a close that
\* fails may have told it or not.
SaveClose ==
  /\ Saving("close")
  /\ dirty' = FALSE
  /\ \/ Fails(NotWritten, "close") /\ (Target("part") \/ Target("new"))
     \/ /\ Goes(IF save.to = "file" THEN "done" ELSE "delete")
        /\ IF save.fault = "full" THEN UNCHANGED <<file, temp>> ELSE Target("new")

SaveDelete ==
  /\ Saving("delete")
  /\ \/ Fails("failed", "delete") /\ UNCHANGED file
     \/ Goes("rename") /\ file' = "none"
  /\ UNCHANGED <<dirty, temp>>

SaveRename ==
  /\ Saving("rename")
  /\ \/ Fails("failed", "rename") /\ UNCHANGED <<file, temp>>
     \/ temp = "none" /\ Goes("failed") /\ UNCHANGED <<file, temp>>
     \/ temp # "none" /\ Goes("done") /\ file' = temp /\ temp' = "none"
  /\ UNCHANGED dirty

SaveEnd ==
  /\ mode = "save" /\ save.pc \in {"done", "failed"}
  /\ mode' = IF save.quit /\ save.pc = "done" THEN "quit" ELSE save.from
  /\ save' = Idle
  /\ saved' = CASE dirty -> "no"
                 [] ~dirty /\ save.fault # "none" -> "excused"
                 [] ~dirty /\ save.fault = "none" -> IF file = "new" THEN "yes" ELSE "no"
  /\ file' = Settled(file) /\ temp' = "none" /\ prior' = "none"
  /\ UNCHANGED <<b, count, dirty, named, bent>>

Reset == mode = "save" /\ mode' = "off"
         /\ UNCHANGED <<b, count, dirty, saved, bent, disk>>

Over == mode \in {"quit", "lost", "off"} /\ UNCHANGED qeVars

QeSave == SaveStart \/ SaveOpen \/ SaveMake \/ SaveWrite \/ SaveClose \/ SaveDelete
            \/ SaveRename \/ SaveEnd \/ Reset
QeKeys ==
  \/ \E d \in Digits : Digit(d)
  \/ Move \/ MoveHome \/ MoveWordLeft \/ Edit \/ Open \/ ReplaceKey \/ ReplaceBy
  \/ Prefix \/ DeleteKey \/ ChangeKey \/ UnknownKey \/ TypeKey
QeColon ==
  \/ ColonKey \/ ColonEnd \/ ColonRead \/ ColonName \/ ZedQuit
  \/ \E sure \in BOOLEAN : ColonEdit(sure) \/ ColonNew(sure) \/ ColonQuit(sure)
QeNext == QeKeys \/ QeColon \/ QeSave \/ Over

QeSpec == QeInit /\ [][QeNext]_qeVars

-----------------------------------------------------------------------------
\* current_line is the start of the line the cursor is in, and no loop that counts
\* to it runs away, unless "b", a newline typed with the "down" key or ":r" has been
\* used: each of them moves the cursor past a newline and leaves current_line.
QeLineKnown == ~bent => mode # "lost" /\ b.cl = LineStart(b, b.gs)

\* Moving the cursor (except with "b") does not change the text, whatever the gap
\* holds and however often the move is repeated.  Excepted is the "^" or "k" that
\* runs away and takes the editor with it, which QeLineKnown bounds.
QeMovesKeepText ==
  [][(Move \/ MoveHome) /\ mode' # "lost" => Text(b') = Text(b)]_qeVars

\* "dd" on a line that is not empty removes that line and nothing else.
WithoutLine(t, k) ==
  LET e == Min({i \in k + 1..Len(t) + 1 : i = Len(t) + 1 \/ t[i] = NL})
  IN  SubSeq(t, 1, k) \o SubSeq(t, e + 1, Len(t))
QeDeleteLine ==
  [][~bent /\ mode = "delete" /\ count = 1 /\ b' = DeleteLine(b, 1) /\ dirty'
       /\ b.cl < Len(Text(b)) /\ Text(b)[b.cl + 1] # NL
     => Text(b') = WithoutLine(Text(b), b.cl)]_qeVars

\* A document that is not "dirty" is what its file holds: leaving without a
\* question loses nothing.  Excepted is what the code lets pass: r, "b", O and o
\* followed by ESC, a file that was read in part, and a save in which a call failed.
QeCleanIsSaved ==
  mode \in Commands \cup {"insert", "replace", "char", "colon"} /\ ~dirty => saved # "no"

\* As long as the temporary file could be made, written and closed, the old text or
\* the new one is whole on the disk at every BDOS call of a save: at a reset, and
\* when the file cannot be deleted or the temporary not be renamed.  (When the
\* temporary fails, save_file goes on all the same: QeTempFailureStops.)
QeSaveKeepsAText ==
  mode \in {"save", "off"} /\ prior = "old"
    /\ save.fault \notin {"make", "full", "error", "close"}
    => file \in {"old", "new"} \/ temp = "new"

\* Leaving with ":wq" or "ZZ" leaves the text in the file when every call succeeded.
QeQuitSaves ==
  [][mode' = "quit" /\ mode = "save" /\ save.fault = "none" => file = "new"]_qeVars

\* "Cannot create QETEMP.$$$ file (it may exist)" (qe.c:477): when the temporary
\* file cannot be made the save stops there, with the file as it was.
QeTempFailureStops ==
  mode = "save" /\ prior = "old" /\ save.fault = "make" => file = "old"

\* The gap and current_line stay inside the text and mean what every key assumes.
QeBufferSound == QeTypeOK /\ QeLineKnown

\* Motions, but for those named above, and "dd" change what they are for and no other
\* part of the text.
QeEditsExact == QeMovesKeepText /\ QeDeleteLine

\* After a good temporary file a save leaves one whole text whatever fails then, and
\* the new one if nothing does (save_file).
QeSavesSafely == [][QeSaveKeepsAText']_qeVars /\ QeQuitSaves
===============================================================================
