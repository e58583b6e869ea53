-------------------------------- MODULE Submit --------------------------------
(***************************************************************************)
(* cpmtools/submit.c: a script becomes the file A:$$$.SUB, one record per  *)
(* line and the last line first, which the command processor then works    *)
(* off from its end.  The script comes one byte at a time; any BDOS call   *)
(* that makes, writes or closes the file may fail.                         *)
(*                                                                         *)
(* Bytes are kinds: "$", "^", "cr", "lf", letters, "-" (neither letter nor *)
(* digit) and digits.  A line's text is a sequence of them, of the control *)
(* codes "^" \o letter and of the bytes of parameters.                     *)
(***************************************************************************)
EXTENDS Integers, Sequences, SequencesExt

CONSTANTS
  SbLetters,   \* some letters
  SbDigits,    \* and digits
  SbParams,    \* the length of each parameter, by its digit: $0 is the script's name
  SbLine,      \* 127: record_fill must stay below
  SbWrap,      \* 256: what a byte counts up to
  SbMaxBytes   \* the longest script

ASSUME SbAssumption ==
  /\ SbLine \in Nat \ {0} /\ SbWrap \in Nat /\ SbLine < SbWrap
  /\ SbLetters \cap SbDigits = {}
  /\ (SbLetters \cup SbDigits) \cap {"$", "^", "cr", "lf", "-"} = {}
  /\ DOMAIN SbParams \subseteq SbDigits
  /\ \A d \in DOMAIN SbParams : SbParams[d] \in 0..SbWrap - SbLine
  /\ SbMaxBytes \in Nat

VARIABLES
  sbPc,       \* "off" (not running), "text", "delete", "make", "write", "close",
              \* "restart" (the warm boot), "exit" (after fatal)
  sbEscaped, sbControl,
  sbText,     \* the line so far; record_fill is its length
  sbLines,    \* the records that are complete
  sbOut,      \* $$$.SUB: its records, or <<"none">>
  sbTyped,    \* history: the bytes of the script
  sbFull      \* history: a write found the disk full

sbVars == <<sbPc, sbEscaped, sbControl, sbText, sbLines, sbOut, sbTyped, sbFull>>

SbByte   == SbLetters \cup SbDigits \cup {"$", "^", "cr", "lf", "-"}
SbNoFile == <<<<"none">>>>

SbTypeOK ==
  /\ sbPc \in {"off", "text", "delete", "make", "write", "close", "restart", "exit"}
  /\ sbEscaped \in BOOLEAN /\ sbControl \in BOOLEAN /\ sbFull \in BOOLEAN
  /\ Len(sbText) < SbLine
  /\ \A i \in 1..Len(sbLines) : Len(sbLines[i]) < SbLine
  /\ Len(sbTyped) <= SbMaxBytes

\* A $$$.SUB may be left from before; what is in it does not matter.
SbStart ==
  /\ sbPc = "text" /\ sbOut \in {SbNoFile, <<>>}
  /\ sbEscaped = FALSE /\ sbControl = FALSE /\ sbFull = FALSE
  /\ sbText = <<>> /\ sbLines = <<>> /\ sbTyped = <<>>
SbOff ==
  /\ sbPc = "off" /\ sbOut = SbNoFile
  /\ sbEscaped = FALSE /\ sbControl = FALSE /\ sbFull = FALSE
  /\ sbText = <<>> /\ sbLines = <<>> /\ sbTyped = <<>>

-----------------------------------------------------------------------------
\* fatal, in process_byte and after it.
SbFatal ==
  /\ sbPc' = "exit" /\ sbOut' = SbNoFile
  /\ UNCHANGED <<sbEscaped, sbControl, sbText, sbLines>>

\* "exit:" in process_byte.
SbTake(text) ==
  IF Len(text) >= SbLine THEN SbFatal
  ELSE /\ sbText' = text /\ sbEscaped' = FALSE /\ sbControl' = FALSE
       /\ UNCHANGED <<sbPc, sbLines, sbOut>>

SbControlCode(b) == "^" \o b

\* A parameter that is not there is empty.
SbParam(d) == IF d \in DOMAIN SbParams THEN [i \in 1..SbParams[d] |-> "p"] ELSE <<>>

SbMark(b) ==
  /\ \/ b = "$" /\ ~sbEscaped /\ sbEscaped' = TRUE /\ UNCHANGED sbControl
     \/ b = "^" /\ ~sbControl /\ sbControl' = TRUE /\ UNCHANGED sbEscaped
  /\ UNCHANGED <<sbPc, sbText, sbLines, sbOut>>

SbEndLine(b) ==
  /\ b = "cr"
  /\ sbLines' = Append(sbLines, sbText)
  /\ sbText' = <<>> /\ sbEscaped' = FALSE /\ sbControl' = FALSE
  /\ UNCHANGED <<sbPc, sbOut>>

SbCharacter(b) ==
  /\ b # "cr" /\ (b = "$" => sbEscaped) /\ (b = "^" => sbControl)
  /\ CASE b = "lf" -> SbTake(sbText)
       [] b # "lf" /\ sbEscaped /\ b \in SbDigits -> SbTake(sbText \o SbParam(b))
       [] b # "lf" /\ sbEscaped /\ b \notin SbDigits \cup {"$"} -> SbFatal
       [] b # "lf" /\ (sbEscaped => b = "$") /\ sbControl ->
            IF b \in SbLetters THEN SbTake(Append(sbText, SbControlCode(b))) ELSE SbFatal
       [] b # "lf" /\ (sbEscaped => b = "$") /\ ~sbControl -> SbTake(Append(sbText, b))

SbRead(b) ==
  /\ sbPc = "text" /\ Len(sbTyped) < SbMaxBytes
  /\ SbMark(b) \/ SbEndLine(b) \/ SbCharacter(b)
  /\ sbTyped' = Append(sbTyped, b)
  /\ UNCHANGED sbFull

\* ^Z, the end of the file, or a read error.
SbReadEnd ==
  /\ sbPc = "text"
  /\ \/ sbPc' = "delete" /\ UNCHANGED <<sbEscaped, sbControl, sbText, sbLines, sbOut>>
     \/ SbFatal
  /\ UNCHANGED <<sbTyped, sbFull>>

-----------------------------------------------------------------------------
(* main, after the script has been read *)

sbScript == <<sbEscaped, sbControl, sbText, sbTyped>>

SbDelete ==
  /\ sbPc = "delete"
  /\ sbPc' = "make" /\ sbOut' = SbNoFile
  /\ UNCHANGED <<sbLines, sbScript, sbFull>>

SbMake ==
  /\ sbPc = "make"
  /\ \/ SbFatal
     \/ sbPc' = "write" /\ sbOut' = <<>> /\ UNCHANGED <<sbEscaped, sbControl, sbText, sbLines>>
  /\ UNCHANGED <<sbTyped, sbFull>>

\* Mutant: the first line first.
SbWriteForward ==
  /\ sbPc = "write" /\ sbLines # <<>>
  /\ sbOut' = Append(sbOut, Head(sbLines)) /\ sbLines' = Tail(sbLines)
  /\ UNCHANGED <<sbPc, sbScript, sbFull>>

\* A full disk is reported with 1 or 2: only 0xff is an error.
SbWrite ==
  /\ sbPc = "write" /\ sbLines # <<>>
  /\ \/ /\ sbOut' = Append(sbOut, Last(sbLines)) /\ sbLines' = Front(sbLines)
        /\ UNCHANGED <<sbPc, sbScript, sbFull>>
     \/ /\ sbLines' = Front(sbLines) /\ sbFull' = TRUE
        /\ UNCHANGED <<sbPc, sbOut, sbScript>>
     \/ SbFatal /\ UNCHANGED <<sbTyped, sbFull>>

SbWritten ==
  /\ sbPc = "write" /\ sbLines = <<>>
  /\ sbPc' = "close"
  /\ UNCHANGED <<sbOut, sbLines, sbScript, sbFull>>

SbClose ==
  /\ sbPc = "close"
  /\ \/ sbPc' = "restart" /\ UNCHANGED <<sbOut, sbLines, sbScript>>
     \/ SbFatal /\ UNCHANGED sbTyped
  /\ UNCHANGED sbFull

SbNext ==
  \/ \E b \in SbByte : SbRead(b)
  \/ SbReadEnd \/ SbDelete \/ SbMake \/ SbWrite \/ SbWritten \/ SbClose

-----------------------------------------------------------------------------
(* What a script means, from its bytes alone. *)

\* What one more byte makes of a line that has been scanned so far.
SbScanned(p, c) ==
  LET plain(t) == [lines |-> p.lines, text |-> p.text \o t, esc |-> FALSE, ctl |-> FALSE]
  IN  CASE c = "$" /\ ~p.esc -> [p EXCEPT !.esc = TRUE]
        [] c = "^" /\ ~p.ctl -> [p EXCEPT !.ctl = TRUE]
        [] c = "cr" -> [lines |-> Append(p.lines, p.text), text |-> <<>>,
                        esc |-> FALSE, ctl |-> FALSE]
        [] c = "lf" -> plain(<<>>)
        [] c \in SbDigits /\ p.esc -> plain(SbParam(c))
        [] OTHER -> plain(<<IF p.ctl THEN SbControlCode(c) ELSE c>>)

\* The script scanned from the left, after each of its bytes.
SbScan(typed) ==
  LET s[k \in 0..Len(typed)] ==
        IF k = 0 THEN [lines |-> <<>>, text |-> <<>>, esc |-> FALSE, ctl |-> FALSE]
        ELSE SbScanned(s[k - 1], typed[k])
  IN  s

SbMeaning(typed) == SbScan(typed)[Len(typed)].lines

\* When the program restarts the system, $$$.SUB holds the lines of the script, each
\* that a carriage return ends, the last one first (main), unless the disk was full.
SbFileIsTheScript ==
  sbPc = "restart" /\ ~sbFull => Reverse(sbOut) = SbMeaning(sbTyped)

\* A program that gives up leaves no part of a script to be run (fatal).
SbNothingLeft == sbPc = "exit" => sbOut = SbNoFile

\* What the command processor will run is the script or nothing.
SbScriptOrNothing == SbFileIsTheScript /\ SbNothingLeft
===============================================================================
