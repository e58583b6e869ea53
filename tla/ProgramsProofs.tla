---------------------------- MODULE ProgramsProofs ----------------------------
(***************************************************************************)
(* Proofs about the programs, one after another, and about Programs, in    *)
(* which one of them runs.                                                 *)
(***************************************************************************)
EXTENDS Programs, AsmExprProofs

(***************************************************************************)
(* SUBMIT                                                                  *)
(***************************************************************************)
SbTokens == SbByte \cup {"p"} \cup {SbControlCode(c) : c \in SbByte}
SbScans  == [lines : Seq(Seq(SbTokens)), text : Seq(SbTokens), esc : BOOLEAN, ctl : BOOLEAN]
SbBegun  == [lines |-> <<>>, text |-> <<>>, esc |-> FALSE, ctl |-> FALSE]

\* What the scan gives are lines and a text of tokens.
LEMMA SbScannedType ==
  ASSUME NEW p \in SbScans, NEW c \in SbByte
  PROVE  SbScanned(p, c) \in SbScans
<1>1. SbParam(c) \in Seq(SbTokens)
  <2>1. CASE c \in DOMAIN SbParams
    <3>1. SbParams[c] \in Nat
      BY <2>1, SbAssumption
    <3>2. SbParam(c) = [i \in 1..SbParams[c] |-> "p"] /\ "p" \in SbTokens
      BY <2>1, Zenon DEF SbParam, SbTokens
    <3> HIDE DEF SbTokens
    <3> QED
      BY <3>1, <3>2
  <2>2. CASE c \notin DOMAIN SbParams
    BY <2>2 DEF SbParam
  <2> QED
    BY <2>1, <2>2
<1>2. c \in SbTokens /\ SbControlCode(c) \in SbTokens
  BY DEF SbTokens
<1>3. /\ p.lines \in Seq(Seq(SbTokens)) /\ p.text \in Seq(SbTokens)
      /\ p.esc \in BOOLEAN /\ p.ctl \in BOOLEAN
  BY DEF SbScans
<1>4. \A t \in Seq(SbTokens) :
        [lines |-> p.lines, text |-> p.text \o t, esc |-> FALSE, ctl |-> FALSE] \in SbScans
  BY <1>3 DEF SbScans
<1>5. [p EXCEPT !.esc = TRUE] \in SbScans /\ [p EXCEPT !.ctl = TRUE] \in SbScans
  BY DEF SbScans
<1>6. [lines |-> Append(p.lines, p.text), text |-> <<>>, esc |-> FALSE, ctl |-> FALSE] \in SbScans
  BY <1>3 DEF SbScans
<1>7. <<IF p.ctl THEN SbControlCode(c) ELSE c>> \in Seq(SbTokens) /\ <<>> \in Seq(SbTokens)
  BY <1>2
<1> QED
  BY <1>1, <1>4, <1>5, <1>6, <1>7, ZenonT(30) DEF SbScanned

\* The scan of a script, byte by byte.
LEMMA SbScanRec ==
  ASSUME NEW typed \in Seq(SbByte)
  PROVE  /\ SbScan(typed) \in [0..Len(typed) -> SbScans]
         /\ SbScan(typed)[0] = SbBegun
         /\ \A k \in 1..Len(typed) :
              SbScan(typed)[k] = SbScanned(SbScan(typed)[k - 1], typed[k])
<1> DEFINE n == Len(typed)
           F == [pk \in SbScans \X (1..n) |-> SbScanned(pk[1], typed[pk[2]])]
           Body(s) == [k \in 0..n |-> IF k = 0 THEN SbBegun ELSE SbScanned(s[k - 1], typed[k])]
<1>1. n \in Nat /\ \A k \in 1..n : typed[k] \in SbByte
  OBVIOUS
<1>2. SbBegun \in SbScans
  BY DEF SbBegun, SbScans
<1>3. F \in [SbScans \X (1..n) -> SbScans]
  BY <1>1, SbScannedType
<1>4. SbScan(typed) = CHOOSE s : s = Body(s)
  BY Zenon DEF SbScan, SbBegun
<1> HIDE DEF n
<1>5. PICK s : Recursive(s, SbScans, SbBegun, n, F)
  <2> HIDE DEF F
  <2> QED
    BY <1>1, <1>2, <1>3, PrimRec, Zenon
<1>6. \A k \in 1..n : s[k] = SbScanned(s[k - 1], typed[k])
  <2> TAKE k \in 1..n
  <2>1. s[k - 1] \in SbScans
    BY <1>1, <1>5 DEF Recursive
  <2>2. F[<<s[k - 1], k>>] = SbScanned(s[k - 1], typed[k])
    BY <2>1
  <2> QED
    BY <1>5, <2>2 DEF Recursive
<1>7. s = Body(s)
  BY <1>1, <1>5, <1>6 DEF Recursive
<1> DEFINE t == SbScan(typed)
<1>8. t = Body(t)
  BY <1>4, <1>7, Zenon
<1> HIDE DEF t
<1>9. t[0] = SbBegun /\ \A k \in 1..n : t[k] = SbScanned(t[k - 1], typed[k])
  BY <1>1, <1>8
<1>10. \A k \in 0..n : t[k] \in SbScans
  <2> DEFINE G == {k \in 0..n : t[k] \in SbScans}
  <2>1. 0 \in G
    BY <1>1, <1>2, <1>9
  <2>2. ASSUME NEW k \in 1..n, k - 1 \in G
        PROVE  k \in G
    <3>1. t[k] = SbScanned(t[k - 1], typed[k]) /\ t[k - 1] \in SbScans /\ typed[k] \in SbByte
      BY <1>1, <1>9, <2>2
    <3>2. t[k] \in SbScans
      BY <3>1, SbScannedType
    <3> QED
      BY <1>1, <3>2
  <2>3. 0..n \subseteq G
    <3> HIDE DEF G
    <3> QED
      BY <1>1, <2>1, <2>2, UpTo
  <2> QED
    BY <2>3
<1>11. t \in [0..n -> SbScans]
  BY <1>8, <1>10
<1> QED
  BY <1>9, <1>11 DEF n, t

\* One more byte.
LEMMA SbScanMore ==
  ASSUME NEW typed \in Seq(SbByte), NEW b \in SbByte
  PROVE  /\ Len(Append(typed, b)) = Len(typed) + 1 /\ Append(typed, b) \in Seq(SbByte)
         /\ SbScan(Append(typed, b))[Len(typed) + 1]
              = SbScanned(SbScan(typed)[Len(typed)], b)
<1> DEFINE n == Len(typed)
           longer == Append(typed, b)
           s == SbScan(typed)
           t == SbScan(longer)
<1>1. /\ n \in Nat /\ longer \in Seq(SbByte) /\ Len(longer) = n + 1 /\ longer[n + 1] = b
      /\ \A k \in 1..n : longer[k] = typed[k]
  OBVIOUS
<1>2. s[0] = SbBegun /\ \A k \in 1..n : s[k] = SbScanned(s[k - 1], typed[k])
  BY SbScanRec
<1>3. t[0] = SbBegun /\ \A k \in 1..n + 1 : t[k] = SbScanned(t[k - 1], longer[k])
  <2> HIDE DEF longer
  <2> QED
    BY <1>1, SbScanRec
<1> HIDE DEF n, longer, s, t
<1>4. \A k \in 0..n : t[k] = s[k]
  <2> DEFINE G == {k \in 0..n : t[k] = s[k]}
  <2>1. 0 \in G
    BY <1>1, <1>2, <1>3
  <2>2. ASSUME NEW k \in 1..n, k - 1 \in G
        PROVE  k \in G
    <3>1. k \in 1..n + 1 /\ t[k - 1] = s[k - 1] /\ longer[k] = typed[k]
      BY <1>1, <2>2
    <3> QED
      BY <1>2, <1>3, <3>1
  <2>3. 0..n \subseteq G
    <3> HIDE DEF G
    <3> QED
      BY <1>1, <2>1, <2>2, UpTo
  <2> QED
    BY <2>3
<1>5. n + 1 \in 1..n + 1 /\ (n + 1) - 1 = n /\ n \in 0..n
  BY <1>1
<1>6. t[n + 1] = SbScanned(s[n], b)
  BY <1>1, <1>3, <1>4, <1>5
<1> QED
  BY <1>1, <1>6 DEF n, longer, s, t

-----------------------------------------------------------------------------
SbTypes ==
  /\ sbPc \in {"off", "text", "delete", "make", "write", "close", "restart", "exit"}
  /\ sbText \in Seq(SbTokens) /\ sbLines \in Seq(Seq(SbTokens)) /\ sbTyped \in Seq(SbByte)
  /\ Len(sbText) < SbLine /\ Len(sbTyped) <= SbMaxBytes
  /\ \A i \in 1..Len(sbLines) : Len(sbLines[i]) < SbLine

SbFlags == sbEscaped \in BOOLEAN /\ sbControl \in BOOLEAN /\ sbFull \in BOOLEAN

\* While the script is read, what has become of it is its scan; then, its lines.
SbReading ==
  sbPc = "text" =>
    SbScan(sbTyped)[Len(sbTyped)]
      = [lines |-> sbLines, text |-> sbText, esc |-> sbEscaped, ctl |-> sbControl]
SbHasRead == sbPc \in {"delete", "make"} => SbMeaning(sbTyped) = sbLines

\* While the file is written, the lines are those still to be written and, from its end,
\* those of the file.
SbWriting ==
  sbPc \in {"write", "close", "restart"} =>
    /\ sbOut \in Seq(Seq(SbTokens))
    /\ ~sbFull =>
         /\ SbMeaning(sbTyped) \in Seq(Seq(SbTokens))
         /\ Len(SbMeaning(sbTyped)) = Len(sbLines) + Len(sbOut)
         /\ \A i \in 1..Len(sbLines) : SbMeaning(sbTyped)[i] = sbLines[i]
         /\ \A i \in 1..Len(sbOut) :
              sbOut[i] = SbMeaning(sbTyped)[Len(sbLines) + Len(sbOut) + 1 - i]

SbInv ==
  /\ SbTypes /\ SbFlags /\ SbReading /\ SbHasRead /\ SbWriting
  /\ sbPc \in {"close", "restart"} => sbLines = <<>>
  /\ SbNothingLeft

\* The invariant of SUBMIT holds at the start.
LEMMA SbInitial == SbStart \/ SbOff => SbInv
<1>1. ASSUME sbPc \in {"off", "text"}, sbText = <<>>, sbLines = <<>>, sbTyped = <<>>,
             sbEscaped = FALSE, sbControl = FALSE, sbFull = FALSE
      PROVE  SbInv
  <2>1. Len(<<>>) = 0 /\ <<>> \in Seq(SbTokens) /\ <<>> \in Seq(Seq(SbTokens)) /\ <<>> \in Seq(SbByte)
    OBVIOUS
  <2>2. SbTypes
    BY <1>1, <2>1, SbAssumption DEF SbTypes
  <2>3. SbFlags
    BY <1>1 DEF SbFlags
  <2>4. SbReading
    BY <1>1, <2>1, SbScanRec DEF SbReading, SbBegun
  <2> QED
    BY <1>1, <2>2, <2>3, <2>4 DEF SbInv, SbHasRead, SbWriting, SbNothingLeft
<1> QED
  BY <1>1 DEF SbStart, SbOff

\* Giving up leaves nothing to run.
LEMMA SbGivesUp ==
  ASSUME SbTypes, SbFlags, SbFatal, sbTyped' \in Seq(SbByte), Len(sbTyped') <= SbMaxBytes,
         UNCHANGED sbFull
  PROVE  SbInv'
<1>1. /\ sbPc' = "exit" /\ sbOut' = SbNoFile /\ sbText' = sbText /\ sbLines' = sbLines
      /\ sbEscaped' = sbEscaped /\ sbControl' = sbControl /\ sbFull' = sbFull
  BY DEF SbFatal
<1>2. SbTypes'
  BY <1>1 DEF SbTypes
<1>3. SbFlags'
  BY <1>1 DEF SbFlags
<1> QED
  BY <1>1, <1>2, <1>3 DEF SbInv, SbReading, SbHasRead, SbWriting, SbNothingLeft

\* A byte is read: the scan does with it what process_byte does.
LEMMA SbReadStep ==
  ASSUME SbInv, NEW b \in SbByte, SbRead(b)
  PROVE  SbInv'
<1> DEFINE typed == Append(sbTyped, b)
           now   == [lines |-> sbLines, text |-> sbText, esc |-> sbEscaped, ctl |-> sbControl]
           next  == [lines |-> sbLines', text |-> sbText', esc |-> sbEscaped', ctl |-> sbControl']
<1>1. /\ sbPc = "text" /\ sbTyped' = typed /\ sbFull' = sbFull /\ Len(sbTyped) < SbMaxBytes
      /\ SbMark(b) \/ SbEndLine(b) \/ SbCharacter(b)
  BY DEF SbRead
<1>2. SbTypes /\ SbFlags /\ sbTyped \in Seq(SbByte)
  BY DEF SbInv, SbTypes
<1>3. /\ typed \in Seq(SbByte) /\ Len(typed) = Len(sbTyped) + 1 /\ Len(typed) <= SbMaxBytes
      /\ SbScan(typed)[Len(typed)] = SbScanned(now, b)
  BY <1>1, <1>2, SbScanMore, SbAssumption DEF SbInv, SbReading
<1>4. ASSUME sbPc' = "text", sbText' \in Seq(SbTokens), Len(sbText') < SbLine,
             sbLines' \in Seq(Seq(SbTokens)),
             \A i \in 1..Len(sbLines') : Len(sbLines'[i]) < SbLine,
             sbEscaped' \in BOOLEAN, sbControl' \in BOOLEAN, SbScanned(now, b) = next
      PROVE  SbInv'
  <2> HIDE DEF typed, now, next
  <2>1. SbTypes'
    BY <1>1, <1>3, <1>4 DEF SbTypes
  <2>2. SbFlags'
    BY <1>1, <1>2, <1>4 DEF SbFlags
  <2>3. SbReading'
    BY <1>1, <1>3, <1>4 DEF SbReading, next
  <2> QED
    BY <1>4, <2>1, <2>2, <2>3 DEF SbInv, SbHasRead, SbWriting, SbNothingLeft
<1>5. CASE SbMark(b)
  <2>1. sbPc' = sbPc /\ sbText' = sbText /\ sbLines' = sbLines
    BY <1>5 DEF SbMark
  <2>2. \/ b = "$" /\ sbEscaped = FALSE /\ sbEscaped' = TRUE /\ sbControl' = sbControl
        \/ b = "^" /\ sbControl = FALSE /\ sbControl' = TRUE /\ sbEscaped' = sbEscaped
    BY <1>2, <1>5 DEF SbMark, SbFlags
  <2>3. SbScanned(now, b) = next
    <3>1. "$" \notin SbDigits /\ "^" \notin SbDigits
      BY SbAssumption
    <3>2. CASE b = "$" /\ sbEscaped = FALSE /\ sbEscaped' = TRUE /\ sbControl' = sbControl
      <4>1. SbScanned(now, b) = [now EXCEPT !.esc = TRUE]
        BY <3>1, <3>2 DEF SbScanned
      <4> QED
        BY <2>1, <3>2, <4>1
    <3>3. CASE b = "^" /\ sbControl = FALSE /\ sbControl' = TRUE /\ sbEscaped' = sbEscaped
      <4>1. SbScanned(now, b) = [now EXCEPT !.ctl = TRUE]
        BY <3>1, <3>3 DEF SbScanned
      <4> QED
        BY <2>1, <3>3, <4>1
    <3> QED
      BY <2>2, <3>2, <3>3
  <2> QED
    BY <1>1, <1>2, <1>4, <2>1, <2>2, <2>3 DEF SbTypes, SbFlags
<1>6. CASE SbEndLine(b)
  <2>1. /\ b = "cr" /\ sbPc' = sbPc /\ sbText' = <<>> /\ sbLines' = Append(sbLines, sbText)
        /\ sbEscaped' = FALSE /\ sbControl' = FALSE
    BY <1>6 DEF SbEndLine
  <2>2. SbScanned(now, b) = next
    <3>1. "cr" \notin SbDigits
      BY SbAssumption
    <3>2. SbScanned(now, b) = [lines |-> Append(sbLines, sbText), text |-> <<>>,
                               esc |-> FALSE, ctl |-> FALSE]
      BY <2>1, <3>1 DEF SbScanned
    <3> QED
      BY <2>1, <3>2
  <2>3. /\ sbLines' \in Seq(Seq(SbTokens)) /\ sbText' \in Seq(SbTokens) /\ Len(sbText') < SbLine
        /\ \A i \in 1..Len(sbLines') : Len(sbLines'[i]) < SbLine
    BY <1>2, <2>1, SbAssumption DEF SbTypes
  <2> QED
    BY <1>1, <1>4, <2>1, <2>2, <2>3
<1>7. CASE SbCharacter(b)
  <2>1. CASE SbFatal
    BY <1>1, <1>2, <1>3, <2>1, SbGivesUp
  <2>2. CASE ~SbFatal
    <3>1. ASSUME NEW text \in Seq(SbTokens), SbTake(text),
                 SbScanned(now, b) = [lines |-> sbLines, text |-> text, esc |-> FALSE, ctl |-> FALSE]
          PROVE  SbInv'
      <4>1. /\ sbPc' = sbPc /\ sbText' = text /\ sbLines' = sbLines
            /\ sbEscaped' = FALSE /\ sbControl' = FALSE /\ ~(Len(text) >= SbLine)
        BY <2>2, <3>1 DEF SbTake
      <4>2. Len(text) < SbLine
        BY <4>1, SbAssumption
      <4> HIDE DEF now
      <4>3. sbEscaped' \in BOOLEAN /\ sbControl' \in BOOLEAN /\ SbScanned(now, b) = next
        BY <3>1, <4>1
      <4> QED
        BY <1>1, <1>2, <1>4, <4>1, <4>2, <4>3 DEF SbTypes
    <3>2. /\ b \in SbTokens /\ SbControlCode(b) \in SbTokens /\ sbText \in Seq(SbTokens)
          /\ sbText \o <<>> = sbText
      BY <1>2 DEF SbTypes, SbTokens
    <3>3. b # "cr" /\ (b = "$" => sbEscaped) /\ (b = "^" => sbControl)
      BY <1>7 DEF SbCharacter
    <3>4. CASE b = "lf"
      <4>1. SbTake(sbText)
        BY <1>7, <3>4 DEF SbCharacter
      <4>2. "lf" \notin SbDigits
        BY SbAssumption
      <4>3. SbScanned(now, b) = [lines |-> sbLines, text |-> sbText \o <<>>, esc |-> FALSE, ctl |-> FALSE]
        BY <3>3, <3>4, <4>2 DEF SbScanned
      <4> QED
        BY <3>1, <3>2, <4>1, <4>3
    <3>5. CASE b # "lf" /\ sbEscaped /\ b \in SbDigits
      <4>1. SbTake(sbText \o SbParam(b))
        BY <1>7, <3>5, SbAssumption DEF SbCharacter
      <4>2. b \notin {"$", "^", "cr", "lf"}
        BY <3>5, SbAssumption
      <4>3. SbScanned(now, b) = [lines |-> sbLines, text |-> sbText \o SbParam(b), esc |-> FALSE, ctl |-> FALSE]
        BY <3>5, <4>2 DEF SbScanned
      <4>4. sbText \o SbParam(b) \in Seq(SbTokens)
        <5>1. now \in SbScans
          BY <1>2 DEF SbTypes, SbFlags, SbScans
        <5>2. SbScanned(now, b) \in SbScans
          BY <5>1, SbScannedType
        <5>3. SbScanned(now, b).text \in Seq(SbTokens)
          BY <5>2 DEF SbScans
        <5> HIDE DEF now
        <5>4. SbScanned(now, b).text = sbText \o SbParam(b)
          BY <4>3
        <5> QED
          BY <5>3, <5>4
      <4> QED
        BY <3>1, <4>1, <4>3, <4>4
    <3>6. CASE b # "lf" /\ sbEscaped /\ b \notin SbDigits \cup {"$"}
      BY <1>7, <2>2, <3>6 DEF SbCharacter
    <3>7. CASE b # "lf" /\ (sbEscaped => b = "$")
      <4>1. "$" \notin SbDigits
        BY SbAssumption
      <4>2. ~(b \in SbDigits /\ sbEscaped)
        BY <3>7, <4>1
      <4>3. CASE sbControl
        <5>1. IF b \in SbLetters THEN SbTake(Append(sbText, SbControlCode(b))) ELSE SbFatal
          BY <1>7, <3>7, <4>1, <4>3 DEF SbCharacter
        <5>2. SbTake(Append(sbText, SbControlCode(b)))
          BY <2>2, <5>1
        <5>3. SbScanned(now, b) = [lines |-> sbLines, text |-> sbText \o <<SbControlCode(b)>>, esc |-> FALSE, ctl |-> FALSE]
          BY <3>3, <3>7, <4>2, <4>3 DEF SbScanned
        <5>4. sbText \o <<SbControlCode(b)>> = Append(sbText, SbControlCode(b)) /\ Append(sbText, SbControlCode(b)) \in Seq(SbTokens)
          BY <3>2
        <5> HIDE DEF now
        <5>5. SbScanned(now, b) = [lines |-> sbLines, text |-> Append(sbText, SbControlCode(b)),
                                   esc |-> FALSE, ctl |-> FALSE]
          BY <5>3, <5>4
        <5> QED
          BY <3>1, <5>2, <5>4, <5>5, Zenon
      <4>4. CASE ~sbControl
        <5>1. SbTake(Append(sbText, b))
          BY <1>7, <3>7, <4>1, <4>4 DEF SbCharacter
        <5>2. SbScanned(now, b) = [lines |-> sbLines, text |-> sbText \o <<b>>, esc |-> FALSE, ctl |-> FALSE]
          BY <3>3, <3>7, <4>2, <4>4 DEF SbScanned
        <5>3. sbText \o <<b>> = Append(sbText, b) /\ Append(sbText, b) \in Seq(SbTokens)
          BY <3>2
        <5> HIDE DEF now
        <5>4. SbScanned(now, b) = [lines |-> sbLines, text |-> Append(sbText, b),
                                   esc |-> FALSE, ctl |-> FALSE]
          BY <5>2, <5>3
        <5> QED
          BY <3>1, <5>1, <5>3, <5>4, Zenon
      <4> QED
        BY <4>3, <4>4
    <3> QED
      BY <3>4, <3>5, <3>6, <3>7
  <2> QED
    BY <2>1, <2>2
<1> QED
  BY <1>1, <1>5, <1>6, <1>7

\* The steps of main.
LEMMA SbMainStep ==
  ASSUME SbInv, SbReadEnd \/ SbDelete \/ SbMake \/ SbWrite \/ SbWritten \/ SbClose
  PROVE  SbInv'
<1>0. SbTypes /\ SbFlags /\ sbTyped \in Seq(SbByte) /\ Len(sbTyped) <= SbMaxBytes
  BY DEF SbInv, SbTypes
<1>1. CASE SbFatal /\ sbTyped' = sbTyped /\ sbFull' = sbFull
  BY <1>0, <1>1, SbGivesUp
<1>2. CASE SbReadEnd /\ ~SbFatal
  <2>1. /\ sbPc = "text" /\ sbPc' = "delete" /\ sbText' = sbText /\ sbLines' = sbLines
        /\ sbEscaped' = sbEscaped /\ sbControl' = sbControl /\ sbFull' = sbFull
        /\ sbTyped' = sbTyped /\ sbOut' = sbOut
    BY <1>2 DEF SbReadEnd
  <2>2. SbTypes' /\ SbFlags'
    BY <1>0, <2>1 DEF SbTypes, SbFlags
  <2>3. SbHasRead'
    BY <2>1 DEF SbInv, SbReading, SbHasRead, SbMeaning
  <2> QED
    BY <2>1, <2>2, <2>3 DEF SbInv, SbReading, SbWriting, SbNothingLeft
<1>3. CASE SbDelete
  <2>1. /\ sbPc = "delete" /\ sbPc' = "make" /\ sbText' = sbText /\ sbLines' = sbLines
        /\ sbEscaped' = sbEscaped /\ sbControl' = sbControl /\ sbFull' = sbFull
        /\ sbTyped' = sbTyped
    BY <1>3 DEF SbDelete, sbScript
  <2>2. SbTypes' /\ SbFlags'
    BY <1>0, <2>1 DEF SbTypes, SbFlags
  <2>3. SbHasRead'
    BY <2>1 DEF SbInv, SbHasRead
  <2> QED
    BY <2>1, <2>2, <2>3 DEF SbInv, SbReading, SbWriting, SbNothingLeft
<1>4. CASE SbMake /\ ~SbFatal
  <2>1. /\ sbPc = "make" /\ sbPc' = "write" /\ sbText' = sbText /\ sbLines' = sbLines
        /\ sbEscaped' = sbEscaped /\ sbControl' = sbControl /\ sbFull' = sbFull
        /\ sbTyped' = sbTyped /\ sbOut' = <<>>
    BY <1>4 DEF SbMake
  <2>2. SbTypes' /\ SbFlags'
    BY <1>0, <2>1 DEF SbTypes, SbFlags
  <2>3. SbMeaning(sbTyped) = sbLines
    BY <2>1 DEF SbInv, SbHasRead
  <2>4. SbWriting'
    <3>1. sbLines \in Seq(Seq(SbTokens)) /\ Len(<<>>) = 0 /\ <<>> \in Seq(Seq(SbTokens))
      BY <1>0 DEF SbTypes
    <3> QED
      BY <2>1, <2>3, <3>1 DEF SbWriting
  <2> QED
    BY <2>1, <2>2, <2>4 DEF SbInv, SbReading, SbHasRead, SbNothingLeft
<1>5. CASE SbWrite /\ ~SbFatal
  <2>1. /\ sbPc = "write" /\ sbPc' = "write" /\ sbText' = sbText /\ sbLines' = Front(sbLines)
        /\ sbEscaped' = sbEscaped /\ sbControl' = sbControl /\ sbTyped' = sbTyped
        /\ sbLines # <<>>
        /\ \/ sbOut' = Append(sbOut, Last(sbLines)) /\ sbFull' = sbFull
           \/ sbOut' = sbOut /\ sbFull' = TRUE
    BY <1>5 DEF SbWrite, sbScript
  <2>2. /\ Front(sbLines) \in Seq(Seq(SbTokens)) /\ Len(Front(sbLines)) = Len(sbLines) - 1
        /\ \A i \in 1..Len(sbLines) - 1 : Front(sbLines)[i] = sbLines[i]
        /\ Len(sbLines) \in Nat \ {0} /\ Last(sbLines) = sbLines[Len(sbLines)]
        /\ Last(sbLines) \in Seq(SbTokens)
    <3>1. sbLines \in Seq(Seq(SbTokens)) /\ Len(sbLines) \in Nat \ {0}
      BY <1>0, <2>1 DEF SbTypes
    <3>2. \A i \in 1..Len(sbLines) - 1 : sbLines[i] \in Seq(SbTokens)
      BY <3>1
    <3>3. Len(sbLines) - 1 \in Nat /\ 1 + Len(sbLines) - 2 = Len(sbLines) - 1
      BY <3>1
    <3> QED
      BY <3>1, <3>2, <3>3, SubSeqProperties DEF Front, Last
  <2>3. SbTypes'
    <3> PICK n : n = Len(sbLines)
      OBVIOUS
    <3>1. /\ sbLines' \in Seq(Seq(SbTokens)) /\ Len(sbLines') = n - 1 /\ n \in Nat \ {0}
          /\ \A i \in 1..n - 1 : sbLines'[i] = sbLines[i]
      BY <2>1, <2>2
    <3>2. \A i \in 1..n : Len(sbLines[i]) < SbLine
      BY <1>0 DEF SbTypes
    <3>3. \A i \in 1..Len(sbLines') : Len(sbLines'[i]) < SbLine
      BY ONLY <3>1, <3>2
    <3> QED
      BY <1>0, <2>1, <3>1, <3>3 DEF SbTypes
  <2>4. SbFlags'
    BY <1>0, <2>1 DEF SbFlags
  <2>5. SbWriting'
    <3> DEFINE M == SbMeaning(sbTyped)
               L == Len(sbLines)
               O == Len(sbOut)
    <3>1. sbOut \in Seq(Seq(SbTokens)) /\ SbMeaning(sbTyped)' = M
      BY <2>1 DEF SbInv, SbWriting
    <3>2. CASE sbFull'
      <4>1. CASE sbOut' = sbOut
        BY <3>1, <3>2, <4>1 DEF SbWriting
      <4>2. CASE sbOut' = Append(sbOut, Last(sbLines))
        <5>1. sbOut' \in Seq(Seq(SbTokens))
          BY <2>2, <3>1, <4>2
        <5> QED
          BY <3>2, <5>1 DEF SbWriting
      <4> QED
        BY <2>1, <4>1, <4>2
    <3>3. CASE ~sbFull'
      <4>1. sbOut' = Append(sbOut, sbLines[L]) /\ ~sbFull
        BY <2>1, <2>2, <3>3
      <4>2. /\ M \in Seq(Seq(SbTokens)) /\ Len(M) = L + O
            /\ \A i \in 1..L : M[i] = sbLines[i]
            /\ \A i \in 1..O : sbOut[i] = M[L + O + 1 - i]
        BY <2>1, <4>1 DEF SbInv, SbWriting
      <4>3. /\ sbOut' \in Seq(Seq(SbTokens)) /\ Len(sbOut') = O + 1 /\ sbOut'[O + 1] = sbLines[L]
            /\ \A i \in 1..O : sbOut'[i] = sbOut[i]
            /\ O \in Nat /\ L \in Nat \ {0}
        BY <2>2, <3>1, <4>1
      <4>4. /\ Len(sbLines') = L - 1 /\ \A i \in 1..L - 1 : sbLines'[i] = sbLines[i]
        BY <2>1, <2>2
      <4>5. sbLines[L] = M[L]
        <5>1. L \in 1..L
          BY <4>3
        <5> QED
          BY <4>2, <5>1
      <4> HIDE DEF M, L, O
      <4>6. Len(M) = Len(sbLines') + Len(sbOut')
        BY <4>2, <4>3, <4>4
      <4>7. \A i \in 1..Len(sbLines') : M[i] = sbLines'[i]
        BY <4>2, <4>3, <4>4
      <4>8. \A i \in 1..Len(sbOut') : sbOut'[i] = M[Len(sbLines') + Len(sbOut') + 1 - i]
        <5> TAKE i \in 1..Len(sbOut')
        <5>1. Len(sbLines') + Len(sbOut') + 1 - i = L + O + 1 - i
          BY <4>3, <4>4
        <5>2. CASE i = O + 1
          BY <4>3, <4>5, <5>1, <5>2
        <5>3. CASE i # O + 1
          <6>1. i \in 1..O
            BY <4>3, <5>3
          <6>2. sbOut'[i] = sbOut[i] /\ sbOut[i] = M[L + O + 1 - i]
            BY <4>2, <4>3, <6>1
          <6> QED
            BY <5>1, <6>2
        <5> QED
          BY <5>2, <5>3
      <4>9. SbMeaning(sbTyped)' = M
        BY <3>1 DEF M
      <4> QED
        BY <4>2, <4>3, <4>6, <4>7, <4>8, <4>9 DEF SbWriting
    <3> QED
      BY <3>2, <3>3
  <2> QED
    BY <2>1, <2>3, <2>4, <2>5 DEF SbInv, SbReading, SbHasRead, SbNothingLeft
<1>6. CASE SbWritten \/ (SbClose /\ ~SbFatal)
  <2>1. /\ \/ sbPc = "write" /\ sbPc' = "close" /\ sbLines = <<>>
           \/ sbPc = "close" /\ sbPc' = "restart"
        /\ sbText' = sbText /\ sbLines' = sbLines
        /\ sbEscaped' = sbEscaped /\ sbControl' = sbControl /\ sbFull' = sbFull
        /\ sbTyped' = sbTyped /\ sbOut' = sbOut
    BY <1>6 DEF SbWritten, SbClose, sbScript
  <2>2. SbTypes' /\ SbFlags'
    BY <1>0, <2>1 DEF SbTypes, SbFlags
  <2>3. SbWriting'
    BY <2>1 DEF SbInv, SbWriting
  <2>4. sbLines' = <<>>
    BY <2>1 DEF SbInv
  <2> QED
    BY <2>1, <2>2, <2>3, <2>4 DEF SbInv, SbReading, SbHasRead, SbNothingLeft
<1>7. SbFatal => sbTyped' = sbTyped /\ sbFull' = sbFull
  <2>1. SbFatal => sbPc' = "exit"
    BY DEF SbFatal
  <2> QED
    BY <2>1 DEF SbReadEnd, SbDelete, SbMake, SbWrite, SbWritten, SbClose, sbScript
<1> QED
  BY <1>1, <1>2, <1>3, <1>4, <1>5, <1>6, <1>7

\* And every step of SUBMIT keeps it.
LEMMA SbStaysRight ==
  ASSUME SbInv, [SbNext]_sbVars
  PROVE  SbInv'
<1>1. CASE UNCHANGED sbVars
  <2>1. /\ sbPc' = sbPc /\ sbText' = sbText /\ sbLines' = sbLines
        /\ sbEscaped' = sbEscaped /\ sbControl' = sbControl /\ sbFull' = sbFull
        /\ sbTyped' = sbTyped /\ sbOut' = sbOut
    BY <1>1 DEF sbVars
  <2> QED
    BY <2>1 DEF SbInv, SbTypes, SbFlags, SbReading, SbHasRead, SbWriting, SbNothingLeft
<1>2. CASE SbNext
  BY <1>2, SbReadStep, SbMainStep DEF SbNext
<1> QED
  BY <1>1, <1>2

\* submit.c: what is in the file when the program is done are the lines of the script from
\* the last to the first, and when it gives up there is none.
LEMMA SubmitRight == (SbStart \/ SbOff) /\ [][SbNext]_sbVars => [](SbTypeOK /\ SbScriptOrNothing)
<1>1. SbInv => SbTypeOK
  <2>1. SbInv => SbTypes /\ SbFlags
    BY DEF SbInv
  <2> QED
    BY <2>1 DEF SbTypes, SbFlags, SbTypeOK
<1>2. SbInv => SbScriptOrNothing
  <2> SUFFICES ASSUME SbInv
               PROVE  SbScriptOrNothing
    OBVIOUS
  <2>1. ASSUME sbPc = "restart", ~sbFull
        PROVE  Reverse(sbOut) = SbMeaning(sbTyped)
    <3> DEFINE M == SbMeaning(sbTyped)
               O == Len(sbOut)
    <3>1. /\ sbOut \in Seq(Seq(SbTokens)) /\ M \in Seq(Seq(SbTokens)) /\ Len(M) = O
          /\ \A i \in 1..O : sbOut[i] = M[O + 1 - i]
          /\ O \in Nat
      <4>1. sbLines = <<>> /\ Len(<<>>) = 0
        BY <2>1 DEF SbInv
      <4>2. /\ sbOut \in Seq(Seq(SbTokens)) /\ M \in Seq(Seq(SbTokens))
            /\ Len(M) = 0 + O /\ \A i \in 1..O : sbOut[i] = M[0 + O + 1 - i]
        BY <2>1, <4>1 DEF SbInv, SbWriting
      <4> QED
        BY <4>2
    <3>2. /\ Reverse(sbOut) \in Seq(Seq(SbTokens)) /\ Len(Reverse(sbOut)) = O
          /\ \A i \in 1..O : Reverse(sbOut)[i] = sbOut[(O - i) + 1]
      BY <3>1 DEF Reverse
    <3> HIDE DEF M, O
    <3>3. \A i \in 1..O : Reverse(sbOut)[i] = M[i]
      <4> TAKE i \in 1..O
      <4>1. (O - i) + 1 \in 1..O /\ O + 1 - ((O - i) + 1) = i
        BY <3>1
      <4> QED
        BY <3>1, <3>2, <4>1
    <3>4. Reverse(sbOut) = M
      BY <3>1, <3>2, <3>3, SeqEqual
    <3> QED
      BY <3>4 DEF M
  <2> QED
    BY <2>1 DEF SbInv, SbScriptOrNothing, SbFileIsTheScript
<1> QED
  BY <1>1, <1>2, SbInitial, SbStaysRight, PTL

-----------------------------------------------------------------------------
(***************************************************************************)
(* COPY                                                                    *)
(***************************************************************************)
CpRecords == (UNION {Range(c) : c \in CpContents}) \cup {"none"}
CpFile    == Seq(CpRecords)
CpSpec    == [drive : CpDrives, user : CpUsers, names : SUBSET CpNames, marks : SUBSET (0..10)]
CpJob     == [drive : CpDrives, name : CpNames]

\* What can be in a file: all of one that was there, or the beginning of a copy.
CpKnown(file) == file = CpNone \/ \E c \in CpContents : IsPrefix(file, c)

CpTypes ==
  /\ cpPc \in {"off", "search", "next", "check", "open", "make", "read", "write", "close",
               "done", "failed"}
  /\ cpDisk \in [CpPlace -> [CpNames -> CpFile]] /\ cpBefore \in [CpPlace -> [CpNames -> CpFile]]
  /\ cpUser \in CpUsers /\ cpOld \in CpUsers /\ cpCommand \in CpCommands
  /\ cpArgs \in Seq(CpSpec) /\ cpJobs \in Seq(CpJob)
  /\ cpBuf \in CpFile /\ cpPos \in Nat

CpFlags == cpEof \in BOOLEAN /\ Len(cpBuf) <= IF cpCommand.single THEN 1 ELSE CpBuffer

CpAllKnown == \A p \in CpPlace, n \in CpNames : CpKnown(cpDisk[p][n])

\* The specifications still to be searched for are the last ones.
CpArgsLeft ==
  /\ Len(cpArgs) <= Len(cpCommand.specs)
  /\ \A i \in 1..Len(cpArgs) :
       cpArgs[i] = cpCommand.specs[i + (Len(cpCommand.specs) - Len(cpArgs))]

\* A job is a file that some specification is for and that its search has found, or
\* the one that is named.
CpIsJob(job) ==
  IF cpCommand.name = "*"
  THEN /\ \E i \in 1..Len(cpCommand.specs) :
            job.drive = cpCommand.specs[i].drive /\ job.name \in cpCommand.specs[i].names
       /\ cpBefore[CpAt(job.drive, cpOld)][job.name] # CpNone
  ELSE Len(cpCommand.specs) = 1 /\ cpCommand.specs[1].drive = job.drive
         /\ job.name \in cpCommand.specs[1].names
CpJobsRight == \A k \in 1..Len(cpJobs) : CpIsJob(cpJobs[k])

\* The searches so far have found all there is.
CpSearching ==
  cpPc = "search" =>
    /\ cpDisk = cpBefore /\ cpUser = cpOld
    /\ cpCommand.name # "*" => cpJobs = <<>> /\ cpArgs = cpCommand.specs
    /\ \A i \in 1..Len(cpCommand.specs) - Len(cpArgs), n \in CpNames :
         /\ n \in cpCommand.specs[i].names
         /\ cpBefore[CpAt(cpCommand.specs[i].drive, cpOld)][n] # CpNone
         => \E k \in 1..Len(cpJobs) :
              cpJobs[k] = [drive |-> cpCommand.specs[i].drive, name |-> n]

CpTargetOf(job) == IF cpCommand.name = "*" THEN job.name ELSE cpCommand.name

\* A destination is still to be made, or it is one of its sources.
CpPending ==
  cpPc \notin {"off", "search", "failed"} /\ OneUser =>
    \A n \in Copies :
      SourcesOf(n) # {} =>
        \/ \E k \in 1..Len(cpJobs) : CpTargetOf(cpJobs[k]) = n
        \/ cpDisk[cpCommand.to][n] \in SourcesOf(n)

\* The file that is copied and what there is of its copy.
CpFrom == cpDisk[Source][Head(cpJobs).name]
CpTo   == cpDisk[cpCommand.to][TargetName]

CpCopied ==
  /\ Len(CpTo) + Len(cpBuf) = cpPos /\ cpPos <= Len(CpFrom)
  /\ \A i \in 1..Len(CpTo) : CpTo[i] = CpFrom[i]
  /\ \A i \in 1..Len(cpBuf) : cpBuf[i] = CpFrom[Len(CpTo) + i]

\* Of the files that the destination's name matches there are none but the copy.
CpCleared == \A n \in Hits : n = TargetName \/ cpDisk[cpCommand.to][n] = CpNone

\* What each place of copy_one_file relies on.
CpWorking ==
  /\ cpPc = "done" => cpJobs = <<>>
  /\ cpPc \in {"check", "open", "make", "read", "write", "close"} => cpJobs # <<>>
  /\ cpPc \in {"open", "make", "read", "write", "close"} =>
       cpCommand.erase \/ cpBefore[cpCommand.to][TargetName] = CpNone
  /\ cpPc = "open" => CpTo = CpNone
  /\ cpPc \in {"open", "make", "read", "write", "close"} => CpCleared
  /\ cpPc \in {"make", "read", "write", "close"} =>
       CpFrom # CpNone /\ <<Source, Head(cpJobs).name>> # <<cpCommand.to, TargetName>>
  /\ cpPc = "make" => cpPos = 0 /\ cpBuf = <<>>
  /\ cpPc \in {"make", "read"} => ~cpEof
  /\ cpPc \in {"read", "write", "close"} => CpCopied
  /\ cpPc \in {"write", "close"} /\ cpEof => cpPos = Len(CpFrom)
  /\ cpPc = "close" => cpBuf = <<>> /\ cpEof

CpInv ==
  /\ CpTypes /\ CpFlags /\ CpAllKnown /\ CpArgsLeft /\ CpJobsRight /\ CpSearching /\ CpPending
  /\ CpWorking /\ CpOthersKept /\ CpUserRestored

-----------------------------------------------------------------------------
\* Prefixes, element by element.
LEMMA PrefixByElement ==
  ASSUME NEW S, NEW s \in Seq(S), NEW t \in Seq(S)
  PROVE  IsPrefix(s, t) <=> Len(s) <= Len(t) /\ \A i \in 1..Len(s) : s[i] = t[i]
<1>1. CASE Len(s) <= Len(t)
  <2>1. SubSeq(s, 1, Len(s)) = s
    BY SubSeqFull
  <2>2. /\ SubSeq(t, 1, Len(s)) \in Seq(S)
        /\ Len(SubSeq(t, 1, Len(s))) = Len(s)
        /\ \A i \in 1..Len(s) : SubSeq(t, 1, Len(s))[i] = t[i]
    <3>1. \A i \in 1..Len(s) : t[i] \in S
      BY <1>1
    <3>2. Len(s) \in Nat
      OBVIOUS
    <3> QED
      BY <3>1, <3>2, SubSeqProperties
  <2>3. s = SubSeq(t, 1, Len(s)) <=> \A i \in 1..Len(s) : s[i] = t[i]
    BY <2>2, SeqEqual
  <2> QED
    BY <1>1, <2>1, <2>3 DEF IsPrefix
<1>2. CASE ~(Len(s) <= Len(t))
  BY <1>2 DEF IsPrefix
<1> QED
  BY <1>1, <1>2

\* An order in which all of a finite set is listed lists each of its elements.
LEMMA ListedAll ==
  ASSUME NEW S, IsFiniteSet(S), NEW order \in SetToSeqs(S)
  PROVE  /\ order \in Seq(S)
         /\ \A x \in S : \E k \in 1..Len(order) : order[k] = x
<1> DEFINE D == 1..Cardinality(S)
<1>1. Cardinality(S) \in Nat
  BY FS_CardinalityType
<1>2. order \in [D -> S] /\ \A i, j \in D : i # j => order[i] # order[j]
  BY DEF SetToSeqs
<1>3. order \in Seq(S) /\ Len(order) = Cardinality(S)
  BY <1>1, <1>2
<1>4. IsFiniteSet(D) /\ Cardinality(D) = Cardinality(S)
  BY <1>1, FS_Interval
<1>5. order \in Injection(D, S)
  BY <1>2 DEF Injection, IsInjective
<1>6. order \in Surjection(D, S)
  BY <1>4, <1>5, FS_Injection
<1> QED
  BY <1>3, <1>6 DEF Surjection

\* What the assumption on commands says of the one that is being executed.
LEMMA CpCommandParts ==
  ASSUME CpTypes
  PROVE  /\ cpCommand.to \in CpPlace /\ cpCommand.name \in CpNames \cup {"*"}
         /\ cpCommand.specs \in Seq(CpSpec) /\ Len(cpCommand.specs) \in Nat
         /\ \A i \in 1..Len(cpCommand.specs) : cpCommand.specs[i].names # {}
         /\ cpCommand.name # "*" => cpCommand.name \in cpCommand.hits /\ cpCommand.hits \subseteq CpNames
         /\ cpCommand.to = CpAt(cpCommand.to.drive, cpCommand.to.user)
<1>1. /\ cpCommand.to \in CpPlace /\ cpCommand.name \in CpNames \cup {"*"}
      /\ cpCommand.specs \in Seq(CpSpec)
      /\ \A i \in 1..Len(cpCommand.specs) : cpCommand.specs[i].names # {}
      /\ cpCommand.name # "*" => cpCommand.name \in cpCommand.hits /\ cpCommand.hits \subseteq CpNames
  BY CpAssumption DEF CpTypes, CpSpec, Pattern
<1>2. cpCommand.to = CpAt(cpCommand.to.drive, cpCommand.to.user)
  <2>1. cpCommand.to \in [drive : CpDrives, user : CpUsers]
    BY <1>1 DEF CpPlace
  <2> QED
    BY <2>1 DEF CpAt
<1>3. Len(cpCommand.specs) \in Nat
  BY <1>1
<1> QED
  BY <1>1, <1>2, <1>3

\* All that is on a disk are sequences of records.
LEMMA CpFiles ==
  /\ CpNone \in CpFile /\ <<>> \in CpFile
  /\ \A c \in CpContents : c \in CpFile
  /\ \A disk \in CpDisks : disk \in [CpPlace -> [CpNames -> CpFile]]
<1>1. CpNone \in CpFile /\ <<>> \in CpFile
  <2>1. "none" \in CpRecords
    BY Zenon DEF CpRecords
  <2> QED
    BY <2>1 DEF CpNone, CpFile
<1>2. \A c \in CpContents : c \in CpFile
  <2> TAKE c \in CpContents
  <2>1. c \in Seq(Range(c)) /\ Range(c) \subseteq CpRecords
    BY CpAssumption DEF CpRecords
  <2> QED
    BY <2>1, SeqMonotonic DEF CpFile
<1>3. \A disk \in CpDisks : disk \in [CpPlace -> [CpNames -> CpFile]]
  BY <1>1, <1>2, CpAssumption
<1> QED
  BY <1>1, <1>2, <1>3

\* The beginnings of a known file are known, and so is a file with nothing in it.
LEMMA CpBeginning ==
  ASSUME NEW f \in CpFile, NEW g \in CpFile, CpKnown(g), g # CpNone,
         Len(f) <= Len(g), \A i \in 1..Len(f) : f[i] = g[i]
  PROVE  CpKnown(f)
<1>1. PICK c \in CpContents : IsPrefix(g, c)
  BY DEF CpKnown
<1>2. c \in CpFile
  BY CpFiles
<1>3. Len(g) <= Len(c) /\ \A i \in 1..Len(g) : g[i] = c[i]
  BY <1>1, <1>2, PrefixByElement DEF CpFile
<1>4. Len(f) <= Len(c) /\ \A i \in 1..Len(f) : f[i] = c[i]
  <2>1. Len(f) \in Nat /\ Len(g) \in Nat /\ Len(c) \in Nat
    BY <1>2 DEF CpFile
  <2> QED
    BY <1>3, <2>1
<1>5. IsPrefix(f, c)
  BY <1>2, <1>4, PrefixByElement DEF CpFile
<1> QED
  BY <1>5 DEF CpKnown

\* A file is put at the destination's place and name.
LEMMA CpPut ==
  ASSUME CpTypes, NEW n \in CpNames, NEW file \in CpFile,
         cpDisk' = [cpDisk EXCEPT ![cpCommand.to][n] = file]
  PROVE  /\ cpDisk' \in [CpPlace -> [CpNames -> CpFile]]
         /\ \A p \in CpPlace, m \in CpNames :
              cpDisk'[p][m] = IF p = cpCommand.to /\ m = n THEN file ELSE cpDisk[p][m]
<1>1. cpCommand.to \in CpPlace
  BY CpCommandParts
<1> QED
  BY <1>1 DEF CpTypes

\* The job at hand: its parts, and that its destination is one of the command's.
LEMMA CpHeadJob ==
  ASSUME CpTypes, CpJobsRight, cpJobs # <<>>
  PROVE  /\ Head(cpJobs) \in CpJob /\ CpIsJob(Head(cpJobs))
         /\ Head(cpJobs) = cpJobs[1] /\ 1 \in 1..Len(cpJobs)
         /\ Len(cpCommand.specs) \in Nat \ {0}
         /\ SourceUser \in CpUsers /\ Source \in CpPlace
         /\ TargetName = CpTargetOf(Head(cpJobs))
         /\ TargetName \in CpNames /\ TargetName \in Copies
         /\ TargetName \in Hits /\ Hits \subseteq CpNames /\ Hits \subseteq Targets
         /\ Copies \subseteq CpNames /\ Copies \subseteq Targets
         /\ Copies \cap Hits \subseteq {TargetName}
<1>1. Head(cpJobs) \in CpJob /\ Head(cpJobs) = cpJobs[1] /\ 1 \in 1..Len(cpJobs)
  BY DEF CpTypes
<1>2. CpIsJob(Head(cpJobs))
  BY <1>1 DEF CpJobsRight
<1>3. Len(cpCommand.specs) \in Nat \ {0}
  BY <1>2, CpCommandParts DEF CpIsJob
<1>4. SourceUser \in CpUsers
  <2>1. Last(cpCommand.specs) \in CpSpec
    BY <1>3, CpCommandParts DEF Last
  <2> QED
    BY <2>1 DEF SourceUser, CpSpec
<1>5. Source \in CpPlace
  BY <1>1, <1>4 DEF Source, CpPlace, CpAt, CpJob
<1>6. TargetName = CpTargetOf(Head(cpJobs)) /\ TargetName \in CpNames
  BY <1>1, CpCommandParts DEF TargetName, CpTargetOf, CpJob
<1>7. TargetName \in Copies /\ TargetName \in Hits /\ Copies \cap Hits \subseteq {TargetName}
  BY <1>2, CpCommandParts DEF TargetName, Copies, Hits, CpIsJob
<1>8. Copies \subseteq CpNames
  <2>1. \A i \in 1..Len(cpCommand.specs) : cpCommand.specs[i] \in CpSpec
    BY CpCommandParts
  <2>2. \A i \in 1..Len(cpCommand.specs) : cpCommand.specs[i].names \subseteq CpNames
    BY <2>1 DEF CpSpec
  <2>3. CASE cpCommand.name = "*"
    BY <2>2, <2>3 DEF Copies
  <2>4. CASE cpCommand.name # "*"
    BY <2>4, CpCommandParts DEF Copies
  <2> QED
    BY <2>3, <2>4
<1>9. Copies \subseteq Targets /\ Hits \subseteq Targets
  <2>1. Copies \subseteq Targets
    BY DEF Targets
  <2>2. CASE cpCommand.name = "*"
    BY <1>7, <2>1, <2>2 DEF TargetName, Hits
  <2>3. CASE cpCommand.name # "*"
    BY <2>3 DEF Targets, Hits
  <2> QED
    BY <2>1, <2>2, <2>3
<1>10. Hits \subseteq CpNames
  BY <1>6, CpCommandParts DEF TargetName, Hits
<1> QED
  BY <1>1, <1>2, <1>3, <1>4, <1>5, <1>6, <1>7, <1>8, <1>9, <1>10

\* What a command asks for depends on nothing that changes.
LEMMA CpSame ==
  ASSUME UNCHANGED cpFixed
  PROVE  /\ OneUser' = OneUser /\ Targets' = Targets /\ Copies' = Copies
         /\ \A n : SourcesOf(n)' = SourcesOf(n)
         /\ \A job : CpTargetOf(job)' = CpTargetOf(job)
<1>1. cpCommand' = cpCommand /\ cpOld' = cpOld /\ cpBefore' = cpBefore
  BY DEF cpFixed
<1> QED
  BY <1>1 DEF OneUser, Targets, Copies, SourcesOf, CpTargetOf

\* A step that puts a known file at the destination and leaves the table alone.
LEMMA CpPutStep ==
  ASSUME CpInv, cpJobs # <<>>, NEW file \in CpFile, CpKnown(file),
         cpDisk' = [cpDisk EXCEPT ![cpCommand.to][TargetName] = file],
         cpCommand.erase \/ cpBefore[cpCommand.to][TargetName] = CpNone,
         UNCHANGED <<cpJobs, cpArgs, cpFixed>>
  PROVE  /\ cpDisk' \in [CpPlace -> [CpNames -> CpFile]]
         /\ \A p \in CpPlace, m \in CpNames :
              cpDisk'[p][m] = IF p = cpCommand.to /\ m = TargetName THEN file ELSE cpDisk[p][m]
         /\ CpAllKnown' /\ CpArgsLeft' /\ CpJobsRight' /\ CpOthersKept'
         /\ cpPc \notin {"off", "search", "failed"} => CpPending'
<1>0. /\ cpJobs' = cpJobs /\ cpArgs' = cpArgs /\ cpCommand' = cpCommand /\ cpOld' = cpOld
      /\ cpBefore' = cpBefore
  BY DEF cpFixed
<1>1. /\ cpDisk' \in [CpPlace -> [CpNames -> CpFile]]
      /\ \A p \in CpPlace, m \in CpNames :
           cpDisk'[p][m] = IF p = cpCommand.to /\ m = TargetName THEN file ELSE cpDisk[p][m]
  BY CpPut, CpHeadJob, ZenonT(30) DEF CpInv
<1>2. CpAllKnown'
  BY <1>1 DEF CpInv, CpAllKnown
<1>3. CpArgsLeft' /\ CpJobsRight'
  BY <1>0 DEF CpInv, CpArgsLeft, CpJobsRight, CpIsJob
<1>4. CpOthersKept'
  <2>1. Targets' = Targets
    BY CpSame
  <2>2. TargetName \in Targets
    BY CpHeadJob DEF CpInv
  <2> QED
    BY <1>0, <1>1, <2>1, <2>2 DEF CpInv, CpOthersKept
<1>5. ASSUME cpPc \notin {"off", "search", "failed"}
      PROVE  CpPending'
  <2>1. OneUser' = OneUser /\ Copies' = Copies /\ \A n : SourcesOf(n)' = SourcesOf(n)
    BY CpSame
  <2>2. \A k : CpTargetOf(cpJobs[k])' = CpTargetOf(cpJobs[k])
    BY <1>0 DEF CpTargetOf
  <2>3. CpTargetOf(cpJobs[1]) = TargetName /\ 1 \in 1..Len(cpJobs)
    BY CpHeadJob DEF CpInv
  <2>4. cpCommand.to \in CpPlace
    BY CpCommandParts DEF CpInv
  <2>5. \A n \in CpNames : n # TargetName => cpDisk'[cpCommand.to][n] = cpDisk[cpCommand.to][n]
    BY <1>1, <2>4
  <2>6. Copies \subseteq CpNames
    BY CpHeadJob DEF CpInv
  <2> QED
    BY <1>0, <1>5, <2>1, <2>2, <2>3, <2>5, <2>6 DEF CpInv, CpPending
<1> QED
  BY <1>1, <1>2, <1>3, <1>4, <1>5

\* Giving up keeps all that has to be kept.
LEMMA CpGivesUp ==
  ASSUME CpInv, CpFatal
  PROVE  CpInv'
<1>1. /\ cpPc' = "failed" /\ cpUser' = cpOld
      /\ cpDisk' = cpDisk /\ cpArgs' = cpArgs /\ cpJobs' = cpJobs /\ cpBuf' = cpBuf
      /\ cpPos' = cpPos /\ cpEof' = cpEof
      /\ cpCommand' = cpCommand /\ cpOld' = cpOld /\ cpBefore' = cpBefore
  BY DEF CpFatal, cpFixed
<1>2. CpTypes' /\ CpFlags'
  BY <1>1 DEF CpInv, CpTypes, CpFlags
<1>3. CpAllKnown' /\ CpArgsLeft' /\ CpJobsRight' /\ CpOthersKept'
  BY <1>1 DEF CpInv, CpAllKnown, CpArgsLeft, CpJobsRight, CpIsJob, CpOthersKept, Targets, Copies
<1>4. CpSearching' /\ CpPending' /\ CpWorking'
  BY <1>1 DEF CpSearching, CpPending, CpWorking
<1>5. CpUserRestored'
  BY <1>1 DEF CpUserRestored
<1> QED
  BY <1>2, <1>3, <1>4, <1>5 DEF CpInv

\* One specification is searched for.
LEMMA CpSearchStep ==
  ASSUME CpInv, CpSearch
  PROVE  CpInv'
<1> DEFINE spec == Head(cpArgs)
           L    == Len(cpCommand.specs)
           gone == L - Len(cpArgs)
<1>1. /\ cpPc = "search" /\ cpPc' = "search" /\ cpCommand.name = "*" /\ cpArgs # <<>>
      /\ cpArgs' = Tail(cpArgs)
      /\ cpDisk' = cpDisk /\ cpUser' = cpUser /\ cpBuf' = cpBuf
      /\ cpPos' = cpPos /\ cpEof' = cpEof
      /\ cpCommand' = cpCommand /\ cpOld' = cpOld /\ cpBefore' = cpBefore
  BY DEF CpSearch, cpFixed
<1>2. PICK order \in SetToSeqs(Found(spec)) : cpJobs' = cpJobs \o order
  BY DEF CpSearch
<1>3. /\ cpDisk = cpBefore /\ cpUser = cpOld /\ cpCommand.specs \in Seq(CpSpec) /\ L \in Nat
      /\ cpOld \in CpUsers
  BY <1>1, CpCommandParts DEF CpInv, CpSearching, CpTypes
<1>4. /\ cpArgs \in Seq(CpSpec) /\ Len(cpArgs) \in 1..L /\ gone + 1 \in 1..L
      /\ spec = cpCommand.specs[gone + 1] /\ spec \in CpSpec
      /\ Tail(cpArgs) \in Seq(CpSpec) /\ Len(Tail(cpArgs)) = Len(cpArgs) - 1
      /\ \A i \in 1..Len(cpArgs) - 1 : Tail(cpArgs)[i] = cpArgs[i + 1]
  <2>1. cpArgs \in Seq(CpSpec) /\ Len(cpArgs) \in 1..L
    BY <1>1, <1>3 DEF CpInv, CpTypes, CpArgsLeft
  <2>2. spec = cpArgs[1] /\ 1 \in 1..Len(cpArgs)
    BY <1>1, <2>1
  <2>3. cpArgs[1] = cpCommand.specs[1 + (L - Len(cpArgs))]
    BY <2>2 DEF CpInv, CpArgsLeft
  <2>4. spec \in CpSpec
    BY <1>1, <2>1
  <2>5. /\ Tail(cpArgs) \in Seq(CpSpec) /\ Len(Tail(cpArgs)) = Len(cpArgs) - 1
        /\ \A i \in 1..Len(cpArgs) - 1 : Tail(cpArgs)[i] = cpArgs[i + 1]
    BY <1>1, <2>1
  <2>6. gone + 1 \in 1..L /\ gone + 1 = 1 + (L - Len(cpArgs))
    BY <1>3, <2>1
  <2> QED
    BY <2>1, <2>2, <2>3, <2>4, <2>5, <2>6
<1>5. IsFiniteSet(Found(spec)) /\ Found(spec) \subseteq CpJob
  <2> DEFINE N == {m \in spec.names : cpDisk[CpAt(spec.drive, cpUser)][m] # CpNone}
  <2>1. N \subseteq CpNames /\ spec.drive \in CpDrives
    BY <1>4 DEF CpSpec
  <2>2. IsFiniteSet(N)
    BY <2>1, CpAssumption, FS_Subset
  <2>3. IsFiniteSet({[drive |-> spec.drive, name |-> n] : n \in N})
    <3> DEFINE T == {[drive |-> spec.drive, name |-> n] : n \in N}
               f == [n \in N |-> [drive |-> spec.drive, name |-> n]]
    <3>1. f \in Surjection(N, T)
      BY DEF Surjection
    <3> QED
      BY <2>2, <3>1, FS_Surjection
  <2>4. Found(spec) = {[drive |-> spec.drive, name |-> n] : n \in N}
    BY DEF Found
  <2> HIDE DEF N
  <2> QED
    BY <2>1, <2>3, <2>4 DEF CpJob
<1>6. /\ order \in Seq(Found(spec)) /\ order \in Seq(CpJob)
      /\ \A x \in Found(spec) : \E k \in 1..Len(order) : order[k] = x
  BY <1>5, ListedAll, SeqMonotonic
<1>7. /\ cpJobs \in Seq(CpJob) /\ cpJobs' \in Seq(CpJob)
      /\ Len(cpJobs') = Len(cpJobs) + Len(order)
      /\ \A k \in 1..Len(cpJobs) : cpJobs'[k] = cpJobs[k]
      /\ \A k \in 1..Len(order) : cpJobs'[Len(cpJobs) + k] = order[k]
  BY <1>2, <1>6 DEF CpInv, CpTypes
<1>8. Len(cpJobs) \in Nat /\ Len(order) \in Nat
  BY <1>6, <1>7
<1>9. CpTypes' /\ CpFlags'
  BY <1>1, <1>4, <1>7 DEF CpInv, CpTypes, CpFlags
<1>10. CpAllKnown' /\ CpOthersKept' /\ CpPending' /\ CpWorking' /\ CpUserRestored'
  BY <1>1 DEF CpInv, CpAllKnown, CpOthersKept, Targets, Copies, CpPending, CpWorking, CpUserRestored
<1>11. CpArgsLeft'
  <2>1. Len(cpArgs') <= L
    BY <1>1, <1>3, <1>4
  <2>2. ASSUME NEW i \in 1..Len(cpArgs')
        PROVE  cpArgs'[i] = cpCommand.specs[i + (L - Len(cpArgs'))]
    <3>1. cpArgs'[i] = cpArgs[i + 1] /\ i + 1 \in 1..Len(cpArgs)
      BY <1>1, <1>4
    <3>2. cpArgs[i + 1] = cpCommand.specs[(i + 1) + (L - Len(cpArgs))]
      BY <3>1 DEF CpInv, CpArgsLeft
    <3>3. (i + 1) + (L - Len(cpArgs)) = i + (L - Len(cpArgs'))
      <4>1. Len(cpArgs') = Len(cpArgs) - 1 /\ Len(cpArgs) \in Int /\ L \in Int /\ i \in Int
        BY <1>1, <1>3, <1>4
      <4> DEFINE new == Len(cpArgs')
                 old == Len(cpArgs)
      <4>2. new = old - 1 /\ old \in Int /\ L \in Int /\ i \in Int
        BY <4>1
      <4> HIDE DEF L, new, old
      <4>3. (i + 1) + (L - old) = i + (L - new)
        BY <4>2
      <4> QED
        BY <4>3 DEF new, old
    <3> QED
      BY <3>1, <3>2, <3>3
  <2> QED
    BY <1>1, <2>1, <2>2 DEF CpArgsLeft
<1>12. CpJobsRight'
  <2>1. \A job \in Found(spec) : CpIsJob(job)
    <3> TAKE job \in Found(spec)
    <3>1. PICK n \in spec.names : /\ job = [drive |-> spec.drive, name |-> n]
                                  /\ cpDisk[CpAt(spec.drive, cpUser)][n] # CpNone
      BY DEF Found
    <3> QED
      BY <1>1, <1>3, <1>4, <3>1 DEF CpIsJob
  <2>2. \A k \in 1..Len(order) : order[k] \in Found(spec)
    BY <1>6
  <2>3. \A k \in 1..Len(cpJobs') : CpIsJob(cpJobs'[k])
    <3> TAKE k \in 1..Len(cpJobs')
    <3>1. CASE k <= Len(cpJobs)
      BY <1>7, <1>8, <3>1 DEF CpInv, CpJobsRight
    <3>2. CASE k > Len(cpJobs)
      <4>1. k - Len(cpJobs) \in 1..Len(order) /\ k = Len(cpJobs) + (k - Len(cpJobs))
        BY <1>7, <1>8, <3>2
      <4>2. cpJobs'[k] = order[k - Len(cpJobs)]
        BY <1>7, <4>1
      <4> QED
        BY <2>1, <2>2, <4>1, <4>2
    <3> QED
      BY <1>7, <1>8, <3>1, <3>2
  <2> QED
    BY <1>1, <2>3 DEF CpJobsRight, CpIsJob
<1>13. CpSearching'
  <2>1. ASSUME NEW i \in 1..L - Len(cpArgs'), NEW n \in CpNames,
               n \in cpCommand.specs[i].names,
               cpBefore[CpAt(cpCommand.specs[i].drive, cpOld)][n] # CpNone
        PROVE  \E k \in 1..Len(cpJobs') :
                 cpJobs'[k] = [drive |-> cpCommand.specs[i].drive, name |-> n]
    <3>0. L - Len(cpArgs') = gone + 1 /\ gone \in Nat
      BY <1>1, <1>3, <1>4
    <3>1. CASE i <= gone
      <4>1. PICK k \in 1..Len(cpJobs) :
              cpJobs[k] = [drive |-> cpCommand.specs[i].drive, name |-> n]
        BY <1>1, <2>1, <3>0, <3>1 DEF CpInv, CpSearching
      <4> QED
        BY <1>7, <1>8, <4>1
    <3>2. CASE i > gone
      <4>1. i = gone + 1 /\ cpCommand.specs[i] = spec
        <5>1. i = gone + 1
          BY <3>0, <3>2
        <5> QED
          BY <1>4, <5>1
      <4>2. [drive |-> spec.drive, name |-> n] \in Found(spec)
        BY <1>3, <2>1, <4>1 DEF Found
      <4>3. PICK k \in 1..Len(order) : order[k] = [drive |-> spec.drive, name |-> n]
        BY <1>6, <4>2
      <4>4. Len(cpJobs) + k \in 1..Len(cpJobs')
        BY <1>7, <1>8
      <4> QED
        BY <1>7, <4>1, <4>3, <4>4
    <3> QED
      BY <3>0, <3>1, <3>2
  <2> QED
    BY <1>1, <1>3, <2>1 DEF CpSearching
<1> QED
  BY <1>9, <1>10, <1>11, <1>12, <1>13 DEF CpInv

\* All specifications have been searched for.
LEMMA CpSearchedStep ==
  ASSUME CpInv, CpSearched
  PROVE  CpInv'
<1>1. CASE cpJobs = <<>>
  BY <1>1, CpGivesUp DEF CpSearched
<1>2. CASE cpJobs # <<>>
  <2>1. /\ cpPc = "search" /\ cpPc' = "next" /\ cpCommand.name = "*" /\ cpArgs = <<>>
        /\ cpDisk' = cpDisk /\ cpUser' = cpUser /\ cpBuf' = cpBuf /\ cpJobs' = cpJobs
        /\ cpPos' = cpPos /\ cpEof' = cpEof /\ cpArgs' = cpArgs
        /\ cpCommand' = cpCommand /\ cpOld' = cpOld /\ cpBefore' = cpBefore
    BY <1>2 DEF CpSearched, cpFixed
  <2>2. CpTypes' /\ CpFlags'
    BY <2>1 DEF CpInv, CpTypes, CpFlags
  <2>3. CpAllKnown' /\ CpArgsLeft' /\ CpJobsRight' /\ CpOthersKept'
    BY <2>1 DEF CpInv, CpAllKnown, CpArgsLeft, CpJobsRight, CpIsJob, CpOthersKept, Targets, Copies
  <2>4. CpSearching' /\ CpWorking' /\ CpUserRestored'
    BY <2>1 DEF CpSearching, CpWorking, CpUserRestored
  <2>5. ASSUME NEW n \in Copies, SourcesOf(n) # {}
        PROVE  \E k \in 1..Len(cpJobs) : CpTargetOf(cpJobs[k]) = n
    <3>1. PICK j \in 1..Len(cpCommand.specs) :
            /\ n \in cpCommand.specs[j].names
            /\ cpBefore[CpAt(cpCommand.specs[j].drive, cpOld)][n] # CpNone
      BY <2>1, <2>5 DEF SourcesOf
    <3>2. cpCommand.specs[j] \in CpSpec /\ n \in CpNames
      <4>1. cpCommand.specs[j] \in CpSpec
        BY CpCommandParts DEF CpInv
      <4> QED
        BY <3>1, <4>1 DEF CpSpec
    <3>3. Len(cpCommand.specs) - Len(cpArgs) = Len(cpCommand.specs)
      BY <2>1, CpCommandParts DEF CpInv
    <3>4. PICK k \in 1..Len(cpJobs) :
            cpJobs[k] = [drive |-> cpCommand.specs[j].drive, name |-> n]
      BY <2>1, <3>1, <3>2, <3>3 DEF CpInv, CpSearching
    <3> QED
      BY <2>1, <3>4 DEF CpTargetOf
  <2>6. CpPending'
    <3>1. Copies' = Copies /\ \A n : SourcesOf(n)' = SourcesOf(n)
      BY <2>1, CpSame DEF cpFixed
    <3>2. \A k : CpTargetOf(cpJobs[k])' = CpTargetOf(cpJobs[k])
      BY <2>1 DEF CpTargetOf
    <3> QED
      BY <2>1, <2>5, <3>1, <3>2 DEF CpPending
  <2> QED
    BY <2>2, <2>3, <2>4, <2>6 DEF CpInv
<1> QED
  BY <1>1, <1>2

\* One file is named.
LEMMA CpSingleStep ==
  ASSUME CpInv, CpSingle
  PROVE  CpInv'
<1> DEFINE refused == \/ Len(cpArgs) # 1
                      \/ HasWildcards(cpArgs[1].marks) \/ HasWildcards(cpCommand.marks)
<1>1. CASE refused
  BY <1>1, CpGivesUp DEF CpSingle
<1>2. CASE ~refused
  <2> DEFINE file == CHOOSE n \in cpArgs[1].names : TRUE
             job  == [drive |-> cpArgs[1].drive, name |-> file]
  <2>1. /\ cpPc = "search" /\ cpPc' = "next" /\ cpCommand.name # "*"
        /\ cpDisk' = cpDisk /\ cpUser' = cpUser /\ cpBuf' = cpBuf /\ cpJobs' = <<job>>
        /\ cpPos' = cpPos /\ cpEof' = cpEof /\ cpArgs' = cpArgs
        /\ cpCommand' = cpCommand /\ cpOld' = cpOld /\ cpBefore' = cpBefore
    BY <1>2 DEF CpSingle, cpFixed
  <2>2. cpArgs = cpCommand.specs /\ Len(cpArgs) = 1 /\ cpArgs[1] \in CpSpec
    BY <1>2, <2>1, CpCommandParts DEF CpInv, CpSearching
  <2>3. file \in cpArgs[1].names /\ file \in CpNames
    <3>1. cpArgs[1].names \subseteq CpNames
      BY <2>2 DEF CpSpec
    <3>2. cpArgs[1].names # {}
      BY <2>2, CpCommandParts DEF CpInv
    <3> QED
      BY <3>1, <3>2
  <2>4. job \in CpJob /\ job.drive = cpCommand.specs[1].drive /\ job.name = file
    BY <2>2, <2>3 DEF CpJob, CpSpec
  <2> HIDE DEF job, file
  <2>5. cpJobs' \in Seq(CpJob) /\ Len(cpJobs') = 1 /\ cpJobs'[1] = job
    BY <2>1, <2>4
  <2>6. CpTypes' /\ CpFlags'
    BY <2>1, <2>5 DEF CpInv, CpTypes, CpFlags
  <2>7. CpAllKnown' /\ CpArgsLeft' /\ CpOthersKept'
    BY <2>1 DEF CpInv, CpAllKnown, CpArgsLeft, CpOthersKept, Targets, Copies
  <2>8. CpSearching' /\ CpWorking' /\ CpUserRestored'
    BY <2>1 DEF CpSearching, CpWorking, CpUserRestored
  <2>9. CpJobsRight'
    BY <2>1, <2>2, <2>3, <2>4, <2>5 DEF CpJobsRight, CpIsJob
  <2>10. CpPending'
    BY <2>1, <2>5 DEF CpPending, Copies, CpTargetOf
  <2> QED
    BY <2>6, <2>7, <2>8, <2>9, <2>10 DEF CpInv
<1> QED
  BY <1>1, <1>2

\* The next file of the table, or the end.
LEMMA CpNextStep ==
  ASSUME CpInv, CpNext
  PROVE  CpInv'
<1>1. /\ cpPc = "next"
      /\ \/ cpJobs = <<>> /\ cpPc' = "done" /\ cpUser' = cpOld
         \/ cpJobs # <<>> /\ cpPc' = "check" /\ cpUser' = cpUser
      /\ cpDisk' = cpDisk /\ cpArgs' = cpArgs /\ cpJobs' = cpJobs /\ cpBuf' = cpBuf
      /\ cpPos' = cpPos /\ cpEof' = cpEof
      /\ cpCommand' = cpCommand /\ cpOld' = cpOld /\ cpBefore' = cpBefore
  BY DEF CpNext, cpFixed
<1>2. CpTypes' /\ CpFlags'
  BY <1>1 DEF CpInv, CpTypes, CpFlags
<1>3. CpAllKnown' /\ CpArgsLeft' /\ CpJobsRight' /\ CpOthersKept'
  <2>1. CpAllKnown' /\ CpArgsLeft'
    BY <1>1 DEF CpInv, CpAllKnown, CpArgsLeft
  <2>2. CpJobsRight'
    BY <1>1 DEF CpInv, CpJobsRight, CpIsJob
  <2>3. CpOthersKept'
    BY <1>1 DEF CpInv, CpOthersKept, Targets, Copies
  <2> QED
    BY <2>1, <2>2, <2>3
<1>4. CpSearching' /\ CpWorking' /\ CpUserRestored'
  BY <1>1 DEF CpSearching, CpWorking, CpUserRestored
<1>5. CpPending'
  <2>1. OneUser' = OneUser /\ Copies' = Copies /\ \A n : SourcesOf(n)' = SourcesOf(n)
    BY <1>1, CpSame DEF cpFixed
  <2>2. \A k : CpTargetOf(cpJobs[k])' = CpTargetOf(cpJobs[k])
    BY <1>1 DEF CpTargetOf
  <2> QED
    BY <1>1, <2>1, <2>2 DEF CpInv, CpPending
<1> QED
  BY <1>2, <1>3, <1>4, <1>5 DEF CpInv

\* What happens while one file is copied leaves the search and its table alone.
LEMMA CpCopyStep ==
  ASSUME CpInv, cpPc \notin {"off", "search", "failed"},
         UNCHANGED <<cpDisk, cpJobs, cpArgs, cpFixed>>
  PROVE  CpAllKnown' /\ CpArgsLeft' /\ CpJobsRight' /\ CpOthersKept' /\ CpPending'
<1>1. /\ cpDisk' = cpDisk /\ cpArgs' = cpArgs /\ cpJobs' = cpJobs
      /\ cpCommand' = cpCommand /\ cpOld' = cpOld /\ cpBefore' = cpBefore
  BY DEF cpFixed
<1>2. CpAllKnown' /\ CpArgsLeft' /\ CpJobsRight' /\ CpOthersKept'
  BY <1>1 DEF CpInv, CpAllKnown, CpArgsLeft, CpJobsRight, CpIsJob, CpOthersKept, Targets, Copies
<1>3. CpPending'
  <2>1. OneUser' = OneUser /\ Copies' = Copies /\ \A n : SourcesOf(n)' = SourcesOf(n)
    BY <1>1, CpSame DEF cpFixed
  <2>2. \A k : CpTargetOf(cpJobs[k])' = CpTargetOf(cpJobs[k])
    BY <1>1 DEF CpTargetOf
  <2> QED
    BY <1>1, <2>1, <2>2 DEF CpInv, CpPending
<1> QED
  BY <1>2, <1>3

\* The copy begins with a look at the destination.
LEMMA CpCheckStep ==
  ASSUME CpInv, CpCheck
  PROVE  CpInv'
<1>1. CASE CpFatal
  BY <1>1, CpGivesUp
<1>2. CASE ~CpFatal
  <2>1. /\ cpPc = "check" /\ cpPc' = "open" /\ cpUser' = cpCommand.to.user
        /\ (\A n \in Hits : cpDisk[cpCommand.to][n] = CpNone) \/ cpCommand.erase
        /\ cpDisk' = [cpDisk EXCEPT ![cpCommand.to] = Erased]
        /\ cpArgs' = cpArgs /\ cpJobs' = cpJobs /\ cpBuf' = cpBuf
        /\ cpPos' = cpPos /\ cpEof' = cpEof
        /\ cpCommand' = cpCommand /\ cpOld' = cpOld /\ cpBefore' = cpBefore
    BY <1>2 DEF CpCheck, cpFixed
  <2>2. cpJobs # <<>>
    BY <2>1 DEF CpInv, CpWorking
  <2>3. cpCommand.to \in CpPlace /\ cpCommand.to.user \in CpUsers
    BY CpCommandParts DEF CpInv, CpPlace
  <2>4. TargetName \in CpNames /\ TargetName' = TargetName /\ Hits' = Hits
        /\ TargetName \in Hits /\ Hits \subseteq CpNames /\ Hits \subseteq Targets
    BY <2>1, <2>2, CpHeadJob DEF CpInv, TargetName, Hits
  <2>5. cpCommand.erase \/ cpBefore[cpCommand.to][TargetName] = CpNone
    BY <2>1, <2>3, <2>4 DEF CpInv, CpOthersKept
  <2>6. CpNone \in CpFile /\ CpKnown(CpNone)
    BY CpFiles DEF CpKnown
  <2>7. /\ cpDisk' \in [CpPlace -> [CpNames -> CpFile]]
        /\ \A p \in CpPlace, n \in CpNames :
             cpDisk'[p][n] = IF p = cpCommand.to /\ n \in Hits THEN CpNone ELSE cpDisk[p][n]
    <3>1. cpDisk \in [CpPlace -> [CpNames -> CpFile]]
      BY DEF CpInv, CpTypes
    <3>2. Erased \in [CpNames -> CpFile]
      BY <2>3, <2>6, <3>1 DEF Erased
    <3>3. \A n \in CpNames : Erased[n] = IF n \in Hits THEN CpNone ELSE cpDisk[cpCommand.to][n]
      BY DEF Erased
    <3> QED
      BY <2>1, <2>3, <3>1, <3>2, <3>3
  <2>11. \A n \in Hits : cpDisk'[cpCommand.to][n] = CpNone
    BY <2>3, <2>4, <2>7
  <2>12. CpAllKnown'
    BY <2>6, <2>7 DEF CpInv, CpAllKnown
  <2>13. CpArgsLeft' /\ CpJobsRight'
    BY <2>1 DEF CpInv, CpArgsLeft, CpJobsRight, CpIsJob
  <2>14. CpOthersKept'
    <3>1. Targets' = Targets
      BY <2>1, CpSame DEF cpFixed
    <3>2. ASSUME NEW p \in CpPlace, NEW n \in CpNames, cpDisk'[p][n] # cpBefore[p][n]
          PROVE  p = cpCommand.to /\ n \in Targets /\ (cpCommand.erase \/ cpBefore[p][n] = CpNone)
      <4>1. CASE cpDisk'[p][n] = cpDisk[p][n]
        BY <3>2, <4>1 DEF CpInv, CpOthersKept
      <4>2. CASE cpDisk'[p][n] # cpDisk[p][n]
        <5>1. p = cpCommand.to /\ n \in Hits /\ cpDisk[p][n] # CpNone
          BY <2>7, <4>2
        <5> QED
          BY <2>1, <2>4, <5>1
      <4> QED
        BY <4>1, <4>2
    <3> QED
      BY <2>1, <3>1, <3>2 DEF CpOthersKept
  <2>15. CpPending'
    <3>1. OneUser' = OneUser /\ Copies' = Copies /\ \A n : SourcesOf(n)' = SourcesOf(n)
      BY <2>1, CpSame DEF cpFixed
    <3>2. \A k : CpTargetOf(cpJobs[k])' = CpTargetOf(cpJobs[k])
      BY <2>1 DEF CpTargetOf
    <3>3. /\ CpTargetOf(cpJobs[1]) = TargetName /\ 1 \in 1..Len(cpJobs)
          /\ Copies \subseteq CpNames /\ Copies \cap Hits \subseteq {TargetName}
      BY <2>2, CpHeadJob DEF CpInv
    <3>4. \A n \in Copies : n # TargetName => cpDisk'[cpCommand.to][n] = cpDisk[cpCommand.to][n]
      BY <2>3, <2>7, <3>3
    <3> QED
      BY <2>1, <3>1, <3>2, <3>3, <3>4 DEF CpInv, CpPending
  <2>8. CpTypes' /\ CpFlags'
    BY <2>1, <2>3, <2>7 DEF CpInv, CpTypes, CpFlags
  <2>9. CpSearching' /\ CpUserRestored'
    BY <2>1 DEF CpSearching, CpUserRestored
  <2>10. CpWorking'
    BY <2>1, <2>2, <2>4, <2>5, <2>11 DEF CpWorking, CpTo, CpCleared
  <2> QED
    BY <2>8, <2>9, <2>10, <2>12, <2>13, <2>14, <2>15 DEF CpInv
<1> QED
  BY <1>1, <1>2

\* The source is opened.
LEMMA CpOpenStep ==
  ASSUME CpInv, CpOpen
  PROVE  CpInv'
<1>1. CASE CpFatal
  BY <1>1, CpGivesUp
<1>2. CASE ~CpFatal
  <2>1. /\ cpPc = "open" /\ cpPc' = "make" /\ cpUser' = SourceUser
        /\ cpPos' = 0 /\ cpBuf' = <<>> /\ cpEof' = FALSE
        /\ cpDisk' = cpDisk /\ cpArgs' = cpArgs
        /\ cpCommand' = cpCommand /\ cpOld' = cpOld /\ cpBefore' = cpBefore
    BY <1>2 DEF CpOpen, cpFixed
  <2>12. PICK n \in Sources : cpDisk[Source][n] # CpNone /\ cpJobs' = [cpJobs EXCEPT ![1].name = n]
    BY <1>2 DEF CpOpen
  <2>2. cpJobs # <<>> /\ CpTo = CpNone /\ CpCleared
        /\ (cpCommand.erase \/ cpBefore[cpCommand.to][TargetName] = CpNone)
    BY <2>1 DEF CpInv, CpWorking
  <2>13. /\ cpJobs \in Seq(CpJob) /\ cpJobs[1] \in CpJob /\ CpIsJob(cpJobs[1]) /\ Head(cpJobs) = cpJobs[1]
         /\ 1 \in 1..Len(cpJobs)
    BY <2>2, CpHeadJob DEF CpInv, CpTypes
  <2>14. n \in CpNames /\ (cpCommand.name = "*" => n = cpJobs[1].name)
         /\ (cpCommand.name # "*" => n \in cpCommand.specs[1].names)
    <3>1. CASE cpCommand.name = "*"
      BY <2>12, <2>13, <3>1 DEF Sources, CpJob
    <3>2. CASE cpCommand.name # "*"
      <4>1. 1 \in 1..Len(cpCommand.specs) /\ n \in cpCommand.specs[1].names
        BY <2>12, <2>13, <3>2 DEF Sources, CpIsJob
      <4>2. cpCommand.specs[1] \in CpSpec
        BY <4>1, CpCommandParts DEF CpInv
      <4> QED
        BY <3>2, <4>1, <4>2 DEF CpSpec
    <3> QED
      BY <3>1, <3>2
  <2> PICK job : job = [cpJobs[1] EXCEPT !.name = n]
    OBVIOUS
  <2>15. job \in CpJob /\ job.drive = cpJobs[1].drive /\ job.name = n
         /\ (cpCommand.name = "*" => job = cpJobs[1])
    BY <2>13, <2>14 DEF CpJob
  <2>16. /\ cpJobs' \in Seq(CpJob) /\ Len(cpJobs') = Len(cpJobs) /\ cpJobs'[1] = job
         /\ Head(cpJobs') = job /\ cpJobs' # <<>>
         /\ \A k \in 1..Len(cpJobs) : k # 1 => cpJobs'[k] = cpJobs[k]
    <3>1. cpJobs' = [cpJobs EXCEPT ![1] = job]
      BY <2>12
    <3>2. /\ cpJobs' \in Seq(CpJob) /\ Len(cpJobs') = Len(cpJobs) /\ cpJobs'[1] = job
          /\ \A k \in 1..Len(cpJobs) : k # 1 => cpJobs'[k] = cpJobs[k]
      BY <2>13, <2>15, <3>1
    <3> QED
      BY <2>13, <3>2
  <2>17. CpIsJob(job)
    BY <2>13, <2>14, <2>15 DEF CpIsJob
  <2>3. SourceUser \in CpUsers
    BY <2>2, CpHeadJob DEF CpInv
  <2>4. Source' = Source /\ TargetName' = TargetName /\ Hits' = Hits
    BY <2>1, <2>13, <2>15, <2>16 DEF Source, SourceUser, TargetName, Hits
  <2>18. CpFrom' # CpNone /\ Head(cpJobs').name = n
    BY <2>1, <2>4, <2>12, <2>15, <2>16 DEF CpFrom
  <2>5. <<Source, n>> # <<cpCommand.to, TargetName>>
    BY <2>2, <2>12 DEF CpTo
  <2>6. <<>> \in CpFile /\ Len(<<>>) = 0
    BY CpFiles
  <2>7. CpTypes'
    BY <2>1, <2>3, <2>6, <2>16 DEF CpInv, CpTypes
  <2>8. CpFlags'
    <3>1. cpEof' \in BOOLEAN
      BY <2>1
    <3>2. Len(cpBuf') = 0
      BY <2>1
    <3> QED
      BY <3>1, <3>2, CpAssumption DEF CpFlags
  <2>9. CpAllKnown' /\ CpArgsLeft' /\ CpOthersKept'
    BY <2>1 DEF CpInv, CpAllKnown, CpArgsLeft, CpOthersKept, Targets, Copies
  <2>19. CpJobsRight'
    <3>1. \A k \in 1..Len(cpJobs') : CpIsJob(cpJobs'[k])
      BY <2>16, <2>17 DEF CpInv, CpJobsRight
    <3> QED
      BY <2>1, <3>1 DEF CpJobsRight, CpIsJob
  <2>20. CpPending'
    <3>1. OneUser' = OneUser /\ Copies' = Copies /\ \A m : SourcesOf(m)' = SourcesOf(m)
      BY <2>1, CpSame DEF cpFixed
    <3>2. \A k \in 1..Len(cpJobs) : CpTargetOf(cpJobs[k])' = CpTargetOf(cpJobs[k])
      <4> TAKE k \in 1..Len(cpJobs)
      <4>1. CASE cpCommand.name = "*"
        BY <2>1, <2>15, <2>16, <4>1 DEF CpTargetOf
      <4>2. CASE cpCommand.name # "*"
        BY <2>1, <4>2 DEF CpTargetOf
      <4> QED
        BY <4>1, <4>2
    <3> QED
      BY <2>1, <2>16, <3>1, <3>2 DEF CpInv, CpPending
  <2>10. CpSearching' /\ CpUserRestored'
    BY <2>1 DEF CpSearching, CpUserRestored
  <2>21. CpCleared'
    BY <2>1, <2>2, <2>4 DEF CpCleared
  <2>11. CpWorking'
    BY <2>1, <2>2, <2>4, <2>5, <2>16, <2>18, <2>21 DEF CpWorking
  <2> QED
    BY <2>7, <2>8, <2>9, <2>10, <2>11, <2>19, <2>20 DEF CpInv
<1> QED
  BY <1>1, <1>2

\* The destination is made: it is empty, and the source another file.
LEMMA CpMakeStep ==
  ASSUME CpInv, CpMake
  PROVE  CpInv'
<1>1. CASE CpFatal
  BY <1>1, CpGivesUp
<1>2. CASE ~CpFatal
  <2>1. /\ cpPc = "make" /\ cpPc' = "read" /\ cpUser' = cpCommand.to.user
        /\ cpDisk' = [cpDisk EXCEPT ![Out][TargetName] = <<>>]
        /\ cpArgs' = cpArgs /\ cpJobs' = cpJobs /\ cpBuf' = cpBuf
        /\ cpPos' = cpPos /\ cpEof' = cpEof
        /\ cpCommand' = cpCommand /\ cpOld' = cpOld /\ cpBefore' = cpBefore
    BY <1>2 DEF CpMake, cpFixed
  <2>2. Out = cpCommand.to /\ cpCommand.to \in CpPlace /\ cpCommand.to.user \in CpUsers
    BY <2>1, CpCommandParts DEF CpInv, Out, CpPlace
  <2>3. /\ cpJobs # <<>> /\ CpFrom # CpNone
        /\ <<Source, Head(cpJobs).name>> # <<cpCommand.to, TargetName>>
        /\ cpCommand.erase \/ cpBefore[cpCommand.to][TargetName] = CpNone
        /\ cpPos = 0 /\ cpBuf = <<>> /\ CpCleared
    BY <2>1 DEF CpInv, CpWorking
  <2>4. /\ Source \in CpPlace /\ Head(cpJobs).name \in CpNames
        /\ TargetName \in CpNames /\ TargetName' = TargetName /\ Source' = Source
        /\ Hits \subseteq CpNames /\ Hits' = Hits
    BY <2>1, <2>3, CpHeadJob DEF CpInv, TargetName, Source, SourceUser, CpJob, Hits
  <2>5. CpFrom \in CpFile /\ CpKnown(CpFrom)
    BY <2>4 DEF CpInv, CpAllKnown, CpTypes, CpFrom
  <2>6. <<>> \in CpFile /\ CpKnown(<<>>)
    <3>1. <<>> \in CpFile /\ Len(<<>>) <= Len(CpFrom)
      BY <2>5, CpFiles DEF CpFile
    <3> QED
      BY <2>3, <2>5, <3>1, CpBeginning
  <2>7. /\ cpDisk' \in [CpPlace -> [CpNames -> CpFile]]
        /\ \A p \in CpPlace, m \in CpNames :
             cpDisk'[p][m] = IF p = cpCommand.to /\ m = TargetName THEN <<>> ELSE cpDisk[p][m]
        /\ CpAllKnown' /\ CpArgsLeft' /\ CpJobsRight' /\ CpOthersKept' /\ CpPending'
    BY <2>1, <2>2, <2>3, <2>6, CpPutStep DEF cpFixed
  <2>8. CpFrom' = CpFrom /\ CpTo' = <<>>
    BY <2>1, <2>2, <2>3, <2>4, <2>7 DEF CpFrom, CpTo
  <2>9. CpTypes' /\ CpFlags'
    BY <2>1, <2>2, <2>7 DEF CpInv, CpTypes, CpFlags
  <2>10. CpSearching' /\ CpUserRestored'
    BY <2>1 DEF CpSearching, CpUserRestored
  <2>11. CpCopied'
    <3>1. Len(CpTo') = 0 /\ Len(cpBuf') = 0 /\ cpPos' = 0 /\ Len(CpFrom') \in Nat
      BY <2>1, <2>3, <2>5, <2>8 DEF CpFile
    <3> QED
      BY <3>1 DEF CpCopied
  <2>12. ~cpEof' 
    BY <2>1 DEF CpInv, CpWorking
  <2>14. CpCleared'
    BY <2>1, <2>2, <2>3, <2>4, <2>7 DEF CpCleared
  <2>13. CpWorking'
    BY <2>1, <2>3, <2>4, <2>8, <2>11, <2>12, <2>14 DEF CpWorking
  <2> QED
    BY <2>7, <2>9, <2>10, <2>13 DEF CpInv
<1> QED
  BY <1>1, <1>2

\* One record of the source is read.
LEMMA CpReadStep ==
  ASSUME CpInv, CpRead
  PROVE  CpInv'
<1>1. CASE CpFatal
  BY <1>1, CpGivesUp
<1>2. CASE ~CpFatal
  <2>1. /\ cpPc = "read" /\ cpPc' = "read" /\ cpUser' = SourceUser /\ ~Full
        /\ cpPos < Len(In) /\ cpBuf' = Append(cpBuf, In[cpPos + 1]) /\ cpPos' = cpPos + 1
        /\ cpDisk' = cpDisk /\ cpArgs' = cpArgs /\ cpJobs' = cpJobs /\ cpEof' = cpEof
        /\ cpCommand' = cpCommand /\ cpOld' = cpOld /\ cpBefore' = cpBefore
    BY <1>2 DEF CpRead, cpFixed
  <2>2. /\ cpJobs # <<>> /\ CpFrom # CpNone /\ CpCopied /\ ~cpEof /\ CpCleared
        /\ <<Source, Head(cpJobs).name>> # <<cpCommand.to, TargetName>>
        /\ cpCommand.erase \/ cpBefore[cpCommand.to][TargetName] = CpNone
    BY <2>1 DEF CpInv, CpWorking
  <2>3. /\ Source \in CpPlace /\ Head(cpJobs).name \in CpNames /\ SourceUser \in CpUsers
        /\ TargetName \in CpNames /\ TargetName' = TargetName /\ Source' = Source
        /\ cpCommand.to \in CpPlace
    BY <2>1, <2>2, CpHeadJob, CpCommandParts DEF CpInv, TargetName, Source, SourceUser, CpJob
  <2>4. In = CpFrom
    BY <2>1 DEF In, CpFrom, Source
  <2>5. CpFrom \in CpFile /\ CpTo \in CpFile /\ cpBuf \in CpFile /\ cpPos \in Nat
    BY <2>3 DEF CpInv, CpTypes, CpFrom, CpTo
  <2>6. CpFrom' = CpFrom /\ CpTo' = CpTo
    BY <2>1, <2>3 DEF CpFrom, CpTo
  <2>7. CpFrom[cpPos + 1] \in CpRecords
    BY <2>1, <2>4, <2>5 DEF CpFile
  <2>8. /\ cpBuf' \in CpFile /\ Len(cpBuf') = Len(cpBuf) + 1 /\ Len(cpBuf) \in Nat
        /\ cpBuf'[Len(cpBuf) + 1] = CpFrom[cpPos + 1]
        /\ \A k \in 1..Len(cpBuf) : cpBuf'[k] = cpBuf[k]
    BY <2>1, <2>4, <2>5, <2>7 DEF CpFile
  <2>9. CpCopied'
    <3>1. Len(CpTo) \in Nat /\ Len(CpFrom) \in Nat
      BY <2>5 DEF CpFile
    <3>2. Len(CpTo') + Len(cpBuf') = cpPos' /\ cpPos' <= Len(CpFrom')
      BY <2>1, <2>2, <2>4, <2>5, <2>6, <2>8, <3>1 DEF CpCopied
    <3>3. \A k \in 1..Len(cpBuf') : cpBuf'[k] = CpFrom[Len(CpTo) + k]
      <4> TAKE k \in 1..Len(cpBuf')
      <4>1. CASE k \in 1..Len(cpBuf)
        BY <2>2, <2>8, <4>1 DEF CpCopied
      <4>2. CASE k \notin 1..Len(cpBuf)
        <5>1. k = Len(cpBuf) + 1
          BY <2>8, <4>2
        <5>2. Len(CpTo) + k = cpPos + 1
          BY <2>2, <2>8, <3>1, <5>1 DEF CpCopied
        <5> QED
          BY <2>8, <5>1, <5>2
      <4> QED
        BY <4>1, <4>2
    <3> QED
      BY <2>2, <2>6, <3>2, <3>3 DEF CpCopied
  <2>10. CpTypes'
    BY <2>1, <2>3, <2>5, <2>8 DEF CpInv, CpTypes
  <2>11. CpFlags'
    <3>1. Len(cpBuf) < IF cpCommand.single THEN 1 ELSE CpBuffer
      <4>1. Len(cpBuf) <= IF cpCommand.single THEN 1 ELSE CpBuffer
        BY DEF CpInv, CpFlags
      <4>2. Len(cpBuf) # IF cpCommand.single THEN 1 ELSE CpBuffer
        BY <2>1 DEF Full
      <4> DEFINE room == IF cpCommand.single THEN 1 ELSE CpBuffer
      <4>3. room \in Nat /\ Len(cpBuf) <= room /\ Len(cpBuf) # room
        BY <4>1, <4>2, CpAssumption
      <4> HIDE DEF room
      <4>4. Len(cpBuf) < room
        BY <2>8, <4>3
      <4> QED
        BY <4>4 DEF room
    <3>2. Len(cpBuf') <= IF cpCommand.single THEN 1 ELSE CpBuffer
      BY <2>8, <3>1, CpAssumption
    <3>3. cpEof' \in BOOLEAN
      BY <2>1 DEF CpInv, CpFlags
    <3> QED
      BY <2>1, <3>2, <3>3 DEF CpFlags
  <2>12. CpAllKnown' /\ CpArgsLeft' /\ CpJobsRight' /\ CpOthersKept' /\ CpPending'
    BY <2>1, CpCopyStep DEF cpFixed
  <2>13. CpSearching' /\ CpUserRestored'
    BY <2>1 DEF CpSearching, CpUserRestored
  <2>14. CpWorking'
    <3>1. ~cpEof'
      BY <2>1, <2>2
    <3>2. CpCleared'
      BY <2>1, <2>2 DEF CpCleared, Hits, TargetName
    <3> QED
      BY <2>1, <2>2, <2>3, <2>6, <2>9, <3>1, <3>2 DEF CpWorking
  <2> QED
    BY <2>10, <2>11, <2>12, <2>13, <2>14 DEF CpInv
<1> QED
  BY <1>1, <1>2

\* The buffer is full, or the source has ended.
LEMMA CpReadEndStep ==
  ASSUME CpInv, CpReadEnd
  PROVE  CpInv'
<1>1. /\ cpPc = "read" /\ cpPc' = "write"
      /\ cpDisk' = cpDisk /\ cpArgs' = cpArgs /\ cpJobs' = cpJobs /\ cpBuf' = cpBuf
      /\ cpPos' = cpPos
      /\ cpCommand' = cpCommand /\ cpOld' = cpOld /\ cpBefore' = cpBefore
  BY DEF CpReadEnd, cpFixed
<1>2. /\ cpJobs # <<>> /\ CpFrom # CpNone /\ CpCopied /\ ~cpEof /\ CpCleared
      /\ <<Source, Head(cpJobs).name>> # <<cpCommand.to, TargetName>>
      /\ cpCommand.erase \/ cpBefore[cpCommand.to][TargetName] = CpNone
  BY <1>1 DEF CpInv, CpWorking
<1>3. /\ Source \in CpPlace /\ Head(cpJobs).name \in CpNames /\ SourceUser \in CpUsers
      /\ TargetName \in CpNames /\ TargetName' = TargetName /\ Source' = Source
      /\ cpCommand.to \in CpPlace
  BY <1>1, <1>2, CpHeadJob, CpCommandParts DEF CpInv, TargetName, Source, SourceUser, CpJob
<1>4. CpFrom \in CpFile /\ cpPos \in Nat /\ CpFrom' = CpFrom /\ CpTo' = CpTo
  BY <1>1, <1>3 DEF CpInv, CpTypes, CpFrom, CpTo
<1>5. \/ cpUser' = cpUser /\ cpEof' = cpEof
      \/ cpUser' = SourceUser /\ cpPos = Len(CpFrom) /\ cpEof' = TRUE
  <2>1. CASE Full /\ UNCHANGED <<cpUser, cpEof>>
    BY <2>1
  <2>2. CASE ~Full /\ cpUser' = SourceUser /\ cpPos >= Len(In) /\ cpEof' = TRUE
    <3>1. In = CpFrom
      BY <2>2 DEF In, CpFrom, Source
    <3>2. cpPos <= Len(CpFrom) /\ Len(CpFrom) \in Nat
      BY <1>2, <1>4 DEF CpCopied, CpFile
    <3>3. cpPos = Len(CpFrom)
      BY <1>4, <2>2, <3>1, <3>2
    <3> QED
      BY <2>2, <3>3
  <2> QED
    BY <2>1, <2>2 DEF CpReadEnd
<1>6. cpUser' \in CpUsers /\ cpEof' \in BOOLEAN
  BY <1>3, <1>5 DEF CpInv, CpTypes, CpFlags
<1>7. CpTypes' /\ CpFlags'
  BY <1>1, <1>6 DEF CpInv, CpTypes, CpFlags
<1>8. CpAllKnown' /\ CpArgsLeft' /\ CpJobsRight' /\ CpOthersKept' /\ CpPending'
  BY <1>1, CpCopyStep DEF cpFixed
<1>9. CpSearching' /\ CpUserRestored'
  BY <1>1 DEF CpSearching, CpUserRestored
<1>10. CpCopied' /\ (cpEof' => cpPos' = Len(CpFrom'))
  <2>1. CpCopied'
    BY <1>1, <1>2, <1>4 DEF CpCopied
  <2>2. cpEof' => cpPos' = Len(CpFrom')
    BY <1>1, <1>2, <1>4, <1>5
  <2> QED
    BY <2>1, <2>2
<1>12. CpCleared'
  BY <1>1, <1>2 DEF CpCleared, Hits, TargetName
<1>11. CpWorking'
  BY <1>1, <1>2, <1>3, <1>4, <1>10, <1>12 DEF CpWorking
<1> QED
  BY <1>7, <1>8, <1>9, <1>11 DEF CpInv

\* One record of the buffer is written.
LEMMA CpWriteStep ==
  ASSUME CpInv, CpWrite
  PROVE  CpInv'
<1>1. CASE CpFatal
  BY <1>1, CpGivesUp
<1>2. CASE ~CpFatal
  <2> DEFINE longer == Append(CpTo, Head(cpBuf))
  <2>1. /\ cpPc = "write" /\ cpPc' = "write" /\ cpUser' = cpCommand.to.user /\ cpBuf # <<>>
        /\ cpDisk' = [cpDisk EXCEPT ![Out][TargetName] = Append(@, Head(cpBuf))]
        /\ cpBuf' = Tail(cpBuf)
        /\ cpArgs' = cpArgs /\ cpJobs' = cpJobs /\ cpPos' = cpPos /\ cpEof' = cpEof
        /\ cpCommand' = cpCommand /\ cpOld' = cpOld /\ cpBefore' = cpBefore
    BY <1>2 DEF CpWrite, cpFixed
  <2>2. Out = cpCommand.to /\ cpCommand.to \in CpPlace /\ cpCommand.to.user \in CpUsers
    BY <2>1, CpCommandParts DEF CpInv, Out, CpPlace
  <2>3. /\ cpJobs # <<>> /\ CpFrom # CpNone /\ CpCopied /\ CpCleared
        /\ <<Source, Head(cpJobs).name>> # <<cpCommand.to, TargetName>>
        /\ cpCommand.erase \/ cpBefore[cpCommand.to][TargetName] = CpNone
        /\ cpEof => cpPos = Len(CpFrom)
    BY <2>1 DEF CpInv, CpWorking
  <2>4. /\ Source \in CpPlace /\ Head(cpJobs).name \in CpNames
        /\ TargetName \in CpNames /\ TargetName' = TargetName /\ Source' = Source
        /\ Hits \subseteq CpNames /\ Hits' = Hits
    BY <2>1, <2>3, CpHeadJob DEF CpInv, TargetName, Source, SourceUser, CpJob, Hits
  <2>5. /\ CpFrom \in CpFile /\ CpKnown(CpFrom) /\ CpTo \in CpFile /\ cpBuf \in CpFile
        /\ Len(CpFrom) \in Nat /\ Len(CpTo) \in Nat /\ Len(cpBuf) \in Nat \ {0}
    <3>1. CpFrom \in CpFile /\ CpKnown(CpFrom) /\ CpTo \in CpFile /\ cpBuf \in CpFile
      BY <2>2, <2>4 DEF CpInv, CpAllKnown, CpTypes, CpFrom, CpTo
    <3> QED
      BY <2>1, <3>1 DEF CpFile
  <2>6. /\ Head(cpBuf) = cpBuf[1] /\ 1 \in 1..Len(cpBuf) /\ cpBuf[1] \in CpRecords
        /\ Tail(cpBuf) \in CpFile /\ Len(Tail(cpBuf)) = Len(cpBuf) - 1
        /\ \A k \in 1..Len(cpBuf) - 1 : Tail(cpBuf)[k] = cpBuf[k + 1]
    BY <2>1, <2>5 DEF CpFile
  <2>7. /\ longer \in CpFile /\ Len(longer) = Len(CpTo) + 1
        /\ longer[Len(CpTo) + 1] = cpBuf[1]
        /\ \A k \in 1..Len(CpTo) : longer[k] = CpTo[k]
    BY <2>5, <2>6 DEF CpFile
  <2>8. cpDisk' = [cpDisk EXCEPT ![cpCommand.to][TargetName] = longer]
    BY <2>1, <2>2, <2>4 DEF CpInv, CpTypes, CpTo
  <2> HIDE DEF longer
  <2>9. Len(longer) <= Len(CpFrom) /\ \A k \in 1..Len(longer) : longer[k] = CpFrom[k]
    <3>1. Len(longer) <= Len(CpFrom)
      BY <2>3, <2>5, <2>7 DEF CpCopied
    <3>2. cpBuf[1] = CpFrom[Len(CpTo) + 1]
      BY <2>3, <2>6 DEF CpCopied
    <3>3. \A k \in 1..Len(CpTo) : CpTo[k] = CpFrom[k]
      BY <2>3 DEF CpCopied
    <3> QED
      BY <2>5, <2>7, <3>1, <3>2, <3>3
  <2>10. CpKnown(longer)
    BY <2>3, <2>5, <2>7, <2>9, CpBeginning
  <2>11. /\ cpDisk' \in [CpPlace -> [CpNames -> CpFile]]
         /\ \A p \in CpPlace, m \in CpNames :
              cpDisk'[p][m] = IF p = cpCommand.to /\ m = TargetName THEN longer ELSE cpDisk[p][m]
         /\ CpAllKnown' /\ CpArgsLeft' /\ CpJobsRight' /\ CpOthersKept' /\ CpPending'
    BY <2>1, <2>3, <2>7, <2>8, <2>10, CpPutStep DEF cpFixed
  <2>12. CpFrom' = CpFrom /\ CpTo' = longer
    BY <2>1, <2>2, <2>3, <2>4, <2>11, ZenonT(30) DEF CpFrom, CpTo
  <2>13. CpTypes'
    BY <2>1, <2>2, <2>6, <2>11 DEF CpInv, CpTypes
  <2>14. CpFlags'
    <3> DEFINE room == IF cpCommand.single THEN 1 ELSE CpBuffer
    <3>1. room \in Nat /\ Len(cpBuf) <= room /\ cpEof' \in BOOLEAN
      BY <2>1, CpAssumption DEF CpInv, CpFlags
    <3>2. room' = room
      BY <2>1
    <3> HIDE DEF room
    <3>3. Len(cpBuf') <= room
      BY <2>1, <2>5, <2>6, <3>1
    <3>4. Len(cpBuf') <= room'
      BY <3>2, <3>3
    <3> QED
      BY <3>1, <3>4 DEF room, CpFlags
  <2>15. CpSearching' /\ CpUserRestored'
    BY <2>1 DEF CpSearching, CpUserRestored
  <2>16. CpCopied'
    <3>1. Len(CpTo') + Len(cpBuf') = cpPos' /\ cpPos' <= Len(CpFrom')
      <4>1. Len(cpBuf') = Len(cpBuf) - 1 /\ Len(CpTo') = Len(CpTo) + 1
        BY <2>1, <2>6, <2>7, <2>12
      <4>2. Len(CpTo) + Len(cpBuf) = cpPos /\ cpPos <= Len(CpFrom)
        BY <2>3 DEF CpCopied
      <4>3. cpPos' = cpPos /\ Len(CpFrom') = Len(CpFrom)
        BY <2>1, <2>12
      <4> QED
        BY <2>5, <4>1, <4>2, <4>3
    <3>2. \A k \in 1..Len(CpTo') : CpTo'[k] = CpFrom'[k]
      BY <2>9, <2>12
    <3>3. \A k \in 1..Len(cpBuf') : cpBuf'[k] = CpFrom[Len(longer) + k]
      <4> TAKE k \in 1..Len(cpBuf')
      <4>1. k \in 1..Len(cpBuf) - 1 /\ k + 1 \in 1..Len(cpBuf)
        BY <2>1, <2>5, <2>6
      <4>2. cpBuf'[k] = cpBuf[k + 1]
        BY <2>1, <2>6, <4>1
      <4>3. cpBuf[k + 1] = CpFrom[Len(CpTo) + (k + 1)]
        BY <2>3, <4>1 DEF CpCopied
      <4>4. Len(CpTo) + (k + 1) = Len(longer) + k
        BY <2>5, <2>7
      <4> QED
        BY <4>2, <4>3, <4>4
    <3> QED
      BY <2>12, <3>1, <3>2, <3>3 DEF CpCopied
  <2>17. cpEof' => cpPos' = Len(CpFrom')
    BY <2>1, <2>3, <2>12
  <2>19. CpCleared'
    BY <2>1, <2>2, <2>3, <2>4, <2>11 DEF CpCleared
  <2>18. CpWorking'
    BY <2>1, <2>3, <2>4, <2>12, <2>16, <2>17, <2>19 DEF CpWorking
  <2> QED
    BY <2>11, <2>13, <2>14, <2>15, <2>18 DEF CpInv
<1> QED
  BY <1>1, <1>2

\* The buffer is empty.
LEMMA CpWriteEndStep ==
  ASSUME CpInv, CpWriteEnd
  PROVE  CpInv'
<1>1. /\ cpPc = "write" /\ cpBuf = <<>>
      /\ cpPc' = IF cpEof THEN "close" ELSE "read"
      /\ cpDisk' = cpDisk /\ cpUser' = cpUser /\ cpArgs' = cpArgs /\ cpJobs' = cpJobs
      /\ cpBuf' = cpBuf /\ cpPos' = cpPos /\ cpEof' = cpEof
      /\ cpCommand' = cpCommand /\ cpOld' = cpOld /\ cpBefore' = cpBefore
  BY DEF CpWriteEnd, cpFixed
<1>2. /\ cpJobs # <<>> /\ CpFrom # CpNone /\ CpCopied /\ CpCleared
      /\ <<Source, Head(cpJobs).name>> # <<cpCommand.to, TargetName>>
      /\ cpCommand.erase \/ cpBefore[cpCommand.to][TargetName] = CpNone
      /\ cpEof => cpPos = Len(CpFrom)
  BY <1>1 DEF CpInv, CpWorking
<1>3. cpPc' \in {"read", "close"} /\ (cpPc' = "read" => ~cpEof') /\ (cpPc' = "close" => cpEof')
  BY <1>1 DEF CpInv, CpFlags
<1>4. CpTypes' /\ CpFlags'
  <2>1. CpTypes'
    BY <1>1, <1>3 DEF CpInv, CpTypes
  <2>2. CpFlags'
    BY <1>1 DEF CpInv, CpFlags
  <2> QED
    BY <2>1, <2>2
<1>5. CpAllKnown' /\ CpArgsLeft' /\ CpJobsRight' /\ CpOthersKept' /\ CpPending'
  BY <1>1, CpCopyStep DEF cpFixed
<1>6. CpSearching' /\ CpUserRestored'
  BY <1>3 DEF CpSearching, CpUserRestored
<1>7. /\ Source' = Source /\ TargetName' = TargetName /\ CpFrom' = CpFrom /\ CpTo' = CpTo
      /\ CpCopied'
  BY <1>1, <1>2, ZenonT(30) DEF Source, SourceUser, TargetName, CpFrom, CpTo, CpCopied
<1>9. CpCleared'
  BY <1>1, <1>2 DEF CpCleared, Hits, TargetName
<1>8. CpWorking'
  BY <1>1, <1>2, <1>3, <1>7, <1>9 DEF CpWorking
<1> QED
  BY <1>4, <1>5, <1>6, <1>8 DEF CpInv

\* A copy that is complete is its source as it was before the program started.
LEMMA CpCopyWhole ==
  ASSUME CpInv, cpPc = "close"
  PROVE  CpTo = CpFrom /\ (OneUser => CpTo \in SourcesOf(TargetName))
<1>1. /\ cpJobs # <<>> /\ CpFrom # CpNone /\ CpCopied /\ cpBuf = <<>> /\ cpPos = Len(CpFrom)
      /\ CpCleared
      /\ <<Source, Head(cpJobs).name>> # <<cpCommand.to, TargetName>>
  BY DEF CpInv, CpWorking
<1>2. /\ Source \in CpPlace /\ Head(cpJobs) \in CpJob /\ Head(cpJobs).name \in CpNames
      /\ TargetName \in CpNames /\ CpIsJob(Head(cpJobs)) /\ cpCommand.to \in CpPlace
      /\ Len(cpCommand.specs) \in Nat \ {0}
  BY <1>1, CpHeadJob, CpCommandParts DEF CpInv, CpJob
<1>3. CpTo = CpFrom
  <2>1. CpTo \in CpFile /\ CpFrom \in CpFile
    BY <1>2 DEF CpInv, CpTypes, CpFrom, CpTo
  <2>2. Len(CpTo) = Len(CpFrom)
    BY <1>1, <2>1 DEF CpCopied, CpFile
  <2>3. \A k \in 1..Len(CpTo) : CpTo[k] = CpFrom[k]
    BY <1>1 DEF CpCopied
  <2> QED
    BY <2>1, <2>2, <2>3, SeqEqual DEF CpFile
<1>4. CpFrom = cpBefore[Source][Head(cpJobs).name]
  <2>1. CASE cpCommand.name = "*"
    <3>1. TargetName = Head(cpJobs).name
      BY <2>1 DEF TargetName
    <3> QED
      BY <1>1, <1>2, <3>1 DEF CpInv, CpOthersKept, CpFrom
  <2>2. CASE cpCommand.name # "*"
    <3>1. Targets = Hits
      BY <2>2, CpCommandParts DEF Targets, Copies, Hits, CpInv
    <3>2. Source # cpCommand.to \/ Head(cpJobs).name \notin Hits
      BY <1>1 DEF CpCleared, CpFrom
    <3> QED
      BY <1>2, <3>1, <3>2 DEF CpInv, CpOthersKept, CpFrom
  <2> QED
    BY <2>1, <2>2
<1>5. ASSUME OneUser
      PROVE  CpTo \in SourcesOf(TargetName)
  <2>1. SourceUser = cpOld
    BY <1>2, <1>5 DEF OneUser, SourceUser, Last
  <2>2. Source = CpAt(Head(cpJobs).drive, cpOld)
    BY <2>1 DEF Source
  <2>3. CASE cpCommand.name = "*"
    <3>1. PICK j \in 1..Len(cpCommand.specs) :
            Head(cpJobs).drive = cpCommand.specs[j].drive
              /\ Head(cpJobs).name \in cpCommand.specs[j].names
      BY <1>2, <2>3 DEF CpIsJob
    <3>2. TargetName = Head(cpJobs).name
      BY <2>3 DEF TargetName
    <3> QED
      BY <1>1, <1>3, <1>4, <2>2, <2>3, <3>1, <3>2, SMTT(30) DEF SourcesOf
  <2>4. CASE cpCommand.name # "*"
    <3>1. /\ Head(cpJobs).drive = cpCommand.specs[1].drive
          /\ Head(cpJobs).name \in cpCommand.specs[1].names
      BY <1>2, <2>4 DEF CpIsJob
    <3>2. CpFrom = cpBefore[CpAt(cpCommand.specs[1].drive, cpOld)][Head(cpJobs).name]
      BY <1>4, <2>2, <3>1
    <3> QED
      BY <1>1, <1>3, <2>4, <3>1, <3>2 DEF SourcesOf
  <2> QED
    BY <2>3, <2>4
<1> QED
  BY <1>3, <1>5

\* The destination is closed.
LEMMA CpCloseStep ==
  ASSUME CpInv, CpClose
  PROVE  CpInv'
<1>1. CASE CpFatal
  BY <1>1, CpGivesUp
<1>2. CASE ~CpFatal
  <2>1. /\ cpPc = "close" /\ cpPc' = "next" /\ cpJobs' = Tail(cpJobs)
        /\ cpDisk' = cpDisk /\ cpUser' = cpUser /\ cpArgs' = cpArgs
        /\ cpBuf' = cpBuf /\ cpPos' = cpPos /\ cpEof' = cpEof
        /\ cpCommand' = cpCommand /\ cpOld' = cpOld /\ cpBefore' = cpBefore
    BY <1>2 DEF CpClose, cpFixed
  <2>2. cpJobs # <<>> /\ cpJobs \in Seq(CpJob)
    BY <2>1 DEF CpInv, CpWorking, CpTypes
  <2>3. /\ Tail(cpJobs) \in Seq(CpJob) /\ Len(Tail(cpJobs)) = Len(cpJobs) - 1
        /\ \A k \in 1..Len(cpJobs) - 1 : Tail(cpJobs)[k] = cpJobs[k + 1]
        /\ Len(cpJobs) \in Nat \ {0}
    BY <2>2
  <2>4. CpTypes' /\ CpFlags'
    BY <2>1, <2>3 DEF CpInv, CpTypes, CpFlags
  <2>5. CpAllKnown' /\ CpArgsLeft' /\ CpOthersKept'
    BY <2>1 DEF CpInv, CpAllKnown, CpArgsLeft, CpOthersKept, Targets, Copies
  <2>6. CpSearching' /\ CpWorking' /\ CpUserRestored'
    BY <2>1 DEF CpSearching, CpWorking, CpUserRestored
  <2>7. CpJobsRight'
    <3>1. \A k \in 1..Len(cpJobs') : CpIsJob(cpJobs'[k])
      BY <2>1, <2>3 DEF CpInv, CpJobsRight
    <3> QED
      BY <2>1, <3>1 DEF CpJobsRight, CpIsJob
  <2>8. CpPending'
    <3>1. OneUser' = OneUser /\ Copies' = Copies /\ \A n : SourcesOf(n)' = SourcesOf(n)
      BY <2>1, CpSame DEF cpFixed
    <3>3. ASSUME OneUser, NEW n \in Copies, SourcesOf(n) # {}
          PROVE  \/ \E k \in 1..Len(cpJobs') : CpTargetOf(cpJobs'[k]) = n
                 \/ cpDisk[cpCommand.to][n] \in SourcesOf(n)
      <4>1. CASE n = TargetName
        BY <2>1, <3>3, <4>1, CpCopyWhole DEF CpTo
      <4>2. CASE n # TargetName
        <5>1. CASE cpDisk[cpCommand.to][n] \in SourcesOf(n)
          BY <5>1
        <5>2. CASE \E k \in 1..Len(cpJobs) : CpTargetOf(cpJobs[k]) = n
          <6>1. PICK k \in 1..Len(cpJobs) : CpTargetOf(cpJobs[k]) = n
            BY <5>2
          <6>2. k # 1
            BY <2>2, <4>2, <6>1, CpHeadJob DEF CpInv
          <6>3. k - 1 \in 1..Len(cpJobs) - 1 /\ (k - 1) + 1 = k
            BY <2>3, <6>2
          <6>4. k - 1 \in 1..Len(cpJobs') /\ cpJobs'[k - 1] = cpJobs[k]
            BY <2>1, <2>3, <6>3
          <6> QED
            BY <6>1, <6>4
        <5> QED
          BY <2>1, <3>3, <5>1, <5>2 DEF CpInv, CpPending
      <4> QED
        BY <4>1, <4>2
    <3> QED
      BY <2>1, <3>1, <3>3 DEF CpPending, CpTargetOf
  <2> QED
    BY <2>4, <2>5, <2>6, <2>7, <2>8 DEF CpInv
<1> QED
  BY <1>1, <1>2

\* The program has not begun.
LEMMA CpInitial == CpStart \/ CpOff => CpInv
<1>1. ASSUME NEW place \in {"search", "off"}, cpPc = place,
             NEW disk \in [CpPlace -> [CpNames -> CpFile]], NEW user \in CpUsers,
             NEW command \in CpCommands, CpNow(disk, user, command),
             \A p \in CpPlace, n \in CpNames : CpKnown(disk[p][n])
      PROVE  CpInv
  <2>1. /\ cpDisk = disk /\ cpBefore = disk /\ cpUser = user /\ cpOld = user
        /\ cpCommand = command /\ cpArgs = command.specs
        /\ cpJobs = <<>> /\ cpBuf = <<>> /\ cpPos = 0 /\ cpEof = FALSE
    BY <1>1 DEF CpNow
  <2>2. command.specs \in Seq(CpSpec) /\ Len(command.specs) \in Nat
    <3>1. command.specs \in Seq(CpSpec)
      BY CpAssumption, Zenon DEF CpSpec
    <3> QED
      BY <3>1
  <2>3. <<>> \in CpFile /\ <<>> \in Seq(CpJob) /\ Len(<<>>) = 0
    BY CpFiles
  <2>4. CpTypes
    BY <1>1, <2>1, <2>2, <2>3 DEF CpTypes
  <2>5. CpFlags
    <3>1. Len(cpBuf) = 0 /\ cpEof \in BOOLEAN
      BY <2>1, <2>3
    <3> QED
      BY <3>1, CpAssumption DEF CpFlags
  <2>6. CpAllKnown /\ CpOthersKept
    BY <1>1, <2>1 DEF CpAllKnown, CpOthersKept
  <2>7. CpArgsLeft /\ CpJobsRight
    BY <2>1, <2>2, <2>3 DEF CpArgsLeft, CpJobsRight
  <2>8. CpSearching
    BY <2>1, <2>2 DEF CpSearching
  <2>9. CpPending /\ CpWorking /\ CpUserRestored
    BY <1>1 DEF CpPending, CpWorking, CpUserRestored
  <2> QED
    BY <2>4, <2>5, <2>6, <2>7, <2>8, <2>9 DEF CpInv
<1>2. \A c \in CpContents : CpKnown(c)
  <2> TAKE c \in CpContents
  <2>1. IsPrefix(c, c)
    BY CpFiles, PrefixByElement DEF CpFile
  <2> QED
    BY <2>1 DEF CpKnown
<1>3. CpKnown(CpNone) /\ CpNone \in CpFile
  BY CpFiles DEF CpKnown
<1>4. CASE CpStart
  <2>1. PICK disk \in CpDisks, user \in CpUsers, command \in CpCommands :
          CpNow(disk, user, command)
    BY <1>4 DEF CpStart
  <2>2. disk \in [CpPlace -> [CpNames -> CpFile]]
    BY CpFiles
  <2>3. \A p \in CpPlace, n \in CpNames : CpKnown(disk[p][n])
    BY <1>2, <1>3, CpAssumption
  <2> QED
    BY <1>1, <1>4, <2>1, <2>2, <2>3 DEF CpStart
<1>5. CASE CpOff
  <2> DEFINE disk    == [p \in CpPlace |-> [n \in CpNames |-> CpNone]]
             user    == CHOOSE u \in CpUsers : TRUE
             command == CHOOSE c \in CpCommands : TRUE
  <2>1. user \in CpUsers /\ command \in CpCommands
    BY CpAssumption
  <2>2. disk \in [CpPlace -> [CpNames -> CpFile]]
          /\ \A p \in CpPlace, n \in CpNames : CpKnown(disk[p][n])
    BY <1>3
  <2>3. CpNow(disk, user, command) /\ cpPc = "off"
    BY <1>5 DEF CpOff
  <2> HIDE DEF disk, user, command
  <2> QED
    BY <1>1, <2>1, <2>2, <2>3
<1> QED
  BY <1>4, <1>5

\* Every step keeps it.
LEMMA CpStaysRight ==
  ASSUME CpInv, [CpStep]_cpVars
  PROVE  CpInv'
<1>1. CASE UNCHANGED cpVars
  <2>1. /\ cpPc' = cpPc /\ cpDisk' = cpDisk /\ cpUser' = cpUser /\ cpArgs' = cpArgs
        /\ cpJobs' = cpJobs /\ cpBuf' = cpBuf /\ cpPos' = cpPos /\ cpEof' = cpEof
        /\ cpCommand' = cpCommand /\ cpOld' = cpOld /\ cpBefore' = cpBefore
    BY <1>1 DEF cpVars
  <2>2. CpTypes' /\ CpFlags'
    BY <2>1 DEF CpInv, CpTypes, CpFlags
  <2>3. CpAllKnown' /\ CpArgsLeft' /\ CpJobsRight' /\ CpOthersKept' /\ CpUserRestored'
    BY <2>1 DEF CpInv, CpAllKnown, CpArgsLeft, CpJobsRight, CpIsJob, CpOthersKept, Targets, Copies,
                CpUserRestored
  <2>4. CpSearching'
    BY <2>1 DEF CpInv, CpSearching
  <2>5. CpPending'
    <3>1. CASE cpPc \notin {"off", "search", "failed"}
      BY <2>1, <3>1, CpCopyStep DEF cpFixed
    <3>2. CASE cpPc \in {"off", "search", "failed"}
      BY <2>1, <3>2 DEF CpPending
    <3> QED
      BY <3>1, <3>2
  <2>6. CpWorking'
    <3>1. /\ Source' = Source /\ TargetName' = TargetName /\ CpFrom' = CpFrom /\ CpTo' = CpTo
          /\ CpCopied' = CpCopied /\ CpCleared' = CpCleared
      BY <2>1 DEF Source, SourceUser, TargetName, Hits, CpFrom, CpTo, CpCopied, CpCleared
    <3> QED
      BY <2>1, <3>1 DEF CpInv, CpWorking
  <2> QED
    BY <2>2, <2>3, <2>4, <2>5, <2>6 DEF CpInv
<1>2. CASE CpStep
  BY <1>2, CpSearchStep, CpSearchedStep, CpSingleStep, CpNextStep, CpCheckStep, CpOpenStep,
     CpMakeStep, CpReadStep, CpReadEndStep, CpWriteStep, CpWriteEndStep, CpCloseStep DEF CpStep
<1> QED
  BY <1>1, <1>2

\* copy.c: a copy is whole when the program says so, whatever was in the buffer's way, and
\* however it ends the other files and the user are as before.
LEMMA CopyRight == (CpStart \/ CpOff) /\ [][CpStep]_cpVars => [](CpTypeOK /\ CpCopiesOnly)
<1>1. CpInv => CpTypeOK
  BY DEF CpInv, CpTypes, CpFlags, CpAllKnown, CpKnown, CpTypeOK
<1>2. CpInv => CpCopiesOnly
  BY DEF CpInv, CpPending, CpWorking, CpCopiesOnly, CpCopiesWhole
<1> QED
  BY <1>1, <1>2, CpInitial, CpStaysRight, PTL

-----------------------------------------------------------------------------
(***************************************************************************)
(* STAT                                                                    *)
(***************************************************************************)
StItem  == [device : 0..3, to : 0..3 \cup {StBad, StShow}]
StEntry == [name : StNames, ro : BOOLEAN, sys : BOOLEAN, records : Nat, blocks : Nat]
StFile  == [name : StNames, ro : BOOLEAN, sys : BOOLEAN, extents : Nat, records : Nat,
            blocks : Nat]

\* A byte is its four fields.
LEMMA StByte ==
  ASSUME NEW io \in 0..255
  PROVE  \E a, b, c, d \in 0..3 : io = a + 4 * b + 16 * c + 64 * d
<1> WITNESS io % 4 \in 0..3, (io \div 4) % 4 \in 0..3, (io \div 16) % 4 \in 0..3, io \div 64 \in 0..3
<1> QED
  OBVIOUS

\* The I/O byte is four fields of two bits: each is read back from their sum.
LEMMA StFieldsOf ==
  ASSUME NEW a \in 0..3, NEW b \in 0..3, NEW c \in 0..3, NEW d \in 0..3
  PROVE  LET io == a + 4 * b + 16 * c + 64 * d
         IN  /\ io \in 0..255
             /\ StField(io, 0) = a /\ StField(io, 1) = b
             /\ StField(io, 2) = c /\ StField(io, 3) = d
<1> DEFINE io == a + 4 * b + 16 * c + 64 * d
<1>1. io \in 0..255
  OBVIOUS
<1>2. /\ StUnit(0) = 1 /\ StUnit(1) = 4 /\ StUnit(2) = 16 /\ StUnit(3) = 64
  BY DEF StUnit
<1>3. StField(io, 0) = a
  <2>1. io \div 1 = io /\ io = 4 * (b + 4 * c + 16 * d) + a
    OBVIOUS
  <2> QED
    BY <1>2, <2>1 DEF StField
<1>4. io \div 4 = b + 4 * c + 16 * d /\ (b + 4 * c + 16 * d) % 4 = b
  OBVIOUS
<1>5. io \div 16 = c + 4 * d /\ (c + 4 * d) % 4 = c
  OBVIOUS
<1>6. io \div 64 = d /\ d % 4 = d
  OBVIOUS
<1> QED
  BY <1>1, <1>2, <1>3, <1>4, <1>5, <1>6 DEF StField

StOneField(io, device, to) ==
  /\ Assigned(io, device, to) \in 0..255
  /\ \A e \in 0..3 :
       StField(Assigned(io, device, to), e) = IF e = device THEN to ELSE StField(io, e)

\* An assignment changes one field.
LEMMA StAssign ==
  ASSUME NEW io \in 0..255, NEW device \in 0..3, NEW to \in 0..3
  PROVE  StOneField(io, device, to)
<1>1. PICK a, b, c, d \in 0..3 : io = a + 4 * b + 16 * c + 64 * d
  BY StByte
<1>2. StField(io, 0) = a /\ StField(io, 1) = b /\ StField(io, 2) = c /\ StField(io, 3) = d
  BY <1>1, StFieldsOf
<1>3. /\ StUnit(0) = 1 /\ StUnit(1) = 4 /\ StUnit(2) = 16 /\ StUnit(3) = 64
  BY DEF StUnit
<1>4. CASE device = 0
  <2>1. Assigned(io, device, to) = to + 4 * b + 16 * c + 64 * d
    BY <1>1, <1>2, <1>3, <1>4 DEF Assigned
  <2> QED
    BY <1>2, <1>4, <2>1, StFieldsOf DEF StOneField
<1>5. CASE device = 1
  <2>1. Assigned(io, device, to) = a + 4 * to + 16 * c + 64 * d
    BY <1>1, <1>2, <1>3, <1>5 DEF Assigned
  <2> QED
    BY <1>2, <1>5, <2>1, StFieldsOf DEF StOneField
<1>6. CASE device = 2
  <2>1. Assigned(io, device, to) = a + 4 * b + 16 * to + 64 * d
    BY <1>1, <1>2, <1>3, <1>6 DEF Assigned
  <2> QED
    BY <1>2, <1>6, <2>1, StFieldsOf DEF StOneField
<1>7. CASE device = 3
  <2>1. Assigned(io, device, to) = a + 4 * b + 16 * c + 64 * to
    BY <1>1, <1>2, <1>3, <1>7 DEF Assigned
  <2> QED
    BY <1>2, <1>7, <2>1, StFieldsOf DEF StOneField
<1> QED
  BY <1>4, <1>5, <1>6, <1>7

-----------------------------------------------------------------------------
StCountNames == {"extents", "records", "blocks"}

\* What is known of files[] when k entries of the directory have been counted: a row's
\* sums for each name that is looked for, and where each row comes from.
StRowRight(table, n, k) ==
  LET own == {i \in 1..Len(table) : table[i].name = n}
  IN  IF \A i \in 1..k : stDirBefore[i].name # n THEN own = {}
      ELSE \E f \in own :
             /\ own = {f}
             /\ \A of \in StCountNames : table[f][of] = StSum(n, of)[k]
StRowFrom(table, i, k) ==
  /\ table[i].name \in stWanted
  /\ \E j \in 1..k : /\ stDirBefore[j].name = table[i].name
                     /\ stDirBefore[j].ro = table[i].ro /\ stDirBefore[j].sys = table[i].sys
StRows(table, k) ==
  /\ \A n \in stWanted : StRowRight(table, n, k)
  /\ \A i \in 1..Len(table) : StRowFrom(table, i, k)

StTypes ==
  /\ stPc \in {"off", "devices", "search", "files", "done", "stopped"}
  /\ stDir \in Seq(StEntry) /\ stDirBefore \in Seq(StEntry) /\ Len(stDir) = Len(stDirBefore)
  /\ stTable \in Seq(StFile) /\ Len(stTable) <= StCount
  /\ stAt \in 1..Len(stDir) + 1
  /\ stWanted \subseteq StNames /\ stCommand \in StCommands
  /\ \A i, j \in 1..Len(stDirBefore) :
       stDirBefore[i].name = stDirBefore[j].name =>
         stDirBefore[i].ro = stDirBefore[j].ro /\ stDirBefore[i].sys = stDirBefore[j].sys

\* A device has what the last of its own assignments says, or what it had.
StOwn(d, k, items) == {i \in 1..k : items[i].device = d /\ items[i].to # StShow}
StTo(own, d, io, items) ==
  IF own = {} THEN StField(io, d) ELSE items[CHOOSE i \in own : \A k \in own : k <= i].to
StHoldAfter(k, io, before, items) ==
  \A d \in 0..3 : StField(io, d) = StTo(StOwn(d, k, items), d, before, items)

\* The items still to be done are the last of the line.
StItemsLeft ==
  /\ stIo \in 0..255 /\ stIoBefore \in 0..255
  /\ stItems \in Seq(StItem) /\ stItemsBefore \in Seq(StItem)
  /\ Len(stItems) <= Len(stItemsBefore)
  /\ \A i \in 1..Len(stItems) :
       stItems[i] = stItemsBefore[i + (Len(stItemsBefore) - Len(stItems))]

\* The files of the table before stAt have their new attributes.
StSetSoFar ==
  \A i \in 1..Len(stDir) :
    stDir[i] = IF \E k \in 1..stAt - 1 : stTable[k].name = stDirBefore[i].name
               THEN StWished(stDirBefore[i]) ELSE stDirBefore[i]

StPlaces ==
  /\ stPc = "devices" => stWanted = {} /\ stDirBefore = <<>> /\ stDir = <<>>
  /\ stPc = "search" =>
       /\ stDir = stDirBefore /\ Len(stTable) < StCount /\ Len(stTable) <= stAt - 1
       /\ StRows(stTable, stAt - 1)
  /\ stPc = "files" =>
       /\ stAt <= Len(stTable) + 1 /\ Len(stTable) <= Len(stDir) /\ stCommand # "list"
       /\ StRows(stTable, Len(stDirBefore)) /\ StSetSoFar

StInv ==
  StTypes /\ StItemsLeft /\ StPlaces /\ StLastAssignmentHolds /\ StTableAddsUp /\ StAttributesSet

\* The sums, entry by entry.
LEMMA StSumRec ==
  ASSUME stDirBefore \in Seq(StEntry), NEW name, NEW of \in StCountNames
  PROVE  /\ \A k \in 0..Len(stDirBefore) : StSum(name, of)[k] \in Nat
         /\ StSum(name, of)[0] = 0
         /\ \A k \in 1..Len(stDirBefore) :
              StSum(name, of)[k] = StSum(name, of)[k - 1]
                + IF stDirBefore[k].name = name THEN StCounts(stDirBefore[k])[of] ELSE 0
<1> DEFINE n == Len(stDirBefore)
           More(k) == IF stDirBefore[k].name = name THEN StCounts(stDirBefore[k])[of] ELSE 0
           F == [xk \in Nat \X (1..n) |-> xk[1] + More(xk[2])]
           Body(s) == [k \in 0..n |-> IF k = 0 THEN 0 ELSE s[k - 1] + More(k)]
           t == StSum(name, of)
<1>1. n \in Nat /\ \A k \in 1..n : More(k) \in Nat
  <2>1. n \in Nat /\ \A k \in 1..n : stDirBefore[k] \in StEntry
    OBVIOUS
  <2>2. \A e \in StEntry : StCounts(e)[of] \in Nat
    BY DEF StEntry, StCounts, StCountNames
  <2> QED
    BY <2>1, <2>2
<1>2. t = CHOOSE s : s = Body(s)
  BY Zenon DEF StSum
<1> HIDE DEF n, More, t
<1>3. F \in [Nat \X (1..n) -> Nat]
  BY <1>1
<1>4. PICK s : Recursive(s, Nat, 0, n, F)
  <2> HIDE DEF F
  <2> QED
    BY <1>1, <1>3, PrimRec, Zenon
<1>5. s \in [0..n -> Nat] /\ s[0] = 0
  BY <1>4 DEF Recursive
<1>6. \A k \in 1..n : s[k] = s[k - 1] + More(k)
  <2> TAKE k \in 1..n
  <2>1. s[k - 1] \in Nat
    BY <1>1, <1>5
  <2> QED
    BY <1>4, <2>1 DEF Recursive
<1>7. s = Body(s)
  BY <1>1, <1>5, <1>6
<1>8. t = Body(t)
  BY <1>2, <1>7, Zenon
<1>9. t[0] = 0 /\ \A k \in 1..n : t[k] = t[k - 1] + More(k)
  BY <1>1, <1>8
<1>10. \A k \in 0..n : t[k] \in Nat
  <2> DEFINE G == {k \in 0..n : t[k] \in Nat}
  <2>1. 0 \in G
    BY <1>1, <1>9
  <2>2. ASSUME NEW k \in 1..n, k - 1 \in G
        PROVE  k \in G
    BY <1>1, <1>9, <2>2
  <2>3. 0..n \subseteq G
    <3> HIDE DEF G
    <3> QED
      BY <1>1, <2>1, <2>2, UpTo
  <2> QED
    BY <2>3
<1> QED
  BY <1>9, <1>10 DEF t, n, More

\* One entry is counted.
LEMMA StCountedRight ==
  ASSUME StTypes, StPlaces, stPc = "search", stAt <= Len(stDir), Entry.name \in stWanted
  PROVE  /\ Counted(stTable) \in Seq(StFile)
         /\ Len(Counted(stTable)) \in {Len(stTable), Len(stTable) + 1}
         /\ StRows(Counted(stTable), stAt)
<1> DEFINE T == Counted(stTable)
           L == Len(stTable)
           same == {i \in 1..L : stTable[i].name = Entry.name
                      /\ stTable[i].ro = Entry.ro /\ stTable[i].sys = Entry.sys}
           own(n) == {i \in 1..L : stTable[i].name = n}
<1>1. /\ stAt \in 1..Len(stDirBefore) /\ Entry = stDirBefore[stAt] /\ Entry \in StEntry
      /\ stTable \in Seq(StFile) /\ L \in Nat /\ \A i \in 1..L : stTable[i] \in StFile
      /\ stDirBefore \in Seq(StEntry) /\ Len(stDirBefore) \in Nat
  <2>1. stDir = stDirBefore
    BY DEF StPlaces
  <2>2. /\ stTable \in Seq(StFile) /\ stDirBefore \in Seq(StEntry) /\ stAt \in 1..Len(stDir)
    BY DEF StTypes
  <2> QED
    BY <2>1, <2>2 DEF Entry
<1>2. /\ \A n \in stWanted : StRowRight(stTable, n, stAt - 1)
      /\ \A i \in 1..L : StRowFrom(stTable, i, stAt - 1)
  BY DEF StPlaces, StRows
<1>3. same = own(Entry.name)
  <2>1. ASSUME NEW i \in 1..L, stTable[i].name = Entry.name
        PROVE  stTable[i].ro = Entry.ro /\ stTable[i].sys = Entry.sys
    <3>1. PICK j \in 1..stAt - 1 :
            /\ stDirBefore[j].name = stTable[i].name
            /\ stDirBefore[j].ro = stTable[i].ro /\ stDirBefore[j].sys = stTable[i].sys
      BY <1>2 DEF StRowFrom
    <3>2. j \in 1..Len(stDirBefore) /\ stAt \in 1..Len(stDirBefore)
      BY <1>1
    <3> QED
      BY <1>1, <2>1, <3>1, <3>2 DEF StTypes
  <2> QED
    BY <2>1
<1>4. \A n, of : of \in StCountNames =>
        StSum(n, of)[stAt] = StSum(n, of)[stAt - 1] + (IF Entry.name = n THEN StCounts(Entry)[of] ELSE 0)
          /\ StSum(n, of)[stAt - 1] \in Nat
  BY <1>1, StSumRec
<1>5. \A n : (\A i \in 1..stAt : stDirBefore[i].name # n)
               <=> (\A i \in 1..stAt - 1 : stDirBefore[i].name # n) /\ Entry.name # n
  BY <1>1
<1>6. CASE same = {}
  <2> DEFINE row == [name |-> Entry.name, ro |-> Entry.ro, sys |-> Entry.sys,
                     extents |-> 1, records |-> Entry.records, blocks |-> Entry.blocks]
  <2>1. T = Append(stTable, row)
    BY <1>6, ZenonT(30) DEF Counted
  <2>2. /\ row \in StFile /\ row.name = Entry.name /\ row.ro = Entry.ro /\ row.sys = Entry.sys
        /\ \A of \in StCountNames : row[of] = StCounts(Entry)[of]
    BY <1>1 DEF StEntry, StFile, StCounts, StCountNames
  <2> HIDE DEF T, row
  <2>3. /\ T \in Seq(StFile) /\ Len(T) = L + 1 /\ T[L + 1] = row
        /\ \A i \in 1..L : T[i] = stTable[i]
    BY <1>1, <2>1, <2>2
  <2>4. \A n \in stWanted : StRowRight(T, n, stAt)
    <3> TAKE n \in stWanted
    <3>1. StRowRight(stTable, n, stAt - 1)
      BY <1>2
    <3>2. CASE n = Entry.name
      <4>1. {i \in 1..Len(T) : T[i].name = n} = {L + 1}
        <5>1. \A i \in 1..L : stTable[i].name # n
          BY <1>3, <1>6, <3>2
        <5>2. \A i \in 1..L : T[i].name # n
          BY <2>3, <5>1
        <5>3. T[L + 1].name = n
          BY <2>2, <2>3, <3>2
        <5>4. \A i \in 1..Len(T) : T[i].name = n <=> i = L + 1
          BY <1>1, <2>3, <5>2, <5>3
        <5>5. L + 1 \in 1..Len(T)
          BY <1>1, <2>3
        <5> QED
          BY <5>4, <5>5
      <4>2. \A i \in 1..stAt - 1 : stDirBefore[i].name # n
        BY <1>3, <1>6, <3>1, <3>2 DEF StRowRight
      <4>3. \A of \in StCountNames : StSum(n, of)[stAt - 1] = 0
        <5> TAKE of \in StCountNames
        <5> DEFINE G == {k \in 0..stAt - 1 : StSum(n, of)[k] = 0}
        <5>1. 0 \in G
          BY <1>1, StSumRec
        <5>2. ASSUME NEW k \in 1..stAt - 1, k - 1 \in G
              PROVE  k \in G
          <6>1. k \in 1..Len(stDirBefore) /\ stDirBefore[k].name # n
            BY <1>1, <4>2
          <6> QED
            BY <1>1, <5>2, <6>1, StSumRec
        <5>3. stAt - 1 \in Nat
          BY <1>1
        <5>4. 0..stAt - 1 \subseteq G
          <6> HIDE DEF G
          <6> QED
            BY <5>1, <5>2, <5>3, UpTo
        <5> QED
          BY <5>3, <5>4
      <4>4. \A of \in StCountNames : T[L + 1][of] = StSum(n, of)[stAt]
        <5> TAKE of \in StCountNames
        <5>1. StCounts(Entry)[of] \in Nat
          BY <1>1 DEF StEntry, StCounts, StCountNames
        <5> QED
          BY <1>4, <2>2, <2>3, <3>2, <4>3, <5>1
      <4> QED
        BY <1>5, <3>2, <4>1, <4>4 DEF StRowRight
    <3>3. CASE n # Entry.name
      <4>1. {i \in 1..Len(T) : T[i].name = n} = own(n)
        BY <1>1, <2>2, <2>3, <3>3
      <4>2. \A f \in own(n) : T[f] = stTable[f]
        BY <2>3
      <4>3. \A of \in StCountNames : StSum(n, of)[stAt] = StSum(n, of)[stAt - 1]
        BY <1>4, <3>3
      <4>4. CASE \A i \in 1..stAt - 1 : stDirBefore[i].name # n
        <5>1. own(n) = {}
          BY <3>1, <4>4 DEF StRowRight
        <5> QED
          BY <1>5, <3>3, <4>1, <4>4, <5>1 DEF StRowRight
      <4>5. CASE ~ \A i \in 1..stAt - 1 : stDirBefore[i].name # n
        <5>1. PICK f \in own(n) :
                own(n) = {f} /\ \A of \in StCountNames : stTable[f][of] = StSum(n, of)[stAt - 1]
          BY <3>1, <4>5 DEF StRowRight
        <5>2. \A of \in StCountNames : T[f][of] = StSum(n, of)[stAt]
          BY <4>2, <4>3, <5>1
        <5>3. ~ \A i \in 1..stAt : stDirBefore[i].name # n
          BY <1>1, <4>5
        <5>4. f \in own(n)
          BY <5>1
        <5> HIDE DEF own
        <5> QED
          BY <4>1, <5>1, <5>2, <5>3, <5>4 DEF StRowRight
      <4> QED
        BY <4>4, <4>5
    <3> QED
      BY <3>2, <3>3
  <2>5. \A i \in 1..Len(T) : StRowFrom(T, i, stAt)
    <3> TAKE i \in 1..Len(T)
    <3>1. CASE i = L + 1
      BY <1>1, <2>2, <2>3, <3>1 DEF StRowFrom
    <3>2. CASE i # L + 1
      <4>1. i \in 1..L /\ T[i] = stTable[i]
        BY <1>1, <2>3, <3>2
      <4>2. StRowFrom(stTable, i, stAt - 1)
        BY <1>2, <4>1
      <4>3. 1..stAt - 1 \subseteq 1..stAt
        BY <1>1
      <4> QED
        BY <4>1, <4>2, <4>3 DEF StRowFrom
    <3> QED
      BY <3>1, <3>2
  <2> QED
    BY <2>3, <2>4, <2>5 DEF StRows, T
<1>7. CASE same # {}
  <2> DEFINE g == CHOOSE k \in same : TRUE
  <2>1. g \in same /\ T = [stTable EXCEPT ![g].extents = @ + 1, ![g].records = @ + Entry.records,
                                          ![g].blocks = @ + Entry.blocks]
    BY <1>7, ZenonT(30) DEF Counted
  <2> HIDE DEF g, T
  <2>2. g \in 1..L /\ g \in own(Entry.name)
    BY <1>3, <2>1
  <2>3. /\ T \in Seq(StFile) /\ Len(T) = L
        /\ \A i \in 1..L : i # g => T[i] = stTable[i]
        /\ \A i \in 1..L : T[i].name = stTable[i].name /\ T[i].ro = stTable[i].ro
                             /\ T[i].sys = stTable[i].sys
        /\ \A of \in StCountNames : T[g][of] = stTable[g][of] + StCounts(Entry)[of]
    <3>1. stTable[g] \in StFile /\ Entry \in StEntry
      BY <1>1, <2>2
    <3> DEFINE row == [stTable[g] EXCEPT !.extents = @ + 1, !.records = @ + Entry.records,
                                         !.blocks = @ + Entry.blocks]
    <3>2. /\ row \in StFile /\ row.name = stTable[g].name /\ row.ro = stTable[g].ro
          /\ row.sys = stTable[g].sys
          /\ \A of \in StCountNames : row[of] = stTable[g][of] + StCounts(Entry)[of]
      <4>1. /\ row.extents = stTable[g].extents + 1
            /\ row.records = stTable[g].records + Entry.records
            /\ row.blocks = stTable[g].blocks + Entry.blocks
        BY <3>1 DEF StFile
      <4>2. /\ row \in StFile /\ row.name = stTable[g].name /\ row.ro = stTable[g].ro
            /\ row.sys = stTable[g].sys
        <5>1. /\ stTable[g].extents + 1 \in Nat
              /\ stTable[g].records + Entry.records \in Nat
              /\ stTable[g].blocks + Entry.blocks \in Nat
          BY <3>1, SMTT(30) DEF StFile, StEntry
        <5>2. row \in StFile
          BY <3>1, <5>1 DEF StFile
        <5> QED
          BY <3>1, <5>2 DEF StFile
      <4> HIDE DEF row
      <4>3. \A of \in StCountNames : row[of] = stTable[g][of] + StCounts(Entry)[of]
        BY <4>1 DEF StCounts, StCountNames
      <4> QED
        BY <4>2, <4>3
    <3>3. T = [stTable EXCEPT ![g] = row]
      BY <1>1, <2>1, <2>2
    <3> HIDE DEF row
    <3> QED
      BY <1>1, <2>2, <3>2, <3>3
  <2>4. \A n \in stWanted : StRowRight(T, n, stAt)
    <3> TAKE n \in stWanted
    <3>1. StRowRight(stTable, n, stAt - 1)
      BY <1>2
    <3>2. {i \in 1..Len(T) : T[i].name = n} = own(n)
      BY <2>3
    <3>3. CASE n = Entry.name
      <4>1. own(n) = {g} /\ \A of \in StCountNames : stTable[g][of] = StSum(n, of)[stAt - 1]
        BY <2>2, <3>1, <3>3 DEF StRowRight
      <4>2. \A of \in StCountNames : T[g][of] = StSum(n, of)[stAt]
        BY <1>4, <2>3, <3>3, <4>1
      <4>3. g \in own(n)
        BY <4>1
      <4> HIDE DEF own
      <4>4. ~ \A i \in 1..stAt : stDirBefore[i].name # n
        BY <1>5, <3>3
      <4> QED
        BY <3>2, <4>1, <4>2, <4>3, <4>4 DEF StRowRight
    <3>4. CASE n # Entry.name
      <4>1. \A f \in own(n) : T[f] = stTable[f]
        BY <2>2, <2>3, <3>4
      <4>2. \A of \in StCountNames : StSum(n, of)[stAt] = StSum(n, of)[stAt - 1]
        BY <1>4, <3>4
      <4>3. CASE \A i \in 1..stAt - 1 : stDirBefore[i].name # n
        <5>1. own(n) = {}
          BY <3>1, <4>3 DEF StRowRight
        <5> QED
          BY <1>5, <3>2, <3>4, <4>3, <5>1 DEF StRowRight
      <4>4. CASE ~ \A i \in 1..stAt - 1 : stDirBefore[i].name # n
        <5>1. PICK f \in own(n) :
                own(n) = {f} /\ \A of \in StCountNames : stTable[f][of] = StSum(n, of)[stAt - 1]
          BY <3>1, <4>4 DEF StRowRight
        <5>2. \A of \in StCountNames : T[f][of] = StSum(n, of)[stAt]
          BY <4>1, <4>2, <5>1
        <5>3. ~ \A i \in 1..stAt : stDirBefore[i].name # n
          BY <1>1, <4>4
        <5>4. f \in own(n)
          BY <5>1
        <5> HIDE DEF own
        <5> QED
          BY <3>2, <5>1, <5>2, <5>3, <5>4 DEF StRowRight
      <4> QED
        BY <4>3, <4>4
    <3> QED
      BY <3>3, <3>4
  <2>5. \A i \in 1..Len(T) : StRowFrom(T, i, stAt)
    <3> TAKE i \in 1..Len(T)
    <3>1. i \in 1..L /\ StRowFrom(stTable, i, stAt - 1)
      BY <1>2, <2>3
    <3>2. T[i].name = stTable[i].name /\ T[i].ro = stTable[i].ro /\ T[i].sys = stTable[i].sys
      BY <2>3, <3>1
    <3>3. 1..stAt - 1 \subseteq 1..stAt
      BY <1>1
    <3> QED
      BY <3>1, <3>2, <3>3 DEF StRowFrom
  <2> QED
    BY <2>3, <2>4, <2>5 DEF StRows, T
<1> QED
  BY <1>6, <1>7

-----------------------------------------------------------------------------
\* The invariant of STAT holds at the start.
LEMMA StInitial == StStart \/ StOff => StInv
<1>1. ASSUME NEW io \in 0..255, NEW items \in Seq(StItem), NEW dir \in Seq(StEntry),
             NEW wanted \in SUBSET StNames, NEW command \in StCommands,
             StNow(io, items, dir, wanted, command),
             \/ stPc = "search"
             \/ stPc \in {"devices", "off"} /\ wanted = {} /\ dir = <<>>,
             \A i, j \in 1..Len(dir) :
               dir[i].name = dir[j].name => dir[i].ro = dir[j].ro /\ dir[i].sys = dir[j].sys
      PROVE  StInv
  <2>1. /\ stIo = io /\ stIoBefore = io /\ stItems = items /\ stItemsBefore = items
        /\ stDir = dir /\ stDirBefore = dir /\ stAt = 1 /\ stTable = <<>>
        /\ stWanted = wanted /\ stCommand = command
    BY <1>1 DEF StNow
  <2>2. Len(<<>>) = 0 /\ <<>> \in Seq(StFile) /\ Len(dir) \in Nat /\ Len(items) \in Nat
    OBVIOUS
  <2>3. StTypes
    BY <1>1, <2>1, <2>2, StAssumption DEF StTypes
  <2>4. StItemsLeft
    BY <2>1, <2>2 DEF StItemsLeft
  <2>5. StPlaces
    <3>1. StRows(stTable, stAt - 1)
      BY <2>1, <2>2 DEF StRows, StRowRight
    <3> QED
      BY <1>1, <2>1, <2>2, <3>1, StAssumption DEF StPlaces
  <2>6. StLastAssignmentHolds
    <3>1. 1..Len(stItemsBefore) - Len(stItems) = {}
      BY <2>1, <2>2
    <3> QED
      BY <2>1, <3>1 DEF StLastAssignmentHolds
  <2>7. StTableAddsUp
    BY <1>1 DEF StTableAddsUp
  <2>8. StAttributesSet
    BY <1>1, <2>1 DEF StAttributesSet
  <2> QED
    BY <2>3, <2>4, <2>5, <2>6, <2>7, <2>8 DEF StInv
<1>2. {} \in SUBSET StNames /\ <<>> \in Seq(StEntry) /\ Len(<<>>) = 0 /\ <<>> \in Seq(StItem)
        /\ "list" \in StCommands
  BY DEF StCommands
<1>3. CASE StStart /\ stPc = "devices"
  <2>1. PICK io \in {0, 27, 228, 255}, items \in StItems : StNow(io, items, <<>>, {}, "list")
    BY <1>3 DEF StStart
  <2>2. items \in Seq(StItem)
    BY StAssumption DEF StItem
  <2>3. io \in 0..255
    OBVIOUS
  <2>4. \A i, j \in 1..Len(<<>>) :
          <<>>[i].name = <<>>[j].name => <<>>[i].ro = <<>>[j].ro /\ <<>>[i].sys = <<>>[j].sys
    BY <1>2
  <2> QED
    BY <1>1, <1>2, <1>3, <2>1, <2>2, <2>3, <2>4, ZenonT(30)
<1>4. CASE StStart /\ stPc = "search"
  <2>1. PICK dir \in StDirectories, wanted \in SUBSET StNames, command \in StCommands :
          StNow(0, <<>>, dir, wanted, command)
    BY <1>4 DEF StStart
  <2>2. dir \in Seq(StEntry)
    BY StAssumption DEF StEntry
  <2>3. \A i, j \in 1..Len(dir) :
          dir[i].name = dir[j].name => dir[i].ro = dir[j].ro /\ dir[i].sys = dir[j].sys
    BY StAssumption
  <2>4. 0 \in 0..255
    OBVIOUS
  <2> QED
    BY <1>1, <1>2, <1>4, <2>1, <2>2, <2>3, <2>4, ZenonT(30)
<1>5. CASE StOff
  <2>1. \A i, j \in 1..Len(<<>>) :
          <<>>[i].name = <<>>[j].name => <<>>[i].ro = <<>>[j].ro /\ <<>>[i].sys = <<>>[j].sys
    BY <1>2
  <2>2. 0 \in 0..255
    OBVIOUS
  <2> QED
    BY <1>1, <1>2, <1>5, <2>1, <2>2, ZenonT(30) DEF StOff
<1> QED
  BY <1>3, <1>4, <1>5 DEF StStart

\* StHoldAfter is what is said of the assignments.
LEMMA StLastIs ==
  StLastAssignmentHolds
    <=> StHoldAfter(Len(stItemsBefore) - Len(stItems), stIo, stIoBefore, stItemsBefore)
BY DEF StHoldAfter, StTo, StOwn, StLastAssignmentHolds

\* Where the program is does not matter to the assignments.
LEMMA StItemsKept ==
  ASSUME StItemsLeft, StLastAssignmentHolds, UNCHANGED <<stItems, stItemsBefore, stIo, stIoBefore>>
  PROVE  StItemsLeft' /\ StLastAssignmentHolds'
<1>1. stItems' = stItems /\ stItemsBefore' = stItemsBefore /\ stIo' = stIo /\ stIoBefore' = stIoBefore
  OBVIOUS
<1>2. StItemsLeft' = StItemsLeft
  BY <1>1, Zenon DEF StItemsLeft
<1>3. StLastAssignmentHolds'
  <2>1. StHoldAfter(Len(stItemsBefore) - Len(stItems), stIo, stIoBefore, stItemsBefore)
    BY StLastIs
  <2>2. StHoldAfter(Len(stItemsBefore') - Len(stItems'), stIo', stIoBefore', stItemsBefore')
    BY <1>1, <2>1
  <2> QED
    BY <2>2 DEF StHoldAfter, StTo, StOwn, StLastAssignmentHolds
<1> QED
  BY <1>2, <1>3

\* The rows of the table as it is next.
LEMMA StRowsKept ==
  ASSUME NEW T, NEW k, T = stTable', StRows(T, k), UNCHANGED <<stWanted, stDirBefore>>
  PROVE  StRows(stTable, k)' /\ StTableOf(k)'
<1>1. \A n, of : StSum(n, of)' = StSum(n, of)
  BY Zenon DEF StSum, StCounts
<1>2. \A n \in stWanted' : StRowRight(stTable, n, k)'
  <2> TAKE n \in stWanted'
  <2>1. StRowRight(T, n, k)
    BY DEF StRows
  <2>2. StRowRight(stTable, n, k)' = StRowRight(T, n, k)
    BY <1>1, Zenon DEF StRowRight
  <2> QED
    BY <2>1, <2>2
<1>3. \A i \in 1..Len(stTable') : StRowFrom(stTable, i, k)'
  BY DEF StRows, StRowFrom
<1>4. StRows(stTable, k)'
  BY <1>2, <1>3 DEF StRows
<1> QED
  BY <1>2, <1>4 DEF StRowRight, StTableOf, StCountNames

\* An item is done.
LEMMA StDeviceStep ==
  ASSUME StInv, StDevice
  PROVE  StInv'
<1> DEFINE item == Head(stItems)
           L    == Len(stItemsBefore)
           done == L - Len(stItems)
<1>1. /\ stPc = "devices" /\ stItems # <<>>
      /\ stDir' = stDir /\ stAt' = stAt /\ stTable' = stTable
      /\ stWanted' = stWanted /\ stCommand' = stCommand /\ stIoBefore' = stIoBefore
      /\ stItemsBefore' = stItemsBefore /\ stDirBefore' = stDirBefore
  BY DEF StDevice, stFiles, stGiven
<1>2. /\ stItems \in Seq(StItem) /\ stItemsBefore \in Seq(StItem) /\ L \in Nat
      /\ Len(stItems) \in 1..L /\ stIo \in 0..255 /\ stIoBefore \in 0..255
      /\ item = stItems[1] /\ item \in StItem
      /\ Tail(stItems) \in Seq(StItem) /\ Len(Tail(stItems)) = Len(stItems) - 1
      /\ \A i \in 1..Len(stItems) - 1 : Tail(stItems)[i] = stItems[i + 1]
      /\ \A i \in 1..Len(stItems) : stItems[i] = stItemsBefore[i + done]
  BY <1>1 DEF StInv, StItemsLeft
<1>3. item = stItemsBefore[done + 1] /\ done \in Nat /\ done + 1 \in 1..L
  <2>1. 1 \in 1..Len(stItems) /\ 1 + done = done + 1
    BY <1>2
  <2> QED
    BY <1>2, <2>1
<1>4. \/ stPc' = "stopped" /\ stItems' = stItems /\ stIo' = stIo
      \/ item.to = StShow /\ stPc' = stPc /\ stItems' = Tail(stItems) /\ stIo' = stIo
      \/ /\ item.to \in 0..3 /\ stPc' = stPc /\ stItems' = Tail(stItems)
         /\ stIo' = Assigned(stIo, item.device, item.to)
  <2>1. item.to \in 0..3 \cup {4, 5}
    BY <1>2 DEF StItem, StBad, StShow
  <2>2. CASE item.to = 4
    BY <2>2 DEF StDevice, stDevices, StBad, StShow
  <2>3. CASE item.to = 5
    BY <1>1, <2>3 DEF StDevice, stDevices, StBad, StShow
  <2>4. CASE item.to \in 0..3
    BY <1>1, <2>4 DEF StDevice, stDevices, StBad, StShow
  <2> QED
    BY <2>1, <2>2, <2>3, <2>4
<1>20. stIo \in 0..255 /\ stItems # Tail(stItems)
  <2>1. Len(stItems) \in Nat /\ Len(Tail(stItems)) = Len(stItems) - 1
    BY <1>2
  <2>2. Len(stItems) # Len(Tail(stItems))
    BY <2>1
  <2>3. stIo \in 0..255
    BY <1>2
  <2> QED
    BY <2>2, <2>3, Zenon
<1>21. item.device \in 0..3
  BY <1>2 DEF StItem
<1>22. item.to \in 0..3 =>
         /\ Assigned(stIo, item.device, item.to) \in 0..255
         /\ \A e \in 0..3 : StField(Assigned(stIo, item.device, item.to), e)
                             = IF e = item.device THEN item.to ELSE StField(stIo, e)
  <2> HIDE DEF item
  <2> HAVE item.to \in 0..3
  <2>1. PICK io \in 0..255, dev \in 0..3, to \in 0..3 :
          io = stIo /\ dev = item.device /\ to = item.to
    BY <1>20, <1>21, SMTT(30)
  <2>2. StOneField(io, dev, to)
    BY StAssign, ZenonT(30)
  <2> QED
    BY <2>1, <2>2, Zenon DEF StOneField
<1> HIDE DEF item
<1>5. stPc' \in {"devices", "stopped"} /\ stWanted = {} /\ stDirBefore = <<>> /\ stDir = <<>>
  BY <1>1, <1>4 DEF StInv, StPlaces
<1>6. StTypes'
  BY <1>1, <1>5 DEF StInv, StTypes
<1>7. StPlaces' /\ StTableAddsUp' /\ StAttributesSet'
  BY <1>1, <1>5 DEF StPlaces, StTableAddsUp, StAttributesSet
<1>8. CASE stItems' = stItems /\ stIo' = stIo
  <2>1. StItemsLeft' /\ StLastAssignmentHolds'
    BY <1>1, <1>8, StItemsKept DEF StInv
  <2> QED
    BY <1>6, <1>7, <2>1 DEF StInv
<1>9. CASE stItems' = Tail(stItems)
  <2>1. Len(stItems') = Len(stItems) - 1 /\ L - Len(stItems') = done + 1
    BY <1>2, <1>9
  <2>2. stIo' \in 0..255
    BY <1>4, <1>20, <1>22, ZenonT(30)
  <2>3. StItemsLeft'
    <3>1. \A i \in 1..Len(stItems') : stItems'[i] = stItemsBefore[i + (L - Len(stItems'))]
      <4> TAKE i \in 1..Len(stItems')
      <4>1. i + 1 \in 1..Len(stItems) /\ (i + 1) + done = i + (L - Len(stItems'))
        <5>1. /\ Len(stItems') \in Nat /\ Len(stItems') = Len(stItems) - 1 /\ Len(stItems) \in Nat
              /\ done \in Nat /\ L \in Nat /\ L - Len(stItems') = done + 1
          BY <1>2, <1>3, <2>1
        <5> HIDE DEF done
        <5> QED
          BY <5>1
      <4>2. stItems'[i] = stItems[i + 1]
        BY <1>2, <1>9, <2>1
      <4> QED
        BY <1>2, <4>1, <4>2
    <3> QED
      BY <1>1, <1>2, <1>9, <2>1, <2>2, <3>1 DEF StItemsLeft
  <2>4. StLastAssignmentHolds'
    <3> DEFINE Own(d, k) == StOwn(d, k, stItemsBefore)
               To(d, k) == StTo(Own(d, k), d, stIoBefore, stItemsBefore)
    <3>1. \A d \in 0..3 : StField(stIo, d) = To(d, done)
      BY StLastIs DEF StInv, StHoldAfter
    <3>2. ASSUME NEW d \in 0..3
          PROVE  StField(stIo', d) = To(d, done + 1)
      <4>1. CASE item.to = StShow \/ item.device # d
        <5>1. Own(d, done + 1) = Own(d, done)
          BY <1>3, <4>1 DEF StOwn
        <5>2. To(d, done + 1) = To(d, done)
          BY <5>1
        <5>3. StField(stIo', d) = StField(stIo, d)
          <6>1. CASE stIo' = stIo
            BY <6>1
          <6>2. CASE item.to \in 0..3 /\ stIo' = Assigned(stIo, item.device, item.to)
            <7>1. item.device # d
              BY <4>1, <6>2 DEF StShow
            <7> QED
              BY <1>22, <6>2, <7>1
          <6> QED
            BY <1>4, <1>9, <1>20, <6>1, <6>2
        <5> HIDE DEF To
        <5> QED
          BY <3>1, <5>2, <5>3
      <4>2. CASE item.to # StShow /\ item.device = d
        <5>1. done + 1 \in Own(d, done + 1) /\ \A m \in Own(d, done + 1) : m <= done + 1 /\ m \in Nat
          BY <1>3, <4>2 DEF StOwn
        <5>2. To(d, done + 1) = item.to
          <6> DEFINE O == Own(d, done + 1)
          <6>1. \A i \in O : (\A m \in O : m <= i) => i = done + 1
            <7>1. done + 1 \in Nat
              BY <1>3
            <7> QED
              BY <5>1, <7>1
          <6> HIDE DEF O
          <6>2. (CHOOSE i \in O : \A m \in O : m <= i) = done + 1 /\ O # {}
            BY <5>1, <6>1 DEF O
          <6>3. To(d, done + 1) = StTo(O, d, stIoBefore, stItemsBefore)
            BY DEF O
          <6> QED
            BY <1>3, <6>2, <6>3 DEF StTo
        <5>5. item.to \in 0..3 /\ stIo' = Assigned(stIo, item.device, item.to)
          BY <1>4, <1>9, <1>20, <4>2
        <5>6. StField(stIo', d) = item.to
          BY <1>22, <4>2, <5>5
        <5> HIDE DEF To
        <5> QED
          BY <5>2, <5>6
      <4> QED
        BY <4>1, <4>2
    <3>3. StHoldAfter(done + 1, stIo', stIoBefore, stItemsBefore)
      BY <3>2 DEF StHoldAfter
    <3>4. StHoldAfter(Len(stItemsBefore') - Len(stItems'), stIo', stIoBefore', stItemsBefore')
      BY <1>1, <2>1, <3>3
    <3> QED
      BY <3>4 DEF StHoldAfter, StTo, StOwn, StLastAssignmentHolds
  <2> QED
    BY <1>6, <1>7, <2>3, <2>4 DEF StInv
<1> QED
  BY <1>4, <1>8, <1>9

\* An entry of the directory is looked at.
LEMMA StSearchStep ==
  ASSUME StInv, StSearch
  PROVE  StInv'
<1>1. /\ stPc = "search" /\ stAt <= Len(stDir) /\ stAt' = stAt + 1
      /\ stTable' = IF Entry.name \in stWanted THEN Counted(stTable) ELSE stTable
      /\ stPc' = IF Len(stTable') = StCount /\ Len(stTable) < StCount THEN "stopped" ELSE stPc
      /\ stDir' = stDir /\ stItems' = stItems /\ stIo' = stIo
      /\ stWanted' = stWanted /\ stCommand' = stCommand /\ stIoBefore' = stIoBefore
      /\ stItemsBefore' = stItemsBefore /\ stDirBefore' = stDirBefore
  BY DEF StSearch, stDevices, stGiven
<1>2. /\ stDir = stDirBefore /\ Len(stTable) < StCount /\ Len(stTable) <= stAt - 1
      /\ StRows(stTable, stAt - 1)
  BY <1>1 DEF StInv, StPlaces
<1>3. /\ StTypes /\ stTable \in Seq(StFile) /\ Len(stTable) \in Nat /\ stAt \in 1..Len(stDir)
      /\ stDirBefore \in Seq(StEntry) /\ Len(stDir) \in Nat
  BY <1>1 DEF StInv, StTypes
<1>4. /\ stTable' \in Seq(StFile) /\ Len(stTable') \in {Len(stTable), Len(stTable) + 1}
      /\ StRows(stTable', stAt)
  <2>1. CASE Entry.name \in stWanted
    BY <1>1, <2>1, StCountedRight DEF StInv
  <2>2. CASE Entry.name \notin stWanted
    <3>1. stTable' = stTable /\ Entry = stDirBefore[stAt]
      BY <1>1, <1>2, <2>2 DEF Entry
    <3>2. ASSUME NEW n \in stWanted
          PROVE  StRowRight(stTable, n, stAt)
      <4>1. StRowRight(stTable, n, stAt - 1) /\ Entry.name # n
        BY <1>2, <2>2 DEF StRows
      <4>2. \A of \in StCountNames : StSum(n, of)[stAt] = StSum(n, of)[stAt - 1]
        <5> TAKE of \in StCountNames
        <5>1. stAt \in 1..Len(stDirBefore) /\ stAt - 1 \in 0..Len(stDirBefore)
          BY <1>2, <1>3
        <5>2. StSum(n, of)[stAt - 1] \in Nat /\ StSum(n, of)[stAt] = StSum(n, of)[stAt - 1] + 0
          BY <1>3, <3>1, <4>1, <5>1, StSumRec
        <5> QED
          BY <5>2
      <4>3. (\A i \in 1..stAt : stDirBefore[i].name # n)
              <=> (\A i \in 1..stAt - 1 : stDirBefore[i].name # n)
        BY <1>3, <3>1, <4>1
      <4> QED
        BY <4>1, <4>2, <4>3 DEF StRowRight
    <3>3. \A i \in 1..Len(stTable) : StRowFrom(stTable, i, stAt)
      <4> TAKE i \in 1..Len(stTable)
      <4>1. StRowFrom(stTable, i, stAt - 1)
        BY <1>2 DEF StRows
      <4>2. 1..stAt - 1 \subseteq 1..stAt
        BY <1>3
      <4> QED
        BY <4>1, <4>2 DEF StRowFrom
    <3> QED
      BY <1>3, <3>1, <3>2, <3>3 DEF StRows
  <2> QED
    BY <2>1, <2>2
<1>5. /\ Len(stTable') <= StCount /\ Len(stTable') <= stAt' - 1 /\ stAt' - 1 = stAt
      /\ stPc' = "search" => Len(stTable') < StCount
      /\ stPc' \in {"search", "stopped"} /\ stAt' \in 1..Len(stDir) + 1
  BY <1>1, <1>2, <1>3, <1>4, StAssumption
<1>6. StTypes'
  BY <1>1, <1>4, <1>5 DEF StInv, StTypes
<1>7. StItemsLeft' /\ StLastAssignmentHolds'
  BY <1>1, StItemsKept DEF StInv
<1>8. StRows(stTable, stAt - 1)'
  <2>1. PICK T : T = stTable'
    OBVIOUS
  <2>2. PICK k : k = stAt
    OBVIOUS
  <2>3. StRows(T, k)
    BY <1>4, <2>1, <2>2
  <2>4. StRows(stTable, k)'
    BY <1>1, <2>1, <2>3, StRowsKept
  <2>5. stAt' - 1 = k
    BY <1>5, <2>2
  <2> QED
    BY <2>4, <2>5
<1>9. StPlaces' /\ StTableAddsUp'
  BY <1>1, <1>2, <1>5, <1>8 DEF StPlaces, StTableAddsUp
<1>10. StAttributesSet'
  BY <1>1, <1>2, <1>5 DEF StAttributesSet, StWished
<1> QED
  BY <1>6, <1>7, <1>9, <1>10 DEF StInv

\* The ways from one phase to the next.
LEMMA StDoneStep ==
  ASSUME StInv, StDevicesDone \/ StSearched \/ StFilesDone
  PROVE  StInv'
<1> DEFINE L == Len(stDirBefore)
<1>1. /\ stDir' = stDir /\ stTable' = stTable /\ stItems' = stItems /\ stIo' = stIo
      /\ stWanted' = stWanted /\ stCommand' = stCommand /\ stIoBefore' = stIoBefore
      /\ stItemsBefore' = stItemsBefore /\ stDirBefore' = stDirBefore
      /\ stAt' \in {stAt, 1}
  BY DEF StDevicesDone, StSearched, StFilesDone, stFiles, stDevices, stGiven
<1>2. StTypes /\ stDir \in Seq(StEntry) /\ Len(stDir) \in Nat /\ Len(stDir) = L
  BY DEF StInv, StTypes
<1>3. stPc' \in {"done", "files"} /\ stAt' \in 1..Len(stDir) + 1
  BY <1>1, <1>2 DEF StTypes, StDevicesDone, StSearched, StFilesDone
<1>4. StTypes'
  BY <1>1, <1>2, <1>3 DEF StTypes
<1>5. StItemsLeft' /\ StLastAssignmentHolds'
  BY <1>1, StItemsKept DEF StInv
<1>6. CASE StDevicesDone
  <2>1. stPc = "devices" /\ stPc' = "done"
    BY <1>6 DEF StDevicesDone
  <2>2. stWanted = {} /\ stDir = <<>>
    BY <2>1 DEF StInv, StPlaces
  <2>3. StPlaces' /\ StTableAddsUp' /\ StAttributesSet'
    BY <1>1, <2>1, <2>2 DEF StPlaces, StTableAddsUp, StTableOf, StAttributesSet
  <2> QED
    BY <1>4, <1>5, <2>3 DEF StInv
<1>7. CASE StSearched
  <2>1. /\ stPc = "search" /\ stAt = Len(stDir) + 1 /\ stAt' = 1
        /\ stPc' = IF stCommand = "list" THEN "done" ELSE "files"
    BY <1>7 DEF StSearched
  <2>2. stDir = stDirBefore /\ Len(stTable) <= L /\ StRows(stTable, L)
    <3>1. stDir = stDirBefore /\ Len(stTable) <= stAt - 1 /\ StRows(stTable, stAt - 1)
      BY <2>1 DEF StInv, StPlaces
    <3>2. stAt - 1 = L
      BY <1>2, <2>1
    <3> QED
      BY <3>1, <3>2
  <2>3. StRows(stTable, L)' /\ StTableOf(L)'
    <3>1. PICK T : T = stTable'
      OBVIOUS
    <3>2. PICK k : k = L
      OBVIOUS
    <3>3. StRows(stTable, k)' /\ StTableOf(k)'
      BY <1>1, <2>2, <3>1, <3>2, StRowsKept
    <3>4. L' = k
      BY <1>1, <3>2
    <3> QED
      BY <3>3, <3>4
  <2>4. Len(stTable) \in Nat
    BY <1>2 DEF StTypes
  <2>5. StPlaces'
    <3>1. StSetSoFar'
      BY <1>1, <2>1, <2>2 DEF StSetSoFar
    <3> QED
      BY <1>1, <1>2, <2>1, <2>2, <2>3, <2>4, <3>1 DEF StPlaces
  <2>6. StTableAddsUp'
    BY <2>3 DEF StTableAddsUp
  <2>7. StAttributesSet'
    BY <1>1, <2>1, <2>2 DEF StAttributesSet, StWished
  <2> QED
    BY <1>4, <1>5, <2>5, <2>6, <2>7 DEF StInv
<1>8. CASE StFilesDone
  <2>1. stPc = "files" /\ stPc' = "done" /\ stAt = Len(stTable) + 1
    BY <1>8 DEF StFilesDone
  <2>2. StRows(stTable, L) /\ StSetSoFar /\ StAttributesSet
    BY <2>1 DEF StInv, StPlaces
  <2>3. StPlaces'
    BY <2>1 DEF StPlaces
  <2>4. StTableAddsUp'
    <3>1. PICK T : T = stTable'
      OBVIOUS
    <3>2. PICK k : k = L
      OBVIOUS
    <3>3. StTableOf(k)'
      BY <1>1, <2>2, <3>1, <3>2, StRowsKept
    <3>4. L' = k
      BY <1>1, <3>2
    <3> QED
      BY <3>3, <3>4 DEF StTableAddsUp
  <2>5. StAttributesSet'
    <3>1. ASSUME NEW i \in 1..Len(stDir), stDirBefore[i].name \in stWanted
          PROVE  stDir[i] = StWished(stDirBefore[i])
      <4>1. StRowRight(stTable, stDirBefore[i].name, L)
        BY <2>2, <3>1 DEF StRows
      <4>2. \E k \in 1..Len(stTable) : stTable[k].name = stDirBefore[i].name
        BY <1>2, <4>1 DEF StRowRight
      <4>3. stAt - 1 = Len(stTable)
        BY <1>2, <2>1 DEF StTypes
      <4> QED
        BY <2>2, <4>2, <4>3 DEF StSetSoFar
    <3>2. \A old : StWished(old)' = StWished(old)
      BY <1>1 DEF StWished
    <3> QED
      BY <1>1, <2>2, <3>1, <3>2 DEF StAttributesSet
  <2> QED
    BY <1>4, <1>5, <2>3, <2>4, <2>5 DEF StInv
<1> QED
  BY <1>6, <1>7, <1>8

\* What the BDOS does to an entry is what the command says, whether or not it was done before.
LEMMA StWishedIs ==
  ASSUME NEW old \in StEntry, NEW e \in {old, StWished(old)}, NEW f,
         stCommand \in StCommands \ {"list"}, f.ro = old.ro, f.sys = old.sys
  PROVE  [e EXCEPT !.ro = With(f).ro, !.sys = With(f).sys] = StWished(old)
<1>1. CASE stCommand = "R/O"
  BY <1>1 DEF StWished, With, StEntry
<1>2. CASE stCommand = "R/W"
  BY <1>2 DEF StWished, With, StEntry
<1>3. CASE stCommand = "SYS"
  BY <1>3 DEF StWished, With, StEntry
<1>4. CASE stCommand = "DIR"
  BY <1>4 DEF StWished, With, StEntry
<1> QED
  BY <1>1, <1>2, <1>3, <1>4 DEF StCommands

\* Setting an attribute leaves a directory entry, with the same name.
LEMMA StWishedKeeps ==
  ASSUME NEW old \in StEntry, stCommand \in StCommands
  PROVE  StWished(old) \in StEntry /\ StWished(old).name = old.name
<1>1. CASE stCommand = "R/O"
  BY <1>1 DEF StWished, StEntry
<1>2. CASE stCommand = "R/W"
  BY <1>2 DEF StWished, StEntry
<1>3. CASE stCommand = "SYS"
  BY <1>3 DEF StWished, StEntry
<1>4. CASE stCommand = "DIR"
  BY <1>4 DEF StWished, StEntry
<1>5. CASE stCommand = "list"
  BY <1>5 DEF StWished, StEntry
<1> QED
  BY <1>1, <1>2, <1>3, <1>4, <1>5 DEF StCommands

\* The attributes of a file are set.
LEMMA StSetStep ==
  ASSUME StInv, StSet
  PROVE  StInv'
<1> DEFINE L == Len(stDirBefore)
           f == stTable[stAt]
<1>1. /\ stPc = "files" /\ stAt <= Len(stTable) /\ stAt' = stAt + 1
      /\ stDir' = BdosSets(stDir, f) /\ stPc' \in {"files", "stopped"}
      /\ stTable' = stTable /\ stItems' = stItems /\ stIo' = stIo
      /\ stWanted' = stWanted /\ stCommand' = stCommand /\ stIoBefore' = stIoBefore
      /\ stItemsBefore' = stItemsBefore /\ stDirBefore' = stDirBefore
  BY DEF StSet, stDevices, stGiven
<1>2. /\ Len(stTable) <= Len(stDir) /\ stCommand # "list" /\ StRows(stTable, L) /\ StSetSoFar
  BY <1>1 DEF StInv, StPlaces
<1>3. /\ stDir \in Seq(StEntry) /\ stDirBefore \in Seq(StEntry) /\ Len(stDir) = L /\ L \in Nat
      /\ stTable \in Seq(StFile) /\ Len(stTable) \in Nat /\ stAt \in 1..Len(stTable)
      /\ stCommand \in StCommands \ {"list"}
      /\ \A i \in 1..L : stDirBefore[i] \in StEntry
  BY <1>1, <1>2 DEF StInv, StTypes
<1>4. StRowFrom(stTable, stAt, L)
  BY <1>2, <1>3 DEF StRows
<1>5. ASSUME NEW i \in 1..L, stDirBefore[i].name = f.name
      PROVE  f.ro = stDirBefore[i].ro /\ f.sys = stDirBefore[i].sys
  <2>1. PICK j \in 1..L : /\ stDirBefore[j].name = f.name
                          /\ stDirBefore[j].ro = f.ro /\ stDirBefore[j].sys = f.sys
    BY <1>4 DEF StRowFrom
  <2> QED
    BY <1>5, <2>1 DEF StInv, StTypes
<1> HIDE DEF f
<1>6. \A i \in 1..L : /\ stDir[i] \in {stDirBefore[i], StWished(stDirBefore[i])}
                      /\ stDir[i].name = stDirBefore[i].name
                      /\ StWished(stDirBefore[i]) \in StEntry
  BY <1>2, <1>3, StWishedKeeps DEF StSetSoFar
<1>7. \A i \in 1..L :
        stDir'[i] = IF stDirBefore[i].name = f.name THEN StWished(stDirBefore[i]) ELSE stDir[i]
  <2> TAKE i \in 1..L
  <2>1. stDir'[i] = IF stDir[i].name = f.name
                    THEN [stDir[i] EXCEPT !.ro = With(f).ro, !.sys = With(f).sys] ELSE stDir[i]
    BY <1>1, <1>3 DEF BdosSets
  <2>2. stDir[i].name = stDirBefore[i].name
    BY <1>6
  <2>3. CASE stDirBefore[i].name = f.name
    <3>1. [stDir[i] EXCEPT !.ro = With(f).ro, !.sys = With(f).sys] = StWished(stDirBefore[i])
      <4>1. PICK old, e, g : old = stDirBefore[i] /\ e = stDir[i] /\ g = f
        OBVIOUS
      <4>2. /\ old \in StEntry /\ e \in {old, StWished(old)} /\ g.ro = old.ro /\ g.sys = old.sys
            /\ stCommand \in StCommands \ {"list"}
        BY <1>3, <1>5, <1>6, <2>3, <4>1
      <4>3. [e EXCEPT !.ro = With(g).ro, !.sys = With(g).sys] = StWished(old)
        BY <4>2, StWishedIs
      <4> QED
        BY <4>1, <4>3
    <3> QED
      BY <2>1, <2>2, <2>3, <3>1
  <2> QED
    BY <2>1, <2>2, <2>3
<1>8. stDir' \in Seq(StEntry) /\ Len(stDir') = L
  <2>1. stDir' = [i \in 1..L |-> stDir'[i]]
    BY <1>1, <1>3 DEF BdosSets
  <2>2. \A i \in 1..L : stDir'[i] \in StEntry
    BY <1>3, <1>6, <1>7
  <2> QED
    BY <1>3, <2>1, <2>2
<1>9. StTypes'
  BY <1>1, <1>2, <1>3, <1>8 DEF StInv, StTypes
<1>10. StItemsLeft' /\ StLastAssignmentHolds'
  BY <1>1, StItemsKept DEF StInv
<1>11. StRows(stTable, L)' /\ StTableOf(L)'
  <2>1. PICK T : T = stTable'
    OBVIOUS
  <2>2. PICK k : k = L
    OBVIOUS
  <2>3. StRows(stTable, k)' /\ StTableOf(k)'
    BY <1>1, <1>2, <2>1, <2>2, StRowsKept
  <2>4. L' = k
    BY <1>1, <2>2
  <2> QED
    BY <2>3, <2>4
<1>12. \A old : StWished(old)' = StWished(old)
  BY <1>1 DEF StWished
<1>13. StSetSoFar'
  <2>1. ASSUME NEW i \in 1..L
        PROVE  stDir'[i] = IF \E k \in 1..stAt : stTable[k].name = stDirBefore[i].name
                           THEN StWished(stDirBefore[i]) ELSE stDirBefore[i]
    <3>1. (\E k \in 1..stAt : stTable[k].name = stDirBefore[i].name)
             <=> \/ \E k \in 1..stAt - 1 : stTable[k].name = stDirBefore[i].name
                 \/ f.name = stDirBefore[i].name
      BY <1>3 DEF f
    <3>2. stDir[i] = IF \E k \in 1..stAt - 1 : stTable[k].name = stDirBefore[i].name
                     THEN StWished(stDirBefore[i]) ELSE stDirBefore[i]
      BY <1>2, <1>3 DEF StSetSoFar
    <3> QED
      BY <1>7, <3>1, <3>2
  <2>2. stAt' - 1 = stAt
    BY <1>1, <1>3
  <2> QED
    BY <1>1, <1>8, <1>12, <2>1, <2>2 DEF StSetSoFar
<1>14. StPlaces'
  <2>1. stAt' <= Len(stTable') + 1 /\ Len(stTable') <= Len(stDir')
    BY <1>1, <1>2, <1>3, <1>8
  <2> QED
    BY <1>1, <1>2, <1>11, <1>13, <2>1 DEF StPlaces
<1>15. StTableAddsUp'
  BY <1>11 DEF StTableAddsUp
<1>16. StAttributesSet'
  <2>1. ASSUME NEW i \in 1..L
        PROVE  /\ stDir'[i] \in {stDirBefore[i], StWished(stDirBefore[i])}
               /\ stDir'[i] # stDirBefore[i] => stDirBefore[i].name \in stWanted
    <3>1. f.name \in stWanted
      BY <1>4 DEF StRowFrom, f
    <3>2. stDir[i] # stDirBefore[i] => stDirBefore[i].name \in stWanted
      BY <1>3 DEF StInv, StAttributesSet
    <3> QED
      BY <1>6, <1>7, <3>1, <3>2
  <2>2. stPc' # "done"
    BY <1>1
  <2> QED
    BY <1>1, <1>8, <1>12, <2>1, <2>2 DEF StAttributesSet
<1> QED
  BY <1>9, <1>10, <1>14, <1>15, <1>16 DEF StInv

\* Every step of STAT keeps the invariant.
LEMMA StKeeps == StInv /\ [StStep]_stVars => StInv'
<1> SUFFICES ASSUME StInv, [StStep]_stVars
             PROVE  StInv'
  OBVIOUS
<1>1. CASE UNCHANGED stVars
  <2>1. /\ stPc' = stPc /\ stItems' = stItems /\ stIo' = stIo /\ stDir' = stDir /\ stAt' = stAt
        /\ stTable' = stTable /\ stWanted' = stWanted /\ stCommand' = stCommand
        /\ stIoBefore' = stIoBefore /\ stItemsBefore' = stItemsBefore /\ stDirBefore' = stDirBefore
    BY <1>1 DEF stVars
  <2>2. PICK T : T = stTable'
    OBVIOUS
  <2>3. StTypes'
    BY <2>1 DEF StInv, StTypes
  <2>4. StItemsLeft' /\ StLastAssignmentHolds'
    BY <2>1, StItemsKept DEF StInv
  <2>5. \A old : StWished(old)' = StWished(old)
    BY <2>1 DEF StWished
  <2>6. StAttributesSet' /\ (StSetSoFar => StSetSoFar')
    BY <2>1, <2>5 DEF StInv, StAttributesSet, StSetSoFar
  <2>7. ASSUME NEW k, StRows(stTable, k)
        PROVE  StRows(stTable, k)' /\ StTableOf(k)'
    BY <2>1, <2>2, <2>7, StRowsKept
  <2>8. StPlaces' /\ StTableAddsUp'
    <3>1. PICK a, b : a = stAt - 1 /\ b = Len(stDirBefore)
      OBVIOUS
    <3>2. (stAt - 1)' = a /\ Len(stDirBefore)' = b
      BY <2>1, <3>1
    <3>3. /\ stPc = "search" => StRows(stTable, stAt - 1)'
          /\ stPc = "files" => StRows(stTable, Len(stDirBefore))'
      BY <2>7, <3>1, <3>2 DEF StInv, StPlaces
    <3>4. StPlaces'
      BY <2>1, <2>6, <3>3 DEF StInv, StPlaces
    <3>5. StTableAddsUp'
      <4>1. \A n, of : StSum(n, of)' = StSum(n, of)
        BY <2>1, Zenon DEF StSum, StCounts
      <4>2. ASSUME NEW k
            PROVE  StTableOf(k) => StTableOf(k)'
        <5> SUFFICES ASSUME StTableOf(k), NEW n \in stWanted'
                     PROVE  LET own == {i \in 1..Len(stTable') : stTable'[i].name = n}
                            IN  IF \A i \in 1..k : stDirBefore'[i].name # n THEN own = {}
                                ELSE \E f \in own :
                                       /\ own = {f}
                                       /\ \A of \in {"extents", "records", "blocks"} :
                                            stTable'[f][of] = StSum(n, of)'[k]
          BY DEF StTableOf
        <5> QED
          BY <2>1, <4>1 DEF StTableOf
      <4>3. PICK k : k = Len(stDirBefore)
        OBVIOUS
      <4>4. Len(stDirBefore)' = k
        BY <2>1, <4>3
      <4> QED
        BY <2>1, <4>2, <4>3, <4>4 DEF StInv, StTableAddsUp
    <3> QED
      BY <3>4, <3>5 DEF StInv
  <2> QED
    BY <2>3, <2>4, <2>6, <2>8 DEF StInv
<1> QED
  BY <1>1, StDeviceStep, StSearchStep, StSetStep, StDoneStep DEF StStep

\* STAT alone: types, and that it does as it is told.
LEMMA StatRight ==
  (StStart \/ StOff) /\ [][StStep]_stVars => [](StTypeOK /\ StDoesAsTold)
<1>1. StInv => StTypeOK /\ StDoesAsTold
  BY DEF StInv, StTypes, StItemsLeft, StTypeOK, StDoesAsTold
<1> QED
  BY <1>1, StInitial, StKeeps, PTL

-----------------------------------------------------------------------------
(***************************************************************************)
(* ASM                                                                     *)
(***************************************************************************)
AsCell      == {"op", "0"} \cup ({"lo", "hi"} \X Nat)
AsStatement == [label : AsLabels \cup {AsNone}, op : AsOps, of : AsLabels \cup {AsNone}, plus : Nat]
AsSymbol    == [kind : {"undef", "equ", "set"}, value : Nat]

\* What the constants are.
LEMMA AsConstants ==
  AsRecord \in Nat \ {0} /\ AsNone \notin AsLabels /\ AsPrograms \subseteq Seq(AsStatement)
BY AsAssumption DEF AsStatement

AsTypes ==
  /\ asPc \in {"off", "run", "close", "done", "fatal"} /\ asPass \in {0, 1}
  /\ asProgram \in Seq(AsStatement) /\ asAt \in 1..Len(asProgram) + 1
  /\ asSymbols \in [AsLabels -> AsSymbol]
  /\ asCounter \in Nat /\ asBase \in {-1} \cup Nat /\ asNext \in Nat

\* The records of the file and what is in the buffer are the bytes S, one after another.
AsHolds(file, fill, S) ==
  /\ file \in Seq(Seq(AsCell)) /\ fill \in Seq(AsCell) /\ S \in Seq(AsCell)
  /\ Len(fill) < AsRecord
  /\ Len(S) = Len(file) * AsRecord + Len(fill)
  /\ \A i \in 1..Len(file) :
       Len(file[i]) = AsRecord /\ \A j \in 1..AsRecord : file[i][j] = S[(i - 1) * AsRecord + j]
  /\ \A j \in 1..Len(fill) : fill[j] = S[Len(file) * AsRecord + j]

\* What has been emitted is in S at its place, and the rest of S is zero.
AsWritten(S) ==
  /\ asBase = -1 => S = <<>> /\ asPlaced = {}
  /\ asBase # -1 => /\ asPass = 1 /\ asBase <= asNext /\ asNext <= asCounter
                    /\ Len(S) >= asNext - asBase
                    /\ asPc # "done" => Len(S) = asNext - asBase
  /\ \A p \in asPlaced : p[1] - asBase + 1 \in 1..Len(S) /\ S[p[1] - asBase + 1] = p[2]
  /\ \A k \in 1..Len(S) : S[k] = "0" \/ <<asBase + k - 1, S[k]>> \in asPlaced

\* The labels the first pass has fixed keep their values, and these were used.
AsFixed ==
  /\ asFirst \subseteq AsLabels /\ \A l \in asFirst : asSymbols[l].kind = "equ"
  /\ \A r \in asRefs : r[1] \in asFirst => r[2] = asSymbols[r[1]].value
  /\ asPass = 0 => asFirst = {} /\ asRefs = {}

AsInv ==
  /\ AsTypes /\ AsFixed
  /\ \E S : AsHolds(asFile, asFill, S) /\ AsWritten(S)
  /\ asPc = "done" => asFill = <<>>

-----------------------------------------------------------------------------
\* Numbers and records.
LEMMA AsDivided ==
  ASSUME NEW n \in Nat, NEW r \in Nat \ {0}
  PROVE  /\ n \div r \in Nat /\ n % r \in 0..r - 1
         /\ n = (n \div r) * r + (n % r)
OBVIOUS

\* A byte's place in the records that follow f others.
LEMMA AsRecordsOn ==
  ASSUME NEW f \in Nat, NEW i \in Int, NEW r \in Nat, NEW j \in Int
  PROVE  f * r + ((i - 1) * r + j) = (f + i - 1) * r + j
OBVIOUS

\* The places of a record lie inside those of the file.
LEMMA AsInRecord ==
  ASSUME NEW f \in Nat, NEW i \in 1..f, NEW r \in Nat, NEW j \in 1..r
  PROVE  (i - 1) * r + j \in 1..f * r /\ f * r \in Nat /\ (i - 1) * r \in Nat
                /\ (i - 1) * r + r = i * r /\ i * r <= f * r
OBVIOUS

\* emit8_to_output_file adds its bytes to the others.
LEMMA AsPutHolds ==
  ASSUME NEW S, NEW bytes \in Seq(AsCell), AsHolds(asFile, asFill, S), AsPut(bytes)
  PROVE  AsHolds(asFile', asFill', S \o bytes)
<1> DEFINE R    == AsRecord
           F    == Len(asFile)
           all  == asFill \o bytes
           full == Len(all) \div R
           T    == S \o bytes
           FR   == F * R
<1>1. R \in Nat \ {0} /\ F \in Nat /\ FR \in Nat
  <2>1. R \in Nat \ {0} /\ F \in Nat
    BY AsConstants DEF AsHolds
  <2> QED
    BY <2>1
<1> HIDE DEF FR
<1>2. asFill \in Seq(AsCell) /\ S \in Seq(AsCell) /\ Len(S) = FR + Len(asFill)
  BY DEF AsHolds, FR
<1>9. \A j \in 1..Len(asFill) : asFill[j] = S[FR + j]
  BY DEF AsHolds, FR
<1>10. /\ all \in Seq(AsCell) /\ T \in Seq(AsCell) /\ Len(all) = Len(asFill) + Len(bytes)
       /\ Len(T) = FR + Len(all) /\ Len(all) \in Nat
  <2>1. all \in Seq(AsCell) /\ T \in Seq(AsCell)
    BY <1>2
  <2>2. Len(all) = Len(asFill) + Len(bytes) /\ Len(T) = Len(S) + Len(bytes)
    BY <1>2, SMTT(30)
  <2>3. Len(asFill) \in Nat /\ Len(bytes) \in Nat
    BY <1>2
  <2> HIDE DEF all, T
  <2> QED
    BY <1>1, <1>2, <2>1, <2>2, <2>3
<1>3. \A j \in 1..Len(all) : all[j] = T[FR + j]
  <2> TAKE j \in 1..Len(all)
  <2>1. Len(asFill) \in Nat /\ Len(bytes) \in Nat /\ Len(S) \in Nat
    BY <1>2
  <2>2. CASE j <= Len(asFill)
    <3>1. j \in 1..Len(asFill) /\ FR + j \in 1..Len(S)
      BY <1>1, <1>2, <2>1, <2>2
    <3>2. all[j] = asFill[j] /\ T[FR + j] = S[FR + j]
      BY <1>2, <3>1
    <3> QED
      BY <1>9, <3>1, <3>2
  <2>3. CASE ~(j <= Len(asFill))
    <3>1. PICK m : m = FR + j
      OBVIOUS
    <3>2. m \in Len(S) + 1..Len(S) + Len(bytes) /\ m - Len(S) = j - Len(asFill)
      <4> HIDE DEF all
      <4> QED
        BY <1>1, <1>2, <1>10, <2>1, <2>3, <3>1
    <3>3. T[m] = bytes[m - Len(S)]
      BY <1>2, <3>2, SMTT(30)
    <3>4. all[j] = bytes[j - Len(asFill)]
      BY <1>2, <1>10, <2>3
    <3> QED
      BY <3>1, <3>2, <3>3, <3>4
  <2> QED
    BY <2>2, <2>3
<1>4. /\ full \in Nat /\ full * R \in Nat /\ Len(all) % R \in 0..R - 1
      /\ Len(all) = full * R + (Len(all) % R)
  <2> HIDE DEF all
  <2>1. full \in Nat /\ Len(all) % R \in 0..R - 1 /\ Len(all) = full * R + (Len(all) % R)
    BY <1>1, <1>10, AsDivided
  <2> HIDE DEF full
  <2>2. full * R \in Nat
    BY <1>1, <2>1
  <2> QED
    BY <2>1, <2>2
<1> DEFINE added == [i \in 1..full |-> SubSeq(all, (i - 1) * R + 1, i * R)]
<1>5. /\ asFile' = asFile \o added /\ asFill' = SubSeq(all, full * R + 1, Len(all))
  BY DEF AsPut
<1> HIDE DEF all, full, T
<1>7. \A i \in 1..full : \A j \in 1..R :
        /\ (i - 1) * R + j \in 1..Len(all) /\ i * R \in 0..Len(all) /\ (i - 1) * R + 1 \in 1..Len(all)
        /\ i * R - ((i - 1) * R + 1) + 1 = R
  <2> TAKE i \in 1..full
  <2> TAKE j \in 1..R
  <2>0. full \in Nat /\ R \in Nat
    BY <1>1, <1>4
  <2>1. /\ (i - 1) * R + j \in 1..full * R /\ (i - 1) * R \in Nat /\ (i - 1) * R + R = i * R
        /\ i * R <= full * R
    BY <2>0, AsInRecord
  <2> DEFINE a == (i - 1) * R
             b == i * R
             c == full * R
  <2>2. a + j \in 1..c /\ a \in Nat /\ a + R = b /\ b <= c /\ c \in Nat /\ c <= Len(all) /\ R \in Nat \ {0}
    BY <1>1, <1>10, <1>4, <2>1
  <2> HIDE DEF a, b, c
  <2>3. a + j \in 1..Len(all) /\ b \in 0..Len(all) /\ a + 1 \in 1..Len(all) /\ b - (a + 1) + 1 = R
    BY <1>10, <2>2
  <2> QED
    BY <2>3 DEF a, b
<1>8. \A i \in 1..full :
        /\ SubSeq(all, (i - 1) * R + 1, i * R) \in Seq(AsCell)
        /\ Len(SubSeq(all, (i - 1) * R + 1, i * R)) = R
        /\ \A j \in 1..R : SubSeq(all, (i - 1) * R + 1, i * R)[j] = all[(i - 1) * R + j]
  <2> TAKE i \in 1..full
  <2> DEFINE a == (i - 1) * R
             b == i * R
  <2>1. 1 \in 1..R /\ R \in Nat
    BY <1>1
  <2>2. b \in 0..Len(all) /\ a + 1 \in 1..Len(all) /\ b - (a + 1) + 1 = R
    BY <1>7, <2>1
  <2> HIDE DEF a, b
  <2>3. /\ SubSeq(all, a + 1, b) \in Seq(AsCell) /\ Len(SubSeq(all, a + 1, b)) = R
        /\ \A j \in 1..R : SubSeq(all, a + 1, b)[j] = all[a + j]
    <3>1. a \in Int /\ b \in Int
      BY <1>10, <2>2 DEF a, b
    <3>2. a + 1 <= b + 1
      BY <1>10, <2>1, <2>2, <3>1
    <3>3. SubSeq(all, a + 1, b) = [j \in 1..R |-> all[a + j]]
      BY <1>10, <2>2, <3>1, <3>2
    <3>4. \A j \in 1..R : a + j \in 1..Len(all)
      BY <1>10, <2>1, <2>2, <3>1
    <3>5. \A j \in 1..R : all[a + j] \in AsCell
      BY <1>10, <3>4
    <3> DEFINE f == [j \in 1..R |-> all[a + j]]
    <3>6. f \in Seq(AsCell) /\ Len(f) = R /\ \A j \in 1..R : f[j] = all[a + j]
      BY <1>1, <3>5
    <3> HIDE DEF f
    <3> QED
      BY <3>3, <3>6 DEF f
  <2> QED
    BY <2>3 DEF a, b
<1> DEFINE Taken == full * R
<1>11. /\ Taken \in Nat /\ Taken <= Len(all) /\ Len(all) - Taken \in 0..R - 1
       /\ (F + full) * R = FR + Taken /\ F + full \in Nat
  <2>1. Taken \in Nat /\ Len(all) = Taken + (Len(all) % R) /\ Len(all) % R \in 0..R - 1 /\ full \in Nat
    BY <1>4
  <2>2. (F + full) * R = FR + Taken
    BY <1>1, <2>1 DEF FR
  <2> HIDE DEF Taken
  <2>3. PICK m : m = Len(all) % R
    OBVIOUS
  <2>4. Len(all) = Taken + m /\ m \in 0..R - 1
    BY <2>1, <2>3
  <2> QED
    BY <1>1, <1>10, <2>1, <2>2, <2>4
<1>12. /\ asFill' \in Seq(AsCell) /\ Len(asFill') = Len(all) - Taken
       /\ \A j \in 1..Len(all) - Taken : asFill'[j] = all[Taken + j]
  <2>1. asFill' = SubSeq(all, Taken + 1, Len(all))
    BY <1>5
  <2> HIDE DEF Taken
  <2> DEFINE f == [j \in 1..Len(all) - Taken |-> all[Taken + j]]
  <2>2. asFill' = f
    BY <1>10, <1>11, <2>1
  <2>3. Len(all) - Taken \in Nat /\ \A j \in 1..Len(all) - Taken : Taken + j \in 1..Len(all)
    BY <1>10, <1>11
  <2>4. \A j \in 1..Len(all) - Taken : all[Taken + j] \in AsCell
    BY <1>10, <2>3
  <2>5. f \in Seq(AsCell) /\ Len(f) = Len(all) - Taken
    BY <2>3, <2>4
  <2> QED
    BY <2>2, <2>5
<1>13. /\ added \in Seq(Seq(AsCell)) /\ Len(added) = full
       /\ \A m \in 1..full : Len(added[m]) = R /\ \A j \in 1..R : added[m][j] = all[(m - 1) * R + j]
  <2>1. added \in Seq(Seq(AsCell)) /\ Len(added) = full
    BY <1>4, <1>8
  <2>2. \A m \in 1..full : added[m] = SubSeq(all, (m - 1) * R + 1, m * R)
    OBVIOUS
  <2> HIDE DEF added
  <2>3. ASSUME NEW m \in 1..full
        PROVE  Len(added[m]) = R /\ \A j \in 1..R : added[m][j] = all[(m - 1) * R + j]
    <3>1. PICK c : c = SubSeq(all, (m - 1) * R + 1, m * R)
      OBVIOUS
    <3>2. Len(c) = R /\ \A j \in 1..R : c[j] = all[(m - 1) * R + j]
      BY <1>8, <3>1
    <3> QED
      BY <2>2, <3>1, <3>2
  <2> QED
    BY <2>1, <2>3
<1> HIDE DEF added
<1>14. /\ asFile \in Seq(Seq(AsCell)) /\ Len(asFile) = F
       /\ \A i \in 1..F : Len(asFile[i]) = R /\ \A j \in 1..R : asFile[i][j] = S[(i - 1) * R + j]
  BY DEF AsHolds
<1> HIDE DEF F
<1>15. /\ asFile' \in Seq(Seq(AsCell)) /\ Len(asFile') = F + full
       /\ \A i \in 1..F : asFile'[i] = asFile[i]
       /\ \A m \in 1..full : asFile'[F + m] = added[m]
  <2> DEFINE Rec == Seq(AsCell)
  <2>0. asFile' = asFile \o added /\ asFile \in Seq(Rec) /\ added \in Seq(Rec)
    BY <1>5, <1>13, <1>14
  <2> HIDE DEF Rec
  <2>4. asFile' \in Seq(Rec) /\ Len(asFile') = Len(asFile) + Len(added)
    BY <2>0
  <2>1. asFile' \in Seq(Seq(AsCell)) /\ Len(asFile') = F + full
    BY <1>13, <1>14, <2>4 DEF Rec
  <2>2. \A i \in 1..F : asFile'[i] = asFile[i]
    BY <1>5, <1>13, <1>14
  <2>3. \A m \in 1..full : asFile'[F + m] = added[m]
    BY <1>1, <1>4, <1>5, <1>13, <1>14, SMTT(30)
  <2> QED
    BY <2>1, <2>2, <2>3
<1>16. ASSUME NEW i \in 1..F + full
       PROVE  Len(asFile'[i]) = R /\ \A j \in 1..R : asFile'[i][j] = T[(i - 1) * R + j]
  <2>1. CASE i <= F
    <3>1. i \in 1..F /\ F \in Nat /\ R \in Nat
      BY <1>1, <1>11, <2>1
    <3>2. asFile'[i] = asFile[i]
      BY <1>15, <3>1
    <3>3. ASSUME NEW j \in 1..R
          PROVE  T[(i - 1) * R + j] = S[(i - 1) * R + j]
      <4>1. (i - 1) * R + j \in 1..FR
        BY <3>1, AsInRecord DEF FR
      <4>2. PICK m : m = (i - 1) * R + j
        OBVIOUS
      <4>3. m \in 1..Len(S)
        BY <1>1, <1>2, <4>1, <4>2
      <4>4. T[m] = S[m]
        BY <1>2, <4>3 DEF T
      <4> QED
        BY <4>2, <4>4
    <3> QED
      BY <1>14, <3>1, <3>2, <3>3, ZenonT(30)
  <2>2. CASE ~(i <= F)
    <3>1. PICK m \in 1..full : i = F + m
      <4>1. i - F \in 1..full /\ i = F + (i - F)
        BY <1>1, <1>4, <2>2
      <4> QED
        BY <4>1
    <3>2. asFile'[i] = added[m]
      BY <1>15, <3>1
    <3>3. ASSUME NEW j \in 1..R
          PROVE  T[(i - 1) * R + j] = all[(m - 1) * R + j]
      <4>1. (i - 1) * R + j = FR + ((m - 1) * R + j)
        <5>1. F * R + ((m - 1) * R + j) = (F + m - 1) * R + j
          BY <1>1, AsRecordsOn
        <5>2. F + m - 1 = i - 1
          BY <1>1, <3>1
        <5> QED
          BY <5>1, <5>2 DEF FR
      <4>2. (m - 1) * R + j \in 1..Len(all)
        BY <1>7
      <4>3. all[(m - 1) * R + j] = T[FR + ((m - 1) * R + j)]
        BY <1>3, <4>2
      <4> QED
        BY <4>1, <4>3
    <3> QED
      BY <1>13, <3>2, <3>3
  <2> QED
    BY <2>1, <2>2
<1>17. ASSUME NEW j \in 1..Len(asFill')
       PROVE  asFill'[j] = T[Len(asFile') * R + j]
  <2> HIDE DEF Taken
  <2>1. asFill'[j] = all[Taken + j] /\ Taken + j \in 1..Len(all)
    BY <1>10, <1>11, <1>12
  <2>2. FR + (Taken + j) = (FR + Taken) + j
    BY <1>1, <1>11, <1>12
  <2> QED
    BY <1>3, <1>11, <1>15, <2>1, <2>2
<1>18. Len(asFill') < R /\ Len(T) = Len(asFile') * R + Len(asFill')
  <2> HIDE DEF Taken
  <2> QED
    BY <1>1, <1>10, <1>11, <1>12, <1>15, SMTT(30)
<1> QED
  BY <1>10, <1>12, <1>15, <1>16, <1>17, <1>18 DEF AsHolds, T

\* With nothing in the buffer, the records one after another are S.
LEMMA AsFlattened ==
  ASSUME NEW file, NEW S, AsHolds(file, <<>>, S)
  PROVE  FlattenSeq(file) = S
<1> DEFINE n == Len(file)
           R == AsRecord
           Body(f) == [i \in 1..n |-> IF i = 1 THEN file[i] ELSE f[i - 1] \o file[i]]
           t == CHOOSE f : f = Body(f)
           w == [i \in 1..n |-> SubSeq(S, 1, i * R)]
<1>1. /\ R \in Nat \ {0} /\ n \in Nat /\ S \in Seq(AsCell) /\ Len(S) = n * R
      /\ \A i \in 1..n : file[i] \in Seq(AsCell) /\ Len(file[i]) = R
                           /\ \A j \in 1..R : file[i][j] = S[(i - 1) * R + j]
  <2>1. n \in Nat /\ \A i \in 1..n : file[i] \in Seq(AsCell)
    BY DEF AsHolds
  <2>2. n * R \in Nat
    BY <2>1, AsConstants
  <2>3. Len(<<>>) = 0 /\ n * R + 0 = n * R
    BY <2>2
  <2> QED
    BY <2>1, <2>3, AsConstants DEF AsHolds
<1>2. FlattenSeq(file) = IF n = 0 THEN file ELSE t[n]
  BY Zenon DEF FlattenSeq
<1>3. CASE n = 0
  <2>1. Len(S) = 0 /\ file = <<>>
    BY <1>1, <1>3 DEF AsHolds
  <2>2. S = <<>>
    BY <1>1, <2>1
  <2> QED
    BY <1>2, <1>3, <2>1, <2>2
<1>4. CASE n # 0
  <2>1. ASSUME NEW i \in 1..n
        PROVE  /\ SubSeq(S, 1, i * R) \in Seq(AsCell) /\ Len(SubSeq(S, 1, i * R)) = i * R
               /\ \A m \in 1..i * R : SubSeq(S, 1, i * R)[m] = S[m]
               /\ i * R \in Nat /\ (i - 1) * R \in Nat /\ i * R = (i - 1) * R + R
    <3>1. i * R \in 1..Len(S) /\ i * R \in Nat /\ (i - 1) * R \in Nat /\ i * R = (i - 1) * R + R
      <4>1. n \in Nat /\ R \in Nat /\ 1 \in 1..R
        BY <1>1
      <4>2. /\ (i - 1) * R \in Nat /\ (i - 1) * R + R = i * R /\ i * R <= n * R /\ n * R \in Nat
        BY <4>1, AsInRecord
      <4> DEFINE a == (i - 1) * R
                 b == i * R
                 c == n * R
      <4>3. a \in Nat /\ a + R = b /\ b <= c /\ c \in Nat /\ R \in Nat \ {0} /\ Len(S) = c
        BY <1>1, <4>2
      <4> HIDE DEF a, b, c
      <4>4. b \in 1..Len(S) /\ b \in Nat /\ b = a + R
        BY <4>3
      <4> QED
        BY <4>3, <4>4 DEF a, b
    <3>2. PICK k : k = i * R
      OBVIOUS
    <3>3. k \in 1..Len(S)
      BY <3>1, <3>2
    <3>4. /\ SubSeq(S, 1, k) \in Seq(AsCell) /\ Len(SubSeq(S, 1, k)) = k
          /\ \A m \in 1..k : SubSeq(S, 1, k)[m] = S[m]
      BY <1>1, <3>3
    <3> QED
      BY <3>1, <3>2, <3>4
  <2>2. SubSeq(S, 1, 1 * R) = file[1]
    <3>1. 1 \in 1..n /\ 1 * R = R /\ (1 - 1) * R = 0
      BY <1>1, <1>4
    <3>2. /\ SubSeq(S, 1, R) \in Seq(AsCell) /\ Len(SubSeq(S, 1, R)) = R
          /\ \A m \in 1..R : SubSeq(S, 1, R)[m] = S[m]
      BY <2>1, <3>1
    <3>3. file[1] \in Seq(AsCell) /\ Len(file[1]) = R /\ \A j \in 1..R : file[1][j] = S[0 + j]
      BY <1>1, <3>1
    <3>4. \A j \in 1..R : file[1][j] = S[j]
      BY <1>1, <3>3
    <3>5. SubSeq(S, 1, R) = file[1]
      BY <3>2, <3>3, <3>4, SeqEqual
    <3> QED
      BY <3>1, <3>5
  <2>3. ASSUME NEW i \in 2..n
        PROVE  SubSeq(S, 1, (i - 1) * R) \o file[i] = SubSeq(S, 1, i * R)
    <3>1. i \in 1..n /\ i - 1 \in 1..n
      BY <1>1
    <3>2. PICK a, b : a = (i - 1) * R /\ b = i * R
      OBVIOUS
    <3>3. a \in Nat /\ b \in Nat /\ b = a + R
      BY <2>1, <3>1, <3>2
    <3>4. /\ SubSeq(S, 1, a) \in Seq(AsCell) /\ Len(SubSeq(S, 1, a)) = a
          /\ \A m \in 1..a : SubSeq(S, 1, a)[m] = S[m]
      BY <2>1, <3>1, <3>2
    <3>5. /\ SubSeq(S, 1, b) \in Seq(AsCell) /\ Len(SubSeq(S, 1, b)) = b
          /\ \A m \in 1..b : SubSeq(S, 1, b)[m] = S[m]
      BY <2>1, <3>1, <3>2
    <3>6. file[i] \in Seq(AsCell) /\ Len(file[i]) = R /\ \A j \in 1..R : file[i][j] = S[a + j]
      BY <1>1, <3>1, <3>2
    <3>7. PICK x, y, z : x = SubSeq(S, 1, a) /\ y = file[i] /\ z = SubSeq(S, 1, b)
      OBVIOUS
    <3>8. /\ x \in Seq(AsCell) /\ Len(x) = a /\ y \in Seq(AsCell) /\ Len(y) = R
          /\ z \in Seq(AsCell) /\ Len(z) = a + R
      BY <3>3, <3>4, <3>5, <3>6, <3>7
    <3>9. \A m \in 1..a + R : (x \o y)[m] = z[m]
      <4> TAKE m \in 1..a + R
      <4>1. z[m] = S[m]
        BY <3>3, <3>5, <3>7
      <4>2. CASE m <= a
        <5>1. m \in 1..Len(x)
          BY <1>1, <3>3, <3>8, <4>2
        <5>2. (x \o y)[m] = x[m]
          BY <3>8, <5>1
        <5>3. x[m] = S[m]
          BY <3>4, <3>7, <3>8, <5>1
        <5> QED
          BY <4>1, <5>2, <5>3
      <4>3. CASE ~(m <= a)
        <5>1. m - a \in 1..R /\ a + (m - a) = m
          BY <1>1, <3>3, <4>3
        <5>2. (x \o y)[m] = y[m - a]
          <6>1. x \in Seq(AsCell) /\ y \in Seq(AsCell) /\ m \in 1..Len(x) + Len(y)
            BY <3>8
          <6>2. (x \o y)[m] = IF m <= Len(x) THEN x[m] ELSE y[m - Len(x)]
            BY <6>1, ConcatProperties
          <6> QED
            BY <3>8, <4>3, <6>2
        <5>3. y[m - a] = S[a + (m - a)]
          BY <3>6, <3>7, <5>1
        <5> QED
          BY <4>1, <5>1, <5>2, <5>3
      <4> QED
        BY <4>2, <4>3
    <3>10. x \o y \in Seq(AsCell) /\ Len(x \o y) = a + R
      <4>1. x \o y \in Seq(AsCell)
        BY <3>8
      <4>2. Len(x \o y) = Len(x) + Len(y)
        <5>1. x \in Seq(AsCell) /\ y \in Seq(AsCell)
          BY <3>8
        <5> QED
          BY <5>1, ConcatProperties
      <4> QED
        BY <3>8, <4>1, <4>2
    <3>11. x \o y = z
      BY <3>8, <3>9, <3>10, SeqEqual
    <3> QED
      BY <3>2, <3>7, <3>11
  <2>4. w = Body(w)
    <3>1. ASSUME NEW i \in 1..n
          PROVE  w[i] = IF i = 1 THEN file[i] ELSE w[i - 1] \o file[i]
      <4>1. CASE i = 1
        BY <2>2, <4>1
      <4>2. CASE i # 1
        <5>1. i \in 2..n /\ i - 1 \in 1..n
          BY <1>1, <4>2
        <5>2. w[i] = SubSeq(S, 1, i * R) /\ w[i - 1] = SubSeq(S, 1, (i - 1) * R)
          BY <5>1
        <5> HIDE DEF w
        <5> QED
          BY <2>3, <4>2, <5>1, <5>2
      <4> QED
        BY <4>1, <4>2
    <3>2. w = [i \in 1..n |-> w[i]]
      OBVIOUS
    <3> HIDE DEF w
    <3> QED
      BY <3>1, <3>2
  <2>5. t = Body(t)
    <3> HIDE DEF w
    <3> QED
      BY <2>4, Zenon
  <2> HIDE DEF t
  <2>6. \A i \in 1..n : t[i] = w[i]
    <3> DEFINE G == {i \in 0..n : i = 0 \/ t[i] = w[i]}
    <3>1. 0 \in G
      BY <1>1
    <3>2. ASSUME NEW i \in 1..n, i - 1 \in G
          PROVE  i \in G
      <4>1. t[i] = IF i = 1 THEN file[i] ELSE t[i - 1] \o file[i]
        BY <2>5
      <4>2. w[i] = IF i = 1 THEN file[i] ELSE w[i - 1] \o file[i]
        <5> HIDE DEF w
        <5> QED
          BY <2>4
      <4>3. i # 1 => t[i - 1] = w[i - 1]
        BY <1>1, <3>2
      <4>4. t[i] = w[i]
        <5> HIDE DEF w
        <5> QED
          BY <4>1, <4>2, <4>3
      <4> QED
        BY <1>1, <4>4
    <3>3. 0..n \subseteq G
      <4> HIDE DEF G
      <4> QED
        BY <1>1, <3>1, <3>2, UpTo
    <3> TAKE i \in 1..n
    <3>4. i \in G /\ i # 0
      <4>1. i \in 0..n /\ i # 0
        BY <1>1
      <4> HIDE DEF G
      <4> QED
        BY <3>3, <4>1
    <3> QED
      BY <3>4
  <2>7. t[n] = SubSeq(S, 1, n * R) /\ n \in 1..n
    BY <1>1, <1>4, <2>6
  <2>8. SubSeq(S, 1, Len(S)) = S
    BY <1>1
  <2> QED
    BY <1>1, <1>2, <1>4, <2>7, <2>8
<1> QED
  BY <1>3, <1>4

\* Zeroes and a statement's bytes behind S.
LEMMA AsAppended ==
  ASSUME NEW S \in Seq(AsCell), NEW z \in Nat, NEW bytes \in Seq(AsCell)
  PROVE  LET more == [i \in 1..z |-> "0"] \o bytes
             T    == S \o more
         IN  /\ more \in Seq(AsCell) /\ T \in Seq(AsCell) /\ Len(T) = Len(S) + z + Len(bytes)
             /\ \A k \in 1..Len(S) : T[k] = S[k]
             /\ \A k \in 1..z : T[Len(S) + k] = "0"
             /\ \A k \in 1..Len(bytes) : T[Len(S) + z + k] = bytes[k]
<1> DEFINE zero == [i \in 1..z |-> "0"]
           more == zero \o bytes
           T    == S \o more
<1>1. zero \in Seq(AsCell) /\ Len(zero) = z /\ \A k \in 1..z : zero[k] = "0"
  BY DEF AsCell
<1> HIDE DEF zero
<1>2. /\ more \in Seq(AsCell) /\ Len(more) = z + Len(bytes)
      /\ \A k \in 1..z : more[k] = "0"
      /\ \A k \in 1..Len(bytes) : more[z + k] = bytes[k]
  <2>1. more \in Seq(AsCell) /\ Len(more) = z + Len(bytes)
    BY <1>1, ConcatProperties
  <2>2. \A k \in 1..z : more[k] = zero[k]
    BY <1>1
  <2>3. \A k \in 1..Len(bytes) : more[z + k] = bytes[k]
    BY <1>1
  <2> QED
    BY <1>1, <2>1, <2>2, <2>3
<1> HIDE DEF more
<1>3. /\ T \in Seq(AsCell) /\ Len(T) = Len(S) + (z + Len(bytes))
      /\ \A k \in 1..Len(S) : T[k] = S[k]
      /\ \A k \in 1..z + Len(bytes) : T[Len(S) + k] = more[k]
  <2>0. more \in Seq(AsCell)
    BY <1>2
  <2>1. T \in Seq(AsCell) /\ Len(T) = Len(S) + (z + Len(bytes))
    <3>1. T \in Seq(AsCell) /\ Len(T) = Len(S) + Len(more)
      BY <2>0, ConcatProperties
    <3> QED
      BY <1>2, <3>1
  <2>2. \A k \in 1..Len(S) : T[k] = S[k]
    BY <1>2
  <2>3. \A k \in 1..Len(more) : T[Len(S) + k] = more[k]
    BY <1>2
  <2> QED
    BY <1>2, <2>1, <2>2, <2>3
<1>4. Len(S) \in Nat /\ Len(bytes) \in Nat
  OBVIOUS
<1> HIDE DEF T
<1>5. \A k \in 1..z : T[Len(S) + k] = "0"
  BY <1>2, <1>3, <1>4
<1>6. ASSUME NEW k \in 1..Len(bytes)
      PROVE  T[Len(S) + z + k] = bytes[k]
  <2>1. z + k \in 1..z + Len(bytes) /\ Len(S) + (z + k) = Len(S) + z + k
    BY <1>4
  <2>2. T[Len(S) + (z + k)] = more[z + k]
    BY <1>3, <2>1
  <2> QED
    BY <1>2, <2>1, <2>2
<1>7. Len(T) = Len(S) + z + Len(bytes)
  BY <1>3, <1>4
<1> QED
  BY <1>2, <1>3, <1>5, <1>6, <1>7 DEF T, more, zero

-----------------------------------------------------------------------------
\* The labels keep what the first pass has fixed.
AsSteady(symbols) ==
  /\ symbols \in [AsLabels -> AsSymbol]
  /\ \A l \in AsLabels : asSymbols[l].kind = "equ" => symbols[l] = asSymbols[l]

\* The statement under way is one of the program, and its operand a number.
LEMMA AsStatementIs ==
  ASSUME AsTypes, AsRunning
  PROVE  /\ Statement \in AsStatement /\ asAt \in 1..Len(asProgram) /\ asAt + 1 \in 1..Len(asProgram) + 1
         /\ \A symbols : symbols \in [AsLabels -> AsSymbol] => Operand(symbols) \in Nat
<1>1. /\ asAt \in 1..Len(asProgram) /\ Len(asProgram) \in Nat /\ Statement \in AsStatement
  BY DEF AsTypes, AsRunning, Statement
<1>2. ASSUME NEW symbols \in [AsLabels -> AsSymbol]
      PROVE  Operand(symbols) \in Nat
  <2>1. Statement.of \in AsLabels \cup {AsNone} /\ Statement.plus \in Nat
    BY <1>1 DEF AsStatement
  <2>2. Statement.of # AsNone => symbols[Statement.of].value \in Nat
    BY <2>1 DEF AsSymbol
  <2> QED
    BY <2>1, <2>2 DEF Operand
<1> QED
  BY <1>1, <1>2

\* A label that does not clash is set to the value it had after pass 1.
LEMMA AsLabelledSteady ==
  ASSUME AsTypes, AsRunning, NEW counter \in Nat, ~Clash(AsLabelled(counter))
  PROVE  AsSteady(AsLabelled(counter))
<1> DEFINE l == Statement.label
           new == AsLabelled(counter)
<1>1. l \in AsLabels \cup {AsNone} /\ asSymbols \in [AsLabels -> AsSymbol]
  BY AsStatementIs DEF AsStatement, AsTypes
<1>2. CASE l = AsNone
  BY <1>1, <1>2 DEF AsLabelled, AsSteady
<1>3. CASE l # AsNone
  <2> DEFINE is == IF asSymbols[l].kind # "undef" /\ asSymbols[l].value # counter
                   THEN [kind |-> "bad", value |-> 0] ELSE [kind |-> "equ", value |-> counter]
  <2>1. new = [asSymbols EXCEPT ![l] = is] /\ l \in AsLabels
    BY <1>1, <1>3 DEF AsLabelled
  <2>2. new[l] = is /\ \A m \in AsLabels : m # l => new[m] = asSymbols[m]
    BY <1>1, <2>1
  <2>3. is.kind # "bad"
    BY <2>1, <2>2 DEF Clash
  <2>4. is = [kind |-> "equ", value |-> counter] /\ (asSymbols[l].kind # "undef" => asSymbols[l].value = counter)
    BY <2>3
  <2> HIDE DEF is, new, l
  <2>5. is \in AsSymbol
    BY <2>4 DEF AsSymbol
  <2>6. asSymbols[l].kind = "equ" => asSymbols[l] = is
    <3>1. asSymbols[l] \in AsSymbol
      BY <1>1, <2>1
    <3> QED
      BY <2>4, <3>1 DEF AsSymbol
  <2>7. new \in [AsLabels -> AsSymbol]
    BY <1>1, <2>1, <2>5
  <2>8. \A m \in AsLabels : asSymbols[m].kind = "equ" => new[m] = asSymbols[m]
    BY <2>2, <2>6
  <2> QED
    BY <2>7, <2>8 DEF AsSteady, new
<1> QED
  BY <1>2, <1>3

\* Where labels stay steady, the values of pass 2 that were used stay those of the labels.
LEMMA AsFixedKept ==
  ASSUME AsTypes, AsFixed, AsRunning, NEW new, NEW symbols, AsSteady(new), AsSteady(symbols),
         asSymbols' = new, asFirst' = asFirst, asPass' = asPass,
         AsUses(symbols) \/ asRefs' = asRefs
  PROVE  AsFixed'
<1>1. asFirst' \subseteq AsLabels /\ \A l \in asFirst' : asSymbols'[l].kind = "equ"
  BY DEF AsFixed, AsSteady
<1>2. asPass' = 0 => asFirst' = {} /\ asRefs' = {}
  BY DEF AsFixed, AsUses
<1>3. ASSUME NEW r \in asRefs', r[1] \in asFirst'
      PROVE  r[2] = asSymbols'[r[1]].value
  <2>1. r[1] \in AsLabels /\ asSymbols[r[1]].kind = "equ"
    BY <1>3 DEF AsFixed
  <2>2. new[r[1]] = asSymbols[r[1]] /\ symbols[r[1]] = asSymbols[r[1]]
    BY <2>1 DEF AsSteady
  <2>3. CASE r \in asRefs
    BY <1>3, <2>2, <2>3 DEF AsFixed
  <2>4. CASE r = <<Statement.of, symbols[Statement.of].value>>
    <3>1. r[1] = Statement.of /\ r[2] = symbols[Statement.of].value
      BY <2>4
    <3> QED
      BY <2>2, <3>1
  <2> QED
    BY <1>3, <2>3, <2>4 DEF AsUses
<1> QED
  BY <1>1, <1>2, <1>3 DEF AsFixed

\* What is written stays written.
LEMMA AsWrittenKept ==
  ASSUME NEW S, AsHolds(asFile, asFill, S), AsWritten(S), asPc # "done", UNCHANGED asOutput,
         asBase # -1 => asPass' = 1 /\ asCounter' \in Nat /\ asCounter <= asCounter',
         asCounter \in Nat, asNext \in Nat, asBase \in {-1} \cup Nat
  PROVE  \E T : AsHolds(asFile', asFill', T) /\ AsWritten(T)'
<1>1. /\ asBase' = asBase /\ asNext' = asNext /\ asFile' = asFile /\ asFill' = asFill
      /\ asPlaced' = asPlaced
  BY DEF asOutput
<1>2. AsHolds(asFile', asFill', S)
  BY <1>1
<1>3. AsWritten(S)'
  <2>1. asBase # -1 => /\ asPass' = 1 /\ asBase <= asNext /\ asNext <= asCounter'
                       /\ Len(S) = asNext - asBase
    BY DEF AsWritten
  <2>2. Len(S) \in Nat
    BY DEF AsHolds
  <2>3. asBase # -1 => Len(S) >= asNext - asBase
    BY <2>1, <2>2
  <2> QED
    BY <1>1, <2>1, <2>3 DEF AsWritten
<1> QED
  BY <1>2, <1>3

\* A statement that emits nothing.
LEMMA AsQuietly ==
  ASSUME AsInv, AsRunning, NEW new, NEW symbols, AsSteady(new), AsSteady(symbols),
         asSymbols' = new, AsUses(symbols) \/ asRefs' = asRefs,
         asCounter' \in Nat, asCounter <= asCounter', UNCHANGED asOutput,
         NEW to \in 1..Len(asProgram) + 1, AsGoesOn(to)
  PROVE  AsInv'
<1>1. /\ asPc' = asPc /\ asProgram' = asProgram /\ asPass' = asPass /\ asFirst' = asFirst
      /\ asAt' = to /\ asPc = "run" /\ asBase' = asBase /\ asNext' = asNext
  BY DEF AsGoesOn, AsRunning, asOutput
<1>2. AsTypes'
  BY <1>1 DEF AsInv, AsTypes, AsSteady
<1>3. AsFixed'
  BY <1>1, AsFixedKept DEF AsInv
<1>4. PICK S : AsHolds(asFile, asFill, S) /\ AsWritten(S)
  BY DEF AsInv
<1>5. \E T : AsHolds(asFile', asFill', T) /\ AsWritten(T)'
  <2>1. asBase # -1 => asPass' = 1
    BY <1>1, <1>4 DEF AsWritten
  <2>2. asCounter \in Nat /\ asNext \in Nat /\ asBase \in {-1} \cup Nat
    BY DEF AsInv, AsTypes
  <2> QED
    BY <1>1, <1>4, <2>1, <2>2, AsWrittenKept
<1>6. asPc' # "done"
  BY <1>1
<1> QED
  BY <1>2, <1>3, <1>5, <1>6 DEF AsInv

\* The assembler gives up.
LEMMA AsGivesUp ==
  ASSUME AsInv, AsFatal, asPc # "done"
  PROVE  AsInv'
<1>1. /\ asPc' = "fatal" /\ asProgram' = asProgram /\ asPass' = asPass /\ asAt' = asAt
      /\ asSymbols' = asSymbols /\ asCounter' = asCounter /\ asRefs' = asRefs /\ asFirst' = asFirst
      /\ UNCHANGED asOutput /\ asBase' = asBase /\ asNext' = asNext
  BY DEF AsFatal, asOutput
<1>2. AsTypes' /\ AsFixed'
  BY <1>1 DEF AsInv, AsTypes, AsFixed
<1>3. PICK S : AsHolds(asFile, asFill, S) /\ AsWritten(S)
  BY DEF AsInv
<1>4. \E T : AsHolds(asFile', asFill', T) /\ AsWritten(T)'
  <2>1. asBase # -1 => asPass' = 1
    BY <1>1, <1>3 DEF AsWritten
  <2>2. asCounter \in Nat /\ asNext \in Nat /\ asBase \in {-1} \cup Nat
    BY DEF AsInv, AsTypes
  <2>3. asCounter' \in Nat /\ asCounter <= asCounter'
    BY <1>1, <2>2
  <2> QED
    BY <1>1, <1>3, <2>1, <2>2, <2>3, AsWrittenKept
<1> QED
  BY <1>1, <1>2, <1>4 DEF AsInv

\* Statements that emit nothing.
LEMMA AsQuietStep ==
  ASSUME AsInv, AsPlain \/ AsSpace \/ AsEqu \/ AsSet \/ AsIf \/ AsHiddenEnd
  PROVE  AsInv'
<1>1. /\ AsRunning /\ asPc = "run" /\ asPc # "done"
  BY DEF AsPlain, AsSpace, AsEqu, AsSet, AsIf, AsHiddenEnd, AsRunning
<1>2. /\ AsTypes /\ asCounter \in Nat /\ asAt + 1 \in 1..Len(asProgram) + 1
      /\ Statement \in AsStatement /\ asSymbols \in [AsLabels -> AsSymbol]
      /\ \A symbols : symbols \in [AsLabels -> AsSymbol] => Operand(symbols) \in Nat
  BY <1>1, AsStatementIs DEF AsInv, AsTypes
<1>3. AsSteady(asSymbols)
  BY <1>2 DEF AsSteady
<1>4. asCounter <= asCounter
  BY <1>2
<1>5. CASE AsFatal
  BY <1>1, <1>5, AsGivesUp
<1>6. ASSUME NEW new, AsSteady(new), asSymbols' = new, asCounter' = asCounter, UNCHANGED asOutput,
             NEW to \in 1..Len(asProgram) + 1, AsGoesOn(to),
             AsUses(asSymbols) \/ AsUses(new) \/ asRefs' = asRefs
      PROVE  AsInv'
  <2>1. asCounter' \in Nat /\ asCounter <= asCounter'
    BY <1>2, <1>6
  <2> QED
    BY <1>1, <1>3, <1>6, <2>1, AsQuietly
<1>7. CASE AsPlain \/ AsHiddenEnd
  <2>1. CASE Clash(AsLabelled(asCounter))
    BY <1>5, <1>7, <2>1 DEF AsPlain, AsHiddenEnd
  <2>2. CASE ~Clash(AsLabelled(asCounter))
    <3>1. /\ asSymbols' = AsLabelled(asCounter) /\ AsGoesOn(asAt + 1) /\ asCounter' = asCounter
          /\ UNCHANGED asOutput /\ asRefs' = asRefs
      BY <1>7, <2>2 DEF AsPlain, AsHiddenEnd
    <3>2. AsSteady(AsLabelled(asCounter))
      BY <1>1, <1>2, <2>2, AsLabelledSteady
    <3> QED
      BY <1>2, <1>6, <3>1, <3>2
  <2> QED
    BY <2>1, <2>2
<1>8. CASE AsSpace
  <2> DEFINE new == AsLabelled(asCounter)
             value == Operand(new)
  <2>1. CASE Clash(new) \/ (Statement.op = "org" /\ value < asCounter)
    BY <1>5, <1>8, <2>1 DEF AsSpace
  <2>2. CASE ~(Clash(new) \/ (Statement.op = "org" /\ value < asCounter))
    <3>1. /\ asCounter' = IF Statement.op = "org" THEN value ELSE asCounter + value
          /\ asSymbols' = new /\ AsUses(new) /\ AsGoesOn(asAt + 1) /\ UNCHANGED asOutput
      BY <1>8, <2>2 DEF AsSpace
    <3>2. AsSteady(new)
      BY <1>1, <1>2, <2>2, AsLabelledSteady
    <3>3. value \in Nat
      BY <1>2, <3>2 DEF AsSteady
    <3> HIDE DEF value, new
    <3>4. asCounter' \in Nat /\ asCounter <= asCounter'
      BY <1>2, <2>2, <3>1, <3>3
    <3> QED
      BY <1>1, <1>2, <3>1, <3>2, <3>4, AsQuietly
  <2> QED
    BY <2>1, <2>2
<1>9. CASE AsEqu
  <2> DEFINE value == Operand(asSymbols)
             new == AsLabelled(value)
  <2>1. CASE Statement.label = AsNone \/ Clash(new)
    BY <1>5, <1>9, <2>1 DEF AsEqu
  <2>2. CASE ~(Statement.label = AsNone \/ Clash(new))
    <3>1. /\ asSymbols' = new /\ AsUses(asSymbols) /\ AsGoesOn(asAt + 1)
          /\ asCounter' = asCounter /\ UNCHANGED asOutput
      BY <1>9, <2>2 DEF AsEqu
    <3>2. value \in Nat
      BY <1>2
    <3> HIDE DEF value
    <3>3. AsSteady(new)
      BY <1>1, <1>2, <2>2, <3>2, AsLabelledSteady
    <3> QED
      BY <1>2, <1>6, <3>1, <3>3
  <2> QED
    BY <2>1, <2>2
<1>10. CASE AsSet
  <2> DEFINE l == Statement.label
             is == [kind |-> "set", value |-> Operand(asSymbols)]
             new == [asSymbols EXCEPT ![l] = is]
  <2>1. CASE l = AsNone
    BY <1>5, <1>10, <2>1 DEF AsSet
  <2>2. CASE l # AsNone /\ asSymbols[l].kind = "equ"
    BY <1>5, <1>10, <2>2 DEF AsSet
  <2>3. CASE l # AsNone /\ asSymbols[l].kind # "equ"
    <3>1. /\ asSymbols' = new /\ AsUses(asSymbols) /\ AsGoesOn(asAt + 1)
          /\ asCounter' = asCounter /\ UNCHANGED asOutput
      BY <1>10, <2>3 DEF AsSet
    <3>2. is \in AsSymbol /\ l \in AsLabels
      BY <1>2, <2>3 DEF AsSymbol, AsStatement
    <3> HIDE DEF is, l
    <3>3. AsSteady(new)
      BY <1>2, <2>3, <3>2 DEF AsSteady
    <3> HIDE DEF new
    <3> QED
      BY <1>2, <1>6, <3>1, <3>3
  <2> QED
    BY <2>1, <2>2, <2>3
<1>11. CASE AsIf
  <2> DEFINE new == AsLabelled(asCounter)
             true == Statement.op = "if" /\ Operand(new) # 0
             to == IF Statement.op = "if" THEN Skipped({"else", "endif"}) ELSE Skipped({"endif"})
  <2>1. CASE Clash(new) \/ (~true /\ to = 0)
    BY <1>5, <1>11, <2>1 DEF AsIf
  <2>2. CASE ~(Clash(new) \/ (~true /\ to = 0))
    <3>1. /\ asSymbols' = new /\ (AsUses(new) \/ asRefs' = asRefs)
          /\ AsGoesOn(IF true THEN asAt + 1 ELSE to)
          /\ asCounter' = asCounter /\ UNCHANGED asOutput
      BY <1>11, <2>2 DEF AsIf
    <3>2. AsSteady(new)
      BY <1>1, <1>2, <2>2, AsLabelledSteady
    <3>3. \A ends : Skipped(ends) # 0 => Skipped(ends) \in 1..Len(asProgram) + 1
      <4> TAKE ends
      <4> DEFINE stops == {k \in asAt + 1..Len(asProgram) : asProgram[k].op \in ends}
                 least == CHOOSE k \in stops : \A m \in stops : k <= m
      <4>1. Skipped(ends) = IF stops = {} THEN 0 ELSE 1 + least
        BY DEF Skipped
      <4>2. CASE stops = {}
        BY <4>1, <4>2
      <4>3. CASE stops # {}
        <5>1. stops \in SUBSET Nat /\ Len(asProgram) \in Nat /\ \A k \in stops : k \in 1..Len(asProgram)
          BY <1>2 DEF AsTypes
        <5> HIDE DEF stops
        <5>2. least \in stops
          BY <4>3, <5>1, NatMin
        <5> HIDE DEF least
        <5> QED
          BY <4>1, <4>3, <5>1, <5>2
      <4> QED
        BY <4>2, <4>3
    <3>4. to # 0 => to \in 1..Len(asProgram) + 1
      BY <3>3
    <3> DEFINE there == IF true THEN asAt + 1 ELSE to
    <3> HIDE DEF to, new
    <3>5. there \in 1..Len(asProgram) + 1
      BY <1>2, <2>2, <3>4
    <3>6. AsGoesOn(there)
      BY <3>1
    <3> HIDE DEF there
    <3> QED
      BY <1>6, <3>1, <3>2, <3>5, <3>6
  <2> QED
    BY <2>1, <2>2
<1> QED
  BY <1>7, <1>8, <1>9, <1>10, <1>11

\* A pass is over.
LEMMA AsPassEndStep ==
  ASSUME AsInv, AsPassEnd
  PROVE  AsInv'
<1>1. /\ asPc = "run" /\ asProgram' = asProgram /\ asSymbols' = asSymbols /\ asRefs' = asRefs
      /\ UNCHANGED asOutput /\ asBase' = asBase /\ asNext' = asNext
  BY DEF AsPassEnd, asOutput
<1>2. /\ AsTypes /\ AsFixed /\ asCounter \in Nat /\ asNext \in Nat /\ asBase \in {-1} \cup Nat
      /\ asPass \in {0, 1} /\ Len(asProgram) \in Nat
  BY DEF AsInv, AsTypes
<1>3. PICK S : AsHolds(asFile, asFill, S) /\ AsWritten(S)
  BY DEF AsInv
<1>4. CASE asPass = 0
  <2>1. /\ asPass' = 1 /\ asAt' = 1 /\ asCounter' = 0 /\ asPc' = asPc
        /\ asFirst' = {l \in AsLabels : asSymbols[l].kind = "equ"}
    BY <1>4 DEF AsPassEnd
  <2>2. asBase = -1
    BY <1>3, <1>4 DEF AsWritten
  <2>3. AsTypes'
    BY <1>1, <1>2, <2>1 DEF AsTypes
  <2>4. AsFixed'
    BY <1>1, <1>2, <1>4, <2>1 DEF AsFixed
  <2>5. \E T : AsHolds(asFile', asFill', T) /\ AsWritten(T)'
    BY <1>1, <1>2, <1>3, <2>2, AsWrittenKept
  <2> QED
    BY <1>1, <2>1, <2>3, <2>4, <2>5 DEF AsInv
<1>5. CASE asPass = 1
  <2>1. /\ asPass' = asPass /\ asAt' = asAt /\ asCounter' = asCounter /\ asPc' = "close"
        /\ asFirst' = asFirst
    BY <1>5 DEF AsPassEnd
  <2>2. AsTypes' /\ AsFixed'
    BY <1>1, <1>2, <2>1 DEF AsTypes, AsFixed
  <2>3. asCounter' \in Nat /\ asCounter <= asCounter' /\ asPass' = 1
    BY <1>2, <1>5, <2>1
  <2>4. \E T : AsHolds(asFile', asFill', T) /\ AsWritten(T)'
    BY <1>1, <1>2, <1>3, <2>3, AsWrittenKept
  <2> QED
    BY <2>1, <2>2, <2>4 DEF AsInv
<1> QED
  BY <1>2, <1>4, <1>5

\* An instruction.
LEMMA AsInstructionStep ==
  ASSUME AsInv, AsInstruction
  PROVE  AsInv'
<1> DEFINE new == AsLabelled(asCounter)
           code == Code(Operand(new))
<1>1. AsRunning /\ asPc = "run" /\ asPc # "done" /\ Statement.op \in {"one", "jump", "db"}
  BY DEF AsInstruction, AsRunning
<1>2. CASE AsFatal
  BY <1>1, <1>2, AsGivesUp
<1>3. CASE ~AsFatal
  <2>1. /\ ~Clash(new) /\ AsEmit(code) /\ asSymbols' = new /\ (asRefs' = asRefs \/ AsUses(new))
        /\ AsGoesOn(asAt + 1)
    BY <1>3 DEF AsInstruction
  <2>2. /\ AsTypes /\ AsFixed /\ asCounter \in Nat /\ asNext \in Nat /\ asBase \in {-1} \cup Nat
        /\ asAt + 1 \in 1..Len(asProgram) + 1 /\ asPass \in {0, 1}
        /\ \A symbols : symbols \in [AsLabels -> AsSymbol] => Operand(symbols) \in Nat
    BY <1>1, AsStatementIs DEF AsInv, AsTypes
  <2>3. AsSteady(new)
    BY <1>1, <2>1, <2>2, AsLabelledSteady
  <2>4. code \in Seq(AsCell)
    <3>1. Operand(new) \in Nat
      BY <2>2, <2>3 DEF AsSteady
    <3> DEFINE value == Operand(new)
    <3> HIDE DEF value
    <3>2. "op" \in AsCell /\ <<"lo", value>> \in AsCell /\ <<"hi", value>> \in AsCell
      BY <3>1 DEF AsCell, value
    <3>3. /\ <<"op">> \in Seq(AsCell) /\ <<<<"lo", value>>>> \in Seq(AsCell)
          /\ <<"op", <<"lo", value>>, <<"hi", value>>>> \in Seq(AsCell)
      <4> HIDE DEF AsCell
      <4> QED
        BY <3>2
    <3>4. Code(value) \in Seq(AsCell)
      BY <1>1, <3>3 DEF Code
    <3> QED
      BY <3>4 DEF value
  <2> HIDE DEF code, new
  <2>5. /\ asPc' = asPc /\ asProgram' = asProgram /\ asPass' = asPass /\ asFirst' = asFirst
        /\ asAt' = asAt + 1
    BY <2>1 DEF AsGoesOn
  <2>6. Len(code) \in Nat /\ asCounter' = asCounter + Len(code) /\ asNext' = asCounter'
    BY <2>1, <2>4 DEF AsEmit
  <2>7. asBase' \in {-1} \cup Nat
    BY <2>1, <2>2 DEF AsEmit
  <2>8. AsTypes'
    BY <2>1, <2>2, <2>3, <2>5, <2>6, <2>7 DEF AsTypes, AsSteady
  <2>9. AsFixed'
    BY <1>1, <2>1, <2>2, <2>3, <2>5, AsFixedKept
  <2>10. PICK S : AsHolds(asFile, asFill, S) /\ AsWritten(S)
    BY DEF AsInv
  <2>11. \E T : AsHolds(asFile', asFill', T) /\ AsWritten(T)'
    <3>1. CASE asPass = 0
      <4>1. asBase = -1
        BY <2>10, <3>1 DEF AsWritten
      <4>2. asBase' = asBase /\ asFile' = asFile /\ asFill' = asFill /\ asPlaced' = asPlaced
        BY <2>1, <3>1 DEF AsEmit
      <4>3. AsWritten(S)'
        BY <2>10, <4>1, <4>2 DEF AsWritten
      <4> QED
        BY <2>10, <4>2, <4>3
    <3>2. CASE asPass = 1
      <4> DEFINE z == IF asBase = -1 THEN 0 ELSE asCounter - asNext
                 more == [i \in 1..z |-> "0"] \o code
                 T == S \o more
                 base == IF asBase = -1 THEN asCounter ELSE asBase
      <4>1. /\ asBase' = base /\ AsPut(more)
            /\ asPlaced' = asPlaced \cup {<<asCounter + i - 1, code[i]>> : i \in 1..Len(code)}
        BY <2>1, <3>2 DEF AsEmit
      <4>2. z \in Nat /\ S \in Seq(AsCell) /\ Len(S) \in Nat /\ base \in Nat
            /\ Len(S) + z = asCounter - base /\ base <= asCounter
        <5>1. S \in Seq(AsCell) /\ Len(S) \in Nat
          BY <2>10 DEF AsHolds
        <5>2. CASE asBase = -1
          <6>1. Len(S) = 0
            BY <2>10, <5>2 DEF AsWritten
          <6> QED
            BY <2>2, <5>1, <5>2, <6>1
        <5>3. CASE asBase # -1
          <6>1. asBase <= asNext /\ asNext <= asCounter /\ Len(S) = asNext - asBase
            BY <1>1, <2>10, <5>3 DEF AsWritten
          <6> QED
            BY <2>2, <5>1, <5>3, <6>1
        <5> QED
          BY <5>2, <5>3
      <4>3. PICK c, n, b, t, m : c = code /\ n = z /\ b = base /\ t = T /\ m = more
        OBVIOUS
      <4>4. /\ c \in Seq(AsCell) /\ n \in Nat /\ b \in Nat /\ Len(c) \in Nat /\ Len(S) \in Nat
            /\ Len(S) + n = asCounter - b /\ b <= asCounter
        <5>1. c \in Seq(AsCell)
          BY <2>4, <4>3
        <5> HIDE DEF z, base
        <5> QED
          BY <4>2, <4>3, <5>1
      <4>5. /\ m \in Seq(AsCell) /\ t = S \o m /\ t \in Seq(AsCell) /\ Len(t) = Len(S) + n + Len(c)
            /\ \A k \in 1..Len(S) : t[k] = S[k]
            /\ \A k \in 1..n : t[Len(S) + k] = "0"
            /\ \A k \in 1..Len(c) : t[Len(S) + n + k] = c[k]
        <5>1. m = [i \in 1..n |-> "0"] \o c /\ t = S \o m
          <6> HIDE DEF z
          <6> QED
            BY <4>3
        <5>2. S \in Seq(AsCell) /\ n \in Nat /\ c \in Seq(AsCell)
          BY <4>2, <4>4
        <5>3. LET x == [i \in 1..n |-> "0"] \o c
                  y == S \o x
              IN  /\ x \in Seq(AsCell) /\ y \in Seq(AsCell) /\ Len(y) = Len(S) + n + Len(c)
                  /\ \A k \in 1..Len(S) : y[k] = S[k]
                  /\ \A k \in 1..n : y[Len(S) + k] = "0"
                  /\ \A k \in 1..Len(c) : y[Len(S) + n + k] = c[k]
          BY <5>2, AsAppended, Zenon
        <5> HIDE DEF z, base, T, more
        <5> QED
          BY <5>1, <5>3, Zenon
      <4>6. /\ asBase' = b /\ AsPut(m) /\ asCounter' = asCounter + Len(c) /\ asNext' = asCounter'
            /\ asPlaced' = asPlaced \cup {<<asCounter + i - 1, c[i]>> : i \in 1..Len(c)}
        <5> HIDE DEF base, more
        <5> QED
          BY <2>6, <4>1, <4>3
      <4>7. asBase = -1 \/ b = asBase
        BY <4>3
      <4> HIDE DEF T, more, z, base
      <4>8. AsHolds(asFile', asFill', t)
        BY <2>10, <4>5, <4>6, AsPutHolds
      <4>9. PICK ls, lc, lt : ls = Len(S) /\ lc = Len(c) /\ lt = Len(t)
        OBVIOUS
      <4>10. /\ ls \in Nat /\ lc \in Nat /\ n \in Nat /\ b \in Nat /\ lt = ls + n + lc /\ asCounter \in Nat
             /\ asCounter = b + ls + n /\ asCounter' = asCounter + lc /\ asNext' = asCounter'
        <5>1. Len(S) + n = asCounter - b => asCounter = b + Len(S) + n
          BY <2>2, <4>4
        <5> QED
          BY <2>2, <4>4, <4>5, <4>6, <4>9, <5>1
      <4>11. ASSUME NEW p \in asPlaced'
             PROVE  p[1] - b + 1 \in 1..lt /\ t[p[1] - b + 1] = p[2]
        <5>1. CASE p \in asPlaced
          <6>1. b = asBase
            BY <2>10, <4>7, <5>1 DEF AsWritten
          <6>2. p[1] - b + 1 \in 1..ls /\ S[p[1] - b + 1] = p[2]
            BY <2>10, <4>9, <5>1, <6>1 DEF AsWritten
          <6>3. PICK k : k = p[1] - b + 1
            OBVIOUS
          <6>4. k \in 1..ls
            BY <6>2, <6>3
          <6>5. k \in 1..lt
            BY <4>10, <6>4
          <6>6. t[k] = S[k]
            BY <4>5, <4>9, <6>4
          <6> QED
            BY <6>2, <6>3, <6>5, <6>6
        <5>2. CASE p \notin asPlaced
          <6>1. PICK i \in 1..lc : p = <<asCounter + i - 1, c[i]>>
            BY <4>6, <4>9, <5>2
          <6>2. p[1] = asCounter + i - 1 /\ p[2] = c[i]
            BY <6>1
          <6>3. p[1] - b + 1 = ls + n + i /\ ls + n + i \in 1..lt
            BY <4>10, <6>2
          <6>4. t[ls + n + i] = c[i]
            BY <4>5, <4>9
          <6> QED
            BY <6>2, <6>3, <6>4
        <5> QED
          BY <5>1, <5>2
      <4>12. ASSUME NEW k \in 1..lt
             PROVE  t[k] = "0" \/ <<b + k - 1, t[k]>> \in asPlaced'
        <5>1. CASE k <= ls
          <6>1. k \in 1..ls
            BY <4>10, <5>1
          <6>2. t[k] = S[k]
            BY <4>5, <4>9, <6>1
          <6>3. b = asBase
            <7>1. S # <<>>
              BY <4>9, <6>1
            <7>2. asBase # -1
              BY <2>10, <7>1 DEF AsWritten
            <7> QED
              BY <4>7, <7>2
          <6>4. S[k] = "0" \/ <<asBase + k - 1, S[k]>> \in asPlaced
            BY <2>10, <4>9, <6>1 DEF AsWritten
          <6> QED
            BY <4>6, <6>2, <6>3, <6>4
        <5>2. CASE ~(k <= ls) /\ k <= ls + n
          <6>1. PICK i : i = k - ls
            OBVIOUS
          <6>2. i \in 1..n /\ ls + i = k
            BY <4>10, <5>2, <6>1
          <6>3. t[ls + i] = "0"
            BY <4>5, <4>9, <6>2
          <6> QED
            BY <6>2, <6>3
        <5>3. CASE ~(k <= ls + n)
          <6>1. PICK i : i = k - (ls + n)
            OBVIOUS
          <6>2. i \in 1..lc /\ ls + n + i = k /\ b + k - 1 = asCounter + i - 1
            BY <4>10, <5>3, <6>1
          <6>3. t[ls + n + i] = c[i]
            BY <4>5, <4>9, <6>2
          <6>4. <<asCounter + i - 1, c[i]>> \in asPlaced'
            BY <4>6, <4>9, <6>2
          <6> QED
            BY <6>2, <6>3, <6>4
        <5> QED
          BY <4>10, <5>1, <5>2, <5>3
      <4>13. b <= asNext' /\ asNext' <= asCounter' /\ lt = asNext' - b /\ b # -1 /\ lt >= asNext' - b
        BY <4>10
      <4>14. AsWritten(t)'
        <5>1. asPass' = 1
          BY <2>5, <3>2
        <5>2. asBase' = b /\ Len(t) = lt
          BY <4>6, <4>9
        <5> QED
          BY <4>11, <4>12, <4>13, <5>1, <5>2 DEF AsWritten
      <4> QED
        BY <4>8, <4>14
    <3> QED
      BY <2>2, <3>1, <3>2
  <2>12. asPc' # "done"
    BY <1>1, <2>5
  <2> QED
    BY <2>8, <2>9, <2>11, <2>12 DEF AsInv
<1> QED
  BY <1>2, <1>3

\* Whole records and less than one are whole records only with nothing left over.
LEMMA AsWhole ==
  ASSUME NEW a \in Nat, NEW q \in Nat, NEW r \in Nat, NEW n \in 0..r - 1, a * r + n = q * r
  PROVE  n = 0
<1> DEFINE x == a * r
           y == q * r
<1>1. x \in Nat /\ y \in Nat
  OBVIOUS
<1>2. CASE a < q
  <2>1. a + 1 \in 1..q /\ 1 \in 1..r
    BY <1>2
  <2>2. (a + 1 - 1) * r + r = (a + 1) * r /\ (a + 1) * r <= y /\ a + 1 - 1 = a
    BY <2>1, AsInRecord
  <2>3. x + r <= y
    BY <2>2
  <2> HIDE DEF x, y
  <2> QED
    BY <1>1, <2>3 DEF x, y
<1>3. CASE a > q
  <2>1. q + 1 \in 1..a /\ 1 \in 1..r
    BY <1>3
  <2>2. (q + 1 - 1) * r + r = (q + 1) * r /\ (q + 1) * r <= x /\ q + 1 - 1 = q
    BY <2>1, AsInRecord
  <2>3. y + r <= x
    BY <2>2
  <2>4. x + n = y
    OBVIOUS
  <2> HIDE DEF x, y
  <2> QED
    BY <1>1, <2>3, <2>4
<1>4. CASE a = q
  <2>1. x + n = x
    BY <1>4
  <2> HIDE DEF x
  <2> QED
    BY <1>1, <2>1
<1> QED
  BY <1>2, <1>3, <1>4

\* The output is closed.
LEMMA AsCloseStep ==
  ASSUME AsInv, AsClose
  PROVE  AsInv'
<1>1. /\ asPc = "close" /\ asProgram' = asProgram /\ asPass' = asPass /\ asAt' = asAt
      /\ asSymbols' = asSymbols /\ asCounter' = asCounter /\ asRefs' = asRefs /\ asFirst' = asFirst
      /\ asBase' = asBase /\ asNext' = asNext /\ asPlaced' = asPlaced /\ asPc' \in {"done", "fatal"}
  BY DEF AsClose
<1>2. AsTypes' /\ AsFixed'
  BY <1>1 DEF AsInv, AsTypes, AsFixed
<1>3. PICK S : AsHolds(asFile, asFill, S) /\ AsWritten(S)
  BY DEF AsInv
<1>4. /\ asCounter \in Nat /\ asNext \in Nat /\ asBase \in {-1} \cup Nat /\ AsRecord \in Nat \ {0}
  BY AsConstants DEF AsInv, AsTypes
<1>5. CASE asPc' = "fatal"
  <2>1. UNCHANGED asOutput /\ asPc # "done"
    BY <1>1, <1>5 DEF AsClose, asOutput
  <2>2. asBase # -1 => asPass' = 1
    BY <1>1, <1>3 DEF AsWritten
  <2>3. asCounter' \in Nat /\ asCounter <= asCounter'
    BY <1>1, <1>4
  <2>4. \E T : AsHolds(asFile', asFill', T) /\ AsWritten(T)'
    BY <1>3, <1>4, <2>1, <2>2, <2>3, AsWrittenKept
  <2> QED
    BY <1>2, <1>5, <2>4 DEF AsInv
<1>6. CASE asPc' = "done"
  <2> DEFINE z == IF asFill = <<>> THEN 0 ELSE AsRecord - Len(asFill)
  <2>1. AsPut([i \in 1..z |-> "0"])
    BY <1>6 DEF AsClose
  <2>2. PICK ls, lf, F : ls = Len(S) /\ lf = Len(asFill) /\ F = Len(asFile)
    OBVIOUS
  <2>3. /\ S \in Seq(AsCell) /\ asFill \in Seq(AsCell) /\ ls \in Nat /\ lf \in 0..AsRecord - 1 /\ F \in Nat
        /\ ls = F * AsRecord + lf /\ (asFill = <<>> <=> lf = 0)
    <3>1. /\ S \in Seq(AsCell) /\ asFill \in Seq(AsCell) /\ ls \in Nat /\ lf \in Nat /\ F \in Nat
          /\ lf < AsRecord /\ ls = F * AsRecord + lf
      BY <1>3, <2>2 DEF AsHolds
    <3>2. asFill = <<>> <=> lf = 0
      BY <2>2, <3>1
    <3> QED
      BY <1>4, <3>1, <3>2
  <2>4. PICK n : n = z
    OBVIOUS
  <2>5. n = (IF lf = 0 THEN 0 ELSE AsRecord - lf) /\ n \in Nat
    BY <1>4, <2>2, <2>3, <2>4
  <2>6. PICK zero : zero = [i \in 1..n |-> "0"]
    OBVIOUS
  <2>7. zero \in Seq(AsCell) /\ Len(zero) = n /\ AsPut(zero) /\ \A k \in 1..n : zero[k] = "0"
    <3>1. AsPut(zero)
      <4> HIDE DEF z
      <4> QED
        BY <2>1, <2>4, <2>6
    <3>2. "0" \in AsCell
      BY DEF AsCell
    <3> QED
      BY <2>5, <2>6, <3>1, <3>2
  <2>8. PICK t : t = S \o zero
    OBVIOUS
  <2>9. /\ t \in Seq(AsCell) /\ Len(t) = ls + n
        /\ \A k \in 1..ls : t[k] = S[k]
        /\ \A k \in 1..n : t[ls + k] = "0"
    <3>1. t \in Seq(AsCell) /\ Len(t) = Len(S) + Len(zero)
      BY <2>3, <2>7, <2>8, ConcatProperties
    <3>2. \A k \in 1..Len(S) : t[k] = S[k]
      BY <2>3, <2>7, <2>8
    <3>3. \A k \in 1..Len(zero) : t[Len(S) + k] = zero[k]
      BY <2>3, <2>7, <2>8
    <3> QED
      BY <2>2, <2>7, <3>1, <3>2, <3>3
  <2>10. AsHolds(asFile', asFill', t)
    BY <1>3, <2>7, <2>8, AsPutHolds
  <2>11. asFill' = <<>>
    <3>1. PICK G, m : G = Len(asFile') /\ m = Len(asFill')
      OBVIOUS
    <3>2. /\ asFill' \in Seq(AsCell) /\ G \in Nat /\ m \in Nat /\ m < AsRecord
          /\ Len(t) = G * AsRecord + m
      BY <2>10, <3>1 DEF AsHolds
    <3>3. PICK q \in Nat : ls + n = q * AsRecord
      <4>1. CASE lf = 0
        <5>1. F * AsRecord \in Nat
          BY <1>4, <2>3
        <5>2. n = 0 /\ ls = F * AsRecord + 0
          BY <2>3, <2>5, <4>1
        <5>3. ls + n = F * AsRecord
          BY <5>1, <5>2
        <5> QED
          BY <2>3, <5>3
      <4>2. CASE lf # 0
        <5>1. PICK x : x = F * AsRecord
          OBVIOUS
        <5>2. x \in Nat /\ (F + 1) * AsRecord = x + AsRecord
          BY <1>4, <2>3, <5>1
        <5>3. n = AsRecord - lf /\ ls = x + lf
          BY <2>3, <2>5, <4>2, <5>1
        <5>4. ls + n = x + AsRecord
          BY <1>4, <2>3, <5>2, <5>3
        <5>5. ls + n = (F + 1) * AsRecord /\ F + 1 \in Nat
          BY <2>3, <5>2, <5>4
        <5> QED
          BY <5>5
      <4> QED
        BY <4>1, <4>2
    <3>4. m \in 0..AsRecord - 1 /\ AsRecord \in Nat
      BY <1>4, <3>2
    <3>5. G * AsRecord + m = q * AsRecord
      BY <2>9, <3>2, <3>3
    <3>6. m = 0
      BY <3>2, <3>3, <3>4, <3>5, AsWhole
    <3>7. PICK f : f = asFill'
      OBVIOUS
    <3>8. f \in Seq(AsCell) /\ Len(f) = 0
      BY <3>1, <3>2, <3>6, <3>7
    <3>9. f = <<>>
      BY <3>8
    <3> QED
      BY <3>7, <3>9
  <2>12. AsWritten(t)'
    <3>1. asBase = -1 => t = <<>>
      <4>1. SUFFICES ASSUME asBase = -1 PROVE t = <<>>
        OBVIOUS
      <4>2. ls = 0
        BY <1>3, <2>2, <4>1 DEF AsWritten
      <4>3. PICK x : x = F * AsRecord
        OBVIOUS
      <4>4. x \in Nat
        BY <1>4, <2>3, <4>3
      <4>5. lf = 0
        BY <2>3, <4>2, <4>3, <4>4
      <4>6. Len(t) = 0
        BY <2>5, <2>9, <4>2, <4>5
      <4> QED
        BY <2>9, <4>6
    <3>2. asBase # -1 => /\ asPass = 1 /\ asBase <= asNext /\ asNext <= asCounter
                         /\ ls >= asNext - asBase
      BY <1>3, <2>2 DEF AsWritten
    <3>3. asBase # -1 => Len(t) >= asNext - asBase
      BY <1>4, <2>3, <2>5, <2>9, <3>2
    <3>4. asPlaced # {} => asBase # -1
      BY <1>3 DEF AsWritten
    <3>5. ASSUME NEW p \in asPlaced
          PROVE  p[1] - asBase + 1 \in 1..Len(t) /\ t[p[1] - asBase + 1] = p[2]
      <4>1. PICK k : k = p[1] - asBase + 1
        OBVIOUS
      <4>2. k \in 1..ls /\ S[k] = p[2]
        BY <1>3, <2>2, <4>1 DEF AsWritten
      <4>3. k \in 1..Len(t) /\ t[k] = S[k]
        BY <2>3, <2>5, <2>9, <4>2
      <4> QED
        BY <4>1, <4>2, <4>3
    <3>6. ASSUME NEW k \in 1..Len(t)
          PROVE  t[k] = "0" \/ <<asBase + k - 1, t[k]>> \in asPlaced
      <4>1. CASE k <= ls
        <5>1. k \in 1..ls
          BY <2>3, <4>1
        <5>2. t[k] = S[k]
          BY <2>9, <5>1
        <5>3. S[k] = "0" \/ <<asBase + k - 1, S[k]>> \in asPlaced
          BY <1>3, <2>2, <5>1 DEF AsWritten
        <5> QED
          BY <5>2, <5>3
      <4>2. CASE ~(k <= ls)
        <5>1. PICK i : i = k - ls
          OBVIOUS
        <5>2. i \in 1..n /\ ls + i = k
          BY <2>3, <2>5, <2>9, <4>2, <5>1, SMTT(30)
        <5>3. t[ls + i] = "0"
          BY <2>9, <5>2
        <5> QED
          BY <5>2, <5>3
      <4> QED
        BY <4>1, <4>2
    <3> QED
      BY <1>1, <1>6, <3>1, <3>2, <3>3, <3>4, <3>5, <3>6 DEF AsWritten
  <2> QED
    BY <1>2, <2>10, <2>11, <2>12 DEF AsInv
<1> QED
  BY <1>1, <1>5, <1>6

-----------------------------------------------------------------------------
\* Nothing is written or known before the first statement.
LEMMA AsInitial ==
  ASSUME AsStart \/ AsOff
  PROVE  AsInv
<1>1. PICK p \in AsPrograms \cup {<<>>} : AsNow(p) /\ asPc \in {"run", "off"}
  BY DEF AsStart, AsOff
<1>2. p \in Seq(AsStatement) /\ Len(p) \in Nat
  <2>1. <<>> \in Seq(AsStatement)
    OBVIOUS
  <2>2. p \in Seq(AsStatement)
    BY AsConstants, <1>1, <2>1
  <2> QED
    BY <2>2
<1>3. /\ asProgram = p /\ asPass = 0 /\ asAt = 1 /\ asCounter = 0 /\ asBase = -1 /\ asNext = 0
      /\ asFile = <<>> /\ asFill = <<>> /\ asPlaced = {} /\ asRefs = {} /\ asFirst = {}
      /\ asSymbols = [l \in AsLabels |-> [kind |-> "undef", value |-> 0]]
  BY <1>1 DEF AsNow
<1>4. asSymbols \in [AsLabels -> AsSymbol]
  BY <1>3 DEF AsSymbol
<1>5. AsTypes
  BY <1>1, <1>2, <1>3, <1>4 DEF AsTypes
<1>6. AsFixed
  BY <1>3 DEF AsFixed
<1>7. AsHolds(asFile, asFill, <<>>)
  <2>1. <<>> \in Seq(AsCell) /\ <<>> \in Seq(Seq(AsCell)) /\ Len(<<>>) = 0
    OBVIOUS
  <2>2. 0 < AsRecord /\ 0 * AsRecord + 0 = 0
    BY AsConstants
  <2> QED
    BY <1>3, <2>1, <2>2 DEF AsHolds
<1>8. AsWritten(<<>>)
  BY <1>3 DEF AsWritten
<1> QED
  BY <1>1, <1>5, <1>6, <1>7, <1>8 DEF AsInv

\* Every step of ASM keeps the invariant.
LEMMA AsStaysRight ==
  ASSUME AsInv, [AsStep]_asVars
  PROVE  AsInv'
<1>1. CASE AsPlain \/ AsSpace \/ AsEqu \/ AsSet \/ AsIf \/ AsHiddenEnd
  BY <1>1, AsQuietStep
<1>2. CASE AsInstruction
  BY <1>2, AsInstructionStep
<1>3. CASE AsPassEnd
  BY <1>3, AsPassEndStep
<1>4. CASE AsClose
  BY <1>4, AsCloseStep
<1>5. CASE UNCHANGED asVars
  <2>1. /\ asPc' = asPc /\ asProgram' = asProgram /\ asPass' = asPass /\ asAt' = asAt
        /\ asSymbols' = asSymbols /\ asCounter' = asCounter /\ asRefs' = asRefs /\ asFirst' = asFirst
        /\ asBase' = asBase /\ asNext' = asNext /\ asPlaced' = asPlaced
        /\ asFile' = asFile /\ asFill' = asFill
    BY <1>5 DEF asVars, asOutput
  <2>2. AsTypes' /\ AsFixed' /\ (asPc' = "done" => asFill' = <<>>)
    BY <2>1 DEF AsInv, AsTypes, AsFixed
  <2>3. PICK S : AsHolds(asFile, asFill, S) /\ AsWritten(S)
    BY DEF AsInv
  <2>4. AsHolds(asFile', asFill', S) /\ AsWritten(S)'
    BY <2>1, <2>3 DEF AsWritten
  <2> QED
    BY <2>2, <2>4 DEF AsInv
<1> QED
  BY <1>1, <1>2, <1>3, <1>4, <1>5 DEF AsStep

\* And it says what the output must be.
LEMMA AsEndsRight ==
  ASSUME AsInv
  PROVE  AsTypeOK /\ AsOutputRight
<1>1. PICK S : AsHolds(asFile, asFill, S) /\ AsWritten(S)
  BY DEF AsInv
<1>2. AsTypeOK
  <2>1. /\ asPc \in {"off", "run", "close", "done", "fatal"}
        /\ asPass \in {0, 1} /\ asAt \in 1..Len(asProgram) + 1
        /\ asCounter \in Nat /\ asBase \in {-1} \cup Nat /\ asNext \in Nat
    BY DEF AsInv, AsTypes
  <2>2. \A l \in AsLabels : asSymbols[l].kind \in {"undef", "equ", "set"} /\ asSymbols[l].value \in Nat
    BY DEF AsInv, AsTypes, AsSymbol
  <2>3. Len(asFill) < AsRecord /\ \A i \in 1..Len(asFile) : Len(asFile[i]) = AsRecord
    BY <1>1 DEF AsHolds
  <2> QED
    BY <2>1, <2>2, <2>3 DEF AsTypeOK
<1>3. AsImageRight
  <2> SUFFICES ASSUME asPc = "done" PROVE AsImageRight
    BY DEF AsImageRight
  <2>1. asFill = <<>>
    BY DEF AsInv
  <2>2. FlattenSeq(asFile) = S
    BY <1>1, <2>1, AsFlattened
  <2>3. \A p \in asPlaced : p[1] - asBase + 1 <= Len(S) /\ S[p[1] - asBase + 1] = p[2]
    <3>1. Len(S) \in Nat
      BY <1>1 DEF AsHolds
    <3> QED
      BY <1>1, <3>1 DEF AsWritten
  <2>4. \A k \in 1..Len(S) : S[k] = "0" \/ <<asBase + k - 1, S[k]>> \in asPlaced
    BY <1>1 DEF AsWritten
  <2> QED
    BY <2>2, <2>3, <2>4 DEF AsImageRight
<1>4. AsReferencesHold
  BY DEF AsInv, AsFixed, AsReferencesHold
<1> QED
  BY <1>2, <1>3, <1>4 DEF AsOutputRight

\* What the assembler writes is right.
LEMMA AsmRight == (AsStart \/ AsOff) /\ [][AsStep]_asVars => [](AsTypeOK /\ AsOutputRight)
<1>1. AsStart \/ AsOff => AsInv
  BY AsInitial
<1>2. AsInv /\ [AsStep]_asVars => AsInv'
  BY AsStaysRight
<1>3. AsInv => AsTypeOK /\ AsOutputRight
  BY AsEndsRight
<1> QED
  BY <1>1, <1>2, <1>3, PTL

-----------------------------------------------------------------------------
(***************************************************************************)
(* A transfer                                                              *)
(***************************************************************************)
XmBlock == [1..DataLen -> Byte]

\* The counters are below their limits where they are used.
XmInv ==
  /\ XmTypeOK
  /\ tx.pc \in {"open", "wait"} => tx.naks < NakLimit
  /\ rx.pc = "data" => Len(rx.buf) < DataLen
  /\ rx.pc = "sum" => Len(rx.buf) = DataLen

\* What the assumptions say of the bytes and the counters of a transfer.
LEMMA XmConstants ==
  /\ Bytes \in Nat /\ Bytes > 1 /\ DataLen \in Nat \ {0} /\ NakLimit \in Nat \ {0}
  /\ UartDepth \in Nat \ {0} /\ LineDepth \in Nat /\ MaxFaults \in Nat
  /\ {SOH, EOT, ACK, NAK, CAN} \subseteq Byte /\ Garbage \subseteq Byte
  /\ \A f \in SentFiles : f \in Seq(XmBlock)
BY XmByteAssumption, XmSizeAssumption, XmFileAssumption, XmTroubleAssumption DEF Control, XmBlock

\* The computations of the protocol stay in a byte.
LEMMA XmByte ==
  /\ 0 \in Byte /\ 1 \in Byte /\ Byte \subseteq Nat
  /\ \A b, c \in Byte : (b + c) % Bytes \in Byte /\ (b + 1) % Bytes \in Byte
  /\ \A b \in Byte : Complement(b) \in Byte
BY XmConstants DEF Byte, Complement

\* So does the checksum, over every prefix of the block.
LEMMA XmChecksum ==
  ASSUME NEW data \in XmBlock
  PROVE  Checksum(data) \in Byte
<1> DEFINE F == [pk \in Byte \X (1..DataLen) |-> (pk[1] + data[pk[2]]) % Bytes]
           Body(s) == [i \in 0..DataLen |-> IF i = 0 THEN 0 ELSE (s[i - 1] + data[i]) % Bytes]
           w == CHOOSE s : s = Body(s)
<1>1. DataLen \in Nat /\ DataLen \in 0..DataLen /\ \A i \in 1..DataLen : data[i] \in Byte
  BY XmConstants DEF XmBlock
<1>2. \A b, c \in Byte : (b + c) % Bytes \in Byte
  BY XmByte
<1>3. F \in [Byte \X (1..DataLen) -> Byte]
  <2> HIDE DEF XmBlock
  <2> QED
    BY <1>1, <1>2
<1>4. PICK u : Recursive(u, Byte, 0, DataLen, F)
  <2> HIDE DEF F
  <2> QED
    BY <1>1, <1>3, XmByte, PrimRec
<1>5. u[0] = 0 /\ u \in [0..DataLen -> Byte] /\ \A i \in 1..DataLen : u[i] = (u[i - 1] + data[i]) % Bytes
  <2>1. u[0] = 0 /\ u \in [0..DataLen -> Byte] /\ \A k \in 1..DataLen : u[k] = F[<<u[k - 1], k>>]
    BY <1>4 DEF Recursive
  <2>2. \A k \in 1..DataLen : u[k - 1] \in Byte
    BY <1>1, <2>1
  <2> QED
    BY <2>1, <2>2
<1>6. u = Body(u)
  BY <1>1, <1>5
<1>7. w = Body(w)
  <2> HIDE DEF Body
  <2> QED
    BY <1>6, Zenon
<1>8. Checksum(data) = w[DataLen]
  BY Zenon DEF Checksum
<1> HIDE DEF w
<1>9. w[0] = 0 /\ \A k \in 1..DataLen : w[k] = (w[k - 1] + data[k]) % Bytes
  BY <1>1, <1>7
<1> DEFINE G == {k \in 0..DataLen : w[k] \in Byte}
<1>10. 0 \in G
  BY <1>1, <1>9, XmByte
<1>11. \A k \in 1..DataLen : k - 1 \in G => k \in G
  BY <1>1, <1>2, <1>9
<1>12. 0..DataLen \subseteq G
  <2> HIDE DEF G
  <2> QED
    BY <1>1, <1>10, <1>11, UpTo
<1> QED
  BY <1>1, <1>8, <1>12

\* A packet is a sequence of bytes.
LEMMA XmPacket ==
  ASSUME NEW b \in Byte, NEW data \in XmBlock
  PROVE  Packet(b, data) \in Seq(Byte)
<1>1. data \in Seq(Byte)
  BY XmConstants DEF XmBlock
<1>2. SOH \in Byte /\ Complement(b) \in Byte /\ Checksum(data) \in Byte
  BY XmConstants, XmByte, XmChecksum
<1>3. <<SOH, b, Complement(b)>> \in Seq(Byte) /\ <<Checksum(data)>> \in Seq(Byte)
  BY <1>2
<1>4. <<SOH, b, Complement(b)>> \o data \in Seq(Byte)
  BY <1>1, <1>3, ConcatProperties
<1>5. (<<SOH, b, Complement(b)>> \o data) \o <<Checksum(data)>> \in Seq(Byte)
  BY <1>3, <1>4, ConcatProperties
<1> QED
  BY <1>5 DEF Packet

\* The line takes bytes, and gives them.
LEMMA XmPut ==
  ASSUME XmInv, NEW bytes \in Seq(Byte), Put(bytes)
  PROVE  toRx' \in Seq(Byte)
<1>1. toRx \in Seq(Byte)
  BY DEF XmInv, XmTypeOK
<1>2. toRx \o bytes \in Seq(Byte)
  BY <1>1, ConcatProperties
<1>3. <<>> \in Seq(Byte)
  OBVIOUS
<1> QED
  BY <1>2, <1>3 DEF Put

\* A byte is taken from the line.
LEMMA XmTaken ==
  ASSUME NEW s \in Seq(Byte), s # <<>>
  PROVE  Head(s) \in Byte /\ Tail(s) \in Seq(Byte)
OBVIOUS

\* The receiver's buffer is a block wherever reading stops.
LEMMA XmReadInto ==
  ASSUME XmInv, NEW n \in Nat
  PROVE  ReadInto(n) \in XmBlock
<1>1. sent \in Seq(XmBlock) /\ tx.buf \in XmBlock
  <2>1. sent \in SentFiles \/ sent = <<>>
    BY DEF XmInv, XmTypeOK
  <2>2. <<>> \in Seq(XmBlock)
    OBVIOUS
  <2>3. tx.buf \in XmBlock
    BY DEF XmInv, XmTypeOK, XmBlock
  <2> QED
    BY <2>1, <2>2, <2>3, XmConstants
<1>2. Len(sent) \in Nat /\ \A k \in 1..Len(sent) : sent[k] \in XmBlock
  <2> HIDE DEF XmBlock
  <2> QED
    BY <1>1
<1>3. n < Len(sent) => n + 1 \in 1..Len(sent)
  BY <1>2
<1> QED
  BY <1>1, <1>2, <1>3 DEF ReadInto

XmTx == [pc : TxPlace, buf : XmBlock, block : Byte, read : Nat, naks : 0..NakLimit]
XmRx == [pc : RxPlace, outp : {ACK, NAK}, exp : Byte, cnt : Byte, inp : Byte, buf : Seq(Byte), sum : Byte]

\* What the invariant says of the single variables.
LEMMA XmParts ==
  ASSUME XmInv
  PROVE  tx \in XmTx /\ rx \in XmRx /\ toRx \in Seq(Byte) /\ toTx \in Seq(Byte) /\ got \in Seq(XmBlock)
BY DEF XmInv, XmTypeOK, XmTx, XmRx, XmBlock

\* xmodem_send.
LEMMA XmTxStep ==
  ASSUME XmInv, TxNext \/ TxKey
  PROVE  XmInv'
<1>1. /\ UNCHANGED <<trouble, sent, dirSlot, rx, got, faults>>
  BY DEF TxNext, TxOpen, TxNak, TxAck, TxOther, TxKey
<1>2. tx \in XmTx /\ rx \in XmRx /\ toRx \in Seq(Byte) /\ toTx \in Seq(Byte) /\ NakLimit \in Nat \ {0}
  BY XmParts, XmConstants
<1>3. SUFFICES /\ toRx' \in Seq(Byte) /\ toTx' \in Seq(Byte) /\ tx' \in XmTx
               /\ tx'.pc \in {"open", "wait"} => tx'.naks < NakLimit
  BY <1>1 DEF XmInv, XmTypeOK, XmTx, XmBlock
<1>4. tx.buf \in XmBlock /\ tx.block \in Byte /\ tx.read \in Nat /\ tx.naks \in 0..NakLimit
  BY <1>2 DEF XmTx
<1>5. toTx # <<>> => Tail(toTx) \in Seq(Byte)
  BY <1>2, XmTaken
<1>6. tx.pc = "wait" => tx.naks < NakLimit
  BY DEF XmInv
<1>7. CASE TxOpen
  <2>1. ReadInto(0) \in XmBlock
    BY XmReadInto
  <2>2. toRx' = toRx /\ toTx' = toTx
    BY <1>7 DEF TxOpen
  <2>3. CASE dirSlot = 0
    <3>1. tx' = [tx EXCEPT !.pc = "wait", !.buf = ReadInto(0), !.read = 1]
      BY <1>7, <2>3 DEF TxOpen
    <3>2. tx' \in XmTx
      BY <1>2, <2>1, <3>1 DEF XmTx, TxPlace
    <3>3. tx'.naks < NakLimit
      <4>1. tx.naks < NakLimit
        BY <1>7 DEF TxOpen, XmInv
      <4> QED
        BY <1>2, <3>1, <4>1 DEF XmTx
    <3> QED
      BY <1>2, <2>2, <3>2, <3>3
  <2>4. CASE dirSlot # 0
    <3>1. tx' = [tx EXCEPT !.pc = "refused"]
      BY <1>7, <2>4 DEF TxOpen
    <3>2. tx' \in XmTx /\ tx'.pc = "refused"
      BY <1>2, <3>1 DEF XmTx, TxPlace
    <3> QED
      BY <1>2, <2>2, <3>2
  <2> QED
    BY <2>3, <2>4
<1>8. CASE TxNak
  <2>1. tx.pc = "wait" /\ toTx' = Tail(toTx) /\ toTx # <<>>
    BY <1>8 DEF TxNak
  <2>2. Packet(tx.block, tx.buf) \in Seq(Byte) /\ Packet(tx.block, tx.buf) \o <<CAN>> \in Seq(Byte)
    <3>1. Packet(tx.block, tx.buf) \in Seq(Byte)
      BY <1>4, XmPacket
    <3>2. <<CAN>> \in Seq(Byte)
      BY XmConstants
    <3> QED
      BY <3>1, <3>2, ConcatProperties
  <2>3. toRx' \in Seq(Byte)
    BY <1>8, <2>2, XmPut DEF TxNak
  <2>4. CASE tx.naks + 1 = NakLimit
    <3>1. tx' = [tx EXCEPT !.naks = NakLimit, !.pc = "aborted"]
      BY <1>8, <2>4 DEF TxNak
    <3>2. tx' \in XmTx /\ tx'.pc = "aborted"
      <4>1. NakLimit \in 0..NakLimit
        BY <1>2
      <4> QED
        BY <1>2, <3>1, <4>1 DEF XmTx, TxPlace
    <3> QED
      BY <1>5, <2>1, <2>3, <3>2
  <2>5. CASE tx.naks + 1 # NakLimit
    <3>1. tx' = [tx EXCEPT !.naks = @ + 1]
      BY <1>8, <2>5 DEF TxNak
    <3>2. tx.naks + 1 \in 0..NakLimit /\ tx.naks + 1 < NakLimit
      BY <1>2, <1>4, <1>6, <2>1, <2>5
    <3>3. tx' \in XmTx /\ tx'.naks = tx.naks + 1
      BY <1>2, <3>1, <3>2 DEF XmTx
    <3> QED
      BY <1>5, <2>1, <2>3, <3>2, <3>3
  <2> QED
    BY <2>4, <2>5
<1>9. CASE TxAck
  <2>1. tx.pc = "wait" /\ toTx' = Tail(toTx) /\ toTx # <<>>
    BY <1>9 DEF TxAck
  <2>2. CASE tx.read >= Len(sent)
    <3>1. Put(<<EOT>>) /\ tx' = [tx EXCEPT !.pc = "sent"]
      BY <1>9, <2>2 DEF TxAck
    <3>2. <<EOT>> \in Seq(Byte)
      BY XmConstants
    <3>3. toRx' \in Seq(Byte)
      BY <3>1, <3>2, XmPut
    <3>4. tx' \in XmTx /\ tx'.pc = "sent"
      BY <1>2, <3>1 DEF XmTx, TxPlace
    <3> QED
      BY <1>5, <2>1, <3>3, <3>4
  <2>3. CASE ~(tx.read >= Len(sent))
    <3>1. PICK n, d : n = (tx.block + 1) % Bytes /\ d = ReadInto(tx.read)
      OBVIOUS
    <3>2. Put(Packet(n, d)) /\ tx' = [tx EXCEPT !.block = n, !.buf = d, !.read = @ + 1]
      BY <1>9, <2>3, <3>1 DEF TxAck
    <3>3. n \in Byte /\ d \in XmBlock
      <4>1. (tx.block + 1) % Bytes \in Byte
        BY <1>4, XmByte
      <4> QED
        BY <1>4, <3>1, <4>1, XmReadInto
    <3>4. toRx' \in Seq(Byte)
      BY <3>2, <3>3, XmPacket, XmPut
    <3>5. tx' \in XmTx /\ tx'.naks = tx.naks /\ tx'.pc = tx.pc
      <4>1. PICK m : m = tx.read + 1
        OBVIOUS
      <4>2. m \in Nat
        BY <1>4, <4>1
      <4>3. tx' = [tx EXCEPT !.block = n, !.buf = d, !.read = m]
        BY <1>2, <3>2, <4>1 DEF XmTx
      <4> QED
        BY <1>2, <3>3, <4>2, <4>3 DEF XmTx
    <3> QED
      BY <1>5, <1>6, <2>1, <3>4, <3>5
  <2> QED
    BY <2>2, <2>3
<1>10. CASE TxOther
  BY <1>2, <1>5, <1>6, <1>10 DEF TxOther
<1>11. CASE TxKey
  <2>1. Put(<<CAN>>) /\ tx' = [tx EXCEPT !.pc = "aborted"] /\ toTx' = toTx
    BY <1>11 DEF TxKey
  <2>2. <<CAN>> \in Seq(Byte)
    BY XmConstants
  <2>3. toRx' \in Seq(Byte)
    BY <2>1, <2>2, XmPut
  <2>4. tx' \in XmTx /\ tx'.pc = "aborted"
    BY <1>2, <2>1 DEF XmTx, TxPlace
  <2> QED
    BY <1>2, <2>1, <2>3, <2>4
<1> QED
  BY <1>7, <1>8, <1>9, <1>10, <1>11 DEF TxNext

\* xmodem_receive.
LEMMA XmRxStep ==
  ASSUME XmInv, RxNext \/ RxKey
  PROVE  XmInv'
<1>1. UNCHANGED <<trouble, sent, dirSlot, tx, faults>>
  BY ZenonT(30) DEF RxNext, RxAnswer, RxHeader, RxHeaderTimeout, RxNumber, RxInverse, RxData, RxSum, RxKey
<1>2. /\ tx \in XmTx /\ rx \in XmRx /\ toRx \in Seq(Byte) /\ toTx \in Seq(Byte) /\ got \in Seq(XmBlock)
      /\ DataLen \in Nat \ {0} /\ ACK \in Byte /\ NAK \in Byte
  BY XmParts, XmConstants
<1>3. SUFFICES /\ toRx' \in Seq(Byte) /\ toTx' \in Seq(Byte) /\ got' \in Seq(XmBlock) /\ rx' \in XmRx
               /\ Len(rx'.buf) <= DataLen
               /\ rx'.pc = "data" => Len(rx'.buf) < DataLen
               /\ rx'.pc = "sum" => Len(rx'.buf) = DataLen
  BY <1>1 DEF XmInv, XmTypeOK, XmRx, XmBlock
<1>4. /\ rx.buf \in Seq(Byte) /\ Len(rx.buf) <= DataLen /\ Len(rx.buf) \in Nat
      /\ (rx.pc = "data" => Len(rx.buf) < DataLen) /\ (rx.pc = "sum" => Len(rx.buf) = DataLen)
      /\ rx.exp \in Byte /\ rx.sum \in Byte /\ rx.outp \in {ACK, NAK}
  BY <1>2 DEF XmInv, XmTypeOK, XmRx
<1>5. \A b \in Byte : Arrives(b) \/ NothingComes => toRx' \in Seq(Byte)
  BY <1>2, XmTaken DEF Arrives, NothingComes
<1>6. \A b \in Byte : Answered(b) \in Seq(Byte)
  BY <1>2 DEF Answered
<1>7. ASSUME toRx' \in Seq(Byte), toTx' \in Seq(Byte), got' = got, rx' \in XmRx, rx'.buf = rx.buf,
             rx'.pc \notin {"data", "sum"}
      PROVE  /\ toRx' \in Seq(Byte) /\ toTx' \in Seq(Byte) /\ got' \in Seq(XmBlock) /\ rx' \in XmRx
             /\ Len(rx'.buf) <= DataLen
             /\ rx'.pc = "data" => Len(rx'.buf) < DataLen
             /\ rx'.pc = "sum" => Len(rx'.buf) = DataLen
  BY <1>2, <1>4, <1>7
<1>8. CASE RxAnswer
  <2>1. toTx' \in Seq(Byte) /\ toRx' = toRx /\ got' = got /\ rx' = [rx EXCEPT !.pc = "header"]
    BY <1>2, <1>4, <1>6, <1>8 DEF RxAnswer
  <2>2. rx' \in XmRx /\ rx'.buf = rx.buf /\ rx'.pc = "header"
    BY <1>2, <2>1 DEF XmRx, RxPlace
  <2> QED
    BY <1>2, <1>7, <2>1, <2>2
<1>9. CASE RxHeader
  <2>1. PICK b \in {toRx[i] : i \in 1..Len(toRx)} :
          /\ Arrives(b) /\ got' = got /\ (toTx' = toTx \/ toTx' = Answered(ACK))
          /\ \/ \E p \in {"done", "cancelled", "answer"} : rx' = [rx EXCEPT !.pc = p, !.inp = b]
             \/ rx' = [rx EXCEPT !.pc = "number", !.inp = b, !.outp = NAK, !.sum = 0]
    BY <1>9, ZenonT(30) DEF RxHeader
  <2>2. b \in Byte
    BY <1>2, <2>1
  <2>3. rx' \in XmRx /\ rx'.buf = rx.buf /\ rx'.pc \notin {"data", "sum"}
    BY <1>2, <2>1, <2>2, XmByte, ZenonT(30) DEF XmRx, RxPlace
  <2>4. toRx' \in Seq(Byte) /\ toTx' \in Seq(Byte)
    BY <1>2, <1>5, <1>6, <2>1, <2>2
  <2> QED
    BY <1>7, <2>1, <2>3, <2>4
<1>10. CASE RxHeaderTimeout
  <2>1. toTx' = toTx /\ toRx' = toRx /\ got' = got /\ rx' = [rx EXCEPT !.pc = "answer"]
    BY <1>10 DEF RxHeaderTimeout, HeaderTimesOut
  <2>2. rx' \in XmRx /\ rx'.buf = rx.buf /\ rx'.pc = "answer"
    BY <1>2, <2>1 DEF XmRx, RxPlace
  <2> QED
    BY <1>2, <1>7, <2>1, <2>2
<1>11. CASE RxNumber
  <2>1. PICK b \in Byte : (Arrives(b) \/ NothingComes) /\ rx' = [rx EXCEPT !.pc = "inverse", !.inp = b, !.cnt = b]
    BY <1>11 DEF RxNumber
  <2>2. rx' \in XmRx /\ rx'.buf = rx.buf /\ rx'.pc = "inverse"
    BY <1>2, <2>1 DEF XmRx, RxPlace
  <2>3. toTx' = toTx /\ got' = got
    BY <1>11 DEF RxNumber
  <2> QED
    BY <1>2, <1>5, <1>7, <2>1, <2>2, <2>3
<1>12. CASE RxInverse
  <2>1. PICK b \in Byte : (Arrives(b) \/ NothingComes)
                            /\ \/ rx' = [rx EXCEPT !.pc = "data", !.inp = b, !.buf = <<>>]
                               \/ rx' = [rx EXCEPT !.pc = "answer", !.inp = b]
    BY <1>12, ZenonT(30) DEF RxInverse
  <2>2. toTx' = toTx /\ got' = got /\ toRx' \in Seq(Byte)
    BY <1>5, <1>12, <2>1 DEF RxInverse
  <2>3. CASE rx' = [rx EXCEPT !.pc = "answer", !.inp = b]
    <3>1. rx' \in XmRx /\ rx'.buf = rx.buf /\ rx'.pc = "answer"
      BY <1>2, <2>3 DEF XmRx, RxPlace
    <3> QED
      BY <1>2, <1>7, <2>2, <3>1
  <2>4. CASE rx' = [rx EXCEPT !.pc = "data", !.inp = b, !.buf = <<>>]
    <3>1. <<>> \in Seq(Byte) /\ Len(<<>>) = 0
      OBVIOUS
    <3>2. rx' \in XmRx /\ rx'.buf = <<>> /\ rx'.pc = "data"
      BY <1>2, <2>4, <3>1 DEF XmRx, RxPlace
    <3> QED
      BY <1>2, <2>2, <3>1, <3>2
  <2> QED
    BY <2>1, <2>3, <2>4
<1>13. CASE RxData
  <2>1. PICK b \in Byte : (Arrives(b) \/ NothingComes)
                            /\ rx' = [rx EXCEPT !.inp = b, !.buf = Append(@, b), !.sum = (@ + b) % Bytes,
                                                !.pc = IF Len(rx.buf) + 1 = DataLen THEN "sum" ELSE "data"]
    BY <1>13 DEF RxData
  <2>2. toTx' = toTx /\ got' = got /\ toRx' \in Seq(Byte) /\ rx.pc = "data"
    BY <1>5, <1>13, <2>1 DEF RxData
  <2>3. Append(rx.buf, b) \in Seq(Byte) /\ Len(Append(rx.buf, b)) = Len(rx.buf) + 1
    BY <1>4
  <2>4. (rx.sum + b) % Bytes \in Byte
    BY <1>4, XmByte
  <2>5. PICK buf, sum, place : /\ buf = Append(rx.buf, b) /\ sum = (rx.sum + b) % Bytes
                               /\ place = IF Len(rx.buf) + 1 = DataLen THEN "sum" ELSE "data"
    OBVIOUS
  <2>6. rx' = [rx EXCEPT !.inp = b, !.buf = buf, !.sum = sum, !.pc = place]
    BY <1>2, <2>1, <2>5 DEF XmRx
  <2>7. rx' \in XmRx /\ rx'.buf = buf /\ rx'.pc = place
    BY <1>2, <2>3, <2>4, <2>5, <2>6, ZenonT(30) DEF XmRx, RxPlace
  <2>8. Len(buf) = Len(rx.buf) + 1 /\ Len(rx.buf) < DataLen
    BY <1>4, <2>2, <2>3, <2>5
  <2> QED
    BY <1>2, <1>4, <2>2, <2>5, <2>7, <2>8
<1>14. CASE RxSum
  <2>1. PICK b \in Byte : (Arrives(b) \/ NothingComes)
                            /\ rx' = [rx EXCEPT !.pc = "answer", !.inp = b, !.buf = <<>>, !.exp = (@ + 1) % Bytes,
                                                !.outp = IF rx.sum = b THEN ACK ELSE NAK]
                            /\ got' \in {got, Append(got, rx.buf)}
    BY <1>14 DEF RxSum
  <2>2. toTx' = toTx /\ toRx' \in Seq(Byte) /\ rx.pc = "sum"
    BY <1>5, <1>14, <2>1 DEF RxSum
  <2>3. rx.buf \in XmBlock
    BY <1>4, <2>2 DEF XmBlock
  <2>4. got' \in Seq(XmBlock)
    <3>1. PICK x \in XmBlock : x = rx.buf
      BY <2>3
    <3> HIDE DEF XmBlock
    <3>2. Append(got, x) \in Seq(XmBlock)
      BY <1>2
    <3> QED
      BY <1>2, <2>1, <3>1, <3>2
  <2>5. (rx.exp + 1) % Bytes \in Byte
    BY <1>4, XmByte
  <2>6. <<>> \in Seq(Byte) /\ Len(<<>>) = 0
    OBVIOUS
  <2>7. PICK exp, outp : exp = (rx.exp + 1) % Bytes /\ outp = IF rx.sum = b THEN ACK ELSE NAK
    OBVIOUS
  <2>8. rx' = [rx EXCEPT !.pc = "answer", !.inp = b, !.buf = <<>>, !.exp = exp, !.outp = outp]
    BY <1>2, <2>1, <2>7 DEF XmRx
  <2>9. outp \in {ACK, NAK} /\ exp \in Byte
    BY <2>5, <2>7
  <2>10. rx' \in XmRx /\ rx'.buf = <<>> /\ rx'.pc = "answer"
    BY <1>2, <2>6, <2>8, <2>9 DEF XmRx, RxPlace
  <2> QED
    BY <1>2, <2>2, <2>4, <2>6, <2>10
<1>15. CASE RxKey
  <2>1. toTx' = toTx /\ toRx' = toRx /\ got' = got /\ rx' = [rx EXCEPT !.pc = "closed"]
    BY <1>15 DEF RxKey
  <2>2. rx' \in XmRx /\ rx'.buf = rx.buf /\ rx'.pc = "closed"
    BY <1>2, <2>1 DEF XmRx, RxPlace
  <2> QED
    BY <1>2, <1>7, <2>1, <2>2
<1> QED
  BY <1>8, <1>9, <1>10, <1>11, <1>12, <1>13, <1>14, <1>15 DEF RxNext

\* The line.
LEMMA XmNoise ==
  ASSUME XmInv, Noise
  PROVE  XmInv'
<1>1. UNCHANGED <<trouble, sent, dirSlot, tx, rx, got>> /\ faults' \in 0..MaxFaults
  BY XmConstants, SMTT(30) DEF Noise, XmInv, XmTypeOK
<1>2. toRx \in Seq(Byte) /\ toTx \in Seq(Byte)
  BY XmParts
<1>3. ASSUME NEW s \in Seq(Byte), NEW i \in 1..Len(s)
      PROVE  Without(s, i) \in Seq(Byte)
  <2>1. SubSeq(s, 1, i - 1) \in Seq(Byte) /\ SubSeq(s, i + 1, Len(s)) \in Seq(Byte)
    BY <1>3
  <2> QED
    BY <2>1, ConcatProperties DEF Without
<1>4. ASSUME NEW s \in Seq(Byte), NEW i \in 1..Len(s), NEW b \in Garbage
      PROVE  [s EXCEPT ![i] = b] \in Seq(Byte)
  <2>1. b \in Byte
    BY XmConstants
  <2> QED
    BY <2>1
<1>5. toRx' \in Seq(Byte) /\ toTx' \in Seq(Byte)
  BY <1>2, <1>3, <1>4, ZenonT(30) DEF Noise
<1> QED
  BY <1>1, <1>5 DEF XmInv, XmTypeOK

\* The invariant of a transfer holds at its start.
LEMMA XmInitial == XmStart \/ XmOff => XmInv
<1> SUFFICES ASSUME XmStart \/ XmOff PROVE XmInv
  OBVIOUS
<1>1. trouble \in Troubles \cup {{}} /\ sent \in SentFiles \cup {<<>>} /\ dirSlot \in 0..3
  BY DEF XmStart, XmOff
<1>2. PICK txAt \in {"open", "off"}, rxAt \in {"start", "off"} : XmNow(txAt, rxAt)
  BY DEF XmStart, XmOff
<1>3. Zeroes \in XmBlock
  BY XmByte DEF Zeroes, XmBlock
<1>4. <<>> \in Seq(Byte) /\ <<>> \in Seq(XmBlock) /\ Len(<<>>) = 0
  OBVIOUS
<1>5. tx \in XmTx /\ tx.pc = txAt
  BY <1>2, <1>3, XmByte, XmConstants DEF XmNow, XmTx, TxPlace
<1>6. rx \in XmRx /\ rx.pc = rxAt /\ rx.buf = <<>>
  BY <1>2, <1>4, XmByte, XmConstants DEF XmNow, XmRx, RxPlace
<1>7. toRx \in Seq(Byte) /\ toTx \in Seq(Byte) /\ got \in Seq(XmBlock) /\ faults \in 0..MaxFaults
  BY <1>2, <1>4, XmConstants DEF XmNow
<1> QED
  <2>1. Len(rx.buf) <= DataLen /\ rx.pc \notin {"data", "sum"}
    BY <1>4, <1>6, XmConstants
  <2>2. tx.naks < NakLimit
    BY <1>2, XmConstants DEF XmNow
  <2> QED
    BY <1>1, <1>5, <1>6, <1>7, <2>1, <2>2 DEF XmInv, XmTypeOK, XmTx, XmRx, XmBlock

\* The transfer alone: types.
LEMMA TransferTyped == (XmStart \/ XmOff) /\ [][XmNext]_xmVars => []XmTypeOK
<1>1. XmStart \/ XmOff => XmInv
  BY XmInitial
<1>2. XmInv /\ [XmNext]_xmVars => XmInv'
  <2> SUFFICES ASSUME XmInv, [XmNext]_xmVars PROVE XmInv'
    OBVIOUS
  <2>1. CASE UNCHANGED xmVars
    BY <2>1 DEF xmVars, XmInv, XmTypeOK
  <2> QED
    BY <2>1, XmTxStep, XmRxStep, XmNoise DEF XmNext
<1>3. XmInv => XmTypeOK
  BY DEF XmInv
<1> QED
  BY <1>1, <1>2, <1>3, PTL

\* Between a packet and the next answer nothing else is under way, as long as the line
\* neither delays nor spoils what it carries.
XmSound == trouble \cap {"slow", "noise"} = {} /\ sent # <<>>

\* The checksums of a block's beginnings.
XmSums(data) == CHOOSE s \in [0..DataLen -> Byte] :
  s[0] = 0 /\ \A k \in 1..DataLen : s[k] = (s[k - 1] + data[k]) % Bytes

\* g are the first n blocks of s, or some of them in their order if the disk may be full.
XmKept(g, s, t, n) ==
  /\ \E f \in [1..Len(g) -> 1..n] : /\ \A i \in 1..Len(g) : g[i] = s[f[i]]
                                    /\ \A i, j \in 1..Len(g) : i < j => f[i] < f[j]
  /\ "full" \notin t => Len(g) = n /\ \A i \in 1..n : g[i] = s[i]
XmKeeps(n) == XmKept(got, sent, trouble, n)

\* What is left of s when the first n are gone.
XmFrom(s, n) == SubSeq(s, n + 1, Len(s))

\* What a sender that gives up puts behind its last packet.
XmLast == IF tx.pc = "aborted" THEN <<CAN>> ELSE <<>>

\* The sender has read blocks 1 to tx.read.
XmSending ==
  /\ tx.pc \in {"wait", "sent", "aborted"}
  /\ tx.read \in 1..Len(sent) /\ tx.block = tx.read /\ tx.buf = sent[tx.read]

XmOpening ==
  /\ tx.pc = "open" /\ tx.read = 0 /\ tx.block = 1
  /\ rx.pc \in {"start", "header"} /\ rx.outp = NAK /\ rx.exp = 1
  /\ toRx = <<>> /\ toTx \in {<<>>, <<NAK>>} /\ (rx.pc = "start" => toTx = <<>>)
  /\ got = <<>>

\* Nothing has been sent, and nothing will be.
XmRefused ==
  tx.pc = "refused" /\ toRx = <<>> /\ got = <<>> /\ rx.pc \in {"start", "answer", "header"}

\* The receiver waits for a block, and says so again and again.
XmAsking ==
  /\ XmSending /\ tx.pc # "sent" /\ rx.exp = tx.read /\ rx.outp = NAK
  /\ rx.pc \in {"start", "answer", "header"}
  /\ toRx = XmLast
  /\ tx.pc = "wait" => toTx \in {<<>>, <<NAK>>} /\ (rx.pc # "header" => toTx = <<>>)
  /\ XmKeeps(tx.read - 1)

\* The block is under way: what has been taken of its packet, and what is to come.
XmUnderWay ==
  /\ XmSending /\ tx.pc # "sent" /\ rx.exp = tx.read
  /\ tx.pc = "wait" => toTx = <<>>
  /\ XmKeeps(tx.read - 1)
  /\ LET whole == Packet(tx.block, tx.buf) \o XmLast IN
     \/ rx.pc = "header" /\ toRx = XmFrom(whole, 0)
     \/ rx.pc = "number" /\ toRx = XmFrom(whole, 1) /\ rx.sum = 0
     \/ rx.pc = "inverse" /\ toRx = XmFrom(whole, 2) /\ rx.sum = 0 /\ rx.cnt = tx.block
     \/ /\ rx.pc \in {"data", "sum"} /\ toRx = XmFrom(whole, Len(rx.buf) + 3)
        /\ rx.sum = XmSums(tx.buf)[Len(rx.buf)]
        /\ \A i \in 1..Len(rx.buf) : rx.buf[i] = tx.buf[i]

\* The block has been stored, and the receiver says so again and again.
XmAnswering ==
  /\ XmSending /\ rx.exp = (tx.read + 1) % Bytes /\ rx.outp = ACK
  /\ rx.pc \in {"answer", "header"}
  /\ IF tx.pc = "sent" THEN toRx = <<EOT>> /\ rx.pc = "header" /\ tx.read = Len(sent)
                       ELSE toRx = XmLast
  /\ tx.pc = "wait" => toTx \in {<<>>, <<ACK>>} /\ (rx.pc # "header" => toTx = <<>>)
  /\ XmKeeps(tx.read)

\* The receiver has returned.
XmOver ==
  /\ rx.pc \in RxEnd /\ InOrder(got, sent)
  /\ rx.pc = "done" /\ "full" \notin trouble => got = sent

XmLine == XmOpening \/ XmRefused \/ XmAsking \/ XmUnderWay \/ XmAnswering \/ XmOver

\* The first bytes of a sequence are taken one by one.
LEMMA XmFromIs ==
  ASSUME NEW s \in Seq(Byte), NEW n \in 0..Len(s) - 1
  PROVE  XmFrom(s, n) # <<>> /\ Head(XmFrom(s, n)) = s[n + 1] /\ Tail(XmFrom(s, n)) = XmFrom(s, n + 1)
<1>1. Len(s) \in Nat
  OBVIOUS
<1>2. Len(XmFrom(s, n)) = Len(s) - n /\ Len(XmFrom(s, n + 1)) = Len(s) - n - 1
  BY <1>1 DEF XmFrom
<1>3. \A i \in 1..Len(s) - n : XmFrom(s, n)[i] = s[i + n]
  BY <1>1 DEF XmFrom
<1>4. \A i \in 1..Len(s) - n - 1 : XmFrom(s, n + 1)[i] = s[i + n + 1]
  BY <1>1 DEF XmFrom
<1>5. XmFrom(s, n) \in Seq(Byte) /\ XmFrom(s, n + 1) \in Seq(Byte)
  BY <1>1 DEF XmFrom
<1>6. PICK t, u \in Seq(Byte) : t = XmFrom(s, n) /\ u = XmFrom(s, n + 1)
  BY <1>5
<1>7. /\ Len(t) = Len(s) - n /\ Len(u) = Len(s) - n - 1 /\ Len(s) - n >= 1
      /\ \A i \in 1..Len(s) - n : t[i] = s[i + n]
      /\ \A i \in 1..Len(s) - n - 1 : u[i] = s[i + n + 1]
  BY <1>1, <1>2, <1>3, <1>4, <1>6
<1>8. t # <<>> /\ Head(t) = s[n + 1]
  <2>1. 1 \in 1..Len(s) - n /\ 1 + n = n + 1
    BY ONLY <1>1, <1>7, n \in 0..Len(s) - 1
  <2>2. t[1] = s[n + 1]
    BY ONLY <1>7, <2>1
  <2>3. t # <<>>
    BY ONLY <1>7, EmptySeq, t \in Seq(Byte)
  <2> QED
    BY ONLY <2>2, <2>3, HeadTailProperties, t \in Seq(Byte)
<1>9. Tail(t) \in Seq(Byte) /\ Len(Tail(t)) = Len(u) /\ \A i \in 1..Len(u) : Tail(t)[i] = t[i + 1]
  BY <1>1, <1>7, <1>8
<1>10. ASSUME NEW i \in 1..Len(u)
       PROVE  t[i + 1] = u[i]
  <2>1. i + 1 \in 1..Len(s) - n /\ i \in 1..Len(s) - n - 1 /\ i + 1 + n = i + n + 1
    BY <1>1, <1>7
  <2> QED
    BY ONLY <1>7, <2>1
<1>11. Tail(t) = u
  BY ONLY <1>9, <1>10, u \in Seq(Byte), SeqEqual
<1> QED
  BY <1>6, <1>8, <1>11

\* Nothing is left of a sequence that has been taken, all of one that has not.
LEMMA XmFromEnds ==
  ASSUME NEW s \in Seq(Byte)
  PROVE  XmFrom(s, 0) = s /\ XmFrom(s, Len(s)) = <<>>
<1>1. Len(s) \in Nat
  OBVIOUS
<1>2. XmFrom(s, 0) \in Seq(Byte) /\ Len(XmFrom(s, 0)) = Len(s) /\ \A i \in 1..Len(s) : XmFrom(s, 0)[i] = s[i]
  BY <1>1 DEF XmFrom
<1>3. XmFrom(s, 0) = s
  BY ONLY <1>2, s \in Seq(Byte), SeqEqual
<1>4. XmFrom(s, Len(s)) = <<>>
  BY <1>1 DEF XmFrom
<1> QED
  BY <1>3, <1>4

\* What is put on the line comes behind what is left.
LEMMA XmFromMore ==
  ASSUME NEW s \in Seq(Byte), NEW n \in 0..Len(s), NEW e \in Seq(Byte)
  PROVE  XmFrom(s, n) \o e = XmFrom(s \o e, n)
<1>1. Len(s) \in Nat /\ Len(e) \in Nat
  OBVIOUS
<1>2. s \o e \in Seq(Byte) /\ Len(s \o e) = Len(s) + Len(e)
      /\ \A i \in 1..Len(s) + Len(e) : (s \o e)[i] = IF i <= Len(s) THEN s[i] ELSE e[i - Len(s)]
  BY ConcatProperties
<1>3. XmFrom(s, n) \in Seq(Byte) /\ Len(XmFrom(s, n)) = Len(s) - n
      /\ \A i \in 1..Len(s) - n : XmFrom(s, n)[i] = s[i + n]
  BY <1>1 DEF XmFrom
<1>4. PICK w \in Seq(Byte) : w = s \o e
  BY <1>2
<1>5. XmFrom(w, n) \in Seq(Byte) /\ Len(XmFrom(w, n)) = Len(s) + Len(e) - n
      /\ \A i \in 1..Len(s) + Len(e) - n : XmFrom(w, n)[i] = w[i + n]
  <2>1. Len(w) = Len(s) + Len(e) /\ n \in 0..Len(w)
    BY <1>1, <1>2, <1>4
  <2> QED
    BY ONLY <1>1, <2>1, w \in Seq(Byte), n \in 0..Len(s) DEF XmFrom
<1>6. PICK t \in Seq(Byte), u \in Seq(Byte) : t = XmFrom(s, n) /\ u = XmFrom(w, n)
  BY <1>3, <1>5
<1>7. t \o e \in Seq(Byte) /\ Len(t \o e) = Len(t) + Len(e)
      /\ \A i \in 1..Len(t) + Len(e) : (t \o e)[i] = IF i <= Len(t) THEN t[i] ELSE e[i - Len(t)]
  BY ConcatProperties
<1>8. Len(t) = Len(s) - n /\ (\A i \in 1..Len(s) - n : t[i] = s[i + n])
      /\ Len(u) = Len(s) + Len(e) - n /\ (\A i \in 1..Len(s) + Len(e) - n : u[i] = w[i + n])
      /\ \A i \in 1..Len(s) + Len(e) : w[i] = IF i <= Len(s) THEN s[i] ELSE e[i - Len(s)]
  BY <1>2, <1>3, <1>4, <1>5, <1>6
<1>9. ASSUME NEW i \in 1..Len(u)
      PROVE  (t \o e)[i] = u[i]
  <2>1. i + n \in 1..Len(s) + Len(e) /\ i \in 1..Len(t) + Len(e)
    BY <1>1, <1>8
  <2>2. u[i] = IF i + n <= Len(s) THEN s[i + n] ELSE e[i + n - Len(s)]
    BY <1>1, <1>8, <2>1
  <2>3. (t \o e)[i] = IF i <= Len(t) THEN t[i] ELSE e[i - Len(t)]
    BY <1>7, <2>1
  <2>4. CASE i + n <= Len(s)
    BY <1>1, <1>8, <2>2, <2>3, <2>4
  <2>5. CASE ~(i + n <= Len(s))
    <3>1. ~(i <= Len(t)) /\ i - Len(t) = i + n - Len(s)
      BY <1>1, <1>8, <2>5
    <3> QED
      BY <2>2, <2>3, <2>5, <3>1
  <2> QED
    BY <2>4, <2>5
<1>10. Len(t \o e) = Len(u)
  BY <1>1, <1>7, <1>8
<1>11. t \o e = u
  BY ONLY <1>7, <1>9, <1>10, u \in Seq(Byte), SeqEqual
<1> QED
  BY <1>4, <1>6, <1>11

\* The checksum of a block is that of all its bytes, added one after another.
LEMMA XmSumsAre ==
  ASSUME NEW data \in XmBlock
  PROVE  /\ XmSums(data) \in [0..DataLen -> Byte] /\ XmSums(data)[0] = 0
         /\ \A k \in 1..DataLen : XmSums(data)[k] = (XmSums(data)[k - 1] + data[k]) % Bytes
         /\ XmSums(data)[DataLen] = Checksum(data)
<1> DEFINE F == [pk \in Byte \X (1..DataLen) |-> (pk[1] + data[pk[2]]) % Bytes]
           Body(s) == [i \in 0..DataLen |-> IF i = 0 THEN 0 ELSE (s[i - 1] + data[i]) % Bytes]
           w == CHOOSE s : s = Body(s)
           Sums(s) == s[0] = 0 /\ \A k \in 1..DataLen : s[k] = (s[k - 1] + data[k]) % Bytes
<1>1. DataLen \in Nat /\ DataLen \in 0..DataLen /\ \A i \in 1..DataLen : data[i] \in Byte
  BY XmConstants DEF XmBlock
<1>2. \A b, c \in Byte : (b + c) % Bytes \in Byte
  BY XmByte
<1>3. F \in [Byte \X (1..DataLen) -> Byte]
  <2> HIDE DEF XmBlock
  <2> QED
    BY <1>1, <1>2
<1>4. PICK u : Recursive(u, Byte, 0, DataLen, F)
  <2> HIDE DEF F
  <2> QED
    BY <1>1, <1>3, XmByte, PrimRec
<1>5. Sums(u) /\ u \in [0..DataLen -> Byte]
  <2>1. u[0] = 0 /\ u \in [0..DataLen -> Byte] /\ \A k \in 1..DataLen : u[k] = F[<<u[k - 1], k>>]
    BY <1>4 DEF Recursive
  <2>2. \A k \in 1..DataLen : u[k - 1] \in Byte
    BY <1>1, <2>1
  <2> QED
    BY <2>1, <2>2
<1>6. PICK x : x = XmSums(data) /\ x \in [0..DataLen -> Byte] /\ Sums(x)
  <2> HIDE DEF XmBlock
  <2> QED
    BY <1>5, Zenon DEF XmSums
<1>7. u = Body(u)
  BY <1>1, <1>5
<1>8. w = Body(w)
  <2> HIDE DEF Body
  <2> QED
    BY <1>7, Zenon
<1>9. Checksum(data) = w[DataLen]
  BY Zenon DEF Checksum
<1> HIDE DEF w
<1>10. Sums(w)
  BY <1>1, <1>8
<1> DEFINE G == {k \in 0..DataLen : w[k] = x[k]}
<1>11. 0 \in G
  BY <1>1, <1>6, <1>10
<1>12. \A k \in 1..DataLen : k - 1 \in G => k \in G
  BY ONLY <1>1, <1>6, <1>10
<1>13. 0..DataLen \subseteq G
  <2> HIDE DEF G
  <2> QED
    BY <1>1, <1>11, <1>12, UpTo
<1> QED
  BY <1>1, <1>6, <1>9, <1>13

\* w is a packet, byte for byte, with e behind it.
XmPacketOf(w, b, data, e) ==
  /\ w \in Seq(Byte) /\ Len(w) = DataLen + 4 + Len(e)
  /\ w[1] = SOH /\ w[2] = b /\ w[3] = Complement(b)
  /\ \A k \in 1..DataLen : w[k + 3] = data[k]
  /\ w[DataLen + 4] = Checksum(data)
  /\ XmFrom(w, DataLen + 4) = e

\* The bytes of a packet, and what comes behind it.
LEMMA XmWhole ==
  ASSUME NEW b \in Byte, NEW data \in XmBlock, NEW e \in Seq(Byte)
  PROVE  XmPacketOf(Packet(b, data) \o e, b, data, e)
<1> DEFINE w == Packet(b, data) \o e
<1>0. w = Packet(b, data) \o e
  OBVIOUS
<1> HIDE DEF w
<1>1. data \in Seq(Byte) /\ Len(data) = DataLen /\ DataLen \in Nat \ {0}
  BY XmConstants DEF XmBlock
<1>2. SOH \in Byte /\ Complement(b) \in Byte /\ Checksum(data) \in Byte
  BY XmConstants, XmByte, XmChecksum
<1>3. PICK h \in Seq(Byte), c \in Seq(Byte) : h = <<SOH, b, Complement(b)>> /\ c = <<Checksum(data)>>
  <2>1. <<SOH, b, Complement(b)>> \in Seq(Byte) /\ <<Checksum(data)>> \in Seq(Byte)
    BY <1>2
  <2> QED
    BY ONLY <2>1
<1>4. Len(h) = 3 /\ h[1] = SOH /\ h[2] = b /\ h[3] = Complement(b) /\ Len(c) = 1 /\ c[1] = Checksum(data)
  BY <1>3
<1>5. PICK hd : hd = h \o data
  OBVIOUS
<1>6. hd \in Seq(Byte) /\ Len(hd) = DataLen + 3
      /\ \A i \in 1..DataLen + 3 : hd[i] = IF i <= 3 THEN h[i] ELSE data[i - 3]
  <2>1. hd \in Seq(Byte) /\ Len(hd) = Len(h) + Len(data)
        /\ \A i \in 1..Len(h) + Len(data) : hd[i] = IF i <= Len(h) THEN h[i] ELSE data[i - Len(h)]
    BY ONLY <1>1, <1>5, h \in Seq(Byte), ConcatProperties
  <2>2. Len(h) = 3 /\ Len(h) + Len(data) = DataLen + 3
    BY <1>1, <1>4
  <2> QED
    BY ONLY <2>1, <2>2
<1>7. PICK p : p = hd \o c
  OBVIOUS
<1>8. p \in Seq(Byte) /\ Len(p) = DataLen + 4
      /\ \A i \in 1..DataLen + 4 : p[i] = IF i <= DataLen + 3 THEN hd[i] ELSE c[i - (DataLen + 3)]
  <2>1. p \in Seq(Byte) /\ Len(p) = Len(hd) + Len(c)
        /\ \A i \in 1..Len(hd) + Len(c) : p[i] = IF i <= Len(hd) THEN hd[i] ELSE c[i - Len(hd)]
    BY ONLY <1>6, <1>7, c \in Seq(Byte), ConcatProperties
  <2>2. Len(hd) = DataLen + 3 /\ Len(hd) + Len(c) = DataLen + 4
    BY <1>1, <1>4, <1>6
  <2> QED
    BY ONLY <2>1, <2>2
<1>9. p = Packet(b, data)
  BY ONLY <1>3, <1>5, <1>7 DEF Packet
<1>10. w \in Seq(Byte) /\ Len(w) = Len(p) + Len(e)
       /\ \A i \in 1..Len(p) + Len(e) : w[i] = IF i <= Len(p) THEN p[i] ELSE e[i - Len(p)]
  BY ONLY <1>8, <1>9, <1>0, e \in Seq(Byte), ConcatProperties
<1>11. Len(e) \in Nat
  OBVIOUS
<1>12. \A i \in 1..DataLen + 4 : w[i] = p[i]
  BY ONLY <1>1, <1>8, <1>10, <1>11
<1>13. \A i \in 1..DataLen + 3 : w[i] = hd[i]
  BY ONLY <1>1, <1>8, <1>12
<1>14. \A i \in 1..3 : w[i] = h[i]
  BY ONLY <1>1, <1>6, <1>13
<1>15. \A k \in 1..DataLen : w[k + 3] = data[k]
  BY ONLY <1>1, <1>6, <1>13
<1>16. w[DataLen + 4] = c[1]
  BY ONLY <1>1, <1>8, <1>12
<1>17. XmFrom(p, DataLen + 4) \o e = XmFrom(p \o e, DataLen + 4)
  <2>1. DataLen + 4 \in 0..Len(p) /\ p \in Seq(Byte)
    BY <1>1, <1>8
  <2> QED
    BY ONLY <2>1, e \in Seq(Byte), XmFromMore
<1>18. XmFrom(p, DataLen + 4) = <<>>
  BY ONLY <1>8, XmFromEnds
<1>19. <<>> \o e = e
  BY ConcatEmptySeq
<1>20. Len(w) = DataLen + 4 + Len(e)
  BY <1>1, <1>8, <1>10, <1>11
<1> QED
  <2>1. XmFrom(w, DataLen + 4) = e
    BY ONLY <1>9, <1>17, <1>18, <1>19, <1>0
  <2>2. w[1] = SOH /\ w[2] = b /\ w[3] = Complement(b)
    BY ONLY <1>4, <1>14, 1 \in 1..3, 2 \in 1..3, 3 \in 1..3
  <2> QED
    BY ONLY <1>0, <1>4, <1>10, <1>15, <1>16, <1>20, <2>1, <2>2 DEF XmPacketOf

\* No block has been kept yet.
LEMMA XmKeptNone ==
  ASSUME NEW s, NEW t
  PROVE  XmKept(<<>>, s, t, 0)
<1>1. Len(<<>>) = 0 /\ 1..0 = {}
  OBVIOUS
<1> DEFINE f == [i \in 1..Len(<<>>) |-> i]
<1>2. f \in [1..Len(<<>>) -> 1..0]
  BY <1>1
<1> HIDE DEF f
<1>3. \A i \in 1..Len(<<>>) : <<>>[i] = s[f[i]]
  BY <1>1
<1>4. \A i, j \in 1..Len(<<>>) : i < j => f[i] < f[j]
  BY <1>1
<1> QED
  BY <1>1, <1>2, <1>3, <1>4 DEF XmKept

\* The next block is kept.
LEMMA XmKeptMore ==
  ASSUME NEW S, NEW g \in Seq(S), NEW s \in Seq(S), NEW n \in 0..Len(s) - 1, NEW t,
         XmKept(g, s, t, n), NEW x, x = s[n + 1]
  PROVE  XmKept(Append(g, x), s, t, n + 1)
<1>1. Len(s) \in Nat /\ Len(g) \in Nat /\ n \in Nat /\ n + 1 \in 1..Len(s)
  OBVIOUS
<1>2. x \in S
  BY <1>1
<1>3. PICK h \in Seq(S) : h = Append(g, x)
  <2>1. Append(g, x) \in Seq(S)
    BY ONLY <1>2, g \in Seq(S), AppendProperties
  <2> QED
    BY ONLY <2>1
<1>4. Len(h) = Len(g) + 1 /\ h[Len(g) + 1] = x /\ \A i \in 1..Len(g) : h[i] = g[i]
  BY <1>2, <1>3
<1>5. PICK f \in [1..Len(g) -> 1..n] : /\ \A i \in 1..Len(g) : g[i] = s[f[i]]
                                       /\ \A i, j \in 1..Len(g) : i < j => f[i] < f[j]
  BY DEF XmKept
<1>6. "full" \notin t => Len(g) = n /\ \A i \in 1..n : g[i] = s[i]
  BY DEF XmKept
<1> DEFINE e == [i \in 1..Len(h) |-> IF i = Len(h) THEN n + 1 ELSE f[i]]
<1>7. \A i \in 1..Len(g) : f[i] \in 1..n
  BY <1>5
<1>8. e \in [1..Len(h) -> 1..n + 1]
  BY ONLY <1>1, <1>4, <1>7
<1>9. e[Len(g) + 1] = n + 1 /\ \A i \in 1..Len(g) : e[i] = f[i]
  BY ONLY <1>1, <1>4
<1> HIDE DEF e
<1>10. \A i \in 1..Len(h) : h[i] = s[e[i]]
  <2> TAKE i \in 1..Len(h)
  <2>1. CASE i \in 1..Len(g)
    BY <1>4, <1>5, <1>9, <2>1
  <2>2. CASE i = Len(g) + 1
    BY <1>4, <1>9, <2>2
  <2> QED
    BY <1>1, <1>4, <2>1, <2>2
<1>11. \A i, j \in 1..Len(h) : i < j => e[i] < e[j]
  <2> TAKE i, j \in 1..Len(h)
  <2> HAVE i < j
  <2>1. i \in 1..Len(g) /\ e[i] = f[i] /\ f[i] \in 1..n
    BY <1>1, <1>4, <1>7, <1>9
  <2>2. CASE j \in 1..Len(g)
    BY <1>5, <1>9, <2>1, <2>2
  <2>3. CASE j = Len(g) + 1
    BY <1>1, <1>9, <2>1, <2>3
  <2>4. j \in 1..Len(g) \/ j = Len(g) + 1
    BY ONLY <1>1, <1>4, j \in 1..Len(h)
  <2> QED
    BY <2>2, <2>3, <2>4
<1>12. "full" \notin t => Len(h) = n + 1 /\ \A i \in 1..n + 1 : h[i] = s[i]
  <2> SUFFICES ASSUME "full" \notin t PROVE Len(h) = n + 1 /\ \A i \in 1..n + 1 : h[i] = s[i]
    OBVIOUS
  <2>1. Len(g) = n /\ \A i \in 1..n : g[i] = s[i]
    BY <1>6
  <2> QED
    BY ONLY <1>1, <1>4, <2>1, x = s[n + 1]
<1>13. XmKept(h, s, t, n + 1)
  BY ONLY <1>8, <1>10, <1>11, <1>12 DEF XmKept
<1> QED
  BY ONLY <1>3, <1>13

\* The next block is lost.
LEMMA XmKeptLost ==
  ASSUME NEW g, NEW s, NEW n \in Nat, NEW t, "full" \in t, XmKept(g, s, t, n)
  PROVE  XmKept(g, s, t, n + 1)
<1>1. PICK f \in [1..Len(g) -> 1..n] : /\ \A i \in 1..Len(g) : g[i] = s[f[i]]
                                       /\ \A i, j \in 1..Len(g) : i < j => f[i] < f[j]
  BY DEF XmKept
<1>2. 1..n \subseteq 1..n + 1
  OBVIOUS
<1>3. f \in [1..Len(g) -> 1..n + 1]
  BY <1>1, <1>2
<1> QED
  BY <1>1, <1>3 DEF XmKept

\* Kept blocks are blocks of the file in their order, and the file if none is lost.
LEMMA XmKeptOrder ==
  ASSUME NEW S, NEW g \in Seq(S), NEW s \in Seq(S), NEW n \in 0..Len(s), NEW t, XmKept(g, s, t, n)
  PROVE  InOrder(g, s) /\ (n = Len(s) /\ "full" \notin t => g = s)
<1>1. PICK f \in [1..Len(g) -> 1..n] : /\ \A i \in 1..Len(g) : g[i] = s[f[i]]
                                       /\ \A i, j \in 1..Len(g) : i < j => f[i] < f[j]
  BY DEF XmKept
<1>2. 1..n \subseteq 1..Len(s)
  OBVIOUS
<1>3. f \in [1..Len(g) -> 1..Len(s)]
  BY <1>1, <1>2
<1>4. InOrder(g, s)
  BY <1>1, <1>3 DEF InOrder
<1>5. n = Len(s) /\ "full" \notin t => g = s
  <2> SUFFICES ASSUME n = Len(s), "full" \notin t PROVE g = s
    OBVIOUS
  <2>1. Len(g) = Len(s) /\ \A i \in 1..Len(g) : g[i] = s[i]
    BY DEF XmKept
  <2> QED
    BY ONLY <2>1, g \in Seq(S), s \in Seq(S), SeqEqual
<1> QED
  BY <1>4, <1>5

\* What the assumptions say of a transfer of something over a sound line.
LEMMA XmFixed ==
  ASSUME XmInv, XmSound
  PROVE  /\ sent \in Seq(XmBlock) /\ Len(sent) \in Nat \ {0} /\ Len(sent) < Bytes
         /\ \A i \in 1..Len(sent) : sent[i] \in XmBlock
         /\ "slow" \notin trouble /\ "noise" \notin trouble
         /\ SOH \notin {EOT, CAN} /\ EOT # CAN /\ ACK # NAK
<1>1. sent \in SentFiles
  BY DEF XmInv, XmTypeOK, XmSound
<1>2. sent \in Seq(XmBlock) /\ Len(sent) < Bytes /\ sent # <<>>
  BY <1>1, XmConstants, XmFileAssumption DEF XmSound
<1>3. Len(sent) \in Nat \ {0} /\ \A i \in 1..Len(sent) : sent[i] \in XmBlock
  <2> HIDE DEF XmBlock
  <2> QED
    BY ONLY <1>2
<1>4. "slow" \notin trouble /\ "noise" \notin trouble
  BY DEF XmSound
<1> QED
  BY <1>2, <1>3, <1>4, XmControlAssumption

\* Nothing is behind the only answer.
LEMMA XmOnlyOne ==
  ASSUME NEW b \in Byte
  PROVE  Tail(<<b>>) = <<>> /\ Head(<<b>>) = b /\ <<b>> # <<>>
<1>1. PICK s \in Seq(Byte) : s = <<b>>
  <2>1. <<b>> \in Seq(Byte)
    OBVIOUS
  <2> QED
    BY ONLY <2>1, Zenon
<1>2. s # <<>> /\ Len(s) = 1
  BY <1>1
<1>3. Tail(s) \in Seq(Byte) /\ Len(Tail(s)) = 0
  BY ONLY <1>2, s \in Seq(Byte), HeadTailProperties
<1>4. Tail(s) = <<>>
  BY ONLY <1>3, EmptySeq
<1> QED
  BY <1>1, <1>4

\* What the fields of the two programs are while the file is being sent.
LEMMA XmFields ==
  ASSUME XmInv, XmSound, XmSending
  PROVE  /\ tx.read \in 1..Len(sent) /\ tx.block = tx.read /\ tx.buf = sent[tx.read]
         /\ tx.block \in Byte /\ tx.buf \in XmBlock /\ XmLast \in Seq(Byte)
         /\ tx.read - 1 \in 0..Len(sent) - 1 /\ tx.read - 1 + 1 = tx.read
<1>1. tx.block \in Byte /\ tx.buf \in XmBlock
  BY XmParts DEF XmTx
<1>2. <<CAN>> \in Seq(Byte) /\ <<>> \in Seq(Byte)
  BY XmConstants
<1>3. XmLast \in Seq(Byte)
  BY ONLY <1>2 DEF XmLast
<1>4. tx.read \in 1..Len(sent) /\ tx.block = tx.read /\ tx.buf = sent[tx.read]
  BY DEF XmSending
<1>5. tx.read - 1 \in 0..Len(sent) - 1 /\ tx.read - 1 + 1 = tx.read
  BY ONLY <1>4, XmFixed, XmInv, XmSound
<1> QED
  BY ONLY <1>1, <1>3, <1>4, <1>5

\* The sender opens the file.
LEMMA XmOpenLine ==
  ASSUME XmInv, XmSound, XmOpening, TxNext \/ TxKey
  PROVE  XmLine'
<1>1. TxOpen
  BY DEF XmOpening, TxNext, TxNak, TxAck, TxOther, TxKey
<1>2. /\ UNCHANGED <<trouble, sent, toRx, toTx, rx, got>>
      /\ IF dirSlot = 0 THEN tx' = [tx EXCEPT !.pc = "wait", !.buf = ReadInto(0), !.read = 1]
                        ELSE tx' = [tx EXCEPT !.pc = "refused"]
  BY <1>1 DEF TxOpen
<1>3. tx \in XmTx
  BY XmParts
<1>4. CASE dirSlot # 0
  <2>1. tx'.pc = "refused"
    BY <1>2, <1>3, <1>4 DEF XmTx
  <2> QED
    BY <1>2, <2>1 DEF XmOpening, XmRefused, XmLine
<1>5. CASE dirSlot = 0
  <2>1. ReadInto(0) = sent[1]
    BY XmFixed DEF ReadInto
  <2>2. tx'.pc = "wait" /\ tx'.buf = sent[1] /\ tx'.read = 1 /\ tx'.block = 1
    BY <1>2, <1>3, <1>5, <2>1 DEF XmTx, XmOpening
  <2>3. XmSending'
    BY <1>2, <2>2, XmFixed DEF XmSending
  <2>4. XmKeeps(0)'
    BY <1>2, XmKeptNone DEF XmKeeps, XmOpening
  <2>5. XmKeeps(tx.read - 1)'
    BY <2>2, <2>4
  <2>6. XmLast' = <<>>
    BY <2>2 DEF XmLast
  <2> HIDE DEF XmKeeps
  <2>7. XmAsking'
    BY <1>2, <2>2, <2>3, <2>5, <2>6 DEF XmAsking, XmOpening
  <2> QED
    BY <2>7 DEF XmLine
<1> QED
  BY <1>4, <1>5

\* The sender is asked for the block, or somebody presses a key.
LEMMA XmSendLine ==
  ASSUME XmInv, XmSound, XmAsking, TxNext \/ TxKey
  PROVE  XmLine'
<1>1. XmSending /\ tx.pc = "wait" /\ tx \in XmTx /\ tx.pc # "open"
  BY XmParts DEF XmAsking, XmSending, TxNext, TxOpen, TxNak, TxAck, TxOther, TxKey
<1>2. toTx = <<>> \/ (toTx = <<NAK>> /\ rx.pc = "header")
  BY <1>1 DEF XmAsking
<1>3. toRx = <<>>
  BY <1>1 DEF XmAsking, XmLast
<1>4. rx.pc \notin RxEnd /\ rx.exp = tx.read /\ rx.outp = NAK /\ rx.pc \in {"start", "answer", "header"}
      /\ XmKeeps(tx.read - 1)
  BY DEF XmAsking, RxEnd
<1>5. TxNak \/ TxKey
  <2>1. toTx # <<>> => Head(toTx) = NAK
    BY <1>2
  <2>2. Head(toTx) = NAK => Head(toTx) # ACK /\ Head(toTx) \in {ACK, NAK}
    BY XmFixed
  <2> QED
    BY <1>1, <2>1, <2>2 DEF TxNext, TxOpen, TxAck, TxOther
<1>6. PICK p \in Seq(Byte) : p = Packet(tx.block, tx.buf)
  BY <1>1, XmFields, XmPacket
<1>7. <<CAN>> \in Seq(Byte) /\ p \o <<CAN>> \in Seq(Byte)
  <2>1. <<CAN>> \in Seq(Byte)
    BY XmConstants
  <2> QED
    BY <2>1, ConcatProperties
<1>8. CASE TxNak
  <2>1. toTx = <<NAK>> /\ rx.pc = "header" /\ Tail(toTx) = <<>>
    <3>1. toTx = <<NAK>> /\ rx.pc = "header"
      BY <1>2, <1>8 DEF TxNak
    <3> QED
      BY ONLY <3>1, XmConstants, XmOnlyOne
  <2>2. /\ UNCHANGED <<trouble, sent, rx, got>> /\ toTx' = <<>>
        /\ \/ Put(p \o <<CAN>>) /\ tx' = [tx EXCEPT !.naks = NakLimit, !.pc = "aborted"]
           \/ Put(p) /\ tx' = [tx EXCEPT !.naks = @ + 1]
    BY <1>6, <1>8, <2>1 DEF TxNak
  <2>3. /\ tx'.block = tx.block /\ tx'.buf = tx.buf /\ tx'.read = tx.read
        /\ \/ tx'.pc = "aborted" /\ Put(p \o <<CAN>>)
           \/ tx'.pc = "wait" /\ Put(p)
    BY <1>1, <2>2 DEF XmTx
  <2>4. XmSending'
    BY <1>1, <2>2, <2>3 DEF XmSending
  <2>5. toRx' = p \o XmLast'
    <3>1. CASE tx'.pc = "aborted" /\ Put(p \o <<CAN>>)
      <4>1. toRx' = toRx \o (p \o <<CAN>>) /\ XmLast' = <<CAN>>
        BY <1>4, <3>1 DEF Put, XmLast
      <4> QED
        BY ONLY <1>3, <1>7, <4>1, ConcatEmptySeq
    <3>2. CASE tx'.pc = "wait" /\ Put(p)
      <4>1. toRx' = toRx \o p /\ XmLast' = <<>>
        BY <1>4, <3>2 DEF Put, XmLast
      <4> QED
        BY ONLY <1>3, p \in Seq(Byte), <4>1, ConcatEmptySeq
    <3> QED
      BY <2>3, <3>1, <3>2
  <2>6. Packet(tx'.block, tx'.buf) = p /\ XmKeeps(tx.read - 1)'
    BY <1>4, <1>6, <2>2, <2>3 DEF XmKeeps
  <2>7. toRx' \in Seq(Byte)
    <3>1. tx'.pc \in {"aborted", "wait"}
      BY <2>3
    <3>2. XmLast' \in Seq(Byte)
      BY <1>7, <3>1 DEF XmLast
    <3> QED
      BY ONLY <2>5, <3>2, p \in Seq(Byte), ConcatProperties
  <2>8. toRx' = XmFrom(toRx', 0)
    BY ONLY <2>7, XmFromEnds
  <2>9. XmUnderWay'
    <3>1. rx'.pc = "header" /\ rx'.exp = tx'.read /\ tx'.pc # "sent"
      BY <1>4, <2>1, <2>2, <2>3
    <3>2. toRx' = XmFrom(Packet(tx'.block, tx'.buf) \o XmLast', 0)
      BY ONLY <2>5, <2>6, <2>8
    <3> QED
      BY <2>2, <2>4, <2>6, <3>1, <3>2 DEF XmUnderWay
  <2> QED
    BY <2>9 DEF XmLine
<1>9. CASE TxKey
  <2>1. UNCHANGED <<trouble, sent, rx, got, toTx>> /\ Put(<<CAN>>) /\ tx' = [tx EXCEPT !.pc = "aborted"]
    BY <1>9 DEF TxKey
  <2>2. tx'.block = tx.block /\ tx'.buf = tx.buf /\ tx'.read = tx.read /\ tx'.pc = "aborted"
    BY <1>1, <2>1 DEF XmTx
  <2>3. toRx' = XmLast'
    <3>1. toRx' = toRx \o <<CAN>> /\ XmLast' = <<CAN>>
      BY <1>4, <2>1, <2>2 DEF Put, XmLast
    <3> QED
      BY ONLY <1>3, <1>7, <3>1, ConcatEmptySeq
  <2>4. XmSending' /\ XmKeeps(tx.read - 1)'
    BY <1>1, <1>4, <2>1, <2>2 DEF XmSending, XmKeeps
  <2>5. XmAsking'
    BY <1>4, <2>1, <2>2, <2>3, <2>4 DEF XmAsking
  <2> QED
    BY <2>5 DEF XmLine
<1> QED
  BY <1>5, <1>8, <1>9

\* While the block is under way the sender looks at nothing but the keyboard.
LEMMA XmKeyLine ==
  ASSUME XmInv, XmSound, XmUnderWay, TxNext \/ TxKey
  PROVE  XmLine'
<1>1. XmSending /\ tx.pc = "wait" /\ tx \in XmTx /\ toTx = <<>>
  BY XmParts DEF XmUnderWay, XmSending, TxNext, TxOpen, TxNak, TxAck, TxOther, TxKey
<1>2. TxKey
  BY <1>1 DEF TxNext, TxOpen, TxNak, TxAck, TxOther
<1>3. UNCHANGED <<trouble, sent, rx, got, toTx>> /\ Put(<<CAN>>) /\ tx' = [tx EXCEPT !.pc = "aborted"]
  BY <1>2 DEF TxKey
<1>4. tx'.block = tx.block /\ tx'.buf = tx.buf /\ tx'.read = tx.read /\ tx'.pc = "aborted"
  BY <1>1, <1>3 DEF XmTx
<1>5. XmSending' /\ XmKeeps(tx.read - 1)' /\ rx'.exp = tx'.read
  BY <1>1, <1>3, <1>4 DEF XmSending, XmKeeps, XmUnderWay
<1>6. PICK p \in Seq(Byte) : p = Packet(tx.block, tx.buf)
  BY <1>1, XmFields, XmPacket
<1>7. Packet(tx.block, tx.buf) \o XmLast = p
  <2>1. XmLast = <<>>
    BY <1>1 DEF XmLast
  <2> QED
    BY ONLY <1>6, <2>1, ConcatEmptySeq
<1>8. Packet(tx'.block, tx'.buf) \o XmLast' = p \o <<CAN>>
  BY <1>4, <1>6 DEF XmLast
<1>9. toRx' = toRx \o <<CAN>>
  BY <1>3 DEF Put, RxEnd, XmUnderWay
<1>10. Len(p) = DataLen + 4 /\ DataLen \in Nat \ {0} /\ <<CAN>> \in Seq(Byte)
  <2>1. <<CAN>> \in Seq(Byte) /\ <<>> \in Seq(Byte) /\ Len(<<>>) = 0
    BY XmConstants
  <2>2. PICK e \in Seq(Byte) : e = <<>> /\ p = p \o e
    BY ONLY <2>1, p \in Seq(Byte), ConcatEmptySeq
  <2>3. PICK b \in Byte, d \in XmBlock : b = tx.block /\ d = tx.buf
    BY <1>1, XmFields
  <2>4. p = Packet(b, d) \o e
    BY ONLY <1>6, <2>2, <2>3
  <2>5. Len(p) = DataLen + 4 + Len(e)
    <3>1. XmPacketOf(p, b, d, e)
      BY ONLY <2>4, b \in Byte, d \in XmBlock, e \in Seq(Byte), XmWhole
    <3> QED
      BY ONLY <3>1 DEF XmPacketOf
  <2>6. Len(e) = 0
    BY <2>1, <2>2
  <2> QED
    BY <2>1, <2>5, <2>6, XmConstants
<1>11. ASSUME NEW n \in 0..DataLen + 3, toRx = XmFrom(p, n)
       PROVE  toRx' = XmFrom(p \o <<CAN>>, n)
  <2>1. n \in 0..Len(p)
    BY <1>10
  <2> QED
    BY ONLY <1>9, <1>10, <1>11, <2>1, p \in Seq(Byte), XmFromMore
<1>12. PICK w : w = p \o <<CAN>>
  OBVIOUS
<1>13. \/ rx.pc = "header" /\ toRx' = XmFrom(w, 0)
       \/ rx.pc = "number" /\ toRx' = XmFrom(w, 1) /\ rx.sum = 0
       \/ rx.pc = "inverse" /\ toRx' = XmFrom(w, 2) /\ rx.sum = 0 /\ rx.cnt = tx.block
       \/ /\ rx.pc \in {"data", "sum"} /\ toRx' = XmFrom(w, Len(rx.buf) + 3)
          /\ rx.sum = XmSums(tx.buf)[Len(rx.buf)]
          /\ \A i \in 1..Len(rx.buf) : rx.buf[i] = tx.buf[i]
  <2>1. \/ rx.pc = "header" /\ toRx = XmFrom(p, 0)
        \/ rx.pc = "number" /\ toRx = XmFrom(p, 1) /\ rx.sum = 0
        \/ rx.pc = "inverse" /\ toRx = XmFrom(p, 2) /\ rx.sum = 0 /\ rx.cnt = tx.block
        \/ /\ rx.pc \in {"data", "sum"} /\ toRx = XmFrom(p, Len(rx.buf) + 3)
           /\ rx.sum = XmSums(tx.buf)[Len(rx.buf)]
           /\ \A i \in 1..Len(rx.buf) : rx.buf[i] = tx.buf[i]
    BY ONLY <1>7, XmUnderWay DEF XmUnderWay
  <2>2. 0 \in 0..DataLen + 3 /\ 1 \in 0..DataLen + 3 /\ 2 \in 0..DataLen + 3
    BY <1>10
  <2>3. Len(rx.buf) + 3 \in 0..DataLen + 3
    <3>1. Len(rx.buf) \in Nat /\ Len(rx.buf) <= DataLen
      BY XmParts DEF XmRx, XmInv, XmTypeOK
    <3> QED
      BY <1>10, <3>1
  <2> QED
    BY ONLY <1>11, <1>12, <2>1, <2>2, <2>3
<1>14. XmUnderWay'
  <2>1. Packet(tx'.block, tx'.buf) \o XmLast' = w
    BY <1>8, <1>12
  <2>2. tx'.pc # "sent" /\ tx'.pc # "wait"
    BY <1>4
  <2>3. rx' = rx
    BY <1>3
  <2> QED
    BY ONLY <1>4, <1>5, <1>13, <2>1, <2>2, <2>3 DEF XmUnderWay
<1> QED
  BY <1>14 DEF XmLine

\* The sender is told that the block has arrived, and sends the next one, or the end.
LEMMA XmNextLine ==
  ASSUME XmInv, XmSound, XmAnswering, TxNext \/ TxKey
  PROVE  XmLine'
<1>1. XmSending /\ tx.pc = "wait" /\ tx \in XmTx
  BY XmParts DEF XmAnswering, XmSending, TxNext, TxOpen, TxNak, TxAck, TxOther, TxKey
<1>2. toTx = <<>> \/ (toTx = <<ACK>> /\ rx.pc = "header")
  BY <1>1 DEF XmAnswering
<1>3. toRx = <<>>
  BY <1>1 DEF XmAnswering, XmLast
<1>4. rx.pc \notin RxEnd /\ rx.exp = (tx.read + 1) % Bytes /\ rx.outp = ACK
      /\ rx.pc \in {"answer", "header"} /\ XmKeeps(tx.read)
  BY DEF XmAnswering, RxEnd
<1>5. TxAck \/ TxKey
  <2>1. toTx # <<>> => Head(toTx) = ACK
    BY <1>2
  <2>2. Head(toTx) = ACK => Head(toTx) # NAK /\ Head(toTx) \in {ACK, NAK}
    BY XmFixed
  <2> QED
    BY <1>1, <2>1, <2>2 DEF TxNext, TxOpen, TxNak, TxOther
<1>6. <<CAN>> \in Seq(Byte) /\ <<EOT>> \in Seq(Byte)
  BY XmConstants
<1>7. tx.read \in 1..Len(sent) /\ tx.block = tx.read /\ Len(sent) \in Nat /\ Len(sent) < Bytes /\ Bytes \in Nat
  BY <1>1, XmFields, XmFixed, XmConstants
<1>8. CASE TxAck /\ tx.read >= Len(sent)
  <2>1. UNCHANGED <<trouble, sent, rx, got>> /\ Put(<<EOT>>) /\ tx' = [tx EXCEPT !.pc = "sent"] /\ rx.pc = "header"
    BY <1>2, <1>8 DEF TxAck
  <2>2. tx'.block = tx.block /\ tx'.buf = tx.buf /\ tx'.read = tx.read /\ tx'.pc = "sent"
    BY <1>1, <2>1 DEF XmTx
  <2>3. toRx' = <<EOT>>
    <3>1. toRx' = toRx \o <<EOT>>
      BY <1>4, <2>1 DEF Put
    <3> QED
      BY ONLY <1>3, <1>6, <3>1, ConcatEmptySeq
  <2>4. XmSending' /\ XmKeeps(tx.read)' /\ tx'.read = Len(sent')
    BY <1>1, <1>4, <1>7, <1>8, <2>1, <2>2 DEF XmSending, XmKeeps
  <2>5. XmAnswering'
    BY <1>4, <2>1, <2>2, <2>3, <2>4 DEF XmAnswering
  <2> QED
    BY <2>5 DEF XmLine
<1>9. CASE TxAck /\ ~(tx.read >= Len(sent))
  <2>1. PICK n, d : n = (tx.block + 1) % Bytes /\ d = ReadInto(tx.read)
    OBVIOUS
  <2>2. n = tx.read + 1 /\ n = (tx.read + 1) % Bytes /\ n \in 1..Len(sent) /\ n \in Byte /\ d = sent[n]
    <3>1. tx.read + 1 < Bytes /\ tx.read < Len(sent)
      BY <1>7, <1>9
    <3>2. (tx.read + 1) % Bytes = tx.read + 1
      BY <1>7, <3>1
    <3>3. ReadInto(tx.read) = sent[tx.read + 1]
      BY <3>1 DEF ReadInto
    <3>4. n = tx.read + 1 /\ n = (tx.read + 1) % Bytes /\ d = sent[n]
      BY <1>7, <2>1, <3>2, <3>3
    <3>5. n \in 1..Len(sent) /\ n \in 0..Bytes - 1
      BY ONLY <1>7, <3>1, <3>4
    <3> QED
      BY <3>4, <3>5 DEF Byte
  <2>3. /\ UNCHANGED <<trouble, sent, rx, got>> /\ Put(Packet(n, d)) /\ rx.pc = "header"
        /\ toTx' = <<>> /\ tx' = [tx EXCEPT !.block = n, !.buf = d, !.read = @ + 1]
    <3>1. toTx = <<ACK>> /\ rx.pc = "header"
      BY <1>2, <1>9 DEF TxAck
    <3>2. Tail(toTx) = <<>>
      BY ONLY <3>1, XmConstants, XmOnlyOne
    <3> QED
      BY <1>9, <2>1, <3>1, <3>2 DEF TxAck
  <2>4. tx'.block = n /\ tx'.buf = d /\ tx'.read = n /\ tx'.pc = "wait"
    BY <1>1, <2>2, <2>3 DEF XmTx
  <2>5. PICK p \in Seq(Byte) : p = Packet(n, d)
    <3>1. d \in XmBlock
      BY <2>2, XmFixed
    <3> QED
      BY <2>2, <3>1, XmPacket
  <2>6. toRx' = p
    <3>1. toRx' = toRx \o p
      BY <1>4, <2>3, <2>5 DEF Put
    <3> QED
      BY ONLY <1>3, <2>5, <3>1, ConcatEmptySeq
  <2>7. toRx' = XmFrom(Packet(tx'.block, tx'.buf) \o XmLast', 0)
    <3>1. XmLast' = <<>>
      BY <2>4 DEF XmLast
    <3>2. p \o <<>> = p /\ XmFrom(p, 0) = p
      BY ONLY p \in Seq(Byte), ConcatEmptySeq, XmFromEnds
    <3> QED
      BY ONLY <2>4, <2>5, <2>6, <3>1, <3>2
  <2>8. XmSending' /\ XmKeeps(tx.read - 1)' /\ rx'.exp = tx'.read
    <3>1. n - 1 = tx.read
      BY ONLY <1>7, <2>2
    <3>2. XmKeeps(n - 1)'
      BY <1>4, <2>3, <3>1 DEF XmKeeps
    <3> QED
      BY <1>4, <2>2, <2>3, <2>4, <3>2 DEF XmSending
  <2>9. XmUnderWay'
    BY <2>3, <2>4, <2>7, <2>8 DEF XmUnderWay
  <2> QED
    BY <2>9 DEF XmLine
<1>10. CASE TxKey
  <2>1. UNCHANGED <<trouble, sent, rx, got, toTx>> /\ Put(<<CAN>>) /\ tx' = [tx EXCEPT !.pc = "aborted"]
    BY <1>10 DEF TxKey
  <2>2. tx'.block = tx.block /\ tx'.buf = tx.buf /\ tx'.read = tx.read /\ tx'.pc = "aborted"
    BY <1>1, <2>1 DEF XmTx
  <2>3. toRx' = XmLast'
    <3>1. toRx' = toRx \o <<CAN>> /\ XmLast' = <<CAN>>
      BY <1>4, <2>1, <2>2 DEF Put, XmLast
    <3> QED
      BY ONLY <1>3, <1>6, <3>1, ConcatEmptySeq
  <2>4. XmSending' /\ XmKeeps(tx.read)'
    BY <1>1, <1>4, <2>1, <2>2 DEF XmSending, XmKeeps
  <2>5. XmAnswering'
    BY <1>4, <2>1, <2>2, <2>3, <2>4 DEF XmAnswering
  <2> QED
    BY <2>5 DEF XmLine
<1> QED
  BY <1>5, <1>8, <1>9, <1>10

\* So the sender keeps the line in order.
LEMMA XmTxLine ==
  ASSUME XmInv, XmSound, XmLine, TxNext \/ TxKey
  PROVE  XmLine'
<1>1. CASE XmOver
  <2>1. UNCHANGED <<trouble, sent, rx, got>>
    BY DEF TxNext, TxOpen, TxNak, TxAck, TxOther, TxKey
  <2>2. XmOver'
    BY <1>1, <2>1 DEF XmOver
  <2> QED
    BY <2>2 DEF XmLine
<1>2. CASE XmRefused
  BY <1>2 DEF XmRefused, TxNext, TxOpen, TxNak, TxAck, TxOther, TxKey
<1> QED
  BY <1>1, <1>2, XmOpenLine, XmSendLine, XmKeyLine, XmNextLine DEF XmLine

\* The receiver returns with the blocks that it has kept.
LEMMA XmReturn ==
  ASSUME XmInv, XmSound, NEW n \in 0..Len(sent), XmKeeps(n), UNCHANGED <<trouble, sent, got>>,
         rx'.pc \in RxEnd, rx'.pc = "done" => n = Len(sent)
  PROVE  XmLine'
<1>1. got \in Seq(XmBlock) /\ sent \in Seq(XmBlock)
  BY XmParts, XmFixed
<1>2. InOrder(got, sent) /\ (n = Len(sent) /\ "full" \notin trouble => got = sent)
  BY ONLY <1>1, n \in 0..Len(sent), XmKeeps(n), XmKeptOrder DEF XmKeeps
<1>3. InOrder(got', sent')
  BY <1>2
<1>4. rx'.pc = "done" /\ "full" \notin trouble' => got' = sent'
  BY <1>2
<1>5. XmOver'
  BY ONLY <1>3, <1>4, rx'.pc \in RxEnd DEF XmOver
<1> QED
  BY <1>5 DEF XmLine

\* An answer that is sent is the only one.
LEMMA XmAnswered ==
  ASSUME XmInv, NEW b \in {ACK, NAK}, toTx = <<>>
  PROVE  Answered(b) = <<b>>
<1>1. b \in Byte /\ UartDepth > 0
  BY XmConstants
<1>2. Len(toTx) = 0 /\ Append(<<>>, b) = <<b>>
  OBVIOUS
<1> QED
  BY <1>1, <1>2, XmConstants DEF Answered

\* The receiver asks before the file is open, and may wait.
LEMMA XmEarlyLine ==
  ASSUME XmInv, XmSound, XmOpening \/ XmRefused, RxNext \/ RxKey
  PROVE  XmLine'
<1>1. toRx = <<>> /\ got = <<>> /\ tx.pc \in {"open", "refused"} /\ rx \in XmRx
      /\ rx.pc \in {"start", "answer", "header"}
  BY XmParts DEF XmOpening, XmRefused
<1>2. RxAnswer \/ RxHeaderTimeout \/ RxKey
  BY <1>1 DEF RxNext, RxHeader, Arrives, RxNumber, RxInverse, RxData, RxSum
<1>3. UNCHANGED <<trouble, sent, tx, got, toRx>>
  BY <1>2 DEF RxAnswer, RxHeaderTimeout, RxKey, HeaderTimesOut
<1>4. CASE RxAnswer
  <2>1. rx' = [rx EXCEPT !.pc = "header"] /\ toTx' = Answered(rx.outp)
    BY <1>4 DEF RxAnswer
  <2>2. rx'.pc = "header" /\ rx'.outp = rx.outp /\ rx'.exp = rx.exp
    BY <1>1, <2>1 DEF XmRx
  <2>3. CASE XmOpening
    <3>1. rx.pc = "start" /\ toTx = <<>> /\ rx.outp = NAK
      BY <1>4, <2>3 DEF XmOpening, RxAnswer
    <3>2. toTx' = <<NAK>>
      BY <2>1, <3>1, XmAnswered
    <3>3. XmOpening'
      BY <1>3, <2>2, <2>3, <3>2 DEF XmOpening
    <3> QED
      BY <3>3 DEF XmLine
  <2>4. CASE XmRefused
    BY <1>3, <2>2, <2>4 DEF XmRefused, XmLine
  <2> QED
    BY <2>3, <2>4
<1>5. CASE RxHeaderTimeout
  <2>1. XmRefused
    BY <1>1, <1>5, XmFixed DEF RxHeaderTimeout, HeaderTimesOut, TxEnd, XmOpening
  <2>2. rx'.pc = "answer"
    BY <1>1, <1>5 DEF RxHeaderTimeout, XmRx
  <2> QED
    BY <1>3, <2>1, <2>2 DEF XmRefused, XmLine
<1>6. CASE RxKey
  <2>1. rx'.pc \in RxEnd /\ rx'.pc # "done"
    BY <1>1, <1>6 DEF RxKey, XmRx, RxEnd
  <2>2. XmKeeps(0)
    BY <1>1, XmKeptNone DEF XmKeeps
  <2>3. 0 \in 0..Len(sent)
    BY XmFixed
  <2> QED
    BY <1>3, <2>1, <2>2, <2>3, XmReturn
<1> QED
  BY <1>2, <1>4, <1>5, <1>6

\* Between two packets the receiver answers, waits, and answers again, or it returns.
LEMMA XmBetweenLine ==
  ASSUME XmInv, XmSound, XmAsking \/ XmAnswering, RxNext \/ RxKey
  PROVE  XmLine'
<1>1. XmSending /\ rx \in XmRx /\ rx.pc \in {"start", "answer", "header"}
  BY XmParts DEF XmAsking, XmAnswering
<1>2. RxAnswer \/ RxHeaderTimeout \/ RxKey \/ RxHeader
  BY <1>1, Zenon DEF RxNext, RxNumber, RxInverse, RxData, RxSum
<1>3. UNCHANGED <<trouble, sent, tx, got>>
  BY <1>2, Zenon DEF RxAnswer, RxHeaderTimeout, RxKey, RxHeader
<1>4. tx.read \in 0..Len(sent) /\ tx.read - 1 \in 0..Len(sent)
  <2>1. tx.read \in 1..Len(sent) /\ Len(sent) \in Nat
    BY <1>1, XmFields, XmFixed
  <2> QED
    BY ONLY <2>1
<1>5. XmSending'
  BY <1>1, <1>3 DEF XmSending
<1>6. XmLast' = XmLast
  BY <1>3 DEF XmLast
<1>7. CASE RxAnswer
  <2>1. toRx' = toRx /\ rx' = [rx EXCEPT !.pc = "header"] /\ toTx' = Answered(rx.outp) /\ rx.pc # "header"
    BY <1>7 DEF RxAnswer
  <2>2. rx'.pc = "header" /\ rx'.outp = rx.outp /\ rx'.exp = rx.exp
    BY <1>1, <2>1 DEF XmRx
  <2>3. CASE XmAsking
    <3>1. tx.pc = "wait" => toTx' = <<NAK>>
      BY <2>1, <2>3, XmAnswered DEF XmAsking
    <3>2. XmKeeps(tx.read - 1)'
      BY <1>3, <2>3 DEF XmAsking, XmKeeps
    <3>3. XmAsking'
      BY <1>3, <1>5, <1>6, <2>1, <2>2, <2>3, <3>1, <3>2 DEF XmAsking
    <3> QED
      BY <3>3 DEF XmLine
  <2>4. CASE XmAnswering
    <3>1. tx.pc = "wait" => toTx' = <<ACK>>
      BY <2>1, <2>4, XmAnswered DEF XmAnswering
    <3>2. XmKeeps(tx.read)' /\ tx.pc # "sent"
      BY <1>3, <2>1, <2>4 DEF XmAnswering, XmKeeps
    <3>3. XmAnswering'
      BY <1>3, <1>5, <1>6, <2>1, <2>2, <2>4, <3>1, <3>2 DEF XmAnswering
    <3> QED
      BY <3>3 DEF XmLine
  <2> QED
    BY <2>3, <2>4
<1>8. CASE RxHeaderTimeout
  <2>1. toRx = <<>> /\ toRx' = toRx /\ toTx' = toTx /\ rx' = [rx EXCEPT !.pc = "answer"]
        /\ (tx.pc \in TxEnd \/ (tx.pc = "wait" /\ toTx = <<>>)) /\ rx.pc = "header"
    BY <1>8, XmFixed DEF RxHeaderTimeout, HeaderTimesOut
  <2>2. tx.pc = "wait" /\ toTx = <<>>
    <3>1. <<CAN>> # <<>> /\ <<EOT>> # <<>>
      OBVIOUS
    <3>2. tx.pc # "aborted" /\ tx.pc # "sent"
      BY <2>1, <3>1 DEF XmAsking, XmAnswering, XmLast
    <3>3. tx.pc = "wait"
      BY <1>1, <3>2 DEF XmSending
    <3> QED
      BY <2>1, <3>3 DEF TxEnd
  <2>3. rx'.pc = "answer" /\ rx'.outp = rx.outp /\ rx'.exp = rx.exp
    BY <1>1, <2>1 DEF XmRx
  <2>4. CASE XmAsking
    <3>1. XmKeeps(tx.read - 1)'
      BY <1>3, <2>4 DEF XmAsking, XmKeeps
    <3>2. XmAsking'
      BY <1>3, <1>5, <1>6, <2>1, <2>2, <2>3, <2>4, <3>1 DEF XmAsking
    <3> QED
      BY <3>2 DEF XmLine
  <2>5. CASE XmAnswering
    <3>1. XmKeeps(tx.read)'
      BY <1>3, <2>5 DEF XmAnswering, XmKeeps
    <3>2. XmAnswering'
      BY <1>3, <1>5, <1>6, <2>1, <2>2, <2>3, <2>5, <3>1 DEF XmAnswering
    <3> QED
      BY <3>2 DEF XmLine
  <2> QED
    BY <2>4, <2>5
<1>9. ASSUME rx'.pc \in RxEnd, rx'.pc = "done" => XmAnswering /\ tx.read = Len(sent)
      PROVE  XmLine'
  <2>1. CASE XmAnswering
    <3>1. XmKeeps(tx.read)
      BY <2>1 DEF XmAnswering
    <3> QED
      BY ONLY <1>3, <1>4, <1>9, <3>1, XmInv, XmSound, XmReturn
  <2>2. CASE XmAsking /\ ~XmAnswering
    <3>1. XmKeeps(tx.read - 1)
      BY <2>2 DEF XmAsking
    <3>2. rx'.pc # "done"
      BY <1>9, <2>2
    <3> QED
      BY ONLY <1>3, <1>4, <1>9, <3>1, <3>2, XmInv, XmSound, XmReturn
  <2> QED
    BY <2>1, <2>2
<1>10. CASE RxKey
  <2>1. rx'.pc = "closed"
    BY <1>1, <1>10 DEF RxKey, XmRx
  <2> QED
    BY <1>9, <2>1 DEF RxEnd
<1>11. CASE RxHeader
  <2>1. toRx # <<>>
    BY <1>11 DEF RxHeader, Arrives
  <2>2. Head(toRx) = CAN \/ (Head(toRx) = EOT /\ XmAnswering /\ tx.read = Len(sent))
    <3>1. Head(<<CAN>>) = CAN /\ Head(<<EOT>>) = EOT
      OBVIOUS
    <3> QED
      BY <2>1, <3>1 DEF XmAsking, XmAnswering, XmLast
  <2>3. CASE Head(toRx) = CAN
    <3>1. rx' = [rx EXCEPT !.pc = "cancelled", !.inp = CAN]
      BY <1>11, <2>3, XmFixed DEF RxHeader, Arrives
    <3>2. rx'.pc = "cancelled"
      BY <1>1, <3>1 DEF XmRx
    <3> QED
      BY <1>9, <3>2 DEF RxEnd
  <2>4. CASE Head(toRx) = EOT /\ XmAnswering /\ tx.read = Len(sent)
    <3>1. rx' = [rx EXCEPT !.pc = "done", !.inp = EOT]
      BY <1>11, <2>4, XmFixed DEF RxHeader, Arrives
    <3>2. rx'.pc = "done"
      BY <1>1, <3>1 DEF XmRx
    <3> QED
      BY <1>9, <2>4, <3>2 DEF RxEnd
  <2> QED
    BY <2>2, <2>3, <2>4
<1> QED
  BY <1>2, <1>7, <1>8, <1>10, <1>11

\* The receiver takes the packet, byte by byte, finds it as it should be, and stores the
\* block if the disk has room.
LEMMA XmTakeLine ==
  ASSUME XmInv, XmSound, XmUnderWay, RxNext \/ RxKey
  PROVE  XmLine'
<1>1. XmSending /\ rx \in XmRx /\ tx.pc # "sent" /\ rx.exp = tx.read /\ XmKeeps(tx.read - 1)
      /\ (tx.pc = "wait" => toTx = <<>>)
  BY XmParts DEF XmUnderWay
<1>2. PICK b \in Byte, d \in XmBlock, e \in Seq(Byte) : b = tx.block /\ d = tx.buf /\ e = XmLast
  BY <1>1, XmFields
<1>3. PICK w : w = Packet(b, d) \o e
  OBVIOUS
<1>4. XmPacketOf(w, b, d, e)
  BY ONLY <1>3, b \in Byte, d \in XmBlock, e \in Seq(Byte), XmWhole
<1>5. w \in Seq(Byte) /\ Len(w) = DataLen + 4 + Len(e) /\ Len(e) \in Nat /\ DataLen \in Nat \ {0}
  BY <1>4, XmConstants DEF XmPacketOf
<1>6. \/ rx.pc = "header" /\ toRx = XmFrom(w, 0)
      \/ rx.pc = "number" /\ toRx = XmFrom(w, 1) /\ rx.sum = 0
      \/ rx.pc = "inverse" /\ toRx = XmFrom(w, 2) /\ rx.sum = 0 /\ rx.cnt = b
      \/ /\ rx.pc \in {"data", "sum"} /\ toRx = XmFrom(w, Len(rx.buf) + 3)
         /\ rx.sum = XmSums(d)[Len(rx.buf)]
         /\ \A i \in 1..Len(rx.buf) : rx.buf[i] = d[i]
  BY ONLY <1>2, <1>3, XmUnderWay DEF XmUnderWay
<1>7. ASSUME NEW n \in 0..DataLen + 3, toRx = XmFrom(w, n)
      PROVE  toRx # <<>> /\ Head(toRx) = w[n + 1] /\ Tail(toRx) = XmFrom(w, n + 1)
  <2>1. n \in 0..Len(w) - 1
    BY ONLY <1>5, n \in 0..DataLen + 3
  <2> QED
    BY ONLY <1>5, <1>7, <2>1, XmFromIs
<1>8. rx.pc \in {"header", "number", "inverse", "data", "sum"}
  BY <1>6
<1>9. Len(rx.buf) \in Nat /\ (rx.pc = "data" => Len(rx.buf) < DataLen) /\ (rx.pc = "sum" => Len(rx.buf) = DataLen)
      /\ rx.buf \in Seq(Byte)
  BY <1>1 DEF XmRx, XmInv
<1>10. 0 \in 0..DataLen + 3 /\ 1 \in 0..DataLen + 3 /\ 2 \in 0..DataLen + 3
       /\ (rx.pc \in {"data", "sum"} => Len(rx.buf) + 3 \in 0..DataLen + 3)
  BY ONLY <1>5, <1>9
<1>11. toRx # <<>>
  BY ONLY <1>6, <1>7, <1>10
<1>12. RxHeader \/ RxNumber \/ RxInverse \/ RxData \/ RxSum
  BY <1>8, <1>11, XmFixed DEF RxNext, RxKey, RxAnswer, RxHeaderTimeout, HeaderTimesOut
<1>13. UNCHANGED <<trouble, sent, tx>>
  BY <1>12, Zenon DEF RxHeader, RxNumber, RxInverse, RxData, RxSum
<1>14. /\ XmSending' /\ Packet(tx'.block, tx'.buf) \o XmLast' = w /\ tx'.pc # "sent"
       /\ b = tx'.block /\ d = tx'.buf /\ XmLast' = e
  BY <1>1, <1>2, <1>3, <1>13 DEF XmSending, XmLast
<1>15. ASSUME UNCHANGED <<got, toTx>>, rx'.exp = rx.exp,
              \/ rx'.pc = "number" /\ toRx' = XmFrom(w, 1) /\ rx'.sum = 0
              \/ rx'.pc = "inverse" /\ toRx' = XmFrom(w, 2) /\ rx'.sum = 0 /\ rx'.cnt = b
              \/ /\ rx'.pc \in {"data", "sum"} /\ toRx' = XmFrom(w, Len(rx'.buf) + 3)
                 /\ rx'.sum = XmSums(d)[Len(rx'.buf)]
                 /\ \A i \in 1..Len(rx'.buf) : rx'.buf[i] = d[i]
       PROVE  XmLine'
  <2>1. XmKeeps(tx.read - 1)'
    BY <1>1, <1>13, <1>15 DEF XmKeeps
  <2>2. (tx'.pc = "wait" => toTx' = <<>>) /\ rx'.exp = tx'.read
    BY <1>1, <1>13, <1>15
  <2>3. XmUnderWay'
    BY ONLY <1>14, <1>15, <2>1, <2>2 DEF XmUnderWay
  <2> QED
    BY <2>3 DEF XmLine
<1>16. w[1] = SOH /\ w[2] = b /\ w[3] = Complement(b) /\ w[DataLen + 4] = Checksum(d)
       /\ XmFrom(w, DataLen + 4) = e /\ \A k \in 1..DataLen : w[k + 3] = d[k]
  BY <1>4 DEF XmPacketOf
<1>17. XmSums(d) \in [0..DataLen -> Byte] /\ XmSums(d)[0] = 0
       /\ (\A k \in 1..DataLen : XmSums(d)[k] = (XmSums(d)[k - 1] + d[k]) % Bytes)
       /\ XmSums(d)[DataLen] = Checksum(d)
  BY ONLY d \in XmBlock, XmSumsAre
<1>18. CASE RxHeader
  <2>1. rx.pc = "header"
    BY <1>18 DEF RxHeader
  <2>2. Head(toRx) = SOH /\ Tail(toRx) = XmFrom(w, 1)
    BY <1>6, <1>7, <1>10, <1>16, <2>1
  <2>3. toRx' = XmFrom(w, 1) /\ UNCHANGED <<got, toTx>>
        /\ rx' = [rx EXCEPT !.pc = "number", !.inp = SOH, !.outp = NAK, !.sum = 0]
    BY <1>18, <2>2, XmFixed DEF RxHeader, Arrives
  <2>4. rx'.pc = "number" /\ rx'.sum = 0 /\ rx'.exp = rx.exp
    BY <1>1, <2>3 DEF XmRx
  <2> QED
    BY ONLY <1>15, <2>3, <2>4
<1>19. CASE RxNumber
  <2>1. rx.pc = "number" /\ rx.sum = 0
    BY <1>6, <1>19 DEF RxNumber
  <2>2. Head(toRx) = b /\ Tail(toRx) = XmFrom(w, 2)
    BY <1>6, <1>7, <1>10, <1>16, <2>1
  <2>3. toRx' = XmFrom(w, 2) /\ UNCHANGED <<got, toTx>>
        /\ rx' = [rx EXCEPT !.pc = "inverse", !.inp = b, !.cnt = b]
    BY <1>11, <1>19, <2>2 DEF RxNumber, Arrives, NothingComes
  <2>4. rx'.pc = "inverse" /\ rx'.sum = 0 /\ rx'.cnt = b /\ rx'.exp = rx.exp
    BY <1>1, <2>1, <2>3 DEF XmRx
  <2> QED
    BY ONLY <1>15, <2>3, <2>4
<1>20. CASE RxInverse
  <2>1. rx.pc = "inverse" /\ rx.sum = 0 /\ rx.cnt = b
    BY <1>6, <1>20 DEF RxInverse
  <2>2. Head(toRx) = Complement(b) /\ Tail(toRx) = XmFrom(w, 3)
    BY <1>6, <1>7, <1>10, <1>16, <2>1
  <2>3. Complement(Complement(b)) = b
    BY XmConstants DEF Complement, Byte
  <2>4. rx.exp = b
    <3>1. b = tx.read
      BY <1>1, <1>2 DEF XmSending
    <3> QED
      BY <1>1, <3>1
  <2>5. toRx' = XmFrom(w, 3) /\ UNCHANGED <<got, toTx>>
        /\ rx' = [rx EXCEPT !.pc = "data", !.inp = Complement(b), !.buf = <<>>]
    BY <1>11, <1>20, <2>1, <2>2, <2>3, <2>4 DEF RxInverse, Arrives, NothingComes
  <2>6. rx'.pc = "data" /\ rx'.sum = 0 /\ rx'.buf = <<>> /\ rx'.exp = rx.exp
    BY <1>1, <2>1, <2>5 DEF XmRx
  <2>7. Len(<<>>) = 0 /\ 0 + 3 = 3 /\ 1..0 = {}
    OBVIOUS
  <2>8. /\ rx'.pc \in {"data", "sum"} /\ toRx' = XmFrom(w, Len(rx'.buf) + 3)
        /\ rx'.sum = XmSums(d)[Len(rx'.buf)]
        /\ \A i \in 1..Len(rx'.buf) : rx'.buf[i] = d[i]
    BY ONLY <1>17, <2>5, <2>6, <2>7
  <2> QED
    BY ONLY <1>15, <2>5, <2>6, <2>8
<1>21. CASE RxData
  <2>1. rx.pc = "data"
    BY <1>21 DEF RxData
  <2>2. PICK n \in 0..DataLen - 1 : n = Len(rx.buf)
    BY <1>5, <1>9, <2>1
  <2>3. toRx = XmFrom(w, n + 3) /\ rx.sum = XmSums(d)[n] /\ \A i \in 1..n : rx.buf[i] = d[i]
    BY <1>6, <2>1, <2>2
  <2>4. n + 3 \in 0..DataLen + 3 /\ n + 3 + 1 = n + 4 /\ n + 1 \in 1..DataLen /\ n + 1 + 3 = n + 4 /\ n + 1 - 1 = n
    BY <1>5
  <2>5. Head(toRx) = d[n + 1] /\ Tail(toRx) = XmFrom(w, n + 4) /\ w[n + 4] = d[n + 1]
    <3>1. Head(toRx) = w[n + 3 + 1] /\ Tail(toRx) = XmFrom(w, n + 3 + 1)
      BY ONLY <1>7, <2>3, <2>4
    <3>2. w[n + 1 + 3] = d[n + 1]
      BY ONLY <1>16, <2>4
    <3> QED
      BY ONLY <2>4, <3>1, <3>2
  <2>6. PICK c \in Byte : c = d[n + 1]
    BY <2>4 DEF XmBlock
  <2>7. PICK buf, sum, place : /\ buf = Append(rx.buf, c) /\ sum = (rx.sum + c) % Bytes
                               /\ place = IF n + 1 = DataLen THEN "sum" ELSE "data"
    OBVIOUS
  <2>8. toRx' = XmFrom(w, n + 4) /\ UNCHANGED <<got, toTx>>
        /\ rx' = [rx EXCEPT !.inp = c, !.buf = buf, !.sum = sum, !.pc = place]
    <3>1. PICK x \in Byte : /\ Arrives(x) \/ (NothingComes /\ x = rx.inp)
                            /\ rx' = [rx EXCEPT !.inp = x, !.buf = Append(@, x),
                                        !.sum = (@ + x) % Bytes,
                                        !.pc = IF Len(rx.buf) + 1 = DataLen THEN "sum" ELSE "data"]
      BY <1>21 DEF RxData
    <3>2. x = c /\ toRx' = XmFrom(w, n + 4)
      BY ONLY <1>11, <2>5, <2>6, <3>1 DEF Arrives, NothingComes
    <3>3. rx' = [rx EXCEPT !.inp = c, !.buf = buf, !.sum = sum, !.pc = place]
      BY <1>1, <2>2, <2>7, <3>1, <3>2 DEF XmRx
    <3> QED
      BY <1>21, <3>2, <3>3 DEF RxData
  <2>9. rx'.pc = place /\ rx'.sum = sum /\ rx'.buf = buf /\ rx'.exp = rx.exp
    BY <1>1, <2>8 DEF XmRx
  <2>10. buf \in Seq(Byte) /\ Len(buf) = n + 1 /\ buf[n + 1] = c /\ \A i \in 1..n : buf[i] = rx.buf[i]
    BY ONLY <1>9, <2>2, <2>7, c \in Byte, AppendProperties
  <2>11. \A i \in 1..n + 1 : buf[i] = d[i]
    BY ONLY <2>3, <2>6, <2>10, n \in 0..DataLen - 1, <1>5
  <2>12. sum = XmSums(d)[n + 1]
    BY ONLY <1>17, <2>3, <2>4, <2>6, <2>7
  <2>13. place \in {"data", "sum"} /\ n + 4 = n + 1 + 3
    BY <2>7
  <2>14. /\ rx'.pc \in {"data", "sum"} /\ toRx' = XmFrom(w, Len(rx'.buf) + 3)
         /\ rx'.sum = XmSums(d)[Len(rx'.buf)]
         /\ \A i \in 1..Len(rx'.buf) : rx'.buf[i] = d[i]
    BY ONLY <2>8, <2>9, <2>10, <2>11, <2>12, <2>13
  <2> QED
    BY ONLY <1>15, <2>8, <2>9, <2>14
<1>22. CASE RxSum
  <2>1. rx.pc = "sum" /\ Len(rx.buf) = DataLen
    BY <1>9, <1>22 DEF RxSum
  <2>2. toRx = XmFrom(w, DataLen + 3) /\ rx.sum = Checksum(d) /\ \A i \in 1..DataLen : rx.buf[i] = d[i]
    BY <1>6, <1>17, <2>1
  <2>3. Head(toRx) = Checksum(d) /\ Tail(toRx) = e
    <3>1. DataLen + 3 \in 0..DataLen + 3 /\ DataLen + 3 + 1 = DataLen + 4
      BY <1>5
    <3>2. Head(toRx) = w[DataLen + 3 + 1] /\ Tail(toRx) = XmFrom(w, DataLen + 3 + 1)
      BY ONLY <1>7, <2>2, <3>1
    <3> QED
      BY ONLY <1>16, <3>1, <3>2
  <2>4. rx.buf = d
    <3>1. d \in Seq(Byte) /\ Len(d) = DataLen
      BY <1>5 DEF XmBlock
    <3> QED
      BY ONLY <1>9, <2>1, <2>2, <3>1, SeqEqual
  <2>5. PICK x \in Byte : /\ Arrives(x) \/ (NothingComes /\ x = rx.inp)
                          /\ rx' = [rx EXCEPT !.pc = "answer", !.inp = x, !.buf = <<>>,
                                      !.exp = (@ + 1) % Bytes,
                                      !.outp = IF rx.sum = x THEN ACK ELSE NAK]
                          /\ \/ got' = IF rx.sum = x THEN Append(got, rx.buf) ELSE got
                             \/ "full" \in trouble /\ got' = got
    BY <1>22 DEF RxSum
  <2>6. x = Checksum(d) /\ toRx' = e
    BY ONLY <1>11, <2>3, <2>5 DEF Arrives, NothingComes
  <2>7. PICK exp : exp = (rx.exp + 1) % Bytes
    OBVIOUS
  <2>8. rx' = [rx EXCEPT !.pc = "answer", !.inp = x, !.buf = <<>>, !.exp = exp, !.outp = ACK]
    BY <1>1, <2>2, <2>5, <2>6, <2>7 DEF XmRx
  <2>9. rx'.pc = "answer" /\ rx'.outp = ACK /\ rx'.exp = (tx'.read + 1) % Bytes
    BY <1>1, <1>13, <2>7, <2>8 DEF XmRx
  <2>10. got' = Append(got, d) \/ ("full" \in trouble /\ got' = got)
    BY <2>2, <2>4, <2>5, <2>6
  <2>11. PICK n : n = tx.read - 1
    OBVIOUS
  <2>12. n \in 0..Len(sent) - 1 /\ n \in Nat /\ n + 1 = tx.read /\ d = sent[n + 1]
    <3>1. n \in 0..Len(sent) - 1 /\ n + 1 = tx.read /\ tx.buf = sent[tx.read] /\ Len(sent) \in Nat
      BY <1>1, <2>11, XmFields, XmFixed
    <3> QED
      BY <1>2, <3>1
  <2>13. got \in Seq(XmBlock) /\ sent \in Seq(XmBlock) /\ XmKept(got, sent, trouble, n)
    BY <1>1, <2>11, XmParts, XmFixed DEF XmKeeps
  <2>14. XmKept(got', sent, trouble, n + 1)
    <3>1. CASE got' = Append(got, d)
      <4>1. XmKept(Append(got, d), sent, trouble, n + 1)
        BY ONLY <2>12, <2>13, XmKeptMore
      <4> QED
        BY ONLY <3>1, <4>1
    <3>2. CASE "full" \in trouble /\ got' = got
      <4>1. XmKept(got, sent, trouble, n + 1)
        BY ONLY <2>12, <2>13, <3>2, XmKeptLost
      <4> QED
        BY ONLY <3>2, <4>1
    <3> QED
      BY <2>10, <3>1, <3>2
  <2>15. XmKeeps(tx.read)'
    BY <1>13, <2>12, <2>14 DEF XmKeeps
  <2>16. toRx' = XmLast' /\ (tx'.pc = "wait" => toTx' = <<>>)
    BY <1>1, <1>13, <1>14, <1>22, <2>6 DEF RxSum
  <2>17. XmAnswering'
    BY ONLY <1>14, <2>9, <2>15, <2>16 DEF XmAnswering
  <2> QED
    BY <2>17 DEF XmLine
<1> QED
  BY <1>12, <1>18, <1>19, <1>20, <1>21, <1>22

\* So the receiver keeps the line in order.
LEMMA XmRxLine ==
  ASSUME XmInv, XmSound, XmLine, RxNext \/ RxKey
  PROVE  XmLine'
<1>1. CASE XmOver
  BY <1>1, Zenon DEF XmOver, RxEnd, RxNext, RxKey, RxAnswer, RxHeader, RxHeaderTimeout, RxNumber, RxInverse,
              RxData, RxSum
<1> QED
  BY <1>1, XmEarlyLine, XmBetweenLine, XmTakeLine DEF XmLine

\* And so does the line, of which only an answer may be lost.
LEMMA XmNoiseLine ==
  ASSUME XmInv, XmSound, XmLine, Noise
  PROVE  XmLine'
<1>1. UNCHANGED <<trouble, sent, tx, rx, got, toRx>> /\ \E i \in 1..Len(toTx) : toTx' = Without(toTx, i)
  BY XmFixed DEF Noise
<1>2. toTx # <<>>
  BY <1>1
<1>3. ASSUME NEW b \in {ACK, NAK}, toTx = <<b>>
      PROVE  toTx' = <<>>
  <2>1. PICK s \in Seq(Byte) : s = <<b>>
    <3>1. b \in Byte
      BY XmConstants
    <3>2. <<b>> \in Seq(Byte)
      BY <3>1
    <3> QED
      BY ONLY <3>2
  <2>2. Len(s) = 1 /\ toTx = s
    BY <1>3, <2>1
  <2>3. toTx' = Without(s, 1)
    <3>1. PICK i \in 1..Len(toTx) : toTx' = Without(toTx, i)
      BY <1>1
    <3>2. Len(toTx) = 1
      BY ONLY <2>2
    <3>3. i = 1
      BY ONLY <3>2, i \in 1..Len(toTx)
    <3> QED
      BY ONLY <2>2, <3>1, <3>3
  <2>4. SubSeq(s, 1, 0) = <<>> /\ SubSeq(s, 2, 1) = <<>>
    BY SubSeqEmpty
  <2>5. <<>> \o <<>> = <<>>
    BY ConcatEmptySeq, <<>> \in Seq(Byte)
  <2> QED
    BY <2>2, <2>3, <2>4, <2>5 DEF Without
<1>4. toTx \in {<<>>, <<ACK>>} \/ toTx \in {<<>>, <<NAK>>} => toTx' = <<>>
  BY ONLY <1>2, <1>3
<1>5. XmLast' = XmLast
  BY <1>1 DEF XmLast
<1>6. XmSending => XmSending'
  BY <1>1 DEF XmSending
<1>7. \A n : XmKeeps(n) => XmKeeps(n)'
  BY <1>1 DEF XmKeeps
<1>8. CASE XmOpening
  BY <1>1, <1>4, <1>8 DEF XmOpening, XmLine
<1>9. CASE XmRefused
  BY <1>1, <1>9 DEF XmRefused, XmLine
<1>10. CASE XmAsking
  <2>1. XmKeeps(tx.read - 1)'
    BY <1>1, <1>10 DEF XmAsking, XmKeeps
  <2>2. tx.pc = "wait" => toTx' = <<>>
    BY <1>4, <1>10 DEF XmAsking
  <2>3. XmAsking'
    BY <1>1, <1>5, <1>6, <1>10, <2>1, <2>2 DEF XmAsking
  <2> QED
    BY <2>3 DEF XmLine
<1>11. CASE XmUnderWay
  <2>1. XmKeeps(tx.read - 1)'
    BY <1>1, <1>11 DEF XmUnderWay, XmKeeps
  <2>2. tx.pc # "wait"
    BY <1>2, <1>11 DEF XmUnderWay
  <2>3. XmUnderWay'
    BY <1>1, <1>5, <1>6, <1>11, <2>1, <2>2 DEF XmUnderWay
  <2> QED
    BY <2>3 DEF XmLine
<1>12. CASE XmAnswering
  <2>1. XmKeeps(tx.read)'
    BY <1>1, <1>12 DEF XmAnswering, XmKeeps
  <2>2. tx.pc = "wait" => toTx' = <<>>
    BY <1>4, <1>12 DEF XmAnswering
  <2>3. XmAnswering'
    BY <1>1, <1>5, <1>6, <1>12, <2>1, <2>2 DEF XmAnswering
  <2> QED
    BY <2>3 DEF XmLine
<1>13. CASE XmOver
  BY <1>1, <1>13 DEF XmOver, XmLine
<1> QED
  BY <1>8, <1>9, <1>10, <1>11, <1>12, <1>13 DEF XmLine

\* The transfer alone: over a sound line, what is stored is what was sent.
LEMMA TransferSound ==
  (XmStart \/ XmOff) /\ [][XmNext]_xmVars
    => [](trouble \cap {"slow", "noise"} = {} => BlocksRight)
<1> DEFINE I == XmInv /\ (XmSound => XmLine)
<1>1. (XmStart \/ XmOff) => (XmSound => XmLine)
  <2> SUFFICES ASSUME XmStart \/ XmOff, XmSound PROVE XmOpening
    BY DEF XmLine
  <2>1. XmNow("open", "start")
    BY DEF XmStart, XmOff, XmSound
  <2>2. <<>> # <<NAK>>
    OBVIOUS
  <2> QED
    BY <2>1, <2>2 DEF XmNow, XmOpening
<1>2. I /\ [XmNext]_xmVars => I'
  <2> SUFFICES ASSUME I, [XmNext]_xmVars PROVE I'
    OBVIOUS
  <2>1. CASE UNCHANGED xmVars
    BY <2>1 DEF xmVars, XmInv, XmTypeOK, XmSound, XmLine, XmOpening, XmRefused, XmAsking, XmUnderWay,
                XmAnswering, XmOver, XmSending, XmLast, XmKeeps
  <2>2. CASE XmNext
    <3>1. XmInv'
      BY <2>2, XmTxStep, XmRxStep, XmNoise DEF XmNext
    <3>2. UNCHANGED <<trouble, sent>>
      BY <2>2, Zenon DEF XmNext, TxNext, TxOpen, TxNak, TxAck, TxOther, TxKey, RxNext, RxAnswer, RxHeader,
                  RxHeaderTimeout, RxNumber, RxInverse, RxData, RxSum, RxKey, Noise
    <3>3. XmSound' => XmSound
      BY <3>2 DEF XmSound
    <3>4. XmSound => XmLine'
      BY <2>2, XmTxLine, XmRxLine, XmNoiseLine DEF XmNext
    <3> QED
      BY <3>1, <3>3, <3>4
  <2> QED
    BY <2>1, <2>2
<1>3. I => (trouble \cap {"slow", "noise"} = {} => BlocksRight)
  <2> SUFFICES ASSUME I, trouble \cap {"slow", "noise"} = {}, sent # <<>>
               PROVE  InOrder(got, sent) /\ (rx.pc = "done" /\ "full" \notin trouble => got = sent)
    BY DEF BlocksRight, BlocksInOrder, DoneMeansComplete
  <2>1. XmSound /\ XmLine
    BY DEF XmSound
  <2>2. got \in Seq(XmBlock) /\ sent \in Seq(XmBlock) /\ Len(sent) \in Nat \ {0}
    BY <2>1, XmParts, XmFixed
  <2>3. ASSUME NEW n \in 0..Len(sent), XmKeeps(n)
        PROVE  InOrder(got, sent)
    BY ONLY <2>2, <2>3, XmKeptOrder DEF XmKeeps
  <2>4. CASE XmOpening \/ XmRefused
    <3>1. XmKeeps(0) /\ rx.pc # "done"
      BY <2>4, XmKeptNone DEF XmOpening, XmRefused, XmKeeps
    <3> QED
      BY <2>2, <2>3, <3>1
  <2>5. CASE XmAsking \/ XmUnderWay \/ XmAnswering
    <3>1. XmSending /\ rx.pc # "done"
      BY <2>5 DEF XmAsking, XmUnderWay, XmAnswering
    <3>2. tx.read \in 0..Len(sent) /\ tx.read - 1 \in 0..Len(sent)
      <4>1. tx.read \in 1..Len(sent)
        BY <3>1 DEF XmSending
      <4> QED
        BY ONLY <2>2, <4>1
    <3>3. XmKeeps(tx.read - 1) \/ XmKeeps(tx.read)
      BY <2>5 DEF XmAsking, XmUnderWay, XmAnswering
    <3> QED
      BY ONLY <2>3, <3>1, <3>2, <3>3
  <2>6. CASE XmOver
    BY <2>6 DEF XmOver
  <2> QED
    BY <2>1, <2>4, <2>5, <2>6 DEF XmLine
<1>4. XmStart \/ XmOff => XmInv
  BY XmInitial
<1> QED
  BY <1>1, <1>2, <1>3, <1>4, PTL

-----------------------------------------------------------------------------
(***************************************************************************)
(* The debugger                                                            *)
(***************************************************************************)
\* What a watchpoint keeps is what the byte holds, but for the top of the loop, where it is
\* compared.
Watched == \A i \in DbSlot : watch[i].enabled => watch[i].value = ram[watch[i].address]

\* The debugger will be entered as soon as no prefix is pending.
Asked == single \/ (at = "top" /\ \E i \in DbSlot : Changed(i))

DbInv ==
  /\ DbTypeOK
  /\ at \in {"debug", "step"} => Watched
  /\ at = "debug" => stopped /\ due = 0
  /\ at = "step" /\ ~prefix /\ ~stopped => \A i \in DbSlot : breaks[i] # pc
  /\ due # 0 => Asked
  /\ at = "step" /\ ~prefix => due # 1

\* The invariant of the debugger holds at the start.
LEMMA DbInitial == DbStart \/ DbOff => DbInv
<1>1. ASSUME NEW place \in {"off", "top"}, NEW x \in Addr, NEW v \in DbByte, NEW d \in DbData,
             DbNow(place, x, v, d), single \in BOOLEAN
      PROVE  DbInv
  <2> USE <1>1 DEF DbNow
  <2>1. at \in {"off", "top", "debug", "step"} /\ pc \in Addr /\ ram \in [DbData -> DbByte]
    OBVIOUS
  <2>2. breaks \in [DbSlot -> Addr]
    BY DbAssumption
  <2>3. watch \in [DbSlot -> [enabled : BOOLEAN, address : DbData, value : DbByte]]
    OBVIOUS
  <2>4. due = 0 /\ due \in 0..2 /\ at \notin {"debug", "step"}
    OBVIOUS
  <2> QED
    BY <2>1, <2>2, <2>3, <2>4, Zenon DEF DbInv, DbTypeOK
<1>2. (CHOOSE v \in DbByte : TRUE) \in DbByte /\ (CHOOSE d \in DbData : TRUE) \in DbData
  BY DbAssumption
<1>3. DbStart => DbInv
  BY <1>1 DEF DbStart
<1>4. DbOff => DbInv
  BY <1>1, <1>2, DbAssumption DEF DbOff
<1> QED
  BY <1>3, <1>4

\* The top of the loop keeps it: the debugger is entered or the next instruction may run.
LEMMA DbTopStep ==
  ASSUME DbInv, DbTop
  PROVE  DbInv'
<1> USE DEF DbTop, DbInv, DbTypeOK
<1>1. DbTypeOK'
  <2>1. watch' \in [DbSlot -> [enabled : BOOLEAN, address : DbData, value : DbByte]]
    BY DEF Changed
  <2>2. single' \in BOOLEAN
    BY Zenon
  <2>3. at' \in {"debug", "step"} /\ due' \in 0..2
    OBVIOUS
  <2>4. stopped' \in BOOLEAN
    BY Zenon
  <2> QED
    BY <2>1, <2>2, <2>3, <2>4
<1>2. Watched'
  BY DEF Changed, Watched
<1>3. single' = TRUE \/ single' = FALSE
  BY <1>1
<1>4. CASE single' /\ ~prefix
  BY <1>1, <1>2, <1>4 DEF Asked
<1>5. CASE ~(single' /\ ~prefix)
  <2>1. at' = "step" /\ stopped' = stopped /\ due' = due
    BY <1>5
  <2>2. due # 0 => single'
    BY DEF Asked
  <2>3. ~prefix => \A i \in DbSlot : breaks[i] # pc
    BY <1>5, <1>3
  <2> QED
    BY <1>1, <1>2, <1>5, <2>1, <2>2, <2>3 DEF Asked
<1> QED
  BY <1>4, <1>5

\* So do the debugger's commands.
LEMMA DbCommandStep ==
  ASSUME DbInv,
         \/ CmdBreak \/ CmdWatch \/ CmdDeleteBreakpoint \/ CmdDeleteWatchpoint
         \/ CmdBdos \/ CmdRegister \/ CmdRun
  PROVE  DbInv'
<1> USE DEF DbInv, DbTypeOK
<1>a. \A slots \in SUBSET DbSlot : slots # {} => DbFirst(slots) \in slots
  <2> TAKE slots \in SUBSET DbSlot
  <2> HAVE slots # {}
  <2>1. \E i \in slots : \A j \in slots : i <= j
    BY NatMin, slots \subseteq Nat DEF DbSlot
  <2> QED
    BY <2>1 DEF DbFirst
<1>1. CASE CmdBreak
  BY <1>1, <1>a DEF CmdBreak, Watched
<1>2. CASE CmdWatch
  <2>1. CASE watch' = watch
    BY <1>2, <2>1 DEF CmdWatch, Watched
  <2>2. CASE watch' # watch
    <3>1. {i \in DbSlot : ~watch[i].enabled} # {}
      BY <1>2, <2>2 DEF CmdWatch
    <3>2. DbFirst({i \in DbSlot : ~watch[i].enabled}) \in {i \in DbSlot : ~watch[i].enabled}
      BY <3>1, <1>a
    <3>3. PICK k \in DbSlot, a \in DbData :
            watch' = [watch EXCEPT ![k] = [enabled |-> TRUE, address |-> a, value |-> ram[a]]]
      BY <1>2, <3>1, <3>2, Zenon DEF CmdWatch
    <3>4. [enabled |-> TRUE, address |-> a, value |-> ram[a]]
            \in [enabled : BOOLEAN, address : DbData, value : DbByte]
      OBVIOUS
    <3>5. watch' \in [DbSlot -> [enabled : BOOLEAN, address : DbData, value : DbByte]]
      BY <3>3, <3>4
    <3>6. at' = at /\ ram' = ram /\ at = "debug"
      BY <1>2 DEF CmdWatch
    <3>7. Watched'
      BY <3>3, <3>6 DEF Watched
    <3> QED
      BY <1>2, <3>5, <3>7 DEF CmdWatch
  <2> QED
    BY <2>1, <2>2
<1>3. CASE CmdDeleteBreakpoint
  BY <1>3, <1>a, DbAssumption DEF CmdDeleteBreakpoint, Watched
<1>4. CASE CmdDeleteWatchpoint
  <2>0. PICK k \in DbSlot : watch' = [watch EXCEPT ![k].enabled = FALSE]
    <3>1. PICK a \in DbData :
            LET hit == {i \in DbSlot : watch[i].enabled /\ watch[i].address = a} IN
            hit # {} /\ watch' = [watch EXCEPT ![DbFirst(hit)].enabled = FALSE]
      BY <1>4, Zenon DEF CmdDeleteWatchpoint
    <3> DEFINE hit == {i \in DbSlot : watch[i].enabled /\ watch[i].address = a}
    <3>2. hit \in SUBSET DbSlot /\ hit # {}
      BY <3>1, Zenon
    <3>3. DbFirst(hit) \in DbSlot
      BY <3>2, <1>a, Zenon
    <3> QED
      BY <3>1, <3>3, Zenon
  <2>1. watch' \in [DbSlot -> [enabled : BOOLEAN, address : DbData, value : DbByte]]
    BY <2>0
  <2>2. Watched'
    BY <1>4, <2>0, SMTT(30) DEF CmdDeleteWatchpoint, Watched
  <2> QED
    BY <1>4, <2>1, <2>2 DEF CmdDeleteWatchpoint
<1>5. CASE CmdBdos
  BY <1>5 DEF CmdBdos, Watched
<1>6. CASE CmdRegister
  BY <1>6 DEF CmdRegister, Watched
<1>7. CASE CmdRun
  BY <1>7 DEF CmdRun, Watched
<1> QED
  BY <1>1, <1>2, <1>3, <1>4, <1>5, <1>6, <1>7

\* And an instruction of the Z80, and the signal.
LEMMA DbOtherStep ==
  ASSUME DbInv, DbStep \/ DbSignal
  PROVE  DbInv'
<1> USE DEF DbInv, DbTypeOK
<1>1. CASE DbStep
  <2> USE <1>1 DEF DbStep
  <2>1. DbTypeOK'
    <3>1. at' = "top" /\ pc' \in Addr /\ ram' \in [DbData -> DbByte] /\ prefix' \in BOOLEAN
      BY ZenonT(30)
    <3>2. single' \in BOOLEAN /\ stopped' \in BOOLEAN
      BY Zenon
    <3>3. due' \in 0..2
      OBVIOUS
    <3> QED
      BY <3>1, <3>2, <3>3
  <2>2. single => single'
    OBVIOUS
  <2>3. (\E i \in DbSlot : watch[i].enabled /\ ram'[watch[i].address] # ram[watch[i].address])
          => \E i \in DbSlot : Changed(i)'
    BY DEF Watched, Changed
  <2>4. due' # 0 => single' \/ \E i \in DbSlot : Changed(i)'
    BY <2>1, <2>2, <2>3 DEF Asked
  <2>5. at' = "top"
    OBVIOUS
  <2> QED
    BY <2>1, <2>4, <2>5 DEF Asked
<1>2. CASE DbSignal
  BY <1>2 DEF DbSignal, Watched, Asked, Changed
<1> QED
  BY <1>1, <1>2

\* So every step of the emulator's loop keeps it.
LEMMA DbStaysRight ==
  ASSUME DbInv, [DbNext]_dbVars
  PROVE  DbInv'
<1>1. CASE UNCHANGED dbVars
  BY <1>1 DEF dbVars, DbInv, DbTypeOK, Watched, Asked, Changed
<1>2. CASE DbNext
  BY <1>2, DbTopStep, DbCommandStep, DbOtherStep DEF DbNext
<1> QED
  BY <1>1, <1>2

\* The debugger alone: types, and that it is entered in time.
LEMMA DebuggerRight ==
  (DbStart \/ DbOff) /\ [][DbNext]_dbVars => []DbTypeOK /\ DbEntersInTime
<1>1. DbInv /\ [DbNext]_dbVars
      => [at = "step" /\ at' = "top" /\ ~prefix /\ (\E i \in DbSlot : breaks[i] = pc) => stopped]_dbVars
  BY DEF DbInv
<1>2. DbInv /\ [DbNext]_dbVars => [at = "step" /\ at' = "top" /\ ~prefix => due # 1]_dbVars
  BY DEF DbInv
<1>3. DbInv => DbTypeOK
  BY DEF DbInv
<1> QED
  BY <1>1, <1>2, <1>3, DbInitial, DbStaysRight, PTL DEF DbEntersInTime, DbBreakpointsStop, DbStopsInTime
-----------------------------------------------------------------------------
(***************************************************************************)
(* One of the programs runs                                                *)
(***************************************************************************)
\* A program has been started or not.
LEMMA AnyBegins ==
  Init => /\ (SbStart \/ SbOff) /\ (CpStart \/ CpOff) /\ (StStart \/ StOff) /\ (AsStart \/ AsOff)
          /\ (AxStart \/ AxOff) /\ (XmStart \/ XmOff) /\ (DbStart \/ DbOff)
BY DEF Init

\* What happens to a program's variables is what the program does.
LEMMA OneAtATime ==
  [Next]_programVars
    => /\ [SbNext]_sbVars /\ [CpStep]_cpVars /\ [StStep]_stVars /\ [AsStep]_asVars
       /\ [AxNext]_axVars /\ [XmNext]_xmVars /\ [DbNext]_dbVars
<1>1. UNCHANGED programVars
       => /\ UNCHANGED sbVars /\ UNCHANGED cpVars /\ UNCHANGED stVars /\ UNCHANGED asVars
          /\ UNCHANGED axVars /\ UNCHANGED xmVars /\ UNCHANGED dbVars
  BY DEF programVars
<1> QED
  BY <1>1 DEF Next

\* Every program keeps its tables, stacks, buffers and counters within their bounds,
\* whatever these are: SUBMIT's line, COPY's jobs and buffer, STAT's table, the
\* assembler's record and stacks, the two ends of a transfer, the debugger's points.
THEOREM ProgramsTyped == Spec => []ProgramsTypeOK
BY AnyBegins, OneAtATime, SubmitRight, CopyRight, StatRight, AsmRight, ExpressionTyped,
   TransferTyped, DebuggerRight, PTL DEF Spec, ProgramsTypeOK

\* When SUBMIT starts a script, the lines in "$$$.SUB" are those of the script as it
\* was typed, the last one first; otherwise there is none, whatever the script, its
\* parameters and the disk are (parse_input_file, write_output_file).
THEOREM ScriptOrNothing == Spec => []SbScriptOrNothing
BY AnyBegins, OneAtATime, SubmitRight, PTL DEF Spec

\* However many files COPY is told to copy, from however many drives and users, and
\* wherever it fails: it changes nothing but the targets, which are no beginnings of
\* files at its end, and goes back to the user it was started from (copy.c).
THEOREM CopyCopiesOnly == Spec => []CpCopiesOnly
BY AnyBegins, OneAtATime, CopyRight, PTL DEF Spec

\* For every command line, directory and capacity of the table: the devices have what
\* the line assigned last, the sums are those of the extents, and the attributes are
\* those that were asked for, of the files that were named (stat.c).
THEOREM StatDoesAsTold == Spec => []StDoesAsTold
BY AnyBegins, OneAtATime, StatRight, PTL DEF Spec

\* For every program, every length of the output's records and wherever the source ends
\* or the disk is full: when ASM reports success every byte is in its place in the file,
\* all others are zero, and the values used are the labels' (asm.c).
THEOREM AssemblesRight == Spec => []AsOutputRight
BY AnyBegins, OneAtATime, AsmRight, PTL DEF Spec

\* For every width of a word, numbers and depth of the stacks, and however many tokens: an
\* expression in which unary operators only follow what binds less tightly is given the
\* value of its form, with precedence, grouping from the left and brackets, and what is
\* refused is no expression (push_and_apply_operator).
THEOREM ExpressionsEvaluated == Spec => []AxEvaluates
BY AnyBegins, OneAtATime, ExpressionEvaluated, PTL DEF Spec

\* Over a line that loses answers, to a disk that may be full and with keys pressed at any
\* time, for every file, size of the blocks, of the bytes and of the buffers: what xmodem_receive
\* stores are blocks of the file in their order, none of them twice, and when it reports the
\* end it is the whole file.  (Where the line garbles or delays packets a byte of data may be
\* read as a header, and what holds depends on the data.)
THEOREM TransferRight == Spec => [](trouble \cap {"slow", "noise"} = {} => BlocksRight)
BY AnyBegins, OneAtATime, TransferSound, PTL DEF Spec

\* With any number of breakpoints and watchpoints, the debugger is entered where they
\* say (emulator_main).
THEOREM DebuggerEnters == Spec => DbEntersInTime
BY AnyBegins, OneAtATime, DebuggerRight, PTL DEF Spec
===============================================================================
