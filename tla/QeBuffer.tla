------------------------------- MODULE QeBuffer -------------------------------
(***************************************************************************)
(* The gap buffer of the editor, cpmtools/qe.c.  A buffer b is a record:   *)
(*   mem   the bytes from buffer_start to buffer_end (Cap of them)         *)
(*   gs    gap_start, ge gap_end: the text is what lies outside the gap    *)
(*   cl    current_line                                                    *)
(* Indices count from buffer_start; at Cap there is a newline that is not  *)
(* part of the text.  The gap keeps what was in memory.                    *)
(***************************************************************************)
EXTENDS Integers, Sequences, FiniteSetsExt

CONSTANTS Cap, Alnum, SP, NL

ASSUME QbAssumption == Cap \in Nat \ {0} /\ {SP, NL} \cap Alnum = {} /\ SP # NL

Char   == Alnum \cup {SP, NL}
Index  == 0..Cap
Buffer == [mem : [0..Cap - 1 -> Char], gs : Index, ge : Index, cl : Index]

Text(b)  == [i \in 1..b.gs |-> b.mem[i - 1]]
              \o [i \in 1..Cap - b.ge |-> b.mem[b.ge + i - 1]]
Byte(b, i) == IF i = Cap THEN NL ELSE b.mem[i]

\* The first newline at i or later, the end if there is none, and the start of
\* the line that i is in.
LineEnd(b, i)   == Min({k \in i..Cap : k = Cap \/ b.mem[k] = NL})
LineStart(b, i) == Max({k \in 0..i : k = 0 \/ b.mem[k - 1] = NL})

\* n bytes are copied across the gap, one at a time.
Right(b, n) ==
  [b EXCEPT !.gs = @ + n, !.ge = @ + n,
            !.mem = [i \in 0..Cap - 1 |-> IF i \in b.gs..b.gs + n - 1
                                          THEN @[b.ge + i - b.gs] ELSE @[i]]]
\* Mutant: the gap moves and the bytes do not.
LeftUncopied(b, n) == [b EXCEPT !.gs = @ - n, !.ge = @ - n]

Left(b, n) ==
  [b EXCEPT !.gs = @ - n, !.ge = @ - n,
            !.mem = [i \in 0..Cap - 1 |-> IF i \in b.ge - n..b.ge - 1
                                          THEN @[b.gs + i - b.ge] ELSE @[i]]]

Least(i, j) == IF i < j THEN i ELSE j

\* A command on the buffer, count times; more often than there are bytes changes
\* nothing more.
Repeat(command, b, count) ==
  LET n == Least(count, Cap + 1)
      done[k \in 0..n] == IF k = 0 THEN b ELSE command[done[k - 1]]
  IN  done[n]

-----------------------------------------------------------------------------
(* Moving *)

\* cursor_home counts back to current_line and runs away if it is not there.
HomeRunsAway(b) == b.cl > b.gs
CursorHome(b)   == Left(b, b.gs - b.cl)
CursorEnd(b)    == Right(b, LineEnd(b, b.ge) - b.ge)
CursorLeft(b, count)  == Left(b, Least(count, b.gs - LineStart(b, b.gs)))
CursorRight(b, count) == Right(b, Least(count, LineEnd(b, b.ge) - b.ge))

\* The column, a 16-bit difference: past every line when current_line is too far.
Column(b) == IF b.cl > b.gs THEN Cap ELSE b.gs - b.cl

\* Mutant: current_line stays behind.
LineDownStays(s) ==
  LET e == CursorEnd(s)
  IN  IF e.ge = Cap THEN e ELSE CursorRight(Right(e, 1), Column(s))

LineDown(s) ==
  LET e == CursorEnd(s)
      d == [Right(e, 1) EXCEPT !.cl = e.gs + 1]
  IN  IF e.ge = Cap THEN e ELSE CursorRight(d, Column(s))
CursorDown(b, count) == Repeat([s \in Buffer |-> LineDown(s)], b, count)

LineUp(s) ==
  LET h == CursorHome(s)
      p == LineStart(h, h.gs - 1)
      u == [Left(h, h.gs - p) EXCEPT !.cl = p]
  IN  IF h.gs = 0 THEN h ELSE CursorRight(u, Column(s))
CursorUp(b, count) == Repeat([s \in Buffer |-> LineUp(s)], b, count)

IsSpace(c) == c \in {SP, NL}
WordBoundary(left, right) ==
  \/ left \notin Alnum /\ right \in Alnum
  \/ IsSpace(left) /\ ~IsSpace(right)

\* cursor_wordleft copies the wrong way: the byte before the end of the gap
\* goes over the one before the cursor.
WordLeft(s) ==
  LET r == s.mem[s.ge - 1]
      n == [s EXCEPT !.gs = @ - 1, !.ge = @ - 1, !.mem[s.gs - 1] = r]
  IN  [b |-> n, byte |-> r, go |-> n.gs # 0 /\ ~WordBoundary(n.mem[n.gs - 1], r)]
WordWalk == [b : Buffer, newline : BOOLEAN, go : BOOLEAN]
WordLeftOn(x) ==
  LET l == WordLeft(x.b)
  IN  IF x.go THEN [b |-> l.b, newline |-> x.newline \/ l.byte = NL, go |-> l.go] ELSE x
WordsLeft(s) ==
  LET e == Repeat([x \in WordWalk |-> WordLeftOn(x)],
                  [b |-> s, newline |-> FALSE, go |-> s.gs # 0], s.gs)
  IN  IF e.newline THEN [e.b EXCEPT !.cl = LineStart(e.b, e.b.gs)] ELSE e.b
CursorWordLeft(b, count) == Repeat([s \in Buffer |-> WordsLeft(s)], b, count)

WordRight(s) ==
  LET stops == {k \in s.ge + 1..Cap : k = Cap \/ WordBoundary(s.mem[k - 1], s.mem[k])}
      n     == Right(s, Min(stops) - s.ge)
  IN  IF s.ge = Cap THEN s
      ELSE [n EXCEPT !.cl = IF \E i \in s.gs..n.gs - 1 : n.mem[i] = NL
                            THEN LineStart(n, n.gs) ELSE @]
CursorWordRight(b, count) == Repeat([s \in Buffer |-> WordRight(s)], b, count)

\* Lines count from 1; the last line if there are fewer.
NextLine(s) ==
  LET e == LineEnd(s, s.ge)
      m == Right(s, Least(e + 1, Cap) - s.ge)
  IN  IF e = Cap THEN m ELSE [m EXCEPT !.cl = m.gs]
GotoLine(b, n) ==
  Repeat([s \in Buffer |-> NextLine(s)], [Left(b, b.gs) EXCEPT !.cl = 0], n - 1)

-----------------------------------------------------------------------------
(* Changing *)

InsertChar(b, c) == [b EXCEPT !.mem[b.gs] = c, !.gs = @ + 1]

\* What draw_line returns when it begins at i: the byte behind the first newline, or
\* the end.  It leaps over the gap only when it meets the gap's start.
DrawLine(b, i) ==
  LET seen == {k \in i..b.gs - 1 : b.mem[k] = NL}
  IN  IF seen # {} THEN Min(seen) + 1
      ELSE Least(LineEnd(b, IF i <= b.gs THEN b.ge ELSE i) + 1, Cap)

\* insert_newline draws the line it has ended, which leads to the next one.
InsertNewline(b) ==
  LET n == InsertChar(b, NL)
  IN  IF b.gs = b.ge THEN b ELSE [n EXCEPT !.cl = DrawLine(n, n.cl)]
BackspaceRunsAway(b) == b.cl > b.gs /\ b.gs = 0
Backspace(b)     == IF b.gs = b.cl THEN b ELSE [b EXCEPT !.gs = @ - 1]
Overwritten(b)   == IF Byte(b, b.ge) = NL THEN b ELSE [b EXCEPT !.ge = @ + 1]

DeleteRight(b, count) == [b EXCEPT !.ge = Least(@ + count, Cap)]

\* The byte at the cursor goes whatever it is: on a newline the next line goes.
DeleteRestOfLine(b) == IF b.ge = Cap THEN b ELSE [b EXCEPT !.ge = LineEnd(b, @ + 1)]

LineDeleted(s) ==
  LET d == DeleteRestOfLine(CursorHome(s))
  IN  IF d.ge = Cap THEN d ELSE [d EXCEPT !.ge = @ + 1]
DeleteLine(b, count) == Repeat([s \in Buffer |-> LineDeleted(s)], b, count)

\* The byte before k when all from the end of the gap up to it are gone.
Before(s, k) == IF k - 1 # s.ge THEN s.mem[k - 1] ELSE IF s.gs = 0 THEN NL ELSE s.mem[s.gs - 1]
WordDeleted(s) ==
  IF s.ge = Cap THEN s
  ELSE [s EXCEPT !.ge = Min({k \in @ + 1..Cap : Byte(s, k) = NL \/ WordBoundary(Before(s, k), s.mem[k])})]
DeleteWord(b, count) == Repeat([s \in Buffer |-> WordDeleted(s)], b, count)

Joined(s) ==
  LET e == LineEnd(s, s.ge)
  IN  IF e = Cap THEN s ELSE [s EXCEPT !.mem[e] = SP]
Join(b, count) == Repeat([s \in Buffer |-> Joined(s)], b, count)

\* open_above's newline, put after the gap.
LineAbove(b) == LET h == CursorHome(b) IN [h EXCEPT !.ge = @ - 1, !.mem[h.ge - 1] = NL]

\* replace_char, for a newline and for a printable character.
ReplaceChar(b, c) ==
  IF b.ge = Cap THEN b
  ELSE IF c = NL THEN InsertNewline([b EXCEPT !.ge = @ + 1])
  ELSE [b EXCEPT !.mem[b.ge] = c]

\* new_file, and insert_file: characters that do not fit are left out.
NewFile(b) == [b EXCEPT !.gs = 0, !.ge = Cap, !.cl = 0]
InsertFile(b, text) ==
  LET n == Least(Len(text), b.ge - b.gs)
  IN  [b EXCEPT !.gs = @ + n,
                !.mem = [i \in 0..Cap - 1 |-> IF i \in b.gs..b.gs + n - 1
                                              THEN text[i - b.gs + 1] ELSE @[i]]]
LoadFile(b, text) == GotoLine(InsertFile(NewFile(b), text), 1)
===============================================================================
