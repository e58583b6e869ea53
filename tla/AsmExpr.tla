-------------------------------- MODULE AsmExpr --------------------------------
(***************************************************************************)
(* read_expression of the assembler cpmtools/asm.c: a value stack and an   *)
(* operator stack, fed one token at a time.  A quotient by zero and a word *)
(* that is shifted by its width are AxAny, whatever the compiler makes of  *)
(* them.                                                                   *)
(***************************************************************************)
EXTENDS Integers, Sequences, SequencesExt

CONSTANTS
  AxWidth,    \* 16: the bits of a word
  AxNumbers,  \* numbers and labels' values
  AxTokens,   \* the other tokens that are used, "end" for a comma or a newline
  AxDepth,    \* STACK_DEPTH
  AxMaxTokens

AxPow[k \in 0..AxWidth] == IF k = 0 THEN 1 ELSE 2 * AxPow[k - 1]
AxMod == AxPow[AxWidth]

ASSUME AxAssumption ==
  /\ AxWidth \in Nat \ {0} /\ AxNumbers \subseteq 0..AxMod - 1
  /\ AxTokens \subseteq {"+", "-", "*", "/", "MOD", "SHL", "SHR", "NOT", "AND", "OR", "XOR",
                         "(", ")", "end"}
  /\ AxDepth \in Nat \ {0} /\ AxMaxTokens \in Nat

VARIABLES
  axPc,      \* "off", "read", "value", "error", "full" (a stack is), "lost" (a call of NULL)
  axVals, axOps,
  axSeen,    \* seenvalue
  axTyped    \* history: the tokens read

axVars == <<axPc, axVals, axOps, axSeen, axTyped>>

AxAny   == AxMod
AxValue == 0..AxAny
AxOp    == {"ADD", "SUB", "NEG", "MUL", "DIV", "MOD", "SHL", "SHR", "NOT", "AND", "OR", "XOR", "PAR"}

AxToken(t, n) == [t |-> t, n |-> n]

\* operators[]
AxUnary == {"NEG", "NOT", "PAR"}
AxPrecedence(o) ==
  CASE o = "NEG" -> 0 [] o \in {"MUL", "DIV", "MOD", "SHL", "SHR"} -> 1
    [] o \in {"ADD", "SUB", "XOR"} -> 2 [] o = "NOT" -> 3 [] o = "AND" -> 4 [] o = "OR" -> 5
    [] o = "PAR" -> 255

\* The bits that are set in a word, and the word, from its highest bit on.
AxBits(n) == {k \in 0..AxWidth - 1 : (n \div AxPow[k]) % 2 = 1}
AxWord(bits) ==
  LET w[k \in 0..AxWidth] ==
        IF k = 0 THEN 0 ELSE 2 * w[k - 1] + (IF AxWidth - k \in bits THEN 1 ELSE 0)
  IN  w[AxWidth]

\* The callbacks; the right operand of a unary operator is its only one.
AxApply(o, l, r) ==
  IF \/ AxAny \in {l, r} \/ (o \in {"DIV", "MOD"} /\ r = 0)
     \/ o \in {"SHL", "SHR"} /\ r >= AxWidth
  THEN AxAny
  ELSE CASE o = "ADD" -> (l + r) % AxMod
         [] o = "SUB" -> (l - r) % AxMod
         [] o = "NEG" -> (0 - r) % AxMod
         [] o = "NOT" -> AxMod - 1 - r
         [] o = "MUL" -> (l * r) % AxMod
         [] o = "DIV" -> l \div r
         [] o = "MOD" -> l % r
         [] o = "SHL" -> AxWord({k + r : k \in AxBits(l)})
         [] o = "SHR" -> AxWord({k - r : k \in AxBits(l)})
         [] o = "AND" -> AxWord(AxBits(l) \cap AxBits(r))
         [] o = "OR"  -> AxWord(AxBits(l) \cup AxBits(r))
         [] o = "XOR" -> AxWord(SymDiff(AxBits(l), AxBits(r)))

AxTypeOK ==
  /\ axPc \in {"off", "read", "value", "error", "full", "lost"}
  /\ Len(axVals) <= AxDepth /\ Len(axOps) <= AxDepth
  /\ \A i \in 1..Len(axVals) : axVals[i] \in AxValue
  /\ \A i \in 1..Len(axOps) : axOps[i] \in AxOp
  /\ axSeen \in BOOLEAN

AxAt(pc) == axPc = pc /\ axVals = <<>> /\ axOps = <<>> /\ axSeen = FALSE /\ axTyped = <<>>
AxStart == AxAt("read")
AxOff   == AxAt("off")

-----------------------------------------------------------------------------
\* The stacks on the way: [vals, ops, end], end "on" unless the program has ended.
AxStacks == [vals |-> axVals, ops |-> axOps, end |-> "on"]

\* apply_operator for the operator that has just been taken off.
AxApplied(s, o) ==
  IF s.end # "on" THEN s
  ELSE IF s.vals = <<>> \/ (o \notin AxUnary /\ Len(s.vals) = 1) THEN [s EXCEPT !.end = "error"]
  ELSE IF o = "PAR" THEN [s EXCEPT !.end = "lost"]
  ELSE LET rest == IF o \in AxUnary THEN Front(s.vals) ELSE Front(Front(s.vals))
           left == IF o \in AxUnary THEN 0 ELSE s.vals[Len(s.vals) - 1]
       IN  [s EXCEPT !.vals = Append(rest, AxApply(o, left, Last(s.vals)))]

\* Operators from the top of the stack, as long as they are among goes.
AxUnstack(s, goes) ==
  LET u[k \in 0..Len(s.ops)] ==
        IF k = 0 THEN s
        ELSE LET p == u[k - 1]
             IN  IF p.ops # <<>> /\ p.end = "on" /\ Len(p.ops) = Len(s.ops) - k + 1 /\ Last(p.ops) \in goes
                 THEN AxApplied([p EXCEPT !.ops = Front(@)], Last(p.ops)) ELSE p
  IN  u[Len(s.ops)]

\* Takes over the stacks, and what has happened to the program.
AxBecomes(s, seen) ==
  /\ axVals' = s.vals /\ axOps' = s.ops /\ axSeen' = seen
  /\ axPc' = IF s.end = "on" THEN axPc ELSE s.end

\* Mutant: the stack's depth is not looked at.
AxPushOpUnchecked(s, o, seen) == AxBecomes([s EXCEPT !.ops = Append(@, o)], seen)

AxPushOp(s, o, seen) ==
  AxBecomes(IF s.end # "on" THEN s
            ELSE IF Len(s.ops) = AxDepth THEN [s EXCEPT !.end = "full"]
            ELSE [s EXCEPT !.ops = Append(@, o)], seen)

\* push_and_apply_operator.  Mutant: "<" for "<=", which makes operators of the
\* same precedence group from the right.
AxPushRight(o) ==
  AxPushOp(AxUnstack(AxStacks, {top \in AxOp : AxPrecedence(top) < AxPrecedence(o)}), o, FALSE)

AxPush(o) ==
  AxPushOp(AxUnstack(AxStacks, {top \in AxOp : AxPrecedence(top) <= AxPrecedence(o)}), o, FALSE)

AxError == axPc' = "error" /\ UNCHANGED <<axVals, axOps, axSeen>>

AxNumber(n) ==
  IF axSeen THEN AxError
  ELSE AxBecomes(IF Len(axVals) = AxDepth THEN [AxStacks EXCEPT !.end = "full"]
                 ELSE [AxStacks EXCEPT !.vals = Append(@, n)], TRUE)

AxNamed(t) == CASE t = "+" -> "ADD" [] t = "*" -> "MUL" [] t = "/" -> "DIV"
                [] t = "-" -> IF axSeen THEN "SUB" ELSE "NEG"
                [] t \notin {"+", "-", "*", "/"} -> t

\* A "+" that is not between values is passed over.
AxOperator(t) ==
  IF t = "+" /\ ~axSeen THEN AxBecomes(AxStacks, FALSE)
  ELSE IF (AxNamed(t) \in AxUnary) = axSeen THEN AxError
  ELSE AxPush(AxNamed(t))

AxOpen == IF axSeen THEN AxError ELSE AxPushOp(AxStacks, "PAR", FALSE)

AxClose ==
  LET s == AxUnstack(AxStacks, AxOp \ {"PAR"})
  IN  IF ~axSeen \/ (s.ops = <<>> /\ s.end = "on") THEN AxError
      ELSE AxBecomes(IF s.end = "on" THEN [s EXCEPT !.ops = Front(@)] ELSE s, TRUE)

\* Everything is applied, brackets that were not closed included.
AxEnd ==
  LET s == AxUnstack(AxStacks, AxOp)
  IN  AxBecomes([s EXCEPT !.end = IF @ # "on" THEN @
                                  ELSE IF Len(s.vals) = 1 THEN "value" ELSE "error"], axSeen)

AxRead(t) ==
  /\ axPc = "read" /\ (Len(axTyped) < AxMaxTokens \/ t = "end")
  /\ axTyped' = Append(axTyped, AxToken(t, 0))
  /\ CASE t \in {"(", ")", "end"} -> (t = "(" /\ AxOpen) \/ (t = ")" /\ AxClose) \/ (t = "end" /\ AxEnd)
       [] t \notin {"(", ")", "end"} -> AxOperator(t)

AxReadNumber(n) ==
  /\ axPc = "read" /\ Len(axTyped) < AxMaxTokens
  /\ axTyped' = Append(axTyped, AxToken("number", n))
  /\ AxNumber(n)

AxNext == (\E t \in AxTokens : AxRead(t)) \/ (\E n \in AxNumbers : AxReadNumber(n))

-----------------------------------------------------------------------------
(* What an expression is worth, by its form. *)

AxBad == AxMod + 1   \* no expression

AxUnaryAt(ts, k)  == ts[k].t = "NOT" \/ (ts[k].t \in {"+", "-"}
                       /\ (k = 1 \/ ts[k - 1].t \notin {"number", ")"}))
AxOpAt(ts, k)     == CASE ts[k].t = "-" -> IF AxUnaryAt(ts, k) THEN "NEG" ELSE "SUB"
                       [] ts[k].t = "+" -> IF AxUnaryAt(ts, k) THEN "POS" ELSE "ADD"
                       [] ts[k].t = "*" -> "MUL" [] ts[k].t = "/" -> "DIV"
                       [] ts[k].t \notin {"+", "-", "*", "/"} -> ts[k].t
AxIsOp(ts, k)     == ts[k].t \notin {"number", "(", ")"}

\* A "+" in front of a value binds closest and means nothing.
AxBinds(o) == IF o = "POS" THEN -1 ELSE AxPrecedence(o)

\* How deep in brackets a token leaves the reader.
AxNest(ts) ==
  LET d[k \in 0..Len(ts)] ==
        IF k = 0 THEN 0
        ELSE d[k - 1] + (IF ts[k].t = "(" THEN 1 ELSE IF ts[k].t = ")" THEN -1 ELSE 0)
  IN  d

\* The operators from i to j that are outside of brackets, and the loosest of them.
AxOutside(ts, d, i, j) == {k \in i..j : d[k] = d[i - 1] /\ AxIsOp(ts, k)}
AxLoosest(ts, ops)     == {k \in ops : \A l \in ops : AxBinds(AxOpAt(ts, l)) <= AxBinds(AxOpAt(ts, k))}

AxOf(o, l, r) == IF l = AxBad \/ r = AxBad THEN AxBad ELSE IF o = "POS" THEN r ELSE AxApply(o, l, r)

\* The loosest operator outside of brackets splits an expression; of several, the
\* last binary one or the first unary one.  m has what shorter stretches are worth.
AxWorth(ts, d, m, i, j) ==
  LET ops   == AxOutside(ts, d, i, j)
      first == Min(AxLoosest(ts, ops))
      last  == Max(AxLoosest(ts, ops))
  IN  IF i > j THEN AxBad
      ELSE IF i = j THEN (IF ts[i].t = "number" THEN ts[i].n ELSE AxBad)
      ELSE IF ops = {} THEN
        (IF ts[i].t = "(" /\ ts[j].t = ")" /\ \A k \in i..j - 1 : d[k] > d[i - 1]
         THEN m[<<i + 1, j - 1>>] ELSE AxBad)
      ELSE IF AxUnaryAt(ts, first) THEN
        (IF first = i THEN AxOf(AxOpAt(ts, i), 0, m[<<i + 1, j>>]) ELSE AxBad)
      ELSE AxOf(AxOpAt(ts, last), m[<<i, last - 1>>], m[<<last + 1, j>>])

AxTable(ts) ==
  LET d == AxNest(ts)
      m[p \in (1..Len(ts) + 1) \X (0..Len(ts))] == AxWorth(ts, d, m, p[1], p[2])
  IN  m

AxMeaning(ts) == AxTable(ts)[<<1, Len(ts)>>]

\* Unary operators follow a bracket or an operator that binds less tightly:
\* "5 - NOT 3" and "- - 1" are beyond the two stacks.
AxClean(ts) ==
  \A k \in 2..Len(ts) :
    AxUnaryAt(ts, k) /\ AxIsOp(ts, k - 1) =>
      AxBinds(AxOpAt(ts, k - 1)) > AxBinds(AxOpAt(ts, k))

AxExpression == IF axTyped # <<>> /\ Last(axTyped).t = "end" THEN Front(axTyped) ELSE axTyped

\* An expression that the assembler accepts has the value that its form gives it:
\* precedence, grouping from the left and brackets (push_and_apply_operator).
AxValueRight ==
  axPc = "value" /\ AxClean(AxExpression) => axVals = <<AxMeaning(AxExpression)>>

\* What it refuses, and what makes it call an operator that is not there, is not an
\* expression.
AxRefusesNonsense ==
  axPc \in {"error", "lost"} /\ AxClean(AxExpression) => AxMeaning(AxExpression) = AxBad

\* An expression is given its value or refused for a reason.
AxEvaluates == AxValueRight /\ AxRefusesNonsense
===============================================================================
