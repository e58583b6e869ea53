----------------------------- MODULE AsmExprProofs -----------------------------
(***************************************************************************)
(* Proofs about read_expression: that its stacks stay stacks, and that it  *)
(* finds what the expression is worth.                                     *)
(***************************************************************************)
EXTENDS AsmExpr, FiniteSetTheorems, SequenceTheorems, TLAPS

(***************************************************************************)
(* Induction over the natural numbers, for sets and for functions.         *)
(***************************************************************************)
Less == {ss \in Nat \X Nat : ss[1] < ss[2]}

\* The natural numbers have no infinite way down.
LEMMA LessWF == IsWellFoundedOn(Less, Nat)
<1>1. Less = OpToRel(<, Nat)
  BY Zenon DEF Less, OpToRel
<1>2. QED
  BY <1>1, NatLessThanWellFounded, Zenon

\* So every nonempty set of them has a least element.
LEMMA NatMin ==
  ASSUME NEW T \in SUBSET Nat, T # {}
  PROVE \E m \in T : \A k \in T : m <= k
<1>1. \A k \in T : k \in Nat
  OBVIOUS
<1>2. T \subseteq Nat
  OBVIOUS
<1>3. PICK m \in T : \A k \in T : ~ (<<k, m>> \in Less)
  BY <1>2, LessWF, WFMin, Zenon
<1>4. \A k \in T : ~ (k < m)
  BY <1>1, <1>3 DEF Less
<1>5. QED
  BY <1>1, <1>4

\* A set that holds 0 and each number up to n behind one of its own holds them all.
LEMMA UpTo ==
  ASSUME NEW n \in Nat, NEW G, 0 \in G, \A k \in 1..n : k - 1 \in G => k \in G
  PROVE  0..n \subseteq G
<1> DEFINE T == {k \in 0..n : k \notin G}
<1>1. CASE T = {}
  BY <1>1
<1>2. CASE T # {}
  <2>1. T \in SUBSET Nat
    OBVIOUS
  <2>2. PICK m \in T : \A k \in T : m <= k
    BY <1>2, <2>1, NatMin
  <2>3. m \in 1..n /\ m - 1 \in 0..n /\ m - 1 \notin T
    BY <2>2
  <2> QED
    BY <2>2, <2>3
<1> QED
  BY <1>1, <1>2

\* What it is for a function on 0..n to begin with init and go on with F.
Recursive(s, S, init, n, F) ==
  s \in [0..n -> S] /\ s[0] = init /\ \A k \in 1..n : s[k] = F[<<s[k - 1], k>>]

\* A function that is given at 0 and from each number to the next exists.
LEMMA PrimRec ==
  ASSUME NEW S, NEW init \in S, NEW n \in Nat, NEW F \in [S \X (1..n) -> S]
  PROVE  \E s : Recursive(s, S, init, n, F)
<1> DEFINE R(s, m) == s[0] = init /\ \A k \in 1..m : s[k] = F[<<s[k - 1], k>>]
           G == {m \in 0..n : \E s \in [0..m -> S] : R(s, m)}
<1>1. 0 \in G
  <2> DEFINE u == [k \in 0..0 |-> init]
  <2>1. u \in [0..0 -> S] /\ u[0] = init /\ \A k \in 1..0 : u[k] = F[<<u[k - 1], k>>]
    OBVIOUS
  <2> HIDE DEF u
  <2> QED
    BY <2>1
<1>2. ASSUME NEW m \in 1..n, m - 1 \in G
      PROVE  m \in G
  <2>1. PICK s \in [0..m - 1 -> S] : R(s, m - 1)
    BY <1>2
  <2> DEFINE t == [k \in 0..m |-> IF k = m THEN F[<<s[m - 1], m>>] ELSE s[k]]
  <2>2. s[m - 1] \in S
    OBVIOUS
  <2>3. F[<<s[m - 1], m>>] \in S
    BY <2>2
  <2>4. t \in [0..m -> S]
    BY <2>3
  <2>5. \A k \in 0..m - 1 : t[k] = s[k]
    OBVIOUS
  <2>6. \A k \in 1..m : t[k] = F[<<t[k - 1], k>>]
    <3> TAKE k \in 1..m
    <3>1. CASE k = m
      <4>1. t[m] = F[<<s[m - 1], m>>] /\ m - 1 \in 0..m - 1
        OBVIOUS
      <4> QED
        BY <2>5, <3>1, <4>1
    <3>2. CASE k # m
      <4>1. k \in 1..m - 1 /\ k - 1 \in 0..m - 1 /\ k \in 0..m - 1
        BY <3>2
      <4> QED
        BY <2>1, <2>5, <4>1
    <3> QED
      BY <3>1, <3>2
  <2>7. t[0] = init
    BY <2>1, <2>5
  <2> HIDE DEF t
  <2> QED
    BY <2>4, <2>6, <2>7
<1>3. 0..n \subseteq G
  BY <1>1, <1>2, UpTo
<1> QED
  BY <1>3 DEF Recursive

-----------------------------------------------------------------------------
(***************************************************************************)
(* The stacks, and what is put on them and taken from them.                *)
(***************************************************************************)
AxStack == {s \in [vals : Seq(AxValue), ops : Seq(AxOp), end : {"on", "error", "full", "lost", "value"}] :
              Len(s.vals) <= AxDepth /\ Len(s.ops) <= AxDepth}

AxInv ==
  /\ AxTypeOK /\ axVals \in Seq(AxValue) /\ axOps \in Seq(AxOp)

\* The powers of two.
LEMMA AxPowers ==
  /\ AxPow[0] = 1 /\ \A k \in 1..AxWidth : AxPow[k] = 2 * AxPow[k - 1]
  /\ \A k \in 0..AxWidth : AxPow[k] \in Nat \ {0}
<1> DEFINE F == [pk \in Nat \X (1..AxWidth) |-> 2 * pk[1]]
           Body(s) == [k \in 0..AxWidth |-> IF k = 0 THEN 1 ELSE 2 * s[k - 1]]
<1>1. AxWidth \in Nat
  BY AxAssumption
<1>2. F \in [Nat \X (1..AxWidth) -> Nat]
  OBVIOUS
<1>3. PICK s : Recursive(s, Nat, 1, AxWidth, F)
  <2> HIDE DEF F
  <2> QED
    BY <1>1, <1>2, PrimRec
<1>4. s[0] = 1 /\ s \in [0..AxWidth -> Nat] /\ \A k \in 1..AxWidth : s[k] = 2 * s[k - 1]
  <2>1. s[0] = 1 /\ s \in [0..AxWidth -> Nat] /\ \A k \in 1..AxWidth : s[k] = F[<<s[k - 1], k>>]
    BY <1>3 DEF Recursive
  <2>2. \A k \in 1..AxWidth : s[k - 1] \in Nat
    BY <1>1, <2>1
  <2> QED
    BY <2>1, <2>2
<1>5. s = Body(s)
  BY <1>1, <1>4
<1>6. AxPow = CHOOSE f : f = Body(f)
  BY Zenon DEF AxPow
<1>7. AxPow = Body(AxPow)
  BY <1>5, <1>6, Zenon
<1>8. AxPow[0] = 1 /\ \A k \in 1..AxWidth : AxPow[k] = 2 * AxPow[k - 1]
  BY <1>1, <1>7
<1> DEFINE G == {k \in 0..AxWidth : AxPow[k] \in Nat \ {0}}
<1>9. 0 \in G
  BY <1>1, <1>8
<1>10. \A k \in 1..AxWidth : k - 1 \in G => k \in G
  BY <1>1, <1>8
<1>11. 0..AxWidth \subseteq G
  <2> HIDE DEF G
  <2> QED
    BY <1>1, <1>9, <1>10, UpTo
<1> QED
  BY <1>8, <1>11

\* Words and stacks are not empty.
LEMMA AxModIs == AxMod \in Nat \ {0} /\ AxWidth \in Nat \ {0} /\ AxDepth \in Nat \ {0}
BY AxPowers, AxAssumption DEF AxMod

\* What bits make is a word.
LEMMA AxWordIs ==
  ASSUME NEW bits
  PROVE  AxWord(bits) \in 0..AxMod - 1
<1> DEFINE bit(k) == IF AxWidth - k \in bits THEN 1 ELSE 0
           F == [pk \in Nat \X (1..AxWidth) |-> 2 * pk[1] + bit(pk[2])]
           Body(s) == [k \in 0..AxWidth |-> IF k = 0 THEN 0 ELSE 2 * s[k - 1] + bit(k)]
           w == CHOOSE f : f = Body(f)
<1>1. AxWidth \in Nat
  BY AxAssumption
<1>2. F \in [Nat \X (1..AxWidth) -> Nat]
  OBVIOUS
<1>3. PICK s : Recursive(s, Nat, 0, AxWidth, F)
  <2> HIDE DEF F
  <2> QED
    BY <1>1, <1>2, PrimRec
<1>4. s[0] = 0 /\ s \in [0..AxWidth -> Nat] /\ \A k \in 1..AxWidth : s[k] = 2 * s[k - 1] + bit(k)
  <2>1. s[0] = 0 /\ s \in [0..AxWidth -> Nat] /\ \A k \in 1..AxWidth : s[k] = F[<<s[k - 1], k>>]
    BY <1>3 DEF Recursive
  <2>2. \A k \in 1..AxWidth : s[k - 1] \in Nat
    BY <1>1, <2>1
  <2> QED
    BY <2>1, <2>2
<1>5. s = Body(s)
  BY <1>1, <1>4
<1>6. AxWord(bits) = w[AxWidth]
  BY Zenon DEF AxWord
<1>7. w = Body(w)
  <2> HIDE DEF Body
  <2> QED
    BY <1>5, Zenon
<1> HIDE DEF w
<1>8. w[0] = 0 /\ \A k \in 1..AxWidth : w[k] = 2 * w[k - 1] + bit(k)
  BY <1>1, <1>7
<1> DEFINE G == {k \in 0..AxWidth : w[k] \in 0..AxPow[k] - 1}
<1>9. 0 \in G
  BY <1>1, <1>8, AxPowers
<1>10. ASSUME NEW k \in 1..AxWidth, k - 1 \in G
       PROVE  k \in G
  <2>1. k \in 0..AxWidth /\ k - 1 \in 0..AxWidth /\ w[k - 1] \in 0..AxPow[k - 1] - 1
    BY <1>1, <1>10
  <2>2. AxPow[k - 1] \in Nat \ {0} /\ AxPow[k] = 2 * AxPow[k - 1]
    BY <2>1, AxPowers
  <2>3. w[k] = 2 * w[k - 1] + bit(k)
    BY <1>8
  <2>4. bit(k) \in {0, 1}
    OBVIOUS
  <2> HIDE DEF bit
  <2> QED
    BY <2>1, <2>2, <2>3, <2>4
<1>11. 0..AxWidth \subseteq G
  <2> HIDE DEF G
  <2> QED
    BY <1>1, <1>9, <1>10, UpTo
<1> QED
  BY <1>1, <1>6, <1>11 DEF AxMod

\* The callbacks give words or what is not known.
LEMMA AxApplyIs ==
  ASSUME NEW o \in AxOp \ {"PAR"}, NEW l \in AxValue, NEW r \in AxValue
  PROVE  AxApply(o, l, r) \in AxValue
<1> DEFINE M == AxMod
<1>1. M \in Nat \ {0} /\ AxAny = M
  BY AxModIs DEF AxAny
<1>2. AxAny \in AxValue /\ 0..M - 1 \subseteq AxValue
  BY <1>1 DEF AxValue
<1>3. CASE AxAny \in {l, r} \/ (o \in {"DIV", "MOD"} /\ r = 0) \/ (o \in {"SHL", "SHR"} /\ r >= AxWidth)
  <2>1. AxApply(o, l, r) = AxAny
    BY <1>3 DEF AxApply
  <2> QED
    BY <1>2, <2>1
<1>4. CASE ~(AxAny \in {l, r} \/ (o \in {"DIV", "MOD"} /\ r = 0) \/ (o \in {"SHL", "SHR"} /\ r >= AxWidth))
  <2>1. l \in 0..M - 1 /\ r \in 0..M - 1
    BY <1>1, <1>4 DEF AxValue
  <2> HIDE DEF M
  <2>2. CASE o \in {"ADD", "SUB", "NEG", "NOT", "MUL"}
    <3>1. l + r \in Int /\ l - r \in Int /\ 0 - r \in Int /\ l * r \in Int /\ M - 1 - r \in 0..M - 1
      BY <1>1, <2>1
    <3>2. \A n \in Int : n % M \in 0..M - 1
      BY <1>1
    <3>3. AxApply(o, l, r) \in {(l + r) % M, (l - r) % M, (0 - r) % M, M - 1 - r, (l * r) % M}
      BY <1>4, <2>2 DEF AxApply, M
    <3> HIDE DEF AxValue
    <3> QED
      BY <1>2, <3>1, <3>2, <3>3
  <2>3. CASE o \in {"DIV", "MOD"}
    <3>1. r # 0 /\ r \in Nat /\ l \in Nat
      BY <1>1, <1>4, <2>1, <2>3
    <3>2. l \div r \in 0..l /\ l % r \in 0..r - 1
      BY <3>1
    <3>3. l \div r \in 0..M - 1 /\ l % r \in 0..M - 1
      BY <1>1, <2>1, <3>2
    <3>4. AxApply(o, l, r) \in {l \div r, l % r}
      BY <1>4, <2>3 DEF AxApply
    <3> QED
      BY <1>2, <3>3, <3>4
  <2>4. CASE o \in {"SHL", "SHR", "AND", "OR", "XOR"}
    <3>1. \E bits : AxApply(o, l, r) = AxWord(bits)
      BY <1>4, <2>4 DEF AxApply
    <3> QED
      BY <1>2, <3>1, AxWordIs DEF M
  <2> QED
    BY <2>2, <2>3, <2>4 DEF AxOp
<1> QED
  BY <1>3, <1>4

\* An operator taken from its stack and applied leaves stacks within their bounds.
LEMMA AxAppliedIs ==
  ASSUME NEW s \in AxStack, NEW o \in AxOp
  PROVE  AxApplied(s, o) \in AxStack
<1>1. /\ s.vals \in Seq(AxValue) /\ s.ops \in Seq(AxOp) /\ Len(s.vals) <= AxDepth /\ Len(s.ops) <= AxDepth
      /\ s.end \in {"on", "error", "full", "lost", "value"}
  BY DEF AxStack
<1>2. \A e \in {"error", "lost"} : [s EXCEPT !.end = e] \in AxStack
  BY DEF AxStack
<1>3. CASE s.end # "on" \/ s.vals = <<>> \/ (o \notin AxUnary /\ Len(s.vals) = 1) \/ o = "PAR"
  BY <1>2, <1>3 DEF AxApplied
<1>4. CASE ~(s.end # "on" \/ s.vals = <<>> \/ (o \notin AxUnary /\ Len(s.vals) = 1) \/ o = "PAR")
  <2> DEFINE v    == s.vals
             rest == IF o \in AxUnary THEN Front(v) ELSE Front(Front(v))
             left == IF o \in AxUnary THEN 0 ELSE v[Len(v) - 1]
             x    == AxApply(o, left, Last(v))
  <2>1. AxApplied(s, o) = [s EXCEPT !.vals = Append(rest, x)]
    BY <1>4 DEF AxApplied
  <2>2. Len(v) \in Nat \ {0} /\ Last(v) = v[Len(v)] /\ Len(v) <= AxDepth
    BY <1>1, <1>4 DEF Last
  <2>3. Last(v) \in AxValue /\ Front(v) \in Seq(AxValue) /\ Len(Front(v)) = Len(v) - 1
    <3>1. Front(v) = SubSeq(v, 1, Len(v) - 1)
      BY DEF Front
    <3> QED
      BY <1>1, <2>2, <3>1
  <2>4. o \notin AxUnary => /\ Front(Front(v)) \in Seq(AxValue) /\ Len(Front(Front(v))) = Len(v) - 2
                            /\ v[Len(v) - 1] \in AxValue
    <3> SUFFICES ASSUME o \notin AxUnary
                 PROVE  /\ Front(Front(v)) \in Seq(AxValue) /\ Len(Front(Front(v))) = Len(v) - 2
                        /\ v[Len(v) - 1] \in AxValue
      OBVIOUS
    <3>1. Len(v) # 1
      BY <1>4
    <3>2. PICK f : f = Front(v)
      OBVIOUS
    <3>3. PICK m : m = Len(v)
      OBVIOUS
    <3>4. m \in Nat /\ m > 1
      <4>1. m \in Nat \ {0} /\ m # 1
        BY <2>2, <3>1, <3>3, Zenon
      <4> QED
        BY <4>1
    <3>5. f \in Seq(AxValue) /\ Len(f) = m - 1
      <4> HIDE DEF v
      <4> QED
        BY <2>3, <3>2, <3>3
    <3>6. Front(f) = SubSeq(f, 1, Len(f) - 1)
      BY DEF Front
    <3>7. Front(f) \in Seq(AxValue) /\ Len(Front(f)) = m - 2
      BY <3>4, <3>5, <3>6
    <3>8. v[m - 1] \in AxValue
      <4>1. v \in Seq(AxValue)
        BY <1>1
      <4> HIDE DEF v
      <4> QED
        BY <3>3, <3>4, <4>1
    <3> QED
      BY <3>2, <3>3, <3>7, <3>8
  <2>5. 0 \in AxValue /\ o \in AxOp \ {"PAR"} /\ AxDepth \in Nat
    BY <1>4, AxModIs DEF AxValue, AxAny
  <2>6. rest \in Seq(AxValue) /\ Len(rest) <= Len(v) - 1 /\ left \in AxValue
    BY <2>2, <2>3, <2>4, <2>5
  <2>7. x \in AxValue
    BY <2>3, <2>5, <2>6, AxApplyIs
  <2>8. Append(rest, x) \in Seq(AxValue) /\ Len(Append(rest, x)) <= AxDepth
    <3> HIDE DEF rest, x, v
    <3> QED
      BY <2>2, <2>5, <2>6, <2>7
  <2> HIDE DEF rest, x, v
  <2> QED
    BY <1>1, <2>1, <2>8 DEF AxStack
<1> QED
  BY <1>3, <1>4

\* Operators that are taken off the stack leave stacks.
LEMMA AxUnstackIs ==
  ASSUME NEW s \in AxStack, NEW goes
  PROVE  AxUnstack(s, goes) \in AxStack
<1> DEFINE n == Len(s.ops)
           Took(p, k) == IF p.ops # <<>> /\ p.end = "on" /\ Len(p.ops) = Len(s.ops) - k + 1 /\ Last(p.ops) \in goes
                         THEN AxApplied([p EXCEPT !.ops = Front(@)], Last(p.ops)) ELSE p
           F == [pk \in AxStack \X (1..n) |-> Took(pk[1], pk[2])]
           Body(u) == [k \in 0..n |-> IF k = 0 THEN s ELSE Took(u[k - 1], k)]
           w == CHOOSE u : u = Body(u)
<1>1. n \in Nat
  BY DEF AxStack
<1>2. ASSUME NEW p \in AxStack, NEW k \in 1..n
      PROVE  Took(p, k) \in AxStack
  <2>1. CASE p.ops # <<>>
    <3>1. /\ p.ops \in Seq(AxOp) /\ Len(p.ops) \in Nat \ {0} /\ Last(p.ops) = p.ops[Len(p.ops)]
          /\ Front(p.ops) = SubSeq(p.ops, 1, Len(p.ops) - 1) /\ Len(p.ops) <= AxDepth
      BY <2>1 DEF AxStack, Last, Front
    <3>2. Last(p.ops) \in AxOp /\ Front(p.ops) \in Seq(AxOp) /\ Len(Front(p.ops)) <= AxDepth
      BY <3>1, AxModIs
    <3>3. [p EXCEPT !.ops = Front(@)] \in AxStack
      BY <3>2 DEF AxStack
    <3> QED
      BY <3>2, <3>3, AxAppliedIs
  <2>2. CASE p.ops = <<>>
    BY <2>2
  <2> QED
    BY <2>1, <2>2
<1>3. AxUnstack(s, goes) = w[n]
  BY Zenon DEF AxUnstack
<1> HIDE DEF n, Took
<1>4. F \in [AxStack \X (1..n) -> AxStack]
  BY <1>2
<1>5. PICK u : Recursive(u, AxStack, s, n, F)
  <2> HIDE DEF F
  <2> QED
    BY <1>1, <1>4, PrimRec
<1>6. u[0] = s /\ u \in [0..n -> AxStack] /\ \A k \in 1..n : u[k] = Took(u[k - 1], k)
  <2>1. u[0] = s /\ u \in [0..n -> AxStack] /\ \A k \in 1..n : u[k] = F[<<u[k - 1], k>>]
    BY <1>5 DEF Recursive
  <2>2. \A k \in 1..n : u[k - 1] \in AxStack
    BY <1>1, <2>1
  <2> QED
    BY <2>1, <2>2
<1>7. u = Body(u)
  BY <1>1, <1>6
<1>8. w = Body(w)
  <2> HIDE DEF Body
  <2> QED
    BY <1>7, Zenon
<1> HIDE DEF w
<1>9. w[0] = s /\ \A k \in 1..n : w[k] = Took(w[k - 1], k)
  BY <1>1, <1>8
<1> DEFINE G == {k \in 0..n : w[k] \in AxStack}
<1>10. 0 \in G
  BY <1>1, <1>9
<1>11. \A k \in 1..n : k - 1 \in G => k \in G
  BY <1>1, <1>2, <1>9
<1>12. 0..n \subseteq G
  <2> HIDE DEF G
  <2> QED
    BY <1>1, <1>10, <1>11, UpTo
<1>13. n \in G
  <2> HIDE DEF G
  <2> QED
    BY <1>1, <1>12
<1> QED
  BY <1>3, <1>13

\* The invariant holds where the new stacks are within their bounds.
LEMMA AxBecomesIs ==
  ASSUME AxInv, NEW s \in AxStack, NEW seen \in BOOLEAN, AxBecomes(s, seen)
  PROVE  AxInv'
<1>1. axVals' = s.vals /\ axOps' = s.ops /\ axSeen' = seen /\ axPc' \in {axPc, s.end}
      /\ (s.end = "on" => axPc' = axPc)
  BY DEF AxBecomes
<1>2. /\ s.vals \in Seq(AxValue) /\ s.ops \in Seq(AxOp) /\ Len(s.vals) <= AxDepth /\ Len(s.ops) <= AxDepth
      /\ s.end \in {"on", "error", "full", "lost", "value"}
  BY DEF AxStack
<1>3. axPc' \in {"off", "read", "value", "error", "full", "lost"}
  <2>1. axPc \in {"off", "read", "value", "error", "full", "lost"}
    BY DEF AxInv, AxTypeOK
  <2> QED
    BY <1>2, <2>1 DEF AxBecomes
<1>4. (\A i \in 1..Len(axVals') : axVals'[i] \in AxValue) /\ (\A i \in 1..Len(axOps') : axOps'[i] \in AxOp)
  BY <1>1, <1>2
<1>5. Len(axVals') <= AxDepth /\ Len(axOps') <= AxDepth
  BY <1>1, <1>2
<1> QED
  BY <1>1, <1>2, <1>3, <1>4, <1>5 DEF AxInv, AxTypeOK

\* The stacks of the variables are within their bounds, whatever the reading ends with.
LEMMA AxStacksAre ==
  ASSUME AxInv
  PROVE  AxStacks \in AxStack /\ axSeen \in BOOLEAN /\ \A e \in {"full", "error", "value"} : [AxStacks EXCEPT !.end = e] \in AxStack
BY DEF AxInv, AxTypeOK, AxStacks, AxStack

\* push_operator stays within its stack.
LEMMA AxPushOpIs ==
  ASSUME AxInv, NEW s \in AxStack, NEW o \in AxOp, NEW seen \in BOOLEAN, AxPushOp(s, o, seen)
  PROVE  AxInv'
<1> DEFINE t == IF s.end # "on" THEN s
                ELSE IF Len(s.ops) = AxDepth THEN [s EXCEPT !.end = "full"]
                ELSE [s EXCEPT !.ops = Append(@, o)]
<1>1. AxBecomes(t, seen)
  BY DEF AxPushOp
<1>2. s.ops \in Seq(AxOp) /\ Len(s.ops) <= AxDepth /\ AxDepth \in Nat
  BY AxModIs DEF AxStack
<1>3. [s EXCEPT !.end = "full"] \in AxStack
  BY DEF AxStack
<1>4. Len(s.ops) # AxDepth => [s EXCEPT !.ops = Append(@, o)] \in AxStack
  <2>1. Len(s.ops) # AxDepth => Append(s.ops, o) \in Seq(AxOp) /\ Len(Append(s.ops, o)) <= AxDepth
    BY <1>2
  <2> QED
    BY <2>1 DEF AxStack
<1>5. t \in AxStack
  BY <1>3, <1>4
<1> HIDE DEF t
<1> QED
  BY <1>1, <1>5, AxBecomesIs

\* A token of the expression that is no operator, and an operator.
LEMMA AxErrorIs ==
  ASSUME AxInv, AxError
  PROVE  AxInv'
BY DEF AxInv, AxTypeOK, AxError

\* read_expression keeps the invariant over an operator or a name.
LEMMA AxOperatorIs ==
  ASSUME AxInv, NEW t \in AxTokens \ {"(", ")", "end"}, AxOperator(t)
  PROVE  AxInv'
<1>1. AxNamed(t) \in AxOp
  <2>1. t \in {"+", "-", "*", "/", "MOD", "SHL", "SHR", "NOT", "AND", "OR", "XOR"}
    BY AxAssumption
  <2> QED
    BY <2>1 DEF AxNamed, AxOp
<1>2. PICK o \in AxOp : o = AxNamed(t)
  BY <1>1
<1>3. CASE AxBecomes(AxStacks, FALSE)
  BY <1>3, AxStacksAre, AxBecomesIs
<1>4. CASE AxError
  BY <1>4, AxErrorIs
<1>5. CASE AxPush(o)
  <2>1. PICK goes : AxPushOp(AxUnstack(AxStacks, goes), o, FALSE)
    BY <1>5 DEF AxPush
  <2>2. PICK s : s = AxUnstack(AxStacks, goes)
    OBVIOUS
  <2>3. s \in AxStack
    BY <2>2, AxStacksAre, AxUnstackIs
  <2> QED
    BY <2>1, <2>2, <2>3, AxPushOpIs
<1> QED
  BY <1>2, <1>3, <1>4, <1>5 DEF AxOperator

\* Over any token.
LEMMA AxReadIs ==
  ASSUME AxInv, NEW t \in AxTokens, AxRead(t)
  PROVE  AxInv'
<1>1. CASE t \notin {"(", ")", "end"}
  BY <1>1, AxOperatorIs DEF AxRead
<1>2. CASE t = "("
  <2>1. CASE AxError
    BY <2>1, AxErrorIs
  <2>2. CASE AxPushOp(AxStacks, "PAR", FALSE)
    <3>1. PICK s \in AxStack, o \in AxOp : s = AxStacks /\ o = "PAR"
      BY AxStacksAre DEF AxOp
    <3> QED
      BY <2>2, <3>1, AxPushOpIs
  <2>3. AxOpen
    BY <1>2 DEF AxRead
  <2> QED
    BY <2>1, <2>2, <2>3 DEF AxOpen
<1>3. CASE t = ")"
  <2>1. PICK s : s = AxUnstack(AxStacks, AxOp \ {"PAR"})
    OBVIOUS
  <2>2. s \in AxStack
    BY <2>1, AxStacksAre, AxUnstackIs
  <2>3. AxClose
    BY <1>3 DEF AxRead
  <2>4. CASE AxError
    BY <2>4, AxErrorIs
  <2>5. CASE ~AxError
    <3>1. /\ AxBecomes(IF s.end = "on" THEN [s EXCEPT !.ops = Front(@)] ELSE s, TRUE)
          /\ ~(s.ops = <<>> /\ s.end = "on")
      BY <2>1, <2>3, <2>5 DEF AxClose
    <3> DEFINE u == IF s.end = "on" THEN [s EXCEPT !.ops = Front(@)] ELSE s
    <3>2. s.ops # <<>> => [s EXCEPT !.ops = Front(@)] \in AxStack
      <4>1. SUFFICES ASSUME s.ops # <<>> PROVE [s EXCEPT !.ops = Front(@)] \in AxStack
        OBVIOUS
      <4>2. s.ops \in Seq(AxOp) /\ Len(s.ops) <= AxDepth /\ AxDepth \in Nat /\ Front(s.ops) = SubSeq(s.ops, 1, Len(s.ops) - 1)
        BY <2>2, AxModIs DEF AxStack, Front
      <4>3. Front(s.ops) \in Seq(AxOp) /\ Len(Front(s.ops)) <= AxDepth
        BY <4>1, <4>2
      <4> QED
        BY <2>2, <4>3 DEF AxStack
    <3>3. u \in AxStack
      BY <2>2, <3>1, <3>2
    <3>4. AxBecomes(u, TRUE)
      BY <3>1
    <3> HIDE DEF u
    <3> QED
      BY <3>3, <3>4, AxBecomesIs
  <2> QED
    BY <2>4, <2>5
<1>4. CASE t = "end"
  <2>1. PICK s : s = AxUnstack(AxStacks, AxOp)
    OBVIOUS
  <2>2. s \in AxStack
    BY <2>1, AxStacksAre, AxUnstackIs
  <2>3. AxEnd
    BY <1>4 DEF AxRead
  <2> DEFINE u == [s EXCEPT !.end = IF @ # "on" THEN @ ELSE IF Len(s.vals) = 1 THEN "value" ELSE "error"]
  <2>4. AxBecomes(u, axSeen)
    BY <2>1, <2>3 DEF AxEnd
  <2>5. u \in AxStack
    BY <2>2 DEF AxStack
  <2>6. axSeen \in BOOLEAN
    BY AxStacksAre
  <2> HIDE DEF u
  <2> QED
    BY <2>4, <2>5, <2>6, AxBecomesIs
<1> QED
  BY <1>1, <1>2, <1>3, <1>4

\* And over a number.
LEMMA AxReadNumberIs ==
  ASSUME AxInv, NEW n \in AxNumbers, AxReadNumber(n)
  PROVE  AxInv'
<1>1. CASE AxError
  BY <1>1, AxErrorIs
<1>2. CASE ~AxError
  <2> DEFINE s == IF Len(axVals) = AxDepth THEN [AxStacks EXCEPT !.end = "full"]
                  ELSE [AxStacks EXCEPT !.vals = Append(@, n)]
  <2>1. AxBecomes(s, TRUE)
    BY <1>2 DEF AxReadNumber, AxNumber
  <2>2. n \in AxValue
    BY AxAssumption, AxModIs DEF AxValue, AxAny
  <2>3. axVals \in Seq(AxValue) /\ Len(axVals) <= AxDepth /\ AxDepth \in Nat
    BY AxModIs DEF AxInv, AxTypeOK
  <2>4. Len(axVals) # AxDepth => Append(axVals, n) \in Seq(AxValue) /\ Len(Append(axVals, n)) <= AxDepth
    BY <2>2, <2>3
  <2>5. Len(axVals) # AxDepth => [AxStacks EXCEPT !.vals = Append(@, n)] \in AxStack
    <3>1. AxStacks.vals = axVals /\ AxStacks \in AxStack
      BY AxStacksAre DEF AxStacks
    <3> QED
      BY <2>4, <3>1 DEF AxStack
  <2>6. s \in AxStack
    BY <2>5, AxStacksAre
  <2> HIDE DEF s
  <2> QED
    BY <2>1, <2>6, AxBecomesIs
<1> QED
  BY <1>1, <1>2

\* The stacks are empty at first.
LEMMA AxBegins ==
  ASSUME AxStart \/ AxOff
  PROVE  AxInv
<1>1. <<>> \in Seq(AxValue) /\ <<>> \in Seq(AxOp) /\ Len(<<>>) = 0 /\ 0 <= AxDepth
  BY AxModIs
<1>2. axVals = <<>> /\ axOps = <<>> /\ axPc \in {"off", "read"}
  BY DEF AxStart, AxOff, AxAt
<1>3. axSeen \in BOOLEAN
  BY DEF AxStart, AxOff, AxAt
<1> QED
  BY <1>1, <1>2, <1>3 DEF AxInv, AxTypeOK

\* The stacks stay stacks.
LEMMA ExpressionTyped == (AxStart \/ AxOff) /\ [][AxNext]_axVars => []AxTypeOK
<1>1. AxStart \/ AxOff => AxInv
  BY AxBegins
<1>2. AxInv /\ [AxNext]_axVars => AxInv'
  <2> SUFFICES ASSUME AxInv, [AxNext]_axVars PROVE AxInv'
    OBVIOUS
  <2>1. CASE UNCHANGED axVars
    BY <2>1 DEF axVars, AxInv, AxTypeOK
  <2> QED
    BY <2>1, AxReadIs, AxReadNumberIs DEF AxNext
<1>3. AxInv => AxTypeOK
  BY DEF AxInv
<1> QED
  BY <1>1, <1>2, <1>3, PTL

(***************************************************************************)
(* What an expression is worth: AxMeaning, by its form, and what the two   *)
(* stacks hold of it (AxFrames) while it is read.                          *)
(***************************************************************************)
\* What an expression may be written with.
AxSigns == {"number", "+", "-", "*", "/", "MOD", "SHL", "SHR", "NOT", "AND", "OR", "XOR", "(", ")"}
AxText  == Seq([t : AxSigns, n : AxValue])

\* A set of numbers that has a bound has a least and a greatest one.
LEMMA AxExtremes ==
  ASSUME NEW i \in Nat, NEW j \in Nat, NEW S \in SUBSET (i..j), S # {}
  PROVE  /\ Min(S) \in S /\ \A k \in S : Min(S) <= k
         /\ Max(S) \in S /\ \A k \in S : k <= Max(S)
<1>1. \A k \in S : k \in Nat /\ k <= j
  OBVIOUS
<1>2. \E m \in S : \A k \in S : m <= k
  <2>1. S \in SUBSET Nat
    BY <1>1
  <2> QED
    BY ONLY <2>1, NatMin, S # {}
<1>3. \E m \in S : \A k \in S : k <= m
  <2> DEFINE T == {j - k : k \in S}
  <2>1. T \in SUBSET Nat /\ T # {}
    <3>1. PICK k \in S : TRUE
      OBVIOUS
    <3>2. j - k \in T
      OBVIOUS
    <3>3. T \in SUBSET Nat
      BY <1>1
    <3> QED
      BY <3>2, <3>3
  <2>2. PICK d \in T : \A k \in T : d <= k
    BY <2>1, NatMin
  <2>3. PICK m \in S : d = j - m
    BY <2>2
  <2>4. \A k \in S : d <= j - k
    BY <2>2
  <2>5. \A k \in S : k <= m
    BY <1>1, <2>3, <2>4
  <2> QED
    BY <2>5
<1>4. Min(S) \in S /\ \A k \in S : Min(S) <= k
  BY <1>2 DEF Min
<1>5. Max(S) \in S /\ \A k \in S : k <= Max(S)
  <2>1. \E m \in S : \A k \in S : m >= k
    BY <1>1, <1>3
  <2>2. Max(S) \in S /\ \A k \in S : Max(S) >= k
    BY <2>1 DEF Max
  <2> QED
    BY <1>1, <2>2
<1> QED
  BY <1>4, <1>5

\* An operator is unary or binary by how tightly it binds.
LEMMA AxOpIs ==
  ASSUME NEW ts \in AxText, NEW k \in 1..Len(ts), AxIsOp(ts, k)
  PROVE  /\ AxOpAt(ts, k) \in (AxOp \ {"PAR"}) \cup {"POS"}
         /\ AxUnaryAt(ts, k) => AxOpAt(ts, k) \in {"POS", "NEG", "NOT"} /\ AxBinds(AxOpAt(ts, k)) \in {-1, 0, 3}
         /\ ~AxUnaryAt(ts, k) => AxOpAt(ts, k) \in AxOp \ AxUnary /\ AxBinds(AxOpAt(ts, k)) \in {1, 2, 4, 5}
<1>1. ts[k].t \in AxSigns \ {"number", "(", ")"}
  <2>1. ts[k] \in [t : AxSigns, n : AxValue]
    BY ONLY ts \in AxText, k \in 1..Len(ts), ElementOfSeq DEF AxText
  <2> QED
    BY <2>1 DEF AxIsOp
<1>2. PICK s \in AxSigns \ {"number", "(", ")"} : s = ts[k].t
  BY <1>1
<1>3. PICK u \in BOOLEAN : u = AxUnaryAt(ts, k)
  BY DEF AxUnaryAt
<1>4. PICK o : o = AxOpAt(ts, k)
  OBVIOUS
<1>5. o = CASE s = "-" -> (IF u THEN "NEG" ELSE "SUB") [] s = "+" -> (IF u THEN "POS" ELSE "ADD")
            [] s = "*" -> "MUL" [] s = "/" -> "DIV" [] s \notin {"+", "-", "*", "/"} -> s
  BY <1>2, <1>3, <1>4, Zenon DEF AxOpAt
<1>6. (s = "NOT" => u) /\ (s \notin {"NOT", "+", "-"} => ~u)
  BY <1>2, <1>3 DEF AxUnaryAt
<1>7. CASE u
  <2>1. s \in {"NOT", "+", "-"}
    BY <1>6, <1>7
  <2>2. o \in {"POS", "NEG", "NOT"}
    BY ONLY <1>5, <1>7, <2>1
  <2>3. AxBinds(o) \in {-1, 0, 3}
    BY ONLY <2>2 DEF AxBinds, AxPrecedence
  <2> QED
    BY <1>3, <1>4, <1>7, <2>2, <2>3 DEF AxOp
<1>8. CASE ~u
  <2>1. s # "NOT"
    BY <1>6, <1>8
  <2>2. o \in AxOp \ AxUnary
    BY ONLY <1>5, <1>8, <2>1, s \in AxSigns \ {"number", "(", ")"} DEF AxOp, AxUnary, AxSigns
  <2>3. AxBinds(o) \in {1, 2, 4, 5}
    BY ONLY <2>2 DEF AxBinds, AxPrecedence, AxOp, AxUnary
  <2> QED
    BY <1>3, <1>4, <1>8, <2>2, <2>3 DEF AxUnary
<1> QED
  BY <1>7, <1>8

\* How deep in brackets the tokens are.
LEMMA AxNestIs ==
  ASSUME NEW ts \in AxText
  PROVE  /\ AxNest(ts) \in [0..Len(ts) -> Int] /\ AxNest(ts)[0] = 0
         /\ \A k \in 1..Len(ts) :
              /\ ts[k].t = "(" => AxNest(ts)[k] = AxNest(ts)[k - 1] + 1
              /\ ts[k].t = ")" => AxNest(ts)[k] = AxNest(ts)[k - 1] - 1
              /\ ts[k].t \notin {"(", ")"} => AxNest(ts)[k] = AxNest(ts)[k - 1]
<1> DEFINE n == Len(ts)
           turn(k) == IF ts[k].t = "(" THEN 1 ELSE IF ts[k].t = ")" THEN -1 ELSE 0
           F == [pk \in Int \X (1..n) |-> pk[1] + turn(pk[2])]
           Body(d) == [k \in 0..n |-> IF k = 0 THEN 0 ELSE d[k - 1] + turn(k)]
           w == CHOOSE d : d = Body(d)
<1>1. n \in Nat
  BY DEF AxText
<1>2. \A k \in 1..n : turn(k) \in Int
  OBVIOUS
<1>3. AxNest(ts) = w
  BY Zenon DEF AxNest
<1> HIDE DEF turn
<1>4. F \in [Int \X (1..n) -> Int]
  BY <1>2
<1>5. PICK s : Recursive(s, Int, 0, n, F)
  <2>1. 0 \in Int
    OBVIOUS
  <2> HIDE DEF F, n
  <2> QED
    BY ONLY <1>1, <1>4, <2>1, PrimRec
<1>6. s[0] = 0 /\ s \in [0..n -> Int] /\ \A k \in 1..n : s[k] = s[k - 1] + turn(k)
  <2>1. s[0] = 0 /\ s \in [0..n -> Int] /\ \A k \in 1..n : s[k] = F[<<s[k - 1], k>>]
    BY <1>5 DEF Recursive
  <2>2. \A k \in 1..n : s[k - 1] \in Int
    BY <1>1, <2>1
  <2> QED
    BY <2>1, <2>2
<1>7. s = Body(s)
  BY <1>1, <1>6
<1>8. w = Body(w)
  <2> HIDE DEF Body
  <2> QED
    BY <1>7, Zenon
<1> HIDE DEF w
<1>9. w[0] = 0 /\ \A k \in 1..n : w[k] = w[k - 1] + turn(k)
  BY <1>1, <1>8
<1> DEFINE G == {k \in 0..n : w[k] \in Int}
<1>10. 0 \in G
  BY <1>1, <1>9
<1>11. \A k \in 1..n : k - 1 \in G => k \in G
  BY <1>1, <1>2, <1>9
<1>12. 0..n \subseteq G
  <2> HIDE DEF G
  <2> QED
    BY <1>1, <1>10, <1>11, UpTo
<1>13. \A k \in 1..n : w[k - 1] \in Int
  BY <1>1, <1>12
<1>14. w \in [0..n -> Int]
  <2>1. w = [k \in 0..n |-> w[k]]
    BY <1>8
  <2> QED
    BY <1>12, <2>1
<1>15. \A k \in 1..n : /\ ts[k].t = "(" => turn(k) = 1
                       /\ ts[k].t = ")" => turn(k) = -1
                       /\ ts[k].t \notin {"(", ")"} => turn(k) = 0
  BY DEF turn
<1> QED
  BY <1>3, <1>9, <1>13, <1>14, <1>15

\* Of the operators between two tokens, some are the loosest.
LEMMA AxLoosestIs ==
  ASSUME NEW ts \in AxText, NEW i \in Nat \ {0}, NEW j \in 1..Len(ts), NEW ops \in SUBSET (i..j), ops # {},
         \A k \in ops : AxIsOp(ts, k)
  PROVE  LET least == AxLoosest(ts, ops)
         IN  /\ least \subseteq ops /\ least # {}
             /\ Min(least) \in least /\ \A k \in least : Min(least) <= k
             /\ Max(least) \in least /\ \A k \in least : k <= Max(least)
<1> DEFINE B(k) == AxBinds(AxOpAt(ts, k))
           T == {5 - B(k) : k \in ops}
           least == AxLoosest(ts, ops)
<1>1. \A k \in ops : B(k) \in -1..5
  <2> TAKE k \in ops
  <2>1. k \in 1..Len(ts) /\ AxIsOp(ts, k)
    OBVIOUS
  <2>2. B(k) \in {-1, 0, 3} \/ B(k) \in {1, 2, 4, 5}
    BY <2>1, AxOpIs, Zenon
  <2> HIDE DEF B
  <2> QED
    BY <2>2
<1>2. least = {k \in ops : \A l \in ops : B(l) <= B(k)}
  BY DEF AxLoosest
<1> HIDE DEF least, B
<1>3. T \in SUBSET Nat
  BY <1>1
<1>4. T # {}
  <2>1. PICK k \in ops : TRUE
    OBVIOUS
  <2>2. 5 - B(k) \in T
    OBVIOUS
  <2> QED
    BY <2>2
<1>5. PICK m \in T : \A t \in T : m <= t
  BY <1>3, <1>4, NatMin
<1>6. PICK k \in ops : m = 5 - B(k)
  BY <1>5
<1>7. \A l \in ops : B(l) <= B(k)
  <2> TAKE l \in ops
  <2>1. m <= 5 - B(l)
    BY <1>5
  <2>2. PICK x \in Int, y \in Int : x = B(k) /\ y = B(l)
    BY <1>1
  <2>3. y <= x
    BY ONLY <1>6, <2>1, <2>2
  <2> QED
    BY ONLY <2>2, <2>3
<1>8. least \in SUBSET (i..j) /\ least # {} /\ least \subseteq ops
  BY <1>2, <1>7
<1>9. /\ Min(least) \in least /\ \A l \in least : Min(least) <= l
      /\ Max(least) \in least /\ \A l \in least : l <= Max(least)
  <2>1. i \in Nat /\ j \in Nat
    BY DEF AxText
  <2> QED
    BY ONLY <1>8, <2>1, AxExtremes
<1> QED
  BY <1>8, <1>9 DEF least

\* What a stretch is worth depends on its tokens, how deep they are, and on what shorter
\* stretches of it are worth.
LEMMA AxWorthLocal ==
  ASSUME NEW ts \in AxText, NEW us \in AxText, NEW i \in 1..Len(ts) + 1, NEW j \in 0..Len(ts),
         NEW d, NEW e, NEW f, NEW g,
         Len(ts) <= Len(us), \A k \in 1..Len(ts) : ts[k] = us[k], \A k \in 0..Len(ts) : d[k] = e[k],
         \A a \in 1..Len(ts) + 1, b \in 0..Len(ts) :
           i <= a /\ b <= j /\ b - a < j - i => f[<<a, b>>] = g[<<a, b>>]
  PROVE  AxWorth(ts, d, f, i, j) = AxWorth(us, e, g, i, j)
<1>1. Len(ts) \in Nat /\ Len(us) \in Nat
  BY DEF AxText
<1>2. CASE i > j
  BY <1>2 DEF AxWorth
<1>3. CASE i = j
  <2>1. ts[i] = us[i] /\ ~(i > j)
    BY <1>1, <1>3
  <2> QED
    BY <1>3, <2>1 DEF AxWorth
<1>4. CASE i < j
  <2>1. i \in 1..Len(ts) /\ j \in 1..Len(ts) /\ i - 1 \in 0..Len(ts) /\ ~(i > j) /\ i # j
        /\ i \in Nat \ {0}
    BY <1>1, <1>4
  <2>2. \A k \in i..j : k \in 1..Len(ts) /\ k \in 0..Len(ts) /\ (k # 1 => k - 1 \in 1..Len(ts))
    BY <1>1, <2>1
  <2>3. \A k \in i..j : ts[k] = us[k] /\ d[k] = e[k] /\ (k # 1 => ts[k - 1] = us[k - 1])
    BY <2>2
  <2>4. d[i - 1] = e[i - 1]
    BY <2>1
  <2>5. \A k \in i..j : (AxIsOp(ts, k) <=> AxIsOp(us, k)) /\ (AxUnaryAt(ts, k) <=> AxUnaryAt(us, k))
    <3> TAKE k \in i..j
    <3>1. ts[k] = us[k] /\ (k # 1 => ts[k - 1] = us[k - 1])
      BY <2>3
    <3>2. AxIsOp(ts, k) <=> AxIsOp(us, k)
      BY <3>1 DEF AxIsOp
    <3>3. AxUnaryAt(ts, k) <=> AxUnaryAt(us, k)
      BY <3>1 DEF AxUnaryAt
    <3> QED
      BY <3>2, <3>3
  <2>6. \A k \in i..j : AxOpAt(ts, k) = AxOpAt(us, k)
    BY <2>3, <2>5, Zenon DEF AxOpAt
  <2> DEFINE ops == AxOutside(ts, d, i, j)
             low == AxLoosest(ts, ops)
  <2>7. ops = AxOutside(us, e, i, j)
    BY <2>3, <2>4, <2>5 DEF AxOutside
  <2>8. ops \in SUBSET (i..j) /\ \A k \in ops : AxIsOp(ts, k)
    BY DEF AxOutside
  <2> HIDE DEF ops
  <2>9. low = AxLoosest(us, ops)
    <3>1. \A k \in ops : AxOpAt(ts, k) = AxOpAt(us, k)
      BY <2>6, <2>8
    <3> QED
      BY <3>1 DEF AxLoosest
  <2>10. CASE ops = {}
    <3>1. CASE i + 1 <= Len(ts) + 1
      <4>1. i + 1 \in 1..Len(ts) + 1 /\ j - 1 \in 0..Len(ts) /\ i <= i + 1 /\ j - 1 <= j /\ (j - 1) - (i + 1) < j - i
        BY <1>1, <2>1
      <4>2. f[<<i + 1, j - 1>>] = g[<<i + 1, j - 1>>]
        BY <4>1
      <4>3. ts[i] = us[i] /\ ts[j] = us[j] /\ \A k \in i..j - 1 : d[k] = e[k]
        BY <1>1, <2>1, <2>3
      <4>4. (\A k \in i..j - 1 : d[k] > d[i - 1]) <=> (\A k \in i..j - 1 : e[k] > e[i - 1])
        BY <2>4, <4>3
      <4> QED
        BY <2>1, <2>7, <2>10, <4>2, <4>3, <4>4, Zenon DEF AxWorth, ops
    <3> QED
      BY <1>1, <2>1, <3>1
  <2>11. CASE ops # {}
    <3>1. Min(low) \in i..j /\ Max(low) \in i..j
      <4>1. /\ low \subseteq ops /\ Min(low) \in low /\ Max(low) \in low
        BY ONLY <2>1, <2>8, <2>11, AxLoosestIs, ts \in AxText
      <4> QED
        BY <2>8, <4>1
    <3>2. PICK first \in i..j : first = Min(low)
      BY <3>1
    <3>3. PICK last \in i..j : last = Max(low)
      BY <3>1
    <3>4. /\ i + 1 \in 1..Len(ts) + 1 /\ j \in 0..Len(ts) /\ i <= i + 1 /\ j <= j /\ j - (i + 1) < j - i
          /\ i \in 1..Len(ts) + 1 /\ last - 1 \in 0..Len(ts) /\ i <= i /\ last - 1 <= j /\ (last - 1) - i < j - i
          /\ last + 1 \in 1..Len(ts) + 1 /\ i <= last + 1 /\ j - (last + 1) < j - i
      BY <1>1, <2>1
    <3>5. f[<<i + 1, j>>] = g[<<i + 1, j>>]
      BY <3>4
    <3>6. f[<<i, last - 1>>] = g[<<i, last - 1>>]
      BY <3>4
    <3>7. f[<<last + 1, j>>] = g[<<last + 1, j>>]
      BY <3>4
    <3>8. /\ AxOpAt(ts, i) = AxOpAt(us, i) /\ AxOpAt(ts, last) = AxOpAt(us, last)
          /\ AxUnaryAt(ts, first) <=> AxUnaryAt(us, first)
      BY <2>1, <2>5, <2>6
    <3>9. AxWorth(ts, d, f, i, j) =
            IF AxUnaryAt(ts, first) THEN (IF first = i THEN AxOf(AxOpAt(ts, i), 0, f[<<i + 1, j>>]) ELSE AxBad)
            ELSE AxOf(AxOpAt(ts, last), f[<<i, last - 1>>], f[<<last + 1, j>>])
      BY <2>1, <2>11, <3>2, <3>3, Zenon DEF AxWorth, ops, low
    <3>10. AxWorth(us, e, g, i, j) =
            IF AxUnaryAt(us, first) THEN (IF first = i THEN AxOf(AxOpAt(us, i), 0, g[<<i + 1, j>>]) ELSE AxBad)
            ELSE AxOf(AxOpAt(us, last), g[<<i, last - 1>>], g[<<last + 1, j>>])
      <4>1. first = Min(AxLoosest(us, AxOutside(us, e, i, j))) /\ last = Max(AxLoosest(us, AxOutside(us, e, i, j)))
        BY <2>7, <2>9, <3>2, <3>3
      <4>2. AxOutside(us, e, i, j) # {}
        BY <2>7, <2>11
      <4> QED
        BY ONLY <2>1, <4>1, <4>2, Zenon DEF AxWorth
    <3> QED
      BY ONLY <3>5, <3>6, <3>7, <3>8, <3>9, <3>10
  <2> QED
    BY <2>10, <2>11
<1> QED
  BY <1>2, <1>3, <1>4

\* What operators make of values is a value, and of what is no expression no expression.
LEMMA AxOfIs ==
  ASSUME NEW o \in (AxOp \ {"PAR"}) \cup {"POS"}, NEW l \in 0..AxBad, NEW r \in 0..AxBad
  PROVE  /\ AxOf(o, l, r) \in 0..AxBad
         /\ l \in AxValue /\ r \in AxValue =>
              /\ AxOf(o, l, r) \in AxValue
              /\ o # "POS" => AxOf(o, l, r) = AxApply(o, l, r)
              /\ o = "POS" => AxOf(o, l, r) = r
         /\ AxOf(o, l, r) # AxBad => l # AxBad /\ r # AxBad
<1>1. AxBad \notin AxValue /\ 0..AxBad = AxValue \cup {AxBad}
  BY AxModIs DEF AxBad, AxValue, AxAny
<1>2. CASE l = AxBad \/ r = AxBad
  <2>1. AxOf(o, l, r) = AxBad
    BY <1>2 DEF AxOf
  <2> QED
    BY <1>1, <1>2, <2>1
<1>3. CASE ~(l = AxBad \/ r = AxBad)
  <2>1. l \in AxValue /\ r \in AxValue
    BY <1>1, <1>3
  <2>2. CASE o = "POS"
    <3>1. AxOf(o, l, r) = r
      BY <1>3, <2>2 DEF AxOf
    <3> QED
      BY <1>1, <1>3, <2>1, <2>2, <3>1
  <2>3. CASE o # "POS"
    <3>1. AxOf(o, l, r) = AxApply(o, l, r)
      BY <1>3, <2>3 DEF AxOf
    <3>2. AxApply(o, l, r) \in AxValue
      BY <2>1, <2>3, AxApplyIs
    <3> QED
      BY <1>1, <1>3, <2>3, <3>1, <3>2
  <2> QED
    BY <2>2, <2>3
<1> QED
  BY <1>2, <1>3

\* The stretches of an expression.
AxStretches(ts) == (1..Len(ts) + 1) \X (0..Len(ts))

\* What they are worth is a value, or they are no expressions.
LEMMA AxWorthIs ==
  ASSUME NEW ts \in AxText, NEW d, NEW f \in [AxStretches(ts) -> 0..AxBad],
         NEW i \in 1..Len(ts) + 1, NEW j \in 0..Len(ts)
  PROVE  AxWorth(ts, d, f, i, j) \in 0..AxBad
<1>1. Len(ts) \in Nat /\ AxBad \in 0..AxBad /\ 0 \in 0..AxBad /\ AxValue \subseteq 0..AxBad
  BY AxModIs DEF AxText, AxBad, AxValue, AxAny
<1>2. CASE i > j
  BY <1>1, <1>2 DEF AxWorth
<1>3. CASE i = j
  <2>1. ts[i] \in [t : AxSigns, n : AxValue]
    <3>1. i \in 1..Len(ts)
      BY <1>1, <1>3
    <3> QED
      BY ONLY ts \in AxText, <3>1, ElementOfSeq DEF AxText
  <2>2. ts[i].n \in 0..AxBad
    BY <1>1, <2>1
  <2>3. AxWorth(ts, d, f, i, j) \in {ts[i].n, AxBad}
    BY <1>1, <1>3 DEF AxWorth
  <2> QED
    BY <1>1, <2>2, <2>3
<1>4. CASE i < j
  <2>1. i \in 1..Len(ts) /\ j \in 1..Len(ts) /\ i \in Nat \ {0} /\ ~(i > j) /\ i # j
    BY <1>1, <1>4
  <2>2. f[<<i + 1, j - 1>>] \in 0..AxBad /\ f[<<i + 1, j>>] \in 0..AxBad
    <3>1. <<i + 1, j - 1>> \in AxStretches(ts) /\ <<i + 1, j>> \in AxStretches(ts)
      BY <1>1, <2>1 DEF AxStretches
    <3> QED
      BY <3>1
  <2>3. PICK ops : ops = AxOutside(ts, d, i, j)
    OBVIOUS
  <2>4. PICK low : low = AxLoosest(ts, ops)
    OBVIOUS
  <2>5. ops \in SUBSET (i..j) /\ \A k \in ops : AxIsOp(ts, k)
    BY <2>3 DEF AxOutside
  <2>6. CASE ops = {}
    <3>1. AxWorth(ts, d, f, i, j) \in {f[<<i + 1, j - 1>>], AxBad}
      BY <2>1, <2>3, <2>6, Zenon DEF AxWorth
    <3> QED
      BY <1>1, <2>2, <3>1
  <2>7. CASE ops # {}
    <3>1. low \subseteq ops /\ Min(low) \in low /\ Max(low) \in low
      BY ONLY <2>1, <2>4, <2>5, <2>7, AxLoosestIs, ts \in AxText
    <3>2. PICK first \in ops, last \in ops : first = Min(low) /\ last = Max(low)
      BY <3>1
    <3>3. AxWorth(ts, d, f, i, j) =
            IF AxUnaryAt(ts, first) THEN (IF first = i THEN AxOf(AxOpAt(ts, i), 0, f[<<i + 1, j>>]) ELSE AxBad)
            ELSE AxOf(AxOpAt(ts, last), f[<<i, last - 1>>], f[<<last + 1, j>>])
      BY <2>1, <2>3, <2>4, <2>7, <3>2, Zenon DEF AxWorth
    <3>4. f[<<i, last - 1>>] \in 0..AxBad /\ f[<<last + 1, j>>] \in 0..AxBad
      <4>1. last \in i..j
        BY <2>5
      <4>2. <<i, last - 1>> \in AxStretches(ts) /\ <<last + 1, j>> \in AxStretches(ts)
        BY <1>1, <2>1, <4>1 DEF AxStretches
      <4> QED
        BY <4>2
    <3>5. \A k \in ops : AxOpAt(ts, k) \in (AxOp \ {"PAR"}) \cup {"POS"}
      <4> TAKE k \in ops
      <4>1. k \in 1..Len(ts) /\ AxIsOp(ts, k)
        BY <2>1, <2>5
      <4> QED
        BY <4>1, AxOpIs
    <3>6. first = i => AxOf(AxOpAt(ts, i), 0, f[<<i + 1, j>>]) \in 0..AxBad
      BY ONLY <1>1, <2>2, <3>2, <3>5, AxOfIs
    <3>7. AxOf(AxOpAt(ts, last), f[<<i, last - 1>>], f[<<last + 1, j>>]) \in 0..AxBad
      BY ONLY <3>2, <3>4, <3>5, AxOfIs
    <3> QED
      BY ONLY <1>1, <3>3, <3>6, <3>7
  <2> QED
    BY <2>6, <2>7
<1> QED
  BY <1>1, <1>2, <1>3, <1>4

\* The table of what they are worth exists.
LEMMA AxTableExists ==
  ASSUME NEW ts \in AxText, NEW d
  PROVE  \E f \in [AxStretches(ts) -> 0..AxBad] :
           f = [p \in AxStretches(ts) |-> AxWorth(ts, d, f, p[1], p[2])]
<1> DEFINE n == Len(ts)
           S == [AxStretches(ts) -> 0..AxBad]
           Next1(f) == [p \in AxStretches(ts) |-> AxWorth(ts, d, f, p[1], p[2])]
           none == [p \in AxStretches(ts) |-> AxBad]
           F == [fk \in S \X (1..n + 1) |-> Next1(fk[1])]
<1>1. n \in Nat /\ n + 1 \in Nat
  BY DEF AxText
<1>2. none \in S
  <2>1. AxBad \in 0..AxBad
    BY AxModIs DEF AxBad
  <2> QED
    BY <2>1
<1>3. ASSUME NEW f \in S
      PROVE  Next1(f) \in S
  <2>1. \A p \in AxStretches(ts) : p[1] \in 1..Len(ts) + 1 /\ p[2] \in 0..Len(ts)
    BY DEF AxStretches
  <2>2. \A p \in AxStretches(ts) : AxWorth(ts, d, f, p[1], p[2]) \in 0..AxBad
    BY <2>1, AxWorthIs
  <2> QED
    BY <2>2
<1> HIDE DEF S, Next1, none
<1>4. F \in [S \X (1..n + 1) -> S]
  BY <1>3
<1>5. PICK g : Recursive(g, S, none, n + 1, F)
  <2> HIDE DEF F, n
  <2> QED
    BY ONLY <1>1, <1>2, <1>4, PrimRec
<1>6. g[0] = none /\ g \in [0..n + 1 -> S] /\ \A k \in 1..n + 1 : g[k] = Next1(g[k - 1])
  <2>1. g[0] = none /\ g \in [0..n + 1 -> S] /\ \A k \in 1..n + 1 : g[k] = F[<<g[k - 1], k>>]
    BY <1>5 DEF Recursive
  <2>2. \A k \in 1..n + 1 : g[k - 1] \in S
    BY <1>1, <2>1
  <2> QED
    BY <2>1, <2>2
<1>7. \A k \in 1..n + 1 : \A i \in 1..n + 1, j \in 0..n : g[k][<<i, j>>] = AxWorth(ts, d, g[k - 1], i, j)
  <2> TAKE k \in 1..n + 1
  <2> TAKE i \in 1..n + 1, j \in 0..n
  <2>1. <<i, j>> \in AxStretches(ts)
    BY DEF AxStretches
  <2>2. g[k] = [p \in AxStretches(ts) |-> AxWorth(ts, d, g[k - 1], p[1], p[2])]
    BY <1>6 DEF Next1
  <2> QED
    BY <2>1, <2>2
<1> DEFINE Same(k) == \A i \in 1..n + 1, j \in 0..n : j - i < k - 1 => g[k][<<i, j>>] = g[k - 1][<<i, j>>]
           G == {k \in 0..n + 1 : k = 0 \/ Same(k)}
<1>8. ASSUME NEW k \in 1..n + 1, NEW i \in 1..n + 1, NEW j \in 0..n,
             \A a \in 1..n + 1, b \in 0..n : b - a < j - i => g[k][<<a, b>>] = g[k - 1][<<a, b>>]
      PROVE  AxWorth(ts, d, g[k], i, j) = AxWorth(ts, d, g[k - 1], i, j)
  <2>1. \A a \in 1..n + 1, b \in 0..n : i <= a /\ b <= j /\ b - a < j - i => g[k][<<a, b>>] = g[k - 1][<<a, b>>]
    BY <1>8
  <2>2. Len(ts) <= Len(ts)
    BY <1>1
  <2> QED
    BY ONLY <1>8, <2>1, <2>2, AxWorthLocal, ts \in AxText
<1>9. 0 \in G
  BY <1>1
<1>10. ASSUME NEW k \in 1..n + 1, k - 1 \in G
       PROVE  k \in G
  <2> SUFFICES ASSUME NEW i \in 1..n + 1, NEW j \in 0..n, j - i < k - 1
               PROVE  g[k][<<i, j>>] = g[k - 1][<<i, j>>]
    OBVIOUS
  <2>1. CASE k = 1
    <3>1. i > j /\ 1 \in 1..n + 1
      BY <1>1, <2>1
    <3>2. g[1][<<i, j>>] = AxBad
      <4>1. g[1][<<i, j>>] = AxWorth(ts, d, g[1 - 1], i, j)
        BY <1>7, <3>1
      <4> QED
        BY <3>1, <4>1 DEF AxWorth
    <3>3. g[0][<<i, j>>] = AxBad
      <4>1. <<i, j>> \in AxStretches(ts)
        BY DEF AxStretches
      <4> QED
        BY <1>6, <4>1 DEF none
    <3> QED
      BY <2>1, <3>2, <3>3
  <2>2. CASE k # 1
    <3>1. PICK h \in 1..n + 1 : h = k - 1 /\ k - 1 \in 1..n + 1
      BY <1>1, <2>2
    <3>2. Same(h)
      BY <1>10, <3>1
    <3>3. \A a \in 1..n + 1, b \in 0..n : b - a < j - i => g[h][<<a, b>>] = g[h - 1][<<a, b>>]
      <4> TAKE a \in 1..n + 1, b \in 0..n
      <4>1. b - a < j - i => b - a < h - 1
        BY <1>1, <3>1
      <4> QED
        BY <3>2, <4>1
    <3>4. AxWorth(ts, d, g[h], i, j) = AxWorth(ts, d, g[h - 1], i, j)
      BY ONLY <1>8, <3>3, h \in 1..n + 1, i \in 1..n + 1, j \in 0..n
    <3> QED
      BY <1>7, <3>1, <3>4
  <2> QED
    BY <2>1, <2>2
<1>11. 0..n + 1 \subseteq G
  <2> HIDE DEF G
  <2> QED
    BY ONLY <1>1, <1>9, <1>10, UpTo
<1>12. Same(n + 1) /\ n + 1 \in 1..n + 1
  BY <1>1, <1>11
<1>13. \A i \in 1..n + 1, j \in 0..n : AxWorth(ts, d, g[n + 1], i, j) = g[n + 1][<<i, j>>]
  <2> TAKE i \in 1..n + 1, j \in 0..n
  <2>1. \A a \in 1..n + 1, b \in 0..n : b - a < j - i => g[n + 1][<<a, b>>] = g[(n + 1) - 1][<<a, b>>]
    <3> TAKE a \in 1..n + 1, b \in 0..n
    <3>1. b - a < j - i => b - a < (n + 1) - 1
      BY <1>1
    <3> QED
      BY <1>12, <3>1
  <2>2. AxWorth(ts, d, g[n + 1], i, j) = AxWorth(ts, d, g[(n + 1) - 1], i, j)
    BY ONLY <1>8, <1>12, <2>1, i \in 1..n + 1, j \in 0..n
  <2> QED
    BY <1>7, <1>12, <2>2
<1>14. PICK f \in S : f = g[n + 1]
  BY <1>6, <1>12
<1>15. f = [p \in AxStretches(ts) |-> f[p]]
  BY DEF S
<1>16. \A p \in AxStretches(ts) : f[p] = AxWorth(ts, d, f, p[1], p[2])
  <2> TAKE p \in AxStretches(ts)
  <2>1. p = <<p[1], p[2]>> /\ p[1] \in 1..n + 1 /\ p[2] \in 0..n
    BY DEF AxStretches
  <2> QED
    BY <1>13, <1>14, <2>1
<1> QED
  BY <1>14, <1>15, <1>16 DEF S

\* And is the one that the definition means.
LEMMA AxTableIs ==
  ASSUME NEW ts \in AxText
  PROVE  \A i \in 1..Len(ts) + 1, j \in 0..Len(ts) :
           AxTable(ts)[<<i, j>>] = AxWorth(ts, AxNest(ts), AxTable(ts), i, j)
<1> DEFINE d == AxNest(ts)
           Body(f) == [p \in AxStretches(ts) |-> AxWorth(ts, d, f, p[1], p[2])]
           m == CHOOSE f : f = Body(f)
<1>1. AxTable(ts) = m
  BY Zenon DEF AxTable, AxStretches
<1>2. PICK f \in [AxStretches(ts) -> 0..AxBad] : f = Body(f)
  BY AxTableExists
<1>3. m = Body(m)
  <2> HIDE DEF Body
  <2> QED
    BY <1>2, Zenon
<1> HIDE DEF m
<1>4. \A i \in 1..Len(ts) + 1, j \in 0..Len(ts) : m[<<i, j>>] = AxWorth(ts, d, m, i, j)
  <2> TAKE i \in 1..Len(ts) + 1, j \in 0..Len(ts)
  <2>1. <<i, j>> \in AxStretches(ts)
    BY DEF AxStretches
  <2> QED
    BY <1>3, <2>1
<1> QED
  BY <1>1, <1>4

\* An expression and one that begins with it.
AxExtends(ts, us) == Len(ts) <= Len(us) /\ \A k \in 1..Len(ts) : ts[k] = us[k]

\* What is written behind an expression changes nothing about its tokens and stretches.
LEMMA AxGrows ==
  ASSUME NEW ts \in AxText, NEW us \in AxText, AxExtends(ts, us)
  PROVE  /\ \A k \in 0..Len(ts) : AxNest(ts)[k] = AxNest(us)[k]
         /\ \A k \in 1..Len(ts) : /\ AxOpAt(ts, k) = AxOpAt(us, k)
                                  /\ AxUnaryAt(ts, k) <=> AxUnaryAt(us, k)
                                  /\ AxIsOp(ts, k) <=> AxIsOp(us, k)
         /\ \A i \in 1..Len(ts) + 1, j \in 0..Len(ts) : AxTable(ts)[<<i, j>>] = AxTable(us)[<<i, j>>]
<1> DEFINE n == Len(ts)
<1>1. n \in Nat /\ Len(us) \in Nat /\ n <= Len(us) /\ \A k \in 1..n : ts[k] = us[k]
  BY DEF AxText, AxExtends
<1> DEFINE G == {k \in 0..n : AxNest(ts)[k] = AxNest(us)[k]}
<1>2. 0 \in G
  BY <1>1, AxNestIs
<1>3. ASSUME NEW k \in 1..n, k - 1 \in G
      PROVE  k \in G
  <2>1. k \in 1..Len(us) /\ ts[k] = us[k] /\ k \in 0..n
    BY <1>1
  <2>2. /\ ts[k].t = "(" => AxNest(ts)[k] = AxNest(ts)[k - 1] + 1
        /\ ts[k].t = ")" => AxNest(ts)[k] = AxNest(ts)[k - 1] - 1
        /\ ts[k].t \notin {"(", ")"} => AxNest(ts)[k] = AxNest(ts)[k - 1]
    BY AxNestIs
  <2>3. /\ us[k].t = "(" => AxNest(us)[k] = AxNest(us)[k - 1] + 1
        /\ us[k].t = ")" => AxNest(us)[k] = AxNest(us)[k - 1] - 1
        /\ us[k].t \notin {"(", ")"} => AxNest(us)[k] = AxNest(us)[k - 1]
    BY ONLY <2>1, us \in AxText, AxNestIs
  <2> QED
    BY <1>3, <2>1, <2>2, <2>3
<1>4. 0..n \subseteq G
  <2> HIDE DEF G, n
  <2> QED
    BY ONLY <1>1, <1>2, <1>3, UpTo
<1>5. \A k \in 0..n : AxNest(ts)[k] = AxNest(us)[k]
  BY <1>4
<1>6. \A k \in 1..n : /\ AxUnaryAt(ts, k) <=> AxUnaryAt(us, k)
                      /\ AxIsOp(ts, k) <=> AxIsOp(us, k)
  <2> TAKE k \in 1..n
  <2>1. ts[k] = us[k] /\ (k # 1 => ts[k - 1] = us[k - 1])
    BY <1>1
  <2> QED
    BY <2>1 DEF AxUnaryAt, AxIsOp
<1>7. \A k \in 1..n : AxOpAt(ts, k) = AxOpAt(us, k)
  BY <1>1, <1>6, Zenon DEF AxOpAt
<1> DEFINE H == {k \in 0..n : \A i \in 1..n + 1, j \in 0..n :
                                 j - i < k => AxTable(ts)[<<i, j>>] = AxTable(us)[<<i, j>>]}
<1>8. ASSUME NEW i \in 1..n + 1, NEW j \in 0..n
      PROVE  /\ AxTable(ts)[<<i, j>>] = AxWorth(ts, AxNest(ts), AxTable(ts), i, j)
             /\ AxTable(us)[<<i, j>>] = AxWorth(us, AxNest(us), AxTable(us), i, j)
  <2>1. i \in 1..Len(us) + 1 /\ j \in 0..Len(us)
    BY <1>1
  <2> QED
    BY <2>1, AxTableIs
<1>9. 0 \in H
  <2> SUFFICES ASSUME NEW i \in 1..n + 1, NEW j \in 0..n, j - i < 0
               PROVE  AxTable(ts)[<<i, j>>] = AxTable(us)[<<i, j>>]
    BY <1>1
  <2>1. i > j
    BY <1>1
  <2> QED
    BY <1>8, <2>1 DEF AxWorth
<1>10. ASSUME NEW k \in 1..n, k - 1 \in H
       PROVE  k \in H
  <2> SUFFICES ASSUME NEW i \in 1..n + 1, NEW j \in 0..n, j - i < k
               PROVE  AxTable(ts)[<<i, j>>] = AxTable(us)[<<i, j>>]
    BY <1>1
  <2>1. \A a \in 1..n + 1, b \in 0..n :
          i <= a /\ b <= j /\ b - a < j - i => AxTable(ts)[<<a, b>>] = AxTable(us)[<<a, b>>]
    <3> TAKE a \in 1..n + 1, b \in 0..n
    <3>1. b - a < j - i => b - a < k - 1
      BY <1>1
    <3> QED
      BY <1>10, <3>1
  <2>2. AxWorth(ts, AxNest(ts), AxTable(ts), i, j) = AxWorth(us, AxNest(us), AxTable(us), i, j)
    BY ONLY <1>1, <1>5, <2>1, ts \in AxText, us \in AxText, i \in 1..n + 1, j \in 0..n, AxWorthLocal
  <2> QED
    BY <1>8, <2>2
<1>11. 0..n \subseteq H
  <2> HIDE DEF H, n
  <2> QED
    BY ONLY <1>1, <1>9, <1>10, UpTo
<1>12. \A i \in 1..n + 1, j \in 0..n : AxTable(ts)[<<i, j>>] = AxTable(us)[<<i, j>>]
  <2> TAKE i \in 1..n + 1, j \in 0..n
  <2>1. n \in H
    BY <1>1, <1>11
  <2>2. CASE j - i < n
    BY <2>1, <2>2
  <2> QED
    BY <1>1, <2>2
<1> QED
  BY <1>5, <1>6, <1>7, <1>12

\* A stretch from i to j has the value v, and its operators outside of brackets bind at
\* least as tightly as b.
AxSeg(ts, i, j, b, v) ==
  /\ i \in 1..Len(ts) /\ j \in 1..Len(ts) /\ i <= j
  /\ v \in AxValue /\ AxTable(ts)[<<i, j>>] = v
  /\ AxNest(ts)[j] = AxNest(ts)[i - 1]
  /\ \A k \in i..j : AxNest(ts)[k] >= AxNest(ts)[i - 1]
  /\ \A k \in AxOutside(ts, AxNest(ts), i, j) : AxBinds(AxOpAt(ts, k)) <= b

\* A bound may be looser.
LEMMA AxSegLooser ==
  ASSUME NEW ts \in AxText, NEW i, NEW j, NEW b \in Int, NEW v, AxSeg(ts, i, j, b, v),
         NEW c \in Int, b <= c
  PROVE  AxSeg(ts, i, j, c, v)
<1>1. \A k \in AxOutside(ts, AxNest(ts), i, j) : AxBinds(AxOpAt(ts, k)) \in Int
  <2> TAKE k \in AxOutside(ts, AxNest(ts), i, j)
  <2>1. k \in 1..Len(ts) /\ AxIsOp(ts, k)
    BY DEF AxOutside, AxSeg
  <2>2. AxBinds(AxOpAt(ts, k)) \in {-1, 0, 3} \/ AxBinds(AxOpAt(ts, k)) \in {1, 2, 4, 5}
    BY <2>1, AxOpIs, Zenon
  <2> QED
    BY <2>2
<1>2. \A k \in AxOutside(ts, AxNest(ts), i, j) : AxBinds(AxOpAt(ts, k)) <= c
  <2> TAKE k \in AxOutside(ts, AxNest(ts), i, j)
  <2>1. AxBinds(AxOpAt(ts, k)) <= b
    BY DEF AxSeg
  <2>2. PICK x \in Int : x = AxBinds(AxOpAt(ts, k))
    BY <1>1
  <2> QED
    BY ONLY <2>1, <2>2, b \in Int, c \in Int, b <= c
<1> QED
  BY <1>2 DEF AxSeg

\* A stretch of an expression is one of every longer expression.
LEMMA AxSegGrows ==
  ASSUME NEW ts \in AxText, NEW us \in AxText, AxExtends(ts, us),
         NEW i, NEW j, NEW b, NEW v, AxSeg(ts, i, j, b, v)
  PROVE  AxSeg(us, i, j, b, v)
<1>1. i \in 1..Len(ts) /\ j \in 1..Len(ts) /\ i <= j /\ Len(ts) \in Nat /\ Len(us) \in Nat /\ Len(ts) <= Len(us)
  BY DEF AxSeg, AxExtends, AxText
<1>2. /\ i \in 1..Len(us) /\ j \in 1..Len(us) /\ i - 1 \in 0..Len(ts) /\ j \in 0..Len(ts)
      /\ i \in 1..Len(ts) + 1 /\ i..j \subseteq 1..Len(ts) /\ i..j \subseteq 0..Len(ts)
  BY <1>1
<1>3. /\ AxTable(us)[<<i, j>>] = AxTable(ts)[<<i, j>>] /\ AxNest(us)[i - 1] = AxNest(ts)[i - 1]
      /\ \A k \in i..j : AxNest(us)[k] = AxNest(ts)[k] /\ AxOpAt(us, k) = AxOpAt(ts, k) /\ (AxIsOp(ts, k) <=> AxIsOp(us, k))
  BY <1>2, AxGrows
<1>4. AxOutside(us, AxNest(us), i, j) = AxOutside(ts, AxNest(ts), i, j)
  BY <1>3 DEF AxOutside
<1>5. \A k \in AxOutside(us, AxNest(us), i, j) : AxBinds(AxOpAt(us, k)) <= b
  <2> TAKE k \in AxOutside(us, AxNest(us), i, j)
  <2>1. k \in i..j /\ AxBinds(AxOpAt(ts, k)) <= b
    BY <1>4 DEF AxSeg, AxOutside
  <2> QED
    BY <1>3, <2>1
<1>6. /\ \A k \in i..j : AxNest(us)[k] >= AxNest(us)[i - 1]
      /\ v \in AxValue /\ AxTable(us)[<<i, j>>] = v /\ AxNest(us)[j] = AxNest(us)[i - 1]
  <2>1. j \in i..j
    BY <1>1
  <2> QED
    BY <1>3, <2>1 DEF AxSeg
<1> QED
  BY <1>1, <1>2, <1>5, <1>6 DEF AxSeg

\* A token is a sign with a value.
LEMMA AxTokenIs ==
  ASSUME NEW ts \in AxText, NEW k \in 1..Len(ts)
  PROVE  ts[k].t \in AxSigns /\ ts[k].n \in AxValue
<1>1. ts[k] \in [t : AxSigns, n : AxValue]
  BY ONLY ts \in AxText, k \in 1..Len(ts), ElementOfSeq DEF AxText
<1> QED
  BY <1>1

\* A number is a stretch of its own.
LEMMA AxSegNumber ==
  ASSUME NEW ts \in AxText, NEW i \in 1..Len(ts), ts[i].t = "number"
  PROVE  AxSeg(ts, i, i, -2, ts[i].n)
<1>1. Len(ts) \in Nat /\ i \in 1..Len(ts) + 1 /\ i \in 0..Len(ts) /\ ~(i > i)
  BY DEF AxText
<1>2. AxTable(ts)[<<i, i>>] = AxWorth(ts, AxNest(ts), AxTable(ts), i, i)
  BY <1>1, AxTableIs
<1>3. AxWorth(ts, AxNest(ts), AxTable(ts), i, i) = ts[i].n
  BY <1>1 DEF AxWorth
<1>4. ts[i].n \in AxValue
  BY AxTokenIs
<1>5. AxNest(ts)[i] = AxNest(ts)[i - 1] /\ AxNest(ts)[i] \in Int
  <2>1. ts[i].t \notin {"(", ")"}
    OBVIOUS
  <2> QED
    BY <1>1, <2>1, AxNestIs
<1>6. \A k \in i..i : k = i
  BY <1>1
<1>7. AxOutside(ts, AxNest(ts), i, i) = {}
  BY <1>6 DEF AxOutside, AxIsOp
<1>8. \A k \in i..i : AxNest(ts)[k] >= AxNest(ts)[i - 1]
  BY <1>5, <1>6
<1> QED
  BY <1>1, <1>2, <1>3, <1>4, <1>5, <1>7, <1>8 DEF AxSeg

\* Brackets make one of the stretch between them.
LEMMA AxSegBracket ==
  ASSUME NEW ts \in AxText, NEW i \in 1..Len(ts), NEW j \in 1..Len(ts), NEW b, NEW v,
         ts[i].t = "(", ts[j].t = ")", AxSeg(ts, i + 1, j - 1, b, v)
  PROVE  AxSeg(ts, i, j, -2, v)
<1> DEFINE d == AxNest(ts)
<1>1. Len(ts) \in Nat /\ i + 1 <= j - 1 /\ i <= j /\ i # j /\ ~(i > j) /\ i \in 1..Len(ts) + 1 /\ j \in 0..Len(ts)
  BY DEF AxText, AxSeg
<1>2. d \in [0..Len(ts) -> Int] /\ d[i] = d[i - 1] + 1 /\ d[j] = d[j - 1] - 1
  BY AxNestIs
<1>3. /\ d[j - 1] = d[i] /\ \A k \in i + 1..j - 1 : d[k] >= d[i]
      /\ v \in AxValue /\ AxTable(ts)[<<i + 1, j - 1>>] = v
  <2>1. (i + 1) - 1 = i
    BY <1>1
  <2> QED
    BY <2>1 DEF AxSeg
<1> HIDE DEF d
<1>4. d[i - 1] \in Int /\ d[i] \in Int /\ d[j] \in Int /\ d[j] = d[i - 1]
  <2>1. i - 1 \in 0..Len(ts) /\ i \in 0..Len(ts) /\ j \in 0..Len(ts)
    BY ONLY <1>1, i \in 1..Len(ts)
  <2>2. d[i - 1] \in Int /\ d[i] \in Int /\ d[j] \in Int
    BY ONLY <1>2, <2>1
  <2> QED
    BY ONLY <1>2, <1>3, <2>2
<1>5. \A k \in i..j - 1 : d[k] > d[i - 1]
  <2> TAKE k \in i..j - 1
  <2>1. k \in 0..Len(ts) /\ (k = i \/ k \in i + 1..j - 1)
    BY <1>1
  <2>2. d[k] \in Int /\ d[k] >= d[i]
    BY <1>2, <1>3, <2>1
  <2> QED
    BY <1>2, <1>4, <2>2
<1>6. \A k \in i..j : d[k] >= d[i - 1]
  <2> TAKE k \in i..j
  <2>1. k \in 0..Len(ts) /\ (k = j \/ k \in i..j - 1)
    BY <1>1
  <2>2. d[k] \in Int
    BY <1>2, <2>1
  <2> QED
    BY <1>4, <1>5, <2>1, <2>2
<1>7. AxOutside(ts, d, i, j) = {}
  <2> SUFFICES ASSUME NEW k \in i..j, d[k] = d[i - 1], AxIsOp(ts, k) PROVE FALSE
    BY DEF AxOutside
  <2>1. CASE k = j
    BY <2>1 DEF AxIsOp
  <2>2. CASE k # j
    <3>1. k \in i..j - 1
      BY <1>1, <2>2
    <3>2. d[k] > d[i - 1]
      BY <1>5, <3>1
    <3> QED
      BY <1>4, <3>2
  <2> QED
    BY <2>1, <2>2
<1>8. AxTable(ts)[<<i, j>>] = v
  <2>1. AxTable(ts)[<<i, j>>] = AxWorth(ts, d, AxTable(ts), i, j)
    BY <1>1, AxTableIs DEF d
  <2>2. AxWorth(ts, d, AxTable(ts), i, j) = AxTable(ts)[<<i + 1, j - 1>>]
    BY <1>1, <1>5, <1>7, Zenon DEF AxWorth
  <2> QED
    BY <1>3, <2>1, <2>2
<1>9. \A k \in AxOutside(ts, d, i, j) : AxBinds(AxOpAt(ts, k)) <= -2
  BY <1>7
<1> QED
  BY <1>1, <1>3, <1>4, <1>6, <1>8, <1>9 DEF AxSeg, d

\* A unary operator in front of a stretch makes one that it binds.
LEMMA AxSegUnary ==
  ASSUME NEW ts \in AxText, NEW i \in 1..Len(ts), NEW j, NEW b \in Int, NEW v,
         AxIsOp(ts, i), AxUnaryAt(ts, i), AxSeg(ts, i + 1, j, b, v), b < AxBinds(AxOpAt(ts, i))
  PROVE  AxSeg(ts, i, j, AxBinds(AxOpAt(ts, i)), AxOf(AxOpAt(ts, i), 0, v))
<1> DEFINE d == AxNest(ts)
           ops == AxOutside(ts, d, i, j)
<1>1. PICK o \in {"POS", "NEG", "NOT"} : o = AxOpAt(ts, i)
  BY AxOpIs
<1>2. PICK c \in {-1, 0, 3} : c = AxBinds(o)
  BY <1>1, AxOpIs
<1>3. Len(ts) \in Nat /\ j \in 1..Len(ts) /\ i < j /\ i \in 1..Len(ts) + 1 /\ j \in 0..Len(ts) /\ i + 1 <= j
  BY DEF AxText, AxSeg
<1>4. d \in [0..Len(ts) -> Int] /\ d[i] = d[i - 1] /\ d[i - 1] \in Int
  <2>1. ts[i].t \notin {"(", ")"}
    BY DEF AxIsOp
  <2>2. i - 1 \in 0..Len(ts)
    BY <1>3
  <2> QED
    BY <2>1, <2>2, AxNestIs
<1>5. /\ d[j] = d[i] /\ \A k \in i + 1..j : d[k] >= d[i]
      /\ v \in AxValue /\ AxTable(ts)[<<i + 1, j>>] = v
      /\ \A k \in i + 1..j : d[k] = d[i] /\ AxIsOp(ts, k) => AxBinds(AxOpAt(ts, k)) <= b
  <2>1. (i + 1) - 1 = i
    BY <1>3
  <2> QED
    BY <2>1 DEF AxSeg, AxOutside
<1> HIDE DEF d
<1>6. \A k \in i..j : k = i \/ k \in i + 1..j
  BY <1>3
<1>7. \A k \in i..j : d[k] >= d[i - 1]
  BY <1>4, <1>5, <1>6
<1>8. i \in ops
  BY <1>3, <1>4 DEF AxOutside
<1>9. \A k \in ops : k \in i..j /\ AxIsOp(ts, k) /\ (k = i \/ AxBinds(AxOpAt(ts, k)) <= b)
  BY <1>4, <1>5, <1>6 DEF AxOutside
<1>10. \A k \in ops : AxBinds(AxOpAt(ts, k)) \in Int
  <2> TAKE k \in ops
  <2>1. k \in 1..Len(ts) /\ AxIsOp(ts, k)
    BY <1>3, <1>9
  <2>2. AxBinds(AxOpAt(ts, k)) \in {-1, 0, 3} \/ AxBinds(AxOpAt(ts, k)) \in {1, 2, 4, 5}
    BY <2>1, AxOpIs, Zenon
  <2> QED
    BY <2>2
<1> HIDE DEF ops
<1>11. \A k \in ops : k # i => AxBinds(AxOpAt(ts, k)) < c
  <2> SUFFICES ASSUME NEW k \in ops, k # i PROVE AxBinds(AxOpAt(ts, k)) < c
    OBVIOUS
  <2>1. PICK x \in Int : x = AxBinds(AxOpAt(ts, k))
    BY <1>10
  <2>2. x <= b /\ b < c
    BY <1>1, <1>2, <1>9, <2>1
  <2> QED
    BY ONLY <2>1, <2>2, b \in Int, c \in {-1, 0, 3}
<1>12. AxLoosest(ts, ops) = {i}
  <2>1. \A k \in ops : AxBinds(AxOpAt(ts, k)) <= AxBinds(AxOpAt(ts, i))
    BY <1>1, <1>2, <1>10, <1>11
  <2>2. \A k \in ops : k # i => ~(AxBinds(AxOpAt(ts, i)) <= AxBinds(AxOpAt(ts, k)))
    BY <1>1, <1>2, <1>10, <1>11
  <2> QED
    BY <1>8, <2>1, <2>2 DEF AxLoosest
<1>13. Min(AxLoosest(ts, ops)) = i
  <2>1. {i} \in SUBSET (i..i) /\ {i} # {} /\ i \in Nat
    BY <1>3
  <2>2. Min({i}) \in {i}
    BY ONLY <2>1, AxExtremes
  <2> QED
    BY <1>12, <2>2
<1>14. AxTable(ts)[<<i, j>>] = AxOf(o, 0, v)
  <2>1. AxTable(ts)[<<i, j>>] = AxWorth(ts, d, AxTable(ts), i, j)
    BY <1>3, AxTableIs DEF d
  <2>2. ops = AxOutside(ts, d, i, j) /\ ops # {}
    BY <1>8 DEF ops
  <2>3. AxWorth(ts, d, AxTable(ts), i, j) = AxOf(AxOpAt(ts, i), 0, AxTable(ts)[<<i + 1, j>>])
    <3>1. PICK first, f : first = Min(AxLoosest(ts, ops)) /\ f = AxTable(ts)
      OBVIOUS
    <3>2. ~(i > j) /\ i # j
      BY <1>3
    <3>3. AxWorth(ts, d, f, i, j) =
            IF AxUnaryAt(ts, first) THEN (IF first = i THEN AxOf(AxOpAt(ts, i), 0, f[<<i + 1, j>>]) ELSE AxBad)
            ELSE AxOf(AxOpAt(ts, Max(AxLoosest(ts, ops))), f[<<i, Max(AxLoosest(ts, ops)) - 1>>],
                      f[<<Max(AxLoosest(ts, ops)) + 1, j>>])
      BY <2>2, <3>1, <3>2, Zenon DEF AxWorth
    <3> QED
      BY <1>13, <3>1, <3>3, Zenon
  <2> QED
    BY <1>1, <1>5, <2>1, <2>3
<1>15. AxOf(o, 0, v) \in AxValue
  <2>1. 0 \in 0..AxBad /\ 0 \in AxValue /\ AxValue \subseteq 0..AxBad /\ o \in (AxOp \ {"PAR"}) \cup {"POS"}
    BY AxModIs DEF AxBad, AxValue, AxAny, AxOp
  <2> QED
    BY <1>5, <2>1, AxOfIs
<1>16. \A k \in AxOutside(ts, d, i, j) : AxBinds(AxOpAt(ts, k)) <= c
  BY <1>1, <1>2, <1>10, <1>11 DEF ops
<1>17. AxSeg(ts, i, j, c, AxOf(o, 0, v))
  BY <1>3, <1>4, <1>5, <1>7, <1>14, <1>15, <1>16 DEF AxSeg, d
<1> QED
  BY <1>1, <1>2, <1>17

\* And a binary operator one of the two beside it, if what follows it binds tighter.
LEMMA AxSegBinary ==
  ASSUME NEW ts \in AxText, NEW i, NEW k \in 1..Len(ts), NEW j, NEW b \in Int, NEW l, NEW r,
         AxIsOp(ts, k), ~AxUnaryAt(ts, k), AxSeg(ts, i, k - 1, AxBinds(AxOpAt(ts, k)), l),
         AxSeg(ts, k + 1, j, b, r), b < AxBinds(AxOpAt(ts, k))
  PROVE  AxSeg(ts, i, j, AxBinds(AxOpAt(ts, k)), AxApply(AxOpAt(ts, k), l, r))
<1> DEFINE d == AxNest(ts)
           ops == AxOutside(ts, d, i, j)
<1>1. PICK o \in AxOp \ AxUnary : o = AxOpAt(ts, k)
  BY AxOpIs
<1>2. PICK c \in {1, 2, 4, 5} : c = AxBinds(o)
  BY <1>1, AxOpIs
<1>3. /\ Len(ts) \in Nat /\ i \in 1..Len(ts) /\ j \in 1..Len(ts) /\ i <= k - 1 /\ k + 1 <= j /\ i < j
      /\ i \in 1..Len(ts) + 1 /\ j \in 0..Len(ts)
  BY DEF AxText, AxSeg
<1>4. d \in [0..Len(ts) -> Int] /\ d[k] = d[k - 1] /\ d[k] \in Int /\ d[i - 1] \in Int
  <2>1. ts[k].t \notin {"(", ")"}
    BY DEF AxIsOp
  <2>2. i - 1 \in 0..Len(ts) /\ k \in 0..Len(ts)
    BY <1>3
  <2> QED
    BY <2>1, <2>2, AxNestIs
<1>5. /\ d[j] = d[k] /\ \A h \in k + 1..j : d[h] >= d[k]
      /\ r \in AxValue /\ AxTable(ts)[<<k + 1, j>>] = r
      /\ \A h \in k + 1..j : d[h] = d[k] /\ AxIsOp(ts, h) => AxBinds(AxOpAt(ts, h)) <= b
  <2>1. (k + 1) - 1 = k
    BY <1>3
  <2> QED
    BY <2>1 DEF AxSeg, AxOutside
<1>6. /\ d[k - 1] = d[i - 1] /\ \A h \in i..k - 1 : d[h] >= d[i - 1]
      /\ l \in AxValue /\ AxTable(ts)[<<i, k - 1>>] = l
      /\ \A h \in i..k - 1 : d[h] = d[i - 1] /\ AxIsOp(ts, h) => AxBinds(AxOpAt(ts, h)) <= c
  BY <1>1, <1>2 DEF AxSeg, AxOutside
<1> HIDE DEF d
<1>7. \A h \in i..j : h = k \/ h \in k + 1..j \/ h \in i..k - 1
  BY <1>3
<1>8. \A h \in i..j : d[h] >= d[i - 1]
  BY <1>4, <1>5, <1>6, <1>7
<1>9. k \in ops
  BY <1>3, <1>4, <1>6 DEF AxOutside
<1>10. \A h \in ops : /\ h \in i..j /\ AxIsOp(ts, h)
                      /\ h \in k + 1..j => AxBinds(AxOpAt(ts, h)) <= b
                      /\ h \in i..k - 1 => AxBinds(AxOpAt(ts, h)) <= c
  BY <1>4, <1>5, <1>6, <1>7 DEF AxOutside
<1>11. \A h \in ops : /\ AxUnaryAt(ts, h) => AxBinds(AxOpAt(ts, h)) \in {-1, 0, 3}
                      /\ ~AxUnaryAt(ts, h) => AxBinds(AxOpAt(ts, h)) \in {1, 2, 4, 5}
  <2> TAKE h \in ops
  <2>1. h \in 1..Len(ts) /\ AxIsOp(ts, h)
    BY <1>3, <1>10
  <2> QED
    BY <2>1, AxOpIs, Zenon
<1> HIDE DEF ops
<1>12. ASSUME NEW h \in ops
       PROVE  AxBinds(AxOpAt(ts, h)) \in -1..5 /\ AxBinds(AxOpAt(ts, h)) <= c
              /\ (h > k => AxBinds(AxOpAt(ts, h)) < c)
  <2>1. AxBinds(AxOpAt(ts, h)) \in {-1, 0, 3} \/ AxBinds(AxOpAt(ts, h)) \in {1, 2, 4, 5}
    BY <1>11, Zenon
  <2>2. PICK x \in -1..5 : x = AxBinds(AxOpAt(ts, h))
    BY <2>1
  <2>3. h = k \/ h \in k + 1..j \/ h \in i..k - 1
    BY <1>7, <1>10
  <2>4. CASE h = k
    BY <1>1, <1>2, <2>2, <2>4
  <2>5. CASE h \in k + 1..j
    <3>1. x <= b /\ b < c
      BY <1>1, <1>2, <1>10, <2>2, <2>5
    <3> QED
      BY ONLY <2>2, <3>1, b \in Int, c \in {1, 2, 4, 5}
  <2>6. CASE h \in i..k - 1
    <3>1. x <= c /\ ~(h > k)
      BY <1>3, <1>10, <2>2, <2>6
    <3> QED
      BY ONLY <2>2, <3>1
  <2> QED
    BY <2>3, <2>4, <2>5, <2>6
<1> DEFINE low == AxLoosest(ts, ops)
<1>13. k \in low
  <2>1. \A h \in ops : AxBinds(AxOpAt(ts, h)) <= AxBinds(AxOpAt(ts, k))
    BY <1>1, <1>2, <1>12
  <2> QED
    BY <1>9, <2>1 DEF AxLoosest
<1>14. \A h \in low : h \in ops /\ AxBinds(AxOpAt(ts, h)) = c
  <2> TAKE h \in low
  <2>1. h \in ops /\ AxBinds(AxOpAt(ts, k)) <= AxBinds(AxOpAt(ts, h))
    BY <1>9 DEF AxLoosest
  <2> QED
    BY <1>1, <1>2, <1>12, <2>1
<1>15. \A h \in low : ~AxUnaryAt(ts, h) /\ ~(h > k)
  <2> TAKE h \in low
  <2>1. h \in ops /\ AxBinds(AxOpAt(ts, h)) = c
    BY <1>14
  <2>2. ~(h > k)
    BY <1>12, <2>1
  <2>3. ~AxUnaryAt(ts, h)
    BY <1>11, <2>1
  <2> QED
    BY <2>2, <2>3
<1> HIDE DEF low
<1>16. low \in SUBSET (i..j) /\ low # {} /\ i \in Nat /\ j \in Nat
  BY <1>3, <1>10, <1>13, <1>14
<1>17. Min(low) \in low /\ Max(low) \in low /\ k <= Max(low)
  BY ONLY <1>13, <1>16, AxExtremes
<1>18. Max(low) = k /\ ~AxUnaryAt(ts, Min(low))
  <2>1. PICK h \in low : h = Max(low)
    BY <1>17
  <2>2. h \in i..j /\ ~(h > k) /\ k <= h
    BY <1>15, <1>16, <1>17, <2>1
  <2>3. h = k
    BY <1>3, <2>2
  <2> QED
    BY <1>15, <1>17, <2>1, <2>3
<1>19. AxTable(ts)[<<i, j>>] = AxOf(o, l, r)
  <2>1. AxTable(ts)[<<i, j>>] = AxWorth(ts, d, AxTable(ts), i, j)
    BY <1>3, AxTableIs DEF d
  <2>2. ops = AxOutside(ts, d, i, j) /\ ops # {}
    BY <1>9 DEF ops
  <2>3. AxWorth(ts, d, AxTable(ts), i, j) = AxOf(AxOpAt(ts, k), AxTable(ts)[<<i, k - 1>>], AxTable(ts)[<<k + 1, j>>])
    <3>1. PICK first, f : first = Min(AxLoosest(ts, ops)) /\ f = AxTable(ts)
      OBVIOUS
    <3>2. ~(i > j) /\ i # j
      BY <1>3
    <3>3. AxWorth(ts, d, f, i, j) =
            IF AxUnaryAt(ts, first) THEN (IF first = i THEN AxOf(AxOpAt(ts, i), 0, f[<<i + 1, j>>]) ELSE AxBad)
            ELSE AxOf(AxOpAt(ts, Max(AxLoosest(ts, ops))), f[<<i, Max(AxLoosest(ts, ops)) - 1>>],
                      f[<<Max(AxLoosest(ts, ops)) + 1, j>>])
      BY <2>2, <3>1, <3>2, Zenon DEF AxWorth
    <3> QED
      BY <1>18, <3>1, <3>3, Zenon DEF low
  <2> QED
    BY <1>1, <1>5, <1>6, <2>1, <2>3
<1>20. AxOf(o, l, r) \in AxValue /\ AxOf(o, l, r) = AxApply(o, l, r)
  <2>1. AxValue \subseteq 0..AxBad /\ o \in (AxOp \ {"PAR"}) \cup {"POS"} /\ o # "POS"
    BY AxModIs DEF AxBad, AxValue, AxAny, AxOp, AxUnary
  <2> QED
    BY <1>5, <1>6, <2>1, AxOfIs
<1>21. \A h \in AxOutside(ts, d, i, j) : AxBinds(AxOpAt(ts, h)) <= c
  BY <1>12 DEF ops
<1>22. AxSeg(ts, i, j, c, AxApply(o, l, r))
  BY <1>3, <1>4, <1>5, <1>6, <1>8, <1>19, <1>20, <1>21 DEF AxSeg, d
<1> QED
  BY <1>1, <1>2, <1>22

\* What an expression looks like from outside: how it begins and ends, which tokens may
\* stand side by side, and that its brackets are in order.
AxEnds(ts, k) == ts[k].t \in {"number", ")"}
AxFits(ts, k) == (AxEnds(ts, k) => ts[k + 1].t # "number") /\ (~AxEnds(ts, k) => ts[k + 1].t # ")")

AxFormed(ts, i, j) ==
  /\ i \in 1..Len(ts) /\ j \in 1..Len(ts) /\ i <= j
  /\ ts[i].t # ")" /\ AxEnds(ts, j)
  /\ \A k \in i..j - 1 : AxFits(ts, k)
  /\ AxNest(ts)[j] = AxNest(ts)[i - 1]
  /\ \A k \in i..j : AxNest(ts)[k] >= AxNest(ts)[i - 1]

\* A number is an expression.
LEMMA AxFormedNumber ==
  ASSUME NEW ts \in AxText, NEW i \in 1..Len(ts), ts[i].t = "number"
  PROVE  AxFormed(ts, i, i)
<1>1. Len(ts) \in Nat /\ i \in 0..Len(ts) /\ i - 1 \in 0..Len(ts) /\ i..i - 1 = {} /\ \A k \in i..i : k = i
  BY DEF AxText
<1>2. AxNest(ts)[i] = AxNest(ts)[i - 1] /\ AxNest(ts)[i] \in Int
  <2>1. ts[i].t \notin {"(", ")"}
    OBVIOUS
  <2> QED
    BY <1>1, <2>1, AxNestIs
<1>3. \A k \in i..i : AxNest(ts)[k] >= AxNest(ts)[i - 1]
  BY <1>1, <1>2
<1> QED
  BY <1>1, <1>2, <1>3 DEF AxFormed, AxEnds

\* So is one in brackets.
LEMMA AxFormedBracket ==
  ASSUME NEW ts \in AxText, NEW i \in 1..Len(ts), NEW j \in 1..Len(ts), ts[i].t = "(", ts[j].t = ")",
         AxFormed(ts, i + 1, j - 1)
  PROVE  AxFormed(ts, i, j)
<1> DEFINE d == AxNest(ts)
<1>1. Len(ts) \in Nat /\ i + 1 <= j - 1 /\ i <= j /\ (i + 1) - 1 = i
  BY DEF AxText, AxFormed
<1>2. d \in [0..Len(ts) -> Int] /\ d[i] = d[i - 1] + 1 /\ d[j] = d[j - 1] - 1
  BY AxNestIs
<1>3. d[j - 1] = d[i] /\ \A k \in i + 1..j - 1 : d[k] >= d[i]
  BY <1>1 DEF AxFormed
<1> HIDE DEF d
<1>4. d[i - 1] \in Int /\ d[i] \in Int /\ d[j] = d[i - 1]
  <2>1. i - 1 \in 0..Len(ts) /\ i \in 0..Len(ts)
    BY ONLY <1>1, i \in 1..Len(ts)
  <2>2. d[i - 1] \in Int /\ d[i] \in Int
    BY ONLY <1>2, <2>1
  <2> QED
    BY ONLY <1>2, <1>3, <2>2
<1>5. \A k \in i..j : d[k] >= d[i - 1]
  <2> TAKE k \in i..j
  <2>1. k \in 0..Len(ts) /\ (k = i \/ k = j \/ k \in i + 1..j - 1)
    BY <1>1
  <2>2. d[k] \in Int
    BY <1>2, <2>1
  <2> QED
    BY <1>2, <1>3, <1>4, <2>1, <2>2
<1>6. \A k \in i..j - 1 : AxFits(ts, k)
  <2> TAKE k \in i..j - 1
  <2>1. CASE k = i
    BY <1>1, <2>1 DEF AxFormed, AxFits, AxEnds
  <2>2. CASE k = j - 1
    <3>1. k + 1 = j /\ AxEnds(ts, k)
      BY <1>1, <2>2 DEF AxFormed
    <3> QED
      BY <3>1 DEF AxFits
  <2>3. CASE k \in i + 1..(j - 1) - 1
    BY <2>3 DEF AxFormed
  <2> QED
    BY <1>1, <2>1, <2>2, <2>3
<1>7. ts[i].t # ")" /\ AxEnds(ts, j)
  BY DEF AxEnds
<1> QED
  BY <1>1, <1>4, <1>5, <1>6, <1>7 DEF AxFormed, d

\* One behind an operator.
LEMMA AxFormedUnary ==
  ASSUME NEW ts \in AxText, NEW i \in 1..Len(ts), NEW j, AxIsOp(ts, i), AxFormed(ts, i + 1, j)
  PROVE  AxFormed(ts, i, j)
<1> DEFINE d == AxNest(ts)
<1>1. Len(ts) \in Nat /\ j \in 1..Len(ts) /\ i + 1 <= j /\ i <= j /\ (i + 1) - 1 = i
  BY DEF AxText, AxFormed
<1>2. d[i] = d[i - 1] /\ d[i] \in Int
  <2>1. ts[i].t \notin {"(", ")"} /\ i \in 0..Len(ts)
    BY <1>1 DEF AxIsOp
  <2> QED
    BY <2>1, AxNestIs
<1>3. d[j] = d[i] /\ \A k \in i + 1..j : d[k] >= d[i]
  BY <1>1 DEF AxFormed
<1> HIDE DEF d
<1>4. \A k \in i..j : k = i \/ k \in i + 1..j
  BY <1>1
<1>5. \A k \in i..j : d[k] >= d[i - 1]
  BY <1>2, <1>3, <1>4
<1>6. ~AxEnds(ts, i) /\ ts[i].t # ")"
  BY DEF AxIsOp, AxEnds
<1>7. \A k \in i..j - 1 : AxFits(ts, k)
  <2> TAKE k \in i..j - 1
  <2>1. CASE k = i
    BY <1>1, <1>6, <2>1 DEF AxFormed, AxFits
  <2>2. CASE k # i
    <3>1. k \in i + 1..j - 1
      BY <1>1, <2>2
    <3> QED
      BY <3>1 DEF AxFormed
  <2> QED
    BY <2>1, <2>2
<1>8. AxEnds(ts, j)
  BY DEF AxFormed
<1> QED
  BY <1>1, <1>2, <1>3, <1>5, <1>6, <1>7, <1>8 DEF AxFormed, d

\* And two with an operator between them.
LEMMA AxFormedBinary ==
  ASSUME NEW ts \in AxText, NEW i, NEW k \in 1..Len(ts), NEW j, AxIsOp(ts, k),
         AxFormed(ts, i, k - 1), AxFormed(ts, k, j)
  PROVE  AxFormed(ts, i, j)
<1> DEFINE d == AxNest(ts)
<1>1. Len(ts) \in Nat /\ i \in 1..Len(ts) /\ j \in 1..Len(ts) /\ i <= k - 1 /\ k <= j /\ i <= j
  BY DEF AxText, AxFormed
<1>2. d[k - 1] = d[i - 1] /\ \A h \in i..k - 1 : d[h] >= d[i - 1]
  BY DEF AxFormed
<1>3. d[j] = d[k - 1] /\ \A h \in k..j : d[h] >= d[k - 1]
  BY DEF AxFormed
<1> HIDE DEF d
<1>4. \A h \in i..j : h \in i..k - 1 \/ h \in k..j
  BY <1>1
<1>5. \A h \in i..j : d[h] >= d[i - 1]
  BY <1>2, <1>3, <1>4
<1>6. \A h \in i..j - 1 : AxFits(ts, h)
  <2> TAKE h \in i..j - 1
  <2>1. CASE h = k - 1
    <3>1. AxEnds(ts, k - 1) /\ h + 1 = k /\ ts[k].t # "number"
      BY <1>1, <2>1 DEF AxFormed, AxIsOp
    <3> QED
      BY <2>1, <3>1 DEF AxFits
  <2>2. CASE h \in i..(k - 1) - 1
    BY <2>2 DEF AxFormed
  <2>3. CASE h \in k..j - 1
    BY <2>3 DEF AxFormed
  <2> QED
    BY <1>1, <2>1, <2>2, <2>3
<1>7. ts[i].t # ")" /\ AxEnds(ts, j)
  BY DEF AxFormed
<1> QED
  BY <1>1, <1>2, <1>3, <1>5, <1>6, <1>7 DEF AxFormed, d

\* What is worth something is formed.
LEMMA AxWorthFormed ==
  ASSUME NEW ts \in AxText, NEW f, NEW i \in 1..Len(ts) + 1, NEW j \in 0..Len(ts),
         AxWorth(ts, AxNest(ts), f, i, j) # AxBad,
         \A a \in 1..Len(ts) + 1, b \in 0..Len(ts) : b - a < j - i /\ f[<<a, b>>] # AxBad => AxFormed(ts, a, b)
  PROVE  AxFormed(ts, i, j)
<1>1. Len(ts) \in Nat
  BY DEF AxText
<1>2. ~(i > j)
  BY DEF AxWorth
<1>3. CASE i = j
  <2>1. ts[i].t = "number"
    BY <1>2, <1>3 DEF AxWorth
  <2>2. i \in 1..Len(ts)
    BY <1>1, <1>3
  <2> QED
    BY <1>3, <2>1, <2>2, AxFormedNumber
<1>4. CASE i # j
  <2>1. i \in 1..Len(ts) /\ j \in 1..Len(ts) /\ i \in Nat \ {0} /\ i < j
    BY <1>1, <1>2, <1>4
  <2>2. PICK ops, low : ops = AxOutside(ts, AxNest(ts), i, j) /\ low = AxLoosest(ts, ops)
    OBVIOUS
  <2>3. ops \in SUBSET (i..j) /\ \A k \in ops : AxIsOp(ts, k)
    BY <2>2 DEF AxOutside
  <2>4. CASE ops = {}
    <3>1. ts[i].t = "(" /\ ts[j].t = ")" /\ f[<<i + 1, j - 1>>] # AxBad
      BY <1>2, <1>4, <2>2, <2>4, Zenon DEF AxWorth
    <3>2. i + 1 \in 1..Len(ts) + 1 /\ j - 1 \in 0..Len(ts) /\ (j - 1) - (i + 1) < j - i
      BY <1>1, <2>1
    <3>3. AxFormed(ts, i + 1, j - 1)
      BY <3>1, <3>2
    <3> QED
      BY <2>1, <3>1, <3>3, AxFormedBracket
  <2>5. CASE ops # {}
    <3>1. low \subseteq ops /\ Min(low) \in low /\ Max(low) \in low
      BY ONLY <2>1, <2>2, <2>3, <2>5, AxLoosestIs, ts \in AxText
    <3>2. PICK first \in ops, last \in ops : first = Min(low) /\ last = Max(low)
      BY <3>1
    <3>3. AxWorth(ts, AxNest(ts), f, i, j) =
            IF AxUnaryAt(ts, first) THEN (IF first = i THEN AxOf(AxOpAt(ts, i), 0, f[<<i + 1, j>>]) ELSE AxBad)
            ELSE AxOf(AxOpAt(ts, last), f[<<i, last - 1>>], f[<<last + 1, j>>])
      BY <1>2, <1>4, <2>2, <2>5, <3>2, Zenon DEF AxWorth
    <3>4. \A o, l, r : AxOf(o, l, r) # AxBad => l # AxBad /\ r # AxBad
      BY DEF AxOf
    <3>5. first \in i..j /\ last \in i..j /\ AxIsOp(ts, first) /\ AxIsOp(ts, last)
      BY <2>3
    <3>6. /\ i + 1 \in 1..Len(ts) + 1 /\ j - (i + 1) < j - i
          /\ last - 1 \in 0..Len(ts) /\ (last - 1) - i < j - i
          /\ last + 1 \in 1..Len(ts) + 1 /\ j - (last + 1) < j - i /\ last \in 1..Len(ts)
      <4>1. PICK n \in Nat : n = Len(ts)
        BY <1>1
      <4>2. i \in 1..n + 1 /\ j \in 0..n /\ last \in i..j /\ i < j
        BY <2>1, <3>5, <4>1
      <4>3. /\ i + 1 \in 1..n + 1 /\ j - (i + 1) < j - i
            /\ last - 1 \in 0..n /\ (last - 1) - i < j - i
            /\ last + 1 \in 1..n + 1 /\ j - (last + 1) < j - i /\ last \in 1..n
        BY ONLY <4>2, n \in Nat
      <4> QED
        BY ONLY <4>1, <4>3
    <3>7. CASE AxUnaryAt(ts, first)
      <4>1. first = i /\ f[<<i + 1, j>>] # AxBad
        BY <3>3, <3>4, <3>7
      <4>2. AxFormed(ts, i + 1, j)
        BY <3>6, <4>1
      <4> QED
        BY <2>1, <3>5, <4>1, <4>2, AxFormedUnary
    <3>8. CASE ~AxUnaryAt(ts, first)
      <4>1. f[<<i, last - 1>>] # AxBad /\ f[<<last + 1, j>>] # AxBad
        BY <3>3, <3>4, <3>8
      <4>2. AxFormed(ts, i, last - 1)
        BY <3>6, <4>1
      <4>3. AxFormed(ts, last, j)
        <5>1. AxFormed(ts, last + 1, j)
          BY <3>6, <4>1
        <5> QED
          BY <3>5, <3>6, <5>1, AxFormedUnary
      <4> QED
        BY <3>5, <3>6, <4>2, <4>3, AxFormedBinary
    <3> QED
      BY <3>7, <3>8
  <2> QED
    BY <2>4, <2>5
<1> QED
  BY <1>3, <1>4

\* So what is not formed is no expression.
LEMMA AxMeant ==
  ASSUME NEW ts \in AxText, AxMeaning(ts) # AxBad
  PROVE  AxFormed(ts, 1, Len(ts))
<1> DEFINE n == Len(ts)
           G == {k \in 0..n : \A i \in 1..n + 1, j \in 0..n :
                                j - i < k /\ AxTable(ts)[<<i, j>>] # AxBad => AxFormed(ts, i, j)}
<1>1. n \in Nat
  BY DEF AxText
<1>2. 0 \in G
  <2> SUFFICES ASSUME NEW i \in 1..n + 1, NEW j \in 0..n, j - i < 0, AxTable(ts)[<<i, j>>] # AxBad
               PROVE  FALSE
    BY <1>1
  <2>1. i > j /\ AxTable(ts)[<<i, j>>] = AxWorth(ts, AxNest(ts), AxTable(ts), i, j)
    BY <1>1, AxTableIs
  <2> QED
    BY <2>1 DEF AxWorth
<1>3. ASSUME NEW k \in 1..n, k - 1 \in G
      PROVE  k \in G
  <2> SUFFICES ASSUME NEW i \in 1..n + 1, NEW j \in 0..n, j - i < k, AxTable(ts)[<<i, j>>] # AxBad
               PROVE  AxFormed(ts, i, j)
    BY <1>1
  <2>1. \A a \in 1..n + 1, b \in 0..n :
          b - a < j - i /\ AxTable(ts)[<<a, b>>] # AxBad => AxFormed(ts, a, b)
    <3> TAKE a \in 1..n + 1, b \in 0..n
    <3>1. b - a < j - i => b - a < k - 1
      BY <1>1
    <3> QED
      BY <1>3, <3>1
  <2>2. AxWorth(ts, AxNest(ts), AxTable(ts), i, j) # AxBad
    BY AxTableIs
  <2> QED
    BY ONLY <2>1, <2>2, AxWorthFormed, ts \in AxText, i \in 1..n + 1, j \in 0..n
<1>4. 0..n \subseteq G
  <2> HIDE DEF G, n
  <2> QED
    BY ONLY <1>1, <1>2, <1>3, UpTo
<1>5. n \in G /\ 1 \in 1..n + 1 /\ n \in 0..n /\ n - 1 < n
  BY <1>1, <1>4
<1> QED
  BY <1>5 DEF AxMeaning

\* A sequence without its last element.
LEMMA AxFrontIs ==
  ASSUME NEW S, NEW s \in Seq(S), s # <<>>
  PROVE  /\ Len(s) \in Nat \ {0} /\ Last(s) = s[Len(s)] /\ Last(s) \in S
         /\ Front(s) \in Seq(S) /\ Len(Front(s)) = Len(s) - 1
         /\ \A i \in 1..Len(s) - 1 : Front(s)[i] = s[i]
<1>1. PICK n \in Nat : n + 1 = Len(s)
  <2>1. Len(s) \in Nat \ {0}
    OBVIOUS
  <2>2. Len(s) - 1 \in Nat /\ (Len(s) - 1) + 1 = Len(s)
    BY <2>1
  <2> QED
    BY <2>2, Zenon
<1>2. Last(s) = s[Len(s)] /\ Front(s) = SubSeq(s, 1, n)
  <2>1. Len(s) - 1 = n
    BY <1>1
  <2> QED
    BY <2>1 DEF Last, Front
<1>3. \A i \in 1..n + 1 : s[i] \in S
  BY <1>1
<1>4. /\ SubSeq(s, 1, n) \in Seq(S) /\ Len(SubSeq(s, 1, n)) = IF 1 <= n THEN n - 1 + 1 ELSE 0
      /\ \A i \in 1..n - 1 + 1 : SubSeq(s, 1, n)[i] = s[1 + i - 1]
  <2>1. 1 \in Int /\ n \in Int /\ \A i \in 1..n : s[i] \in S
    BY <1>3
  <2> QED
    BY ONLY <2>1, SubSeqProperties
<1>5. PICK f : f = SubSeq(s, 1, n)
  OBVIOUS
<1>6. Len(f) = n /\ \A i \in 1..n : f[i] = s[i]
  <2>1. \A i \in 1..n : i \in 1..n - 1 + 1 /\ 1 + i - 1 = i
    OBVIOUS
  <2>2. \A i \in 1..n : f[i] = s[i]
    BY <1>4, <1>5, <2>1
  <2>3. Len(f) = n
    BY ONLY <1>4, <1>5, n \in Nat
  <2> QED
    BY <2>2, <2>3
<1>7. n + 1 \in Nat \ {0} /\ (n + 1) - 1 = n /\ n + 1 \in 1..n + 1
  OBVIOUS
<1> QED
  BY <1>1, <1>2, <1>3, <1>4, <1>5, <1>6, <1>7

\* An operator of the stack, o: q is its place, p that of the operator under it, and there
\* are c values up to its left operand, a of them under it.
AxLead(ts, p, k) ==
  \/ k = p
  \/ k = p + 1 /\ k \in 1..Len(ts) /\ AxIsOp(ts, k) /\ AxUnaryAt(ts, k) /\ AxOpAt(ts, k) = "POS"

AxFrame(ts, vals, o, p, q, a, c) ==
  /\ q \in 1..Len(ts) /\ AxNest(ts)[q] >= IF o = "PAR" THEN 1 ELSE 0
  /\ o = "PAR" => ts[q].t = "(" /\ c = a /\ AxLead(ts, p, q - 1)
  /\ o # "PAR" => AxIsOp(ts, q) /\ AxOpAt(ts, q) = o
  /\ o \in {"NEG", "NOT"} => AxUnaryAt(ts, q) /\ q = p + 1 /\ c = a
  /\ o \notin AxUnary =>
       /\ ~AxUnaryAt(ts, q) /\ c = a + 1 /\ c <= Len(vals)
       /\ AxSeg(ts, p + 1, q - 1, AxPrecedence(o), vals[c])

\* The stack: what is above an operator binds more tightly, but for brackets.
AxFrames(ts, vals, ops, q, c) ==
  /\ q \in [Nat -> Nat] /\ c \in [Nat -> Nat] /\ q[0] = 0 /\ c[0] = 0
  /\ \A l \in 1..Len(ops) : AxFrame(ts, vals, ops[l], q[l - 1], q[l], c[l - 1], c[l])
  /\ \A l \in 2..Len(ops) : ops[l] = "PAR" \/ AxPrecedence(ops[l]) < AxPrecedence(ops[l - 1])
  /\ \A l, k \in 0..Len(ops) : l <= k => c[l] <= c[k]

\* The stack stands as long as the values that it counts do, whatever is read next.
LEMMA AxFramesKept ==
  ASSUME NEW ts \in AxText, NEW us \in AxText, AxExtends(ts, us),
         NEW vals \in Seq(AxValue), NEW ops \in Seq(AxOp), NEW q, NEW c, AxFrames(ts, vals, ops, q, c),
         NEW vals2 \in Seq(AxValue), Len(vals2) >= c[Len(ops)], \A k \in 1..c[Len(ops)] : vals2[k] = vals[k]
  PROVE  AxFrames(us, vals2, ops, q, c)
<1>1. Len(ts) \in Nat /\ Len(us) \in Nat /\ Len(ts) <= Len(us) /\ Len(ops) \in Nat /\ \A k \in 1..Len(ts) : ts[k] = us[k]
  BY DEF AxText, AxExtends
<1>2. q \in [Nat -> Nat] /\ c \in [Nat -> Nat] /\ \A l, k \in 0..Len(ops) : l <= k => c[l] <= c[k]
  BY DEF AxFrames
<1>3. ASSUME NEW l \in 1..Len(ops)
      PROVE  AxFrame(us, vals2, ops[l], q[l - 1], q[l], c[l - 1], c[l])
  <2>1. PICK o \in AxOp, p \in Nat, r \in Nat, a \in Nat, e \in Nat :
          o = ops[l] /\ p = q[l - 1] /\ r = q[l] /\ a = c[l - 1] /\ e = c[l]
    <3>1. l - 1 \in Nat /\ l \in Nat
      BY <1>1
    <3>2. q[l - 1] \in Nat /\ q[l] \in Nat /\ c[l - 1] \in Nat /\ c[l] \in Nat
      BY ONLY <1>2, <3>1
    <3>3. ops[l] \in AxOp
      BY ONLY ops \in Seq(AxOp), l \in 1..Len(ops), ElementOfSeq
    <3> QED
      BY ONLY <3>2, <3>3
  <2>2. AxFrame(ts, vals, o, p, r, a, e)
    BY <2>1 DEF AxFrames
  <2>3. r \in 1..Len(ts) /\ r \in 1..Len(us) /\ r \in 0..Len(ts)
    BY <1>1, <2>2 DEF AxFrame
  <2>4. /\ ts[r] = us[r] /\ AxOpAt(ts, r) = AxOpAt(us, r) /\ AxNest(ts)[r] = AxNest(us)[r]
        /\ (AxUnaryAt(ts, r) <=> AxUnaryAt(us, r)) /\ (AxIsOp(ts, r) <=> AxIsOp(us, r))
    BY <1>1, <2>3, AxGrows
  <2>5. AxLead(ts, p, r - 1) => AxLead(us, p, r - 1)
    <3> SUFFICES ASSUME AxLead(ts, p, r - 1), r - 1 # p PROVE AxLead(us, p, r - 1)
      BY DEF AxLead
    <3>1. /\ r - 1 = p + 1 /\ r - 1 \in 1..Len(ts) /\ AxIsOp(ts, r - 1) /\ AxUnaryAt(ts, r - 1)
          /\ AxOpAt(ts, r - 1) = "POS"
      BY DEF AxLead
    <3>2. r - 1 \in 1..Len(us)
      BY <1>1, <3>1
    <3>3. /\ AxOpAt(ts, r - 1) = AxOpAt(us, r - 1)
          /\ (AxUnaryAt(ts, r - 1) <=> AxUnaryAt(us, r - 1)) /\ (AxIsOp(ts, r - 1) <=> AxIsOp(us, r - 1))
      BY <3>1, AxGrows
    <3> QED
      BY <3>1, <3>2, <3>3 DEF AxLead
  <2>6. o \notin AxUnary => /\ e <= Len(vals2)
                            /\ AxSeg(us, p + 1, r - 1, AxPrecedence(o), vals2[e])
    <3> SUFFICES ASSUME o \notin AxUnary
                 PROVE  e <= Len(vals2) /\ AxSeg(us, p + 1, r - 1, AxPrecedence(o), vals2[e])
      OBVIOUS
    <3>1. e = a + 1 /\ AxSeg(ts, p + 1, r - 1, AxPrecedence(o), vals[e])
      BY <2>2 DEF AxFrame
    <3>2. l \in 0..Len(ops) /\ Len(ops) \in 0..Len(ops) /\ l <= Len(ops)
      BY <1>1
    <3>3. PICK top \in Nat : top = c[Len(ops)]
      BY <1>1, <1>2
    <3>4. e <= top
      BY <1>2, <2>1, <3>2, <3>3
    <3>5. e \in 1..top /\ e <= Len(vals2)
      <4>1. Len(vals2) >= top /\ Len(vals2) \in Nat
        BY <3>3
      <4> QED
        BY ONLY <3>1, <3>4, <4>1, a \in Nat, e \in Nat, top \in Nat
    <3>6. vals2[e] = vals[e]
      BY <3>3, <3>5
    <3> QED
      BY ONLY <3>1, <3>5, <3>6, AxSegGrows, ts \in AxText, us \in AxText, AxExtends(ts, us)
  <2>7. AxFrame(us, vals2, o, p, r, a, e)
    BY <2>2, <2>3, <2>4, <2>5, <2>6, Zenon DEF AxFrame
  <2> QED
    BY <2>1, <2>7
<1> QED
  BY <1>3 DEF AxFrames

\* Taking an operator off.
LEMMA AxFramesFront ==
  ASSUME NEW ts, NEW vals, NEW ops \in Seq(AxOp), ops # <<>>, NEW q, NEW c, AxFrames(ts, vals, ops, q, c)
  PROVE  AxFrames(ts, vals, Front(ops), q, c)
<1>1. PICK f : f = Front(ops)
  OBVIOUS
<1>2. Len(ops) \in Nat \ {0} /\ Len(f) = Len(ops) - 1 /\ \A l \in 1..Len(ops) - 1 : f[l] = ops[l]
  BY <1>1, AxFrontIs
<1>3. PICK m \in Nat : m = Len(ops) - 1 /\ Len(ops) = m + 1
  <2>1. Len(ops) - 1 \in Nat /\ Len(ops) = (Len(ops) - 1) + 1
    BY <1>2
  <2> QED
    BY <2>1, Zenon
<1>4. Len(f) = m /\ \A l \in 1..m : f[l] = ops[l]
  BY <1>2, <1>3
<1>5. \A l \in 1..m : AxFrame(ts, vals, f[l], q[l - 1], q[l], c[l - 1], c[l])
  <2> TAKE l \in 1..m
  <2>1. l \in 1..Len(ops) /\ f[l] = ops[l]
    BY <1>3, <1>4
  <2> QED
    BY <2>1 DEF AxFrames
<1>6. \A l \in 2..m : f[l] = "PAR" \/ AxPrecedence(f[l]) < AxPrecedence(f[l - 1])
  <2> TAKE l \in 2..m
  <2>1. l \in 2..Len(ops) /\ f[l] = ops[l] /\ f[l - 1] = ops[l - 1]
    BY <1>3, <1>4
  <2> QED
    BY <2>1 DEF AxFrames
<1>7. \A l, k \in 0..m : l <= k => c[l] <= c[k]
  <2> TAKE l, k \in 0..m
  <2>1. l \in 0..Len(ops) /\ k \in 0..Len(ops)
    BY <1>3
  <2> QED
    BY <2>1 DEF AxFrames
<1>8. q \in [Nat -> Nat] /\ c \in [Nat -> Nat] /\ q[0] = 0 /\ c[0] = 0
  BY DEF AxFrames
<1>9. AxFrames(ts, vals, f, q, c)
  BY <1>4, <1>5, <1>6, <1>7, <1>8 DEF AxFrames
<1> QED
  BY <1>1, <1>9

\* And putting one on.
LEMMA AxFramesPush ==
  ASSUME NEW ts, NEW vals, NEW ops \in Seq(AxOp), NEW q, NEW c, AxFrames(ts, vals, ops, q, c),
         NEW o \in AxOp, NEW r \in Nat, NEW e \in Nat,
         AxFrame(ts, vals, o, q[Len(ops)], r, c[Len(ops)], e), c[Len(ops)] <= e,
         o = "PAR" \/ ops = <<>> \/ AxPrecedence(o) < AxPrecedence(Last(ops))
  PROVE  AxFrames(ts, vals, Append(ops, o), [q EXCEPT ![Len(ops) + 1] = r], [c EXCEPT ![Len(ops) + 1] = e])
<1>0. PICK m \in Nat : m = Len(ops)
  OBVIOUS
<1>1. PICK f, u, d :
        /\ Len(ops) = m /\ f = Append(ops, o)
        /\ u = [q EXCEPT ![m + 1] = r] /\ d = [c EXCEPT ![m + 1] = e]
  BY <1>0
<1>2. Len(f) = m + 1 /\ f[m + 1] = o /\ \A l \in 1..m : f[l] = ops[l]
  BY ONLY <1>1, ops \in Seq(AxOp), o \in AxOp, AppendProperties
<1>3. q \in [Nat -> Nat] /\ c \in [Nat -> Nat] /\ q[0] = 0 /\ c[0] = 0
  BY DEF AxFrames
<1>4. /\ u \in [Nat -> Nat] /\ d \in [Nat -> Nat] /\ u[m + 1] = r /\ d[m + 1] = e
      /\ \A l \in 0..m : u[l] = q[l] /\ d[l] = c[l]
  <2>1. m + 1 \in Nat /\ \A l \in 0..m : l \in Nat /\ l # m + 1
    OBVIOUS
  <2> QED
    BY ONLY <1>1, <1>3, <2>1, r \in Nat, e \in Nat
<1>5. \A l \in 1..m + 1 : AxFrame(ts, vals, f[l], u[l - 1], u[l], d[l - 1], d[l])
  <2> TAKE l \in 1..m + 1
  <2>1. CASE l = m + 1
    <3>1. m \in 0..m /\ l - 1 = m
      BY <2>1
    <3>2. u[l - 1] = q[m] /\ d[l - 1] = c[m] /\ u[l] = r /\ d[l] = e /\ f[l] = o
      BY <1>2, <1>4, <2>1, <3>1
    <3> QED
      BY <1>1, <3>2
  <2>2. CASE l # m + 1
    <3>1. l \in 1..m /\ l \in 0..m /\ l - 1 \in 0..m
      BY <2>2
    <3>2. u[l - 1] = q[l - 1] /\ d[l - 1] = c[l - 1] /\ u[l] = q[l] /\ d[l] = c[l] /\ f[l] = ops[l]
      BY <1>2, <1>4, <3>1
    <3> QED
      BY <1>1, <3>1, <3>2 DEF AxFrames
  <2> QED
    BY <2>1, <2>2
<1>6. \A l \in 2..m + 1 : f[l] = "PAR" \/ AxPrecedence(f[l]) < AxPrecedence(f[l - 1])
  <2> TAKE l \in 2..m + 1
  <2>1. CASE l = m + 1
    <3>1. m \in 1..m /\ l - 1 = m
      BY <2>1
    <3>2. ops # <<>> /\ Last(ops) = ops[m]
      BY <1>1, <3>1 DEF Last
    <3>3. f[l] = o /\ f[l - 1] = Last(ops)
      BY <1>2, <2>1, <3>1, <3>2
    <3> QED
      BY <3>2, <3>3
  <2>2. CASE l # m + 1
    <3>1. l \in 2..m /\ l \in 1..m /\ l - 1 \in 1..m
      BY <2>2
    <3>2. f[l] = ops[l] /\ f[l - 1] = ops[l - 1]
      BY <1>2, <3>1
    <3> QED
      BY <1>1, <3>1, <3>2 DEF AxFrames
  <2> QED
    BY <2>1, <2>2
<1>7. \A l, k \in 0..m + 1 : l <= k => d[l] <= d[k]
  <2> TAKE l, k \in 0..m + 1
  <2> SUFFICES ASSUME l <= k PROVE d[l] <= d[k]
    OBVIOUS
  <2>1. \A h \in 0..m : c[h] \in Nat /\ c[h] <= c[m] /\ \A g \in 0..m : h <= g => c[h] <= c[g]
    <3>1. \A h, g \in 0..m : h <= g => c[h] <= c[g]
      BY <1>1 DEF AxFrames
    <3>2. m \in 0..m /\ \A h \in 0..m : h \in Nat /\ h <= m
      OBVIOUS
    <3> QED
      BY ONLY <1>3, <3>1, <3>2
  <2>2. c[m] <= e /\ c[m] \in Nat
    BY <1>1, <1>3
  <2>3. CASE k \in 0..m
    <3>1. l \in 0..m
      BY <2>3
    <3> QED
      BY <1>4, <2>1, <2>3, <3>1
  <2>4. CASE k = m + 1
    <3>1. CASE l = m + 1
      BY <1>4, <2>4, <3>1
    <3>2. CASE l # m + 1
      <4>1. l \in 0..m
        BY <3>2
      <4>2. d[l] = c[l] /\ d[k] = e /\ c[l] \in Nat /\ c[l] <= c[m]
        BY <1>4, <2>1, <2>4, <4>1
      <4> QED
        BY ONLY <2>2, <4>2, e \in Nat
    <3> QED
      BY <3>1, <3>2
  <2> QED
    BY <2>3, <2>4
<1>8. u[0] = 0 /\ d[0] = 0
  <2>1. 0 \in 0..m
    OBVIOUS
  <2> QED
    BY <1>3, <1>4, <2>1
<1>9. AxFrames(ts, vals, f, u, d)
  BY <1>2, <1>4, <1>5, <1>6, <1>7, <1>8 DEF AxFrames
<1> QED
  BY <1>1, <1>9

\* The operators' precedences.
LEMMA AxPrecedenceIs ==
  ASSUME NEW o \in AxOp
  PROVE  /\ AxPrecedence(o) \in 0..255 /\ AxBinds(o) = AxPrecedence(o) /\ o # "POS"
         /\ o = "PAR" => AxPrecedence(o) = 255
         /\ o # "PAR" => AxPrecedence(o) \in 0..5
BY DEF AxOp, AxPrecedence, AxBinds

\* What has been read behind the last operator has a value, the last one.
AxTop(ts, vals, ops, q, c, bound) ==
  /\ Len(vals) = c[Len(ops)] + 1
  /\ \E b \in -2..5 : /\ b <= bound /\ (ops # <<>> => b < AxPrecedence(Last(ops)))
                      /\ AxSeg(ts, q[Len(ops)] + 1, Len(ts), b, vals[Len(vals)])

\* The stacks whose values are those of what has been read.
AxSound(ts, q, c, bound) ==
  {s \in AxStack : s.end = "on" /\ AxFrames(ts, s.vals, s.ops, q, c) /\ AxTop(ts, s.vals, s.ops, q, c, bound)}

\* The values under an operator's operands, and the operands.
LEMMA AxRest ==
  ASSUME NEW vals \in Seq(AxValue), NEW k \in Nat, Len(vals) = k + 1
  PROVE  /\ vals # <<>> /\ Last(vals) = vals[k + 1] /\ Last(vals) \in AxValue
         /\ Front(vals) \in Seq(AxValue) /\ Len(Front(vals)) = k /\ \A i \in 1..k : Front(vals)[i] = vals[i]
         /\ k # 0 => /\ Front(Front(vals)) \in Seq(AxValue) /\ Len(Front(Front(vals))) = k - 1
                     /\ \A i \in 1..k - 1 : Front(Front(vals))[i] = vals[i]
                     /\ vals[k] \in AxValue
<1>1. vals # <<>>
  OBVIOUS
<1>2. PICK f : f = Front(vals)
  OBVIOUS
<1>3. Last(vals) = vals[k + 1] /\ Last(vals) \in AxValue /\ f \in Seq(AxValue) /\ Len(f) = k
      /\ \A i \in 1..k : f[i] = vals[i]
  <2>1. /\ Last(vals) = vals[Len(vals)] /\ Last(vals) \in AxValue /\ f \in Seq(AxValue) /\ Len(f) = Len(vals) - 1
        /\ \A i \in 1..Len(vals) - 1 : f[i] = vals[i]
    BY ONLY <1>1, <1>2, AxFrontIs, vals \in Seq(AxValue)
  <2>2. Len(vals) - 1 = k
    OBVIOUS
  <2> QED
    BY ONLY <2>1, <2>2, Len(vals) = k + 1
<1>4. k # 0 => /\ Front(f) \in Seq(AxValue) /\ Len(Front(f)) = k - 1 /\ \A i \in 1..k - 1 : Front(f)[i] = vals[i]
               /\ vals[k] \in AxValue
  <2> SUFFICES ASSUME k # 0
               PROVE  /\ Front(f) \in Seq(AxValue) /\ Len(Front(f)) = k - 1 /\ \A i \in 1..k - 1 : Front(f)[i] = vals[i]
                      /\ vals[k] \in AxValue
    OBVIOUS
  <2>1. f # <<>>
    BY <1>3
  <2>2. /\ Front(f) \in Seq(AxValue) /\ Len(Front(f)) = Len(f) - 1 /\ Last(f) = f[Len(f)] /\ Last(f) \in AxValue
        /\ \A i \in 1..Len(f) - 1 : Front(f)[i] = f[i]
    BY ONLY <1>3, <2>1, AxFrontIs
  <2>3. k \in 1..k /\ \A i \in 1..k - 1 : i \in 1..k
    OBVIOUS
  <2> QED
    BY ONLY <1>3, <2>2, <2>3
<1> QED
  BY ONLY <1>1, <1>2, <1>3, <1>4

\* An operator that is applied makes the value of what has been read behind the next one.
LEMMA AxPopped ==
  ASSUME NEW ts \in AxText, NEW q, NEW c, NEW bound \in 0..5, NEW s \in AxSound(ts, q, c, bound),
         s.ops # <<>>, Last(s.ops) # "PAR", AxPrecedence(Last(s.ops)) <= bound
  PROVE  AxApplied([s EXCEPT !.ops = Front(@)], Last(s.ops)) \in AxSound(ts, q, c, bound)
<1>1. PICK vals \in Seq(AxValue), ops \in Seq(AxOp) : vals = s.vals /\ ops = s.ops
  BY DEF AxSound, AxStack
<1>2. s \in AxStack /\ s.end = "on" /\ AxFrames(ts, vals, ops, q, c) /\ AxTop(ts, vals, ops, q, c, bound)
  BY <1>1 DEF AxSound
<1>3. PICK m \in Nat : Len(ops) = m + 1
  <2>1. Len(ops) - 1 \in Nat /\ (Len(ops) - 1) + 1 = Len(ops)
    BY <1>1
  <2> QED
    BY <2>1, Zenon
<1>4. q \in [Nat -> Nat] /\ c \in [Nat -> Nat] /\ c[m + 1] \in Nat /\ c[m] \in Nat /\ q[m] \in Nat /\ q[m + 1] \in Nat
  <2>1. m \in Nat /\ m + 1 \in Nat
    OBVIOUS
  <2> QED
    BY <1>2, <2>1 DEF AxFrames
<1>5. PICK o \in AxOp \ {"PAR"}, f \in Seq(AxOp) : o = Last(ops) /\ f = Front(ops)
  BY <1>1, AxFrontIs
<1>6. o = ops[m + 1] /\ Len(f) = m /\ \A l \in 1..m : f[l] = ops[l]
  <2>1. ops # <<>>
    BY <1>1
  <2>2. o = ops[Len(ops)] /\ Len(f) = Len(ops) - 1 /\ \A l \in 1..Len(ops) - 1 : f[l] = ops[l]
    BY ONLY <1>5, <2>1, AxFrontIs, ops \in Seq(AxOp)
  <2>3. Len(ops) - 1 = m
    BY <1>3
  <2> QED
    BY ONLY <1>3, <2>2, <2>3
<1>7. AxFrame(ts, vals, o, q[m], q[m + 1], c[m], c[m + 1])
  <2>1. m + 1 \in 1..Len(ops) /\ (m + 1) - 1 = m
    BY <1>3
  <2>2. AxFrame(ts, vals, ops[m + 1], q[(m + 1) - 1], q[m + 1], c[(m + 1) - 1], c[m + 1])
    BY <1>2, <2>1 DEF AxFrames
  <2> QED
    BY <1>6, <2>1, <2>2
<1>8. PICK prec \in 0..5 : prec = AxPrecedence(o) /\ prec = AxBinds(o) /\ prec <= bound
  <2>1. AxPrecedence(o) \in 0..5 /\ AxPrecedence(o) = AxBinds(o)
    BY AxPrecedenceIs
  <2>2. AxPrecedence(o) <= bound
    BY ONLY <1>1, <1>5, AxPrecedence(Last(s.ops)) <= bound
  <2> QED
    BY ONLY <2>1, <2>2, Zenon
<1>9. PICK b \in -2..5 : b < prec /\ AxSeg(ts, q[m + 1] + 1, Len(ts), b, vals[Len(vals)])
  <2>1. PICK b \in -2..5 : (ops # <<>> => b < AxPrecedence(Last(ops)))
                           /\ AxSeg(ts, q[Len(ops)] + 1, Len(ts), b, vals[Len(vals)])
    BY <1>2 DEF AxTop
  <2> QED
    BY <1>1, <1>3, <1>5, <1>8, <2>1
<1>10. PICK k \in Nat : k = c[m + 1] /\ Len(vals) = k + 1
  BY <1>2, <1>3, <1>4 DEF AxTop
<1>11. PICK v \in AxValue : v = Last(vals) /\ v = vals[Len(vals)]
  <2>1. Last(vals) = vals[k + 1] /\ Last(vals) \in AxValue
    BY ONLY <1>10, AxRest, vals \in Seq(AxValue)
  <2>2. Last(vals) = vals[Len(vals)]
    BY ONLY <1>10, <2>1, Zenon
  <2> QED
    BY ONLY <2>1, <2>2, Zenon
<1>12. PICK i \in 1..Len(ts) : i = q[m + 1] /\ AxIsOp(ts, i) /\ AxOpAt(ts, i) = o
  BY <1>5, <1>7 DEF AxFrame
<1> DEFINE p == [s EXCEPT !.ops = Front(@)]
           u == AxApplied(p, o)
<1>13. p \in AxStack /\ p.vals = vals /\ p.ops = f /\ p.end = "on"
  <2>1. Len(f) <= AxDepth
    <3>1. Len(ops) <= AxDepth
      BY <1>1, <1>2 DEF AxStack
    <3> QED
      BY <1>3, <1>6, <3>1, AxModIs
  <2> QED
    BY <1>1, <1>2, <1>5, <2>1 DEF AxStack
<1>14. PICK rest \in Seq(AxValue), x \in AxValue :
         /\ u = [p EXCEPT !.vals = Append(rest, x)]
         /\ Len(rest) = c[m] /\ \A h \in 1..c[m] : rest[h] = vals[h]
         /\ AxSeg(ts, q[m] + 1, Len(ts), prec, x)
  <2>1. CASE o \in AxUnary
    <3>1. o \in {"NEG", "NOT"} /\ o # "POS"
      BY <1>5, <2>1 DEF AxUnary
    <3>2. AxUnaryAt(ts, i) /\ i = q[m] + 1 /\ k = c[m]
      BY <1>7, <1>10, <1>12, <3>1 DEF AxFrame
    <3>3. AxSeg(ts, i + 1, Len(ts), b, v)
      BY <1>9, <1>11, <1>12
    <3>4. AxSeg(ts, i, Len(ts), prec, AxOf(o, 0, v))
      <4>1. b \in Int /\ b < AxBinds(AxOpAt(ts, i)) /\ AxBinds(AxOpAt(ts, i)) = prec
        BY <1>8, <1>9, <1>12
      <4> QED
        BY ONLY <1>12, <3>2, <3>3, <4>1, AxSegUnary, ts \in AxText
    <3>5. AxOf(o, 0, v) = AxApply(o, 0, v) /\ AxApply(o, 0, v) \in AxValue
      <4>1. 0 \in 0..AxBad /\ 0 \in AxValue /\ AxValue \subseteq 0..AxBad
        BY AxModIs DEF AxBad, AxValue, AxAny
      <4>2. o \in (AxOp \ {"PAR"}) \cup {"POS"} /\ v \in 0..AxBad /\ v \in AxValue
        BY <4>1
      <4> QED
        BY ONLY <3>1, <4>1, <4>2, AxOfIs, AxApplyIs, o \in AxOp \ {"PAR"}
    <3>6. u = [p EXCEPT !.vals = Append(Front(vals), AxApply(o, 0, v))]
      <4>1. vals # <<>>
        BY <1>10
      <4> QED
        BY <1>5, <1>11, <1>13, <2>1, <4>1, Zenon DEF AxApplied
    <3>7. Front(vals) \in Seq(AxValue) /\ Len(Front(vals)) = k /\ \A h \in 1..k : Front(vals)[h] = vals[h]
      BY ONLY <1>10, AxRest, vals \in Seq(AxValue)
    <3> QED
      BY ONLY <3>2, <3>4, <3>5, <3>6, <3>7
  <2>2. CASE o \notin AxUnary
    <3>1. PICK a \in Nat : a = c[m] /\ k = a + 1
      BY <1>4, <1>7, <1>10, <2>2 DEF AxFrame
    <3>2. ~AxUnaryAt(ts, i) /\ AxSeg(ts, q[m] + 1, i - 1, prec, vals[k])
      BY <1>7, <1>8, <1>10, <1>12, <2>2 DEF AxFrame
    <3>3. AxSeg(ts, i + 1, Len(ts), b, v)
      BY <1>9, <1>11, <1>12
    <3>4. AxSeg(ts, q[m] + 1, Len(ts), prec, AxApply(o, vals[k], v))
      <4>1. b \in Int /\ b < AxBinds(AxOpAt(ts, i)) /\ AxBinds(AxOpAt(ts, i)) = prec
        BY <1>8, <1>9, <1>12
      <4> QED
        BY ONLY <1>12, <3>2, <3>3, <4>1, AxSegBinary, ts \in AxText
    <3>5. /\ Front(Front(vals)) \in Seq(AxValue) /\ Len(Front(Front(vals))) = k - 1
          /\ \A h \in 1..k - 1 : Front(Front(vals))[h] = vals[h]
          /\ vals[k] \in AxValue
      <4>1. k # 0
        BY <3>1
      <4> QED
        BY ONLY <1>10, <4>1, AxRest, vals \in Seq(AxValue)
    <3>6. k - 1 = a /\ Len(vals) - 1 = k /\ Len(vals) # 1 /\ vals # <<>>
      <4>1. k - 1 = a /\ Len(vals) - 1 = k /\ Len(vals) # 1
        <5>1. PICK n : n = Len(vals)
          OBVIOUS
        <5>2. n = k + 1 /\ k = a + 1
          BY ONLY <1>10, <3>1, <5>1
        <5>3. k - 1 = a /\ n - 1 = k /\ n # 1
          BY ONLY <5>2, a \in Nat
        <5> QED
          BY ONLY <5>1, <5>3
      <4>2. vals # <<>>
        BY ONLY <1>10, AxRest, vals \in Seq(AxValue)
      <4> QED
        BY ONLY <4>1, <4>2
    <3>7. u = [p EXCEPT !.vals = Append(Front(Front(vals)), AxApply(o, vals[k], v))]
      BY <1>5, <1>11, <1>13, <2>2, <3>6, Zenon DEF AxApplied
    <3>8. AxApply(o, vals[k], v) \in AxValue
      BY <1>5, <1>11, <3>5, AxApplyIs
    <3> QED
      BY ONLY <3>1, <3>4, <3>5, <3>6, <3>7, <3>8
  <2> QED
    BY <2>1, <2>2
<1>15. u \in AxStack
  BY <1>5, <1>13, AxAppliedIs
<1>16. PICK w \in Seq(AxValue) : w = Append(rest, x) /\ Len(w) = c[m] + 1 /\ w[c[m] + 1] = x
                                 /\ \A h \in 1..c[m] : w[h] = vals[h]
  <2>1. /\ Append(rest, x) \in Seq(AxValue) /\ Len(Append(rest, x)) = Len(rest) + 1
        /\ \A h \in 1..Len(rest) : Append(rest, x)[h] = rest[h] /\ Append(rest, x)[Len(rest) + 1] = x
    BY ONLY AppendProperties, rest \in Seq(AxValue), x \in AxValue
  <2>2. Append(rest, x)[Len(rest) + 1] = x
    BY ONLY AppendProperties, rest \in Seq(AxValue), x \in AxValue
  <2> QED
    BY ONLY <1>14, <2>1, <2>2
<1>17. u.vals = w /\ u.ops = f /\ u.end = "on"
  <2>1. u = [p EXCEPT !.vals = w]
    BY <1>14, <1>16
  <2> HIDE DEF p, u
  <2> QED
    BY ONLY <1>13, <2>1 DEF AxStack
<1>18. AxFrames(ts, w, f, q, c)
  <2>1. AxFrames(ts, vals, f, q, c)
    BY <1>1, <1>2, <1>5, AxFramesFront
  <2>2. AxExtends(ts, ts)
    BY DEF AxExtends, AxText
  <2>3. Len(w) >= c[Len(f)] /\ \A h \in 1..c[Len(f)] : w[h] = vals[h]
    <3>1. PICK n \in Nat : n = c[m]
      BY <1>4
    <3>2. Len(w) >= n
      BY ONLY <1>16, <3>1, n \in Nat
    <3>3. \A h \in 1..n : w[h] = vals[h]
      BY ONLY <1>16, <3>1, Zenon
    <3> QED
      BY ONLY <1>6, <3>1, <3>2, <3>3
  <2> QED
    BY ONLY <2>1, <2>2, <2>3, AxFramesKept, ts \in AxText, vals \in Seq(AxValue), f \in Seq(AxOp), w \in Seq(AxValue)
<1>19. f # <<>> => prec < AxPrecedence(Last(f))
  <2> SUFFICES ASSUME f # <<>> PROVE prec < AxPrecedence(Last(f))
    OBVIOUS
  <2>1. Last(f) = f[m] /\ m # 0
    <3>1. Len(f) \in Nat \ {0} /\ Last(f) = f[Len(f)]
      BY AxFrontIs
    <3> QED
      BY <1>6, <3>1
  <2>2. m + 1 \in 2..Len(ops) /\ (m + 1) - 1 = m /\ m \in 1..m
    BY ONLY <1>3, <2>1, m \in Nat
  <2>3. ops[m + 1] = "PAR" \/ AxPrecedence(ops[m + 1]) < AxPrecedence(ops[(m + 1) - 1])
    BY <1>2, <2>2 DEF AxFrames
  <2>4. f[m] = ops[m]
    BY <1>6, <2>2
  <2> QED
    BY <1>5, <1>6, <1>8, <2>1, <2>2, <2>3, <2>4
<1>20. AxTop(ts, w, f, q, c, bound)
  <2>1. Len(w) = c[Len(f)] + 1 /\ w[Len(w)] = x
    BY <1>6, <1>16
  <2>2. prec \in -2..5 /\ prec <= bound
    BY <1>8
  <2> QED
    BY <1>6, <1>14, <1>19, <2>1, <2>2 DEF AxTop
<1>21. u \in AxSound(ts, q, c, bound)
  BY <1>15, <1>17, <1>18, <1>20 DEF AxSound
<1> QED
  BY <1>1, <1>5, <1>21

\* Applying an operator leaves the others alone.
LEMMA AxAppliedOps ==
  ASSUME NEW s \in AxStack, NEW o
  PROVE  AxApplied(s, o).ops = s.ops
<1>1. \A v : [s EXCEPT !.vals = v].ops = s.ops
  BY DEF AxStack
<1>2. \A e : [s EXCEPT !.end = e].ops = s.ops
  BY DEF AxStack
<1>3. (\E v : AxApplied(s, o) = [s EXCEPT !.vals = v]) \/ (\E e : AxApplied(s, o) = [s EXCEPT !.end = e])
      \/ AxApplied(s, o) = s
  BY Zenon DEF AxApplied
<1>4. ASSUME NEW v, AxApplied(s, o) = [s EXCEPT !.vals = v]
      PROVE  AxApplied(s, o).ops = s.ops
  BY <1>1, <1>4
<1>5. ASSUME NEW e, AxApplied(s, o) = [s EXCEPT !.end = e]
      PROVE  AxApplied(s, o).ops = s.ops
  BY <1>2, <1>5
<1> QED
  BY <1>3, <1>4, <1>5

\* Operators are taken off for as long as they are to go, and what each of them
\* preserves is preserved.
AxGoes(s, goes) == s.ops # <<>> /\ s.end = "on" /\ Last(s.ops) \in goes

LEMMA AxUnstacked ==
  ASSUME NEW I \in SUBSET AxStack, NEW s \in I, NEW goes,
         \A p \in I : AxGoes(p, goes) => AxApplied([p EXCEPT !.ops = Front(@)], Last(p.ops)) \in I
  PROVE  AxUnstack(s, goes) \in I /\ ~AxGoes(AxUnstack(s, goes), goes)
<1> DEFINE n == Len(s.ops)
           Took(p, k) == IF p.ops # <<>> /\ p.end = "on" /\ Len(p.ops) = Len(s.ops) - k + 1 /\ Last(p.ops) \in goes
                         THEN AxApplied([p EXCEPT !.ops = Front(@)], Last(p.ops)) ELSE p
           F == [pk \in I \X (1..n) |-> Took(pk[1], pk[2])]
           Body(u) == [k \in 0..n |-> IF k = 0 THEN s ELSE Took(u[k - 1], k)]
           w == CHOOSE u : u = Body(u)
<1>1. n \in Nat
  BY DEF AxStack
<1>2. \A p \in I, k \in 1..n : Took(p, k) \in I
  BY DEF AxGoes
<1>3. AxUnstack(s, goes) = w[n]
  BY Zenon DEF AxUnstack
<1>4. ASSUME NEW p \in I, NEW k \in 1..n
      PROVE  /\ ~AxGoes(p, goes) => ~AxGoes(Took(p, k), goes)
             /\ AxGoes(p, goes) /\ Len(p.ops) = n - k + 1 => Len(Took(p, k).ops) = n - k
  <2>1. ~AxGoes(p, goes) => Took(p, k) = p
    BY DEF AxGoes
  <2>2. ASSUME AxGoes(p, goes), Len(p.ops) = n - k + 1
        PROVE  Len(Took(p, k).ops) = n - k
    <3>1. PICK ops \in Seq(AxOp) : ops = p.ops
      BY DEF AxStack
    <3>2. ops # <<>> /\ Last(ops) \in AxOp /\ Front(ops) \in Seq(AxOp) /\ Len(Front(ops)) = Len(ops) - 1 /\ Len(ops) \in Nat
      <4>1. ops # <<>>
        BY <2>2, <3>1 DEF AxGoes
      <4> QED
        BY ONLY <4>1, AxFrontIs, ops \in Seq(AxOp)
    <3>3. [p EXCEPT !.ops = Front(@)] \in AxStack /\ [p EXCEPT !.ops = Front(@)].ops = Front(ops)
      <4>1. Len(Front(ops)) <= AxDepth
        <5>1. Len(ops) <= AxDepth
          BY <3>1 DEF AxStack
        <5> QED
          BY <3>2, <5>1, AxModIs
      <4> QED
        BY <3>1, <3>2, <4>1 DEF AxStack
    <3>4. Took(p, k) = AxApplied([p EXCEPT !.ops = Front(@)], Last(p.ops))
      BY <2>2 DEF AxGoes
    <3>5. Took(p, k).ops = Front(ops)
      BY <3>3, <3>4, AxAppliedOps
    <3>6. Len(Took(p, k).ops) = Len(ops) - 1
      BY <3>2, <3>5
    <3> HIDE DEF n, Took
    <3> QED
      BY ONLY <1>1, <2>2, <3>1, <3>6, k \in 1..n
  <2> QED
    BY <2>1, <2>2
<1> HIDE DEF n, Took
<1>5. F \in [I \X (1..n) -> I]
  BY <1>2
<1>6. PICK u : Recursive(u, I, s, n, F)
  <2> HIDE DEF F
  <2> QED
    BY <1>1, <1>5, PrimRec
<1>7. u[0] = s /\ u \in [0..n -> I] /\ \A k \in 1..n : u[k] = Took(u[k - 1], k)
  <2>1. u[0] = s /\ u \in [0..n -> I] /\ \A k \in 1..n : u[k] = F[<<u[k - 1], k>>]
    BY <1>6 DEF Recursive
  <2>2. \A k \in 1..n : u[k - 1] \in I
    BY <1>1, <2>1
  <2> QED
    BY <2>1, <2>2
<1>8. u = Body(u)
  BY <1>1, <1>7
<1>9. w = Body(w)
  <2> HIDE DEF Body
  <2> QED
    BY <1>8, Zenon
<1> HIDE DEF w
<1>10. w[0] = s /\ \A k \in 1..n : w[k] = Took(w[k - 1], k)
  BY <1>1, <1>9
<1> DEFINE G == {k \in 0..n : w[k] \in I /\ (AxGoes(w[k], goes) => Len(w[k].ops) = n - k)}
<1>11. 0 \in G
  BY <1>1, <1>10 DEF n
<1>12. ASSUME NEW k \in 1..n, k - 1 \in G
       PROVE  k \in G
  <2>1. PICK p \in I : p = w[k - 1] /\ (AxGoes(p, goes) => Len(p.ops) = n - (k - 1))
    BY <1>12
  <2>2. w[k] = Took(p, k) /\ Took(p, k) \in I
    BY <1>2, <1>10, <2>1
  <2>3. AxGoes(p, goes) => Len(p.ops) = n - k + 1
    BY <1>1, <2>1
  <2>4. AxGoes(Took(p, k), goes) => Len(Took(p, k).ops) = n - k
    BY <1>4, <2>3
  <2> QED
    BY <2>2, <2>4
<1>13. 0..n \subseteq G
  <2> HIDE DEF G
  <2> QED
    BY ONLY <1>1, <1>11, <1>12, UpTo
<1>14. w[n] \in I /\ (AxGoes(w[n], goes) => Len(w[n].ops) = 0)
  <2>1. n \in 0..n /\ n - n = 0
    BY <1>1
  <2>2. n \in G
    BY <1>13, <2>1
  <2> QED
    BY <2>1, <2>2
<1>15. ~AxGoes(w[n], goes)
  <2> SUFFICES ASSUME AxGoes(w[n], goes) PROVE FALSE
    OBVIOUS
  <2>1. PICK ops \in Seq(AxOp) : ops = w[n].ops
    BY <1>14 DEF AxStack
  <2>2. ops # <<>> /\ Len(ops) = 0
    BY <1>14, <2>1 DEF AxGoes
  <2> QED
    BY ONLY <2>2, ops \in Seq(AxOp)
<1> QED
  BY <1>3, <1>14, <1>15

\* Operators that bind at least as tightly as the next one are applied.
LEMMA AxUnstackSound ==
  ASSUME NEW ts \in AxText, NEW q, NEW c, NEW bound \in 0..5, NEW s \in AxSound(ts, q, c, bound), NEW goes \in SUBSET AxOp,
         \A o \in goes : o # "PAR" /\ AxPrecedence(o) <= bound
  PROVE  /\ AxUnstack(s, goes) \in AxSound(ts, q, c, bound)
         /\ AxUnstack(s, goes).ops # <<>> => Last(AxUnstack(s, goes).ops) \notin goes
<1>1. \A p \in AxSound(ts, q, c, bound) :
        AxGoes(p, goes) => AxApplied([p EXCEPT !.ops = Front(@)], Last(p.ops)) \in AxSound(ts, q, c, bound)
  <2> TAKE p \in AxSound(ts, q, c, bound)
  <2> SUFFICES ASSUME AxGoes(p, goes)
               PROVE  AxApplied([p EXCEPT !.ops = Front(@)], Last(p.ops)) \in AxSound(ts, q, c, bound)
    OBVIOUS
  <2>1. p.ops # <<>> /\ Last(p.ops) \in goes
    BY DEF AxGoes
  <2> QED
    BY <2>1, AxPopped
<1>2. AxSound(ts, q, c, bound) \in SUBSET AxStack
  BY DEF AxSound
<1>3. PICK u : u = AxUnstack(s, goes)
  OBVIOUS
<1>4. u \in AxSound(ts, q, c, bound) /\ ~AxGoes(u, goes)
  BY ONLY <1>1, <1>2, <1>3, AxUnstacked, s \in AxSound(ts, q, c, bound)
<1>5. u.end = "on"
  BY <1>4 DEF AxSound
<1> QED
  BY <1>3, <1>4, <1>5 DEF AxGoes

\* The bound on what binds behind the last operator may be looser.
LEMMA AxSoundLooser ==
  ASSUME NEW ts, NEW q, NEW c, NEW b \in Int, NEW bound \in Int, b <= bound
  PROVE  AxSound(ts, q, c, b) \subseteq AxSound(ts, q, c, bound)
<1>1. \A vals, ops : AxTop(ts, vals, ops, q, c, b) => AxTop(ts, vals, ops, q, c, bound)
  <2> TAKE vals, ops
  <2> SUFFICES ASSUME AxTop(ts, vals, ops, q, c, b) PROVE AxTop(ts, vals, ops, q, c, bound)
    OBVIOUS
  <2>1. PICK k \in -2..5 : /\ k <= b /\ (ops # <<>> => k < AxPrecedence(Last(ops)))
                           /\ AxSeg(ts, q[Len(ops)] + 1, Len(ts), k, vals[Len(vals)])
    BY DEF AxTop
  <2>2. k <= bound
    BY <2>1
  <2> QED
    BY <2>1, <2>2 DEF AxTop
<1> QED
  BY <1>1 DEF AxSound

\* Where no operator is left, the last value is the expression's.
LEMMA AxSoundValue ==
  ASSUME NEW ts \in AxText, NEW q, NEW c, NEW bound, NEW s \in AxSound(ts, q, c, bound), s.ops = <<>>
  PROVE  s.vals = <<AxMeaning(ts)>> /\ AxNest(ts)[Len(ts)] = 0
<1>1. PICK vals \in Seq(AxValue) : vals = s.vals
  BY DEF AxSound, AxStack
<1>2. AxFrames(ts, vals, <<>>, q, c) /\ AxTop(ts, vals, <<>>, q, c, bound)
  BY <1>1 DEF AxSound
<1>3. Len(<<>>) = 0 /\ q[0] = 0 /\ c[0] = 0
  BY <1>2 DEF AxFrames
<1>4. Len(vals) = 1
  BY <1>2, <1>3 DEF AxTop
<1>5. PICK b \in -2..5 : AxSeg(ts, 1, Len(ts), b, vals[1])
  <2>1. \E b \in -2..5 : AxSeg(ts, q[Len(<<>>)] + 1, Len(ts), b, vals[Len(vals)])
    BY <1>2 DEF AxTop
  <2>2. q[Len(<<>>)] + 1 = 1
    BY <1>3
  <2> QED
    BY <1>4, <2>1, <2>2
<1>6. AxMeaning(ts) = vals[1] /\ AxNest(ts)[Len(ts)] = AxNest(ts)[1 - 1]
  BY <1>5 DEF AxSeg, AxMeaning
<1>7. vals = <<vals[1]>>
  BY <1>4
<1> QED
  BY <1>1, <1>6, <1>7, AxNestIs

\* At the end of the expression, all operators are applied, or a bracket is that was not
\* closed.
LEMMA AxEndSeen ==
  ASSUME NEW ts \in AxText, NEW q, NEW c, NEW s \in AxSound(ts, q, c, -1)
  PROVE  \/ AxUnstack(s, AxOp).end = "on" /\ AxUnstack(s, AxOp).vals = <<AxMeaning(ts)>>
         \/ AxUnstack(s, AxOp).end = "lost" /\ AxNest(ts)[Len(ts)] # 0
<1> DEFINE lost == {p \in AxStack : p.end = "lost" /\ AxNest(ts)[Len(ts)] # 0}
           I == AxSound(ts, q, c, 5) \cup lost
<1>1. s \in I
  <2>1. -1 \in Int /\ 5 \in Int /\ -1 <= 5
    OBVIOUS
  <2> QED
    BY <2>1, AxSoundLooser
<1>2. I \in SUBSET AxStack
  BY DEF AxSound
<1>3. ASSUME NEW p \in I, AxGoes(p, AxOp)
      PROVE  AxApplied([p EXCEPT !.ops = Front(@)], Last(p.ops)) \in I
  <2>1. p \in AxSound(ts, q, c, 5) /\ p.ops # <<>> /\ p.end = "on"
    BY <1>3 DEF AxGoes
  <2>2. PICK vals \in Seq(AxValue), ops \in Seq(AxOp) : vals = p.vals /\ ops = p.ops
    BY <2>1 DEF AxSound, AxStack
  <2>3. /\ p \in AxStack /\ AxFrames(ts, vals, ops, q, c) /\ AxTop(ts, vals, ops, q, c, 5)
    BY <2>1, <2>2 DEF AxSound
  <2>4. PICK m \in Nat \ {0} : m = Len(ops) /\ Last(ops) = ops[m] /\ Last(ops) \in AxOp
    BY <2>1, <2>2, AxFrontIs
  <2>5. CASE Last(ops) = "PAR"
    <3>1. AxFrame(ts, vals, "PAR", q[m - 1], q[m], c[m - 1], c[m])
      <4>1. m \in 1..Len(ops)
        BY <2>4
      <4>2. AxFrame(ts, vals, ops[m], q[m - 1], q[m], c[m - 1], c[m])
        BY <2>3, <4>1 DEF AxFrames
      <4> QED
        BY <2>4, <2>5, <4>2
    <3>2. q[m] \in 1..Len(ts) /\ AxNest(ts)[q[m]] >= 1
      BY <3>1 DEF AxFrame
    <3>3. Len(vals) = c[m] + 1 /\ AxNest(ts)[Len(ts)] = AxNest(ts)[(q[m] + 1) - 1]
      BY <2>3, <2>4 DEF AxTop, AxSeg
    <3>4. AxNest(ts)[Len(ts)] # 0
      <4>1. (q[m] + 1) - 1 = q[m] /\ q[m] \in 0..Len(ts)
        BY <3>2
      <4>2. AxNest(ts)[q[m]] \in Int
        BY <4>1, AxNestIs
      <4> QED
        BY <3>2, <3>3, <4>1, <4>2
    <3>5. vals # <<>>
      <4>1. c[m] \in Nat
        BY <2>3 DEF AxFrames
      <4>2. Len(vals) # 0
        BY <3>3, <4>1
      <4> QED
        BY <4>2
    <3> DEFINE r == [p EXCEPT !.ops = Front(@)]
    <3>6. r \in AxStack /\ r.vals = vals /\ r.end = "on"
      <4>1. Front(ops) \in Seq(AxOp) /\ Len(Front(ops)) <= AxDepth
        <5>1. ops # <<>> /\ Len(ops) <= AxDepth /\ Len(ops) \in Nat
          BY <2>1, <2>2, <2>3 DEF AxStack
        <5>2. Front(ops) \in Seq(AxOp) /\ Len(Front(ops)) = Len(ops) - 1
          BY ONLY <5>1, AxFrontIs, ops \in Seq(AxOp)
        <5> QED
          BY <5>1, <5>2, AxModIs
      <4> QED
        BY <2>1, <2>2, <2>3, <4>1 DEF AxStack
    <3>7. AxApplied(r, "PAR") = [r EXCEPT !.end = "lost"]
      <4>1. "PAR" \in AxUnary
        BY DEF AxUnary
      <4> HIDE DEF r
      <4> QED
        BY <3>5, <3>6, <4>1, Zenon DEF AxApplied
    <3>8. [r EXCEPT !.end = "lost"] \in AxStack /\ [r EXCEPT !.end = "lost"].end = "lost"
      BY <3>6 DEF AxStack
    <3> QED
      BY <2>2, <2>5, <3>4, <3>7, <3>8
  <2>6. CASE Last(ops) # "PAR"
    <3>1. AxPrecedence(Last(ops)) <= 5 /\ 5 \in 0..5
      BY <2>4, <2>6, AxPrecedenceIs
    <3> QED
      BY <2>1, <2>2, <2>6, <3>1, AxPopped
  <2> QED
    BY <2>5, <2>6
<1>4. PICK u : u = AxUnstack(s, AxOp)
  OBVIOUS
<1>5. u \in I /\ ~AxGoes(u, AxOp)
  <2> HIDE DEF I
  <2> QED
    BY ONLY <1>1, <1>2, <1>3, <1>4, AxUnstacked
<1>6. CASE u \in lost
  BY <1>4, <1>6
<1>7. CASE u \in AxSound(ts, q, c, 5)
  <2>1. u.end = "on" /\ u.ops \in Seq(AxOp)
    BY <1>7 DEF AxSound, AxStack
  <2>2. u.ops # <<>> => Last(u.ops) \in AxOp
    BY <2>1, AxFrontIs
  <2>3. u.ops = <<>>
    BY <1>5, <2>1, <2>2 DEF AxGoes
  <2> QED
    BY <1>4, <1>7, <2>1, <2>3, AxSoundValue
<1> QED
  BY <1>5, <1>6, <1>7

\* As many values as binary operators.
AxCounted(c) ==
  {s \in AxStack : /\ s.end \in {"on", "error", "lost"}
                   /\ s.end = "on" => /\ Len(s.vals) = c[Len(s.ops)]
                                      /\ \A l \in 1..Len(s.ops) :
                                           c[l] = c[l - 1] + (IF s.ops[l] \in AxUnary THEN 0 ELSE 1)}

\* Where the expression ends with an operator, too few values are left.
LEMMA AxEndUnseen ==
  ASSUME NEW c \in [Nat -> Nat], c[0] = 0, NEW s \in AxCounted(c)
  PROVE  /\ AxUnstack(s, AxOp).end \in {"on", "error", "lost"}
         /\ AxUnstack(s, AxOp).end = "on" => Len(AxUnstack(s, AxOp).vals) # 1
<1>1. AxCounted(c) \in SUBSET AxStack
  BY DEF AxCounted
<1>2. ASSUME NEW p \in AxCounted(c), AxGoes(p, AxOp)
      PROVE  AxApplied([p EXCEPT !.ops = Front(@)], Last(p.ops)) \in AxCounted(c)
  <2>1. PICK vals \in Seq(AxValue), ops \in Seq(AxOp) : vals = p.vals /\ ops = p.ops
    BY DEF AxCounted, AxStack
  <2>2. p \in AxStack /\ p.end = "on" /\ ops # <<>> /\ Len(vals) = c[Len(ops)]
        /\ \A l \in 1..Len(ops) : c[l] = c[l - 1] + (IF ops[l] \in AxUnary THEN 0 ELSE 1)
    BY <1>2, <2>1 DEF AxGoes, AxCounted
  <2>3. PICK m \in Nat : Len(ops) = m + 1
    <3>1. Len(ops) - 1 \in Nat /\ (Len(ops) - 1) + 1 = Len(ops)
      BY <2>2
    <3> QED
      BY <3>1, Zenon
  <2>4. PICK o \in AxOp, f \in Seq(AxOp) : o = Last(ops) /\ f = Front(ops)
    BY <2>2, AxFrontIs
  <2>5. o = ops[m + 1] /\ Len(f) = m /\ \A l \in 1..m : f[l] = ops[l]
    <3>1. o = ops[Len(ops)] /\ Len(f) = Len(ops) - 1 /\ \A l \in 1..Len(ops) - 1 : f[l] = ops[l]
      BY ONLY <2>2, <2>4, AxFrontIs, ops \in Seq(AxOp)
    <3>2. Len(ops) - 1 = m
      BY <2>3
    <3> QED
      BY ONLY <2>3, <3>1, <3>2
  <2> DEFINE r == [p EXCEPT !.ops = Front(@)]
             u == AxApplied(r, o)
  <2>6. r \in AxStack /\ r.vals = vals /\ r.ops = f /\ r.end = "on"
    <3>1. Len(f) <= AxDepth
      <4>1. Len(ops) <= AxDepth
        BY <2>1, <2>2 DEF AxStack
      <4> QED
        BY <2>3, <2>5, <4>1, AxModIs
    <3> QED
      BY <2>1, <2>2, <2>4, <3>1 DEF AxStack
  <2> HIDE DEF r
  <2>7. u \in AxStack /\ u.ops = f
    BY <2>6, AxAppliedIs, AxAppliedOps
  <2>8. \A l \in 1..m : c[l] = c[l - 1] + (IF f[l] \in AxUnary THEN 0 ELSE 1)
    <3> TAKE l \in 1..m
    <3>1. l \in 1..Len(ops)
      BY <2>3
    <3> QED
      BY <2>2, <2>5, <3>1
  <2>9. c[m + 1] = c[m] + (IF o \in AxUnary THEN 0 ELSE 1) /\ c[m] \in Nat /\ c[m + 1] \in Nat
    <3>1. m + 1 \in 1..Len(ops) /\ (m + 1) - 1 = m /\ m + 1 \in Nat
      BY <2>3
    <3> QED
      BY <2>2, <2>5, <3>1
  <2>10. CASE vals = <<>> \/ (o \notin AxUnary /\ Len(vals) = 1) \/ o = "PAR"
    <3>1. u.end \in {"error", "lost"}
      <4>1. \A e : [r EXCEPT !.end = e].end = e
        BY <2>6 DEF AxStack
      <4>2. u = [r EXCEPT !.end = "error"] \/ u = [r EXCEPT !.end = "lost"]
        BY <2>6, <2>10, Zenon DEF AxApplied
      <4> QED
        BY <4>1, <4>2
    <3>2. u \in AxCounted(c)
      BY <2>7, <3>1 DEF AxCounted
    <3> QED
      BY <2>1, <2>4, <3>2 DEF r
  <2>11. CASE ~(vals = <<>> \/ (o \notin AxUnary /\ Len(vals) = 1) \/ o = "PAR")
    <3>1. PICK k \in Nat : Len(vals) = k + 1 /\ (o \notin AxUnary => k # 0)
      <4>1. PICK n \in Nat : n = Len(vals)
        OBVIOUS
      <4>2. n # 0
        BY ONLY <2>11, <4>1, vals \in Seq(AxValue)
      <4>3. o \notin AxUnary => n # 1
        BY ONLY <2>11, <4>1, Zenon
      <4>4. n - 1 \in Nat /\ (n - 1) + 1 = n /\ (o \notin AxUnary => n - 1 # 0)
        BY ONLY <4>2, <4>3, n \in Nat
      <4> QED
        BY ONLY <4>1, <4>4, Zenon
    <3>2. PICK rest, x : /\ u = [r EXCEPT !.vals = Append(rest, x)] /\ rest \in Seq(AxValue)
                        /\ Len(rest) = IF o \in AxUnary THEN k ELSE k - 1
      <4>1. CASE o \in AxUnary
        <5>1. u = [r EXCEPT !.vals = Append(Front(vals), AxApply(o, 0, Last(vals)))]
          BY <2>6, <2>11, <4>1, Zenon DEF AxApplied
        <5>2. Front(vals) \in Seq(AxValue) /\ Len(Front(vals)) = k
          BY ONLY <3>1, AxRest, vals \in Seq(AxValue)
        <5> QED
          BY <4>1, <5>1, <5>2
      <4>2. CASE o \notin AxUnary
        <5>1. u = [r EXCEPT !.vals = Append(Front(Front(vals)), AxApply(o, vals[Len(vals) - 1], Last(vals)))]
          BY <2>6, <2>11, <4>2, Zenon DEF AxApplied
        <5>2. Front(Front(vals)) \in Seq(AxValue) /\ Len(Front(Front(vals))) = k - 1
          BY ONLY <3>1, <4>2, AxRest, vals \in Seq(AxValue)
        <5> QED
          BY <4>2, <5>1, <5>2
      <4> QED
        BY <4>1, <4>2
    <3>3. u.vals = Append(rest, x) /\ u.end = "on"
      BY <2>6, <3>2 DEF AxStack
    <3>4. Len(u.vals) = Len(rest) + 1
      <4>1. u.vals \in Seq(AxValue)
        BY <2>7 DEF AxStack
      <4>2. Len(Append(rest, x)) = Len(rest) + 1
        OBVIOUS
      <4> QED
        BY <3>3, <4>2
    <3>5. Len(u.vals) = c[m]
      <4>1. k + 1 = c[m] + (IF o \in AxUnary THEN 0 ELSE 1)
        BY <2>2, <2>3, <2>9, <3>1
      <4> QED
        <5>1. PICK h, e \in Nat : h = Len(rest) /\ e = c[m]
          <6>1. Len(rest) \in Nat /\ c[m] \in Nat
            BY <2>9, <3>2
          <6> QED
            BY ONLY <6>1
        <5>2. CASE o \in AxUnary
          BY ONLY <3>2, <3>4, <4>1, <5>1, <5>2, k \in Nat
        <5>3. CASE o \notin AxUnary
          <6>1. h = k - 1 /\ k + 1 = e + 1
            BY ONLY <3>2, <4>1, <5>1, <5>3
          <6>2. h + 1 = e
            BY ONLY <6>1, k \in Nat, e \in Nat
          <6> QED
            BY ONLY <3>4, <5>1, <6>2
        <5> QED
          BY <5>2, <5>3
    <3>6. u \in AxCounted(c)
      BY <2>5, <2>7, <2>8, <3>3, <3>5 DEF AxCounted
    <3> QED
      BY <2>1, <2>4, <3>6 DEF r
  <2> QED
    BY <2>10, <2>11
<1>3. PICK u : u = AxUnstack(s, AxOp)
  OBVIOUS
<1>4. u \in AxCounted(c) /\ ~AxGoes(u, AxOp)
  BY ONLY <1>1, <1>2, <1>3, AxUnstacked, s \in AxCounted(c)
<1>5. u.end \in {"on", "error", "lost"} /\ u.ops \in Seq(AxOp)
  BY <1>4 DEF AxCounted, AxStack
<1>6. ASSUME u.end = "on"
      PROVE  Len(u.vals) # 1
  <2>1. u.ops # <<>> => Last(u.ops) \in AxOp
    BY <1>5, AxFrontIs
  <2>2. u.ops = <<>>
    BY <1>4, <1>6, <2>1 DEF AxGoes
  <2>3. Len(u.vals) = c[Len(<<>>)]
    BY <1>4, <1>6, <2>2 DEF AxCounted
  <2> QED
    BY <2>3
<1> QED
  BY <1>3, <1>5, <1>6

\* What has been read of an expression: with a value at its end, or before one.
AxAfter(ts, vals, ops) == \E q, c : AxFrames(ts, vals, ops, q, c) /\ AxTop(ts, vals, ops, q, c, -1)
AxBefore(ts, vals, ops) ==
  \E q, c : /\ AxFrames(ts, vals, ops, q, c)
            /\ Len(vals) = c[Len(ops)] /\ AxLead(ts, q[Len(ops)], Len(ts))
AxAwaits(ts) == ts = <<>> \/ ~AxEnds(ts, Len(ts))

AxSigned == [t : AxSigns, n : AxValue]

\* One more token.
LEMMA AxAppended ==
  ASSUME NEW ts \in AxText, NEW x \in AxSigned
  PROVE  /\ Append(ts, x) \in AxText /\ AxExtends(ts, Append(ts, x))
         /\ Len(Append(ts, x)) = Len(ts) + 1 /\ Append(ts, x)[Len(ts) + 1] = x
         /\ AxClean(Append(ts, x)) => AxClean(ts)
<1>1. PICK us : us = Append(ts, x)
  OBVIOUS
<1>2. /\ us \in AxText /\ Len(us) = Len(ts) + 1 /\ us[Len(ts) + 1] = x
      /\ \A k \in 1..Len(ts) : us[k] = ts[k]
  <2>1. ts \in Seq(AxSigned)
    BY DEF AxText, AxSigned
  <2>2. /\ us \in Seq(AxSigned) /\ Len(us) = Len(ts) + 1 /\ us[Len(ts) + 1] = x
        /\ \A k \in 1..Len(ts) : us[k] = ts[k]
    BY ONLY <1>1, <2>1, AppendProperties, x \in AxSigned
  <2> QED
    BY <2>2 DEF AxText, AxSigned
<1>3. Len(ts) \in Nat
  BY DEF AxText
<1>4. AxExtends(ts, us)
  BY <1>2, <1>3 DEF AxExtends
<1>5. ASSUME AxClean(us)
      PROVE  AxClean(ts)
  <2> SUFFICES ASSUME NEW k \in 2..Len(ts), AxUnaryAt(ts, k), AxIsOp(ts, k - 1)
               PROVE  AxBinds(AxOpAt(ts, k - 1)) > AxBinds(AxOpAt(ts, k))
    BY DEF AxClean
  <2>1. k \in 2..Len(us) /\ k \in 1..Len(ts) /\ k - 1 \in 1..Len(ts)
    BY <1>2, <1>3
  <2>2. /\ AxOpAt(ts, k) = AxOpAt(us, k) /\ AxOpAt(ts, k - 1) = AxOpAt(us, k - 1)
        /\ (AxUnaryAt(ts, k) <=> AxUnaryAt(us, k)) /\ (AxIsOp(ts, k - 1) <=> AxIsOp(us, k - 1))
    BY <1>2, <1>4, <2>1, AxGrows
  <2>3. AxBinds(AxOpAt(us, k - 1)) > AxBinds(AxOpAt(us, k))
    BY <1>5, <2>1, <2>2 DEF AxClean
  <2> QED
    BY <2>2, <2>3
<1> QED
  BY <1>1, <1>2, <1>4, <1>5

\* What the new token is.
LEMMA AxAppendedOp ==
  ASSUME NEW ts \in AxText, NEW x \in AxSigned, NEW us, us = Append(ts, x), NEW k, k = Len(ts) + 1
  PROVE  /\ AxIsOp(us, k) <=> x.t \notin {"number", "(", ")"}
         /\ AxUnaryAt(us, k) <=> x.t = "NOT" \/ (x.t \in {"+", "-"} /\ AxAwaits(ts))
<1>1. us \in AxText /\ AxExtends(ts, us) /\ Len(us) = k /\ us[k] = x
  BY AxAppended
<1>2. Len(ts) \in Nat /\ k \in 1..Len(us) /\ k - 1 = Len(ts) /\ Len(ts) \in 0..Len(ts)
  BY <1>1 DEF AxText
<1>3. (k = 1 \/ us[k - 1].t \notin {"number", ")"}) <=> AxAwaits(ts)
  <2>1. CASE ts = <<>>
    <3>1. k = 1
      BY <2>1
    <3> QED
      BY <2>1, <3>1 DEF AxAwaits
  <2>2. CASE ts # <<>>
    <3>1. k # 1 /\ Len(ts) \in 1..Len(ts)
      BY <1>2, <2>2 DEF AxText
    <3>2. us[k - 1] = ts[Len(ts)]
      BY <1>1, <1>2, <3>1 DEF AxExtends
    <3> QED
      BY <2>2, <3>1, <3>2 DEF AxAwaits, AxEnds
  <2> QED
    BY <2>1, <2>2
<1>4. AxUnaryAt(us, k) <=> x.t = "NOT" \/ (x.t \in {"+", "-"} /\ AxAwaits(ts))
  BY <1>1, <1>3 DEF AxUnaryAt
<1>5. AxIsOp(us, k) <=> x.t \notin {"number", "(", ")"}
  BY <1>1 DEF AxIsOp
<1> QED
  BY <1>4, <1>5

\* How deep it leaves the reader.
LEMMA AxAppendedDepth ==
  ASSUME NEW ts \in AxText, NEW x \in AxSigned
  PROVE  /\ x.t \notin {"(", ")"} => AxNest(Append(ts, x))[Len(ts) + 1] = AxNest(ts)[Len(ts)]
         /\ x.t = "(" => AxNest(Append(ts, x))[Len(ts) + 1] = AxNest(ts)[Len(ts)] + 1
         /\ x.t = ")" => AxNest(Append(ts, x))[Len(ts) + 1] = AxNest(ts)[Len(ts)] - 1
         /\ AxNest(ts)[Len(ts)] \in Int
<1>1. PICK us : us = Append(ts, x)
  OBVIOUS
<1>2. PICK k : k = Len(ts) + 1
  OBVIOUS
<1>3. us \in AxText /\ AxExtends(ts, us) /\ Len(us) = k /\ us[k] = x
  BY <1>1, <1>2, AxAppended
<1>4. Len(ts) \in Nat /\ k \in 1..Len(us) /\ k - 1 = Len(ts) /\ Len(ts) \in 0..Len(ts)
  BY <1>2, <1>3 DEF AxText
<1>5. AxNest(us)[k - 1] = AxNest(ts)[Len(ts)]
  BY <1>3, <1>4, AxGrows
<1>6. AxNest(ts)[Len(ts)] \in Int
  BY <1>4, AxNestIs
<1>7. /\ x.t \notin {"(", ")"} => AxNest(us)[k] = AxNest(us)[k - 1]
      /\ x.t = "(" => AxNest(us)[k] = AxNest(us)[k - 1] + 1
      /\ x.t = ")" => AxNest(us)[k] = AxNest(us)[k - 1] - 1
  BY <1>3, <1>4, AxNestIs
<1> QED
  BY <1>1, <1>2, <1>5, <1>6, <1>7

\* A number is a value.
LEMMA AxNumberStands ==
  ASSUME NEW ts \in AxText, NEW x \in AxSigned, x.t = "number",
         NEW vals \in Seq(AxValue), NEW ops \in Seq(AxOp), AxBefore(ts, vals, ops)
  PROVE  AxAfter(Append(ts, x), Append(vals, x.n), ops)
<1>0. PICK n \in Nat : n = Len(ts)
  BY DEF AxText
<1>1. PICK us : us = Append(ts, x) /\ n = Len(ts)
  BY <1>0
<1>2. us \in AxText /\ AxExtends(ts, us) /\ Len(us) = n + 1 /\ us[n + 1] = x
  BY <1>1, AxAppended
<1>3. PICK q, c : /\ AxFrames(ts, vals, ops, q, c)
                  /\ Len(vals) = c[Len(ops)] /\ AxLead(ts, q[Len(ops)], n)
  BY <1>1 DEF AxBefore
<1>4. PICK w \in Seq(AxValue) : w = Append(vals, x.n) /\ Len(w) = Len(vals) + 1 /\ w[Len(w)] = x.n
                                /\ \A k \in 1..Len(vals) : w[k] = vals[k]
  <2>1. x.n \in AxValue
    BY DEF AxSigned
  <2>2. PICK w \in Seq(AxValue) : w = Append(vals, x.n)
    BY ONLY <2>1, AppendProperties, vals \in Seq(AxValue)
  <2>3. Len(w) = Len(vals) + 1 /\ w[Len(vals) + 1] = x.n /\ \A k \in 1..Len(vals) : w[k] = vals[k]
    BY ONLY <2>1, <2>2, AppendProperties, vals \in Seq(AxValue)
  <2> QED
    BY ONLY <2>2, <2>3
<1>5. AxFrames(us, w, ops, q, c)
  <2>1. Len(w) >= c[Len(ops)] /\ \A k \in 1..c[Len(ops)] : w[k] = vals[k]
    BY <1>3, <1>4
  <2> QED
    BY ONLY <1>2, <1>3, <2>1, AxFramesKept, ts \in AxText, vals \in Seq(AxValue), ops \in Seq(AxOp), w \in Seq(AxValue)
<1>6. n + 1 \in 1..Len(us)
  BY <1>2
<1>7. AxSeg(us, n + 1, n + 1, -2, x.n)
  BY <1>2, <1>6, AxSegNumber
<1>8. PICK b \in {-2, -1} : AxSeg(us, q[Len(ops)] + 1, n + 1, b, x.n)
  <2>1. CASE n = q[Len(ops)]
    BY <1>7, <2>1
  <2>2. CASE n # q[Len(ops)]
    <3>1. n = q[Len(ops)] + 1 /\ n \in 1..Len(ts) /\ AxIsOp(ts, n) /\ AxUnaryAt(ts, n) /\ AxOpAt(ts, n) = "POS"
      BY <1>1, <1>3, <2>2 DEF AxLead
    <3>2. n \in 1..Len(us) /\ AxIsOp(us, n) /\ AxUnaryAt(us, n) /\ AxOpAt(us, n) = "POS"
      <4>1. n \in 1..Len(us)
        BY <1>2, <3>1
      <4> QED
        BY <1>2, <3>1, <4>1, AxGrows
    <3>3. AxBinds("POS") = -1 /\ -2 < -1 /\ -2 \in Int
      BY DEF AxBinds
    <3>4. AxSeg(us, n, n + 1, -1, AxOf("POS", 0, x.n))
      BY ONLY <1>2, <1>7, <3>2, <3>3, AxSegUnary
    <3>5. AxOf("POS", 0, x.n) = x.n
      <4>1. x.n \in AxValue /\ 0 \in AxValue /\ AxBad \notin AxValue
        BY AxModIs DEF AxSigned, AxBad, AxValue, AxAny
      <4> QED
        BY <4>1 DEF AxOf
    <3> QED
      BY <3>1, <3>4, <3>5
  <2> QED
    BY <2>1, <2>2
<1>9. ops # <<>> => b < AxPrecedence(Last(ops))
  <2> SUFFICES ASSUME ops # <<>> PROVE b < AxPrecedence(Last(ops))
    OBVIOUS
  <2>1. PICK o \in AxOp : o = Last(ops)
    BY AxFrontIs
  <2>2. PICK p \in 0..255 : p = AxPrecedence(o)
    BY ONLY AxPrecedenceIs, o \in AxOp, Zenon
  <2>3. b < p
    BY ONLY b \in {-2, -1}, p \in 0..255
  <2> QED
    BY ONLY <2>1, <2>2, <2>3
<1>10. AxTop(us, w, ops, q, c, -1)
  <2>1. b \in -2..5 /\ b <= -1 /\ Len(w) = c[Len(ops)] + 1
    BY <1>3, <1>4
  <2> QED
    BY <1>2, <1>4, <1>8, <1>9, <2>1 DEF AxTop
<1> QED
  BY <1>1, <1>4, <1>5, <1>10 DEF AxAfter

\* An operator or a bracket that is put on the stack stands on it.
LEMMA AxPushStands ==
  ASSUME NEW us \in AxText, NEW vals \in Seq(AxValue), NEW ops \in Seq(AxOp), NEW q, NEW c,
         AxFrames(us, vals, ops, q, c), NEW o \in AxOp, NEW e \in Nat,
         AxFrame(us, vals, o, q[Len(ops)], Len(us), c[Len(ops)], e), c[Len(ops)] <= e, e = Len(vals),
         o = "PAR" \/ ops = <<>> \/ AxPrecedence(o) < AxPrecedence(Last(ops))
  PROVE  AxBefore(us, vals, Append(ops, o))
<1>1. PICK m \in Nat, n \in Nat : m = Len(ops) /\ n = Len(us)
  BY DEF AxText
<1>2. PICK r, d : r = [q EXCEPT ![m + 1] = n] /\ d = [c EXCEPT ![m + 1] = e]
  OBVIOUS
<1>3. AxFrames(us, vals, Append(ops, o), r, d)
  BY <1>1, <1>2, AxFramesPush
<1>4. r[m + 1] = n /\ d[m + 1] = e
  <2>1. q \in [Nat -> Nat] /\ c \in [Nat -> Nat]
    BY DEF AxFrames
  <2>2. m + 1 \in Nat
    BY ONLY m \in Nat
  <2> QED
    BY ONLY <1>2, <2>1, <2>2
<1>5. Len(Append(ops, o)) = m + 1
  BY <1>1, AppendProperties
<1>6. AxLead(us, r[m + 1], Len(us))
  BY <1>1, <1>4 DEF AxLead
<1> QED
  BY <1>3, <1>4, <1>5, <1>6 DEF AxBefore

\* The place of the last operator, how deep it is, and how many values are under it.
LEMMA AxFramesAre ==
  ASSUME NEW ts \in AxText, NEW vals, NEW ops \in Seq(AxOp), NEW q, NEW c, AxFrames(ts, vals, ops, q, c)
  PROVE  /\ q \in [Nat -> Nat] /\ c \in [Nat -> Nat] /\ Len(ops) \in Nat /\ c[Len(ops)] \in Nat
         /\ q[Len(ops)] \in 0..Len(ts) /\ q[Len(ops)] \in Nat /\ AxNest(ts)[q[Len(ops)]] \in Nat
<1>1. q \in [Nat -> Nat] /\ c \in [Nat -> Nat] /\ q[0] = 0
  BY DEF AxFrames
<1>2. PICK m \in Nat : m = Len(ops)
  OBVIOUS
<1>3. q[m] \in Nat /\ c[m] \in Nat
  BY ONLY <1>1, m \in Nat
<1>4. \A k \in 0..Len(ts) : AxNest(ts)[k] \in Int
  BY AxNestIs
<1>5. CASE m = 0
  <2>1. Len(ts) \in Nat
    BY DEF AxText
  <2>2. q[m] \in 0..Len(ts) /\ AxNest(ts)[q[m]] = 0 /\ 0 \in Nat
    BY <1>1, <1>5, <2>1, AxNestIs
  <2> QED
    BY ONLY <1>1, <1>2, <1>3, <2>2, m \in Nat
<1>6. CASE m # 0
  <2>1. m \in 1..Len(ops)
    BY <1>2, <1>6
  <2>2. AxFrame(ts, vals, ops[m], q[m - 1], q[m], c[m - 1], c[m])
    BY <2>1 DEF AxFrames
  <2>3. q[m] \in 1..Len(ts) /\ AxNest(ts)[q[m]] >= IF ops[m] = "PAR" THEN 1 ELSE 0
    BY <2>2 DEF AxFrame
  <2>4. q[m] \in 0..Len(ts)
    BY <2>3
  <2>5. PICK d \in Int : d = AxNest(ts)[q[m]]
    BY <1>4, <2>4
  <2>6. d \in Nat
    BY ONLY <2>3, <2>5
  <2> QED
    BY ONLY <1>1, <1>2, <1>3, <2>4, <2>5, <2>6
<1> QED
  BY <1>5, <1>6

\* An opening bracket.
LEMMA AxOpenStands ==
  ASSUME NEW ts \in AxText, NEW x \in AxSigned, x.t = "(",
         NEW vals \in Seq(AxValue), NEW ops \in Seq(AxOp), AxBefore(ts, vals, ops)
  PROVE  AxBefore(Append(ts, x), vals, Append(ops, "PAR"))
<1>0. PICK n \in Nat : n = Len(ts)
  BY DEF AxText
<1>1. PICK us : us = Append(ts, x) /\ n = Len(ts)
  BY <1>0
<1>2. us \in AxText /\ AxExtends(ts, us) /\ Len(us) = n + 1 /\ us[n + 1] = x
  BY <1>1, AxAppended
<1>3. PICK q, c : /\ AxFrames(ts, vals, ops, q, c)
                  /\ Len(vals) = c[Len(ops)] /\ AxLead(ts, q[Len(ops)], n)
  BY <1>1 DEF AxBefore
<1>4. /\ q \in [Nat -> Nat] /\ c \in [Nat -> Nat] /\ Len(ops) \in Nat /\ c[Len(ops)] \in Nat
      /\ q[Len(ops)] \in 0..Len(ts) /\ q[Len(ops)] \in Nat /\ AxNest(ts)[q[Len(ops)]] \in Nat
  BY ONLY <1>3, AxFramesAre, ts \in AxText, ops \in Seq(AxOp)
<1>5. AxFrames(us, vals, ops, q, c)
  <2>1. Len(vals) >= c[Len(ops)] /\ \A k \in 1..c[Len(ops)] : vals[k] = vals[k]
    BY <1>3, <1>4
  <2> QED
    BY ONLY <1>2, <1>3, <2>1, AxFramesKept, ts \in AxText, vals \in Seq(AxValue), ops \in Seq(AxOp)
<1>6. AxNest(us)[n + 1] >= 1
  <2>1. AxNest(us)[n + 1] = AxNest(ts)[n] + 1 /\ AxNest(ts)[n] \in Int
    BY <1>1, AxAppendedDepth
  <2>2. AxNest(ts)[n] >= 0
    <3>1. PICK p \in 0..n : p = q[Len(ops)]
      BY <1>1, <1>4
    <3>2. AxNest(ts)[p] \in Nat
      BY <1>4, <3>1
    <3>3. CASE n = p
      BY <3>2, <3>3
    <3>4. CASE n # p
      <4>1. n = p + 1 /\ n \in 1..Len(ts) /\ AxIsOp(ts, n)
        BY <1>3, <3>1, <3>4 DEF AxLead
      <4>2. ts[n].t \notin {"(", ")"}
        BY <4>1 DEF AxIsOp
      <4>3. AxNest(ts)[n] = AxNest(ts)[n - 1] /\ n - 1 = p
        BY <4>1, <4>2, AxNestIs
      <4> QED
        BY <3>2, <4>3
    <3> QED
      BY <3>3, <3>4
  <2> QED
    BY <2>1, <2>2
<1>7. AxLead(us, q[Len(ops)], n)
  <2>1. CASE n = q[Len(ops)]
    BY <2>1 DEF AxLead
  <2>2. CASE n # q[Len(ops)]
    <3>1. n = q[Len(ops)] + 1 /\ n \in 1..Len(ts) /\ AxIsOp(ts, n) /\ AxUnaryAt(ts, n) /\ AxOpAt(ts, n) = "POS"
      BY <1>3, <2>2 DEF AxLead
    <3>2. n \in 1..Len(us)
      BY <1>1, <1>2, <3>1
    <3>3. AxIsOp(us, n) /\ AxUnaryAt(us, n) /\ AxOpAt(us, n) = "POS"
      BY <1>2, <3>1, AxGrows
    <3> QED
      BY <3>1, <3>2, <3>3 DEF AxLead
  <2> QED
    BY <2>1, <2>2
<1>8. AxFrame(us, vals, "PAR", q[Len(ops)], n + 1, c[Len(ops)], c[Len(ops)])
  <2>1. n + 1 \in 1..Len(us) /\ us[n + 1].t = "(" /\ (n + 1) - 1 = n /\ "PAR" \in AxUnary
    BY <1>2 DEF AxUnary
  <2> QED
    BY <1>6, <1>7, <2>1, Zenon DEF AxFrame
<1>9. "PAR" \in AxOp /\ c[Len(ops)] <= c[Len(ops)]
  BY <1>4 DEF AxOp
<1> QED
  BY ONLY <1>1, <1>2, <1>3, <1>4, <1>5, <1>8, <1>9, AxPushStands, vals \in Seq(AxValue), ops \in Seq(AxOp)

\* What a unary operator may not follow.
LEMMA AxCleanBefore ==
  ASSUME NEW ts \in AxText, NEW x \in AxSigned, NEW us, us = Append(ts, x), AxClean(us),
         NEW k, k = Len(ts) + 1, AxUnaryAt(us, k), NEW n, n = Len(ts), n # 0, AxIsOp(ts, n)
  PROVE  AxBinds(AxOpAt(us, k)) < AxBinds(AxOpAt(ts, n))
<1>1. us \in AxText /\ AxExtends(ts, us) /\ Len(us) = k
  BY AxAppended
<1>2. n \in 1..Len(ts) /\ k \in 2..Len(us) /\ k - 1 = n
  BY <1>1 DEF AxText
<1>3. AxOpAt(us, n) = AxOpAt(ts, n) /\ AxIsOp(us, n)
  BY <1>1, <1>2, AxGrows
<1>4. AxBinds(AxOpAt(us, k - 1)) > AxBinds(AxOpAt(us, k))
  BY <1>2, <1>3 DEF AxClean
<1>5. n \in 1..Len(us) /\ k \in 1..Len(us) /\ AxIsOp(us, k)
  BY <1>1, <1>2 DEF AxUnaryAt, AxIsOp
<1>6. /\ AxBinds(AxOpAt(us, n)) \in {-1, 0, 3} \/ AxBinds(AxOpAt(us, n)) \in {1, 2, 4, 5}
      /\ AxBinds(AxOpAt(us, k)) \in {-1, 0, 3} \/ AxBinds(AxOpAt(us, k)) \in {1, 2, 4, 5}
  BY <1>1, <1>3, <1>5, AxOpIs, Zenon
<1>7. PICK a \in Int, b \in Int : a = AxBinds(AxOpAt(us, n)) /\ b = AxBinds(AxOpAt(us, k))
  BY <1>6
<1>8. a > b
  BY <1>2, <1>4, <1>7
<1> QED
  BY <1>3, <1>7, <1>8

\* A "+" before a value is passed over.
LEMMA AxPlusStands ==
  ASSUME NEW ts \in AxText, NEW x \in AxSigned, x.t = "+", AxAwaits(ts), AxClean(Append(ts, x)),
         NEW vals \in Seq(AxValue), NEW ops \in Seq(AxOp), AxBefore(ts, vals, ops)
  PROVE  AxBefore(Append(ts, x), vals, ops)
<1>0. PICK n \in Nat : n = Len(ts)
  BY DEF AxText
<1>1. PICK us : us = Append(ts, x) /\ n = Len(ts)
  BY <1>0
<1>2. us \in AxText /\ AxExtends(ts, us) /\ Len(us) = n + 1 /\ us[n + 1] = x
  BY <1>1, AxAppended
<1>3. PICK q, c : /\ AxFrames(ts, vals, ops, q, c)
                  /\ Len(vals) = c[Len(ops)] /\ AxLead(ts, q[Len(ops)], n)
  BY <1>1 DEF AxBefore
<1>4. /\ q \in [Nat -> Nat] /\ c \in [Nat -> Nat] /\ Len(ops) \in Nat /\ c[Len(ops)] \in Nat
      /\ q[Len(ops)] \in 0..Len(ts) /\ q[Len(ops)] \in Nat /\ AxNest(ts)[q[Len(ops)]] \in Nat
  BY ONLY <1>3, AxFramesAre, ts \in AxText, ops \in Seq(AxOp)
<1>5. AxFrames(us, vals, ops, q, c)
  <2>1. Len(vals) >= c[Len(ops)] /\ \A k \in 1..c[Len(ops)] : vals[k] = vals[k]
    BY <1>3, <1>4
  <2> QED
    BY ONLY <1>2, <1>3, <2>1, AxFramesKept, ts \in AxText, vals \in Seq(AxValue), ops \in Seq(AxOp)
<1>6. AxUnaryAt(us, n + 1) /\ AxIsOp(us, n + 1)
  BY <1>1, AxAppendedOp
<1>7. AxOpAt(us, n + 1) = "POS"
  <2>1. us[n + 1].t = "+"
    BY <1>2
  <2> QED
    BY <1>6, <2>1 DEF AxOpAt
<1>8. n = q[Len(ops)]
  <2> SUFFICES ASSUME n # q[Len(ops)] PROVE FALSE
    OBVIOUS
  <2>1. n # 0 /\ AxIsOp(ts, n) /\ AxOpAt(ts, n) = "POS"
    BY <1>3, <1>4 DEF AxLead
  <2>2. AxBinds("POS") < AxBinds("POS")
    BY ONLY <1>1, <1>6, <1>7, <2>1, AxCleanBefore, ts \in AxText, x \in AxSigned, AxClean(Append(ts, x))
  <2> QED
    BY <2>2 DEF AxBinds
<1>9. AxLead(us, q[Len(ops)], Len(us))
  <2>1. n + 1 \in 1..Len(us)
    BY <1>2
  <2> QED
    BY <1>2, <1>6, <1>7, <1>8, <2>1 DEF AxLead
<1> QED
  BY <1>1, <1>3, <1>5, <1>9 DEF AxBefore

\* A unary operator waits on the stack for its operand.
LEMMA AxUnaryStands ==
  ASSUME NEW ts \in AxText, NEW x \in AxSigned, AxClean(Append(ts, x)),
         NEW o \in {"NEG", "NOT"}, AxOpAt(Append(ts, x), Len(ts) + 1) = o, AxUnaryAt(Append(ts, x), Len(ts) + 1),
         NEW vals \in Seq(AxValue), NEW ops \in Seq(AxOp), AxBefore(ts, vals, ops)
  PROVE  /\ ops = <<>> \/ AxPrecedence(o) < AxPrecedence(Last(ops))
         /\ AxBefore(Append(ts, x), vals, Append(ops, o))
<1>0. PICK n \in Nat : n = Len(ts)
  BY DEF AxText
<1>1. PICK us : us = Append(ts, x) /\ n = Len(ts)
  BY <1>0
<1>2. us \in AxText /\ AxExtends(ts, us) /\ Len(us) = n + 1 /\ us[n + 1] = x
  BY <1>1, AxAppended
<1>3. PICK q, c : /\ AxFrames(ts, vals, ops, q, c)
                  /\ Len(vals) = c[Len(ops)] /\ AxLead(ts, q[Len(ops)], n)
  BY <1>1 DEF AxBefore
<1>4. /\ q \in [Nat -> Nat] /\ c \in [Nat -> Nat] /\ Len(ops) \in Nat /\ c[Len(ops)] \in Nat
      /\ q[Len(ops)] \in 0..Len(ts) /\ q[Len(ops)] \in Nat /\ AxNest(ts)[q[Len(ops)]] \in Nat
  BY ONLY <1>3, AxFramesAre, ts \in AxText, ops \in Seq(AxOp)
<1>5. AxFrames(us, vals, ops, q, c)
  <2>1. Len(vals) >= c[Len(ops)] /\ \A k \in 1..c[Len(ops)] : vals[k] = vals[k]
    BY <1>3, <1>4
  <2> QED
    BY ONLY <1>2, <1>3, <2>1, AxFramesKept, ts \in AxText, vals \in Seq(AxValue), ops \in Seq(AxOp)
<1>6. /\ AxUnaryAt(us, n + 1) /\ AxOpAt(us, n + 1) = o /\ AxIsOp(us, n + 1)
      /\ o \in AxOp /\ o # "PAR" /\ AxBinds(o) = AxPrecedence(o) /\ AxPrecedence(o) \in 0..5
  <2>1. AxIsOp(us, n + 1)
    BY <1>1 DEF AxUnaryAt, AxIsOp
  <2>2. o \in AxOp /\ o # "PAR"
    BY DEF AxOp
  <2> QED
    BY <1>1, <2>1, <2>2, AxPrecedenceIs
<1>7. n = q[Len(ops)]
  <2> SUFFICES ASSUME n # q[Len(ops)] PROVE FALSE
    OBVIOUS
  <2>1. n # 0 /\ AxIsOp(ts, n) /\ AxOpAt(ts, n) = "POS"
    BY <1>3, <1>4 DEF AxLead
  <2>2. AxBinds(o) < AxBinds("POS")
    BY ONLY <1>1, <1>6, <2>1, AxCleanBefore, ts \in AxText, x \in AxSigned, AxClean(Append(ts, x))
  <2>3. AxBinds("POS") = -1
    BY DEF AxBinds
  <2> QED
    BY ONLY <1>6, <2>2, <2>3
<1>8. ops = <<>> \/ AxPrecedence(o) < AxPrecedence(Last(ops))
  <2> SUFFICES ASSUME ops # <<>> PROVE AxPrecedence(o) < AxPrecedence(Last(ops))
    OBVIOUS
  <2>1. PICK m \in Nat \ {0}, top \in AxOp : m = Len(ops) /\ top = ops[m] /\ top = Last(ops)
    BY AxFrontIs
  <2>2. AxFrame(ts, vals, top, q[m - 1], q[m], c[m - 1], c[m])
    <3>1. m \in 1..Len(ops)
      BY <2>1
    <3>2. AxFrame(ts, vals, ops[m], q[m - 1], q[m], c[m - 1], c[m])
      BY <1>3, <3>1 DEF AxFrames
    <3> QED
      BY <2>1, <3>2
  <2>3. CASE top = "PAR"
    <3>1. AxPrecedence(top) = 255
      BY <2>3, AxPrecedenceIs
    <3> QED
      BY ONLY <1>6, <2>1, <3>1
  <2>4. CASE top # "PAR"
    <3>1. AxIsOp(ts, n) /\ AxOpAt(ts, n) = top /\ n # 0
      BY <1>1, <1>7, <2>1, <2>2, <2>4 DEF AxFrame
    <3>2. AxBinds(o) < AxBinds(top)
      BY ONLY <1>1, <1>6, <3>1, AxCleanBefore, ts \in AxText, x \in AxSigned, AxClean(Append(ts, x))
    <3>3. AxBinds(top) = AxPrecedence(top)
      BY AxPrecedenceIs
    <3> QED
      BY ONLY <1>6, <2>1, <3>2, <3>3
  <2> QED
    BY <2>3, <2>4
<1>9. AxNest(us)[n + 1] >= 0
  <2>1. AxNest(us)[n + 1] = AxNest(ts)[n] /\ AxNest(ts)[n] \in Int
    <3>1. x.t \notin {"(", ")"}
      BY <1>2, <1>6 DEF AxIsOp
    <3>2. n + 1 = Len(ts) + 1
      BY <1>1
    <3>3. AxNest(us)[n + 1] = AxNest(ts)[Len(ts)] /\ AxNest(ts)[Len(ts)] \in Int
      BY ONLY <1>1, <3>1, <3>2, AxAppendedDepth, ts \in AxText, x \in AxSigned
    <3> QED
      BY <1>1, <3>3
  <2>2. AxNest(ts)[n] \in Nat
    BY <1>4, <1>7
  <2> QED
    BY <2>1, <2>2
<1>10. AxFrame(us, vals, o, q[Len(ops)], n + 1, c[Len(ops)], c[Len(ops)])
  <2>1. n + 1 \in 1..Len(us) /\ n + 1 = q[Len(ops)] + 1 /\ o \in AxUnary
    BY <1>2, <1>7 DEF AxUnary
  <2> QED
    BY <1>6, <1>9, <2>1, Zenon DEF AxFrame
<1>11. c[Len(ops)] <= c[Len(ops)] /\ c[Len(ops)] = Len(vals)
  BY <1>3, <1>4
<1>12. AxBefore(us, vals, Append(ops, o))
  BY ONLY <1>2, <1>4, <1>5, <1>6, <1>8, <1>10, <1>11, AxPushStands, vals \in Seq(AxValue), ops \in Seq(AxOp)
<1> QED
  BY <1>1, <1>8, <1>12

\* A binary operator waits on the stack for its right operand.
LEMMA AxBinaryStands ==
  ASSUME NEW ts \in AxText, NEW x \in AxSigned, NEW o \in AxOp, o \notin AxUnary,
         AxOpAt(Append(ts, x), Len(ts) + 1) = o, ~AxUnaryAt(Append(ts, x), Len(ts) + 1), x.t \notin {"number", "(", ")"},
         NEW q, NEW c, NEW vals \in Seq(AxValue), NEW ops \in Seq(AxOp), AxFrames(ts, vals, ops, q, c),
         AxTop(ts, vals, ops, q, c, AxPrecedence(o)), ops = <<>> \/ AxPrecedence(o) < AxPrecedence(Last(ops))
  PROVE  AxBefore(Append(ts, x), vals, Append(ops, o))
<1>0. PICK n \in Nat : n = Len(ts)
  BY DEF AxText
<1>1. PICK us : us = Append(ts, x) /\ n = Len(ts)
  BY <1>0
<1>2. us \in AxText /\ AxExtends(ts, us) /\ Len(us) = n + 1 /\ us[n + 1] = x
  BY <1>1, AxAppended
<1>3. PICK m \in Nat : m = Len(ops)
  OBVIOUS
<1>4. /\ q \in [Nat -> Nat] /\ c \in [Nat -> Nat] /\ Len(ops) \in Nat /\ c[Len(ops)] \in Nat
      /\ q[Len(ops)] \in 0..Len(ts) /\ q[Len(ops)] \in Nat /\ AxNest(ts)[q[Len(ops)]] \in Nat
  BY ONLY AxFramesAre, ts \in AxText, ops \in Seq(AxOp), AxFrames(ts, vals, ops, q, c)
<1>5. PICK p \in Nat, a \in Nat : p = q[Len(ops)] /\ a = c[Len(ops)]
  BY ONLY <1>4
<1>6. /\ AxBinds(o) = AxPrecedence(o) /\ AxPrecedence(o) \in 0..5 /\ o # "PAR" /\ o \notin {"NEG", "NOT"}
  <2>1. o # "PAR" /\ o \notin {"NEG", "NOT"}
    BY DEF AxUnary
  <2> QED
    BY <2>1, AxPrecedenceIs
<1>7. PICK b \in -2..5 : b <= AxPrecedence(o) /\ AxSeg(ts, p + 1, n, b, vals[Len(vals)])
  BY <1>1, <1>5 DEF AxTop
<1>8. Len(vals) = a + 1
  BY <1>5 DEF AxTop
<1>9. AxSeg(us, p + 1, n, AxPrecedence(o), vals[a + 1])
  <2>1. AxSeg(ts, p + 1, n, b, vals[a + 1])
    BY <1>7, <1>8
  <2>2. b \in Int /\ AxPrecedence(o) \in Int
    BY <1>6
  <2>3. AxSeg(ts, p + 1, n, AxPrecedence(o), vals[a + 1])
    BY ONLY <1>7, <2>1, <2>2, AxSegLooser, ts \in AxText
  <2> QED
    BY ONLY <1>2, <2>3, AxSegGrows, ts \in AxText
<1>10. AxNest(us)[n + 1] >= 0
  <2>1. AxNest(ts)[n] = AxNest(ts)[(p + 1) - 1] /\ (p + 1) - 1 = p
    BY <1>7 DEF AxSeg
  <2>2. n + 1 = Len(ts) + 1
    BY <1>1
  <2>3. AxNest(us)[n + 1] = AxNest(ts)[Len(ts)]
    BY ONLY <1>1, <2>2, AxAppendedDepth, ts \in AxText, x \in AxSigned, x.t \notin {"number", "(", ")"}
  <2>4. AxNest(us)[n + 1] \in Nat
    BY ONLY <1>1, <1>4, <1>5, <2>1, <2>3
  <2> QED
    BY <2>4
<1>11. AxFrame(us, vals, o, p, n + 1, a, a + 1)
  <2>1. n + 1 \in 1..Len(us) /\ (n + 1) - 1 = n /\ a + 1 <= Len(vals)
    BY <1>2, <1>8
  <2>2. AxIsOp(us, n + 1)
    BY <1>2 DEF AxIsOp
  <2>3. AxOpAt(us, n + 1) = o /\ ~AxUnaryAt(us, n + 1)
    BY <1>1
  <2> QED
    BY <1>6, <1>9, <1>10, <2>1, <2>2, <2>3, Zenon DEF AxFrame
<1>12. AxFrames(us, vals, ops, q, c)
  <2>1. Len(vals) >= c[Len(ops)] /\ \A k \in 1..c[Len(ops)] : vals[k] = vals[k]
    BY <1>5, <1>8
  <2> QED
    BY ONLY <1>2, <2>1, AxFramesKept, ts \in AxText, vals \in Seq(AxValue), ops \in Seq(AxOp), AxFrames(ts, vals, ops, q, c)
<1>13. PICK e \in Nat : e = a + 1
  OBVIOUS
<1>14. a <= e /\ e = Len(vals)
  BY <1>8, <1>13
<1>15. AxBefore(us, vals, Append(ops, o))
  <2>1. AxFrame(us, vals, o, q[Len(ops)], Len(us), c[Len(ops)], e)
    BY ONLY <1>2, <1>5, <1>11, <1>13
  <2>2. c[Len(ops)] <= e
    BY ONLY <1>5, <1>14
  <2> QED
    BY ONLY <1>2, <1>12, <1>14, <2>1, <2>2, AxPushStands, o \in AxOp, e \in Nat, vals \in Seq(AxValue), ops \in Seq(AxOp),
            ops = <<>> \/ AxPrecedence(o) < AxPrecedence(Last(ops))
<1> QED
  BY <1>1, <1>15

\* A bracket that is closed is a value.
LEMMA AxCloseStands ==
  ASSUME NEW ts \in AxText, NEW x \in AxSigned, x.t = ")",
         NEW q, NEW c, NEW vals \in Seq(AxValue), NEW ops \in Seq(AxOp), AxFrames(ts, vals, ops, q, c),
         AxTop(ts, vals, ops, q, c, 5), ops # <<>>, Last(ops) = "PAR"
  PROVE  AxAfter(Append(ts, x), vals, Front(ops))
<1>0. PICK n \in Nat : n = Len(ts)
  BY DEF AxText
<1>1. PICK us, v : us = Append(ts, x) /\ n = Len(ts) /\ v = vals[Len(vals)]
  BY <1>0
<1>2. us \in AxText /\ AxExtends(ts, us) /\ Len(us) = n + 1 /\ us[n + 1] = x
  BY <1>1, AxAppended
<1>3. PICK m \in Nat, f \in Seq(AxOp) : /\ Len(ops) = m + 1 /\ f = Front(ops) /\ Len(f) = m /\ ops[m + 1] = "PAR"
                                        /\ \A l \in 1..m : f[l] = ops[l]
  <2>1. /\ Len(ops) \in Nat \ {0} /\ Last(ops) = ops[Len(ops)] /\ Front(ops) \in Seq(AxOp) /\ Len(Front(ops)) = Len(ops) - 1
        /\ \A l \in 1..Len(ops) - 1 : Front(ops)[l] = ops[l]
    BY ONLY AxFrontIs, ops \in Seq(AxOp), ops # <<>>
  <2>2. Len(ops) - 1 \in Nat /\ Len(ops) = (Len(ops) - 1) + 1
    BY <2>1
  <2> QED
    BY <2>1, <2>2
<1>4. q \in [Nat -> Nat] /\ c \in [Nat -> Nat]
  BY DEF AxFrames
<1>5. PICK p \in Nat, r \in Nat, a \in Nat : p = q[m] /\ r = q[m + 1] /\ a = c[m]
  <2>1. m \in Nat /\ m + 1 \in Nat
    OBVIOUS
  <2> QED
    BY <1>4, <2>1
<1>6. /\ r \in 1..n /\ ts[r].t = "(" /\ c[m + 1] = a /\ AxLead(ts, p, r - 1)
  <2>1. m + 1 \in 1..Len(ops) /\ (m + 1) - 1 = m
    BY <1>3
  <2>2. AxFrame(ts, vals, ops[m + 1], q[(m + 1) - 1], q[m + 1], c[(m + 1) - 1], c[m + 1])
    BY <2>1 DEF AxFrames
  <2>3. AxFrame(ts, vals, "PAR", p, r, a, c[m + 1])
    BY <1>3, <1>5, <2>1, <2>2
  <2> QED
    BY <1>1, <2>3 DEF AxFrame
<1>7. PICK b \in -2..5 : v = vals[Len(vals)] /\ Len(vals) = a + 1 /\ AxSeg(ts, r + 1, n, b, v)
  <2>1. PICK b \in -2..5 : /\ Len(vals) = c[Len(ops)] + 1
                           /\ AxSeg(ts, q[Len(ops)] + 1, Len(ts), b, vals[Len(vals)])
    BY DEF AxTop
  <2>2. Len(vals) = a + 1 /\ AxSeg(ts, r + 1, n, b, v)
    BY ONLY <1>1, <1>3, <1>5, <1>6, <2>1
  <2> QED
    BY <1>1, <2>2
<1>8. AxSeg(us, r, n + 1, -2, v)
  <2>1. r \in 1..Len(us) /\ n + 1 \in 1..Len(us) /\ (n + 1) - 1 = n
    BY <1>2, <1>6
  <2>2. us[r].t = "(" /\ us[n + 1].t = ")"
    BY <1>1, <1>2, <1>6 DEF AxExtends
  <2>3. AxSeg(us, r + 1, n, b, v)
    BY ONLY <1>2, <1>7, AxSegGrows, ts \in AxText
  <2> QED
    BY ONLY <1>2, <2>1, <2>2, <2>3, AxSegBracket
<1>9. PICK b2 \in {-2, -1} : AxSeg(us, p + 1, n + 1, b2, v)
  <2>1. CASE r - 1 = p
    <3>1. r = p + 1
      BY <2>1
    <3> QED
      BY <1>8, <3>1
  <2>2. CASE r - 1 # p
    <3>1. PICK h \in Nat : h = r - 1 /\ h + 1 = r
      BY <1>6
    <3>2. h = p + 1 /\ h \in 1..Len(ts) /\ AxIsOp(ts, h) /\ AxUnaryAt(ts, h) /\ AxOpAt(ts, h) = "POS"
      BY <1>6, <2>2, <3>1 DEF AxLead
    <3>3. h \in 1..Len(us)
      BY <1>1, <1>2, <3>2
    <3>4. AxIsOp(us, h) /\ AxUnaryAt(us, h) /\ AxOpAt(us, h) = "POS"
      BY <1>2, <3>2, AxGrows
    <3>5. AxBinds("POS") = -1 /\ -2 < -1 /\ -2 \in Int
      BY DEF AxBinds
    <3>6. AxSeg(us, h, n + 1, -1, AxOf("POS", 0, v))
      <4>1. AxSeg(us, h + 1, n + 1, -2, v)
        BY <1>8, <3>1
      <4> QED
        BY ONLY <1>2, <3>3, <3>4, <3>5, <4>1, AxSegUnary
    <3>7. AxOf("POS", 0, v) = v
      <4>1. v \in AxValue
        BY <1>8 DEF AxSeg
      <4>2. v # AxBad /\ 0 # AxBad
        BY <4>1, AxModIs DEF AxBad, AxValue, AxAny
      <4> QED
        BY <4>2 DEF AxOf
    <3> QED
      BY <3>2, <3>6, <3>7
  <2> QED
    BY <2>1, <2>2
<1>10. f # <<>> => b2 < AxPrecedence(Last(f))
  <2> SUFFICES ASSUME f # <<>> PROVE b2 < AxPrecedence(Last(f))
    OBVIOUS
  <2>1. PICK o \in AxOp : o = Last(f)
    BY AxFrontIs
  <2>2. PICK prec \in 0..255 : prec = AxPrecedence(o)
    BY ONLY AxPrecedenceIs, o \in AxOp, Zenon
  <2>3. b2 < prec
    BY ONLY b2 \in {-2, -1}, prec \in 0..255
  <2> QED
    BY ONLY <2>1, <2>2, <2>3
<1>11. AxFrames(us, vals, f, q, c)
  <2>1. AxFrames(ts, vals, f, q, c)
    BY <1>3, AxFramesFront
  <2>2. Len(vals) >= c[Len(f)] /\ \A k \in 1..c[Len(f)] : vals[k] = vals[k]
    BY <1>3, <1>5, <1>7
  <2> QED
    BY ONLY <1>2, <2>1, <2>2, AxFramesKept, ts \in AxText, vals \in Seq(AxValue), f \in Seq(AxOp)
<1>12. AxTop(us, vals, f, q, c, -1)
  <2>1. Len(vals) = c[Len(f)] + 1 /\ b2 \in -2..5 /\ b2 <= -1
    BY ONLY <1>3, <1>5, <1>7, b2 \in {-2, -1}
  <2>2. AxSeg(us, q[Len(f)] + 1, Len(us), b2, vals[Len(vals)])
    BY ONLY <1>2, <1>3, <1>5, <1>7, <1>9
  <2> QED
    BY ONLY <1>10, <2>1, <2>2 DEF AxTop
<1> QED
  BY <1>1, <1>3, <1>11, <1>12 DEF AxAfter

\* What no expression ends with.
LEMMA AxUnfinished ==
  ASSUME NEW ts \in AxText, AxAwaits(ts) \/ AxNest(ts)[Len(ts)] # 0
  PROVE  AxMeaning(ts) = AxBad
<1> SUFFICES ASSUME AxMeaning(ts) # AxBad PROVE FALSE
  OBVIOUS
<1>1. AxFormed(ts, 1, Len(ts))
  BY AxMeant
<1>2. 1 <= Len(ts) /\ AxEnds(ts, Len(ts)) /\ AxNest(ts)[Len(ts)] = AxNest(ts)[1 - 1]
  BY <1>1 DEF AxFormed
<1>3. ts # <<>> /\ 1 - 1 = 0
  BY <1>2
<1>4. ~AxAwaits(ts)
  BY <1>2, <1>3 DEF AxAwaits
<1> QED
  BY <1>2, <1>3, <1>4, AxNestIs

\* What no expression goes on with.
LEMMA AxNonsense ==
  ASSUME NEW ts \in AxText, NEW x \in AxSigned,
         \/ x.t \notin {"number", ")"}
         \/ x.t = "number" /\ ~AxAwaits(ts)
         \/ x.t = ")" /\ (AxAwaits(ts) \/ AxNest(ts)[Len(ts)] = 0)
  PROVE  AxMeaning(Append(ts, x)) = AxBad
<1>0. PICK n \in Nat : n = Len(ts)
  BY DEF AxText
<1>1. PICK us : us = Append(ts, x) /\ n = Len(ts)
  BY <1>0
<1>2. n \in Nat /\ us \in AxText /\ AxExtends(ts, us) /\ Len(us) = n + 1 /\ us[n + 1] = x
  BY <1>1, AxAppended
<1> SUFFICES ASSUME AxMeaning(us) # AxBad PROVE FALSE
  BY <1>1
<1>3. AxFormed(us, 1, n + 1)
  BY <1>2, AxMeant
<1>4. us[1].t # ")" /\ x.t \in {"number", ")"} /\ \A k \in 1..n : AxFits(us, k)
  <2>1. (n + 1) - 1 = n
    BY <1>2
  <2> QED
    BY <1>2, <1>3, <2>1 DEF AxFormed, AxEnds
<1>5. AxNest(us)[n + 1] = 0
  <2>1. 1 - 1 = 0
    OBVIOUS
  <2> QED
    BY <1>2, <1>3, <2>1, AxNestIs DEF AxFormed
<1>6. n # 0 => (AxEnds(ts, n) => x.t # "number") /\ (~AxEnds(ts, n) => x.t # ")")
  <2> SUFFICES ASSUME n # 0 PROVE (AxEnds(ts, n) => x.t # "number") /\ (~AxEnds(ts, n) => x.t # ")")
    OBVIOUS
  <2>1. n \in 1..n
    BY <1>2
  <2>2. AxFits(us, n) /\ us[n] = ts[n]
    BY <1>1, <1>4, <2>1, <1>2 DEF AxExtends
  <2> QED
    BY <1>2, <2>2 DEF AxFits, AxEnds
<1>7. n = 0 <=> ts = <<>>
  BY <1>1 DEF AxText
<1>8. AxAwaits(ts) <=> n = 0 \/ ~AxEnds(ts, n)
  BY <1>1, <1>7 DEF AxAwaits
<1>9. n = 0 => x.t # ")"
  BY <1>2, <1>4
<1>10. x.t = ")" /\ AxNest(ts)[Len(ts)] = 0
  BY <1>4, <1>6, <1>8, <1>9
<1>11. AxNest(us)[n + 1] = AxNest(ts)[n] - 1
  BY <1>1, <1>10, AxAppendedDepth
<1> QED
  BY <1>1, <1>5, <1>10, <1>11

\* Whether a value is missing at the end.
LEMMA AxAwaitsIs ==
  ASSUME NEW ts \in AxText, NEW x \in AxSigned
  PROVE  AxAwaits(Append(ts, x)) <=> x.t \notin {"number", ")"}
<1>1. PICK us : us = Append(ts, x)
  OBVIOUS
<1>2. Len(ts) \in Nat /\ Len(us) = Len(ts) + 1 /\ us[Len(us)] = x
  BY <1>1, AxAppended DEF AxText
<1>3. us # <<>>
  BY <1>2
<1> QED
  BY <1>1, <1>2, <1>3 DEF AxAwaits, AxEnds

\* Where the reader is when it has read tokens.
AxOutcome(us, w, seen, vals, ops) ==
  /\ w = "read" => (seen = ~AxAwaits(us))
  /\ AxClean(us) => \/ w = "full"
                    \/ w = "error" /\ AxMeaning(us) = AxBad
                    \/ w = "read" /\ seen /\ AxAfter(us, vals, ops)
                    \/ w = "read" /\ ~seen /\ AxBefore(us, vals, ops)

AxLine ==
  axPc = "read" => axTyped \in AxText /\ AxOutcome(axTyped, "read", axSeen, axVals, axOps)

\* Nothing has been read.
LEMMA AxBeginsLine ==
  ASSUME AxStart \/ AxOff
  PROVE  AxLine /\ AxEvaluates
<1>1. axVals = <<>> /\ axOps = <<>> /\ axSeen = FALSE /\ axTyped = <<>> /\ axPc \in {"read", "off"}
  BY DEF AxStart, AxOff, AxAt
<1>2. <<>> \in AxText /\ AxAwaits(<<>>)
  BY DEF AxText, AxAwaits
<1>3. AxBefore(<<>>, <<>>, <<>>)
  <2>1. PICK z \in [Nat -> Nat] : z = [k \in Nat |-> 0]
    OBVIOUS
  <2>2. z[0] = 0 /\ Len(<<>>) = 0 /\ \A l, k \in 0..0 : z[l] <= z[k]
    BY <2>1
  <2>3. 1..0 = {} /\ 2..0 = {}
    OBVIOUS
  <2>4. AxFrames(<<>>, <<>>, <<>>, z, z)
    BY <2>2, <2>3 DEF AxFrames
  <2>5. AxLead(<<>>, z[Len(<<>>)], Len(<<>>)) /\ Len(<<>>) = z[Len(<<>>)]
    BY <2>2 DEF AxLead
  <2> QED
    BY <2>4, <2>5 DEF AxBefore
<1>4. AxOutcome(<<>>, "read", FALSE, <<>>, <<>>)
  BY <1>2, <1>3 DEF AxOutcome
<1> QED
  BY <1>1, <1>2, <1>4 DEF AxLine, AxEvaluates, AxValueRight, AxRefusesNonsense

\* A token that the reader has a place for.
LEMMA AxReadsOn ==
  ASSUME NEW ts \in AxText, NEW x \in AxSigned, axTyped' = Append(ts, x),
         AxOutcome(Append(ts, x), axPc', axSeen', axVals', axOps')
  PROVE  AxLine' /\ AxEvaluates'
<1>1. PICK us \in AxText : us = Append(ts, x)
  BY AxAppended
<1>2. us # <<>> => Last(us).t # "end"
  <2> SUFFICES ASSUME us # <<>> PROVE Last(us).t # "end"
    OBVIOUS
  <2>1. Last(us) \in AxSigned
    <3>1. us \in Seq(AxSigned)
      BY DEF AxText, AxSigned
    <3> QED
      BY ONLY <3>1, us # <<>>, AxFrontIs
  <2> QED
    BY <2>1 DEF AxSigned, AxSigns
<1>3. AxExpression' = us
  BY <1>1, <1>2 DEF AxExpression
<1>4. AxLine'
  BY <1>1 DEF AxLine
<1>5. AxEvaluates'
  BY <1>1, <1>3 DEF AxEvaluates, AxValueRight, AxRefusesNonsense, AxOutcome
<1> QED
  BY <1>4, <1>5

\* What is read is a token.
LEMMA AxTokenIn ==
  ASSUME NEW t \in AxSigns, NEW n \in AxValue
  PROVE  AxToken(t, n) \in AxSigned /\ AxToken(t, n).t = t /\ AxToken(t, n).n = n
BY DEF AxToken, AxSigned

\* The stacks that a token leaves are taken over.
LEMMA AxBecame ==
  ASSUME axPc = "read", NEW s \in AxStack, NEW seen, AxBecomes(s, seen)
  PROVE  /\ axSeen' = seen /\ axVals' = s.vals /\ axOps' = s.ops
         /\ s.end = "on" => axPc' = "read"
         /\ s.end # "on" => axPc' = s.end
BY DEF AxBecomes

\* And with one more operator on them, if there is room.
LEMMA AxPushed ==
  ASSUME axPc = "read", NEW s \in AxStack, s.end = "on", NEW o, NEW seen, AxPushOp(s, o, seen)
  PROVE  /\ axSeen' = seen
         /\ \/ axPc' = "full"
            \/ axPc' = "read" /\ axVals' = s.vals /\ axOps' = Append(s.ops, o)
<1>1. CASE Len(s.ops) = AxDepth
  <2>1. AxBecomes([s EXCEPT !.end = "full"], seen)
    BY <1>1 DEF AxPushOp
  <2>2. [s EXCEPT !.end = "full"].end = "full"
    BY DEF AxStack
  <2> QED
    BY <2>1, <2>2 DEF AxBecomes
<1>2. CASE Len(s.ops) # AxDepth
  <2>1. AxBecomes([s EXCEPT !.ops = Append(@, o)], seen)
    BY <1>2 DEF AxPushOp
  <2>2. PICK u : u = [s EXCEPT !.ops = Append(@, o)]
    OBVIOUS
  <2>3. u.end = "on" /\ u.vals = s.vals /\ u.ops = Append(s.ops, o)
    BY <2>2 DEF AxStack
  <2> QED
    BY <2>1, <2>2, <2>3 DEF AxBecomes
<1> QED
  BY <1>1, <1>2

\* What is on the stacks is what has been read.
LEMMA AxHolds ==
  ASSUME AxInv, AxLine, axPc = "read"
  PROVE  /\ axTyped \in AxText /\ axVals \in Seq(AxValue) /\ axOps \in Seq(AxOp) /\ AxStacks \in AxStack
         /\ AxStacks.vals = axVals /\ AxStacks.ops = axOps /\ AxStacks.end = "on"
         /\ axSeen = ~AxAwaits(axTyped)
         /\ AxClean(axTyped) /\ axSeen => AxAfter(axTyped, axVals, axOps)
         /\ AxClean(axTyped) /\ ~axSeen => AxBefore(axTyped, axVals, axOps)
<1>1. axTyped \in AxText /\ AxOutcome(axTyped, "read", axSeen, axVals, axOps)
  BY DEF AxLine
<1>2. axVals \in Seq(AxValue) /\ axOps \in Seq(AxOp) /\ AxStacks \in AxStack
  BY AxStacksAre DEF AxInv
<1>3. AxStacks.vals = axVals /\ AxStacks.ops = axOps /\ AxStacks.end = "on"
  BY DEF AxStacks
<1>4. axSeen = ~AxAwaits(axTyped)
  BY <1>1 DEF AxOutcome
<1>5. /\ AxClean(axTyped) /\ axSeen => AxAfter(axTyped, axVals, axOps)
      /\ AxClean(axTyped) /\ ~axSeen => AxBefore(axTyped, axVals, axOps)
  BY <1>1, Zenon DEF AxOutcome
<1> QED
  BY <1>1, <1>2, <1>3, <1>4, <1>5

\* A number.
LEMMA AxLineNumber ==
  ASSUME AxInv, AxLine, NEW n \in AxNumbers, AxReadNumber(n)
  PROVE  AxLine' /\ AxEvaluates'
<1>1. PICK x \in AxSigned : x = AxToken("number", n) /\ x.t = "number" /\ x.n = n
  <2>1. n \in AxValue
    BY AxAssumption, AxModIs DEF AxValue, AxAny
  <2>2. "number" \in AxSigns
    BY DEF AxSigns
  <2> QED
    BY <2>1, <2>2, AxTokenIn
<1>2. axPc = "read" /\ axTyped' = Append(axTyped, x) /\ AxNumber(n)
  BY <1>1 DEF AxReadNumber
<1>3. PICK ts \in AxText : ts = axTyped
  BY <1>2, AxHolds
<1>4. PICK us : us = Append(ts, x)
  OBVIOUS
<1>5. ~AxAwaits(us)
  BY <1>1, <1>4, AxAwaitsIs
<1>6. AxOutcome(us, axPc', axSeen', axVals', axOps')
  <2>1. CASE axSeen
    <3>1. axPc' = "error"
      BY <1>2, <2>1 DEF AxNumber, AxError
    <3>2. ~AxAwaits(ts)
      BY <1>2, <1>3, <2>1, AxHolds
    <3>3. AxMeaning(us) = AxBad
      BY <1>1, <1>4, <3>2, AxNonsense
    <3> QED
      BY <3>1, <3>3 DEF AxOutcome
  <2>2. CASE ~axSeen /\ Len(axVals) = AxDepth
    <3>1. AxBecomes([AxStacks EXCEPT !.end = "full"], TRUE)
      BY <1>2, <2>2 DEF AxNumber
    <3>2. [AxStacks EXCEPT !.end = "full"].end = "full"
      BY DEF AxStacks
    <3>3. axPc' = "full"
      BY <3>1, <3>2 DEF AxBecomes
    <3> QED
      BY <3>3 DEF AxOutcome
  <2>3. CASE ~axSeen /\ Len(axVals) # AxDepth
    <3>1. AxBecomes([AxStacks EXCEPT !.vals = Append(@, n)], TRUE)
      BY <1>2, <2>3 DEF AxNumber
    <3>2. PICK u : u = [AxStacks EXCEPT !.vals = Append(@, n)]
      OBVIOUS
    <3>3. u.end = "on" /\ u.vals = Append(axVals, n) /\ u.ops = axOps
      BY <3>2 DEF AxStacks
    <3>4. axPc' = "read" /\ axSeen' = TRUE /\ axVals' = Append(axVals, x.n) /\ axOps' = axOps
      BY <1>1, <1>2, <3>1, <3>2, <3>3 DEF AxBecomes
    <3>5. ASSUME AxClean(us)
          PROVE  AxAfter(us, axVals', axOps')
      <4>1. AxClean(ts)
        BY <1>4, <3>5, AxAppended
      <4>2. PICK vals \in Seq(AxValue), ops \in Seq(AxOp) : vals = axVals /\ ops = axOps
        BY <1>2, AxHolds
      <4>3. AxBefore(ts, vals, ops)
        BY <1>2, <1>3, <2>3, <4>1, <4>2, AxHolds
      <4>4. AxAfter(us, Append(vals, x.n), ops)
        BY ONLY <1>1, <1>4, <4>3, AxNumberStands, ts \in AxText, vals \in Seq(AxValue), ops \in Seq(AxOp)
      <4> QED
        BY <3>4, <4>2, <4>4
    <3> QED
      BY <1>5, <3>4, <3>5 DEF AxOutcome
  <2> QED
    BY <2>1, <2>2, <2>3
<1> QED
  BY <1>2, <1>3, <1>4, <1>6, AxReadsOn

\* An opening bracket.
LEMMA AxLineOpen ==
  ASSUME AxInv, AxLine, AxRead("(")
  PROVE  AxLine' /\ AxEvaluates'
<1>1. PICK x \in AxSigned : x = AxToken("(", 0) /\ x.t = "("
  <2>1. 0 \in AxValue
    BY AxModIs DEF AxValue, AxAny
  <2>2. "(" \in AxSigns
    BY DEF AxSigns
  <2> QED
    BY <2>1, <2>2, AxTokenIn
<1>2. axPc = "read" /\ axTyped' = Append(axTyped, x) /\ AxOpen
  BY <1>1 DEF AxRead
<1>3. PICK ts \in AxText : ts = axTyped
  BY <1>2, AxHolds
<1>4. PICK us : us = Append(ts, x)
  OBVIOUS
<1>5. AxAwaits(us)
  BY <1>1, <1>4, AxAwaitsIs
<1>6. AxOutcome(us, axPc', axSeen', axVals', axOps')
  <2>1. CASE axSeen
    <3>1. axPc' = "error"
      BY <1>2, <2>1 DEF AxOpen, AxError
    <3>2. AxMeaning(us) = AxBad
      BY <1>1, <1>4, AxNonsense
    <3> QED
      BY <3>1, <3>2 DEF AxOutcome
  <2>2. CASE ~axSeen
    <3>1. AxPushOp(AxStacks, "PAR", FALSE)
      BY <1>2, <2>2 DEF AxOpen
    <3>2. PICK s \in AxStack : s = AxStacks /\ s.vals = axVals /\ s.ops = axOps /\ s.end = "on"
      BY <1>2, AxHolds
    <3>3. axSeen' = FALSE /\ (axPc' = "full" \/ (axPc' = "read" /\ axVals' = axVals /\ axOps' = Append(axOps, "PAR")))
      BY <1>2, <3>1, <3>2, AxPushed
    <3>4. ASSUME AxClean(us), axPc' = "read", axVals' = axVals, axOps' = Append(axOps, "PAR")
          PROVE  AxBefore(us, axVals', axOps')
      <4>1. AxClean(ts)
        BY <1>4, <3>4, AxAppended
      <4>2. PICK vals \in Seq(AxValue), ops \in Seq(AxOp) : vals = axVals /\ ops = axOps
        BY <1>2, AxHolds
      <4>3. AxBefore(ts, vals, ops)
        BY <1>2, <1>3, <2>2, <4>1, <4>2, AxHolds
      <4>4. AxBefore(us, vals, Append(ops, "PAR"))
        BY ONLY <1>1, <1>4, <4>3, AxOpenStands, ts \in AxText, vals \in Seq(AxValue), ops \in Seq(AxOp)
      <4> QED
        BY <3>4, <4>2, <4>4
    <3> QED
      BY <1>5, <3>3, <3>4 DEF AxOutcome
  <2> QED
    BY <2>1, <2>2
<1> QED
  BY <1>2, <1>3, <1>4, <1>6, AxReadsOn

\* The operator that a token is.
LEMMA AxOperatorAt ==
  ASSUME NEW ts \in AxText, NEW x \in AxSigned, x.t \notin {"number", "(", ")"}, NEW o,
         o = CASE x.t = "+" -> "ADD" [] x.t = "*" -> "MUL" [] x.t = "/" -> "DIV"
               [] x.t = "-" -> IF AxAwaits(ts) THEN "NEG" ELSE "SUB"
               [] x.t \notin {"+", "-", "*", "/"} -> x.t,
         x.t = "+" => ~AxAwaits(ts), AxAwaits(ts) <=> o \in AxUnary
  PROVE  /\ AxOpAt(Append(ts, x), Len(ts) + 1) = o /\ o \in AxOp
         /\ AxUnaryAt(Append(ts, x), Len(ts) + 1) <=> o \in AxUnary
         /\ o \in AxUnary => o \in {"NEG", "NOT"}
<1>1. PICK us : us = Append(ts, x)
  OBVIOUS
<1>2. PICK k : k = Len(ts) + 1
  OBVIOUS
<1>3. us[k] = x
  BY <1>1, <1>2, AxAppended
<1>4. AxUnaryAt(us, k) <=> x.t = "NOT" \/ (x.t \in {"+", "-"} /\ AxAwaits(ts))
  BY ONLY <1>1, <1>2, AxAppendedOp, ts \in AxText, x \in AxSigned
<1>5. x.t \in {"+", "-", "*", "/", "MOD", "SHL", "SHR", "NOT", "AND", "OR", "XOR"}
  BY DEF AxSigned, AxSigns
<1>6. CASE ~AxAwaits(ts)
  <2>1. x.t # "NOT" /\ ~AxUnaryAt(us, k)
    BY <1>4, <1>6, <1>5 DEF AxUnary
  <2>2. o \notin AxUnary /\ o \in AxOp
    BY <1>5, <1>6 DEF AxUnary, AxOp
  <2>3. AxOpAt(us, k) = o
    BY <1>3, <1>5, <1>6, <2>1 DEF AxOpAt
  <2> QED
    BY <1>1, <1>2, <2>1, <2>2, <2>3
<1>7. CASE AxAwaits(ts)
  <2>1. o \in AxUnary /\ x.t # "+"
    BY <1>7
  <2>2. x.t \in {"-", "NOT"} /\ o \in {"NEG", "NOT"} /\ o \in AxOp
    BY <1>5, <1>7, <2>1 DEF AxUnary, AxOp
  <2>3. AxUnaryAt(us, k)
    BY <1>4, <1>7, <2>2
  <2>4. AxOpAt(us, k) = o
    BY <1>3, <1>7, <2>2, <2>3 DEF AxOpAt
  <2> QED
    BY <1>1, <1>2, <2>1, <2>2, <2>3, <2>4
<1> QED
  BY <1>6, <1>7

\* An operator that may stand where it does.
LEMMA AxLinePush ==
  ASSUME AxInv, AxLine, axPc = "read", NEW ts \in AxText, ts = axTyped, NEW x \in AxSigned, NEW us, us = Append(ts, x),
         x.t \notin {"number", "(", ")"}, NEW o \in AxOp, AxOpAt(us, Len(ts) + 1) = o, AxPush(o),
         AxUnaryAt(us, Len(ts) + 1) <=> o \in AxUnary, o \in AxUnary => o \in {"NEG", "NOT"},
         o \in AxUnary => ~axSeen, o \notin AxUnary => axSeen
  PROVE  AxOutcome(us, axPc', axSeen', axVals', axOps')
<1> DEFINE goes == {top \in AxOp : AxPrecedence(top) <= AxPrecedence(o)}
<1>1. PICK u : u = AxUnstack(AxStacks, goes)
  OBVIOUS
<1>2. AxPushOp(u, o, FALSE)
  BY <1>1 DEF AxPush
<1>3. AxAwaits(us)
  BY AxAwaitsIs
<1>4. axSeen' = FALSE
  BY <1>2 DEF AxPushOp, AxBecomes
<1>5. CASE ~AxClean(us)
  BY <1>3, <1>4, <1>5 DEF AxOutcome
<1>6. CASE AxClean(us)
  <2>1. AxClean(ts)
    BY <1>6, AxAppended
  <2>2. PICK vals \in Seq(AxValue), ops \in Seq(AxOp) : vals = axVals /\ ops = axOps
    BY AxHolds
  <2>3. PICK s \in AxStack : s = AxStacks /\ s.vals = vals /\ s.ops = ops /\ s.end = "on"
    BY <2>2, AxHolds
  <2>4. u \in AxStack /\ u.end = "on" /\ AxBefore(us, u.vals, Append(u.ops, o))
    <3>1. CASE o \in AxUnary
      <4>1. AxBefore(ts, vals, ops)
        <5>1. ~axSeen
          BY <3>1
        <5> QED
          BY <2>1, <2>2, <5>1, AxHolds
      <4>2. /\ ops = <<>> \/ AxPrecedence(o) < AxPrecedence(Last(ops))
            /\ AxBefore(us, vals, Append(ops, o))
        <5>1. o \in {"NEG", "NOT"} /\ AxUnaryAt(us, Len(ts) + 1)
          BY <3>1
        <5> QED
          BY ONLY <1>6, <4>1, <5>1, AxUnaryStands, ts \in AxText, x \in AxSigned, us = Append(ts, x),
                  AxOpAt(us, Len(ts) + 1) = o, vals \in Seq(AxValue), ops \in Seq(AxOp)
      <4>3. ~AxGoes(s, goes)
        <5> SUFFICES ASSUME ops # <<>>, Last(ops) \in goes PROVE FALSE
          BY <2>3 DEF AxGoes
        <5>1. AxPrecedence(Last(ops)) <= AxPrecedence(o) /\ AxPrecedence(o) < AxPrecedence(Last(ops)) /\ Last(ops) \in AxOp
          BY <4>2
        <5>2. PICK a \in 0..255 : a = AxPrecedence(o)
          BY ONLY AxPrecedenceIs, o \in AxOp, Zenon
        <5>3. PICK b \in 0..255 : b = AxPrecedence(Last(ops))
          BY ONLY <5>1, AxPrecedenceIs, Zenon
        <5> QED
          BY ONLY <5>1, <5>2, <5>3
      <4>4. u = s
        <5> HIDE DEF goes
        <5>1. PICK I \in SUBSET AxStack : I = {s}
          OBVIOUS
        <5>2. s \in I /\ \A p \in I : AxGoes(p, goes) => AxApplied([p EXCEPT !.ops = Front(@)], Last(p.ops)) \in I
          BY <4>3, <5>1
        <5>3. u \in I
          BY ONLY <1>1, <2>3, <5>2, AxUnstacked
        <5> QED
          BY <5>1, <5>3
      <4> QED
        BY <2>3, <4>2, <4>4
    <3>2. CASE o \notin AxUnary
      <4>1. AxAfter(ts, vals, ops)
        <5>1. axSeen
          BY <3>2
        <5> QED
          BY <2>1, <2>2, <5>1, AxHolds
      <4>2. PICK q, c : AxFrames(ts, vals, ops, q, c) /\ AxTop(ts, vals, ops, q, c, -1)
        BY <4>1 DEF AxAfter
      <4>3. o # "PAR"
        BY <3>2 DEF AxUnary
      <4>4. PICK prec \in 0..5 : prec = AxPrecedence(o)
        BY <4>3, AxPrecedenceIs
      <4>5. s \in AxSound(ts, q, c, prec)
        <5>1. s \in AxSound(ts, q, c, -1)
          BY <2>3, <4>2 DEF AxSound
        <5>2. -1 \in Int /\ prec \in Int /\ -1 <= prec
          OBVIOUS
        <5> QED
          BY ONLY <5>1, <5>2, AxSoundLooser
      <4>6. \A top \in goes : top # "PAR" /\ AxPrecedence(top) <= prec
        <5> TAKE top \in goes
        <5>1. AxPrecedence(top) <= prec /\ top \in AxOp
          BY <4>4
        <5>2. top = "PAR" => AxPrecedence(top) = 255
          BY <5>1, AxPrecedenceIs
        <5> QED
          BY <5>1, <5>2
      <4>7. u \in AxSound(ts, q, c, prec) /\ (u.ops # <<>> => Last(u.ops) \notin goes)
        <5>1. goes \in SUBSET AxOp
          OBVIOUS
        <5> HIDE DEF goes
        <5> QED
          BY ONLY <1>1, <2>3, <4>5, <4>6, <5>1, AxUnstackSound, ts \in AxText, prec \in 0..5
      <4>8. PICK vals2 \in Seq(AxValue), ops2 \in Seq(AxOp) : vals2 = u.vals /\ ops2 = u.ops
        BY <4>7 DEF AxSound, AxStack
      <4>9. u \in AxStack /\ u.end = "on" /\ AxFrames(ts, vals2, ops2, q, c) /\ AxTop(ts, vals2, ops2, q, c, AxPrecedence(o))
        BY <4>4, <4>7, <4>8 DEF AxSound
      <4>10. ops2 = <<>> \/ AxPrecedence(o) < AxPrecedence(Last(ops2))
        <5> SUFFICES ASSUME ops2 # <<>> PROVE AxPrecedence(o) < AxPrecedence(Last(ops2))
          OBVIOUS
        <5>1. PICK top \in AxOp : top = Last(ops2)
          BY AxFrontIs
        <5>2. top \notin goes
          BY <4>7, <4>8, <5>1
        <5>3. ~(AxPrecedence(top) <= AxPrecedence(o))
          BY <5>2
        <5>4. PICK a \in 0..255 : a = AxPrecedence(top)
          BY ONLY AxPrecedenceIs, top \in AxOp, Zenon
        <5> QED
          BY ONLY <4>4, <5>1, <5>3, <5>4
      <4>11. AxBefore(us, vals2, Append(ops2, o))
        <5>1. ~AxUnaryAt(us, Len(ts) + 1)
          BY <3>2
        <5> QED
          BY ONLY <3>2, <4>9, <4>10, <5>1, AxBinaryStands, ts \in AxText, x \in AxSigned, us = Append(ts, x), o \in AxOp,
                  AxOpAt(us, Len(ts) + 1) = o, x.t \notin {"number", "(", ")"}, vals2 \in Seq(AxValue), ops2 \in Seq(AxOp)
      <4> QED
        BY <4>8, <4>9, <4>11
    <3> QED
      BY <3>1, <3>2
  <2>5. axPc' = "full" \/ (axPc' = "read" /\ axVals' = u.vals /\ axOps' = Append(u.ops, o))
    BY <1>2, <2>4, AxPushed
  <2> QED
    BY <1>3, <1>4, <2>4, <2>5 DEF AxOutcome
<1> QED
  BY <1>5, <1>6

\* An operator.
LEMMA AxLineOperator ==
  ASSUME AxInv, AxLine, NEW t \in AxTokens \ {"(", ")", "end"}, AxRead(t)
  PROVE  AxLine' /\ AxEvaluates'
<1>1. t \in AxSigns /\ t \notin {"number", "(", ")"}
  BY AxAssumption DEF AxSigns
<1>2. PICK x \in AxSigned : x = AxToken(t, 0) /\ x.t = t
  <2>1. 0 \in AxValue
    BY AxModIs DEF AxValue, AxAny
  <2> QED
    BY <1>1, <2>1, AxTokenIn
<1>3. axPc = "read" /\ axTyped' = Append(axTyped, x) /\ AxOperator(t)
  BY <1>2, Zenon DEF AxRead
<1>4. PICK ts \in AxText : ts = axTyped
  BY <1>3, AxHolds
<1>5. PICK us : us = Append(ts, x)
  OBVIOUS
<1>6. AxAwaits(us)
  BY <1>1, <1>2, <1>5, AxAwaitsIs
<1>7. axSeen = ~AxAwaits(ts)
  BY <1>3, <1>4, AxHolds
<1>8. PICK o : o = AxNamed(t)
  OBVIOUS
<1>9. AxOutcome(us, axPc', axSeen', axVals', axOps')
  <2>1. CASE t = "+" /\ ~axSeen
    <3>1. AxBecomes(AxStacks, FALSE)
      BY <1>3, <2>1 DEF AxOperator
    <3>2. axPc' = "read" /\ axSeen' = FALSE /\ axVals' = axVals /\ axOps' = axOps
      BY <1>3, <3>1, AxHolds, AxBecame
    <3>3. ASSUME AxClean(us)
          PROVE  AxBefore(us, axVals', axOps')
      <4>1. AxClean(ts)
        BY <1>5, <3>3, AxAppended
      <4>2. PICK vals \in Seq(AxValue), ops \in Seq(AxOp) : vals = axVals /\ ops = axOps
        BY <1>3, AxHolds
      <4>3. AxBefore(ts, vals, ops)
        BY <1>3, <1>4, <2>1, <4>1, <4>2, AxHolds
      <4>4. AxAwaits(ts) /\ x.t = "+"
        <5>1. AxAwaits(ts)
          BY ONLY <1>7, <2>1, Zenon
        <5> QED
          BY <1>2, <2>1, <5>1
      <4>5. AxBefore(us, vals, ops)
        BY ONLY <1>5, <3>3, <4>3, <4>4, AxPlusStands, ts \in AxText, x \in AxSigned, vals \in Seq(AxValue), ops \in Seq(AxOp)
      <4> QED
        BY <3>2, <4>2, <4>5
    <3> QED
      BY <1>6, <3>2, <3>3 DEF AxOutcome
  <2>2. CASE ~(t = "+" /\ ~axSeen) /\ ((o \in AxUnary) = axSeen)
    <3>1. AxError
      BY <1>3, <1>8, <2>2 DEF AxOperator
    <3>2. axPc' = "error"
      BY <3>1 DEF AxError
    <3>3. AxMeaning(us) = AxBad
      BY <1>1, <1>2, <1>5, AxNonsense
    <3> QED
      BY <3>2, <3>3 DEF AxOutcome
  <2>3. CASE ~(t = "+" /\ ~axSeen) /\ ((o \in AxUnary) # axSeen)
    <3>1. AxPush(o)
      BY <1>3, <1>8, <2>3 DEF AxOperator
    <3>2. /\ t = "+" => ~AxAwaits(ts)
          /\ AxAwaits(ts) <=> o \in AxUnary
          /\ o \in AxUnary => ~axSeen
          /\ o \notin AxUnary => axSeen
      <4>1. PICK b \in BOOLEAN : b = axSeen
        BY DEF AxInv, AxTypeOK
      <4>2. (o \in AxUnary) # b
        BY ONLY <2>3, <4>1, Zenon
      <4>3. o \in AxUnary <=> ~b
        BY ONLY <4>2, b \in BOOLEAN
      <4>4. b <=> ~AxAwaits(ts)
        BY ONLY <1>7, <4>1, Zenon
      <4>5. t = "+" => b
        BY ONLY <2>3, <4>1, Zenon
      <4> QED
        <5>1. axSeen <=> b
          BY ONLY <4>1, Zenon
        <5>2. t = "+" => ~AxAwaits(ts)
          BY ONLY <4>4, <4>5, Zenon
        <5>3. AxAwaits(ts) <=> o \in AxUnary
          BY ONLY <4>3, <4>4, Zenon
        <5>4. (o \in AxUnary => ~axSeen) /\ (o \notin AxUnary => axSeen)
          BY ONLY <4>3, <5>1, Zenon
        <5> QED
          BY ONLY <5>2, <5>3, <5>4, Zenon
    <3>3. o = CASE x.t = "+" -> "ADD" [] x.t = "*" -> "MUL" [] x.t = "/" -> "DIV"
                [] x.t = "-" -> IF AxAwaits(ts) THEN "NEG" ELSE "SUB"
                [] x.t \notin {"+", "-", "*", "/"} -> x.t
      <4>1. o = CASE x.t = "+" -> "ADD" [] x.t = "*" -> "MUL" [] x.t = "/" -> "DIV"
                  [] x.t = "-" -> IF axSeen THEN "SUB" ELSE "NEG"
                  [] x.t \notin {"+", "-", "*", "/"} -> x.t
        BY <1>2, <1>8 DEF AxNamed
      <4>2. (IF axSeen THEN "SUB" ELSE "NEG") = IF AxAwaits(ts) THEN "NEG" ELSE "SUB"
        BY ONLY <1>7, Zenon
      <4> QED
        BY ONLY <4>1, <4>2, Zenon
    <3>4. /\ AxOpAt(us, Len(ts) + 1) = o /\ o \in AxOp
          /\ AxUnaryAt(us, Len(ts) + 1) <=> o \in AxUnary
          /\ o \in AxUnary => o \in {"NEG", "NOT"}
      BY ONLY <1>1, <1>2, <1>5, <3>2, <3>3, AxOperatorAt, ts \in AxText, x \in AxSigned
    <3> QED
      BY ONLY <1>1, <1>2, <1>3, <1>4, <1>5, <3>1, <3>2, <3>4, AxLinePush, AxInv, AxLine, ts \in AxText, x \in AxSigned
  <2> QED
    BY <2>1, <2>2, <2>3
<1> QED
  BY <1>3, <1>4, <1>5, <1>9, AxReadsOn

\* A closing bracket.
LEMMA AxLineClose ==
  ASSUME AxInv, AxLine, AxRead(")")
  PROVE  AxLine' /\ AxEvaluates'
<1>1. PICK x \in AxSigned : x = AxToken(")", 0) /\ x.t = ")"
  <2>1. 0 \in AxValue
    BY AxModIs DEF AxValue, AxAny
  <2>2. ")" \in AxSigns
    BY DEF AxSigns
  <2> QED
    BY <2>1, <2>2, AxTokenIn
<1>2. axPc = "read" /\ axTyped' = Append(axTyped, x) /\ AxClose
  BY <1>1 DEF AxRead
<1>3. PICK ts \in AxText : ts = axTyped
  BY <1>2, AxHolds
<1>4. PICK us : us = Append(ts, x)
  OBVIOUS
<1>5. ~AxAwaits(us)
  BY <1>1, <1>4, AxAwaitsIs
<1> DEFINE goes == AxOp \ {"PAR"}
<1>6. PICK u : u = AxUnstack(AxStacks, goes)
  OBVIOUS
<1>7. AxOutcome(us, axPc', axSeen', axVals', axOps')
  <2>1. CASE ~axSeen
    <3>1. axPc' = "error"
      BY <1>2, <2>1 DEF AxClose, AxError
    <3>2. AxAwaits(ts)
      BY <1>2, <1>3, <2>1, AxHolds
    <3>3. AxMeaning(us) = AxBad
      BY <1>1, <1>4, <3>2, AxNonsense
    <3> QED
      BY <3>1, <3>3 DEF AxOutcome
  <2>2. CASE axSeen /\ ~AxClean(us)
    <3>1. AxError \/ \E s : AxBecomes(s, TRUE)
      BY <1>2 DEF AxClose
    <3>2. axPc' = "error" \/ axSeen' = TRUE
      BY <3>1 DEF AxError, AxBecomes
    <3> QED
      BY <1>5, <2>2, <3>2 DEF AxOutcome
  <2>3. CASE axSeen /\ AxClean(us)
    <3>1. AxClean(ts)
      BY <1>4, <2>3, AxAppended
    <3>2. PICK vals \in Seq(AxValue), ops \in Seq(AxOp) : vals = axVals /\ ops = axOps
      BY <1>2, AxHolds
    <3>3. PICK s \in AxStack : s = AxStacks /\ s.vals = vals /\ s.ops = ops /\ s.end = "on"
      BY <1>2, <3>2, AxHolds
    <3>4. AxAfter(ts, vals, ops)
      BY <1>2, <1>3, <2>3, <3>1, <3>2, AxHolds
    <3>5. PICK q, c : AxFrames(ts, vals, ops, q, c) /\ AxTop(ts, vals, ops, q, c, -1)
      BY <3>4 DEF AxAfter
    <3>6. s \in AxSound(ts, q, c, 5)
      <4>1. s \in AxSound(ts, q, c, -1)
        BY <3>3, <3>5 DEF AxSound
      <4>2. -1 \in Int /\ 5 \in Int /\ -1 <= 5
        OBVIOUS
      <4> QED
        BY ONLY <4>1, <4>2, AxSoundLooser
    <3>7. \A top \in goes : top # "PAR" /\ AxPrecedence(top) <= 5
      <4> TAKE top \in goes
      <4>1. top \in AxOp /\ top # "PAR"
        OBVIOUS
      <4>2. AxPrecedence(top) \in 0..5
        BY <4>1, AxPrecedenceIs
      <4> QED
        BY <4>1, <4>2
    <3>8. u \in AxSound(ts, q, c, 5) /\ (u.ops # <<>> => Last(u.ops) \notin goes)
      <4>1. goes \in SUBSET AxOp /\ 5 \in 0..5
        OBVIOUS
      <4> HIDE DEF goes
      <4> QED
        BY ONLY <1>6, <3>3, <3>6, <3>7, <4>1, AxUnstackSound, ts \in AxText
    <3>9. PICK vals2 \in Seq(AxValue), ops2 \in Seq(AxOp) : vals2 = u.vals /\ ops2 = u.ops
      BY <3>8 DEF AxSound, AxStack
    <3>10. u \in AxStack /\ u.end = "on" /\ AxFrames(ts, vals2, ops2, q, c) /\ AxTop(ts, vals2, ops2, q, c, 5)
      BY <3>8, <3>9 DEF AxSound
    <3>11. CASE ops2 = <<>>
      <4>1. axPc' = "error"
        BY <1>2, <1>6, <3>9, <3>10, <3>11 DEF AxClose, AxError
      <4>2. AxNest(ts)[Len(ts)] = 0
        BY <3>8, <3>9, <3>11, AxSoundValue
      <4>3. AxMeaning(us) = AxBad
        BY <1>1, <1>4, <4>2, AxNonsense
      <4> QED
        BY <4>1, <4>3 DEF AxOutcome
    <3>12. CASE ops2 # <<>>
      <4>1. Last(ops2) = "PAR"
        <5>1. Last(ops2) \in AxOp
          BY <3>12, AxFrontIs
        <5> QED
          BY <3>8, <3>9, <3>12, <5>1
      <4>2. AxAfter(us, vals2, Front(ops2))
        BY ONLY <1>1, <1>4, <3>10, <3>12, <4>1, AxCloseStands, ts \in AxText, vals2 \in Seq(AxValue), ops2 \in Seq(AxOp)
      <4>3. AxBecomes([u EXCEPT !.ops = Front(@)], TRUE)
        BY <1>2, <1>6, <2>3, <3>9, <3>10, <3>12 DEF AxClose
      <4>4. PICK w : w = [u EXCEPT !.ops = Front(@)]
        OBVIOUS
      <4>5. w.vals = vals2 /\ w.ops = Front(ops2) /\ w.end = "on"
        BY <3>9, <3>10, <4>4 DEF AxStack
      <4>6. axPc' = "read" /\ axSeen' = TRUE /\ axVals' = vals2 /\ axOps' = Front(ops2)
        BY <1>2, <4>3, <4>4, <4>5 DEF AxBecomes
      <4> QED
        BY <1>5, <4>2, <4>6 DEF AxOutcome
    <3> QED
      BY <3>11, <3>12
  <2> QED
    BY <2>1, <2>2, <2>3
<1> QED
  BY <1>2, <1>3, <1>4, <1>7, AxReadsOn

\* The end of an expression.
LEMMA AxLineEnd ==
  ASSUME AxInv, AxLine, AxRead("end")
  PROVE  AxLine' /\ AxEvaluates'
<1>1. PICK x : x = AxToken("end", 0) /\ x.t = "end"
  <2>1. AxToken("end", 0).t = "end"
    BY DEF AxToken
  <2> QED
    BY <2>1
<1>2. axPc = "read" /\ axTyped' = Append(axTyped, x) /\ AxEnd
  BY <1>1 DEF AxRead
<1>3. PICK ts \in AxText, vals \in Seq(AxValue), ops \in Seq(AxOp) : ts = axTyped /\ vals = axVals /\ ops = axOps
  BY <1>2, AxHolds
<1>4. PICK u \in AxStack : u = AxUnstack(AxStacks, AxOp)
  BY <1>2, AxHolds, AxUnstackIs
<1> DEFINE e == IF u.end # "on" THEN u.end ELSE IF Len(u.vals) = 1 THEN "value" ELSE "error"
<1>5. axPc' = e /\ axVals' = u.vals /\ e \in {"error", "full", "lost", "value"}
  <2>1. PICK w : w = [u EXCEPT !.end = IF @ # "on" THEN @ ELSE IF Len(u.vals) = 1 THEN "value" ELSE "error"]
    OBVIOUS
  <2>2. w.end = e /\ w.vals = u.vals /\ e \in {"error", "full", "lost", "value"}
    BY <2>1 DEF AxStack
  <2>3. AxBecomes(w, axSeen)
    BY <1>2, <1>4, <2>1 DEF AxEnd
  <2> HIDE DEF e
  <2> QED
    BY <2>2, <2>3 DEF AxBecomes
<1>6. AxExpression' = ts
  <2>1. PICK us : us = Append(ts, x)
    OBVIOUS
  <2>2. us # <<>> /\ Last(us) = x /\ Front(us) = ts
    <3>1. PICK S : S = {ts[k] : k \in 1..Len(ts)} \cup {x}
      OBVIOUS
    <3>2. ts \in Seq(AxSigned)
      BY DEF AxText, AxSigned
    <3>3. PICK T : T = AxSigned \cup {x}
      OBVIOUS
    <3>4. ts \in Seq(T) /\ x \in T
      <4>1. \A k \in 1..Len(ts) : ts[k] \in T
        BY <3>2, <3>3
      <4> QED
        BY <3>2, <3>3, <4>1
    <3>5. /\ us \in Seq(T) /\ Len(us) = Len(ts) + 1 /\ us[Len(ts) + 1] = x
          /\ \A k \in 1..Len(ts) : us[k] = ts[k]
      BY ONLY <2>1, <3>4, AppendProperties
    <3>6. PICK n \in Nat : n = Len(ts)
      BY <3>4
    <3>7. us # <<>>
      BY <3>5, <3>6
    <3>8. /\ Last(us) = us[Len(us)] /\ Front(us) \in Seq(T) /\ Len(Front(us)) = Len(us) - 1
          /\ \A k \in 1..Len(us) - 1 : Front(us)[k] = us[k]
      BY ONLY <3>5, <3>7, AxFrontIs
    <3>9. Len(us) - 1 = n
      BY ONLY <3>5, <3>6
    <3>10. Len(Front(us)) = Len(ts) /\ \A k \in 1..Len(ts) : Front(us)[k] = ts[k]
      BY ONLY <3>5, <3>6, <3>8, <3>9
    <3>11. Front(us) = ts
      BY ONLY <3>4, <3>8, <3>10, SeqEqual
    <3> QED
      BY ONLY <3>5, <3>7, <3>8, <3>11
  <2> QED
    BY <1>1, <1>2, <1>3, <2>1, <2>2 DEF AxExpression
<1>7. AxLine'
  BY <1>5 DEF AxLine
<1>8. ASSUME AxClean(ts)
      PROVE  /\ e = "value" => u.vals = <<AxMeaning(ts)>>
             /\ e \in {"error", "lost"} => AxMeaning(ts) = AxBad
  <2>1. PICK s \in AxStack : s = AxStacks /\ s.vals = vals /\ s.ops = ops /\ s.end = "on"
    BY <1>2, <1>3, AxHolds
  <2>2. CASE axSeen
    <3>1. AxAfter(ts, vals, ops)
      BY <1>2, <1>3, <1>8, <2>2, AxHolds
    <3>2. PICK q, c : AxFrames(ts, vals, ops, q, c) /\ AxTop(ts, vals, ops, q, c, -1)
      BY <3>1 DEF AxAfter
    <3>3. s \in AxSound(ts, q, c, -1)
      BY <2>1, <3>2 DEF AxSound
    <3>4. \/ u.end = "on" /\ u.vals = <<AxMeaning(ts)>>
          \/ u.end = "lost" /\ AxNest(ts)[Len(ts)] # 0
      BY <1>4, <2>1, <3>3, AxEndSeen
    <3>5. CASE u.end = "on" /\ u.vals = <<AxMeaning(ts)>>
      <4>1. Len(u.vals) = 1
        BY <3>5
      <4> QED
        BY <3>5, <4>1
    <3>6. CASE u.end = "lost" /\ AxNest(ts)[Len(ts)] # 0
      BY <3>6, AxUnfinished
    <3> QED
      BY <3>4, <3>5, <3>6
  <2>3. CASE ~axSeen
    <3>1. AxBefore(ts, vals, ops)
      BY <1>2, <1>3, <1>8, <2>3, AxHolds
    <3>2. AxMeaning(ts) = AxBad
      <4>1. AxAwaits(ts)
        BY <1>2, <1>3, <2>3, AxHolds
      <4> QED
        BY <4>1, AxUnfinished
    <3>3. PICK q, c : AxFrames(ts, vals, ops, q, c) /\ Len(vals) = c[Len(ops)]
      BY <3>1 DEF AxBefore
    <3>4. \A l \in 1..Len(ops) : c[l] = c[l - 1] + (IF ops[l] \in AxUnary THEN 0 ELSE 1)
      <4> TAKE l \in 1..Len(ops)
      <4>1. PICK o \in AxOp : o = ops[l]
        BY ONLY ops \in Seq(AxOp), l \in 1..Len(ops), ElementOfSeq
      <4>2. AxFrame(ts, vals, o, q[l - 1], q[l], c[l - 1], c[l])
        BY <3>3, <4>1 DEF AxFrames
      <4>3. c[l - 1] \in Nat
        <5>1. c \in [Nat -> Nat]
          BY <3>3 DEF AxFrames
        <5>2. l - 1 \in Nat
          OBVIOUS
        <5> QED
          BY ONLY <5>1, <5>2
      <4>4. (o \in AxUnary => c[l] = c[l - 1]) /\ (o \notin AxUnary => c[l] = c[l - 1] + 1)
        BY <4>2 DEF AxFrame, AxUnary
      <4> QED
        BY <4>1, <4>3, <4>4
    <3>5. s \in AxCounted(c)
      BY <2>1, <3>3, <3>4 DEF AxCounted
    <3>6. c \in [Nat -> Nat] /\ c[0] = 0
      BY <3>3 DEF AxFrames
    <3>7. u.end \in {"on", "error", "lost"} /\ (u.end = "on" => Len(u.vals) # 1)
      BY <1>4, <2>1, <3>5, <3>6, AxEndUnseen
    <3> QED
      BY <3>2, <3>7
  <2> QED
    BY <2>2, <2>3
<1>9. AxEvaluates'
  <2> HIDE DEF e
  <2> QED
    BY <1>5, <1>6, <1>8 DEF AxEvaluates, AxValueRight, AxRefusesNonsense
<1> QED
  BY <1>7, <1>9

\* Over every step, and over every expression.
LEMMA ExpressionEvaluated == (AxStart \/ AxOff) /\ [][AxNext]_axVars => []AxEvaluates
<1>1. AxStart \/ AxOff => AxInv
  BY AxBegins
<1>2. AxStart \/ AxOff => AxLine /\ AxEvaluates
  BY AxBeginsLine
<1>3. AxInv /\ AxLine /\ AxEvaluates /\ [AxNext]_axVars => AxInv' /\ AxLine' /\ AxEvaluates'
  <2> SUFFICES ASSUME AxInv, AxLine, AxEvaluates, [AxNext]_axVars PROVE AxInv' /\ AxLine' /\ AxEvaluates'
    OBVIOUS
  <2>1. CASE UNCHANGED axVars
    BY <2>1 DEF axVars, AxInv, AxTypeOK, AxLine, AxOutcome, AxEvaluates, AxValueRight, AxRefusesNonsense, AxExpression
  <2>2. ASSUME NEW n \in AxNumbers, AxReadNumber(n)
        PROVE  AxInv' /\ AxLine' /\ AxEvaluates'
    BY <2>2, AxReadNumberIs, AxLineNumber
  <2>3. ASSUME NEW t \in AxTokens, AxRead(t)
        PROVE  AxInv' /\ AxLine' /\ AxEvaluates'
    <3>1. AxInv'
      BY <2>3, AxReadIs
    <3>2. AxLine' /\ AxEvaluates'
      BY <2>3, AxLineOpen, AxLineClose, AxLineEnd, AxLineOperator
    <3> QED
      BY <3>1, <3>2
  <2> QED
    BY <2>1, <2>2, <2>3 DEF AxNext
<1> QED
  BY <1>1, <1>2, <1>3, PTL
================================================================================
