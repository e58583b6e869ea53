------------------------------- MODULE QeProofs -------------------------------
(***************************************************************************)
(* What is proved of the editor (QeBuffer, QeEditor): the operators on the *)
(* buffer one by one, the two files of a save, and then the invariant.     *)
(***************************************************************************)
EXTENDS QeEditor, SequenceTheorems, WellFoundedInduction, TLAPS

(***************************************************************************)
(* Induction over the natural numbers.                                     *)
(***************************************************************************)
Less == {ss \in Nat \X Nat : ss[1] < ss[2]}

\* The natural numbers have no infinite way down.
LEMMA LessWF == IsWellFoundedOn(Less, Nat)
<1>1. Less = OpToRel(<, Nat)
  BY Zenon DEF Less, OpToRel
<1>2. QED
  BY <1>1, NatLessThanWellFounded, Zenon

\* So every nonempty set of them has a least element.
LEMMA NatMin ==
  ASSUME NEW T \in SUBSET Nat, T # {}
  PROVE \E m \in T : \A k \in T : m <= k
<1>1. \A k \in T : k \in Nat
  OBVIOUS
<1>2. T \subseteq Nat
  OBVIOUS
<1>3. PICK m \in T : \A k \in T : ~ (<<k, m>> \in Less)
  BY <1>2, LessWF, WFMin, Zenon
<1>4. \A k \in T : ~ (k < m)
  BY <1>1, <1>3 DEF Less
<1>5. QED
  BY <1>1, <1>4

\* A set that holds 0 and each number up to n behind one of its own holds them all.
LEMMA UpTo ==
  ASSUME NEW n \in Nat, NEW G, 0 \in G, \A k \in 1..n : k - 1 \in G => k \in G
  PROVE  0..n \subseteq G
<1> DEFINE T == {k \in 0..n : k \notin G}
<1>1. CASE T = {}
  BY <1>1
<1>2. CASE T # {}
  <2>1. T \in SUBSET Nat
    OBVIOUS
  <2>2. PICK m \in T : \A k \in T : m <= k
    BY <1>2, <2>1, NatMin
  <2>3. m \in 1..n /\ m - 1 \in 0..n /\ m - 1 \notin T
    BY <2>2
  <2> QED
    BY <2>2, <2>3
<1> QED
  BY <1>1, <1>2

\* What it is for a function on 0..n to begin with init and go on with F.
Recursive(s, S, init, n, F) ==
  s \in [0..n -> S] /\ s[0] = init /\ \A k \in 1..n : s[k] = F[<<s[k - 1], k>>]

\* A function that is given at 0 and from each number to the next exists.
LEMMA PrimRec ==
  ASSUME NEW S, NEW init \in S, NEW n \in Nat, NEW F \in [S \X (1..n) -> S]
  PROVE  \E s : Recursive(s, S, init, n, F)
<1> DEFINE R(s, m) == s[0] = init /\ \A k \in 1..m : s[k] = F[<<s[k - 1], k>>]
           G == {m \in 0..n : \E s \in [0..m -> S] : R(s, m)}
<1>1. 0 \in G
  <2> DEFINE u == [k \in 0..0 |-> init]
  <2>1. u \in [0..0 -> S] /\ u[0] = init /\ \A k \in 1..0 : u[k] = F[<<u[k - 1], k>>]
    OBVIOUS
  <2> HIDE DEF u
  <2> QED
    BY <2>1
<1>2. ASSUME NEW m \in 1..n, m - 1 \in G
      PROVE  m \in G
  <2>1. PICK s \in [0..m - 1 -> S] : R(s, m - 1)
    BY <1>2
  <2> DEFINE t == [k \in 0..m |-> IF k = m THEN F[<<s[m - 1], m>>] ELSE s[k]]
  <2>2. s[m - 1] \in S
    OBVIOUS
  <2>3. F[<<s[m - 1], m>>] \in S
    BY <2>2
  <2>4. t \in [0..m -> S]
    BY <2>3
  <2>5. \A k \in 0..m - 1 : t[k] = s[k]
    OBVIOUS
  <2>6. \A k \in 1..m : t[k] = F[<<t[k - 1], k>>]
    <3> TAKE k \in 1..m
    <3>1. CASE k = m
      <4>1. t[m] = F[<<s[m - 1], m>>] /\ m - 1 \in 0..m - 1
        OBVIOUS
      <4> QED
        BY <2>5, <3>1, <4>1
    <3>2. CASE k # m
      <4>1. k \in 1..m - 1 /\ k - 1 \in 0..m - 1 /\ k \in 0..m - 1
        BY <3>2
      <4> QED
        BY <2>1, <2>5, <4>1
    <3> QED
      BY <3>1, <3>2
  <2>7. t[0] = init
    BY <2>1, <2>5
  <2> HIDE DEF t
  <2> QED
    BY <2>4, <2>6, <2>7
<1>3. 0..n \subseteq G
  BY <1>1, <1>2, UpTo
<1> QED
  BY <1>3 DEF Recursive

-----------------------------------------------------------------------------
(* Texts and lines *)

\* A buffer whose gap does not end before it begins.
Good == {s \in Buffer : s.gs <= s.ge}

\* The numbers in a nonempty set that ends have a greatest one.
LEMMA NatMax ==
  ASSUME NEW n \in Nat, NEW T \in SUBSET (0..n), T # {}
  PROVE  Max(T) \in T /\ \A k \in T : k <= Max(T)
<1> DEFINE U == {n - k : k \in T}
<1>1. U \in SUBSET Nat /\ U # {}
  <2>1. \A k \in T : k \in 0..n /\ n - k \in Nat
    OBVIOUS
  <2>2. PICK x \in T : TRUE
    OBVIOUS
  <2>3. n - x \in U
    OBVIOUS
  <2> QED
    BY <2>1, <2>3
<1>2. PICK m \in U : \A k \in U : m <= k
  BY <1>1, NatMin
<1>3. PICK x \in T : m = n - x
  OBVIOUS
<1>4. \A k \in T : x >= k
  <2> TAKE k \in T
  <2>1. n - k \in U /\ k \in 0..n /\ x \in 0..n
    OBVIOUS
  <2> QED
    BY <1>2, <1>3, <2>1
<1>5. \E y \in T : \A k \in T : y >= k
  BY <1>4
<1>6. Max(T) \in T /\ \A k \in T : Max(T) >= k
  BY <1>5, Zenon DEF Max
<1> QED
  BY <1>6

\* The least of a nonempty set of numbers.
LEMMA MinIs ==
  ASSUME NEW T \in SUBSET Nat, T # {}
  PROVE  Min(T) \in T /\ \A k \in T : Min(T) <= k
<1>1. \E y \in T : \A k \in T : y <= k
  BY NatMin
<1> QED
  BY <1>1, Zenon DEF Min

\* What a buffer is made of.
LEMMA GoodFields ==
  ASSUME NEW s \in Good
  PROVE  /\ s.mem \in [0..Cap - 1 -> Char] /\ s.gs \in Nat /\ s.ge \in Nat /\ s.cl \in Nat
         /\ s.gs <= s.ge /\ s.ge <= Cap /\ s.cl <= Cap /\ Cap \in Nat \ {0}
  BY QbAssumption DEF Good, Buffer, Index

\* The byte of the text with the number k, which counts from 1.
Place(s, k) == IF k <= s.gs THEN k - 1 ELSE k - 1 + (s.ge - s.gs)

\* The text has a byte for each place outside the gap.
LEMMA TextIs ==
  ASSUME NEW s \in Good
  PROVE  /\ Text(s) \in Seq(Char) /\ Len(Text(s)) = Cap - (s.ge - s.gs)
         /\ \A k \in 1..Cap - (s.ge - s.gs) :
              Place(s, k) \in 0..Cap - 1 /\ Text(s)[k] = s.mem[Place(s, k)]
<1>f. /\ s.mem \in [0..Cap - 1 -> Char] /\ s.gs \in Nat /\ s.ge \in Nat /\ s.cl \in Nat
      /\ s.gs <= s.ge /\ s.ge <= Cap /\ s.cl <= Cap /\ Cap \in Nat \ {0}
  BY GoodFields
<1> USE <1>f
<1> DEFINE l == [i \in 1..s.gs |-> s.mem[i - 1]]
           r == [i \in 1..Cap - s.ge |-> s.mem[s.ge + i - 1]]
<1>1. l \in Seq(Char) /\ Len(l) = s.gs
  <2>1. \A i \in 1..s.gs : i - 1 \in 0..Cap - 1
    OBVIOUS
  <2>2. \A i \in 1..s.gs : s.mem[i - 1] \in Char
    BY <2>1
  <2>3. l \in [1..s.gs -> Char]
    BY <2>2
  <2> HIDE DEF l
  <2> QED
    BY <2>3, SMTT(30)
<1>2. r \in Seq(Char) /\ Len(r) = Cap - s.ge
  <2>1. \A i \in 1..Cap - s.ge : s.ge + i - 1 \in 0..Cap - 1
    OBVIOUS
  <2>2. Cap - s.ge \in Nat
    OBVIOUS
  <2>3. \A i \in 1..Cap - s.ge : s.mem[s.ge + i - 1] \in Char
    BY <2>1
  <2>4. r \in [1..Cap - s.ge -> Char]
    BY <2>3
  <2> HIDE DEF r
  <2> QED
    BY <2>2, <2>4, SMTT(30)
<1>3. \A i \in 1..s.gs : l[i] = s.mem[i - 1]
  OBVIOUS
<1>4. \A i \in 1..Cap - s.ge : r[i] = s.mem[s.ge + i - 1]
  OBVIOUS
<1>5. Text(s) = l \o r
  BY DEF Text
<1> HIDE DEF l, r
<1>6. /\ Text(s) \in Seq(Char) /\ Len(Text(s)) = Cap - (s.ge - s.gs)
      /\ \A i \in 1..Cap - (s.ge - s.gs) :
           Text(s)[i] = IF i <= s.gs THEN l[i] ELSE r[i - s.gs]
  <2>1. /\ l \o r \in Seq(Char) /\ Len(l \o r) = Len(l) + Len(r)
        /\ \A i \in 1..Len(l) + Len(r) : (l \o r)[i] = IF i <= Len(l) THEN l[i] ELSE r[i - Len(l)]
    BY <1>1, <1>2, ConcatProperties, Zenon
  <2>2. Len(l) + Len(r) = Cap - (s.ge - s.gs)
    BY <1>1, <1>2
  <2> QED
    BY <1>1, <1>5, <2>1, <2>2
<1>7. ASSUME NEW k \in 1..Cap - (s.ge - s.gs)
      PROVE  Place(s, k) \in 0..Cap - 1 /\ Text(s)[k] = s.mem[Place(s, k)]
  <2>1. CASE k <= s.gs
    <3>1. Text(s)[k] = l[k] /\ k \in 1..s.gs
      BY <1>6, <2>1
    <3>2. l[k] = s.mem[k - 1]
      BY <1>3, <3>1
    <3> QED
      BY <2>1, <3>1, <3>2 DEF Place
  <2>2. CASE k > s.gs
    <3>1. k - s.gs \in 1..Cap - s.ge
      BY <2>2
    <3>2. Text(s)[k] = r[k - s.gs]
      BY <1>6, <2>2
    <3>3. r[k - s.gs] = s.mem[s.ge + (k - s.gs) - 1]
      BY <1>4, <3>1
    <3>4. Place(s, k) = s.ge + (k - s.gs) - 1 /\ Place(s, k) \in 0..Cap - 1
      BY <2>2, SMTT(30) DEF Place
    <3> QED
      BY <3>2, <3>3, <3>4
  <2> QED
    BY <2>1, <2>2
<1> QED
  BY <1>6, <1>7

\* Two buffers with gaps as wide and the same bytes outside have the same text.
LEMMA TextSame ==
  ASSUME NEW s \in Good, NEW t \in Good, s.ge - s.gs = t.ge - t.gs,
         \A k \in 1..Cap - (s.ge - s.gs) : s.mem[Place(s, k)] = t.mem[Place(t, k)]
  PROVE  Text(s) = Text(t)
<1>1. Text(s) \in Seq(Char) /\ Text(t) \in Seq(Char) /\ Len(Text(s)) = Len(Text(t))
  BY TextIs
<1>2. \A k \in 1..Len(Text(s)) : Text(s)[k] = Text(t)[k]
  BY TextIs
<1> QED
  BY <1>1, <1>2, SeqEqual

\* p is where the line begins that the byte i of the memory m is in.
Start(m, p, i) ==
  p \in 0..i /\ (p = 0 \/ m[p - 1] = NL) /\ \A k \in p..i - 1 : m[k] # NL

\* The lines of the text: current_line is the start of the one the cursor is in.
Lined(s) == Start(s.mem, s.cl, s.gs)

\* A line begins in one place.
LEMMA StartOne ==
  ASSUME NEW m, NEW i \in Nat, NEW p, NEW q, Start(m, p, i), Start(m, q, i)
  PROVE  p = q
<1>1. p \in 0..i /\ q \in 0..i
  BY DEF Start
<1>2. ASSUME p < q PROVE FALSE
  <2>1. q - 1 \in p..i - 1 /\ q # 0
    BY <1>1, <1>2
  <2> QED
    BY <2>1 DEF Start
<1>3. ASSUME q < p PROVE FALSE
  <2>1. p - 1 \in q..i - 1 /\ p # 0
    BY <1>1, <1>3
  <2> QED
    BY <2>1 DEF Start
<1> QED
  BY <1>1, <1>2, <1>3

\* LineStart finds it.
LEMMA LineStartIs ==
  ASSUME NEW s \in Good, NEW i \in 0..Cap
  PROVE  Start(s.mem, LineStart(s, i), i)
<1> DEFINE T == {k \in 0..i : k = 0 \/ s.mem[k - 1] = NL}
<1>1. i \in Nat /\ T \in SUBSET (0..i) /\ 0 \in T
  BY QbAssumption
<1>2. Max(T) \in T /\ \A k \in T : k <= Max(T)
  BY <1>1, NatMax
<1>3. LineStart(s, i) = Max(T)
  BY DEF LineStart
<1>4. ASSUME NEW k \in Max(T)..i - 1, s.mem[k] = NL PROVE FALSE
  <2>0. Max(T) \in 0..i
    BY <1>1, <1>2
  <2>1. k + 1 \in 0..i /\ s.mem[(k + 1) - 1] = NL /\ ~(k + 1 <= Max(T))
    BY <1>1, <1>4, <2>0
  <2>2. k + 1 \in T
    BY <2>1
  <2> QED
    BY <1>2, <2>1, <2>2
<1> QED
  BY <1>2, <1>3, <1>4 DEF Start

\* current_line is right when it is what LineStart finds.
LEMMA LinedIs ==
  ASSUME NEW s \in Good
  PROVE  Lined(s) <=> s.cl = LineStart(s, s.gs)
<1>1. Start(s.mem, LineStart(s, s.gs), s.gs) /\ s.gs \in Nat
  BY LineStartIs, GoodFields
<1> QED
  BY <1>1, StartOne DEF Lined

\* LineEnd finds the first newline, or the end.
LEMMA LineEndIs ==
  ASSUME NEW s \in Good, NEW i \in 0..Cap
  PROVE  /\ LineEnd(s, i) \in i..Cap
         /\ LineEnd(s, i) = Cap \/ s.mem[LineEnd(s, i)] = NL
         /\ \A k \in i..LineEnd(s, i) - 1 : s.mem[k] # NL
<1> DEFINE T == {k \in i..Cap : k = Cap \/ s.mem[k] = NL}
<1>1. T \in SUBSET Nat /\ Cap \in T
  BY QbAssumption
<1>2. Min(T) \in T /\ \A k \in T : Min(T) <= k
  BY <1>1, MinIs
<1>3. LineEnd(s, i) = Min(T)
  BY DEF LineEnd
<1>4. ASSUME NEW k \in i..Min(T) - 1, s.mem[k] = NL PROVE FALSE
  <2>1. k \in T
    BY <1>1, <1>2, <1>4
  <2> QED
    BY <1>1, <1>2, <2>1, <1>4
<1> QED
  BY <1>2, <1>3, <1>4

-----------------------------------------------------------------------------
(* Moving the gap *)

\* Bytes copied across the gap from its right to its left.
LEMMA RightIs ==
  ASSUME NEW s \in Good, NEW n \in 0..Cap - s.ge
  PROVE  /\ Right(s, n) \in Good
         /\ Right(s, n).gs = s.gs + n /\ Right(s, n).ge = s.ge + n /\ Right(s, n).cl = s.cl
         /\ \A i \in 0..s.gs - 1 : Right(s, n).mem[i] = s.mem[i]
         /\ \A i \in s.gs..s.gs + n - 1 : Right(s, n).mem[i] = s.mem[s.ge + i - s.gs]
         /\ \A i \in s.ge + n..Cap - 1 : Right(s, n).mem[i] = s.mem[i]
         /\ Text(Right(s, n)) = Text(s)
<1>f. /\ s.mem \in [0..Cap - 1 -> Char] /\ s.gs \in Nat /\ s.ge \in Nat /\ s.cl \in Nat
      /\ s.gs <= s.ge /\ s.ge <= Cap /\ s.cl <= Cap /\ Cap \in Nat \ {0}
  BY GoodFields
<1> USE <1>f
<1> DEFINE m == [i \in 0..Cap - 1 |-> IF i \in s.gs..s.gs + n - 1
                                      THEN s.mem[s.ge + i - s.gs] ELSE s.mem[i]]
<1>1. \A i \in s.gs..s.gs + n - 1 : s.ge + i - s.gs \in 0..Cap - 1 /\ i \in 0..Cap - 1
  BY SMTT(30)
<1>2. m \in [0..Cap - 1 -> Char]
  BY <1>1
<1>3. /\ \A i \in 0..s.gs - 1 : m[i] = s.mem[i]
      /\ \A i \in s.gs..s.gs + n - 1 : m[i] = s.mem[s.ge + i - s.gs]
      /\ \A i \in s.ge + n..Cap - 1 : m[i] = s.mem[i]
  <2>1. \A i \in 0..s.gs - 1 : i \in 0..Cap - 1 /\ i \notin s.gs..s.gs + n - 1
    OBVIOUS
  <2>2. \A i \in s.ge + n..Cap - 1 : i \in 0..Cap - 1 /\ i \notin s.gs..s.gs + n - 1
    OBVIOUS
  <2> QED
    BY <1>1, <2>1, <2>2
<1>3a. Right(s, n) = [s EXCEPT !.gs = s.gs + n, !.ge = s.ge + n, !.mem = m]
  BY DEF Right, Good, Buffer
<1> HIDE DEF m
<1> PICK t : t = Right(s, n)
  OBVIOUS
<1>5. /\ t \in Good /\ t.gs = s.gs + n /\ t.ge = s.ge + n /\ t.cl = s.cl /\ t.mem = m
  <2> PICK g, e : g = s.gs + n /\ e = s.ge + n
    OBVIOUS
  <2>1. g \in Index /\ e \in Index /\ g <= e
    BY SMTT(30) DEF Index
  <2>2. t = [s EXCEPT !.gs = g, !.ge = e, !.mem = m]
    BY <1>3a
  <2>3. s \in Buffer
    BY DEF Good
  <2>4. t.mem = m /\ t.gs = g /\ t.ge = e /\ t.cl = s.cl
    BY ONLY <2>2, <2>3 DEF Buffer
  <2>5. t \in Buffer
    BY ONLY <1>2, <2>1, <2>2, <2>3 DEF Buffer
  <2> QED
    BY <2>1, <2>4, <2>5 DEF Good
<1>6. ASSUME NEW k \in 1..Cap - (s.ge - s.gs)
      PROVE  s.mem[Place(s, k)] = t.mem[Place(t, k)]
  <2>1. CASE k <= s.gs
    <3>1. Place(s, k) = k - 1 /\ Place(t, k) = k - 1 /\ k - 1 \in 0..s.gs - 1
      BY <1>5, <2>1 DEF Place
    <3> QED
      BY <1>3, <1>5, <3>1
  <2>2. CASE k > s.gs /\ k <= s.gs + n
    <3>1. Place(s, k) = k - 1 + (s.ge - s.gs) /\ Place(t, k) = k - 1
          /\ k - 1 \in s.gs..s.gs + n - 1 /\ k - 1 + (s.ge - s.gs) = s.ge + (k - 1) - s.gs
      BY <1>5, <2>2, SMTT(30) DEF Place
    <3> QED
      BY <1>3, <1>5, <3>1, SMTT(30)
  <2>3. CASE k > s.gs + n
    <3>1. k \in Nat /\ ~(k <= s.gs) /\ ~(k <= t.gs)
      BY <1>5, <2>3, SMTT(30)
    <3>2. t.ge - t.gs = s.ge - s.gs
      BY <1>5
    <3>3. k - 1 + (s.ge - s.gs) \in s.ge + n..Cap - 1
      BY <2>3, SMTT(30)
    <3>4. Place(s, k) = k - 1 + (s.ge - s.gs) /\ Place(t, k) = k - 1 + (t.ge - t.gs)
      BY <1>5, <3>1 DEF Place
    <3> QED
      BY <1>3, <1>5, <3>2, <3>3, <3>4, SMTT(30)
  <2> QED
    BY <2>1, <2>2, <2>3
<1>7. Text(s) = Text(t)
  <2>1. s.ge - s.gs = t.ge - t.gs
    BY <1>5
  <2> QED
    BY <1>5, <1>6, <2>1, TextSame, Zenon
<1> QED
  BY <1>3, <1>5, <1>7

\* Bytes copied from its left to its right.
LEMMA LeftIs ==
  ASSUME NEW s \in Good, NEW n \in 0..s.gs
  PROVE  /\ Left(s, n) \in Good
         /\ Left(s, n).gs = s.gs - n /\ Left(s, n).ge = s.ge - n /\ Left(s, n).cl = s.cl
         /\ \A i \in 0..s.gs - n - 1 : Left(s, n).mem[i] = s.mem[i]
         /\ \A i \in s.ge..Cap - 1 : Left(s, n).mem[i] = s.mem[i]
         /\ Text(Left(s, n)) = Text(s)
<1>f. /\ s.mem \in [0..Cap - 1 -> Char] /\ s.gs \in Nat /\ s.ge \in Nat /\ s.cl \in Nat
      /\ s.gs <= s.ge /\ s.ge <= Cap /\ s.cl <= Cap /\ Cap \in Nat \ {0}
  BY GoodFields
<1> USE <1>f
<1> DEFINE m == [i \in 0..Cap - 1 |-> IF i \in s.ge - n..s.ge - 1
                                      THEN s.mem[s.gs + i - s.ge] ELSE s.mem[i]]
<1>1. \A i \in s.ge - n..s.ge - 1 : s.gs + i - s.ge \in 0..Cap - 1 /\ i \in 0..Cap - 1
  BY SMTT(30)
<1>2. m \in [0..Cap - 1 -> Char]
  BY <1>1
<1>3. /\ \A i \in 0..s.gs - n - 1 : m[i] = s.mem[i]
      /\ \A i \in s.ge - n..s.ge - 1 : m[i] = s.mem[s.gs + i - s.ge]
      /\ \A i \in s.ge..Cap - 1 : m[i] = s.mem[i]
  <2>1. \A i \in 0..s.gs - n - 1 : i \in 0..Cap - 1 /\ i \notin s.ge - n..s.ge - 1
    OBVIOUS
  <2>2. \A i \in s.ge..Cap - 1 : i \in 0..Cap - 1 /\ i \notin s.ge - n..s.ge - 1
    OBVIOUS
  <2> QED
    BY <1>1, <2>1, <2>2
<1>3a. Left(s, n) = [s EXCEPT !.gs = s.gs - n, !.ge = s.ge - n, !.mem = m]
  BY DEF Left, Good, Buffer
<1> HIDE DEF m
<1> PICK t : t = Left(s, n)
  OBVIOUS
<1>5. /\ t \in Good /\ t.gs = s.gs - n /\ t.ge = s.ge - n /\ t.cl = s.cl /\ t.mem = m
  <2> PICK g, e : g = s.gs - n /\ e = s.ge - n
    OBVIOUS
  <2>1. g \in Index /\ e \in Index /\ g <= e
    BY DEF Index
  <2>2. t = [s EXCEPT !.gs = g, !.ge = e, !.mem = m]
    BY <1>3a
  <2>3. s \in Buffer
    BY DEF Good
  <2>4. t.mem = m /\ t.gs = g /\ t.ge = e /\ t.cl = s.cl
    BY ONLY <2>2, <2>3 DEF Buffer
  <2>5. t \in Buffer
    BY ONLY <1>2, <2>1, <2>2, <2>3 DEF Buffer
  <2> QED
    BY <2>1, <2>4, <2>5 DEF Good
<1>6. ASSUME NEW k \in 1..Cap - (s.ge - s.gs)
      PROVE  s.mem[Place(s, k)] = t.mem[Place(t, k)]
  <2>1. CASE k <= s.gs - n
    <3>1. Place(s, k) = k - 1 /\ Place(t, k) = k - 1 /\ k - 1 \in 0..s.gs - n - 1
      BY <1>5, <2>1 DEF Place
    <3> QED
      BY <1>3, <1>5, <3>1
  <2>2. CASE k <= s.gs /\ k > s.gs - n
    <3> PICK j : j = k - 1 + (s.ge - s.gs)
      OBVIOUS
    <3>1. Place(s, k) = k - 1 /\ Place(t, k) = j
      BY <1>5, <2>2 DEF Place
    <3>2. j \in s.ge - n..s.ge - 1
      BY <2>2, SMTT(30)
    <3>3. s.gs + j - s.ge = k - 1
      OBVIOUS
    <3> QED
      BY <1>3, <1>5, <3>1, <3>2, <3>3, ZenonT(30)
  <2>3. CASE k > s.gs
    <3>1. Place(s, k) = k - 1 + (s.ge - s.gs) /\ Place(t, k) = k - 1 + (s.ge - s.gs)
          /\ k - 1 + (s.ge - s.gs) \in s.ge..Cap - 1
      BY <1>5, <2>3, SMTT(30) DEF Place
    <3> QED
      BY <1>3, <1>5, <3>1
  <2> QED
    BY <2>1, <2>2, <2>3
<1>7. Text(s) = Text(t)
  <2>1. s.ge - s.gs = t.ge - t.gs
    BY <1>5
  <2> QED
    BY <1>5, <1>6, <2>1, TextSame, Zenon
<1> QED
  BY <1>3, <1>5, <1>7

\* current_line set to where a line begins.
LEMMA LineSet ==
  ASSUME NEW s \in Good, NEW p \in 0..Cap
  PROVE  /\ [s EXCEPT !.cl = p] \in Good
         /\ [s EXCEPT !.cl = p].cl = p /\ [s EXCEPT !.cl = p].mem = s.mem
         /\ [s EXCEPT !.cl = p].gs = s.gs /\ [s EXCEPT !.cl = p].ge = s.ge
         /\ Text([s EXCEPT !.cl = p]) = Text(s)
<1> PICK t : t = [s EXCEPT !.cl = p]
  OBVIOUS
<1>1. t \in Good /\ t.mem = s.mem /\ t.gs = s.gs /\ t.ge = s.ge /\ t.cl = p
  BY DEF Good, Buffer, Index
<1>2. \A k \in 1..Cap - (s.ge - s.gs) : s.mem[Place(s, k)] = t.mem[Place(t, k)]
  BY <1>1 DEF Place
<1>3. Text(s) = Text(t)
  BY <1>1, <1>2, TextSame
<1> QED
  BY <1>1, <1>3

-----------------------------------------------------------------------------
(* Commands that move *)

\* The text is the same, and current_line is right if it was.
Keeps(t, s) == t \in Good /\ Text(t) = Text(s) /\ (Lined(s) => Lined(t))

\* Keeping the text and the line is keeping it step after step.
LEMMA KeepsOn ==
  ASSUME NEW r, NEW s, NEW t, Keeps(s, r), Keeps(t, s)
  PROVE  Keeps(t, r)
BY DEF Keeps

\* The lesser of two numbers.
LEMMA LeastIs ==
  ASSUME NEW i \in Nat, NEW j \in Nat
  PROVE  Least(i, j) \in Nat /\ Least(i, j) <= i /\ Least(i, j) <= j
         /\ (Least(i, j) = i \/ Least(i, j) = j)
BY DEF Least

\* A command that does not leave a set of buffers does not leave it when repeated.
LEMMA RepeatKeeps ==
  ASSUME NEW G, NEW f, NEW s \in G, NEW n \in Nat, \A t \in G : f[t] \in G
  PROVE  Repeat(f, s, n) \in G
<1> PICK m : m = Least(n, Cap + 1)
  OBVIOUS
<1>1. m \in Nat
  BY QbAssumption, LeastIs
<1> DEFINE Body(w) == [k \in 0..m |-> IF k = 0 THEN s ELSE f[w[k - 1]]]
           done == CHOOSE w : w = Body(w)
<1>2. Repeat(f, s, n) = done[m]
  BY Zenon DEF Repeat
<1>3. \E w : w = Body(w)
  <2> DEFINE F == [x \in G \X (1..m) |-> f[x[1]]]
  <2>1. F \in [G \X (1..m) -> G]
    OBVIOUS
  <2>2. \A t \in G, k \in 1..m : F[<<t, k>>] = f[t]
    OBVIOUS
  <2> HIDE DEF F
  <2>3. PICK w : Recursive(w, G, s, m, F)
    BY <1>1, <2>1, PrimRec
  <2>4. w \in [0..m -> G] /\ w[0] = s /\ \A k \in 1..m : w[k] = F[<<w[k - 1], k>>]
    BY <2>3 DEF Recursive
  <2>5. \A k \in 1..m : w[k] = f[w[k - 1]]
    <3> TAKE k \in 1..m
    <3>1. w[k - 1] \in G
      BY <1>1, <2>4
    <3> QED
      BY <2>2, <2>4, <3>1
  <2>6. w = Body(w)
    BY <1>1, <2>4, <2>5
  <2> QED
    BY <2>6
<1> HIDE DEF Body
<1>4. done = Body(done)
  BY <1>3, Zenon
<1> HIDE DEF done
<1>5. done[0] = s /\ \A k \in 1..m : done[k] = f[done[k - 1]]
  <2> PICK w : w = done
    OBVIOUS
  <2>1. w = [k \in 0..m |-> IF k = 0 THEN s ELSE f[w[k - 1]]]
    BY <1>4 DEF Body
  <2>2. w[0] = s
    BY <1>1, <2>1
  <2>3. \A k \in 1..m : w[k] = f[w[k - 1]]
    BY <1>1, <2>1
  <2> QED
    BY <2>2, <2>3
<1> DEFINE U == {k \in 0..m : done[k] \in G}
<1>6. 0 \in U
  BY <1>1, <1>5
<1>7. \A k \in 1..m : k - 1 \in U => k \in U
  BY <1>1, <1>5
<1> HIDE DEF U
<1>8. 0..m \subseteq U
  BY <1>1, <1>6, <1>7, UpTo
<1>9. m \in U
  BY <1>1, <1>8
<1> QED
  BY <1>2, <1>9 DEF U

\* Back in the line that current_line is the start of.
LEMMA LineStays ==
  ASSUME NEW s \in Good, NEW t \in Good, Lined(s), t.cl = s.cl, t.gs \in s.cl..s.gs,
         \A i \in 0..t.gs - 1 : t.mem[i] = s.mem[i]
  PROVE  Lined(t)
<1>1. /\ s.cl \in Nat /\ s.gs \in Nat /\ s.cl <= s.gs /\ t.gs \in Nat
  BY GoodFields
<1>2. (s.cl = 0 \/ s.mem[s.cl - 1] = NL) /\ \A k \in s.cl..s.gs - 1 : s.mem[k] # NL
  BY DEF Lined, Start
<1>3. s.cl = 0 \/ t.mem[s.cl - 1] = NL
  BY <1>1, <1>2
<1>4. \A k \in s.cl..t.gs - 1 : t.mem[k] # NL
  <2> TAKE k \in s.cl..t.gs - 1
  <2>1. k \in 0..t.gs - 1 /\ k \in s.cl..s.gs - 1
    BY <1>1
  <2> QED
    BY <1>2, <2>1
<1> QED
  BY <1>1, <1>3, <1>4 DEF Lined, Start

\* Moving right within the line.
LEMMA RightInLine ==
  ASSUME NEW s \in Good, NEW n \in 0..LineEnd(s, s.ge) - s.ge
  PROVE  Keeps(Right(s, n), s) /\ n \in 0..Cap - s.ge
<1> PICK e : e = LineEnd(s, s.ge)
  OBVIOUS
<1>f. /\ s.gs \in Nat /\ s.ge \in Nat /\ s.cl \in Nat
      /\ s.gs <= s.ge /\ s.ge <= Cap /\ Cap \in Nat
  BY GoodFields
<1>1. e \in s.ge..Cap /\ \A k \in s.ge..e - 1 : s.mem[k] # NL
  BY <1>f, LineEndIs
<1>2. n \in 0..Cap - s.ge /\ n \in 0..e - s.ge
  BY <1>f, <1>1
<1> PICK t : t = Right(s, n)
  OBVIOUS
<1>3. /\ t \in Good /\ t.gs = s.gs + n /\ t.cl = s.cl
      /\ \A i \in 0..s.gs - 1 : t.mem[i] = s.mem[i]
      /\ \A i \in s.gs..s.gs + n - 1 : t.mem[i] = s.mem[s.ge + i - s.gs]
      /\ Text(t) = Text(s)
  BY <1>2, RightIs
<1>4. ASSUME Lined(s) PROVE Lined(t)
  <2>1. s.cl \in 0..s.gs /\ (s.cl = 0 \/ s.mem[s.cl - 1] = NL) /\ \A k \in s.cl..s.gs - 1 : s.mem[k] # NL
    BY <1>4 DEF Lined, Start
  <2>2. s.cl \in 0..s.gs + n
    BY <1>f, <1>2, <2>1
  <2>3. s.cl = 0 \/ t.mem[s.cl - 1] = NL
    BY <1>f, <1>3, <2>1
  <2>4. \A k \in s.cl..s.gs + n - 1 : t.mem[k] # NL
    <3> TAKE k \in s.cl..s.gs + n - 1
    <3>1. CASE k < s.gs
      <4>1. k \in 0..s.gs - 1 /\ k \in s.cl..s.gs - 1
        BY <1>f, <3>1
      <4> QED
        BY <1>3, <2>1, <4>1
    <3>2. CASE k >= s.gs
      <4>1. k \in s.gs..s.gs + n - 1 /\ s.ge + k - s.gs \in s.ge..e - 1
        BY <1>f, <1>1, <1>2, <3>2
      <4> QED
        BY <1>1, <1>3, <4>1
    <3> QED
      BY <1>f, <1>2, <3>1, <3>2
  <2>5. \A k \in t.cl..t.gs - 1 : t.mem[k] # NL
    <3>1. t.cl = s.cl /\ t.gs = s.gs + n
      BY <1>3
    <3> TAKE k \in t.cl..t.gs - 1
    <3>2. k \in s.cl..s.gs + n - 1
      BY <3>1, <1>f, <1>2
    <3> QED
      BY <2>4, <3>2
  <2>6. t.cl \in 0..t.gs /\ (t.cl = 0 \/ t.mem[t.cl - 1] = NL)
    BY <1>3, <2>2, <2>3
  <2> QED
    BY <2>5, <2>6 DEF Lined, Start
<1> QED
  BY <1>2, <1>3, <1>4 DEF Keeps

\* To the end of the line.
LEMMA EndKeeps ==
  ASSUME NEW s \in Good
  PROVE  /\ Keeps(CursorEnd(s), s) /\ CursorEnd(s).cl = s.cl
         /\ CursorEnd(s).gs >= s.gs
         /\ CursorEnd(s).ge = Cap \/ CursorEnd(s).mem[CursorEnd(s).ge] = NL
<1> PICK e : e = LineEnd(s, s.ge)
  OBVIOUS
<1>f. /\ s.gs \in Nat /\ s.ge \in Nat /\ s.ge <= Cap /\ Cap \in Nat
  BY GoodFields
<1>1. e \in s.ge..Cap /\ (e = Cap \/ s.mem[e] = NL)
  BY <1>f, LineEndIs
<1> PICK n : n = e - s.ge
  OBVIOUS
<1>2. n \in 0..LineEnd(s, s.ge) - s.ge /\ n \in 0..Cap - s.ge /\ s.ge + n = e
  BY <1>f, <1>1
<1>3. CursorEnd(s) = Right(s, n)
  BY DEF CursorEnd
<1> PICK t : t = Right(s, n)
  OBVIOUS
<1>4. Keeps(t, s)
  BY <1>2, RightInLine
<1>5. /\ t.gs = s.gs + n /\ t.ge = s.ge + n /\ t.cl = s.cl
      /\ \A i \in s.ge + n..Cap - 1 : t.mem[i] = s.mem[i]
  BY <1>2, RightIs
<1>6. t.ge = Cap \/ t.mem[t.ge] = NL
  BY <1>1, <1>2, <1>5, <1>f
<1> QED
  BY <1>2, <1>3, <1>4, <1>5, <1>6, <1>f

\* To the right.
LEMMA CursorRightKeeps ==
  ASSUME NEW s \in Good, NEW n \in Nat
  PROVE  Keeps(CursorRight(s, n), s) /\ CursorRight(s, n).cl = s.cl /\ CursorRight(s, n).gs >= s.gs
<1>f. /\ s.gs \in Nat /\ s.ge \in Nat /\ s.ge <= Cap /\ Cap \in Nat
  BY GoodFields
<1> PICK e : e = LineEnd(s, s.ge)
  OBVIOUS
<1>1. e \in s.ge..Cap
  BY <1>f, LineEndIs
<1> PICK k : k = Least(n, e - s.ge)
  OBVIOUS
<1>2. k \in 0..LineEnd(s, s.ge) - s.ge
  <2>1. e - s.ge \in Nat
    BY <1>f, <1>1
  <2>2. k \in Nat /\ k <= e - s.ge
    BY <2>1, LeastIs
  <2> QED
    BY <2>1, <2>2
<1>3. CursorRight(s, n) = Right(s, k)
  BY DEF CursorRight
<1>4. Keeps(Right(s, k), s) /\ k \in 0..Cap - s.ge
  BY <1>2, RightInLine
<1>5. Right(s, k).cl = s.cl /\ Right(s, k).gs = s.gs + k
  BY <1>4, RightIs
<1> QED
  BY <1>3, <1>4, <1>5, <1>f

\* Moving left, not past current_line.
LEMMA LeftInLine ==
  ASSUME NEW s \in Good, NEW n \in 0..s.gs, Lined(s) => n <= s.gs - s.cl
  PROVE  Keeps(Left(s, n), s)
<1>f. /\ s.gs \in Nat /\ s.cl \in Nat
  BY GoodFields
<1> PICK t : t = Left(s, n)
  OBVIOUS
<1>1. /\ t \in Good /\ t.gs = s.gs - n /\ t.cl = s.cl
      /\ \A i \in 0..s.gs - n - 1 : t.mem[i] = s.mem[i]
      /\ Text(t) = Text(s)
  BY LeftIs
<1>2. ASSUME Lined(s) PROVE Lined(t)
  <2>1. s.cl <= s.gs
    BY <1>2, <1>f DEF Lined, Start
  <2>2. t.gs \in s.cl..s.gs
    BY <1>1, <1>2, <1>f
  <2> QED
    BY <1>1, <1>2, <2>2, LineStays
<1> QED
  BY <1>1, <1>2 DEF Keeps

\* To the left.
LEMMA CursorLeftKeeps ==
  ASSUME NEW s \in Good, NEW n \in Nat
  PROVE  Keeps(CursorLeft(s, n), s)
<1>f. /\ s.gs \in 0..Cap /\ s.gs \in Nat /\ s.cl \in Nat
  BY GoodFields
<1> PICK p : p = LineStart(s, s.gs)
  OBVIOUS
<1>1. p \in 0..s.gs
  BY <1>f, LineStartIs DEF Start
<1> PICK k : k = Least(n, s.gs - p)
  OBVIOUS
<1>2. k \in 0..s.gs /\ k <= s.gs - p
  <2>1. s.gs - p \in Nat
    BY <1>f, <1>1
  <2>2. k \in Nat /\ k <= s.gs - p
    BY <2>1, LeastIs
  <2> QED
    BY <1>f, <1>1, <2>2
<1>3. Lined(s) => s.cl = p
  BY LinedIs
<1>4. Keeps(Left(s, k), s)
  BY <1>2, <1>3, LeftInLine
<1> QED
  BY <1>4 DEF CursorLeft

\* To the start of the line, when that is not after the cursor.
LEMMA HomeKeeps ==
  ASSUME NEW s \in Good, s.cl <= s.gs
  PROVE  /\ Keeps(CursorHome(s), s)
         /\ CursorHome(s).cl = s.cl /\ CursorHome(s).gs = s.cl
         /\ CursorHome(s).ge = s.ge - (s.gs - s.cl)
<1>f. /\ s.gs \in Nat /\ s.cl \in Nat /\ s.ge \in Nat
  BY GoodFields
<1> PICK n : n = s.gs - s.cl
  OBVIOUS
<1>1. n \in 0..s.gs /\ n <= s.gs - s.cl
  BY <1>f
<1>2. Keeps(Left(s, n), s)
  BY <1>1, LeftInLine
<1>3. Left(s, n).cl = s.cl /\ Left(s, n).gs = s.gs - n /\ Left(s, n).ge = s.ge - n
  BY <1>1, LeftIs
<1> QED
  BY <1>2, <1>3, <1>f DEF CursorHome

\* The column is a number.
LEMMA ColumnIs ==
  ASSUME NEW s \in Good
  PROVE  Column(s) \in Nat
<1>1. s.gs \in Nat /\ s.cl \in Nat /\ Cap \in Nat
  BY GoodFields
<1> QED
  BY <1>1 DEF Column

\* Over the newline that the gap ends at, to the start of the next line.
LEMMA NewLine ==
  ASSUME NEW s \in Good, s.ge < Cap, s.mem[s.ge] = NL
  PROVE  /\ [Right(s, 1) EXCEPT !.cl = s.gs + 1] \in Good
         /\ Lined([Right(s, 1) EXCEPT !.cl = s.gs + 1])
         /\ Text([Right(s, 1) EXCEPT !.cl = s.gs + 1]) = Text(s)
<1>f. s.gs \in Nat /\ s.ge \in Nat /\ s.gs <= s.ge /\ s.ge <= Cap /\ Cap \in Nat
  BY GoodFields
<1>1. 1 \in 0..Cap - s.ge /\ s.gs \in s.gs..s.gs + 1 - 1 /\ s.ge + s.gs - s.gs = s.ge
  BY <1>f
<1> PICK r : r = Right(s, 1)
  OBVIOUS
<1>2. /\ r \in Good /\ r.gs = s.gs + 1 /\ Text(r) = Text(s)
      /\ \A i \in s.gs..s.gs + 1 - 1 : r.mem[i] = s.mem[s.ge + i - s.gs]
  BY <1>1, RightIs
<1>3. r.mem[s.gs] = NL
  BY <1>1, <1>2
<1> PICK p : p = s.gs + 1
  OBVIOUS
<1>4. p \in 0..Cap
  BY <1>f
<1> PICK d : d = [r EXCEPT !.cl = p]
  OBVIOUS
<1>5. d \in Good /\ d.cl = p /\ d.mem = r.mem /\ d.gs = r.gs /\ Text(d) = Text(r)
  BY <1>2, <1>4, LineSet
<1>6. d.cl \in 0..d.gs /\ d.mem[d.cl - 1] = NL /\ \A k \in d.cl..d.gs - 1 : FALSE
  BY <1>2, <1>3, <1>5, <1>f
<1>7. Lined(d)
  BY <1>6 DEF Lined, Start
<1> QED
  BY <1>2, <1>5, <1>7

\* "j"
LEMMA LineDownKeeps ==
  ASSUME NEW s \in Good
  PROVE  Keeps(LineDown(s), s)
<1> PICK e : e = CursorEnd(s)
  OBVIOUS
<1>1. Keeps(e, s) /\ (e.ge = Cap \/ e.mem[e.ge] = NL)
  BY EndKeeps
<1>2. e \in Good
  BY <1>1 DEF Keeps
<1>3. CASE e.ge = Cap
  BY <1>1, <1>3 DEF LineDown
<1>4. CASE e.ge # Cap
  <2>1. e.ge < Cap
    BY <1>2, <1>4, GoodFields
  <2> PICK d : d = [Right(e, 1) EXCEPT !.cl = e.gs + 1]
    OBVIOUS
  <2>2. d \in Good /\ Lined(d) /\ Text(d) = Text(e)
    BY <1>1, <1>2, <1>4, <2>1, NewLine
  <2> PICK c : c = Column(s)
    OBVIOUS
  <2>3. c \in Nat
    BY ColumnIs
  <2>4. Keeps(CursorRight(d, c), d)
    BY <2>2, <2>3, CursorRightKeeps
  <2>5. LineDown(s) = CursorRight(d, c)
    BY <1>4 DEF LineDown
  <2> QED
    BY <1>1, <2>2, <2>4, <2>5 DEF Keeps
<1> QED
  BY <1>3, <1>4

\* "k", when current_line is not after the cursor.
LEMMA LineUpKeeps ==
  ASSUME NEW s \in Good, s.cl <= s.gs
  PROVE  Keeps(LineUp(s), s) /\ LineUp(s).cl <= LineUp(s).gs
<1> PICK h : h = CursorHome(s)
  OBVIOUS
<1>1. Keeps(h, s) /\ h.cl = s.cl /\ h.gs = s.cl
  BY HomeKeeps
<1>2. h \in Good
  BY <1>1 DEF Keeps
<1>f. h.gs \in Nat /\ h.gs <= Cap /\ Cap \in Nat
  BY <1>2, GoodFields
<1>3. CASE h.gs = 0
  BY <1>1, <1>3, <1>f DEF LineUp
<1>4. CASE h.gs # 0
  <2> PICK i : i = h.gs - 1
    OBVIOUS
  <2> PICK p : p = LineStart(h, i)
    OBVIOUS
  <2>1. i \in 0..Cap
    BY <1>4, <1>f
  <2>2. Start(h.mem, p, i)
    BY <1>2, <2>1, LineStartIs
  <2>3. p \in 0..i /\ (p = 0 \/ h.mem[p - 1] = NL)
    BY <2>2 DEF Start
  <2> PICK n : n = h.gs - p
    OBVIOUS
  <2>4. n \in 0..h.gs /\ h.gs - n = p /\ p \in 0..Cap
    BY <1>4, <1>f, <2>3
  <2> PICK l : l = Left(h, n)
    OBVIOUS
  <2>5. /\ l \in Good /\ l.gs = p /\ Text(l) = Text(h)
        /\ \A j \in 0..p - 1 : l.mem[j] = h.mem[j]
    BY <1>2, <2>4, LeftIs
  <2> PICK u : u = [l EXCEPT !.cl = p]
    OBVIOUS
  <2>6. u \in Good /\ u.cl = p /\ u.mem = l.mem /\ u.gs = p /\ Text(u) = Text(h)
    BY <2>4, <2>5, LineSet
  <2>7. u.cl = 0 \/ u.mem[u.cl - 1] = NL
    BY <2>3, <2>5, <2>6
  <2>8. Lined(u)
    BY <2>3, <2>6, <2>7 DEF Lined, Start
  <2> PICK c : c = Column(s)
    OBVIOUS
  <2>9. c \in Nat
    BY ColumnIs
  <2>10. Keeps(CursorRight(u, c), u) /\ CursorRight(u, c).cl = u.cl /\ CursorRight(u, c).gs >= u.gs
    BY ONLY <2>6, <2>9, CursorRightKeeps
  <2>11. LineUp(s) = CursorRight(u, c)
    BY <1>4 DEF LineUp
  <2>12. CursorRight(u, c).gs \in Nat
    BY <2>10, GoodFields DEF Keeps
  <2> QED
    BY <1>1, <2>3, <2>6, <2>8, <2>10, <2>11, <2>12 DEF Keeps
<1> QED
  BY <1>3, <1>4

\* "w"
LEMMA WordRightKeeps ==
  ASSUME NEW s \in Good
  PROVE  Keeps(WordRight(s), s)
<1>f. s.gs \in Nat /\ s.ge \in Nat /\ s.cl \in Nat /\ s.gs <= s.ge /\ s.ge <= Cap /\ Cap \in Nat
  BY GoodFields
<1>1. CASE s.ge = Cap
  BY <1>1 DEF WordRight, Keeps
<1>2. CASE s.ge # Cap
  <2> DEFINE T == {k \in s.ge + 1..Cap : k = Cap \/ WordBoundary(s.mem[k - 1], s.mem[k])}
  <2>1. T \in SUBSET Nat /\ Cap \in T /\ T \subseteq s.ge + 1..Cap
    BY <1>2, <1>f
  <2> PICK q : q = Min(T)
    OBVIOUS
  <2>2. q \in s.ge + 1..Cap
    BY <2>1, MinIs
  <2> PICK n : n = q - s.ge
    OBVIOUS
  <2>3. n \in 0..Cap - s.ge /\ n \in Nat
    BY <1>f, <2>2
  <2> PICK r : r = Right(s, n)
    OBVIOUS
  <2>4. /\ r \in Good /\ r.gs = s.gs + n /\ r.cl = s.cl /\ Text(r) = Text(s)
        /\ \A i \in 0..s.gs - 1 : r.mem[i] = s.mem[i]
    BY <2>3, RightIs, ZenonT(30)
  <2>5. WordRight(s) = [r EXCEPT !.cl = IF \E i \in s.gs..r.gs - 1 : r.mem[i] = NL
                                        THEN LineStart(r, r.gs) ELSE r.cl]
    BY <1>2 DEF WordRight
  <2>6. CASE \E i \in s.gs..r.gs - 1 : r.mem[i] = NL
    <3> PICK p : p = LineStart(r, r.gs)
      OBVIOUS
    <3>1. r.gs \in 0..Cap /\ r.gs \in Nat
      BY <2>4, GoodFields
    <3>2. Start(r.mem, p, r.gs)
      BY <2>4, <3>1, LineStartIs
    <3>3. p \in 0..Cap
      <4>1. p \in 0..r.gs
        BY <3>2, ZenonT(30) DEF Start
      <4> QED
        BY <1>f, <3>1, <4>1
    <3> PICK w : w = [r EXCEPT !.cl = p]
      OBVIOUS
    <3>4. w \in Good /\ w.cl = p /\ w.mem = r.mem /\ w.gs = r.gs /\ Text(w) = Text(r)
      BY <2>4, <3>3, LineSet, SMTT(30)
    <3>5. Lined(w)
      BY <3>2, <3>4, SMTT(30) DEF Lined
    <3>6. WordRight(s) = w
      BY <2>5, <2>6, ZenonT(30)
    <3> QED
      BY ONLY <2>4, <3>4, <3>5, <3>6 DEF Keeps
  <2>7. CASE ~ \E i \in s.gs..r.gs - 1 : r.mem[i] = NL
    <3>1. WordRight(s) = r
      <4>1. WordRight(s) = [r EXCEPT !.cl = r.cl]
        BY <2>5, <2>7
      <4> QED
        BY <2>4, <4>1 DEF Good, Buffer
    <3>2. ASSUME Lined(s) PROVE Lined(r)
      <4>1. s.cl \in 0..s.gs /\ (s.cl = 0 \/ s.mem[s.cl - 1] = NL) /\ \A k \in s.cl..s.gs - 1 : s.mem[k] # NL
        BY <3>2 DEF Lined, Start
      <4>2. \A k \in r.cl..r.gs - 1 : r.mem[k] # NL
        <5> TAKE k \in r.cl..r.gs - 1
        <5>1. CASE k < s.gs
          <6>1. k \in 0..s.gs - 1 /\ k \in s.cl..s.gs - 1
            BY <1>f, <2>3, <2>4, <5>1
          <6> QED
            BY <2>4, <4>1, <6>1
        <5>2. CASE k >= s.gs
          <6>1. k \in s.gs..r.gs - 1
            BY <1>f, <2>3, <2>4, <5>2
          <6> QED
            BY <2>7, <6>1
        <5> QED
          BY <1>f, <2>3, <2>4, <5>1, <5>2
      <4>3. r.cl \in 0..r.gs
        BY <1>f, <2>3, <2>4, <4>1
      <4>4. r.cl = 0 \/ r.mem[r.cl - 1] = NL
        BY <1>f, <2>4, <4>1
      <4> QED
        BY <4>2, <4>3, <4>4, ZenonT(30) DEF Lined, Start
    <3> QED
      BY <2>4, <3>1, <3>2 DEF Keeps
  <2> QED
    BY <2>6, <2>7
<1> QED
  BY <1>1, <1>2

\* The next line, or the end of the last one.
LEMMA NextLineKeeps ==
  ASSUME NEW s \in Good
  PROVE  Keeps(NextLine(s), s)
<1>f. s.gs \in Nat /\ s.ge \in Nat /\ s.cl \in Nat /\ s.gs <= s.ge /\ s.ge <= Cap /\ Cap \in Nat
  BY GoodFields
<1> PICK e : e = LineEnd(s, s.ge)
  OBVIOUS
<1>1. e \in s.ge..Cap /\ (e = Cap \/ s.mem[e] = NL)
  BY <1>f, LineEndIs
<1>2. CASE e = Cap
  <2> PICK n : n = Cap - s.ge
    OBVIOUS
  <2>1. Least(e + 1, Cap) = Cap
    BY <1>2, <1>f DEF Least
  <2>2. NextLine(s) = Right(s, n)
    BY <1>2, <2>1 DEF NextLine
  <2>3. n \in 0..LineEnd(s, s.ge) - s.ge
    BY <1>2, <1>f
  <2> QED
    BY <2>2, <2>3, RightInLine
<1>3. CASE e # Cap
  <2> PICK n : n = e + 1 - s.ge
    OBVIOUS
  <2>1. Least(e + 1, Cap) = e + 1
    BY <1>1, <1>3, <1>f DEF Least
  <2>2. n \in 0..Cap - s.ge /\ n \in Nat /\ n > 0
    BY <1>1, <1>3, <1>f
  <2> PICK r : r = Right(s, n)
    OBVIOUS
  <2>3. /\ r \in Good /\ r.gs = s.gs + n /\ Text(r) = Text(s)
        /\ \A i \in s.gs..s.gs + n - 1 : r.mem[i] = s.mem[s.ge + i - s.gs]
    BY <2>2, RightIs
  <2>4. r.gs \in 0..Cap
    BY <2>3, GoodFields
  <2> PICK p : p = r.gs
    OBVIOUS
  <2> PICK m : m = [r EXCEPT !.cl = p]
    OBVIOUS
  <2>5. m \in Good /\ m.cl = p /\ m.mem = r.mem /\ m.gs = r.gs /\ Text(m) = Text(r)
    BY <2>3, <2>4, LineSet
  <2>6. NextLine(s) = m
    <3>1. NextLine(s) = [Right(s, Least(e + 1, Cap) - s.ge) EXCEPT
                           !.cl = Right(s, Least(e + 1, Cap) - s.ge).gs]
      BY <1>3 DEF NextLine
    <3>2. Least(e + 1, Cap) - s.ge = n
      BY <1>f, <1>1, <2>1
    <3>3. Right(s, Least(e + 1, Cap) - s.ge) = r
      BY <3>2
    <3> QED
      BY <3>1, <3>3
  <2>7. m.mem[m.cl - 1] = NL
    <3>1. r.gs - 1 \in s.gs..s.gs + n - 1 /\ s.ge + (r.gs - 1) - s.gs = e
      BY <1>1, <1>f, <2>2, <2>3
    <3> QED
      BY <1>1, <1>3, <2>3, <2>5, <3>1
  <2>8. m.cl \in 0..m.gs /\ \A k \in m.cl..m.gs - 1 : FALSE
    BY <2>4, <2>5, <1>f
  <2>9. Lined(m)
    BY <2>7, <2>8 DEF Lined, Start
  <2> QED
    BY <2>3, <2>5, <2>6, <2>9 DEF Keeps
<1> QED
  BY <1>2, <1>3

\* The commands that repeat these.
LEMMA CursorDownKeeps ==
  ASSUME NEW s \in Good, NEW n \in Nat
  PROVE  Keeps(CursorDown(s, n), s)
<1> DEFINE G == {t \in Good : Keeps(t, s)}
           f == [x \in Buffer |-> LineDown(x)]
<1>1. s \in G
  BY DEF Keeps
<1>2. ASSUME NEW t \in G PROVE f[t] \in G
  <2>1. t \in Good /\ t \in Buffer /\ Keeps(t, s)
    BY DEF Good
  <2>2. f[t] = LineDown(t)
    BY <2>1
  <2>3. Keeps(LineDown(t), t)
    BY <2>1, LineDownKeeps
  <2>4. Keeps(LineDown(t), s)
    BY <2>1, <2>3, KeepsOn
  <2>5. LineDown(t) \in Good
    BY <2>4 DEF Keeps
  <2> QED
    BY <2>2, <2>4, <2>5
<1>3. CursorDown(s, n) = Repeat(f, s, n)
  BY DEF CursorDown
<1> HIDE DEF G, f
<1>4. Repeat(f, s, n) \in G
  BY <1>1, <1>2, RepeatKeeps
<1> QED
  BY <1>3, <1>4 DEF G

\* "k", however often, keeps the text, and the start of the line where it was known.
LEMMA CursorUpKeeps ==
  ASSUME NEW s \in Good, s.cl <= s.gs, NEW n \in Nat
  PROVE  Keeps(CursorUp(s, n), s)
<1> DEFINE G == {t \in Good : Keeps(t, s) /\ t.cl <= t.gs}
           f == [x \in Buffer |-> LineUp(x)]
<1>1. s \in G
  BY DEF Keeps
<1>2. ASSUME NEW t \in G PROVE f[t] \in G
  <2>1. t \in Good /\ t \in Buffer /\ Keeps(t, s) /\ t.cl <= t.gs
    BY DEF Good
  <2>2. f[t] = LineUp(t)
    BY <2>1
  <2>3. Keeps(LineUp(t), t) /\ LineUp(t).cl <= LineUp(t).gs
    BY <2>1, LineUpKeeps
  <2>4. Keeps(LineUp(t), s)
    BY <2>1, <2>3, KeepsOn
  <2>5. LineUp(t) \in Good
    BY <2>4 DEF Keeps
  <2> QED
    BY <2>2, <2>3, <2>4, <2>5
<1>3. CursorUp(s, n) = Repeat(f, s, n)
  BY DEF CursorUp
<1> HIDE DEF G, f
<1>4. Repeat(f, s, n) \in G
  BY <1>1, <1>2, RepeatKeeps
<1> QED
  BY <1>3, <1>4 DEF G

\* And "w".
LEMMA CursorWordRightKeeps ==
  ASSUME NEW s \in Good, NEW n \in Nat
  PROVE  Keeps(CursorWordRight(s, n), s)
<1> DEFINE G == {t \in Good : Keeps(t, s)}
           f == [x \in Buffer |-> WordRight(x)]
<1>1. s \in G
  BY DEF Keeps
<1>2. ASSUME NEW t \in G PROVE f[t] \in G
  <2>1. t \in Good /\ t \in Buffer /\ Keeps(t, s)
    BY DEF Good
  <2>2. f[t] = WordRight(t)
    BY <2>1
  <2>3. Keeps(WordRight(t), t)
    BY <2>1, WordRightKeeps
  <2>4. Keeps(WordRight(t), s)
    BY <2>1, <2>3, KeepsOn
  <2>5. WordRight(t) \in Good
    BY <2>4 DEF Keeps
  <2> QED
    BY <2>2, <2>4, <2>5
<1>3. CursorWordRight(s, n) = Repeat(f, s, n)
  BY DEF CursorWordRight
<1> HIDE DEF G, f
<1>4. Repeat(f, s, n) \in G
  BY <1>1, <1>2, RepeatKeeps
<1> QED
  BY <1>3, <1>4 DEF G

\* Going to a line finds current_line anew, wherever it was.
LEMMA GotoLineKeeps ==
  ASSUME NEW s \in Good, NEW n \in Nat \ {0}
  PROVE  GotoLine(s, n) \in Good /\ Text(GotoLine(s, n)) = Text(s) /\ Lined(GotoLine(s, n))
<1> PICK m : m = n - 1
  OBVIOUS
<1>0. m \in Nat /\ s.gs \in 0..s.gs /\ s.gs \in Nat /\ 0 \in 0..Cap
  BY GoodFields
<1> PICK g : g = s.gs
  OBVIOUS
<1> PICK l : l = Left(s, g)
  OBVIOUS
<1>1. l \in Good /\ l.gs = 0 /\ Text(l) = Text(s)
  <2>1. l.gs = s.gs - g
    BY <1>0, LeftIs
  <2> QED
    BY <1>0, <2>1, LeftIs
<1> PICK z : z = [l EXCEPT !.cl = 0]
  OBVIOUS
<1>2. z \in Good /\ z.cl = 0 /\ z.gs = 0 /\ Text(z) = Text(s)
  BY <1>0, <1>1, LineSet
<1>3. Lined(z)
  BY <1>2 DEF Lined, Start
<1> DEFINE G == {t \in Good : Keeps(t, z)}
           f == [x \in Buffer |-> NextLine(x)]
<1>4. z \in G
  BY <1>2 DEF Keeps
<1>5. ASSUME NEW t \in G PROVE f[t] \in G
  <2>1. t \in Good /\ t \in Buffer /\ Keeps(t, z)
    BY DEF Good
  <2>2. f[t] = NextLine(t)
    BY <2>1
  <2>3. Keeps(NextLine(t), t)
    BY <2>1, NextLineKeeps
  <2>4. Keeps(NextLine(t), z)
    BY <2>1, <2>3, KeepsOn
  <2>5. NextLine(t) \in Good
    BY <2>4 DEF Keeps
  <2> QED
    BY <2>2, <2>4, <2>5
<1>6. GotoLine(s, n) = Repeat(f, z, m)
  BY DEF GotoLine
<1> HIDE DEF G, f
<1>7. Repeat(f, z, m) \in G
  BY <1>0, <1>4, <1>5, RepeatKeeps
<1> QED
  BY <1>2, <1>3, <1>6, <1>7 DEF G, Keeps

\* "b" leaves a buffer, whatever it does to the text.
LEMMA WordLeftGood ==
  ASSUME NEW s \in Good, s.gs # 0
  PROVE  /\ WordLeft(s).b \in Good /\ WordLeft(s).go \in BOOLEAN
         /\ WordLeft(s).go => WordLeft(s).b.gs # 0
<1>f. /\ s.mem \in [0..Cap - 1 -> Char] /\ s.gs \in Nat /\ s.ge \in Nat /\ s.cl \in Nat
      /\ s.gs <= s.ge /\ s.ge <= Cap /\ Cap \in Nat
  BY GoodFields
<1> PICK r : r = s.mem[s.ge - 1]
  OBVIOUS
<1>1. r \in Char /\ s.gs - 1 \in 0..Cap - 1
  BY <1>f
<1> PICK m : m = [s.mem EXCEPT ![s.gs - 1] = r]
  OBVIOUS
<1>2. m \in [0..Cap - 1 -> Char]
  BY <1>f, <1>1
<1> PICK g, e : g = s.gs - 1 /\ e = s.ge - 1
  OBVIOUS
<1>3. g \in Index /\ e \in Index /\ g <= e
  BY <1>f DEF Index
<1> PICK n : n = [s EXCEPT !.gs = g, !.ge = e, !.mem = m]
  OBVIOUS
<1>4. s \in Buffer
  BY DEF Good
<1>5. n.gs = g /\ n.ge = e
  BY ONLY <1>4, n = [s EXCEPT !.gs = g, !.ge = e, !.mem = m] DEF Buffer
<1>6. n \in Buffer
  BY ONLY <1>2, <1>3, <1>4, n = [s EXCEPT !.gs = g, !.ge = e, !.mem = m] DEF Buffer
<1>7. n \in Good
  BY <1>3, <1>5, <1>6 DEF Good
<1>8. n = [s EXCEPT !.gs = @ - 1, !.ge = @ - 1, !.mem[s.gs - 1] = r]
  BY <1>4 DEF Buffer
<1>9. WordLeft(s) = [b |-> n, byte |-> r, go |-> n.gs # 0 /\ ~WordBoundary(n.mem[n.gs - 1], r)]
  BY <1>8, Zenon DEF WordLeft
<1>10. WordLeft(s).b = n /\ WordLeft(s).go = (n.gs # 0 /\ ~WordBoundary(n.mem[n.gs - 1], r))
  BY <1>9
<1>11. WordLeft(s).go \in BOOLEAN
  BY <1>10
<1>12. WordLeft(s).go => n.gs # 0
  BY <1>10
<1> QED
  BY <1>7, <1>10, <1>11, <1>12

\* "b" copies bytes the wrong way, but its gap stays in the buffer.
LEMMA WordsLeftGood ==
  ASSUME NEW s \in Good
  PROVE  WordsLeft(s) \in Good
<1> DEFINE G == {x \in WordWalk : x.b \in Good /\ (x.go => x.b.gs # 0)}
           f == [x \in WordWalk |-> WordLeftOn(x)]
           z == [b |-> s, newline |-> FALSE, go |-> s.gs # 0]
<1>1. z \in G
  <2>1. z \in WordWalk
    BY DEF WordWalk, Good
  <2>2. z.b = s /\ z.go = (s.gs # 0)
    OBVIOUS
  <2> HIDE DEF z
  <2> QED
    BY <2>1, <2>2
<1>2. ASSUME NEW x \in G PROVE f[x] \in G
  <2>1. x \in WordWalk /\ x.b \in Good /\ (x.go => x.b.gs # 0) /\ f[x] = WordLeftOn(x)
    OBVIOUS
  <2>2. CASE ~x.go
    <3>1. WordLeftOn(x) = x
      BY <2>2, Zenon DEF WordLeftOn
    <3> QED
      BY <2>1, <3>1
  <2>3. CASE x.go
    <3> PICK l : l = WordLeft(x.b)
      OBVIOUS
    <3>1. l.b \in Good /\ l.go \in BOOLEAN /\ (l.go => l.b.gs # 0)
      BY <2>1, <2>3, WordLeftGood
    <3> PICK y : y = WordLeftOn(x)
      OBVIOUS
    <3>2. y = [b |-> l.b, newline |-> x.newline \/ l.byte = NL, go |-> l.go]
      BY <2>3, Zenon DEF WordLeftOn
    <3>3. y.b = l.b /\ y.go = l.go
      BY <3>2
    <3>4. l.b \in Buffer /\ (x.newline \/ l.byte = NL) \in BOOLEAN
      BY <3>1 DEF Good
    <3>5. y \in WordWalk
      BY <3>1, <3>2, <3>4 DEF WordWalk
    <3>6. y \in G
      BY <3>1, <3>3, <3>5
    <3> QED
      BY <2>1, <3>6
  <2> QED
    BY <2>2, <2>3
<1> PICK e : e = Repeat(f, z, s.gs)
  OBVIOUS
<1>3. WordsLeft(s) = IF e.newline THEN [e.b EXCEPT !.cl = LineStart(e.b, e.b.gs)] ELSE e.b
  BY Zenon DEF WordsLeft
<1>4. s.gs \in Nat
  BY GoodFields
<1> HIDE DEF G, f, z
<1>5. e \in G
  BY <1>1, <1>2, <1>4, RepeatKeeps
<1> PICK c : c = e.b
  OBVIOUS
<1>6. c \in Good
  BY <1>5 DEF G
<1>7. c.gs \in 0..Cap /\ c.gs \in Nat /\ Cap \in Nat
  BY <1>6, GoodFields
<1> PICK p : p = LineStart(c, c.gs)
  OBVIOUS
<1>8. p \in 0..c.gs
  BY <1>6, <1>7, LineStartIs DEF Start
<1>9. p \in 0..Cap
  BY <1>7, <1>8
<1>10. [c EXCEPT !.cl = p] \in Good
  BY <1>6, <1>9, LineSet
<1> QED
  BY <1>3, <1>6, <1>10

\* However often it is repeated.
LEMMA CursorWordLeftGood ==
  ASSUME NEW s \in Good, NEW n \in Nat
  PROVE  CursorWordLeft(s, n) \in Good
<1> DEFINE f == [x \in Buffer |-> WordsLeft(x)]
<1>1. ASSUME NEW t \in Good PROVE f[t] \in Good
  <2>1. t \in Buffer
    BY DEF Good
  <2>2. f[t] = WordsLeft(t)
    BY <2>1
  <2> QED
    BY <2>2, WordsLeftGood
<1>2. CursorWordLeft(s, n) = Repeat(f, s, n)
  BY DEF CursorWordLeft
<1> HIDE DEF f
<1> QED
  BY <1>1, <1>2, RepeatKeeps

-----------------------------------------------------------------------------
(* Commands that change the text *)

\* A buffer is left, and current_line is right if it was.
Sound(t, s) == t \in Good /\ (Lined(s) => Lined(t))

\* A sound change of a sound change is sound.
LEMMA SoundOn ==
  ASSUME NEW r, NEW s, NEW t, Sound(s, r), Sound(t, s)
  PROVE  Sound(t, r)
BY DEF Sound

\* What keeps the text is sound.
LEMMA KeepsSound ==
  ASSUME NEW s, NEW t, Keeps(t, s)
  PROVE  Sound(t, s)
BY DEF Keeps, Sound

\* The end of the gap moves.
LEMMA GapEnd ==
  ASSUME NEW s \in Good, NEW e \in s.gs..Cap
  PROVE  /\ Sound([s EXCEPT !.ge = e], s)
         /\ [s EXCEPT !.ge = e].ge = e /\ [s EXCEPT !.ge = e].gs = s.gs
         /\ [s EXCEPT !.ge = e].cl = s.cl /\ [s EXCEPT !.ge = e].mem = s.mem
<1>1. s \in Buffer /\ e \in Index /\ s.gs <= e
  BY GoodFields DEF Good, Index
<1> PICK t : t = [s EXCEPT !.ge = e]
  OBVIOUS
<1>2. t.ge = e /\ t.gs = s.gs /\ t.cl = s.cl /\ t.mem = s.mem
  BY ONLY <1>1, t = [s EXCEPT !.ge = e] DEF Buffer
<1>3. t \in Buffer
  BY ONLY <1>1, t = [s EXCEPT !.ge = e] DEF Buffer
<1>4. t \in Good
  BY <1>1, <1>2, <1>3 DEF Good
<1>5. Lined(s) => Lined(t)
  BY <1>2 DEF Lined
<1> QED
  BY <1>2, <1>4, <1>5 DEF Sound

\* A byte is put into the memory: in the gap or after it that does not touch the
\* line before the cursor.
LEMMA BytePut ==
  ASSUME NEW s \in Good, NEW i \in s.gs..Cap - 1, NEW c \in Char
  PROVE  /\ Sound([s EXCEPT !.mem[i] = c], s)
         /\ [s EXCEPT !.mem[i] = c].ge = s.ge /\ [s EXCEPT !.mem[i] = c].gs = s.gs
         /\ [s EXCEPT !.mem[i] = c].cl = s.cl /\ [s EXCEPT !.mem[i] = c].mem[i] = c
         /\ \A k \in 0..s.gs - 1 : [s EXCEPT !.mem[i] = c].mem[k] = s.mem[k]
<1>f. /\ s.mem \in [0..Cap - 1 -> Char] /\ s.gs \in Nat /\ s.ge \in Nat /\ s.cl \in Nat
      /\ s.gs <= s.ge /\ s.ge <= Cap /\ Cap \in Nat
  BY GoodFields
<1> PICK m : m = [s.mem EXCEPT ![i] = c]
  OBVIOUS
<1>1. i \in 0..Cap - 1
  BY <1>f
<1>2. m \in [0..Cap - 1 -> Char] /\ m[i] = c
  BY <1>f, <1>1
<1>3. \A k \in 0..s.gs - 1 : m[k] = s.mem[k]
  BY <1>f, <1>1
<1>4. s \in Buffer
  BY DEF Good
<1> PICK t : t = [s EXCEPT !.mem = m]
  OBVIOUS
<1>5. t.ge = s.ge /\ t.gs = s.gs /\ t.cl = s.cl /\ t.mem = m
  BY ONLY <1>4, t = [s EXCEPT !.mem = m] DEF Buffer
<1>6. t \in Buffer
  BY ONLY <1>2, <1>4, t = [s EXCEPT !.mem = m] DEF Buffer
<1>7. t = [s EXCEPT !.mem[i] = c]
  BY <1>4 DEF Buffer
<1>8. t \in Good
  BY <1>f, <1>5, <1>6 DEF Good
<1>9. ASSUME Lined(s) PROVE Lined(t)
  <2>1. s.cl <= s.gs
    BY <1>9, <1>f DEF Lined, Start
  <2>2. t.gs \in s.cl..s.gs /\ \A k \in 0..t.gs - 1 : t.mem[k] = s.mem[k]
    BY <1>f, <1>3, <1>5, <2>1
  <2> QED
    BY <1>5, <1>8, <1>9, <2>2, LineStays
<1> QED
  BY <1>2, <1>3, <1>5, <1>7, <1>8, <1>9 DEF Sound

\* A character that is typed.
LEMMA InsertCharIs ==
  ASSUME NEW s \in Good, s.gs # s.ge, NEW c \in Char
  PROVE  /\ InsertChar(s, c) \in Good
         /\ InsertChar(s, c).gs = s.gs + 1 /\ InsertChar(s, c).mem[s.gs] = c
         /\ InsertChar(s, c).cl = s.cl
         /\ \A k \in 0..s.gs - 1 : InsertChar(s, c).mem[k] = s.mem[k]
         /\ c # NL /\ Lined(s) => Lined(InsertChar(s, c))
<1>f. /\ s.mem \in [0..Cap - 1 -> Char] /\ s.gs \in Nat /\ s.ge \in Nat /\ s.cl \in Nat
      /\ s.gs <= s.ge /\ s.ge <= Cap /\ Cap \in Nat
  BY GoodFields
<1>0. s.gs \in s.gs..Cap - 1
  BY <1>f
<1> PICK r : r = [s EXCEPT !.mem[s.gs] = c]
  OBVIOUS
<1>1. /\ r \in Good /\ (Lined(s) => Lined(r)) /\ r.ge = s.ge /\ r.gs = s.gs
      /\ r.cl = s.cl /\ r.mem[s.gs] = c /\ \A k \in 0..s.gs - 1 : r.mem[k] = s.mem[k]
  BY <1>0, BytePut DEF Sound
<1> PICK g : g = s.gs + 1
  OBVIOUS
<1>2. g \in Index /\ g <= r.ge
  BY <1>f, <1>1 DEF Index
<1> PICK t : t = [r EXCEPT !.gs = g]
  OBVIOUS
<1>3. r \in Buffer
  BY <1>1 DEF Good
<1>4. t.ge = r.ge /\ t.gs = g /\ t.cl = r.cl /\ t.mem = r.mem
  BY ONLY <1>3, t = [r EXCEPT !.gs = g] DEF Buffer
<1>5. t \in Buffer
  BY ONLY <1>2, <1>3, t = [r EXCEPT !.gs = g] DEF Buffer
<1>6. t \in Good
  BY <1>2, <1>4, <1>5 DEF Good
<1>9. \A k \in 0..s.gs - 1 : t.mem[k] = s.mem[k]
  BY <1>1, <1>4
<1>7. t = InsertChar(s, c)
  <2>1. s \in Buffer
    BY DEF Good
  <2> QED
    BY <2>1 DEF InsertChar, Buffer
<1>8. ASSUME c # NL, Lined(s) PROVE Lined(t)
  <2>1. r.cl \in 0..s.gs /\ (r.cl = 0 \/ r.mem[r.cl - 1] = NL) /\ \A k \in r.cl..s.gs - 1 : r.mem[k] # NL
    BY <1>1, <1>8 DEF Lined, Start
  <2>2. \A k \in r.cl..g - 1 : r.mem[k] # NL
    <3> TAKE k \in r.cl..g - 1
    <3>1. k = s.gs \/ k \in r.cl..s.gs - 1
      BY <1>f, <2>1
    <3> QED
      BY <1>1, <1>8, <2>1, <3>1
  <2>3. r.cl \in 0..g
    BY <1>f, <2>1
  <2> QED
    BY <1>4, <2>1, <2>2, <2>3 DEF Lined, Start
<1> QED
  <2> PICK u : u = InsertChar(s, c)
    OBVIOUS
  <2>1. u = t
    BY <1>7
  <2>2. u \in Good /\ u.gs = s.gs + 1 /\ u.mem[s.gs] = c /\ u.cl = s.cl
    BY <1>1, <1>4, <1>6, <2>1
  <2>3. \A k \in 0..s.gs - 1 : u.mem[k] = s.mem[k]
    BY <1>9, <2>1
  <2>4. c # NL /\ Lined(s) => Lined(u)
    BY <1>8, <2>1
  <2> QED
    BY <2>2, <2>3, <2>4

\* Drawing ends inside the memory.
LEMMA DrawLineIn ==
  ASSUME NEW s \in Good, NEW i \in 0..Cap
  PROVE  DrawLine(s, i) \in 0..Cap
<1> DEFINE T == {k \in i..s.gs - 1 : s.mem[k] = NL}
<1>f. s.gs \in Nat /\ s.ge \in Nat /\ s.gs <= s.ge /\ s.ge <= Cap /\ Cap \in Nat
  BY GoodFields
<1>1. CASE T # {}
  <2>1. T \in SUBSET Nat
    BY <1>f
  <2>2. Min(T) \in T
    BY <1>1, <2>1, MinIs
  <2>3. DrawLine(s, i) = Min(T) + 1
    BY <1>1 DEF DrawLine
  <2> QED
    BY <1>f, <2>2, <2>3
<1>2. CASE T = {}
  <2> PICK j : j = IF i <= s.gs THEN s.ge ELSE i
    OBVIOUS
  <2>1. j \in 0..Cap
    BY <1>f
  <2> PICK e : e = LineEnd(s, j)
    OBVIOUS
  <2>2. e \in 0..Cap
    BY <2>1, LineEndIs
  <2>3. DrawLine(s, i) = Least(e + 1, Cap)
    BY <1>2 DEF DrawLine
  <2> QED
    BY <1>f, <2>2, <2>3 DEF Least
<1> QED
  BY <1>1, <1>2

\* Drawing the line before the cursor ends behind the newline that was typed there.
LEMMA DrawLineTo ==
  ASSUME NEW s \in Good, NEW g \in Nat, s.gs = g + 1, s.mem[g] = NL, Start(s.mem, s.cl, g)
  PROVE  DrawLine(s, s.cl) = g + 1
<1> PICK m, c, i : m = s.mem /\ c = s.cl /\ i = s.gs
  OBVIOUS
<1> DEFINE T == {k \in c..i - 1 : m[k] = NL}
<1>1. c \in 0..g /\ \A k \in c..g - 1 : m[k] # NL
  BY DEF Start
<1>2. T \in SUBSET Nat /\ g \in T
  BY <1>1
<1>3. Min(T) \in T /\ Min(T) <= g
  BY <1>2, MinIs
<1>4. Min(T) = g
  BY <1>1, <1>3
<1>5. DrawLine(s, s.cl) = Min(T) + 1
  BY <1>2 DEF DrawLine
<1> QED
  BY <1>4, <1>5

\* A newline that is typed begins a line.
LEMMA InsertNewlineIs ==
  ASSUME NEW s \in Good, s.gs # s.ge
  PROVE  InsertNewline(s) \in Good /\ (Lined(s) => Lined(InsertNewline(s)))
<1>f. s.gs \in Nat /\ s.ge \in Nat /\ s.gs <= s.ge /\ s.ge <= Cap /\ Cap \in Nat
  BY GoodFields
<1>0. NL \in Char
  BY DEF Char
<1> PICK r : r = InsertChar(s, NL)
  OBVIOUS
<1>1. r \in Good /\ r.gs = s.gs + 1 /\ r.mem[s.gs] = NL /\ r.cl = s.cl
      /\ \A k \in 0..s.gs - 1 : r.mem[k] = s.mem[k]
  BY <1>0, InsertCharIs
<1> PICK p : p = DrawLine(r, r.cl)
  OBVIOUS
<1>2. p \in 0..Cap
  <2>1. r.cl \in 0..Cap
    BY <1>1, GoodFields DEF Good, Buffer, Index
  <2> QED
    BY <1>1, <2>1, DrawLineIn
<1> PICK t : t = [r EXCEPT !.cl = p]
  OBVIOUS
<1>3. t \in Good /\ t.cl = p /\ t.mem = r.mem /\ t.gs = r.gs
  BY <1>1, <1>2, LineSet
<1>4. ASSUME Lined(s) PROVE Lined(t)
  <2>1. s.cl \in 0..s.gs /\ (s.cl = 0 \/ s.mem[s.cl - 1] = NL) /\ \A k \in s.cl..s.gs - 1 : s.mem[k] # NL
    BY <1>4 DEF Lined, Start
  <2>2. Start(r.mem, r.cl, s.gs)
    <3>1. \A k \in s.cl..s.gs - 1 : r.mem[k] # NL
      BY <1>f, <1>1, <2>1
    <3>2. s.cl = 0 \/ r.mem[s.cl - 1] = NL
      BY <1>f, <1>1, <2>1
    <3> QED
      BY <1>1, <2>1, <3>1, <3>2 DEF Start
  <2>3. p = s.gs + 1
    BY <1>f, <1>1, <2>2, DrawLineTo
  <2>4. t.cl \in 0..t.gs /\ t.mem[t.cl - 1] = NL /\ \A k \in t.cl..t.gs - 1 : FALSE
    BY <1>f, <1>1, <1>3, <2>3
  <2> QED
    BY <2>4 DEF Lined, Start
<1>5. InsertNewline(s) = t
  BY DEF InsertNewline
<1> QED
  BY <1>3, <1>4, <1>5

\* Backspace, where it does not run away.
LEMMA BackspaceIs ==
  ASSUME NEW s \in Good, ~BackspaceRunsAway(s)
  PROVE  Sound(Backspace(s), s)
<1>f. s.gs \in Nat /\ s.ge \in Nat /\ s.cl \in Nat /\ s.gs <= s.ge /\ s.ge <= Cap /\ Cap \in Nat
  BY GoodFields
<1>1. CASE s.gs = s.cl
  BY <1>1 DEF Backspace, Sound
<1>2. CASE s.gs # s.cl
  <2> PICK g : g = s.gs - 1
    OBVIOUS
  <2>1. g \in Index /\ g <= s.ge /\ g \in Nat
    BY <1>2, <1>f DEF Index, BackspaceRunsAway
  <2> PICK t : t = [s EXCEPT !.gs = g]
    OBVIOUS
  <2>2. s \in Buffer
    BY DEF Good
  <2>3. t.ge = s.ge /\ t.gs = g /\ t.cl = s.cl /\ t.mem = s.mem
    BY ONLY <2>2, t = [s EXCEPT !.gs = g] DEF Buffer
  <2>4. t \in Buffer
    BY ONLY <2>1, <2>2, t = [s EXCEPT !.gs = g] DEF Buffer
  <2>5. t \in Good
    BY <2>1, <2>3, <2>4 DEF Good
  <2>6. Backspace(s) = t
    BY <1>2 DEF Backspace
  <2>7. ASSUME Lined(s) PROVE Lined(t)
    <3>1. s.cl <= s.gs
      BY <2>7, <1>f DEF Lined, Start
    <3>2. t.gs \in s.cl..s.gs /\ \A k \in 0..t.gs - 1 : t.mem[k] = s.mem[k]
      BY <1>f, <1>2, <2>1, <2>3, <3>1
    <3> QED
      BY <2>3, <2>5, <2>7, <3>2, LineStays
  <2> QED
    BY <2>5, <2>6, <2>7 DEF Sound
<1> QED
  BY <1>1, <1>2

\* R types over the byte at the cursor, unless that is a newline.
LEMMA OverwrittenIs ==
  ASSUME NEW s \in Good
  PROVE  Sound(Overwritten(s), s) /\ (s.gs # s.ge => Overwritten(s).gs # Overwritten(s).ge)
<1>f. s.gs \in Nat /\ s.ge \in Nat /\ s.cl \in Nat /\ s.gs <= s.ge /\ s.ge <= Cap /\ Cap \in Nat
  BY GoodFields
<1>1. CASE Byte(s, s.ge) = NL
  BY <1>1 DEF Overwritten, Sound
<1>2. CASE Byte(s, s.ge) # NL
  <2>1. s.ge # Cap
    BY <1>2 DEF Byte
  <2> PICK e : e = s.ge + 1
    OBVIOUS
  <2>2. e \in s.gs..Cap
    BY <1>f, <2>1
  <2>3. Overwritten(s) = [s EXCEPT !.ge = e]
    BY <1>2 DEF Overwritten
  <2>4. Sound([s EXCEPT !.ge = e], s) /\ [s EXCEPT !.ge = e].ge = e /\ [s EXCEPT !.ge = e].gs = s.gs
    BY <2>2, GapEnd
  <2> QED
    BY <1>f, <2>3, <2>4
<1> QED
  BY <1>1, <1>2

\* "x"
LEMMA DeleteRightIs ==
  ASSUME NEW s \in Good, NEW n \in Nat
  PROVE  Sound(DeleteRight(s, n), s)
<1>f. s.gs \in Nat /\ s.ge \in Nat /\ s.gs <= s.ge /\ s.ge <= Cap /\ Cap \in Nat
  BY GoodFields
<1> PICK e : e = Least(s.ge + n, Cap)
  OBVIOUS
<1>1. e \in s.gs..Cap
  BY <1>f DEF Least
<1>2. DeleteRight(s, n) = [s EXCEPT !.ge = e]
  BY DEF DeleteRight
<1> QED
  BY <1>1, <1>2, GapEnd

\* "D"
LEMMA DeleteRestIs ==
  ASSUME NEW s \in Good
  PROVE  /\ Sound(DeleteRestOfLine(s), s)
         /\ DeleteRestOfLine(s).cl = s.cl /\ DeleteRestOfLine(s).gs = s.gs
         /\ DeleteRestOfLine(s).mem = s.mem
         /\ DeleteRestOfLine(s).ge = IF s.ge = Cap THEN Cap ELSE LineEnd(s, s.ge + 1)
<1>f. s.gs \in Nat /\ s.ge \in Nat /\ s.gs <= s.ge /\ s.ge <= Cap /\ Cap \in Nat
  BY GoodFields
<1>1. CASE s.ge = Cap
  BY <1>1 DEF DeleteRestOfLine, Sound
<1>2. CASE s.ge # Cap
  <2> PICK i : i = s.ge + 1
    OBVIOUS
  <2>1. i \in 0..Cap
    BY <1>2, <1>f
  <2> PICK e : e = LineEnd(s, i)
    OBVIOUS
  <2>2. e \in i..Cap
    BY <2>1, LineEndIs
  <2>3. e \in s.gs..Cap
    BY <1>f, <2>1, <2>2
  <2>4. DeleteRestOfLine(s) = [s EXCEPT !.ge = e]
    BY <1>2 DEF DeleteRestOfLine
  <2> QED
    BY <1>2, <2>3, <2>4, GapEnd
<1> QED
  BY <1>1, <1>2

\* "dd" takes a line, when current_line is not after the cursor.
LEMMA LineDeletedIs ==
  ASSUME NEW s \in Good, s.cl <= s.gs
  PROVE  Sound(LineDeleted(s), s) /\ LineDeleted(s).cl <= LineDeleted(s).gs
<1> PICK h : h = CursorHome(s)
  OBVIOUS
<1>1. Keeps(h, s) /\ h.cl = s.cl /\ h.gs = s.cl
  BY HomeKeeps
<1>2. h \in Good /\ Sound(h, s)
  BY <1>1, KeepsSound DEF Keeps
<1> PICK d : d = DeleteRestOfLine(h)
  OBVIOUS
<1>3. Sound(d, h) /\ d.cl = h.cl /\ d.gs = h.gs
  BY <1>2, DeleteRestIs
<1>4. d \in Good /\ Sound(d, s)
  BY <1>2, <1>3, SoundOn DEF Sound
<1>f. d.gs \in Nat /\ d.ge \in Nat /\ d.gs <= d.ge /\ d.ge <= Cap /\ Cap \in Nat
  BY <1>4, GoodFields
<1>5. CASE d.ge = Cap
  <2>1. LineDeleted(s) = d
    BY <1>5 DEF LineDeleted
  <2> QED
    BY <1>1, <1>3, <1>4, <2>1, <1>f
<1>6. CASE d.ge # Cap
  <2> PICK e : e = d.ge + 1
    OBVIOUS
  <2>1. e \in d.gs..Cap
    BY <1>6, <1>f
  <2> PICK t : t = [d EXCEPT !.ge = e]
    OBVIOUS
  <2>2. Sound(t, d) /\ t.gs = d.gs /\ t.cl = d.cl
    BY <1>4, <2>1, GapEnd
  <2>3. LineDeleted(s) = t
    BY <1>6 DEF LineDeleted
  <2>4. Sound(t, s)
    BY <1>4, <2>2, SoundOn
  <2> QED
    BY <1>1, <1>3, <1>f, <2>2, <2>3, <2>4
<1> QED
  BY <1>5, <1>6

\* "dd", however often, leaves a buffer whose current_line is as good as before.
LEMMA DeleteLineIs ==
  ASSUME NEW s \in Good, s.cl <= s.gs, NEW n \in Nat
  PROVE  Sound(DeleteLine(s, n), s)
<1> DEFINE G == {t \in Good : Sound(t, s) /\ t.cl <= t.gs}
           f == [x \in Buffer |-> LineDeleted(x)]
<1>1. s \in G
  BY DEF Sound
<1>2. ASSUME NEW t \in G PROVE f[t] \in G
  <2>1. t \in Good /\ t \in Buffer /\ Sound(t, s) /\ t.cl <= t.gs
    BY DEF Good
  <2>2. f[t] = LineDeleted(t)
    BY <2>1
  <2>3. Sound(LineDeleted(t), t) /\ LineDeleted(t).cl <= LineDeleted(t).gs
    BY <2>1, LineDeletedIs
  <2>4. Sound(LineDeleted(t), s)
    BY <2>1, <2>3, SoundOn
  <2>5. LineDeleted(t) \in Good
    BY <2>4 DEF Sound
  <2> QED
    BY <2>2, <2>3, <2>4, <2>5
<1>3. DeleteLine(s, n) = Repeat(f, s, n)
  BY DEF DeleteLine
<1> HIDE DEF G, f
<1>4. Repeat(f, s, n) \in G
  BY <1>1, <1>2, RepeatKeeps
<1> QED
  BY <1>3, <1>4 DEF G

\* "dw" and "cw"
LEMMA WordDeletedIs ==
  ASSUME NEW s \in Good
  PROVE  Sound(WordDeleted(s), s)
<1>f. s.gs \in Nat /\ s.ge \in Nat /\ s.gs <= s.ge /\ s.ge <= Cap /\ Cap \in Nat
  BY GoodFields
<1>1. CASE s.ge = Cap
  BY <1>1 DEF WordDeleted, Sound
<1>2. CASE s.ge # Cap
  <2> DEFINE T == {k \in s.ge + 1..Cap : Byte(s, k) = NL \/ WordBoundary(Before(s, k), s.mem[k])}
  <2>1. Byte(s, Cap) = NL
    BY DEF Byte
  <2>2. Cap \in T /\ T \in SUBSET Nat /\ T \subseteq s.ge + 1..Cap
    BY <1>2, <1>f, <2>1
  <2> PICK e : e = Min(T)
    OBVIOUS
  <2>3. e \in s.ge + 1..Cap
    BY <2>2, MinIs
  <2>4. e \in s.gs..Cap
    BY <1>f, <2>3
  <2>5. WordDeleted(s) = [s EXCEPT !.ge = e]
    BY <1>2 DEF WordDeleted
  <2> QED
    BY <2>4, <2>5, GapEnd
<1> QED
  BY <1>1, <1>2

\* And "dw".
LEMMA DeleteWordIs ==
  ASSUME NEW s \in Good, NEW n \in Nat
  PROVE  Sound(DeleteWord(s, n), s)
<1> DEFINE G == {t \in Good : Sound(t, s)}
           f == [x \in Buffer |-> WordDeleted(x)]
<1>1. s \in G
  BY DEF Sound
<1>2. ASSUME NEW t \in G PROVE f[t] \in G
  <2>1. t \in Good /\ t \in Buffer /\ Sound(t, s)
    BY DEF Good
  <2>2. f[t] = WordDeleted(t)
    BY <2>1
  <2>3. Sound(WordDeleted(t), t)
    BY <2>1, WordDeletedIs
  <2>4. Sound(WordDeleted(t), s)
    BY <2>1, <2>3, SoundOn
  <2>5. WordDeleted(t) \in Good
    BY <2>4 DEF Sound
  <2> QED
    BY <2>2, <2>4, <2>5
<1>3. DeleteWord(s, n) = Repeat(f, s, n)
  BY DEF DeleteWord
<1> HIDE DEF G, f
<1>4. Repeat(f, s, n) \in G
  BY <1>1, <1>2, RepeatKeeps
<1> QED
  BY <1>3, <1>4 DEF G

\* "J"
LEMMA JoinedIs ==
  ASSUME NEW s \in Good
  PROVE  Sound(Joined(s), s)
<1>f. s.gs \in Nat /\ s.ge \in Nat /\ s.gs <= s.ge /\ s.ge <= Cap /\ Cap \in Nat
  BY GoodFields
<1> PICK e : e = LineEnd(s, s.ge)
  OBVIOUS
<1>1. e \in s.ge..Cap
  BY <1>f, LineEndIs
<1>2. CASE e = Cap
  BY <1>2 DEF Joined, Sound
<1>3. CASE e # Cap
  <2>1. e \in s.gs..Cap - 1 /\ SP \in Char
    BY <1>f, <1>1, <1>3 DEF Char
  <2>2. Joined(s) = [s EXCEPT !.mem[e] = SP]
    BY <1>3 DEF Joined
  <2> QED
    BY <2>1, <2>2, BytePut
<1> QED
  BY <1>2, <1>3

\* And "J".
LEMMA JoinIs ==
  ASSUME NEW s \in Good, NEW n \in Nat
  PROVE  Sound(Join(s, n), s)
<1> DEFINE G == {t \in Good : Sound(t, s)}
           f == [x \in Buffer |-> Joined(x)]
<1>1. s \in G
  BY DEF Sound
<1>2. ASSUME NEW t \in G PROVE f[t] \in G
  <2>1. t \in Good /\ t \in Buffer /\ Sound(t, s)
    BY DEF Good
  <2>2. f[t] = Joined(t)
    BY <2>1
  <2>3. Sound(Joined(t), t)
    BY <2>1, JoinedIs
  <2>4. Sound(Joined(t), s)
    BY <2>1, <2>3, SoundOn
  <2>5. Joined(t) \in Good
    BY <2>4 DEF Sound
  <2> QED
    BY <2>2, <2>4, <2>5
<1>3. Join(s, n) = Repeat(f, s, n)
  BY DEF Join
<1> HIDE DEF G, f
<1>4. Repeat(f, s, n) \in G
  BY <1>1, <1>2, RepeatKeeps
<1> QED
  BY <1>3, <1>4 DEF G

\* "O", where there is room and current_line is not after the cursor.
LEMMA LineAboveIs ==
  ASSUME NEW s \in Good, s.cl <= s.gs, s.gs # s.ge
  PROVE  Sound(LineAbove(s), s)
<1>f. s.gs \in Nat /\ s.ge \in Nat /\ s.cl \in Nat /\ s.gs <= s.ge /\ s.ge <= Cap /\ Cap \in Nat
  BY GoodFields
<1> PICK h : h = CursorHome(s)
  OBVIOUS
<1>1. Keeps(h, s) /\ h.cl = s.cl /\ h.gs = s.cl /\ h.ge = s.ge - (s.gs - s.cl)
  BY HomeKeeps
<1>2. h \in Good /\ Sound(h, s)
  BY <1>1, KeepsSound DEF Keeps
<1> PICK e : e = h.ge - 1
  OBVIOUS
<1>3. e \in h.gs..Cap - 1 /\ e \in h.gs..Cap /\ NL \in Char
  BY <1>f, <1>1 DEF Char
<1> PICK m : m = [h EXCEPT !.mem[e] = NL]
  OBVIOUS
<1>4. Sound(m, h) /\ m.gs = h.gs
  BY <1>2, <1>3, BytePut
<1>5. m \in Good /\ e \in m.gs..Cap
  BY <1>3, <1>4 DEF Sound
<1> PICK t : t = [m EXCEPT !.ge = e]
  OBVIOUS
<1>6. Sound(t, m)
  BY <1>5, GapEnd
<1>7. LineAbove(s) = t
  <2>1. h \in Buffer
    BY <1>2 DEF Good
  <2>2. LineAbove(s) = [h EXCEPT !.ge = e, !.mem[e] = NL]
    BY DEF LineAbove
  <2>3. [h EXCEPT !.ge = e, !.mem[e] = NL] = t
    BY <2>1 DEF Buffer
  <2> QED
    BY <2>2, <2>3
<1> QED
  BY <1>2, <1>4, <1>6, <1>7, SoundOn

\* "r"
LEMMA ReplaceCharIs ==
  ASSUME NEW s \in Good, NEW c \in Char
  PROVE  Sound(ReplaceChar(s, c), s)
<1>f. s.gs \in Nat /\ s.ge \in Nat /\ s.gs <= s.ge /\ s.ge <= Cap /\ Cap \in Nat
  BY GoodFields
<1>1. CASE s.ge = Cap
  BY <1>1 DEF ReplaceChar, Sound
<1>2. CASE s.ge # Cap /\ c = NL
  <2> PICK e : e = s.ge + 1
    OBVIOUS
  <2>1. e \in s.gs..Cap
    BY <1>2, <1>f
  <2> PICK t : t = [s EXCEPT !.ge = e]
    OBVIOUS
  <2>2. t \in Good /\ t.gs # t.ge /\ (Lined(s) => Lined(t))
    BY <1>f, <2>1, GapEnd DEF Sound
  <2>3. ReplaceChar(s, c) = InsertNewline(t)
    BY <1>2 DEF ReplaceChar
  <2> QED
    BY <2>2, <2>3, InsertNewlineIs DEF Sound
<1>3. CASE s.ge # Cap /\ c # NL
  <2> PICK e : e = s.ge
    OBVIOUS
  <2>1. e \in s.gs..Cap - 1
    BY <1>3, <1>f
  <2>2. ReplaceChar(s, c) = [s EXCEPT !.mem[e] = c]
    BY <1>3 DEF ReplaceChar
  <2> QED
    BY <2>1, <2>2, BytePut
<1> QED
  BY <1>1, <1>2, <1>3

\* A document with nothing in it.
LEMMA NewFileIs ==
  ASSUME NEW s \in Buffer
  PROVE  NewFile(s) \in Good /\ Lined(NewFile(s))
<1>1. 0 \in Index /\ Cap \in Index /\ 0 <= Cap
  BY QbAssumption DEF Index
<1> PICK e : e = Cap
  OBVIOUS
<1> PICK t : t = [s EXCEPT !.gs = 0, !.ge = e, !.cl = 0]
  OBVIOUS
<1>2. t.gs = 0 /\ t.ge = e /\ t.cl = 0
  BY ONLY s \in Buffer, t = [s EXCEPT !.gs = 0, !.ge = e, !.cl = 0] DEF Buffer
<1>3. t \in Buffer
  BY <1>1 DEF Buffer
<1>4. t \in Good
  BY <1>1, <1>2, <1>3 DEF Good
<1>6. \A k \in 0..0 - 1 : FALSE
  OBVIOUS
<1>7. Lined(t)
  BY <1>2, <1>6 DEF Lined, Start
<1>5. NewFile(s) = t
  BY DEF NewFile
<1> QED
  BY <1>4, <1>5, <1>7

\* A file is read to where the cursor is.
LEMMA InsertFileIs ==
  ASSUME NEW s \in Good, NEW text \in Seq(Char)
  PROVE  /\ InsertFile(s, text) \in Good
         /\ (\A i \in 1..Len(text) : text[i] # NL) => Sound(InsertFile(s, text), s)
<1>f. /\ s.mem \in [0..Cap - 1 -> Char] /\ s.gs \in Nat /\ s.ge \in Nat /\ s.cl \in Nat
      /\ s.gs <= s.ge /\ s.ge <= Cap /\ Cap \in Nat
  BY GoodFields
<1> PICK n : n = Least(Len(text), s.ge - s.gs)
  OBVIOUS
<1>1. n \in 0..Len(text) /\ n \in 0..s.ge - s.gs /\ Len(text) \in Nat
  <2>1. Len(text) \in Nat /\ s.ge - s.gs \in Nat
    BY <1>f
  <2> QED
    BY <2>1, LeastIs
<1>2. \A i \in s.gs..s.gs + n - 1 : i - s.gs + 1 \in 1..Len(text)
  BY <1>1, <1>f, SMTT(30)
<1> DEFINE m == [i \in 0..Cap - 1 |-> IF i \in s.gs..s.gs + n - 1
                                      THEN text[i - s.gs + 1] ELSE s.mem[i]]
<1>3. m \in [0..Cap - 1 -> Char]
  <2>1. \A i \in s.gs..s.gs + n - 1 : text[i - s.gs + 1] \in Char
    BY <1>2
  <2> QED
    BY <1>f, <2>1
<1>4. \A k \in 0..s.gs - 1 : m[k] = s.mem[k]
  BY <1>f
<1>5. \A k \in s.gs..s.gs + n - 1 : m[k] = text[k - s.gs + 1]
  <2> TAKE k \in s.gs..s.gs + n - 1
  <2>1. k \in 0..Cap - 1
    BY <1>f, <1>1
  <2> QED
    BY <2>1
<1>6. InsertFile(s, text) = [s EXCEPT !.gs = s.gs + n, !.mem = m]
  BY DEF InsertFile, Good, Buffer
<1> HIDE DEF m
<1> PICK g : g = s.gs + n
  OBVIOUS
<1>7. g \in Index /\ g <= s.ge /\ g \in Nat
  BY <1>f, <1>1 DEF Index
<1> PICK t : t = [s EXCEPT !.gs = g, !.mem = m]
  OBVIOUS
<1>8. s \in Buffer
  BY DEF Good
<1>9. t.gs = g /\ t.ge = s.ge /\ t.cl = s.cl /\ t.mem = m
  BY ONLY <1>8, t = [s EXCEPT !.gs = g, !.mem = m] DEF Buffer
<1>10. t \in Buffer
  BY ONLY <1>3, <1>7, <1>8, t = [s EXCEPT !.gs = g, !.mem = m] DEF Buffer
<1>11. t \in Good
  BY <1>7, <1>9, <1>10 DEF Good
<1>12. ASSUME \A i \in 1..Len(text) : text[i] # NL, Lined(s) PROVE Lined(t)
  <2>1. s.cl \in 0..s.gs /\ (s.cl = 0 \/ s.mem[s.cl - 1] = NL) /\ \A k \in s.cl..s.gs - 1 : s.mem[k] # NL
    BY <1>12 DEF Lined, Start
  <2>4. s.cl \in 0..g
    BY <1>f, <1>1, <2>1
  <2>5. s.cl = 0 \/ s.cl - 1 \in 0..s.gs - 1
    BY <1>f, <2>1
  <2>2. s.cl \in 0..g /\ (s.cl = 0 \/ m[s.cl - 1] = NL)
    BY <1>4, <2>1, <2>4, <2>5
  <2>3. \A k \in s.cl..g - 1 : m[k] # NL
    <3> TAKE k \in s.cl..g - 1
    <3>1. CASE k < s.gs
      <4>1. k \in 0..s.gs - 1 /\ k \in s.cl..s.gs - 1
        BY <1>f, <1>7, <2>1, <3>1
      <4> QED
        BY <1>4, <2>1, <4>1
    <3>2. CASE k >= s.gs
      <4>1. k \in s.gs..s.gs + n - 1
        BY <1>f, <1>1, <3>2
      <4>2. text[k - s.gs + 1] # NL
        BY <1>2, <1>12, <4>1
      <4> QED
        BY <1>5, <4>1, <4>2
    <3> QED
      BY <1>f, <1>7, <2>1, <3>1, <3>2
  <2> QED
    BY <1>9, <2>2, <2>3 DEF Lined, Start
<1>13. InsertFile(s, text) = t
  BY <1>6
<1> QED
  BY <1>11, <1>12, <1>13 DEF Sound

\* A file is read into the memory, whatever there was.
LEMMA LoadFileIs ==
  ASSUME NEW s \in Buffer, NEW text \in Seq(Char)
  PROVE  LoadFile(s, text) \in Good /\ Lined(LoadFile(s, text))
<1>1. NewFile(s) \in Good
  BY NewFileIs
<1>2. InsertFile(NewFile(s), text) \in Good
  BY <1>1, InsertFileIs
<1>3. 1 \in Nat \ {0}
  OBVIOUS
<1> QED
  BY <1>2, <1>3, GotoLineKeeps DEF LoadFile

-----------------------------------------------------------------------------
(* The file and its temporary *)

Soft == {"none", "delete", "rename"}
Saves == [pc : SavePlace, to : {"file", "temp"}, fault : Faults, quit : BOOLEAN,
          from : {"normal", "colon"}]

\* A save in which nothing but a deletion or a renaming fails: what is written is
\* whole once it is closed.
SaveNew(s, f, t) ==
  s.fault \in Soft =>
    /\ s.pc \in {"delete", "rename"} => s.to = "temp" /\ t = "new"
    /\ s.pc = "done" => f = "new"
    /\ s.pc = "failed" => s.fault # "none"

\* The old text is in the file until it is deleted, and then the new one is in the
\* temporary file.
SaveOld(s, f, t) ==
  /\ s.pc \in {"open", "make", "write", "close", "delete"} => f = "old"
  /\ s.pc \in {"make", "write", "close"} => s.to = "temp"
  /\ s.pc \in {"done", "failed"} /\ s.fault \in Soft => f \in {"old", "new"} \/ t = "new"

SaveInv ==
  /\ save \in Saves
  /\ mode \in {"save", "off"} =>
       save.pc # "idle" /\ SaveNew(save, file, temp) /\ (prior = "old" => SaveOld(save, file, temp))

\* No save is under way when the editor starts.
LEMMA SaveInitial == QeInit => SaveInv
<1> SUFFICES ASSUME QeInit PROVE SaveInv
  OBVIOUS
<1>1. save = Idle /\ mode = "normal"
  BY DEF QeInit
<1>2. Idle \in Saves
  BY QeAssumption DEF Idle, Saves, SavePlace
<1> QED
  BY <1>1, <1>2 DEF SaveInv

\* The keys are taken in other modes than a save, and lead to none.
LEMMA OtherKeysSave ==
  ASSUME QeKeys \/ QeColon \/ Over
  PROVE  save' = save /\ mode # "save" /\ file' \in {file, "none", "old"}
         /\ (mode' \in {"save", "off"} => mode' = mode /\ UNCHANGED <<file, temp, prior>>)
<1> USE DEF Commands, Becomes, BecomesQuietly, Runaway, disk
<1>1. CASE \E d \in Digits : Digit(d)
  BY <1>1 DEF Digit
<1>2. CASE Move
  BY <1>2 DEF Move
<1>3. CASE MoveHome
  BY <1>3 DEF MoveHome
<1>4. CASE MoveWordLeft
  BY <1>4 DEF MoveWordLeft
<1>5. CASE Edit
  BY <1>5 DEF Edit
<1>6. CASE Open
  BY <1>6 DEF Open
<1>7. CASE ReplaceKey \/ ReplaceBy
  BY <1>7 DEF ReplaceKey, ReplaceBy
<1>8. CASE Prefix
  BY <1>8 DEF Prefix
<1>9. CASE DeleteKey
  BY <1>9 DEF DeleteKey
<1>10. CASE ChangeKey \/ UnknownKey
  BY <1>10 DEF ChangeKey, UnknownKey
<1>11. CASE TypeKey
  BY <1>11 DEF TypeKey
<1>12. CASE ColonKey \/ ColonEnd \/ ColonRead \/ ColonName \/ ZedQuit
  BY <1>12 DEF ColonKey, ColonEnd, ColonRead, ColonName, ZedQuit
<1>13. CASE \E sure \in BOOLEAN : ColonEdit(sure) \/ ColonNew(sure) \/ ColonQuit(sure)
  BY <1>13 DEF ColonEdit, ColonNew, ColonQuit, Loaded
<1>14. CASE Over
  BY <1>14 DEF Over, qeVars
<1> QED
  BY <1>1, <1>2, <1>3, <1>4, <1>5, <1>6, <1>7, <1>8, <1>9, <1>10, <1>11, <1>12, <1>13,
     <1>14 DEF QeKeys, QeColon

\* Each call of a save keeps what is known of the two files.
LEMMA SaveSteps ==
  ASSUME SaveInv, QeSave
  PROVE  SaveInv'
<1> USE DEF SaveInv
<1>s. save \in Saves
  OBVIOUS
<1>f. "none" \in Faults
  BY QeAssumption
<1>g. ASSUME NEW p \in SavePlace, NEW f \in Faults, save' = [save EXCEPT !.pc = p, !.fault = f]
      PROVE  save' \in Saves /\ save'.pc = p /\ save'.fault = f /\ save'.to = save.to
  BY <1>s, <1>g DEF Saves
<1>i. save.fault \in Faults /\ save.pc \in SavePlace /\ save.to \in {"file", "temp"}
  BY <1>s DEF Saves
<1> USE DEF Saving, Goes, GoesWith, Fails, Target
<1>1. CASE SaveStart
  <2>1. /\ save' \in Saves /\ save'.pc = "open" /\ save'.fault = "none"
        /\ file' = file /\ prior' = file
    BY <1>1, <1>f DEF SaveStart, Saves, SavePlace
  <2> QED
    BY <2>1 DEF SaveNew, SaveOld
<1>2. CASE SaveOpen
  <2>1. /\ save.pc = "open" /\ mode = "save"
        /\ save' = [save EXCEPT !.pc = "make", !.to = IF file = "none" THEN "file" ELSE "temp"]
        /\ file' = file /\ prior' = prior
    BY <1>2 DEF SaveOpen
  <2> PICK to : to = IF file = "none" THEN "file" ELSE "temp"
    OBVIOUS
  <2>2. save' \in Saves /\ save'.pc = "make" /\ save'.to = to
    BY <1>s, <2>1 DEF Saves, SavePlace
  <2> QED
    BY <2>1, <2>2 DEF SaveNew, SaveOld
<1>3. CASE SaveMake
  <2>1. mode = "save" /\ save.pc = "make" /\ prior' = prior
    BY <1>3 DEF SaveMake
  <2>2. CASE Fails(NotWritten, "make") /\ UNCHANGED <<file, temp>>
    <3> PICK p : p = NotWritten
      OBVIOUS
    <3>1. p = (IF save.to = "file" THEN "failed" ELSE "delete") /\ p \in SavePlace
      BY DEF NotWritten, SavePlace
    <3>2. save' \in Saves /\ save'.pc = p /\ save'.fault = "make" /\ save'.to = save.to
      BY <1>g, <2>2, <3>1
    <3> QED
      BY <2>1, <2>2, <3>1, <3>2, <1>i DEF SaveNew, SaveOld, Soft
  <2>3. CASE Goes("write") /\ Target("part")
    <3>1. save' \in Saves /\ save'.pc = "write" /\ save'.fault = save.fault /\ save'.to = save.to
      BY <1>g, <1>i, <2>3 DEF SavePlace
    <3> QED
      BY <2>1, <2>3, <3>1 DEF SaveNew, SaveOld
  <2> QED
    BY <1>3, <2>2, <2>3 DEF SaveMake
<1>4. CASE SaveWrite
  <2>1. mode = "save" /\ save.pc = "write" /\ prior' = prior
    BY <1>4 DEF SaveWrite
  <2>2. CASE Fails(NotWritten, "error") /\ UNCHANGED <<file, temp>>
    <3> PICK p : p = NotWritten
      OBVIOUS
    <3>1. p = (IF save.to = "file" THEN "failed" ELSE "delete") /\ p \in SavePlace
      BY DEF NotWritten, SavePlace
    <3>2. save' \in Saves /\ save'.pc = p /\ save'.fault = "error" /\ save'.to = save.to
      BY <1>g, <2>2, <3>1
    <3> QED
      BY <2>1, <2>2, <3>1, <3>2, <1>i DEF SaveNew, SaveOld, Soft
  <2>3. CASE (Fails("close", "full") \/ Goes("close")) /\ UNCHANGED <<file, temp>>
    <3>1. save' \in Saves /\ save'.pc = "close" /\ save'.to = save.to
      BY <1>g, <1>i, <2>3 DEF SavePlace
    <3> QED
      BY <2>1, <2>3, <3>1 DEF SaveNew, SaveOld
  <2> QED
    BY <1>4, <2>2, <2>3 DEF SaveWrite
<1>5. CASE SaveClose
  <2>1. mode = "save" /\ save.pc = "close" /\ prior' = prior
        /\ (save.to = "temp" => file' = file)
    BY <1>5 DEF SaveClose
  <2>2. CASE Fails(NotWritten, "close")
    <3> PICK p : p = NotWritten
      OBVIOUS
    <3>1. p = (IF save.to = "file" THEN "failed" ELSE "delete") /\ p \in SavePlace
      BY DEF NotWritten, SavePlace
    <3>2. save' \in Saves /\ save'.pc = p /\ save'.fault = "close" /\ save'.to = save.to
      BY <1>g, <2>2, <3>1
    <3> QED
      BY <2>1, <3>1, <3>2, <1>i DEF SaveNew, SaveOld, Soft
  <2>3. CASE /\ Goes(IF save.to = "file" THEN "done" ELSE "delete")
             /\ IF save.fault = "full" THEN UNCHANGED <<file, temp>> ELSE Target("new")
    <3> PICK p : p = IF save.to = "file" THEN "done" ELSE "delete"
      OBVIOUS
    <3>1. p \in SavePlace
      BY DEF SavePlace
    <3>2. save' \in Saves /\ save'.pc = p /\ save'.fault = save.fault /\ save'.to = save.to
      BY <1>g, <1>i, <2>3, <3>1
    <3>3. save.fault \in Soft => (save.to = "file" /\ file' = "new")
                                  \/ (save.to = "temp" /\ temp' = "new")
      BY <1>i, <2>3 DEF Soft
    <3> QED
      BY <2>1, <3>1, <3>2, <3>3, <1>i DEF SaveNew, SaveOld
  <2> QED
    BY <1>5, <2>2, <2>3 DEF SaveClose
<1>6. CASE SaveDelete
  <2>1. mode = "save" /\ save.pc = "delete" /\ prior' = prior /\ temp' = temp
    BY <1>6 DEF SaveDelete
  <2>2. CASE Fails("failed", "delete") /\ UNCHANGED file
    <3>1. save' \in Saves /\ save'.pc = "failed" /\ save'.fault = "delete" /\ save'.to = save.to
      BY <1>g, <2>2 DEF SavePlace
    <3> QED
      BY <2>1, <2>2, <3>1 DEF SaveNew, SaveOld, Soft
  <2>3. CASE Goes("rename") /\ file' = "none"
    <3>1. save' \in Saves /\ save'.pc = "rename" /\ save'.fault = save.fault /\ save'.to = save.to
      BY <1>g, <1>i, <2>3 DEF SavePlace
    <3> QED
      BY <2>1, <2>3, <3>1 DEF SaveNew, SaveOld
  <2> QED
    BY <1>6, <2>2, <2>3 DEF SaveDelete
<1>7. CASE SaveRename
  <2>1. mode = "save" /\ save.pc = "rename" /\ prior' = prior
    BY <1>7 DEF SaveRename
  <2>2. CASE Fails("failed", "rename") /\ UNCHANGED <<file, temp>>
    <3>1. save' \in Saves /\ save'.pc = "failed" /\ save'.fault = "rename" /\ save.fault = "none"
      BY <1>g, <2>2 DEF SavePlace
    <3> QED
      BY <2>1, <2>2, <3>1 DEF SaveNew, SaveOld, Soft
  <2>3. CASE temp = "none" /\ Goes("failed") /\ UNCHANGED <<file, temp>>
    <3>1. save' \in Saves /\ save'.pc = "failed" /\ save'.fault = save.fault
      BY <1>g, <1>i, <2>3 DEF SavePlace
    <3> QED
      BY <2>1, <2>3, <3>1 DEF SaveNew, SaveOld
  <2>4. CASE temp # "none" /\ Goes("done") /\ file' = temp /\ temp' = "none"
    <3>1. save' \in Saves /\ save'.pc = "done" /\ save'.fault = save.fault
      BY <1>g, <1>i, <2>4 DEF SavePlace
    <3> QED
      BY <2>1, <2>4, <3>1 DEF SaveNew, SaveOld
  <2> QED
    BY <1>7, <2>2, <2>3, <2>4 DEF SaveRename
<1>8. CASE SaveEnd
  <2>1. save' = Idle /\ mode' \in {"quit", save.from}
    BY <1>8 DEF SaveEnd
  <2>2. Idle \in Saves /\ save.from \in {"normal", "colon"}
    BY <1>f, <1>s DEF Idle, Saves, SavePlace
  <2> QED
    BY <2>1, <2>2
<1>9. CASE Reset
  BY <1>9 DEF Reset, disk
<1> QED
  BY <1>1, <1>2, <1>3, <1>4, <1>5, <1>6, <1>7, <1>8, <1>9 DEF QeSave

\* Whatever the editor does next does, and so does nothing.
LEMMA SaveStays ==
  ASSUME SaveInv, [QeNext]_qeVars
  PROVE  SaveInv'
<1>1. CASE QeSave
  BY <1>1, SaveSteps
<1>2. CASE QeKeys \/ QeColon \/ Over
  BY <1>2, OtherKeysSave DEF SaveInv
<1>3. CASE UNCHANGED qeVars
  BY <1>3 DEF SaveInv, qeVars
<1> QED
  BY <1>1, <1>2, <1>3 DEF QeNext

\* Such a save has a whole text on the disk.
LEMMA SaveHasText ==
  ASSUME SaveInv
  PROVE  QeSaveKeepsAText
<1> SUFFICES ASSUME mode \in {"save", "off"}, prior = "old",
                    save.fault \notin {"make", "full", "error", "close"}
             PROVE  file \in {"old", "new"} \/ temp = "new"
  BY DEF QeSaveKeepsAText
<1>1. save.fault \in Soft
  BY QeAssumption DEF SaveInv, Saves, Soft
<1> QED
  BY <1>1, SMT DEF SaveInv, SaveNew, SaveOld, Saves, SavePlace

\* A save from which the editor leaves has been carried through.
LEMMA SaveQuits ==
  ASSUME SaveInv, QeNext, mode' = "quit", mode = "save", save.fault = "none"
  PROVE  file = "new"
<1>1. CASE QeKeys \/ QeColon \/ Over
  BY <1>1, OtherKeysSave
<1>2. CASE QeSave
  <2>1. CASE SaveEnd
    BY <2>1 DEF SaveEnd, SaveInv, Saves, SaveNew, Soft
  <2>2. CASE SaveStart \/ SaveOpen \/ SaveMake \/ SaveWrite \/ SaveClose \/ SaveDelete \/ SaveRename \/ Reset
    BY <2>2 DEF SaveStart, SaveOpen, SaveMake, SaveWrite, SaveClose, SaveDelete, SaveRename,
                Reset, Saving, Goes, GoesWith, Fails
  <2> QED
    BY <1>2, <2>1, <2>2 DEF QeSave
<1> QED
  BY <1>1, <1>2 DEF QeNext

-----------------------------------------------------------------------------
(* The editor *)

\* The modes in which the editor waits for a key.
Awake == Commands \cup {"insert", "replace", "char", "colon"}

QeCore ==
  /\ QeTypeOK
  /\ ~bent => mode # "lost" /\ Lined(b)
  /\ QeCleanIsSaved

QeInv == QeCore /\ SaveInv

\* What the invariant says of the single variables.
LEMMA CoreFields ==
  ASSUME QeCore
  PROVE  /\ b \in Good /\ count \in Nat /\ Times1 \in Nat \ {0} /\ MaxCount \in Nat
         /\ mode \in Modes /\ dirty \in BOOLEAN /\ saved \in {"yes", "excused", "no"}
         /\ bent \in BOOLEAN
<1>1. count \in Nat /\ MaxCount \in Nat
  BY QeAssumption DEF QeCore, QeTypeOK
<1> QED
  BY <1>1 DEF QeCore, QeTypeOK, Good, Times1

\* What does not touch the files keeps what is known of them.
LEMMA DiskKept ==
  ASSUME QeCore, b' \in Good, mode' \in Modes, count' \in 0..MaxCount, dirty' \in BOOLEAN,
         saved' \in {"yes", "excused", "no"}, bent' \in BOOLEAN, UNCHANGED disk
  PROVE  QeTypeOK'
BY DEF QeCore, QeTypeOK, disk, Good

\* A key that changes the text and says so.
LEMMA ChangesCore ==
  ASSUME QeCore, NEW new \in Good, NEW to \in Awake, Becomes(new, TRUE, to),
         bent' \in BOOLEAN, ~bent' => Lined(new)
  PROVE  QeCore'
<1>1. b' = new /\ dirty' = TRUE /\ mode' = to /\ count' = 0 /\ UNCHANGED disk
  BY DEF Becomes
<1>2. saved' = "no"
  BY <1>1 DEF Becomes
<1>3. mode' \in Modes /\ mode' # "lost" /\ count' \in 0..MaxCount
  BY <1>1, CoreFields DEF Awake, Commands, Modes
<1>4. QeTypeOK'
  BY <1>1, <1>2, <1>3, DiskKept
<1>5. Lined(b)' <=> Lined(new)
  BY <1>1 DEF Lined, Start
<1> QED
  BY <1>1, <1>3, <1>4, <1>5 DEF QeCore, QeCleanIsSaved

\* A key that leaves the text.
LEMMA MovesCore ==
  ASSUME QeCore, NEW new \in Good, NEW to \in Awake, Becomes(new, FALSE, to), mode \in Awake,
         bent' \in BOOLEAN, ~bent' => Lined(new), Text(new) = Text(b)
  PROVE  QeCore'
<1>1. b' = new /\ mode' = to /\ count' = 0 /\ UNCHANGED disk
  BY DEF Becomes
<1>2. dirty' = dirty
  BY CoreFields DEF Becomes
<1>3. saved' = IF dirty THEN "no" ELSE saved
  <2>1. saved' = IF dirty' \/ (saved = "yes" /\ Text(new) # Text(b)) THEN "no" ELSE saved
    BY DEF Becomes
  <2> QED
    BY <1>2, <2>1
<1>4. mode' \in Modes /\ mode' # "lost" /\ count' \in 0..MaxCount
  BY <1>1, CoreFields DEF Awake, Commands, Modes
<1>5. saved' \in {"yes", "excused", "no"} /\ dirty' \in BOOLEAN
  BY <1>2, <1>3, CoreFields
<1>6. QeTypeOK'
  BY <1>1, <1>4, <1>5, DiskKept
<1>7. Lined(b)' <=> Lined(new)
  BY <1>1 DEF Lined, Start
<1>8. ~dirty => saved # "no"
  BY DEF QeCore, QeCleanIsSaved, Awake
<1>9. ~dirty' => saved' # "no"
  BY <1>2, <1>3, <1>8
<1> QED
  BY <1>1, <1>4, <1>6, <1>7, <1>9 DEF QeCore, QeCleanIsSaved

\* A key that changes the text and does not say so.
LEMMA QuietCore ==
  ASSUME QeCore, NEW new \in Good, NEW to \in Awake, BecomesQuietly(new, to), mode \in Awake,
         bent' \in BOOLEAN, ~bent' => Lined(new)
  PROVE  QeCore'
<1>1. b' = new /\ mode' = to /\ count' = 0 /\ dirty' = dirty /\ UNCHANGED disk
  BY DEF BecomesQuietly
<1>2. saved' = IF saved = "yes" /\ Text(new) # Text(b) THEN "excused" ELSE saved
  BY DEF BecomesQuietly
<1>3. saved' = "excused" \/ saved' = saved
  BY <1>2
<1>4. mode' \in Modes /\ mode' # "lost" /\ count' \in 0..MaxCount
  BY <1>1, CoreFields DEF Awake, Commands, Modes
<1>5. saved' \in {"yes", "excused", "no"} /\ dirty' \in BOOLEAN
  BY <1>1, <1>3, CoreFields
<1>6. QeTypeOK'
  BY <1>1, <1>4, <1>5, DiskKept
<1>7. Lined(b)' <=> Lined(new)
  BY <1>1 DEF Lined, Start
<1>8. ~dirty => saved # "no"
  BY DEF QeCore, QeCleanIsSaved, Awake
<1>9. ~dirty' => saved' # "no"
  BY <1>1, <1>3, <1>8
<1> QED
  BY <1>1, <1>4, <1>6, <1>7, <1>9 DEF QeCore, QeCleanIsSaved

\* The editor hangs, and its memory is gone.
LEMMA RunawayCore ==
  ASSUME QeCore, Runaway, bent
  PROVE  QeCore'
<1>1. mode' = "lost" /\ UNCHANGED <<count, dirty, saved, bent, disk>>
  BY DEF Runaway
<1>3. b' \in Good
  <2>1. PICK m \in [0..Cap - 1 -> Char] : b' = [b EXCEPT !.mem = m]
    BY DEF Runaway
  <2>2. b \in Good
    BY CoreFields
  <2> QED
    BY <2>1, <2>2 DEF Good, Buffer
<1>2. QeTypeOK'
  <2>1. b' \in Good /\ mode' \in Modes /\ count' \in 0..MaxCount /\ dirty' \in BOOLEAN
        /\ saved' \in {"yes", "excused", "no"} /\ bent' \in BOOLEAN
    BY <1>1, <1>3, CoreFields DEF Modes, QeCore, QeTypeOK
  <2> QED
    BY <1>1, <2>1, DiskKept
<1> QED
  BY <1>1, <1>2 DEF QeCore, QeCleanIsSaved, Commands

\* The modes in which keys are taken.
LEMMA AwakeAre ==
  /\ "normal" \in Awake /\ "insert" \in Awake /\ "replace" \in Awake /\ "char" \in Awake
  /\ "colon" \in Awake /\ "delete" \in Awake /\ "change" \in Awake /\ "zed" \in Awake
BY DEF Awake, Commands

\* Every motion keeps the text, and current_line right.
LEMMA MovesKeep ==
  ASSUME QeCore, NEW new \in Moves
  PROVE  new \in Good /\ Text(new) = Text(b) /\ (Lined(b) => Lined(new))
<1> PICK n \in Nat : n = Times1
  BY CoreFields
<1> PICK g : g = IF count = 0 THEN Cap + 2 ELSE count
  OBVIOUS
<1>0. b \in Good
  BY CoreFields
<1>1. g \in Nat \ {0}
  BY QbAssumption, CoreFields
<1>2. new \in {CursorLeft(b, n), CursorRight(b, n), CursorDown(b, n), CursorEnd(b),
               CursorWordRight(b, n), GotoLine(b, g)}
  BY DEF Moves
<1>3. CASE new = CursorLeft(b, n)
  BY <1>0, <1>3, CursorLeftKeeps DEF Keeps
<1>4. CASE new = CursorRight(b, n)
  BY <1>0, <1>4, CursorRightKeeps DEF Keeps
<1>5. CASE new = CursorDown(b, n)
  BY <1>0, <1>5, CursorDownKeeps DEF Keeps
<1>6. CASE new = CursorEnd(b)
  BY <1>0, <1>6, EndKeeps DEF Keeps
<1>7. CASE new = CursorWordRight(b, n)
  BY <1>0, <1>7, CursorWordRightKeeps DEF Keeps
<1>8. CASE new = GotoLine(b, g)
  BY <1>0, <1>1, <1>8, GotoLineKeeps
<1> QED
  BY <1>2, <1>3, <1>4, <1>5, <1>6, <1>7, <1>8

\* And so do those to the start of the line and to the one above.
LEMMA HomeMovesKeep ==
  ASSUME QeCore, ~HomeRunsAway(b), NEW new \in {CursorHome(b), CursorUp(b, Times1)}
  PROVE  new \in Good /\ Text(new) = Text(b) /\ (Lined(b) => Lined(new))
<1> PICK n \in Nat : n = Times1
  BY CoreFields
<1>0. b \in Good /\ b.cl <= b.gs
  BY CoreFields, GoodFields DEF HomeRunsAway
<1>1. CASE new = CursorHome(b)
  BY <1>0, <1>1, HomeKeeps DEF Keeps
<1>2. CASE new = CursorUp(b, n)
  BY <1>0, <1>2, CursorUpKeeps DEF Keeps
<1> QED
  BY <1>1, <1>2

\* current_line is known as long as nothing has bent it.
LEMMA AwakeLined ==
  ASSUME QeCore
  PROVE  ~bent => Lined(b)
BY DEF QeCore

\* So no loop that counts to it starts behind it.
LEMMA LinedStops ==
  ASSUME NEW s \in Good, Lined(s)
  PROVE  ~HomeRunsAway(s) /\ ~BackspaceRunsAway(s)
BY GoodFields DEF Lined, Start, HomeRunsAway, BackspaceRunsAway

\* The keys of each mode.
LEMMA KeysCore ==
  ASSUME QeCore, QeKeys
  PROVE  QeCore'
<1>0. /\ b \in Good /\ count \in Nat /\ Times1 \in Nat \ {0} /\ MaxCount \in Nat
      /\ mode \in Modes /\ dirty \in BOOLEAN /\ saved \in {"yes", "excused", "no"}
      /\ bent \in BOOLEAN
  BY CoreFields
<1>1. ASSUME NEW d \in Digits, Digit(d) PROVE QeCore'
  <2>1. /\ UNCHANGED <<b, mode, dirty, saved, bent, disk>> /\ mode \in Commands
        /\ count' = count * 10 + d /\ count' <= MaxCount
    BY <1>1 DEF Digit
  <2>2. count' \in 0..MaxCount
    BY <1>0, <2>1, QeAssumption
  <2>3. QeTypeOK'
    BY <1>0, <2>1, <2>2, DiskKept
  <2>4. Lined(b)' <=> Lined(b)
    BY <2>1 DEF Lined, Start
  <2> QED
    BY <2>1, <2>3, <2>4 DEF QeCore, QeCleanIsSaved
<1>2. CASE Move
  <2>1. PICK new \in Moves : Becomes(new, FALSE, "normal")
    BY <1>2 DEF Move
  <2>2. mode \in Awake /\ bent' = bent /\ "normal" \in Awake
    BY <1>2, AwakeAre DEF Move
  <2>3. new \in Good /\ Text(new) = Text(b) /\ (Lined(b) => Lined(new))
    BY MovesKeep
  <2>4. bent' \in BOOLEAN /\ (~bent' => Lined(new))
    BY <1>0, <2>2, <2>3, AwakeLined
  <2> QED
    BY <2>1, <2>2, <2>3, <2>4, MovesCore
<1>3. CASE MoveHome
  <2>1. CASE HomeRunsAway(b)
    BY <1>0, <1>3, <2>1, AwakeLined, LinedStops, RunawayCore DEF MoveHome
  <2>2. CASE ~HomeRunsAway(b)
    <3>1. PICK new \in {CursorHome(b), CursorUp(b, Times1)} : Becomes(new, FALSE, "normal")
      BY <1>3, <2>2 DEF MoveHome
    <3>2. mode \in Awake /\ bent' = bent /\ "normal" \in Awake
      BY <1>3, <2>2, AwakeAre DEF MoveHome
    <3>3. new \in Good /\ Text(new) = Text(b) /\ (Lined(b) => Lined(new))
      BY <2>2, HomeMovesKeep
    <3>4. bent' \in BOOLEAN /\ (~bent' => Lined(new))
      BY <1>0, <3>2, <3>3, AwakeLined
    <3> QED
      BY <3>1, <3>2, <3>3, <3>4, MovesCore
  <2> QED
    BY <2>1, <2>2
<1>4. CASE MoveWordLeft
  <2> PICK n \in Nat : n = Times1
    BY <1>0
  <2> PICK new : new = CursorWordLeft(b, n)
    OBVIOUS
  <2>1. new \in Good
    BY <1>0, CursorWordLeftGood
  <2>2. BecomesQuietly(new, "normal")
    BY <1>4 DEF MoveWordLeft
  <2>3. mode \in Awake /\ bent' = TRUE /\ "normal" \in Awake
    BY <1>4, AwakeAre DEF MoveWordLeft
  <2> QED
    BY <2>1, <2>2, <2>3, QuietCore
<1>5. CASE Edit
  <2>0. mode \in Awake /\ bent' = bent /\ bent' \in BOOLEAN
    BY <1>0, <1>5, AwakeAre DEF Edit
  <2>l. ~bent' => Lined(b)
    BY <2>0, AwakeLined
  <2> PICK n \in Nat : n = Times1
    BY <1>0
  <2>1. CASE Becomes(b, FALSE, "insert") \/ Becomes(b, FALSE, "replace")
    <3> PICK new : new = b
      OBVIOUS
    <3>1. Becomes(new, FALSE, "insert") \/ Becomes(new, FALSE, "replace")
      BY <2>1
    <3>2. new \in Good /\ Text(new) = Text(b) /\ (~bent' => Lined(new))
      BY <1>0, <2>l
    <3> QED
      BY <2>0, <3>1, <3>2, AwakeAre, MovesCore
  <2>2. CASE Becomes(CursorEnd(b), FALSE, "insert")
    <3> PICK new : new = CursorEnd(b)
      OBVIOUS
    <3>1. Becomes(new, FALSE, "insert")
      BY <2>2
    <3>2. new \in Good /\ Text(new) = Text(b) /\ (~bent' => Lined(new))
      BY <1>0, <2>l, EndKeeps DEF Keeps
    <3> QED
      BY <2>0, <3>1, <3>2, AwakeAre, MovesCore
  <2>3. CASE Becomes(DeleteRight(b, n), TRUE, "normal")
    <3> PICK new : new = DeleteRight(b, n)
      OBVIOUS
    <3>1. Becomes(new, TRUE, "normal")
      BY <2>3
    <3>2. new \in Good /\ (~bent' => Lined(new))
      BY <1>0, <2>l, DeleteRightIs DEF Sound
    <3> QED
      BY <2>0, <3>1, <3>2, AwakeAre, ChangesCore
  <2>4. CASE Becomes(Join(b, n), TRUE, "normal")
    <3> PICK new : new = Join(b, n)
      OBVIOUS
    <3>1. Becomes(new, TRUE, "normal")
      BY <2>4
    <3>2. new \in Good /\ (~bent' => Lined(new))
      BY <1>0, <2>l, JoinIs DEF Sound
    <3> QED
      BY <2>0, <3>1, <3>2, AwakeAre, ChangesCore
  <2> QED
    BY <1>5, <2>1, <2>2, <2>3, <2>4 DEF Edit
<1>6. CASE Open
  <2>1. PICK at \in {b, CursorDown(b, 1)} :
          IF at.gs = at.ge THEN Becomes(at, FALSE, "normal") /\ UNCHANGED bent
          ELSE IF HomeRunsAway(at) THEN Runaway
          ELSE BecomesQuietly(LineAbove(at), "insert") /\ UNCHANGED bent
    BY <1>6 DEF Open
  <2>2. mode \in Awake
    BY <1>6, AwakeAre DEF Open
  <2>3. at \in Good /\ Text(at) = Text(b) /\ (Lined(b) => Lined(at))
    <3>1. CASE at = b
      BY <1>0, <3>1
    <3>2. CASE at = CursorDown(b, 1)
      BY <1>0, <3>2, CursorDownKeeps DEF Keeps
    <3> QED
      BY <3>1, <3>2
  <2>4. ~bent => Lined(at)
    BY <2>2, <2>3, AwakeLined
  <2>5. CASE at.gs = at.ge
    <3>1. Becomes(at, FALSE, "normal") /\ bent' = bent
      BY <2>1, <2>5
    <3> QED
      BY <1>0, <2>2, <2>3, <2>4, <3>1, AwakeAre, MovesCore
  <2>6. CASE at.gs # at.ge /\ HomeRunsAway(at)
    BY <1>0, <2>1, <2>3, <2>4, <2>6, LinedStops, RunawayCore
  <2>7. CASE at.gs # at.ge /\ ~HomeRunsAway(at)
    <3> PICK new : new = LineAbove(at)
      OBVIOUS
    <3>1. BecomesQuietly(new, "insert") /\ bent' = bent
      BY <2>1, <2>7
    <3>2. at.cl <= at.gs
      BY <2>3, <2>7, GoodFields DEF HomeRunsAway
    <3>3. Sound(new, at)
      BY <2>3, <2>7, <3>2, LineAboveIs
    <3>4. new \in Good /\ (~bent' => Lined(new))
      BY <2>4, <3>1, <3>3 DEF Sound
    <3> QED
      BY <1>0, <2>2, <3>1, <3>4, AwakeAre, QuietCore
  <2> QED
    BY <2>5, <2>6, <2>7
<1>7. CASE ReplaceKey
  <2> PICK new : new = b
    OBVIOUS
  <2>1. Becomes(new, FALSE, "char") /\ mode \in Awake /\ bent' = bent
    BY <1>7, AwakeAre DEF ReplaceKey
  <2>2. new \in Good /\ Text(new) = Text(b) /\ (~bent' => Lined(new))
    BY <1>0, <2>1, AwakeLined
  <2> QED
    BY <1>0, <2>1, <2>2, AwakeAre, MovesCore
<1>8. CASE ReplaceBy
  <2>1. PICK c \in Char : BecomesQuietly(ReplaceChar(b, c), "normal")
    BY <1>8 DEF ReplaceBy
  <2> PICK new : new = ReplaceChar(b, c)
    OBVIOUS
  <2>2. BecomesQuietly(new, "normal") /\ mode \in Awake /\ bent' = bent
    BY <1>8, <2>1, AwakeAre DEF ReplaceBy
  <2>3. new \in Good /\ (~bent' => Lined(new))
    BY <1>0, <2>2, AwakeLined, ReplaceCharIs DEF Sound
  <2> QED
    BY <1>0, <2>2, <2>3, AwakeAre, QuietCore
<1>9. CASE Prefix
  <2>1. /\ UNCHANGED <<b, dirty, saved, bent, disk>> /\ mode = "normal"
        /\ mode' \in {"delete", "change", "zed"} /\ count' = Times1 /\ Times1 <= MaxCount
    BY <1>9 DEF Prefix
  <2>2. count' \in 0..MaxCount /\ mode' \in Modes
    BY <1>0, <2>1 DEF Modes, Commands
  <2>3. QeTypeOK'
    BY <1>0, <2>1, <2>2, DiskKept
  <2>4. Lined(b)' <=> Lined(b)
    BY <2>1 DEF Lined, Start
  <2>5. ~dirty => saved # "no"
    BY <2>1 DEF QeCore, QeCleanIsSaved, Commands
  <2> QED
    BY <2>1, <2>3, <2>4, <2>5 DEF QeCore, QeCleanIsSaved
<1>10. CASE DeleteKey
  <2>0. mode \in Awake
    BY <1>10, AwakeAre DEF DeleteKey
  <2> PICK n \in Nat : n = Times1
    BY <1>0
  <2>1. CASE Becomes(DeleteWord(b, n), TRUE, "normal") /\ UNCHANGED bent
    <3> PICK new : new = DeleteWord(b, n)
      OBVIOUS
    <3>1. Becomes(new, TRUE, "normal") /\ bent' = bent
      BY <2>1
    <3>2. new \in Good /\ (~bent' => Lined(new))
      BY <1>0, <2>0, <3>1, AwakeLined, DeleteWordIs DEF Sound
    <3> QED
      BY <1>0, <3>1, <3>2, AwakeAre, ChangesCore
  <2>2. CASE Becomes(DeleteRestOfLine(b), TRUE, "normal") /\ UNCHANGED bent
    <3> PICK new : new = DeleteRestOfLine(b)
      OBVIOUS
    <3>1. Becomes(new, TRUE, "normal") /\ bent' = bent
      BY <2>2
    <3>2. new \in Good /\ (~bent' => Lined(new))
      BY <1>0, <2>0, <3>1, AwakeLined, DeleteRestIs DEF Sound
    <3> QED
      BY <1>0, <3>1, <3>2, AwakeAre, ChangesCore
  <2>3. CASE HomeRunsAway(b) /\ Runaway
    BY <1>0, <2>3, AwakeLined, LinedStops, RunawayCore
  <2>4. CASE ~HomeRunsAway(b) /\ Becomes(DeleteLine(b, n), TRUE, "normal") /\ UNCHANGED bent
    <3> PICK new : new = DeleteLine(b, n)
      OBVIOUS
    <3>1. Becomes(new, TRUE, "normal") /\ bent' = bent
      BY <2>4
    <3>2. b.cl <= b.gs
      BY <1>0, <2>4, GoodFields DEF HomeRunsAway
    <3>3. new \in Good /\ (~bent' => Lined(new))
      BY <1>0, <2>0, <3>1, <3>2, AwakeLined, DeleteLineIs DEF Sound
    <3> QED
      BY <1>0, <3>1, <3>3, AwakeAre, ChangesCore
  <2> QED
    BY <1>10, <2>1, <2>2, <2>3, <2>4 DEF DeleteKey
<1>11. CASE ChangeKey
  <2>1. PICK new \in {DeleteWord(b, 1), DeleteRestOfLine(b)} : Becomes(new, TRUE, "insert")
    BY <1>11 DEF ChangeKey
  <2>2. mode \in Awake /\ bent' = bent
    BY <1>11, AwakeAre DEF ChangeKey
  <2>3. Sound(new, b)
    <3>1. CASE new = DeleteWord(b, 1)
      BY <1>0, <3>1, DeleteWordIs
    <3>2. CASE new = DeleteRestOfLine(b)
      BY <1>0, <3>2, DeleteRestIs
    <3> QED
      BY <3>1, <3>2
  <2>4. new \in Good /\ (~bent' => Lined(new))
    BY <2>2, <2>3, AwakeLined DEF Sound
  <2> QED
    BY <1>0, <2>1, <2>2, <2>4, AwakeAre, ChangesCore
<1>12. CASE UnknownKey
  <2> PICK new : new = b
    OBVIOUS
  <2>1. Becomes(new, FALSE, "normal") /\ mode \in Awake /\ bent' = bent
    BY <1>12 DEF UnknownKey, Awake
  <2>2. new \in Good /\ Text(new) = Text(b) /\ (~bent' => Lined(new))
    BY <1>0, <2>1, AwakeLined
  <2> QED
    BY <1>0, <2>1, <2>2, AwakeAre, MovesCore
<1>13. CASE TypeKey
  <2>0. mode \in Awake /\ mode \in {"insert", "replace"}
    BY <1>13, AwakeAre DEF TypeKey
  <2> PICK m : m = mode
    OBVIOUS
  <2>1. CASE Becomes(b, FALSE, "normal") /\ UNCHANGED bent
    <3> PICK new : new = b
      OBVIOUS
    <3>1. Becomes(new, FALSE, "normal") /\ bent' = bent
      BY <2>1
    <3>2. new \in Good /\ Text(new) = Text(b) /\ (~bent' => Lined(new))
      BY <1>0, <2>0, <3>1, AwakeLined
    <3> QED
      BY <1>0, <2>0, <3>1, <3>2, AwakeAre, MovesCore
  <2>2. CASE BackspaceRunsAway(b) /\ Runaway
    BY <1>0, <2>2, AwakeLined, LinedStops, RunawayCore
  <2>3. CASE ~BackspaceRunsAway(b) /\ Becomes(Backspace(b), TRUE, mode) /\ UNCHANGED bent
    <3> PICK new : new = Backspace(b)
      OBVIOUS
    <3>1. Becomes(new, TRUE, m) /\ bent' = bent
      BY <2>3
    <3>2. new \in Good /\ (~bent' => Lined(new))
      BY <1>0, <2>0, <2>3, <3>1, AwakeLined, BackspaceIs DEF Sound
    <3> QED
      BY <1>0, <2>0, <3>1, <3>2, ChangesCore
  <2>4. CASE Room /\ \E new \in {InsertNewline(Base)} \cup {InsertChar(Base, c) : c \in Char \ {NL}} :
                       Becomes(new, TRUE, mode) /\ UNCHANGED bent
    <3>1. PICK new \in {InsertNewline(Base)} \cup {InsertChar(Base, c) : c \in Char \ {NL}} :
            Becomes(new, TRUE, mode) /\ UNCHANGED bent
      BY <2>4
    <3> PICK base : base = Base
      OBVIOUS
    <3>2. base \in Good /\ (Lined(b) => Lined(base)) /\ base.gs # base.ge
      BY <1>0, <2>4, OverwrittenIs DEF Base, Room, Sound
    <3>3. new \in Good /\ (Lined(b) => Lined(new))
      <4>1. CASE new = InsertNewline(base)
        BY <3>2, <4>1, InsertNewlineIs
      <4>2. ASSUME NEW c \in Char \ {NL}, new = InsertChar(base, c)
            PROVE  new \in Good /\ (Lined(b) => Lined(new))
        BY <3>2, <4>2, InsertCharIs
      <4> QED
        BY <4>1, <4>2
    <3>4. Becomes(new, TRUE, m) /\ bent' = bent
      BY <3>1
    <3>5. ~bent' => Lined(new)
      BY <2>0, <3>3, <3>4, AwakeLined
    <3> QED
      BY <1>0, <2>0, <3>3, <3>4, <3>5, ChangesCore
  <2>5. CASE Room /\ Becomes(InsertChar(Base, NL), TRUE, mode) /\ bent' = TRUE
    <3> PICK base : base = Base
      OBVIOUS
    <3>1. base \in Good /\ base.gs # base.ge /\ NL \in Char
      BY <1>0, <2>5, OverwrittenIs DEF Base, Room, Sound, Char
    <3> PICK new : new = InsertChar(base, NL)
      OBVIOUS
    <3>2. new \in Good
      BY <3>1, InsertCharIs
    <3>3. Becomes(new, TRUE, m) /\ bent' = TRUE
      BY <2>5
    <3> QED
      BY <2>0, <3>2, <3>3, ChangesCore
  <2>6. CASE ~Room /\ Becomes(b, TRUE, mode) /\ UNCHANGED bent
    <3> PICK new : new = b
      OBVIOUS
    <3>1. Becomes(new, TRUE, m) /\ bent' = bent
      BY <2>6
    <3>2. new \in Good /\ (~bent' => Lined(new))
      BY <1>0, <2>0, <3>1, AwakeLined
    <3> QED
      BY <1>0, <2>0, <3>1, <3>2, ChangesCore
  <2> QED
    BY <1>13, <2>1, <2>2, <2>3, <2>4, <2>5, <2>6 DEF TypeKey
<1> QED
  BY <1>1, <1>2, <1>3, <1>4, <1>5, <1>6, <1>7, <1>8, <1>9, <1>10, <1>11, <1>12, <1>13
  DEF QeKeys

\* The commands behind a colon; those that load find current_line anew.
LEMMA ColonCore ==
  ASSUME QeCore, QeColon
  PROVE  QeCore'
<1>0. /\ b \in Good /\ count \in Nat /\ MaxCount \in Nat
      /\ mode \in Modes /\ dirty \in BOOLEAN /\ saved \in {"yes", "excused", "no"}
      /\ bent \in BOOLEAN
  BY CoreFields
<1>t. /\ count \in 0..MaxCount /\ named \in BOOLEAN /\ file \in Held /\ temp \in Held /\ prior \in Held
      /\ save \in [pc : SavePlace, to : {"file", "temp"}, fault : Faults, quit : BOOLEAN,
                   from : {"normal", "colon"}]
  BY DEF QeCore, QeTypeOK
<1>1. CASE ColonKey \/ ColonEnd
  <2> PICK new : new = b
    OBVIOUS
  <2>1. /\ mode \in Awake /\ bent' = bent
        /\ Becomes(new, FALSE, "colon") \/ Becomes(new, FALSE, "normal")
    BY <1>1, AwakeAre DEF ColonKey, ColonEnd
  <2>2. new \in Good /\ Text(new) = Text(b) /\ (~bent' => Lined(new))
    BY <1>0, <2>1, AwakeLined
  <2> QED
    BY <1>0, <2>1, <2>2, AwakeAre, MovesCore
<1>2. CASE ColonRead
  <2>1. PICK t \in Texts : /\ Becomes(InsertFile(b, t), TRUE, "colon")
                           /\ bent' = (bent \/ \E i \in 1..Len(t) : t[i] = NL)
    BY <1>2 DEF ColonRead
  <2>2. t \in Seq(Char) /\ mode \in Awake
    BY <1>2, QeAssumption, AwakeAre DEF ColonRead
  <2> PICK new : new = InsertFile(b, t)
    OBVIOUS
  <2>3. Becomes(new, TRUE, "colon")
    BY <2>1
  <2>4. new \in Good /\ ((\A i \in 1..Len(t) : t[i] # NL) => Sound(new, b))
    BY <1>0, <2>2, InsertFileIs
  <2>5. bent' \in BOOLEAN
    BY <2>1
  <2>6. ~bent' => ~bent /\ \A i \in 1..Len(t) : t[i] # NL
    BY <2>1
  <2>7. ~bent' => Lined(new)
    BY <2>2, <2>4, <2>6, AwakeLined DEF Sound
  <2> QED
    BY <2>3, <2>4, <2>5, <2>7, AwakeAre, ChangesCore
<1>3. CASE ColonName
  <2>1. /\ UNCHANGED <<b, mode, count, bent, temp, save, prior>> /\ mode = "colon"
        /\ named' = TRUE /\ dirty' = TRUE /\ file' \in {"none", "old"} /\ saved' = "no"
    BY <1>3 DEF ColonName
  <2>2. file' \in Held
    BY <2>1 DEF Held
  <2>3. QeTypeOK'
    BY <1>0, <1>t, <2>1, <2>2 DEF QeTypeOK, Good
  <2>4. Lined(b)' <=> Lined(b)
    BY <2>1 DEF Lined, Start
  <2> QED
    BY <2>1, <2>3, <2>4 DEF QeCore, QeCleanIsSaved
<1>4. CASE ZedQuit \/ \E sure \in BOOLEAN : ColonQuit(sure)
  <2>1. UNCHANGED <<b, count, dirty, saved, bent, disk>> /\ mode' = "quit" /\ mode # "lost"
    BY <1>4 DEF ZedQuit, ColonQuit
  <2>2. mode' \in Modes
    BY <2>1 DEF Modes
  <2>3. QeTypeOK'
    BY <1>0, <1>t, <2>1, <2>2, DiskKept
  <2>4. Lined(b)' <=> Lined(b)
    BY <2>1 DEF Lined, Start
  <2> QED
    BY <2>1, <2>3, <2>4 DEF QeCore, QeCleanIsSaved, Commands
<1>5. ASSUME NEW sure \in BOOLEAN, ColonEdit(sure) PROVE QeCore'
  <2>1. PICK t \in Texts : Loaded(t)
    BY <1>5 DEF ColonEdit
  <2>2. named' = TRUE /\ dirty' = FALSE /\ mode = "colon"
    BY <1>5 DEF ColonEdit
  <2>3. PICK read \in {t, <<>>} : b' = LoadFile(b, read) /\ saved' = Known(t, read)
    BY <2>1 DEF Loaded
  <2>4. /\ bent' = FALSE /\ file' \in {"none", "old"}
        /\ UNCHANGED <<mode, count, temp, save, prior>>
    BY <2>1 DEF Loaded
  <2>5. read \in Seq(Char) /\ b \in Buffer
    <3>1. t \in Seq(Char) /\ <<>> \in Seq(Char)
      BY QeAssumption
    <3> QED
      BY <1>0, <3>1 DEF Good
  <2> PICK new : new = LoadFile(b, read)
    OBVIOUS
  <2>6. new \in Good /\ Lined(new)
    BY <2>5, LoadFileIs
  <2>7. saved' \in {"yes", "excused"}
    BY <2>3 DEF Known
  <2>8. file' \in Held
    BY <2>4 DEF Held
  <2>9. b' \in Buffer /\ b'.gs <= b'.ge
    BY <2>3, <2>6 DEF Good
  <2>10. QeTypeOK'
    BY <1>0, <1>t, <2>2, <2>4, <2>7, <2>8, <2>9 DEF QeTypeOK
  <2>11. Lined(b)' <=> Lined(new)
    BY <2>3 DEF Lined, Start
  <2> QED
    BY <2>2, <2>4, <2>6, <2>7, <2>10, <2>11 DEF QeCore, QeCleanIsSaved
<1>6. ASSUME NEW sure \in BOOLEAN, ColonNew(sure) PROVE QeCore'
  <2>1. /\ named' = FALSE /\ dirty' = TRUE /\ b' = NewFile(b) /\ saved' = "no" /\ bent' = FALSE
        /\ mode = "colon" /\ UNCHANGED <<mode, count, file, temp, save, prior>>
    BY <1>6 DEF ColonNew
  <2> PICK new : new = NewFile(b)
    OBVIOUS
  <2>2. new \in Good /\ Lined(new)
    BY <1>0, NewFileIs DEF Good
  <2>3. b' \in Buffer /\ b'.gs <= b'.ge
    BY <2>1, <2>2 DEF Good
  <2>4. QeTypeOK'
    BY <1>0, <1>t, <2>1, <2>3 DEF QeTypeOK
  <2>5. Lined(b)' <=> Lined(new)
    BY <2>1 DEF Lined, Start
  <2> QED
    BY <2>1, <2>2, <2>4, <2>5 DEF QeCore, QeCleanIsSaved
<1> QED
  BY <1>1, <1>2, <1>3, <1>4, <1>5, <1>6 DEF QeColon

\* A save leaves the text; when it ends the document is clean if the file holds it,
\* or if a call failed.
LEMMA SaveCore ==
  ASSUME QeCore, SaveInv, SaveInv', QeSave
  PROVE  QeCore'
<1>0. /\ b \in Good /\ count \in Nat /\ MaxCount \in Nat
      /\ mode \in Modes /\ dirty \in BOOLEAN /\ saved \in {"yes", "excused", "no"}
      /\ bent \in BOOLEAN
  BY CoreFields
<1>t. /\ count \in 0..MaxCount /\ named \in BOOLEAN /\ file \in Held /\ temp \in Held /\ prior \in Held
  BY DEF QeCore, QeTypeOK
<1>s. save' \in [pc : SavePlace, to : {"file", "temp"}, fault : Faults, quit : BOOLEAN,
                 from : {"normal", "colon"}]
  BY DEF SaveInv, Saves
<1>h. "none" \in Held /\ "old" \in Held /\ "new" \in Held /\ "part" \in Held
  BY DEF Held
<1>a. b' = b /\ named' = named /\ bent' = bent
  BY DEF QeSave, SaveStart, SaveOpen, SaveMake, SaveWrite, SaveClose, SaveDelete, SaveRename,
         SaveEnd, Reset, Goes, GoesWith, Fails, disk
<1>l. Lined(b)' <=> Lined(b)
  BY <1>a DEF Lined, Start
<1>m. mode # "lost"
  BY DEF QeSave, SaveStart, SaveOpen, SaveMake, SaveWrite, SaveClose, SaveDelete, SaveRename,
         SaveEnd, Reset, Saving
<1>1. CASE SaveStart \/ Reset
  <2>1. /\ mode' \in {"save", "off"} /\ count' \in {0, count} /\ dirty' = dirty /\ file' = file
        /\ saved' = saved /\ temp' \in {"none", "old", temp} /\ prior' \in {file, prior}
    BY <1>1 DEF SaveStart, Reset, disk
  <2>2. mode' \in Modes /\ count' \in 0..MaxCount /\ temp' \in Held /\ prior' \in Held
    BY <1>0, <1>t, <1>h, <2>1 DEF Modes
  <2>3. QeTypeOK'
    BY <1>0, <1>t, <1>s, <1>a, <2>1, <2>2 DEF QeTypeOK, Good
  <2> QED
    BY <1>a, <1>l, <1>m, <2>1, <2>3 DEF QeCore, QeCleanIsSaved, Commands
<1>2. CASE SaveOpen \/ SaveMake \/ SaveWrite \/ SaveClose \/ SaveDelete \/ SaveRename
  <2>1. mode' = "save" /\ count' = count /\ saved' = saved /\ prior' = prior
    BY <1>2 DEF SaveOpen, SaveMake, SaveWrite, SaveClose, SaveDelete, SaveRename,
                Saving, Goes, GoesWith, Fails
  <2>2. dirty' \in {dirty, FALSE}
    BY <1>2 DEF SaveOpen, SaveMake, SaveWrite, SaveClose, SaveDelete, SaveRename
  <2>3. file' \in Held /\ temp' \in Held
    BY <1>2, <1>t, <1>h DEF SaveOpen, SaveMake, SaveWrite, SaveClose, SaveDelete, SaveRename, Target
  <2>4. mode' \in Modes /\ dirty' \in BOOLEAN
    BY <1>0, <2>1, <2>2 DEF Modes
  <2>5. QeTypeOK'
    BY <1>0, <1>t, <1>s, <1>a, <2>1, <2>3, <2>4 DEF QeTypeOK, Good
  <2> QED
    BY <1>a, <1>l, <1>m, <2>1, <2>5 DEF QeCore, QeCleanIsSaved, Commands
<1>3. CASE SaveEnd
  <2>1. /\ mode = "save" /\ save.pc \in {"done", "failed"} /\ mode' \in {"quit", save.from}
        /\ file' = Settled(file) /\ temp' = "none" /\ prior' = "none"
        /\ count' = count /\ dirty' = dirty
    BY <1>3 DEF SaveEnd
  <2>2. saved' = CASE dirty -> "no"
                   [] ~dirty /\ save.fault # "none" -> "excused"
                   [] ~dirty /\ save.fault = "none" -> IF file = "new" THEN "yes" ELSE "no"
    BY <1>3 DEF SaveEnd
  <2>3. save.fault = "none" => file = "new"
    BY <2>1 DEF SaveInv, SaveNew, Soft
  <2>4. saved' \in {"yes", "excused", "no"} /\ (~dirty => saved' # "no")
    <3>1. CASE dirty
      BY <2>2, <3>1
    <3>2. CASE ~dirty /\ save.fault # "none"
      BY <2>2, <3>2
    <3>3. CASE ~dirty /\ save.fault = "none"
      BY <2>2, <2>3, <3>3
    <3> QED
      BY <1>0, <3>1, <3>2, <3>3
  <2>5. save.from \in {"normal", "colon"}
    BY DEF SaveInv, Saves
  <2>6. mode' \in Modes /\ file' \in Held /\ mode' # "lost"
    BY <1>h, <2>1, <2>5 DEF Modes, Commands, Settled
  <2>7. QeTypeOK'
    BY <1>0, <1>t, <1>s, <1>h, <1>a, <2>1, <2>4, <2>6 DEF QeTypeOK, Good
  <2> QED
    BY <1>a, <1>l, <2>1, <2>4, <2>6, <2>7 DEF QeCore, QeCleanIsSaved
<1> QED
  BY <1>1, <1>2, <1>3 DEF QeSave

\* The editor starts like that.
LEMMA EditorInitial == QeInit => QeInv
<1> SUFFICES ASSUME QeInit PROVE QeInv
  OBVIOUS
<1>1. PICK m \in [0..Cap - 1 -> Char], t \in Texts : \E read \in {t, <<>>} :
         /\ b = LoadFile([mem |-> m, gs |-> 0, ge |-> 0, cl |-> 0], read)
         /\ saved = Known(t, read)
         /\ file \in IF t = <<>> THEN {"none", "old"} ELSE {"old"}
         /\ named = TRUE \/ (named = FALSE /\ t = <<>>)
  BY DEF QeInit
<1>2. PICK read \in {t, <<>>} : b = LoadFile([mem |-> m, gs |-> 0, ge |-> 0, cl |-> 0], read)
                                /\ saved = Known(t, read)
                                /\ file \in {"none", "old"} /\ named \in BOOLEAN
  BY <1>1
<1>3. read \in Seq(Char)
  <2>1. t \in Seq(Char) /\ <<>> \in Seq(Char)
    BY QeAssumption
  <2> QED
    BY <2>1
<1>4. [mem |-> m, gs |-> 0, ge |-> 0, cl |-> 0] \in Buffer
  BY QbAssumption DEF Buffer, Index
<1>5. b \in Good /\ Lined(b)
  BY <1>2, <1>3, <1>4, LoadFileIs
<1>6. saved \in {"yes", "excused"}
  BY <1>2 DEF Known
<1>7. /\ mode = "normal" /\ count = 0 /\ dirty = FALSE
      /\ temp = "none" /\ save = Idle /\ bent = FALSE /\ prior = "none"
  BY DEF QeInit
<1>8. SaveInv
  BY SaveInitial
<1>9. mode \in Modes /\ count \in 0..MaxCount /\ file \in Held /\ temp \in Held /\ prior \in Held
  BY <1>2, <1>7, QeAssumption DEF Modes, Commands, Held
<1>10. QeTypeOK
  BY <1>2, <1>5, <1>6, <1>7, <1>8, <1>9 DEF QeTypeOK, Good, SaveInv, Saves
<1> QED
  BY <1>5, <1>6, <1>7, <1>8, <1>10 DEF QeInv, QeCore, QeCleanIsSaved

\* And stays like that.
LEMMA EditorStays ==
  ASSUME QeInv, [QeNext]_qeVars
  PROVE  QeInv'
<1>0. QeCore /\ SaveInv /\ SaveInv'
  BY SaveStays DEF QeInv
<1>1. CASE QeKeys
  BY <1>0, <1>1, KeysCore DEF QeInv
<1>2. CASE QeColon
  BY <1>0, <1>2, ColonCore DEF QeInv
<1>3. CASE QeSave
  BY <1>0, <1>3, SaveCore DEF QeInv
<1>4. CASE UNCHANGED qeVars
  <2>1. Lined(b)' <=> Lined(b)
    BY <1>4 DEF Lined, Start, qeVars
  <2> QED
    BY <1>0, <1>4, <2>1 DEF QeInv, QeCore, QeTypeOK, QeCleanIsSaved, qeVars
<1> QED
  BY <1>1, <1>2, <1>3, <1>4 DEF QeNext, Over

\* The editor is always like that.
THEOREM EditorInvariant == QeSpec => []QeInv
<1>1. QeInit => QeInv
  BY EditorInitial
<1>2. QeInv /\ [QeNext]_qeVars => QeInv'
  BY EditorStays
<1> QED
  BY <1>1, <1>2, PTL DEF QeSpec

\* The gap and current_line stay inside the text and mean what every key assumes.
THEOREM EditorBufferSound == QeSpec => []QeBufferSound
<1>1. QeInv => QeBufferSound
  <2> SUFFICES ASSUME QeInv PROVE QeBufferSound
    OBVIOUS
  <2>1. b \in Good
    BY CoreFields DEF QeInv
  <2> QED
    BY <2>1, LinedIs DEF QeInv, QeCore, QeBufferSound, QeLineKnown
<1> QED
  BY <1>1, EditorInvariant, PTL

\* A document that is not "dirty" is what its file holds, but for what the code
\* lets pass.
THEOREM EditorCleanIsSaved == QeSpec => []QeCleanIsSaved
<1>1. QeInv => QeCleanIsSaved
  BY DEF QeInv, QeCore
<1> QED
  BY <1>1, EditorInvariant, PTL

\* Once the temporary file has been made, written and closed without a failure, one
\* whole text is on the disk at every call of a save, and the editor leaves with the
\* new one in the file when no call failed.
THEOREM EditorSavesSafely == QeSpec => QeSavesSafely
<1>1. ASSUME QeInv, [QeNext]_qeVars
      PROVE  SaveInv'
  BY <1>1, SaveStays DEF QeInv
<1>0. SaveInv => QeSaveKeepsAText
  BY SaveHasText
<1>2. ASSUME QeInv, QeNext
      PROVE  mode' = "quit" /\ mode = "save" /\ save.fault = "none" => file = "new"
  BY <1>2, SaveQuits DEF QeInv
<1>3. QeSpec => [][QeSaveKeepsAText']_qeVars
  BY <1>0, <1>1, EditorInvariant, PTL DEF QeSpec
<1>4. QeSpec => QeQuitSaves
  BY <1>2, EditorInvariant, PTL DEF QeSpec, QeQuitSaves
<1> QED
  BY <1>3, <1>4 DEF QeSavesSafely

\* With the cursor at its start, a line that is not empty goes and nothing else.
LEMMA LineInText ==
  ASSUME NEW h \in Good, h.gs < Len(Text(h)), Text(h)[h.gs + 1] # NL,
         NEW d, d = DeleteRestOfLine(h),
         NEW r, r = IF d.ge = Cap THEN d ELSE [d EXCEPT !.ge = @ + 1]
  PROVE  Text(r) = WithoutLine(Text(h), h.gs)
<1>f. /\ h.gs \in Nat /\ h.ge \in Nat /\ h.gs <= h.ge /\ h.ge <= Cap /\ Cap \in Nat
  BY GoodFields
<1> PICK T, N, k, g : T = Text(h) /\ N = Len(Text(h)) /\ k = h.gs /\ g = h.ge - h.gs
  OBVIOUS
<1>1. /\ T \in Seq(Char) /\ Len(T) = N /\ N = Cap - g /\ k \in Nat /\ g \in Nat /\ k < N
  BY <1>f, TextIs
<1>n. N \in Nat /\ N = Cap - g /\ k \in Nat /\ g \in Nat /\ k < N
  BY <1>f, <1>1
<1>c. \A i \in 1..N : T[i] \in Char
  BY ONLY <1>1
<1>2. \A i \in 1..N : T[i] = h.mem[IF i <= k THEN i - 1 ELSE i - 1 + g]
  <2> TAKE i \in 1..N
  <2>1. i \in 1..Cap - (h.ge - h.gs)
    BY <1>1
  <2>2. Text(h)[i] = h.mem[Place(h, i)]
    BY <2>1, TextIs
  <2> QED
    BY <2>2 DEF Place
<1>b. \A i \in 1..N : ~(i <= k) => T[i] = h.mem[i - 1 + g]
  BY <1>2
<1>3. h.ge < Cap /\ h.ge = k + g
  BY <1>f, <1>1
<1>4. h.mem[h.ge] # NL
  <2>1. k + 1 \in 1..N /\ ~(k + 1 <= k) /\ k + 1 - 1 + g = h.ge
    BY <1>n, <1>3
  <2>2. T[k + 1] # NL
    OBVIOUS
  <2> PICK i : i = k + 1
    OBVIOUS
  <2> PICK p : p = i - 1 + g
    OBVIOUS
  <2>3. p = h.ge /\ i \in 1..N /\ ~(i <= k)
    BY ONLY <2>1, <1>n, i = k + 1, p = i - 1 + g
  <2>4. T[i] = h.mem[p]
    BY <1>b, <2>3
  <2> QED
    BY <2>2, <2>3, <2>4
<1> PICK j : j = h.ge + 1
  OBVIOUS
<1> PICK E : E = LineEnd(h, j)
  OBVIOUS
<1>5. j \in 0..Cap
  BY <1>f, <1>3
<1>6. E \in j..Cap /\ (E = Cap \/ h.mem[E] = NL) /\ \A i \in j..E - 1 : h.mem[i] # NL
  BY <1>5, LineEndIs
<1>7. d \in Good /\ d.gs = k /\ d.mem = h.mem /\ d.ge = E
  <2>1. /\ Sound(d, h) /\ d.gs = h.gs /\ d.mem = h.mem
        /\ d.ge = IF h.ge = Cap THEN Cap ELSE LineEnd(h, h.ge + 1)
    BY DeleteRestIs
  <2> QED
    BY <1>3, <1>f, <2>1 DEF Sound
<1>e. E \in j..Cap /\ j = k + g + 1 /\ Cap \in Nat
  BY <1>3, <1>6, <1>f
<1> PICK R : R = IF E = Cap THEN Cap ELSE E + 1
  OBVIOUS
<1>8. R \in k..Cap
  BY <1>1, <1>3, <1>6, <1>f, SMTT(30)
<1>r. (E = Cap /\ R = Cap) \/ (E # Cap /\ R = E + 1)
  OBVIOUS
<1>9. r \in Good /\ r.gs = k /\ r.mem = h.mem /\ r.ge = R
  <2>1. CASE E = Cap
    BY <1>7, <2>1
  <2>2. CASE E # Cap
    <3> PICK t : t = [d EXCEPT !.ge = R]
      OBVIOUS
    <3>1. t \in Good /\ t.gs = d.gs /\ t.mem = d.mem /\ t.ge = R
      BY <1>7, <1>8, GapEnd DEF Sound
    <3>2. r = t
      BY <1>7, <2>2
    <3> QED
      BY <1>7, <3>1, <3>2
  <2> QED
    BY <2>1, <2>2
<1> DEFINE S == {i \in k + 1..N + 1 : i = N + 1 \/ T[i] = NL}
<1> PICK e : e = E - g + 1
  OBVIOUS
<1>10. e \in k + 2..N + 1 /\ E = e + g - 1
  BY <1>n, <1>e
<1>11. e \in S
  <2>1. CASE E = Cap
    BY <1>n, <1>10, <2>1
  <2>2. CASE E # Cap
    <3>1. e \in 1..N /\ ~(e <= k) /\ e - 1 + g = E
      BY <1>n, <1>e, <1>10, <2>2
    <3>2. T[e] = NL
      BY <1>2, <1>6, <2>2, <3>1
    <3>3. e \in k + 1..N + 1
      BY <1>n, <1>10
    <3> QED
      BY <3>2, <3>3
  <2> QED
    BY <2>1, <2>2
<1>12. ASSUME NEW i \in S, i < e PROVE FALSE
  <2>0. i \in k + 1..N + 1 /\ (i = N + 1 \/ T[i] = NL)
    BY <1>12
  <2>3a. i \in k + 1..e - 1 /\ i \in 1..N /\ ~(i <= k) /\ i # N + 1
    BY <1>n, <1>10, <1>12, <2>0
  <2>1. i \in k + 1..e - 1 /\ i \in 1..N /\ ~(i <= k) /\ T[i] = NL
    BY <2>0, <2>3a
  <2> PICK p : p = i - 1 + g
    OBVIOUS
  <2>2. h.mem[p] = NL
    BY <1>2, <2>1
  <2>3. p \in h.ge..E - 1
    BY <1>n, <1>3, <1>e, <1>10, <2>3a
  <2>4. p = h.ge \/ p \in j..E - 1
    BY <1>f, <2>3
  <2> QED
    BY <1>4, <1>6, <2>2, <2>4
<1>13. S \in SUBSET Nat /\ S # {}
  BY <1>1, <1>11
<1>14. Min(S) = e
  <2>1. Min(S) \in S /\ \A i \in S : Min(S) <= i
    BY <1>13, MinIs
  <2>2. Min(S) <= e /\ ~(Min(S) < e)
    BY <1>11, <1>12, <2>1
  <2>3. Min(S) \in Nat /\ e \in Nat
    BY <1>1, <1>10, <1>13, <2>1, SMTT(30)
  <2> QED
    BY <2>2, <2>3
<1> HIDE DEF S
<1>15. WithoutLine(T, k) = SubSeq(T, 1, k) \o SubSeq(T, e + 1, N)
  <2>1. WithoutLine(T, k) = SubSeq(T, 1, k) \o SubSeq(T, Min(S) + 1, Len(T))
    BY <1>1, Zenon DEF WithoutLine, S
  <2> QED
    BY <1>1, <1>14, <2>1, ZenonT(30)
<1> PICK A, B : A = SubSeq(T, 1, k) /\ B = SubSeq(T, e + 1, N)
  OBVIOUS
<1>16. /\ A \in Seq(Char) /\ Len(A) = k /\ \A i \in 1..k : A[i] = T[i]
  <2>1. \A i \in 1..k : T[i] \in Char
    <3> TAKE i \in 1..k
    <3>1. i \in 1..N
      BY <1>n
    <3> QED
      BY <1>c, <3>1
  <2>2. /\ SubSeq(T, 1, k) \in Seq(Char)
        /\ Len(SubSeq(T, 1, k)) = (IF 1 <= k THEN k - 1 + 1 ELSE 0)
        /\ \A i \in 1..k - 1 + 1 : SubSeq(T, 1, k)[i] = T[1 + i - 1]
    BY <1>1, <2>1, SubSeqProperties, SMTT(30)
  <2> HIDE DEF WithoutLine
  <2> QED
    BY <1>1, <2>2
<1>17. /\ B \in Seq(Char) /\ Len(B) = Cap - R /\ \A i \in 1..Cap - R : B[i] = T[e + i]
  <2>1. \A i \in e + 1..N : T[i] \in Char
    <3> TAKE i \in e + 1..N
    <3>1. i \in 1..N
      BY <1>n, <1>10
    <3> QED
      BY <1>c, <3>1
  <2>2. e + 1 \in Int /\ N \in Int
    BY <1>n, <1>10
  <2>3. /\ SubSeq(T, e + 1, N) \in Seq(Char)
        /\ Len(SubSeq(T, e + 1, N)) = (IF e + 1 <= N THEN N - (e + 1) + 1 ELSE 0)
        /\ \A i \in 1..N - (e + 1) + 1 : SubSeq(T, e + 1, N)[i] = T[(e + 1) + i - 1]
    BY <2>1, <2>2, SubSeqProperties, SMTT(30)
  <2>4. (IF e + 1 <= N THEN N - (e + 1) + 1 ELSE 0) = Cap - R
    BY ONLY <1>n, <1>e, <1>10, <1>r
  <2>5. \A i \in 1..Cap - R : i \in 1..N - (e + 1) + 1 /\ (e + 1) + i - 1 = e + i
    BY ONLY <1>n, <1>e, <1>10, <1>r
  <2>6. \A i \in 1..Cap - R : B[i] = T[e + i]
    <3> TAKE i \in 1..Cap - R
    <3>1. i \in 1..N - (e + 1) + 1 /\ (e + 1) + i - 1 = e + i
      BY <2>5
    <3>2. B[i] = T[(e + 1) + i - 1]
      BY <2>3, <3>1
    <3> QED
      BY <3>1, <3>2
  <2> QED
    BY <2>3, <2>4, <2>6
<1> PICK W : W = A \o B
  OBVIOUS
<1>18. /\ W \in Seq(Char) /\ Len(W) = k + (Cap - R)
       /\ \A i \in 1..k + (Cap - R) : W[i] = IF i <= k THEN A[i] ELSE B[i - k]
  <2>1. /\ A \o B \in Seq(Char) /\ Len(A \o B) = Len(A) + Len(B)
        /\ \A i \in 1..Len(A) + Len(B) : (A \o B)[i] = IF i <= Len(A) THEN A[i] ELSE B[i - Len(A)]
    <3>1. A \in Seq(Char) /\ B \in Seq(Char)
      BY <1>16, <1>17
    <3> QED
      BY ONLY <3>1, ConcatProperties, Zenon
  <2>2. Len(A) = k /\ Len(B) = Cap - R
    BY <1>16, <1>17
  <2> HIDE DEF S
  <2> QED
    BY ONLY W = A \o B, <2>1, <2>2, <1>n, <1>8
<1> PICK V : V = Text(r)
  OBVIOUS
<1>19. /\ V \in Seq(Char) /\ Len(V) = k + (Cap - R)
       /\ \A i \in 1..k + (Cap - R) : V[i] = h.mem[IF i <= k THEN i - 1 ELSE i - 1 + (R - k)]
  <2>1. Cap - (r.ge - r.gs) = k + (Cap - R)
    BY <1>1, <1>8, <1>9, <1>f
  <2>2. V \in Seq(Char) /\ Len(V) = Cap - (r.ge - r.gs)
        /\ \A i \in 1..Cap - (r.ge - r.gs) : V[i] = r.mem[Place(r, i)]
    BY <1>9, TextIs
  <2>3. \A i \in 1..k + (Cap - R) : V[i] = r.mem[Place(r, i)]
    BY <2>1, <2>2, ZenonT(30)
  <2> QED
    BY <1>9, <2>1, <2>2, <2>3, ZenonT(30) DEF Place
<1>20. \A i \in 1..k + (Cap - R) : V[i] = W[i]
  <2> TAKE i \in 1..k + (Cap - R)
  <2>0. i \in 1..k + (Cap - R)
    OBVIOUS
  <2>1. CASE i <= k
    <3>1. i \in 1..k /\ i \in 1..N
      BY <1>n, <2>1
    <3>2. V[i] = h.mem[i - 1] /\ W[i] = A[i]
      BY <1>18, <1>19, <2>1, ZenonT(30)
    <3>3. A[i] = T[i]
      BY <1>16, <3>1
    <3>4. T[i] = h.mem[i - 1]
      BY <1>2, <2>1, <3>1
    <3> QED
      BY <3>2, <3>3, <3>4, ZenonT(30)
  <2>2. CASE i > k
    <3> PICK q : q = i - k
      OBVIOUS
    <3>1. q \in 1..Cap - R /\ i \in Nat /\ ~(i <= k)
      BY ONLY <1>n, <1>8, <1>e, <2>0, <2>2, q = i - k
    <3>2. R = E + 1
      BY <1>e, <3>1
    <3>3. e + q \in 1..N /\ ~(e + q <= k) /\ e + q - 1 + g = i - 1 + (R - k)
      BY ONLY <1>n, <1>e, <1>10, <3>1, <3>2, q = i - k
    <3>4. W[i] = B[q]
      BY <1>18, <3>1, ZenonT(30)
    <3>5. B[q] = T[e + q]
      BY <1>17, <3>1, ZenonT(30)
    <3> PICK x : x = e + q
      OBVIOUS
    <3> PICK y : y = x - 1 + g
      OBVIOUS
    <3>6. y = i - 1 + (R - k) /\ x \in 1..N /\ ~(x <= k)
      BY ONLY <3>1, <3>3, <1>n, <1>e, <1>10, x = e + q, y = x - 1 + g
    <3>8. T[x] = h.mem[y]
      BY <1>b, <3>6, ZenonT(30)
    <3>7. V[i] = h.mem[y]
      BY <1>19, <3>1, <3>6, ZenonT(30)
    <3> QED
      BY <3>4, <3>5, <3>7, <3>8, ZenonT(30)
  <2> QED
    BY ONLY <1>n, <1>8, <1>e, <2>0, <2>1, <2>2
<1>21. V = W
  <2>1. V \in Seq(Char) /\ W \in Seq(Char) /\ Len(V) = Len(W)
    BY <1>18, <1>19, ZenonT(30)
  <2>2. \A i \in 1..Len(V) : V[i] = W[i]
    BY <1>19, <1>20, ZenonT(30)
  <2> QED
    BY ONLY <2>1, <2>2, SeqEqual
<1> QED
  BY <1>15, <1>21, ZenonT(30)

\* A command given once is done once.
LEMMA RepeatOnce ==
  ASSUME NEW f, NEW s
  PROVE  Repeat(f, s, 1) = f[s]
<1> DEFINE Body(w) == [k \in 0..1 |-> IF k = 0 THEN s ELSE f[w[k - 1]]]
           done == CHOOSE w : w = Body(w)
<1>1. Least(1, Cap + 1) = 1
  BY QbAssumption DEF Least
<1>2. Repeat(f, s, 1) = done[1]
  BY <1>1, Zenon DEF Repeat
<1>3. \E w : w = Body(w)
  <2> DEFINE w == [k \in 0..1 |-> IF k = 0 THEN s ELSE f[s]]
  <2>1. w[0] = s
    OBVIOUS
  <2>2. \A k \in 0..1 : k # 0 => k - 1 = 0
    OBVIOUS
  <2>3. w = Body(w)
    BY <2>1, <2>2
  <2> QED
    BY <2>3
<1> HIDE DEF Body
<1>4. done = Body(done)
  BY <1>3, Zenon
<1> HIDE DEF done
<1> PICK w : w = done
  OBVIOUS
<1>5. w = [k \in 0..1 |-> IF k = 0 THEN s ELSE f[w[k - 1]]]
  BY <1>4 DEF Body
<1>6. w[0] = s
  BY <1>5
<1>7. w[1] = f[w[1 - 1]]
  BY <1>5
<1> QED
  BY <1>2, <1>6, <1>7

\* Motions (but for "b", and for a "^" or "k" that runs away, which can be only after
\* "b", ":r" or a newline typed as such: EditorBufferSound) leave the text as it was,
\* and "dd" takes its line and no other part of the text.
THEOREM EditorEditsExact == QeSpec => QeEditsExact
<1>1. ASSUME QeInv, Move \/ MoveHome, mode' # "lost"
      PROVE  Text(b') = Text(b)
  <2>0. QeCore
    BY <1>1 DEF QeInv
  <2>1. CASE Move
    <3>1. PICK new \in Moves : Becomes(new, FALSE, "normal")
      BY <2>1 DEF Move
    <3>2. b' = new
      BY <3>1 DEF Becomes
    <3>3. Text(new) = Text(b)
      BY <2>0, MovesKeep
    <3> QED
      BY <3>2, <3>3
  <2>2. CASE MoveHome /\ HomeRunsAway(b)
    BY <1>1, <2>2 DEF MoveHome, Runaway
  <2>3. CASE MoveHome /\ ~HomeRunsAway(b)
    <3>1. PICK new \in {CursorHome(b), CursorUp(b, Times1)} : Becomes(new, FALSE, "normal")
      BY <2>3 DEF MoveHome
    <3>2. b' = new
      BY <3>1 DEF Becomes
    <3>3. Text(new) = Text(b)
      BY <2>0, <2>3, HomeMovesKeep
    <3> QED
      BY <3>2, <3>3
  <2> QED
    BY <1>1, <2>1, <2>2, <2>3
<1>2. ASSUME QeInv, ~bent, mode = "delete", b' = DeleteLine(b, 1),
             b.cl < Len(Text(b)), Text(b)[b.cl + 1] # NL
      PROVE  Text(b') = WithoutLine(Text(b), b.cl)
  <2>1. b \in Good /\ Lined(b)
    BY <1>2, CoreFields DEF QeInv, QeCore
  <2>2. b.cl <= b.gs
    BY <2>1, GoodFields DEF Lined, Start
  <2> PICK h : h = CursorHome(b)
    OBVIOUS
  <2>3. h \in Good /\ Text(h) = Text(b) /\ h.gs = b.cl
    BY <2>1, <2>2, HomeKeeps DEF Keeps
  <2> PICK d : d = DeleteRestOfLine(h)
    OBVIOUS
  <2> PICK r : r = IF d.ge = Cap THEN d ELSE [d EXCEPT !.ge = @ + 1]
    OBVIOUS
  <2>4. Text(r) = WithoutLine(Text(h), h.gs)
    BY <1>2, <2>3, LineInText
  <2>5. LineDeleted(b) = r
    BY DEF LineDeleted
  <2> DEFINE f == [s \in Buffer |-> LineDeleted(s)]
  <2>6. f[b] = LineDeleted(b)
    BY <2>1 DEF Good
  <2>7. DeleteLine(b, 1) = Repeat(f, b, 1)
    BY DEF DeleteLine
  <2> HIDE DEF f
  <2>8. DeleteLine(b, 1) = r
    BY <2>5, <2>6, <2>7, RepeatOnce
  <2>9. b' = r
    BY <1>2, <2>8
  <2> QED
    BY <2>3, <2>4, <2>9
<1>3. QeSpec => QeMovesKeepText
  <2>1. QeInv /\ [QeNext]_qeVars
          => [(Move \/ MoveHome) /\ mode' # "lost" => Text(b') = Text(b)]_qeVars
    BY <1>1
  <2> QED
    BY <2>1, EditorInvariant, PTL DEF QeSpec, QeMovesKeepText
<1>4. QeSpec => QeDeleteLine
  <2>1. QeInv /\ [QeNext]_qeVars
          => [~bent /\ mode = "delete" /\ count = 1 /\ b' = DeleteLine(b, 1) /\ dirty'
                /\ b.cl < Len(Text(b)) /\ Text(b)[b.cl + 1] # NL
              => Text(b') = WithoutLine(Text(b), b.cl)]_qeVars
    BY <1>2
  <2> QED
    BY <2>1, EditorInvariant, PTL DEF QeSpec, QeDeleteLine
<1> QED
  BY <1>3, <1>4 DEF QeEditsExact
===============================================================================
