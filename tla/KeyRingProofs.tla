---------------------------- MODULE KeyRingProofs ----------------------------
(***************************************************************************)
(* The keyboard ring is a bounded queue, for both buffer sizes, any keys,  *)
(* and both ways keys arrive.  First the arithmetic of the two pointers,   *)
(* then what it means for the sequence of keys between them, then the      *)
(* invariant and the refinement.                                           *)
(***************************************************************************)
EXTENDS KeyRing, SequenceTheorems, TLAPS

\* "and 7" / "and 0x0f" keep a pointer in the buffer; the two forms of the
\* test for a full buffer are the same.
LEMMA PointerArithmetic ==
  ASSUME NEW r \in Index, NEW w \in Index
  PROVE  /\ Succ(r) \in Index
         /\ (Pred(r) = w) <=> (Succ(w) = r)
         /\ Succ(r) # r
<1>1. CASE Size = 8
  BY <1>1 DEF Succ, Pred, Index
<1>2. CASE Size = 16
  BY <1>2 DEF Succ, Pred, Index
<1>q. QED
  BY <1>1, <1>2, SizeAssumption

\* How the number of keys changes when a pointer is stepped.
LEMMA Counting ==
  ASSUME NEW r \in Index, NEW w \in Index
  PROVE  /\ Count(r, w) \in Nat
         /\ Count(r, w) < Size
         /\ Count(r, w) = 0 <=> r = w
         /\ Count(r, w) = Size - 1 <=> Succ(w) = r
         /\ Succ(w) # r => Count(r, Succ(w)) = Count(r, w) + 1
         /\ r # w => Count(Succ(r), w) = Count(r, w) - 1
<1>1. CASE Size = 8
  BY <1>1 DEF Succ, Index, Count
<1>2. CASE Size = 16
  BY <1>2 DEF Succ, Index, Count
<1>q. QED
  BY <1>1, <1>2, SizeAssumption

\* Where the i-th waiting key is: never in the slot the next one goes to.
LEMMA Places ==
  ASSUME NEW r \in Index, NEW w \in Index, NEW i \in 1 .. Count(r, w)
  PROVE  /\ At(r, i) \in Index
         /\ At(r, i) # w
         /\ At(Succ(r), i) = At(r, i + 1)
<1>1. CASE Size = 8
  BY <1>1 DEF Succ, Index, Count, At
<1>2. CASE Size = 16
  BY <1>2 DEF Succ, Index, Count, At
<1>q. QED
  BY <1>1, <1>2, SizeAssumption

\* The slot behind the newest key is the write pointer's; no waiting key is in it.
LEMMA Ends ==
  ASSUME NEW r \in Index, NEW w \in Index
  PROVE  /\ At(r, Count(r, w) + 1) = w
         /\ At(r, 1) = r
<1>1. CASE Size = 8
  BY <1>1 DEF Index, Count, At
<1>2. CASE Size = 16
  BY <1>2 DEF Index, Count, At
<1>q. QED
  BY <1>1, <1>2, SizeAssumption

\* The waiting keys are a queue the abstract ring can hold.
LEMMA ContentIsSeq ==
  ASSUME NEW V, NEW b \in [Index -> V], NEW r \in Index, NEW w \in Index
  PROVE  /\ Content(b, r, w) \in Seq(V)
         /\ Len(Content(b, r, w)) = Count(r, w)
<1> DEFINE s == [i \in 1 .. Count(r, w) |-> b[At(r, i)]]
<1>1. Count(r, w) \in Nat
  BY Counting
<1>2. \A i \in 1 .. Count(r, w) : b[At(r, i)] \in V
  BY Places
<1>3. s \in Seq(V) /\ Len(s) = Count(r, w)
  BY <1>1, <1>2
<1>q. QED
  BY <1>3 DEF Content

\* The i-th waiting key is the one in its slot.
LEMMA ContentElement ==
  ASSUME NEW b, NEW r, NEW w, NEW i \in 1 .. Count(r, w)
  PROVE  Content(b, r, w)[i] = b[At(r, i)]
BY DEF Content

\* A key stored in the free slot is not seen.
LEMMA ContentFreeSlot ==
  ASSUME NEW V, NEW b \in [Index -> V], NEW r \in Index, NEW w \in Index, NEW k \in V,
         NEW c \in [Index -> V], \A j \in Index : c[j] = IF j = w THEN k ELSE b[j]
  PROVE  Content(c, r, w) = Content(b, r, w)
<1>1. \A i \in 1 .. Count(r, w) : c[At(r, i)] = b[At(r, i)]
  BY Places
<1>q. QED
  BY <1>1 DEF Content

\* Append, opaque where a lemma is instantiated.
Extended(s, k) == Append(s, k)

\* Storing a key and stepping the write pointer appends it.
LEMMA ContentPut ==
  ASSUME NEW V, NEW b \in [Index -> V], NEW r \in Index, NEW w \in Index, NEW k \in V,
         NEW c \in [Index -> V], \A j \in Index : c[j] = IF j = w THEN k ELSE b[j],
         Succ(w) # r
  PROVE  Content(c, r, Succ(w)) = Extended(Content(b, r, w), k)
<1> DEFINE n == Count(r, w)
           s == Content(b, r, w)
           t == Content(c, r, Succ(w))
<1>1. c \in [Index -> V] /\ Succ(w) \in Index
  BY PointerArithmetic
<1>2. n \in Nat /\ Count(r, Succ(w)) = n + 1
  BY Counting
<1>3. /\ s \in Seq(V) /\ Len(s) = n
      /\ \A i \in 1 .. n : s[i] = b[At(r, i)]
  <2>1. s \in Seq(V) /\ Len(s) = n
    BY ContentIsSeq
  <2>q. QED
    BY <2>1, ContentElement
<1> HIDE DEF n
<1>4. /\ t \in Seq(V) /\ Len(t) = n + 1
      /\ \A i \in 1 .. n + 1 : t[i] = c[At(r, i)]
  <2>1. /\ t \in Seq(V) /\ Len(t) = Count(r, Succ(w))
        /\ \A i \in 1 .. Count(r, Succ(w)) : t[i] = c[At(r, i)]
    <3>1. c \in [Index -> V] /\ Succ(w) \in Index
      BY <1>1
    <3>2. t \in Seq(V)
      BY <3>1, ContentIsSeq
    <3>3. Len(t) = Count(r, Succ(w))
      BY <3>1, ContentIsSeq
    <3>q. QED
      BY <3>2, <3>3, ContentElement
  <2>q. QED
    BY <2>1, <1>2
<1>5. \A i \in 1 .. n : c[At(r, i)] = b[At(r, i)]
  BY Places DEF n
<1>6. c[At(r, n + 1)] = k
  BY Ends DEF n
<1> HIDE DEF s, t
<1>7. Append(s, k) \in Seq(V) /\ Len(Append(s, k)) = n + 1
  BY <1>2, <1>3
<1>8. \A i \in 1 .. n + 1 : t[i] = Append(s, k)[i]
  BY <1>2, <1>3, <1>4, <1>5, <1>6
<1>9. t = Append(s, k)
  BY <1>4, <1>7, <1>8, SeqEqual
<1>q. QED
  BY <1>9 DEF s, t, Extended

\* Stepping the read pointer takes the oldest key.
LEMMA ContentTake ==
  ASSUME NEW V, NEW b \in [Index -> V], NEW r \in Index, NEW w \in Index, r # w
  PROVE  /\ Content(b, r, w) # <<>>
         /\ Head(Content(b, r, w)) = b[r]
         /\ Content(b, Succ(r), w) = Tail(Content(b, r, w))
<1> DEFINE n == Count(r, w)
           s == Content(b, r, w)
           t == Content(b, Succ(r), w)
<1>1. Succ(r) \in Index
  BY PointerArithmetic
<1>2. n \in Nat \ {0} /\ Count(Succ(r), w) = n - 1
  BY Counting
<1>3. /\ s \in Seq(V) /\ Len(s) = n
      /\ \A i \in 1 .. n : s[i] = b[At(r, i)]
  <2>1. s \in Seq(V) /\ Len(s) = n
    BY ContentIsSeq
  <2>q. QED
    BY <2>1, ContentElement
<1> HIDE DEF n
<1>4. /\ t \in Seq(V) /\ Len(t) = n - 1
      /\ \A i \in 1 .. n - 1 : t[i] = b[At(Succ(r), i)]
  <2>1. /\ t \in Seq(V) /\ Len(t) = Count(Succ(r), w)
        /\ \A i \in 1 .. Count(Succ(r), w) : t[i] = b[At(Succ(r), i)]
    <3>1. t \in Seq(V)
      BY <1>1, ContentIsSeq
    <3>2. Len(t) = Count(Succ(r), w)
      BY <1>1, ContentIsSeq
    <3>q. QED
      BY <3>1, <3>2, ContentElement
  <2>q. QED
    BY <2>1, <1>2
<1>5. \A i \in 1 .. n : At(Succ(r), i) = At(r, i + 1)
  BY Places DEF n
<1>6. At(r, 1) = r
  BY Ends
<1> HIDE DEF s, t
<1>7. s # <<>> /\ Head(s) = b[r]
  BY <1>2, <1>3, <1>6
<1>8. /\ Tail(s) \in Seq(V) /\ Len(Tail(s)) = n - 1
      /\ \A i \in 1 .. n - 1 : Tail(s)[i] = s[i + 1]
  BY <1>2, <1>3, <1>7, HeadTailProperties
<1>9. \A i \in 1 .. n - 1 : t[i] = Tail(s)[i]
  <2> TAKE i \in 1 .. n - 1
  <2>1. i \in 1 .. n /\ i + 1 \in 1 .. n
    BY <1>2
  <2>2. t[i] = b[At(r, i + 1)]
    BY <1>4, <1>5, <2>1
  <2>3. s[i + 1] = b[At(r, i + 1)]
    BY <1>3, <2>1
  <2>q. QED
    BY <1>8, <2>2, <2>3
<1>10. t = Tail(s)
  BY <1>4, <1>8, <1>9, SeqEqual
<1>q. QED
  BY <1>7, <1>10 DEF s, t

-----------------------------------------------------------------------------
\* Between its reads of the read pointer and the fetch, kbd_get_next_key has a
\* key to fetch, and no interrupt can reuse the key's slot.
TakenKeyIsSafe ==
  /\ pc \in {"take", "address", "advance"} => rdptr # wrptr
  /\ pc = "advance" => de = rdptr
  /\ pc \in {"address", "advance", "load"} => ~iff

IInv == TypeOK /\ TakenKeyIsSafe

\* The invariant holds when the interrupts are turned on.
LEMMA InitInv == Init => IInv
<1> SUFFICES ASSUME Init PROVE IInv
  OBVIOUS
<1>1. 0 \in Index
  BY SizeAssumption DEF Index
<1>2. NoResult \in Result
  BY DEF NoResult, Result
<1>q. QED
  BY <1>1, <1>2 DEF Init, IInv, TypeOK, TakenKeyIsSafe

\* It survives every step of the handler and of the console calls.
LEMMA StepInv == IInv /\ [Next]_vars => IInv'
<1> SUFFICES ASSUME IInv, [Next]_vars PROVE IInv'
  OBVIOUS
<1> USE DEF IInv, TypeOK, TakenKeyIsSafe
<1>s. Succ(wrptr) \in Index /\ Succ(rdptr) \in Index
  BY PointerArithmetic
<1>n. NoResult \in Result
  BY DEF NoResult, Result
<1>1. ASSUME NEW k \in Key, QueueKey(k) PROVE IInv'
  <2>1. CASE Full
    BY <1>1, <2>1 DEF QueueKey
  <2>2. CASE ~Full
    <3>1. wrptr' # rdptr'
      BY <1>1, <2>2, PointerArithmetic DEF QueueKey, Full
    <3>2. buffer' \in [Index -> Key \cup {NoKey}]
      BY <1>1, <2>2 DEF QueueKey
    <3>q. QED
      BY <1>1, <1>s, <2>2, <3>1, <3>2 DEF QueueKey
  <2>q. QED
    BY <2>1, <2>2
<1>2. ASSUME NEW k \in Key, ScanKey(k) PROVE IInv'
  <2>1. buffer' \in [Index -> Key \cup {NoKey}]
    BY <1>2 DEF ScanKey
  <2>q. QED
    BY <1>2, <1>s, <2>1 DEF ScanKey
<1>3. ASSUME NEW op \in {"test", "get"}, Call(op) PROVE IInv'
  BY <1>3, <1>n DEF Call
<1>4. CASE TestBegin
  BY <1>4 DEF TestBegin
<1>5. CASE TestEnd
  <2>1. Pending(rdptr # wrptr) \in Result
    BY DEF Pending, Result
  <2>q. QED
    BY <1>5, <2>1 DEF TestEnd
<1>6. CASE TakeBegin
  BY <1>6 DEF TakeBegin
<1>7. CASE TakeAddress
  BY <1>7 DEF TakeAddress
<1>8. CASE TakeAdvance
  BY <1>8, <1>s DEF TakeAdvance
<1>9. CASE TakeLoad
  <2>1. KeyRead(buffer[de]) \in Result
    BY DEF KeyRead, Result
  <2>q. QED
    BY <1>9, <2>1 DEF TakeLoad
<1>10. CASE UNCHANGED vars
  BY <1>10 DEF vars
<1>q. QED
  BY <1>1, <1>2, <1>3, <1>4, <1>5, <1>6, <1>7, <1>8, <1>9, <1>10 DEF Next, Console

\* Every pointer, flag and result keeps its type: the pointers never leave the
\* buffer.
THEOREM TypeCorrect == Spec => []TypeOK
<1>1. IInv => TypeOK
  BY DEF IInv
<1>q. QED
  BY InitInv, StepInv, <1>1, PTL DEF Spec

-----------------------------------------------------------------------------
\* The refinement, one lemma per kind of step.
LEMMA RingInit == Init => Ring!Init
<1> SUFFICES ASSUME Init PROVE Ring!Init
  OBVIOUS
<1>1. rdptr = 0 /\ wrptr = 0 /\ 0 \in Index
  BY SizeAssumption DEF Init, Index
<1>2. Count(rdptr, wrptr) = 0
  BY <1>1, Counting
<1>3. Content(buffer, rdptr, wrptr) = <<>>
  BY <1>2 DEF Content
<1>q. QED
  BY <1>3 DEF Init, Ring!Init, NoResult, Ring!NoResult

\* A key pressed, in either way, is a Press.
LEMMA RingPress ==
  ASSUME IInv, NEW k \in Key, QueueKey(k) \/ ScanKey(k)
  PROVE  Ring!Press(k)
<1> DEFINE q == Content(buffer, rdptr, wrptr)
           V == Key \cup {NoKey}
           c == [buffer EXCEPT ![wrptr] = k]
<1>1. buffer \in [Index -> V]
  BY DEF IInv, TypeOK
<1>2. rdptr \in Index /\ wrptr \in Index
  BY DEF IInv, TypeOK
<1>3. /\ k \in V /\ c \in [Index -> V]
      /\ \A j \in Index : c[j] = IF j = wrptr THEN k ELSE buffer[j]
  BY <1>1
<1> HIDE DEF V, c
<1>4. Len(q) = Count(rdptr, wrptr)
  BY <1>1, <1>2, ContentIsSeq
<1>5. Full <=> Succ(wrptr) = rdptr
  BY <1>2, PointerArithmetic DEF Full
<1>6. Len(q) = Size - 1 <=> Full
  BY <1>2, <1>4, <1>5, Counting
<1>7. Len(q) \in Nat /\ Len(q) < Size
  BY <1>2, <1>4, Counting
<1>8. ~Full => Len(q) < Size - 1
  BY <1>6, <1>7, SizeAssumption
<1>9. Content(c, rdptr, wrptr) = q
  BY <1>1, <1>2, <1>3, ContentFreeSlot
<1>10. ASSUME ~Full PROVE Content(c, rdptr, Succ(wrptr)) = Extended(q, k)
  <2>1. Succ(wrptr) # rdptr
    BY <1>5, <1>10
  <2>q. QED
    BY <1>1, <1>2, <1>3, <2>1, ContentPut
<1>11. rdptr' = rdptr /\ de' = de /\ pc' = pc /\ call' = call /\ res' = res
  BY DEF QueueKey, ScanKey
<1>12. pc # "load"
  BY DEF QueueKey, ScanKey, IInv, TakenKeyIsSafe
<1>13. CASE Full
  <2>1. event' = "lost" /\ Content(buffer', rdptr', wrptr') = q
    BY <1>5, <1>9, <1>11, <1>13 DEF QueueKey, ScanKey, c
  <2>q. QED
    BY <1>6, <1>11, <1>12, <1>13, <2>1 DEF Ring!Press
<1>14. CASE ~Full
  <2>1. event' = "kept" /\ Content(buffer', rdptr', wrptr') = Append(q, k)
    BY <1>5, <1>10, <1>11, <1>14 DEF QueueKey, ScanKey, c, Extended
  <2>q. QED
    BY <1>8, <1>11, <1>12, <1>14, <2>1 DEF Ring!Press
<1>q. QED
  BY <1>13, <1>14

\* Stepping the read pointer is a Get, the fetch a stutter.
LEMMA RingGet ==
  ASSUME IInv, TakeAdvance
  PROVE  Ring!Get
<1> DEFINE q == Content(buffer, rdptr, wrptr)
           V == Key \cup {NoKey}
<1> USE DEF IInv, TypeOK, TakenKeyIsSafe, TakeAdvance
<1>1. /\ buffer \in [Index -> V] /\ rdptr \in Index /\ wrptr \in Index
      /\ rdptr # wrptr /\ de = rdptr /\ call = "get" /\ pc = "advance"
  OBVIOUS
<1>2. q # <<>> /\ Head(q) = buffer[rdptr] /\ Content(buffer, Succ(rdptr), wrptr) = Tail(q)
  BY <1>1, ContentTake
<1>3. Content(buffer', rdptr', wrptr') = Tail(q)
  BY <1>2
<1>q. QED
  BY <1>1, <1>2, <1>3 DEF Ring!Get, Ring!KeyRead, KeyRead

\* The status call's comparison of the two pointers.
LEMMA RingWaiting ==
  ASSUME IInv
  PROVE  Content(buffer, rdptr, wrptr) # <<>> <=> rdptr # wrptr
<1> DEFINE q == Content(buffer, rdptr, wrptr)
           V == Key \cup {NoKey}
<1>1. buffer \in [Index -> V]
  BY DEF IInv, TypeOK
<1>2. rdptr \in Index /\ wrptr \in Index
  BY DEF IInv, TypeOK
<1> HIDE DEF V
<1>3. q \in Seq(V) /\ Len(q) = Count(rdptr, wrptr)
  BY <1>1, <1>2, ContentIsSeq
<1>4. q = <<>> <=> Len(q) = 0
  BY <1>3
<1>q. QED
  BY <1>2, <1>3, <1>4, Counting

\* Every step of the ring is one of the queue, or leaves it alone.
LEMMA RingStep == IInv /\ [Next]_vars => [Ring!Next]_(Ring!vars)
<1> SUFFICES ASSUME IInv, [Next]_vars PROVE [Ring!Next]_(Ring!vars)
  OBVIOUS
<1> DEFINE q == Content(buffer, rdptr, wrptr)
<1> USE DEF IInv, TypeOK, TakenKeyIsSafe
<1>1. ASSUME NEW k \in Key, QueueKey(k) PROVE Ring!Next
  BY <1>1, RingPress DEF Ring!Next
<1>2. ASSUME NEW k \in Key, ScanKey(k) PROVE Ring!Next
  BY <1>2, RingPress DEF Ring!Next
<1>3. ASSUME NEW op \in {"test", "get"}, Call(op) PROVE Ring!Next
  <2>1. Ring!Call(op)
    BY <1>3 DEF Call, Ring!Call, NoResult, Ring!NoResult
  <2>q. QED
    BY <2>1 DEF Ring!Next
<1>4. CASE TestBegin
  BY <1>4 DEF TestBegin, Ring!vars
<1>5. CASE TestEnd
  <2>1. q # <<>> <=> rdptr # wrptr
    BY RingWaiting
  <2>2. CASE call = "test"
    <3>1. Ring!Test
      BY <1>5, <2>1, <2>2 DEF TestEnd, Ring!Test, Pending, Ring!Pending
    <3>q. QED
      BY <3>1 DEF Ring!Next
  <2>3. CASE call = "get"
    BY <1>5, <2>3 DEF TestEnd, Ring!vars
  <2>q. QED
    BY <1>5, <2>2, <2>3 DEF TestEnd
<1>6. CASE TakeBegin
  BY <1>6 DEF TakeBegin, Ring!vars
<1>7. CASE TakeAddress
  BY <1>7 DEF TakeAddress, Ring!vars
<1>8. CASE TakeAdvance
  BY <1>8, RingGet DEF Ring!Next
<1>9. CASE TakeLoad
  BY <1>9 DEF TakeLoad, Ring!vars
<1>10. CASE UNCHANGED vars
  BY <1>10 DEF vars, Ring!vars
<1>q. QED
  BY <1>1, <1>2, <1>3, <1>4, <1>5, <1>6, <1>7, <1>8, <1>9, <1>10 DEF Next, Console

\* Keys are read in the order they are pressed, each once, and none is lost
\* before Size - 1 are waiting, wherever the interrupt strikes.
THEOREM KeysInOrder == Spec => ImplementsKeyQueue
<1>q. QED
  BY RingInit, RingStep, InitInv, StepInv, PTL DEF Spec, ImplementsKeyQueue, Ring!Spec

=============================================================================
