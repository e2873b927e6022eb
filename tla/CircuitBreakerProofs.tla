------------------------ MODULE CircuitBreakerProofs ------------------------
(***************************************************************************)
(* What the operations of the circuit breaker do to one entry, for every   *)
(* threshold and cooldown.  The proofs about the modules that share a      *)
(* breaker (BreakerPool, Pipeline) rest on these lemmas.                   *)
(***************************************************************************)
EXTENDS CircuitBreaker, SequenceTheorems, FiniteSetTheorems, FunctionTheorems, TLAPS

\* The positions of the failures in a window.
FailsAt(r) == {i \in 1..Len(r) : ~r[i]}

\* A window has finitely many failures.
LEMMA FailsType ==
    ASSUME NEW r \in Seq(BOOLEAN)
    PROVE  IsFiniteSet(FailsAt(r)) /\ Fails(r) = Cardinality(FailsAt(r))
           /\ Fails(r) \in Nat
<1>1. IsFiniteSet(1..Len(r)) /\ FailsAt(r) \in SUBSET (1..Len(r))
  BY FS_Interval, LenProperties DEF FailsAt
<1>2. IsFiniteSet(FailsAt(r))
  BY <1>1, FS_Subset
<1>3. QED
  BY <1>2, FS_CardinalityType DEF Fails, FailsAt

\* If each failure of one window is matched by a failure of its own in another
\* window, then the other has at least as many.
LEMMA FailsMatched ==
    ASSUME NEW r \in Seq(BOOLEAN), NEW q \in Seq(BOOLEAN),
           NEW f \in [FailsAt(r) -> FailsAt(q)],
           \A a, b \in FailsAt(r) : f[a] = f[b] => a = b
    PROVE  Fails(r) <= Fails(q)
<1>1. f \in Injection(FailsAt(r), FailsAt(q))
  BY Fun_IsInj
<1>2. QED
  BY <1>1, FailsType, FS_Injection

\* Trimmed keeps the window's length, and its content shifted by one place.
LEMMA TrimmedAppend ==
    ASSUME NEW r \in Seq(BOOLEAN), NEW ok \in BOOLEAN, Len(r) <= Window
    PROVE  LET q == Trimmed(Append(r, ok))
           IN  /\ q \in Seq(BOOLEAN)
               /\ Len(r) < Window =>
                    /\ Len(q) = Len(r) + 1
                    /\ \A i \in 1..Len(r) : q[i] = r[i]
                    /\ q[Len(r) + 1] = ok
               /\ Len(r) = Window =>
                    /\ Len(q) = Window
                    /\ \A i \in 1..(Window - 1) : q[i] = r[i + 1]
                    /\ q[Window] = ok
<1> DEFINE a == Append(r, ok)
<1>1. Window \in Nat /\ Window >= 2
  BY BreakerAssumption DEF Window
<1>2. /\ Len(r) \in Nat /\ a \in Seq(BOOLEAN) /\ Len(a) = Len(r) + 1
      /\ \A i \in 1..Len(r) : a[i] = r[i]
      /\ a[Len(r) + 1] = ok
  BY AppendProperties, LenProperties
<1> HIDE DEF a
<1> DEFINE Kept == /\ Trimmed(a) \in Seq(BOOLEAN)
                   /\ Len(r) < Window =>
                        /\ Len(Trimmed(a)) = Len(r) + 1
                        /\ \A i \in 1..Len(r) : Trimmed(a)[i] = r[i]
                        /\ Trimmed(a)[Len(r) + 1] = ok
                   /\ Len(r) = Window =>
                        /\ Len(Trimmed(a)) = Window
                        /\ \A i \in 1..(Window - 1) : Trimmed(a)[i] = r[i + 1]
                        /\ Trimmed(a)[Window] = ok
<1>3. ASSUME Len(r) < Window PROVE Kept
  <2>1. Trimmed(a) = a
    BY <1>1, <1>2, <1>3 DEF Trimmed
  <2>2. QED
    BY <1>1, <1>2, <1>3, <2>1
<1>4. ASSUME Len(r) = Window PROVE Kept
  <2>1. Trimmed(a) = SubSeq(a, 2, Window + 1)
    BY <1>1, <1>2, <1>4 DEF Trimmed
  <2>2. \A i \in 2..(Window + 1) : a[i] \in BOOLEAN
    BY <1>1, <1>2, <1>4, ElementOfSeq
  <2>3. /\ SubSeq(a, 2, Window + 1) \in Seq(BOOLEAN)
        /\ Len(SubSeq(a, 2, Window + 1)) = Window
        /\ \A i \in 1..Window : SubSeq(a, 2, Window + 1)[i] = a[i + 1]
    <3> DEFINE n == Window + 1
    <3> HIDE DEF n
    <3>1. n \in Int /\ 2 \in Int /\ \A i \in 2..n : a[i] \in BOOLEAN
      BY <1>1, <2>2 DEF n
    <3>2. /\ SubSeq(a, 2, n) \in Seq(BOOLEAN)
          /\ Len(SubSeq(a, 2, n)) = IF 2 <= n THEN n - 2 + 1 ELSE 0
          /\ \A i \in 1..(n - 2 + 1) : SubSeq(a, 2, n)[i] = a[2 + i - 1]
      BY <3>1, SubSeqProperties
    <3>3. 2 <= n /\ n - 2 + 1 = Window /\ \A i \in 1..Window : 2 + i - 1 = i + 1
      BY <1>1 DEF n
    <3>4. QED
      BY <3>2, <3>3 DEF n
  <2>4. QED
    BY <1>1, <1>2, <1>4, <2>1, <2>3
<1>5. QED
  BY <1>1, <1>2, <1>3, <1>4 DEF a

\* A recorded failure never lowers the number of failures in the window, even
\* when an older failure drops out of it.
LEMMA FailureKeepsFails ==
    ASSUME NEW r \in Seq(BOOLEAN), Len(r) <= Window
    PROVE  Fails(r) <= Fails(Trimmed(Append(r, FALSE)))
<1> DEFINE q == Trimmed(Append(r, FALSE))
           f == [i \in FailsAt(r) |->
                   IF Len(r) < Window THEN i ELSE IF i = 1 THEN Window ELSE i - 1]
<1> HIDE DEF q
<1>1. Window \in Nat /\ Window >= 2 /\ Len(r) \in Nat
  BY BreakerAssumption, LenProperties DEF Window
<1>2. /\ q \in Seq(BOOLEAN)
      /\ Len(r) < Window =>
           /\ Len(q) = Len(r) + 1
           /\ \A i \in 1..Len(r) : q[i] = r[i]
      /\ Len(r) = Window =>
           /\ Len(q) = Window
           /\ \A i \in 1..(Window - 1) : q[i] = r[i + 1]
           /\ q[Window] = FALSE
  BY Zenon, TrimmedAppend DEF q
<1>3. ASSUME NEW i \in FailsAt(r) PROVE f[i] \in FailsAt(q)
  <2>1. i \in 1..Len(r) /\ ~r[i]
    BY DEF FailsAt
  <2>2. CASE Len(r) < Window
    BY <1>1, <1>2, <2>1, <2>2 DEF FailsAt
  <2>3. CASE Len(r) = Window /\ i = 1
    BY <1>1, <1>2, <2>1, <2>3 DEF FailsAt
  <2>4. CASE Len(r) = Window /\ i # 1
    <3>1. i - 1 \in 1..(Window - 1) /\ (i - 1) + 1 = i
      BY <1>1, <2>1, <2>4
    <3>2. q[i - 1] = r[i]
      BY <1>2, <2>4, <3>1
    <3>3. QED
      BY SMTT(30), <1>1, <1>2, <2>1, <2>4, <3>1, <3>2 DEF FailsAt
  <2>5. QED
    BY <1>1, <2>2, <2>3, <2>4
<1>4. \A a, b \in FailsAt(r) : f[a] = f[b] => a = b
  BY <1>1 DEF FailsAt
<1>5. f \in [FailsAt(r) -> FailsAt(q)]
  BY <1>3
<1>6. QED
  <2> HIDE DEF f
  <2> QED BY Zenon, <1>2, <1>4, <1>5, FailsMatched DEF q

\* A recorded success never raises it.
LEMMA SuccessAddsNoFails ==
    ASSUME NEW r \in Seq(BOOLEAN), Len(r) <= Window
    PROVE  Fails(Trimmed(Append(r, TRUE))) <= Fails(r)
<1> DEFINE q == Trimmed(Append(r, TRUE))
           f == [i \in FailsAt(q) |-> IF Len(r) < Window THEN i ELSE i + 1]
<1> HIDE DEF q
<1>1. Window \in Nat /\ Window >= 2 /\ Len(r) \in Nat
  BY BreakerAssumption, LenProperties DEF Window
<1>2. /\ q \in Seq(BOOLEAN)
      /\ Len(r) < Window =>
           /\ Len(q) = Len(r) + 1
           /\ \A i \in 1..Len(r) : q[i] = r[i]
           /\ q[Len(r) + 1] = TRUE
      /\ Len(r) = Window =>
           /\ Len(q) = Window
           /\ \A i \in 1..(Window - 1) : q[i] = r[i + 1]
           /\ q[Window] = TRUE
  BY ZenonT(60), TrimmedAppend DEF q
<1>3. ASSUME NEW i \in FailsAt(q) PROVE f[i] \in FailsAt(r)
  <2>1. i \in 1..Len(q) /\ ~q[i]
    BY DEF FailsAt
  <2>2. CASE Len(r) < Window
    <3>1. i \in 1..Len(r)
      BY <1>1, <1>2, <2>1, <2>2
    <3>2. QED
      BY <1>2, <2>1, <2>2, <3>1 DEF FailsAt
  <2>3. CASE Len(r) = Window
    <3>1. i \in 1..(Window - 1)
      BY <1>1, <1>2, <2>1, <2>3
    <3>2. QED
      BY SMTT(30), <1>1, <1>2, <2>1, <2>3, <3>1 DEF FailsAt
  <2>4. QED
    BY <1>1, <2>2, <2>3
<1>4. \A a, b \in FailsAt(q) : f[a] = f[b] => a = b
  BY <1>1, <1>2 DEF FailsAt
<1>5. f \in [FailsAt(q) -> FailsAt(r)]
  BY <1>3
<1>6. QED
  <2> HIDE DEF f
  <2> QED BY Zenon, <1>2, <1>4, <1>5, FailsMatched DEF q

-----------------------------------------------------------------------------
\* A fresh breaker (NewCircuitBreaker) is consistent.
LEMMA ClosedOK == Closed \in Entry /\ EntryOK(Closed)
<1>1. Closed \in Entry
  BY BreakerAssumption, EmptySeq DEF Closed, Entry
<1>2. FailsAt(<<>>) = {} /\ <<>> \in Seq(BOOLEAN) /\ Len(<<>>) = 0
  BY EmptySeq DEF FailsAt
<1>3. Fails(<<>>) = 0
  BY Zenon, <1>2, FailsType, FS_EmptySet
<1>4. QED
  BY <1>1, <1>2, <1>3, BreakerAssumption DEF Closed, EntryOK, Tripped, Window

\* Open and the passing of time keep an entry consistent.
LEMMA OpenTickOK ==
    ASSUME NEW b \in Entry
    PROVE  /\ AfterOpen(b) \in Entry /\ AfterTick(b) \in Entry
           /\ EntryOK(b) => EntryOK(AfterOpen(b)) /\ EntryOK(AfterTick(b))
<1>1. AfterOpen(b) \in Entry /\ AfterTick(b) \in Entry
  BY BreakerAssumption DEF AfterOpen, AfterTick, Entry, Probes
<1>2. /\ AfterOpen(b).recent = b.recent /\ AfterOpen(b).open = b.open
      /\ AfterTick(b).recent = b.recent /\ AfterTick(b).open = b.open
      /\ ~b.open => AfterOpen(b) = b
      /\ b.wait = 0 => AfterTick(b) = b
  BY BreakerAssumption DEF AfterOpen, AfterTick, Entry, Probes
<1>3. QED
  BY <1>1, <1>2 DEF EntryOK, Tripped

\* Record keeps an entry well formed.
LEMMA RecordType ==
    ASSUME NEW b \in Entry, NEW ok \in BOOLEAN, Len(b.recent) <= Window
    PROVE  AfterRecord(b, ok) \in Entry
<1>1. b.recent \in Seq(BOOLEAN)
  BY DEF Entry
<1>2. Trimmed(Append(b.recent, ok)) \in Seq(BOOLEAN)
  BY <1>1, TrimmedAppend
<1> DEFINE r == Trimmed(Append(b.recent, ok))
<1> HIDE DEF r
<1>3. [recent |-> r, open |-> TRUE, wait |-> Cooldown] \in Entry
  BY <1>2, BreakerAssumption DEF Entry, r
<1>4. [b EXCEPT !.recent = r] \in Entry
  BY <1>2 DEF Entry, r
<1>5. QED
  BY <1>3, <1>4, ClosedOK DEF AfterRecord, r

\* Record keeps "open" equivalent to "tripped": a failure recorded while the
\* circuit is open cannot make the window fall below the threshold, and a
\* success recorded while it is open closes it and empties the window.
LEMMA RecordOK ==
    ASSUME NEW b \in Entry, NEW ok \in BOOLEAN, EntryOK(b)
    PROVE  EntryOK(AfterRecord(b, ok))
<1> DEFINE r == Trimmed(Append(b.recent, ok))
<1>1. b.recent \in Seq(BOOLEAN) /\ Len(b.recent) \in Nat
  BY LenProperties DEF Entry
<1>2. Window \in Nat /\ Threshold \in Nat
  BY BreakerAssumption DEF Window
<1>3. r \in Seq(BOOLEAN) /\ Len(r) <= Window
  <2> HIDE DEF r
  <2>1. Len(b.recent) <= Window
    BY DEF EntryOK
  <2>2. /\ r \in Seq(BOOLEAN)
        /\ Len(b.recent) < Window => Len(r) = Len(b.recent) + 1
        /\ Len(b.recent) = Window => Len(r) = Window
    BY <1>1, <2>1, TrimmedAppend DEF r
  <2>3. QED
    BY <1>1, <1>2, <2>1, <2>2
<1>4. Fails(b.recent) \in Nat /\ Fails(r) \in Nat
  BY <1>1, <1>3, FailsType
<1>5. CASE ok /\ b.open
  BY <1>5, ClosedOK DEF AfterRecord
<1>6. CASE ~(ok /\ b.open) /\ Fails(r) >= Threshold
  <2> HIDE DEF r
  <2>1. AfterRecord(b, ok) = [recent |-> r, open |-> TRUE, wait |-> Cooldown]
    BY <1>6 DEF AfterRecord, r
  <2>2. QED
    BY <1>3, <1>6, <2>1 DEF EntryOK, Tripped
<1>7. CASE ~(ok /\ b.open) /\ ~(Fails(r) >= Threshold)
  <2>1. AfterRecord(b, ok) = [b EXCEPT !.recent = r]
    BY <1>7 DEF AfterRecord
  <2>2. ~b.open
    <3>1. SUFFICES ASSUME b.open PROVE FALSE
      OBVIOUS
    <3>2. ok = FALSE
      BY <1>7, <3>1
    <3>3. Fails(b.recent) <= Fails(r)
      BY Zenon, <1>1, <3>2, FailureKeepsFails DEF EntryOK
    <3>4. Fails(b.recent) >= Threshold
      BY <3>1 DEF EntryOK, Tripped
    <3>5. QED
      BY <1>2, <1>4, <1>7, <3>3, <3>4
  <2> HIDE DEF r
  <2>3. QED
    BY <1>3, <1>7, <2>1, <2>2 DEF EntryOK, Tripped, Entry
<1>8. QED
  BY <1>5, <1>6, <1>7

\* A success never opens a closed circuit.
LEMMA SuccessNeverTrips ==
    ASSUME NEW b \in Entry, EntryOK(b), ~b.open
    PROVE  ~AfterRecord(b, TRUE).open
<1> DEFINE r == Trimmed(Append(b.recent, TRUE))
<1> HIDE DEF r
<1>1. b.recent \in Seq(BOOLEAN) /\ Fails(b.recent) < Threshold
  BY FailsType, BreakerAssumption DEF Entry, EntryOK, Tripped
<1>2. r \in Seq(BOOLEAN)
  BY Zenon, <1>1, TrimmedAppend DEF EntryOK, r
<1>3. Fails(r) <= Fails(b.recent)
  BY ZenonT(60), <1>1, SuccessAddsNoFails DEF EntryOK, r
<1>4. Fails(r) \in Nat /\ Fails(b.recent) \in Nat
  BY <1>1, <1>2, FailsType
<1>5. ~(Fails(r) >= Threshold)
  BY <1>1, <1>3, <1>4, BreakerAssumption
<1>6. AfterRecord(b, TRUE) = [b EXCEPT !.recent = r]
  BY <1>5 DEF AfterRecord, r
<1>7. QED
  BY Zenon, <1>6 DEF Entry

\* A failure never closes an open circuit, and a success always does.
LEMMA OpenAfterRecord ==
    ASSUME NEW b \in Entry, b.open
    PROVE  AfterRecord(b, FALSE).open /\ AfterRecord(b, TRUE) = Closed
<1>1. \A r : [b EXCEPT !.recent = r].open = b.open
  BY Zenon DEF Entry
<1>2. QED
  BY Zenon, <1>1 DEF AfterRecord

\* After Record an open circuit has a full cooldown, or it was open before and
\* its cooldown runs on; Open leaves an open circuit with its old cooldown or a
\* full one.
LEMMA WaitAfter ==
    ASSUME NEW b \in Entry, NEW ok \in BOOLEAN
    PROVE  /\ AfterRecord(b, ok).open =>
                \/ AfterRecord(b, ok).wait = Cooldown
                \/ b.open /\ AfterRecord(b, ok).wait = b.wait
           /\ AfterOpen(b).open = b.open
           /\ AfterOpen(b).wait = IF Probes(b) THEN Cooldown ELSE b.wait
           /\ AfterTick(b).open = b.open
           /\ AfterTick(b).wait = IF b.wait > 0 THEN b.wait - 1 ELSE b.wait
<1>1. \A r : /\ [b EXCEPT !.recent = r].open = b.open
            /\ [b EXCEPT !.recent = r].wait = b.wait
  BY DEF Entry
<1>2. Closed.open = FALSE
  BY DEF Closed
<1>3. AfterRecord(b, ok).open =>
          \/ AfterRecord(b, ok).wait = Cooldown
          \/ b.open /\ AfterRecord(b, ok).wait = b.wait
  BY <1>1, <1>2 DEF AfterRecord
<1>4. QED
  BY <1>3 DEF AfterOpen, AfterTick, Entry
=============================================================================
