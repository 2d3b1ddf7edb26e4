--------------------------- MODULE LogBufferProofs ---------------------------
(***************************************************************************)
(* The ring of the status extension is a LogWindow, for every capacity,    *)
(* every set of records, batches and filters.                              *)
(***************************************************************************)
EXTENDS LogBuffer, SequenceTheorems, TLAPS

-----------------------------------------------------------------------------
\* The last Capacity entries of a sequence.

LEMMA LastNShort ==
  ASSUME NEW S, NEW s \in Seq(S), NEW n \in Nat, Len(s) <= n
  PROVE  Window!LastN(s, n) = s
<1>1. (IF Len(s) > n THEN Len(s) - n + 1 ELSE 1) = 1
  BY LenProperties
<1>2. Window!LastN(s, n) = SubSeq(s, 1, Len(s))
  BY <1>1, Zenon DEF Window!LastN
<1> QED
  BY <1>2, SubSeqFull

\* Dropping the first of more than n entries leaves the last n.
LEMMA LastNTail ==
  ASSUME NEW S, NEW s \in Seq(S), NEW n \in Nat, Len(s) > n
  PROVE  Window!LastN(Tail(s), n) = Window!LastN(s, n)
<1> DEFINE k == Len(s) - n
<1>1. /\ s # << >> /\ Len(s) \in Nat
      /\ Tail(s) \in Seq(S) /\ Len(Tail(s)) = Len(s) - 1
      /\ \A i \in 1 .. Len(s) - 1 : Tail(s)[i] = s[i + 1]
  BY HeadTailProperties, EmptySeq, LenProperties
<1>2. Window!LastN(s, n) = SubSeq(s, k + 1, Len(s))
  BY <1>1 DEF Window!LastN
<1>3. Window!LastN(Tail(s), n) = SubSeq(Tail(s), k, Len(s) - 1)
  <2>0. Len(Tail(s)) = Len(s) - 1 /\ Len(s) \in Nat
    BY <1>1
  <2>1. (IF Len(Tail(s)) > n THEN Len(Tail(s)) - n + 1 ELSE 1) = k
    BY <2>0, SMT
  <2> QED
    BY <2>1, <1>1, Zenon DEF Window!LastN
<1>4. k \in 1 .. Len(s)
  BY <1>1
<1>5. /\ SubSeq(s, k + 1, Len(s)) \in Seq(S)
      /\ Len(SubSeq(s, k + 1, Len(s))) = n
      /\ \A i \in 1..n : SubSeq(s, k + 1, Len(s))[i] = s[k + i]
  <2>1. \A i \in k + 1 .. Len(s) : s[i] \in S
    BY <1>1, <1>4, ElementOfSeq
  <2> QED
    BY <2>1, <1>1, <1>4, SubSeqProperties
<1>6. /\ SubSeq(Tail(s), k, Len(s) - 1) \in Seq(S)
      /\ Len(SubSeq(Tail(s), k, Len(s) - 1)) = n
      /\ \A i \in 1..n : SubSeq(Tail(s), k, Len(s) - 1)[i] = s[k + i]
  <2>1. \A i \in k .. Len(s) - 1 : Tail(s)[i] \in S
    BY <1>1, <1>4, ElementOfSeq
  <2>2. /\ SubSeq(Tail(s), k, Len(s) - 1) \in Seq(S)
        /\ Len(SubSeq(Tail(s), k, Len(s) - 1)) = n
        /\ \A i \in 1..n : SubSeq(Tail(s), k, Len(s) - 1)[i] = Tail(s)[k + i - 1]
    BY <2>1, <1>1, <1>4, SubSeqProperties
  <2> QED
    BY <2>2, <1>1, <1>4
<1> QED
  BY <1>2, <1>3, <1>5, <1>6, SeqEqual, Zenon

LEMMA OwedIsLastN == Owed = Window!LastN(Ordered \o rest, Capacity)
  BY DEF Owed, Window!LastN

-----------------------------------------------------------------------------
\* The ring.

LEMMA Wraps ==
  ASSUME NEW i \in Nat, i < Capacity + Capacity
  PROVE  i % Capacity = IF i < Capacity THEN i ELSE i - Capacity
  BY BufferAssumption

\* What a snapshot copies out are log records, at most Capacity of them.
OrderedOK ==
  /\ Ordered \in Seq(Entry)
  /\ Len(Ordered) = IF full THEN Capacity ELSE next

LEMMA OrderedSeq == RingOK => OrderedOK
<1> SUFFICES ASSUME RingOK PROVE OrderedOK
  OBVIOUS
<1> USE DEF OrderedOK
<1>1. CASE full
  <2>1. \A i \in 1..Capacity : entries[(next + i - 1) % Capacity] \in Entry
    BY <1>1, BufferAssumption, Wraps DEF RingOK, Ring
  <2> QED
    BY <2>1, <1>1, BufferAssumption DEF Ordered
<1>2. CASE ~ full
  <2>1. \A i \in 1..next : entries[i - 1] \in Entry
    BY <1>2, BufferAssumption DEF RingOK, Ring
  <2> QED
    BY <2>1, <1>2, BufferAssumption DEF Ordered, RingOK, Ring
<1> QED
  BY <1>1, <1>2

\* Between pushes a reader gets all it is owed.
LEMMA OwedWhenIdle ==
  ASSUME RingOK, rest = << >>
  PROVE  Owed = Ordered
<1>1. Ordered \o << >> = Ordered
  BY OrderedSeq, ConcatEmptySeq DEF OrderedOK
<1>2. Len(Ordered) <= Capacity
  BY OrderedSeq, BufferAssumption DEF OrderedOK, RingOK, Ring
<1> QED
  BY <1>1, <1>2, OrderedSeq, OwedIsLastN, LastNShort, BufferAssumption DEF OrderedOK

LEMMA RingInit == BufferInit => RingOK
<1> SUFFICES ASSUME BufferInit PROVE RingOK
  OBVIOUS
<1>1. << >> \in Seq(Entry)
  BY EmptySeq
<1>2. 0 \in Ring /\ \A i \in Ring : ~ (i < 0)
  BY BufferAssumption DEF Ring
<1> QED
  BY <1>1, <1>2 DEF BufferInit, RingOK

LEMMA PutNext ==
  ASSUME RingOK, Put
  PROVE  next' = IF next + 1 < Capacity THEN next + 1 ELSE 0
<1>1. next \in Nat /\ next + 1 < Capacity + Capacity /\ next + 1 <= Capacity
  BY BufferAssumption DEF RingOK, Ring
<1>2. (next + 1) % Capacity
        = IF next + 1 < Capacity THEN next + 1 ELSE next + 1 - Capacity
  BY <1>1, Wraps, BufferAssumption
<1> QED
  BY <1>1, <1>2, BufferAssumption DEF Put

LEMMA PutRing ==
  ASSUME RingOK, Put
  PROVE  RingOK'
<1>1. Head(rest) \in Entry /\ Tail(rest) \in Seq(Entry)
  BY HeadTailProperties DEF RingOK, Put
<1>2. next' = IF next + 1 < Capacity THEN next + 1 ELSE 0
  BY PutNext
<1>3. next' \in Ring /\ full' \in BOOLEAN
  BY <1>2, BufferAssumption DEF RingOK, Ring, Put
<1>4. entries' \in [Ring -> Entry \union {Blank}]
  BY <1>1 DEF RingOK, Put
<1>5. ASSUME NEW i \in Ring, full' \/ i < next'
      PROVE  entries'[i] \in Entry
  BY <1>1, <1>2, <1>5, BufferAssumption DEF RingOK, Ring, Put
<1> QED
  BY <1>1, <1>3, <1>4, <1>5 DEF RingOK, Put

LEMMA RingStep == RingOK /\ [BufferNext]_bufferVars => RingOK'
<1> SUFFICES ASSUME RingOK, [BufferNext]_bufferVars
             PROVE  RingOK'
  OBVIOUS
<1>1. ASSUME NEW b \in Batch, Lock(b)
      PROVE  RingOK'
  BY <1>1, BufferAssumption DEF Lock, RingOK
<1>2. CASE Put
  BY <1>2, PutRing
<1>3. CASE Unlock
  BY <1>3 DEF Unlock, RingOK
<1>4. CASE Clear
  BY <1>4, BufferAssumption DEF Clear, Emptied, RingOK, Ring
<1>5. CASE Reset
  BY <1>5, BufferAssumption, EmptySeq DEF Reset, Emptied, RingOK, Ring
<1>6. ASSUME NEW keep \in Query, Snapshot(keep)
      PROVE  RingOK'
  BY <1>6 DEF Snapshot, RingOK
<1>7. CASE UNCHANGED bufferVars
  BY <1>7 DEF bufferVars, RingOK
<1> QED
  BY <1>1, <1>2, <1>3, <1>4, <1>5, <1>6, <1>7 DEF BufferNext

\* Push, Clear and Snapshot (logbuffer.go) never leave a slot that a snapshot
\* would copy unwritten, at any capacity: "zero-valued until first wrap".
THEOREM RingAlways == BufferSpec => []RingOK
  BY RingInit, RingStep, PTL DEF BufferSpec

-----------------------------------------------------------------------------
\* The ring as a window.

\* Writing one record either appends it to what a snapshot copies out or, once
\* the ring is full, also drops the oldest.
LEMMA PutOrdered ==
  ASSUME RingOK, Put
  PROVE  Ordered' = IF full THEN Append(Tail(Ordered), Head(rest))
                    ELSE Append(Ordered, Head(rest))
<1> DEFINE e == Head(rest)
           grown == IF full THEN Append(Tail(Ordered), e) ELSE Append(Ordered, e)
<1>1. /\ Capacity \in Nat \ {0} /\ next \in 0 .. Capacity - 1 /\ full \in BOOLEAN
      /\ entries \in [Ring -> Entry \union {Blank}]
      /\ entries' = [entries EXCEPT ![next] = e]
      /\ full' = (full \/ next' = 0)
  BY BufferAssumption DEF RingOK, Ring, Put
<1>2. next' = IF next + 1 < Capacity THEN next + 1 ELSE 0
  BY PutNext
<1>3. e \in Entry
  BY HeadTailProperties DEF RingOK, Put
<1>4. /\ Ordered \in Seq(Entry)
      /\ Len(Ordered) = IF full THEN Capacity ELSE next
  BY OrderedSeq DEF OrderedOK
<1>5. /\ Ordered' \in Seq(Entry)
      /\ Len(Ordered') = IF full' THEN Capacity ELSE next'
  <2>1. RingOK'
    BY PutRing
  <2>2. OrderedOK'
    BY <2>1, OrderedSeq, PTL
  <2> QED
    BY <2>2 DEF OrderedOK
<1>6. CASE full
  <2>1. /\ Tail(Ordered) \in Seq(Entry) /\ Len(Tail(Ordered)) = Capacity - 1
        /\ \A i \in 1 .. Capacity - 1 : Tail(Ordered)[i] = Ordered[i + 1]
    BY <1>1, <1>4, <1>6, HeadTailProperties, EmptySeq
  <2>2. /\ grown \in Seq(Entry) /\ Len(grown) = Capacity
        /\ \A i \in 1 .. Capacity - 1 : grown[i] = Ordered[i + 1]
        /\ grown[Capacity] = e
    BY <1>1, <1>3, <1>6, <2>1, AppendProperties
  <2> HIDE DEF grown, e
  <2>3. full' = TRUE
    BY <1>1, <1>6
  <2>4. ASSUME NEW i \in 1..Capacity
        PROVE  Ordered'[i] = grown[i]
    <3>1. Ordered'[i] = entries'[(next' + i - 1) % Capacity]
      BY <2>3 DEF Ordered
    <3>2. CASE i < Capacity
      <4>1. Ordered[i + 1] = entries[(next + i) % Capacity]
        BY <1>1, <1>6, <3>2 DEF Ordered
      <4>2. (next' + i - 1) % Capacity = (next + i) % Capacity
        BY <1>1, <1>2, <3>2, Wraps
      <4>3. (next + i) % Capacity \in Ring /\ (next + i) % Capacity # next
        <5>1. (next + i) % Capacity
                = IF next + i < Capacity THEN next + i ELSE next + i - Capacity
          BY <1>1, <3>2, Wraps
        <5> QED
          BY <1>1, <3>2, <5>1 DEF Ring
      <4> QED
        BY <1>1, <2>2, <3>1, <3>2, <4>1, <4>2, <4>3
    <3>3. CASE i = Capacity
      <4>1. (next' + i - 1) % Capacity = next /\ next \in Ring
        <5>1. next' + i - 1 = IF next + 1 < Capacity THEN next + Capacity ELSE next
          BY <1>1, <1>2, <3>3
        <5>2. (next + Capacity) % Capacity = next /\ next % Capacity = next
          BY <1>1, Wraps
        <5> QED
          BY <1>1, <5>1, <5>2 DEF Ring
      <4> QED
        BY <1>1, <2>2, <3>1, <3>3, <4>1
    <3> QED
      BY <3>2, <3>3, <1>1
  <2>5. grown = Ordered'
    BY <1>1, <1>5, <2>2, <2>3, <2>4, SeqEqual
  <2> QED
    BY <1>6, <2>5 DEF grown, e
<1>7. CASE ~ full
  <2>1. /\ grown \in Seq(Entry) /\ Len(grown) = next + 1
        /\ \A i \in 1..next : grown[i] = Ordered[i]
        /\ grown[next + 1] = e
    BY <1>1, <1>3, <1>4, <1>7, AppendProperties
  <2> HIDE DEF grown, e
  <2>2. full' = (next' = 0)
    BY <1>1, <1>7
  <2>3. Len(Ordered') = next + 1
        /\ \A i \in 1 .. next + 1 : Ordered'[i] = entries'[i - 1]
    <3>1. CASE next + 1 < Capacity
      <4>1. next' = next + 1 /\ full' = FALSE
        BY <1>1, <1>2, <2>2, <3>1
      <4> QED
        BY <1>5, <4>1 DEF Ordered
    <3>2. CASE next + 1 = Capacity
      <4>0. next' = 0
        BY <1>1, <1>2, <3>2
      <4>1. next' = 0 /\ full' = TRUE
        BY <2>2, <4>0, Zenon
      <4>2. \A i \in 1..Capacity : Ordered'[i] = entries'[(0 + i - 1) % Capacity]
        BY <4>1 DEF Ordered
      <4>3. \A i \in 1..Capacity : (0 + i - 1) % Capacity = i - 1
        BY <1>1
      <4> QED
        BY <1>5, <3>2, <4>1, <4>2, <4>3
    <3> QED
      BY <1>1, <3>1, <3>2
  <2>4. ASSUME NEW i \in 1 .. next + 1
        PROVE  Ordered'[i] = grown[i]
    <3>1. CASE i <= next
      <4>1. Ordered[i] = entries[i - 1]
        BY <1>1, <1>7, <3>1 DEF Ordered
      <4>2. i - 1 \in Ring /\ i - 1 # next /\ i \in 1..next
        BY <1>1, <3>1 DEF Ring
      <4> QED
        BY <1>1, <2>1, <2>3, <4>1, <4>2
    <3>2. CASE i = next + 1
      BY <1>1, <2>1, <2>3, <3>2 DEF Ring
    <3> QED
      BY <3>1, <3>2, <1>1
  <2>5. grown = Ordered'
    BY <1>1, <1>5, <2>1, <2>3, <2>4, SeqEqual
  <2> QED
    BY <1>7, <2>5 DEF grown, e
<1> QED
  BY <1>6, <1>7, <1>1

\* A push that is under way does not change what a reader is owed.
LEMMA PutOwed ==
  ASSUME RingOK, Put
  PROVE  Owed' = Owed
<1> DEFINE e == Head(rest)
           all == Ordered \o rest
<1>1. /\ rest \in Seq(Entry) /\ rest # << >> /\ e \in Entry
      /\ rest' = Tail(rest) /\ Tail(rest) \in Seq(Entry)
      /\ rest = << e >> \o Tail(rest) /\ << e >> \in Seq(Entry)
  <2>1. rest \in Seq(Entry) /\ rest # << >> /\ rest' = Tail(rest)
    BY DEF RingOK, Put
  <2>2. e \in Entry /\ Tail(rest) \in Seq(Entry)
    BY <2>1, HeadTailProperties
  <2>3. rest = << e >> \o Tail(rest) /\ << e >> \in Seq(Entry)
    BY <2>1, <2>2
  <2> QED
    BY <2>1, <2>2, <2>3
<1>2. Ordered \in Seq(Entry) /\ Len(Ordered) = IF full THEN Capacity ELSE next
  BY OrderedSeq DEF OrderedOK
<1>3. all = (Ordered \o << e >>) \o Tail(rest) /\ all \in Seq(Entry)
  <2>1. all = (Ordered \o << e >>) \o Tail(rest)
    <3>1. Ordered \o (<< e >> \o Tail(rest)) = (Ordered \o << e >>) \o Tail(rest)
      <4>1. /\ Ordered \in Seq(Entry) /\ << e >> \in Seq(Entry)
            /\ Tail(rest) \in Seq(Entry)
        BY <1>1, <1>2
      <4> QED
        BY <4>1, ConcatAssociative
    <3> QED
      BY <1>1, <3>1, Zenon
  <2>2. all \in Seq(Entry)
    BY <1>1, <1>2, ConcatProperties
  <2> QED
    BY <2>1, <2>2
<1>4. Owed = Window!LastN(all, Capacity)
  BY OwedIsLastN
<1>5. Owed' = Window!LastN(Ordered' \o Tail(rest), Capacity)
  <2>1. Owed' = Window!LastN(Ordered' \o rest', Capacity)
    BY DEF Owed, Window!LastN
  <2> QED
    BY <1>1, <2>1
<1>6. CASE ~ full
  <2>1. Ordered' = Ordered \o << e >>
    BY <1>1, <1>2, <1>6, PutOrdered, AppendIsConcat
  <2> QED
    BY <1>3, <1>4, <1>5, <2>1
<1>7. CASE full
  <2>1. Ordered # << >> /\ Tail(Ordered) \in Seq(Entry)
    BY <1>2, <1>7, BufferAssumption, EmptySeq, HeadTailProperties
  <2>2. Ordered' = Tail(Ordered) \o << e >>
    BY <1>1, <1>7, <2>1, PutOrdered, AppendIsConcat
  <2>3. Ordered' \o Tail(rest) = Tail(Ordered) \o rest
    BY <1>1, <2>1, <2>2, ConcatAssociative
  <2>4. Tail(Ordered) \o rest = Tail(all)
    BY <1>1, <1>2, <2>1
  <2>5. Len(all) > Capacity
    BY <1>1, <1>2, <1>7, ConcatProperties, EmptySeq, BufferAssumption
  <2> QED
    BY <1>3, <1>4, <1>5, <2>3, <2>4, <2>5, LastNTail, BufferAssumption, Zenon
<1> QED
  BY <1>6, <1>7

\* A fresh or cleared ring holds nothing.
Fresh == full = FALSE /\ next = 0 /\ rest = << >>
NothingOwed == Owed = << >>

LEMMA OwedNothing == Fresh => NothingOwed
<1> SUFFICES ASSUME Fresh PROVE NothingOwed
  OBVIOUS
<1>1. Ordered = << >> /\ rest = << >>
  BY DEF Fresh, Ordered
<1>2. << >> \o << >> = << >> /\ << >> \in Seq(Entry) /\ Len(<< >>) = 0
  BY EmptySeq, ConcatEmptySeq
<1>3. Window!LastN(<< >>, Capacity) = << >>
  <2>1. Capacity \in Nat /\ Len(<< >>) <= Capacity
    BY <1>2, BufferAssumption
  <2> QED
    BY <1>2, <2>1, LastNShort, Zenon
<1>4. Owed = Window!LastN(<< >> \o << >>, Capacity)
  BY <1>1, OwedIsLastN
<1> QED
  BY <1>2, <1>3, <1>4 DEF NothingOwed

LEMMA WindowInit == BufferInit => Window!Init
  BY OwedNothing DEF BufferInit, Fresh, NothingOwed, Window!Init

LEMMA WindowStep ==
  RingOK /\ [BufferNext]_bufferVars => [Window!Next]_<<Owed, reply>>
<1> SUFFICES ASSUME RingOK, [BufferNext]_bufferVars
             PROVE  [Window!Next]_<<Owed, reply>>
  OBVIOUS
<1>1. ASSUME NEW b \in Batch, Lock(b)
      PROVE  Window!Push(b)
  <2>1. rest = << >> /\ rest' = b /\ reply' = reply /\ Ordered' = Ordered
    BY <1>1 DEF Lock, RingOK, Ordered
  <2>2. Owed' = Window!LastN(Ordered' \o rest', Capacity)
    BY DEF Owed, Window!LastN
  <2>3. Owed = Ordered
    BY <2>1, OwedWhenIdle
  <2> QED
    BY <2>1, <2>2, <2>3 DEF Window!Push
<1>2. CASE Put
  BY <1>2, PutOwed DEF Put
<1>3. CASE Unlock
  BY <1>3 DEF Unlock, Owed, Ordered
<1>4. CASE Clear \/ Reset
  <2>1. full' = FALSE /\ next' = 0 /\ rest' = << >> /\ reply' = reply
    BY <1>4 DEF Clear, Reset, Emptied, RingOK
  <2>2. Fresh'
    BY <2>1 DEF Fresh
  <2>3. NothingOwed'
    BY <2>2, OwedNothing, PTL
  <2> QED
    BY <2>1, <2>3 DEF NothingOwed, Window!Clear, Window!Next
<1>5. ASSUME NEW keep \in Query, Snapshot(keep)
      PROVE  Window!Read(keep)
  <2>1. Owed = Ordered
    BY <1>5, OwedWhenIdle DEF Snapshot, RingOK
  <2>2. Owed' = Owed
    BY <1>5 DEF Snapshot, Owed, Ordered
  <2> QED
    BY <1>5, <2>1, <2>2 DEF Snapshot, Window!Read
<1>6. CASE UNCHANGED bufferVars
  BY <1>6 DEF bufferVars, Owed, Ordered
<1> QED
  BY <1>1, <1>2, <1>3, <1>4, <1>5, <1>6 DEF BufferNext, Window!Next

\* Whatever pushes, clears and reads do to the ring, a reader gets the last
\* Capacity records since the last clear, in order and never part of a batch
\* (logbuffer.go: "fixed-capacity, thread-safe ring buffer of the most recently
\* ingested log records").
THEOREM RingIsWindow == BufferSpec => ImplementsLogWindow
  BY RingAlways, WindowInit, WindowStep, PTL
     DEF BufferSpec, ImplementsLogWindow, Window!Spec
=============================================================================
