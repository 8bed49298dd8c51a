-------------------------- MODULE ProfileDataProofs --------------------------
(***************************************************************************)
(* The invariants of the collector, for every table, buffer and set of     *)
(* stacks.                                                                 *)
(***************************************************************************)
EXTENDS ProfileData, FiniteSetTheorems, SequenceTheorems, FunctionTheorems, TLAPS

-----------------------------------------------------------------------------
(* Stacks and records.                                                     *)

\* A key is a non-empty stack of at most kMaxStackDepth slots.
LEMMA KeysType ==
  \A t \in Traces \ {<<>>} :
     LET k == Truncate(t)
     IN /\ k \in Keys
        /\ k \in Seq(Slot)
        /\ k # <<>>
        /\ Len(k) \in 1 .. kMaxStackDepth
<1> TAKE t \in Traces \ {<<>>}
<1>1. t \in Seq(Slot) /\ Len(t) \in Nat /\ Len(t) # 0
  BY TracesAssumption, EmptySeq
<1>2. CASE Len(t) > kMaxStackDepth
  <2>1. \A i \in 1 .. kMaxStackDepth : t[i] \in Slot
    BY <1>1, <1>2, SizeAssumption, ElementOfSeq
  <2>2. /\ SubSeq(t, 1, kMaxStackDepth) \in Seq(Slot)
        /\ Len(SubSeq(t, 1, kMaxStackDepth)) = kMaxStackDepth
    BY <2>1, SizeAssumption, SubSeqProperties
  <2> QED
    BY <1>2, <2>2, SizeAssumption, EmptySeq DEF Truncate, Keys
<1>3. CASE ~(Len(t) > kMaxStackDepth)
  BY <1>1, <1>3, SizeAssumption DEF Truncate, Keys
<1> QED
  BY <1>2, <1>3

LEMMA KeyFacts ==
  \A k \in Keys : k \in Seq(Slot) /\ k # <<>> /\ Len(k) \in 1 .. kMaxStackDepth
BY KeysType DEF Keys

\* The records the collector makes by itself.
LEMMA SpecialRecords ==
  /\ NoEntry \in Record
  /\ Header \in Record /\ Slots(Header) = 5 /\ Header.count = 0
  /\ EndOfData \in Record /\ Slots(EndOfData) = 3 /\ EndOfData.count = 0
BY SlotAssumption DEF NoEntry, Header, EndOfData, Record, Slots

-----------------------------------------------------------------------------
(* Counting the samples of a sequence of records.                          *)

LEMMA UnitsFinite ==
  ASSUME NEW q \in Seq(Record), NEW k
  PROVE  IsFiniteSet(Units(q, k)) /\ Tally(q, k) \in Nat
<1> DEFINE D == {j \in DOMAIN q : q[j].stack = k}
           F(i) == {i} \X (1 .. q[i].count)
           T == {F(i) : i \in D}
<1>1. DOMAIN q = 1 .. Len(q) /\ Len(q) \in Nat
  BY LenProperties
<1>2. IsFiniteSet(D)
  <2>1. IsFiniteSet(1 .. Len(q))
    BY <1>1, FS_Interval
  <2> QED
    BY <1>1, <2>1, FS_Subset
<1>3. IsFiniteSet(T)
  <2> DEFINE f == [i \in D |-> F(i)]
  <2>1. f \in Surjection(D, T)
    BY DEF Surjection
  <2> QED
    BY <1>2, <2>1, FS_Surjection
<1>4. \A S \in T : IsFiniteSet(S)
  <2>1. TAKE S \in T
  <2>2. PICK i \in D : S = F(i)
    OBVIOUS
  <2>3. q[i].count \in Int
    <3>1. i \in 1 .. Len(q)
      BY <1>1
    <3>2. q[i] \in Record
      BY <3>1, ElementOfSeq
    <3> QED
      BY <3>2 DEF Record
  <2>4. IsFiniteSet(1 .. q[i].count)
    BY <2>3, FS_Interval
  <2>5. IsFiniteSet({i})
    BY FS_Singleton
  <2> QED
    BY <2>2, <2>4, <2>5, FS_Product
<1>5. IsFiniteSet(UNION T)
  BY <1>3, <1>4, FS_UNION
<1> QED
  BY <1>5, FS_CardinalityType DEF Units, Tally

\* A record appended to the stream adds its count to its stack, and nothing
\* to any other.
LEMMA TallyAppend ==
  ASSUME NEW q \in Seq(Record), NEW e \in Record, NEW k
  PROVE  Tally(Append(q, e), k) =
            Tally(q, k) + (IF e.stack = k THEN e.count ELSE 0)
<1> DEFINE r == Append(q, e)
           n == Len(q) + 1
           N == IF e.stack = k THEN {n} \X (1 .. e.count) ELSE {}
<1>1. /\ Len(q) \in Nat /\ DOMAIN q = 1 .. Len(q)
      /\ DOMAIN r = 1 .. n /\ r[n] = e
      /\ \A i \in DOMAIN q : r[i] = q[i]
  BY LenProperties, AppendProperties
<1>2. Units(r, k) = Units(q, k) \cup N
  BY <1>1 DEF Units
<1>3. Units(q, k) \cap N = {}
  BY <1>1 DEF Units
<1>4. /\ IsFiniteSet(N)
      /\ Cardinality(N) = IF e.stack = k THEN e.count ELSE 0
  <2>1. e.count \in Nat
    BY DEF Record
  <2>2. IsFiniteSet({n}) /\ Cardinality({n}) = 1
    BY FS_Singleton
  <2>3. IsFiniteSet(1 .. e.count) /\ Cardinality(1 .. e.count) = e.count
    <3> DEFINE c == e.count
    <3>1. c \in Int /\ 1 \in Int
      BY <2>1
    <3> HIDE DEF c
    <3>2. /\ IsFiniteSet(1 .. c)
          /\ Cardinality(1 .. c) = IF 1 > c THEN 0 ELSE c - 1 + 1
      BY <3>1, FS_Interval
    <3>3. c \in Nat
      BY <2>1 DEF c
    <3>4. Cardinality(1 .. c) = c
      BY <3>2, <3>3
    <3> QED
      BY <3>2, <3>4 DEF c
  <2>4. /\ IsFiniteSet({n} \X (1 .. e.count))
        /\ Cardinality({n} \X (1 .. e.count))
             = Cardinality({n}) * Cardinality(1 .. e.count)
    BY <2>2, <2>3, FS_Product
  <2>5. Cardinality({n} \X (1 .. e.count)) = e.count
    BY <2>1, <2>2, <2>3, <2>4
  <2> QED
    BY <2>4, <2>5, FS_EmptySet
<1>5. Cardinality(Units(r, k)) = Cardinality(Units(q, k)) + Cardinality(N) - 0
  BY <1>2, <1>3, <1>4, UnitsFinite, FS_Union, FS_EmptySet
<1>6. Tally(q, k) \in Nat /\ (IF e.stack = k THEN e.count ELSE 0) \in Nat
  BY UnitsFinite DEF Record
<1> QED
  BY <1>4, <1>5, <1>6 DEF Tally

LEMMA TallyEmpty == \A k : Tally(<<>>, k) = 0
BY FS_EmptySet DEF Tally, Units

LEMMA TallyHeader == \A k : Tally(<<Header>>, k) = 0
<1> TAKE k
<1>1. <<Header>> = Append(<<>>, Header)
  BY SpecialRecords
<1>2. Tally(Append(<<>>, Header), k) = 0 + 0
  <2>1. <<>> \in Seq(Record)
    BY EmptySeq
  <2>2. Tally(Append(<<>>, Header), k)
          = Tally(<<>>, k) + (IF Header.stack = k THEN Header.count ELSE 0)
    BY <2>1, SpecialRecords, TallyAppend
  <2> QED
    BY <2>2, SpecialRecords, TallyEmpty
<1> QED
  BY <1>1, <1>2

-----------------------------------------------------------------------------
(* The inductive invariant.                                                *)

\* What the phases say of the session and of the stream.
PhaseOK ==
  /\ phase # "idle" \/ crashed => out
  /\ phase = "closing" => SweepDone
  /\ ~out => evict = <<>>
  /\ out /\ ~crashed => file \o evict # <<>>
  /\ crashed => Open(file)
  /\ phase = "closing" /\ ~crashed =>
       /\ evict # <<>>
       /\ evict[Len(evict)] = EndOfData

IInv ==
  /\ TypeOK
  /\ TableOK
  /\ BufferInBounds
  /\ StreamOK
  /\ PhaseOK

\* Evict keeps the buffer well typed and within its bounds, and appends the
\* record to the stream.
LEMMA EvictFacts ==
  ASSUME TypeOK, BufferInBounds, NEW e \in Record, Slots(e) <= kBufferLength,
         Evict(e)
  PROVE  /\ evict' \in Seq(Record) /\ file' \in Seq(Record)
         /\ numEvicted' \in Nat
         /\ numEvicted' <= kBufferLength
         /\ file' \o evict' = Append(file \o evict, e)
         /\ evict' # <<>> /\ evict'[Len(evict')] = e
         /\ file' = file \/ file' = file \o evict
<1> USE DEF TypeOK, BufferInBounds
<1>1. Slots(e) \in Nat
  BY LenProperties DEF Slots, Record
<1>2. CASE Fits(e) /\ evict' = Append(evict, e)
           /\ numEvicted' = numEvicted + Slots(e) /\ UNCHANGED file
  <2>1. /\ Append(evict, e) \in Seq(Record)
        /\ Append(evict, e) # <<>>
        /\ Append(evict, e)[Len(Append(evict, e))] = e
    BY AppendProperties, EmptySeq
  <2>2. file \o Append(evict, e) = Append(file \o evict, e)
    BY ConcatProperties, AppendProperties
  <2>3. numEvicted + Slots(e) \in Nat /\ numEvicted + Slots(e) <= kBufferLength
    BY <1>1, <1>2, SizeAssumption DEF Fits
  <2> QED
    BY <1>2, <2>1, <2>2, <2>3
<1>3. CASE file' = file \o evict /\ evict' = <<e>> /\ numEvicted' = Slots(e)
  <2>1. file \o evict \in Seq(Record)
    BY ConcatProperties
  <2>2. (file \o evict) \o <<e>> = Append(file \o evict, e)
    BY <2>1
  <2> QED
    BY <1>1, <1>3, <2>1, <2>2
<1> QED
  BY <1>2, <1>3 DEF Evict

\* Every entry of the table fits in an empty buffer.
LEMMA EntryFits ==
  ASSUME TypeOK, TableOK, NEW b \in Buckets, NEW a \in Ways
  PROVE  /\ table[b][a] \in Record
         /\ Slots(table[b][a]) <= kBufferLength
         /\ table[b][a].count > 0 => IsSample(table[b][a])
<1>1. table[b][a] \in Record
  BY DEF TypeOK
<1>2. table[b][a].count > 0 => IsSample(table[b][a])
  BY DEF TableOK, IsSample
<1>3. CASE table[b][a].stack = <<>>
  BY <1>1, <1>2, <1>3, SizeAssumption, EmptySeq DEF Slots
<1>4. CASE table[b][a].stack # <<>>
  <2>1. table[b][a].stack \in Keys
    BY <1>4 DEF TableOK
  <2>2. Len(table[b][a].stack) \in 1 .. kMaxStackDepth
    BY <2>1, KeyFacts
  <2> QED
    BY <1>1, <1>2, <2>2, SizeAssumption DEF Slots
<1> QED
  BY <1>3, <1>4

\* No record of a sample is taken for the end of the data.
LEMMA SampleIsNotEnd ==
  /\ \A e \in Record : IsSample(e) => ~IsEnd(e)
  /\ ~IsEnd(Header)
  /\ IsEnd(EndOfData)
<1>1. \A e \in Record : IsSample(e) => ~IsEnd(e)
  BY DEF IsSample, IsEnd, Record
<1>2. ~IsEnd(Header) /\ IsEnd(EndOfData)
  BY DEF IsEnd, Header, EndOfData
<1> QED
  BY <1>1, <1>2

\* Streams grow at the end ...
LEMMA OpenAppend ==
  ASSUME NEW s \in Seq(Record), s # <<>>, Open(s), NEW e \in Record
  PROVE  /\ IsSample(e) => Open(Append(s, e))
         /\ e = EndOfData => Closed(Append(s, e))
<1> DEFINE r == Append(s, e)
<1>1. /\ Len(s) \in Nat /\ Len(s) # 0
      /\ Len(r) = Len(s) + 1
      /\ r[Len(s) + 1] = e
      /\ \A i \in 1 .. Len(s) : r[i] = s[i]
  BY AppendProperties, LenProperties, EmptySeq
<1> HIDE DEF r
<1>2. r[1] = Header /\ \A i \in 2 .. Len(s) : IsSample(r[i])
  BY <1>1 DEF Open
<1>3. ASSUME IsSample(e) PROVE Open(r)
  <2>1. \A i \in 2 .. Len(r) : i = Len(s) + 1 \/ i \in 2 .. Len(s)
    BY <1>1
  <2> QED
    BY <1>1, <1>2, <1>3, <2>1 DEF Open
<1>4. ASSUME e = EndOfData PROVE Closed(r)
  BY <1>1, <1>2, <1>4 DEF Closed
<1> QED
  BY <1>3, <1>4 DEF r

\* ... and what is cut off an open one leaves an open one, while a closed
\* one loses its marker first.
LEMMA PrefixOpen ==
  ASSUME NEW s \in Seq(Record), NEW p \in Seq(Record),
         Open(s) \/ (Closed(s) /\ Len(p) < Len(s)),
         Len(p) <= Len(s), \A i \in 1 .. Len(p) : p[i] = s[i]
  PROVE  Open(p)
<1> SUFFICES ASSUME p # <<>> PROVE Open(p)
  BY DEF Open
<1>1. Len(s) \in Nat /\ Len(p) \in Nat /\ Len(p) # 0 /\ s # <<>>
  BY LenProperties, EmptySeq
<1>2. p[1] = Header
  BY <1>1 DEF Open, Closed
<1>3. ASSUME NEW i \in 2 .. Len(p) PROVE IsSample(p[i])
  BY <1>1 DEF Open, Closed
<1> QED
  BY <1>2, <1>3 DEF Open

\* An open stream has no end-of-data marker, a closed one ends with it.
LEMMA OpenIncomplete ==
  ASSUME NEW s \in Seq(Record), Open(s)
  PROVE  ~IsComplete(s)
<1> SUFFICES ASSUME s # <<>> PROVE ~IsEnd(s[Len(s)])
  BY DEF IsComplete
<1> DEFINE last == s[Len(s)]
<1>1. Len(s) \in Nat /\ Len(s) # 0
  BY LenProperties, EmptySeq
<1>2. last = Header \/ (last \in Record /\ IsSample(last))
  <2>1. CASE Len(s) = 1
    BY <2>1 DEF Open
  <2>2. CASE Len(s) # 1
    BY <1>1, <2>2, ElementOfSeq DEF Open
  <2> QED
    BY <2>1, <2>2
<1> HIDE DEF last
<1>3. ~IsEnd(last)
  BY <1>2, SampleIsNotEnd
<1> QED
  BY <1>3 DEF last

LEMMA ClosedComplete ==
  ASSUME NEW s \in Seq(Record), s # <<>>, s[Len(s)] = EndOfData
  PROVE  IsComplete(s)
BY SampleIsNotEnd DEF IsComplete

\* A table that has not been started is as every operation leaves one.
THEOREM InitInvariant == Init => IInv
<1> SUFFICES ASSUME Init PROVE IInv
  OBVIOUS
<1> USE DEF Init
<1>1. NoEntry \in Record /\ NoEntry.count = 0 /\ NoEntry.stack = <<>>
  BY SpecialRecords DEF NoEntry
<1>2. /\ <<>> \in Seq(Record)
      /\ cursor \in [bucket : 0 .. kBuckets, way : Ways]
  BY EmptySeq, SizeAssumption DEF FirstEntry, Ways
<1>3. TypeOK
  <2>1. table \in [Buckets -> [Ways -> Record]]
    BY <1>1 DEF EmptyTable
  <2>2. evict \in Seq(Record) /\ file \in Seq(Record)
    BY <1>2
  <2>3. numEvicted \in Nat /\ count \in 0 .. MaxSamples
    BY SizeAssumption
  <2> QED
    BY <1>2, <2>1, <2>2, <2>3 DEF TypeOK
<1>4. TableOK
  BY <1>1 DEF TableOK, EmptyTable
<1>5. BufferInBounds
  BY SizeAssumption DEF BufferInBounds
<1>6. StreamOK
  <2>1. <<>> \o <<>> = <<>>
    BY <1>2, ConcatEmptySeq
  <2>2. Stream = <<>>
    BY <2>1 DEF Stream
  <2> QED
    BY <2>2 DEF StreamOK, Open
<1>7. PhaseOK
  BY DEF PhaseOK
<1> QED
  BY <1>3, <1>4, <1>5, <1>6, <1>7 DEF IInv

-----------------------------------------------------------------------------
(* Each action keeps the invariant.                                        *)

\* While a session is open and Stop has not stored its marker, the stream is
\* a header and samples.
LEMMA OpenStream ==
  ASSUME IInv, out, ~crashed, phase # "closing"
  PROVE  /\ file \o evict \in Seq(Record)
         /\ file \o evict # <<>>
         /\ Open(file \o evict)
         /\ Stream = file \o evict
<1>1. Stream = file \o evict
  BY DEF Stream
<1>2. file \o evict \in Seq(Record)
  BY ConcatProperties DEF IInv, TypeOK
<1>3. Open(file \o evict)
  BY <1>1 DEF IInv, StreamOK
<1> QED
  BY <1>1, <1>2, <1>3 DEF IInv, PhaseOK

\* What happens to the buffer and the file when the table gives up a sample.
LEMMA EvictSample ==
  ASSUME IInv, out, ~crashed, phase # "closing",
         NEW b \in Buckets, NEW a \in Ways,
         Spill(table[b][a])
  PROVE  /\ evict' \in Seq(Record) /\ file' \in Seq(Record)
         /\ numEvicted' \in Nat /\ numEvicted' <= kBufferLength
         /\ Open(file' \o evict')
         /\ file' \o evict' # <<>>
<1> DEFINE e == table[b][a]
<1>1. e \in Record /\ Slots(e) <= kBufferLength /\ (e.count > 0 => IsSample(e))
  BY EntryFits DEF IInv
<1> HIDE DEF e
<1>2. CASE e.count > 0 /\ Evict(e)
  <2>1. /\ evict' \in Seq(Record) /\ file' \in Seq(Record)
        /\ numEvicted' \in Nat /\ numEvicted' <= kBufferLength
        /\ file' \o evict' = Append(file \o evict, e)
    BY <1>1, <1>2, EvictFacts DEF IInv
  <2>2. Open(Append(file \o evict, e)) /\ Append(file \o evict, e) # <<>>
    BY <1>1, <1>2, OpenStream, OpenAppend, AppendProperties
  <2> QED
    BY <2>1, <2>2
<1>3. CASE e.count = 0 /\ KeepBuffer
  BY <1>3, OpenStream DEF KeepBuffer, IInv, TypeOK, BufferInBounds
<1> QED
  BY <1>2, <1>3 DEF e, Spill

LEMMA StartStep == IInv /\ Start => IInv'
<1> SUFFICES ASSUME IInv, Start PROVE IInv'
  OBVIOUS
<1> USE DEF Start, Idle
<1>1. NoEntry \in Record /\ NoEntry.count = 0 /\ NoEntry.stack = <<>>
  BY SpecialRecords DEF NoEntry
<1>2. /\ evict' \in Seq(Record) /\ file' \in Seq(Record)
      /\ evict' # <<>>
      /\ file' \o evict' = <<Header>>
  <2>1. <<>> \in Seq(Record) /\ <<Header>> \in Seq(Record)
    BY SpecialRecords, EmptySeq
  <2>2. <<>> \o <<Header>> = <<Header>>
    BY <2>1, ConcatEmptySeq
  <2> QED
    BY <2>1, <2>2
<1>3. TypeOK'
  <2>1. table' \in [Buckets -> [Ways -> Record]]
    BY <1>1 DEF EmptyTable
  <2>2. numEvicted' \in Nat /\ count' \in 0 .. MaxSamples
    BY SpecialRecords, SizeAssumption
  <2> QED
    BY <1>2, <2>1, <2>2 DEF IInv, TypeOK
<1>4. TableOK'
  BY <1>1 DEF TableOK, EmptyTable, Matches
<1>5. BufferInBounds'
  BY SpecialRecords, SizeAssumption DEF BufferInBounds
<1>6. StreamOK'
  BY <1>2 DEF StreamOK, Stream, Open
<1>7. PhaseOK'
  BY <1>2 DEF PhaseOK
<1> QED
  BY <1>3, <1>4, <1>5, <1>6, <1>7 DEF IInv

\* The end of a session, by Reset or by Stop.
LEMMA ReleaseStep ==
  ASSUME IInv, Release, ~crashed, count' = count, cursor' = cursor,
         crashed' = crashed,
         file' \in Seq(Record), Open(file') \/ Closed(file')
  PROVE  IInv'
<1> USE DEF Release
<1>1. NoEntry \in Record /\ NoEntry.count = 0 /\ NoEntry.stack = <<>>
  BY SpecialRecords DEF NoEntry
<1>2. file' \o evict' = file' /\ evict' \in Seq(Record)
  BY ConcatEmptySeq, EmptySeq
<1>3. TypeOK'
  <2>1. table' \in [Buckets -> [Ways -> Record]]
    BY <1>1 DEF EmptyTable
  <2> QED
    BY <1>2, <2>1 DEF IInv, TypeOK
<1>4. TableOK'
  BY <1>1 DEF TableOK, EmptyTable, Matches
<1>5. BufferInBounds'
  BY SizeAssumption DEF BufferInBounds
<1>6. StreamOK'
  BY <1>2 DEF StreamOK, Stream
<1>7. PhaseOK'
  BY DEF PhaseOK
<1> QED
  BY <1>3, <1>4, <1>5, <1>6, <1>7 DEF IInv

LEMMA ResetStep == IInv /\ Reset => IInv'
<1> SUFFICES ASSUME IInv, Reset PROVE IInv'
  OBVIOUS
<1> USE DEF Reset, Idle
<1>1. file \in Seq(Record) /\ evict \in Seq(Record)
  BY DEF IInv, TypeOK
<1>2. /\ Len(file) <= Len(file \o evict)
      /\ \A i \in 1 .. Len(file) : file[i] = (file \o evict)[i]
  BY <1>1, ConcatProperties, LenProperties
<1>3. Open(file)
  BY <1>1, <1>2, OpenStream, PrefixOpen
<1> QED
  BY <1>1, <1>3, ReleaseStep

\* A step within a session, before the end-of-data marker.
LEMMA OpenStep ==
  ASSUME TypeOK', TableOK', numEvicted' <= kBufferLength,
         out', ~crashed', phase' # "closing",
         Open(file' \o evict'), file' \o evict' # <<>>
  PROVE  IInv'
<1>1. StreamOK'
  BY DEF StreamOK, Stream
<1>2. PhaseOK'
  BY DEF PhaseOK
<1> QED
  BY <1>1, <1>2 DEF IInv, BufferInBounds

LEMMA AddHitStep == ASSUME NEW t \in Traces, IInv, AddHit(t) PROVE IInv'
<1> DEFINE k == Truncate(t)
           b == Hash(k)
<1>1. /\ Idle /\ out /\ t # <<>> /\ count < MaxSamples
      /\ count' = count + 1 /\ KeepBuffer
      /\ UNCHANGED <<out, phase, cursor, crashed>>
  BY DEF AddHit, Adding
<1>2. k \in Keys /\ k # <<>> /\ b \in Buckets
  BY <1>1, KeysType, HashAssumption
<1>3. PICK a \in Ways : /\ IsHit(b, a, k)
                        /\ table' = [table EXCEPT ![b][a].count = @ + 1]
  BY DEF AddHit
<1> HIDE DEF k, b
<1>4. table \in [Buckets -> [Ways -> Record]]
  BY DEF IInv, TypeOK
<1>5. /\ table[b][a] \in Record /\ table[b][a].stack = k
      /\ table'[b][a] = [table[b][a] EXCEPT !.count = @ + 1]
      /\ \A c \in Buckets, w \in Ways :
           c # b \/ w # a => table'[c][w] = table[c][w]
  BY <1>2, <1>3, <1>4 DEF IsHit, Matches
<1>6. table'[b][a].count = table[b][a].count + 1 /\ table'[b][a].stack = k
  BY <1>5 DEF Record
<1>7. \A c \in Buckets, w \in Ways : table'[c][w].stack = table[c][w].stack
  BY <1>5, <1>6
<1>8. TypeOK'
  <2>1. [table[b][a] EXCEPT !.count = @ + 1] \in Record
    BY <1>5 DEF Record
  <2>2. table' \in [Buckets -> [Ways -> Record]]
    BY <1>2, <1>3, <1>4, <2>1
  <2>3. count' \in 0 .. MaxSamples
    BY <1>1, SizeAssumption DEF IInv, TypeOK
  <2> QED
    BY <1>1, <2>2, <2>3 DEF IInv, TypeOK, KeepBuffer
<1>9. TableOK'
  <2> SUFFICES ASSUME NEW c \in Buckets, NEW w \in Ways
               PROVE  /\ table'[c][w].count > 0 <=> table'[c][w].stack # <<>>
                      /\ table'[c][w].stack # <<>> =>
                           /\ table'[c][w].stack \in Keys
                           /\ Hash(table'[c][w].stack) = c
                           /\ \A v \in Ways :
                                table'[c][v].stack = table'[c][w].stack => v = w
    BY DEF TableOK, Matches
  <2>1. table'[c][w].count > 0 <=> table[c][w].count > 0
    <3>1. CASE c = b /\ w = a
      <4>1. table[b][a].count > 0
        BY <1>2, <1>5 DEF IInv, TableOK
      <4> QED
        BY <1>5, <1>6, <3>1, <4>1 DEF Record
    <3>2. CASE c # b \/ w # a
      BY <1>5, <3>2
    <3> QED
      BY <3>1, <3>2
  <2> QED
    BY <1>7, <2>1 DEF IInv, TableOK, Matches
<1> QED
  BY <1>1, <1>8, <1>9, OpenStream, OpenStep
     DEF Idle, KeepBuffer, IInv, BufferInBounds

LEMMA AddMissStep == ASSUME NEW t \in Traces, IInv, AddMiss(t) PROVE IInv'
<1> DEFINE k == Truncate(t)
           b == Hash(k)
           new == [count |-> 1, stack |-> k]
<1>1. /\ Idle /\ out /\ t # <<>> /\ count < MaxSamples
      /\ count' = count + 1
      /\ UNCHANGED <<out, phase, cursor, crashed>>
      /\ \A w \in Ways : ~Matches(b, w, k)
  BY DEF AddMiss, Adding
<1>2. k \in Keys /\ k # <<>> /\ k \in Seq(Slot) /\ b \in Buckets
  BY <1>1, KeysType, HashAssumption
<1>3. PICK a \in Ways :
        /\ Spill(table[b][a])
        /\ table' = [table EXCEPT ![b][a] = new]
  BY DEF AddMiss
<1>4. new \in Record /\ new.count = 1 /\ new.stack = k
  BY <1>2 DEF Record
<1>h. Hash(k) = b
  OBVIOUS
<1> HIDE DEF k, b, new
<1>5. table \in [Buckets -> [Ways -> Record]]
  BY DEF IInv, TypeOK
<1>6. /\ table'[b][a] = new
      /\ \A c \in Buckets, w \in Ways :
           c # b \/ w # a => table'[c][w] = table[c][w]
  BY <1>2, <1>3, <1>5
<1>7. /\ evict' \in Seq(Record) /\ file' \in Seq(Record)
      /\ numEvicted' \in Nat /\ numEvicted' <= kBufferLength
      /\ Open(file' \o evict')
      /\ file' \o evict' # <<>>
  BY <1>1, <1>2, <1>3, EvictSample DEF Idle
<1>8. TypeOK'
  <2>1. table' \in [Buckets -> [Ways -> Record]]
    BY <1>2, <1>3, <1>4, <1>5
  <2>2. count' \in 0 .. MaxSamples
    BY <1>1, SizeAssumption DEF IInv, TypeOK
  <2> QED
    BY <1>1, <1>7, <2>1, <2>2 DEF IInv, TypeOK
<1>9. TableOK'
  <2> SUFFICES ASSUME NEW c \in Buckets, NEW w \in Ways
               PROVE  /\ table'[c][w].count > 0 <=> table'[c][w].stack # <<>>
                      /\ table'[c][w].stack # <<>> =>
                           /\ table'[c][w].stack \in Keys
                           /\ Hash(table'[c][w].stack) = c
                           /\ \A v \in Ways :
                                table'[c][v].stack = table'[c][w].stack => v = w
    BY DEF TableOK, Matches
  <2>1. CASE c = b /\ w = a
    BY <1>1, <1>2, <1>4, <1>6, <1>h, <2>1 DEF Matches
  <2>2. CASE c = b /\ w # a
    BY <1>1, <1>4, <1>6, <2>2 DEF Matches, IInv, TableOK
  <2>3. CASE c # b
    BY <1>6, <2>3 DEF Matches, IInv, TableOK
  <2> QED
    BY <2>1, <2>2, <2>3
<1> QED
  BY <1>1, <1>7, <1>8, <1>9, OpenStep DEF Idle

LEMMA AddEmptyStep == IInv /\ AddEmpty => IInv'
<1> SUFFICES ASSUME IInv, AddEmpty PROVE IInv'
  OBVIOUS
<1> USE DEF AddEmpty, Idle
<1>1. file \in Seq(Record) /\ evict \in Seq(Record)
  BY DEF IInv, TypeOK
<1>2. /\ Len(file) <= Len(file \o evict)
      /\ \A i \in 1 .. Len(file) : file[i] = (file \o evict)[i]
  BY <1>1, ConcatProperties, LenProperties
<1>3. Open(file)
  BY <1>1, <1>2, OpenStream, PrefixOpen
<1>4. TypeOK'
  BY DEF IInv, TypeOK
<1>5. TableOK'
  BY DEF IInv, TableOK, Matches
<1>6. StreamOK'
  BY <1>3 DEF StreamOK, Stream
<1>7. PhaseOK'
  <2>1. Open(file')
    BY <1>3
  <2> QED
    BY <2>1 DEF IInv, PhaseOK
<1> QED
  BY <1>4, <1>5, <1>6, <1>7 DEF IInv, BufferInBounds

LEMMA BeginStep ==
  ASSUME NEW p \in {"stopping", "flushing"}, IInv, BeginSweep(p)
  PROVE  IInv'
<1> USE DEF BeginSweep, Idle, KeepBuffer
<1>1. TypeOK'
  <2>1. cursor' \in [bucket : 0 .. kBuckets, way : Ways]
    BY SizeAssumption DEF FirstEntry, Ways
  <2> QED
    BY <2>1 DEF IInv, TypeOK
<1>2. TableOK'
  BY DEF IInv, TableOK, Matches
<1> QED
  BY <1>1, <1>2, OpenStream, OpenStep DEF IInv, BufferInBounds

LEMMA NextEntryType ==
  ASSUME NEW c \in [bucket : 0 .. kBuckets, way : Ways], c.bucket # kBuckets
  PROVE  /\ c.bucket \in Buckets /\ c.way \in Ways
         /\ NextEntry(c) \in [bucket : 0 .. kBuckets, way : Ways]
<1>1. c.bucket \in Buckets /\ c.way \in Ways
  BY SizeAssumption DEF Buckets
<1>2. CASE c.way + 1 < kAssociativity
  <2>1. c.way + 1 \in Ways
    BY <1>1, <1>2, SizeAssumption DEF Ways
  <2> QED
    BY <1>1, <1>2, <2>1 DEF NextEntry
<1>3. CASE ~(c.way + 1 < kAssociativity)
  <2>1. c.bucket + 1 \in 0 .. kBuckets /\ 0 \in Ways
    BY <1>1, SizeAssumption DEF Ways, Buckets
  <2> QED
    BY <1>1, <1>3, <2>1 DEF NextEntry
<1> QED
  BY <1>1, <1>2, <1>3

\* What FlushTable leaves of an entry.
LEMMA ClearedEntry ==
  ASSUME IInv, NEW b \in Buckets, NEW a \in Ways
  PROVE  [table EXCEPT ![b][a] = Cleared(@)] = [table EXCEPT ![b][a] = NoEntry]
<1>1. table \in [Buckets -> [Ways -> Record]]
  BY DEF IInv, TypeOK
<1>2. ASSUME NEW e \in Record PROVE Cleared(e) = NoEntry
  <2>1. e = [count |-> e.count, stack |-> e.stack]
    BY DEF Record
  <2>2. [e EXCEPT !.count = 0] = [count |-> 0, stack |-> e.stack]
    BY <2>1
  <2>3. [[count |-> 0, stack |-> e.stack] EXCEPT !.stack = <<>>] = NoEntry
    BY DEF NoEntry
  <2> QED
    BY <2>2, <2>3 DEF Cleared
<1> QED
  BY <1>1, <1>2

LEMMA SweepStep == IInv /\ Sweep => IInv'
<1> SUFFICES ASSUME IInv, Sweep PROVE IInv'
  OBVIOUS
<1> DEFINE b == cursor.bucket
           a == cursor.way
<1>1. /\ ~crashed /\ phase # "closing" /\ phase # "idle" /\ ~SweepDone
      /\ UNCHANGED <<out, count, phase, crashed>>
      /\ cursor' = NextEntry(cursor)
  BY DEF Sweep
<1>2. out
  BY <1>1 DEF IInv, PhaseOK
<1>3. /\ b \in Buckets /\ a \in Ways
      /\ cursor' \in [bucket : 0 .. kBuckets, way : Ways]
  BY <1>1, NextEntryType DEF IInv, TypeOK, SweepDone
<1>4. /\ Spill(table[b][a])
      /\ table' = table \/ table' = [table EXCEPT ![b][a] = NoEntry]
  BY <1>3, ClearedEntry DEF Sweep
<1> HIDE DEF a, b
<1>5. table \in [Buckets -> [Ways -> Record]]
  BY DEF IInv, TypeOK
<1>6. NoEntry \in Record /\ NoEntry.count = 0 /\ NoEntry.stack = <<>>
  BY SpecialRecords DEF NoEntry
<1>7. /\ evict' \in Seq(Record) /\ file' \in Seq(Record)
      /\ numEvicted' \in Nat /\ numEvicted' <= kBufferLength
      /\ Open(file' \o evict')
      /\ file' \o evict' # <<>>
  BY <1>1, <1>2, <1>3, <1>4, EvictSample
<1>8. TypeOK'
  <2>1. table' \in [Buckets -> [Ways -> Record]]
    BY <1>3, <1>4, <1>5, <1>6
  <2> QED
    BY <1>1, <1>3, <1>7, <2>1 DEF IInv, TypeOK
<1>9. TableOK'
  <2>1. CASE table' = table
    BY <2>1 DEF IInv, TableOK, Matches
  <2>2. CASE table' = [table EXCEPT ![b][a] = NoEntry]
    <3>1. /\ table'[b][a] = NoEntry
          /\ \A c \in Buckets, w \in Ways :
               c # b \/ w # a => table'[c][w] = table[c][w]
      BY <1>3, <1>5, <2>2
    <3>2. \A c \in Buckets, w \in Ways :
             \/ table'[c][w] = table[c][w]
             \/ table'[c][w].count = 0 /\ table'[c][w].stack = <<>>
      BY <1>6, <3>1
    <3> QED
      BY <3>2 DEF IInv, TableOK, Matches
  <2> QED
    BY <1>4, <2>1, <2>2
<1> QED
  BY <1>1, <1>2, <1>7, <1>8, <1>9, OpenStep

LEMMA FlushEndStep == IInv /\ FlushEnd => IInv'
<1> SUFFICES ASSUME IInv, FlushEnd PROVE IInv'
  OBVIOUS
<1> USE DEF FlushEnd, FlushEvicted
<1>1. out /\ file \o evict \in Seq(Record) /\ <<>> \in Seq(Record)
  BY OpenStream, EmptySeq DEF IInv, PhaseOK
<1>2. file' \o evict' = file \o evict
  BY <1>1, ConcatEmptySeq
<1>3. TypeOK'
  BY <1>1 DEF IInv, TypeOK
<1>4. TableOK'
  BY DEF IInv, TableOK, Matches
<1> QED
  BY <1>1, <1>2, <1>3, <1>4, OpenStream, OpenStep, SizeAssumption

LEMMA StopMarkStep == IInv /\ StopMark => IInv'
<1> SUFFICES ASSUME IInv, StopMark PROVE IInv'
  OBVIOUS
<1> USE DEF StopMark, MarkDue
<1>1. out /\ EndOfData \in Record /\ Slots(EndOfData) <= kBufferLength
  BY SpecialRecords, SizeAssumption DEF IInv, PhaseOK
<1>2. /\ evict' \in Seq(Record) /\ file' \in Seq(Record)
      /\ numEvicted' \in Nat /\ numEvicted' <= kBufferLength
      /\ file' \o evict' = Append(file \o evict, EndOfData)
      /\ evict' # <<>> /\ evict'[Len(evict')] = EndOfData
  BY <1>1, EvictFacts DEF IInv
<1>3. Closed(file' \o evict') /\ file' \o evict' # <<>>
  BY <1>1, <1>2, OpenStream, OpenAppend, AppendProperties
<1>4. TypeOK'
  BY <1>2 DEF IInv, TypeOK
<1>5. TableOK'
  BY DEF IInv, TableOK, Matches
<1>6. StreamOK'
  BY <1>3 DEF StreamOK, Stream
<1>7. PhaseOK'
  BY <1>1, <1>2, <1>3 DEF PhaseOK, SweepDone
<1> QED
  BY <1>2, <1>4, <1>5, <1>6, <1>7 DEF IInv, BufferInBounds

LEMMA StopEndStep == IInv /\ StopEnd => IInv'
<1> SUFFICES ASSUME IInv, StopEnd PROVE IInv'
  OBVIOUS
<1> USE DEF StopEnd
<1>1. file \o evict \in Seq(Record)
  BY ConcatProperties DEF IInv, TypeOK
<1>2. Open(file \o evict) \/ Closed(file \o evict)
  BY DEF IInv, StreamOK, Stream
<1> QED
  BY <1>1, <1>2, ReleaseStep

LEMMA WriteFailsStep == IInv /\ WriteFails => IInv'
<1> SUFFICES ASSUME IInv, WriteFails PROVE IInv'
  OBVIOUS
<1>1. /\ ~crashed /\ crashed' /\ WriteDue
      /\ UNCHANGED <<out, table, evict, numEvicted, count, phase, cursor>>
  BY DEF WriteFails
<1>2. out
  BY <1>1 DEF WriteDue, Adding, IInv, PhaseOK
<1>3. PICK n \in 0 .. Len(evict) : /\ n < Len(evict)
                                   /\ file' = file \o SubSeq(evict, 1, n)
  BY DEF WriteFails
<1> DEFINE s == file \o evict
           p == SubSeq(evict, 1, n)
<1>4. file \in Seq(Record) /\ evict \in Seq(Record) /\ Len(evict) \in Nat
  BY LenProperties DEF IInv, TypeOK
<1>5. /\ p \in Seq(Record) /\ Len(p) = n /\ n \in Nat
      /\ \A i \in 1 .. n : p[i] = evict[i]
  <2>1. \A i \in 1 .. n : evict[i] \in Record
    BY <1>3, <1>4, ElementOfSeq
  <2>2. n \in Nat /\ n \in Int /\ 1 \in Int
    BY <1>3, <1>4
  <2>3. /\ p \in Seq(Record)
        /\ Len(p) = IF 1 <= n THEN n - 1 + 1 ELSE 0
        /\ \A i \in 1 .. n - 1 + 1 : p[i] = evict[1 + i - 1]
    BY <2>1, <2>2, SubSeqProperties
  <2> QED
    BY <2>2, <2>3
<1> HIDE DEF p
<1>6. /\ file \o p \in Seq(Record) /\ s \in Seq(Record)
      /\ Len(file \o p) < Len(s)
      /\ \A i \in 1 .. Len(file \o p) : (file \o p)[i] = s[i]
  <2>1. /\ file \o p \in Seq(Record)
        /\ Len(file \o p) = Len(file) + n
        /\ \A i \in 1 .. Len(file) + n :
             (file \o p)[i] = IF i <= Len(file) THEN file[i]
                                                ELSE p[i - Len(file)]
    BY <1>4, <1>5, ConcatProperties
  <2>2. /\ s \in Seq(Record)
        /\ Len(s) = Len(file) + Len(evict)
        /\ \A i \in 1 .. Len(file) + Len(evict) :
             s[i] = IF i <= Len(file) THEN file[i] ELSE evict[i - Len(file)]
    BY <1>4, ConcatProperties
  <2>3. Len(file) \in Nat
    BY <1>4, LenProperties
  <2> HIDE DEF s
  <2>4. Len(file \o p) < Len(s)
    BY <1>3, <1>4, <1>5, <2>1, <2>2, <2>3
  <2>5. ASSUME NEW i \in 1 .. Len(file \o p) PROVE (file \o p)[i] = s[i]
    <3>1. i \in 1 .. Len(file) + n /\ i \in 1 .. Len(file) + Len(evict)
      BY <1>3, <1>4, <1>5, <2>1, <2>3
    <3>2. CASE i <= Len(file)
      BY <2>1, <2>2, <3>1, <3>2
    <3>3. CASE ~(i <= Len(file))
      <4>1. i - Len(file) \in 1 .. n
        BY <1>5, <2>3, <3>1, <3>3
      <4> QED
        BY <1>5, <2>1, <2>2, <3>1, <3>3, <4>1
    <3> QED
      BY <3>2, <3>3
  <2> QED
    BY <2>1, <2>2, <2>4, <2>5
<1>7. Open(s) \/ Closed(s)
  BY <1>1 DEF IInv, StreamOK, Stream
<1> HIDE DEF s
<1>8. Open(file')
  <2> DEFINE q == file \o p
  <2>1. /\ q \in Seq(Record) /\ s \in Seq(Record)
        /\ Len(q) \in Nat /\ Len(s) \in Nat /\ Len(q) < Len(s)
        /\ \A i \in 1 .. Len(q) : q[i] = s[i]
    BY <1>6, LenProperties
  <2> HIDE DEF q
  <2>2. Len(q) <= Len(s)
    BY <2>1
  <2>3. Open(q)
    BY <1>7, <2>1, <2>2, PrefixOpen
  <2> QED
    BY <1>3, <2>3 DEF p, q
<1>9. TypeOK'
  <2>1. file' \in Seq(Record)
    BY <1>3, <1>6 DEF p
  <2> QED
    BY <1>1, <2>1 DEF IInv, TypeOK
<1>10. TableOK'
  BY <1>1 DEF IInv, TableOK, Matches
<1>11. StreamOK'
  BY <1>1, <1>8 DEF StreamOK, Stream
<1>12. PhaseOK'
  BY <1>1, <1>2, <1>8 DEF IInv, PhaseOK, SweepDone
<1> QED
  BY <1>1, <1>9, <1>10, <1>11, <1>12 DEF IInv, BufferInBounds

\* Every operation of the table, the ones that a signal or an error cuts short
\* included, keeps the invariant.
THEOREM StepInvariant == IInv /\ [Next]_vars => IInv'
<1> SUFFICES ASSUME IInv, [Next]_vars PROVE IInv'
  OBVIOUS
<1>1. CASE Start
  BY <1>1, StartStep
<1>2. CASE Reset
  BY <1>2, ResetStep
<1>3. ASSUME NEW t \in Traces, AddHit(t) \/ AddMiss(t) PROVE IInv'
  BY <1>3, AddHitStep, AddMissStep
<1>4. CASE AddEmpty
  BY <1>4, AddEmptyStep
<1>5. CASE BeginStop \/ BeginFlush
  BY <1>5, BeginStep DEF BeginStop, BeginFlush
<1>6. CASE Sweep
  BY <1>6, SweepStep
<1>7. CASE FlushEnd
  BY <1>7, FlushEndStep
<1>8. CASE StopMark
  BY <1>8, StopMarkStep
<1>9. CASE StopEnd
  BY <1>9, StopEndStep
<1>10. CASE WriteFails
  BY <1>10, WriteFailsStep
<1>11. CASE UNCHANGED vars
  <2> USE <1>11 DEF vars
  <2>1. TypeOK'
    BY DEF IInv, TypeOK
  <2>2. TableOK'
    BY DEF IInv, TableOK, Matches
  <2>3. StreamOK'
    BY DEF IInv, StreamOK, Stream
  <2>4. PhaseOK'
    BY DEF IInv, PhaseOK, SweepDone
  <2> QED
    BY <2>1, <2>2, <2>3, <2>4 DEF IInv, BufferInBounds
<1> QED
  BY <1>1, <1>2, <1>3, <1>4, <1>5, <1>6, <1>7, <1>8, <1>9, <1>10, <1>11
     DEF Next

-----------------------------------------------------------------------------
(* The theorems.                                                           *)

\* The inductive invariant holds in every run of the collector.
THEOREM Invariance == SafetySpec => []IInv
BY InitInvariant, StepInvariant, PTL DEF SafetySpec

\* Every variable of the collector has its type, whatever is called.
THEOREM TypeCorrect == Spec => []TypeOK
<1>1. IInv => TypeOK
  BY DEF IInv
<1> QED
  BY <1>1, Invariance, PTL DEF Spec

\* In every run, the entries of a bucket are distinct, and Add finds them
\* where their hash says.
THEOREM TableCorrect == Spec => []TableOK
<1>1. IInv => TableOK
  BY DEF IInv
<1> QED
  BY <1>1, Invariance, PTL DEF Spec

\* Evict, Start and Stop never write past the end of the buffer, whatever the
\* sizes of the table, of the buffer and of the stacks are.
THEOREM NoOverflow == Spec => []BufferInBounds
<1>1. IInv => BufferInBounds
  BY DEF IInv
<1> QED
  BY <1>1, Invariance, PTL DEF Spec

\* What the collector writes is a header, samples, and the end-of-data marker
\* in the last place of a session that ended with Stop and nowhere else.
THEOREM StreamCorrect == Spec => []StreamOK
<1>1. IInv => StreamOK
  BY DEF IInv
<1> QED
  BY <1>1, Invariance, PTL DEF Spec
=============================================================================
