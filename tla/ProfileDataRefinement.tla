------------------------ MODULE ProfileDataRefinement ------------------------
(***************************************************************************)
(* The collector implements SampleLog, for every table, buffer and set of  *)
(* stacks: whatever is evicted, flushed or swept, every sample is counted  *)
(* once, and the file of a session that ended with Stop is the count.      *)
(***************************************************************************)
EXTENDS ProfileDataProofs, CountingTheorems

-----------------------------------------------------------------------------
(* The samples of a stack that are still in the table.                     *)

\* At most one entry of the table holds stack k, and it has the count.
SoleHolder ==
  \A k \in Keys :
    /\ Holders(k) = {} => InTable(k) = 0
    /\ \A a \in Holders(k) : /\ InTable(k) = table[Hash(k)][a].count
                             /\ Holders(k) = {a}

LEMMA InTableFacts == IInv => SoleHolder
<1> SUFFICES ASSUME IInv, NEW k \in Keys
             PROVE  /\ Holders(k) = {} => InTable(k) = 0
                    /\ \A a \in Holders(k) :
                         /\ InTable(k) = table[Hash(k)][a].count
                         /\ Holders(k) = {a}
  BY DEF SoleHolder
<1>1. Hash(k) \in Buckets /\ k # <<>>
  BY HashAssumption, KeyFacts
<1>2. ASSUME NEW a \in Holders(k) PROVE Holders(k) = {a}
  BY <1>1, <1>2 DEF Holders, IInv, TableOK, Matches
<1>3. ASSUME NEW a \in Holders(k) PROVE InTable(k) = table[Hash(k)][a].count
  <2>1. Holders(k) = {a}
    BY <1>2
  <2>2. (CHOOSE w \in Holders(k) : TRUE) = a
    BY <2>1
  <2> QED
    BY <2>1, <2>2 DEF InTable
<1> QED
  BY <1>2, <1>3 DEF InTable

LEMMA InTableFactsNext == IInv' => SoleHolder'
BY InTableFacts, PTL

LEMMA InTableType ==
  ASSUME IInv, NEW k \in Keys
  PROVE  InTable(k) \in Nat
<1>1. \A a \in Holders(k) : table[Hash(k)][a].count \in Nat
  BY HashAssumption DEF Holders, IInv, TypeOK, Record
<1> QED
  BY <1>1, InTableFacts DEF SoleHolder

\* A session that is under way has no profile in its file.
NoProfileYet == out => ProfileInFile = NoProfile

LEMMA ProfileFacts == IInv => NoProfileYet
<1> SUFFICES ASSUME IInv, out PROVE Open(file)
  BY OpenIncomplete DEF NoProfileYet, ProfileInFile, IInv, TypeOK
<1>1. file \in Seq(Record) /\ evict \in Seq(Record)
  BY DEF IInv, TypeOK
<1> DEFINE s == file \o evict
<1>2. CASE crashed
  BY <1>2 DEF IInv, PhaseOK
<1>3. CASE ~crashed
  <2>1. Open(s) \/ (Closed(s) /\ phase = "closing")
    BY <1>3 DEF IInv, StreamOK, Stream
  <2>2. /\ s \in Seq(Record)
        /\ Len(s) = Len(file) + Len(evict)
        /\ \A i \in 1 .. Len(file) : file[i] = s[i]
        /\ Len(file) \in Nat /\ Len(evict) \in Nat
    BY <1>1, ConcatProperties, LenProperties
  <2>3. phase = "closing" => Len(evict) # 0
    BY <1>1, <1>3, EmptySeq DEF IInv, PhaseOK
  <2> HIDE DEF s
  <2>4. Len(file) <= Len(s) /\ (phase = "closing" => Len(file) < Len(s))
    BY <2>2, <2>3
  <2> QED
    BY <1>1, <2>1, <2>2, <2>4, PrefixOpen
<1> QED
  BY <1>2, <1>3

LEMMA ProfileFactsNext == IInv' => NoProfileYet'
BY ProfileFacts, PTL

-----------------------------------------------------------------------------
(* Steps that move an entry from the table to the stream.                  *)

LEMMA Moved ==
  ASSUME IInv, IInv', NEW b \in Buckets, NEW a \in Ways, ~Swept(b, a),
         NEW k \in Keys,
         Stream \in Seq(Record),
         \/ table[b][a].count > 0 /\ Stream' = Append(Stream, table[b][a])
         \/ table[b][a].count = 0 /\ Stream' = Stream,
         \A w \in Ways : w \in Holders(k)' <=>
                           w \in Holders(k) /\ ~(Hash(k) = b /\ w = a),
         \A w \in Ways : w \in Holders(k)' =>
                           table'[Hash(k)][w].count = table[Hash(k)][w].count
  PROVE  Recorded'[k] = Recorded[k]
<1> DEFINE e == table[b][a]
<1>1. e \in Record /\ e.count \in Nat
  BY DEF IInv, TypeOK, Record
<1>2. Tally(Stream, k) \in Nat /\ InTable(k) \in Nat
  BY UnitsFinite, InTableType
<1>3. Recorded[k] = Tally(Stream, k) + InTable(k)
  BY DEF Recorded
<1>4. Recorded'[k] = Tally(Stream', k) + InTable(k)'
  BY DEF Recorded
<1>5. CASE e.stack = k
  <2>1. e.stack # <<>>
    BY <1>5, KeyFacts
  <2>2. e.count > 0 /\ Hash(k) = b
    BY <1>5, <2>1 DEF IInv, TableOK
  <2>3. a \in Holders(k)
    BY <1>5, <2>2 DEF Holders, Matches
  <2>4. InTable(k) = e.count /\ Holders(k) = {a}
    BY <2>2, <2>3, InTableFacts DEF SoleHolder
  <2>5. Holders(k)' = {}
    BY <2>2, <2>4 DEF Holders
  <2>6. InTable(k)' = 0
    BY <2>5, InTableFactsNext DEF SoleHolder
  <2>7. Tally(Stream', k) = Tally(Stream, k) + e.count
    <3>1. Tally(Append(Stream, e), k)
            = Tally(Stream, k) + (IF e.stack = k THEN e.count ELSE 0)
      BY <1>1, TallyAppend
    <3>2. Tally(Append(Stream, e), k) = Tally(Stream, k) + e.count
      BY <1>5, <3>1
    <3>3. Stream' = Append(Stream, e)
      BY <2>2
    <3> QED
      BY <3>2, <3>3
  <2>8. Tally(Stream', k) + InTable(k)' = Tally(Stream', k) + 0
    BY <2>6
  <2>9. Tally(Stream', k) + 0 = Tally(Stream, k) + e.count
    BY <1>1, <1>2, <2>7
  <2>10. Tally(Stream, k) + e.count = Tally(Stream, k) + InTable(k)
    BY <2>4
  <2> QED
    BY <1>3, <1>4, <2>8, <2>9, <2>10
<1>6. CASE e.stack # k
  <2>1. Tally(Stream', k) = Tally(Stream, k)
    <3>1. CASE e.count > 0
      <4>1. Tally(Append(Stream, e), k)
              = Tally(Stream, k) + (IF e.stack = k THEN e.count ELSE 0)
        BY <1>1, TallyAppend
      <4>2. Tally(Append(Stream, e), k) = Tally(Stream, k) + 0
        BY <1>6, <4>1
      <4>3. Tally(Append(Stream, e), k) = Tally(Stream, k)
        BY <1>2, <4>2
      <4>4. Stream' = Append(Stream, e)
        BY <3>1
      <4> QED
        BY <4>3, <4>4
    <3>2. CASE e.count = 0
      BY <3>2
    <3> QED
      BY <1>1, <3>1, <3>2
  <2>2. ~(Hash(k) = b /\ a \in Holders(k))
    BY <1>6 DEF Holders, Matches
  <2>3. Holders(k)' = Holders(k)
    <3>1. Holders(k) \subseteq Ways /\ Holders(k)' \subseteq Ways
      BY DEF Holders
    <3> QED
      BY <2>2, <3>1
  <2>4. InTable(k)' = InTable(k)
    <3>1. CASE Holders(k) = {}
      BY <2>3, <3>1, InTableFacts, InTableFactsNext DEF SoleHolder
    <3>2. CASE Holders(k) # {}
      <4>1. PICK w \in Holders(k) : TRUE
        BY <3>2
      <4>2. w \in Ways /\ w \in Holders(k)'
        BY <2>3, <4>1 DEF Holders
      <4> QED
        BY <4>1, <4>2, InTableFacts, InTableFactsNext DEF SoleHolder
    <3> QED
      BY <3>1, <3>2
  <2> QED
    BY <1>3, <1>4, <2>1, <2>4
<1> QED
  BY <1>5, <1>6

\* The stream when a record is, or is not, evicted.
LEMMA StreamGrows ==
  ASSUME IInv, ~crashed, ~crashed', NEW b \in Buckets, NEW a \in Ways,
         Spill(table[b][a])
  PROVE  /\ Stream \in Seq(Record)
         /\ \/ table[b][a].count > 0 /\ Stream' = Append(Stream, table[b][a])
            \/ table[b][a].count = 0 /\ Stream' = Stream
<1> DEFINE e == table[b][a]
<1>1. e \in Record /\ Slots(e) <= kBufferLength
  BY EntryFits DEF IInv
<1>2. Stream = file \o evict /\ Stream' = file' \o evict'
  BY DEF Stream
<1>3. file \o evict \in Seq(Record)
  BY ConcatProperties DEF IInv, TypeOK
<1>4. CASE e.count = 0 /\ KeepBuffer
  BY <1>2, <1>3, <1>4 DEF KeepBuffer
<1>5. CASE e.count > 0 /\ Evict(e)
  <2> HIDE DEF e
  <2>1. file' \o evict' = Append(file \o evict, e)
    BY <1>1, <1>5, EvictFacts DEF IInv
  <2> QED
    BY <1>2, <1>3, <1>5, <2>1 DEF e
<1> QED
  BY <1>4, <1>5 DEF Spill

\* Nothing recorded changes when neither the entries nor the counts of the
\* stream do.
LEMMA Unmoved ==
  ASSUME table' = table, NEW k \in Keys,
         Tally(Stream', k) = Tally(Stream, k),
         \A b \in Buckets, a \in Ways : Swept(b, a)' <=> Swept(b, a)
  PROVE  Recorded'[k] = Recorded[k]
<1>1. Hash(k) \in Buckets
  BY HashAssumption
<1>2. Holders(k)' = Holders(k)
  BY <1>1 DEF Holders, Matches
<1>3. InTable(k)' = InTable(k)
  BY <1>2 DEF InTable
<1> QED
  BY <1>3 DEF Recorded

\* A step within a session that leaves what is recorded alone is not visible.
LEMMA Invisible ==
  ASSUME IInv, IInv', out, out', ~crashed, ~crashed',
         \A k \in Keys : Recorded'[k] = Recorded[k]
  PROVE  UNCHANGED Log!logVars
<1>1. ProfileInFile' = ProfileInFile
  BY ProfileFacts, ProfileFactsNext DEF NoProfileYet
<1>2. Recorded' = Recorded
  BY DEF Recorded
<1>3. Enabled /\ Enabled'
  BY DEF Enabled
<1> QED
  BY <1>1, <1>2, <1>3 DEF Log!logVars

-----------------------------------------------------------------------------
(* Each action implements an action of SampleLog, or nothing.              *)

LEMMA StartMaps == IInv /\ IInv' /\ Start => Log!Start
<1> SUFFICES ASSUME IInv, IInv', Start PROVE Log!Start
  OBVIOUS
<1>1. ~Enabled /\ Enabled'
  BY DEF Start, Idle, Enabled
<1>2. ProfileInFile' = NoProfile
  BY ProfileFactsNext DEF NoProfileYet, Start
<1>3. ASSUME NEW k \in Keys PROVE Recorded'[k] = 0
  <2>1. Hash(k) \in Buckets /\ k # <<>>
    BY HashAssumption, KeyFacts
  <2>2. \A a \in Ways : table'[Hash(k)][a].stack # k
    BY <2>1 DEF Start, EmptyTable, NoEntry
  <2>3. Holders(k)' = {}
    BY <2>2 DEF Holders, Matches
  <2>4. InTable(k)' = 0
    BY <2>3, InTableFactsNext DEF SoleHolder
  <2>5. Stream' = <<Header>>
    <3>1. <<>> \o <<Header>> = <<Header>>
      BY SpecialRecords, ConcatEmptySeq
    <3> QED
      BY <3>1 DEF Start, Idle, Stream
  <2>6. Tally(Stream', k) = 0
    BY <2>5, TallyHeader
  <2> QED
    BY <2>4, <2>6 DEF Recorded
<1>4. Recorded' = [k \in Keys |-> 0]
  BY <1>3 DEF Recorded
<1> QED
  BY <1>1, <1>2, <1>4 DEF Log!Start, Log!NoSamples

\* Reset, an empty stack and a failing write lose the session.
LEMMA LossMaps ==
  ASSUME IInv, IInv', Reset \/ AddEmpty \/ WriteFails
  PROVE  Log!Discard
<1>1. Enabled /\ ~Enabled'
  BY DEF Reset, Release, AddEmpty, WriteFails, WriteDue, Adding, Idle, Enabled,
         IInv, PhaseOK
<1>2. ProfileInFile' = ProfileInFile
  <2>1. CASE Reset \/ AddEmpty
    BY <2>1 DEF Reset, AddEmpty, ProfileInFile
  <2>2. CASE WriteFails
    <3>1. out /\ out'
      BY <1>1, <2>2 DEF Enabled, WriteFails
    <3> QED
      BY <3>1, ProfileFacts, ProfileFactsNext DEF NoProfileYet
  <2> QED
    BY <2>1, <2>2
<1> QED
  BY <1>1, <1>2 DEF Log!Discard, Log!NoSamples

LEMMA BeginMaps ==
  ASSUME IInv, IInv', NEW p \in {"stopping", "flushing"}, BeginSweep(p)
  PROVE  UNCHANGED Log!logVars
<1>1. out /\ out' /\ ~crashed /\ ~crashed' /\ table' = table
  BY DEF BeginSweep, Idle
<1>2. Stream' = Stream
  BY <1>1 DEF BeginSweep, KeepBuffer, Stream
<1>3. \A b \in Buckets, a \in Ways : ~Swept(b, a) /\ ~Swept(b, a)'
  BY SizeAssumption
     DEF BeginSweep, Idle, Swept, FirstEntry, Buckets, Ways
<1>4. \A k \in Keys : Recorded'[k] = Recorded[k]
  BY <1>1, <1>2, <1>3, Unmoved
<1> QED
  BY <1>1, <1>4, Invisible

LEMMA FlushEndMaps ==
  ASSUME IInv, IInv', FlushEnd
  PROVE  UNCHANGED Log!logVars
<1>1. out /\ out' /\ ~crashed /\ ~crashed' /\ table' = table
  BY DEF FlushEnd, IInv, PhaseOK
<1>2. Stream' = Stream
  <2>1. file \o evict \in Seq(Record)
    BY ConcatProperties DEF IInv, TypeOK
  <2>2. (file \o evict) \o <<>> = file \o evict
    BY <2>1, ConcatEmptySeq
  <2> QED
    BY <1>1, <2>2 DEF FlushEnd, FlushEvicted, Stream
<1>3. \A b \in Buckets, a \in Ways : ~Swept(b, a) /\ ~Swept(b, a)'
  BY DEF FlushEnd, Swept
<1>4. \A k \in Keys : Recorded'[k] = Recorded[k]
  BY <1>1, <1>2, <1>3, Unmoved
<1> QED
  BY <1>1, <1>4, Invisible

LEMMA StopMarkMaps ==
  ASSUME IInv, IInv', StopMark
  PROVE  UNCHANGED Log!logVars
<1>1. out /\ out' /\ ~crashed /\ ~crashed' /\ table' = table
  BY DEF StopMark, MarkDue, IInv, PhaseOK
<1>2. Stream \in Seq(Record) /\ Stream' = Append(Stream, EndOfData)
  <2>1. EndOfData \in Record /\ Slots(EndOfData) <= kBufferLength
    BY SpecialRecords, SizeAssumption
  <2>2. file' \o evict' = Append(file \o evict, EndOfData)
    BY <2>1, EvictFacts DEF IInv, StopMark, MarkDue
  <2> QED
    BY <1>1, <2>2, ConcatProperties DEF Stream, IInv, TypeOK
<1>3. \A b \in Buckets, a \in Ways : Swept(b, a)' <=> Swept(b, a)
  BY DEF StopMark, MarkDue, Swept
<1>4. ASSUME NEW k \in Keys PROVE Tally(Stream', k) = Tally(Stream, k)
  <2>1. EndOfData \in Record /\ EndOfData.count = 0
    BY SpecialRecords
  <2>2. Tally(Append(Stream, EndOfData), k)
          = Tally(Stream, k)
              + (IF EndOfData.stack = k THEN EndOfData.count ELSE 0)
    BY <1>2, <2>1, TallyAppend
  <2>3. Tally(Append(Stream, EndOfData), k) = Tally(Stream, k) + 0
    BY <2>1, <2>2
  <2>4. Tally(Stream, k) \in Nat
    BY <1>2, UnitsFinite
  <2> QED
    BY <1>2, <2>3, <2>4
<1>5. \A k \in Keys : Recorded'[k] = Recorded[k]
  BY <1>1, <1>3, <1>4, Unmoved
<1> QED
  BY <1>1, <1>5, Invisible

LEMMA StopEndMaps ==
  ASSUME IInv, IInv', StopEnd
  PROVE  Log!Stop
<1>1. out /\ Enabled /\ ~Enabled'
  BY DEF StopEnd, Release, Enabled, IInv, PhaseOK
<1>2. Stream = file \o evict /\ file' = file \o evict
  BY DEF StopEnd, Stream
<1>3. IsComplete(file')
  <2>1. /\ file \in Seq(Record) /\ evict \in Seq(Record)
        /\ evict # <<>> /\ evict[Len(evict)] = EndOfData
    BY DEF StopEnd, IInv, TypeOK, PhaseOK
  <2>2. /\ file \o evict \in Seq(Record) /\ file \o evict # <<>>
        /\ (file \o evict)[Len(file \o evict)] = EndOfData
    <3>1. /\ Len(file) \in Nat /\ Len(evict) \in Nat \ {0}
          /\ file \o evict \in Seq(Record)
          /\ Len(file \o evict) = Len(file) + Len(evict)
      BY <2>1, LenProperties, EmptySeq, ConcatProperties
    <3>2. Len(file) + Len(evict) \in 1 .. Len(file) + Len(evict)
      BY <3>1
    <3>3. (file \o evict)[Len(file) + Len(evict)]
            = evict[Len(file) + Len(evict) - Len(file)]
      BY <2>1, <3>1, <3>2, ConcatProperties
    <3>4. Len(file) + Len(evict) - Len(file) = Len(evict)
      BY <3>1
    <3> QED
      BY <2>1, <3>1, <3>3, <3>4, EmptySeq
  <2> QED
    BY <1>2, <2>2, ClosedComplete
<1>4. ASSUME NEW k \in Keys PROVE Recorded[k] = Tally(file', k)
  <2>1. Hash(k) \in Buckets
    BY HashAssumption
  <2>2. \A a \in Ways : Swept(Hash(k), a)
    <3>1. phase = "closing" /\ cursor.bucket = kBuckets
      BY DEF StopEnd, IInv, PhaseOK, SweepDone
    <3>2. Hash(k) < kBuckets
      BY <2>1, SizeAssumption DEF Buckets
    <3> QED
      BY <3>1, <3>2 DEF Swept
  <2>3. Holders(k) = {}
    BY <2>2 DEF Holders
  <2>4. InTable(k) = 0
    BY <2>3, InTableFacts DEF SoleHolder
  <2>5. Tally(Stream, k) \in Nat
    BY <1>2, ConcatProperties, UnitsFinite DEF IInv, TypeOK
  <2>6. Recorded[k] = Tally(Stream, k) + 0
    BY <2>4 DEF Recorded
  <2> QED
    BY <1>2, <2>5, <2>6
<1>5. Recorded = [k \in Keys |-> Tally(file', k)]
  BY <1>4 DEF Recorded
<1>6. ProfileInFile' = Recorded
  BY <1>3, <1>5 DEF ProfileInFile
<1> QED
  BY <1>1, <1>6 DEF Log!Stop, Log!NoSamples

\* A turn of the sweep takes one entry out of the table, and no other.
LEMMA CursorAdvances ==
  ASSUME IInv, Sweep, phase = "stopping", NEW c \in Buckets, NEW w \in Ways
  PROVE  Swept(c, w)' <=> Swept(c, w) \/ (c = cursor.bucket /\ w = cursor.way)
<1>1. /\ cursor' = NextEntry(cursor) /\ phase' = "stopping"
      /\ cursor.bucket # kBuckets
  BY DEF Sweep, SweepDone
<1>2. /\ cursor \in [bucket : 0 .. kBuckets, way : Ways]
      /\ cursor.bucket \in Nat /\ cursor.way \in 0 .. kAssociativity - 1
      /\ c \in Nat /\ w \in 0 .. kAssociativity - 1
  BY SizeAssumption DEF IInv, TypeOK, Buckets, Ways
<1>3. Swept(c, w) <=> c < cursor.bucket \/ (c = cursor.bucket /\ w < cursor.way)
  BY <1>1 DEF Swept
<1>4. Swept(c, w)' <=>
        c < cursor'.bucket \/ (c = cursor'.bucket /\ w < cursor'.way)
  BY <1>1 DEF Swept
<1>5. CASE cursor.way + 1 < kAssociativity
  <2>1. cursor'.bucket = cursor.bucket /\ cursor'.way = cursor.way + 1
    BY <1>1, <1>2, <1>5 DEF NextEntry
  <2> QED
    BY <1>2, <1>3, <1>4, <2>1
<1>6. CASE ~(cursor.way + 1 < kAssociativity)
  <2>1. cursor'.bucket = cursor.bucket + 1 /\ cursor'.way = 0
    BY <1>1, <1>6 DEF NextEntry
  <2>2. cursor.way = kAssociativity - 1
    BY <1>2, <1>6, SizeAssumption
  <2>3. w <= cursor.way
    BY <1>2, <2>2, SizeAssumption
  <2> QED
    BY <1>2, <1>3, <1>4, <2>1, <2>3
<1> QED
  BY <1>5, <1>6

LEMMA SweepMaps ==
  ASSUME IInv, IInv', Sweep
  PROVE  UNCHANGED Log!logVars
<1> DEFINE b == cursor.bucket
           a == cursor.way
<1>1. out /\ out' /\ ~crashed /\ ~crashed' /\ phase' = phase
  BY DEF Sweep, IInv, PhaseOK
<1>2. /\ b \in Buckets /\ a \in Ways
      /\ phase \in {"stopping", "flushing"}
  BY NextEntryType DEF Sweep, SweepDone, IInv, TypeOK
<1>3. /\ Spill(table[b][a])
      /\ table' = IF phase = "flushing" /\ table[b][a].count > 0
                  THEN [table EXCEPT ![b][a] = NoEntry]
                  ELSE table
  BY <1>2, ClearedEntry DEF Sweep
<1>4. ~Swept(b, a)
  BY <1>2, SizeAssumption DEF Swept, Buckets, Ways
<1>5. phase = "stopping" => \A c \in Buckets, w \in Ways :
         Swept(c, w)' <=> Swept(c, w) \/ (c = b /\ w = a)
  BY CursorAdvances
<1> HIDE DEF a, b
<1>6. table \in [Buckets -> [Ways -> Record]]
  BY DEF IInv, TypeOK
<1>7. ASSUME NEW k \in Keys, NEW w \in Ways
      PROVE  /\ w \in Holders(k)' <=> w \in Holders(k) /\ ~(Hash(k) = b /\ w = a)
             /\ w \in Holders(k)' =>
                  table'[Hash(k)][w].count = table[Hash(k)][w].count
  <2>1. Hash(k) \in Buckets /\ k # <<>>
    BY HashAssumption, KeyFacts
  <2>2. CASE phase = "stopping"
    BY <1>3, <1>5, <2>1, <2>2 DEF Holders, Matches
  <2>3. CASE phase = "flushing"
    <3>1. ~Swept(Hash(k), w) /\ ~Swept(Hash(k), w)'
      BY <1>1, <2>3 DEF Swept
    <3>2. w \in Holders(k) <=> table[Hash(k)][w].stack = k
      BY <3>1 DEF Holders, Matches
    <3>3. w \in Holders(k)' <=> table'[Hash(k)][w].stack = k
      BY <3>1 DEF Holders, Matches
    <3>4. CASE table[b][a].count > 0
      <4>1. table' = [table EXCEPT ![b][a] = NoEntry]
        BY <1>3, <2>3, <3>4
      <4>2. /\ Hash(k) = b /\ w = a => table'[Hash(k)][w] = NoEntry
            /\ ~(Hash(k) = b /\ w = a) =>
                  table'[Hash(k)][w] = table[Hash(k)][w]
        BY <1>2, <1>6, <2>1, <4>1
      <4>3. NoEntry.stack # k
        BY <2>1 DEF NoEntry
      <4> QED
        BY <3>2, <3>3, <4>2, <4>3
    <3>5. CASE table[b][a].count = 0
      <4>1. table' = table
        BY <1>3, <3>5
      <4>2. table[b][a].stack = <<>>
        BY <1>2, <3>5 DEF IInv, TableOK
      <4> QED
        BY <2>1, <3>2, <3>3, <4>1, <4>2
    <3> QED
      BY <1>2, <1>6, <3>4, <3>5 DEF Record
  <2> QED
    BY <1>2, <2>2, <2>3
<1>8. /\ Stream \in Seq(Record)
      /\ \/ table[b][a].count > 0 /\ Stream' = Append(Stream, table[b][a])
         \/ table[b][a].count = 0 /\ Stream' = Stream
  BY <1>1, <1>2, <1>3, StreamGrows
<1>9. \A k \in Keys : Recorded'[k] = Recorded[k]
  BY <1>2, <1>4, <1>7, <1>8, Moved
<1> QED
  BY <1>1, <1>9, Invisible

\* One more sample of one stack, and nothing else, is the Add of SampleLog.
LEMMA AddVisible ==
  ASSUME IInv, IInv', out, out', ~crashed, ~crashed', NEW k0 \in Keys,
         Recorded'[k0] = Recorded[k0] + 1,
         \A k \in Keys : k # k0 => Recorded'[k] = Recorded[k]
  PROVE  Log!Add(k0)
<1>1. ProfileInFile' = ProfileInFile
  BY ProfileFacts, ProfileFactsNext DEF NoProfileYet
<1>2. Recorded' = [Recorded EXCEPT ![k0] = @ + 1]
  BY DEF Recorded
<1>3. Enabled /\ Enabled'
  BY DEF Enabled
<1> QED
  BY <1>1, <1>2, <1>3 DEF Log!Add

LEMMA AddHitMaps ==
  ASSUME IInv, IInv', NEW t \in Traces, AddHit(t)
  PROVE  Truncate(t) \in Keys /\ Log!Add(Truncate(t))
<1> DEFINE k0 == Truncate(t)
           b == Hash(k0)
<1>1. /\ out /\ out' /\ ~crashed /\ ~crashed' /\ t # <<>>
      /\ phase = "idle" /\ phase' = "idle" /\ KeepBuffer
  BY DEF AddHit, Adding, Idle
<1>2. k0 \in Keys /\ k0 # <<>> /\ b \in Buckets
  BY <1>1, KeysType, HashAssumption
<1>3. PICK a \in Ways : /\ IsHit(b, a, k0)
                        /\ table' = [table EXCEPT ![b][a].count = @ + 1]
  BY DEF AddHit
<1>h. Hash(k0) = b
  OBVIOUS
<1> HIDE DEF k0, b
<1>4. table \in [Buckets -> [Ways -> Record]]
  BY DEF IInv, TypeOK
<1>5. /\ table[b][a] \in Record /\ table[b][a].stack = k0
      /\ table'[b][a] = [table[b][a] EXCEPT !.count = @ + 1]
      /\ \A c \in Buckets, w \in Ways :
           c # b \/ w # a => table'[c][w] = table[c][w]
  BY <1>2, <1>3, <1>4 DEF IsHit, Matches
<1>6. table'[b][a].count = table[b][a].count + 1 /\ table'[b][a].stack = k0
  BY <1>5 DEF Record
<1>7. Stream' = Stream /\ Stream \in Seq(Record)
  BY <1>1, OpenStream DEF KeepBuffer, Stream
<1>8. ASSUME NEW k \in Keys PROVE Holders(k)' = Holders(k)
  <2>1. Hash(k) \in Buckets
    BY HashAssumption
  <2>2. \A w \in Ways : ~Swept(Hash(k), w) /\ ~Swept(Hash(k), w)'
    BY <1>1 DEF Swept
  <2>3. \A w \in Ways : table'[Hash(k)][w].stack = table[Hash(k)][w].stack
    BY <1>5, <1>6, <2>1
  <2> QED
    BY <2>2, <2>3 DEF Holders, Matches
<1>9. Recorded'[k0] = Recorded[k0] + 1
  <2>1. a \in Holders(k0)
    BY <1>1, <1>5, <1>h DEF Holders, Matches, Swept
  <2>2. InTable(k0) = table[b][a].count
    BY <1>2, <1>h, <2>1, InTableFacts DEF SoleHolder
  <2>3. InTable(k0)' = table'[b][a].count
    BY <1>2, <1>8, <1>h, <2>1, InTableFactsNext DEF SoleHolder
  <2>4. InTable(k0)' = InTable(k0) + 1
    BY <1>6, <2>2, <2>3
  <2>5. Tally(Stream, k0) \in Nat /\ InTable(k0) \in Nat
    BY <1>2, <1>7, UnitsFinite, InTableType
  <2>6. /\ Recorded[k0] = Tally(Stream, k0) + InTable(k0)
        /\ Recorded'[k0] = Tally(Stream, k0) + InTable(k0)'
    BY <1>2, <1>7 DEF Recorded
  <2> QED
    BY <2>4, <2>5, <2>6
<1>10. ASSUME NEW k \in Keys, k # k0 PROVE Recorded'[k] = Recorded[k]
  <2>1. Hash(k) \in Buckets
    BY HashAssumption
  <2>2. \A w \in Holders(k) : table'[Hash(k)][w].count = table[Hash(k)][w].count
    BY <1>5, <1>10, <2>1 DEF Holders, Matches
  <2>3. InTable(k)' = InTable(k)
    <3>1. CASE Holders(k) = {}
      BY <1>8, <3>1, InTableFacts, InTableFactsNext DEF SoleHolder
    <3>2. CASE Holders(k) # {}
      BY <1>8, <2>2, <3>2, InTableFacts, InTableFactsNext DEF SoleHolder
    <3> QED
      BY <3>1, <3>2
  <2> QED
    BY <1>7, <2>3 DEF Recorded
<1>11. Log!Add(k0)
  BY <1>1, <1>2, <1>9, <1>10, AddVisible
<1> QED
  BY <1>2, <1>11 DEF k0

LEMMA AddMissMaps ==
  ASSUME IInv, IInv', NEW t \in Traces, AddMiss(t)
  PROVE  Truncate(t) \in Keys /\ Log!Add(Truncate(t))
<1> DEFINE k0 == Truncate(t)
           b == Hash(k0)
           new == [count |-> 1, stack |-> k0]
<1>1. /\ out /\ out' /\ ~crashed /\ ~crashed' /\ t # <<>>
      /\ phase = "idle" /\ phase' = "idle"
      /\ \A w \in Ways : ~Matches(b, w, k0)
  BY DEF AddMiss, Adding, Idle
<1>2. k0 \in Keys /\ k0 # <<>> /\ b \in Buckets
  BY <1>1, KeysType, HashAssumption
<1>3. PICK a \in Ways :
        /\ Spill(table[b][a])
        /\ table' = [table EXCEPT ![b][a] = new]
  BY DEF AddMiss
<1>h. Hash(k0) = b /\ new.count = 1 /\ new.stack = k0
  OBVIOUS
<1> HIDE DEF k0, b, new
<1>4. table \in [Buckets -> [Ways -> Record]]
  BY DEF IInv, TypeOK
<1>5. /\ table'[b][a] = new
      /\ \A c \in Buckets, w \in Ways :
           c # b \/ w # a => table'[c][w] = table[c][w]
  BY <1>2, <1>3, <1>4
<1>6. \A c \in Buckets, w \in Ways : ~Swept(c, w) /\ ~Swept(c, w)'
  BY <1>1 DEF Swept
<1>7. /\ Stream \in Seq(Record)
      /\ \/ table[b][a].count > 0 /\ Stream' = Append(Stream, table[b][a])
         \/ table[b][a].count = 0 /\ Stream' = Stream
  BY <1>1, <1>2, <1>3, StreamGrows
<1>8. ASSUME NEW k \in Keys, k # k0 PROVE Recorded'[k] = Recorded[k]
  <2>1. Hash(k) \in Buckets
    BY HashAssumption
  <2>2. ASSUME NEW w \in Ways
        PROVE  /\ w \in Holders(k)' <=>
                    w \in Holders(k) /\ ~(Hash(k) = b /\ w = a)
               /\ w \in Holders(k)' =>
                    table'[Hash(k)][w].count = table[Hash(k)][w].count
    <3>1. w \in Holders(k) <=> table[Hash(k)][w].stack = k
      BY <1>6, <2>1 DEF Holders, Matches
    <3>2. w \in Holders(k)' <=> table'[Hash(k)][w].stack = k
      BY <1>6, <2>1 DEF Holders, Matches
    <3> QED
      BY <1>5, <1>8, <1>h, <2>1, <3>1, <3>2
  <2> QED
    BY <1>2, <1>6, <1>7, <2>2, Moved
<1>9. Recorded'[k0] = Recorded[k0] + 1
  <2>1. Holders(k0) = {}
    BY <1>1, <1>h DEF Holders
  <2>2. InTable(k0) = 0
    BY <1>2, <2>1, InTableFacts DEF SoleHolder
  <2>3. a \in Holders(k0)'
    BY <1>2, <1>5, <1>6, <1>h DEF Holders, Matches
  <2>4. InTable(k0)' = 1
    BY <1>2, <1>5, <1>h, <2>3, InTableFactsNext DEF SoleHolder
  <2>5. Tally(Stream', k0) = Tally(Stream, k0)
    <3> DEFINE e == table[b][a]
    <3>1. CASE e.count = 0
      BY <1>7, <3>1
    <3>2. CASE e.count # 0
      <4>1. e \in Record /\ e.stack # k0 /\ Tally(Stream, k0) \in Nat
        BY <1>1, <1>2, <1>4, <1>7, UnitsFinite DEF Matches
      <4>2. Tally(Append(Stream, e), k0)
              = Tally(Stream, k0) + (IF e.stack = k0 THEN e.count ELSE 0)
        BY <1>7, <4>1, TallyAppend
      <4>3. Tally(Append(Stream, e), k0) = Tally(Stream, k0) + 0
        BY <4>1, <4>2
      <4>4. Stream' = Append(Stream, e)
        BY <1>7, <3>2
      <4> QED
        BY <4>1, <4>3, <4>4
    <3> QED
      BY <3>1, <3>2
  <2>6. Tally(Stream, k0) \in Nat
    BY <1>7, UnitsFinite
  <2>7. /\ Recorded[k0] = Tally(Stream, k0) + 0
        /\ Recorded'[k0] = Tally(Stream, k0) + 1
    BY <1>2, <2>2, <2>4, <2>5 DEF Recorded
  <2> QED
    BY <2>6, <2>7
<1>10. Log!Add(k0)
  BY <1>1, <1>2, <1>8, <1>9, AddVisible
<1> QED
  BY <1>2, <1>10 DEF k0

-----------------------------------------------------------------------------
(* The refinement.                                                         *)

LEMMA InitMaps == Init => Log!Init
<1> SUFFICES ASSUME Init PROVE Log!Init
  OBVIOUS
<1>1. ~Enabled
  BY DEF Init, Enabled
<1>2. ProfileInFile = NoProfile
  BY DEF Init, ProfileInFile, IsComplete
<1> QED
  BY <1>1, <1>2 DEF Log!Init, Log!NoSamples

LEMMA StepMaps == IInv /\ IInv' /\ [Next]_vars => [Log!Next]_(Log!logVars)
<1> SUFFICES ASSUME IInv, IInv', [Next]_vars
             PROVE  Log!Next \/ UNCHANGED Log!logVars
  OBVIOUS
<1>1. CASE Start
  BY <1>1, StartMaps DEF Log!Next
<1>2. CASE Reset \/ AddEmpty \/ WriteFails
  BY <1>2, LossMaps DEF Log!Next
<1>3. ASSUME NEW t \in Traces, AddHit(t) \/ AddMiss(t) PROVE Log!Next
  BY <1>3, AddHitMaps, AddMissMaps DEF Log!Next
<1>4. CASE BeginStop \/ BeginFlush
  BY <1>4, BeginMaps DEF BeginStop, BeginFlush
<1>5. CASE Sweep
  BY <1>5, SweepMaps
<1>6. CASE FlushEnd
  BY <1>6, FlushEndMaps
<1>7. CASE StopMark
  BY <1>7, StopMarkMaps
<1>8. CASE StopEnd
  BY <1>8, StopEndMaps DEF Log!Next
<1>9. CASE UNCHANGED vars
  <2>1. Enabled' = Enabled
    BY <1>9 DEF vars, Enabled
  <2>2. ProfileInFile' = ProfileInFile
    BY <1>9 DEF vars, ProfileInFile
  <2>3. Recorded' = Recorded
    <3>1. Stream' = Stream /\ table' = table
      BY <1>9 DEF vars, Stream
    <3>2. \A b \in Buckets, a \in Ways : Swept(b, a)' <=> Swept(b, a)
      BY <1>9 DEF vars, Swept
    <3>3. \A k \in Keys : Recorded'[k] = Recorded[k]
      BY <3>1, <3>2, Unmoved
    <3> QED
      BY <3>3 DEF Recorded
  <2> QED
    BY <2>1, <2>2, <2>3 DEF Log!logVars
<1> QED
  BY <1>1, <1>2, <1>3, <1>4, <1>5, <1>6, <1>7, <1>8, <1>9 DEF Next

\* The hash table, the evictions and the writes implement SampleLog: in every
\* run samples are counted exactly once, and a file that reads as a complete
\* profile is the count of the session that wrote it.
THEOREM Refinement == Spec => RefinesSampleLog
BY InitMaps, StepMaps, StepInvariant, Invariance, PTL
   DEF Spec, SafetySpec, RefinesSampleLog, Log!Spec

\* Add counts the stack it is given, and Stop leaves the count of the session
\* in the file, in every run.
THEOREM CallsRefine == Spec => CallsAsPromised
<1> DEFINE Promised ==
      /\ Start => Log!Start
      /\ \A t \in Traces : AddHit(t) \/ AddMiss(t) => Log!Add(Truncate(t))
      /\ Sweep \/ FlushEnd \/ StopMark => UNCHANGED Log!logVars
      /\ StopEnd => Log!Stop
<1>1. IInv /\ IInv' /\ [Next]_vars => [Promised]_vars
  <2> SUFFICES ASSUME IInv, IInv' PROVE Promised
    OBVIOUS
  <2>1. Start => Log!Start
    BY StartMaps
  <2>2. \A t \in Traces : AddHit(t) \/ AddMiss(t) => Log!Add(Truncate(t))
    BY AddHitMaps, AddMissMaps
  <2>3. Sweep \/ FlushEnd \/ StopMark => UNCHANGED Log!logVars
    BY SweepMaps, FlushEndMaps, StopMarkMaps
  <2>4. StopEnd => Log!Stop
    BY StopEndMaps
  <2> QED
    BY <2>1, <2>2, <2>3, <2>4
<1>2. Spec => [][Promised]_vars
  BY <1>1, StepInvariant, Invariance, PTL DEF Spec, SafetySpec
<1> QED
  BY <1>2 DEF CallsAsPromised

-----------------------------------------------------------------------------
(* The two counters of the collector, count_ and num_evicted_, are what    *)
(* they are taken for.  There may be infinitely many stacks: that a sum is *)
(* finite is carried along with its value.                                 *)

\* The slots that a record appended to a buffer takes are added.
LEMMA TakesAppend ==
  ASSUME NEW q \in Seq(Record), NEW e \in Record, IsFiniteSet(Cells(Takes(q)))
  PROVE  /\ IsFiniteSet(Cells(Takes(Append(q, e))))
         /\ Total(Takes(Append(q, e))) = Total(Takes(q)) + Slots(e)
<1> DEFINE r == Append(q, e)
           n == Len(q) + 1
           w == Takes(q)
           v == Takes(r)
<1>1. /\ Len(q) \in Nat /\ DOMAIN q = 1 .. Len(q)
      /\ DOMAIN r = 1 .. n /\ r[n] = e
      /\ \A i \in DOMAIN q : r[i] = q[i]
  BY LenProperties, AppendProperties
<1>2. Slots(e) \in Nat
  BY LenProperties DEF Slots, Record
<1> HIDE DEF r
<1>3. /\ n \notin DOMAIN w /\ DOMAIN v = DOMAIN w \cup {n}
      /\ v[n] = Slots(e) /\ \A i \in DOMAIN w : v[i] = w[i]
  BY <1>1 DEF Takes
<1>4. IsFiniteSet(Cells(w))
  OBVIOUS
<1> HIDE DEF v, w, n
<1>5. IsFiniteSet(Cells(v)) /\ Total(v) = Total(w) + v[n]
  BY <1>2, <1>3, <1>4, TotalAdd
<1> QED
  BY <1>3, <1>5 DEF v, w, r

LEMMA TakesEmpty == Cells(Takes(<<>>)) = {} /\ Total(Takes(<<>>)) = 0
<1>1. Cells(Takes(<<>>)) = {}
  BY DEF Cells, Takes
<1> QED
  BY <1>1, FS_EmptySet DEF Total

LEMMA TakesOne ==
  ASSUME NEW e \in Record
  PROVE  IsFiniteSet(Cells(Takes(<<e>>))) /\ Total(Takes(<<e>>)) = Slots(e)
<1>1. <<>> \in Seq(Record) /\ <<e>> = Append(<<>>, e)
  BY EmptySeq
<1>2. IsFiniteSet(Cells(Takes(<<>>))) /\ Total(Takes(<<>>)) = 0
  BY TakesEmpty, FS_EmptySet
<1>3. Slots(e) \in Nat
  BY LenProperties DEF Slots, Record
<1>4. /\ IsFiniteSet(Cells(Takes(Append(<<>>, e))))
      /\ Total(Takes(Append(<<>>, e))) = Total(Takes(<<>>)) + Slots(e)
  BY <1>1, <1>2, TakesAppend
<1> QED
  BY <1>1, <1>2, <1>3, <1>4

LEMMA RecordedType == IInv /\ Stream \in Seq(Record) => Recorded \in [Keys -> Nat]
<1> SUFFICES ASSUME IInv, Stream \in Seq(Record), NEW k \in Keys
             PROVE  Tally(Stream, k) + InTable(k) \in Nat
  BY DEF Recorded
<1>1. Tally(Stream, k) \in Nat
  BY UnitsFinite
<1>2. InTable(k) \in Nat
  BY InTableType
<1> QED
  BY <1>1, <1>2

LEMMA StreamType == IInv => Stream \in Seq(Record)
BY ConcatProperties DEF IInv, TypeOK, Stream

-----------------------------------------------------------------------------
(* num_evicted_.                                                           *)

BufferInv == IsFiniteSet(Cells(Takes(evict))) /\ BufferMatches

LEMMA BufferEmpty == ASSUME evict = <<>>, numEvicted = 0 PROVE BufferInv
BY TakesEmpty, FS_EmptySet DEF BufferInv, BufferMatches

LEMMA BufferEmptyNext == ASSUME evict' = <<>>, numEvicted' = 0 PROVE BufferInv'
<1>1. Cells(Takes(evict')) = {} /\ Total(Takes(evict')) = 0
  BY TakesEmpty
<1> QED
  BY <1>1, FS_EmptySet DEF BufferInv, BufferMatches

LEMMA BufferOneNext ==
  ASSUME NEW e \in Record, evict' = <<e>>, numEvicted' = Slots(e) PROVE BufferInv'
<1>1. IsFiniteSet(Cells(Takes(evict'))) /\ Total(Takes(evict')) = Slots(e)
  BY TakesOne
<1> QED
  BY <1>1 DEF BufferInv, BufferMatches

LEMMA BufferSame == ASSUME BufferInv, UNCHANGED <<evict, numEvicted>> PROVE BufferInv'
BY DEF BufferInv, BufferMatches

LEMMA BufferEvict ==
  ASSUME IInv, BufferInv, NEW e \in Record, Evict(e)
  PROVE  BufferInv'
<1>1. CASE evict' = Append(evict, e) /\ numEvicted' = numEvicted + Slots(e)
  <2>1. evict \in Seq(Record)
    BY DEF IInv, TypeOK
  <2>2. /\ IsFiniteSet(Cells(Takes(Append(evict, e))))
        /\ Total(Takes(Append(evict, e))) = Total(Takes(evict)) + Slots(e)
    BY <2>1, TakesAppend DEF BufferInv
  <2> QED
    BY <1>1, <2>2 DEF BufferInv, BufferMatches
<1>2. CASE evict' = <<e>> /\ numEvicted' = Slots(e)
  BY <1>2, BufferOneNext
<1> QED
  BY <1>1, <1>2 DEF Evict

LEMMA BufferSpill ==
  ASSUME IInv, BufferInv, NEW b \in Buckets, NEW a \in Ways, Spill(table[b][a])
  PROVE  BufferInv'
<1>1. table[b][a] \in Record
  BY DEF IInv, TypeOK
<1> QED
  BY <1>1, BufferEvict, BufferSame DEF Spill, KeepBuffer

LEMMA BufferStep == IInv /\ BufferInv /\ [Next]_vars => BufferInv'
<1> SUFFICES ASSUME IInv, BufferInv, [Next]_vars PROVE BufferInv'
  OBVIOUS
<1>1. CASE Start
  BY <1>1, SpecialRecords, BufferOneNext DEF Start
<1>2. CASE Reset \/ StopEnd
  BY <1>2, BufferEmptyNext DEF Reset, StopEnd, Release
<1>3. ASSUME NEW t \in Traces, AddHit(t) PROVE BufferInv'
  BY <1>3, BufferSame DEF AddHit, KeepBuffer
<1>4. ASSUME NEW t \in Traces, AddMiss(t) PROVE BufferInv'
  <2>1. Hash(Truncate(t)) \in Buckets
    BY <1>4, KeysType, HashAssumption DEF AddMiss, Adding
  <2> QED
    BY <1>4, <2>1, BufferSpill DEF AddMiss
<1>5. CASE AddEmpty \/ WriteFails \/ UNCHANGED vars
  BY <1>5, BufferSame DEF AddEmpty, WriteFails, vars
<1>6. CASE BeginStop \/ BeginFlush
  BY <1>6, BufferSame DEF BeginStop, BeginFlush, BeginSweep, KeepBuffer
<1>7. CASE Sweep
  <2>1. cursor.bucket \in Buckets /\ cursor.way \in Ways
    BY <1>7, NextEntryType DEF Sweep, SweepDone, IInv, TypeOK
  <2> QED
    BY <1>7, <2>1, BufferSpill DEF Sweep
<1>8. CASE FlushEnd
  BY <1>8, BufferEmptyNext DEF FlushEnd, FlushEvicted
<1>9. CASE StopMark
  BY <1>9, SpecialRecords, BufferEvict DEF StopMark, MarkDue
<1> QED
  BY <1>1, <1>2, <1>3, <1>4, <1>5, <1>6, <1>7, <1>8, <1>9 DEF Next

-----------------------------------------------------------------------------
(* count_.  The steps of SampleLog say what each call does to Recorded.    *)

CountInv == Enabled => IsFiniteSet(Cells(Recorded)) /\ count = Total(Recorded)

LEMMA CountSame ==
  ASSUME CountInv, Enabled' => Enabled, count' = count, Enabled' => Recorded' = Recorded
  PROVE  CountInv'
BY DEF CountInv

LEMMA CountStart == ASSUME IInv, IInv', Start PROVE CountInv'
<1>1. Log!Start
  BY StartMaps
<1>2. Enabled' => Recorded' = [k \in Keys |-> 0]
  BY <1>1 DEF Log!Start, Log!NoSamples
<1>3. Cells([k \in Keys |-> 0]) = {}
  BY DEF Cells
<1>4. Enabled' => Cells(Recorded') = {} /\ count' = 0
  BY <1>2, <1>3 DEF Start
<1> QED
  BY <1>4, FS_EmptySet DEF CountInv, Total

LEMMA CountAdd ==
  ASSUME IInv, IInv', CountInv, NEW t \in Traces, AddHit(t) \/ AddMiss(t)
  PROVE  CountInv'
<1> DEFINE k0 == Truncate(t)
<1>1. k0 \in Keys /\ Log!Add(k0)
  BY AddHitMaps, AddMissMaps
<1>2. Enabled /\ Enabled' /\ count' = count + 1
  BY DEF AddHit, AddMiss, Adding, Idle, Enabled
<1>3. Recorded' = [Recorded EXCEPT ![k0] = @ + 1]
  BY <1>1, <1>2 DEF Log!Add
<1>4. Recorded \in [Keys -> Nat] /\ Recorded' \in [Keys -> Nat]
  <2>1. Recorded \in [Keys -> Nat]
    BY RecordedType, StreamType
  <2> QED
    BY <1>1, <1>3, <2>1
<1>5. IsFiniteSet(Cells(Recorded')) /\ Total(Recorded') = Total(Recorded) + 1
  <2>1. /\ Recorded'[k0] = Recorded[k0] + 1
        /\ \A y \in Keys : y # k0 => Recorded'[y] = Recorded[y]
    BY <1>1, <1>3, <1>4
  <2> QED
    BY <1>1, <1>2, <1>4, <2>1, CellsUp DEF CountInv
<1> QED
  BY <1>2, <1>5 DEF CountInv

LEMMA CountStep == IInv /\ IInv' /\ CountInv /\ [Next]_vars => CountInv'
<1> SUFFICES ASSUME IInv, IInv', CountInv, [Next]_vars PROVE CountInv'
  OBVIOUS
<1>1. CASE Start
  BY <1>1, CountStart
<1>2. CASE Reset \/ AddEmpty \/ WriteFails \/ StopEnd
  BY <1>2 DEF Reset, Release, AddEmpty, WriteFails, StopEnd, Enabled, CountInv
<1>3. ASSUME NEW t \in Traces, AddHit(t) \/ AddMiss(t) PROVE CountInv'
  BY <1>3, CountAdd
<1>4. ASSUME UNCHANGED Log!logVars, out' = out, crashed' = crashed, count' = count
      PROVE  CountInv'
  <2>1. Enabled' = Enabled
    BY <1>4 DEF Enabled
  <2>2. Enabled' => Recorded' = Recorded
    BY <1>4, <2>1 DEF Log!logVars
  <2> QED
    BY <1>4, <2>1, <2>2, CountSame
<1>5. CASE BeginStop \/ BeginFlush
  BY <1>4, <1>5, BeginMaps DEF BeginStop, BeginFlush, BeginSweep
<1>6. CASE Sweep
  BY <1>4, <1>6, SweepMaps DEF Sweep
<1>7. CASE FlushEnd
  BY <1>4, <1>7, FlushEndMaps DEF FlushEnd
<1>8. CASE StopMark
  BY <1>4, <1>8, StopMarkMaps DEF StopMark, MarkDue
<1>9. CASE UNCHANGED vars
  <2>1. \A k \in Keys : InTable(k)' = InTable(k)
    BY <1>9 DEF vars, InTable, Holders, Matches, Swept
  <2>2. Recorded' = Recorded
    BY <1>9, <2>1 DEF vars, Recorded, Stream
  <2> QED
    BY <1>9, <2>2, CountSame DEF vars, Enabled
<1> QED
  BY <1>1, <1>2, <1>3, <1>5, <1>6, <1>7, <1>8, <1>9 DEF Next

-----------------------------------------------------------------------------

CountsInv == IInv /\ BufferInv /\ CountInv

\* The counters of the collector agree with what it holds, throughout.
THEOREM CountsInvariance == SafetySpec => []CountsInv
<1>1. Init => CountsInv
  <2>1. Init => BufferInv
    BY BufferEmpty DEF Init
  <2>2. Init => CountInv
    BY DEF Init, CountInv, Enabled
  <2> QED
    BY <2>1, <2>2, InitInvariant DEF CountsInv
<1>2. CountsInv /\ [Next]_vars => CountsInv'
  BY StepInvariant, BufferStep, CountStep DEF CountsInv
<1> QED
  BY <1>1, <1>2, PTL DEF SafetySpec

\* num_evicted_ is what the buffered records take: FlushEvicted writes these
\* and nothing else.
THEOREM BufferCounted == Spec => []BufferMatches
<1>1. CountsInv => BufferMatches
  BY DEF CountsInv, BufferInv
<1> QED
  BY <1>1, CountsInvariance, PTL DEF Spec

\* GetCurrentState tells how many samples have been taken, wherever they are.
THEOREM SamplesCounted == Spec => []CountMatches
<1>1. CountsInv => CountMatches
  BY DEF CountsInv, CountInv, CountMatches, samples_gathered, Enabled
<1> QED
  BY <1>1, CountsInvariance, PTL DEF Spec
=============================================================================
