------------------------- MODULE ProfileReaderProofs -------------------------
(***************************************************************************)
(* The reader on any file that a session may leave: the virtual PCs, which *)
(* need nothing of what ReadSlot makes of the bytes, and then what comes   *)
(* back of the profile, which needs all of it: how a number survives the   *)
(* slot and the casts, where the samples are in the file, and what a read  *)
(* at the end of a cut file makes of a slot.                               *)
(***************************************************************************)
EXTENDS ProfileReader, CountingTheorems, SequenceTheorems, TLAPS

-----------------------------------------------------------------------------
(* The virtual PCs.                                                        *)

\* A sequence, of whatever.
IsSeq(s) == s \in Seq(ToSet(s))

LEMMA SeqAppend ==
  ASSUME NEW s, IsSeq(s), NEW e
  PROVE  /\ IsSeq(Append(s, e))
         /\ Len(s) \in Nat /\ DOMAIN s = 1 .. Len(s)
         /\ DOMAIN Append(s, e) = 1 .. Len(s) + 1
         /\ Len(Append(s, e)) = Len(s) + 1
         /\ \A i \in 1 .. Len(s) : Append(s, e)[i] = s[i]
         /\ Append(s, e)[Len(s) + 1] = e
<1> DEFINE S == ToSet(s) \cup {e}
           r == Append(s, e)
<1>1. Len(s) \in Nat /\ DOMAIN s = 1 .. Len(s)
  BY LenProperties DEF IsSeq
<1>2. s \in Seq(S)
  <2>1. s \in [1 .. Len(s) -> S]
    BY <1>1, LenProperties DEF IsSeq
  <2> QED
    BY <1>1, <2>1, IsASeq
<1>3. /\ r \in Seq(S) /\ Len(r) = Len(s) + 1
      /\ \A i \in 1 .. Len(s) : r[i] = s[i]
      /\ r[Len(s) + 1] = e
  BY <1>2, AppendProperties
<1> HIDE DEF r
<1>4. DOMAIN r = 1 .. Len(s) + 1 /\ r \in [1 .. Len(s) + 1 -> ToSet(r)]
  BY <1>3, LenProperties DEF ToSet
<1>5. IsSeq(r)
  BY <1>1, <1>4, IsASeq DEF IsSeq
<1> QED
  BY <1>1, <1>3, <1>4, <1>5 DEF r

LEMMA SeqEmpty == IsSeq(<<>>) /\ DOMAIN <<>> = {} /\ ToSet(<<>>) = {}
BY EmptySeq DEF IsSeq, ToSet

-----------------------------------------------------------------------------

Indexes == 1 .. Len(locations)

IInv ==
  /\ IsSeq(locations) /\ IsSeq(sample) /\ IsSeq(observations)
  /\ \A i, j \in DOMAIN locations : locations[i] = locations[j] => i = j
  /\ ToSet(sample) \subseteq DOMAIN locations
  /\ \A n \in DOMAIN observations :
       ToSet(observations[n].stack) \subseteq DOMAIN locations

LEMMA InitInv == Init => IInv
<1> SUFFICES ASSUME Init PROVE IInv
  OBVIOUS
<1>1. locations = <<>> /\ sample = <<>> /\ observations = <<>>
  BY DEF Init
<1> QED
  BY <1>1, SeqEmpty DEF IInv

\* An index is that of the location, and a new one is the last.
LEMMA LocateStep ==
  ASSUME IInv, NEW l, Locate(l), UNCHANGED observations
  PROVE  IInv'
<1>1. CASE UNCHANGED locations /\ \E i \in DOMAIN locations : sample' = Append(sample, i)
  <2>1. PICK i \in DOMAIN locations : sample' = Append(sample, i)
    BY <1>1
  <2>2. IsSeq(sample') /\ ToSet(sample') \subseteq DOMAIN locations
    BY <2>1, SeqAppend DEF IInv, ToSet
  <2> QED
    BY <1>1, <2>2 DEF IInv
<1>2. CASE /\ ~Contains(locations, l)
           /\ locations' = Append(locations, l)
           /\ sample' = Append(sample, Len(locations) + 1)
  <2> DEFINE n == Len(locations) + 1
  <2>1. /\ IsSeq(locations') /\ n \in Nat
        /\ DOMAIN locations = 1 .. Len(locations) /\ Len(locations) \in Nat
        /\ DOMAIN locations' = 1 .. n
        /\ \A i \in 1 .. Len(locations) : locations'[i] = locations[i]
        /\ locations'[n] = l
    BY <1>2, SeqAppend DEF IInv
  <2>2. \A i \in 1 .. Len(locations) : locations[i] # l
    BY <1>2 DEF Contains
  <2>3. ASSUME NEW i \in DOMAIN locations', NEW j \in DOMAIN locations',
               locations'[i] = locations'[j]
        PROVE  i = j
    <3>1. (i \in 1 .. Len(locations) \/ i = n) /\ (j \in 1 .. Len(locations) \/ j = n)
      BY <2>1
    <3> QED
      BY <2>1, <2>2, <2>3, <3>1 DEF IInv
  <2>4. DOMAIN locations \subseteq DOMAIN locations' /\ n \in DOMAIN locations'
    BY <2>1
  <2>5. IsSeq(sample') /\ ToSet(sample') \subseteq ToSet(sample) \cup {n}
    BY <1>2, SeqAppend DEF IInv, ToSet
  <2> QED
    BY <2>1, <2>3, <2>4, <2>5 DEF IInv
<1> QED
  BY <1>1, <1>2 DEF Locate

LEMMA RecordStep == ASSUME IInv, RecordSample PROVE IInv'
<1> DEFINE o == [count |-> ToInt(count), stack |-> sample]
<1>1. observations' = Append(observations, o) /\ UNCHANGED <<locations, sample>>
  BY DEF RecordSample
<1>2. /\ IsSeq(observations') /\ Len(observations) \in Nat
      /\ DOMAIN observations = 1 .. Len(observations)
      /\ DOMAIN observations' = 1 .. Len(observations) + 1
      /\ \A i \in 1 .. Len(observations) : observations'[i] = observations[i]
      /\ observations'[Len(observations) + 1] = o
  BY <1>1, SeqAppend DEF IInv
<1>3. o.stack = sample
  OBVIOUS
<1> HIDE DEF o
<1>4. ASSUME NEW i \in DOMAIN observations'
      PROVE  ToSet(observations'[i].stack) \subseteq DOMAIN locations
  <2>1. i \in 1 .. Len(observations) \/ i = Len(observations) + 1
    BY <1>2
  <2> QED
    BY <1>2, <1>3, <2>1 DEF IInv
<1> QED
  BY <1>1, <1>2, <1>4 DEF IInv

\* No step gives a location a second index, or records an index of none.
THEOREM StepInvariant == IInv /\ [Next]_vars => IInv'
<1> SUFFICES ASSUME IInv, [Next]_vars PROVE IInv'
  OBVIOUS
<1>1. ASSUME UNCHANGED <<locations, observations>>, sample' = sample \/ sample' = <<>>
      PROVE  IInv'
  BY <1>1, SeqEmpty DEF IInv
<1>2. CASE ReadHeader
  BY <1>1, <1>2 DEF ReadHeader
<1>3. CASE ReadRecord
  <2>1. UNCHANGED <<locations, observations>>
    BY <1>3 DEF ReadRecord
  <2>2. sample' = sample \/ sample' = <<>>
    BY <1>3 DEF ReadRecord, Keep
  <2> QED
    BY <1>1, <2>1, <2>2
<1>4. CASE ReadFrame
  BY <1>4, LocateStep DEF ReadFrame
<1>5. CASE RecordSample
  BY <1>5, RecordStep
<1>6. CASE UNCHANGED vars
  BY <1>1, <1>6 DEF vars
<1> QED
  BY <1>2, <1>3, <1>4, <1>5, <1>6 DEF Next

\* A virtual PC stands for one location, and a location has one.
THEOREM LocationsCorrect == Spec => []LocationsDistinct
<1>1. IInv => LocationsDistinct
  BY DEF IInv, LocationsDistinct
<1> QED
  BY <1>1, InitInv, StepInvariant, PTL DEF Spec

-----------------------------------------------------------------------------
(* The numbers: how many values bytes have, and what the casts keep.       *)

LEMMA TimesBase == ASSUME NEW x \in Nat \ {0} PROVE Base * x \in Nat \ {0} /\ Base * x > x
BY WidthAssumption

\* More bytes have more values.
LEMMA ValuesGrow ==
  /\ Values \in [0 .. SlotBytes -> Nat \ {0}]
  /\ 2 <= Ints /\ Ints < Longs
<1> DEFINE X == Nat \ {0}
           step == [n \in 1 .. SlotBytes |-> [x \in X |-> Base * x]]
           Turn(f) == [n \in 0 .. SlotBytes |-> IF n = 0 THEN 1 ELSE Base * f[n - 1]]
           values == CHOOSE f : f = Turn(f)
<1>1. step \in Steps(X, SlotBytes)
  BY TimesBase DEF Steps
<1>2. PICK f \in Histories(X, 1, SlotBytes, step) : TRUE
  <2> HIDE DEF step, X
  <2>1. 1 \in X
    BY DEF X
  <2> QED
    BY <1>1, <2>1, LoopHistory, WidthAssumption
<1>3. f = Turn(f)
  <2>1. f = [n \in 0 .. SlotBytes |-> f[n]]
    BY <1>2 DEF Histories
  <2>2. ASSUME NEW n \in 0 .. SlotBytes PROVE f[n] = IF n = 0 THEN 1 ELSE Base * f[n - 1]
    <3>1. CASE n = 0
      BY <1>2, <3>1 DEF Histories
    <3>2. CASE n # 0
      <4>1. n \in 1 .. SlotBytes /\ n - 1 \in 0 .. SlotBytes
        BY <3>2, WidthAssumption
      <4>2. f[n - 1] \in X /\ f[n] = step[n][f[n - 1]]
        BY <1>2, <4>1 DEF Histories
      <4> QED
        BY <3>2, <4>1, <4>2
    <3> QED
      BY <3>1, <3>2
  <2> QED
    BY <2>1, <2>2, Zenon
<1>4. values = Turn(values)
  <2> HIDE DEF Turn
  <2> QED
    BY <1>3
<1> HIDE DEF values
<1>5. /\ DOMAIN values = 0 .. SlotBytes /\ values = [n \in 0 .. SlotBytes |-> values[n]]
      /\ values[0] = 1
      /\ \A n \in 1 .. SlotBytes : values[n] = Base * values[n - 1]
  <2>1. DOMAIN values = DOMAIN Turn(values)
        /\ \A n \in 0 .. SlotBytes : values[n] = Turn(values)[n]
    BY <1>4
  <2>2. values = [n \in 0 .. SlotBytes |-> values[n]]
    <3>1. Turn(values) = [n \in 0 .. SlotBytes |-> Turn(values)[n]]
      OBVIOUS
    <3> QED
      BY <1>4, <3>1
  <2>3. \A n \in 0 .. SlotBytes : values[n] = IF n = 0 THEN 1 ELSE Base * values[n - 1]
    BY <2>1
  <2>4. DOMAIN values = 0 .. SlotBytes
    BY <2>1
  <2> HIDE DEF Turn
  <2>5. 0 \in 0 .. SlotBytes /\ \A n \in 1 .. SlotBytes : n # 0 /\ n \in 0 .. SlotBytes
    BY WidthAssumption
  <2> QED
    BY <2>2, <2>3, <2>4, <2>5
<1>6. Values = values
  BY DEF Values, values
<1> DEFINE T == {n \in Nat : n <= SlotBytes =>
                   /\ values[n] \in X
                   /\ n > 0 => 2 <= values[n]
                   /\ \A k \in 0 .. n : k < n => values[k] \in X /\ values[k] < values[n]}
<1>7. 0 \in T
  BY <1>5
<1>8. ASSUME NEW n \in T PROVE n + 1 \in T
  <2> SUFFICES ASSUME n + 1 <= SlotBytes
               PROVE  /\ values[n + 1] \in X /\ 2 <= values[n + 1]
                      /\ \A k \in 0 .. n + 1 :
                           k < n + 1 => values[k] \in X /\ values[k] < values[n + 1]
    OBVIOUS
  <2>1. n \in Nat /\ n + 1 \in 1 .. SlotBytes /\ (n + 1) - 1 = n
    BY WidthAssumption
  <2>2. /\ values[n] \in X
        /\ \A k \in 0 .. n : k < n => values[k] \in X /\ values[k] < values[n]
    <3>1. n <= SlotBytes
      BY <2>1, WidthAssumption
    <3> QED
      BY <3>1, Zenon
  <2>3. values[n + 1] = Base * values[n]
    BY <1>5, <2>1
  <2>4. values[n + 1] \in X /\ values[n + 1] > values[n]
    BY <2>2, <2>3, TimesBase
  <2>5. 2 <= values[n + 1]
    BY <2>2, <2>4
  <2>6. ASSUME NEW k \in 0 .. n + 1, k < n + 1 PROVE values[k] \in X /\ values[k] < values[n + 1]
    <3>1. k \in 0 .. n /\ (k = n \/ k < n)
      BY <2>1, <2>6
    <3>2. CASE k = n
      BY <2>2, <2>4, <3>2
    <3>3. CASE k < n
      <4>1. values[k] \in X /\ values[k] < values[n]
        BY <2>2, <3>1, <3>3
      <4> QED
        BY <2>2, <2>4, <4>1
    <3> QED
      BY <3>1, <3>2, <3>3
  <2> QED
    BY <2>4, <2>5, <2>6
<1> HIDE DEF T
<1>9. T = Nat
  BY <1>7, <1>8, SetInduction DEF T
<1>10. ASSUME NEW n \in 0 .. SlotBytes
       PROVE  /\ values[n] \in X
              /\ n > 0 => 2 <= values[n]
              /\ \A k \in 0 .. n : k < n => values[k] < values[n]
  <2>1. n \in Nat /\ n <= SlotBytes
    BY WidthAssumption
  <2> QED
    BY <1>9, <2>1 DEF T
<1>11. 2 <= values[IntBytes] /\ values[IntBytes] < values[SlotBytes]
  <2>1. /\ IntBytes \in 0 .. SlotBytes /\ SlotBytes \in 0 .. SlotBytes
        /\ IntBytes > 0 /\ IntBytes < SlotBytes
    BY WidthAssumption
  <2> QED
    BY <1>10, <2>1
<1> QED
  BY <1>5, <1>6, <1>10, <1>11 DEF Ints, Longs

\* A number that fits comes back from a slot.
LEMMA Back ==
  ASSUME NEW b \in Nat \ {0}, NEW v \in Int, -b <= 2 * v, 2 * v < b
  PROVE  Signed(v % b, b) = v
<1>1. CASE v >= 0
  <2>1. v \in 0 .. b - 1
    BY <1>1
  <2>2. v % b = v
    BY <2>1
  <2> QED
    BY <2>2 DEF Signed
<1>2. CASE v < 0
  <2>1. v \in -b .. -1
    BY <1>2
  <2>2. v % b = v + b
    BY <2>1
  <2> QED
    BY <2>2, <1>2 DEF Signed
<1> QED
  BY <1>1, <1>2

\* So does a pointer from a long with a sign.
LEMMA BackUnsigned ==
  ASSUME NEW b \in Nat \ {0}, NEW v \in 0 .. b - 1
  PROVE  Signed(v % b, b) % b = v
<1>1. v % b = v
  OBVIOUS
<1>2. v - b \in -b .. -1
  OBVIOUS
<1>3. (v - b) % b = v
  BY <1>2
<1> QED
  BY <1>1, <1>3 DEF Signed

LEMMA ToIntBack == ASSUME NEW v \in Int, IsInt(v) PROVE ToInt(v) = v /\ Signed(v % Longs, Longs) = v
<1>1. Ints \in Nat \ {0} /\ Longs \in Nat \ {0} /\ Ints < Longs
  BY ValuesGrow, WidthAssumption DEF Ints, Longs
<1>2. -Longs <= 2 * v /\ 2 * v < Longs /\ -Ints <= 2 * v /\ 2 * v < Ints
  BY <1>1 DEF IsInt
<1> QED
  BY <1>1, <1>2, Back DEF ToInt

LEMMA SignedType == ASSUME NEW b \in Nat \ {0}, NEW v \in Int PROVE Signed(v, b) \in Int /\ v % b \in 0 .. b - 1
BY DEF Signed

LEMMA ToIntType == ASSUME NEW v \in Int PROVE ToInt(v) \in Int
<1>1. Ints \in Nat \ {0}
  BY ValuesGrow, WidthAssumption DEF Ints, Longs
<1>2. v % Ints \in Int
  BY <1>1
<1> QED
  BY <1>1, <1>2, SignedType DEF ToInt

-----------------------------------------------------------------------------
(* The file that is written.                                               *)

Frame   == [method : Nat, line : Int]
Samples == [count : Nat \ {0}, frames : Seq(Frame)]

LEMMA ProfileType ==
  ASSUME NEW p \in Profiles
  PROVE  /\ p \in Seq(Samples) /\ Len(p) \in Nat /\ DOMAIN p = 1 .. Len(p)
         /\ \A n \in 1 .. Len(p) : p[n] \in Samples
<1>1. p \in Seq(Samples)
  BY ProfilesAssumption DEF Samples, Frame
<1> QED
  BY <1>1, LenProperties, ElementOfSeq

LEMMA FramesType ==
  ASSUME NEW s \in Samples
  PROVE  /\ s.count \in Nat \ {0} /\ s.frames \in Seq(Frame) /\ Len(s.frames) \in Nat
         /\ DOMAIN s.frames = 1 .. Len(s.frames)
         /\ \A j \in 1 .. Len(s.frames) :
              /\ s.frames[j] \in Frame
              /\ s.frames[j].method \in Nat /\ s.frames[j].line \in Int
<1>1. s.count \in Nat \ {0} /\ s.frames \in Seq(Frame)
  BY DEF Samples
<1>2. /\ Len(s.frames) \in Nat /\ DOMAIN s.frames = 1 .. Len(s.frames)
      /\ s.frames \in [1 .. Len(s.frames) -> Frame]
  BY <1>1, LenProperties
<1>3. \A f \in Frame : f.method \in Nat /\ f.line \in Int
  BY DEF Frame
<1> QED
  BY <1>1, <1>2, <1>3

LEMMA SampleFits ==
  ASSUME NEW p \in Profiles, NEW n \in 1 .. Len(p)
  PROVE  /\ IsInt(p[n].count) /\ IsInt(2 * Len(p[n].frames))
         /\ \A j \in 1 .. Len(p[n].frames) :
              /\ p[n].frames[j].method \in 0 .. Longs - 1
              /\ p[n].frames[j].line \in Int /\ IsInt(p[n].frames[j].line)
<1>1. n \in DOMAIN p /\ p[n] \in Samples
  BY ProfileType
<1>2. /\ IsInt(p[n].count) /\ IsInt(2 * Len(p[n].frames))
      /\ \A j \in DOMAIN p[n].frames :
           p[n].frames[j].method < Longs /\ IsInt(p[n].frames[j].line)
  BY <1>1, ProfilesAssumption
<1>3. Longs \in Nat
  BY ValuesGrow, WidthAssumption DEF Longs
<1> QED
  <2>1. /\ DOMAIN p[n].frames = 1 .. Len(p[n].frames)
        /\ \A j \in 1 .. Len(p[n].frames) :
             p[n].frames[j].method \in Nat /\ p[n].frames[j].line \in Int
    BY <1>1, FramesType
  <2> QED
    BY <1>2, <1>3, <2>1

\* The frames of a sample are at every second slot behind the first two.
LEMMA SlotsType ==
  ASSUME NEW s \in Samples
  PROVE  /\ SlotsOf(s) \in Seq(Int) /\ Len(SlotsOf(s)) = 2 + 2 * Len(s.frames)
         /\ SlotsOf(s)[1] = s.count /\ SlotsOf(s)[2] = 2 * Len(s.frames)
         /\ \A j \in 1 .. Len(s.frames) :
              /\ SlotsOf(s)[2 * j + 1] = s.frames[j].method
              /\ SlotsOf(s)[2 * j + 2] = s.frames[j].line
<1> DEFINE k == Len(s.frames)
           a == <<s.count, 2 * k>>
           At(i) == LET f == s.frames[(i + 1) \div 2] IN IF i % 2 = 1 THEN f.method ELSE f.line
           b == [i \in 1 .. 2 * k |-> At(i)]
<1>1. k \in Nat /\ s.count \in Int
  <2>1. Len(s.frames) \in Nat /\ s.count \in Nat \ {0}
    BY FramesType
  <2> QED
    BY <2>1
<1>2. a \in Seq(Int) /\ Len(a) = 2 /\ a[1] = s.count /\ a[2] = 2 * k
  BY <1>1
<1>3. ASSUME NEW i \in 1 .. 2 * k PROVE At(i) \in Int
  <2>1. (i + 1) \div 2 \in 1 .. k
    BY <1>1
  <2> QED
    <3>1. \A j \in 1 .. k : s.frames[j].method \in Nat /\ s.frames[j].line \in Int
      BY FramesType
    <3> HIDE DEF k
    <3> QED
      BY <2>1, <3>1
<1>4. b \in Seq(Int) /\ Len(b) = 2 * k /\ \A i \in 1 .. 2 * k : b[i] = At(i)
  <2>1. b \in [1 .. 2 * k -> Int]
    BY <1>3
  <2>2. 2 * k \in Nat
    BY <1>1
  <2> HIDE DEF At, k
  <2> QED
    BY <2>1, <2>2
<1>5. SlotsOf(s) = a \o b
  BY DEF SlotsOf
<1> HIDE DEF a, b
<1>6. /\ a \o b \in Seq(Int) /\ Len(a \o b) = Len(a) + Len(b)
      /\ \A i \in 1 .. Len(a) + Len(b) :
           (a \o b)[i] = IF i <= Len(a) THEN a[i] ELSE b[i - Len(a)]
  BY <1>2, <1>4, ConcatProperties
<1>7. ASSUME NEW j \in 1 .. k
      PROVE  /\ (a \o b)[2 * j + 1] = s.frames[j].method
             /\ (a \o b)[2 * j + 2] = s.frames[j].line
  <2>1. /\ 2 * j - 1 \in 1 .. 2 * k /\ 2 * j \in 1 .. 2 * k
        /\ ((2 * j - 1) + 1) \div 2 = j /\ (2 * j + 1) \div 2 = j
        /\ (2 * j - 1) % 2 = 1 /\ (2 * j) % 2 = 0
    BY <1>1
  <2>2. /\ (a \o b)[2 * j + 1] = b[2 * j - 1]
        /\ (a \o b)[2 * j + 2] = b[2 * j]
    <3> HIDE DEF k
    <3>1. /\ 2 * j + 1 \in 1 .. 2 + 2 * k /\ ~ (2 * j + 1 <= 2) /\ (2 * j + 1) - 2 = 2 * j - 1
          /\ 2 * j + 2 \in 1 .. 2 + 2 * k /\ ~ (2 * j + 2 <= 2) /\ (2 * j + 2) - 2 = 2 * j
      BY <1>1
    <3> QED
      BY <1>2, <1>4, <1>6, <3>1
  <2>3. b[2 * j - 1] = At(2 * j - 1) /\ b[2 * j] = At(2 * j)
    BY <1>4, <2>1
  <2>4. At(2 * j - 1) = s.frames[j].method /\ At(2 * j) = s.frames[j].line
    BY <2>1
  <2> QED
    BY <2>2, <2>3, <2>4
<1>8. (a \o b)[1] = s.count /\ (a \o b)[2] = 2 * k
  BY <1>1, <1>2, <1>4, <1>6
<1> QED
  BY <1>2, <1>4, <1>5, <1>6, <1>7, <1>8

\* Contents has what the loop has after each sample.
LEMMA ContentsLoop ==
  ASSUME NEW p \in Profiles
  PROVE  /\ Contents(p) \in [0 .. Len(p) -> Seq(Int)]
         /\ Contents(p)[0] = <<0, 3, 0, Period, 0>>
         /\ \A n \in 1 .. Len(p) : Contents(p)[n] = Contents(p)[n - 1] \o SlotsOf(p[n])
<1> DEFINE X == Seq(Int)
           N == Len(p)
           header == <<0, 3, 0, Period, 0>>
           step == [n \in 1 .. N |-> [c \in X |-> c \o SlotsOf(p[n])]]
           Turn(f) == [n \in 0 .. N |-> IF n = 0 THEN header ELSE f[n - 1] \o SlotsOf(p[n])]
           contents == CHOOSE f : f = Turn(f)
<1>1. N \in Nat /\ \A n \in 1 .. N : SlotsOf(p[n]) \in X
  BY ProfileType, SlotsType
<1>2. header \in X
  BY ProfilesAssumption
<1>3. ASSUME NEW c \in X, NEW n \in 1 .. N PROVE c \o SlotsOf(p[n]) \in X
  BY <1>1, ConcatProperties
<1> HIDE DEF header
<1>4. step \in Steps(X, N)
  BY <1>3 DEF Steps
<1>5. PICK f \in Histories(X, header, N, step) : TRUE
  <2> HIDE DEF step, X, N
  <2> QED
    BY <1>1, <1>2, <1>4, LoopHistory
<1>6. f = Turn(f)
  <2>1. f = [n \in 0 .. N |-> f[n]]
    BY <1>5 DEF Histories
  <2>2. ASSUME NEW n \in 0 .. N PROVE f[n] = IF n = 0 THEN header ELSE f[n - 1] \o SlotsOf(p[n])
    <3>1. CASE n = 0
      BY <1>5, <3>1 DEF Histories
    <3>2. CASE n # 0
      <4> HIDE DEF N
      <4>1. n \in 1 .. N /\ n - 1 \in 0 .. N
        BY <1>1, <3>2
      <4>2. f[n - 1] \in X /\ f[n] = step[n][f[n - 1]]
        BY <1>5, <4>1 DEF Histories
      <4> QED
        BY <3>2, <4>1, <4>2
    <3> QED
      BY <3>1, <3>2
  <2> QED
    BY <2>1, <2>2, Zenon
<1>7. contents = Turn(contents)
  <2> HIDE DEF Turn
  <2> QED
    BY <1>6
<1> HIDE DEF contents
<1>8. /\ DOMAIN contents = 0 .. N /\ contents = [n \in 0 .. N |-> contents[n]]
      /\ contents[0] = header
      /\ \A n \in 1 .. N : contents[n] = contents[n - 1] \o SlotsOf(p[n])
  <2>1. DOMAIN contents = DOMAIN Turn(contents)
        /\ \A n \in 0 .. N : contents[n] = Turn(contents)[n]
    BY <1>7
  <2>2. contents = [n \in 0 .. N |-> contents[n]]
    <3>1. Turn(contents) = [n \in 0 .. N |-> Turn(contents)[n]]
      OBVIOUS
    <3> QED
      BY <1>7, <3>1
  <2>3. \A n \in 0 .. N : contents[n] = IF n = 0 THEN header ELSE contents[n - 1] \o SlotsOf(p[n])
    BY <2>1
  <2>4. DOMAIN contents = 0 .. N
    BY <2>1
  <2> HIDE DEF Turn, N
  <2>5. 0 \in 0 .. N /\ \A n \in 1 .. N : n # 0 /\ n \in 0 .. N
    BY <1>1
  <2> QED
    BY <2>2, <2>3, <2>4, <2>5
<1>9. \A n \in 0 .. N : contents[n] \in X
  <2> DEFINE T == {n \in Nat : n <= N => contents[n] \in X}
  <2>1. 0 \in T
    BY <1>2, <1>8
  <2>2. ASSUME NEW n \in T PROVE n + 1 \in T
    <3> SUFFICES ASSUME n + 1 <= N PROVE contents[n + 1] \in X
      OBVIOUS
    <3>1. n + 1 \in 1 .. N /\ (n + 1) - 1 = n /\ contents[n] \in X
      BY <1>1
    <3>2. contents[n + 1] = contents[n] \o SlotsOf(p[n + 1])
      BY <1>8, <3>1
    <3> QED
      BY <1>3, <3>1, <3>2
  <2> HIDE DEF T
  <2>3. T = Nat
    BY <2>1, <2>2, SetInduction DEF T
  <2> QED
    <3> SUFFICES ASSUME NEW n \in 0 .. N PROVE contents[n] \in X
      OBVIOUS
    <3>1. n \in T /\ n <= N
      BY <1>1, <2>3
    <3> QED
      BY <3>1 DEF T
<1>10. Contents(p) = contents
  BY DEF Contents, contents, header
<1>11. contents \in [0 .. N -> X]
  BY <1>8, <1>9
<1> QED
  BY <1>8, <1>10, <1>11 DEF header

\* Where a profile's sample n + 1 begins.
Start(p, n) == Len(Contents(p)[n])

LEMMA ContentsType ==
  ASSUME NEW p \in Profiles, NEW n \in 0 .. Len(p)
  PROVE  Contents(p)[n] \in Seq(Int) /\ Start(p, n) \in Nat
<1>1. Contents(p) \in [0 .. Len(p) -> Seq(Int)]
  BY ContentsLoop
<1>2. Contents(p)[n] \in Seq(Int)
  BY <1>1
<1> QED
  BY <1>2, LenProperties DEF Start

\* The slots of a sample.
HoldsAt(c, s, at) ==
  /\ c[at + 1] = s.count /\ c[at + 2] = 2 * Len(s.frames)
  /\ \A j \in 1 .. Len(s.frames) :
       c[at + 2 * j + 1] = s.frames[j].method /\ c[at + 2 * j + 2] = s.frames[j].line

\* Every turn adds the slots of its sample.
LEMMA ContentsTurn ==
  ASSUME NEW p \in Profiles, NEW n \in 1 .. Len(p)
  PROVE  /\ Start(p, n - 1) \in Nat /\ Start(p, n) \in Nat /\ Len(p[n].frames) \in Nat
         /\ Start(p, n) = Start(p, n - 1) + 2 + 2 * Len(p[n].frames)
         /\ \A i \in 1 .. Start(p, n - 1) : Contents(p)[n][i] = Contents(p)[n - 1][i]
         /\ HoldsAt(Contents(p)[n], p[n], Start(p, n - 1))
<1> DEFINE a == Contents(p)[n - 1]
           b == SlotsOf(p[n])
           s == p[n]
           k == Len(s.frames)
<1>1. Len(p) \in Nat /\ n - 1 \in 0 .. Len(p) /\ s \in Samples
  BY ProfileType
<1>2. a \in Seq(Int) /\ Contents(p)[n] = a \o b
  BY <1>1, ContentsType, ContentsLoop
<1>3. /\ b \in Seq(Int) /\ k \in Nat /\ Len(b) = 2 + 2 * k
      /\ b[1] = s.count /\ b[2] = 2 * k
      /\ \A j \in 1 .. k : b[2 * j + 1] = s.frames[j].method /\ b[2 * j + 2] = s.frames[j].line
  BY <1>1, SlotsType, FramesType
<1>4. Start(p, n - 1) = Len(a) /\ Start(p, n) = Len(a \o b) /\ Len(p[n].frames) = k
  BY <1>2 DEF Start
<1> HIDE DEF a, b, k, s
<1>5. /\ Len(a) \in Nat /\ Len(a \o b) = Len(a) + Len(b)
      /\ \A i \in 1 .. Len(a) + Len(b) :
           (a \o b)[i] = IF i <= Len(a) THEN a[i] ELSE b[i - Len(a)]
  BY <1>2, <1>3, ConcatProperties, LenProperties
<1>6. \A i \in 1 .. Len(a) : (a \o b)[i] = a[i]
  BY <1>3, <1>5
<1>7. ASSUME NEW i \in 1 .. 2 + 2 * k PROVE (a \o b)[Len(a) + i] = b[i]
  <2>1. /\ Len(a) + i \in 1 .. Len(a) + Len(b) /\ ~ (Len(a) + i <= Len(a))
        /\ (Len(a) + i) - Len(a) = i
    BY <1>3, <1>5
  <2> QED
    BY <1>5, <2>1
<1>8. HoldsAt(a \o b, s, Len(a))
  <2>1. (a \o b)[Len(a) + 1] = s.count /\ (a \o b)[Len(a) + 2] = 2 * k
    BY <1>3, <1>7
  <2>2. ASSUME NEW j \in 1 .. k
        PROVE  /\ (a \o b)[Len(a) + 2 * j + 1] = s.frames[j].method
               /\ (a \o b)[Len(a) + 2 * j + 2] = s.frames[j].line
    <3>1. /\ 2 * j + 1 \in 1 .. 2 + 2 * k /\ 2 * j + 2 \in 1 .. 2 + 2 * k
          /\ Len(a) + 2 * j + 1 = Len(a) + (2 * j + 1)
          /\ Len(a) + 2 * j + 2 = Len(a) + (2 * j + 2)
      BY <1>3, <1>5
    <3>2. /\ (a \o b)[Len(a) + (2 * j + 1)] = b[2 * j + 1]
          /\ (a \o b)[Len(a) + (2 * j + 2)] = b[2 * j + 2]
      BY <1>7, <3>1
    <3> QED
      BY <1>3, <3>1, <3>2
  <2> QED
    BY <2>1, <2>2 DEF HoldsAt, k
<1> QED
  <2>1. /\ Start(p, n - 1) \in Nat /\ Start(p, n) \in Nat /\ Len(p[n].frames) \in Nat
        /\ Start(p, n) = Start(p, n - 1) + 2 + 2 * Len(p[n].frames)
    <3>1. Len(a \o b) = Len(a) + 2 + 2 * k /\ Len(a \o b) \in Nat
      BY <1>3, <1>5
    <3> QED
      BY <1>3, <1>4, <1>5, <3>1, Zenon
  <2>2. \A i \in 1 .. Start(p, n - 1) : Contents(p)[n][i] = Contents(p)[n - 1][i]
    BY <1>2, <1>4, <1>6 DEF a
  <2>3. HoldsAt(Contents(p)[n], p[n], Start(p, n - 1))
    BY <1>2, <1>4, <1>8 DEF s
  <2> QED
    BY <2>1, <2>2, <2>3

\* What was in the file after a sample stays there.
LEMMA ContentsPrefix ==
  ASSUME NEW p \in Profiles, NEW m \in 0 .. Len(p), NEW n \in 0 .. m
  PROVE  /\ Start(p, n) \in Nat /\ Start(p, n) <= Start(p, m)
         /\ \A i \in 1 .. Start(p, n) : Contents(p)[m][i] = Contents(p)[n][i]
<1> DEFINE Kept(l) == /\ Start(p, n) \in Nat /\ Start(p, l) \in Nat /\ Start(p, n) <= Start(p, l)
                      /\ \A i \in 1 .. Start(p, n) : Contents(p)[l][i] = Contents(p)[n][i]
           T == {k \in Nat : n + k <= Len(p) => Kept(n + k)}
<1>1. Len(p) \in Nat /\ n \in Nat /\ m \in Nat /\ m - n \in Nat /\ m <= Len(p)
  BY ProfileType
<1>2. 0 \in T
  <2>1. n \in 0 .. Len(p)
    BY <1>1
  <2>2. Start(p, n) \in Nat /\ n + 0 = n
    BY <1>1, <2>1, ContentsType
  <2>3. Kept(n + 0)
    BY <2>2
  <2> HIDE DEF Kept
  <2> QED
    BY <2>3
<1>3. ASSUME NEW k \in T PROVE k + 1 \in T
  <2> SUFFICES ASSUME n + (k + 1) <= Len(p) PROVE Kept(n + (k + 1))
    OBVIOUS
  <2> DEFINE l == n + (k + 1)
  <2>1. k \in Nat /\ n + k <= Len(p) /\ l \in 1 .. Len(p) /\ l - 1 = n + k
    BY <1>1
  <2>2. Kept(n + k)
    BY <2>1
  <2> HIDE DEF l
  <2>3. /\ Start(p, l) \in Nat /\ Start(p, l) >= Start(p, n + k)
        /\ \A i \in 1 .. Start(p, n + k) : Contents(p)[l][i] = Contents(p)[n + k][i]
    <3>1. /\ Start(p, l - 1) \in Nat /\ Start(p, l) \in Nat /\ Len(p[l].frames) \in Nat
          /\ Start(p, l) = Start(p, l - 1) + 2 + 2 * Len(p[l].frames)
          /\ \A i \in 1 .. Start(p, l - 1) : Contents(p)[l][i] = Contents(p)[l - 1][i]
      BY <2>1, ContentsTurn
    <3>2. Start(p, l) >= Start(p, l - 1)
      BY <3>1
    <3> QED
      BY <2>1, <3>1, <3>2
  <2>4. \A i \in 1 .. Start(p, n) : i \in 1 .. Start(p, n + k)
    BY <2>2
  <2>5. Kept(l)
    BY <2>2, <2>3, <2>4
  <2> QED
    BY <2>5 DEF l
<1> HIDE DEF T, Kept
<1>4. T = Nat
  BY <1>2, <1>3, SetInduction DEF T
<1>5. n + (m - n) <= Len(p) /\ n + (m - n) = m /\ m - n \in T
  BY <1>1, <1>4
<1>6. Kept(m)
  BY <1>5 DEF T
<1> QED
  BY <1>6 DEF Kept

\* The slots of a sample as they are in the file.
StoredAt(w, s, at) ==
  /\ w[at + 1] = s.count % Longs /\ w[at + 2] = (2 * Len(s.frames)) % Longs
  /\ \A j \in 1 .. Len(s.frames) :
       /\ w[at + 2 * j + 1] = s.frames[j].method % Longs
       /\ w[at + 2 * j + 2] = s.frames[j].line % Longs

\* The file of a profile: a header that asks for no more slots than it has,
\* every sample behind the ones before it, and the marker.
LEMMA WrittenLayout ==
  ASSUME NEW p \in Profiles
  PROVE  /\ Written(p) \in Seq(0 .. Longs - 1)
         /\ Start(p, 0) = 5 /\ Start(p, Len(p)) \in Nat /\ 5 <= Start(p, Len(p))
         /\ Len(Written(p)) = Start(p, Len(p)) + 3
         /\ Written(p)[2] \in 0 .. 3
         /\ Written(p)[Start(p, Len(p)) + 1] = 0
         /\ Written(p)[Start(p, Len(p)) + 2] = 1
         /\ \A n \in 1 .. Len(p) :
              /\ Start(p, n) <= Start(p, Len(p))
              /\ StoredAt(Written(p), p[n], Start(p, n - 1))
<1> DEFINE N == Len(p)
           c == Contents(p)[N]
           e == <<0, 1, 0>>
           v == c \o e
           w == [i \in 1 .. Len(v) |-> v[i] % Longs]
<1>1. N \in Nat /\ Longs \in Nat \ {0} /\ 2 < Longs
  BY ProfileType, ValuesGrow, WidthAssumption DEF Longs, Ints
<1>2. c \in Seq(Int) /\ Len(c) \in Nat /\ Start(p, N) = Len(c)
  <2>1. N \in 0 .. Len(p)
    BY <1>1
  <2>2. c \in Seq(Int)
    BY <2>1, ContentsType
  <2> QED
    BY <2>2, LenProperties DEF Start
<1>3. e \in Seq(Int) /\ Len(e) = 3 /\ e[1] = 0 /\ e[2] = 1
  OBVIOUS
<1>4. Written(p) = w
  BY DEF Written
<1> HIDE DEF N, c, e
<1>5. /\ v \in Seq(Int) /\ Len(v) = Len(c) + 3
      /\ \A i \in 1 .. Len(c) : v[i] = c[i]
      /\ v[Len(c) + 1] = 0 /\ v[Len(c) + 2] = 1
      /\ \A i \in 1 .. Len(c) + 3 : v[i] \in Int
  <2>1. /\ v \in Seq(Int) /\ Len(v) = Len(c) + Len(e)
        /\ \A i \in 1 .. Len(c) + Len(e) : v[i] = IF i <= Len(c) THEN c[i] ELSE e[i - Len(c)]
    BY <1>2, <1>3, ConcatProperties
  <2>2. \A i \in 1 .. Len(v) : v[i] \in Int
    BY <2>1, ElementOfSeq
  <2> HIDE DEF v
  <2>3. Len(v) = Len(c) + 3
    BY <1>3, <2>1
  <2>4. \A i \in 1 .. Len(c) : v[i] = c[i]
    BY <1>2, <1>3, <2>1
  <2>5. /\ ~ (Len(c) + 1 <= Len(c)) /\ (Len(c) + 1) - Len(c) = 1
        /\ ~ (Len(c) + 2 <= Len(c)) /\ (Len(c) + 2) - Len(c) = 2
        /\ Len(c) + 1 \in 1 .. Len(c) + Len(e) /\ Len(c) + 2 \in 1 .. Len(c) + Len(e)
    BY <1>2, <1>3
  <2>6. v[Len(c) + 1] = 0 /\ v[Len(c) + 2] = 1
    BY <1>3, <2>1, <2>5
  <2> QED
    BY <2>1, <2>2, <2>3, <2>4, <2>6
<1> HIDE DEF v
<1>6. w \in Seq(0 .. Longs - 1) /\ Len(w) = Len(c) + 3
      /\ \A i \in 1 .. Len(c) + 3 : w[i] = v[i] % Longs
  <2>1. \A i \in 1 .. Len(v) : v[i] % Longs \in 0 .. Longs - 1
    BY <1>1, <1>5
  <2>2. w \in [1 .. Len(v) -> 0 .. Longs - 1]
    BY <2>1
  <2>3. Len(v) \in Nat
    BY <1>2, <1>5
  <2> QED
    BY <1>5, <2>2, <2>3
<1> HIDE DEF w
<1>7. \A i \in 1 .. Len(c) : w[i] = c[i] % Longs
  BY <1>2, <1>5, <1>6
<1>8. w[Len(c) + 1] = 0 /\ w[Len(c) + 2] = 1
  <2>1. 0 % Longs = 0 /\ 1 % Longs = 1
    BY <1>1
  <2>2. Len(c) + 1 \in 1 .. Len(c) + 3 /\ Len(c) + 2 \in 1 .. Len(c) + 3
    BY <1>2
  <2> QED
    BY <1>5, <1>6, <2>1, <2>2
<1>9. Start(p, 0) = 5 /\ 5 <= Start(p, N) /\ w[2] \in 0 .. 3
  <2>1. /\ 0 \in 0 .. Len(p) /\ 0 \in 0 .. N /\ N \in 0 .. Len(p)
    BY <1>1 DEF N
  <2>2. Contents(p)[0] = <<0, 3, 0, Period, 0>>
    BY <2>1, ContentsLoop
  <2>3. Start(p, 0) = 5 /\ Contents(p)[0][2] = 3
    BY <2>2 DEF Start
  <2>4. 5 <= Start(p, N) /\ c[2] = 3
    <3>1. /\ Start(p, 0) <= Start(p, N)
          /\ \A i \in 1 .. Start(p, 0) : Contents(p)[N][i] = Contents(p)[0][i]
      BY <2>1, ContentsPrefix
    <3>2. 2 \in 1 .. 5
      OBVIOUS
    <3> QED
      BY <2>3, <3>1, <3>2 DEF c
  <2>5. 2 \in 1 .. Len(c)
    BY <1>2, <2>4
  <2>6. 3 % Longs \in 0 .. 3
    BY <1>1
  <2> QED
    BY <1>7, <2>3, <2>4, <2>5, <2>6
<1>10. ASSUME NEW n \in 1 .. N
       PROVE  Start(p, n) <= Start(p, N) /\ StoredAt(w, p[n], Start(p, n - 1))
  <2> DEFINE s == p[n]
             k == Len(s.frames)
             at == Start(p, n - 1)
  <2>1. n \in 1 .. Len(p) /\ N \in 0 .. Len(p) /\ n \in 0 .. N
    BY <1>1 DEF N
  <2>2. /\ at \in Nat /\ k \in Nat /\ Start(p, n) = at + 2 + 2 * k
        /\ HoldsAt(Contents(p)[n], s, at)
    BY <2>1, ContentsTurn
  <2>3. /\ Start(p, n) <= Start(p, N)
        /\ \A i \in 1 .. Start(p, n) : Contents(p)[N][i] = Contents(p)[n][i]
    BY <2>1, ContentsPrefix
  <2> HIDE DEF at, k, s
  <2>4. ASSUME NEW i \in 1 .. 2 + 2 * k
        PROVE  w[at + i] = Contents(p)[n][at + i] % Longs
    <3>1. at + i \in 1 .. Start(p, n) /\ at + i \in 1 .. Len(c)
      BY <1>2, <2>2, <2>3
    <3> QED
      BY <1>7, <2>3, <3>1 DEF c
  <2>5. /\ Contents(p)[n][at + 1] = s.count /\ Contents(p)[n][at + 2] = 2 * k
        /\ \A j \in 1 .. k : /\ Contents(p)[n][at + 2 * j + 1] = s.frames[j].method
                             /\ Contents(p)[n][at + 2 * j + 2] = s.frames[j].line
    BY <2>2 DEF HoldsAt, k
  <2>6. w[at + 1] = s.count % Longs /\ w[at + 2] = (2 * k) % Longs
    BY <2>2, <2>4, <2>5
  <2>7. ASSUME NEW j \in 1 .. k
        PROVE  /\ w[at + 2 * j + 1] = s.frames[j].method % Longs
               /\ w[at + 2 * j + 2] = s.frames[j].line % Longs
    <3>1. /\ 2 * j + 1 \in 1 .. 2 + 2 * k /\ 2 * j + 2 \in 1 .. 2 + 2 * k
          /\ at + 2 * j + 1 = at + (2 * j + 1) /\ at + 2 * j + 2 = at + (2 * j + 2)
      BY <2>2
    <3> QED
      BY <2>4, <2>5, <3>1
  <2>8. StoredAt(w, s, at)
    BY <2>6, <2>7 DEF StoredAt, k
  <2> QED
    BY <2>3, <2>8 DEF s, at
<1> QED
  BY <1>1, <1>2, <1>4, <1>6, <1>8, <1>9, <1>10 DEF N

-----------------------------------------------------------------------------
(* The types.                                                              *)

FileOK ==
  /\ profile \in Profiles
  /\ slots \in Seq(0 .. Longs - 1) /\ Len(slots) <= Len(Written(profile))
  /\ \A i \in 1 .. Len(slots) : slots[i] = Written(profile)[i]
  /\ rest \in [bytes : 0 .. SlotBytes - 1, value : Nat]
  /\ rest.value < Values[rest.bytes]

-----------------------------------------------------------------------------
(* What has been read of the profile.                                      *)

Done == Len(observations)

SameFrame(l, f) == l.method % Longs = f.method /\ l.line = f.line

\* The first of the frames f are those that the indexes x stand for.
SameFrames(ls, x, f) ==
  Len(x) <= Len(f) /\ \A j \in 1 .. Len(x) : SameFrame(ls[x[j]], f[j])

Matches(ls, o, s) ==
  o.count = s.count /\ Len(o.stack) = Len(s.frames) /\ SameFrames(ls, o.stack, s.frames)

\* A slot has been read that the file does not have.
Cut ==
  /\ pos > Len(slots) /\ Len(slots) < Len(Written(profile)) - 1
  /\ state \in {"record", "frames", "failed"}

\* Every slot so far was in the file: where the reader is, and with what.
Whole ==
  /\ Done <= Len(profile)
  /\ \A n \in 1 .. Done : Matches(locations, observations[n], profile[n])
  /\ \/ state = "header" /\ Done = 0
     \/ state = "record" /\ pos = Start(profile, Done)
     \/ /\ state = "frames" /\ Done < Len(profile)
        /\ count = profile[Done + 1].count
        /\ depth = 2 * Len(profile[Done + 1].frames)
        /\ SameFrames(locations, sample, profile[Done + 1].frames)
        /\ pos = Start(profile, Done) + 2 + 2 * Len(sample)
     \/ state = "read" /\ Done = Len(profile)

TypeInv == FileOK /\ TypeOK

ReaderInv == TypeInv /\ IInv /\ (Cut \/ Whole)

-----------------------------------------------------------------------------
(* Reading a slot.                                                         *)

LEMMA FileFacts ==
  ASSUME FileOK
  PROVE  /\ Len(slots) \in Nat /\ Longs \in Nat \ {0}
         /\ Len(Written(profile)) \in Nat
         /\ \A i \in 1 .. Len(slots) : slots[i] \in 0 .. Longs - 1
         /\ rest.value \in Nat /\ Values[rest.bytes] \in Nat \ {0}
         /\ rest.value < Values[rest.bytes]
<1>1. Len(slots) \in Nat /\ \A i \in 1 .. Len(slots) : slots[i] \in 0 .. Longs - 1
  BY LenProperties, ElementOfSeq DEF FileOK
<1>2. Longs \in Nat \ {0}
  BY ValuesGrow, WidthAssumption DEF Longs
<1>3. rest.value \in Nat /\ rest.bytes \in 0 .. SlotBytes
  BY WidthAssumption DEF FileOK
<1>4. Values[rest.bytes] \in Nat \ {0}
  BY <1>3, ValuesGrow
<1>5. Written(profile) \in Seq(0 .. Longs - 1)
  BY WrittenLayout DEF FileOK
<1>6. Len(Written(profile)) \in Nat
  BY <1>5, LenProperties
<1> QED
  BY <1>1, <1>2, <1>3, <1>4, <1>6 DEF FileOK

\* A slot that is in the file is the one written, with its sign; one that is
\* not, or not as a whole, is negative.
LEMMA SlotRead ==
  ASSUME FileOK, NEW at \in Nat
  PROVE  /\ ReadSlot(at) \in Int
         /\ at < Len(slots) => ReadSlot(at) = Signed(Written(profile)[at + 1], Longs)
         /\ at >= Len(slots) => ReadSlot(at) < 0
<1>1. CASE at < Len(slots)
  <2>1. at + 1 \in 1 .. Len(slots)
    BY <1>1, FileFacts
  <2>2. slots[at + 1] \in 0 .. Longs - 1 /\ slots[at + 1] = Written(profile)[at + 1]
    BY <2>1, FileFacts DEF FileOK
  <2>3. ReadSlot(at) = Signed(slots[at + 1], Longs)
    BY <1>1 DEF ReadSlot
  <2>4. Signed(slots[at + 1], Longs) \in Int
    BY <2>2, FileFacts DEF Signed
  <2> QED
    BY <1>1, <2>2, <2>3, <2>4, FileFacts
<1>2. CASE at >= Len(slots)
  <2>1. ReadSlot(at) = IF at = Len(slots) THEN rest.value - Values[rest.bytes] ELSE -1
    BY <1>2, FileFacts DEF ReadSlot
  <2> QED
    BY <1>2, <2>1, FileFacts
<1> QED
  BY <1>1, <1>2, FileFacts

LEMMA SlotAfter ==
  ASSUME FileOK, NEW at \in 0 .. Len(slots) + 1
  PROVE  /\ AfterSlot(at) \in 0 .. Len(slots) + 1
         /\ at <= Len(slots) => AfterSlot(at) = at + 1
         /\ at > Len(slots) => AfterSlot(at) = at
BY FileFacts DEF AfterSlot

-----------------------------------------------------------------------------

LEMMA InitTypes == Init => TypeInv
<1> SUFFICES ASSUME Init PROVE TypeInv
  OBVIOUS
<1> DEFINE w == Written(profile)
<1>1. profile \in Profiles /\ w \in Seq(0 .. Longs - 1) /\ Len(w) \in Nat
      /\ \A i \in 1 .. Len(w) : w[i] \in 0 .. Longs - 1
  <2>1. profile \in Profiles /\ w \in Seq(0 .. Longs - 1)
    BY WrittenLayout DEF Init
  <2> HIDE DEF w
  <2> QED
    BY <2>1, LenProperties, ElementOfSeq
<1>2. PICK n \in 0 .. Len(w) :
        /\ slots = SubSeq(w, 1, n)
        /\ \E b \in 0 .. SlotBytes - 1 :
             /\ n = Len(w) => b = 0
             /\ rest = [bytes |-> b, value |-> IF b = 0 THEN 0 ELSE w[n + 1] % Values[b]]
  BY DEF Init
<1>3. PICK b \in 0 .. SlotBytes - 1 :
        /\ n = Len(w) => b = 0
        /\ rest = [bytes |-> b, value |-> IF b = 0 THEN 0 ELSE w[n + 1] % Values[b]]
  BY <1>2
<1> HIDE DEF w
<1>4. slots \in Seq(0 .. Longs - 1) /\ Len(slots) = n /\ \A i \in 1 .. n : slots[i] = w[i]
  <2>1. \A i \in 1 .. n : w[i] \in 0 .. Longs - 1
    BY <1>1
  <2>2. n \in Int /\ 1 \in Int
    BY <1>1
  <2>3. /\ SubSeq(w, 1, n) \in Seq(0 .. Longs - 1)
        /\ Len(SubSeq(w, 1, n)) = IF 1 <= n THEN n - 1 + 1 ELSE 0
        /\ \A i \in 1 .. n - 1 + 1 : SubSeq(w, 1, n)[i] = w[1 + i - 1]
    BY <2>1, <2>2, SubSeqProperties
  <2>4. \A i \in 1 .. n : i \in 1 .. n - 1 + 1 /\ 1 + i - 1 = i
    BY <1>1
  <2>5. \A i \in 1 .. n : SubSeq(w, 1, n)[i] = w[i]
    BY <2>3, <2>4
  <2>6. Len(SubSeq(w, 1, n)) = n
    BY <1>1, <2>3
  <2> QED
    BY <1>2, <2>3, <2>5, <2>6
<1>5. Values[b] \in Nat \ {0}
  BY ValuesGrow, WidthAssumption
<1>6. rest \in [bytes : 0 .. SlotBytes - 1, value : Nat] /\ rest.value < Values[rest.bytes]
  <2>1. CASE b = 0
    BY <1>3, <1>5, <2>1
  <2>2. CASE b # 0
    <3>1. n + 1 \in 1 .. Len(w)
      BY <1>1, <1>3, <2>2
    <3>2. w[n + 1] \in Int
      BY <1>1, <3>1
    <3>3. w[n + 1] % Values[b] \in 0 .. Values[b] - 1
      BY <1>5, <3>2
    <3>4. rest = [bytes |-> b, value |-> w[n + 1] % Values[b]]
      BY <1>3, <2>2
    <3> QED
      BY <1>5, <3>3, <3>4
  <2> QED
    BY <2>1, <2>2
<1>7. FileOK
  BY <1>1, <1>4, <1>6 DEF FileOK, w
<1>8. /\ pos \in 0 .. Len(slots) + 1 /\ state = "header" /\ count \in Int /\ depth \in Nat
      /\ sample = <<>> /\ locations = <<>> /\ observations = <<>>
  BY <1>1, <1>4 DEF Init
<1> QED
  BY <1>7, <1>8, EmptySeq DEF FileOK, TypeOK, TypeInv

LEMMA FileKept == TypeInv /\ UNCHANGED file => FileOK'
BY DEF TypeInv, FileOK, file

\* Where a step that reads two slots is afterwards.
LEMMA TwoSlots ==
  ASSUME TypeInv
  PROVE  /\ pos \in Nat /\ AfterSlot(pos) \in Nat
         /\ ReadSlot(pos) \in Int /\ ReadSlot(AfterSlot(pos)) \in Int
         /\ AfterSlot(AfterSlot(pos)) \in 0 .. Len(slots) + 1
<1>1. /\ FileOK /\ pos \in 0 .. Len(slots) + 1 /\ Len(slots) \in Nat
  BY FileFacts DEF TypeInv, TypeOK
<1>2. AfterSlot(pos) \in 0 .. Len(slots) + 1
  BY <1>1, SlotAfter
<1>3. AfterSlot(AfterSlot(pos)) \in 0 .. Len(slots) + 1
  BY <1>1, <1>2, SlotAfter
<1>4. pos \in Nat /\ AfterSlot(pos) \in Nat
  BY <1>1, <1>2
<1> QED
  BY <1>1, <1>3, <1>4, SlotRead

Location == [method : Int, line : Int]

LEMMA LocateTypes ==
  ASSUME sample \in Seq(Nat), locations \in Seq(Location), NEW l \in Location, Locate(l)
  PROVE  sample' \in Seq(Nat) /\ locations' \in Seq(Location)
<1>1. Len(locations) \in Nat /\ DOMAIN locations = 1 .. Len(locations)
  BY LenProperties
<1>2. CASE UNCHANGED locations /\ \E i \in DOMAIN locations : sample' = Append(sample, i)
  <2>1. PICK i \in DOMAIN locations : sample' = Append(sample, i)
    BY <1>2
  <2>2. i \in Nat
    BY <1>1
  <2> QED
    BY <1>2, <2>1, <2>2, AppendProperties
<1>3. CASE locations' = Append(locations, l) /\ sample' = Append(sample, Len(locations) + 1)
  <2>1. Len(locations) + 1 \in Nat
    BY <1>1
  <2> QED
    BY <1>3, <2>1, AppendProperties
<1> QED
  BY <1>2, <1>3 DEF Locate

LEMMA StepTypes == TypeInv /\ [Next]_vars => TypeInv'
<1> SUFFICES ASSUME TypeInv, [Next]_vars PROVE TypeInv'
  OBVIOUS
<1>1. FileOK /\ TypeOK /\ Len(slots) \in Nat
  BY FileFacts DEF TypeInv
<1>2. CASE ReadHeader
  <2>1. UNCHANGED <<file, count, depth, sample, locations, observations>> /\ state' = "record"
    BY <1>2 DEF ReadHeader
  <2>2. /\ slots' = slots /\ pos' \in 0 .. Len(slots) + 1
    <3> DEFINE h == ReadSlot(AfterSlot(0))
    <3>1. 0 \in 0 .. Len(slots) + 1
      BY <1>1
    <3>2. AfterSlot(0) \in 0 .. Len(slots) + 1
      BY <1>1, <3>1, SlotAfter
    <3>3. AfterSlot(0) \in Nat
      BY <1>1, <3>2
    <3>4. h \in Int
      BY <1>1, <3>3, SlotRead
    <3> DEFINE n == IF h > 3 THEN 5 + (h - 3) ELSE 5
    <3>5. pos' = IF n <= Len(slots) THEN n ELSE Len(slots) + 1
      BY <1>2 DEF ReadHeader
    <3> HIDE DEF h
    <3>6. n \in Nat
      BY <3>4
    <3> HIDE DEF n
    <3> QED
      BY <1>1, <2>1, <3>5, <3>6 DEF file
  <2>3. FileOK'
    BY <2>1, FileKept
  <2> QED
    BY <1>1, <2>1, <2>2, <2>3 DEF TypeInv, TypeOK, file
<1>3. CASE ReadRecord
  <2> DEFINE c == ReadSlot(pos)
             d == ReadSlot(AfterSlot(pos))
  <2>1. /\ UNCHANGED <<file, locations, observations>>
        /\ pos' = AfterSlot(AfterSlot(pos))
        /\ \/ state' \in {"read", "failed"} /\ UNCHANGED <<count, depth, sample>>
           \/ ~BadDepth(d) /\ state' = "frames" /\ count' = c /\ depth' = ToInt(d) /\ sample' = <<>>
    BY <1>3 DEF ReadRecord, Keep, Refused
  <2>2. FileOK'
    BY <2>1, FileKept
  <2>3. c \in Int /\ d \in Int /\ pos' \in 0 .. Len(slots) + 1 /\ ToInt(d) \in Int
    BY <2>1, TwoSlots, ToIntType
  <2> HIDE DEF c, d
  <2>4. count' \in Int /\ depth' \in Nat /\ sample' \in Seq(Nat)
        /\ state' \in {"header", "record", "frames", "read", "failed"}
    <3>1. CASE state' \in {"read", "failed"} /\ UNCHANGED <<count, depth, sample>>
      BY <1>1, <3>1 DEF TypeOK
    <3>2. CASE ~BadDepth(d) /\ state' = "frames" /\ count' = c /\ depth' = ToInt(d) /\ sample' = <<>>
      <4>1. ~ (ToInt(d) < 0)
        BY <3>2 DEF BadDepth
      <4>2. ToInt(d) \in Nat
        BY <2>3, <4>1
      <4> QED
        BY <2>3, <3>2, <4>2, EmptySeq
    <3> QED
      BY <2>1, <3>1, <3>2
  <2> QED
    BY <1>1, <2>1, <2>2, <2>3, <2>4 DEF TypeInv, TypeOK, file, FileOK
<1>4. CASE ReadFrame
  <2> DEFINE l == [method |-> ReadSlot(pos), line |-> ToInt(ReadSlot(AfterSlot(pos)))]
  <2>1. /\ UNCHANGED <<file, state, count, depth, observations>> /\ Locate(l)
        /\ pos' = AfterSlot(AfterSlot(pos))
    BY <1>4 DEF ReadFrame
  <2>2. FileOK'
    BY <2>1, FileKept
  <2>3. l \in Location /\ pos' \in 0 .. Len(slots) + 1
    <3>1. ReadSlot(pos) \in Int /\ ToInt(ReadSlot(AfterSlot(pos))) \in Int
      BY TwoSlots, ToIntType
    <3>2. pos' \in 0 .. Len(slots) + 1
      BY <2>1, TwoSlots
    <3> QED
      BY <3>1, <3>2 DEF Location
  <2> HIDE DEF l
  <2>4. sample' \in Seq(Nat) /\ locations' \in Seq([method : Int, line : Int])
    BY <1>1, <2>1, <2>3, LocateTypes DEF TypeOK, Location
  <2> QED
    BY <1>1, <2>1, <2>2, <2>3, <2>4 DEF TypeInv, TypeOK, file, FileOK
<1>5. CASE RecordSample
  <2> DEFINE o == [count |-> ToInt(count), stack |-> sample]
  <2>1. /\ UNCHANGED <<file, pos, count, depth, sample, locations>> /\ state' = "record"
        /\ observations' = Append(observations, o)
    BY <1>5 DEF RecordSample
  <2>2. FileOK'
    BY <2>1, FileKept
  <2>3. o \in [count : Int, stack : Seq(Nat)]
    BY <1>1, ToIntType DEF TypeOK
  <2> HIDE DEF o
  <2>4. observations' \in Seq([count : Int, stack : Seq(Nat)])
    BY <1>1, <2>1, <2>3, AppendProperties DEF TypeOK
  <2> QED
    BY <1>1, <2>1, <2>2, <2>4 DEF TypeInv, TypeOK, file, FileOK
<1>6. CASE UNCHANGED vars
  BY <1>1, <1>6 DEF vars, file, TypeInv, TypeOK, FileOK
<1> QED
  BY <1>2, <1>3, <1>4, <1>5, <1>6 DEF Next

-----------------------------------------------------------------------------
(* A file that is cut.                                                     *)

\* Behind the end there is only more of it, and never the marker.
LEMMA CutStep == ASSUME TypeInv, Cut, [Next]_vars PROVE Cut'
<1>1. /\ FileOK /\ Len(slots) \in Nat /\ pos = Len(slots) + 1
      /\ Len(slots) < Len(Written(profile)) - 1
      /\ state \in {"record", "frames", "failed"}
  BY FileFacts DEF TypeInv, TypeOK, Cut
<1>2. AfterSlot(pos) = pos /\ AfterSlot(AfterSlot(pos)) = pos
  BY <1>1 DEF AfterSlot
<1>3. ReadSlot(AfterSlot(pos)) < 0
  BY <1>1, <1>2, SlotRead
<1>4. ASSUME UNCHANGED <<file, pos>>, state' \in {"record", "frames", "failed"} PROVE Cut'
  BY <1>1, <1>4 DEF Cut, file
<1>5. CASE ReadHeader
  BY <1>1, <1>5 DEF ReadHeader
<1>6. CASE ReadRecord
  <2>1. ReadSlot(AfterSlot(pos)) # 1
    BY <1>3
  <2>2. ~IsEnd(ReadSlot(pos), ReadSlot(AfterSlot(pos)))
    BY <2>1 DEF IsEnd
  <2>3. state' \in {"frames", "failed"} /\ UNCHANGED file /\ pos' = AfterSlot(AfterSlot(pos))
    BY <1>6, <2>2 DEF ReadRecord, Refused
  <2> QED
    BY <1>2, <1>4, <2>3
<1>7. CASE ReadFrame
  BY <1>1, <1>2, <1>4, <1>7 DEF ReadFrame
<1>8. CASE RecordSample
  BY <1>4, <1>8 DEF RecordSample
<1>9. CASE UNCHANGED vars
  BY <1>1, <1>4, <1>9 DEF vars
<1> QED
  BY <1>5, <1>6, <1>7, <1>8, <1>9 DEF Next

\* A step that reads two slots of the samples in a file that does not have
\* both finds its end.
LEMMA CutNow ==
  ASSUME TypeInv, pos + 2 <= Len(Written(profile)) - 1,
         pos + 2 > Len(slots),
         UNCHANGED file, pos' = AfterSlot(AfterSlot(pos)),
         state' \in {"record", "frames", "failed"}
  PROVE  Cut'
<1>1. FileOK /\ Len(slots) \in Nat /\ pos \in 0 .. Len(slots) + 1
      /\ Len(Written(profile)) \in Nat
  BY FileFacts DEF TypeInv, TypeOK
<1>2. pos' = Len(slots) + 1
  <2>1. pos = Len(slots) - 1 \/ pos = Len(slots) \/ pos = Len(slots) + 1
    BY <1>1
  <2>2. AfterSlot(pos) = Len(slots) \/ AfterSlot(pos) = Len(slots) + 1
    BY <1>1, <2>1 DEF AfterSlot
  <2> QED
    BY <1>1, <2>2 DEF AfterSlot
<1> QED
  BY <1>1, <1>2 DEF Cut, file

-----------------------------------------------------------------------------
(* A file that goes on.                                                    *)

\* Where the samples are in the file.
LEMMA Places ==
  ASSUME TypeInv, NEW n \in 0 .. Len(profile)
  PROVE  /\ Start(profile, n) \in Nat
         /\ Start(profile, n) <= Len(Written(profile)) - 3
<1>1. profile \in Profiles /\ Len(profile) \in Nat
  BY ProfileType DEF TypeInv, FileOK
<1>2. n \in 0 .. Len(profile) /\ Len(profile) \in 0 .. Len(profile) /\ n \in Nat
  BY <1>1
<1>3. /\ Start(profile, n) \in Nat /\ Start(profile, n) <= Start(profile, Len(profile))
      /\ Start(profile, Len(profile)) \in Nat
  BY <1>1, <1>2, ContentsPrefix, ContentsType
<1>4. Len(Written(profile)) = Start(profile, Len(profile)) + 3
  BY <1>1, WrittenLayout
<1> QED
  BY <1>3, <1>4

LEMMA Ahead ==
  ASSUME TypeInv, NEW n \in 1 .. Len(profile)
  PROVE  /\ profile[n] \in Samples /\ Len(profile[n].frames) \in Nat
         /\ Start(profile, n - 1) \in Nat
         /\ Start(profile, n) = Start(profile, n - 1) + 2 + 2 * Len(profile[n].frames)
         /\ Start(profile, n) <= Len(Written(profile)) - 3
         /\ StoredAt(Written(profile), profile[n], Start(profile, n - 1))
<1>1. profile \in Profiles /\ Len(profile) \in Nat /\ profile[n] \in Samples
  BY ProfileType DEF TypeInv, FileOK
<1>2. n \in 0 .. Len(profile)
  BY <1>1
<1>3. Start(profile, n) <= Len(Written(profile)) - 3
  BY <1>2, Places
<1>4. /\ Start(profile, n - 1) \in Nat /\ Len(profile[n].frames) \in Nat
      /\ Start(profile, n) = Start(profile, n - 1) + 2 + 2 * Len(profile[n].frames)
  BY <1>1, ContentsTurn
<1>5. StoredAt(Written(profile), profile[n], Start(profile, n - 1))
  BY <1>1, WrittenLayout
<1> QED
  BY <1>1, <1>3, <1>4, <1>5

\* A step that reads two slots of a file that has them.
LEMMA BothRead ==
  ASSUME TypeInv, pos + 2 <= Len(slots)
  PROVE  /\ ReadSlot(pos) = Signed(Written(profile)[pos + 1], Longs)
         /\ ReadSlot(AfterSlot(pos)) = Signed(Written(profile)[pos + 2], Longs)
         /\ AfterSlot(AfterSlot(pos)) = pos + 2
<1>1. FileOK /\ Len(slots) \in Nat /\ pos \in Nat
  BY FileFacts, TwoSlots DEF TypeInv
<1>2. AfterSlot(pos) = pos + 1 /\ AfterSlot(pos + 1) = pos + 2
  BY <1>1 DEF AfterSlot
<1>3. pos < Len(slots) /\ pos + 1 < Len(slots) /\ pos + 1 \in Nat /\ (pos + 1) + 1 = pos + 2
  BY <1>1
<1>4. ReadSlot(pos) = Signed(Written(profile)[pos + 1], Longs)
  BY <1>1, <1>3, SlotRead
<1>5. ReadSlot(pos + 1) = Signed(Written(profile)[(pos + 1) + 1], Longs)
  BY <1>1, <1>3, SlotRead
<1> QED
  BY <1>2, <1>3, <1>4, <1>5

LEMMA WholeHeader == ASSUME TypeInv, Whole, ReadHeader PROVE Cut' \/ Whole'
<1> DEFINE h == ReadSlot(AfterSlot(0))
           w == Written(profile)
<1>1. /\ FileOK /\ Len(slots) \in Nat /\ profile \in Profiles /\ Len(profile) \in Nat
  BY FileFacts, ProfileType DEF TypeInv, FileOK
<1>2. /\ Start(profile, 0) = 5 /\ w[2] \in 0 .. 3 /\ 5 <= Len(w) - 3 /\ Len(w) \in Nat
  BY <1>1, WrittenLayout, FileFacts
<1>3. h \in Int /\ h <= 3
  <2>1. AfterSlot(0) = 1 /\ 1 \in Nat
    BY <1>1 DEF AfterSlot
  <2>2. CASE Len(slots) > 1
    <3>1. h = Signed(w[1 + 1], Longs)
      BY <1>1, <2>1, <2>2, SlotRead
    <3>2. Longs \in Nat \ {0} /\ 1 + 1 = 2
      BY <1>1, FileFacts
    <3> HIDE DEF h
    <3> QED
      BY <1>2, <3>1, <3>2 DEF Signed
  <2>3. CASE ~ (Len(slots) > 1)
    <3>1. ReadSlot(1) < 0 /\ ReadSlot(1) \in Int
      BY <1>1, <2>1, <2>3, SlotRead
    <3> QED
      BY <2>1, <3>1
  <2> QED
    BY <2>2, <2>3
<1> HIDE DEF h
<1>4. /\ state = "header" /\ state' = "record" /\ UNCHANGED <<file, locations, observations>>
      /\ pos' = IF 5 <= Len(slots) THEN 5 ELSE Len(slots) + 1
  BY <1>3 DEF ReadHeader, h
<1>5. Done = 0 /\ Done' = 0
  BY <1>4 DEF Whole, Done
<1>6. CASE 5 <= Len(slots)
  <2>1. pos' = 5 /\ profile' = profile /\ \A n \in 1 .. Done' : FALSE
    BY <1>4, <1>5, <1>6 DEF file
  <2> QED
    BY <1>1, <1>2, <1>4, <1>5, <2>1 DEF Whole
<1>7. CASE ~ (5 <= Len(slots))
  BY <1>1, <1>2, <1>4, <1>7 DEF Cut, file
<1> QED
  BY <1>6, <1>7

LEMMA WholeRecord == ASSUME TypeInv, Whole, ReadRecord PROVE Cut' \/ Whole'
<1> DEFINE c == ReadSlot(pos)
           d == ReadSlot(AfterSlot(pos))
           w == Written(profile)
           N == Len(profile)
<1>1. /\ FileOK /\ Len(slots) \in Nat /\ profile \in Profiles /\ N \in Nat
      /\ Longs \in Nat \ {0} /\ 2 < Longs /\ Len(w) \in Nat
      /\ pos \in 0 .. Len(slots) + 1 /\ pos \in Nat
  <2>1. FileOK /\ profile \in Profiles /\ pos \in 0 .. Len(slots) + 1
    BY DEF TypeInv, TypeOK, FileOK
  <2>2. Len(slots) \in Nat /\ Len(w) \in Nat /\ Longs \in Nat \ {0}
    BY <2>1, FileFacts
  <2>3. 2 < Longs
    BY ValuesGrow, WidthAssumption DEF Ints, Longs
  <2> QED
    BY <2>1, <2>2, <2>3, ProfileType
<1>2. /\ state = "record" /\ pos' = AfterSlot(AfterSlot(pos))
      /\ UNCHANGED <<file, locations, observations>>
      /\ \/ IsEnd(c, d) /\ state' = "read"
         \/ ~IsEnd(c, d) /\ BadDepth(d) /\ state' = "failed"
         \/ /\ ~IsEnd(c, d) /\ ~BadDepth(d) /\ state' = "frames"
            /\ count' = c /\ depth' = ToInt(d) /\ sample' = <<>>
  BY DEF ReadRecord, Keep, Refused
<1>3. Done \in Nat /\ Done \in 0 .. N /\ pos = Start(profile, Done)
  <2>1. Done \in Nat
    BY LenProperties DEF TypeInv, TypeOK, Done
  <2> QED
    BY <1>1, <1>2, <2>1 DEF Whole
<1>4. pos <= Len(w) - 3
  BY <1>3, Places
<1>5. CASE pos + 2 > Len(slots)
  <2>1. d < 0
    <3>1. AfterSlot(pos) \in Nat /\ AfterSlot(pos) >= Len(slots)
      BY <1>1, <1>5 DEF AfterSlot
    <3> QED
      BY <1>1, <3>1, SlotRead
  <2>2. ~IsEnd(c, d)
    <3>1. d # 1
      BY <2>1
    <3> QED
      BY <3>1 DEF IsEnd
  <2>3. state' \in {"record", "frames", "failed"} /\ UNCHANGED file /\ pos + 2 <= Len(w) - 1
    BY <1>1, <1>2, <1>4, <2>2
  <2> QED
    BY <1>2, <1>5, <2>3, CutNow
<1>6. CASE ~ (pos + 2 > Len(slots))
  <2>1. pos + 2 <= Len(slots)
    BY <1>1, <1>6
  <2>2. c = Signed(w[pos + 1], Longs) /\ d = Signed(w[pos + 2], Longs) /\ pos' = pos + 2
    BY <1>2, <2>1, BothRead
  <2> HIDE DEF c, d
  <2>3. /\ UNCHANGED Done /\ profile' = profile
        /\ \A n \in 1 .. Done' : Matches(locations', observations'[n], profile'[n])
    BY <1>2 DEF Whole, Done, file
  <2>4. CASE Done = N
    <3>1. w[pos + 1] = 0 /\ w[pos + 2] = 1
      BY <1>1, <1>3, <2>4, WrittenLayout
    <3>2. c = 0 /\ d = 1
      BY <1>1, <2>2, <3>1 DEF Signed
    <3>3. state' = "read"
      BY <1>2, <3>2 DEF IsEnd
    <3> QED
      BY <1>3, <2>3, <2>4, <3>3 DEF Whole
  <2>5. CASE Done # N
    <3> DEFINE s == profile[Done + 1]
               k == Len(s.frames)
    <3>1. Done < N /\ Done + 1 \in 1 .. N /\ (Done + 1) - 1 = Done
      BY <1>1, <1>3, <2>5
    <3>2. /\ s \in Samples /\ k \in Nat /\ StoredAt(w, s, pos)
      BY <1>3, <3>1, Ahead
    <3>3. s.count \in Nat \ {0} /\ IsInt(s.count) /\ IsInt(2 * k)
      BY <1>1, <3>1, <3>2, SampleFits, FramesType
    <3> HIDE DEF s, k
    <3>4. w[pos + 1] = s.count % Longs /\ w[pos + 2] = (2 * k) % Longs
      BY <3>2 DEF StoredAt, k
    <3>5. /\ s.count \in Int /\ 2 * k \in Int
      BY <3>2, <3>3
    <3>6. c = s.count /\ d = 2 * k /\ ToInt(d) = 2 * k
      BY <2>2, <3>3, <3>4, <3>5, ToIntBack
    <3>7. ~IsEnd(c, d)
      BY <3>3, <3>6 DEF IsEnd
    <3>8. ~BadDepth(d)
      <4>1. (2 * k) % 2 = 0 /\ ~ (2 * k < 0)
        BY <3>2
      <4> QED
        BY <3>6, <4>1 DEF BadDepth
    <3>9. state' = "frames" /\ count' = s.count /\ depth' = 2 * k /\ sample' = <<>>
      BY <1>2, <3>6, <3>7, <3>8
    <3>10. SameFrames(locations', sample', s.frames) /\ Len(sample') = 0
      <4>1. Len(<<>>) = 0 /\ \A j \in 1 .. 0 : FALSE
        OBVIOUS
      <4> QED
        BY <3>2, <3>9, <4>1 DEF SameFrames, k
    <3>11. pos' = Start(profile', Done') + 2 + 2 * Len(sample')
      BY <1>1, <1>3, <2>2, <2>3, <3>10
    <3>12. profile'[Done' + 1] = s
      BY <2>3 DEF s
    <3> QED
      BY <3>1, <2>3, <3>9, <3>10, <3>11, <3>12 DEF Whole, k
  <2> QED
    BY <2>4, <2>5
<1> QED
  BY <1>5, <1>6

\* What indexes stand for stays when locations are added.
LEMMA FramesKept ==
  ASSUME NEW ls, NEW ms, \A i \in DOMAIN ls : i \in DOMAIN ms /\ ms[i] = ls[i],
         NEW x, NEW f, Len(x) \in Nat, DOMAIN x = 1 .. Len(x), ToSet(x) \subseteq DOMAIN ls,
         SameFrames(ls, x, f)
  PROVE  SameFrames(ms, x, f)
<1>1. \A j \in 1 .. Len(x) : x[j] \in DOMAIN ls
  BY DEF ToSet
<1> QED
  BY <1>1 DEF SameFrames

\* Locating adds the index of the location, and keeps those there are.
LEMMA Located ==
  ASSUME TypeInv, IInv, NEW l, Locate(l)
  PROVE  /\ \A i \in DOMAIN locations : i \in DOMAIN locations' /\ locations'[i] = locations[i]
         /\ Len(sample) \in Nat /\ Len(sample') = Len(sample) + 1
         /\ \A j \in 1 .. Len(sample) : sample'[j] = sample[j]
         /\ locations'[sample'[Len(sample) + 1]] = l
<1>1. IsSeq(sample) /\ IsSeq(locations)
  BY DEF IInv
<1>2. \A e : /\ Len(sample) \in Nat /\ Len(Append(sample, e)) = Len(sample) + 1
             /\ \A j \in 1 .. Len(sample) : Append(sample, e)[j] = sample[j]
             /\ Append(sample, e)[Len(sample) + 1] = e
  BY <1>1, SeqAppend
<1>3. CASE /\ \E i \in DOMAIN locations : locations[i] = l /\ sample' = Append(sample, i)
           /\ UNCHANGED locations
  <2>1. PICK i \in DOMAIN locations : locations[i] = l /\ sample' = Append(sample, i)
    BY <1>3
  <2> QED
    BY <1>2, <1>3, <2>1
<1>4. CASE /\ locations' = Append(locations, l)
           /\ sample' = Append(sample, Len(locations) + 1)
  <2>1. /\ Len(locations) \in Nat /\ DOMAIN locations = 1 .. Len(locations)
        /\ DOMAIN locations' = 1 .. Len(locations) + 1
        /\ \A i \in 1 .. Len(locations) : locations'[i] = locations[i]
        /\ locations'[Len(locations) + 1] = l
    BY <1>1, <1>4, SeqAppend
  <2>2. \A i \in DOMAIN locations : i \in DOMAIN locations' /\ locations'[i] = locations[i]
    BY <2>1
  <2>3. /\ Len(sample) \in Nat /\ Len(sample') = Len(sample) + 1
        /\ \A j \in 1 .. Len(sample) : sample'[j] = sample[j]
        /\ sample'[Len(sample) + 1] = Len(locations) + 1
    BY <1>2, <1>4
  <2> QED
    BY <2>1, <2>2, <2>3
<1> QED
  BY <1>3, <1>4 DEF Locate

LEMMA ObservationsKept ==
  ASSUME TypeInv, IInv, NEW n \in 1 .. Done, NEW s, Matches(locations, observations[n], s),
         NEW ms, \A i \in DOMAIN locations : i \in DOMAIN ms /\ ms[i] = locations[i]
  PROVE  Matches(ms, observations[n], s)
<1>1. observations[n].stack \in Seq(Nat) /\ n \in DOMAIN observations
  <2>1. observations \in Seq([count : Int, stack : Seq(Nat)])
    BY DEF TypeInv, TypeOK
  <2>2. n \in DOMAIN observations /\ observations[n] \in [count : Int, stack : Seq(Nat)]
    BY <2>1, LenProperties, ElementOfSeq DEF Done
  <2> QED
    BY <2>2
<1>2. ToSet(observations[n].stack) \subseteq DOMAIN locations
  BY <1>1 DEF IInv
<1> DEFINE x == observations[n].stack
<1>3. /\ x \in Seq(Nat) /\ ToSet(x) \subseteq DOMAIN locations
      /\ SameFrames(locations, x, s.frames)
      /\ observations[n].count = s.count /\ Len(x) = Len(s.frames)
  BY <1>1, <1>2 DEF Matches
<1>4. x = observations[n].stack
  OBVIOUS
<1> HIDE DEF x
<1>5. Len(x) \in Nat /\ DOMAIN x = 1 .. Len(x)
  BY <1>3, LenProperties
<1>6. SameFrames(ms, x, s.frames)
  BY <1>3, <1>5, FramesKept
<1> QED
  BY <1>3, <1>4, <1>6 DEF Matches

LEMMA WholeFrame == ASSUME TypeInv, IInv, Whole, ReadFrame PROVE Cut' \/ Whole'
<1> DEFINE l == [method |-> ReadSlot(pos), line |-> ToInt(ReadSlot(AfterSlot(pos)))]
           w == Written(profile)
           s == profile[Done + 1]
           k == Len(s.frames)
           m == Len(sample)
<1>1. /\ FileOK /\ profile \in Profiles /\ Len(profile) \in Nat /\ Len(slots) \in Nat
      /\ Longs \in Nat \ {0} /\ Len(w) \in Nat
  BY FileFacts, ProfileType DEF TypeInv, FileOK
<1>2. /\ state = "frames" /\ 2 * m < depth /\ Locate(l)
      /\ pos' = AfterSlot(AfterSlot(pos))
      /\ UNCHANGED <<file, state, count, depth, observations>>
  BY DEF ReadFrame
<1>3. /\ Done < Len(profile) /\ count = s.count /\ depth = 2 * k
      /\ SameFrames(locations, sample, s.frames)
      /\ pos = Start(profile, Done) + 2 + 2 * m
      /\ \A n \in 1 .. Done : Matches(locations, observations[n], profile[n])
  BY <1>2 DEF Whole
<1>4. Done \in Nat /\ m \in Nat /\ pos \in Nat
  <2>1. Done \in Nat /\ m \in Nat
    BY LenProperties DEF TypeInv, TypeOK, Done
  <2> QED
    BY <2>1, TwoSlots
<1>5. Done + 1 \in 1 .. Len(profile) /\ (Done + 1) - 1 = Done
  BY <1>1, <1>3, <1>4
<1>6. /\ s \in Samples /\ k \in Nat /\ Start(profile, Done) \in Nat
      /\ Start(profile, Done + 1) = Start(profile, Done) + 2 + 2 * k
      /\ Start(profile, Done + 1) <= Len(w) - 3
      /\ StoredAt(w, s, Start(profile, Done))
  BY <1>5, Ahead
<1>7. \A j \in 1 .. k : /\ s.frames[j].method \in 0 .. Longs - 1
                        /\ s.frames[j].line \in Int /\ IsInt(s.frames[j].line)
  BY <1>1, <1>5, SampleFits
<1>8. m < k /\ pos + 2 <= Len(w) - 3
  <2> HIDE DEF m, k, s, w
  <2>1. m < k
    BY <1>2, <1>3, <1>4, <1>6
  <2> QED
    BY <2>1, <1>1, <1>3, <1>4, <1>6
<1>9. CASE pos + 2 > Len(slots)
  <2>1. pos + 2 <= Len(w) - 1
    BY <1>1, <1>4, <1>8
  <2> QED
    BY <1>2, <1>9, <2>1, CutNow
<1>10. CASE ~ (pos + 2 > Len(slots))
  <2> DEFINE j == m + 1
  <2>1. j \in 1 .. k
    BY <1>4, <1>6, <1>8
  <2>2. w[pos + 1] = s.frames[j].method % Longs /\ w[pos + 2] = s.frames[j].line % Longs
    <3> DEFINE at == Start(profile, Done)
    <3>1. /\ w[at + 2 * j + 1] = s.frames[j].method % Longs
          /\ w[at + 2 * j + 2] = s.frames[j].line % Longs
      BY <1>6, <2>1 DEF StoredAt
    <3>2. at + 2 * j + 1 = pos + 1 /\ at + 2 * j + 2 = pos + 2
      BY <1>3, <1>4, <1>6
    <3> HIDE DEF at, w
    <3> QED
      BY <3>1, <3>2
  <2>3. /\ ReadSlot(pos) = Signed(w[pos + 1], Longs)
        /\ ReadSlot(AfterSlot(pos)) = Signed(w[pos + 2], Longs)
        /\ AfterSlot(AfterSlot(pos)) = pos + 2
    BY <1>1, <1>4, <1>10, BothRead
  <2>4. SameFrame(l, s.frames[j])
    <3> DEFINE a == s.frames[j].method
               b == s.frames[j].line
    <3>1. a \in 0 .. Longs - 1 /\ b \in Int /\ IsInt(b)
      BY <1>7, <2>1
    <3>2. l.method = Signed(a % Longs, Longs) /\ l.line = ToInt(Signed(b % Longs, Longs))
      BY <2>2, <2>3
    <3> HIDE DEF a, b, l
    <3>3. l.method % Longs = a
      BY <1>1, <3>1, <3>2, BackUnsigned
    <3>4. l.line = b
      BY <3>1, <3>2, ToIntBack
    <3> QED
      BY <3>3, <3>4 DEF SameFrame, a, b
  <2> HIDE DEF l
  <2>5. /\ \A i \in DOMAIN locations : i \in DOMAIN locations' /\ locations'[i] = locations[i]
        /\ Len(sample') = m + 1
        /\ \A i \in 1 .. m : sample'[i] = sample[i]
        /\ locations'[sample'[m + 1]] = l
    BY <1>2, Located
  <2>6. SameFrames(locations', sample, s.frames)
    <3>1. DOMAIN sample = 1 .. m
      BY LenProperties DEF TypeInv, TypeOK
    <3>2. ToSet(sample) \subseteq DOMAIN locations
      BY DEF IInv
    <3> QED
      BY <1>3, <1>4, <2>5, <3>1, <3>2, FramesKept
  <2>7. SameFrames(locations', sample', s.frames)
    <3>1. ASSUME NEW i \in 1 .. Len(sample')
          PROVE  SameFrame(locations'[sample'[i]], s.frames[i])
      <4>1. i \in 1 .. m \/ i = m + 1
        BY <1>4, <2>5
      <4>2. CASE i \in 1 .. m
        BY <2>5, <2>6, <4>2 DEF SameFrames
      <4>3. CASE i = m + 1
        BY <2>4, <2>5, <4>3
      <4> QED
        BY <4>1, <4>2, <4>3
    <3>2. Len(sample') <= k
      BY <2>1, <2>5
    <3> QED
      BY <3>1, <3>2 DEF SameFrames
  <2>8. UNCHANGED <<Done, profile, count, depth, state, observations>>
    BY <1>2 DEF Done, file
  <2>9. \A n \in 1 .. Done : Matches(locations', observations[n], profile[n])
    BY <1>3, <2>5, ObservationsKept
  <2>10. pos' = Start(profile, Done) + 2 + 2 * Len(sample')
    <3> HIDE DEF w, s, k, m
    <3> QED
      BY <1>2, <1>3, <1>4, <1>6, <2>3, <2>5
  <2> QED
    BY <1>1, <1>2, <1>3, <1>4, <2>7, <2>8, <2>9, <2>10 DEF Whole
<1> QED
  BY <1>9, <1>10

LEMMA WholeSample == ASSUME TypeInv, IInv, Whole, RecordSample PROVE Whole'
<1> DEFINE o == [count |-> ToInt(count), stack |-> sample]
           s == profile[Done + 1]
           k == Len(s.frames)
           m == Len(sample)
<1>1. profile \in Profiles /\ Len(profile) \in Nat
  BY ProfileType DEF TypeInv, FileOK
<1>2. /\ state = "frames" /\ 2 * m >= depth /\ state' = "record"
      /\ observations' = Append(observations, o)
      /\ UNCHANGED <<file, pos, count, depth, sample, locations>>
  BY DEF RecordSample
<1>3. /\ Done < Len(profile) /\ count = s.count /\ depth = 2 * k
      /\ SameFrames(locations, sample, s.frames)
      /\ pos = Start(profile, Done) + 2 + 2 * m
      /\ \A n \in 1 .. Done : Matches(locations, observations[n], profile[n])
  BY <1>2 DEF Whole
<1>4. Done \in Nat /\ m \in Nat
  BY LenProperties DEF TypeInv, TypeOK, Done
<1>5. Done + 1 \in 1 .. Len(profile) /\ (Done + 1) - 1 = Done
  BY <1>1, <1>3, <1>4
<1>6. /\ s \in Samples /\ k \in Nat /\ Start(profile, Done) \in Nat
      /\ Start(profile, Done + 1) = Start(profile, Done) + 2 + 2 * k
  BY <1>5, Ahead
<1>7. m = k
  <2>1. m <= k
    BY <1>3 DEF SameFrames
  <2> HIDE DEF m, k
  <2> QED
    BY <1>2, <1>3, <1>4, <1>6, <2>1
<1>8. Matches(locations, o, s)
  <2>1. s.count \in Int /\ IsInt(s.count)
    BY <1>1, <1>5, <1>6, SampleFits, FramesType
  <2>2. ToInt(count) = s.count
    BY <1>3, <2>1, ToIntBack
  <2> QED
    BY <1>3, <1>7, <2>2 DEF Matches
<1> HIDE DEF o
<1>9. /\ Done' = Done + 1 /\ observations'[Done + 1] = o
      /\ \A n \in 1 .. Done : observations'[n] = observations[n]
  <2>1. IsSeq(observations)
    BY DEF IInv
  <2> QED
    BY <1>2, <2>1, SeqAppend DEF Done
<1>10. ASSUME NEW n \in 1 .. Done' PROVE Matches(locations, observations'[n], profile[n])
  <2>1. n \in 1 .. Done \/ n = Done + 1
    BY <1>4, <1>9
  <2>2. CASE n \in 1 .. Done
    BY <1>3, <1>9, <2>2
  <2>3. CASE n = Done + 1
    BY <1>8, <1>9, <2>3
  <2> QED
    BY <2>1, <2>2, <2>3
<1>11. pos = Start(profile, Done + 1)
  <2> HIDE DEF m, k
  <2> QED
    BY <1>3, <1>4, <1>6, <1>7
<1>12. profile' = profile /\ locations' = locations /\ pos' = pos
  BY <1>2 DEF file
<1>13. Done' <= Len(profile')
  BY <1>5, <1>9, <1>12
<1> QED
  BY <1>2, <1>9, <1>10, <1>11, <1>12, <1>13 DEF Whole

-----------------------------------------------------------------------------

LEMMA InitReader == Init => ReaderInv
<1> SUFFICES ASSUME Init PROVE ReaderInv
  OBVIOUS
<1>1. state = "header" /\ observations = <<>> /\ profile \in Profiles
  BY DEF Init
<1>2. Done = 0 /\ Len(profile) \in Nat /\ \A n \in 1 .. Done : FALSE
  BY <1>1, ProfileType DEF Done
<1>3. Whole
  BY <1>1, <1>2 DEF Whole
<1> QED
  BY <1>3, InitTypes, InitInv DEF ReaderInv

\* Whatever the file, cut or whole: what has been read of it is the beginning
\* of the profile, until its end is found where the profile has none.
THEOREM ReaderStep == ReaderInv /\ [Next]_vars => ReaderInv'
<1> SUFFICES ASSUME ReaderInv, [Next]_vars PROVE ReaderInv'
  OBVIOUS
<1>1. TypeInv /\ IInv /\ TypeInv' /\ IInv'
  BY StepTypes, StepInvariant DEF ReaderInv
<1>2. CASE Cut
  BY <1>1, <1>2, CutStep DEF ReaderInv
<1>3. CASE Whole
  <2>1. Cut' \/ Whole'
    <3>1. CASE ReadHeader
      BY <1>1, <1>3, <3>1, WholeHeader
    <3>2. CASE ReadRecord
      BY <1>1, <1>3, <3>2, WholeRecord
    <3>3. CASE ReadFrame
      BY <1>1, <1>3, <3>3, WholeFrame
    <3>4. CASE RecordSample
      BY <1>1, <1>3, <3>4, WholeSample
    <3>5. CASE UNCHANGED vars
      BY <1>3, <3>5 DEF Whole, Done, vars, file
    <3> QED
      BY <3>1, <3>2, <3>3, <3>4, <3>5 DEF Next
  <2> QED
    BY <1>1, <2>1 DEF ReaderInv
<1> QED
  BY <1>2, <1>3 DEF ReaderInv

\* The invariant holds throughout.
THEOREM ReaderInvariance == Spec => []ReaderInv
BY InitReader, ReaderStep, PTL DEF Spec

\* The reader never reads beyond the end of the file, and its depth is never
\* negative: no array of frames is made for a depth that the file does not have.
THEOREM ReaderTyped == Spec => []TypeOK
<1>1. ReaderInv => TypeOK
  BY DEF ReaderInv, TypeInv
<1> QED
  BY <1>1, ReaderInvariance, PTL

\* read() fails on cut files only: every whole profile, of any length and with
\* any counts, method ids and line numbers, is accepted.
THEOREM FailuresCorrect == Spec => []FailedIsCut
<1>1. ReaderInv => FailedIsCut
  BY DEF ReaderInv, FailedIsCut, Cut, Whole
<1> QED
  BY <1>1, ReaderInvariance, PTL

\* An observation that matches its sample says what it says.
LEMMA MatchDecodes ==
  ASSUME TypeInv, NEW n \in 1 .. Done, NEW s \in Samples,
         Matches(locations, observations[n], s)
  PROVE  Decoded(observations[n]) = s
<1> DEFINE o == observations[n]
           f == [i \in DOMAIN o.stack |->
                   [method |-> locations[o.stack[i]].method % Longs,
                    line   |-> locations[o.stack[i]].line]]
<1>1. o.stack \in Seq(Nat)
  <2>1. observations \in Seq([count : Int, stack : Seq(Nat)])
    BY DEF TypeInv, TypeOK
  <2>2. o \in [count : Int, stack : Seq(Nat)]
    BY <2>1, ElementOfSeq DEF Done
  <2> QED
    BY <2>2
<1>2. DOMAIN o.stack = 1 .. Len(o.stack)
  BY <1>1, LenProperties
<1>3. /\ o.count = s.count /\ Len(o.stack) = Len(s.frames)
      /\ \A j \in 1 .. Len(o.stack) : SameFrame(locations[o.stack[j]], s.frames[j])
  BY DEF Matches, SameFrames
<1>4. s.frames \in [1 .. Len(s.frames) -> Frame]
  BY FramesType, LenProperties
<1>5. \A j \in 1 .. Len(s.frames) : f[j] = s.frames[j]
  <2> SUFFICES ASSUME NEW j \in 1 .. Len(s.frames) PROVE f[j] = s.frames[j]
    OBVIOUS
  <2>1. f[j] = [method |-> locations[o.stack[j]].method % Longs,
                line   |-> locations[o.stack[j]].line]
    BY <1>2, <1>3
  <2>2. /\ locations[o.stack[j]].method % Longs = s.frames[j].method
        /\ locations[o.stack[j]].line = s.frames[j].line
    BY <1>3 DEF SameFrame
  <2>3. s.frames[j] \in Frame
    BY <1>4
  <2>4. s.frames[j] = [method |-> s.frames[j].method, line |-> s.frames[j].line]
    BY <2>3 DEF Frame
  <2> QED
    BY <2>1, <2>2, <2>4
<1>6. f = s.frames
  <2>1. DOMAIN f = 1 .. Len(s.frames) /\ f = [j \in 1 .. Len(s.frames) |-> f[j]]
    BY <1>2, <1>3
  <2>2. s.frames = [j \in 1 .. Len(s.frames) |-> s.frames[j]]
    BY <1>4
  <2> HIDE DEF f
  <2> QED
    BY <1>5, <2>1, <2>2
<1>7. s = [count |-> s.count, frames |-> s.frames]
  BY DEF Samples
<1>8. Decoded(o) = [count |-> o.count, frames |-> f]
  BY DEF Decoded
<1> HIDE DEF f, o
<1>9. Decoded(o) = s
  BY <1>3, <1>6, <1>7, <1>8
<1> QED
  BY <1>9 DEF o

\* What read() accepts is the whole of what was sampled: no sample is lost,
\* added or changed between the handler and the report.
THEOREM AcceptedCorrect == Spec => []AcceptedIsWhole
<1>1. ASSUME ReaderInv PROVE AcceptedIsWhole
  <2> SUFFICES ASSUME state = "read"
               PROVE  [n \in DOMAIN observations |-> Decoded(observations[n])] = profile
    BY DEF AcceptedIsWhole
  <2>1. /\ TypeInv /\ Done = Len(profile)
        /\ \A n \in 1 .. Done : Matches(locations, observations[n], profile[n])
    BY <1>1 DEF ReaderInv, Cut, Whole
  <2>2. /\ profile \in Seq(Samples) /\ Len(profile) \in Nat
        /\ \A n \in 1 .. Len(profile) : profile[n] \in Samples
    BY <2>1, ProfileType DEF TypeInv, FileOK
  <2>3. DOMAIN observations = 1 .. Len(profile)
    BY <2>1, LenProperties DEF TypeInv, TypeOK, Done
  <2>4. \A n \in 1 .. Len(profile) : Decoded(observations[n]) = profile[n]
    BY <2>1, <2>2, MatchDecodes
  <2>5. profile = [n \in 1 .. Len(profile) |-> profile[n]]
    <3>1. profile \in [1 .. Len(profile) -> Samples]
      BY <2>2, LenProperties
    <3> QED
      BY <3>1
  <2> QED
    BY <2>3, <2>4, <2>5
<1> QED
  BY <1>1, ReaderInvariance, PTL
=============================================================================
