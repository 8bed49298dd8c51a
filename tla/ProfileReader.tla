---------------------------- MODULE ProfileReader ----------------------------
(***************************************************************************)
(* The file between the two halves of the profiler: java_profiler.cc and   *)
(* profiledata.cc write slots of SlotBytes bytes, ProfileData.java and     *)
(* JavaProfileData.java read them back, one byte at a time.                *)
(*                                                                         *)
(* The file is read as far as it goes.  A process that aborts in a write   *)
(* (module ProfileData) leaves a prefix of the profile, cut anywhere, and  *)
(* the reader is not told: past the end, InputStream.read returns -1, and  *)
(* what that does to the bits of a slot decides what the reader makes of   *)
(* the file.                                                               *)
(*                                                                         *)
(* A slot is the number that its bytes make, the lowest byte first, and    *)
(* the one that the file is cut in is the number of those that are there.  *)
(* The sizes of bytes, ints and longs are parameters: TLC uses small ones. *)
(***************************************************************************)
EXTENDS Integers, SequencesExt

CONSTANTS
  Base,       \* values of a byte (256)
  SlotBytes,  \* bytes of a slot, and of a long (8)
  IntBytes,   \* bytes of an int (4)
  Period,     \* sampling period, in the header
  Profiles    \* the samples of a session: sequences of [count, frames]

ASSUME WidthAssumption ==
  /\ Base \in Nat /\ Base > 1 /\ Base % 2 = 0
  /\ IntBytes \in Nat \ {0}
  /\ SlotBytes \in Nat /\ SlotBytes > IntBytes

\* How many values so many bytes have.
Values ==
  LET values[n \in 0 .. SlotBytes] == IF n = 0 THEN 1 ELSE Base * values[n - 1]
  IN values

Ints  == Values[IntBytes]
Longs == Values[SlotBytes]

IsInt(v) == -Ints <= 2 * v /\ 2 * v < Ints

\* A method id is a pointer, a line number a jint, and a count and the depth of
\* a stack are ints.
ASSUME ProfilesAssumption ==
  /\ Period \in Nat
  /\ Profiles \subseteq Seq([count : Nat \ {0}, frames : Seq([method : Nat, line : Int])])
  /\ \A p \in Profiles : \A n \in DOMAIN p :
       /\ IsInt(p[n].count) /\ IsInt(2 * Len(p[n].frames))
       /\ \A j \in DOMAIN p[n].frames :
            p[n].frames[j].method < Longs /\ IsInt(p[n].frames[j].line)

VARIABLES
  profile,    \* the samples of the session that wrote the file
  slots,      \* the whole slots in the file
  rest,       \* the bytes behind them: how many, and their value
  pos,        \* the slots that have been read; at the end, one more than are whole
  state,      \* where read() is; "failed" after an exception
  count,      \* sampleCount of the sample being read
  depth,      \* its depth, in slots
  sample,     \* the indexes of its frames so far
  locations,  \* the locations by index (the first has 1 here, 0 in the code)
  observations \* the samples read

file == <<profile, slots, rest>>

vars == <<file, pos, state, count, depth, sample, locations, observations>>

-----------------------------------------------------------------------------
(* The writer: prof_handler, Start, Evict and Stop.                        *)

\* A frame is a method id and a line number.
SlotsOf(s) ==
  <<s.count, 2 * Len(s.frames)>>
  \o [i \in 1 .. 2 * Len(s.frames) |->
        LET f == s.frames[(i + 1) \div 2] IN IF i % 2 = 1 THEN f.method ELSE f.line]

\* What is in the file after each of the samples.
Contents(p) ==
  LET contents[n \in 0 .. Len(p)] ==
        IF n = 0 THEN <<0, 3, 0, Period, 0>> ELSE contents[n - 1] \o SlotsOf(p[n])
  IN contents

\* The file of a profile.  A jint is widened to the slot with its sign.
Written(p) ==
  LET w == Contents(p)[Len(p)] \o <<0, 1, 0>>
  IN [i \in 1 .. Len(w) |-> w[i] % Longs]

-----------------------------------------------------------------------------
(* readSlot, and the conversions of Java.                                  *)

\* The number with its sign (two's complement), of as many values.
Signed(v, values) == IF 2 * v < values THEN v ELSE v - values

\* A faulty variant: the line number loses its sign.
ToIntUnsigned(v) == v % Ints

\* The cast (int).
ToInt(v) == Signed(v % Ints, Ints)

\* The bytes that are there, and -1 for each that is not: its shift sets all
\* the bits above them.
ReadSlot(at) ==
  IF at < Len(slots) THEN Signed(slots[at + 1], Longs)
  ELSE IF at = Len(slots) THEN rest.value - Values[rest.bytes]
  ELSE -1

\* There is no way beyond the end.
AfterSlot(at) == IF at <= Len(slots) THEN at + 1 ELSE at

-----------------------------------------------------------------------------
(* read() and readSample().                                                *)

\* The header, and as many slots more as it says there are.
ReadHeader ==
  /\ state = "header"
  /\ LET headerSlots == ReadSlot(AfterSlot(0))
         n == IF headerSlots > 3 THEN 5 + (headerSlots - 3) ELSE 5
     IN pos' = IF n <= Len(slots) THEN n ELSE Len(slots) + 1
  /\ state' = "record"
  /\ UNCHANGED <<file, count, depth, sample, locations, observations>>

\* A faulty variant: an empty sample would be the end.
IsEndNoDepth(c, d) == c = 0 /\ d = 0

\* The marker, whose last slot is not read.
IsEnd(c, d) == c = 0 /\ d = 1

Keep == UNCHANGED <<count, depth, sample>>

\* A faulty variant: a negative depth is let through.
BadDepthOdd(d) == ToInt(d) % 2 # 0

\* An odd depth is an IllegalArgumentException, a negative one a
\* NegativeArraySizeException.
BadDepth(d) == ToInt(d) % 2 # 0 \/ ToInt(d) < 0

\* A faulty variant: such a sample is skipped.
RefusedSkips == "record"

Refused == "failed"

\* The count and the depth of the next sample.
ReadRecord ==
  LET c == ReadSlot(pos)
      d == ReadSlot(AfterSlot(pos))
  IN /\ state = "record"
     /\ pos' = AfterSlot(AfterSlot(pos))
     /\ \/ IsEnd(c, d) /\ state' = "read" /\ Keep
        \/ ~IsEnd(c, d) /\ BadDepth(d) /\ state' = Refused /\ Keep
        \/ /\ ~IsEnd(c, d) /\ ~BadDepth(d)
           /\ state' = "frames"
           /\ count' = c /\ depth' = ToInt(d) /\ sample' = <<>>
     /\ UNCHANGED <<file, locations, observations>>

\* A faulty variant: every location is a new one.
LocateAgain(l) ==
  /\ locations' = Append(locations, l)
  /\ sample' = Append(sample, Len(locations) + 1)

\* The index of a location (a virtual PC), a new one if it has none.
Locate(l) ==
  \/ /\ \E i \in DOMAIN locations : /\ locations[i] = l
                                    /\ sample' = Append(sample, i)
     /\ UNCHANGED locations
  \/ /\ ~Contains(locations, l)
     /\ locations' = Append(locations, l)
     /\ sample' = Append(sample, Len(locations) + 1)

ReadFrame ==
  /\ state = "frames"
  /\ 2 * Len(sample) < depth
  /\ Locate([method |-> ReadSlot(pos), line |-> ToInt(ReadSlot(AfterSlot(pos)))])
  /\ pos' = AfterSlot(AfterSlot(pos))
  /\ UNCHANGED <<file, state, count, depth, observations>>

\* recordSample.  The key of the map is an array, which is equal to no other:
\* every sample becomes an observation of its own, with a count that is an int.
RecordSample ==
  /\ state = "frames"
  /\ 2 * Len(sample) >= depth
  /\ observations' = Append(observations, [count |-> ToInt(count), stack |-> sample])
  /\ state' = "record"
  /\ UNCHANGED <<file, pos, count, depth, sample, locations>>

-----------------------------------------------------------------------------

\* Any profile, cut anywhere.
Init ==
  /\ profile \in Profiles
  /\ LET w == Written(profile)
     IN \E n \in 0 .. Len(w) :
          /\ slots = SubSeq(w, 1, n)
          /\ \E b \in 0 .. SlotBytes - 1 :
               /\ n = Len(w) => b = 0
               /\ rest = [bytes |-> b, value |-> IF b = 0 THEN 0 ELSE w[n + 1] % Values[b]]
  /\ pos = 0
  /\ state = "header"
  /\ count = 0
  /\ depth = 0
  /\ sample = <<>>
  /\ locations = <<>>
  /\ observations = <<>>

Next == ReadHeader \/ ReadRecord \/ ReadFrame \/ RecordSample

Spec == Init /\ [][Next]_vars /\ WF_vars(Next)

-----------------------------------------------------------------------------
(* Properties.                                                             *)

TypeOK ==
  /\ profile \in Profiles
  /\ slots \in Seq(0 .. Longs - 1)
  /\ rest \in [bytes : 0 .. SlotBytes - 1, value : Nat]
  /\ rest.value < Values[rest.bytes]
  /\ pos \in 0 .. Len(slots) + 1
  /\ state \in {"header", "record", "frames", "read", "failed"}
  /\ count \in Int
  /\ depth \in Nat
  /\ sample \in Seq(Nat)
  /\ locations \in Seq([method : Int, line : Int])
  /\ observations \in Seq([count : Int, stack : Seq(Nat)])

\* An index stands for one location and a location has one index, so a
\* virtual PC can stand for the location wherever samples are counted.
LocationsDistinct ==
  /\ \A i, j \in DOMAIN locations : locations[i] = locations[j] => i = j
  /\ \A n \in DOMAIN observations :
       ToSet(observations[n].stack) \subseteq DOMAIN locations

\* What an observation says about the program: Profiler.getMethodInfo casts
\* the long back to a jmethodID.
Decoded(o) ==
  [count  |-> o.count,
   frames |-> [i \in DOMAIN o.stack |->
                 [method |-> locations[o.stack[i]].method % Longs,
                  line   |-> locations[o.stack[i]].line]]]

\* A file that read() accepts is a whole profile, and its observations are the
\* samples that were taken: counts, methods and line numbers come back as they
\* were, whatever their sign.  A cut file is never taken for a whole one.
AcceptedIsWhole ==
  state = "read" =>
    [n \in DOMAIN observations |-> Decoded(observations[n])] = profile

\* read() fails on no file that has all but the last slot, which is not read.
FailedIsCut ==
  state = "failed" => Len(slots) < Len(Written(profile)) - 1

\* read() comes to an end, also when the file ends in the middle of anything:
\* the loop has no other test for the end of the file.
ReadEnds == <>(state \in {"read", "failed"})
=============================================================================
