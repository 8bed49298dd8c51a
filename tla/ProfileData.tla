----------------------------- MODULE ProfileData -----------------------------
(***************************************************************************)
(* The sample collector, class ProfileData of profiledata.h/.cc: a hash    *)
(* table of stacks with their counts, an eviction buffer that the entries  *)
(* go through on their way to the file, and the profile file.              *)
(*                                                                         *)
(* The header of the class asks its users to synchronise: no two of Start, *)
(* Stop, Reset, FlushTable and Add run at the same time.  This module is   *)
(* the class under that contract (module JavaProfiler is about what the    *)
(* profiler does with the contract), so a call of Add is one step, and     *)
(* Stop and FlushTable, whose loops may write to the file many times, are  *)
(* one step per table entry: a write that fails aborts the process         *)
(* between any two of them.                                                *)
(*                                                                         *)
(* evict and file are sequences of records, which is what the slots the    *)
(* code stores there mean: a count, a depth and depth slots.  An entry of  *)
(* the table and a record of the file have the same form.                  *)
(***************************************************************************)
EXTENDS Naturals, Sequences, FiniteSets, Counting

CONSTANTS
  Slot,            \* the values a slot of a stack can have (uintptr_t)
  Traces,          \* the stacks Add is called with
  kMaxStackDepth,  \* deepest stack that is kept
  kAssociativity,  \* entries of a bucket
  kBuckets,        \* buckets of the table
  kBufferLength,   \* slots of the eviction buffer
  Hash(_),         \* bucket of a stack (h % kBuckets)
  Period,          \* sampling period, in the header of the file
  MaxSamples,      \* bound on the samples of one session (count_ is an int)
  NoProfile        \* see SampleLog

Truncate(t) == IF Len(t) > kMaxStackDepth THEN SubSeq(t, 1, kMaxStackDepth)
                                          ELSE t

\* The stacks that the table can hold.
Keys == {Truncate(t) : t \in Traces \ {<<>>}}

Ways    == 0 .. kAssociativity - 1
Buckets == 0 .. kBuckets - 1

ASSUME SlotAssumption == {0, Period} \subseteq Slot
ASSUME TracesAssumption == Traces \subseteq Seq(Slot)
ASSUME SizeAssumption ==
  /\ kMaxStackDepth \in Nat \ {0}
  /\ kAssociativity \in Nat \ {0}
  /\ kBuckets \in Nat \ {0}
  /\ MaxSamples \in Nat
  /\ kBufferLength \in Nat
  /\ kBufferLength >= kMaxStackDepth + 2   \* assert(nslots <= kBufferLength)
  /\ kBufferLength >= 5                    \* the header that Start stores
ASSUME HashAssumption == \A k \in Keys : Hash(k) \in Buckets

VARIABLES
  out,         \* out_ >= 0: a session is open, enabled()
  table,       \* hash_
  evict,       \* the records in evict_
  numEvicted,  \* num_evicted_: how many slots of evict_ they take
  count,       \* count_: samples recorded in this session
  file,        \* the records in the file of the last session
  phase,       \* where Stop or FlushTable is, "idle" outside them
  cursor,      \* the entry their loop has reached
  crashed      \* the process has aborted

vars == <<out, table, evict, numEvicted, count, file, phase, cursor, crashed>>

-----------------------------------------------------------------------------
(* Records.                                                                *)

Record == [count : Nat, stack : Seq(Slot)]

NoEntry   == [count |-> 0, stack |-> <<>>]
Header    == [count |-> 0, stack |-> <<0, Period, 0>>]
EndOfData == [count |-> 0, stack |-> <<0>>]

EmptyTable == [b \in Buckets |-> [a \in Ways |-> NoEntry]]

\* Slots a record takes: its count, its depth and its stack.
Slots(e) == Len(e.stack) + 2

\* A faulty variant: the slots of the count and the depth are forgotten.
FitsStackOnly(e) == numEvicted + Len(e.stack) <= kBufferLength

Fits(e) == numEvicted + Slots(e) <= kBufferLength

\* Faulty variants: the buffer is emptied without being written, and
\* num_evicted_ is not reset.
FlushEvictedLost     == UNCHANGED file /\ evict' = <<>> /\ numEvicted' = 0
FlushEvictedNoReset  == file' = file \o evict /\ evict' = <<>>
                          /\ UNCHANGED numEvicted

\* Write out the buffer (FlushEvicted, FDWrite).
FlushEvicted ==
  /\ file' = file \o evict
  /\ evict' = <<>>
  /\ numEvicted' = 0

\* Move e to the buffer, emptying the buffer first if e does not fit.
Evict(e) ==
  \/ /\ Fits(e)
     /\ evict' = Append(evict, e)
     /\ numEvicted' = numEvicted + Slots(e)
     /\ UNCHANGED file
  \/ /\ ~Fits(e)
     /\ file' = file \o evict
     /\ evict' = <<e>>
     /\ numEvicted' = Slots(e)

KeepBuffer == UNCHANGED <<evict, numEvicted, file>>

\* A faulty variant: entries without samples are evicted too.
SpillAlways(e) == Evict(e)

\* What the table gives up goes to the buffer, when there is something in it.
Spill(e) ==
  \/ e.count > 0 /\ Evict(e)
  \/ e.count = 0 /\ KeepBuffer

-----------------------------------------------------------------------------
(* Start, Reset.                                                           *)

Idle == phase = "idle" /\ ~crashed

\* Start with a file that can be opened.  When it cannot, or when a session
\* is open, Start changes nothing.
Start ==
  /\ Idle
  /\ ~out
  /\ out' = TRUE
  /\ table' = EmptyTable
  /\ evict' = <<Header>>
  /\ numEvicted' = Slots(Header)
  /\ count' = 0
  /\ file' = <<>>
  /\ UNCHANGED <<phase, cursor, crashed>>

\* The effect of Reset: close the file, drop the table and the buffer.
Release ==
  /\ out' = FALSE
  /\ table' = EmptyTable
  /\ evict' = <<>>
  /\ numEvicted' = 0
  /\ phase' = "idle"

Reset ==
  /\ Idle
  /\ out
  /\ Release
  /\ UNCHANGED <<count, file, cursor, crashed>>

-----------------------------------------------------------------------------
(* Add.  With no session open it changes nothing.                          *)

Matches(b, a, k) == table[b][a].stack = k

\* A faulty variant: the sample is counted in the first entry of the bucket.
IsHitFirst(b, a, k) == a = 0 /\ \E w \in Ways : Matches(b, w, k)

\* The entry of bucket b that holds stack k: the first that matches.
IsHit(b, a, k) ==
  /\ Matches(b, a, k)
  /\ \A w \in Ways : w < a => ~Matches(b, w, k)

\* The entry that a new stack takes: the first with the smallest count.
IsVictim(b, a) ==
  \A w \in Ways : /\ table[b][a].count <= table[b][w].count
                  /\ w < a => table[b][a].count < table[b][w].count

Adding(t) == Idle /\ out /\ t # <<>> /\ count < MaxSamples

AddHit(t) ==
  LET k == Truncate(t)
      b == Hash(k)
  IN /\ Adding(t)
     /\ \E a \in Ways : /\ IsHit(b, a, k)
                        /\ table' = [table EXCEPT ![b][a].count = @ + 1]
     /\ count' = count + 1
     /\ KeepBuffer
     /\ UNCHANGED <<out, phase, cursor, crashed>>

AddMiss(t) ==
  LET k == Truncate(t)
      b == Hash(k)
  IN /\ Adding(t)
     /\ \A a \in Ways : ~Matches(b, a, k)
     /\ \E a \in Ways :
          /\ IsVictim(b, a)
          /\ Spill(table[b][a])
          /\ table' = [table EXCEPT ![b][a] = [count |-> 1, stack |-> k]]
     /\ count' = count + 1
     /\ UNCHANGED <<out, phase, cursor, crashed>>

\* RAW_CHECK(depth > 0): an empty stack aborts the process.
AddEmpty ==
  /\ Idle
  /\ out
  /\ <<>> \in Traces
  /\ crashed' = TRUE
  /\ UNCHANGED <<out, table, evict, numEvicted, count, file, phase, cursor>>

-----------------------------------------------------------------------------
(* Stop and FlushTable: a sweep of the table, then the end of the call.    *)

FirstEntry == [bucket |-> 0, way |-> 0]

\* A faulty variant: the way does not start again in the next bucket.
NextEntryNoWrap(c) == [c EXCEPT !.way = @ + 1]

NextEntry(c) == IF c.way + 1 < kAssociativity
                THEN [c EXCEPT !.way = @ + 1]
                ELSE [bucket |-> c.bucket + 1, way |-> 0]

SweepDone == cursor.bucket = kBuckets

BeginSweep(p) ==
  /\ Idle
  /\ out
  /\ phase' = p
  /\ cursor' = FirstEntry
  /\ KeepBuffer
  /\ UNCHANGED <<out, table, count, crashed>>

BeginStop  == BeginSweep("stopping")
BeginFlush == BeginSweep("flushing")

\* A faulty variant: the entry keeps its stack.
ClearedCountOnly(e) == [e EXCEPT !.count = 0]

Cleared(e) == [e EXCEPT !.count = 0, !.stack = <<>>]

\* One turn of the loops over the table.  FlushTable clears what it has
\* moved, Stop leaves it (the table is freed at the end of Stop).
Sweep ==
  LET e == table[cursor.bucket][cursor.way]
  IN /\ ~crashed
     /\ phase \in {"stopping", "flushing"}
     /\ ~SweepDone
     /\ Spill(e)
     /\ table' = IF phase = "flushing" /\ e.count > 0
                 THEN [table EXCEPT ![cursor.bucket][cursor.way] = Cleared(@)]
                 ELSE table
     /\ cursor' = NextEntry(cursor)
     /\ UNCHANGED <<out, count, phase, crashed>>

FlushEnd ==
  /\ ~crashed
  /\ phase = "flushing"
  /\ SweepDone
  /\ FlushEvicted
  /\ phase' = "idle"
  /\ UNCHANGED <<out, table, count, cursor, crashed>>

\* Faulty variants: the marker is stored before the table is done, and only
\* when there is room for it.
MarkDueEarly  == phase = "stopping"
MarkDueNoRoom == phase = "stopping" /\ SweepDone /\ Fits(EndOfData)

MarkDue == phase = "stopping" /\ SweepDone

\* Stop stores the end-of-data marker as it would evict an entry ...
StopMark ==
  /\ ~crashed
  /\ MarkDue
  /\ Evict(EndOfData)
  /\ phase' = "closing"
  /\ UNCHANGED <<out, table, count, cursor, crashed>>

\* ... writes the buffer for the last time and closes the session.
StopEnd ==
  /\ ~crashed
  /\ phase = "closing"
  /\ file' = file \o evict
  /\ Release
  /\ UNCHANGED <<count, cursor, crashed>>

-----------------------------------------------------------------------------
(* RAW_CHECK(r >= 0, "write failed"): a write that fails aborts the        *)
(* process, with any part of the buffer but not all of it in the file.  A  *)
(* record of which only a part was written is left out of file.            *)

WriteDue ==
  \/ /\ Idle
     /\ \E t \in Traces :
          LET k == Truncate(t)
              b == Hash(k)
          IN /\ Adding(t)
             /\ \A a \in Ways : ~Matches(b, a, k)
             /\ \E a \in Ways : /\ IsVictim(b, a)
                                /\ table[b][a].count > 0
                                /\ ~Fits(table[b][a])
  \/ /\ phase \in {"stopping", "flushing"}
     /\ ~SweepDone
     /\ table[cursor.bucket][cursor.way].count > 0
     /\ ~Fits(table[cursor.bucket][cursor.way])
  \/ /\ phase = "flushing"
     /\ SweepDone
  \/ /\ phase = "stopping"
     /\ SweepDone
     /\ ~Fits(EndOfData)
  \/ phase = "closing"

WriteFails ==
  /\ ~crashed
  /\ WriteDue
  /\ \E n \in 0 .. Len(evict) :
        /\ n < Len(evict)
        /\ file' = file \o SubSeq(evict, 1, n)
  /\ crashed' = TRUE
  /\ UNCHANGED <<out, table, evict, numEvicted, count, phase, cursor>>

-----------------------------------------------------------------------------

Init ==
  /\ out = FALSE
  /\ table = EmptyTable
  /\ evict = <<>>
  /\ numEvicted = 0
  /\ count = 0
  /\ file = <<>>
  /\ phase = "idle"
  /\ cursor = FirstEntry
  /\ crashed = FALSE

Next ==
  \/ Start
  \/ Reset
  \/ \E t \in Traces : AddHit(t) \/ AddMiss(t)
  \/ AddEmpty
  \/ BeginStop
  \/ BeginFlush
  \/ Sweep
  \/ FlushEnd
  \/ StopMark
  \/ StopEnd
  \/ WriteFails

\* A call of Stop or FlushTable that has begun runs on: its thread is not
\* starved by the scheduler.  Nobody has to call anything.
Fairness == WF_vars(Sweep \/ FlushEnd \/ StopMark \/ StopEnd)

SafetySpec == Init /\ [][Next]_vars

Spec == SafetySpec /\ Fairness

-----------------------------------------------------------------------------
(* What the collector has recorded, and what can be read from the file.    *)

\* The records written so far and those waiting in the buffer.  The buffer
\* of a process that has died is lost.
Stream == IF crashed THEN file ELSE file \o evict

\* How many samples of stack k the records of q count.
Units(q, k) == UNION {{i} \X (1 .. q[i].count) :
                        i \in {j \in DOMAIN q : q[j].stack = k}}

Tally(q, k) == Cardinality(Units(q, k))

\* Stop has already moved entry a of bucket b, and its copy in the table
\* no longer counts.
Swept(b, a) ==
  /\ phase \in {"stopping", "closing"}
  /\ \/ b < cursor.bucket
     \/ b = cursor.bucket /\ a < cursor.way

Holders(k) == {a \in Ways : Matches(Hash(k), a, k) /\ ~Swept(Hash(k), a)}

InTable(k) == IF Holders(k) = {}
              THEN 0
              ELSE table[Hash(k)][CHOOSE a \in Holders(k) : TRUE].count

Recorded == [k \in Keys |-> Tally(Stream, k) + InTable(k)]

\* What the Java reader takes for the end of a profile: count 0, depth 1.
IsEnd(e) == e.count = 0 /\ Len(e.stack) = 1

IsComplete(q) == q # <<>> /\ IsEnd(q[Len(q)])

ProfileInFile == IF IsComplete(file) THEN [k \in Keys |-> Tally(file, k)]
                                     ELSE NoProfile

Enabled == out /\ ~crashed

\* GetCurrentState, which reads count_ without stopping anything.
samples_gathered == IF out THEN count ELSE 0

\* The slots that each record of q takes.
Takes(q) == [i \in DOMAIN q |-> Slots(q[i])]

Log == INSTANCE SampleLog WITH
         enabled <- Enabled,
         samples <- IF Enabled THEN Recorded ELSE [k \in Keys |-> 0],
         profile <- ProfileInFile

-----------------------------------------------------------------------------
(* Properties.                                                             *)

TypeOK ==
  /\ out \in BOOLEAN
  /\ table \in [Buckets -> [Ways -> Record]]
  /\ evict \in Seq(Record)
  /\ numEvicted \in Nat
  /\ count \in 0 .. MaxSamples
  /\ file \in Seq(Record)
  /\ phase \in {"idle", "stopping", "flushing", "closing"}
  /\ cursor \in [bucket : 0 .. kBuckets, way : Ways]
  /\ crashed \in BOOLEAN

\* The collector keeps the promise of its header: samples are counted exactly
\* once, whether they are in the table, evicted or written, and the only
\* complete profile there ever is in the file is the count of a whole session;
\* a session that was lost leaves none.
RefinesSampleLog == Log!Spec

\* Each call does what its own action of SampleLog does: Add counts the stack
\* it was given (as far as kMaxStackDepth), and after Stop the file is the
\* count of the session.  The turns of a sweep cannot be seen.
CallsAsPromised ==
  [][/\ Start => Log!Start
     /\ \A t \in Traces : AddHit(t) \/ AddMiss(t) => Log!Add(Truncate(t))
     /\ Sweep \/ FlushEnd \/ StopMark => UNCHANGED Log!logVars
     /\ StopEnd => Log!Stop]_vars

\* The entries of a bucket are where Add looks for them and are distinct: a
\* stack with two entries would be counted in one and reported in both.
TableOK ==
  \A b \in Buckets, a \in Ways :
    LET e == table[b][a]
    IN /\ e.count > 0 <=> e.stack # <<>>
       /\ e.stack # <<>> => /\ e.stack \in Keys
                            /\ Hash(e.stack) = b
                            /\ \A w \in Ways : Matches(b, w, e.stack) => w = a

\* evict_ is never written past its end: the slots of the buffered records,
\* the end-of-data marker of Stop included, are num_evicted_ and never more
\* than kBufferLength.
BufferInBounds == numEvicted <= kBufferLength

\* num_evicted_, which says how much of evict_ is written to the file, is what
\* the buffered records take.
BufferMatches == numEvicted = Total(Takes(evict))

\* What GetCurrentState tells in the middle of a session is the number of
\* samples that are in the table, the buffer and the file together.
CountMatches == Enabled => samples_gathered = Total(Recorded)

\* The file and the buffer behind it are a header, then samples, then (in
\* the last place, and only once Stop has got there) the end-of-data marker.
\* A sample that looked like the marker would end the reader's loop early.
IsSample(e) == e.count > 0 /\ e.stack \in Keys

Open(s) == s # <<>> => /\ s[1] = Header
                       /\ \A i \in 2 .. Len(s) : IsSample(s[i])

Closed(s) == /\ Len(s) >= 2
             /\ s[1] = Header
             /\ s[Len(s)] = EndOfData
             /\ \A i \in 2 .. Len(s) - 1 : IsSample(s[i])

StreamOK ==
  \/ Open(Stream)
  \/ Closed(Stream) /\ (~out \/ phase = "closing")

\* A Stop or FlushTable that has begun comes to its end, unless a write fails.
StopReturns == (phase # "idle") ~> (phase = "idle" \/ crashed)
=============================================================================
