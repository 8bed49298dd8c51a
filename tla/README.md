# A TLA+ model of javaprofiler

javaprofiler is a sampling profiler for Java. A native agent
(`src/profiler-agent`) takes a stack trace with `AsyncGetCallTrace` at every
`SIGPROF` and counts it in a table derived from gperftools; a Java agent
(`src/profiler-java`) starts and stops it, reads the profile file back when the
JVM shuts down, and prints a report and a call graph.

This directory holds the models of both halves, the TLC configurations that
check them on small instances, and TLAPS proofs for all instances. Paths below
are relative to the repository; `profiledata.cc`, `java_profiler.cc` and
`agent.cpp` are in `src/profiler-agent/src/main/cpp`, `profiledata.h` in
`src/profiler-agent/src/main/include`, and the Java classes in
`src/profiler-java/src/main/java/com/fathomdb/profiler`.

## 1. The system

| Component | State | Operations | Used by |
|---|---|---|---|
| Sample collector, `ProfileData` (`profiledata.h/.cc`) | `hash_` (buckets of 4 entries), `evict_` and `num_evicted_`, `count_`, `evictions_`, `out_`, the file | `Start`, `Stop`, `Reset`, `FlushTable`, `Add`, private `Evict`, `FlushEvicted` | the profiler |
| Profiler and handler, `JavaProfiler` (`java_profiler.cc`) | the action of `SIGPROF`, the interval timer, the collector | `Start`, `Stop`, `FlushTable`, `EnableHandler`, `DisableHandler`, `prof_handler` | JNI entry points, JVM callbacks, the kernel |
| Agents (`agent.cpp`, end of `java_profiler.cc`, `JvmAgent`, `Profiler`) | `jvmStarted`, `autoStarted`, `profilePath`, the shutdown hook | `callbackVMInit`, `callbackVMDeath`, `premain`, `shutdownHook`, `start0`, `stop0`, the destructor | the JVM, the application |
| Reader (`ProfileData.java`, `JavaProfileData.java`) | position in the file, `locations`, `locationToIndex`, `observations` | `read`, `readSample`, `readSlot`, `recordSample` | the hook, `Main` |
| Report and graph (`ProfileData.java`, `ProfilerUtils`, `DotGraph`) | the counts of locations, of names, of edges, and the degrees | `analyze`, `getReduced`, `getFlatProfile`, `getCumulativeProfile`, `printDot` | the hook, `Main` |
| JVMTI queries (`agent.cpp`, `JavaProfileData.getMethodName`) | the capabilities and events asked for, the JVM's ids of methods, what the JVM has given and not got back | `Agent_OnLoad`, `OnClassPrepare`, `getMethodInfo0`, `getLineNumberTable0`, the search for the line | the JVM, the report |

How they interact:

- A Java thread calls `Profiler.startProfiling` inside `synchronized(profiler)`;
  that is the only lock left, since the `SpinLockHolder` lines of
  `java_profiler.cc` are commented out. `onJvmStart` calls `Start`, and `onJvmStop`
  and `~JavaProfiler` call `Stop`, without it.
- `EnableHandler` installs `prof_handler` and then arms `ITIMER_PROF`;
  `DisableHandler` changes the action first and disarms second. The kernel gives
  a process-wide `SIGPROF` to any thread.
- `prof_handler` and the control calls meet in the collector, which has no lock
  of its own: `profiledata.h:57-64` makes that the duty of the caller.
- The collector and the reader meet only in the file, which outlives both.
- A frame in the file is a method id; what it is called is asked of the JVM when
  the report is written. The id is null unless `OnClassPrepare` has made the JVM
  create it before the sample, and means nothing any more when the class has been
  unloaded.

What is hard about it: signals in the middle of any control call and on any
thread; the window between two system calls; a handler that runs on while the
table is freed; a bounded table with evictions through a bounded buffer, with
writes that may fail anywhere; a file that may end in the middle of a slot; two
agents initialised in either order; a shutdown in which the application is
still running; functions of the JVM that fail half-way through a query, and
classes that come before the agent and go before the report; recursion, ties and
limits in the report.
`PROJECT.json` lists these hazards with their lines and the properties for them.

## 2. Modules

| Module | What it is | Code |
|---|---|---|
| `SampleLog` | what the collector promises: every sample counted once, the file after `Stop` is the count of the session | comments of `profiledata.h` |
| `ProfileData` | the collector, under the contract of its header | `profiledata.cc` |
| `ProfileDataProofs`, `ProfileDataRefinement` | its invariants; it implements `SampleLog`, and its counters | |
| `JavaProfiler` | control calls, timer, signal and handler on several threads | `java_profiler.cc`, `Profiler.java` |
| `JavaProfilerProofs` | its invariants | |
| `AgentLifecycle` | processes one after the other, with both agents, the application, the hook and the file | `agent.cpp`, `java_profiler.cc:396-434`, `JvmAgent.java` |
| `AgentLifecycleProofs` | its invariants | |
| `ProfileReader` | the file, cut at any byte | `ProfileData.java:119-178`, `JavaProfileData.java` |
| `ProfileReaderProofs` | locations and their virtual PCs; what comes back of a profile | |
| `ProfileReport` | counting, and the choice of nodes and edges | `ProfileData.java`, `ProfilerUtils.java`, `DotGraph.java` |
| `ProfileReportProofs` | paths, sums, nodes and edges | |
| `MethodNames` | from a frame on a stack to its name and line | `agent.cpp`, `JavaProfileData.java:82-118` |
| `MethodNamesProofs` | its invariants | |
| `Counting`, `CountingTheorems` | sums; induction, loops and the laws of sums, for the proofs | |
| `MCProfileData`, `MCProfileReader`, `MCProfileReport`, `MCMethodNames` | small instances for TLC | |

The modules fit together by their contracts. `ProfileData` assumes that its calls
do not overlap; `JavaProfiler` keeps only what of the collector two threads can
disturb; `ControlSerial` and `AddApart` say which calls do not overlap (and the
findings, which do). `AgentLifecycle` takes from `ProfileData` that a session ends in
a whole file or, after a crash, in one without its marker, and from `ProfileReader`
that the first is accepted and the second refused. `ProfileReport` takes the
observations that `ProfileReader` gives, and its `NameOf` stands for the answers
of `MethodNames`.

Definitions with "A faulty variant" in their comment are no part of a
specification: each is a definition with a plausible bug, used to see that a
property notices.

### ProfileData

`GetCurrentState` is `samples_gathered`, which reads `count_` in any state.
`Start`, `Reset`, `Add` (`AddHit`, `AddMiss`, `AddEmpty` for its three
outcomes), `Stop` and `FlushTable`. Under the contract no two calls overlap, so
`Add` is one step, evictions included. `Stop` and `FlushTable` are a loop:
`BeginStop`/`BeginFlush`, one `Sweep` per entry, then `StopMark` and `StopEnd`,
or `FlushEnd`. `WriteFails` is possible wherever the next step has to write, and
ends the process (`RAW_CHECK` in `FDWrite`). `evict` and `file`
are sequences of records; `numEvicted` is kept beside them as the code keeps
it, so that an overrun of `evict_`, or a buffer whose length is wrong, is a state
of the model. The hash function is a parameter.

### SampleLog and the refinement

`ProfileData` implements `SampleLog` with `samples` mapped to what has been
written, plus what is buffered, plus what is in the table and not yet swept.
`Discard` of `SampleLog` is permissive (it may happen at any time), so
refinement alone would let a collector lose a session. `CallsAsPromised` closes
that gap: each call takes the step of its own name, and a sweep is invisible.

### JavaProfiler

Control calls go step by step through the places that matter: the test of
`enabled()`, the collector's own test, the allocation of the table and the
assignment of `out_` that enables the collector, the two system calls of
`EnableHandler` and `DisableHandler`, the freeing of the table and the closing.
Java threads take the monitor of `Profiler`. A thread of the VM takes none: it
calls `Start` in `onJvmStart`, before which `startProfiling` only keeps the path
(`jvmStarted`), or starts nothing (`VmStartsNothing`), and then `Stop`, which the
code does at most twice (`onJvmStop`, the destructor) and the model any number of
times. `Expire`,
`Deliver` and `Kill` are the kernel: a `SIGPROF` that comes while one is pending
is lost, any thread that is not in the handler may take it, and with the default
action it ends the process. The handler is `Traced`, `AddCheck`, `AddLookup`,
`AddUpdate`. A failing write ends the process from inside the collector (`Abort`).
Of the collector only `enabled()` and the identity of its table are kept.

Two variables are there to state the properties. `caught` has the threads that
were in the handler when `DisableHandler` took it away, until they have left it.
`overlap` says whether a call of the VM has run beside another call: what the
code promises then is in section 4.

`DisableHandler` assigns `sa_handler = SIG_IGN` and then `sa_sigaction = 0`;
the two are one union on Linux and macOS, and 0 is `SIG_DFL`, so the action
becomes the default one.

### AgentLifecycle

A process is loaded (with or without the native agent), initialised by
`VMInit` and `Premain` in either order, runs, and ends through `Shutdown`,
`HookStop`, `HookOpen`, `HookRead`, `VMDeath` and `Exit`; `Runtime.halt` skips the hooks, and
`Crash` may come anywhere. `AppStart` and `AppStop` are the application's calls
of `Profiler`, also during the hooks. A call of `Start` or `Stop` is one step
(their insides are `JavaProfiler`'s subject). Of a file, the session that wrote
it is kept, and whether it is there and whole. A session that begins while
the hook has the file open truncates it under the reader, who fails or goes on at
his place in the new profile and may take an end mark there for his ("mixed").

### ProfileReader

`Written` is what the native half writes for a sequence of samples, slot by slot;
`Init` cuts it at any byte. A slot is the number that its bytes make, the lowest
byte first, so the slot that the file is cut in is the remainder of that number
by the `Values` of the bytes that are left. `ReadSlot` does to the missing bytes
what `InputStream.read` and the shifts do: each is -1 and sets all the bits
above it. The signs of a long and the casts to `int` are modelled by what they do.

### ProfileReport

The stages are the calls of `JvmAgent.shutdownHook`. The order of a `HashMap`, and
so the order of equal counts after the sort, is a free choice: `SelectNodes`
picks any set of nodes the sort allows, `TakeEdge` any of the edges with the
highest count. Fractions are divisions by `NodePart` and `EdgePart`.

### MethodNames

The JVM is external to this code: it goes through its phases, prepares and unloads
classes, and any function in `MayFail` may return an error. `Agent_OnLoad` asks
for the capability and the events (`OnLoad`); for each class `OnClassPrepare`
makes the JVM create the ids (`ClassMethods`) and gives the array back
(`FreeMethods`). `Sample` is `prof_handler` at a frame of a class, which may be
one that another thread runs while the callback is still under way. A query,
`getMethodName`, is the calls that it makes in their order: `Ask`,
`GetMethodName`, `GetClassName`, `ReturnInfo`, `GetTable`, `FindLine`; classes may
be unloaded between any two of them. `heap` has what the JVM has given to a query
and not got back. Errors are modelled as the code treats them: printed or not
looked at, with the pointers as they were, so that the pointer of
`GetClassMethods`, which is not initialised, may be anything after one. The
sets `unprimed`, `failed` and `thrown` record what has happened, to state the
properties.

## 3. Runs

| Run | Instance | What it shows |
|---|---|---|
| `collector` | 2 buckets of 2 entries, buffer of 9 slots, stacks of at most 2, 6 traces (empty and too deep among them), 5 samples | `TableOK`, `BufferInBounds`, `BufferMatches`, `StreamOK`, `CountMatches`; implements `SampleLog`; `CallsAsPromised`; `Stop` and `FlushTable` return |
| `serial` | 2 Java threads and one of the VM, signals on any of them, 2 sessions | until a call of the VM has met another: control calls are serial (`ControlSerial`) and leave no handler or timer behind (`SignalsHaveSession`, `ArmedHandled`); no handler that begins gets into the collector beside them (`AddApart`) or into a table that is gone (`TableLive`) |
| `returns` | a Java thread and one of the VM, 2 sessions | every call returns, however often it is interrupted and whatever the VM does meanwhile |
| `lifecycle` | 3 processes, 2 paths, 2 calls of the application | the profile is started, saved, and reported by the process that took it |
| `reader` | up to 2 samples, bytes of 2 bits, ints of 2 bytes, slots of 3, every cut | an accepted file is the whole profile, a cut one is refused, the reader ends |
| `report` | 4 names, 6 locations, 2 or 3 samples, limits on both sides of the counts | the counts agree with each other and with the samples; the graph keeps what matters |
| `methods` | 2 classes, 2 queries, tables of up to 2 entries, all functions of the JVM failing or not | frames have ids unless the agent could not know the class; they are shown with their names and the right line; nothing stays allocated but one table without memory to copy it |

The other runs are those of section 4.

Why the bounds are enough: in `collector` three stacks share a bucket of two
entries, so an entry has to be evicted, and the buffer overflows at its second
or third record, in `Add`, in the sweep and at the marker. 5 samples are enough to
fill both buckets, evict, and hit an evicted stack again. In `serial` a thread
waits for the other while the third comes without waiting, and the second session
shows what the first left behind, also in a handler that was caught in the first
and is still there in the second. In `returns` the two threads are enough for a
session to be taken from under a call. `FlushTable`, which nothing calls yet, is in
both runs and in the proofs. In `reader` a byte of two bits makes an `int` -8..7
and a long -32..31: a slot can be cut before, at and behind the end of its `int`,
there is a negative line number, a method id with its high bit set, and a count
that is the largest `int`. In `report` all stacks of up to three frames occur, so
direct and indirect recursion do too. In `lifecycle` the third process can meet a
file that the second has left unfinished over the whole one of the first. In
`methods` the second query shows what the first has left, the second class what
does not depend on the first, and positions lie before, at and behind the starts
of the entries, of which two may be equal.

Runs with `CHECK_DEADLOCK FALSE` are those that may really stop: a process that
has ended, a reader at the end of its file, bounds that are used up.
The types of `JavaProfiler` and `AgentLifecycle` are in no run: they are lemmas of
their proofs.

### Fairness

* `ProfileData`: weak fairness of the steps of `Stop` and `FlushTable`; the
  scheduler runs a thread that is in them. Nobody has to call anything.
* `JavaProfiler`: weak fairness of the handler, which waits for nothing, and
  strong fairness of the control steps, since at 50 Hz signals interrupt a call
  again and again without starving it. No thread has to make a call and the
  timer need not expire. `CallsReturn` depends on it that the monitor is only
  awaited before a call begins.
* `ProfileReader`: weak fairness of the one thread that reads.
* `AgentLifecycle`, `ProfileReport` and `MethodNames` have no liveness property:
  the first may crash or be bounded anywhere, the other two are sequences of
  steps that wait for nothing but, in `MethodNames`, the JVM.

## 4. Where the code and its comments differ

Each has a run of its own with one property, which TLC finds violated.

* `handlers_done`: "DisableHandler waits for the currently running callback to
  complete and guarantees no future invocations" (`java_profiler.cc:208`). It does
  not wait: a handler on another thread runs on while `collector_.Stop` frees the
  table. Nor does it guarantee the second half once the VM's `Stop` meets a
  `Start` of a Java thread: it takes the handler away before `Start` registers
  it, and then a handler may begin while the table is freed. (The run stops at
  the shorter case, the first.)
* `add_alone`: "`Add` may be called from asynchronous signals, but is not
  re-entrant" (`profiledata.h:60`). Two threads can be in the handler at once, since
  `SIGPROF` is blocked only on the thread that is in it.
* `never_killed`: "Disables receiving SIGPROF interrupt" (`java_profiler.cc:126`).
  With the default action in place and the timer still armed, or a signal still
  pending, the next `SIGPROF` ends the process.
* `depth_positive`: "depth must be > 0" (`profiledata.h:126`). The handler returns
  only for negative frame counts; a trace without frames reaches `Add`.
* `cascade`: "Every JVMTI interface returns an error code, which should be checked
  to avoid any cascading errors" (`agent.cpp:49`). After an error of
  `GetClassMethods`, `OnClassPrepare` goes on to `Deallocate` a pointer that was
  never set.

So the collector's contract, on which sections 2 and 5 rest, is kept by the
profiler as far as `serial` says: a control call meets no other one, and no `Add`
but in a handler that `DisableHandler` did not wait for. Two `Add`s may meet
(`add_alone`), and after a call of the VM has met another call nothing is promised:
without the condition `~overlap` each of the five properties of `serial` has a
counterexample of one Java thread and the VM. `ProfileData` says what the collector
does under its contract; it says nothing of a collector in which two calls overlap.

Smaller ones, without a run: the
"Unknown methodid" of `getMethodName` needs `getMethodInfo0` to return null, and
without memory for its array that throws instead, so methods that the JVM does
not know have an empty name, which the report skips (`seen.add("")`): their time is
shown as their caller's; `OnClassPrepare` is to "make sure that all of the
methodIDs have been initialized" (`agent.cpp:146`), and the JVM sends its event from
the start phase on, so that classes prepared before, which nobody asks for later,
keep null ids (they are the exception `unprimed` of `Primed`);
`java_profiler.cc:140` says that profiling is
"activated if getenv("CPUPROFILE") exists", and the constructor is empty; the
legend of the graph prints `nodeLimit` for the dropped edges
(`DotGraph.java:144`); the order of the nodes is given as "`|| $a cmp $b`"
(`DotGraph.java:48`), and the Java sort has no second key, so that equal counts at
the cut are decided by the order of a `HashMap`; an edge is kept "if needed for
reachability" (`DotGraph.java:292`) when it is the first into its node, so two
methods that call each other may keep only the edges between them.

## 5. Proofs

TLAPS checks all of these with no gap. They hold for every value of the constants
that satisfies the assumptions in the modules.

**ProfileData** (assumptions: the buffer has room for the header and for one
entry, which the code asserts; a hash in range; `Traces` are sequences of slots).
The inductive invariant adds to `TypeOK`, `TableOK`, `BufferInBounds` and
`StreamOK` what a phase says of the session and the stream (`PhaseOK`): a session
that is open has written or buffered its header, one that is closed has an empty
buffer, the file of a crashed one ends in no marker, and in phase "closing" the
sweep is over and the last record of the buffer is the marker. Without it
`StreamOK` is not inductive: a sweep in a state with a stored marker would put a
sample behind it. Proved:
`TypeCorrect`, `TableCorrect`, `NoOverflow`, `StreamCorrect`.

`Refinement` proves `Spec => RefinesSampleLog`: the initial state maps to the
initial state and every step to the step of `SampleLog`, or to a stutter. The main
lemma (`Moved`) is about a record that leaves the table for the buffer: the tally
of its stack grows by what `InTable` loses, because a stack is in the table at
most once (`TableOK`). `CallsRefine` proves `CallsAsPromised` from the same
lemmas.

`BufferMatches` and `CountMatches` are proved as `BufferCounted` and
`SamplesCounted`. A sum over records or stacks is the size of a set of pairs
(`Total` of `Counting`), so that it is the library's theorems about `Cardinality`
that add to it, and its finiteness, which has to be proved as well (there may be
infinitely many stacks), is a part of the invariant.

**CountingTheorems** is what the proofs about data rest on. The library states
induction for an operator `P(_)`, which the provers cannot instantiate; here it
is stated for a set, the set of the cases that hold (`SetInduction` over the
numbers, from the least element of a set; `FiniteInduction` over finite sets).
From these come `LoopHistory`, which says that a loop has a value after each of its
turns, and so what a recursive function such as `Path`, `Contents` or `Values`
is; and the laws of `Total`: `TotalAdd`, `TotalMonotone`, `TotalSum`, and
`TotalSwap`, that the rows of a table add up to what its columns do.

**JavaProfiler** (for any sets of threads; signals may come to all of them). The
invariant has two parts that hold whatever the VM does: a Java thread in a call has the
monitor (`MonitorOK`), and a handler that was not caught by `DisableHandler` is
still installed (`HandlerOK`). The rest is about the time until a call of the VM
has met another (`~overlap`): one call at a time (`SerialOK`); what `enabled`,
`action`, `armed` and `hash` are at each place of it (`PlaceOK`); `SignalsOK`; and
that an enabled collector has its table until it is about to be closed
(`TableKept`). `HandlerOK` and `PlaceOK` meet in `ContractButCaught`: inside the
collector's `Start`, `Stop` and `FlushTable` the handler is not installed, so
whoever is in it was there before. `TableButCaught` adds that the bucket such a
handler has taken is one of the table that is there: the table changes only where
no handler is installed. Proved: `OneCallAtATime`, `NoStraySignals`,
`TimerHandled`, `ContractButCaught`, `TableButCaught`.

**AgentLifecycle** (assumption: `ProfilePath` is a path and `NoPath` is not).
The invariant adds to the properties that an unfinished file of this process is that
of the open session, what each agent has left undone before the other has run,
that the hook is not in the middle of its work before the shutdown, and that
the profile file is of this process once both agents are up, unless it could not
be opened; while the hook reads, the file is the one it has opened, unless the
application has taken it. Proved: `SavedCorrect`, `FreshCorrect`, `WholeCorrect`,
`StartCorrect` (an action property).

**MethodNames** (assumption: the tables are sequences of entries in the order of
their starts, as `javac` writes them). `IInv` has a part for each property, and a
part for what lies between. `PrimedInv`: once the agent is loaded it gets events,
and a class whose callback is over has ids, unless something has failed. `HeapInv`:
what is held is the strings or the table of the query under way, by the step it is
at, and the tables of queries that ended in an OutOfMemoryError. `NamedInv`: what
a query for a frame that can be named has got so far. `LineInv`: before the search
there is no line, and `LineRight` after it. `NamedCorrect` needs `PrimedInv`: a
frame with a null id has no name. Proved: `TypeCorrect`, `PrimedCorrect`,
`NamedCorrect`, `AllGivenBack`, `LineCorrect`.

**ProfileReader** (assumptions: an int is shorter than a long, and the samples of a
session have counts, depths and line numbers that are ints and method ids that
fit a slot). `LocationsCorrect` needs nothing of what is in the file: its invariant
adds to `LocationsDistinct` that the virtual PCs of the sample that is being read
stand for locations. The others are about every cut of every profile. First, what a
number goes through: `ValuesGrow` (more bytes have more values), `ToIntBack` (an int
comes back from a slot and a cast with its sign), `BackUnsigned` (so does a
pointer). Then where things are: `ContentsPrefix` (what is in the file after a
sample stays there) and `WrittenLayout` (header, every sample behind the ones
before it, marker). The invariant `ReaderInv` says that either a slot has been read that
the file does not have, which is then not the file of a whole profile (`Cut`), or
the reader is where sample `Done + 1` begins, or in its middle, and has the ones
before it as they were taken (`Whole`). `Cut` is kept since a slot at the end is
negative and so never the 1 of the marker. Proved: `ReaderTyped`,
`AcceptedCorrect`, `FailuresCorrect`.

**ProfileReport** (assumptions: finitely many locations and names, observations
with a count that is not negative and a stack that is not empty, since the
collector counts up from 1 and keeps no trace without frames, and limits that are
numbers). `ReportInv` adds to the types that each table is, from
the stage that fills it on, the sum over the observations that the code was to build
(`TablesOK`). `PathFacts` is what `getReduced` makes of a stack: names of the stack only,
none twice, and the name of the top frame first if it has one. With it a name is counted at
most once for an observation, so `CountedOnce` compares sums term by term;
`ReportsCorrect` and `SamplesConserved` exchange the sum over observations with that
over locations or names (`TotalSwap`): a path with a name on it has that name on top,
or one call out of it. `NodesCorrect` is the choice of `SelectNodes`.
`DegreesCorrect` and `CallerCorrect` are about the edges, for any limits: the
degrees are the numbers of printed edges (`DegreesOK`), and a method either has all the
edges into it still to come, or one of the most frequent of them printed
(`CallersOK`); the second holds because edges are taken by descending count and the
first into a method is always kept.

Every invariant and action property that a passing run checks is proved, and so is
the refinement. Only model-checked: the liveness properties (`StopReturns`,
`CallsReturn`, `ReadEnds`), which are beyond the prover.

## 6. Not modelled

* The contents of a trace and what `AsyncGetCallTrace` does; only that it is an
  error, empty, or has frames. When `AttachCurrentThread` fails, the handler goes
  on with an `env` that was never set (`java_profiler.cc:321`), and what
  `AsyncGetCallTrace` makes of that is outside of the code; so is what `printf` and
  `AttachCurrentThread`, which are not safe in a signal handler, do to the thread
  they interrupt.
* What two overlapping calls of `Add`, or an `Add` in a freed table, do to the
  slots. It is undefined behaviour, of which no property is left; the findings say
  how it comes about.
* `evictions_` and `total_bytes_`, printed messages, and the text of the reports.
* The rounding of the two limits of the graph, `(int)` of a float product
  (`DotGraph.java:39`, `41`): `NodeLimit` and `EdgeLimit` are divisions, which is the
  same for totals below 10,000,000, or more than two days of CPU time. No property
  depends on it.
* `GetCurrentState`, which nothing calls, is only `count_` (`samples_gathered`).
* Counts of 2^31 samples in one record, which the reader cuts to 32 bits.
* The cache of `isProfilerPresent`, which is the same whoever fills it; `Main`,
  which calls the reader and the report in the order of `ProfileReport`.
* `Start` and `Stop` are atomic in `AgentLifecycle`, and `Add` is in `ProfileData`;
  overlaps are in `JavaProfiler` only.
* `config.h`, the build and the example program.
* In `MethodNames`, one method stands for the methods of a class, and the ids of
  an unloaded class are always recognised as such by the JVM. HotSpot promises this
  only as far as JVMTI does.
