---------------------------- MODULE JavaProfiler ----------------------------
(***************************************************************************)
(* The profiler, class JavaProfiler of java_profiler.cc: threads that call *)
(* Start, Stop and FlushTable, the SIGPROF handler that the interval timer *)
(* makes run on top of any of them, and the collector (module ProfileData) *)
(* that both sides use without a lock: the lock of the original is         *)
(* commented out.                                                          *)
(*                                                                         *)
(* Of the collector only what the two sides can disturb is kept: whether   *)
(* it is enabled, and which table hash_ points to.  Each call of it takes  *)
(* several steps.                                                          *)
(*                                                                         *)
(* SIGPROF is sent to the process, the kernel picks the thread.  While a   *)
(* thread is in the handler it has SIGPROF blocked, and what it was doing  *)
(* waits; the other threads run on.                                        *)
(***************************************************************************)
EXTENDS Naturals

CONSTANTS
  Threads,      \* the threads of the JVM
  VmThreads,    \* those on which the VM itself calls Start, and then Stop
  NoThread,
  Calls,        \* the calls that are made: nobody calls FlushTable yet
  MaxSessions   \* bound on the sessions of one process

ASSUME ThreadAssumption ==
  /\ VmThreads \subseteq Threads
  /\ NoThread \notin Threads
  /\ Calls \subseteq {"start", "stop", "flush"}
  /\ MaxSessions \in Nat

VARIABLES
  process,   \* "alive", "killed" by SIGPROF, or "aborted" by RAW_CHECK
  enabled,   \* collector_.enabled()
  hash,      \* collector_.hash_: the number of the table, 0 when there is none
  sessions,  \* how many tables there have been
  action,    \* what SIGPROF does: "default" or "prof_handler"
  armed,     \* does the interval timer run?
  pending,   \* a SIGPROF waits for a thread to take it
  monitor,   \* the thread that holds the monitor of Profiler.profiler
  op,        \* the call a thread is in, "none" outside
  pc,        \* where in it the thread is
  sig,       \* where in the handler the thread is, "none" outside
  bucket,    \* the table that its Add works on, 0 when none
  \* to state the properties:
  caught,    \* the threads that were in the handler when it was taken away
  overlap    \* has a call of the VM run beside another call?

collector == <<enabled, hash, sessions>>
signals   == <<action, armed, pending>>
vars == <<process, collector, signals, monitor, op, pc, sig, bucket, caught,
          overlap>>

\* "idle" and "up" are outside of the calls: a thread of the VM is "up" when
\* onJvmStart has begun.
Places  == {"idle", "up", "check", "open", "opening", "opened", "register",
            "arm", "unregister", "disarm", "collect", "draining", "closing"}
Handler == {"none", "entered", "add", "addEmpty", "adding", "updating"}

Init ==
  /\ process = "alive"
  /\ enabled = FALSE
  /\ hash = 0
  /\ sessions = 0
  /\ action = "default"
  /\ armed = FALSE
  /\ pending = FALSE
  /\ monitor = NoThread
  /\ op = [t \in Threads |-> "none"]
  /\ pc = [t \in Threads |-> "idle"]
  /\ sig = [t \in Threads |-> "none"]
  /\ bucket = [t \in Threads |-> 0]
  /\ caught = {}
  /\ overlap = FALSE

-----------------------------------------------------------------------------
(* Start, Stop and FlushTable.  A thread goes on with its call when it is  *)
(* not in the handler.                                                     *)

Runs(t) == process = "alive" /\ sig[t] = "none"

At(t, p) == Runs(t) /\ pc[t] = p

GoTo(t, p) == pc' = [pc EXCEPT ![t] = p]

\* The call returns, and the monitor is given back if the thread has it.
Return(t) ==
  /\ GoTo(t, IF t \in VmThreads THEN "up" ELSE "idle")
  /\ op' = [op EXCEPT ![t] = "none"]
  /\ monitor' = IF monitor = t THEN NoThread ELSE monitor

Stay == UNCHANGED <<op, monitor>>

InCall(t) == pc[t] \notin {"idle", "up"}

jvmStarted == \A v \in VmThreads : pc[v] # "idle"

\* onJvmStart when nobody has given it a path.
VmStartsNothing(t) ==
  /\ t \in VmThreads
  /\ At(t, "idle")
  /\ GoTo(t, "up")
  /\ UNCHANGED <<process, collector, signals, monitor, op, sig, bucket, caught,
                 overlap>>

\* onJvmStart and onJvmStop, and the destructor at exit, take no monitor.
VmMay(t, o) ==
  /\ t \in VmThreads
  /\ \/ o = "start" /\ At(t, "idle")
     \/ o = "stop" /\ At(t, "up")
  /\ UNCHANGED monitor

\* A faulty variant: Java threads do not wait for the monitor.
AcquiredAlways(t) == monitor' = t

Acquired(t) == monitor = NoThread /\ monitor' = t

\* Java threads call through Profiler, inside synchronized(profiler).  Before
\* onJvmStart, startProfiling only keeps the path.
JavaMay(t, o) ==
  /\ t \notin VmThreads
  /\ At(t, "idle")
  /\ o = "start" => jvmStarted
  /\ Acquired(t)

Call(t, o) ==
  /\ VmMay(t, o) \/ JavaMay(t, o)
  /\ o = "start" => sessions < MaxSessions
  /\ op' = [op EXCEPT ![t] = o]
  /\ GoTo(t, "check")
  /\ overlap' = (overlap \/ \E u \in Threads \ {t} :
                               InCall(u) /\ {t, u} \cap VmThreads # {})
  /\ UNCHANGED <<process, collector, signals, sig, bucket, caught>>

\* A faulty variant: FlushTable does not call DisableHandler.
WorkFlushAlone(o) ==
  CASE o = "start" -> "open" [] o = "stop" -> "unregister" [] o = "flush" -> "collect"

Work(o) == IF o = "start" THEN "open" ELSE "unregister"

\* The test of collector_.enabled() with which each call begins.
Check(t) ==
  /\ At(t, "check")
  /\ \/ enabled = (op[t] = "start") /\ Return(t)
     \/ enabled # (op[t] = "start")
        /\ GoTo(t, Work(op[t]))
        /\ Stay
  /\ UNCHANGED <<process, collector, signals, sig, bucket, caught, overlap>>

\* collector_.Start, which tests enabled() again and may fail to open the file.
OpenCollector(t) ==
  /\ At(t, "open")
  /\ \/ Return(t)
     \/ ~enabled /\ GoTo(t, "opening") /\ Stay
  /\ UNCHANGED <<process, collector, signals, sig, bucket, caught, overlap>>

\* A faulty variant: there is no table.
NewTableNone == hash

NewTable == sessions + 1

\* The table is there before out_, which is what enabled() tests.
Allocate(t) ==
  /\ At(t, "opening")
  /\ sessions' = sessions + 1
  /\ hash' = NewTable
  /\ GoTo(t, "opened")
  /\ Stay
  /\ UNCHANGED <<process, enabled, signals, sig, bucket, caught, overlap>>

Opened(t) ==
  /\ At(t, "opened")
  /\ enabled' = TRUE
  /\ GoTo(t, "register")
  /\ Stay
  /\ UNCHANGED <<process, hash, sessions, signals, sig, bucket, caught, overlap>>

\* A faulty variant: the action of SIGPROF stays as it is.
Kept == action

Handled == "prof_handler"

\* sa_handler = SIG_IGN is overwritten by sa_sigaction = 0, the other member
\* of the same union, and 0 is SIG_DFL.
Unhandled == "default"

\* EnableHandler: first the handler, then the timer.
Register(t) ==
  /\ At(t, "register")
  /\ action' = Handled
  /\ GoTo(t, "arm")
  /\ Stay
  /\ UNCHANGED <<process, collector, armed, pending, sig, bucket,
                 caught, overlap>>

Arm(t) ==
  /\ At(t, "arm")
  /\ armed' = TRUE
  /\ Return(t)
  /\ UNCHANGED <<process, collector, action, pending, sig, bucket,
                 caught, overlap>>

\* DisableHandler: first the handler, then the timer.
Unregister(t) ==
  /\ At(t, "unregister")
  /\ action' = Unhandled
  /\ caught' = {u \in Threads : sig[u] # "none"}
  /\ GoTo(t, "disarm")
  /\ Stay
  /\ UNCHANGED <<process, collector, armed, pending, sig, bucket, overlap>>

Disarm(t) ==
  /\ At(t, "disarm")
  /\ armed' = FALSE
  /\ GoTo(t, "collect")
  /\ Stay
  /\ UNCHANGED <<process, collector, action, pending, sig, bucket,
                 caught, overlap>>

\* A faulty variant: a call that has been overtaken waits for a session.
CollectWaits(t) ==
  /\ At(t, "collect")
  /\ enabled
  /\ GoTo(t, "draining")
  /\ Stay
  /\ UNCHANGED <<process, collector, signals, sig, bucket, caught, overlap>>

\* collector_.Stop or FlushTable, which test enabled() again.
Collect(t) ==
  /\ At(t, "collect")
  /\ \/ enabled /\ GoTo(t, "draining") /\ Stay
     \/ ~enabled /\ op[t] = "stop" /\ Return(t)
     \/ ~enabled /\ op[t] = "flush" /\ GoTo(t, "register") /\ Stay
  /\ UNCHANGED <<process, collector, signals, sig, bucket, caught, overlap>>

FlushDone(t) ==
  /\ At(t, "draining")
  /\ op[t] = "flush"
  /\ GoTo(t, "register")
  /\ Stay
  /\ UNCHANGED <<process, collector, signals, sig, bucket, caught, overlap>>

\* Reset frees the table first and closes the collector last.
FreeTable(t) ==
  /\ At(t, "draining")
  /\ op[t] = "stop"
  /\ hash' = 0
  /\ GoTo(t, "closing")
  /\ Stay
  /\ UNCHANGED <<process, enabled, sessions, signals, sig, bucket, caught, overlap>>

Close(t) ==
  /\ At(t, "closing")
  /\ enabled' = FALSE
  /\ Return(t)
  /\ UNCHANGED <<process, hash, sessions, signals, sig, bucket, caught, overlap>>

Control(t) ==
  \/ Check(t) \/ OpenCollector(t) \/ Allocate(t) \/ Opened(t)
  \/ Register(t) \/ Arm(t) \/ Unregister(t) \/ Disarm(t)
  \/ Collect(t) \/ FlushDone(t) \/ FreeTable(t) \/ Close(t)

-----------------------------------------------------------------------------
(* The timer, the signal and prof_handler.                                 *)

\* A SIGPROF that comes while one is pending is lost.
Expire ==
  /\ process = "alive"
  /\ armed
  /\ ~pending
  /\ pending' = TRUE
  /\ UNCHANGED <<process, collector, action, armed, monitor, op, pc, sig,
                 bucket, caught, overlap>>

Deliver(t) ==
  /\ Runs(t)
  /\ pending
  /\ action = "prof_handler"
  /\ pending' = FALSE
  /\ sig' = [sig EXCEPT ![t] = "entered"]
  /\ UNCHANGED <<process, collector, action, armed, monitor, op, pc, bucket,
                 caught, overlap>>

\* The default action of SIGPROF is to end the process.
Kill ==
  /\ \E t \in Threads : Runs(t)
  /\ pending
  /\ action = "default"
  /\ process' = "killed"
  /\ UNCHANGED <<collector, signals, monitor, op, pc, sig, bucket, caught, overlap>>

InHandler(t, h) == process = "alive" /\ sig[t] = h

SigTo(t, h) ==
  /\ sig' = [sig EXCEPT ![t] = h]
  /\ caught' = IF h = "none" THEN caught \ {t} ELSE caught

\* AsyncGetCallTrace gives an error, an empty trace or a trace.
Traced(t) ==
  /\ InHandler(t, "entered")
  /\ \E h \in {"none", "addEmpty", "add"} : SigTo(t, h)
  /\ UNCHANGED <<process, collector, signals, monitor, op, pc, bucket, overlap>>

\* Add tests enabled(), then that the depth is positive ...
AddCheck(t) ==
  /\ \E h \in {"add", "addEmpty"} : InHandler(t, h)
  /\ \/ ~enabled /\ SigTo(t, "none") /\ UNCHANGED process
     \/ enabled /\ sig[t] = "add" /\ SigTo(t, "adding") /\ UNCHANGED process
     \/ enabled /\ sig[t] = "addEmpty" /\ process' = "aborted"
                /\ UNCHANGED <<sig, caught>>
  /\ UNCHANGED <<collector, signals, monitor, op, pc, bucket, overlap>>

\* ... takes the bucket of the stack from hash_ ...
AddLookup(t) ==
  /\ InHandler(t, "adding")
  /\ bucket' = [bucket EXCEPT ![t] = hash]
  /\ SigTo(t, "updating")
  /\ UNCHANGED <<process, collector, signals, monitor, op, pc, overlap>>

\* ... and updates its entries and the eviction buffer.
AddUpdate(t) ==
  /\ InHandler(t, "updating")
  /\ bucket' = [bucket EXCEPT ![t] = 0]
  /\ SigTo(t, "none")
  /\ UNCHANGED <<process, collector, signals, monitor, op, pc, overlap>>

Handle(t) == Traced(t) \/ AddCheck(t) \/ AddLookup(t) \/ AddUpdate(t)

-----------------------------------------------------------------------------

\* A write of Evict or FlushEvicted fails, or finds that an overlapping call
\* has freed what it works on.
Abort(t) ==
  /\ process = "alive"
  /\ \/ sig[t] = "none" /\ pc[t] = "draining"
     \/ sig[t] = "updating"
  /\ process' = "aborted"
  /\ UNCHANGED <<collector, signals, monitor, op, pc, sig, bucket, caught, overlap>>

Next ==
  \/ \E t \in Threads : \/ VmStartsNothing(t)
                        \/ \E o \in Calls : Call(t, o)
                        \/ Control(t)
                        \/ Deliver(t)
                        \/ Handle(t)
                        \/ Abort(t)
  \/ Expire
  \/ Kill

\* A handler runs to its end.  A call goes on in the time the signals leave
\* it: the timer of 50 Hz interrupts it again and again, but not for ever.
Fairness == \A t \in Threads : WF_vars(Handle(t)) /\ SF_vars(Control(t))

SafetySpec == Init /\ [][Next]_vars

Spec == SafetySpec /\ Fairness

-----------------------------------------------------------------------------
(* Properties.                                                             *)

TypeOK ==
  /\ process \in {"alive", "killed", "aborted"}
  /\ enabled \in BOOLEAN
  /\ sessions \in Nat
  /\ hash \in 0 .. sessions
  /\ action \in {"default", "prof_handler"}
  /\ armed \in BOOLEAN
  /\ pending \in BOOLEAN
  /\ monitor \in Threads \cup {NoThread}
  /\ op \in [Threads -> Calls \cup {"none"}]
  /\ pc \in [Threads -> Places]
  /\ sig \in [Threads -> Handler]
  /\ bucket \in [Threads -> 0 .. sessions]
  /\ caught \in SUBSET Threads
  /\ overlap \in BOOLEAN

\* The threads inside the collector: in Start, Stop or FlushTable, and in Add.
ControlCalls ==
  {t \in Threads : pc[t] \in {"opening", "opened", "draining", "closing"}}
AddCalls == {t \in Threads : sig[t] \in {"add", "addEmpty", "adding", "updating"}}

ControlAlone == \A t, u \in ControlCalls : t = u
AddAlone     == \A t, u \in AddCalls : t = u

\* No two of Start, Stop and FlushTable are in the collector together, as its
\* contract asks (profiledata.h): the monitor keeps the calls through Profiler
\* apart, signals or not.  A call of the VM takes no monitor; the claim is
\* about the time until one has met another call.
ControlSerial == ~overlap => ControlAlone

\* "Code other than signal handler must unregister the signal handler before
\* calling any collector_ method" (java_profiler.cc): a control call in the
\* collector meets Add only on threads that were in the handler already when
\* it was unregistered.  No thread begins a handler, on top of the call or
\* beside it, that gets there.
AddApart == ~overlap => ControlCalls = {} \/ AddCalls \subseteq caught

\* Add works on the table the collector has, and never on one that was freed,
\* but for those same handlers, however many sessions they outlive.
TableLive ==
  ~overlap =>
    \A t \in Threads \ caught :
      /\ sig[t] = "adding" => hash # 0
      /\ sig[t] = "updating" => hash # 0 /\ bucket[t] = hash

\* Outside a session there is neither a handler nor a timer: whatever the
\* order of the calls, none of them leaves the other's signals behind.
SignalsHaveSession ==
  ~overlap => (action = "prof_handler" \/ armed => enabled)

\* The timer only runs with a handler to take its signals, but for the two
\* system calls of a thread that is in DisableHandler.
ArmedHandled ==
  ~overlap =>
    (armed => action = "prof_handler" \/ \E t \in Threads : pc[t] = "disarm")

\* Every call returns, however often signals interrupt it and whether or not
\* the VM takes the session from under it, unless the process ends.
CallsReturn ==
  \A t \in Threads : InCall(t) ~> (~InCall(t) \/ process # "alive")

-----------------------------------------------------------------------------
(* What the comments of the code say.                                      *)

\* "DisableHandler waits for the currently running callback to complete and
\* guarantees no future invocations" (java_profiler.cc, Stop and FlushTable):
\* from then on, until the collector is done, no thread is in the handler.
HandlersDone ==
  \A t, u \in Threads :
    pc[t] \in {"collect", "draining", "closing"} => sig[u] = "none"

\* "Disables receiving SIGPROF interrupt" (java_profiler.cc, DisableHandler):
\* no SIGPROF ends the process.
NeverKilled == process # "killed"

\* "depth must be > 0" (profiledata.h, Add): the handler calls Add with a
\* stack that has a frame.
DepthPositive == \A t \in Threads : sig[t] # "addEmpty"
=============================================================================
