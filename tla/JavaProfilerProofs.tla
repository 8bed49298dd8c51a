------------------------- MODULE JavaProfilerProofs -------------------------
(***************************************************************************)
(* What the monitor of Profiler.profiler and the order of the calls inside *)
(* Start, Stop and FlushTable give to any number of threads that make      *)
(* calls and take signals, until a call of the VM, which takes no monitor, *)
(* has met another call.                                                   *)
(***************************************************************************)
EXTENDS JavaProfiler, TLAPS

\* A Java thread that is in a call has the monitor, whatever the VM does.
MonitorOK == \A t \in Threads \ VmThreads : InCall(t) => monitor = t

\* One call at a time.
SerialOK == \A t, u \in Threads : InCall(t) /\ InCall(u) => t = u

\* What the place a call has reached says of the collector and the signals.
PlaceOK ==
  \A t \in Threads :
    /\ pc[t] \in {"open", "opening", "opened"} => ~enabled
    /\ pc[t] \in {"register", "arm", "unregister", "disarm", "collect",
                  "draining", "closing"} => enabled
    /\ pc[t] = "arm" => action = "prof_handler"
    /\ pc[t] \in {"disarm", "collect", "draining", "closing"} =>
         action = "default"
    /\ pc[t] \in {"collect", "draining", "closing"} => ~armed
    /\ pc[t] = "opened" => hash # 0

SignalsOK ==
  /\ action = "prof_handler" \/ armed => enabled
  /\ armed => action = "prof_handler" \/ \E t \in Threads : pc[t] = "disarm"

\* A collector that is enabled has a table until it is about to be closed.
TableKept == enabled => hash # 0 \/ \E t \in Threads : pc[t] = "closing"

\* A handler that has not been caught by DisableHandler is still installed,
\* and the bucket it has taken is one of the table that is there.
HandlerOK ==
  \A t \in Threads \ caught :
    /\ sig[t] # "none" => action = "prof_handler"
    /\ sig[t] = "updating" => overlap \/ bucket[t] = hash

IInv ==
  /\ TypeOK
  /\ MonitorOK
  /\ HandlerOK
  /\ ~overlap => SerialOK /\ PlaceOK /\ SignalsOK /\ TableKept

\* The types do not depend on who takes the monitor.
THEOREM TypeInductive == TypeOK /\ [Next]_vars => TypeOK'
<1> SUFFICES ASSUME TypeOK, [Next]_vars PROVE TypeOK'
  OBVIOUS
<1> USE DEF TypeOK, collector, signals, Places, Handler
<1>1. ASSUME NEW t \in Threads, VmStartsNothing(t) \/ \E o \in Calls : Call(t, o)
      PROVE  TypeOK'
  <2>1. CASE VmStartsNothing(t)
    BY <2>1 DEF VmStartsNothing, GoTo
  <2>2. ASSUME NEW o \in Calls, Call(t, o) PROVE TypeOK'
    <3>1. monitor' \in Threads \cup {NoThread} /\ overlap' \in BOOLEAN
      BY <2>2 DEF Call, VmMay, JavaMay, Acquired
    <3> QED
      BY <2>2, <3>1 DEF Call, GoTo
  <2> QED
    BY <1>1, <2>1, <2>2
<1>2. ASSUME NEW t \in Threads, Control(t) PROVE TypeOK'
  <2> USE DEF GoTo, Stay, Return
  <2>1. CASE Check(t)
    BY <2>1 DEF Check, Work
  <2>2. CASE OpenCollector(t)
    BY <2>2 DEF OpenCollector
  <2>3. CASE Allocate(t)
    <3>1. /\ sessions' = sessions + 1 /\ hash' = sessions'
          /\ sessions' \in Nat /\ 0 .. sessions \subseteq 0 .. sessions'
      BY <2>3 DEF Allocate, NewTable
    <3>2. bucket' \in [Threads -> 0 .. sessions']
      BY <2>3, <3>1 DEF Allocate
    <3> QED
      BY <2>3, <3>1, <3>2 DEF Allocate
  <2>4. CASE Opened(t) \/ Register(t) \/ Arm(t)
    BY <2>4 DEF Opened, Register, Arm, Handled
  <2>5. CASE Unregister(t) \/ Disarm(t)
    BY <2>5 DEF Unregister, Disarm, Unhandled
  <2>6. CASE Collect(t) \/ FlushDone(t)
    BY <2>6 DEF Collect, FlushDone
  <2>7. CASE FreeTable(t)
    <3>1. hash' \in 0 .. sessions'
      BY <2>7 DEF FreeTable
    <3> QED
      BY <2>7, <3>1 DEF FreeTable
  <2>8. CASE Close(t)
    BY <2>8 DEF Close
  <2> QED
    BY <1>2, <2>1, <2>2, <2>3, <2>4, <2>5, <2>6, <2>7, <2>8
       DEF Control
<1>3. ASSUME NEW t \in Threads, Deliver(t) \/ Handle(t) PROVE TypeOK'
  <2> USE DEF SigTo
  <2>1. CASE Deliver(t)
    BY <2>1 DEF Deliver
  <2>2. CASE Traced(t)
    BY <2>2 DEF Traced
  <2>3. CASE AddCheck(t)
    BY <2>3 DEF AddCheck
  <2>4. CASE AddLookup(t)
    BY <2>4 DEF AddLookup
  <2>5. CASE AddUpdate(t)
    BY <2>5 DEF AddUpdate
  <2> QED
    BY <1>3, <2>1, <2>2, <2>3, <2>4, <2>5 DEF Handle
<1>4. CASE Expire \/ Kill \/ \E t \in Threads : Abort(t)
  BY <1>4 DEF Expire, Kill, Abort
<1>5. CASE UNCHANGED vars
  BY <1>5 DEF vars
<1> QED
  BY <1>1, <1>2, <1>3, <1>4, <1>5 DEF Next

\* The initial state has the types.
LEMMA InitType == Init => TypeOK
<1> SUFFICES ASSUME Init PROVE TypeOK
  OBVIOUS
<1> USE DEF Init
<1>1. sessions \in Nat /\ hash \in 0 .. sessions
  OBVIOUS
<1>2. bucket \in [Threads -> 0 .. sessions]
  OBVIOUS
<1>3. /\ op \in [Threads -> Calls \cup {"none"}]
      /\ pc \in [Threads -> Places]
      /\ sig \in [Threads -> Handler]
  BY DEF Places, Handler
<1> QED
  BY <1>1, <1>2, <1>3 DEF TypeOK

-----------------------------------------------------------------------------
(* The steps of a call.                                                    *)

\* A step of a call stays in it, with the monitor as it is, or leaves it.
LEMMA ControlPlaces ==
  ASSUME TypeOK, NEW t \in Threads, Control(t)
  PROVE  /\ InCall(t)
         /\ overlap' = overlap
         /\ sig[t] = "none" /\ UNCHANGED <<sig, bucket>>
         /\ \A u \in Threads : u # t => pc'[u] = pc[u]
         /\ \/ Return(t) /\ pc'[t] \in {"idle", "up"}
            \/ Stay /\ pc'[t] \notin {"idle", "up"}
<1> USE DEF TypeOK, At, Runs, GoTo, Return, InCall
<1>1. CASE Check(t)
  BY <1>1 DEF Check, Work
<1>2. CASE OpenCollector(t)
  BY <1>2 DEF OpenCollector
<1>3. CASE Allocate(t) \/ Opened(t) \/ Register(t)
  BY <1>3 DEF Allocate, Opened, Register
<1>4. CASE Arm(t) \/ Unregister(t) \/ Disarm(t)
  BY <1>4 DEF Arm, Unregister, Disarm
<1>5. CASE Collect(t)
  BY <1>5 DEF Collect
<1>6. CASE FlushDone(t) \/ FreeTable(t) \/ Close(t)
  BY <1>6 DEF FlushDone, FreeTable, Close
<1> QED
  BY <1>1, <1>2, <1>3, <1>4, <1>5, <1>6 DEF Control

\* What a call does to the handler's action: only DisableHandler takes it away,
\* and then it catches whoever is in it.
LEMMA ControlAction ==
  ASSUME TypeOK, NEW t \in Threads, Control(t)
  PROVE  \/ action' = action /\ caught' = caught
         \/ action' = "prof_handler" /\ caught' = caught
         \/ caught' = {u \in Threads : sig[u] # "none"}
<1> QED
  BY DEF Control, Check, OpenCollector, Allocate, Opened, Register, Arm,
         Unregister, Disarm, Collect, FlushDone, FreeTable, Close, signals,
         Handled

\* When two calls do not overlap, each step finds the collector and the
\* signals as its own call has left them.
LEMMA ControlStep ==
  ASSUME IInv, ~overlap, NEW t \in Threads, Control(t)
  PROVE  SerialOK' /\ PlaceOK' /\ SignalsOK' /\ TableKept'
<1> USE DEF IInv, TypeOK, collector, signals
<1>1. /\ InCall(t) /\ \A u \in Threads : u # t => pc'[u] = pc[u]
      /\ \A u \in Threads : u # t => ~InCall(u)
  BY ControlPlaces DEF SerialOK
<1>2. SerialOK'
  BY <1>1 DEF SerialOK, InCall
<1>3. PlaceOK' /\ SignalsOK' /\ TableKept'
  <2> SUFFICES /\ pc'[t] \in {"open", "opening", "opened"} => ~enabled'
               /\ pc'[t] \in {"register", "arm", "unregister", "disarm",
                              "collect", "draining", "closing"} => enabled'
               /\ pc'[t] = "arm" => action' = "prof_handler"
               /\ pc'[t] \in {"disarm", "collect", "draining", "closing"} =>
                    action' = "default"
               /\ pc'[t] \in {"collect", "draining", "closing"} => ~armed'
               /\ pc'[t] = "opened" => hash' # 0
               /\ action' = "prof_handler" \/ armed' => enabled'
               /\ armed' => action' = "prof_handler" \/ pc'[t] = "disarm"
               /\ enabled' => hash' # 0 \/ pc'[t] = "closing"
    BY <1>1 DEF PlaceOK, SignalsOK, TableKept, InCall
  <2>0. /\ armed => action = "prof_handler" \/ pc[t] = "disarm"
        /\ enabled => hash # 0 \/ pc[t] = "closing"
    BY <1>1 DEF SignalsOK, TableKept, InCall
  <2> USE <1>1, <2>0 DEF PlaceOK, SignalsOK, GoTo, Return, At
  <2>1. CASE Check(t)
    BY <2>1 DEF Check, Work
  <2>2. CASE OpenCollector(t)
    BY <2>2 DEF OpenCollector
  <2>3. CASE Allocate(t)
    BY <2>3 DEF Allocate, NewTable
  <2>4. CASE Opened(t)
    BY <2>4 DEF Opened
  <2>5. CASE Register(t)
    BY <2>5 DEF Register, Handled
  <2>6. CASE Arm(t)
    BY <2>6 DEF Arm
  <2>7. CASE Unregister(t)
    BY <2>7 DEF Unregister, Unhandled
  <2>8. CASE Disarm(t)
    BY <2>8 DEF Disarm
  <2>9. CASE Collect(t)
    BY <2>9 DEF Collect
  <2>10. CASE FlushDone(t)
    BY <2>10 DEF FlushDone
  <2>11. CASE FreeTable(t)
    BY <2>11 DEF FreeTable
  <2>12. CASE Close(t)
    BY <2>12 DEF Close
  <2> QED
    BY <2>1, <2>2, <2>3, <2>4, <2>5, <2>6, <2>7, <2>8, <2>9, <2>10, <2>11,
       <2>12 DEF Control
<1> QED
  BY <1>2, <1>3

\* The table only changes when no handler works that could notice.
LEMMA TableChange ==
  ASSUME IInv, ~overlap, NEW t \in Threads, Control(t), hash' # hash
  PROVE  \A u \in Threads \ caught : sig[u] = "none"
<1>1. \/ pc[t] = "opening"
      \/ pc[t] = "draining"
  BY DEF Control, Check, OpenCollector, Allocate, Opened, Register, Arm,
         Unregister, Disarm, Collect, FlushDone, FreeTable, Close, collector, At
<1>2. action # "prof_handler"
  BY <1>1 DEF IInv, PlaceOK, SignalsOK
<1> QED
  BY <1>2 DEF IInv, HandlerOK

-----------------------------------------------------------------------------
(* The invariant.                                                          *)

\* A call begins with the monitor, or sets overlap, or is alone.
LEMMA CallInvariant ==
  ASSUME IInv, NEW t \in Threads,
         VmStartsNothing(t) \/ \E o \in Calls : Call(t, o)
  PROVE  MonitorOK' /\ HandlerOK' /\ (~overlap' => SerialOK' /\ PlaceOK' /\ SignalsOK' /\ TableKept')
<1> USE DEF IInv, TypeOK, collector, signals
<1>1. /\ UNCHANGED <<enabled, hash, action, armed, sig, bucket, caught>>
      /\ overlap => overlap'
      /\ pc[t] \in {"idle", "up"}
      /\ \E p \in {"up", "check"} : pc' = [pc EXCEPT ![t] = p]
  BY DEF VmStartsNothing, Call, VmMay, JavaMay, At, GoTo
<1>2. MonitorOK'
  <2>1. CASE VmStartsNothing(t)
    BY <2>1 DEF VmStartsNothing, GoTo, MonitorOK, InCall
  <2>2. ASSUME NEW o \in Calls, Call(t, o) PROVE MonitorOK'
    <3>1. CASE t \in VmThreads
      BY <2>2, <3>1 DEF Call, VmMay, JavaMay, GoTo, MonitorOK, InCall
    <3>2. CASE t \notin VmThreads
      <4>1. monitor = NoThread /\ monitor' = t
        BY <2>2, <3>2 DEF Call, VmMay, JavaMay, Acquired
      <4> QED
        BY <1>1, <4>1, ThreadAssumption DEF MonitorOK, InCall
    <3> QED
      BY <3>1, <3>2
  <2> QED
    BY <2>1, <2>2
<1>3. HandlerOK'
  BY <1>1 DEF HandlerOK
<1>4. ASSUME ~overlap' PROVE SerialOK'
  <2>1. CASE VmStartsNothing(t)
    BY <1>1, <1>4, <2>1 DEF VmStartsNothing, GoTo, SerialOK, InCall
  <2>2. ASSUME NEW o \in Calls, Call(t, o) PROVE \A u \in Threads \ {t} : ~InCall(u)
    <3> SUFFICES ASSUME NEW u \in Threads \ {t}, InCall(u) PROVE FALSE
      OBVIOUS
    <3>1. t \notin VmThreads /\ u \notin VmThreads
      BY <1>4, <2>2 DEF Call
    <3>2. monitor = NoThread /\ monitor = u
      BY <2>2, <3>1 DEF Call, VmMay, JavaMay, Acquired, MonitorOK
    <3> QED
      BY <3>2, ThreadAssumption
  <2> QED
    BY <1>1, <2>1, <2>2 DEF SerialOK, InCall
<1>5. ASSUME ~overlap' PROVE PlaceOK' /\ SignalsOK' /\ TableKept'
  <2>1. PlaceOK'
    BY <1>1, <1>5 DEF PlaceOK
  <2>2. SignalsOK' /\ TableKept'
    BY <1>1, <1>5 DEF SignalsOK, TableKept
  <2> QED
    BY <2>1, <2>2
<1> QED
  BY <1>2, <1>3, <1>4, <1>5

\* The handler goes its way without touching what the calls rely on.
LEMMA SignalInvariant ==
  ASSUME IInv,
         \/ \E t \in Threads : Deliver(t) \/ Handle(t) \/ Abort(t)
         \/ Expire
         \/ Kill
         \/ UNCHANGED vars
  PROVE  MonitorOK' /\ HandlerOK' /\ (~overlap' => SerialOK' /\ PlaceOK' /\ SignalsOK' /\ TableKept')
<1> USE DEF IInv, TypeOK, collector, signals
<1>1. UNCHANGED <<enabled, hash, action, armed, monitor, pc, overlap>>
  BY DEF Deliver, Handle, Traced, AddCheck, AddLookup, AddUpdate, Abort, Expire,
         Kill, vars
<1>2. MonitorOK' /\ (overlap \/ SerialOK')
  BY <1>1 DEF MonitorOK, SerialOK, InCall
<1>3. overlap \/ (PlaceOK' /\ SignalsOK' /\ TableKept')
  BY <1>1 DEF PlaceOK, SignalsOK, TableKept
<1>4. HandlerOK'
  <2>1. ASSUME NEW t \in Threads, Deliver(t) PROVE HandlerOK'
    BY <2>1 DEF Deliver, HandlerOK
  <2>2. ASSUME NEW t \in Threads, Handle(t) PROVE HandlerOK'
    <3> USE DEF HandlerOK, SigTo, InHandler
    <3>1. CASE Traced(t)
      BY <3>1 DEF Traced
    <3>2. CASE AddCheck(t)
      BY <3>2 DEF AddCheck
    <3>3. CASE AddLookup(t)
      BY <3>3 DEF AddLookup
    <3>4. CASE AddUpdate(t)
      BY <3>4 DEF AddUpdate
    <3> QED
      BY <2>2, <3>1, <3>2, <3>3, <3>4 DEF Handle
  <2>3. CASE Expire \/ Kill \/ UNCHANGED vars \/ \E t \in Threads : Abort(t)
    BY <2>3 DEF Expire, Kill, Abort, vars, HandlerOK
  <2> QED
    BY <2>1, <2>2, <2>3
<1> QED
  BY <1>1, <1>2, <1>3, <1>4

\* The steps of a call preserve it too.
LEMMA ControlInvariant ==
  ASSUME IInv, NEW t \in Threads, Control(t)
  PROVE  MonitorOK' /\ HandlerOK' /\ (~overlap' => SerialOK' /\ PlaceOK' /\ SignalsOK' /\ TableKept')
<1> USE DEF IInv, TypeOK
<1>1. /\ InCall(t) /\ overlap' = overlap
      /\ sig[t] = "none" /\ UNCHANGED <<sig, bucket>>
      /\ \A u \in Threads : u # t => pc'[u] = pc[u]
      /\ \/ Return(t) /\ pc'[t] \in {"idle", "up"}
         \/ Stay /\ pc'[t] \notin {"idle", "up"}
  BY ControlPlaces
<1>2. MonitorOK'
  <2> SUFFICES ASSUME NEW u \in Threads \ VmThreads, InCall(u)' PROVE monitor' = u
    BY DEF MonitorOK
  <2>1. InCall(u) /\ monitor = u
    BY <1>1 DEF InCall, MonitorOK
  <2>2. CASE u = t
    BY <1>1, <2>1, <2>2 DEF InCall, Stay
  <2>3. CASE u # t
    BY <1>1, <2>1, <2>3 DEF Return, Stay
  <2> QED
    BY <2>2, <2>3
<1>3. HandlerOK'
  <2> SUFFICES ASSUME NEW u \in Threads, u \notin caught'
               PROVE  /\ sig[u] # "none" => action' = "prof_handler"
                      /\ sig[u] = "updating" => overlap \/ bucket[u] = hash'
    BY <1>1 DEF HandlerOK
  <2>1. CASE caught' = {w \in Threads : sig[w] # "none"}
    BY <2>1
  <2>2. CASE caught' = caught /\ (action' = action \/ action' = "prof_handler")
    BY <2>2, TableChange DEF HandlerOK
  <2> QED
    BY <2>1, <2>2, ControlAction
<1> QED
  BY <1>1, <1>2, <1>3, ControlStep

\* Every step of every thread, the timer and the kernel preserves it.
THEOREM Inductive == IInv /\ [Next]_vars => IInv'
<1> SUFFICES ASSUME IInv, [Next]_vars PROVE IInv'
  OBVIOUS
<1>1. TypeOK'
  BY TypeInductive DEF IInv
<1>2. MonitorOK' /\ HandlerOK' /\ (~overlap' => SerialOK' /\ PlaceOK' /\ SignalsOK' /\ TableKept')
  BY CallInvariant, ControlInvariant, SignalInvariant DEF Next
<1> QED
  BY <1>1, <1>2 DEF IInv

\* The invariant holds in every state, for any threads of Java and of the VM.
THEOREM Invariance == Spec => []IInv
<1>1. Init => IInv
  BY InitType DEF Init, IInv, MonitorOK, SerialOK, PlaceOK, SignalsOK, TableKept,
                  HandlerOK, InCall
<1> QED
  BY <1>1, Inductive, PTL DEF Spec, SafetySpec

\* No two of Start, Stop and FlushTable are in the collector together, whatever
\* the signals do, until a call of the VM has met another.
THEOREM OneCallAtATime == Spec => []ControlSerial
<1>1. IInv => ControlSerial
  BY DEF IInv, SerialOK, InCall, ControlCalls, ControlAlone, ControlSerial
<1> QED
  BY <1>1, Invariance, PTL

\* Until then neither the handler nor the timer is left behind by a session
\* that has ended.
THEOREM NoStraySignals == Spec => []SignalsHaveSession
<1>1. IInv => SignalsHaveSession
  BY DEF IInv, SignalsOK, SignalsHaveSession
<1> QED
  BY <1>1, Invariance, PTL

\* Until then the timer runs without a handler only between the two system
\* calls of DisableHandler.
THEOREM TimerHandled == Spec => []ArmedHandled
<1>1. IInv => ArmedHandled
  BY DEF IInv, SignalsOK, ArmedHandled
<1> QED
  BY <1>1, Invariance, PTL

\* On however many threads the signals come: a control call meets in the
\* collector no handler but those that DisableHandler did not wait for.
THEOREM ContractButCaught == Spec => []AddApart
<1>1. IInv => AddApart
  BY DEF IInv, HandlerOK, PlaceOK, SignalsOK, AddApart, ControlCalls, AddCalls
<1> QED
  BY <1>1, Invariance, PTL

\* No handler but those works on a table that has been freed, or on that of a
\* session that is over.
THEOREM TableButCaught == Spec => []TableLive
<1>1. IInv => TableLive
  BY DEF IInv, HandlerOK, PlaceOK, SignalsOK, TableKept, TableLive
<1> QED
  BY <1>1, Invariance, PTL
=============================================================================
