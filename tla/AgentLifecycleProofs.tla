------------------------ MODULE AgentLifecycleProofs ------------------------
(***************************************************************************)
(* Proofs about module AgentLifecycle, for any set of paths and any number *)
(* of processes and calls.                                                 *)
(***************************************************************************)
EXTENDS AgentLifecycle, TLAPS

\* The file of p was written by this process.
Ours(p) == file[p].session > first

\* There is no session in a process that has not begun, or is over.
SessionInv ==
  /\ jvm \in {"off", "exited"} => session = NoPath
  /\ jvm = "loaded" /\ ~jvmStarted => session = NoPath
  /\ jvm = "loaded" /\ ~premain => session = NoPath /\ profilePath = NoPath

\* The only unfinished profile of this process is that of the open session.
UnfinishedInv ==
  jvm # "off" => \A p \in Paths : Ours(p) /\ file[p].content # "whole" => session = p

\* How the agents come up: both run before the application does, and what
\* the first leaves undone the second does.
StartInv ==
  /\ jvm \notin {"off", "loaded"} => premain /\ (native => jvmStarted)
  /\ hook # "none" => native
  /\ jvm \in {"loaded", "running"} => hook \in {"none", "installed"}
  /\ jvm = "loaded" /\ native /\ premain /\ ~jvmStarted => profilePath = ProfilePath
  /\ jvm = "loaded" /\ native /\ premain /\ jvmStarted =>
       openFailed \/ session = ProfilePath

\* From then on the profile file is of this process, and between its steps
\* the hook leaves it whole.
FileInv ==
  /\ jvm # "off" /\ native /\ premain /\ jvmStarted => openFailed \/ Ours(ProfilePath)
  /\ jvm = "hooks" /\ hook \in {"stopped", "reading"} =>
       openFailed \/ restarted \/ file[ProfilePath].content = "whole"
  /\ jvm = "hooks" /\ hook = "reading" =>
       /\ openFailed \/ opened.session > first
       /\ openFailed \/ restarted \/ opened = file[ProfilePath]

IInv == /\ TypeOK /\ SessionInv /\ UnfinishedInv /\ StartInv /\ FileInv
        /\ ReportFresh /\ ReportWhole

-----------------------------------------------------------------------------
(* What Start and Stop do to the disk.                                     *)

\* Start adds a session, whose file is unfinished, and leaves the other files.
LEMMA OpensDisk ==
  ASSUME TypeOK, NEW p \in Paths, Opens(p)
  PROVE  /\ sessions' = sessions + 1 /\ sessions' \in Nat
         /\ session' = p /\ session = NoPath
         /\ file' \in [Paths -> [session : 0 .. sessions', content : {"none", "partial", "whole"}]]
         /\ file'[p].session = sessions' /\ file'[p].content = "partial"
         /\ \A q \in Paths \ {p} : file'[q] = file[q]
<1>1. sessions \in Nat /\ sessions' = sessions + 1
  BY DEF TypeOK, Opens, Truncated
<1>2. [session |-> sessions', content |-> "partial"] \in [session : 0 .. sessions', content : {"none", "partial", "whole"}]
  BY <1>1
<1>3. file \in [Paths -> [session : 0 .. sessions', content : {"none", "partial", "whole"}]]
  BY <1>1 DEF TypeOK
<1> QED
  BY <1>1, <1>2, <1>3 DEF Opens, Truncated

\* Stop makes the file of the session whole and leaves the other files.
LEMMA StopDisk ==
  ASSUME TypeOK, Stop
  PROVE  /\ sessions' = sessions
         /\ session' = NoPath
         /\ file' \in [Paths -> [session : 0 .. sessions, content : {"none", "partial", "whole"}]]
         /\ \A q \in Paths : /\ file'[q].session = file[q].session
                             /\ file[q].content = "whole" => file'[q].content = "whole"
                             /\ session = q => file'[q].content = "whole"
                             /\ session # q => file'[q] = file[q]
<1>1. \A q \in Paths : file[q] \in [session : 0 .. sessions, content : {"none", "partial", "whole"}]
  BY DEF TypeOK
<1>2. \A q \in Paths : file'[q] = IF q = session
                                 THEN [session |-> file[q].session, content |-> "whole"]
                                 ELSE file[q]
  BY DEF Stop
<1>3. \A q \in Paths : file'[q] \in [session : 0 .. sessions, content : {"none", "partial", "whole"}]
  <2> TAKE q \in Paths
  <2>1. file[q] \in [session : 0 .. sessions, content : {"none", "partial", "whole"}]
    BY <1>1
  <2>2. [session |-> file[q].session, content |-> "whole"]
          \in [session : 0 .. sessions, content : {"none", "partial", "whole"}]
    BY <2>1
  <2>3. CASE q = session
    BY <1>2, <2>2, <2>3
  <2>4. CASE q # session
    BY <1>2, <2>1, <2>4
  <2> QED
    BY <2>3, <2>4
<1>4. file' \in [Paths -> [session : 0 .. sessions, content : {"none", "partial", "whole"}]]
  BY <1>3 DEF Stop
<1> QED
  BY <1>1, <1>2, <1>4 DEF Stop

-----------------------------------------------------------------------------
(* Types.                                                                  *)

\* Every step preserves the types.
LEMMA TypeInductive == TypeOK /\ [Next]_vars => TypeOK'
<1> SUFFICES ASSUME TypeOK, [Next]_vars PROVE TypeOK'
  OBVIOUS
<1> USE PathAssumption DEF globals, disk, ghosts
<1>1. CASE Load
  <2>1. report' \in [result : {"none", "missing", "failed", "mixed", "shown"},
                     session : 0 .. sessions]
    BY <1>1 DEF Load, NoReport, TypeOK
  <2>2. native' \in BOOLEAN
    BY <1>1 DEF Load
  <2>3. jvmStarted' \in BOOLEAN /\ autoStarted' \in BOOLEAN /\ premain' \in BOOLEAN
        /\ openFailed' \in BOOLEAN /\ restarted' \in BOOLEAN
    BY <1>1 DEF Load
  <2>4. /\ jvm' \in {"off", "loaded", "running", "hooks", "dead", "exited"}
        /\ profilePath' \in Paths \cup {NoPath}
        /\ hook' \in {"none", "installed", "stopped", "reading", "done"}
        /\ first' \in 0 .. sessions' /\ runs' \in Nat
        /\ UNCHANGED <<disk, starts>>
    BY <1>1 DEF Load, TypeOK
  <2>5. opened' \in [session : 0 .. sessions', content : {"none", "partial", "whole"}]
    BY <1>1 DEF Load, NoFile, TypeOK
  <2> QED
    BY <2>1, <2>2, <2>3, <2>4, <2>5 DEF TypeOK
<1>2. CASE VMInit
  <2>a. autoStarted' \in BOOLEAN /\ openFailed' \in BOOLEAN
    <3>1. autoStarted' = TRUE \/ autoStarted' = autoStarted
      BY <1>2 DEF VMInit
    <3>2. openFailed' = TRUE \/ openFailed' = openFailed
      BY <1>2 DEF VMInit
    <3> QED
      BY <3>1, <3>2 DEF TypeOK
  <2>b. /\ UNCHANGED <<jvm, native, profilePath, premain, hook, opened, report, ghosts,
                       restarted>>
        /\ jvmStarted' \in BOOLEAN
    BY <1>2 DEF VMInit
  <2>1. CASE Opens(profilePath) /\ profilePath # NoPath
    BY <2>a, <2>b, <2>1, OpensDisk DEF TypeOK
  <2>2. CASE UNCHANGED disk
    BY <2>a, <2>b, <2>2 DEF TypeOK
  <2> QED
    BY <1>2, <2>1, <2>2 DEF VMInit, Fails
<1>3. CASE Premain
  <2>a. openFailed' \in BOOLEAN
    <3>1. openFailed' = TRUE \/ openFailed' = openFailed
      BY <1>3 DEF Premain, StartsNow
    <3> QED
      BY <3>1 DEF TypeOK
  <2>b. /\ UNCHANGED <<jvm, native, jvmStarted, autoStarted, opened, report, ghosts,
                       restarted>>
        /\ premain' \in BOOLEAN
        /\ profilePath' \in Paths \cup {NoPath}
        /\ hook' \in {"none", "installed", "stopped", "reading", "done"}
    BY <1>3 DEF Premain, StartsNow, TypeOK
  <2>1. CASE Opens(ProfilePath)
    BY <2>a, <2>b, <2>1, OpensDisk DEF TypeOK
  <2>2. CASE UNCHANGED disk
    BY <2>a, <2>b, <2>2 DEF TypeOK
  <2> QED
    BY <1>3, <2>1, <2>2 DEF Premain, StartsNow, Fails
<1>4. CASE Run
  BY <1>4 DEF TypeOK, Run
<1>5. CASE AppStop
  BY <1>5, StopDisk DEF TypeOK, AppStop
<1>6. CASE Shutdown
  BY <1>6 DEF TypeOK, Shutdown
<1>7. CASE HookStop
  BY <1>7, StopDisk DEF TypeOK, HookStop
<1>8. CASE HookOpen \/ HookRead
  <2>1. CASE HookOpen
    BY <2>1, PathAssumption DEF TypeOK, HookOpen, Report
  <2>2. CASE HookRead
    BY <2>2, PathAssumption DEF TypeOK, HookRead, Report
  <2> QED
    BY <1>8, <2>1, <2>2
<1>9. CASE VMDeath
  BY <1>9, StopDisk DEF TypeOK, VMDeath
<1>10. CASE Exit
  BY <1>10, StopDisk DEF TypeOK, Exit
<1>11. CASE Crash
  BY <1>11 DEF TypeOK, Crash
<1>12. ASSUME NEW p \in Paths, AppStart(p) PROVE TypeOK'
  <2>1. restarted' \in BOOLEAN
    <3>1. CASE restarted' = (restarted \/ TakesFile(p))
      BY <3>1
    <3>2. CASE UNCHANGED restarted
      BY <3>2 DEF TypeOK
    <3> QED
      BY <1>12, <3>1, <3>2 DEF AppStart
  <2>2. CASE Opens(p)
    BY <1>12, <2>1, <2>2, OpensDisk DEF TypeOK, AppStart
  <2>3. CASE UNCHANGED disk
    BY <1>12, <2>1, <2>3 DEF TypeOK, AppStart
  <2> QED
    BY <1>12, <2>2, <2>3 DEF AppStart, Refused, Fails
<1>13. CASE UNCHANGED vars
  BY <1>13 DEF TypeOK, vars
<1> QED
  BY <1>1, <1>2, <1>3, <1>4, <1>5, <1>6, <1>7, <1>8, <1>9, <1>10, <1>11, <1>12, <1>13 DEF Next

-----------------------------------------------------------------------------
(* The inductive invariant.                                                *)

\* It holds when the first process has not begun.
THEOREM InitInvariant == Init => IInv
<1> SUFFICES ASSUME Init PROVE IInv
  OBVIOUS
<1> USE PathAssumption
<1>1. TypeOK
  <2>1. /\ NoFile \in [session : 0 .. 0, content : {"none", "partial", "whole"}]
        /\ NoReport \in [result : {"none", "missing", "failed", "mixed", "shown"}, session : 0 .. 0]
    BY DEF NoFile, NoReport
  <2>2. /\ native \in BOOLEAN /\ jvmStarted \in BOOLEAN /\ autoStarted \in BOOLEAN
        /\ premain \in BOOLEAN /\ openFailed \in BOOLEAN /\ restarted \in BOOLEAN
    BY DEF Init
  <2> QED
    BY <2>1, <2>2 DEF Init, TypeOK
<1>2. SessionInv /\ UnfinishedInv /\ StartInv /\ FileInv
  BY DEF Init, SessionInv, UnfinishedInv, StartInv, FileInv
<1>3. ReportFresh /\ ReportWhole
  BY DEF Init, ReportFresh, ReportWhole, NoReport
<1> QED
  BY <1>1, <1>2, <1>3 DEF IInv

\* Every step of the agents, the application and the JVM preserves it.
THEOREM StepInvariant == IInv /\ [Next]_vars => IInv'
<1> SUFFICES ASSUME IInv, [Next]_vars PROVE IInv'
  OBVIOUS
<1> USE PathAssumption DEF globals, disk, ghosts
<1>t. TypeOK /\ TypeOK'
  BY TypeInductive DEF IInv
<1>a. SessionInv'
  <2>1. CASE Load
    BY <1>t, <2>1 DEF Load, NoReport, IInv, SessionInv, StartInv, TypeOK
  <2>2. CASE VMInit
    BY <1>t, <2>2, OpensDisk DEF VMInit, IInv, SessionInv, StartInv, TypeOK
  <2>3. CASE Premain
    BY <1>t, <2>3, OpensDisk DEF Premain, StartsNow, IInv, SessionInv, StartInv, TypeOK
  <2>4. CASE Run
    BY <1>t, <2>4 DEF Run, IInv, SessionInv, StartInv, TypeOK
  <2>5. CASE AppStop
    BY <1>t, <2>5, StopDisk DEF AppStop, IInv, SessionInv, StartInv, TypeOK
  <2>6. CASE Shutdown
    BY <1>t, <2>6 DEF Shutdown, IInv, SessionInv, StartInv, TypeOK
  <2>7. CASE HookStop
    BY <1>t, <2>7, StopDisk DEF HookStop, IInv, SessionInv, StartInv, TypeOK
  <2>8. CASE HookOpen \/ HookRead
    BY <1>t, <2>8 DEF HookOpen, HookRead, Report, IInv, SessionInv, StartInv, TypeOK
  <2>9. CASE VMDeath
    BY <1>t, <2>9, StopDisk DEF VMDeath, IInv, SessionInv, StartInv, TypeOK
  <2>10. CASE Exit
    BY <1>t, <2>10, StopDisk DEF Exit, IInv, SessionInv, StartInv, TypeOK
  <2>11. CASE Crash
    BY <1>t, <2>11 DEF Crash, IInv, SessionInv, StartInv, TypeOK
  <2>12. ASSUME NEW p \in Paths, AppStart(p) PROVE SessionInv'
    BY <1>t, <2>12, OpensDisk DEF AppStart, Refused, Fails, IInv, SessionInv, StartInv, TypeOK
  <2>13. CASE UNCHANGED vars
    BY <2>13 DEF vars, IInv, SessionInv, StartInv
  <2> QED
    BY <2>1, <2>2, <2>3, <2>4, <2>5, <2>6, <2>7, <2>8, <2>9, <2>10, <2>11, <2>12, <2>13 DEF Next
<1>b. UnfinishedInv'
  <2>1. CASE Load
    BY <1>t, <2>1 DEF Ours, Load, NoReport, IInv, UnfinishedInv, SessionInv, TypeOK
  <2>2. CASE VMInit
    <3>1. CASE profilePath # NoPath /\ Opens(profilePath)
      <4>1. first' = first /\ jvm # "off"
        BY <2>2 DEF VMInit
      <4>2. \A p \in Paths : session' # p => file'[p] = file[p]
        BY <1>t, <3>1, OpensDisk DEF TypeOK
      <4>3. session = NoPath /\ \A p \in Paths : ~(Ours(p) /\ file[p].content # "whole")
        BY <4>1, <3>1 DEF Opens, Truncated, IInv, UnfinishedInv
      <4> QED
        BY <4>1, <4>2, <4>3 DEF Ours, UnfinishedInv
    <3>2. CASE UNCHANGED disk
      BY <2>2, <3>2 DEF Ours, VMInit, IInv, UnfinishedInv
    <3> QED
      BY <2>2, <3>1, <3>2 DEF VMInit, Fails
  <2>3. CASE Premain
    <3>1. CASE Opens(ProfilePath)
      <4>1. first' = first /\ jvm # "off"
        BY <2>3 DEF Premain, StartsNow
      <4>2. \A p \in Paths : session' # p => file'[p] = file[p]
        BY <1>t, <3>1, OpensDisk DEF TypeOK
      <4>3. session = NoPath /\ \A p \in Paths : ~(Ours(p) /\ file[p].content # "whole")
        BY <4>1, <3>1 DEF Opens, Truncated, IInv, UnfinishedInv
      <4> QED
        BY <4>1, <4>2, <4>3 DEF Ours, UnfinishedInv
    <3>2. CASE UNCHANGED disk
      BY <2>3, <3>2 DEF Ours, Premain, StartsNow, IInv, UnfinishedInv
    <3> QED
      BY <2>3, <3>1, <3>2 DEF Premain, StartsNow, Fails
  <2>4. CASE Run
    BY <1>t, <2>4 DEF Ours, Run, IInv, UnfinishedInv, SessionInv, TypeOK
  <2>5. CASE AppStop
    BY <1>t, <2>5, StopDisk DEF Ours, AppStop, IInv, UnfinishedInv, SessionInv, TypeOK
  <2>6. CASE Shutdown
    BY <1>t, <2>6 DEF Ours, Shutdown, IInv, UnfinishedInv, SessionInv, TypeOK
  <2>7. CASE HookStop
    BY <1>t, <2>7, StopDisk DEF Ours, HookStop, IInv, UnfinishedInv, SessionInv, TypeOK
  <2>8. CASE HookOpen \/ HookRead
    BY <1>t, <2>8 DEF Ours, HookOpen, HookRead, Report, IInv, UnfinishedInv, SessionInv, TypeOK
  <2>9. CASE VMDeath
    BY <1>t, <2>9, StopDisk DEF Ours, VMDeath, IInv, UnfinishedInv, SessionInv, TypeOK
  <2>10. CASE Exit
    BY <1>t, <2>10, StopDisk DEF Ours, Exit, IInv, UnfinishedInv, SessionInv, TypeOK
  <2>11. CASE Crash
    BY <1>t, <2>11 DEF Ours, Crash, IInv, UnfinishedInv, SessionInv, TypeOK
  <2>12. ASSUME NEW p \in Paths, AppStart(p) PROVE UnfinishedInv'
    BY <1>t, <2>12, OpensDisk DEF Ours, AppStart, Refused, Fails, IInv, UnfinishedInv, SessionInv, TypeOK
  <2>13. CASE UNCHANGED vars
    BY <2>13 DEF Ours, vars, IInv, UnfinishedInv, SessionInv
  <2> QED
    BY <2>1, <2>2, <2>3, <2>4, <2>5, <2>6, <2>7, <2>8, <2>9, <2>10, <2>11, <2>12, <2>13 DEF Ours, Next
<1>c. StartInv'
  <2>1. CASE Load
    BY <1>t, <2>1 DEF Load, NoReport, IInv, StartInv, SessionInv, TypeOK
  <2>2. CASE VMInit
    BY <1>t, <2>2, OpensDisk DEF VMInit, IInv, StartInv, SessionInv, TypeOK
  <2>3. CASE Premain
    BY <1>t, <2>3, OpensDisk DEF Premain, StartsNow, IInv, StartInv, SessionInv, TypeOK
  <2>4. CASE Run
    BY <1>t, <2>4 DEF Run, IInv, StartInv, SessionInv, TypeOK
  <2>5. CASE AppStop
    BY <1>t, <2>5, StopDisk DEF AppStop, IInv, StartInv, SessionInv, TypeOK
  <2>6. CASE Shutdown
    BY <1>t, <2>6 DEF Shutdown, IInv, StartInv, SessionInv, TypeOK
  <2>7. CASE HookStop
    BY <1>t, <2>7, StopDisk DEF HookStop, IInv, StartInv, SessionInv, TypeOK
  <2>8. CASE HookOpen \/ HookRead
    BY <1>t, <2>8 DEF HookOpen, HookRead, Report, IInv, StartInv, SessionInv, TypeOK
  <2>9. CASE VMDeath
    BY <1>t, <2>9, StopDisk DEF VMDeath, IInv, StartInv, SessionInv, TypeOK
  <2>10. CASE Exit
    BY <1>t, <2>10, StopDisk DEF Exit, IInv, StartInv, SessionInv, TypeOK
  <2>11. CASE Crash
    BY <1>t, <2>11 DEF Crash, IInv, StartInv, SessionInv, TypeOK
  <2>12. ASSUME NEW p \in Paths, AppStart(p) PROVE StartInv'
    BY <1>t, <2>12, OpensDisk DEF AppStart, Refused, Fails, IInv, StartInv, SessionInv, TypeOK
  <2>13. CASE UNCHANGED vars
    BY <2>13 DEF vars, IInv, StartInv, SessionInv
  <2> QED
    BY <2>1, <2>2, <2>3, <2>4, <2>5, <2>6, <2>7, <2>8, <2>9, <2>10, <2>11, <2>12, <2>13 DEF Next
<1>d. FileInv'
  <2>1. CASE Load
    BY <1>t, <2>1 DEF Ours, Load, NoReport, IInv, FileInv, StartInv, UnfinishedInv, SessionInv, TypeOK
  <2>2. CASE VMInit
    BY <1>t, <2>2, OpensDisk DEF Ours, VMInit, IInv, FileInv, StartInv, UnfinishedInv, SessionInv, TypeOK
  <2>3. CASE Premain
    BY <1>t, <2>3, OpensDisk DEF Ours, Premain, StartsNow, IInv, FileInv, StartInv, UnfinishedInv, SessionInv, TypeOK
  <2>4. CASE Run
    BY <1>t, <2>4 DEF Ours, Run, IInv, FileInv, StartInv, UnfinishedInv, SessionInv, TypeOK
  <2>5. CASE AppStop
    BY <1>t, <2>5, StopDisk DEF Ours, AppStop, IInv, FileInv, StartInv, UnfinishedInv, SessionInv, TypeOK
  <2>6. CASE Shutdown
    BY <1>t, <2>6 DEF Ours, Shutdown, IInv, FileInv, StartInv, UnfinishedInv, SessionInv, TypeOK
  <2>7. CASE HookStop
    BY <1>t, <2>7, StopDisk DEF Ours, HookStop, IInv, FileInv, StartInv, UnfinishedInv, SessionInv, TypeOK
  <2>8. CASE HookOpen \/ HookRead
    BY <1>t, <2>8 DEF Ours, HookOpen, HookRead, Report, IInv, FileInv, StartInv, UnfinishedInv, SessionInv, TypeOK
  <2>9. CASE VMDeath
    BY <1>t, <2>9, StopDisk DEF Ours, VMDeath, IInv, FileInv, StartInv, UnfinishedInv, SessionInv, TypeOK
  <2>10. CASE Exit
    BY <1>t, <2>10, StopDisk DEF Ours, Exit, IInv, FileInv, StartInv, UnfinishedInv, SessionInv, TypeOK
  <2>11. CASE Crash
    BY <1>t, <2>11 DEF Ours, Crash, IInv, FileInv, StartInv, UnfinishedInv, SessionInv, TypeOK
  <2>12. ASSUME NEW p \in Paths, AppStart(p) PROVE FileInv'
    BY <1>t, <2>12, OpensDisk DEF Ours, AppStart, TakesFile, Refused, Fails, IInv, FileInv, StartInv, UnfinishedInv, SessionInv, TypeOK
  <2>13. CASE UNCHANGED vars
    BY <2>13 DEF Ours, vars, IInv, FileInv, StartInv, UnfinishedInv, SessionInv
  <2> QED
    BY <2>1, <2>2, <2>3, <2>4, <2>5, <2>6, <2>7, <2>8, <2>9, <2>10, <2>11, <2>12, <2>13 DEF Ours, Next
<1>e. ReportFresh' /\ ReportWhole'
  <2>1. CASE Load
    BY <1>t, <2>1 DEF Ours, Load, NoReport, IInv, ReportFresh, ReportWhole, FileInv, StartInv, TypeOK
  <2>2. CASE VMInit
    BY <1>t, <2>2, OpensDisk DEF Ours, VMInit, IInv, ReportFresh, ReportWhole, FileInv, StartInv, TypeOK
  <2>3. CASE Premain
    BY <1>t, <2>3, OpensDisk DEF Ours, Premain, StartsNow, IInv, ReportFresh, ReportWhole, FileInv, StartInv, TypeOK
  <2>4. CASE Run
    BY <1>t, <2>4 DEF Ours, Run, IInv, ReportFresh, ReportWhole, FileInv, StartInv, TypeOK
  <2>5. CASE AppStop
    BY <1>t, <2>5, StopDisk DEF Ours, AppStop, IInv, ReportFresh, ReportWhole, FileInv, StartInv, TypeOK
  <2>6. CASE Shutdown
    BY <1>t, <2>6 DEF Ours, Shutdown, IInv, ReportFresh, ReportWhole, FileInv, StartInv, TypeOK
  <2>7. CASE HookStop
    BY <1>t, <2>7, StopDisk DEF Ours, HookStop, IInv, ReportFresh, ReportWhole, FileInv, StartInv, TypeOK
  <2>8. CASE HookOpen \/ HookRead
    BY <1>t, <2>8 DEF Ours, HookOpen, HookRead, Report, IInv, ReportFresh, ReportWhole, FileInv, StartInv, TypeOK
  <2>9. CASE VMDeath
    BY <1>t, <2>9, StopDisk DEF Ours, VMDeath, IInv, ReportFresh, ReportWhole, FileInv, StartInv, TypeOK
  <2>10. CASE Exit
    BY <1>t, <2>10, StopDisk DEF Ours, Exit, IInv, ReportFresh, ReportWhole, FileInv, StartInv, TypeOK
  <2>11. CASE Crash
    BY <1>t, <2>11 DEF Ours, Crash, IInv, ReportFresh, ReportWhole, FileInv, StartInv, TypeOK
  <2>12. ASSUME NEW p \in Paths, AppStart(p) PROVE ReportFresh' /\ ReportWhole'
    BY <1>t, <2>12, OpensDisk DEF Ours, AppStart, Refused, Fails, IInv, ReportFresh, ReportWhole, FileInv, StartInv, TypeOK
  <2>13. CASE UNCHANGED vars
    BY <2>13 DEF Ours, vars, IInv, ReportFresh, ReportWhole, FileInv, StartInv
  <2> QED
    BY <2>1, <2>2, <2>3, <2>4, <2>5, <2>6, <2>7, <2>8, <2>9, <2>10, <2>11, <2>12, <2>13 DEF Ours, Next
<1> QED
  BY <1>t, <1>a, <1>b, <1>c, <1>d, <1>e DEF IInv

(***************************************************************************)
(* The invariant in every state.                                           *)
(***************************************************************************)
\* IInv holds throughout: of any number of processes that start, stop and crash.
THEOREM Invariance == Spec => []IInv
<1> QED
  BY InitInvariant, StepInvariant, PTL DEF Spec

\* Exit leaves nothing open, and what this process wrote was finished.
LEMMA ExitSaves == IInv => SavedAtExit
<1> QED
  BY PathAssumption DEF IInv, SessionInv, UnfinishedInv, Ours, SavedAtExit

\* A process that exits leaves no profile unfinished.
THEOREM SavedCorrect == Spec => []SavedAtExit
<1> QED
  BY ExitSaves, Invariance, PTL

\* The hook never reports on the profile of an earlier process as its own.
THEOREM FreshCorrect == Spec => []ReportFresh
<1>1. IInv => ReportFresh
  BY DEF IInv
<1> QED
  BY <1>1, Invariance, PTL

\* The hook reads a whole profile, but for the two exceptions.
THEOREM WholeCorrect == Spec => []ReportWhole
<1>1. IInv => ReportWhole
  BY DEF IInv
<1> QED
  BY <1>1, Invariance, PTL

\* In either order of the agents the application begins with its profile
\* under way.
THEOREM StartCorrect == Spec => StartedInEitherOrder
<1>1. IInv /\ [Next]_vars =>
        [Run => ~native \/ openFailed \/ session = ProfilePath]_vars
  BY DEF IInv, StartInv, Run
<1> QED
  BY <1>1, Invariance, PTL DEF Spec, StartedInEitherOrder
=============================================================================
