--------------------------- MODULE AgentLifecycle ---------------------------
(***************************************************************************)
(* One JVM after another with both agents: the native one (agent.cpp and   *)
(* the end of java_profiler.cc) and the Java one (JvmAgent.java, through   *)
(* Profiler.java).  The JVM initialises both in the order of its options,  *)
(* and takes them down at the end: shutdown hooks, while the other threads *)
(* run on, then the VM death callback, then the destructors at exit.       *)
(*                                                                         *)
(* A call of Start or Stop is one step: how they interleave with signals   *)
(* and with each other is the subject of module JavaProfiler.  The profile *)
(* file outlives the process and may be that of an earlier one.            *)
(***************************************************************************)
EXTENDS Naturals

CONSTANTS
  Paths,        \* paths of profile files, neither empty nor too long
  ProfilePath,  \* "/tmp/profile.dat", the one that JvmAgent uses
  NoPath,       \* the empty path
  MaxRuns,      \* bound on the processes
  MaxStarts     \* bound on the calls of startProfiling by the application

ASSUME PathAssumption ==
  /\ ProfilePath \in Paths
  /\ NoPath \notin Paths
  /\ MaxRuns \in Nat /\ MaxStarts \in Nat

VARIABLES
  jvm,          \* "off", "loaded", "running", "hooks", "dead", "exited"
  native,       \* is libprofiler.so loaded?  (-agentlib)
  jvmStarted,
  autoStarted,
  profilePath,
  session,      \* the path of the open session
  premain,      \* has premain run?
  hook,         \* the shutdown hook: "none", "installed", "stopped", "reading",
                \* "done"
  opened,       \* the profile that was in the file when the hook opened it
  report,       \* what it has reported
  file,         \* on the disk: the last session of each path
  \* to state the properties:
  sessions,     \* how many sessions there have been
  first,        \* how many there were when the process began
  runs,
  starts,
  openFailed,   \* the agents could not open the profile file
  restarted     \* a new session has taken the file from the hook

globals == <<jvmStarted, autoStarted, profilePath>>
disk    == <<session, file, sessions>>
ghosts  == <<first, runs, starts>>
vars    == <<jvm, native, globals, disk, premain, hook, opened, report, ghosts,
             openFailed, restarted>>

NoFile   == [session |-> 0, content |-> "none"]
NoReport == [result |-> "none", session |-> 0]

Init ==
  /\ jvm = "off"
  /\ native = FALSE
  /\ jvmStarted = FALSE
  /\ autoStarted = FALSE
  /\ profilePath = NoPath
  /\ session = NoPath
  /\ premain = FALSE
  /\ hook = "none"
  /\ opened = NoFile
  /\ report = NoReport
  /\ file = [p \in Paths |-> NoFile]
  /\ sessions = 0
  /\ first = 0
  /\ runs = 0
  /\ starts = 0
  /\ openFailed = FALSE
  /\ restarted = FALSE

-----------------------------------------------------------------------------
(* JavaProfiler::Start and Stop.                                           *)

\* A faulty variant: the file is not truncated.
TruncatedNot(p) == file[p]

Truncated(p) == [session |-> sessions + 1, content |-> "partial"]

\* Start truncates the file and opens a session,
Opens(p) ==
  /\ session = NoPath
  /\ session' = p
  /\ sessions' = sessions + 1
  /\ file' = [file EXCEPT ![p] = Truncated(p)]

\* or changes nothing: there is a session, or the file cannot be opened.
Refused == session # NoPath /\ UNCHANGED disk
Fails   == session = NoPath /\ UNCHANGED disk

\* Faulty variants: nothing happens, and the file is not finished.
StopNot   == UNCHANGED disk
StopShort == session' = NoPath /\ UNCHANGED <<file, sessions>>

\* Stop, if there is a session, makes the file a whole profile.
Stop ==
  /\ session' = NoPath
  /\ file' = [p \in Paths |->
                IF p = session THEN [session |-> file[p].session, content |-> "whole"]
                               ELSE file[p]]
  /\ UNCHANGED sessions

-----------------------------------------------------------------------------
(* The process begins.                                                     *)

Load ==
  /\ jvm \in {"off", "exited"}
  /\ runs < MaxRuns
  /\ runs' = runs + 1
  /\ jvm' = "loaded"
  /\ native' \in BOOLEAN
  /\ jvmStarted' = FALSE
  /\ autoStarted' = FALSE
  /\ profilePath' = NoPath
  /\ premain' = FALSE
  /\ hook' = "none"
  /\ opened' = NoFile
  /\ report' = NoReport
  /\ first' = sessions
  /\ openFailed' = FALSE
  /\ restarted' = FALSE
  /\ UNCHANGED <<disk, starts>>

\* callbackVMInit, onJvmStart: a path that was given before is now used.
VMInit ==
  /\ jvm = "loaded"
  /\ native
  /\ ~jvmStarted
  /\ jvmStarted' = TRUE
  /\ \/ profilePath = NoPath /\ UNCHANGED <<disk, autoStarted, openFailed>>
     \/ profilePath # NoPath /\ Opens(profilePath) /\ autoStarted' = TRUE
                             /\ UNCHANGED openFailed
     \/ profilePath # NoPath /\ Fails /\ openFailed' = TRUE
                             /\ UNCHANGED autoStarted
  /\ UNCHANGED <<jvm, native, profilePath, premain, hook, opened, report, ghosts,
                 restarted>>

\* A faulty variant: premain leaves the start to onJvmStart.
StartsNever == FALSE

StartsNow == jvmStarted

\* premain: without the native agent nothing, else startProfiling and the
\* shutdown hook.  Before the VM is there, startProfiling keeps the path.
Premain ==
  /\ jvm = "loaded"
  /\ ~premain
  /\ premain' = TRUE
  /\ \/ /\ ~native
        /\ UNCHANGED <<profilePath, hook, disk, openFailed>>
     \/ /\ native
        /\ profilePath' = ProfilePath
        /\ hook' = "installed"
        /\ \/ ~StartsNow /\ UNCHANGED <<disk, openFailed>>
           \/ StartsNow /\ Opens(ProfilePath) /\ UNCHANGED openFailed
           \/ StartsNow /\ Fails /\ openFailed' = TRUE
  /\ UNCHANGED <<jvm, native, jvmStarted, autoStarted, opened, report, ghosts, restarted>>

Run ==
  /\ jvm = "loaded"
  /\ premain
  /\ native => jvmStarted
  /\ jvm' = "running"
  /\ UNCHANGED <<native, globals, disk, premain, hook, opened, report, ghosts,
                 openFailed, restarted>>

-----------------------------------------------------------------------------
(* The application, which may use Profiler too, also during the hooks.     *)

\* The hook has stopped the profiler and not yet read the file of p.
TakesFile(p) == hook \in {"stopped", "reading"} /\ p = ProfilePath

AppStart(p) ==
  /\ jvm \in {"running", "hooks"}
  /\ native
  /\ starts < MaxStarts
  /\ starts' = starts + 1
  /\ profilePath' = p
  /\ \/ Opens(p) /\ restarted' = (restarted \/ TakesFile(p))
     \/ (Refused \/ Fails) /\ UNCHANGED restarted
  /\ UNCHANGED <<jvm, native, jvmStarted, autoStarted, premain, hook, opened, report,
                 first, runs, openFailed>>

AppStop ==
  /\ jvm \in {"running", "hooks"}
  /\ native
  /\ Stop
  /\ UNCHANGED <<jvm, native, globals, premain, hook, opened, report, ghosts,
                 openFailed, restarted>>

-----------------------------------------------------------------------------
(* The process ends.                                                       *)

Shutdown ==
  /\ jvm = "running"
  /\ jvm' = "hooks"
  /\ UNCHANGED <<native, globals, disk, premain, hook, opened, report, ghosts,
                 openFailed, restarted>>

\* shutdownHook stops the profiler ...
HookStop ==
  /\ jvm = "hooks"
  /\ hook = "installed"
  /\ hook' = "stopped"
  /\ Stop
  /\ UNCHANGED <<jvm, native, globals, premain, opened, report, ghosts, openFailed,
                 restarted>>

Report(r, n) == report' = [result |-> r, session |-> n]

\* ... opens the file, if there is one ...
HookOpen ==
  /\ jvm = "hooks"
  /\ hook = "stopped"
  /\ opened' = file[ProfilePath]
  /\ \/ opened'.content = "none" /\ hook' = "done" /\ Report("missing", 0)
     \/ opened'.content # "none" /\ hook' = "reading" /\ UNCHANGED report
  /\ UNCHANGED <<jvm, native, globals, disk, premain, ghosts, openFailed,
                 restarted>>

\* ... and reports on it if it is whole (ProfileReader).  A session that begins
\* meanwhile truncates the file: the reader goes on at its place in the new
\* one, and may come to an end mark there.
HookRead ==
  /\ jvm = "hooks"
  /\ hook = "reading"
  /\ hook' = "done"
  /\ LET f == file[ProfilePath]
     IN \/ f.session # opened.session
              /\ \E r \in {"failed", "mixed"} : Report(r, opened.session)
        \/ "partial" \in {f.content, opened.content} /\ Report("failed", f.session)
        \/ f.content = "whole" /\ Report("shown", f.session)
  /\ UNCHANGED <<jvm, native, globals, disk, premain, opened, ghosts, openFailed,
                 restarted>>

\* callbackVMDeath, onJvmStop.  Runtime.halt comes here without the hooks.
VMDeath ==
  /\ \/ jvm = "hooks" /\ hook \in {"none", "done"}
     \/ jvm = "running"
  /\ jvm' = "dead"
  /\ \/ autoStarted /\ Stop
     \/ ~autoStarted /\ UNCHANGED disk
  /\ UNCHANGED <<native, globals, premain, hook, opened, report, ghosts, openFailed,
                 restarted>>

\* ~JavaProfiler.
Exit ==
  /\ jvm = "dead"
  /\ jvm' = "exited"
  /\ Stop
  /\ UNCHANGED <<native, globals, premain, hook, opened, report, ghosts, openFailed,
                 restarted>>

\* The process is killed and leaves the file as it is.
Crash ==
  /\ jvm \notin {"off", "exited"}
  /\ jvm' = "off"
  /\ session' = NoPath
  /\ UNCHANGED <<native, globals, file, sessions, premain, hook, opened, report, ghosts,
                 openFailed, restarted>>

Next ==
  \/ Load \/ VMInit \/ Premain \/ Run
  \/ \E p \in Paths : AppStart(p)
  \/ AppStop
  \/ Shutdown \/ HookStop \/ HookOpen \/ HookRead \/ VMDeath \/ Exit
  \/ Crash

Spec == Init /\ [][Next]_vars

-----------------------------------------------------------------------------
(* Properties.                                                             *)

TypeOK ==
  /\ jvm \in {"off", "loaded", "running", "hooks", "dead", "exited"}
  /\ native \in BOOLEAN /\ jvmStarted \in BOOLEAN /\ autoStarted \in BOOLEAN
  /\ profilePath \in Paths \cup {NoPath}
  /\ session \in Paths \cup {NoPath}
  /\ premain \in BOOLEAN
  /\ hook \in {"none", "installed", "stopped", "reading", "done"}
  /\ report \in [result : {"none", "missing", "failed", "mixed", "shown"},
                 session : 0 .. sessions]
  /\ opened \in [session : 0 .. sessions, content : {"none", "partial", "whole"}]
  /\ file \in [Paths -> [session : 0 .. sessions, content : {"none", "partial", "whole"}]]
  /\ sessions \in Nat /\ first \in 0 .. sessions
  /\ runs \in Nat /\ starts \in Nat
  /\ openFailed \in BOOLEAN /\ restarted \in BOOLEAN

\* Whichever agent the JVM initialises first, the application begins with the
\* profile of JvmAgent under way, if its file could be opened.
StartedInEitherOrder ==
  [][Run => ~native \/ openFailed \/ session = ProfilePath]_vars

\* A process that exits leaves no profile unfinished, also when it was not
\* onJvmStart that had started it ("Destructor will write profile data out to
\* disk", java_profiler.cc).
SavedAtExit ==
  jvm = "exited" =>
    /\ session = NoPath
    /\ \A p \in Paths : file[p].session > first => file[p].content = "whole"

\* The hook reports on this process and not on one that came before, unless
\* the file could not be opened.
ReportFresh ==
  report.result \in {"shown", "mixed"} => report.session > first \/ openFailed

\* The hook finds one whole profile, unless the file could not be opened or the
\* application has started the next session in it before it was read.
ReportWhole ==
  report.result \in {"missing", "failed", "mixed"} => openFailed \/ restarted
=============================================================================
