----------------------------- MODULE MethodNames -----------------------------
(***************************************************************************)
(* From a frame on a stack to its name in the report: agent.cpp and        *)
(* JavaProfileData.getMethodName.  Agent_OnLoad asks for class events;     *)
(* OnClassPrepare has the JVM make the ids of the methods, without which   *)
(* AsyncGetCallTrace records a frame with a null id; getMethodInfo0 and    *)
(* getLineNumberTable0 ask for the names behind the ids when the report is *)
(* written, while classes come and go.                                     *)
(*                                                                         *)
(* The JVM is external: its phases, the classes, and which of its          *)
(* functions fail.  One method stands for the methods of a class.          *)
(***************************************************************************)
EXTENDS Integers, Sequences

CONSTANTS
  Classes,
  MayFail,      \* the functions of the JVM that may return an error
  Tables,       \* the line number tables of methods
  Locations,    \* positions in a method, negative in native ones
  MaxQueries    \* bound on the calls of getMethodName

Functions == {"GetEnv", "AddCapabilities", "SetEventCallbacks",
              "SetEventNotificationMode",
              "GetClassMethods", "GetMethodName", "GetMethodDeclaringClass",
              "GetClassSignature", "NewObjectArray", "NewLongArray"}

Entry == [start : Nat, line : Nat]

\* javac and the JVM keep the tables in the order of the code.
Sorted(t) == \A i, j \in DOMAIN t : i < j => t[i].start <= t[j].start

ASSUME NamesAssumption ==
  /\ MayFail \subseteq Functions
  /\ Tables \subseteq Seq(Entry)
  /\ \A t \in Tables : Sorted(t)
  /\ Locations \subseteq Int
  /\ MaxQueries \in Nat

VARIABLES
  phase,        \* of the JVM; "aborted" after a fatal error
  events,       \* are ClassPrepare events sent to OnClassPrepare?
  lineNumbers,  \* the capability can_get_line_numbers
  class,        \* [Classes -> ClassStates]
  methods,      \* the pointer of that name in the callback for a class
  recorded,     \* the frames in the profile: whose, and with an id or null
  heap,         \* what the JVM has given to a query and not got back
  step,         \* where in getMethodName the reporting thread is
  asked,        \* the frame whose name is asked for
  shown,        \* the strings of getMethodInfo0
  table,        \* what getLineNumberTable0 has got
  line,         \* srcLine, -1 for none
  queries,      \* number of the query
  \* to state the properties:
  unprimed,     \* classes prepared before the JVM sends events, or with code
                \* that ran before their callback
  failed,       \* functions that have returned an error
  thrown        \* queries that ended in an OutOfMemoryError

agent == <<events, lineNumbers, methods>>
query == <<heap, step, asked, shown, table, line, queries, thrown>>
vars  == <<phase, agent, class, recorded, query, unprimed, failed>>

Phases      == {"onload", "primordial", "start", "live", "dead", "aborted"}
ClassStates == {"absent", "callback", "freeing", "prepared", "unloaded"}
Strings     == {"className", "name", "sig", "gsig"}
Kinds       == Strings \cup {"table"}
Steps       == {"idle", "name", "class", "array", "table", "copy"}

NoFrame == [of |-> "none", id |-> "null", at |-> 0]

Init ==
  /\ phase = "onload"
  /\ events = FALSE
  /\ lineNumbers = FALSE
  /\ class = [c \in Classes |-> "absent"]
  /\ methods = [c \in Classes |-> "unset"]
  /\ recorded = {}
  /\ heap = {}
  /\ step = "idle"
  /\ asked = NoFrame
  /\ shown = {}
  /\ table = <<>>
  /\ line = -1
  /\ queries = 0
  /\ unprimed = {}
  /\ failed = {}
  /\ thrown = {}

-----------------------------------------------------------------------------
(* The JVM.                                                                *)

Works == UNCHANGED failed
Fails(f) == f \in MayFail /\ failed' = failed \cup {f}

Abort == phase' = "aborted"

NextPhase ==
  /\ \/ phase = "primordial" /\ phase' = "start"
     \/ phase = "start" /\ phase' = "live"
     \/ phase = "live" /\ phase' = "dead"
  /\ UNCHANGED <<agent, class, recorded, query, unprimed, failed>>

\* A class is prepared.  The event is sent from the start phase on.
Prepare(c) ==
  /\ phase \in {"primordial", "start", "live"}
  /\ class[c] = "absent"
  /\ LET sent == events /\ phase # "primordial"
     IN class' = [class EXCEPT ![c] = IF sent THEN "callback" ELSE "prepared"]
  /\ unprimed' = IF phase = "primordial" THEN unprimed \cup {c} ELSE unprimed
  /\ UNCHANGED <<phase, agent, recorded, query, failed>>

\* Its code runs no more, and its ids mean nothing any more.
Unload(c) ==
  /\ phase = "live"
  /\ class[c] = "prepared"
  /\ class' = [class EXCEPT ![c] = "unloaded"]
  /\ UNCHANGED <<phase, agent, recorded, query, unprimed, failed>>

HasId(c) == methods[c] \in {"given", "freed"}

\* prof_handler finds a frame of the class.  Another thread may run its code
\* before the callback has returned.
Sample(c) ==
  /\ phase = "live"
  /\ class[c] \in {"callback", "freeing", "prepared"}
  /\ recorded' = recorded \cup {<<c, IF HasId(c) THEN "id" ELSE "null">>}
  /\ unprimed' = IF class[c] = "callback" THEN unprimed \cup {c} ELSE unprimed
  /\ UNCHANGED <<phase, agent, class, query, failed>>

-----------------------------------------------------------------------------
(* Agent_OnLoad and OnClassPrepare.                                        *)

\* A faulty variant: the ClassPrepare event is not enabled.
ListensDeaf(errors) == FALSE

Listens(errors) == errors \subseteq {"AddCapabilities"}

\* Errors are printed, and the next call is made all the same, on a null
\* pointer if there is no environment.
OnLoad ==
  /\ phase = "onload"
  /\ \/ Fails("GetEnv") /\ Abort /\ UNCHANGED <<lineNumbers, events>>
     \/ /\ phase' = "primordial"
        /\ \E errors \in SUBSET (MayFail \cap {"AddCapabilities",
                 "SetEventCallbacks", "SetEventNotificationMode"}) :
             /\ failed' = failed \cup errors
             /\ lineNumbers' = ("AddCapabilities" \notin errors)
             /\ events' = Listens(errors)
  /\ UNCHANGED <<class, methods, recorded, query, unprimed>>

\* On an error methods is what the stack has there.
ClassMethods(c) ==
  /\ phase \in {"start", "live"}
  /\ class[c] = "callback"
  /\ \E p \in {"given", "null", "wild"} :
       /\ methods' = [methods EXCEPT ![c] = p]
       /\ IF p = "given" THEN Works ELSE Fails("GetClassMethods")
  /\ class' = [class EXCEPT ![c] = "freeing"]
  /\ UNCHANGED <<phase, events, lineNumbers, recorded, query, unprimed>>

\* Deallocate, also after an error.  Of a wild pointer it makes nothing, or
\* the C library ends the process.
FreeMethods(c) ==
  /\ phase \in {"start", "live"}
  /\ class[c] = "freeing"
  /\ \/ UNCHANGED phase
     \/ methods[c] = "wild" /\ Abort
  /\ methods' = [methods EXCEPT ![c] = IF @ = "given" THEN "freed" ELSE @]
  /\ class' = [class EXCEPT ![c] = "prepared"]
  /\ UNCHANGED <<events, lineNumbers, recorded, query, unprimed, failed>>
-----------------------------------------------------------------------------
(* getMethodName with getMethodInfo0 and getLineNumberTable0.              *)

\* A faulty variant: the position is read as an unsigned number.
FrameUnsigned(c, k, b) == [of |-> c, id |-> k, at |-> b % 2^16]

Frame(c, k, b) == [of |-> c, id |-> k, at |-> b]

Ask(c, k, b) ==
  /\ phase = "live"
  /\ step = "idle"
  /\ queries < MaxQueries
  /\ <<c, k>> \in recorded
  /\ asked' = Frame(c, k, b)
  /\ queries' = queries + 1
  /\ step' = "name"
  /\ shown' = {}
  /\ table' = <<>>
  /\ line' = -1
  /\ UNCHANGED <<phase, agent, class, recorded, heap, thrown, unprimed, failed>>

In(s) == phase = "live" /\ step = s

\* The JVM knows the id: not the null one, nor one of an unloaded class.
Known == asked.id = "id" /\ class[asked.of] # "unloaded"

Blocks(kinds) == {<<queries, k>> : k \in kinds}
Held == {k \in Strings : <<queries, k>> \in heap}

\* jvmti_deallocate, which passes over a pointer that is null.
GivenBack(kinds) == heap \ Blocks(kinds)

\* The error is not looked at: the pointers stay null.
GetMethodName ==
  /\ In("name")
  /\ \/ Known /\ Works /\ \E g \in SUBSET {"gsig"} :
                            heap' = heap \cup Blocks({"name", "sig"} \cup g)
     \/ ~Known /\ Works /\ UNCHANGED heap
     \/ Fails("GetMethodName") /\ UNCHANGED heap
  /\ step' = "class"
  /\ UNCHANGED <<phase, agent, class, recorded, asked, shown, table, line,
                 queries, thrown, unprimed>>

\* A faulty variant of the next: the signature is asked for on an error.
HasClassWrong == ~Known

HasClass == Known

\* GetMethodDeclaringClass, and if it gives the class, which is now held,
\* GetClassSignature.
GetClassName ==
  /\ In("class")
  /\ \/ HasClass /\ Works /\ heap' = heap \cup Blocks({"className"})
     \/ ~HasClass /\ Works /\ UNCHANGED heap
     \/ Fails("GetMethodDeclaringClass") /\ UNCHANGED heap
     \/ Known /\ Fails("GetClassSignature") /\ UNCHANGED heap
  /\ step' = "array"
  /\ UNCHANGED <<phase, agent, class, recorded, asked, shown, table, line,
                 queries, thrown, unprimed>>

\* A faulty variant: the generic signature is forgotten.
DeallocatedButGeneric == Strings \ {"gsig"}

Deallocated == Strings

\* The strings go to an array of "", and are given back.  Without memory for
\* the array there are strings stored into a null one, or none to store.
ReturnInfo ==
  /\ In("array")
  /\ \/ /\ Works
        /\ shown' = Held
        /\ heap' = GivenBack(Deallocated)
        /\ step' \in {"idle", "table"}
        /\ UNCHANGED <<phase, thrown>>
     \/ /\ Fails("NewObjectArray")
        /\ \/ Held # {} /\ Abort /\ UNCHANGED <<step, thrown>>
           \/ Held = {} /\ step' = "idle" /\ thrown' = thrown \cup {queries}
                        /\ UNCHANGED phase
        /\ UNCHANGED <<shown, heap>>
  /\ UNCHANGED <<agent, class, recorded, asked, table, line, queries, unprimed>>

\* An error, also for a method that has no table, gives null.
GetTable ==
  /\ In("table")
  /\ \/ step' = "idle" /\ UNCHANGED <<table, heap>>
     \/ /\ lineNumbers
        /\ Known
        /\ table' \in Tables
        /\ heap' = heap \cup Blocks({"table"})
        /\ step' = "copy"
  /\ UNCHANGED <<phase, agent, class, recorded, asked, shown, line, queries,
                 thrown, unprimed, failed>>

\* A faulty variant: an entry that starts at the position is passed over.
ScannedBelow(t, n) ==
  /\ n \in 0 .. Len(t)
  /\ \A i \in 1 .. n : t[i].start < asked.at
  /\ n < Len(t) => t[n + 1].start >= asked.at

\* The loop of getMethodName ends after n entries: at the end of the table or
\* with break.
Scanned(t, n) ==
  /\ n \in 0 .. Len(t)
  /\ \A i \in 1 .. n : t[i].start <= asked.at
  /\ n < Len(t) => t[n + 1].start > asked.at

\* The copy for Java, and the search in it; without memory for the copy the
\* table is kept.
FindLine ==
  /\ In("copy")
  /\ step' = "idle"
  /\ \/ /\ Works
        /\ heap' = GivenBack({"table"})
        /\ \E n \in 0 .. Len(table) :
             /\ Scanned(table, n)
             /\ line' = IF n = 0 THEN -1 ELSE table[n].line
        /\ UNCHANGED <<table, thrown>>
     \/ /\ Fails("NewLongArray")
        /\ table' = <<>>
        /\ thrown' = thrown \cup {queries}
        /\ UNCHANGED <<heap, line>>
  /\ UNCHANGED <<phase, agent, class, recorded, asked, shown, queries, unprimed>>

-----------------------------------------------------------------------------

Next ==
  \/ OnLoad \/ NextPhase
  \/ \E c \in Classes : \/ Prepare(c) \/ Unload(c) \/ Sample(c)
                        \/ ClassMethods(c) \/ FreeMethods(c)
                        \/ \E k \in {"id", "null"}, b \in Locations : Ask(c, k, b)
  \/ GetMethodName \/ GetClassName \/ ReturnInfo \/ GetTable \/ FindLine

Spec == Init /\ [][Next]_vars

-----------------------------------------------------------------------------
(* Properties.                                                             *)

TypeOK ==
  /\ phase \in Phases
  /\ events \in BOOLEAN /\ lineNumbers \in BOOLEAN
  /\ class \in [Classes -> ClassStates]
  /\ methods \in [Classes -> {"unset", "given", "null", "wild", "freed"}]
  /\ recorded \subseteq Classes \X {"id", "null"}
  /\ queries \in Nat
  /\ heap \subseteq (1 .. queries) \X Kinds
  /\ step \in Steps
  /\ asked = NoFrame \/ /\ asked.of \in Classes
                        /\ asked.id \in {"id", "null"}
                        /\ asked.at \in Locations
  /\ shown \subseteq Strings
  /\ table \in Tables \cup {<<>>}
  /\ line \in Nat \cup {-1}
  /\ unprimed \subseteq Classes
  /\ failed \subseteq MayFail
  /\ thrown \subseteq 1 .. queries

PrimingCalls == {"SetEventCallbacks", "SetEventNotificationMode", "GetClassMethods"}
NamingCalls  == {"GetMethodName", "GetMethodDeclaringClass", "GetClassSignature"}

\* OnClassPrepare has primed every class whose code is sampled, unless it ran
\* before the callback, was prepared too early to be seen, or the JVM failed.
Primed ==
  \A c \in Classes :
    <<c, "null">> \in recorded => c \in unprimed \/ failed \cap PrimingCalls # {}

\* From the event to the report: the frame of a class that could be primed and
\* is still there is shown with its class, name and signature.
SampledIsNamed ==
  /\ step = "idle" /\ asked # NoFrame /\ queries \notin thrown
  /\ asked.of \notin unprimed /\ class[asked.of] # "unloaded"
  /\ failed \cap (PrimingCalls \cup NamingCalls) = {}
  => {"className", "name", "sig"} \subseteq shown

\* A query that has returned has given everything back, but for the table of
\* one for which there was no memory to copy it.
NothingKept ==
  step = "idle" => heap \subseteq {<<q, "table">> : q \in thrown}

\* The line is that of an entry with the greatest start at or before the
\* position, and none when there is no such entry.
LineRight ==
  step = "idle" =>
    LET before == {i \in DOMAIN table : table[i].start <= asked.at}
    IN \/ before = {} /\ line = -1
       \/ \E i \in before : /\ \A j \in before : table[j].start <= table[i].start
                            /\ line = table[i].line

-----------------------------------------------------------------------------
(* What comments of the code say.                                          *)

\* "Every JVMTI interface returns an error code, which should be checked to
\* avoid any cascading errors down the line" (agent.cpp): nothing that the JVM
\* has not given is given back to it.
FreesOwn == \A c \in Classes : class[c] = "freeing" => methods[c] # "wild"
=============================================================================
