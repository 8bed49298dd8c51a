-------------------------- MODULE MethodNamesProofs --------------------------
(***************************************************************************)
(* Ids, names and lines, for any classes, tables and failures of the JVM.  *)
(***************************************************************************)
EXTENDS MethodNames, SequenceTheorems, TLAPS

\* What the JVM and the callbacks have done for a class by the time its code
\* can be sampled.
CouldFail == failed \cap PrimingCalls # {}

PrimedInv ==
  /\ phase \notin {"onload", "aborted"} => events \/ CouldFail
  /\ \A c \in Classes :
       /\ class[c] \in {"freeing", "prepared"} =>
            HasId(c) \/ c \in unprimed \/ CouldFail
       /\ <<c, "null">> \in recorded => c \in unprimed \/ CouldFail

\* The blocks that queries have left behind, and those of the one under way.
Kept == {<<q, "table">> : q \in thrown}
Own  == IF step \in {"class", "array"} THEN Blocks(Strings)
        ELSE IF step = "copy" THEN Blocks({"table"}) ELSE {}

HeapInv == heap \subseteq Kept \cup Own

\* The frame that is asked for is in the profile.
AskedInv == asked # NoFrame => <<asked.of, asked.id>> \in recorded

\* It can be named: nothing has gone wrong for it.
Nameable ==
  /\ asked # NoFrame /\ queries \notin thrown
  /\ asked.of \notin unprimed /\ class[asked.of] # "unloaded"
  /\ failed \cap (PrimingCalls \cup NamingCalls) = {}

NamedInv ==
  Nameable =>
    /\ step = "class" => {"name", "sig"} \subseteq Held
    /\ step = "array" => {"className", "name", "sig"} \subseteq Held
    /\ step \in {"table", "copy", "idle"} => {"className", "name", "sig"} \subseteq shown

LineInv ==
  /\ step # "idle" => line = -1
  /\ step \notin {"idle", "copy"} => table = <<>>
  /\ LineRight

QueryInv == step # "idle" => queries > 0

Typed == TypeOK /\ QueryInv

IInv == Typed /\ PrimedInv /\ HeapInv /\ AskedInv /\ NamedInv /\ LineInv

-----------------------------------------------------------------------------
(* Types.                                                                  *)

LEMMA InitTyped == Init => Typed
<1> SUFFICES ASSUME Init PROVE Typed
  OBVIOUS
<1> USE DEF Init
<1>1. heap \subseteq (1 .. queries) \X Kinds /\ thrown \subseteq 1 .. queries
  OBVIOUS
<1>2. line \in Nat \cup {-1} /\ table \in Tables \cup {<<>>}
  OBVIOUS
<1>3. events \in BOOLEAN /\ lineNumbers \in BOOLEAN
  OBVIOUS
<1>4. QueryInv
  BY DEF QueryInv
<1> QED
  BY <1>1, <1>2, <1>3, <1>4 DEF Typed, TypeOK, Phases, ClassStates, Steps, Strings

\* What the JVM gives to a query is a block of that query.
LEMMA BlockType ==
  ASSUME Typed, step # "idle", NEW kinds \in SUBSET Kinds
  PROVE  Blocks(kinds) \subseteq (1 .. queries) \X Kinds
BY DEF Typed, TypeOK, QueryInv, Blocks

\* The entries of a table.
LEMMA EntryType ==
  ASSUME NEW t \in Seq(Entry), NEW i \in 1 .. Len(t)
  PROVE  t[i] \in Entry /\ t[i].start \in Nat /\ t[i].line \in Nat
<1>1. t[i] \in Entry
  BY ElementOfSeq
<1> QED
  BY <1>1 DEF Entry

LEMMA TableType ==
  ASSUME Typed
  PROVE  table \in Seq(Entry) /\ Len(table) \in Nat /\ Sorted(table)
                              /\ DOMAIN table = 1 .. Len(table)
<1>1. table \in Seq(Entry) /\ Sorted(table)
  <2>1. CASE table \in Tables
    BY <2>1, NamesAssumption
  <2>2. CASE table = <<>>
    BY <2>2, EmptySeq DEF Sorted
  <2> QED
    BY <2>1, <2>2 DEF Typed, TypeOK
<1> QED
  BY <1>1, LenProperties

\* What Agent_OnLoad leaves: an agent that hears of classes, or an error.
LEMMA OnLoadOutcome ==
  ASSUME Typed, OnLoad
  PROVE  /\ events' \in BOOLEAN /\ lineNumbers' \in BOOLEAN
         /\ failed' \subseteq MayFail /\ failed \subseteq failed'
         /\ phase' \in {"primordial", "aborted"}
         /\ phase' = "primordial" => events' \/ failed' \cap PrimingCalls # {}
<1>1. CASE Fails("GetEnv") /\ Abort /\ UNCHANGED <<lineNumbers, events>>
  <2>1. events' \in BOOLEAN /\ lineNumbers' \in BOOLEAN
    BY <1>1 DEF Typed, TypeOK
  <2>2. failed' \subseteq MayFail /\ failed \subseteq failed' /\ phase' = "aborted"
    BY <1>1 DEF Typed, TypeOK, Fails, Abort
  <2> QED
    BY <2>1, <2>2
<1>2. CASE phase' = "primordial"
  <2>1. PICK errors \in SUBSET (MayFail \cap {"AddCapabilities",
                 "SetEventCallbacks", "SetEventNotificationMode"}) :
            /\ failed' = failed \cup errors
            /\ lineNumbers' = ("AddCapabilities" \notin errors)
            /\ events' = Listens(errors)
    BY <1>2 DEF OnLoad, Abort
  <2>2. lineNumbers' \in BOOLEAN
    BY <2>1
  <2>3. events' = (errors \subseteq {"AddCapabilities"})
    BY <2>1 DEF Listens
  <2>4. events' \in BOOLEAN
    BY <2>3
  <2>5. events' \/ failed' \cap PrimingCalls # {}
    <3>1. CASE errors \subseteq {"AddCapabilities"}
      BY <2>3, <3>1
    <3>2. CASE ~(errors \subseteq {"AddCapabilities"})
      BY <2>1, <3>2 DEF PrimingCalls
    <3> QED
      BY <3>1, <3>2
  <2>6. failed' \subseteq MayFail /\ failed \subseteq failed'
    BY <2>1 DEF Typed, TypeOK
  <2> QED
    BY <1>2, <2>1, <2>2, <2>4, <2>5, <2>6
<1> QED
  BY <1>1, <1>2 DEF OnLoad

LEMMA TypedStep == Typed /\ [Next]_vars => Typed'
<1> SUFFICES ASSUME Typed, [Next]_vars PROVE Typed'
  OBVIOUS
<1> USE NamesAssumption DEF Typed, QueryInv, TypeOK, agent, query, Phases,
                            ClassStates, Steps, Works, Fails, Abort, In
<1>1. CASE OnLoad
  <2>1. events' \in BOOLEAN /\ lineNumbers' \in BOOLEAN
    BY <1>1, OnLoadOutcome
  <2>2. failed' \subseteq MayFail /\ phase' \in Phases
    BY <1>1, OnLoadOutcome
  <2> QED
    BY <1>1, <2>1, <2>2 DEF OnLoad
<1>2. CASE NextPhase
  BY <1>2 DEF NextPhase
<1>3. ASSUME NEW c \in Classes, Prepare(c) \/ Unload(c) \/ Sample(c) PROVE Typed'
  <2>1. class' \in [Classes -> ClassStates]
    BY <1>3 DEF Prepare, Unload, Sample
  <2>2. recorded' \subseteq Classes \X {"id", "null"} /\ unprimed' \subseteq Classes
    BY <1>3 DEF Prepare, Unload, Sample
  <2>3. UNCHANGED <<phase, agent, query, failed>>
    BY <1>3 DEF Prepare, Unload, Sample
  <2> QED
    BY <2>1, <2>2, <2>3
<1>4. ASSUME NEW c \in Classes, ClassMethods(c) \/ FreeMethods(c) PROVE Typed'
  <2>1. CASE ClassMethods(c)
    <3>1. PICK p \in {"given", "null", "wild"} :
            /\ methods' = [methods EXCEPT ![c] = p]
            /\ IF p = "given" THEN Works ELSE Fails("GetClassMethods")
      BY <2>1 DEF ClassMethods
    <3>2. failed' \subseteq MayFail
      BY <3>1
    <3>3. methods' \in [Classes -> {"unset", "given", "null", "wild", "freed"}]
      BY <3>1
    <3> QED
      BY <2>1, <3>2, <3>3 DEF ClassMethods
  <2>2. CASE FreeMethods(c)
    <3>1. methods' \in [Classes -> {"unset", "given", "null", "wild", "freed"}]
      BY <2>2 DEF FreeMethods
    <3> QED
      BY <2>2, <3>1 DEF FreeMethods
  <2> QED
    BY <1>4, <2>1, <2>2
<1>5. ASSUME NEW c \in Classes, NEW k \in {"id", "null"}, NEW b \in Locations,
             Ask(c, k, b)
      PROVE  Typed'
  <2>1. queries' = queries + 1 /\ 1 .. queries \subseteq 1 .. queries'
    BY <1>5 DEF Ask
  <2>2. heap' \subseteq (1 .. queries') \X Kinds /\ thrown' \subseteq 1 .. queries'
    BY <1>5, <2>1 DEF Ask
  <2> QED
    BY <1>5, <2>1, <2>2 DEF Ask, Frame
<1>6. CASE GetMethodName
  <2>1. heap' \subseteq (1 .. queries) \X Kinds
    BY <1>6, BlockType DEF GetMethodName, Kinds, Strings
  <2>2. failed' \subseteq MayFail
    BY <1>6 DEF GetMethodName
  <2> QED
    BY <1>6, <2>1, <2>2 DEF GetMethodName
<1>7. CASE GetClassName
  <2>1. heap' \subseteq (1 .. queries) \X Kinds
    BY <1>7, BlockType DEF GetClassName, Kinds, Strings
  <2>2. failed' \subseteq MayFail
    BY <1>7 DEF GetClassName
  <2> QED
    BY <1>7, <2>1, <2>2 DEF GetClassName
<1>8. CASE ReturnInfo
  <2>1. shown' \subseteq Strings
    BY <1>8 DEF ReturnInfo, Held
  <2>2. heap' \subseteq heap /\ thrown' \subseteq thrown \cup {queries}
    BY <1>8 DEF ReturnInfo, GivenBack
  <2>4. queries \in 1 .. queries
    BY <1>8 DEF ReturnInfo
  <2>3. phase' \in Phases /\ step' \in Steps /\ failed' \subseteq MayFail
    BY <1>8 DEF ReturnInfo
  <2>5. UNCHANGED <<agent, class, recorded, asked, table, line, queries, unprimed>>
    BY <1>8 DEF ReturnInfo
  <2> QED
    BY <2>1, <2>2, <2>3, <2>4, <2>5
<1>9. CASE GetTable
  <2>1. heap' \subseteq (1 .. queries) \X Kinds
    BY <1>9, BlockType DEF GetTable, Kinds
  <2> QED
    BY <1>9, <2>1 DEF GetTable
<1>10. CASE FindLine
  <2>1. Len(table) \in Nat /\ table \in Seq(Entry)
    BY TableType
  <2>2. ASSUME NEW n \in 0 .. Len(table), n # 0 PROVE table[n].line \in Nat
    <3>1. n \in 1 .. Len(table)
      BY <2>1, <2>2
    <3> QED
      BY <2>1, <3>1, EntryType
  <2>3. line' \in Nat \cup {-1}
    <3>1. CASE line' = line
      BY <3>1
    <3>2. CASE \E n \in 0 .. Len(table) : line' = IF n = 0 THEN -1 ELSE table[n].line
      BY <2>2, <3>2
    <3>3. \/ line' = line
          \/ \E n \in 0 .. Len(table) : line' = IF n = 0 THEN -1 ELSE table[n].line
      BY <1>10 DEF FindLine
    <3> QED
      BY <3>1, <3>2, <3>3
  <2>4. heap' \subseteq heap /\ thrown' \subseteq thrown \cup {queries}
    BY <1>10 DEF FindLine, GivenBack
  <2>5. queries \in 1 .. queries
    BY <1>10 DEF FindLine
  <2>6. table' \in Tables \cup {<<>>} /\ failed' \subseteq MayFail /\ step' \in Steps
    BY <1>10 DEF FindLine
  <2>7. UNCHANGED <<phase, agent, class, recorded, asked, shown, queries, unprimed>>
    BY <1>10 DEF FindLine
  <2> QED
    BY <2>3, <2>4, <2>5, <2>6, <2>7
<1>11. CASE UNCHANGED vars
  BY <1>11 DEF vars
<1> QED
  BY <1>1, <1>2, <1>3, <1>4, <1>5, <1>6, <1>7, <1>8, <1>9, <1>10, <1>11 DEF Next

\* Every variable has its type, whichever functions of the JVM fail.
THEOREM TypeCorrect == Spec => []TypeOK
<1>1. Typed => TypeOK
  BY DEF Typed
<1> QED
  BY <1>1, InitTyped, TypedStep, PTL DEF Spec

-----------------------------------------------------------------------------
(* Priming.                                                                *)

LEMMA PrimedStep == Typed /\ PrimedInv /\ [Next]_vars => PrimedInv'
<1> SUFFICES ASSUME Typed, PrimedInv, [Next]_vars PROVE PrimedInv'
  OBVIOUS
<1> USE DEF PrimedInv, CouldFail, HasId, agent
<1>t. /\ class \in [Classes -> ClassStates]
      /\ methods \in [Classes -> {"unset", "given", "null", "wild", "freed"}]
  BY DEF Typed, TypeOK
<1>1. CASE OnLoad
  <2>1. phase' \notin {"onload", "aborted"} => events' \/ CouldFail'
    BY <1>1, OnLoadOutcome
  <2>2. class' = class /\ methods' = methods /\ recorded' = recorded
        /\ unprimed' = unprimed
    BY <1>1 DEF OnLoad
  <2>3. ASSUME NEW c \in Classes
        PROVE  /\ class'[c] \in {"freeing", "prepared"} =>
                    methods'[c] \in {"given", "freed"} \/ c \in unprimed' \/ CouldFail'
               /\ <<c, "null">> \in recorded' => c \in unprimed' \/ CouldFail'
    <3>1. failed \subseteq failed'
      BY <1>1, OnLoadOutcome
    <3> QED
      BY <2>2, <3>1
  <2> QED
    BY <2>1, <2>3
<1>2. CASE NextPhase
  BY <1>2 DEF NextPhase
<1>3. ASSUME NEW c \in Classes, Prepare(c) PROVE PrimedInv'
  BY <1>3, <1>t DEF Prepare
<1>4. ASSUME NEW c \in Classes, Unload(c) \/ Sample(c) PROVE PrimedInv'
  BY <1>4, <1>t DEF Unload, Sample
<1>5. ASSUME NEW c \in Classes, ClassMethods(c) PROVE PrimedInv'
  BY <1>5, <1>t DEF ClassMethods, Works, Fails, PrimingCalls
<1>6. ASSUME NEW c \in Classes, FreeMethods(c) PROVE PrimedInv'
  BY <1>6, <1>t DEF FreeMethods, Abort
<1>7. /\ UNCHANGED <<agent, class, recorded, unprimed>>
      /\ failed \subseteq failed'
      /\ phase' = phase \/ phase' = "aborted"
      => PrimedInv'
  OBVIOUS
<1>8. ASSUME \/ \E c \in Classes, k \in {"id", "null"}, b \in Locations : Ask(c, k, b)
             \/ GetMethodName \/ GetClassName \/ ReturnInfo \/ GetTable \/ FindLine
             \/ UNCHANGED vars
      PROVE  PrimedInv'
  <2>1. failed \subseteq failed'
    BY <1>8 DEF Ask, GetMethodName, GetClassName, ReturnInfo, GetTable, FindLine,
                vars, Works, Fails
  <2>2. phase' = phase \/ phase' = "aborted"
    BY <1>8 DEF Ask, GetMethodName, GetClassName, ReturnInfo, GetTable, FindLine,
                vars, Abort
  <2> QED
    BY <1>7, <1>8, <2>1, <2>2
       DEF Ask, GetMethodName, GetClassName, ReturnInfo, GetTable, FindLine, vars
<1> QED
  BY <1>1, <1>2, <1>3, <1>4, <1>5, <1>6, <1>8 DEF Next

-----------------------------------------------------------------------------
(* What the queries hold and show.                                         *)

\* The steps that are not of the reporting thread.
Others ==
  \/ OnLoad \/ NextPhase
  \/ \E c \in Classes : Prepare(c) \/ Unload(c) \/ Sample(c)
                        \/ ClassMethods(c) \/ FreeMethods(c)

Asks == \E c \in Classes, k \in {"id", "null"}, b \in Locations : Ask(c, k, b)

LEMMA StepCases ==
  [Next]_vars => \/ Others \/ Asks \/ GetMethodName \/ GetClassName \/ ReturnInfo
                 \/ GetTable \/ FindLine \/ UNCHANGED vars
BY DEF Next, Others, Asks

\* They leave the query alone, and forget nothing.
LEMMA OthersQuiet ==
  ASSUME Typed, Others \/ UNCHANGED vars
  PROVE  UNCHANGED query /\ recorded \subseteq recorded'
<1>1. CASE OnLoad \/ NextPhase \/ UNCHANGED vars
  BY <1>1 DEF OnLoad, NextPhase, vars
<1>2. ASSUME NEW c \in Classes,
             Prepare(c) \/ Unload(c) \/ Sample(c) \/ ClassMethods(c) \/ FreeMethods(c)
      PROVE  UNCHANGED query /\ recorded \subseteq recorded'
  BY <1>2 DEF Prepare, Unload, Sample, ClassMethods, FreeMethods, agent
<1> QED
  BY <1>1, <1>2 DEF Others

LEMMA HeapStep == Typed /\ HeapInv /\ [Next]_vars => HeapInv'
<1> SUFFICES ASSUME Typed, HeapInv, [Next]_vars PROVE HeapInv'
  OBVIOUS
<1> USE DEF HeapInv, Kept, Own, Blocks, GivenBack, In
<1>1. CASE Others \/ UNCHANGED vars
  BY <1>1, OthersQuiet DEF query
<1>2. CASE Asks
  BY <1>2 DEF Asks, Ask
<1>3. CASE GetMethodName
  BY <1>3 DEF GetMethodName, Strings
<1>4. CASE GetClassName
  BY <1>4 DEF GetClassName, Strings
<1>5. CASE ReturnInfo
  <2>1. CASE heap' = heap \ Blocks(Strings) /\ step' \in {"idle", "table"}
    BY <1>5, <2>1 DEF ReturnInfo
  <2>2. CASE Held = {} /\ step' = "idle" /\ UNCHANGED heap
    <3>1. heap \cap Blocks(Strings) = {}
      BY <2>2 DEF Held
    <3>2. thrown \subseteq thrown'
      BY <1>5 DEF ReturnInfo
    <3> QED
      BY <1>5, <2>2, <3>1, <3>2 DEF ReturnInfo
  <2>3. CASE UNCHANGED <<heap, step, thrown>>
    BY <1>5, <2>3 DEF ReturnInfo
  <2> QED
    BY <1>5, <2>1, <2>2, <2>3 DEF ReturnInfo, Deallocated
<1>6. CASE GetTable
  BY <1>6 DEF GetTable
<1>7. CASE FindLine
  BY <1>7 DEF FindLine
<1> QED
  BY <1>1, <1>2, <1>3, <1>4, <1>5, <1>6, <1>7, StepCases

\* What was said about a frame is forgotten with the question.
LEMMA NameableStays ==
  ASSUME Typed, [Next]_vars, UNCHANGED <<asked, queries>>, Nameable'
  PROVE  Nameable
<1>1. asked # NoFrame /\ asked.of \in Classes
  BY DEF Nameable, Typed, TypeOK
<1>2. thrown \subseteq thrown' /\ unprimed \subseteq unprimed' /\ failed \subseteq failed'
  <2>1. CASE Others \/ UNCHANGED vars
    <3>1. CASE OnLoad
      BY <3>1, OnLoadOutcome, OthersQuiet DEF OnLoad, Others, query
    <3>2. CASE NextPhase \/ UNCHANGED vars
      BY <3>2 DEF NextPhase, vars, query
    <3>3. ASSUME NEW c \in Classes,
                 Prepare(c) \/ Unload(c) \/ Sample(c) \/ FreeMethods(c)
          PROVE  thrown \subseteq thrown' /\ unprimed \subseteq unprimed'
                 /\ failed \subseteq failed'
      BY <3>3 DEF Prepare, Unload, Sample, FreeMethods, query
    <3>4. ASSUME NEW c \in Classes, ClassMethods(c)
          PROVE  thrown \subseteq thrown' /\ unprimed \subseteq unprimed'
                 /\ failed \subseteq failed'
      BY <3>4 DEF ClassMethods, query, Works, Fails
    <3> QED
      BY <2>1, <3>1, <3>2, <3>3, <3>4 DEF Others
  <2>2. CASE Asks
    BY <2>2 DEF Asks, Ask
  <2>3. CASE GetMethodName \/ GetClassName \/ ReturnInfo \/ GetTable \/ FindLine
    BY <2>3 DEF GetMethodName, GetClassName, ReturnInfo, GetTable, FindLine,
                Works, Fails
  <2> QED
    BY <2>1, <2>2, <2>3, StepCases
<1>3. class[asked.of] = "unloaded" => class'[asked.of] = "unloaded"
  <2>1. class \in [Classes -> ClassStates]
    BY DEF Typed, TypeOK
  <2>2. CASE Others \/ UNCHANGED vars
    <3>1. CASE OnLoad \/ NextPhase \/ UNCHANGED vars
      BY <3>1 DEF OnLoad, NextPhase, vars
    <3>2. ASSUME NEW c \in Classes, Prepare(c) \/ Unload(c) \/ Sample(c)
          PROVE  class[asked.of] = "unloaded" => class'[asked.of] = "unloaded"
      BY <1>1, <2>1, <3>2 DEF Prepare, Unload, Sample
    <3>3. ASSUME NEW c \in Classes, ClassMethods(c) \/ FreeMethods(c)
          PROVE  class[asked.of] = "unloaded" => class'[asked.of] = "unloaded"
      BY <1>1, <2>1, <3>3 DEF ClassMethods, FreeMethods
    <3> QED
      BY <2>2, <3>1, <3>2, <3>3 DEF Others
  <2>3. CASE Asks
    BY <2>3 DEF Asks, Ask
  <2>4. CASE GetMethodName \/ GetClassName \/ ReturnInfo \/ GetTable \/ FindLine
    BY <2>4 DEF GetMethodName, GetClassName, ReturnInfo, GetTable, FindLine
  <2> QED
    BY <2>2, <2>3, <2>4, StepCases
<1> QED
  BY <1>1, <1>2, <1>3 DEF Nameable

LEMMA AskedStep == Typed /\ AskedInv /\ [Next]_vars => AskedInv'
<1> SUFFICES ASSUME Typed, AskedInv, [Next]_vars PROVE AskedInv'
  OBVIOUS
<1> USE DEF AskedInv, In
<1>1. CASE Others \/ UNCHANGED vars
  BY <1>1, OthersQuiet DEF query
<1>2. ASSUME NEW c \in Classes, NEW k \in {"id", "null"}, NEW b \in Locations,
             Ask(c, k, b)
      PROVE  AskedInv'
  <2>1. asked' = [of |-> c, id |-> k, at |-> b] /\ recorded' = recorded
        /\ <<c, k>> \in recorded
    BY <1>2 DEF Ask, Frame
  <2>2. asked'.of = c /\ asked'.id = k
    BY <2>1
  <2> QED
    BY <2>1, <2>2
<1>3. CASE GetMethodName \/ GetClassName \/ ReturnInfo \/ GetTable \/ FindLine
  BY <1>3 DEF GetMethodName, GetClassName, ReturnInfo, GetTable, FindLine
<1> QED
  BY <1>1, <1>2, <1>3, StepCases DEF Asks

\* A frame that can be named has an id that the JVM knows.
LEMMA NameableKnown == ASSUME Typed, PrimedInv, AskedInv, Nameable PROVE Known
<1>1. asked.of \in Classes /\ asked.id \in {"id", "null"}
  BY DEF Typed, TypeOK, Nameable
<1>2. asked.id # "null"
  BY <1>1 DEF PrimedInv, AskedInv, Nameable, CouldFail
<1> QED
  BY <1>1, <1>2 DEF Known, Nameable

LEMMA NamedStep ==
  Typed /\ PrimedInv /\ AskedInv /\ NamedInv /\ [Next]_vars => NamedInv'
<1> SUFFICES ASSUME Typed, PrimedInv, AskedInv, NamedInv, [Next]_vars, Nameable'
             PROVE  (/\ step = "class" => {"name", "sig"} \subseteq Held
                     /\ step = "array" => {"className", "name", "sig"} \subseteq Held
                     /\ step \in {"table", "copy", "idle"} =>
                          {"className", "name", "sig"} \subseteq shown)'
  BY DEF NamedInv
<1>a. UNCHANGED <<asked, queries>> => Nameable /\ Known
  BY NameableStays, NameableKnown
<1>f. \A f \in PrimingCalls \cup NamingCalls : f \notin failed'
  BY DEF Nameable
<1> USE DEF NamedInv, In
<1>1. CASE Others \/ UNCHANGED vars
  BY <1>1, <1>a, OthersQuiet DEF query, Held
<1>2. CASE Asks
  BY <1>2 DEF Asks, Ask
<1>3. CASE GetMethodName
  <2>1. ~Fails("GetMethodName")
    BY <1>f DEF Fails, NamingCalls
  <2>2. Blocks({"name", "sig"}) \subseteq heap' /\ queries' = queries /\ step' = "class"
    BY <1>3, <1>a, <2>1 DEF GetMethodName, Blocks
  <2> QED
    BY <2>2 DEF Held, Blocks, Strings
<1>4. CASE GetClassName
  <2>1. ~Fails("GetMethodDeclaringClass") /\ ~Fails("GetClassSignature")
    BY <1>f DEF Fails, NamingCalls
  <2>2. heap' = heap \cup Blocks({"className"}) /\ queries' = queries /\ step' = "array"
    BY <1>4, <1>a, <2>1 DEF GetClassName, HasClass
  <2>3. {"name", "sig"} \subseteq Held
    BY <1>4, <1>a DEF GetClassName
  <2> QED
    BY <2>2, <2>3 DEF Held, Blocks, Strings
<1>5. CASE ReturnInfo
  <2>1. queries' \notin thrown' /\ UNCHANGED <<asked, queries>>
    BY <1>5 DEF Nameable, ReturnInfo
  <2>2. {"className", "name", "sig"} \subseteq Held
    BY <1>5, <1>a, <2>1 DEF ReturnInfo
  <2>3. CASE shown' = Held /\ step' \in {"idle", "table"}
    BY <2>2, <2>3
  <2>4. CASE step' = step /\ UNCHANGED heap
    BY <1>5, <2>1, <2>2, <2>4 DEF ReturnInfo, Held
  <2> QED
    BY <1>5, <2>1, <2>3, <2>4 DEF ReturnInfo
<1>6. CASE GetTable
  BY <1>6, <1>a DEF GetTable
<1>7. CASE FindLine
  BY <1>7, <1>a DEF FindLine
<1> QED
  BY <1>1, <1>2, <1>3, <1>4, <1>5, <1>6, <1>7, StepCases

\* The scan of a table in the order of the code ends at the entry of the
\* position.
LEMMA ScanFinds ==
  ASSUME Typed, NEW n \in Nat, Scanned(table, n)
  PROVE  LET before == {i \in DOMAIN table : table[i].start <= asked.at}
         IN \/ n = 0 /\ before = {}
            \/ n \in before /\ \A j \in before : table[j].start <= table[n].start
<1> DEFINE before == {i \in DOMAIN table : table[i].start <= asked.at}
<1>1. /\ Len(table) \in Nat /\ DOMAIN table = 1 .. Len(table)
      /\ \A i \in 1 .. Len(table) : table[i].start \in Nat
      /\ asked.at \in Int
  <2>1. asked.at \in Int
    <3>1. CASE asked = NoFrame
      BY <3>1 DEF NoFrame
    <3>2. CASE asked.at \in Locations
      BY <3>2, NamesAssumption
    <3> QED
      BY <3>1, <3>2 DEF Typed, TypeOK
  <2>2. Len(table) \in Nat /\ DOMAIN table = 1 .. Len(table)
    BY TableType
  <2>3. \A i \in 1 .. Len(table) : table[i].start \in Nat
    BY TableType, EntryType
  <2> QED
    BY <2>1, <2>2, <2>3
<1>2. \A i, j \in 1 .. Len(table) : i <= j => table[i].start <= table[j].start
  BY <1>1, TableType DEF Sorted
<1>3. ASSUME NEW i \in before PROVE i \in 1 .. n
  <2>1. n < Len(table) => table[n + 1].start > asked.at
    BY DEF Scanned
  <2>2. i \in 1 .. Len(table) /\ table[i].start <= asked.at
    BY <1>1
  <2>3. i > n => n + 1 \in 1 .. Len(table) /\ n < Len(table)
    BY <1>1, <2>2
  <2>4. i > n => table[n + 1].start <= table[i].start
    BY <1>1, <1>2, <2>2, <2>3
  <2>5. n + 1 \in 1 .. Len(table) => table[n + 1].start \in Nat
    BY <1>1
  <2> QED
    BY <1>1, <2>1, <2>2, <2>3, <2>4, <2>5
<1>4. CASE n = 0
  BY <1>3, <1>4
<1>5. CASE n # 0
  <2>1. n \in 1 .. n /\ n \in 1 .. Len(table)
    BY <1>1, <1>5 DEF Scanned
  <2>2. n \in before
    BY <1>1, <2>1 DEF Scanned
  <2>3. ASSUME NEW j \in before PROVE table[j].start <= table[n].start
    BY <1>1, <1>2, <1>3, <2>1
  <2> QED
    BY <2>2, <2>3
<1> QED
  BY <1>4, <1>5

LEMMA LineStep == Typed /\ LineInv /\ [Next]_vars => LineInv'
<1> SUFFICES ASSUME Typed, LineInv, [Next]_vars PROVE LineInv'
  OBVIOUS
<1> USE DEF LineInv, In
<1>e. ASSUME table' = <<>>, line' = -1 PROVE LineRight'
  BY <1>e DEF LineRight
<1>1. CASE Others \/ UNCHANGED vars
  BY <1>1, OthersQuiet DEF query, LineRight
<1>2. CASE Asks
  BY <1>2, <1>e DEF Asks, Ask
<1>3. CASE GetMethodName \/ GetClassName
  BY <1>3, <1>e DEF GetMethodName, GetClassName
<1>4. CASE ReturnInfo
  BY <1>4, <1>e DEF ReturnInfo
<1>5. CASE GetTable
  <2>1. CASE step' = "idle" /\ UNCHANGED <<table, heap>>
    BY <1>5, <1>e, <2>1 DEF GetTable
  <2>2. CASE step' = "copy"
    BY <1>5, <2>2 DEF GetTable, LineRight
  <2> QED
    BY <1>5, <2>1, <2>2 DEF GetTable
<1>6. CASE FindLine
  <2>1. CASE table' = <<>> /\ UNCHANGED line
    BY <1>6, <1>e, <2>1 DEF FindLine
  <2>2. CASE UNCHANGED table /\ \E n \in 0 .. Len(table) :
                /\ Scanned(table, n)
                /\ line' = IF n = 0 THEN -1 ELSE table[n].line
    <3>1. PICK n \in 0 .. Len(table) : /\ Scanned(table, n)
                                       /\ line' = IF n = 0 THEN -1 ELSE table[n].line
      BY <2>2
    <3>2. n \in Nat
      BY TableType
    <3> DEFINE before == {i \in DOMAIN table : table[i].start <= asked.at}
    <3>3. \/ n = 0 /\ before = {}
          \/ n \in before /\ \A j \in before : table[j].start <= table[n].start
      BY <3>1, <3>2, ScanFinds
    <3>4. CASE n = 0
      BY <1>6, <2>2, <3>1, <3>3, <3>4, TableType DEF LineRight, FindLine
    <3>5. CASE n # 0
      <4>1. line' = table[n].line
        BY <3>1, <3>5
      <4>2. table' = table /\ asked' = asked /\ step' = "idle"
        BY <1>6, <2>2 DEF FindLine
      <4> QED
        BY <3>3, <3>5, <4>1, <4>2 DEF LineRight
    <3> QED
      BY <3>4, <3>5
  <2> QED
    BY <1>6, <2>1, <2>2 DEF FindLine
<1> QED
  BY <1>1, <1>2, <1>3, <1>4, <1>5, <1>6, StepCases

-----------------------------------------------------------------------------
(* The theorems.                                                           *)

LEMMA InitInv == Init => IInv
<1> SUFFICES ASSUME Init PROVE IInv
  OBVIOUS
<1>1. PrimedInv /\ HeapInv /\ AskedInv
  BY DEF Init, PrimedInv, HeapInv, AskedInv
<1>2. NamedInv
  BY DEF Init, NamedInv, Nameable
<1>3. LineInv
  BY DEF Init, LineInv, LineRight
<1> QED
  BY <1>1, <1>2, <1>3, InitTyped DEF IInv

\* IInv holds throughout: whatever the JVM answers and the order it loads in.
THEOREM Invariance == Spec => []IInv
<1>1. IInv /\ [Next]_vars => IInv'
  BY TypedStep, PrimedStep, HeapStep, AskedStep, NamedStep, LineStep DEF IInv
<1> QED
  BY <1>1, InitInv, PTL DEF Spec

\* Every class whose code is sampled has its ids, but for the reasons that
\* Primed names: OnClassPrepare primes the pump.
THEOREM PrimedCorrect == Spec => []Primed
<1>1. IInv => Primed
  BY DEF IInv, PrimedInv, CouldFail, Primed
<1> QED
  BY <1>1, Invariance, PTL

\* And its frames are shown with their names, from the event to the report.
THEOREM NamedCorrect == Spec => []SampledIsNamed
<1>1. IInv => SampledIsNamed
  BY DEF IInv, NamedInv, Nameable, SampledIsNamed
<1> QED
  BY <1>1, Invariance, PTL

\* getMethodInfo0 and getLineNumberTable0 give back all they have got, but for
\* the table of a query that ended in an OutOfMemoryError.
THEOREM AllGivenBack == Spec => []NothingKept
<1>1. IInv => NothingKept
  BY DEF IInv, HeapInv, Kept, Own, NothingKept
<1> QED
  BY <1>1, Invariance, PTL

\* getMethodName gives the line of the code at the position of the frame.
THEOREM LineCorrect == Spec => []LineRight
<1>1. IInv => LineRight
  BY DEF IInv, LineInv
<1> QED
  BY <1>1, Invariance, PTL
=============================================================================
