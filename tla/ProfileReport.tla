---------------------------- MODULE ProfileReport ----------------------------
(***************************************************************************)
(* The report on a profile: ProfileData.analyze, getReduced, the flat and  *)
(* the cumulative profile of ProfilerUtils, and the choice of nodes and    *)
(* edges in DotGraph.printDot, in the order in which JvmAgent and Main     *)
(* call them.                                                              *)
(*                                                                         *)
(* Maps are functions with 0 for the keys that are not there.  The order   *)
(* of a HashMap, and so the order of equal counts after a sort, is a free  *)
(* choice.  Counts are not bounded: a session has fewer than 2^31 samples. *)
(***************************************************************************)
EXTENDS Integers, SequencesExt, FiniteSetsExt, Counting

CONSTANTS
  Locations,  \* the virtual PCs: a method and a line
  Names,      \* the names of methods, ordered as numbers are
  NoName,     \* the empty name, of a method that JVMTI no longer knows
  NameOf,     \* getMethodName, without the line
  Profiles,   \* the observations: sequences of [count, stack]
  NodeCount,  \* optNodeCount (80)
  NodePart,   \* 1 / optNodeFraction (200)
  EdgePart,   \* 1 / optEdgeFraction (1000)
  MaxDegree   \* optMaxDegree (8)

\* An observation of the reader: the collector keeps no empty stack.
Observation == [count : Nat, stack : Seq(Locations) \ {<<>>}]

ASSUME ReportAssumption ==
  /\ IsFiniteSet(Locations) /\ IsFiniteSet(Names)
  /\ NoName \notin Names
  /\ NameOf \in [Locations -> Names \cup {NoName}]
  /\ Profiles \subseteq Seq(Observation)
  /\ NodeCount \in Nat /\ MaxDegree \in Nat
  /\ NodePart \in Nat \ {0} /\ EdgePart \in Nat \ {0}

VARIABLES
  observations,  \* what read() has recorded
  stage,         \* how far the report is
  selfCount,     \* of each location
  cumulativeCount,
  reduced,       \* the paths and their counts
  flat,          \* counts by name
  cumulative,
  node,          \* the names in the graph
  edge,          \* count of each caller and callee in the graph
  left,          \* the edges still to be looked at
  kept,          \* the edges printed
  indegree,      \* how many of them there are, by callee
  outdegree      \* and by caller

tables == <<selfCount, cumulativeCount>>
graph  == <<node, edge, left, kept, indegree, outdegree>>
vars   == <<observations, stage, tables, reduced, flat, cumulative, graph>>

Pairs == Names \X Names
None  == [m \in Names |-> 0]

Init ==
  /\ observations \in Profiles
  /\ stage = "analyze"
  /\ selfCount = [l \in Locations |-> 0]
  /\ cumulativeCount = [l \in Locations |-> 0]
  /\ reduced = <<>>
  /\ flat = None
  /\ cumulative = None
  /\ node = {}
  /\ edge = [e \in Pairs |-> 0]
  /\ left = {}
  /\ kept = {}
  /\ indegree = None
  /\ outdegree = None

-----------------------------------------------------------------------------
(* Counting.                                                               *)

\* The sum of the counts of q where Test holds, once for each place.
SumWhere(q, Places(_)) ==
  Total([i \in DOMAIN q |-> q[i].count * Cardinality(Places(q[i]))])

At(s, x)  == {i \in DOMAIN s : s[i] = x}
Top(s, x) == At(s, x) \cap {1}

Analyze ==
  /\ stage = "analyze"
  /\ selfCount' =
       [l \in Locations |-> SumWhere(observations, LAMBDA o : Top(o.stack, l))]
  /\ cumulativeCount' =
       [l \in Locations |-> SumWhere(observations, LAMBDA o : At(o.stack, l))]
  /\ stage' = "reduce"
  /\ UNCHANGED <<observations, reduced, flat, cumulative, graph>>

\* A faulty variant: a recursion is kept.
ExtendedAlways(p, l) == IF NameOf[l] = NoName THEN p ELSE Append(p, NameOf[l])

\* A path and the caller l of its last frame: a name comes once, no name never.
Extended(p, l) == IF NameOf[l] \in ToSet(p) \cup {NoName} THEN p
                                                          ELSE Append(p, NameOf[l])

\* A faulty variant: the path begins with the callers.
PathFromRoot(s) == FoldRight(LAMBDA l, p : Extended(p, l), s, <<>>)

\* The names of a stack, each once, from the callee to the callers.
Path(s) ==
  LET path[n \in 0 .. Len(s)] ==
        IF n = 0 THEN <<>> ELSE Extended(path[n - 1], s[n])
  IN path[Len(s)]

\* getReduced: the key is an array, equal to no other, so that every
\* observation has an entry of its own.
Reduce ==
  /\ stage = "reduce"
  /\ reduced' = [i \in DOMAIN observations |->
                   [count |-> observations[i].count,
                    path  |-> Path(observations[i].stack)]]
  /\ stage' = "count"
  /\ UNCHANGED <<observations, tables, flat, cumulative, graph>>

\* getFlatProfile and getCumulativeProfile.
CountNames ==
  /\ stage = "count"
  /\ flat' = [m \in Names |-> SumWhere(reduced, LAMBDA r : Top(r.path, m))]
  /\ cumulative' = [m \in Names |-> SumWhere(reduced, LAMBDA r : At(r.path, m))]
  /\ stage' = "nodes"
  /\ UNCHANGED <<observations, tables, reduced, graph>>

-----------------------------------------------------------------------------
(* DotGraph.printDot.                                                      *)

LocalTotal == Total(flat)

\* (int) of a product of floats: for 0.005f and 0.001f that is the division,
\* for every total below 10,000,000.
NodeLimit  == LocalTotal \div NodePart
EdgeLimit  == LocalTotal \div EdgePart

Keys == {m \in Names : cumulative[m] > 0}

\* A faulty variant: one node too few.
FirstNodesButOne(S) ==
  /\ Cardinality(S) = Min({NodeCount - 1, Cardinality(Keys)})
  /\ \A m \in S, n \in Keys \ S : cumulative[m] >= cumulative[n]

\* The first nodes of the list of names by descending cumulative count.
FirstNodes(S) ==
  /\ Cardinality(S) = Min({NodeCount, Cardinality(Keys)})
  /\ \A m \in S, n \in Keys \ S : cumulative[m] >= cumulative[n]

SelectNodes ==
  /\ stage = "nodes"
  /\ \E S \in SUBSET Keys : /\ FirstNodes(S)
                            /\ node' = {m \in S : cumulative[m] > NodeLimit}
  /\ stage' = IF node' = {} THEN "empty" ELSE "edges"
  /\ UNCHANGED <<observations, tables, reduced, flat, cumulative, edge, left,
                 kept, indegree, outdegree>>

\* A faulty variant: the last call of a path is left out.
CallsShort(p, e) == {i \in 2 .. Len(p) - 1 : <<p[i], p[i - 1]>> = e}

\* Where path p has a call of e[2] by e[1].
CallsOf(p, e) == {i \in 2 .. Len(p) : <<p[i], p[i - 1]>> = e}

\* A faulty variant: the methods left out have edges too.
InGraphAny(e) == TRUE

InGraph(e) == e \in node \X node

EdgeCount(e) ==
  IF InGraph(e) THEN SumWhere(reduced, LAMBDA r : CallsOf(r.path, e)) ELSE 0

CountEdges ==
  /\ stage = "edges"
  /\ edge' = [e \in Pairs |-> EdgeCount(e)]
  /\ left' = {e \in Pairs : edge'[e] > 0}
  /\ stage' = "print"
  /\ UNCHANGED <<observations, tables, reduced, flat, cumulative, node, kept,
                 indegree, outdegree>>

\* Faulty variants: the limit is looked at first, and a degree may be passed.
KeepAboveLimit(src, dst) ==
  /\ edge[<<src, dst>>] > EdgeLimit
  /\ \/ indegree[dst] = 0
     \/ outdegree[src] < MaxDegree /\ indegree[dst] < MaxDegree

KeepOneMore(src, dst) ==
  \/ indegree[dst] = 0
  \/ /\ edge[<<src, dst>>] > EdgeLimit
     /\ outdegree[src] < MaxDegree
     /\ indegree[dst] <= MaxDegree

\* The first edge into a node is kept, another only when it counts and
\* neither end has enough of them.
Keep(src, dst) ==
  \/ indegree[dst] = 0
  \/ /\ edge[<<src, dst>>] > EdgeLimit
     /\ outdegree[src] < MaxDegree
     /\ indegree[dst] < MaxDegree

\* The next edge by descending count is printed or dropped.
TakeEdge(src, dst) ==
  /\ stage = "print"
  /\ <<src, dst>> \in left
  /\ \A e \in left : edge[<<src, dst>>] >= edge[e]
  /\ left' = left \ {<<src, dst>>}
  /\ \/ /\ Keep(src, dst)
        /\ kept' = kept \cup {<<src, dst>>}
        /\ indegree' = [indegree EXCEPT ![dst] = @ + 1]
        /\ outdegree' = [outdegree EXCEPT ![src] = @ + 1]
     \/ /\ ~Keep(src, dst)
        /\ UNCHANGED <<kept, indegree, outdegree>>
  /\ UNCHANGED <<observations, stage, tables, reduced, flat, cumulative, node,
                 edge>>

Finish ==
  /\ stage = "print"
  /\ left = {}
  /\ stage' = "done"
  /\ UNCHANGED <<observations, tables, reduced, flat, cumulative, graph>>

Next ==
  \/ Analyze
  \/ Reduce
  \/ CountNames
  \/ SelectNodes
  \/ CountEdges
  \/ \E src, dst \in Names : TakeEdge(src, dst)
  \/ Finish

Spec == Init /\ [][Next]_vars

-----------------------------------------------------------------------------
(* Properties.                                                             *)

Counts(S) == [S -> Nat]

TypeOK ==
  /\ observations \in Seq(Observation)
  /\ stage \in {"analyze", "reduce", "count", "nodes", "edges", "print", "done",
                "empty"}
  /\ selfCount \in Counts(Locations) /\ cumulativeCount \in Counts(Locations)
  /\ reduced \in Seq([count : Nat, path : Seq(Names)])
  /\ flat \in Counts(Names) /\ cumulative \in Counts(Names)
  /\ node \subseteq Names
  /\ edge \in Counts(Pairs)
  /\ left \subseteq node \X node /\ kept \subseteq node \X node
  /\ indegree \in Counts(Names) /\ outdegree \in Counts(Names)

Counted == stage \notin {"analyze", "reduce", "count"}

Samples == Total([i \in DOMAIN observations |-> observations[i].count])

\* Recursion is not counted twice ("To avoid double-counting due to recursion",
\* getReduced): no method has more samples below it than there are, and none
\* has fewer than those in which it is on top.
NoDoubleCounting ==
  Counted => \A m \in Names : /\ flat[m] <= cumulative[m]
                              /\ cumulative[m] <= LocalTotal
                              /\ LocalTotal <= Samples

\* The two reports of a run agree: the table printed from analyze and the graph
\* charge a method with the same samples on top, and the graph never with more
\* below, as long as the methods in the profile have names.
ReportsAgree ==
  LET Of(m) == {l \in Locations : NameOf[l] = m}
      named == \A l \in Locations : cumulativeCount[l] > 0 => NameOf[l] # NoName
  IN Counted /\ named =>
       \A m \in Names :
         /\ flat[m] = Total([l \in Of(m) |-> selfCount[l]])
         /\ cumulative[m] <= Total([l \in Of(m) |-> cumulativeCount[l]])

\* Samples are conserved along the edges: in a graph with all its nodes, the
\* samples below a method are those on top of it and those of its calls.
CallsConserved ==
  stage \in {"print", "done"} /\ node = Keys =>
    \A m \in Names :
      cumulative[m] = flat[m] + Total([n \in Names |-> edge[<<m, n>>]])

\* The graph has the methods with the most samples: one that is left out is
\* below the limit, or as many others have at least its samples.
NodesAreTop ==
  stage \in {"edges", "print", "done", "empty"} =>
    \A m \in Names \ node :
      cumulative[m] > NodeLimit =>
        /\ Cardinality(node) = NodeCount
        /\ \A n \in node : cumulative[n] >= cumulative[m]

\* The calls of m in the graph.
Into(m) == {e \in Pairs : e[2] = m /\ edge[e] > 0}

\* No method that is called in the graph is printed without a caller, and the
\* caller shown is the one with the most samples.
MainCallerKept ==
  stage = "done" =>
    \A m \in node :
      Into(m) # {} =>
        \E e \in Into(m) \cap kept : \A f \in Into(m) : edge[e] >= edge[f]

\* The degrees that the choice is made by are those of the graph printed so
\* far, and no method gets more callers than optMaxDegree (one there may
\* always be).
DegreesBounded ==
  \A m \in Names :
    LET in  == {e \in kept : e[2] = m}
        out == {e \in kept : e[1] = m}
    IN /\ indegree[m] = Cardinality(in)
       /\ outdegree[m] = Cardinality(out)
       /\ indegree[m] <= Max({1, MaxDegree})
=============================================================================
