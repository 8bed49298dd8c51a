---------------------------- MODULE MCMethodNames ----------------------------
(***************************************************************************)
(* Instance of MethodNames: every order of the starts of up to two entries *)
(* that a table can have, with lines that tell the entries apart.          *)
(***************************************************************************)
EXTENDS MethodNames, TLC

CONSTANTS MaxEntries, MaxStart

MCTables ==
  {t \in {[i \in 1 .. n |-> [start |-> s[i], line |-> i]] :
            n \in 0 .. MaxEntries, s \in [1 .. MaxEntries -> 0 .. MaxStart]} :
     Sorted(t)}

MCLocations == -1 .. MaxStart

Symmetry == Permutations(Classes)
=============================================================================
