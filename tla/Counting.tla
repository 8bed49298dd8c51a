------------------------------- MODULE Counting -------------------------------
(***************************************************************************)
(* Sums, for the counters and tables that the code adds up: the sum of the *)
(* values of a function is the number of the pairs of an argument and a    *)
(* number up to its value.  A sum stated so can be proved about.           *)
(***************************************************************************)
EXTENDS Naturals, FiniteSets

Cells(w) == UNION {{x} \X (1 .. w[x]) : x \in DOMAIN w}

\* The sum of the values of w.
Total(w) == Cardinality(Cells(w))
=============================================================================
