-------------------------- MODULE MCProfileReader --------------------------
(***************************************************************************)
(* Bytes of two bits: an int of two bytes is -8 .. 7, a long of three is   *)
(* -32 .. 31, and a slot can be cut before, at and behind the end of its   *)
(* int.  One method id has the high bit of a long, one line number is      *)
(* negative (a native method), and the largest count is that of an int.    *)
(***************************************************************************)
EXTENDS ProfileReader

A == [method |-> 18, line |-> -3]
B == [method |-> 50, line |-> 5]
C == [method |-> 18, line |-> 5]

\* One frame, two, and a recursion.
MCSamples == [count : {1, 7}, frames : {<<A>>, <<B>>, <<A, B>>, <<B, C>>, <<C, C>>}]

\* A stack may come twice, as after an eviction.
MCProfiles == BoundedSeq(MCSamples, 2)
=============================================================================
