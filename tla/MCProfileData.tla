--------------------------- MODULE MCProfileData ---------------------------
(***************************************************************************)
(* A small collector for TLC: two buckets of two entries, four stacks of   *)
(* which three share a bucket (so that one has to be evicted), a fifth     *)
(* trace that is deeper than kMaxStackDepth, the empty trace, and a buffer *)
(* that overflows at its second or third record.                           *)
(***************************************************************************)
EXTENDS ProfileData

MCSlot == 0 .. 9

MCTraces == {<<>>, <<1>>, <<3>>, <<5>>, <<2, 4>>, <<2, 4, 6>>}

\* Traces whose first slot is odd share bucket 1.
MCHash(k) == k[1] % 2
=============================================================================
