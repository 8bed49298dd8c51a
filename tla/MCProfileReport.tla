--------------------------- MODULE MCProfileReport ---------------------------
(***************************************************************************)
(* Four methods, one of them with two lines, and one location whose method *)
(* has no name.  In the profiles are all stacks of up to three frames, and *)
(* so direct and indirect recursion, each with a second sample; and graphs *)
(* of three samples, with ties and with edges on both sides of the limits. *)
(***************************************************************************)
EXTENDS ProfileReport

MCNames == 1 .. 4
MCLocations == 1 .. 6
MCNameOf == [l \in MCLocations |-> IF l = 5 THEN 3 ELSE IF l = 6 THEN NoName ELSE l]

Sample(c, s) == [count |-> c, stack |-> s]

Stacks == UNION {[1 .. n -> MCLocations] : n \in 1 .. 3}
Calls  == {<<1, 2>>, <<1, 3>>, <<2, 4>>, <<1, 2, 3>>, <<2, 1, 5>>, <<5, 1, 4>>}

MCProfiles ==
  {<<Sample(1, s), Sample(c, t)>> : s \in Stacks, t \in Calls, c \in {1, 3}}
  \cup {<<Sample(1, s), Sample(c, t), Sample(d, u)>> :
           s \in Calls, t \in Calls, u \in Calls, c \in {1, 3}, d \in {2, 3}}
=============================================================================
