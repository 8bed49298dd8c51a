------------------------------ MODULE SampleLog ------------------------------
(***************************************************************************)
(* What the sample collector promises to whoever uses it (the class        *)
(* comment and the method comments of profiledata.h): between Start and    *)
(* Stop every sample is counted under its stack, exactly once, and the     *)
(* profile found in the file after Stop is that count.  How the counts are *)
(* kept in a bounded amount of memory is not visible here: the hash table, *)
(* the eviction buffer and the writes are those of module ProfileData,     *)
(* which implements this one.                                              *)
(***************************************************************************)
EXTENDS Naturals

CONSTANTS Keys,       \* the stacks under which samples are counted
          NoProfile   \* the file does not hold a complete profile

VARIABLES enabled,    \* is a profiling session under way?
          samples,    \* the samples of this session, by stack
          profile     \* the profile a reader finds in the file

logVars == <<enabled, samples, profile>>

NoSamples == [k \in Keys |-> 0]

Init ==
  /\ enabled = FALSE
  /\ samples = NoSamples
  /\ profile = NoProfile

\* A session begins: the file is truncated.
Start ==
  /\ ~enabled
  /\ enabled' = TRUE
  /\ samples' = NoSamples
  /\ profile' = NoProfile

\* One more sample of stack k.
Add(k) ==
  /\ enabled
  /\ samples' = [samples EXCEPT ![k] = @ + 1]
  /\ UNCHANGED <<enabled, profile>>

\* The session ends and the file holds all of it.
Stop ==
  /\ enabled
  /\ profile' = samples
  /\ enabled' = FALSE
  /\ samples' = NoSamples

\* The session is lost (Reset, or the process dies): no profile is
\* better than a wrong one.
Discard ==
  /\ enabled
  /\ enabled' = FALSE
  /\ samples' = NoSamples
  /\ UNCHANGED profile

Next ==
  \/ Start
  \/ \E k \in Keys : Add(k)
  \/ Stop
  \/ Discard

Spec == Init /\ [][Next]_logVars
=============================================================================
