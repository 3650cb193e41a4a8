----------------------------- MODULE MCKShared -----------------------------
(***************************************************************************)
(* Instances of KShared for TLC: which requests are interchangeable.       *)
(***************************************************************************)
EXTENDS KSharedInv, TLC

\* Sound for the safety runs: no constant tells two slugs, two uploads,
\* two deletes or two GETs apart, when either all of a kind may hang up or
\* none may.
Symmetry ==
  Permutations(Slugs) \cup Permutations(Uploads) \cup Permutations(Replaces)
    \cup Permutations(Deletes) \cup Permutations(Gets)
=============================================================================
