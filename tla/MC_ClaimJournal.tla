-------------------------- MODULE MC_ClaimJournal --------------------------
(* Small instances of ClaimJournal: which request runs in which process.    *)
EXTENDS ClaimJournal, TLC

CONSTANTS p1, p2, c1, c2, c3

\* One request in each of two processes, and the renaming that keeps Home.
OneEach == c1 :> p1 @@ c2 :> p2
SwapProcs == {p1 :> p1 @@ p2 :> p2 @@ c1 :> c1 @@ c2 :> c2,
              p1 :> p2 @@ p2 :> p1 @@ c1 :> c2 @@ c2 :> c1}

\* Two requests of one process.
Siblings == c1 :> p1 @@ c2 :> p1
SwapSiblings == Permutations({c1, c2})
=============================================================================
