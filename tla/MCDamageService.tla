-------------------------- MODULE MCDamageService --------------------------
(***************************************************************************)
(* Small instances of DamageService for TLC.                               *)
(***************************************************************************)
EXTENDS DamageService, TLC

LOCAL INSTANCE FiniteSetsExt

\* Counting points is summing: Total agrees with the fold of FiniteSetsExt.
ASSUME TotalIsSum ==
  \A f \in [1 .. 3 -> 0 .. 3] : \A S \in SUBSET (1 .. 3) :
    Total(f, S) = MapThenSumSet(LAMBDA x : f[x], S)

\* No constant or expression of the specification tells two hits, two players
\* or two committers apart.
Symmetry == Permutations(Hits) \cup Permutations(Players)
              \cup Permutations(Committers) \cup Permutations(Workers)
=============================================================================
