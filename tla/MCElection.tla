----------------------------- MODULE MCElection -----------------------------
(***************************************************************************)
(* A small election: three or four people and one or two admins.            *)
(***************************************************************************)
EXTENDS ElectionProperties

CONSTANTS v1, v2, v3, v4, c1, c2, boss, deputy, clerk

\* Nothing tells candidates apart, nor voters who were vetted before the election
\* and are on no other roll, nor super-admins.
Symmetry ==
  {c @@ v @@ a : c \in Permutations(Candidates),
                 v \in Permutations(Vetted \ Elsewhere),
                 a \in Permutations(SuperAdmins)}
=============================================================================
