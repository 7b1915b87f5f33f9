--------------------------- MODULE MCBallotAccess ---------------------------
(***************************************************************************)
(* Ballot access on small rolls.  Voters are interchangeable, and so are   *)
(* the requests; nothing checked here is a liveness property.              *)
(***************************************************************************)
EXTENDS BallotAccessProperties, TLC

Interchangeable == Permutations(Voter) \cup Permutations(Pass)
=============================================================================
