----------------------------- MODULE BallotBox -----------------------------
(***************************************************************************)
(* What the ledger promises of the votes it holds, with no chain, mining or *)
(* message in sight: every node has a box of ballots, at most one per key   *)
(* image.  A node counts one new ballot at a time, or takes over a box at   *)
(* least as full as its own, or loses the box in a restart.                 *)
(***************************************************************************)
EXTENDS Naturals, FiniteSets

CONSTANTS Nodes, Images, Candidates

Ballot == [image : Images, cand : Candidates]

VARIABLE box \* node -> the ballots its chain records

Legal(votes) ==
  /\ IsFiniteSet(votes)
  /\ \A a, b \in votes : a.image = b.image => a = b

Init == box = [n \in Nodes |-> {}]

Count(n, ballot) ==
  /\ \A b \in box[n] : b.image # ballot.image
  /\ box' = [box EXCEPT ![n] = @ \cup {ballot}]

Adopt(n, votes) ==
  /\ Legal(votes)
  /\ Cardinality(votes) >= Cardinality(box[n])
  /\ box' = [box EXCEPT ![n] = votes]

Lose(n) == box' = [box EXCEPT ![n] = {}]

Next ==
  \E n \in Nodes :
    \/ \E ballot \in Ballot : Count(n, ballot)
    \/ \E votes \in SUBSET Ballot : Adopt(n, votes)
    \/ Lose(n)

Spec == Init /\ [][Next]_box
=============================================================================
