------------------------------ MODULE MCGossip ------------------------------
(***************************************************************************)
(* Three nodes in a line, n1 - n2 - n3, after two ballots were cast at n1   *)
(* and fanned out to n2, before either loop took one: a state Spec reaches. *)
(* n1 and n2 race for both slots and n3 learns of the outcome from n2 only. *)
(***************************************************************************)
EXTENDS LedgerProperties, TLC

CONSTANTS n1, n2, n3, i1, i2, a

AllVerify == [n \in Nodes |-> Ballot]
Line == n1 :> {n2} @@ n2 :> {n1, n3} @@ n3 :> {n2}

\* The line is a network AgreeAtRestAlways is about.
ASSUME LineConnected == RelayConnected

TwoCast == <<[image |-> i1, cand |-> a], [image |-> i2, cand |-> a]>>
Racers == {n1, n2}

CastInit ==
  /\ chain = [n \in Nodes |-> <<>>]
  /\ seen = [n \in Nodes |-> {}]
  /\ pool = [n \in Nodes |-> IF n \in Racers THEN TwoCast ELSE <<>>]
  /\ miner = [n \in Nodes |-> IF n \in Racers THEN "loop" ELSE "idle"]
  /\ job = [n \in Nodes |-> NoJob]
  /\ cache = [n \in Nodes |-> {}]
  /\ syncs = [n \in Nodes |-> {}]
  /\ known = Peers
  /\ peerHash = [n \in Nodes |-> [p \in Nodes |-> <<>>]]
  /\ rejected = [n \in Nodes |-> 0]
  /\ tasks = [n \in Nodes |-> {}]
  /\ pushes = {}
  /\ casts = MaxCasts
  /\ faults = 0

CastSpec == CastInit /\ [][Next]_vars

\* No guard reads the tally or the count of refusals, nor does AgreeAtRest.
WithoutTally ==
  <<chain, seen, pool, miner, job, syncs, known, peerHash, tasks, pushes, casts, faults>>
=============================================================================
