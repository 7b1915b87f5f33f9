---------------------------- MODULE LinkRegister ----------------------------
(***************************************************************************)
(* What a ballot access link promises its voter, without the mail, the     *)
(* dispatch passes or the database: a voter has at most one live link, a   *)
(* replaced link never lives again, only the live link is accepted, and    *)
(* the first acceptance is recorded once.  BallotAccess implements it.     *)
(***************************************************************************)
EXTENDS Naturals

CONSTANTS Voter, Link  \* Link: the numbers 1, 2, ...

VARIABLES live,      \* [Voter -> Nat], the link that works; 0 when none was made
          used,      \* the links made so far
          accepted,  \* [Voter -> Nat], the link their group was last given for
          first      \* [Voter -> Nat], the link of the first acceptance, or 0

Init ==
  /\ live = [v \in Voter |-> 0]
  /\ used = {}
  /\ accepted = [v \in Voter |-> 0]
  /\ first = [v \in Voter |-> 0]

\* A fresh link supersedes the one the voter had.
Mint(v) ==
  \E l \in Link \ used :
    /\ live' = [live EXCEPT ![v] = l]
    /\ used' = used \cup {l}
    /\ UNCHANGED <<accepted, first>>

\* Whoever holds the live link is given the voter's group, any number of times.
Accept(v) ==
  /\ live[v] # 0
  /\ accepted' = [accepted EXCEPT ![v] = live[v]]
  /\ first' = [first EXCEPT ![v] = IF @ = 0 THEN live[v] ELSE @]
  /\ UNCHANGED <<live, used>>

Next == \E v \in Voter : Mint(v) \/ Accept(v)

Spec == Init /\ [][Next]_<<live, used, accepted, first>>
=============================================================================
