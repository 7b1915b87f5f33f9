---------------------------- MODULE GroupRegister ----------------------------
(***************************************************************************)
(* What an election promises its ledger nodes about anonymity groups, with  *)
(* no requests, locks or exports in sight: the first group that goes out    *)
(* settles how the whole roll is divided and in which order every group     *)
(* lists its keys.  From then on groups only go out, and voting opens only  *)
(* when the last one is out.                                                *)
(***************************************************************************)
EXTENDS Naturals, Sequences

CONSTANT Groups \* the ordered lists of keys a group can be

VARIABLES
  division, \* the settled division of the roll, <<>> until a group is out
  out,      \* which of its groups are out
  voting    \* ballots are accepted, or were

vars == <<division, out, voting>>

Init == division = <<>> /\ out = {} /\ voting = FALSE

Settle ==
  /\ division = <<>>
  /\ division' \in Seq(Groups)
  /\ \E i \in DOMAIN division' : out' = {i}
  /\ UNCHANGED voting

PutOut ==
  /\ \E i \in DOMAIN division \ out : out' = out \cup {i}
  /\ UNCHANGED <<division, voting>>

Open ==
  /\ division # <<>>
  /\ out = DOMAIN division
  /\ voting' = TRUE
  /\ UNCHANGED <<division, out>>

Next == Settle \/ PutOut \/ Open

Spec == Init /\ [][Next]_vars
=============================================================================
