------------------------------ MODULE MCLedger ------------------------------
(***************************************************************************)
(* Small networks of ledger nodes.                                          *)
(***************************************************************************)
EXTENDS LedgerProperties, TLC

CONSTANTS n1, n2, i1, i2, a, b

\* Every node loaded the same manifest.
AllVerify == [n \in Nodes |-> Ballot]

\* n2 loaded a manifest that lacks the ring of the voter behind i2.
Stale == [AllVerify EXCEPT ![n2] = {v \in Ballot : v.image = i1}]

Everyone == [n \in Nodes |-> Nodes \ {n}]

\* Nothing tells candidates apart.
CandidateSymmetry == Permutations(Candidates)
=============================================================================
