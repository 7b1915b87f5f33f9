------------------------- MODULE SigningProperties -------------------------
(***************************************************************************)
(* What the voter, the ledger and the electorate need of a signature.      *)
(***************************************************************************)
EXTENDS Signing

SigningTypeOK ==
  /\ \A h \in oracle : h.answer \in Answers
  /\ signing.stage \in {"none", "walk", "signed"}
  /\ verifying.stage \in {"none", "walk", "done"}
  /\ wire # << >> => WellFormed(wire)

\* Whoever holds a key of the group can vote: whatever the position, the scalars
\* drawn and the hashes, the ledger (verify.rs) accepts the signature for the ballot it
\* was made for, although it walks the ring from another place; so does the browser's
\* verifier (verify.ts).  Each refuses a few signatures that were made rightly, a
\* fraction of about one over the group's order, and not the same: the ledger those in
\* which a member's response and challenge cancel, the browser those in which the
\* signer's response is zero.
SignaturesVerify ==
  LET v == signing.statement
      Cancels(i) == (wire[4 + i] + signing.c[i] * Group[v.group][i]) % Order = 0
  IN  verifying.stage = "done" /\ verifying.statement = v =>
        (verifying.accepted <=>
           IF verifying.by = "ledger" THEN \A i \in DOMAIN Group[v.group] : ~Cancels(i)
                                      ELSE wire[4 + signing.at] # 0)

\* A signature counts for one ballot: either verifier accepts it for another candidate,
\* group or election only if another transcript hashes to the same challenge.
SignaturesBind ==
  verifying.stage = "done" /\ verifying.accepted /\ verifying.statement # signing.statement =>
    \E g, h \in oracle : g.query # h.query /\ g.answer = wire[3] /\ h.answer = wire[3]

\* Two signatures are linked exactly when one voter signed twice in one election:
\* the double vote shows in any group, and nothing links elections or voters.
LinkedExactly ==
  \A a, b \in cast : AreLinked(a, b) <=> a.key = b.key /\ a.poll = b.poll
=============================================================================
