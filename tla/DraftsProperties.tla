-------------------------- MODULE DraftsProperties --------------------------
(***************************************************************************)
(* What the people an officer writes to may rely on.                       *)
(***************************************************************************)
EXTENDS Drafts

DraftsTypeOK ==
  /\ form \in {"record", "rotations", "bulk", "recipient"}
  /\ facing \in Screens
  /\ draft.text \subseteq Person /\ draft.open \in BOOLEAN
  /\ letter.to \subseteq Person /\ waiting \subseteq Person
  /\ \A m \in delivered : m.to \in Person /\ m.text \subseteq Person

\* Nobody is sent what was typed about another person: a reason or an address stays
\* with the record it was written on, however the officer moves between records,
\* cancels, approves, types while a request is in flight and sends again after a
\* failure.
TextsReachTheirOwn == form # "bulk" => \A m \in delivered : m.text \subseteq {m.to}

\* The same for the reason of a selection.  It does not hold: the box closes with the
\* view it was opened in, its text stays, and the next selection finds it filled in.
BulkTextsReachTheirOwn == \A m \in delivered : m.text = {} \/ m.to \in m.text
=============================================================================
