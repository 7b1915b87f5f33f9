------------------------- MODULE ListingProperties -------------------------
(***************************************************************************)
(* What an administrator who acts on many rows may rely on.                *)
(***************************************************************************)
EXTENDS Listing

\* Rows, selections and calls are rows, and nothing is selected twice.
ListingTypeOK ==
  /\ page \in {"queue", "roll"} /\ view \in View
  /\ undecided \subseteq Row /\ rows \subseteq Row
  /\ ticked \in [view : View, ids : SUBSET Row]
  /\ call.ids \subseteq Row

\* A batch chosen under one filter does not survive into another: through changes of
\* view, reloads and failed actions, what is selected in a view are rows that view
\* lists, as long as no row was ticked while the next answer was awaited.
SelectionStays == ~hasty => Selected \subseteq Listed[view]

\* Nothing is selected that cannot be seen.  The roll page acts on the ids as they
\* are, so this is what it would need; it does not hold: a selection comes back when
\* its view does, whatever became of its rows in the meantime.
SelectedIsSeen == ~hasty /\ ~loading => Selected \subseteq rows
=============================================================================
