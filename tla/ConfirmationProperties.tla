----------------------- MODULE ConfirmationProperties -----------------------
(***************************************************************************)
(* What the gate in front of irreversible steps is meant to guarantee.     *)
(***************************************************************************)
EXTENDS Confirmation

\* The dialog is about a step, its pre-flight and its consent belong to openings that
\* happened, and a frozen grouping is one that was formed.
ConfirmationTypeOK ==
  /\ stage \in Stages /\ published \in 0 .. grouping
  /\ target \in Steps \cup {"none"} /\ preview.to \in Steps \cup {"none"}
  /\ {consent.typed, consent.ticked} \subseteq 0 .. openings
  /\ \A p \in awaited : p.to \in Steps /\ p.opening \in 1 .. openings
  /\ commit.to \in Steps \cup {"none"}

\* The phrase and the tick that confirm a step were given for this opening of the
\* dialog: none is carried over from a dialog that was cancelled, finished or lost with
\* its page, which would pre-authorise another step.
FreshConsent ==
  Busy => commit.consent.typed = commit.opening /\ commit.consent.ticked = commit.opening

\* The checks in the dialog are those of the step it is about, unless it was opened
\* while the pre-flight of an earlier one was awaited.
PreviewFits ==
  ~overlapped /\ target # "none" /\ preview # NoPreview => preview.to = target

\* The groups that are frozen are the ones the dialog showed.
FrozenAsShown ==
  Busy /\ commit.outcome = "taken" /\ commit.to = "FREEZE" => commit.shuffle = published

\* No irreversible step is confirmed before its pre-flight has passed on screen.
CheckedBeforeConfirmed ==
  Busy /\ commit.to \in Irreversible => commit.checked

\* The tick stands under the wording that names what becomes permanent.
AcknowledgedAsWorded ==
  Busy /\ commit.to \in Irreversible => commit.consent.wording = "irreversible"
=============================================================================
