------------------------------- MODULE Drafts -------------------------------
(***************************************************************************)
(* Text an officer types about somebody: the reason a registration is      *)
(* rejected with (QueueRecord, and for a whole selection QueuePage), the    *)
(* reason a key replacement is refused with (KeyRotationsPage), and the     *)
(* address a ballot link goes to (BallotAccessPage).  A text is known by    *)
(* the people it was typed for.                                             *)
(***************************************************************************)
EXTENDS FiniteSets

CONSTANTS Person,  \* the people officers write to
          Screen   \* bound: selections of the queue, [view, people]

ASSUME DraftsAssumption == \A s \in Screen : s.people \subseteq Person

VARIABLES form,       \* the form: "record", "rotations", "bulk" or "recipient"
          facing,     \* who is on screen: the tag drafts are compared with, and the people
          draft,      \* the form's text, with the tag it was opened under
          letter,     \* the request in flight: to whom, with which text
          waiting,    \* people the server has not decided about
          delivered   \* history: what was sent to whom

draftsVars == <<form, facing, draft, letter, waiting, delivered>>

NoDraft == [tag |-> "none", text |-> {}, open |-> FALSE]
NoLetter == [to |-> {}, text |-> {}]

\* What may come on screen: one record or row, or a selection of a view.
Screens ==
  IF form = "bulk" THEN {[tag |-> s.view, people |-> s.people] : s \in Screen}
  ELSE {[tag |-> p, people |-> {p}] : p \in Person}

DraftsInit ==
  /\ form \in {"record", "rotations", "bulk", "recipient"}
  /\ facing \in Screens
  /\ draft = NoDraft
  /\ letter = NoLetter
  /\ waiting = Person
  /\ delivered = {}

-----------------------------------------------------------------------------
\* A record or row is looked at, or the selection changes; nothing else does.
Look(s) ==
  /\ s # facing
  /\ facing' = s
  /\ UNCHANGED <<form, draft, letter, waiting, delivered>>

\* Variant: a draft is whoever's is on screen.
OpenForAnyone == draft.open

\* The box is open for what it was opened under; the address form stays as it is.
Open == draft.open /\ (form = "recipient" \/ draft.tag = facing.tag)

\* The record compares the tag of the text as well; the text of a selection has none.
Text == IF form = "record" /\ draft.tag # facing.tag THEN {} ELSE draft.text

Addressed == IF form = "recipient" THEN {draft.tag} ELSE facing.people

ToggleReject ==
  /\ form \in {"record", "rotations"} /\ letter = NoLetter
  /\ draft' = [tag |-> facing.tag, open |-> ~Open,
               text |-> IF Open \/ form = "rotations" THEN {} ELSE Text]
  /\ UNCHANGED <<form, facing, letter, waiting, delivered>>

ToggleBulk ==
  /\ form = "bulk" /\ letter = NoLetter
  /\ draft' = IF Open THEN [draft EXCEPT !.tag = "none", !.open = FALSE]
              ELSE [draft EXCEPT !.tag = facing.tag, !.open = TRUE]
  /\ UNCHANGED <<form, facing, letter, waiting, delivered>>

\* The address form opens with the address the row has.
ChangeEmail ==
  /\ form = "recipient" /\ letter = NoLetter
  /\ draft' = [tag |-> facing.tag, text |-> facing.people, open |-> TRUE]
  /\ UNCHANGED <<form, facing, letter, waiting, delivered>>

\* Its cancel button works while a save is under way.
CancelChange ==
  /\ form = "recipient" /\ draft.open
  /\ draft' = [draft EXCEPT !.open = FALSE]
  /\ UNCHANGED <<form, facing, letter, waiting, delivered>>

\* Typing, from nothing or into what is there; a request in flight does not stop it.
Type(anew) ==
  /\ Open
  /\ draft' = [tag |-> IF form = "recipient" THEN draft.tag ELSE facing.tag,
               text |-> Addressed \cup (IF anew THEN {} ELSE Text), open |-> TRUE]
  /\ UNCHANGED <<form, facing, letter, waiting, delivered>>

\* The button of the box: the server writes to those it has not decided about, and
\* to the address as often as it is changed.
SendText ==
  /\ Open /\ Text # {} /\ letter = NoLetter
  /\ letter' = [to |-> Addressed, text |-> Text]
  /\ UNCHANGED <<form, facing, draft, waiting, delivered>>

\* An approval, from the same screen.
ApproveShown ==
  /\ form # "recipient" /\ letter = NoLetter
  /\ letter' = [to |-> facing.people, text |-> {}]
  /\ UNCHANGED <<form, facing, draft, waiting, delivered>>

\* The server deals with it, and the answer arrives or not.  A success clears the
\* draft, whatever was typed since: that of the record stays, under its tag.
Handled(answered) ==
  LET reached == IF form = "recipient" THEN letter.to ELSE letter.to \cap waiting
      cleared == form \in {"rotations", "recipient"} \/ (form = "bulk" /\ letter.text # {})
  IN  /\ letter # NoLetter
      /\ delivered' = delivered \cup {[to |-> p, text |-> letter.text] : p \in reached}
      /\ waiting' = IF form = "recipient" THEN waiting ELSE waiting \ reached
      /\ letter' = NoLetter
      /\ draft' = IF answered /\ cleared THEN NoDraft ELSE draft
      /\ UNCHANGED <<form, facing>>

\* Refused, or it did not arrive.
Dropped ==
  /\ letter # NoLetter
  /\ letter' = NoLetter
  /\ UNCHANGED <<form, facing, draft, waiting, delivered>>

DraftsNext ==
  \/ \E s \in Screens : Look(s)
  \/ ToggleReject \/ ToggleBulk \/ ChangeEmail \/ CancelChange
  \/ \E anew \in BOOLEAN : Type(anew)
  \/ SendText \/ ApproveShown \/ Dropped
  \/ \E answered \in BOOLEAN : Handled(answered)

DraftsSpec == DraftsInit /\ [][DraftsNext]_draftsVars
=============================================================================
