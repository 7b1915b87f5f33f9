---------------------------- MODULE PagesProofs ----------------------------
(***************************************************************************)
(* What officers may rely on in the pages they work with, proved for any   *)
(* number of rows, people, dialogs, loads, forms, records and candidates:  *)
(* selections, drafts, confirmations, the details of an election, the      *)
(* audit record, and the order of the ballot paper.                        *)
(***************************************************************************)
EXTENDS ListingProperties, DraftsProperties, ConfirmationProperties, DetailsProperties,
        AuditProperties, BallotPaperProperties, WellFoundedInduction, FiniteSetTheorems, TLAPS

(***************************************************************************)
(* Selections.                                                             *)
(***************************************************************************)
\* The rows of an answer that is not awaited are of the view; so is what was ticked.
ListingInv ==
  /\ view \in View /\ rows \subseteq Row
  /\ ticked \in [view : View, ids : SUBSET Row]
  /\ ~hasty => /\ ~loading => rows \subseteq Listed[view]
               /\ ticked.ids \subseteq Listed[ticked.view]

\* What is ticked on a page whose answer is there is listed by the view.
LEMMA WriteListed ==
  ASSUME ListingInv, NEW touched \in SUBSET rows, NEW ids \in SUBSET (Selected \cup touched),
         Write(ids), hasty' = (hasty \/ loading), UNCHANGED <<view, rows, loading>>
  PROVE  ListingInv'
<1>1. ticked' = [view |-> view, ids |-> ids] /\ ids \subseteq Row
  BY DEF Write, Selected, ListingInv
<1>2. ticked' \in [view : View, ids : SUBSET Row] /\ ticked'.view = view /\ ticked'.ids = ids
  BY <1>1 DEF ListingInv
<1>3. ~hasty' => ids \subseteq Listed[view]
  BY DEF ListingInv, Selected
<1>4. QED BY <1>2, <1>3 DEF ListingInv

LEMMA ListingStep == ListingInv /\ [ListingNext]_listingVars => ListingInv'
<1> SUFFICES ASSUME ListingInv, [ListingNext]_listingVars PROVE ListingInv'
  OBVIOUS
<1>1. ASSUME NEW v \in View, Navigate(v) PROVE ListingInv'
  BY <1>1 DEF Navigate, Load, ListingInv
<1>2. ASSUME NEW answered \in BOOLEAN, Settle(answered) PROVE ListingInv'
  BY <1>2 DEF Settle, ListingInv, Row
<1>3. ASSUME NEW r \in Row, NEW shift \in BOOLEAN, Toggle(r, shift) PROVE ListingInv'
  <2>1. PICK touched \in SUBSET rows : Write(IF r \in Selected THEN Selected \ touched ELSE Selected \cup touched)
    BY <1>3 DEF Toggle, Span
  <2>2. QED BY <1>3, <2>1, WriteListed DEF Toggle
<1>4. ASSUME ToggleAll PROVE ListingInv'
  BY <1>4, WriteListed DEF ToggleAll
<1>5. ASSUME Clear PROVE ListingInv'
  <2>1. ticked' = [view |-> view, ids |-> {}] /\ UNCHANGED <<view, rows, loading, hasty>>
    BY <1>5 DEF Clear, Write
  <2>2. QED BY <2>1 DEF ListingInv
<1>6. ASSUME Succeed PROVE ListingInv'
  <2>1. ticked' = [view |-> view, ids |-> {}] /\ loading' /\ UNCHANGED <<view, rows, hasty>>
    BY <1>6 DEF Succeed, Load, Nothing
  <2>2. QED BY <2>1 DEF ListingInv
<1>7. CASE UNCHANGED <<view, rows, loading, ticked, hasty>>
  BY <1>7 DEF ListingInv
<1>8. DecideSelected \/ TransferSelected \/ Fail \/ (\E r \in Row : Elsewhere(r)) \/ UNCHANGED listingVars
        => UNCHANGED <<view, rows, loading, ticked, hasty>>
  BY DEF DecideSelected, TransferSelected, Run, Fail, Elsewhere, listingVars
<1>9. QED BY <1>1, <1>2, <1>3, <1>4, <1>5, <1>6, <1>7, <1>8 DEF ListingNext

\* No selection made under one filter is acted on under another (useSelection.ts).
THEOREM SelectionStaysAlways == ListingSpec => []SelectionStays
<1>1. ListingInit => ListingInv
  BY DEF ListingInit, ListingInv, Nothing
<1>2. ListingInv => SelectionStays
  BY DEF ListingInv, SelectionStays, Selected
<1>3. QED BY <1>1, <1>2, ListingStep, PTL DEF ListingSpec

\* What is undecided and what is asked for are rows that some view lists.
CallTyped == page \in {"queue", "roll"} /\ undecided \subseteq Row /\ call.ids \subseteq Row

LEMMA CallHolds == ListingInv /\ CallTyped /\ [ListingNext]_listingVars => CallTyped'
<1> SUFFICES ASSUME ListingInv, CallTyped, [ListingNext]_listingVars PROVE CallTyped'
  OBVIOUS
<1>1. QueueIds \subseteq Row /\ RollIds \subseteq Row
  BY DEF ListingInv, QueueIds, RollIds, Selected
<1>2. /\ UNCHANGED page
      /\ undecided' \subseteq undecided
      /\ call' = call \/ call' = NoCall \/ call' = [ids |-> QueueIds] \/ call' = [ids |-> RollIds]
  BY DEF ListingNext, Navigate, Settle, Toggle, ToggleAll, Clear, DecideSelected, TransferSelected, Run,
         Succeed, Fail, Elsewhere, listingVars
<1>3. call'.ids \subseteq Row
  BY <1>1, <1>2 DEF CallTyped, NoCall
<1>4. QED BY <1>2, <1>3 DEF CallTyped

\* Rows on screen, ticked, undecided and asked for are rows that some view lists.
LEMMA ListingTypeCorrect == ListingSpec => []ListingTypeOK
<1>1. ListingInit => ListingInv /\ CallTyped
  BY DEF ListingInit, ListingInv, Nothing, CallTyped, NoCall
<1>2. ListingInv /\ CallTyped => ListingTypeOK
  BY DEF ListingInv, CallTyped, ListingTypeOK
<1>3. QED BY <1>1, <1>2, ListingStep, CallHolds, PTL DEF ListingSpec

-----------------------------------------------------------------------------
(***************************************************************************)
(* Texts about people.                                                     *)
(***************************************************************************)
Draft == [tag : Person \cup {"none"}, text : SUBSET Person, open : BOOLEAN]

\* A draft holds nothing but what was typed about the one it is tagged with.
OwnDraft(d) == d \in Draft /\ d.text \subseteq {d.tag} /\ (d.open => d.tag \in Person)

\* A letter holds nothing but what was typed about the one it goes to.
OwnLetter(l) == l \in [to : SUBSET Person, text : SUBSET Person] /\ \A p \in l.to : l.text \subseteq {p}

\* Unless a selection is dealt with, one person is on screen, and texts are theirs.
DraftsInv ==
  form # "bulk" =>
    /\ facing \in [tag : Person, people : SUBSET Person] /\ facing.people = {facing.tag}
    /\ OwnDraft(draft) /\ OwnLetter(letter)
    /\ TextsReachTheirOwn

\* Steps that write a draft or a letter, and send nothing.
LEMMA OwnStep ==
  ASSUME DraftsInv, UNCHANGED <<form, facing, delivered>>,
         form # "bulk" => OwnDraft(draft)' /\ OwnLetter(letter)'
  PROVE  DraftsInv'
BY DEF DraftsInv, TextsReachTheirOwn

LEMMA NothingOwn == OwnDraft(NoDraft) /\ OwnLetter(NoLetter)
BY DEF OwnDraft, OwnLetter, NoDraft, NoLetter, Draft

LEMMA DraftsInitHolds == DraftsInit => DraftsInv
BY NothingOwn DEF DraftsInit, DraftsInv, Screens, TextsReachTheirOwn

LEMMA DraftsStep == DraftsInv /\ [DraftsNext]_draftsVars => DraftsInv'
<1> SUFFICES ASSUME DraftsInv, [DraftsNext]_draftsVars PROVE DraftsInv'
  OBVIOUS
<1>1. ASSUME NEW s \in Screens, Look(s) PROVE DraftsInv'
  BY <1>1 DEF Look, Screens, DraftsInv, TextsReachTheirOwn, OwnDraft, OwnLetter
<1>2. ASSUME form # "bulk"
      PROVE  /\ facing.tag \in Person /\ facing.people = {facing.tag}
             /\ draft \in Draft /\ draft.text \subseteq {draft.tag} /\ draft.open \in BOOLEAN
             /\ draft.open => draft.tag \in Person
  BY <1>2 DEF DraftsInv, OwnDraft, Draft
<1>3. ASSUME ToggleReject PROVE DraftsInv'
  <2> DEFINE next == [tag |-> facing.tag, open |-> ~Open,
                      text |-> IF Open \/ form = "rotations" THEN {} ELSE Text]
  <2>1. form = "record" \/ form = "rotations"
    BY <1>3 DEF ToggleReject
  <2>2. (~Open) \in BOOLEAN
    OBVIOUS
  <2>3. OwnDraft(next)
    <3>1. (IF Open \/ form = "rotations" THEN {} ELSE Text) \subseteq {facing.tag}
      BY <1>2, <2>1 DEF Text
    <3>2. QED BY <1>2, <2>1, <2>2, <3>1 DEF OwnDraft, Draft
  <2>4. draft' = next /\ UNCHANGED <<form, facing, letter, delivered>>
    BY <1>3 DEF ToggleReject
  <2> HIDE DEF next
  <2>5. QED BY <2>3, <2>4, OwnStep DEF DraftsInv, OwnDraft, OwnLetter
<1>4. ASSUME ToggleBulk PROVE DraftsInv'
  BY <1>4 DEF ToggleBulk, DraftsInv
<1>5. ASSUME ChangeEmail PROVE DraftsInv'
  <2> DEFINE next == [tag |-> facing.tag, text |-> facing.people, open |-> TRUE]
  <2>1. OwnDraft(next)
    BY <1>2, <1>5 DEF ChangeEmail, OwnDraft, Draft
  <2>2. draft' = next /\ UNCHANGED <<form, facing, letter, delivered>>
    BY <1>5 DEF ChangeEmail
  <2> HIDE DEF next
  <2>3. QED BY <2>1, <2>2, OwnStep DEF DraftsInv, OwnDraft, OwnLetter
<1>6. ASSUME CancelChange PROVE DraftsInv'
  <2> DEFINE next == [draft EXCEPT !.open = FALSE]
  <2>1. OwnDraft(next)
    BY <1>2, <1>6 DEF CancelChange, OwnDraft, Draft
  <2>2. draft' = next /\ UNCHANGED <<form, facing, letter, delivered>>
    BY <1>6 DEF CancelChange
  <2> HIDE DEF next
  <2>3. QED BY <2>1, <2>2, OwnStep DEF DraftsInv, OwnDraft, OwnLetter
<1>7. ASSUME NEW anew \in BOOLEAN, Type(anew) PROVE DraftsInv'
  <2> DEFINE tag == IF form = "recipient" THEN draft.tag ELSE facing.tag
             text == Addressed \cup (IF anew THEN {} ELSE Text)
             next == [tag |-> tag, text |-> text, open |-> TRUE]
  <2>1. ASSUME form # "bulk" PROVE tag \in Person /\ text \subseteq {tag}
    BY <1>2, <1>7, <2>1 DEF Type, Open, Addressed, Text
  <2>2. draft' = next /\ UNCHANGED <<form, facing, letter, delivered>>
    BY <1>7 DEF Type
  <2> HIDE DEF tag, text
  <2>3. ASSUME form # "bulk" PROVE OwnDraft(next)
    BY <2>1, <2>3 DEF OwnDraft, Draft
  <2> HIDE DEF next
  <2>4. QED BY <2>2, <2>3, OwnStep DEF DraftsInv, OwnDraft, OwnLetter
<1>8. ASSUME SendText PROVE DraftsInv'
  <2> DEFINE next == [to |-> Addressed, text |-> Text]
  <2>1. ASSUME form # "bulk" PROVE OwnLetter(next)
    <3>1. PICK p \in Person : Addressed = {p} /\ Text \subseteq {p}
      BY <1>2, <1>8, <2>1 DEF SendText, Open, Addressed, Text
    <3>2. QED BY <3>1 DEF OwnLetter
  <2>2. letter' = next /\ UNCHANGED <<form, facing, draft, delivered>>
    BY <1>8 DEF SendText
  <2> HIDE DEF next
  <2>3. QED BY <2>1, <2>2, OwnStep DEF DraftsInv, OwnDraft, OwnLetter
<1>9. ASSUME ApproveShown PROVE DraftsInv'
  <2> DEFINE next == [to |-> facing.people, text |-> {}]
  <2>1. ASSUME form # "bulk" PROVE OwnLetter(next)
    BY <1>2, <2>1 DEF OwnLetter
  <2>2. letter' = next /\ UNCHANGED <<form, facing, draft, delivered>>
    BY <1>9 DEF ApproveShown
  <2> HIDE DEF next
  <2>3. QED BY <2>1, <2>2, OwnStep DEF DraftsInv, OwnDraft, OwnLetter
<1>10. ASSUME NEW answered \in BOOLEAN, Handled(answered) PROVE DraftsInv'
  <2>1. /\ UNCHANGED <<form, facing>> /\ letter' = NoLetter
        /\ draft' = NoDraft \/ draft' = draft
    BY <1>10 DEF Handled
  <2>2. PICK reached \in SUBSET letter.to :
          delivered' = delivered \cup {[to |-> p, text |-> letter.text] : p \in reached}
    BY <1>10 DEF Handled
  <2>3. ASSUME form # "bulk" PROVE TextsReachTheirOwn'
    BY <2>1, <2>2, <2>3 DEF DraftsInv, TextsReachTheirOwn, OwnLetter
  <2>4. QED BY <2>1, <2>3, NothingOwn DEF DraftsInv
<1>11. ASSUME Dropped PROVE DraftsInv'
  BY <1>11, NothingOwn DEF Dropped, DraftsInv, TextsReachTheirOwn, OwnDraft
<1>12. CASE UNCHANGED draftsVars
  BY <1>12 DEF draftsVars, DraftsInv, TextsReachTheirOwn, OwnDraft, OwnLetter
<1>13. QED
  BY <1>1, <1>3, <1>4, <1>5, <1>6, <1>7, <1>8, <1>9, <1>10, <1>11, <1>12 DEF DraftsNext

\* Nobody is sent what was typed about another person (QueueRecord.tsx,
\* KeyRotationsPage.tsx, BallotAccessPage.tsx).
THEOREM TextsReachTheirOwnAlways == DraftsSpec => []TextsReachTheirOwn
<1>1. DraftsInv => TextsReachTheirOwn
  BY DEF DraftsInv, TextsReachTheirOwn
<1>2. QED BY <1>1, DraftsInitHolds, DraftsStep, PTL DEF DraftsSpec

\* Whatever the form, drafts and letters are about people that come on screen.
Tag == Person \cup {"none"} \cup {s.view : s \in Screen}
Sketch == [tag : Tag, text : SUBSET Person, open : BOOLEAN]

DraftsTyped ==
  /\ form \in {"record", "rotations", "bulk", "recipient"} /\ facing \in Screens
  /\ draft \in Sketch
  /\ form = "recipient" /\ draft.open => draft.tag \in Person
  /\ letter \in [to : SUBSET Person, text : SUBSET Person]
  /\ waiting \subseteq Person
  /\ \A m \in delivered : m.to \in Person /\ m.text \subseteq Person

LEMMA ScreensShowPeople ==
  ASSUME NEW s \in Screens
  PROVE  /\ s.people \subseteq Person /\ s.tag \in Tag
         /\ form # "bulk" => s.tag \in Person
BY DraftsAssumption DEF Screens, Tag

\* A step that writes a draft.
LEMMA SketchStep ==
  ASSUME DraftsTyped, UNCHANGED <<form, facing, letter, waiting, delivered>>, NEW d \in Sketch, draft' = d,
         form = "recipient" /\ d.open => d.tag \in Person
  PROVE  DraftsTyped'
BY DEF DraftsTyped, Screens

\* A step that writes a letter.
LEMMA LetterStep ==
  ASSUME DraftsTyped, UNCHANGED <<form, facing, draft, waiting, delivered>>,
         NEW to \in SUBSET Person, NEW text \in SUBSET Person, letter' = [to |-> to, text |-> text]
  PROVE  DraftsTyped'
BY DEF DraftsTyped, Screens

LEMMA DraftsTypedStep == DraftsTyped /\ [DraftsNext]_draftsVars => DraftsTyped'
<1> SUFFICES ASSUME DraftsTyped, [DraftsNext]_draftsVars PROVE DraftsTyped'
  OBVIOUS
<1>1. /\ facing.people \subseteq Person /\ facing.tag \in Tag /\ (form # "bulk" => facing.tag \in Person)
      /\ draft.text \subseteq Person /\ draft.tag \in Tag
  BY ScreensShowPeople DEF DraftsTyped, Sketch
<1>2. Text \subseteq Person /\ (Open => Addressed \subseteq Person)
  BY <1>1 DEF Text, Open, Addressed, DraftsTyped
<1>3. NoDraft \in Sketch /\ ~NoDraft.open /\ NoLetter \in [to : SUBSET Person, text : SUBSET Person]
  BY DEF NoDraft, NoLetter, Sketch, Tag
<1>4. ASSUME NEW s \in Screens, Look(s) PROVE DraftsTyped'
  BY <1>4 DEF Look, Screens, DraftsTyped
<1>5. ASSUME ToggleReject PROVE DraftsTyped'
  <2> DEFINE next == [tag |-> facing.tag, open |-> ~Open,
                      text |-> IF Open \/ form = "rotations" THEN {} ELSE Text]
  <2>1. (~Open) \in BOOLEAN
    OBVIOUS
  <2>2. next \in Sketch
    BY <1>1, <1>2, <2>1 DEF Sketch
  <2>3. /\ draft' = next /\ UNCHANGED <<form, facing, letter, waiting, delivered>>
        /\ form # "recipient"
    BY <1>5 DEF ToggleReject
  <2> HIDE DEF next
  <2>4. QED BY <2>2, <2>3, SketchStep
<1>6. ASSUME ToggleBulk PROVE DraftsTyped'
  <2>1. PICK d \in Sketch : draft' = d
    <3>1. CASE Open
      <4>1. draft' = [draft EXCEPT !.tag = "none", !.open = FALSE]
        BY <1>6, <3>1 DEF ToggleBulk
      <4>2. [draft EXCEPT !.tag = "none", !.open = FALSE] \in Sketch
        BY DEF DraftsTyped, Sketch, Tag
      <4>3. QED BY <4>1, <4>2
    <3>2. CASE ~Open
      <4>1. draft' = [draft EXCEPT !.tag = facing.tag, !.open = TRUE]
        BY <1>6, <3>2 DEF ToggleBulk
      <4>2. [draft EXCEPT !.tag = facing.tag, !.open = TRUE] \in Sketch
        BY <1>1 DEF DraftsTyped, Sketch
      <4>3. QED BY <4>1, <4>2
    <3>3. QED BY <3>1, <3>2
  <2>2. form = "bulk" /\ UNCHANGED <<form, facing, letter, waiting, delivered>>
    BY <1>6 DEF ToggleBulk
  <2>3. QED BY <2>1, <2>2, SketchStep
<1>7. ASSUME ChangeEmail PROVE DraftsTyped'
  <2> DEFINE next == [tag |-> facing.tag, text |-> facing.people, open |-> TRUE]
  <2>1. next \in Sketch /\ next.tag \in Person
    BY <1>1, <1>7 DEF Sketch, ChangeEmail
  <2>2. draft' = next /\ UNCHANGED <<form, facing, letter, waiting, delivered>>
    BY <1>7 DEF ChangeEmail
  <2> HIDE DEF next
  <2>3. QED BY <2>1, <2>2, SketchStep
<1>8. ASSUME CancelChange PROVE DraftsTyped'
  <2> DEFINE next == [draft EXCEPT !.open = FALSE]
  <2>1. next \in Sketch /\ next.open = FALSE
    BY DEF DraftsTyped, Sketch
  <2>2. draft' = next /\ UNCHANGED <<form, facing, letter, waiting, delivered>>
    BY <1>8 DEF CancelChange
  <2> HIDE DEF next
  <2>3. QED BY <2>1, <2>2, SketchStep
<1>9. ASSUME NEW anew \in BOOLEAN, Type(anew) PROVE DraftsTyped'
  <2> DEFINE tag == IF form = "recipient" THEN draft.tag ELSE facing.tag
             text == Addressed \cup (IF anew THEN {} ELSE Text)
             next == [tag |-> tag, text |-> text, open |-> TRUE]
  <2>1. tag \in Tag /\ text \subseteq Person /\ (form = "recipient" => tag \in Person)
    BY <1>1, <1>2, <1>9 DEF Type, Open, DraftsTyped
  <2>2. draft' = next /\ UNCHANGED <<form, facing, letter, waiting, delivered>>
    BY <1>9 DEF Type
  <2> HIDE DEF tag, text
  <2>3. next \in Sketch /\ (form = "recipient" => next.tag \in Person)
    BY <2>1 DEF Sketch
  <2> HIDE DEF next
  <2>4. QED BY <2>2, <2>3, SketchStep
<1>10. ASSUME SendText PROVE DraftsTyped'
  BY <1>2, <1>10, LetterStep DEF SendText
<1>11. ASSUME ApproveShown PROVE DraftsTyped'
  BY <1>1, <1>11, LetterStep DEF ApproveShown
<1>12. ASSUME NEW answered \in BOOLEAN, Handled(answered) PROVE DraftsTyped'
  <2>1. /\ UNCHANGED <<form, facing>> /\ letter' = NoLetter
        /\ draft' = NoDraft \/ draft' = draft
        /\ waiting' \subseteq waiting
    BY <1>12 DEF Handled
  <2>2. PICK reached \in SUBSET letter.to :
          delivered' = delivered \cup {[to |-> p, text |-> letter.text] : p \in reached}
    BY <1>12 DEF Handled
  <2>3. \A m \in delivered' : m.to \in Person /\ m.text \subseteq Person
    BY <2>2 DEF DraftsTyped
  <2>4. draft' \in Sketch /\ (form = "recipient" /\ draft'.open => draft'.tag \in Person)
    BY <1>3, <2>1 DEF DraftsTyped
  <2>5. QED BY <1>3, <2>1, <2>3, <2>4 DEF DraftsTyped, Screens
<1>13. ASSUME Dropped PROVE DraftsTyped'
  BY <1>3, <1>13 DEF Dropped, DraftsTyped, Screens
<1>14. CASE UNCHANGED draftsVars
  BY <1>14 DEF draftsVars, DraftsTyped, Screens
<1>15. QED
  BY <1>4, <1>5, <1>6, <1>7, <1>8, <1>9, <1>10, <1>11, <1>12, <1>13, <1>14 DEF DraftsNext

\* Texts are about people, and go to people.
LEMMA DraftsTypeCorrect == DraftsSpec => []DraftsTypeOK
<1>1. DraftsInit => DraftsTyped
  <2> SUFFICES ASSUME DraftsInit PROVE DraftsTyped
    OBVIOUS
  <2>1. NoDraft \in Sketch /\ ~NoDraft.open /\ NoLetter \in [to : SUBSET Person, text : SUBSET Person]
    BY DEF NoDraft, NoLetter, Sketch, Tag
  <2>2. QED BY <2>1 DEF DraftsInit, DraftsTyped
<1>2. DraftsTyped => DraftsTypeOK
  BY DEF DraftsTyped, Sketch, DraftsTypeOK
<1>3. QED BY <1>1, <1>2, DraftsTypedStep, PTL DEF DraftsSpec

-----------------------------------------------------------------------------
(***************************************************************************)
(* Consent.                                                                *)
(***************************************************************************)
\* Consent belongs to the opening on screen, pre-flights to its step.
ConfirmationInv ==
  /\ openings \in Nat
  /\ consent.typed \in {0, openings} /\ consent.ticked \in {0, openings}
  /\ consent \in [typed : Nat, ticked : Nat, wording : {"none", "irreversible", "reviewed"}]
  /\ target = "none" => consent.typed = 0 /\ consent.ticked = 0
  /\ ~overlapped /\ target # "none" => \A p \in awaited : p.to = target
  /\ Busy => {"opening", "consent"} \subseteq DOMAIN commit
  /\ FreshConsent /\ PreviewFits

LEMMA ConfirmationStep == ConfirmationInv /\ [ConfirmationNext]_confirmationVars => ConfirmationInv'
<1> SUFFICES ASSUME ConfirmationInv, [ConfirmationNext]_confirmationVars PROVE ConfirmationInv'
  OBVIOUS
<1> USE DEF ConfirmationInv, FreshConsent, PreviewFits, Busy
<1>1. ASSUME UNCHANGED <<dialogVars, commit>> PROVE ConfirmationInv'
  BY <1>1 DEF dialogVars
<1>2. ASSUME Colleague \/ Refresh \/ UNCHANGED confirmationVars PROVE ConfirmationInv'
  BY <1>1, <1>2 DEF Colleague, Refresh, confirmationVars
<1>3. ASSUME NEW b \in BOOLEAN, Fetched(b) PROVE ConfirmationInv'
  BY <1>3 DEF Fetched, NoConsent
<1>4. ASSUME NEW to \in Steps, OpenTransition(to) PROVE ConfirmationInv'
  <2>1. consent.typed = 0 /\ consent.ticked = 0 /\ UNCHANGED <<consent, commit>>
    BY <1>4 DEF OpenTransition
  <2>2. openings' \in Nat /\ preview' = NoPreview
    BY <1>4 DEF OpenTransition
  <2>3. ~overlapped' => \A p \in awaited' : p.to = target'
    <3>1. ~overlapped' => awaited = {}
      BY <1>4, Zenon DEF OpenTransition
    <3>2. target' = to /\ awaited' = awaited \cup {[to |-> to, opening |-> openings + 1]}
      BY <1>4 DEF OpenTransition
    <3>3. QED BY <3>1, <3>2
  <2>4. QED BY <2>1, <2>2, <2>3
<1>5. ASSUME NEW b \in BOOLEAN, NEW p \in awaited, Previewed(p, b) PROVE ConfirmationInv'
  BY <1>5 DEF Previewed
<1>6. ASSUME TypePhrase PROVE ConfirmationInv'
  BY <1>6 DEF TypePhrase, Shown
<1>7. ASSUME Acknowledge PROVE ConfirmationInv'
  BY <1>7 DEF Acknowledge, Shown, Wording
<1>8. ASSUME Cancel PROVE ConfirmationInv'
  BY <1>8 DEF Cancel, Unmount, NoConsent
<1>9. ASSUME Confirm PROVE ConfirmationInv'
  BY <1>9 DEF Confirm, Ready, dialogVars
<1>10. ASSUME TransitionElection PROVE ConfirmationInv'
  <2>1. UNCHANGED dialogVars /\ Busy
    BY <1>10 DEF TransitionElection
  <2>2. PICK outcome : commit' = [commit EXCEPT !.outcome = outcome]
    BY <1>10 DEF TransitionElection
  <2>3. /\ commit'.opening = commit.opening /\ commit'.consent = commit.consent
        /\ DOMAIN commit' = DOMAIN commit
    BY <2>1, <2>2
  <2>4. QED BY <2>1, <2>3 DEF dialogVars
<1>11. ASSUME NEW b \in BOOLEAN, Answer(b) PROVE ConfirmationInv'
  BY <1>11 DEF Answer, Unmount, NoConsent
<1>12. QED
  BY <1>2, <1>3, <1>4, <1>5, <1>6, <1>7, <1>8, <1>9, <1>10, <1>11 DEF ConfirmationNext

LEMMA ConfirmationInitHolds == ConfirmationInit => ConfirmationInv
BY DEF ConfirmationInit, ConfirmationInv, FreshConsent, PreviewFits, Busy, NoConsent, NoCommit

\* The phrase and the tick of a confirmed step were given for it (ConfirmDialog.tsx).
THEOREM FreshConsentAlways == ConfirmationSpec => []FreshConsent
<1>1. ConfirmationInv => FreshConsent
  BY DEF ConfirmationInv
<1>2. QED BY <1>1, ConfirmationInitHolds, ConfirmationStep, PTL DEF ConfirmationSpec

\* The checks shown are of the step the dialog is about, unless answers crossed.
THEOREM PreviewFitsAlways == ConfirmationSpec => []PreviewFits
<1>1. ConfirmationInv => PreviewFits
  BY DEF ConfirmationInv
<1>2. QED BY <1>1, ConfirmationInitHolds, ConfirmationStep, PTL DEF ConfirmationSpec

\* Stages, groups and steps as the server and the dialog know them.
ConfirmationTyped ==
  /\ stage \in Stages /\ grouping \in Nat /\ published \in 0 .. grouping
  /\ target \in Steps \cup {"none"} /\ preview.to \in Steps \cup {"none"}
  /\ \A p \in awaited : p.to \in Steps /\ p.opening \in 1 .. openings
  /\ commit.to \in Steps \cup {"none"}
  /\ Busy => "to" \in DOMAIN commit /\ commit.to \in Steps

\* A step that is permitted leads to a stage, and freezes groups there are.
LEMMA ApplyTyped ==
  ASSUME stage \in Stages, grouping \in Nat, published \in 0 .. grouping, NEW to \in Steps,
         Permits(to), Apply(to)
  PROVE  stage' \in Stages /\ grouping' = grouping /\ published' \in 0 .. grouping
BY DEF Apply, Stages, Steps

LEMMA ConfirmationTypedStep ==
  ASSUME ConfirmationInv, ConfirmationTyped, [ConfirmationNext]_confirmationVars
  PROVE  ConfirmationTyped'
<1>1. openings \in Nat
  BY DEF ConfirmationInv
<1>2. Onward(stage) \in Steps \cup {"none"}
  BY DEF Onward, Steps, Stages
<1>3. ASSUME Colleague PROVE ConfirmationTyped'
  <2>1. UNCHANGED <<dialogVars, commit>>
    BY <1>3 DEF Colleague
  <2>2. stage' \in Stages /\ grouping' \in Nat /\ published' \in 0 .. grouping'
    <3>1. CASE \E to \in {"CANCELLED", "FREEZE", Onward(stage)} \ {"none"} : Permits(to) /\ Apply(to)
      <4>1. PICK to \in Steps : Permits(to) /\ Apply(to)
        BY <1>2, <3>1 DEF Steps, Stages
      <4>2. QED BY <4>1, ApplyTyped DEF ConfirmationTyped
    <3>2. CASE published = 0 /\ grouping' = grouping + 1 /\ UNCHANGED <<stage, published>>
      BY <3>2 DEF ConfirmationTyped
    <3>3. CASE UNCHANGED <<stage, grouping, published>>
      BY <3>3 DEF ConfirmationTyped
    <3>4. QED BY <1>3, <3>1, <3>2, <3>3 DEF Colleague
  <2>3. QED BY <2>1, <2>2 DEF ConfirmationTyped, dialogVars, Busy
<1>4. ASSUME TransitionElection PROVE ConfirmationTyped'
  <2>1. Busy /\ UNCHANGED dialogVars
    BY <1>4 DEF TransitionElection
  <2>2. PICK outcome : commit' = [commit EXCEPT !.outcome = outcome]
    BY <1>4 DEF TransitionElection
  <2>3. commit'.to = commit.to /\ "to" \in DOMAIN commit'
    BY <2>1, <2>2 DEF ConfirmationTyped
  <2>4. stage' \in Stages /\ grouping' \in Nat /\ published' \in 0 .. grouping'
    <3>1. CASE Permits(commit.to)
      <4>1. commit.to \in Steps
        BY <2>1 DEF ConfirmationTyped
      <4>2. QED BY <1>4, <3>1, <4>1, ApplyTyped DEF TransitionElection, ConfirmationTyped
    <3>2. CASE ~Permits(commit.to)
      BY <1>4, <3>2 DEF TransitionElection, serverVars, ConfirmationTyped
    <3>3. QED BY <3>1, <3>2
  <2>5. QED BY <2>1, <2>3, <2>4 DEF ConfirmationTyped, dialogVars
<1>5. ASSUME UNCHANGED <<stage, grouping, published>> PROVE stage' \in Stages /\ grouping' \in Nat /\ published' \in 0 .. grouping'
  BY <1>5 DEF ConfirmationTyped
<1>6. ASSUME NEW to \in Steps, OpenTransition(to) PROVE ConfirmationTyped'
  <2>1. /\ openings' = openings + 1 /\ target' = to /\ preview' = NoPreview /\ UNCHANGED commit
        /\ awaited' = awaited \cup {[to |-> to, opening |-> openings + 1]}
        /\ UNCHANGED <<stage, grouping, published>>
    BY <1>6 DEF OpenTransition, serverVars
  <2>2. \A p \in awaited' : p.to \in Steps /\ p.opening \in 1 .. openings'
    BY <1>1, <2>1 DEF ConfirmationTyped
  <2>3. QED BY <1>5, <2>1, <2>2 DEF ConfirmationTyped, NoPreview, Busy
<1>7. ASSUME NEW b \in BOOLEAN, NEW p \in awaited, Previewed(p, b) PROVE ConfirmationTyped'
  <2>1. /\ UNCHANGED <<stage, grouping, published, target, openings, commit>>
        /\ awaited' = awaited \ {p} /\ (preview' = preview \/ preview'.to = p.to)
    BY <1>7 DEF Previewed, serverVars
  <2>2. QED BY <1>5, <2>1 DEF ConfirmationTyped, Busy
<1>8. ASSUME Confirm PROVE ConfirmationTyped'
  <2>1. /\ UNCHANGED <<stage, grouping, published, target, preview, awaited, openings>>
        /\ commit'.to = target /\ "to" \in DOMAIN commit' /\ target # "none"
    BY <1>8 DEF Confirm, Shown, serverVars, dialogVars
  <2>2. QED BY <1>5, <2>1 DEF ConfirmationTyped, Busy
<1>9. ASSUME /\ UNCHANGED <<stage, grouping, published, preview, awaited, openings>>
             /\ target' \in {target, "none"} /\ (commit' = commit \/ commit' = NoCommit)
      PROVE  ConfirmationTyped'
  BY <1>5, <1>9 DEF ConfirmationTyped, NoCommit, Busy
<1>10. ASSUME \/ Refresh \/ TypePhrase \/ Acknowledge \/ Cancel
              \/ \E b \in BOOLEAN : Fetched(b) \/ Answer(b)
              \/ UNCHANGED confirmationVars
       PROVE  /\ UNCHANGED <<stage, grouping, published, preview, awaited, openings>>
              /\ target' \in {target, "none"} /\ (commit' = commit \/ commit' = NoCommit)
  BY <1>10 DEF Refresh, TypePhrase, Acknowledge, Cancel, Fetched, Answer, confirmationVars, serverVars,
               dialogVars
<1>11. QED BY <1>3, <1>4, <1>6, <1>7, <1>8, <1>9, <1>10 DEF ConfirmationNext

\* Dialogs, pre-flights and requests are about steps, and consent about openings.
LEMMA ConfirmationTypeCorrect == ConfirmationSpec => []ConfirmationTypeOK
<1>1. ConfirmationInit => ConfirmationTyped
  BY DEF ConfirmationInit, ConfirmationTyped, NoPreview, NoCommit, Busy, Stages
<1>2. ConfirmationInv /\ ConfirmationTyped => ConfirmationTypeOK
  BY DEF ConfirmationInv, ConfirmationTyped, ConfirmationTypeOK
<1>3. QED
  BY <1>1, <1>2, ConfirmationInitHolds, ConfirmationStep, ConfirmationTypedStep, PTL DEF ConfirmationSpec

LEMMA LeastNatural ==
  ASSUME NEW S \in SUBSET Nat, S # {}
  PROVE  \E n \in S : \A m \in S : n <= m
<1> DEFINE R == OpToRel(<, Nat)
<1>1. IsWellFoundedOn(R, Nat)
  BY NatLessThanWellFounded
<1>2. \A m, n \in Nat : <<m, n>> \in R <=> m < n
  BY DEF OpToRel
<1> HIDE DEF R
<1>3. PICK n \in S : \A m \in S : ~(<<m, n>> \in R)
  BY <1>1, WFMin
<1>4. ASSUME NEW m \in S PROVE n <= m
  <2>1. m \in Nat /\ n \in Nat
    OBVIOUS
  <2>2. ~(<<m, n>> \in R)
    BY <1>3
  <2>3. ~(m < n)
    BY <1>2, <2>1, <2>2
  <2>4. QED BY <2>1, <2>3
<1>5. QED BY <1>4

\* The least of a set of naturals is one of them.
LEMMA MinIsLeast ==
  ASSUME NEW S \in SUBSET Nat, S # {}
  PROVE  Min(S) \in S /\ \A m \in S : Min(S) <= m
BY LeastNatural DEF Min

(***************************************************************************)
(* The details of an election.                                             *)
(***************************************************************************)
\* A row as the server keeps it, and what a form holds.
Size == Sizes \cup {MinSize}
DetailsRow == {row \in [Detail -> Nat] : row["size"] \in Size /\ \A f \in Date : row[f] \in {0} \cup Instant}
DetailsForm == {filled \in [Detail -> Nat] : filled["size"] \in Size /\ \A f \in Date : filled[f] \in Readings}
Editing == [values : DetailsForm, base : DetailsRow \cup {NoDetails}, touched : SUBSET Detail]
Saving == [form : Editing, outcome : {"sent", "stored", "refused"}]

DetailsTyped ==
  /\ details \in DetailsRow \cup {NoDetails}
  /\ shownAs \in [details : DetailsRow, editable : BOOLEAN] \cup {NoView}
  /\ edits \in Editing \cup {NoEdits}
  /\ saving \in Saving \cup {NoSaving}
  /\ frozen \in BOOLEAN /\ (frozen => details # NoDetails)
  /\ voters \in {0} \cup Electorates
  /\ divided \in Seq(Nat \ {0}) /\ (divided # << >> => frozen)

\* A field that nobody typed into shows the record the form was filled with.
FilledFrom(filled) ==
  filled.base # NoDetails => \A f \in Detail \ filled.touched : filled.values[f] = FormOf(filled.base)[f]

FormsFilled ==
  /\ edits # NoEdits => FilledFrom(edits)
  /\ saving # NoSaving => FilledFrom(saving.form)
  /\ saving.outcome = "sent" /\ saving.form.base = NoDetails => details = NoDetails

\* Groups are the ones the record and the roll give, once registration has closed.
SheetFits ==
  /\ divided # << >> => divided = GroupSizes
  /\ sheet.closed => frozen /\ sheet.sizes = GroupSizes

DetailsInv == DetailsTyped /\ FormsFilled /\ SheetFits

-----------------------------------------------------------------------------
\* The clock's readings and the instants they stand for.
LEMMA ReadingsOfClock ==
  /\ Instant \subseteq Nat \ {0} /\ Readings \subseteq Nat
  /\ \A i \in {0} \cup Instant : ToLocalInput(i) \in Readings
  /\ \A i \in Instant : Clock[i] \in Nat \ {0}
<1>1. Clock \in Seq(Nat \ {0})
  BY DetailsAssumption
<1>2. Len(Clock) \in Nat /\ DOMAIN Clock = 1 .. Len(Clock) /\ \A i \in 1 .. Len(Clock) : Clock[i] \in Nat \ {0}
  BY <1>1
<1>3. QED BY <1>2 DEF Instant, Readings, ToLocalInput, Range

\* A reading is taken for the earliest instant that shows it.
LEMMA InstantOfReading ==
  ASSUME NEW r \in Readings
  PROVE  /\ FromLocalInput(r) \in {0} \cup Instant
         /\ r # 0 => /\ FromLocalInput(r) \in Instant /\ Clock[FromLocalInput(r)] = r
                     /\ \A i \in Instant : Clock[i] = r => FromLocalInput(r) <= i
<1> DEFINE S == {i \in Instant : Clock[i] = r}
<1>1. CASE r = 0
  BY <1>1 DEF FromLocalInput
<1>2. CASE r # 0
  <2>1. S \in SUBSET Nat /\ S # {}
    BY <1>2, ReadingsOfClock DEF Readings, Range, Instant
  <2>2. Min(S) \in S /\ \A m \in S : Min(S) <= m
    BY <2>1, MinIsLeast
  <2>3. FromLocalInput(r) = Min(S)
    BY <1>2 DEF FromLocalInput
  <2>4. QED BY <2>2, <2>3
<1>3. QED BY <1>1, <1>2

\* A date that goes through the officer's clock comes back, or earlier at the same reading.
LEMMA ThroughTheClock ==
  ASSUME NEW i \in {0} \cup Instant
  PROVE  LET j == FromLocalInput(ToLocalInput(i))
         IN  j = i \/ (i # 0 /\ j \in 1 .. i - 1 /\ Clock[j] = Clock[i])
<1>1. CASE i = 0
  BY <1>1 DEF FromLocalInput, ToLocalInput
<1>2. CASE i \in Instant
  <2>1. ToLocalInput(i) = Clock[i] /\ Clock[i] # 0 /\ Clock[i] \in Readings /\ i \in Nat \ {0}
    BY <1>2, ReadingsOfClock DEF ToLocalInput
  <2>2. /\ FromLocalInput(Clock[i]) \in Instant /\ Clock[FromLocalInput(Clock[i])] = Clock[i]
        /\ FromLocalInput(Clock[i]) <= i
    BY <1>2, <2>1, InstantOfReading
  <2>3. FromLocalInput(Clock[i]) \in Nat \ {0}
    BY <2>2, ReadingsOfClock
  <2>4. QED BY <2>1, <2>2, <2>3
<1>3. QED BY <1>1, <1>2

LEMMA FieldsAreNumbers ==
  {0} \cup Instant \subseteq Nat /\ Sizes \subseteq Nat /\ Size \subseteq Nat /\ Sizes \subseteq Size
BY ReadingsOfClock, DetailsAssumption DEF Size

\* Rows make forms, and forms rows.
LEMMA FormsAndRows ==
  /\ \A row \in DetailsRow : FormOf(row) \in DetailsForm
  /\ \A filled \in DetailsForm : InputOf(filled) \in DetailsRow /\ DOMAIN InputOf(filled) = Detail
<1>1. Size \subseteq Nat /\ "size" \notin Date
  BY DetailsAssumption DEF Size, Date
<1>2. ASSUME NEW row \in DetailsRow PROVE FormOf(row) \in DetailsForm
  <2>1. \A f \in Date : ToLocalInput(row[f]) \in Readings
    BY ReadingsOfClock DEF DetailsRow
  <2>2. QED BY <1>1, <2>1, ReadingsOfClock DEF FormOf, DetailsForm, DetailsRow, Detail
<1>3. ASSUME NEW filled \in DetailsForm PROVE InputOf(filled) \in DetailsRow
  <2>1. \A f \in Date : FromLocalInput(filled[f]) \in {0} \cup Instant
    BY InstantOfReading DEF DetailsForm
  <2>2. \A f \in Date : FromLocalInput(filled[f]) \in Nat
    BY <2>1, FieldsAreNumbers
  <2>3. InputOf(filled) \in [Detail -> Nat]
    BY <2>2 DEF InputOf, DetailsForm, Detail
  <2>4. InputOf(filled)["size"] = filled["size"] /\ filled["size"] \in Size
    BY <1>1 DEF InputOf, Detail, DetailsForm
  <2>5. \A f \in Date : InputOf(filled)[f] = FromLocalInput(filled[f])
    BY DEF InputOf, Detail
  <2>6. QED BY <2>1, <2>3, <2>4, <2>5 DEF DetailsRow
<1>4. QED BY <1>2, <1>3 DEF InputOf

LEMMA DetailsInitHolds == DetailsInit => DetailsInv
<1> SUFFICES ASSUME DetailsInit PROVE DetailsInv
  OBVIOUS
<1>1. EmptyForm \in DetailsForm
  BY DetailsAssumption, ReadingsOfClock DEF EmptyForm, DetailsForm, Detail, Date, Readings, Size
<1>2. edits \in Editing /\ edits.base = NoDetails
  BY <1>1 DEF DetailsInit, Editing
<1>3. DetailsTyped
  <2>1. << >> \in Seq(Nat \ {0})
    OBVIOUS
  <2>2. QED BY <1>2, <2>1 DEF DetailsInit, DetailsTyped
<1>4. FormsFilled
  BY <1>2 DEF DetailsInit, FormsFilled, FilledFrom, NoSaving
<1>5. SheetFits
  BY DEF DetailsInit, SheetFits, NoSheet
<1>6. QED BY <1>3, <1>4, <1>5 DEF DetailsInv

\* Forms are filled from what the page shows; what is typed stays of its kind.
LEMMA ChangedFills ==
  ASSUME edits \in Editing, FilledFrom(edits), NEW f \in Detail, NEW v \in Typable(f)
  PROVE  Changed(f, v) \in Editing /\ FilledFrom(Changed(f, v))
<1> DEFINE values == [edits.values EXCEPT ![f] = v]
           next == [edits EXCEPT !.values = values, !.touched = edits.touched \cup {f}]
<1>1. Changed(f, v) = next
  BY DEF Changed
<1>2. values \in DetailsForm
  <2>1. v \in Nat /\ (f = "size" => v \in Size) /\ (f \in Date => v \in Readings)
    BY ReadingsOfClock, DetailsAssumption DEF Typable, Size, Date, Detail
  <2>2. edits.values \in DetailsForm
    BY DEF Editing
  <2>3. QED BY <2>1, <2>2 DEF DetailsForm, Detail, Date
<1>3. \A g \in Detail \ {f} : values[g] = edits.values[g]
  BY DEF Editing, DetailsForm
<1> HIDE DEF values
<1>4. /\ next \in Editing /\ next.values = values /\ next.base = edits.base
      /\ next.touched = edits.touched \cup {f}
  BY <1>2 DEF Editing
<1> HIDE DEF next
<1>5. FilledFrom(next)
  BY <1>3, <1>4 DEF FilledFrom
<1>6. QED BY <1>1, <1>4, <1>5

\* A step of the forms, in which the server has no part.
LEMMA FormStep ==
  ASSUME DetailsInv, UNCHANGED <<details, frozen, voters, divided, sheet>>,
         shownAs' \in [details : DetailsRow, editable : BOOLEAN] \cup {NoView},
         edits' \in Editing \cup {NoEdits}, edits' # NoEdits => FilledFrom(edits'),
         saving' \in Saving \cup {NoSaving}, saving' # NoSaving => FilledFrom(saving'.form),
         saving'.outcome = "sent" /\ saving'.form.base = NoDetails => details = NoDetails
  PROVE  DetailsInv'
<1>1. DetailsTyped'
  BY DEF DetailsInv, DetailsTyped
<1>2. FormsFilled'
  BY DEF FormsFilled, FilledFrom
<1>3. SheetFits'
  BY DEF DetailsInv, SheetFits, GroupSizes
<1>4. QED BY <1>1, <1>2, <1>3 DEF DetailsInv

LEMMA NoneIsNone ==
  /\ NoSaving.outcome = "none" /\ \A s \in Saving : s.outcome # "none"
  /\ NoDetails \notin DetailsRow
<1>1. DOMAIN NoDetails = {} /\ "size" \in Detail
  BY DEF NoDetails, Detail
<1>2. QED BY <1>1 DEF NoSaving, Saving, DetailsRow

LEMMA TypingHolds ==
  ASSUME DetailsInv, NEW f \in Detail, NEW v \in Typable(f), SetInNewForm(f, v) \/ SetValue(f, v)
  PROVE  DetailsInv'
<1>1. UNCHANGED <<details, frozen, voters, divided, shownAs, saving, sheet>>
  BY DEF SetInNewForm, SetValue
<1>2. edits' \in Editing /\ FilledFrom(edits')
  <2>1. CASE edits # NoEdits /\ edits' = Changed(f, v)
    BY <2>1, ChangedFills DEF DetailsInv, DetailsTyped, FormsFilled
  <2>2. CASE /\ edits = NoEdits /\ Shows
             /\ edits' = [values |-> [Values EXCEPT ![f] = v], base |-> shownAs.details, touched |-> {f}]
    <3> DEFINE row == shownAs.details
               values == [FormOf(row) EXCEPT ![f] = v]
               next == [values |-> values, base |-> row, touched |-> {f}]
    <3>1. row \in DetailsRow
      BY <2>2 DEF Shows, DetailsInv, DetailsTyped
    <3>2. FormOf(row) \in DetailsForm
      BY <3>1, FormsAndRows
    <3>3. v \in Nat /\ (f = "size" => v \in Size) /\ (f \in Date => v \in Readings)
      BY ReadingsOfClock, DetailsAssumption DEF Typable, Size, Date, Detail
    <3>4. values \in DetailsForm
      BY <3>2, <3>3 DEF DetailsForm, Detail, Date
    <3>5. \A g \in Detail \ {f} : values[g] = FormOf(row)[g]
      BY <3>2 DEF DetailsForm
    <3>6. edits' = next
      BY <2>2 DEF Values
    <3> HIDE DEF values, row
    <3>7. next \in Editing
      BY <3>1, <3>4 DEF Editing
    <3>8. FilledFrom(next)
      BY <3>5 DEF FilledFrom
    <3>9. QED BY <3>6, <3>7, <3>8
  <2>3. QED BY <2>1, <2>2 DEF SetInNewForm, SetValue, Creating
<1>3. QED BY <1>1, <1>2, FormStep DEF DetailsInv, DetailsTyped, FormsFilled, FilledFrom

LEMMA SubmitHolds ==
  ASSUME DetailsInv, SubmitNew \/ SaveMetadata
  PROVE  DetailsInv'
<1> DEFINE next == [form |-> edits, outcome |-> "sent"]
<1>1. /\ UNCHANGED <<details, frozen, voters, divided, shownAs, edits, sheet>> /\ saving' = next
      /\ edits # NoEdits
      /\ edits.base = NoDetails => details = NoDetails
  BY DEF SubmitNew, SaveMetadata, Send, Creating, Savable
<1>2. edits \in Editing /\ FilledFrom(edits)
  BY <1>1 DEF DetailsInv, DetailsTyped, FormsFilled
<1>3. next \in Saving /\ next.form = edits
  BY <1>2 DEF Saving
<1> HIDE DEF next
<1>4. QED BY <1>1, <1>2, <1>3, FormStep DEF DetailsInv, DetailsTyped, FormsFilled, FilledFrom

LEMMA DetailsPageHolds ==
  ASSUME DetailsInv,
         DiscardEdits \/ \E b \in BOOLEAN : SaveAnswered(b) \/ GetElectionDetail(b)
  PROVE  DetailsInv'
<1>1. UNCHANGED <<details, frozen, voters, divided, sheet>> /\ edits' \in {edits, NoEdits} /\ saving' \in {saving, NoSaving}
  BY DEF DiscardEdits, SaveAnswered, GetElectionDetail
<1>2. shownAs' \in [details : DetailsRow, editable : BOOLEAN] \cup {NoView}
  <2>1. CASE UNCHANGED shownAs
    BY <2>1 DEF DetailsInv, DetailsTyped
  <2>2. ASSUME NEW b \in BOOLEAN, GetElectionDetail(b)
        PROVE  shownAs' \in [details : DetailsRow, editable : BOOLEAN] \cup {NoView}
    <3>1. details \in DetailsRow /\ Editable \in BOOLEAN
      BY <2>2 DEF GetElectionDetail, DetailsInv, DetailsTyped, Editable
    <3>2. QED BY <2>2, <3>1 DEF GetElectionDetail
  <2>3. QED BY <2>1, <2>2 DEF DiscardEdits, SaveAnswered
<1>3. QED BY <1>1, <1>2, FormStep, NoneIsNone DEF DetailsInv, DetailsTyped, FormsFilled, FilledFrom

\* Registration closes the details, and the groups follow from them and the roll.
LEMMA RollHolds ==
  ASSUME DetailsInv, ReviewVoters \/ CloseRegistrationOfVoters
  PROVE  DetailsInv'
<1>1. UNCHANGED <<details, divided, shownAs, edits, saving, sheet>> /\ ~frozen
  BY DEF ReviewVoters, CloseRegistrationOfVoters, formVars
<1>2. DetailsTyped'
  BY <1>1 DEF ReviewVoters, CloseRegistrationOfVoters, DetailsInv, DetailsTyped
<1>3. FormsFilled'
  BY <1>1 DEF DetailsInv, FormsFilled, FilledFrom
<1>4. SheetFits'
  BY <1>1 DEF DetailsInv, DetailsTyped, SheetFits
<1>5. QED BY <1>2, <1>3, <1>4 DEF DetailsInv

\* There is at least one group, and none is smaller than it was to be.
LEMMA GroupSizesPositive ==
  ASSUME DetailsTyped, details # NoDetails, AssertFormable
  PROVE  GroupSizes \in Seq(Nat \ {0})
<1>1. /\ details["size"] \in Nat \ {0} /\ voters \in Nat /\ details["size"] = details.size
  BY DetailsAssumption DEF DetailsTyped, AssertFormable, DetailsRow, Detail
<1> DEFINE n == voters \div details.size
           left == voters % details.size
<1>2. n \in Nat /\ left \in Nat
  BY <1>1
<1>3. ASSUME NEW i \in 1 .. n
      PROVE  details.size + left \div n + (IF i <= left % n THEN 1 ELSE 0) \in Nat \ {0}
  <2>1. n \in Nat \ {0}
    BY <1>2
  <2>2. left \div n \in Nat /\ left % n \in Nat
    BY <1>2, <2>1
  <2>3. QED BY <1>1, <2>2
<1>4. GroupSizes = [i \in 1 .. n |-> details.size + left \div n + (IF i <= left % n THEN 1 ELSE 0)]
  BY DEF GroupSizes
<1> HIDE DEF n, left
<1>5. QED BY <1>2, <1>3, <1>4

LEMMA GroupsHold ==
  ASSUME DetailsInv, FormRings \/ PreviewFormation
  PROVE  DetailsInv'
<1>1. UNCHANGED <<details, frozen, voters, shownAs, edits, saving>> /\ details # NoDetails
  BY DEF FormRings, PreviewFormation, formVars, DetailsInv, DetailsTyped
<1>2. GroupSizes' = GroupSizes
  BY <1>1 DEF GroupSizes
<1>3. FormsFilled'
  BY <1>1 DEF DetailsInv, FormsFilled, FilledFrom
<1>4. CASE FormRings
  <2>1. DetailsTyped'
    BY <1>1, <1>4, GroupSizesPositive DEF FormRings, DetailsInv, DetailsTyped
  <2>2. SheetFits'
    BY <1>1, <1>2, <1>4 DEF FormRings, DetailsInv, SheetFits
  <2>3. QED BY <1>3, <2>1, <2>2 DEF DetailsInv
<1>5. CASE PreviewFormation
  <2>1. UNCHANGED divided /\ DetailsTyped'
    BY <1>1, <1>5 DEF PreviewFormation, DetailsInv, DetailsTyped
  <2>2. SheetFits'
    BY <1>1, <1>2, <1>5, <2>1 DEF PreviewFormation, DescribeExisting, Hypothetical, NoSheet, DetailsInv, DetailsTyped, SheetFits
  <2>3. QED BY <1>3, <2>1, <2>2 DEF DetailsInv
<1>6. QED BY <1>4, <1>5

\* The server's row changes while registration is open only, so that groups that were
\* previewed since are the groups.
LEMMA RowStepHolds ==
  ASSUME DetailsInv, details' \in DetailsRow, ~frozen, UNCHANGED <<frozen, voters, divided, shownAs, edits, sheet>>,
         saving' = saving \/ (saving' \in Saving /\ saving'.form = saving.form /\ saving # NoSaving /\ saving'.outcome # "sent"),
         saving' = saving => details # NoDetails
  PROVE  DetailsInv'
<1>1. DetailsTyped'
  BY DEF DetailsInv, DetailsTyped
<1>2. FormsFilled'
  BY DEF DetailsInv, FormsFilled, FilledFrom
<1>3. SheetFits'
  BY DEF DetailsInv, DetailsTyped, SheetFits
<1>4. QED BY <1>1, <1>2, <1>3 DEF DetailsInv

LEMMA OthersUpdateHolds ==
  ASSUME DetailsInv, OthersUpdate
  PROVE  DetailsInv'
<1>1. PICK input \in Part :
        /\ \A f \in DOMAIN input : input[f] \in IF f \in Date THEN {0} \cup Instant ELSE Sizes
        /\ UpdateElectionMetadata(input)
  BY DEF OthersUpdate
<1>2. /\ details # NoDetails /\ ~frozen /\ details' = Updated(input)
      /\ UNCHANGED <<frozen, voters, divided, shownAs, edits, saving, sheet>>
  BY <1>1 DEF UpdateElectionMetadata, Editable, OthersUpdate, formVars
<1>3. details \in DetailsRow
  BY <1>2 DEF DetailsInv, DetailsTyped
<1>4. \A f \in DOMAIN input : /\ input[f] \in Nat /\ (f \in Date => input[f] \in {0} \cup Instant)
                              /\ (f = "size" => input[f] \in Size)
  <2>1. ASSUME NEW f \in DOMAIN input, f \in Date PROVE input[f] \in {0} \cup Instant
    BY <1>1, <2>1
  <2>2. ASSUME NEW f \in DOMAIN input, f \notin Date PROVE input[f] \in Sizes
    BY <1>1, <2>2
  <2>3. "size" \notin Date
    BY DEF Date
  <2>4. QED BY <2>1, <2>2, <2>3, FieldsAreNumbers
<1>5. Updated(input) \in [Detail -> Nat]
  BY <1>3, <1>4 DEF Updated, DetailsRow
<1>6. \A f \in Detail : Updated(input)[f] = IF f \in DOMAIN input THEN input[f] ELSE details[f]
  BY DEF Updated
<1>7. "size" \in Detail /\ Date \subseteq Detail
  BY DEF Detail
<1>8. Updated(input) \in DetailsRow
  BY <1>3, <1>4, <1>5, <1>6, <1>7 DEF DetailsRow
<1>9. QED BY <1>2, <1>8, RowStepHolds

\* A record that is stored is the whole form, read by the officer's clock.
LEMMA StoreHolds ==
  ASSUME DetailsInv, Store
  PROVE  DetailsInv'
<1> DEFINE input == InputOf(saving.form.values)
           done == [saving EXCEPT !.outcome = "stored"]
           not == [saving EXCEPT !.outcome = "refused"]
<1>1. saving \in Saving /\ saving.outcome = "sent" /\ saving # NoSaving
  BY NoneIsNone DEF Store, DetailsInv, DetailsTyped
<1>2. input \in DetailsRow /\ DOMAIN input = Detail
  BY <1>1, FormsAndRows DEF Saving, Editing
<1>3. /\ done \in Saving /\ done.form = saving.form /\ done.outcome = "stored"
      /\ not \in Saving /\ not.form = saving.form /\ not.outcome = "refused"
  BY <1>1 DEF Saving
<1>4. Updated(input) = input
  <2>1. input = [f \in Detail |-> input[f]]
    BY DEF InputOf
  <2>2. QED BY <1>2, <2>1, Zenon DEF Updated
<1>5. UNCHANGED <<frozen, voters, divided, shownAs, edits, sheet>>
  BY DEF Store
<1>6. \/ details' = input /\ saving' = done /\ (saving.form.base = NoDetails \/ ~frozen)
      \/ saving' = not /\ UNCHANGED details
  BY <1>4 DEF Store, CreateNewElection, UpdateElectionMetadata, Editable
<1> HIDE DEF input, done, not
<1>7. CASE details' = input /\ saving' = done /\ (saving.form.base = NoDetails \/ ~frozen)
  <2>1. ~frozen
    BY <1>1, <1>7 DEF DetailsInv, FormsFilled, DetailsTyped
  <2>2. NoSaving # done
    BY <1>3, NoneIsNone
  <2>3. saving' # saving
    BY <1>1, <1>3, <1>7
  <2>4. QED BY <1>1, <1>2, <1>3, <1>5, <1>7, <2>1, <2>3, RowStepHolds
<1>8. CASE saving' = not /\ UNCHANGED details
  BY <1>1, <1>3, <1>5, <1>8, FormStep DEF DetailsInv, DetailsTyped, FormsFilled, FilledFrom
<1>9. QED BY <1>6, <1>7, <1>8

LEMMA DetailsStep == DetailsInv /\ [DetailsNext]_detailsVars => DetailsInv'
<1> SUFFICES ASSUME DetailsInv, [DetailsNext]_detailsVars PROVE DetailsInv'
  OBVIOUS
<1>1. CASE UNCHANGED detailsVars
  BY <1>1 DEF detailsVars, formVars, DetailsInv, DetailsTyped, FormsFilled, FilledFrom, SheetFits, GroupSizes
<1>2. CASE DetailsNext
  BY <1>2, OthersUpdateHolds, SubmitHolds, DetailsPageHolds, StoreHolds, RollHolds, GroupsHold, TypingHolds
     DEF DetailsNext
<1>3. QED BY <1>1, <1>2

\* Forms hold what the page showed and what was typed, and groups what the record and
\* the roll give.
THEOREM DetailsInvariant == DetailsSpec => []DetailsInv
BY DetailsInitHolds, DetailsStep, PTL DEF DetailsSpec

LEMMA DetailsTypeCorrect == DetailsSpec => []DetailsTypeOK
<1>1. ASSUME DetailsInv PROVE DetailsTypeOK
  <2>1. DetailsRow \subseteq ElectionRow
    BY DEF DetailsRow, ElectionRow, Size, Detail
  <2>2. \A filled \in DetailsForm : \A f \in Detail : filled[f] \in Typable(f) \cup {MinSize}
    BY DEF DetailsForm, Typable, Detail, Size, Date
  <2>3. edits # NoEdits =>
          /\ \A f \in Detail : edits.values[f] \in Typable(f) \cup {MinSize}
          /\ edits.base \in ElectionRow \cup {NoDetails} /\ edits.touched \subseteq Detail
    BY <1>1, <2>1, <2>2 DEF DetailsInv, DetailsTyped, Editing
  <2>4. {details, shownAs.details} \subseteq ElectionRow \cup {NoDetails}
    BY <1>1, <2>1 DEF DetailsInv, DetailsTyped, NoView
  <2>5. saving.outcome \in {"none", "sent", "stored", "refused"}
    BY <1>1 DEF DetailsInv, DetailsTyped, Saving, NoSaving
  <2>6. QED BY <1>1, <2>3, <2>4, <2>5 DEF DetailsTypeOK, DetailsInv, DetailsTyped
<1>2. QED BY <1>1, DetailsInvariant, PTL

\* The groups an officer is shown once registration has closed are those that forming
\* writes (previewFormation, formRings).
THEOREM FormedAsPreviewedAlways == DetailsSpec => []FormedAsPreviewed
<1>1. DetailsInv => FormedAsPreviewed
  BY DEF DetailsInv, SheetFits, FormedAsPreviewed
<1>2. QED BY <1>1, DetailsInvariant, PTL

\* Saving the page changes what was typed, what the form had older, and dates that no
\* reading of the officer's clock names (toLocalInput, fromLocalInput, saveMetadata).
THEOREM OnlyTypedChangesAlways == DetailsSpec => OnlyTypedChanges
<1> DEFINE Kept(f) ==
      \/ details'[f] = details[f]
      \/ f \in saving.form.touched \cup {g \in Detail : saving.form.base[g] # details[g]}
      \/ f \in Date /\ \E i \in 1 .. details[f] - 1 : Clock[i] = Clock[details[f]]
<1>1. ASSUME DetailsInv, [DetailsNext]_detailsVars, saving.outcome = "sent",
             saving'.outcome = "stored", details # NoDetails, NEW f \in Detail
      PROVE  Kept(f)
  <2> DEFINE filled == saving.form
  <2>1. saving \in Saving /\ saving # NoSaving /\ FilledFrom(filled) /\ filled \in Editing
    BY <1>1, NoneIsNone DEF DetailsInv, DetailsTyped, FormsFilled, Saving
  <2>2. filled.base \in DetailsRow
    BY <1>1, <2>1 DEF DetailsInv, FormsFilled, Editing
  <2>3. details'[f] = InputOf(filled.values)[f]
    <3>1. Store
      <4>1. saving' # saving
        BY <1>1
      <4>2. OthersUpdate \/ (\E g \in Detail : \E v \in Typable(g) : SetInNewForm(g, v) \/ SetValue(g, v))
              \/ DiscardEdits \/ ReviewVoters \/ CloseRegistrationOfVoters \/ FormRings \/ PreviewFormation
              \/ (\E b \in BOOLEAN : GetElectionDetail(b)) \/ UNCHANGED detailsVars => saving' = saving
        BY DEF OthersUpdate, SetInNewForm, SetValue, DiscardEdits, ReviewVoters,
               CloseRegistrationOfVoters, FormRings, PreviewFormation, GetElectionDetail, formVars,
               detailsVars
      <4>3. ~SubmitNew /\ ~SaveMetadata
        BY <1>1 DEF SubmitNew, SaveMetadata, Savable, Idling, NoSaving
      <4>4. ASSUME NEW b \in BOOLEAN PROVE ~SaveAnswered(b)
        BY <1>1 DEF SaveAnswered
      <4>5. QED BY <1>1, <4>1, <4>2, <4>3, <4>4 DEF DetailsNext
    <3>2. details' = Updated(InputOf(filled.values)) \/ details' = InputOf(filled.values)
      BY <1>1, <2>1, <3>1 DEF Store, CreateNewElection, UpdateElectionMetadata, Saving
    <3>3. DOMAIN InputOf(filled.values) = Detail
      BY DEF InputOf
    <3>4. QED BY <3>2, <3>3 DEF Updated
  <2>4. CASE f \in Date /\ f \notin filled.touched /\ filled.base[f] = details[f]
    <3>1. filled.values[f] = ToLocalInput(details[f]) /\ details[f] \in {0} \cup Instant
      BY <2>1, <2>2, <2>4, NoneIsNone DEF FilledFrom, FormOf, DetailsRow
    <3>2. details'[f] = FromLocalInput(ToLocalInput(details[f]))
      BY <2>3, <2>4, <3>1 DEF InputOf
    <3>3. QED BY <2>4, <3>1, <3>2, ThroughTheClock
  <2>5. CASE f \notin Date /\ f \notin filled.touched /\ filled.base[f] = details[f]
    <3>1. filled.values[f] = details[f]
      BY <2>1, <2>2, <2>5, NoneIsNone DEF FilledFrom, FormOf
    <3>2. QED BY <2>3, <2>5, <3>1 DEF InputOf
  <2>6. CASE f \in filled.touched \/ filled.base[f] # details[f]
    BY <2>6
  <2>7. QED BY <2>4, <2>5, <2>6
<1>2. DetailsInv /\ [DetailsNext]_detailsVars =>
        [saving.outcome = "sent" /\ saving'.outcome = "stored" /\ details # NoDetails =>
           \A f \in Detail : Kept(f)]_<<details, saving>>
  BY <1>1
<1>3. QED BY <1>2, DetailsInvariant, PTL DEF DetailsSpec, OnlyTypedChanges

(***************************************************************************)
(* The audit record.                                                       *)
(***************************************************************************)
AuditTyped ==
  /\ log \subseteq Entry /\ IsFiniteSet(log)
  /\ filter \in Inspected /\ pageAsked \in Nat \ {0}
  /\ there \subseteq Matching(filter) /\ read \subseteq Matching(filter)
  /\ onScreen # NoAnswer => onScreen.page \in Nat \ {0} /\ Cardinality(onScreen.rows) <= PAGE_SIZE

\* How far down the record an entry is that no other shares its moment with.
NotBelow(f, e) == {o \in Matching(f) : o.at >= e.at}
Depth(e) == Cardinality(NotBelow(filter, e))

\* Entries not yet shown are below the pages that were.
Below(e) ==
  /\ Depth(e) > (pageAsked - 1) * PAGE_SIZE
  /\ read # {} /\ onScreen # NoAnswer => Depth(e) > onScreen.page * PAGE_SIZE
  /\ \A o \in read : o.at >= e.at

NoHoles ==
  ~turnedEarly => \A e \in there \ read : Alone(e) => Below(e)

AuditInv == AuditTyped /\ NoHoles

LEMMA MatchingFinite ==
  ASSUME NEW f, log \subseteq Entry, IsFiniteSet(log)
  PROVE  /\ IsFiniteSet(Matching(f)) /\ Cardinality(Matching(f)) \in Nat
         /\ \A e \in Matching(f) : e \in log /\ e.at \in Nat
         /\ \A S \in SUBSET Matching(f) :
              IsFiniteSet(S) /\ Cardinality(S) \in Nat /\ Cardinality(S) <= Cardinality(Matching(f))
<1>1. Matching(f) \in SUBSET log
  BY DEF Matching
<1>2. IsFiniteSet(Matching(f))
  BY <1>1, FS_Subset
<1>3. \A S \in SUBSET Matching(f) :
         IsFiniteSet(S) /\ Cardinality(S) \in Nat /\ Cardinality(S) <= Cardinality(Matching(f))
  BY <1>2, FS_Subset, FS_CardinalityType
<1>4. Cardinality(Matching(f)) \in Nat
  BY <1>2, FS_CardinalityType
<1>5. \A e \in Matching(f) : e \in log /\ e.at \in Nat
  BY <1>1 DEF Entry
<1>6. QED BY <1>2, <1>3, <1>4, <1>5

\* Of the first entries, as many as asked for, an entry alone in its moment is one
\* exactly if no more than those come before it.
LEMMA FrontIsAbove ==
  ASSUME NEW f, log \subseteq Entry, IsFiniteSet(log), NEW limit \in Nat,
         NEW front \in Front(f, limit), NEW e \in Matching(f), Alone(e)
  PROVE  /\ e \in front => Cardinality(NotBelow(f, e)) <= limit
         /\ e \notin front => /\ Cardinality(NotBelow(f, e)) > limit
                              /\ \A o \in front : o.at >= e.at
<1> DEFINE A == NotBelow(f, e)
<1>1. /\ IsFiniteSet(Matching(f)) /\ Cardinality(Matching(f)) \in Nat
      /\ \A o \in Matching(f) : o \in log /\ o.at \in Nat
  BY MatchingFinite
<1>2. /\ front \in SUBSET Matching(f)
      /\ Cardinality(front) = IF Cardinality(Matching(f)) < limit THEN Cardinality(Matching(f)) ELSE limit
      /\ \A a \in front, o \in Matching(f) \ front : a.at >= o.at
  BY DEF Front
<1>3. A \in SUBSET Matching(f) /\ e \in A
  BY <1>1 DEF NotBelow
<1>4. /\ IsFiniteSet(A) /\ Cardinality(A) \in Nat
      /\ IsFiniteSet(front) /\ Cardinality(front) \in Nat
  BY <1>2, <1>3, MatchingFinite
<1>5. ASSUME e \in front PROVE Cardinality(A) <= limit
  <2>1. ASSUME NEW o \in A PROVE o \in front
    <3>1. o \in Matching(f) /\ o.at >= e.at
      BY DEF NotBelow
    <3>2. CASE o \notin front
      <4>1. e.at >= o.at
        BY <1>2, <1>5, <3>1, <3>2
      <4>2. o.at = e.at
        BY <1>1, <3>1, <4>1
      <4>3. QED BY <1>1, <1>5, <3>1, <4>2 DEF Alone
    <3>3. QED BY <3>2
  <2>2. A \in SUBSET front
    BY <2>1
  <2>3. Cardinality(A) <= Cardinality(front)
    BY <1>4, <2>2, FS_Subset
  <2>4. Cardinality(front) <= limit
    BY <1>1, <1>2
  <2>5. QED BY <1>4, <2>3, <2>4
<1>6. ASSUME e \notin front PROVE Cardinality(A) > limit /\ \A o \in front : o.at >= e.at
  <2>1. \A o \in front : o.at >= e.at
    BY <1>2, <1>6
  <2>2. front \in SUBSET A
    BY <1>2, <2>1 DEF NotBelow
  <2>3. Cardinality(front) # Cardinality(A)
    BY <1>3, <1>4, <1>6, <2>2, FS_Subset
  <2>4. Cardinality(front) <= Cardinality(A)
    BY <1>4, <2>2, FS_Subset
  <2>5. Cardinality(A) <= Cardinality(Matching(f))
    BY <1>3, MatchingFinite
  <2>6. Cardinality(A) > limit
    BY <1>1, <1>2, <1>4, <2>3, <2>4, <2>5
  <2>7. QED BY <2>1, <2>6
<1>7. QED BY <1>5, <1>6

\* What the rows of a page are.
RowsOfPage(shown, f, number) ==
  /\ shown \in SUBSET Matching(f)
  /\ Cardinality(shown) <= PAGE_SIZE
  /\ \A e \in Matching(f) \ shown :
       Alone(e) /\ Cardinality(NotBelow(f, e)) > (number - 1) * PAGE_SIZE =>
         /\ Cardinality(NotBelow(f, e)) > number * PAGE_SIZE
         /\ \A o \in shown : o.at >= e.at

LEMMA PageShowsNext ==
  ASSUME NEW f, log \subseteq Entry, IsFiniteSet(log), NEW number \in Nat \ {0},
         NEW shown \in ListAuditEntries(f, number)
  PROVE  RowsOfPage(shown, f, number)
<1> DEFINE before == (number - 1) * PAGE_SIZE
           upto == number * PAGE_SIZE
<1>1. PAGE_SIZE \in Nat \ {0}
  BY AuditAssumption
<1>2. before \in Nat /\ upto \in Nat /\ upto = before + PAGE_SIZE
  BY <1>1, SMTT(60)
<1>3. PICK front \in Front(f, upto), skipped \in Front(f, before) :
         skipped \subseteq front /\ shown = front \ skipped
  BY DEF ListAuditEntries
<1> HIDE DEF before, upto
<1>4. /\ IsFiniteSet(Matching(f)) /\ Cardinality(Matching(f)) \in Nat
  BY MatchingFinite
<1>5. /\ front \in SUBSET Matching(f) /\ skipped \in SUBSET Matching(f)
      /\ Cardinality(front) = IF Cardinality(Matching(f)) < upto THEN Cardinality(Matching(f)) ELSE upto
      /\ Cardinality(skipped) = IF Cardinality(Matching(f)) < before THEN Cardinality(Matching(f)) ELSE before
  BY DEF Front
<1>6. IsFiniteSet(front) /\ IsFiniteSet(skipped)
  BY <1>5, MatchingFinite
<1>7. Cardinality(shown) <= PAGE_SIZE
  <2>1. Cardinality(front \ skipped) = Cardinality(front) - Cardinality(front \cap skipped)
    BY <1>6, FS_Difference
  <2>2. front \cap skipped = skipped
    BY <1>3
  <2>3. Cardinality(shown) = Cardinality(front) - Cardinality(skipped)
    BY <1>3, <2>1, <2>2
  <2>4. QED BY <1>1, <1>2, <1>4, <1>5, <2>3
<1>8. ASSUME NEW e \in Matching(f) \ shown, Alone(e), Cardinality(NotBelow(f, e)) > before
      PROVE  Cardinality(NotBelow(f, e)) > upto /\ \A o \in shown : o.at >= e.at
  <2>1. NotBelow(f, e) \in SUBSET Matching(f)
    BY DEF NotBelow
  <2>2. Cardinality(NotBelow(f, e)) \in Nat
    BY <2>1, MatchingFinite
  <2>3. e \in skipped => Cardinality(NotBelow(f, e)) <= before
    BY <1>2, <1>8, FrontIsAbove
  <2>4. e \notin skipped
    BY <1>2, <1>8, <2>2, <2>3
  <2>5. e \notin front
    BY <1>3, <2>4
  <2>6. Cardinality(NotBelow(f, e)) > upto /\ \A o \in front : o.at >= e.at
    BY <1>2, <1>8, <2>5, FrontIsAbove
  <2>7. QED BY <1>3, <2>6
<1>9. shown \in SUBSET Matching(f)
  BY <1>3, <1>5
<1>10. QED BY <1>7, <1>8, <1>9 DEF RowsOfPage, before, upto

LEMMA AuditInitHolds ==
  ASSUME AuditInit
  PROVE  AuditInv
<1>1. IsFiniteSet(log)
  BY FS_EmptySet DEF AuditInit
<1>2. AuditTyped
  <2>1. /\ log = {} /\ there = {} /\ read = {} /\ turnedEarly = FALSE
        /\ filter = All /\ pageAsked = 1 /\ onScreen = NoAnswer
    BY DEF AuditInit
  <2>2. /\ log \subseteq Entry /\ filter \in Inspected /\ pageAsked \in Nat \ {0}
        /\ there \subseteq Matching(filter) /\ read \subseteq Matching(filter)
    BY <2>1, AuditAssumption
  <2>3. QED BY <1>1, <2>1, <2>2 DEF AuditTyped
<1>3. NoHoles
  BY DEF AuditInit, NoHoles
<1>4. QED BY <1>2, <1>3 DEF AuditInv

LEMMA RecordHolds ==
  ASSUME AuditInv, NEW moment \in 1 .. MaxMoments, NEW n \in EntriesAdded, NEW about \in Subject,
         RecordAuditEntries(moment, n, about)
  PROVE  AuditInv'
<1> DEFINE entry == [i \in 1 .. n |-> [at |-> moment, nr |-> i, about |-> about]]
           more == {[at |-> moment, nr |-> i, about |-> about] : i \in 1 .. n}
<1>1. /\ log' = log \cup more
      /\ \A e \in log : e.at # moment
      /\ UNCHANGED <<filter, pageAsked, awaitedTotal, onScreen, turns, there, read, turnedEarly>>
  BY DEF RecordAuditEntries, address, history
<1>2. n \in Nat
  BY AuditAssumption
<1>3. more \subseteq Entry
  BY <1>2 DEF Entry
<1>4. IsFiniteSet(more)
  <2>1. entry \in Surjection(1 .. n, more)
    BY DEF Surjection
  <2>2. IsFiniteSet(1 .. n)
    BY <1>2, FS_Interval
  <2>3. QED BY <2>1, <2>2, FS_Surjection
<1> HIDE DEF more
<1>5. log \subseteq Entry /\ IsFiniteSet(log)
  BY DEF AuditInv, AuditTyped
<1>6. log' \subseteq Entry /\ IsFiniteSet(log')
  BY <1>1, <1>3, <1>4, <1>5, FS_Union
<1>7. Matching(filter) \subseteq Matching(filter)'
  BY <1>1 DEF Matching
<1>8. AuditTyped'
  BY <1>1, <1>6, <1>7 DEF AuditInv, AuditTyped, NoAnswer
<1>9. ASSUME NEW e \in there \ read, ~turnedEarly, Alone(e)' PROVE Below(e)'
  <2>1. Below(e)
    BY <1>1, <1>9 DEF Alone, AuditInv, NoHoles
  <2>2. NotBelow(filter, e) \in SUBSET (NotBelow(filter, e)')
    BY <1>1, <1>7 DEF NotBelow
  <2>3. NotBelow(filter, e)' \in SUBSET Matching(filter)' /\ IsFiniteSet(Matching(filter)')
    <3>1. Matching(filter)' \in SUBSET log'
      BY DEF Matching
    <3>2. QED BY <1>6, <3>1, FS_Subset DEF NotBelow
  <2>4. IsFiniteSet(NotBelow(filter, e)')
    BY <2>3, FS_Subset
  <2>5. Depth(e) <= Depth(e)'
    BY <2>2, <2>4, FS_Subset DEF Depth
  <2>6. Depth(e) \in Nat /\ Depth(e)' \in Nat
    BY <2>2, <2>4, FS_Subset, FS_CardinalityType DEF Depth
  <2>7. pageAsked \in Nat /\ PAGE_SIZE \in Nat /\ (onScreen # NoAnswer => onScreen.page \in Nat)
    BY AuditAssumption DEF AuditInv, AuditTyped
  <2>8. (pageAsked - 1) * PAGE_SIZE \in Int /\ (onScreen # NoAnswer => onScreen.page * PAGE_SIZE \in Int)
    BY <2>7, SMTT(60)
  <2> DEFINE a == (pageAsked - 1) * PAGE_SIZE
             b == onScreen.page * PAGE_SIZE
  <2>9. Depth(e) > a /\ (read # {} /\ onScreen # NoAnswer => Depth(e) > b) /\ \A o \in read : o.at >= e.at
    BY <2>1 DEF Below
  <2>10. a \in Int /\ (onScreen # NoAnswer => b \in Int)
    BY <2>8
  <2> HIDE DEF a, b
  <2>11. Depth(e)' > a /\ (read # {} /\ onScreen # NoAnswer => Depth(e)' > b)
    BY <2>5, <2>6, <2>9, <2>10
  <2>12. QED BY <1>1, <2>9, <2>11 DEF Below, a, b, NoAnswer
<1>10. NoHoles'
  BY <1>1, <1>9 DEF NoHoles
<1>11. QED BY <1>8, <1>10 DEF AuditInv

LEMMA SetFilterHolds ==
  ASSUME AuditInv, NEW f \in Inspected, SetFilter(f)
  PROVE  AuditInv'
<1>1. /\ filter' = f /\ pageAsked' = 1 /\ there' = Matching(f) /\ read' = {} /\ turnedEarly' = FALSE
      /\ UNCHANGED <<log, onScreen>>
  BY DEF SetFilter, LoadPage
<1>2. Matching(filter)' = Matching(f)
  BY <1>1 DEF Matching
<1>3. AuditTyped'
  BY <1>1, <1>2 DEF AuditInv, AuditTyped, NoAnswer
<1>4. ASSUME NEW e \in there' PROVE Below(e)'
  <2>1. e \in Matching(f) /\ NotBelow(filter, e)' = NotBelow(f, e)
    BY <1>1, <1>2 DEF NotBelow
  <2>2. NotBelow(f, e) \in SUBSET Matching(f) /\ log \subseteq Entry /\ IsFiniteSet(log)
    BY DEF NotBelow, AuditInv, AuditTyped
  <2>3. IsFiniteSet(NotBelow(f, e)) /\ e \in NotBelow(f, e) /\ Cardinality(NotBelow(f, e)) \in Nat
    <3>1. e.at \in Nat
      BY <2>1, <2>2, MatchingFinite
    <3>2. QED BY <2>1, <2>2, <3>1, MatchingFinite DEF NotBelow
  <2>4. Cardinality(NotBelow(f, e)) # 0
    BY <2>3, FS_EmptySet
  <2>5. (1 - 1) * PAGE_SIZE = 0
    BY AuditAssumption
  <2>6. Depth(e)' > (pageAsked' - 1) * PAGE_SIZE
    BY <1>1, <2>1, <2>3, <2>4, <2>5 DEF Depth
  <2>7. QED BY <1>1, <2>6 DEF Below
<1>5. QED BY <1>3, <1>4 DEF AuditInv, NoHoles

LEMMA TurnHolds ==
  ASSUME AuditInv, Turn
  PROVE  AuditInv'
<1>1. PICK number \in {onScreen.page - 1, onScreen.page + 1} :
         TurnTo(number) /\ (number = onScreen.page - 1 => onScreen.page > 1)
  <2>1. CASE onScreen.page > 1 /\ TurnTo(CurrentPage - 1)
    BY <2>1 DEF CurrentPage
  <2>2. CASE TurnTo(CurrentPage + 1)
    <3>1. onScreen.page \in Nat
      BY DEF Turn, AuditInv, AuditTyped
    <3>2. QED BY <2>2, <3>1 DEF CurrentPage
  <2>3. QED BY <2>1, <2>2 DEF Turn
<1>2. onScreen # NoAnswer /\ onScreen.page \in Nat \ {0} /\ PAGE_SIZE \in Nat \ {0}
  BY AuditAssumption DEF Turn, AuditInv, AuditTyped
<1>3. /\ filter' = filter /\ pageAsked' = number /\ turnedEarly' = (turnedEarly \/ read = {})
      /\ UNCHANGED <<log, onScreen, there, read>>
  BY <1>1 DEF TurnTo, LoadPage
<1>4. Matching(filter)' = Matching(filter)
  BY <1>3 DEF Matching
<1>5. number \in Nat \ {0}
  BY <1>1, <1>2
<1>6. AuditTyped'
  BY <1>3, <1>4, <1>5 DEF AuditInv, AuditTyped, NoAnswer
<1>7. ASSUME NEW e \in there \ read, ~turnedEarly', Alone(e)' PROVE Below(e)'
  <2>1. ~turnedEarly /\ read # {} /\ Alone(e)
    BY <1>3, <1>7 DEF Alone, AuditInv, AuditTyped
  <2>2. Below(e)
    BY <2>1 DEF AuditInv, NoHoles
  <2>3. Depth(e)' = Depth(e)
    BY <1>3, <1>4 DEF Depth, NotBelow
  <2>4. Depth(e) > onScreen.page * PAGE_SIZE
    BY <1>2, <2>1, <2>2 DEF Below
  <2>5. (number - 1) * PAGE_SIZE <= onScreen.page * PAGE_SIZE
    <3>1. CASE number = onScreen.page + 1
      BY <1>2, <3>1, SMTT(60)
    <3>2. CASE number = onScreen.page - 1
      <4>1. (number - 1) * PAGE_SIZE = onScreen.page * PAGE_SIZE - 2 * PAGE_SIZE
        BY <1>2, <3>2, SMTT(60)
      <4>2. onScreen.page * PAGE_SIZE \in Int
        BY <1>2, SMTT(60)
      <4>3. QED BY <1>2, <4>1, <4>2
    <3>3. QED BY <1>1, <3>1, <3>2
  <2>6. Depth(e) \in Nat
    <3>1. NotBelow(filter, e) \in SUBSET Matching(filter) /\ log \subseteq Entry /\ IsFiniteSet(log)
      BY DEF NotBelow, AuditInv, AuditTyped
    <3>2. QED BY <3>1, MatchingFinite DEF Depth
  <2>7. (number - 1) * PAGE_SIZE \in Int /\ onScreen.page * PAGE_SIZE \in Int
    BY <1>2, <1>5, SMTT(60)
  <2> DEFINE a == (number - 1) * PAGE_SIZE
             b == onScreen.page * PAGE_SIZE
  <2>8. a \in Int /\ b \in Int /\ a <= b /\ Depth(e) > b
    BY <2>4, <2>5, <2>7
  <2> HIDE DEF a, b
  <2>9. Depth(e) > a
    BY <2>6, <2>8
  <2>10. QED BY <1>3, <2>2, <2>3, <2>4, <2>9 DEF Below, a, NoAnswer
<1>8. NoHoles'
  BY <1>3, <1>7 DEF NoHoles
<1>9. QED BY <1>6, <1>8 DEF AuditInv

LEMMA ListAuditHolds ==
  ASSUME AuditInv, ListAudit
  PROVE  AuditInv'
<1>1. PICK shown \in ListAuditEntries(filter, pageAsked), total \in awaitedTotal.counted .. Cardinality(Matching(filter)) :
         onScreen' = AnswerOf(shown, total) /\ read' = read \cup shown
  BY DEF ListAudit
<1>2. UNCHANGED <<log, filter, pageAsked, there, turnedEarly>>
  BY DEF ListAudit, address
<1>3. log \subseteq Entry /\ IsFiniteSet(log) /\ pageAsked \in Nat \ {0}
  BY DEF AuditInv, AuditTyped
<1>4. RowsOfPage(shown, filter, pageAsked)
  BY <1>1, <1>3, PageShowsNext
<1>5. Matching(filter)' = Matching(filter)
  BY <1>2 DEF Matching
<1>6. onScreen'.page = pageAsked /\ onScreen'.rows = shown
  BY <1>1 DEF AnswerOf
<1>7. AuditTyped'
  BY <1>1, <1>2, <1>3, <1>4, <1>5, <1>6 DEF AuditInv, AuditTyped, RowsOfPage, NoAnswer
<1>8. ASSUME NEW e \in there \ (read \cup shown), ~turnedEarly, Alone(e) PROVE Below(e)'
  <2>1. Below(e) /\ e \in Matching(filter) \ shown
    BY <1>8 DEF AuditInv, AuditTyped, NoHoles
  <2>2. Depth(e) > pageAsked * PAGE_SIZE /\ \A o \in shown : o.at >= e.at
    BY <1>4, <1>8, <2>1 DEF RowsOfPage, Below, Depth
  <2>3. Depth(e)' = Depth(e)
    BY <1>2, <1>5 DEF Depth, NotBelow
  <2>4. QED BY <1>1, <1>2, <1>6, <2>1, <2>2, <2>3 DEF Below
<1>9. NoHoles'
  BY <1>1, <1>2, <1>8 DEF NoHoles, Alone
<1>10. QED BY <1>7, <1>9 DEF AuditInv

LEMMA FailToLoadHolds ==
  ASSUME AuditInv, FailToLoad
  PROVE  AuditInv'
<1>1. onScreen' = NoAnswer /\ UNCHANGED <<log, filter, pageAsked, there, read, turnedEarly>>
  BY DEF FailToLoad, address, history
<1>2. Matching(filter)' = Matching(filter)
  BY <1>1 DEF Matching
<1>3. AuditTyped'
  <2>1. /\ (log \subseteq Entry /\ IsFiniteSet(log) /\ filter \in Inspected /\ pageAsked \in Nat \ {0})'
        /\ (there \subseteq Matching(filter) /\ read \subseteq Matching(filter))'
    BY <1>1, <1>2 DEF AuditInv, AuditTyped
  <2>2. QED BY <1>1, <2>1 DEF AuditTyped
<1>4. \A e : Depth(e)' = Depth(e) /\ Alone(e)' = Alone(e)
  BY <1>1, <1>2 DEF Depth, NotBelow, Alone
<1>5. NoHoles'
  BY <1>1, <1>4 DEF AuditInv, NoHoles, Below, NoAnswer
<1>6. QED BY <1>3, <1>5 DEF AuditInv

LEMMA AuditStep ==
  ASSUME AuditInv, [AuditNext]_auditVars
  PROVE  AuditInv'
<1>1. CASE UNCHANGED auditVars
  <2>1. UNCHANGED <<log, filter, pageAsked, onScreen, there, read, turnedEarly>>
    BY <1>1 DEF auditVars, address, history
  <2>2. QED BY <2>1 DEF AuditInv, AuditTyped, NoHoles, Below, Depth, NotBelow, Alone, Matching, NoAnswer
<1>2. QED BY <1>1, RecordHolds, SetFilterHolds, TurnHolds, ListAuditHolds, FailToLoadHolds DEF AuditNext

\* However the record grows while it is read.
LEMMA AuditInvariant == AuditSpec => []AuditInv
BY AuditInitHolds, AuditStep, PTL DEF AuditSpec

LEMMA AuditTypeCorrect == AuditSpec => []AuditTypeOK
<1>1. AuditInv => AuditTypeOK
  BY DEF AuditInv, AuditTyped, AuditTypeOK, Matching
<1>2. QED BY <1>1, AuditInvariant, PTL

\* The record has no holes: whoever has turned the pages of a filter back to some
\* moment has been shown every entry there was, and is alone in its moment, before it.
THEOREM NothingSkippedAlways == AuditSpec => []NothingSkipped
<1>1. ASSUME AuditInv PROVE NothingSkipped
  <2>1. ASSUME NEW e \in there, ~turnedEarly, Alone(e), NEW o \in read, o.at < e.at, e \notin read
        PROVE  FALSE
    <3>1. o.at >= e.at
      BY <1>1, <2>1 DEF AuditInv, NoHoles, Below
    <3>2. o \in log /\ e \in log /\ log \subseteq Entry
      BY <1>1, <2>1 DEF AuditInv, AuditTyped, Matching
    <3>3. o.at \in Nat /\ e.at \in Nat
      BY <3>2 DEF Entry
    <3>4. QED BY <2>1, <3>1, <3>3
  <2>2. QED BY <2>1 DEF NothingSkipped, Passed
<1>2. QED BY <1>1, AuditInvariant, PTL

(***************************************************************************)
(* The ballot paper.                                                       *)
(***************************************************************************)
\* Ranks(f)[x] is how many are not after x, and every rank is taken by one.
Ranks(f) == [x \in DOMAIN f |-> Cardinality({y \in DOMAIN f : f[y] <= f[x]})]

LEMMA RankIsOwn ==
  ASSUME NEW S, IsFiniteSet(S), NEW f \in [S -> Nat], IsInjective(f)
  PROVE  /\ Cardinality(S) \in Nat
         /\ Ranks(f) \in [S -> 1 .. Cardinality(S)]
         /\ \A x, y \in S : f[x] < f[y] <=> Ranks(f)[x] < Ranks(f)[y]
         /\ \A i \in 1 .. Cardinality(S) : \E x \in S : Ranks(f)[x] = i
<1> DEFINE upto(x) == {y \in S : f[y] <= f[x]}
           n == Cardinality(S)
<1> HIDE DEF upto, n
<1>1. DOMAIN f = S /\ Ranks(f) = [x \in S |-> Cardinality(upto(x))]
  BY DEF Ranks, upto
<1>2. n \in Nat
  BY FS_CardinalityType DEF n
<1>3. ASSUME NEW x \in S
      PROVE  IsFiniteSet(upto(x)) /\ Cardinality(upto(x)) \in 1 .. n
  <2>1. upto(x) \in SUBSET S /\ x \in upto(x)
    BY DEF upto
  <2>2. IsFiniteSet(upto(x)) /\ Cardinality(upto(x)) <= n
    BY <2>1, FS_Subset DEF n
  <2>3. Cardinality(upto(x)) \in Nat
    BY <2>2, FS_CardinalityType
  <2>4. Cardinality(upto(x)) # 0
    BY <2>1, <2>2, FS_EmptySet
  <2>5. QED BY <1>2, <2>2, <2>3, <2>4
<1>4. ASSUME NEW x \in S, NEW y \in S, f[x] < f[y]
      PROVE  Cardinality(upto(x)) < Cardinality(upto(y))
  <2>1. upto(x) \in SUBSET upto(y) /\ y \in upto(y) /\ y \notin upto(x)
    BY <1>4 DEF upto
  <2>2. Cardinality(upto(x)) <= Cardinality(upto(y)) /\ Cardinality(upto(x)) # Cardinality(upto(y))
    BY <1>3, <2>1, FS_Subset
  <2>3. Cardinality(upto(x)) \in Nat /\ Cardinality(upto(y)) \in Nat
    BY <1>2, <1>3
  <2>4. QED BY <2>2, <2>3
<1>5. ASSUME NEW x \in S, NEW y \in S, f[x] = f[y]
      PROVE  x = y
  BY <1>1, <1>5 DEF IsInjective
<1>6. /\ Ranks(f) \in [S -> 1 .. n]
      /\ \A x, y \in S : f[x] < f[y] => Ranks(f)[x] < Ranks(f)[y]
  BY <1>1, <1>2, <1>3, <1>4
<1>7. ASSUME NEW x \in S, NEW y \in S, Ranks(f)[x] < Ranks(f)[y]
      PROVE  f[x] < f[y]
  <2>1. f[x] \in Nat /\ f[y] \in Nat /\ Ranks(f)[x] \in Nat /\ Ranks(f)[y] \in Nat
    BY <1>6
  <2>2. CASE f[x] = f[y]
    BY <1>5, <1>7, <2>1, <2>2
  <2>3. CASE f[y] < f[x]
    BY <1>6, <1>7, <2>1, <2>3
  <2>4. QED BY <2>1, <2>2, <2>3
<1>8. Ranks(f) \in Injection(S, 1 .. n)
  <2>1. ASSUME NEW x \in S, NEW y \in S, Ranks(f)[x] = Ranks(f)[y] PROVE x = y
    <3>1. f[x] \in Nat /\ f[y] \in Nat /\ Ranks(f)[x] \in Nat /\ Ranks(f)[y] \in Nat
      BY <1>6
    <3>2. ~(f[x] < f[y]) /\ ~(f[y] < f[x])
      BY <1>6, <2>1, <3>1
    <3>3. QED BY <1>5, <3>1, <3>2
  <2>2. QED BY <1>6, <2>1 DEF Injection, IsInjective
<1>9. Ranks(f) \in Surjection(S, 1 .. n)
  <2>1. IsFiniteSet(1 .. n) /\ Cardinality(1 .. n) = n
    BY <1>2, FS_Interval
  <2>2. QED BY <1>8, <2>1, FS_Injection DEF n
<1>10. \A i \in 1 .. n : \E x \in S : Ranks(f)[x] = i
  BY <1>9 DEF Surjection
<1>11. QED BY <1>2, <1>6, <1>7, <1>10 DEF n

LEMMA MaxIsGreatest ==
  ASSUME NEW S \in SUBSET Nat, S # {}, IsFiniteSet(S)
  PROVE  Max(S) \in S /\ \A x \in S : Max(S) >= x
<1> DEFINE f == [x \in S |-> x]
           n == Cardinality(S)
<1>1. f \in [S -> Nat] /\ IsInjective(f) /\ \A x \in S : f[x] = x
  BY DEF IsInjective
<1> HIDE DEF f
<1>2. n \in Nat /\ n # 0 /\ n \in 1 .. n
  BY FS_CardinalityType, FS_EmptySet
<1>2a. /\ Ranks(f) \in [S -> 1 .. n]
       /\ \A x, y \in S : f[x] < f[y] <=> Ranks(f)[x] < Ranks(f)[y]
       /\ \A i \in 1 .. n : \E x \in S : Ranks(f)[x] = i
  BY <1>1, RankIsOwn, Zenon
<1>3. PICK m \in S : Ranks(f)[m] = n
  BY <1>2, <1>2a
<1>4. ASSUME NEW x \in S PROVE m >= x
  <2>0. Ranks(f)[x] \in 1 .. n
    BY <1>2a
  <2>1. ~(Ranks(f)[m] < Ranks(f)[x])
    BY <1>2, <1>3, <2>0
  <2>2. ~(f[m] < f[x])
    BY <1>2a, <2>1
  <2>3. QED BY <1>1, <2>2
<1>5. QED BY <1>4 DEF Max

\* A ballot has an order.
LEMMA OrderExists ==
  ASSUME NEW S, IsFiniteSet(S), NEW shown \in [S -> Nat], IsInjective(shown)
  PROVE  InBallotOrder(shown) \in [1 .. Cardinality(S) -> S]
<1> DEFINE n == Cardinality(S)
           s == [i \in 1 .. n |-> CHOOSE x \in S : Ranks(shown)[x] = i]
<1>1. \A i \in 1 .. n : s[i] \in S /\ Ranks(shown)[s[i]] = i
  BY RankIsOwn
<1>2. s \in [1 .. n -> S] /\ DOMAIN s = 1 .. n /\ DOMAIN shown = S
  BY <1>1
<1> HIDE DEF s
<1>3. ASSUME NEW i \in 1 .. n, NEW j \in 1 .. n, i < j PROVE shown[s[i]] < shown[s[j]]
  <2>1. s[i] \in S /\ s[j] \in S /\ Ranks(shown)[s[i]] < Ranks(shown)[s[j]]
    BY <1>1, <1>3
  <2>2. QED BY <2>1, RankIsOwn
<1>4. QED BY <1>2, <1>3 DEF InBallotOrder, n

-----------------------------------------------------------------------------
LEMMA SeqGrows ==
  ASSUME NEW S, NEW T, S \subseteq T, NEW s \in Seq(S)
  PROVE  s \in Seq(T)
<1>1. Len(s) \in Nat /\ s \in [1 .. Len(s) -> S]
  OBVIOUS
<1>2. s \in [1 .. Len(s) -> T]
  BY <1>1
<1>3. QED BY <1>1, <1>2

BallotTyped ==
  /\ added \in 0 .. MaxEntries
  /\ DOMAIN ballot \subseteq 1 .. added /\ ballot \in [DOMAIN ballot -> Nat \ {0}]
  /\ IsInjective(ballot)
  /\ listed \in Seq(1 .. added) /\ editing \in 0 .. added /\ meant \in 0 .. added

\* Positions leave room for the rows that are parked.
BelowParked == \A c \in DOMAIN ballot : ballot[c] <= Cap + added

BallotInv == BallotTyped /\ BelowParked /\ OrderAsAsked

LEMMA BallotFacts ==
  ASSUME BallotTyped
  PROVE  /\ IsFiniteSet(DOMAIN ballot) /\ Cardinality(DOMAIN ballot) \in 0 .. added
         /\ IsFiniteSet(Range(ballot)) /\ Range(ballot) \subseteq Nat \ {0}
<1>1. added \in Nat /\ ballot \in [DOMAIN ballot -> Nat \ {0}]
  BY DEF BallotTyped, BallotPaperAssumption
<1>2. IsFiniteSet(1 .. added) /\ Cardinality(1 .. added) = added
  BY <1>1, FS_Interval
<1>3. /\ IsFiniteSet(DOMAIN ballot) /\ Cardinality(DOMAIN ballot) <= added /\ Cardinality(DOMAIN ballot) \in Nat
  <2>1. DOMAIN ballot \in SUBSET (1 .. added)
    BY DEF BallotTyped
  <2>2. QED BY <1>2, <2>1, FS_Subset, FS_CardinalityType
<1>4. ballot \in Surjection(DOMAIN ballot, Range(ballot))
  BY <1>1 DEF Surjection, Range
<1>5. IsFiniteSet(Range(ballot))
  BY <1>3, <1>4, FS_Surjection
<1>6. Range(ballot) \subseteq Nat \ {0}
  BY <1>1 DEF Range
<1>7. QED BY <1>1, <1>3, <1>5, <1>6

LEMMA NextPositionFits ==
  ASSUME BallotTyped, BelowParked
  PROVE  NextBallotPosition \in Nat \ {0} /\ NextBallotPosition <= Cap + added + 1
<1> DEFINE S == {0} \cup Range(ballot)
<1>1. S \in SUBSET Nat /\ S # {} /\ IsFiniteSet(S)
  <2>1. IsFiniteSet({0})
    BY FS_Singleton
  <2>2. IsFiniteSet(Range(ballot)) /\ Range(ballot) \subseteq Nat \ {0}
    BY BallotFacts
  <2>3. IsFiniteSet(S)
    BY <2>1, <2>2, FS_Union
  <2>4. QED BY <2>2, <2>3
<1>2. PICK m \in S : m = Max(S)
  BY <1>1, MaxIsGreatest
<1>3. Cap \in Nat /\ added \in Nat
  BY BallotPaperAssumption DEF BallotTyped
<1>4. m \in Nat /\ m <= Cap + added
  BY <1>1, <1>3 DEF BelowParked, Range
<1>5. NextBallotPosition = m + 1
  BY <1>2 DEF NextBallotPosition
<1>6. QED BY <1>3, <1>4, <1>5

LEMMA AddHolds ==
  ASSUME BallotTyped, BelowParked, NEW p \in Nat \ {0}, p <= Cap + added + 1, AddCandidateAt(p),
         UNCHANGED listed, editing' \in 0 .. added, meant' \in 0 .. added
  PROVE  BallotTyped' /\ BelowParked'
<1> DEFINE c == added + 1
<1>1. /\ added < MaxEntries /\ p \notin Range(ballot) /\ added' = c
      /\ ballot' = [d \in DOMAIN ballot \cup {c} |-> IF d = c THEN p ELSE ballot[d]]
  BY DEF AddCandidateAt
<1>2. added \in Nat /\ MaxEntries \in Nat /\ Cap \in Nat /\ c \in 1 .. MaxEntries /\ c \notin DOMAIN ballot
      /\ DOMAIN ballot \subseteq 1 .. added
  BY <1>1, BallotPaperAssumption DEF BallotTyped
<1>3. DOMAIN ballot' = DOMAIN ballot \cup {c} /\ ballot'[c] = p
      /\ \A d \in DOMAIN ballot : ballot'[d] = ballot[d] /\ ballot[d] \in Nat \ {0} /\ ballot[d] # p
  BY <1>1, <1>2 DEF BallotTyped, Range
<1>4. ballot' \in [DOMAIN ballot' -> Nat \ {0}]
  BY <1>1, <1>3
<1>5. IsInjective(ballot')
  BY <1>3 DEF BallotTyped, IsInjective
<1>6. DOMAIN ballot' \subseteq 1 .. added'
  BY <1>1, <1>2, <1>3
<1>7. 0 .. added \subseteq 0 .. added' /\ 1 .. added \subseteq 1 .. added'
  BY <1>1, <1>2
<1>8. listed' \in Seq(1 .. added')
  <2>1. listed \in Seq(1 .. added)
    BY DEF BallotTyped
  <2>2. QED BY <1>7, <2>1, SeqGrows
<1>9. BallotTyped'
  BY <1>1, <1>2, <1>4, <1>5, <1>6, <1>7, <1>8 DEF BallotTyped
<1>10. BelowParked'
  BY <1>1, <1>2, <1>3 DEF BelowParked
<1>11. QED BY <1>9, <1>10

LEMMA EditHolds ==
  ASSUME BallotTyped, BelowParked, NEW c, NEW p \in Nat \ {0}, p <= Cap + added, EditCandidateAt(c, p),
         UNCHANGED listed, editing' \in 0 .. added, meant' \in 0 .. added
  PROVE  BallotTyped' /\ BelowParked'
<1>1. /\ c \in DOMAIN ballot /\ ballot' = [ballot EXCEPT ![c] = p] /\ added' = added
      /\ p \notin {ballot[d] : d \in DOMAIN ballot \ {c}}
  BY DEF EditCandidateAt
<1>2. ballot \in [DOMAIN ballot -> Nat \ {0}]
  BY DEF BallotTyped
<1>3. DOMAIN ballot' = DOMAIN ballot /\ \A d \in DOMAIN ballot : ballot'[d] = IF d = c THEN p ELSE ballot[d]
  BY <1>1, <1>2
<1>4. ballot' \in [DOMAIN ballot' -> Nat \ {0}]
  BY <1>1, <1>2, <1>3
<1>5. IsInjective(ballot')
  BY <1>1, <1>3 DEF BallotTyped, IsInjective
<1>6. QED BY <1>1, <1>3, <1>4, <1>5 DEF BallotTyped, BelowParked

LEMMA RemoveHolds ==
  ASSUME BallotTyped, BelowParked, NEW c, RemoveCandidateOf(c),
         UNCHANGED listed, editing' \in 0 .. added, meant' \in 0 .. added
  PROVE  BallotTyped' /\ BelowParked'
<1>1. ballot' = [d \in DOMAIN ballot \ {c} |-> ballot[d]] /\ added' = added
  BY DEF RemoveCandidateOf, Restrict
<1>2. ballot \in [DOMAIN ballot -> Nat \ {0}]
  BY DEF BallotTyped
<1>3. DOMAIN ballot' = DOMAIN ballot \ {c} /\ \A d \in DOMAIN ballot' : ballot'[d] = ballot[d]
  BY <1>1
<1>4. ballot' \in [DOMAIN ballot' -> Nat \ {0}]
  BY <1>1, <1>2, <1>3
<1>5. IsInjective(ballot')
  BY <1>1, <1>3 DEF BallotTyped, IsInjective
<1>6. QED BY <1>1, <1>3, <1>4, <1>5 DEF BallotTyped, BelowParked

LEMMA WritesOf ==
  ASSUME NEW order \in Seq(Nat)
  PROVE  /\ Len(order) \in Nat /\ Len(Writes(order)) = 2 * Len(order)
         /\ \A i \in 1 .. Len(order) :
              /\ Writes(order)[i].id = order[i] /\ Writes(order)[i].at = Offset + i
              /\ Writes(order)[Len(order) + i].id = order[i] /\ Writes(order)[Len(order) + i].at = i
         /\ \A i \in (Len(order) + 1) .. 2 * Len(order) :
              Writes(order)[i].id = order[i - Len(order)] /\ Writes(order)[i].at = i - Len(order)
<1> DEFINE n == Len(order)
<1>1. n \in Nat
  OBVIOUS
<1>2. Len(Writes(order)) = 2 * n
  BY <1>1 DEF Writes
<1>3. \A i \in 1 .. 2 * n :
        Writes(order)[i] = IF i <= n THEN [id |-> order[i], at |-> Offset + i]
                           ELSE [id |-> order[i - n], at |-> i - n]
  BY DEF Writes, Parked
<1> HIDE DEF n
<1>4. ASSUME NEW i \in 1 .. n
      PROVE  /\ Writes(order)[i].id = order[i] /\ Writes(order)[i].at = Offset + i
             /\ Writes(order)[n + i].id = order[i] /\ Writes(order)[n + i].at = i
  <2>1. i \in 1 .. 2 * n /\ n + i \in 1 .. 2 * n /\ i <= n /\ ~(n + i <= n) /\ (n + i) - n = i
    BY <1>1
  <2>2. Writes(order)[i] = [id |-> order[i], at |-> Offset + i]
    BY <1>3, <2>1
  <2>3. Writes(order)[n + i] = [id |-> order[(n + i) - n], at |-> (n + i) - n]
    BY <1>3, <2>1, Zenon
  <2>4. QED BY <2>1, <2>2, <2>3
<1>5. ASSUME NEW i \in (n + 1) .. 2 * n
      PROVE  Writes(order)[i].id = order[i - n] /\ Writes(order)[i].at = i - n
  <2>1. i \in 1 .. 2 * n /\ ~(i <= n)
    BY <1>1
  <2>2. Writes(order)[i] = [id |-> order[i - n], at |-> i - n]
    BY <1>3, <2>1, Zenon
  <2>3. QED BY <2>2
<1>6. QED BY <1>1, <1>2, <1>4, <1>5 DEF n

\* The rows up to k that are written for a candidate.
Own(writes, k, c) == {i \in 1 .. k : writes[i].id = c}

LEMMA LastOwn ==
  ASSUME NEW writes, NEW k \in Nat, NEW c, Own(writes, k, c) # {}
  PROVE  /\ Max(Own(writes, k, c)) \in Own(writes, k, c)
         /\ \A i \in Own(writes, k, c) : Max(Own(writes, k, c)) >= i
<1>1. Own(writes, k, c) \in SUBSET (1 .. k)
  BY DEF Own
<1>2. IsFiniteSet(1 .. k)
  BY FS_Interval
<1>3. IsFiniteSet(Own(writes, k, c))
  BY <1>1, <1>2, FS_Subset
<1>4. Own(writes, k, c) \in SUBSET Nat
  BY <1>1
<1>5. QED BY <1>3, <1>4, MaxIsGreatest

LEMMA WrittenIs ==
  ASSUME NEW writes, NEW k
  PROVE  /\ DOMAIN Written(writes, k) = DOMAIN ballot
         /\ \A c \in DOMAIN ballot :
              Written(writes, k)[c] = IF Own(writes, k, c) = {} THEN ballot[c]
                                      ELSE writes[Max(Own(writes, k, c))].at
BY DEF Written, Own

\* Where a candidate is after so many rows: at first where it was, then parked, then
\* where the order puts it.
LEMMA PlaceAfter ==
  ASSUME NEW order \in Seq(Nat), IsInjective(order), Range(order) = DOMAIN ballot,
         NEW k \in 0 .. 2 * Len(order), NEW p \in 1 .. Len(order)
  PROVE  Written(Writes(order), k)[order[p]] =
           IF k < p THEN ballot[order[p]] ELSE IF k < Len(order) + p THEN Offset + p ELSE p
<1> DEFINE n == Len(order)
           writes == Writes(order)
           c == order[p]
           own == Own(writes, k, c)
<1>1. n \in Nat /\ DOMAIN order = 1 .. n /\ c \in DOMAIN ballot /\ k \in Nat /\ p \in Nat
  BY DEF Range
<1>2. /\ \A i \in 1 .. n : writes[i].id = order[i] /\ writes[i].at = Offset + i /\ writes[n + i].at = i
      /\ \A i \in (n + 1) .. 2 * n : writes[i].id = order[i - n]
  BY WritesOf
<1> HIDE DEF writes, c, n
<1>3. ASSUME NEW i \in 1 .. 2 * n PROVE writes[i].id = c <=> i = p \/ i = n + p
  <2>1. \A q \in 1 .. n : order[q] = c <=> q = p
    BY <1>1 DEF IsInjective, c, n
  <2>2. CASE i <= n
    <3>1. i \in 1 .. n /\ i # n + p
      BY <1>1, <2>2 DEF n
    <3>2. QED BY <1>2, <2>1, <3>1
  <2>3. CASE ~(i <= n)
    <3>1. i \in (n + 1) .. 2 * n /\ i - n \in 1 .. n /\ i # p /\ (i - n = p <=> i = n + p)
      BY <1>1, <2>3 DEF n
    <3>2. writes[i].id = order[i - n]
      BY <1>2, <3>1
    <3>3. order[i - n] = c <=> i - n = p
      BY <2>1, <3>1, Zenon
    <3>4. QED BY <3>1, <3>2, <3>3
  <2>4. QED BY <2>2, <2>3
<1>4. own = {i \in 1 .. k : i = p \/ i = n + p}
  <2>1. \A i \in 1 .. k : i \in 1 .. 2 * n
    BY <1>1 DEF n
  <2>2. QED BY <1>3, <2>1 DEF Own
<1>5. Written(writes, k)[c] = IF own = {} THEN ballot[c] ELSE writes[Max(own)].at
  BY <1>1, WrittenIs
<1>6. own # {} => Max(own) \in own /\ \A i \in own : Max(own) >= i
  BY <1>1, LastOwn
<1> HIDE DEF own
<1>7. CASE k < p
  <2>1. own = {}
    BY <1>1, <1>4, <1>7
  <2>2. QED BY <1>5, <1>7, <2>1 DEF writes, c, n
<1>8. CASE p <= k /\ k < n + p
  <2>1. own = {p}
    BY <1>1, <1>4, <1>8
  <2>2. Max(own) = p /\ own # {}
    BY <1>6, <2>1
  <2>3. Written(writes, k)[c] = Offset + p
    BY <1>2, <1>5, <2>2 DEF n
  <2>4. ~(k < p)
    BY <1>1, <1>8
  <2>5. QED BY <1>8, <2>3, <2>4 DEF writes, c, n
<1>9. CASE n + p <= k
  <2>1. own # {} /\ p \in own /\ n + p \in own /\ \A i \in own : i = p \/ i = n + p
    BY <1>1, <1>4, <1>9
  <2>2. Max(own) = n + p
    <3>1. Max(own) \in {p, n + p} /\ Max(own) >= n + p
      BY <1>6, <2>1
    <3>2. QED BY <1>1, <3>1 DEF n
  <2>3. Written(writes, k)[c] = p
    BY <1>2, <1>5, <2>1, <2>2 DEF n
  <2>4. ~(k < p) /\ ~(k < n + p)
    BY <1>1, <1>9
  <2>5. QED BY <2>3, <2>4 DEF writes, c, n
<1>10. QED BY <1>1, <1>7, <1>8, <1>9

\* An order without repetitions is complete exactly if it is of the candidates there are.
LEMMA CompleteIsWhole ==
  ASSUME BallotTyped, NEW order \in Seq(Nat), IsInjective(order)
  PROVE  Complete(order) <=> Range(order) = DOMAIN ballot
<1> DEFINE n == Len(order)
<1>1. n \in Nat /\ DOMAIN order = 1 .. n
  OBVIOUS
<1> HIDE DEF n
<1>2. order \in Bijection(1 .. n, Range(order))
  BY <1>1 DEF Bijection, Injection, Surjection, Range
<1>3. IsFiniteSet(1 .. n) /\ Cardinality(1 .. n) = n
  BY <1>1, FS_Interval
<1>4. IsFiniteSet(Range(order)) /\ Cardinality(Range(order)) = n
  <2>1. ExistsBijection(1 .. n, Range(order))
    BY <1>2 DEF ExistsBijection
  <2>2. QED BY <1>3, <2>1, FS_Bijection
<1>5. IsFiniteSet(DOMAIN ballot)
  BY BallotFacts
<1>6. Range(order) \subseteq DOMAIN ballot /\ n = Cardinality(DOMAIN ballot) => Range(order) = DOMAIN ballot
  BY <1>4, <1>5, FS_Subset
<1>7. QED BY <1>4, <1>6 DEF Complete, n

LEMMA PlacesDiffer ==
  ASSUME NEW n \in Nat, NEW k \in Nat, NEW off \in Nat, NEW p \in 1 .. n, NEW q \in 1 .. n,
         NEW a \in Nat, NEW b \in Nat, a < off + q, b < off + p, n <= off,
         (IF k < p THEN a ELSE IF k < n + p THEN off + p ELSE p)
           = (IF k < q THEN b ELSE IF k < n + q THEN off + q ELSE q)
  PROVE  p = q \/ a = b
OBVIOUS

LEMMA OrderNeverCollides ==
  ASSUME BallotTyped, BelowParked, NEW order \in Seq(Nat), IsInjective(order), Complete(order)
  PROVE  /\ \A k \in 0 .. Len(Writes(order)) : IsInjective(Written(Writes(order), k))
         /\ \A i \in DOMAIN order : Written(Writes(order), Len(Writes(order)))[order[i]] = i
<1> DEFINE n == Len(order)
<1>1. n \in Nat /\ DOMAIN order = 1 .. n /\ Len(Writes(order)) = 2 * n
  BY WritesOf
<1>2. Range(order) = DOMAIN ballot
  BY CompleteIsWhole
<1>3. n <= added /\ added \in Nat /\ added <= MaxEntries /\ Offset >= Cap + added /\ Cap \in Nat /\ Offset \in Nat
  BY BallotFacts, BallotPaperAssumption DEF Complete, BallotTyped
<1>4. ASSUME NEW k \in 0 .. 2 * n PROVE IsInjective(Written(Writes(order), k))
  <2> DEFINE w == Written(Writes(order), k)
  <2>1. DOMAIN w = DOMAIN ballot
    BY WrittenIs
  <2>2. ASSUME NEW p \in 1 .. n, NEW q \in 1 .. n, w[order[p]] = w[order[q]] PROVE p = q
    <3>1. /\ w[order[p]] = IF k < p THEN ballot[order[p]] ELSE IF k < n + p THEN Offset + p ELSE p
          /\ w[order[q]] = IF k < q THEN ballot[order[q]] ELSE IF k < n + q THEN Offset + q ELSE q
      BY <1>2, PlaceAfter
    <3>2. /\ order[p] \in DOMAIN ballot /\ order[q] \in DOMAIN ballot
          /\ order[p] = order[q] => p = q
      BY <1>1, <1>2 DEF Range, IsInjective
    <3>3. /\ ballot[order[p]] \in Nat /\ ballot[order[q]] \in Nat
          /\ ballot[order[p]] < Offset + q /\ ballot[order[q]] < Offset + p
      <4>1. \A c \in DOMAIN ballot : ballot[c] \in Nat /\ ballot[c] <= Cap + added
        BY DEF BallotTyped, BelowParked
      <4>2. \A c \in DOMAIN ballot : ballot[c] \in Nat /\ ballot[c] <= Offset
        BY <1>3, <4>1
      <4>3. QED BY <1>1, <1>3, <3>2, <4>2
    <3>4. ballot[order[p]] = ballot[order[q]] => p = q
      BY <3>2 DEF BallotTyped, IsInjective
    <3> HIDE DEF w
    <3>5. p = q \/ ballot[order[p]] = ballot[order[q]]
      <4> DEFINE bp == ballot[order[p]]
                 bq == ballot[order[q]]
      <4>1. /\ bp \in Nat /\ bq \in Nat /\ bp < Offset + q /\ bq < Offset + p /\ k \in Nat
            /\ n <= Offset
        BY <1>1, <1>3, <3>3
      <4>2. (IF k < p THEN bp ELSE IF k < n + p THEN Offset + p ELSE p)
              = (IF k < q THEN bq ELSE IF k < n + q THEN Offset + q ELSE q)
        BY <2>2, <3>1
      <4> HIDE DEF bp, bq
      <4>3. p = q \/ bp = bq
        BY <1>1, <1>3, <4>1, <4>2, PlacesDiffer
      <4>4. QED BY <4>3 DEF bp, bq
    <3>6. QED BY <3>4, <3>5
  <2>3. \A c \in DOMAIN ballot : \E p \in 1 .. n : c = order[p]
    BY <1>1, <1>2 DEF Range
  <2> HIDE DEF w
  <2>4. ASSUME NEW c \in DOMAIN w, NEW d \in DOMAIN w, w[c] = w[d] PROVE c = d
    <3>1. PICK p \in 1 .. n : c = order[p]
      BY <2>1, <2>3
    <3>2. PICK q \in 1 .. n : d = order[q]
      BY <2>1, <2>3
    <3>3. QED BY <2>2, <2>4, <3>1, <3>2
  <2>5. IsInjective(w)
    BY <2>4 DEF IsInjective
  <2>6. QED BY <2>5 DEF w
<1>5. ASSUME NEW i \in 1 .. n PROVE Written(Writes(order), 2 * n)[order[i]] = i
  <2>1. 2 * n \in 0 .. 2 * n /\ ~(2 * n < i) /\ ~(2 * n < n + i)
    BY <1>1
  <2>2. QED BY <1>2, <2>1, PlaceAfter
<1>6. QED BY <1>1, <1>4, <1>5

\* A table written to the end keeps to the positions there are.
LEMMA WrittenHolds ==
  ASSUME BallotTyped, BelowParked, NEW order \in Seq(Nat), Complete(order),
         ballot' = Written(Writes(order), Len(Writes(order))), IsInjective(ballot'),
         UNCHANGED <<added, listed, editing, meant>>
  PROVE  BallotTyped' /\ BelowParked'
<1> DEFINE n == Len(order)
           writes == Writes(order)
<1>1. n \in Nat /\ DOMAIN order = 1 .. n /\ Len(writes) = 2 * n
  BY WritesOf
<1>2. /\ \A i \in 1 .. n : writes[i].id = order[i] /\ writes[n + i].id = order[i]
      /\ \A i \in (n + 1) .. 2 * n : writes[i].at = i - n
  BY WritesOf
<1>3. n <= added /\ added \in Nat /\ Cap \in Nat
  BY BallotFacts, BallotPaperAssumption DEF Complete, BallotTyped
<1> HIDE DEF writes, n
<1>4. ASSUME NEW c \in DOMAIN ballot PROVE ballot'[c] \in Nat \ {0} /\ ballot'[c] <= Cap + added
  <2> DEFINE own == Own(writes, 2 * n, c)
  <2>1. ballot'[c] = IF own = {} THEN ballot[c] ELSE writes[Max(own)].at
    BY <1>1, WrittenIs DEF writes
  <2>2. ballot[c] \in Nat \ {0} /\ ballot[c] <= Cap + added
    BY DEF BallotTyped, BelowParked
  <2>3. ASSUME own # {} PROVE writes[Max(own)].at \in Nat \ {0} /\ writes[Max(own)].at <= Cap + added
    <3>1. PICK m \in own : m = Max(own) /\ \A i \in own : m >= i
      BY <1>1, <2>3, LastOwn
    <3>2. m \in 1 .. 2 * n /\ writes[m].id = c
      BY DEF Own
    <3>3. CASE m <= n
      <4>1. n + m \in own
        <5>1. m \in 1 .. n /\ n + m \in 1 .. 2 * n
          BY <1>1, <3>2, <3>3
        <5>2. writes[n + m].id = c
          BY <1>2, <3>2, <5>1
        <5>3. QED BY <5>1, <5>2 DEF Own
      <4>2. m >= n + m
        BY <3>1, <4>1
      <4>3. QED BY <1>1, <3>2, <3>3, <4>2
    <3>4. CASE m > n
      <4>1. m \in (n + 1) .. 2 * n
        BY <1>1, <3>2, <3>4
      <4>2. writes[m].at = m - n
        BY <1>2, <4>1
      <4>3. m - n \in Nat \ {0} /\ m - n <= Cap + added
        BY <1>1, <1>3, <4>1
      <4>4. QED BY <3>1, <4>2, <4>3
    <3>5. QED BY <1>1, <3>2, <3>3, <3>4
  <2> HIDE DEF own
  <2>4. QED BY <2>1, <2>2, <2>3
<1>5. DOMAIN ballot' = DOMAIN ballot
  BY WrittenIs
<1>6. ballot' \in [DOMAIN ballot' -> Nat \ {0}]
  <2>1. ballot' = [c \in DOMAIN ballot' |-> ballot'[c]]
    BY DEF Written
  <2>2. QED BY <1>4, <1>5, <2>1
<1>7. QED BY <1>4, <1>5, <1>6 DEF BallotTyped, BelowParked

LEMMA ReorderHolds ==
  ASSUME BallotTyped, BelowParked, NEW order \in Seq(Nat), Reorder(order),
         UNCHANGED <<fixed, listed, editing, meant>>
  PROVE  BallotInv'
<1> DEFINE writes == Writes(order)
           unique == \A k \in 0 .. Len(writes) : IsInjective(Written(writes, k))
           outcome == IF fixed \/ ~Complete(order) THEN "refused" ELSE IF unique THEN "written" ELSE "collided"
<1>1. /\ ballot' = IF outcome = "written" THEN Written(writes, Len(writes)) ELSE ballot
      /\ reordering' = [order |-> order, outcome |-> outcome]
      /\ added' = added
  BY DEF Reorder
<1>2. Len(writes) \in Nat
  BY WritesOf
<1>3. BallotTyped' /\ BelowParked'
  <2>1. CASE outcome = "written"
    <3>1. Complete(order) /\ unique
      BY <2>1
    <3>2. ballot' = Written(writes, Len(writes)) /\ IsInjective(ballot')
      BY <1>1, <1>2, <2>1, <3>1
    <3>3. QED BY <1>1, <3>1, <3>2, WrittenHolds
  <2>2. CASE outcome # "written"
    <3>1. ballot' = ballot
      BY <1>1, <2>2
    <3>2. QED BY <1>1, <3>1 DEF BallotTyped, BelowParked
  <2>3. QED BY <2>1, <2>2
<1>4. DOMAIN ballot' = DOMAIN ballot
  BY <1>1 DEF Written
<1>5. ASSUME IsInjective(order)
      PROVE  /\ outcome = IF Range(order) = DOMAIN ballot' /\ ~fixed' THEN "written" ELSE "refused"
             /\ outcome = "written" => \A i \in DOMAIN order : ballot'[order[i]] = i
  <2>1. Complete(order) <=> Range(order) = DOMAIN ballot'
    BY <1>4, <1>5, CompleteIsWhole
  <2>2. Complete(order) => unique /\ \A i \in DOMAIN order : Written(writes, Len(writes))[order[i]] = i
    BY <1>5, OrderNeverCollides
  <2> HIDE DEF unique, writes
  <2>3. outcome = IF Range(order) = DOMAIN ballot' /\ ~fixed' THEN "written" ELSE "refused"
    BY <2>1, <2>2
  <2>4. outcome = "written" => \A i \in DOMAIN order : ballot'[order[i]] = i
    BY <1>1, <2>2
  <2>5. QED BY <2>3, <2>4
<1> HIDE DEF outcome
<1>6. reordering'.order = order /\ reordering'.outcome = outcome
  BY <1>1
<1>7. OrderAsAsked'
  BY <1>5, <1>6 DEF OrderAsAsked
<1>8. QED BY <1>3, <1>7 DEF BallotInv

LEMMA QuietHolds ==
  ASSUME BallotTyped', BelowParked', reordering' = NoOrder
  PROVE  BallotInv'
BY DEF BallotInv, OrderAsAsked

LEMMA BallotStep ==
  ASSUME BallotInv, [BallotPaperNext]_ballotPaperVars
  PROVE  BallotInv'
<1>1. BallotTyped /\ BelowParked /\ OrderAsAsked
  BY DEF BallotInv
<1>2. added \in Nat /\ Cap \in Nat /\ listed \in Seq(1 .. added) /\ editing \in 0 .. added /\ meant \in 0 .. added
  BY <1>1, BallotPaperAssumption DEF BallotTyped
<1>3. CASE UNCHANGED ballotPaperVars
  BY <1>3, <1>1 DEF ballotPaperVars, BallotInv, BallotTyped, BelowParked, OrderAsAsked, NoOrder
<1>4. CASE Reload
  <2>1. InBallotOrder(ballot) \in [1 .. Cardinality(DOMAIN ballot) -> DOMAIN ballot]
    <3>1. IsFiniteSet(DOMAIN ballot) /\ ballot \in [DOMAIN ballot -> Nat] /\ IsInjective(ballot)
      BY <1>1, BallotFacts DEF BallotTyped
    <3>2. QED BY <3>1, OrderExists
  <2>2. Cardinality(DOMAIN ballot) \in Nat
    BY <1>1, BallotFacts
  <2>3. InBallotOrder(ballot) \in Seq(DOMAIN ballot)
    BY <2>1, <2>2
  <2>4. InBallotOrder(ballot) \in Seq(1 .. added)
    BY <1>1, <2>3, SeqGrows DEF BallotTyped
  <2>5. BallotTyped' /\ BelowParked' /\ reordering' = NoOrder
    BY <1>1, <1>4, <2>4 DEF Reload, BallotTyped, BelowParked
  <2>6. QED BY <2>5, QuietHolds
<1>5. CASE CancelEdit \/ AddSecond \/ CloseRegistrationOf
  <2>1. BallotTyped' /\ BelowParked' /\ reordering' = NoOrder
    BY <1>1, <1>2, <1>5 DEF CancelEdit, AddSecond, CloseRegistrationOf, BallotTyped, BelowParked
  <2>2. QED BY <2>1, QuietHolds
<1>6. ASSUME NEW c \in 1 .. added, EditEntry(c) PROVE BallotInv'
  <2>1. BallotTyped' /\ BelowParked' /\ reordering' = NoOrder
    BY <1>1, <1>2, <1>6 DEF EditEntry, BallotTyped, BelowParked
  <2>2. QED BY <2>1, QuietHolds
<1>7. ASSUME NEW c \in 1 .. added, Remove(c) PROVE BallotInv'
  <2>1. BallotTyped' /\ BelowParked'
    BY <1>1, <1>2, <1>7, RemoveHolds DEF Remove
  <2>2. QED BY <1>7, <2>1, QuietHolds DEF Remove
<1>8. ASSUME NEW answered \in BOOLEAN, SaveForm(answered) PROVE BallotInv'
  <2>1. listed' = listed /\ reordering' = NoOrder
    BY <1>8 DEF SaveForm
  <2>2. editing' \in 0 .. added /\ meant' \in 0 .. added
    BY <1>2, <1>8 DEF SaveForm
  <2>3. CASE editing = 0
    <3>1. AddCandidateAt(NextBallotPosition)
      BY <1>8, <2>3 DEF SaveForm
    <3>2. BallotTyped' /\ BelowParked'
      BY <1>1, <2>1, <2>2, <3>1, NextPositionFits, AddHolds
    <3>3. QED BY <2>1, <3>2, QuietHolds
  <2>4. CASE editing # 0
    <3>1. editing \in DOMAIN ballot /\ EditCandidateAt(editing, ballot[editing])
      BY <1>8, <2>4 DEF SaveForm
    <3>2. ballot[editing] \in Nat \ {0} /\ ballot[editing] <= Cap + added
      BY <1>1, <3>1 DEF BallotTyped, BelowParked
    <3>3. BallotTyped' /\ BelowParked'
      BY <1>1, <2>1, <2>2, <3>1, <3>2, EditHolds
    <3>4. QED BY <2>1, <3>3, QuietHolds
  <2>5. QED BY <2>3, <2>4
<1>9. ASSUME NEW i \in DOMAIN listed, NEW delta \in {-1, 1}, Move(i, delta) PROVE BallotInv'
  <2> DEFINE order == [listed EXCEPT ![i] = listed[i + delta], ![i + delta] = listed[i]]
  <2>1. {i, i + delta} \subseteq DOMAIN listed /\ Reorder(order) /\ UNCHANGED <<fixed, listed, editing, meant>>
    BY <1>9 DEF Move
  <2>2. order \in Seq(Nat)
    <3>1. listed \in Seq(Nat)
      BY <1>2, SeqGrows, 1 .. added \subseteq Nat
    <3>2. listed \in [1 .. Len(listed) -> Nat] /\ Len(listed) \in Nat /\ DOMAIN listed = 1 .. Len(listed)
      BY <3>1
    <3>3. order \in [1 .. Len(listed) -> Nat]
      BY <2>1, <3>2
    <3>4. QED BY <3>2, <3>3
  <2> HIDE DEF order
  <2>3. QED BY <1>1, <2>1, <2>2, ReorderHolds
<1>10. CASE OthersEdit
  <2>1. UNCHANGED <<listed, editing, meant>> /\ reordering' = NoOrder
    BY <1>10 DEF OthersEdit
  <2>2. Chosen \subseteq 1 .. Cap
    BY BallotPaperAssumption
  <2>3. ASSUME NEW p \in Chosen \cup {NextBallotPosition}, AddCandidateAt(p) PROVE BallotTyped' /\ BelowParked'
    <3>1. p \in Nat \ {0} /\ p <= Cap + added + 1
      BY <1>1, <1>2, <2>2, NextPositionFits
    <3>2. QED BY <1>1, <1>2, <2>1, <2>3, <3>1, AddHolds
  <2>4. ASSUME NEW c \in DOMAIN ballot, NEW p \in Chosen, EditCandidateAt(c, p) PROVE BallotTyped' /\ BelowParked'
    <3>1. p \in Nat \ {0} /\ p <= Cap + added
      BY <1>2, <2>2
    <3>2. QED BY <1>1, <1>2, <2>1, <2>4, <3>1, EditHolds
  <2>5. ASSUME NEW c \in DOMAIN ballot, RemoveCandidateOf(c) PROVE BallotTyped' /\ BelowParked'
    BY <1>1, <1>2, <2>1, <2>5, RemoveHolds
  <2>6. BallotTyped' /\ BelowParked'
    BY <1>10, <2>3, <2>4, <2>5 DEF OthersEdit
  <2>7. QED BY <2>1, <2>6, QuietHolds
<1>11. CASE OthersReorder
  <2>1. PICK order \in Orders : Reorder(order) /\ UNCHANGED <<fixed, listed, editing, meant>>
    BY <1>11 DEF OthersReorder
  <2>2. order \in Seq(Nat)
    BY BallotPaperAssumption
  <2>3. QED BY <1>1, <2>1, <2>2, ReorderHolds
<1>12. QED BY <1>3, <1>4, <1>5, <1>6, <1>7, <1>8, <1>9, <1>10, <1>11 DEF BallotPaperNext

LEMMA BallotInitHolds == BallotPaperInit => BallotInv
<1>1. ASSUME BallotPaperInit PROVE BallotTyped /\ BelowParked /\ reordering = NoOrder
  <2>1. ballot = << >> /\ DOMAIN ballot = {}
    BY <1>1 DEF BallotPaperInit
  <2>2. MaxEntries \in Nat
    BY BallotPaperAssumption
  <2>3. ballot \in [DOMAIN ballot -> Nat \ {0}]
    BY <2>1
  <2>4. QED BY <1>1, <2>1, <2>2, <2>3 DEF BallotPaperInit, BallotTyped, BelowParked, IsInjective
<1>2. QED BY <1>1 DEF BallotInv, OrderAsAsked

LEMMA BallotInvariant == BallotPaperSpec => []BallotInv
BY BallotInitHolds, BallotStep, PTL DEF BallotPaperSpec

\* An order without repetitions is refused unless it is of the candidates there are
\* and registration is open, never collides on the way, and becomes the ballot's.
THEOREM OrderAsAskedAlways == BallotPaperSpec => []OrderAsAsked
<1>1. BallotInv => OrderAsAsked
  BY DEF BallotInv
<1>2. QED BY <1>1, BallotInvariant, PTL

\* Whether the page offers changes is whether it saw the registration closed.
LEMMA EditableHolds ==
  ASSUME editable \in BOOLEAN, [BallotPaperNext]_ballotPaperVars
  PROVE  editable' \in BOOLEAN
<1>1. editable' = editable \/ editable' = ~fixed
  BY DEF BallotPaperNext, Reload, CancelEdit, AddSecond, EditEntry, Remove, SaveForm, Move, OthersEdit,
         OthersReorder, CloseRegistrationOf, ballotPaperVars
<1>2. (~fixed) \in BOOLEAN
  OBVIOUS
<1>3. QED BY <1>1, <1>2

\* The ballot's candidates have been added and stand apart; so do the page's.
LEMMA BallotPaperTypeCorrect == BallotPaperSpec => []BallotPaperTypeOK
<1>1. BallotPaperInit => editable \in BOOLEAN
  BY DEF BallotPaperInit
<1>2. editable \in BOOLEAN /\ [BallotPaperNext]_ballotPaperVars => (editable \in BOOLEAN)'
  BY EditableHolds
<1>3. BallotPaperSpec => [](editable \in BOOLEAN)
  BY <1>1, <1>2, PTL DEF BallotPaperSpec
<1>4. BallotInv /\ editable \in BOOLEAN => BallotPaperTypeOK
  <2> SUFFICES ASSUME BallotInv, editable \in BOOLEAN PROVE BallotPaperTypeOK
    OBVIOUS
  <2>1. /\ DOMAIN ballot \subseteq 1 .. added /\ added \in 0 .. MaxEntries /\ IsInjective(ballot)
        /\ \A c \in DOMAIN ballot : ballot[c] \in Nat \ {0}
    BY DEF BallotInv, BallotTyped
  <2>2. Range(listed) \subseteq 1 .. added /\ {editing, meant} \subseteq 0 .. added
    BY DEF BallotInv, BallotTyped, Range
  <2>3. QED BY <2>1, <2>2 DEF BallotPaperTypeOK
<1>5. QED BY <1>3, <1>4, BallotInvariant, PTL
=============================================================================
