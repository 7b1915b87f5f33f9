------------------------------ MODULE Details ------------------------------
(***************************************************************************)
(* The details of an election, from the forms that give them to the groups *)
(* they decide.  A form is filled with the whole record and sends it back  *)
(* whole; dates pass through the reading of the officer's clock.  Clients  *)
(* of the API send any part of a record.  When registration has closed the *)
(* groups are previewed and formed; their publication is Election's.       *)
(* Of the details, two dates and the group size stand for all: the others  *)
(* are texts and dates that no rule relates.                               *)
(***************************************************************************)
EXTENDS Naturals, Sequences, FiniteSetsExt, Functions

CONSTANTS Clock,       \* the local time a form shows for each instant: to the minute, and
                       \* the same twice when clocks are put back
          MinSize,     \* RING_MIN_SIZE
          Sizes,       \* bound: what is put into the field for the group size
          Electorates, \* bound: how many voters are approved
          MaxInputs    \* bound: changes typed into a form, and updates by others

ASSUME DetailsAssumption ==
  /\ Clock \in Seq(Nat \ {0}) /\ MinSize \in Nat \ {0}
  /\ Sizes \cup Electorates \cup {MaxInputs} \subseteq Nat

VARIABLES details,   \* the election's row, or NoDetails
          frozen,    \* registration has closed
          voters,  \* how many voters are on the roll
          divided,   \* the sizes of the groups, << >> before they are formed
          shownAs,   \* the election as its page shows it, or NoView
          edits,     \* what is in the form and not saved, or NoEdits
          saving,    \* the request that is under way, or NoSaving
          sheet,     \* the groups as the groups page shows them, or NoSheet
          inputs     \* changes typed, and updates by others, so far

formVars == <<shownAs, edits, saving>>
detailsVars == <<details, frozen, voters, divided, formVars, sheet, inputs>>

Instant == DOMAIN Clock
Date == {"opens", "closes"}
Detail == Date \cup {"size"}
NoDetails == << >>
NoView == [details |-> NoDetails, editable |-> FALSE]
NoEdits == [values |-> NoDetails]
NoSaving == [outcome |-> "none"]
NoSheet == [sizes |-> << >>, closed |-> FALSE]

\* 0 is no date, and an empty field.
ToLocalInput(instant) == IF instant = 0 THEN 0 ELSE Clock[instant]

\* Variant: the local reading is taken for an instant.
FromLocalInputAsGiven(reading) == reading

\* The earliest instant with this reading.
FromLocalInput(reading) ==
  IF reading = 0 THEN 0 ELSE Min({i \in Instant : Clock[i] = reading})

Readings == {0} \cup Range(Clock)
Typable(f) == IF f \in Date THEN Readings ELSE Sizes
EmptyForm == [f \in Detail |-> IF f \in Date THEN 0 ELSE MinSize]

FormOf(row) == [f \in Detail |-> IF f \in Date THEN ToLocalInput(row[f]) ELSE row[f]]
InputOf(form) == [f \in Detail |-> IF f \in Date THEN FromLocalInput(form[f]) ELSE form[f]]

DetailsInit ==
  /\ details = NoDetails /\ frozen = FALSE /\ voters = 0 /\ divided = << >>
  /\ shownAs = NoView /\ saving = NoSaving /\ sheet = NoSheet
  /\ edits = [values |-> EmptyForm, base |-> NoDetails, touched |-> {}]
  /\ inputs = 0

-----------------------------------------------------------------------------
\* The server.  An input is a record of some of the details.
AssertVotingWindow(input) ==
  Date \subseteq DOMAIN input /\ 0 \notin {input[f] : f \in Date} => input.closes > input.opens

ElectionSchema(input) == "size" \in DOMAIN input => input.size \in 2 .. 1000

\* The table checks the whole row: an input may give one date that does not fit the other.
VotingWindowValid(row) == 0 \notin {row[f] : f \in Date} => row.closes > row.opens

Acceptable(input) == ElectionSchema(input) /\ AssertVotingWindow(input)

CreateNewElection(input) == Acceptable(input) /\ details' = input

\* Variant: details stay editable until the groups are formed.
EditableUntilFormed == details # NoDetails /\ divided = << >>

Editable == details # NoDetails /\ ~frozen

Updated(input) == [f \in Detail |-> IF f \in DOMAIN input THEN input[f] ELSE details[f]]

UpdateElectionMetadata(input) ==
  /\ Acceptable(input) /\ Editable /\ VotingWindowValid(Updated(input))
  /\ details' = Updated(input)

Part == UNION {[given -> {0} \cup Instant \cup Sizes] : given \in SUBSET Detail}

Another == inputs < MaxInputs /\ inputs' = inputs + 1

\* Other clients of the API.
OthersUpdate ==
  /\ Another
  /\ \E input \in Part :
       /\ \A f \in DOMAIN input : input[f] \in IF f \in Date THEN {0} \cup Instant ELSE Sizes
       /\ UpdateElectionMetadata(input)
  /\ UNCHANGED <<frozen, voters, divided, formVars, sheet>>

-----------------------------------------------------------------------------
\* The forms: the one that creates the election, and the one on its page.
Creating == edits # NoEdits /\ edits.base = NoDetails
Idling == saving = NoSaving
Changed(f, v) == [edits EXCEPT !.values[f] = v, !.touched = @ \cup {f}]

SetInNewForm(f, v) ==
  /\ Creating /\ Another
  /\ edits' = Changed(f, v)
  /\ UNCHANGED <<details, frozen, voters, divided, shownAs, saving, sheet>>

Send == saving' = [form |-> edits, outcome |-> "sent"]

\* After a lost answer the form could be sent again, and another election created; what
\* is followed is the one election.
SubmitNew ==
  /\ Creating /\ details = NoDetails /\ Idling
  /\ Send
  /\ UNCHANGED <<details, frozen, voters, divided, shownAs, edits, sheet, inputs>>

Shows == shownAs # NoView
Values == IF edits = NoEdits THEN FormOf(shownAs.details) ELSE edits.values

\* The first change copies every field of the page as it is; the fields stay open while
\* a request is under way.
SetValue(f, v) ==
  /\ Shows /\ shownAs.editable /\ ~Creating /\ Another
  /\ edits' = IF edits # NoEdits THEN Changed(f, v)
              ELSE [values |-> [Values EXCEPT ![f] = v], base |-> shownAs.details, touched |-> {f}]
  /\ UNCHANGED <<details, frozen, voters, divided, shownAs, saving, sheet>>

Savable == Shows /\ shownAs.editable /\ edits # NoEdits /\ Idling

SaveMetadata ==
  /\ Savable /\ ~Creating /\ Send
  /\ UNCHANGED <<details, frozen, voters, divided, shownAs, edits, sheet, inputs>>

DiscardEdits ==
  /\ Savable /\ ~Creating /\ edits' = NoEdits
  /\ UNCHANGED <<details, frozen, voters, divided, shownAs, saving, sheet, inputs>>

Store ==
  LET input == InputOf(saving.form.values)
      new == saving.form.base = NoDetails
  IN  /\ saving.outcome = "sent"
      /\ IF Acceptable(input) /\ (new \/ Editable)
           THEN /\ IF new THEN CreateNewElection(input) ELSE UpdateElectionMetadata(input)
                /\ saving' = [saving EXCEPT !.outcome = "stored"]
           ELSE saving' = [saving EXCEPT !.outcome = "refused"] /\ UNCHANGED details
      /\ UNCHANGED <<frozen, voters, divided, shownAs, edits, sheet, inputs>>

\* Success closes the form with whatever was typed into it meanwhile; a refusal or a
\* lost answer leaves it.
SaveAnswered(lost) ==
  /\ saving.outcome \in {"stored", "refused"}
  /\ saving' = NoSaving
  /\ edits' = IF saving.outcome = "stored" /\ ~lost THEN NoEdits ELSE edits
  /\ UNCHANGED <<details, frozen, voters, divided, shownAs, sheet, inputs>>

\* The page is opened, or its data arrives anew; a failed load takes it away, though not
\* what was typed.
GetElectionDetail(answered) ==
  /\ details # NoDetails /\ (Creating => Idling)
  /\ shownAs' = IF answered THEN [details |-> details, editable |-> Editable] ELSE NoView
  /\ edits' = IF Creating THEN NoEdits ELSE edits
  /\ UNCHANGED <<details, frozen, voters, divided, saving, sheet, inputs>>

-----------------------------------------------------------------------------
\* The roll, and the groups.
ReviewVoters ==
  /\ details # NoDetails /\ ~frozen
  /\ voters' \in Electorates
  /\ UNCHANGED <<details, frozen, divided, formVars, sheet, inputs>>

CloseRegistrationOfVoters ==
  /\ details # NoDetails /\ ~frozen /\ voters >= MinSize
  /\ frozen' = TRUE
  /\ UNCHANGED <<details, voters, divided, formVars, sheet, inputs>>

\* As many groups as fit, and the voters left over dealt to them in turn.
GroupSizes ==
  LET groups == voters \div details.size
      left == voters % details.size
  IN  [i \in 1 .. groups |->
         details.size + left \div groups + (IF i <= left % groups THEN 1 ELSE 0)]

AssertFormable == details.size >= MinSize /\ voters >= MinSize

\* Forming writes the groups, or throws when they would leave voters out.
FormRings ==
  /\ frozen /\ AssertFormable /\ voters >= details.size
  /\ divided' = GroupSizes
  /\ UNCHANGED <<details, frozen, voters, formVars, sheet, inputs>>

DescribeExisting == [sizes |-> divided, closed |-> frozen]
Hypothetical == [sizes |-> GroupSizes, closed |-> frozen]

\* Groups that exist are described, and others worked out.
PreviewFormation ==
  /\ details # NoDetails
  /\ sheet' = IF divided # << >> THEN DescribeExisting
              ELSE IF AssertFormable THEN Hypothetical ELSE NoSheet
  /\ UNCHANGED <<details, frozen, voters, divided, formVars, inputs>>

\* What the button on the sheet promises: to form the groups again.
ReformOffered == sheet.sizes # << >>

DetailsNext ==
  \/ OthersUpdate \/ SubmitNew \/ SaveMetadata \/ DiscardEdits \/ Store
  \/ ReviewVoters \/ CloseRegistrationOfVoters \/ FormRings \/ PreviewFormation
  \/ \E f \in Detail : \E v \in Typable(f) : SetInNewForm(f, v) \/ SetValue(f, v)
  \/ \E b \in BOOLEAN : SaveAnswered(b) \/ GetElectionDetail(b)

DetailsSpec == DetailsInit /\ [][DetailsNext]_detailsVars
=============================================================================
