------------------------- MODULE DetailsProperties -------------------------
(***************************************************************************)
(* What officers may rely on when they give an election its details.       *)
(***************************************************************************)
EXTENDS Details

ElectionRow == {row \in [Detail -> {0} \cup Instant \cup Sizes \cup {MinSize}] :
          \A f \in Date : row[f] \in {0} \cup Instant}

DetailsTypeOK ==
  /\ {details, shownAs.details} \subseteq ElectionRow \cup {NoDetails}
  /\ voters \in {0} \cup Electorates /\ divided \in Seq(Nat \ {0})
  /\ edits # NoEdits =>
       /\ \A f \in Detail : edits.values[f] \in Typable(f) \cup {MinSize}
       /\ edits.base \in ElectionRow \cup {NoDetails} /\ edits.touched \subseteq Detail
  /\ saving.outcome \in {"none", "sent", "stored", "refused"}
  /\ frozen => details # NoDetails
  /\ divided # << >> => frozen

\* Saving the page changes what was typed into it, although the form sends every detail
\* and dates pass through the officer's clock.  Besides, it may put back what others
\* changed after the form was filled, and moves a date that no reading of the clock
\* names: one given with seconds, or in the hour that comes twice.
OnlyTypedChanges ==
  [][saving.outcome = "sent" /\ saving'.outcome = "stored" /\ details # NoDetails =>
       \A f \in Detail :
         \/ details'[f] = details[f]
         \/ f \in saving.form.touched \cup {g \in Detail : saving.form.base[g] # details[g]}
         \/ f \in Date /\ \E i \in 1 .. details[f] - 1 : Clock[i] = Clock[details[f]]]_<<details, saving>>

\* The groups previewed once registration is closed are those that are formed, whoever
\* goes on using the forms: "the numbers on screen are the numbers the admin will get".
FormedAsPreviewed == sheet.closed /\ divided # << >> => divided = sheet.sizes

\* Groups can be formed anew only when there are some.  It does not hold: groups that
\* would be formed are shown, named and offered for freezing as if they had been.
OfferedAnew == ReformOffered => divided # << >>

\* What is typed stays in the form until it is stored or discarded.  It does not hold:
\* success empties the form, with what was typed since the request was sent.
TypedStays ==
  [][edits # NoEdits /\ saving.outcome = "stored" => edits' # NoEdits \/ edits = saving.form]_<<edits, saving>>
=============================================================================
