---------------------------- MODULE Confirmation ----------------------------
(***************************************************************************)
(* The confirmation in front of a step that cannot be taken back: moving   *)
(* an election on, on its own page, and freezing its groups, on the groups *)
(* page.  The page shows what it last fetched; opening the dialog asks the *)
(* server for a pre-flight, whose answer may come late; the step itself is *)
(* checked again by the server.  Meanwhile other operators go on working.  *)
(***************************************************************************)
EXTENDS Naturals, FiniteSets

CONSTANTS MaxOpenings,  \* bound: dialogs opened
          MaxChanges    \* bound: what others do while the page is open

ASSUME ConfirmationAssumption == {MaxOpenings, MaxChanges} \subseteq Nat

VARIABLES site,       \* "election" or "groups": the page the operator is on
          stage,      \* the election's status at the server
          grouping,   \* number of the latest shuffle, 0 before the first
          published,  \* the shuffle that was frozen, or 0
          sound,      \* the guards of the next step hold
          changes,    \* what others have done
          screen,     \* what the page shows, or NoScreen
          fetching,   \* the page waits for its data
          target,     \* the step the open dialog is about, or "none"
          preview,    \* the pre-flight the dialog shows, or NoPreview
          awaited,    \* pre-flights asked for and not answered
          consent,    \* what was typed and ticked, and for which opening
          commit,     \* the confirmed request, or NoCommit
          openings,   \* dialogs opened
          overlapped  \* a dialog was opened while an earlier pre-flight was awaited

serverVars == <<stage, grouping, published, sound, changes>>
dialogVars == <<target, preview, awaited, consent, openings, overlapped>>
confirmationVars == <<site, serverVars, screen, fetching, dialogVars, commit>>

Stages == {"DRAFT", "REGISTRATION_OPEN", "RINGS_FROZEN", "VOTING_OPEN", "VOTING_CLOSED",
           "TALLIED", "CANCELLED"}
Steps == (Stages \ {"DRAFT"}) \cup {"FREEZE"}
Irreversible == {"RINGS_FROZEN", "VOTING_OPEN", "VOTING_CLOSED", "FREEZE"}
NoScreen == [stage |-> "none", grouping |-> 0]
NoPreview == [to |-> "none"]
NoCommit == [to |-> "none"]
NoConsent == [typed |-> 0, ticked |-> 0, wording |-> "none"]

Onward(s) ==
  CASE s = "DRAFT" -> "REGISTRATION_OPEN"
    [] s = "REGISTRATION_OPEN" -> "RINGS_FROZEN"
    [] s = "RINGS_FROZEN" -> "VOTING_OPEN"
    [] s = "VOTING_OPEN" -> "VOTING_CLOSED"
    [] s = "VOTING_CLOSED" -> "TALLIED"
    [] OTHER -> "none"

MayCancel(s) == s \in {"DRAFT", "REGISTRATION_OPEN"}

\* What the server permits: a step of the lifecycle, or the freezing of groups.
Permits(to) ==
  CASE to = "FREEZE" -> /\ stage \in {"RINGS_FROZEN", "VOTING_OPEN", "VOTING_CLOSED", "TALLIED"}
                        /\ grouping # 0 /\ (published # 0 \/ sound)
    [] to = "CANCELLED" -> MayCancel(stage)
    [] OTHER -> to = Onward(stage) /\ sound

\* Variant: freezing the groups is a status of the election's own.
ApplyAsStatus(to) == stage' = to /\ UNCHANGED <<grouping, published, sound>>

Apply(to) ==
  IF to = "FREEZE"
    THEN /\ published' = IF published = 0 THEN grouping ELSE published
         /\ UNCHANGED <<stage, grouping, sound>>
    ELSE /\ stage' = to
         /\ UNCHANGED <<grouping, published, sound>>

ConfirmationInit ==
  /\ site \in {"election", "groups"}
  /\ stage \in Stages /\ sound \in BOOLEAN /\ changes = 0
  /\ grouping \in CASE stage \in {"DRAFT", "REGISTRATION_OPEN", "CANCELLED"} -> {0}
                     [] stage = "RINGS_FROZEN" -> {0, 1}
                     [] OTHER -> {1}
  /\ published \in IF stage = "RINGS_FROZEN" THEN {0, grouping} ELSE {grouping}
  /\ screen = NoScreen /\ fetching = TRUE
  /\ target = "none" /\ preview = NoPreview /\ awaited = {}
  /\ consent = NoConsent /\ commit = NoCommit
  /\ openings = 0 /\ overlapped = FALSE

-----------------------------------------------------------------------------
\* Other operators, and whatever else the guards depend on.
Colleague ==
  /\ changes < MaxChanges /\ changes' = changes + 1
  /\ \/ \E to \in {"CANCELLED", "FREEZE", Onward(stage)} \ {"none"} : Permits(to) /\ Apply(to)
     \/ /\ stage = "RINGS_FROZEN" /\ published = 0
        /\ grouping' = grouping + 1
        /\ UNCHANGED <<stage, published, sound>>
     \/ sound' = ~sound /\ UNCHANGED <<stage, grouping, published>>
  /\ UNCHANGED <<site, screen, fetching, dialogVars, commit>>

\* The page's data arrives.  A failed load takes the election's page and its dialog
\* away, though not what the dialog was about; the groups' dialog stays.
Fetched(answered) ==
  /\ fetching
  /\ fetching' = FALSE
  /\ IF answered
       THEN /\ screen' = [stage |-> stage, grouping |-> grouping, published |-> published]
            /\ UNCHANGED consent
       ELSE /\ screen' = NoScreen
            /\ consent' = IF site = "election" THEN NoConsent ELSE consent
  /\ UNCHANGED <<site, serverVars, target, preview, awaited, openings, overlapped, commit>>

Refresh ==
  /\ ~fetching /\ fetching' = TRUE
  /\ UNCHANGED <<site, serverVars, screen, dialogVars, commit>>

-----------------------------------------------------------------------------
\* The buttons the page offers, as it sees the election.  Groups that would be formed
\* are shown like groups that were, and freezing them is offered as well.
Offered ==
  CASE screen = NoScreen -> {}
    [] site = "groups"   -> {to \in {"FREEZE"} : /\ screen.stage \notin {"DRAFT", "REGISTRATION_OPEN", "CANCELLED"}
                                                 /\ screen.published = 0}
    [] OTHER             -> {to \in {Onward(screen.stage)} : to # "none"}
                            \cup {to \in {"CANCELLED"} : MayCancel(screen.stage)}

\* Variant: the last pre-flight stays on screen until the next one arrives.
OpenTransitionKeeping(to) ==
  /\ target = "none" /\ to \in Offered
  /\ openings < MaxOpenings
  /\ openings' = openings + 1
  /\ target' = to
  /\ overlapped' = (overlapped \/ awaited # {})
  /\ awaited' = awaited \cup {[to |-> to, opening |-> openings + 1]}
  /\ UNCHANGED <<site, serverVars, screen, fetching, preview, consent, commit>>

OpenTransition(to) ==
  /\ target = "none" /\ to \in Offered
  /\ openings < MaxOpenings
  /\ openings' = openings + 1
  /\ target' = to
  /\ preview' = NoPreview
  /\ overlapped' = (overlapped \/ awaited # {})
  /\ awaited' = awaited \cup {[to |-> to, opening |-> openings + 1]}
  /\ UNCHANGED <<site, serverVars, screen, fetching, consent, commit>>

\* A pre-flight is answered, refused, or lost; only an answer changes the dialog's
\* checks.
Previewed(p, answered) ==
  /\ p \in awaited
  /\ awaited' = awaited \ {p}
  /\ preview' = IF answered /\ (p.to \in {"CANCELLED", "FREEZE"} \/ p.to = Onward(stage))
                  THEN [to |-> p.to, passed |-> Permits(p.to)] ELSE preview
  /\ UNCHANGED <<site, serverVars, screen, fetching, target, consent, openings, overlapped, commit>>

\* The dialog.  Without a pre-flight it counts as passed.
GuardsPass == IF preview = NoPreview THEN TRUE ELSE preview.passed
Shown == target # "none" /\ (screen # NoScreen \/ site = "groups")
Busy == commit # NoCommit
Wording ==
  IF site = "groups" \/ preview.to \in Irreversible THEN "irreversible" ELSE "reviewed"

TypePhrase ==
  /\ Shown /\ GuardsPass /\ ~Busy
  /\ consent' = [consent EXCEPT !.typed = openings]
  /\ UNCHANGED <<site, serverVars, screen, fetching, target, preview, awaited, openings, overlapped, commit>>

Acknowledge ==
  /\ Shown /\ GuardsPass /\ ~Busy
  /\ consent' = [consent EXCEPT !.ticked = openings, !.wording = Wording]
  /\ UNCHANGED <<site, serverVars, screen, fetching, target, preview, awaited, openings, overlapped, commit>>

\* Variant: the dialog stays mounted, and with it what was typed and ticked.
UnmountNot == UNCHANGED consent

\* The dialog is mounted only while it is open.
Unmount == consent' = NoConsent

\* Escape and a click beside the dialog work even while the request is under way.
Cancel ==
  /\ Shown
  /\ target' = "none"
  /\ Unmount
  /\ UNCHANGED <<site, serverVars, screen, fetching, preview, awaited, openings, overlapped, commit>>

Ready == GuardsPass /\ consent.typed # 0 /\ consent.ticked # 0 /\ ~Busy

Confirm ==
  /\ Shown /\ Ready
  /\ commit' = [to |-> target, opening |-> openings, consent |-> consent,
                shuffle |-> screen.grouping, checked |-> preview.to = target, outcome |-> "none"]
  /\ UNCHANGED <<site, serverVars, screen, fetching, dialogVars>>

\* The server takes the step or refuses it.
TransitionElection ==
  /\ Busy /\ commit.outcome = "none"
  /\ IF Permits(commit.to)
       THEN /\ Apply(commit.to) /\ UNCHANGED changes
            /\ commit' = [commit EXCEPT !.outcome = "taken"]
       ELSE UNCHANGED serverVars /\ commit' = [commit EXCEPT !.outcome = "refused"]
  /\ UNCHANGED <<site, screen, fetching, dialogVars>>

\* Its answer closes whatever dialog is open and reloads the page; a refusal or a lost
\* answer leaves the dialog as it is.
Answer(lost) ==
  /\ Busy /\ commit.outcome # "none"
  /\ commit' = NoCommit
  /\ IF commit.outcome = "taken" /\ ~lost
       THEN target' = "none" /\ Unmount /\ fetching' = TRUE
       ELSE UNCHANGED <<target, consent, fetching>>
  /\ UNCHANGED <<site, serverVars, screen, preview, awaited, openings, overlapped>>

ConfirmationNext ==
  \/ Colleague \/ Refresh \/ TypePhrase \/ Acknowledge \/ Cancel \/ Confirm
  \/ TransitionElection
  \/ \E b \in BOOLEAN : Fetched(b) \/ Answer(b) \/ \E p \in awaited : Previewed(p, b)
  \/ \E to \in Steps : OpenTransition(to)

ConfirmationSpec == ConfirmationInit /\ [][ConfirmationNext]_confirmationVars
=============================================================================
