------------------------ MODULE OperatorsProperties ------------------------
(***************************************************************************)
(* What the accounts' own rules are meant to guarantee, and for whom.      *)
(***************************************************************************)
EXTENDS Operators

\* An account exists once with what it was given, tokens name accounts, and two
\* transactions never hold the same row.
OperatorsTypeOK ==
  /\ account \in [Operator -> Account \cup {NoAccount}]
  /\ \A b \in Browser : token[b] \in Known \cup {"none"}
  /\ \A t \in Tab : shown[t] \in Known \cup {"none"}
  /\ \A q \in Request : request[q].pc \in {"idle", "lock", "write", "create"}
  /\ \A q, p \in Request : q # p /\ Writing(q) /\ Writing(p) => request[q].target # request[p].target

\* There is always somebody who can advance an election and create operators.
SomeoneRuns == ActiveSuperAdmins # {}

\* Even when rights are taken away while requests are under way, the last active
\* super-admin stays, as long as no two changes of accounts have overlapped.
SomeoneRunsUnlessCrossed == ~crossed => SomeoneRuns

\* Nobody changes their own account, whichever of a request's two changes it is
\* and however tabs share a token, and no race of two creations replaces an
\* account, and with it a password somebody knows.
ChangesAreOthers ==
  [][\A a \in Known : account'[a] # account[a] =>
       /\ account'[a].held = account[a].held
       /\ \E q \in Request : /\ Writing(q) /\ request'[q] # request[q]
                             /\ request[q].target = a /\ request[q].by # a]_account

\* Rights that were taken away start nothing new: whoever begins a change is an
\* active super-admin at that moment, however old the token.
RightsAreFresh ==
  [][\A q \in Request : request[q] = Idle /\ request'[q] # Idle =>
       request'[q].by \in ActiveSuperAdmins]_request

\* What the page says, "against your account": a change is recorded for the
\* operator whose name the tab shows.
RecordedAsShown == \A q \in Request : request[q] # Idle => request[q].by = request[q].seen
=============================================================================
