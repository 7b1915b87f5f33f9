-------------------------- MODULE PeopleProperties --------------------------
(***************************************************************************)
(* What must hold of registrations, voters and key replacements, and the   *)
(* two screens that speak of them.                                         *)
(***************************************************************************)
EXTENDS People

\* What the review queue shows beside a registration: the fields claimed by
\* another live registration or by a voter it did not itself become.
DuplicateFields(r) ==
  {f \in Field : \/ \E s \in Live \ {r} : registration[s][f] = registration[r][f]
                 \/ \E v \in Voters \ {r} : voter[v][f] = registration[r][f]}

\* Variant: the voter the registration became counts as a duplicate of it.
WarningsOfItself(r) ==
  {w \in Field \X FindLiveConflicts(r) : registration[w[2]][w[1]] = registration[r][w[1]]}
  \cup {w \in Field \X FindVoterConflicts(registration[r]) : voter[w[2]][w[1]] = registration[r][w[1]]}

\* What the record's own page shows, worked out by other queries.
Warnings(r) ==
  {w \in Field \X FindLiveConflicts(r) : registration[w[2]][w[1]] = registration[r][w[1]]}
  \cup {w \in Field \X (FindVoterConflicts(registration[r]) \ {r}) :
          voter[w[2]][w[1]] = registration[r][w[1]]}

\* A request for another key ends with nothing written.
Refused(d) ==
  /\ task[d].pc \in {"page", "correct", "correcting", "check", "file"} /\ task'[d] = AtRest
  /\ UNCHANGED <<registration, replacement>>

Held(k) == (\E r \in Live : registration[r].key = k) \/ (\E v \in Voters : voter[v].key = k)

-----------------------------------------------------------------------------
\* Two voters never hold one key: their ballots would be linked to each other
\* and one of them could not be counted.
KeysDistinct == \A v, w \in Voters : v # w => voter[v].key # voter[w].key

\* A national id and a mail address belong to one person: no two live
\* registrations share one, nor do a live registration and a voter it did not
\* become, through every race of submissions, approvals and corrections; nor do
\* two voters share a key.  Only a pending registration's key can collide, with
\* that of a voter whose replacement took it.
IdentityExclusive ==
  /\ \A r, s \in Live : r # s =>
       /\ registration[r].nid # registration[s].nid
       /\ registration[r].email # registration[s].email
  /\ \A r \in Live, v \in Voters : r # v =>
       /\ registration[r].nid # voter[v].nid
       /\ registration[r].email # voter[v].email
  /\ \A r \in Registration : r \in Voters <=> r \in Used /\ registration[r].status = "APPROVED"
  /\ KeysDistinct

\* The queue's flags and the warnings on the record name the same fields, and a
\* pending record without flags, which bulk approval may take, has no collision
\* that approval would be refused for.
FlagsAgree ==
  \A r \in Live : /\ DuplicateFields(r) = {w[1] : w \in Warnings(r)}
                  /\ AssertPending(r) /\ DuplicateFields(r) = {} =>
                       VoterUnique(r, registration[r])

\* "Offering a replacement the server would refuse is worse than explaining why it is
\* unavailable": between the page and the answer lie several readings, other people's
\* requests and the officers' decisions.  A voter whom the page offered a replacement is
\* refused only if since then the registration was rejected, or reviewed in the midst of
\* the request, or registration closed with the voter on the roll, or another request of
\* theirs was filed, or if the key is somebody's.
OfferHonoured ==
  [][\A d \in Desk :
       LET t == task[d]
       IN  Refused(d) /\ t.shown.offered =>
             \/ registration[t.id].status = "REJECTED"
             \/ t.pc = "correct" /\ registration[t.id].status # "PENDING"
             \/ ~t.shown.closed /\ ~open /\ t.id \in roll
             \/ PendingFor(t.id) \ t.shown.pending # {}
             \/ Held(t.key)]_peopleVars

\* A decision is made once: whatever two officers do to one registration or one
\* replacement, a decided one keeps its decision and its claim, and a voter keeps
\* the identity that was vetted.
DecisionsStand ==
  [][/\ \A r \in Used : registration[r].status # "PENDING" => registration'[r] = registration[r]
     /\ \A v \in Voters : voter'[v].nid = voter[v].nid /\ voter'[v].email = voter[v].email
     /\ \A q \in Replacement : replacement[q] # Free /\ replacement[q].status # "PENDING" =>
          replacement'[q] = replacement[q]]_people
=============================================================================
