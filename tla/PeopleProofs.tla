---------------------------- MODULE PeopleProofs ----------------------------
(***************************************************************************)
(* Identities stay apart, decisions stand, the two screens of the review   *)
(* agree, and what the status page offers is kept, proved for any number   *)
(* of registrations, replacements, desks and requests.                     *)
(***************************************************************************)
EXTENDS PeopleProperties, TLAPS

Decision == {"PENDING", "APPROVED", "REJECTED"}
VoterRow == [status : Decision, nid : NationalId, email : {Lower[s] : s \in Spelling}, key : Key]
Swap == [status : Decision, voter : Registration, new : Key, previous : Key]

Page == [offered : BOOLEAN, closed : BOOLEAN, pending : SUBSET Replacement]

Task ==
  {AtRest} \cup [pc : {"insert"}, claim : Claim]
  \cup [pc : {"next"}, todo : SUBSET Registration, enrol : BOOLEAN]
  \cup [pc : {"approving"}, id : Registration, todo : SUBSET Registration, enrol : BOOLEAN]
  \cup [pc : {"page", "correct", "correcting"}, id : Registration, key : Key, shown : Page]
  \cup [pc : {"check", "file"}, id : Registration, key : Key, shown : Page, previous : Key]
  \cup [pc : {"reviewing"}, id : Replacement]

PeopleTyped ==
  /\ registration \in [Registration -> VoterRow \cup {Free}]
  /\ voter \in [Registration -> Claim \cup {NoVoter}]
  /\ replacement \in [Replacement -> Swap \cup {Free}]
  /\ task \in [Desk -> Task]

Holding(d) == task[d].pc \in {"approving", "correcting"}
Approved(r) == r \in Used /\ registration[r].status = "APPROVED"
Reviewing(d) == task[d].pc = "reviewing"
Waiting == {r \in Registration : AssertPending(r)}
Filed == {q \in Replacement : replacement[q] # Free /\ replacement[q].status = "PENDING"}

\* What a request holds is pending, and held by nobody else.
LocksHold ==
  /\ \A d \in Desk : Holding(d) => task[d].id \in Waiting
  /\ \A d, e \in Desk : Holding(d) /\ Holding(e) /\ task[d].id = task[e].id => d = e
  /\ \A d \in Desk : Reviewing(d) => task[d].id \in Filed
  /\ \A d, e \in Desk : Reviewing(d) /\ Reviewing(e) /\ task[d].id = task[e].id => d = e

\* Replacements are about voters.
AboutVoters ==
  /\ \A q \in Replacement : replacement[q] # Free => replacement[q].voter \in Voters
  /\ \A d \in Desk : task[d].pc \in {"check", "file"} => task[d].id \in Voters

\* A voter has the identity of an approved registration, and no live registration
\* shares one.
Apart ==
  /\ \A v \in Voters : /\ Approved(v)
                       /\ voter[v].nid = registration[v].nid
                       /\ voter[v].email = registration[v].email
  /\ \A r \in Registration : Approved(r) => r \in Voters
  /\ \A r, s \in Live : r # s => /\ registration[r].nid # registration[s].nid
                                 /\ registration[r].email # registration[s].email
  /\ KeysDistinct

PeopleInv == PeopleTyped /\ LocksHold /\ AboutVoters /\ Apart

\* What no step may do to decided rows and to voters.
Decided ==
  /\ \A r \in Used : registration[r].status # "PENDING" => registration'[r] = registration[r]
  /\ \A v \in Voters : voter'[v].nid = voter[v].nid /\ voter'[v].email = voter[v].email
  /\ \A q \in Replacement : replacement[q] # Free /\ replacement[q].status # "PENDING" =>
       replacement'[q] = replacement[q]

-----------------------------------------------------------------------------
(***************************************************************************)
(* Rows and requests.                                                      *)
(***************************************************************************)
LEMMA RowsAreUsed ==
  /\ \A row \in VoterRow : row # Free /\ row # NoVoter
  /\ \A c \in Claim : c # NoVoter /\ c # Free
  /\ \A w \in Swap : w # Free
<1>1. DOMAIN Free = {"status"} /\ DOMAIN NoVoter = {"status"}
  BY DEF Free, NoVoter
<1>2. \A row \in VoterRow : "nid" \in DOMAIN row
  BY DEF VoterRow
<1>3. \A c \in Claim : "nid" \in DOMAIN c
  BY DEF Claim
<1>4. \A w \in Swap : "voter" \in DOMAIN w
  BY DEF Swap
<1>5. QED BY <1>1, <1>2, <1>3, <1>4

LEMMA TaskOfPc ==
  ASSUME NEW t \in Task
  PROVE  /\ t.pc = "insert" => t \in [pc : {"insert"}, claim : Claim]
         /\ t.pc = "next" => t \in [pc : {"next"}, todo : SUBSET Registration, enrol : BOOLEAN]
         /\ t.pc = "approving" =>
              t \in [pc : {"approving"}, id : Registration, todo : SUBSET Registration, enrol : BOOLEAN]
         /\ t.pc \in {"page", "correct", "correcting"} =>
              t \in [pc : {"page", "correct", "correcting"}, id : Registration, key : Key, shown : Page]
         /\ t.pc \in {"check", "file"} =>
              t \in [pc : {"check", "file"}, id : Registration, key : Key, shown : Page, previous : Key]
         /\ t.pc = "reviewing" => t \in [pc : {"reviewing"}, id : Replacement]
BY DEF Task, AtRest

\* Rows in use have the shape of rows.
LEMMA RowsHaveShape ==
  ASSUME PeopleTyped
  PROVE  /\ \A r \in Used : registration[r] \in VoterRow
         /\ \A v \in Voters : voter[v] \in Claim
         /\ \A q \in Replacement : replacement[q] # Free => replacement[q] \in Swap
BY DEF PeopleTyped, Used, Voters

\* After a registration its request is at rest or at the next one.
LEMMA NextIsTask ==
  ASSUME NEW t, t.todo \in SUBSET Registration, t.enrol \in BOOLEAN, NEW r
  PROVE  NextOf(t, r) \in Task /\ NextOf(t, r).pc \in {"idle", "next"}
BY DEF NextOf, Task, AtRest

-----------------------------------------------------------------------------
(***************************************************************************)
(* Steps that read only.                                                   *)
(***************************************************************************)
LEMMA ReadingStep ==
  ASSUME PeopleInv, UNCHANGED people, NEW d \in Desk, NEW t \in Task,
         task' = [task EXCEPT ![d] = t],
         t.pc \in {"approving", "correcting"} => t.id \in Waiting /\ ~LockedRegistration(t.id),
         t.pc = "reviewing" => t.id \in Filed /\ ~LockedReplacement(t.id),
         t.pc \in {"check", "file"} => t.id \in Voters
  PROVE  PeopleInv' /\ Decided
<1>1. UNCHANGED <<registration, voter, replacement>>
  BY DEF people
<1>2. task' \in [Desk -> Task] /\ task'[d] = t /\ \A e \in Desk \ {d} : task'[e] = task[e]
  BY DEF PeopleInv, PeopleTyped
<1>3. PeopleTyped'
  BY <1>1, <1>2 DEF PeopleInv, PeopleTyped
<1>4. UNCHANGED <<Used, Live, Voters>>
  BY <1>1 DEF Used, Live, Voters
<1>5. Apart'
  BY <1>1, <1>4 DEF PeopleInv, Apart, Approved, KeysDistinct
<1>6. AboutVoters'
  BY <1>1, <1>2, <1>4 DEF PeopleInv, AboutVoters
<1>7. \A e \in Desk \ {d} : /\ Holding(e)' <=> Holding(e)
                            /\ Reviewing(e)' <=> Reviewing(e)
  BY <1>2 DEF Holding, Reviewing
<1>8. Waiting' = Waiting /\ Filed' = Filed
  BY <1>1, <1>4 DEF AssertPending, Waiting, Filed
<1>9. /\ Holding(d)' => t.id \in Waiting' /\ \A e \in Desk \ {d} : Holding(e) => task[e].id # t.id
      /\ Reviewing(d)' => t.id \in Filed' /\ \A e \in Desk \ {d} : Reviewing(e) => task[e].id # t.id
  BY <1>2, <1>8 DEF Holding, Reviewing, LockedRegistration, LockedReplacement
<1>10. LocksHold'
  BY <1>2, <1>7, <1>8, <1>9 DEF PeopleInv, LocksHold
<1>11. Decided
  BY <1>1 DEF Decided
<1>12. QED BY <1>3, <1>5, <1>6, <1>10, <1>11 DEF PeopleInv

LEMMA ReadingSteps ==
  ASSUME PeopleInv, NEW d \in Desk,
         \/ \E n \in NationalId, s \in Spelling, k \in Key : SubmitRegistration(d, n, s, k)
         \/ \E ids \in SUBSET Used, enrol \in BOOLEAN : ApproveRegistrations(d, ids, enrol)
         \/ LockForApproval(d)
         \/ \E r \in Used, k \in Key : ShowStatus(d, r, k)
         \/ RequestKeyReplacement(d) \/ CorrectKey(d) \/ CheckReplacement(d)
         \/ \E q \in Replacement : LockForReview(d, q)
  PROVE  PeopleInv' /\ Decided
<1>1. ASSUME NEW n \in NationalId, NEW s \in Spelling, NEW k \in Key, SubmitRegistration(d, n, s, k)
      PROVE  PeopleInv' /\ Decided
  <2> DEFINE t == [pc |-> "insert", claim |-> Normalise(n, s, k)]
  <2>1. t \in Task
    BY DEF Task, Normalise, Claim
  <2>2. UNCHANGED people /\ task' = [task EXCEPT ![d] = t]
    BY <1>1 DEF SubmitRegistration, Begin
  <2>3. QED BY <2>1, <2>2, ReadingStep
<1>2. ASSUME NEW ids \in SUBSET Used, NEW enrol \in BOOLEAN, ApproveRegistrations(d, ids, enrol)
      PROVE  PeopleInv' /\ Decided
  <2> DEFINE t == [pc |-> "next", todo |-> ids, enrol |-> enrol]
  <2>1. t \in Task
    BY DEF Task, Used
  <2>2. UNCHANGED people /\ task' = [task EXCEPT ![d] = t]
    BY <1>2 DEF ApproveRegistrations, Begin
  <2>3. QED BY <2>1, <2>2, ReadingStep
<1>3. ASSUME LockForApproval(d) PROVE PeopleInv' /\ Decided
  <2>1. PICK r \in task[d].todo :
          /\ ~LockedRegistration(r)
          /\ Become(d, IF AssertPending(r) /\ FindVoterConflicts(registration[r]) = {}
                         THEN [pc |-> "approving", id |-> r, todo |-> task[d].todo, enrol |-> task[d].enrol]
                         ELSE NextOf(task[d], r))
    BY <1>3 DEF LockForApproval
  <2>2. task[d] \in [pc : {"next"}, todo : SUBSET Registration, enrol : BOOLEAN] /\ UNCHANGED people
    BY <1>3, TaskOfPc DEF LockForApproval, PeopleInv, PeopleTyped
  <2>3. CASE AssertPending(r) /\ FindVoterConflicts(registration[r]) = {}
    <3> DEFINE t == [pc |-> "approving", id |-> r, todo |-> task[d].todo, enrol |-> task[d].enrol]
    <3>1. t \in Task
      BY <2>2 DEF Task
    <3>2. task' = [task EXCEPT ![d] = t]
      BY <2>1, <2>3 DEF Become
    <3>3. r \in Waiting
      BY <2>2, <2>3 DEF Waiting
    <3>4. QED BY <2>1, <2>2, <3>1, <3>2, <3>3, ReadingStep
  <2>4. CASE ~(AssertPending(r) /\ FindVoterConflicts(registration[r]) = {})
    <3>1. NextOf(task[d], r) \in Task /\ NextOf(task[d], r).pc \in {"idle", "next"}
      BY <2>2, NextIsTask
    <3>2. task' = [task EXCEPT ![d] = NextOf(task[d], r)]
      BY <2>1, <2>4 DEF Become
    <3>3. QED BY <2>2, <3>1, <3>2, ReadingStep
  <2>5. QED BY <2>3, <2>4
<1>4. ASSUME NEW r \in Used, NEW k \in Key, ShowStatus(d, r, k) PROVE PeopleInv' /\ Decided
  <2> DEFINE t == [pc |-> "page", id |-> r, key |-> k, shown |-> Offer(r)]
  <2>1. Offer(r) \in Page
    BY DEF Offer, Page, KeyReplacementAvailable, PendingFor
  <2>2. t \in Task
    BY <2>1 DEF Task, Used
  <2>3. UNCHANGED people /\ task' = [task EXCEPT ![d] = t]
    BY <1>4 DEF ShowStatus, Begin
  <2>4. QED BY <2>2, <2>3, ReadingStep
<1>5. ASSUME RequestKeyReplacement(d) \/ CorrectKey(d) PROVE PeopleInv' /\ Decided
  <2> DEFINE t == task[d]
             corrected == [t EXCEPT !.pc = "correct"]
             locked == [t EXCEPT !.pc = "correcting"]
             filed == [pc |-> "check", id |-> t.id, key |-> t.key, shown |-> t.shown,
                       previous |-> voter[t.id].key]
  <2>1. t \in [pc : {"page", "correct", "correcting"}, id : Registration, key : Key, shown : Page]
    BY <1>5, TaskOfPc DEF RequestKeyReplacement, CorrectKey, PeopleInv, PeopleTyped
  <2>2. corrected \in Task /\ locked \in Task /\ locked.id = t.id /\ corrected.pc = "correct" /\ locked.pc = "correcting"
    BY <2>1 DEF Task
  <2>3. UNCHANGED people
    BY <1>5 DEF RequestKeyReplacement, CorrectKey
  <2>4. \/ task' = [task EXCEPT ![d] = corrected]
        \/ task' = [task EXCEPT ![d] = filed] /\ registration[t.id].status = "APPROVED"
        \/ task' = [task EXCEPT ![d] = locked] /\ AssertPending(t.id) /\ ~LockedRegistration(t.id)
        \/ task' = [task EXCEPT ![d] = AtRest]
    BY <1>5 DEF RequestKeyReplacement, CorrectKey, Become
  <2>5. CASE task' = [task EXCEPT ![d] = corrected]
    BY <2>2, <2>3, <2>5, ReadingStep
  <2>6. CASE task' = [task EXCEPT ![d] = filed] /\ registration[t.id].status = "APPROVED"
    <3>1. Approved(t.id)
      BY <2>1, <2>6 DEF Approved, Used, Free
    <3>2. t.id \in Voters
      BY <2>1, <3>1 DEF PeopleInv, Apart
    <3>3. voter[t.id].key \in Key
      BY <3>2, RowsHaveShape DEF PeopleInv, Claim
    <3>4. filed \in Task /\ filed.pc = "check" /\ filed.id = t.id
      BY <2>1, <3>3 DEF Task
    <3> HIDE DEF filed
    <3>5. QED BY <2>3, <2>6, <3>2, <3>4, ReadingStep
  <2>7. CASE task' = [task EXCEPT ![d] = locked] /\ AssertPending(t.id) /\ ~LockedRegistration(t.id)
    <3>1. t.id \in Waiting
      BY <2>1, <2>7 DEF Waiting
    <3> HIDE DEF locked
    <3>2. QED BY <2>2, <2>3, <2>7, <3>1, ReadingStep
  <2>8. CASE task' = [task EXCEPT ![d] = AtRest]
    <3>1. AtRest \in Task /\ AtRest.pc = "idle"
      BY DEF Task, AtRest
    <3>2. QED BY <2>3, <2>8, <3>1, ReadingStep
  <2>9. QED BY <2>4, <2>5, <2>6, <2>7, <2>8
<1>6. ASSUME CheckReplacement(d) PROVE PeopleInv' /\ Decided
  <2>1. /\ task[d] \in [pc : {"check", "file"}, id : Registration, key : Key, shown : Page, previous : Key]
        /\ task[d].id \in Voters /\ UNCHANGED people
    BY <1>6, TaskOfPc DEF CheckReplacement, PeopleInv, PeopleTyped, AboutVoters
  <2>2. PICK t \in {[task[d] EXCEPT !.pc = "file"], AtRest} : task' = [task EXCEPT ![d] = t]
    BY <1>6 DEF CheckReplacement, Become
  <2>3. CASE t = AtRest
    <3>1. t \in Task /\ t.pc = "idle"
      BY <2>3 DEF Task, AtRest
    <3>2. QED BY <2>1, <2>2, <3>1, ReadingStep
  <2>4. CASE t = [task[d] EXCEPT !.pc = "file"]
    <3>1. t \in Task /\ t.pc = "file" /\ t.id = task[d].id
      BY <2>1, <2>4 DEF Task
    <3>2. QED BY <2>1, <2>2, <3>1, ReadingStep
  <2>5. QED BY <2>2, <2>3, <2>4
<1>7. ASSUME NEW q \in Replacement, LockForReview(d, q) PROVE PeopleInv' /\ Decided
  <2> DEFINE t == [pc |-> "reviewing", id |-> q]
  <2>1. t \in Task
    BY DEF Task
  <2>2. UNCHANGED people /\ task' = [task EXCEPT ![d] = t] /\ q \in Filed /\ ~LockedReplacement(q)
    BY <1>7 DEF LockForReview, Begin, Filed
  <2>3. QED BY <2>1, <2>2, ReadingStep
<1>8. QED BY <1>1, <1>2, <1>3, <1>4, <1>5, <1>6, <1>7

-----------------------------------------------------------------------------
(***************************************************************************)
(* Steps that write.                                                       *)
(***************************************************************************)
\* A request that lets go of what it held leaves the others theirs.
LEMMA Released ==
  ASSUME PeopleTyped, LocksHold, AboutVoters, Voters \subseteq Voters',
         NEW d \in Desk, NEW t \in Task, t.pc \in {"idle", "next"}, task' = [task EXCEPT ![d] = t],
         \A e \in Desk \ {d} : Holding(e) => task[e].id \in Waiting',
         \A e \in Desk \ {d} : Reviewing(e) => task[e].id \in Filed'
  PROVE  /\ task' \in [Desk -> Task] /\ LocksHold'
         /\ \A e \in Desk : task'[e].pc \in {"check", "file"} => task'[e].id \in Voters'
<1>1. task' \in [Desk -> Task] /\ task'[d] = t /\ \A e \in Desk \ {d} : task'[e] = task[e]
  BY DEF PeopleTyped
<1>2. /\ \A e \in Desk : Holding(e)' => e # d /\ Holding(e)
      /\ \A e \in Desk : Reviewing(e)' => e # d /\ Reviewing(e)
  BY <1>1 DEF Holding, Reviewing
<1>3. \A e \in Desk \ {d} : /\ Holding(e) => task'[e].id \in Waiting'
                            /\ Reviewing(e) => task'[e].id \in Filed'
  BY <1>1
<1>4. LocksHold'
  BY <1>1, <1>2, <1>3 DEF LocksHold
<1>5. ASSUME NEW e \in Desk, task'[e].pc \in {"check", "file"} PROVE task'[e].id \in Voters'
  BY <1>1, <1>5 DEF AboutVoters
<1>6. QED BY <1>1, <1>4, <1>5

LEMMA AtRestIsTask == AtRest \in Task /\ AtRest.pc = "idle"
BY DEF AtRest, Task

LEMMA CreateRegistrationHolds ==
  ASSUME PeopleInv, NEW d \in Desk, CreateRegistration(d)
  PROVE  PeopleInv' /\ Decided
<1> DEFINE r == CHOOSE s \in Registration : s \notin Used
           row == [status |-> "PENDING", nid |-> task[d].claim.nid,
                   email |-> task[d].claim.email, key |-> task[d].claim.key]
<1> USE DEF PeopleInv
<1>1. task[d].claim \in Claim
  BY TaskOfPc DEF CreateRegistration, PeopleTyped
<1>2. row \in VoterRow /\ row.status = "PENDING"
  BY <1>1 DEF Claim, VoterRow, Decision
<1>3. r \in Registration /\ r \notin Used
  BY DEF CreateRegistration, Used
<1>4. /\ \/ LiveUnique(r, row) /\ registration' = [registration EXCEPT ![r] = row]
         \/ UNCHANGED registration
      /\ task' = [task EXCEPT ![d] = AtRest] /\ UNCHANGED <<voter, replacement, Voters>>
  BY DEF CreateRegistration, Become, Voters
<1>5. /\ registration' \in [Registration -> VoterRow \cup {Free}]
      /\ \A s \in Used : s # r /\ registration'[s] = registration[s]
      /\ Used \subseteq Used' /\ Used' \subseteq Used \cup {r}
      /\ r \in Used' => registration'[r] = row /\ LiveUnique(r, row)
  BY <1>2, <1>3, <1>4, RowsAreUsed DEF PeopleTyped, Used
<1>6. Waiting \subseteq Waiting' /\ \A s \in Registration : Approved(s)' <=> Approved(s)
  BY <1>2, <1>3, <1>5 DEF Waiting, AssertPending, Approved
<1>7. \A e \in Desk : Holding(e) => task[e].id \in Waiting'
  BY <1>6 DEF LocksHold
<1>8. \A e \in Desk : Reviewing(e) => task[e].id \in Filed'
  BY <1>4 DEF LocksHold, Filed
<1>9. task' \in [Desk -> Task] /\ LocksHold' /\ AboutVoters'
  BY <1>4, <1>7, <1>8, AtRestIsTask, Released DEF AboutVoters
<1>10. Apart'
  <2>1. \A s \in Live' : s = r \/ (s \in Live /\ s # r /\ registration'[s] = registration[s])
    BY <1>5 DEF Live
  <2>2. \A s \in Live \ {r} : r \in Used' => registration[s].nid # row.nid /\ registration[s].email # row.email
    BY <1>5 DEF LiveUnique, Field
  <2>3. \A s, u \in Live' : s # u => /\ registration'[s].nid # registration'[u].nid
                                    /\ registration'[s].email # registration'[u].email
    <3> SUFFICES ASSUME NEW s \in Live', NEW u \in Live', s # u
                 PROVE  /\ registration'[s].nid # registration'[u].nid
                        /\ registration'[s].email # registration'[u].email
      OBVIOUS
    <3>1. s \in Used' /\ u \in Used'
      BY DEF Live
    <3>2. CASE s = r
      BY <1>5, <2>1, <2>2, <3>1, <3>2
    <3>3. CASE u = r
      BY <1>5, <2>1, <2>2, <3>1, <3>3
    <3>4. CASE s # r /\ u # r
      BY <2>1, <3>4 DEF Apart
    <3>5. QED BY <3>2, <3>3, <3>4
  <2>4. \A v \in Voters : Approved(v) /\ v \in Used /\ registration'[v] = registration[v]
    BY <1>5 DEF Apart, Approved
  <2>5. KeysDistinct'
    BY <1>4 DEF KeysDistinct, Apart
  <2>6. QED BY <1>4, <1>6, <2>3, <2>4, <2>5 DEF Apart, Voters
<1>11. Decided
  BY <1>4, <1>5 DEF Decided
<1>12. QED BY <1>4, <1>5, <1>9, <1>10, <1>11 DEF PeopleTyped

\* One pending registration is written and keeps who it is about.
LEMMA RowWritten ==
  ASSUME PeopleInv, NEW r \in Waiting, NEW row \in VoterRow,
         row.nid = registration[r].nid, row.email = registration[r].email,
         registration' = [registration EXCEPT ![r] = row]
  PROVE  /\ registration' \in [Registration -> VoterRow \cup {Free}]
         /\ r \in Registration /\ registration'[r] = row /\ registration[r].status = "PENDING"
         /\ \A s \in Registration \ {r} : registration'[s] = registration[s]
         /\ Used' = Used /\ Live' \subseteq Live /\ r \in Live /\ Waiting \ {r} \subseteq Waiting'
         /\ row.status = "PENDING" => Waiting \subseteq Waiting'
         /\ \A s \in Used : /\ registration'[s].nid = registration[s].nid
                            /\ registration'[s].email = registration[s].email
         /\ \A s, u \in Live' : s # u => /\ registration'[s].nid # registration'[u].nid
                                         /\ registration'[s].email # registration'[u].email
<1>1. r \in Registration /\ r \in Used /\ r \in Live /\ registration[r].status = "PENDING"
  BY DEF Waiting, AssertPending, Used, Live
<1>2. /\ registration' \in [Registration -> VoterRow \cup {Free}] /\ registration'[r] = row
      /\ \A s \in Registration \ {r} : registration'[s] = registration[s]
  BY <1>1 DEF PeopleInv, PeopleTyped
<1>3. Used' = Used
  BY <1>1, <1>2, RowsAreUsed DEF Used
<1>4. Live' \subseteq Live
  BY <1>1, <1>2, <1>3 DEF Live, Used
<1>5. Waiting \ {r} \subseteq Waiting' /\ (row.status = "PENDING" => Waiting \subseteq Waiting')
  BY <1>1, <1>2, <1>3 DEF Waiting, AssertPending
<1>6. \A s \in Used : /\ registration'[s].nid = registration[s].nid
                     /\ registration'[s].email = registration[s].email
  BY <1>2 DEF Used
<1>7. Live \subseteq Used
  BY DEF Live
<1>8. \A s, u \in Live' : s # u => /\ registration'[s].nid # registration'[u].nid
                                  /\ registration'[s].email # registration'[u].email
  BY <1>4, <1>6, <1>7 DEF PeopleInv, Apart
<1>9. QED BY <1>1, <1>2, <1>3, <1>4, <1>5, <1>6, <1>8

LEMMA UpdateRegistrationKeyHolds ==
  ASSUME PeopleInv, NEW d \in Desk, UpdateRegistrationKey(d)
  PROVE  PeopleInv' /\ Decided
<1> DEFINE r == task[d].id
           row == [registration[r] EXCEPT !.key = task[d].key]
<1> USE DEF PeopleInv
<1>1. r \in Waiting /\ task[d].key \in Key
  BY TaskOfPc DEF UpdateRegistrationKey, LocksHold, Holding, PeopleTyped
<1>2. registration[r] \in VoterRow /\ registration[r].status = "PENDING"
  BY <1>1, RowsHaveShape DEF Waiting, AssertPending
<1>3. row \in VoterRow /\ row.status = "PENDING" /\ row.nid = registration[r].nid /\ row.email = registration[r].email
  BY <1>1, <1>2 DEF VoterRow
<1>4. /\ registration' = [registration EXCEPT ![r] = row] \/ UNCHANGED registration
      /\ task' = [task EXCEPT ![d] = AtRest] /\ UNCHANGED <<voter, replacement, Voters>>
  BY DEF UpdateRegistrationKey, Become, Voters
<1>5. /\ registration' \in [Registration -> VoterRow \cup {Free}]
      /\ Used' = Used /\ Live' \subseteq Live /\ Waiting \subseteq Waiting'
      /\ \A s \in Used : /\ registration'[s].nid = registration[s].nid
                         /\ registration'[s].email = registration[s].email
                         /\ registration'[s].status = registration[s].status
                         /\ s # r => registration'[s] = registration[s]
      /\ \A s, u \in Live' : s # u => /\ registration'[s].nid # registration'[u].nid
                                      /\ registration'[s].email # registration'[u].email
  <2>1. CASE UNCHANGED registration
    BY <2>1 DEF PeopleTyped, Used, Live, Waiting, AssertPending, Apart
  <2>2. CASE registration' = [registration EXCEPT ![r] = row]
    BY <1>1, <1>3, <2>2, RowWritten DEF Used
  <2>3. QED BY <1>4, <2>1, <2>2
<1>6. /\ \A e \in Desk : Holding(e) => task[e].id \in Waiting'
      /\ \A e \in Desk : Reviewing(e) => task[e].id \in Filed'
  BY <1>4, <1>5 DEF LocksHold, Filed
<1>7. task' \in [Desk -> Task] /\ LocksHold' /\ AboutVoters'
  BY <1>4, <1>6, AtRestIsTask, Released DEF AboutVoters
<1>8. \A s \in Registration : Approved(s)' <=> Approved(s)
  BY <1>5 DEF Approved
<1>9. Apart'
  <2>1. KeysDistinct'
    BY <1>4 DEF KeysDistinct, Apart
  <2>2. \A v \in Voters : Approved(v) /\ v \in Used /\ v \in Registration
    BY DEF Apart, Approved, Voters
  <2>3. QED BY <1>4, <1>5, <1>8, <2>1, <2>2 DEF Apart
<1>10. Decided
  BY <1>2, <1>4, <1>5 DEF Decided
<1>11. QED BY <1>4, <1>5, <1>7, <1>9, <1>10 DEF PeopleTyped

LEMMA RejectRegistrationHolds ==
  ASSUME PeopleInv, NEW r \in Registration, RejectRegistration(r)
  PROVE  PeopleInv' /\ Decided
<1> DEFINE row == [registration[r] EXCEPT !.status = "REJECTED"]
<1> USE DEF PeopleInv
<1>1. r \in Waiting /\ registration[r] \in VoterRow
  BY RowsHaveShape DEF RejectRegistration, Waiting, AssertPending
<1>2. /\ row \in VoterRow /\ row.nid = registration[r].nid /\ row.email = registration[r].email
      /\ row.status = "REJECTED"
  BY <1>1 DEF VoterRow, Decision
<1>3. /\ registration' = [registration EXCEPT ![r] = row]
      /\ UNCHANGED <<voter, replacement, task, Voters, Filed>>
  BY DEF RejectRegistration, Single, Voters, Filed
<1>4. \A e \in Desk : Holding(e) => task[e].id # r
  BY DEF RejectRegistration, LockedRegistration, Holding
<1>5. Waiting \ {r} \subseteq Waiting' /\ Used' = Used
  BY <1>1, <1>2, <1>3, RowWritten
<1>6. LocksHold'
  BY <1>3, <1>4, <1>5 DEF LocksHold, Holding, Reviewing
<1>7. AboutVoters'
  BY <1>3 DEF AboutVoters
<1>8. \A s \in Registration : Approved(s)' <=> Approved(s)
  BY <1>1, <1>2, <1>3, RowWritten DEF Approved
<1>9. Apart'
  <2>1. KeysDistinct'
    BY <1>3 DEF KeysDistinct, Apart
  <2>2. \A v \in Voters : v \in Used /\ v \in Registration
    BY DEF Apart, Approved, Voters
  <2>3. /\ \A s \in Used : /\ registration'[s].nid = registration[s].nid
                           /\ registration'[s].email = registration[s].email
        /\ \A s, u \in Live' : s # u => /\ registration'[s].nid # registration'[u].nid
                                        /\ registration'[s].email # registration'[u].email
    BY <1>1, <1>2, <1>3, RowWritten
  <2>4. QED BY <1>3, <1>8, <2>1, <2>2, <2>3 DEF Apart
<1>10. PeopleTyped' /\ Decided
  BY <1>1, <1>2, <1>3, RowWritten DEF PeopleTyped, Decided, Used
<1>11. QED BY <1>6, <1>7, <1>9, <1>10

LEMMA ApproveRegistrationHolds ==
  ASSUME PeopleInv, NEW d \in Desk, ApproveRegistration(d)
  PROVE  PeopleInv' /\ Decided
<1> DEFINE r == task[d].id
           row == [registration[r] EXCEPT !.status = "APPROVED"]
           granted == VoterUnique(r, VoterOf(r)) /\ (task[d].enrol => open)
<1> USE DEF PeopleInv
<1>1. /\ r \in Waiting /\ Holding(d)
      /\ task[d] \in [pc : {"approving"}, id : Registration, todo : SUBSET Registration, enrol : BOOLEAN]
  BY TaskOfPc DEF ApproveRegistration, LocksHold, Holding, PeopleTyped
<1>2. registration[r] \in VoterRow /\ registration[r].status = "PENDING" /\ r \in Registration /\ r \in Live
  BY <1>1, RowsHaveShape DEF Waiting, AssertPending, Used, Live
<1>3. /\ row \in VoterRow /\ row.nid = registration[r].nid /\ row.email = registration[r].email
      /\ row.status = "APPROVED" /\ VoterOf(r) \in Claim
  BY <1>2 DEF VoterRow, Decision, VoterOf, Claim
<1>4. r \notin Voters
  BY <1>2 DEF Apart, Approved
<1>5. /\ task' = [task EXCEPT ![d] = NextOf(task[d], r)] /\ UNCHANGED <<replacement, Filed>>
      /\ NextOf(task[d], r) \in Task /\ NextOf(task[d], r).pc \in {"idle", "next"}
  BY <1>1, NextIsTask DEF ApproveRegistration, Become, Filed
<1>6. \A e \in Desk \ {d} : Holding(e) => task[e].id \in Waiting \ {r}
  BY <1>1 DEF LocksHold
<1>7. CASE granted
  <2>1. registration' = [registration EXCEPT ![r] = row] /\ voter' = [voter EXCEPT ![r] = VoterOf(r)]
    BY <1>7 DEF ApproveRegistration
  <2>2. /\ voter' \in [Registration -> Claim \cup {NoVoter}] /\ Voters' = Voters \cup {r}
        /\ voter'[r] = VoterOf(r) /\ \A v \in Voters : voter'[v] = voter[v]
    BY <1>2, <1>3, <1>4, <2>1, RowsAreUsed DEF PeopleTyped, Voters
  <2>3. /\ registration' \in [Registration -> VoterRow \cup {Free}] /\ registration'[r] = row
        /\ \A s \in Registration \ {r} : registration'[s] = registration[s]
        /\ Used' = Used /\ Waiting \ {r} \subseteq Waiting'
        /\ \A s \in Used : /\ registration'[s].nid = registration[s].nid
                           /\ registration'[s].email = registration[s].email
        /\ \A s, u \in Live' : s # u => /\ registration'[s].nid # registration'[u].nid
                                        /\ registration'[s].email # registration'[u].email
    <3>1. r \in Waiting /\ row \in VoterRow
      BY <1>1, <1>3
    <3>2. row.nid = registration[r].nid /\ row.email = registration[r].email
      BY <1>3
    <3>3. QED BY <2>1, <3>1, <3>2, RowWritten
  <2>4. /\ \A e \in Desk \ {d} : Holding(e) => task[e].id \in Waiting'
        /\ \A e \in Desk \ {d} : Reviewing(e) => task[e].id \in Filed'
    BY <1>5, <1>6, <2>3 DEF LocksHold
  <2>5. task' \in [Desk -> Task] /\ LocksHold' /\ AboutVoters'
    BY <1>5, <2>2, <2>4, Released DEF AboutVoters
  <2>6. \A s \in Registration : Approved(s)' <=> Approved(s) \/ s = r
    BY <1>2, <1>3, <2>3 DEF Approved, Live
  <2>7. KeysDistinct'
    <3>1. \A w \in Voters : voter[w].key # VoterOf(r).key
      <4>1. VoterUnique(r, VoterOf(r)) /\ "key" \in Field /\ Voters \ {r} = Voters
        BY <1>4, <1>7 DEF Field
      <4>2. QED BY <4>1 DEF VoterUnique
    <3>2. QED BY <2>2, <3>1 DEF KeysDistinct, Apart
  <2>8. \A v \in Voters' : /\ voter'[v].nid = registration'[v].nid
                          /\ voter'[v].email = registration'[v].email
    <3>1. VoterOf(r).nid = row.nid /\ VoterOf(r).email = row.email
      BY <1>3 DEF VoterOf
    <3>2. \A v \in Voters : v \in Used
      BY DEF Apart, Approved
    <3>3. \A v \in Voters : /\ voter'[v].nid = registration'[v].nid
                           /\ voter'[v].email = registration'[v].email
      BY <2>2, <2>3, <3>2 DEF Apart
    <3>4. QED BY <2>2, <2>3, <3>1, <3>3
  <2>9. Apart'
    BY <2>2, <2>3, <2>6, <2>7, <2>8 DEF Apart, Voters
  <2>10. Decided
    BY <1>2, <1>5, <2>2, <2>3 DEF Decided, Used
  <2>11. QED BY <1>5, <2>2, <2>3, <2>5, <2>9, <2>10 DEF PeopleTyped
<1>8. CASE ~granted
  <2>1. UNCHANGED <<registration, voter, Used, Live, Voters, Waiting>>
    BY <1>8 DEF ApproveRegistration, Used, Live, Voters, Waiting, AssertPending
  <2>2. /\ \A e \in Desk \ {d} : Holding(e) => task[e].id \in Waiting'
        /\ \A e \in Desk \ {d} : Reviewing(e) => task[e].id \in Filed'
    BY <1>5, <2>1 DEF LocksHold
  <2>3. task' \in [Desk -> Task] /\ LocksHold' /\ AboutVoters'
    BY <1>5, <2>1, <2>2, Released DEF AboutVoters
  <2>4. Apart'
    BY <2>1 DEF Apart, Approved, KeysDistinct
  <2>5. QED BY <1>5, <2>1, <2>3, <2>4 DEF PeopleTyped, Decided
<1>9. QED BY <1>7, <1>8

\* Steps that leave registrations alone.
LEMMA ReplacementStep ==
  ASSUME PeopleInv, UNCHANGED registration,
         voter' \in [Registration -> Claim \cup {NoVoter}],
         replacement' \in [Replacement -> Swap \cup {Free}],
         Voters' = Voters, KeysDistinct',
         \A v \in Voters : voter'[v].nid = voter[v].nid /\ voter'[v].email = voter[v].email,
         \A q \in Replacement : replacement'[q] # Free => replacement'[q].voter \in Voters,
         \A q \in Replacement : replacement[q] # Free /\ replacement[q].status # "PENDING" =>
           replacement'[q] = replacement[q],
         \/ /\ UNCHANGED task
            /\ \A e \in Desk : Reviewing(e) => task[e].id \in Filed'
         \/ \E d \in Desk : /\ task' = [task EXCEPT ![d] = AtRest]
                            /\ \A e \in Desk \ {d} : Reviewing(e) => task[e].id \in Filed'
  PROVE  PeopleInv' /\ Decided
<1> USE DEF PeopleInv
<1>1. UNCHANGED <<Used, Live, Waiting>>
  BY DEF Used, Live, Waiting, AssertPending
<1>2. Apart'
  BY <1>1 DEF Apart, Approved
<1>3. CASE /\ UNCHANGED task
           /\ \A e \in Desk : Reviewing(e) => task[e].id \in Filed'
  BY <1>1, <1>2, <1>3 DEF PeopleTyped, LocksHold, AboutVoters, Holding, Reviewing, Decided
<1>4. CASE \E d \in Desk : /\ task' = [task EXCEPT ![d] = AtRest]
                          /\ \A e \in Desk \ {d} : Reviewing(e) => task[e].id \in Filed'
  <2>1. PICK d \in Desk : /\ task' = [task EXCEPT ![d] = AtRest]
                         /\ \A e \in Desk \ {d} : Reviewing(e) => task[e].id \in Filed'
    BY <1>4
  <2>2. \A e \in Desk \ {d} : Holding(e) => task[e].id \in Waiting'
    BY <1>1 DEF LocksHold
  <2>3. task' \in [Desk -> Task] /\ LocksHold'
        /\ \A e \in Desk : task'[e].pc \in {"check", "file"} => task'[e].id \in Voters'
    BY <2>1, <2>2, AtRestIsTask, Released
  <2>4. QED BY <1>2, <2>3 DEF PeopleTyped, AboutVoters, Decided
<1>5. QED BY <1>3, <1>4

LEMMA CreateReplacementHolds ==
  ASSUME PeopleInv, NEW d \in Desk, CreateReplacement(d)
  PROVE  PeopleInv' /\ Decided
<1> DEFINE t == task[d]
           asked == [status |-> "PENDING", voter |-> t.id, new |-> t.key, previous |-> t.previous]
<1> USE DEF PeopleInv
<1>1. t \in [pc : {"check", "file"}, id : Registration, key : Key, shown : Page, previous : Key] /\ t.id \in Voters
  BY TaskOfPc DEF CreateReplacement, PeopleTyped, AboutVoters
<1>2. asked \in Swap /\ asked.voter \in Voters
  BY <1>1 DEF Swap, Decision
<1>3. PICK q \in Replacement \cup {Free} :
        \/ UNCHANGED replacement
        \/ q \in Replacement /\ replacement[q] = Free /\ replacement' = [replacement EXCEPT ![q] = asked]
  BY DEF CreateReplacement
<1>4. /\ UNCHANGED <<registration, voter, Voters, KeysDistinct>>
      /\ task' = [task EXCEPT ![d] = AtRest]
  BY DEF CreateReplacement, Become, Voters, KeysDistinct
<1>5. /\ replacement' \in [Replacement -> Swap \cup {Free}]
      /\ \A p \in Replacement : \/ replacement'[p] = replacement[p]
                                \/ replacement[p] = Free /\ replacement'[p] = asked
  BY <1>2, <1>3 DEF PeopleTyped
<1>6. \A p \in Replacement : replacement'[p] # Free => replacement'[p].voter \in Voters
  BY <1>2, <1>5 DEF AboutVoters
<1>7. /\ \A p \in Replacement : replacement[p] # Free => replacement'[p] = replacement[p]
      /\ \A e \in Desk : Reviewing(e) => task[e].id \in Filed'
  BY <1>5 DEF LocksHold, Filed
<1>8. /\ voter' \in [Registration -> Claim \cup {NoVoter}] /\ KeysDistinct'
      /\ \A v \in Voters : voter'[v].nid = voter[v].nid /\ voter'[v].email = voter[v].email
  BY <1>4 DEF PeopleTyped, Apart
<1>9. QED BY <1>4, <1>5, <1>6, <1>7, <1>8, ReplacementStep

LEMMA ApproveReplacementHolds ==
  ASSUME PeopleInv, NEW d \in Desk, ApproveReplacement(d)
  PROVE  PeopleInv' /\ Decided
<1> DEFINE q == task[d].id
           v == replacement[q].voter
           row == [voter[v] EXCEPT !.key = replacement[q].new]
           done == [replacement[q] EXCEPT !.status = "APPROVED"]
<1> USE DEF PeopleInv
<1>1. Reviewing(d) /\ q \in Filed
  BY DEF ApproveReplacement, Reviewing, LocksHold
<1>2. q \in Replacement /\ replacement[q] \in Swap /\ replacement[q].status = "PENDING" /\ v \in Voters
  BY <1>1, RowsHaveShape DEF Filed, AboutVoters
<1>3. voter[v] \in Claim /\ replacement[q].new \in Key
  BY <1>2, RowsHaveShape DEF Swap
<1>4. row \in Claim /\ row.nid = voter[v].nid /\ row.email = voter[v].email
  BY <1>3 DEF Claim
<1>5. done \in Swap /\ done.voter = v /\ done.status = "APPROVED"
  BY <1>2 DEF Swap, Decision
<1>6. /\ UNCHANGED registration /\ task' = [task EXCEPT ![d] = AtRest]
      /\ \A e \in Desk \ {d} : Reviewing(e) => task[e].id \in Filed \ {q}
  BY <1>1 DEF ApproveReplacement, Become, LocksHold
<1>7. CASE VoterUnique(v, row)
  <2>1. voter' = [voter EXCEPT ![v] = row] /\ replacement' = [replacement EXCEPT ![q] = done]
    BY <1>7 DEF ApproveReplacement
  <2>2. /\ voter' \in [Registration -> Claim \cup {NoVoter}] /\ voter'[v] = row
        /\ \A w \in Registration \ {v} : voter'[w] = voter[w]
    BY <1>2, <1>4, <2>1 DEF PeopleTyped, Voters
  <2>3. /\ replacement' \in [Replacement -> Swap \cup {Free}] /\ replacement'[q] = done
        /\ \A p \in Replacement \ {q} : replacement'[p] = replacement[p]
    BY <1>2, <1>5, <2>1 DEF PeopleTyped
  <2>4. Voters' = Voters
    BY <1>2, <1>4, <2>2, RowsAreUsed DEF Voters
  <2>5. \A w \in Voters \ {v} : voter[w].key # row.key
    <3>1. "key" \in Field
      BY DEF Field
    <3>2. QED BY <1>7, <3>1 DEF VoterUnique
  <2>6. KeysDistinct'
    <3>1. \A w \in Voters \ {v} : voter'[w] = voter[w]
      BY <2>2 DEF Voters
    <3>2. \A u, w \in Voters : u # w => voter'[u].key # voter'[w].key
      <4> SUFFICES ASSUME NEW u \in Voters, NEW w \in Voters, u # w
                   PROVE  voter'[u].key # voter'[w].key
        OBVIOUS
      <4>1. CASE u = v
        BY <2>2, <2>5, <3>1, <4>1
      <4>2. CASE w = v
        BY <2>2, <2>5, <3>1, <4>2
      <4>3. CASE u # v /\ w # v
        BY <3>1, <4>3 DEF KeysDistinct, Apart
      <4>4. QED BY <4>1, <4>2, <4>3
    <3>3. QED BY <2>4, <3>2 DEF KeysDistinct
  <2>7. \A w \in Voters : voter'[w].nid = voter[w].nid /\ voter'[w].email = voter[w].email
    BY <1>4, <2>2 DEF Voters
  <2>8. \A p \in Replacement : replacement'[p] # Free => replacement'[p].voter \in Voters
    BY <1>2, <1>5, <2>3 DEF AboutVoters
  <2>9. \A p \in Replacement : replacement[p] # Free /\ replacement[p].status # "PENDING" =>
          replacement'[p] = replacement[p]
    BY <1>2, <2>3
  <2>10. \A e \in Desk \ {d} : Reviewing(e) => task[e].id \in Filed'
    BY <1>6, <2>3 DEF Filed
  <2>11. QED BY <1>6, <2>2, <2>3, <2>4, <2>6, <2>7, <2>8, <2>9, <2>10, ReplacementStep
<1>8. CASE ~VoterUnique(v, row)
  <2>1. UNCHANGED <<voter, replacement>>
    BY <1>8 DEF ApproveReplacement
  <2>2. UNCHANGED <<Voters, Filed, KeysDistinct>>
    BY <2>1 DEF Voters, Filed, KeysDistinct
  <2>3. QED BY <1>6, <2>1, <2>2, ReplacementStep DEF PeopleTyped, AboutVoters, Apart
<1>9. QED BY <1>7, <1>8

LEMMA RejectReplacementHolds ==
  ASSUME PeopleInv, NEW q \in Replacement, RejectReplacement(q)
  PROVE  PeopleInv' /\ Decided
<1> DEFINE done == [replacement[q] EXCEPT !.status = "REJECTED"]
<1> USE DEF PeopleInv
<1>1. replacement[q] # Free /\ replacement[q].status = "PENDING" /\ replacement[q] \in Swap
  BY RowsHaveShape DEF RejectReplacement
<1>2. done \in Swap /\ done.voter = replacement[q].voter
  BY <1>1 DEF Swap, Decision
<1>3. /\ UNCHANGED <<registration, voter, task, Voters, KeysDistinct>>
      /\ replacement' = [replacement EXCEPT ![q] = done]
  BY DEF RejectReplacement, Single, Voters, KeysDistinct
<1>4. /\ replacement' \in [Replacement -> Swap \cup {Free}] /\ replacement'[q] = done
      /\ \A p \in Replacement \ {q} : replacement'[p] = replacement[p]
  BY <1>2, <1>3 DEF PeopleTyped
<1>5. \A e \in Desk : Reviewing(e) => task[e].id \in Filed /\ task[e].id # q
  BY DEF RejectReplacement, LockedReplacement, Reviewing, LocksHold
<1>6. \A e \in Desk : Reviewing(e) => task[e].id \in Filed'
  BY <1>4, <1>5 DEF Filed
<1>7. \A p \in Replacement : replacement'[p] # Free => replacement'[p].voter \in Voters
  BY <1>1, <1>2, <1>4 DEF AboutVoters
<1>8. \A p \in Replacement : replacement[p] # Free /\ replacement[p].status # "PENDING" =>
        replacement'[p] = replacement[p]
  BY <1>1, <1>4
<1>9. QED BY <1>3, <1>4, <1>6, <1>7, <1>8, ReplacementStep DEF PeopleTyped, Apart

\* Steps about the roll alone, and steps that change nothing here.
LEMMA StillStep ==
  ASSUME PeopleInv, UNCHANGED <<registration, voter, replacement, task>>
  PROVE  PeopleInv' /\ Decided
<1>1. UNCHANGED <<Voters, Filed, KeysDistinct>>
  BY DEF Voters, Filed, KeysDistinct
<1>2. QED BY <1>1, ReplacementStep DEF PeopleInv, PeopleTyped, LocksHold, AboutVoters, Apart

-----------------------------------------------------------------------------
LEMMA Beginning ==
  ASSUME PeopleInit
  PROVE  PeopleInv
<1>1. Used = {} /\ Voters = {} /\ Live = {} /\ \A d \in Desk : task[d].pc = "idle"
  BY DEF PeopleInit, Used, Live, Voters, AtRest
<1>2. PeopleTyped
  BY AtRestIsTask DEF PeopleInit, PeopleTyped
<1>3. LocksHold /\ AboutVoters
  BY <1>1 DEF PeopleInit, LocksHold, Holding, Reviewing, AboutVoters
<1>4. Apart
  BY <1>1 DEF Apart, Approved, KeysDistinct
<1>5. QED BY <1>2, <1>3, <1>4 DEF PeopleInv

LEMMA PeopleStep ==
  ASSUME PeopleInv, [PeopleNext]_peopleVars
  PROVE  PeopleInv' /\ Decided
<1>1. ASSUME NEW d \in Desk,
             \/ \E n \in NationalId, s \in Spelling, k \in Key : SubmitRegistration(d, n, s, k)
             \/ \E ids \in SUBSET Used, enrol \in BOOLEAN : ApproveRegistrations(d, ids, enrol)
             \/ LockForApproval(d)
             \/ \E r \in Used, k \in Key : ShowStatus(d, r, k)
             \/ RequestKeyReplacement(d) \/ CorrectKey(d) \/ CheckReplacement(d)
             \/ \E q \in Replacement : LockForReview(d, q)
      PROVE  PeopleInv' /\ Decided
  BY <1>1, ReadingSteps
<1>2. ASSUME NEW d \in Desk,
             \/ CreateRegistration(d) \/ ApproveRegistration(d) \/ UpdateRegistrationKey(d)
             \/ CreateReplacement(d) \/ ApproveReplacement(d)
      PROVE  PeopleInv' /\ Decided
  BY <1>2, CreateRegistrationHolds, ApproveRegistrationHolds, UpdateRegistrationKeyHolds,
     CreateReplacementHolds, ApproveReplacementHolds
<1>3. ASSUME \/ \E r \in Registration : RejectRegistration(r)
             \/ \E q \in Replacement : RejectReplacement(q)
      PROVE  PeopleInv' /\ Decided
  BY <1>3, RejectRegistrationHolds, RejectReplacementHolds
<1>4. ASSUME \/ \E voters \in SUBSET Voters, eligible \in BOOLEAN : SetEligibility(voters, eligible)
             \/ CloseRegistration
             \/ UNCHANGED peopleVars
      PROVE  PeopleInv' /\ Decided
  BY <1>4, StillStep DEF SetEligibility, Single, CloseRegistration, peopleVars, people
<1>5. QED BY <1>1, <1>2, <1>3, <1>4 DEF PeopleNext

\* What a request has locked is pending and held by it alone, replacements are
\* about voters, and a voter has the identity of an approved registration that no
\* live registration shares.
THEOREM PeopleInvariant == PeopleSpec => []PeopleInv
<1>1. PeopleInit => PeopleInv
  BY Beginning
<1>2. PeopleInv /\ [PeopleNext]_peopleVars => PeopleInv'
  BY PeopleStep
<1>3. QED BY <1>1, <1>2, PTL DEF PeopleSpec

\* A decided registration or replacement keeps its decision and its claim, and a
\* voter keeps the identity that was vetted, whatever requests run at once.
THEOREM DecisionsStandAlways == PeopleSpec => DecisionsStand
<1>1. PeopleInv /\ [PeopleNext]_peopleVars => [Decided]_people
  BY PeopleStep
<1>2. QED BY <1>1, PeopleInvariant, PTL DEF PeopleSpec, DecisionsStand, Decided

\* National ids and mail addresses of live registrations and of voters stay
\* apart, a registration is approved exactly when it has become a voter, and no
\* two voters share a key.
THEOREM IdentityExclusiveAlways == PeopleSpec => []IdentityExclusive
<1>1. PeopleInv => IdentityExclusive
  <2> SUFFICES ASSUME PeopleInv PROVE IdentityExclusive
    OBVIOUS
  <2>1. \A v \in Voters : v \in Live
    BY DEF PeopleInv, Apart, Approved, Live
  <2>2. \A r \in Registration : r \in Voters <=> r \in Used /\ registration[r].status = "APPROVED"
    BY DEF PeopleInv, Apart, Approved
  <2>3. \A r \in Live, v \in Voters : r # v => /\ registration[r].nid # voter[v].nid
                                              /\ registration[r].email # voter[v].email
    BY <2>1 DEF PeopleInv, Apart
  <2>4. QED BY <2>2, <2>3 DEF PeopleInv, Apart, IdentityExclusive
<1>2. QED BY <1>1, PeopleInvariant, PTL

\* The queue's flags and the warnings of the record name the same fields, and a
\* pending record without flags would not be refused.
THEOREM FlagsAgreeAlways == PeopleSpec => []FlagsAgree
<1>1. PeopleInv => FlagsAgree
  <2> SUFFICES ASSUME NEW r \in Live
               PROVE  /\ DuplicateFields(r) = {w[1] : w \in Warnings(r)}
                      /\ AssertPending(r) /\ DuplicateFields(r) = {} =>
                           VoterUnique(r, registration[r])
    BY DEF FlagsAgree
  <2>1. ASSUME NEW f \in DuplicateFields(r) PROVE \E w \in Warnings(r) : w[1] = f
    <3>1. CASE \E s \in Live \ {r} : registration[s][f] = registration[r][f]
      <4>1. PICK s \in Live \ {r} : registration[s][f] = registration[r][f]
        BY <3>1
      <4>2. f \in Field /\ s \in FindLiveConflicts(r)
        BY <4>1 DEF DuplicateFields, FindLiveConflicts
      <4>3. <<f, s>> \in Warnings(r)
        BY <4>1, <4>2 DEF Warnings
      <4>4. QED BY <4>3
    <3>2. CASE \E v \in Voters \ {r} : voter[v][f] = registration[r][f]
      <4>1. PICK v \in Voters \ {r} : voter[v][f] = registration[r][f]
        BY <3>2
      <4>2. f \in Field /\ v \in FindVoterConflicts(registration[r]) \ {r}
        BY <4>1 DEF DuplicateFields, FindVoterConflicts
      <4>3. <<f, v>> \in Warnings(r)
        BY <4>1, <4>2 DEF Warnings
      <4>4. QED BY <4>3
    <3>3. QED BY <3>1, <3>2 DEF DuplicateFields
  <2>2. ASSUME NEW w \in Warnings(r) PROVE w[1] \in DuplicateFields(r)
    BY DEF Warnings, DuplicateFields, FindLiveConflicts, FindVoterConflicts
  <2>3. DuplicateFields(r) = {w[1] : w \in Warnings(r)}
    BY <2>1, <2>2
  <2>4. DuplicateFields(r) = {} => VoterUnique(r, registration[r])
    BY DEF DuplicateFields, VoterUnique
  <2>5. QED BY <2>3, <2>4
<1>2. QED BY <1>1, PeopleInvariant, PTL

-----------------------------------------------------------------------------
(***************************************************************************)
(* The roll.                                                               *)
(***************************************************************************)
RollTyped == open \in BOOLEAN /\ roll \subseteq Voters

\* A voter stays one.
LEMMA VotersStay ==
  ASSUME PeopleInv, PeopleInv', Decided
  PROVE  Voters \subseteq Voters'
<1> SUFFICES ASSUME NEW v \in Voters PROVE v \in Voters'
  OBVIOUS
<1>1. v \in Registration /\ v \in Used /\ registration[v] # Free /\ registration[v].status = "APPROVED"
  BY DEF PeopleInv, Apart, Approved, Voters, Used
<1>2. registration'[v] = registration[v]
  BY <1>1 DEF Decided
<1>3. Approved(v)'
  BY <1>1, <1>2 DEF Approved, Used
<1>4. QED BY <1>1, <1>3 DEF PeopleInv, Apart

\* A voter that is enrolled was made one, and the roll closes once.
LEMMA EnrolmentHolds ==
  ASSUME PeopleInv, RollTyped, [PeopleNext]_peopleVars
  PROVE  RollTyped'
<1>1. PeopleInv' /\ Decided
  BY PeopleStep
<1>2. Voters \subseteq Voters'
  BY <1>1, VotersStay
<1>3. ASSUME NEW d \in Desk, ApproveRegistration(d) PROVE RollTyped'
  <2>1. roll' = roll \/ (roll' = roll \cup {task[d].id} /\ voter' = [voter EXCEPT ![task[d].id] = VoterOf(task[d].id)])
    BY <1>3 DEF ApproveRegistration
  <2>2. open' = open
    BY <1>3 DEF ApproveRegistration
  <2>3. task[d].id \in Registration /\ task[d].id \in Waiting
    BY <1>3 DEF ApproveRegistration, PeopleInv, LocksHold, Holding, Waiting
  <2>4. VoterOf(task[d].id) \in Claim
    BY <2>3, RowsHaveShape DEF PeopleInv, Waiting, AssertPending, VoterOf, VoterRow, Claim
  <2>5. voter' = [voter EXCEPT ![task[d].id] = VoterOf(task[d].id)] => task[d].id \in Voters'
    BY <2>3, <2>4, RowsAreUsed DEF PeopleInv, PeopleTyped, Voters
  <2>6. roll' \subseteq Voters'
    BY <1>2, <2>1, <2>5 DEF RollTyped
  <2>7. QED BY <2>2, <2>6, Zenon DEF RollTyped
<1>4. ASSUME NEW voters \in SUBSET Voters, NEW eligible \in BOOLEAN, SetEligibility(voters, eligible)
      PROVE  RollTyped'
  <2>1. roll' \subseteq roll \cup voters /\ open' = open
    BY <1>4 DEF SetEligibility
  <2>2. roll' \subseteq Voters'
    BY <1>2, <2>1 DEF RollTyped
  <2>3. QED BY <2>1, <2>2, Zenon DEF RollTyped
<1>5. ASSUME CloseRegistration PROVE RollTyped'
  <2>1. open' = FALSE /\ roll' = roll
    BY <1>5 DEF CloseRegistration
  <2>2. roll' \subseteq Voters'
    BY <1>2, <2>1 DEF RollTyped
  <2>3. QED BY <2>1, <2>2, Zenon DEF RollTyped
<1>6. ASSUME UNCHANGED <<open, roll>> PROVE RollTyped'
  <2>1. open' = open /\ roll' = roll
    BY <1>6
  <2>2. roll' \subseteq Voters'
    BY <1>2, <2>1 DEF RollTyped
  <2>3. QED BY <2>1, <2>2, Zenon DEF RollTyped
<1>7. ASSUME NEW d \in Desk,
             \/ \E n \in NationalId, s \in Spelling, k \in Key : SubmitRegistration(d, n, s, k)
             \/ \E ids \in SUBSET Used, enrol \in BOOLEAN : ApproveRegistrations(d, ids, enrol)
             \/ CreateRegistration(d) \/ LockForApproval(d)
             \/ \E r \in Used, k \in Key : ShowStatus(d, r, k)
             \/ RequestKeyReplacement(d) \/ CorrectKey(d) \/ UpdateRegistrationKey(d)
             \/ CheckReplacement(d) \/ CreateReplacement(d)
             \/ \E q \in Replacement : LockForReview(d, q)
             \/ ApproveReplacement(d)
      PROVE  UNCHANGED <<open, roll>>
  BY <1>7 DEF SubmitRegistration, ApproveRegistrations, CreateRegistration, LockForApproval, ShowStatus,
              RequestKeyReplacement, CorrectKey, UpdateRegistrationKey, CheckReplacement, CreateReplacement,
              LockForReview, ApproveReplacement, people
<1>8. ASSUME \/ \E r \in Registration : RejectRegistration(r)
             \/ \E q \in Replacement : RejectReplacement(q)
             \/ UNCHANGED peopleVars
      PROVE  UNCHANGED <<open, roll>>
  BY <1>8 DEF RejectRegistration, RejectReplacement, people, peopleVars
<1>9. QED BY <1>3, <1>4, <1>5, <1>6, <1>7, <1>8 DEF PeopleNext

\* Only voters are on the roll.
LEMMA RollAlways == PeopleSpec => []RollTyped
<1>1. PeopleInit => RollTyped
  <2>1. PeopleInit => open = TRUE /\ roll \subseteq Voters
    BY DEF PeopleInit
  <2>2. QED BY <2>1, Zenon DEF RollTyped
<1>2. PeopleInv /\ RollTyped /\ [PeopleNext]_peopleVars => RollTyped'
  BY EnrolmentHolds
<1>3. QED BY <1>1, <1>2, PeopleInvariant, PTL DEF PeopleSpec

\* Rows, voters and replacements have their shape, and only voters are on the roll.
LEMMA PeopleTypeCorrect == PeopleSpec => []PeopleTypeOK
<1>1. PeopleInv /\ RollTyped => PeopleTypeOK
  <2> SUFFICES ASSUME PeopleInv, RollTyped PROVE PeopleTypeOK
    OBVIOUS
  <2>1. ASSUME NEW r \in Used
        PROVE  /\ registration[r].status \in Decision
               /\ [nid |-> registration[r].nid, email |-> registration[r].email,
                   key |-> registration[r].key] \in Claim
    BY RowsHaveShape DEF PeopleInv, VoterRow, Claim
  <2>2. \A v \in Voters : voter[v] \in Claim
    BY RowsHaveShape DEF PeopleInv
  <2>3. ASSUME NEW q \in Replacement, replacement[q] # Free
        PROVE  replacement[q] \in [status : Decision, voter : Voters, new : Key, previous : Key]
    <3>1. replacement[q] \in Swap /\ replacement[q].voter \in Voters
      BY <2>3, RowsHaveShape DEF PeopleInv, AboutVoters
    <3>2. QED BY <3>1 DEF Swap
  <2>4. QED BY <2>1, <2>2, <2>3, Zenon DEF PeopleTypeOK, RollTyped, Decision
<1>2. QED BY <1>1, RollAlways, PeopleInvariant, PTL

-----------------------------------------------------------------------------
(***************************************************************************)
(* The offers of the status page.                                          *)
(***************************************************************************)
Asking(d) == task[d].pc \in {"page", "correct", "correcting", "check", "file"}

\* Nothing was pending when the page made its offer; and if registration had closed by
\* then, the voter is on no roll.
OfferInv ==
  \A d \in Desk : Asking(d) =>
    /\ task[d].id \in Used
    /\ task[d].shown.offered => task[d].shown.pending = {}
    /\ task[d].shown.offered /\ task[d].shown.closed => ~open /\ task[d].id \notin roll

\* A request keeps its voter, its key and its page until it ends.
KeepsAsking(d) ==
  /\ Asking(d)
  /\ task'[d].id = task[d].id /\ task'[d].shown = task[d].shown

\* A row that was filled stays so.
LEMMA UsedStays ==
  ASSUME PeopleInv, [PeopleNext]_peopleVars
  PROVE  Used \subseteq Used'
<1>1. PeopleInv' /\ Decided
  BY PeopleStep
<1> USE DEF PeopleInv
<1>2. CASE UNCHANGED registration
  BY <1>2 DEF Used
<1>3. ASSUME NEW r \in Registration, NEW row \in VoterRow, registration' = [registration EXCEPT ![r] = row]
      PROVE  Used \subseteq Used'
  BY <1>3, RowsAreUsed DEF PeopleTyped, Used
<1>4. ASSUME NEW d \in Desk, CreateRegistration(d) PROVE Used \subseteq Used'
  <2>1. task[d].claim \in Claim
    BY <1>4, TaskOfPc DEF CreateRegistration, PeopleTyped
  <2> DEFINE r == CHOOSE s \in Registration : s \notin Used
             row == [status |-> "PENDING", nid |-> task[d].claim.nid,
                     email |-> task[d].claim.email, key |-> task[d].claim.key]
  <2>2. row \in VoterRow
    BY <2>1 DEF Claim, VoterRow, Decision
  <2>3. r \in Registration
    BY <1>4 DEF CreateRegistration, Used
  <2>4. registration' = [registration EXCEPT ![r] = row] \/ UNCHANGED registration
    BY <1>4 DEF CreateRegistration
  <2>5. QED BY <1>2, <1>3, <2>2, <2>3, <2>4
<1>5. ASSUME NEW d \in Desk, ApproveRegistration(d) \/ UpdateRegistrationKey(d) PROVE Used \subseteq Used'
  <2> DEFINE r == task[d].id
  <2>1. r \in Waiting
    BY <1>5 DEF ApproveRegistration, UpdateRegistrationKey, LocksHold, Holding
  <2>2. r \in Registration /\ registration[r] \in VoterRow
    BY <2>1, RowsHaveShape DEF Waiting, AssertPending
  <2>3. CASE ApproveRegistration(d)
    <3>1. [registration[r] EXCEPT !.status = "APPROVED"] \in VoterRow
      BY <2>2 DEF VoterRow, Decision
    <3>2. \/ registration' = [registration EXCEPT ![r] = [registration[r] EXCEPT !.status = "APPROVED"]]
          \/ UNCHANGED registration
      BY <2>3 DEF ApproveRegistration
    <3>3. QED BY <1>2, <1>3, <2>2, <3>1, <3>2
  <2>4. CASE UpdateRegistrationKey(d)
    <3>1. task[d].key \in Key
      BY <2>4, TaskOfPc DEF UpdateRegistrationKey, PeopleTyped
    <3>2. [registration[r] EXCEPT !.key = task[d].key] \in VoterRow
      BY <2>2, <3>1 DEF VoterRow
    <3>3. \/ registration' = [registration EXCEPT ![r] = [registration[r] EXCEPT !.key = task[d].key]]
          \/ UNCHANGED registration
      BY <2>4 DEF UpdateRegistrationKey
    <3>4. QED BY <1>2, <1>3, <2>2, <3>2, <3>3
  <2>5. QED BY <1>5, <2>3, <2>4
<1>6. ASSUME NEW r \in Registration, RejectRegistration(r) PROVE Used \subseteq Used'
  <2>1. registration[r] \in VoterRow
    BY <1>6, RowsHaveShape DEF RejectRegistration, AssertPending
  <2>2. [registration[r] EXCEPT !.status = "REJECTED"] \in VoterRow
    BY <2>1 DEF VoterRow, Decision
  <2>3. registration' = [registration EXCEPT ![r] = [registration[r] EXCEPT !.status = "REJECTED"]]
    BY <1>6 DEF RejectRegistration
  <2>4. QED BY <1>3, <2>2, <2>3
<1>7. ASSUME NEW d \in Desk,
             \/ \E n \in NationalId, s \in Spelling, k \in Key : SubmitRegistration(d, n, s, k)
             \/ \E ids \in SUBSET Used, enrol \in BOOLEAN : ApproveRegistrations(d, ids, enrol)
             \/ LockForApproval(d)
             \/ \E r \in Used, k \in Key : ShowStatus(d, r, k)
             \/ RequestKeyReplacement(d) \/ CorrectKey(d)
             \/ CheckReplacement(d) \/ CreateReplacement(d)
             \/ \E q \in Replacement : LockForReview(d, q)
             \/ ApproveReplacement(d)
      PROVE  UNCHANGED registration
  BY <1>7 DEF SubmitRegistration, ApproveRegistrations, LockForApproval, ShowStatus, RequestKeyReplacement,
              CorrectKey, CheckReplacement, CreateReplacement, LockForReview, ApproveReplacement, people
<1>8. ASSUME \/ \E q \in Replacement : RejectReplacement(q)
             \/ \E voters \in SUBSET Voters, eligible \in BOOLEAN : SetEligibility(voters, eligible)
             \/ CloseRegistration
             \/ UNCHANGED peopleVars
      PROVE  UNCHANGED registration
  BY <1>8 DEF RejectReplacement, SetEligibility, CloseRegistration, people, peopleVars
<1>9. QED BY <1>2, <1>4, <1>5, <1>6, <1>7, <1>8 DEF PeopleNext

\* Once registration has closed nobody joins the roll.
LEMMA RollStays ==
  ASSUME PeopleInv, [PeopleNext]_peopleVars, ~open
  PROVE  ~open' /\ roll' \subseteq roll
<1>1. ASSUME NEW d \in Desk, ApproveRegistration(d) PROVE open' = open /\ roll' = roll
  <2>1. task[d].enrol \in BOOLEAN
    BY <1>1, TaskOfPc DEF ApproveRegistration, PeopleInv, PeopleTyped
  <2>2. QED BY <1>1, <2>1, Zenon DEF ApproveRegistration
<1>2. ASSUME NEW voters \in SUBSET Voters, NEW eligible \in BOOLEAN, SetEligibility(voters, eligible)
      PROVE  FALSE
  BY <1>2 DEF SetEligibility
<1>3. ASSUME CloseRegistration PROVE FALSE
  BY <1>3 DEF CloseRegistration
<1>4. ASSUME UNCHANGED <<open, roll>> PROVE open' = open /\ roll' = roll
  BY <1>4
<1>5. ASSUME NEW d \in Desk,
             \/ \E n \in NationalId, s \in Spelling, k \in Key : SubmitRegistration(d, n, s, k)
             \/ \E ids \in SUBSET Used, enrol \in BOOLEAN : ApproveRegistrations(d, ids, enrol)
             \/ CreateRegistration(d) \/ LockForApproval(d)
             \/ \E r \in Used, k \in Key : ShowStatus(d, r, k)
             \/ RequestKeyReplacement(d) \/ CorrectKey(d) \/ UpdateRegistrationKey(d)
             \/ CheckReplacement(d) \/ CreateReplacement(d)
             \/ \E q \in Replacement : LockForReview(d, q)
             \/ ApproveReplacement(d)
      PROVE  UNCHANGED <<open, roll>>
  BY <1>5 DEF SubmitRegistration, ApproveRegistrations, CreateRegistration, LockForApproval, ShowStatus,
              RequestKeyReplacement, CorrectKey, UpdateRegistrationKey, CheckReplacement, CreateReplacement,
              LockForReview, ApproveReplacement, people
<1>6. ASSUME \/ \E r \in Registration : RejectRegistration(r)
             \/ \E q \in Replacement : RejectReplacement(q)
             \/ UNCHANGED peopleVars
      PROVE  UNCHANGED <<open, roll>>
  BY <1>6 DEF RejectRegistration, RejectReplacement, people, peopleVars
<1>7. open' = open /\ roll' = roll
  BY <1>1, <1>2, <1>3, <1>4, <1>5, <1>6 DEF PeopleNext
<1>8. QED BY <1>7, Zenon

\* A request that is asking was asking before, or its page has just been loaded.
LEMMA AskingSteps ==
  ASSUME PeopleInv, [PeopleNext]_peopleVars, NEW e \in Desk, Asking(e)'
  PROVE  KeepsAsking(e) \/ \E r \in Used, k \in Key : ShowStatus(e, r, k)
<1> USE DEF PeopleInv, PeopleTyped
<1>1. ASSUME task'[e] = task[e] PROVE KeepsAsking(e)
  BY <1>1 DEF KeepsAsking, Asking
<1>2. ASSUME NEW d \in Desk, NEW t, task' = [task EXCEPT ![d] = t]
      PROVE  (e = d => task'[e] = t) /\ (e # d => task'[e] = task[e])
  BY <1>2
<1>3. ASSUME NEW d \in Desk, NEW t, task' = [task EXCEPT ![d] = t],
             t.pc \in {"idle", "insert", "next", "approving", "reviewing"}
      PROVE  KeepsAsking(e)
  <2>1. task'[e].pc \in {"page", "correct", "correcting", "check", "file"}
    BY DEF Asking
  <2>2. e # d
    BY <1>2, <1>3, <2>1
  <2>3. QED BY <1>1, <1>2, <1>3, <2>2
<1>4. ASSUME NEW d \in Desk, NEW t, task' = [task EXCEPT ![d] = t], Asking(d),
             t.id = task[d].id, t.shown = task[d].shown
      PROVE  KeepsAsking(e)
  <2>1. CASE e = d
    <3>1. task'[e] = t
      BY <1>2, <1>4, <2>1
    <3>2. QED BY <1>4, <2>1, <3>1 DEF KeepsAsking
  <2>2. CASE e # d
    BY <1>1, <1>2, <1>4, <2>2
  <2>3. QED BY <2>1, <2>2
<1>5. ASSUME NEW d \in Desk, NEW n \in NationalId, NEW s \in Spelling, NEW k \in Key, SubmitRegistration(d, n, s, k)
      PROVE  KeepsAsking(e)
  BY <1>3, <1>5 DEF SubmitRegistration, Begin
<1>6. ASSUME NEW d \in Desk, NEW ids \in SUBSET Used, NEW enrol \in BOOLEAN, ApproveRegistrations(d, ids, enrol)
      PROVE  KeepsAsking(e)
  BY <1>3, <1>6 DEF ApproveRegistrations, Begin
<1>7. ASSUME NEW d \in Desk, LockForApproval(d) PROVE KeepsAsking(e)
  <2>1. task[d] \in [pc : {"next"}, todo : SUBSET Registration, enrol : BOOLEAN]
    BY <1>7, TaskOfPc DEF LockForApproval
  <2>2. PICK r \in task[d].todo :
          \/ task' = [task EXCEPT ![d] = [pc |-> "approving", id |-> r, todo |-> task[d].todo, enrol |-> task[d].enrol]]
          \/ task' = [task EXCEPT ![d] = NextOf(task[d], r)]
    BY <1>7 DEF LockForApproval, Become
  <2>3. NextOf(task[d], r).pc \in {"idle", "next"}
    BY <2>1, NextIsTask
  <2>4. QED BY <1>3, <2>2, <2>3
<1>8. ASSUME NEW d \in Desk, ApproveRegistration(d) PROVE KeepsAsking(e)
  <2>1. task[d] \in [pc : {"approving"}, id : Registration, todo : SUBSET Registration, enrol : BOOLEAN]
    BY <1>8, TaskOfPc DEF ApproveRegistration
  <2>2. NextOf(task[d], task[d].id).pc \in {"idle", "next"}
    BY <2>1, NextIsTask
  <2>3. task' = [task EXCEPT ![d] = NextOf(task[d], task[d].id)]
    BY <1>8 DEF ApproveRegistration, Become
  <2>4. QED BY <1>3, <2>2, <2>3
<1>9. ASSUME NEW d \in Desk,
             \/ CreateRegistration(d) \/ UpdateRegistrationKey(d)
             \/ CreateReplacement(d) \/ ApproveReplacement(d)
      PROVE  KeepsAsking(e)
  <2>1. task' = [task EXCEPT ![d] = AtRest]
    BY <1>9 DEF CreateRegistration, UpdateRegistrationKey, CreateReplacement, ApproveReplacement, Become
  <2>2. QED BY <1>3, <2>1 DEF AtRest
<1>10. ASSUME NEW d \in Desk, NEW r \in Used, NEW k \in Key, ShowStatus(d, r, k)
       PROVE  KeepsAsking(e) \/ ShowStatus(e, r, k)
  BY <1>1, <1>2, <1>10 DEF ShowStatus, Begin
<1>11. ASSUME NEW d \in Desk, RequestKeyReplacement(d) \/ CorrectKey(d) \/ CheckReplacement(d)
       PROVE  KeepsAsking(e)
  <2> DEFINE t == task[d]
             filed == [pc |-> "check", id |-> t.id, key |-> t.key, shown |-> t.shown,
                       previous |-> voter[t.id].key]
  <2>1. /\ Asking(d)
        /\ \/ t \in [pc : {"page", "correct", "correcting"}, id : Registration, key : Key, shown : Page]
           \/ t \in [pc : {"check", "file"}, id : Registration, key : Key, shown : Page, previous : Key]
    BY <1>11, TaskOfPc DEF RequestKeyReplacement, CorrectKey, CheckReplacement, Asking
  <2>2. \/ task' = [task EXCEPT ![d] = filed] \/ task' = [task EXCEPT ![d] = AtRest]
        \/ \E pc \in {"correct", "correcting", "file"} : task' = [task EXCEPT ![d] = [t EXCEPT !.pc = pc]]
    BY <1>11 DEF RequestKeyReplacement, CorrectKey, CheckReplacement, Become
  <2>3. CASE task' = [task EXCEPT ![d] = filed]
    <3>1. filed.id = t.id /\ filed.shown = t.shown
      OBVIOUS
    <3> HIDE DEF filed
    <3>2. QED BY <1>4, <2>1, <2>3, <3>1
  <2>4. CASE task' = [task EXCEPT ![d] = AtRest]
    BY <1>3, <2>4 DEF AtRest
  <2>5. ASSUME NEW pc \in {"correct", "correcting", "file"}, task' = [task EXCEPT ![d] = [t EXCEPT !.pc = pc]]
        PROVE  KeepsAsking(e)
    <3>1. [t EXCEPT !.pc = pc].id = t.id /\ [t EXCEPT !.pc = pc].shown = t.shown
      BY <2>1
    <3>2. QED BY <1>4, <2>1, <2>5, <3>1
  <2>6. QED BY <2>2, <2>3, <2>4, <2>5
<1>12. ASSUME NEW d \in Desk, NEW q \in Replacement, LockForReview(d, q) PROVE KeepsAsking(e)
  BY <1>3, <1>12 DEF LockForReview, Begin
<1>13. ASSUME \/ \E r \in Registration : RejectRegistration(r)
              \/ \E q \in Replacement : RejectReplacement(q)
              \/ \E voters \in SUBSET Voters, eligible \in BOOLEAN : SetEligibility(voters, eligible)
              \/ CloseRegistration
              \/ UNCHANGED peopleVars
       PROVE  KeepsAsking(e)
  <2>1. UNCHANGED task
    BY <1>13 DEF RejectRegistration, RejectReplacement, SetEligibility, Single, CloseRegistration, peopleVars
  <2>2. QED BY <1>1, <2>1
<1>14. QED BY <1>5, <1>6, <1>7, <1>8, <1>9, <1>10, <1>11, <1>12, <1>13 DEF PeopleNext

LEMMA OfferStep ==
  ASSUME PeopleInv, RollTyped, OfferInv, [PeopleNext]_peopleVars
  PROVE  OfferInv'
<1> SUFFICES ASSUME NEW d \in Desk, Asking(d)'
             PROVE  /\ task'[d].id \in Used'
                    /\ task'[d].shown.offered => task'[d].shown.pending = {}
                    /\ task'[d].shown.offered /\ task'[d].shown.closed => ~open' /\ task'[d].id \notin roll'
  BY DEF OfferInv
<1>1. Used \subseteq Used'
  BY UsedStays
<1>2. CASE KeepsAsking(d)
  <2>1. /\ task'[d].id = task[d].id /\ task'[d].shown = task[d].shown /\ Asking(d)
    BY <1>2 DEF KeepsAsking
  <2>2. task[d].id \in Used
    BY <2>1 DEF OfferInv
  <2>3. ASSUME task[d].shown.offered PROVE task[d].shown.pending = {}
    BY <2>1, <2>3, Zenon DEF OfferInv
  <2>4. ASSUME task[d].shown.offered, task[d].shown.closed PROVE ~open' /\ task[d].id \notin roll'
    <3>1. ~open /\ task[d].id \notin roll
      BY <2>1, <2>4, Zenon DEF OfferInv
    <3>2. QED BY <3>1, RollStays
  <2>5. QED BY <1>1, <2>1, <2>2, <2>3, <2>4
<1>3. ASSUME NEW r \in Used, NEW k \in Key, ShowStatus(d, r, k)
      PROVE  /\ task'[d].id = r /\ task'[d].shown = Offer(r) /\ UNCHANGED <<open, roll>>
             /\ Offer(r).offered => Offer(r).pending = {} /\ (Offer(r).closed => ~open /\ r \notin roll)
  <2>1. /\ task' = [task EXCEPT ![d] = [pc |-> "page", id |-> r, key |-> k, shown |-> Offer(r)]]
        /\ UNCHANGED <<open, roll>>
    BY <1>3 DEF ShowStatus, Begin, people
  <2>2. task'[d].id = r /\ task'[d].shown = Offer(r)
    BY <2>1 DEF PeopleInv, PeopleTyped
  <2>3. /\ Offer(r).offered => KeyReplacementAvailable(r)
        /\ Offer(r).pending = PendingFor(r)
        /\ Offer(r).closed => ~open
    BY Zenon DEF Offer
  <2>4. CASE registration[r].status = "APPROVED"
    <3>1. KeyReplacementAvailable(r) => PendingFor(r) = {} /\ (r \in roll => open)
      BY <2>4 DEF KeyReplacementAvailable, AssessRotation
    <3>2. QED BY <2>1, <2>2, <2>3, <3>1, Zenon
  <2>5. CASE registration[r].status # "APPROVED"
    <3>1. r \notin Voters
      BY <2>5 DEF PeopleInv, Apart, Approved
    <3>2. PendingFor(r) = {} /\ r \notin roll
      BY <3>1 DEF PeopleInv, AboutVoters, PendingFor, RollTyped
    <3>3. QED BY <2>1, <2>2, <2>3, <3>2, Zenon
  <2>6. QED BY <2>4, <2>5
<1>4. CASE \E r \in Used, k \in Key : ShowStatus(d, r, k)
  <2>1. PICK r \in Used, k \in Key : ShowStatus(d, r, k)
    BY <1>4
  <2>2. /\ task'[d].id = r /\ task'[d].shown = Offer(r) /\ open' = open /\ roll' = roll
        /\ Offer(r).offered => Offer(r).pending = {} /\ (Offer(r).closed => ~open /\ r \notin roll)
    BY <1>3, <2>1
  <2>3. r \in Used'
    BY <1>1
  <2>4. QED BY <2>2, <2>3, Zenon
<1>5. QED BY <1>2, <1>4, AskingSteps

\* A request that was asking is ended by one of its own steps.
LEMMA EndsOfAsking ==
  ASSUME PeopleInv, [PeopleNext]_peopleVars, NEW d \in Desk, Asking(d), task'[d] # task[d]
  PROVE  \/ RequestKeyReplacement(d) \/ CorrectKey(d) \/ UpdateRegistrationKey(d)
         \/ CheckReplacement(d) \/ CreateReplacement(d)
<1>1. ASSUME NEW e \in Desk, e # d, NEW x, task' = [task EXCEPT ![e] = x] PROVE FALSE
  BY <1>1 DEF PeopleInv, PeopleTyped
<1>2. ASSUME NEW e \in Desk, e # d,
             \/ CreateRegistration(e) \/ LockForApproval(e) \/ ApproveRegistration(e)
             \/ RequestKeyReplacement(e) \/ CorrectKey(e) \/ UpdateRegistrationKey(e)
             \/ CheckReplacement(e) \/ CreateReplacement(e) \/ ApproveReplacement(e)
      PROVE  FALSE
  <2>1. \E x : task' = [task EXCEPT ![e] = x]
    BY <1>2 DEF CreateRegistration, LockForApproval, ApproveRegistration, RequestKeyReplacement, CorrectKey,
                UpdateRegistrationKey, CheckReplacement, CreateReplacement, ApproveReplacement, Become
  <2>2. QED BY <1>1, <1>2, <2>1
<1>3. ASSUME NEW e \in Desk, NEW x, Begin(e, x) PROVE FALSE
  <2>1. task[e] = AtRest /\ task' = [task EXCEPT ![e] = x]
    BY <1>3 DEF Begin
  <2>2. e # d
    BY <2>1 DEF Asking, AtRest
  <2>3. QED BY <1>1, <2>1, <2>2
<1>4. ASSUME NEW e \in Desk,
             \/ \E n \in NationalId, s \in Spelling, k \in Key : SubmitRegistration(e, n, s, k)
             \/ \E ids \in SUBSET Used, enrol \in BOOLEAN : ApproveRegistrations(e, ids, enrol)
             \/ \E r \in Used, k \in Key : ShowStatus(e, r, k)
             \/ \E q \in Replacement : LockForReview(e, q)
      PROVE  FALSE
  BY <1>3, <1>4 DEF SubmitRegistration, ApproveRegistrations, ShowStatus, LockForReview
<1>5. ASSUME CreateRegistration(d) \/ LockForApproval(d) \/ ApproveRegistration(d) \/ ApproveReplacement(d)
      PROVE  FALSE
  BY <1>5 DEF CreateRegistration, LockForApproval, ApproveRegistration, ApproveReplacement, Asking
<1>6. ASSUME \/ \E r \in Registration : RejectRegistration(r)
             \/ \E q \in Replacement : RejectReplacement(q)
             \/ \E voters \in SUBSET Voters, eligible \in BOOLEAN : SetEligibility(voters, eligible)
             \/ CloseRegistration
             \/ UNCHANGED peopleVars
      PROVE  FALSE
  BY <1>6 DEF RejectRegistration, RejectReplacement, SetEligibility, Single, CloseRegistration, peopleVars
<1>7. QED BY <1>2, <1>4, <1>5, <1>6 DEF PeopleNext

\* Who is refused although the page offered a replacement.
LEMMA RefusalsExplained ==
  ASSUME PeopleInv, OfferInv, [PeopleNext]_peopleVars, NEW d \in Desk,
         Refused(d), task[d].shown.offered
  PROVE  LET t == task[d]
         IN  \/ registration[t.id].status = "REJECTED"
             \/ t.pc = "correct" /\ registration[t.id].status # "PENDING"
             \/ ~t.shown.closed /\ ~open /\ t.id \in roll
             \/ PendingFor(t.id) \ t.shown.pending # {}
             \/ Held(t.key)
<1> DEFINE t == task[d]
           r == t.id
<1> USE DEF PeopleInv
<1>1. /\ Asking(d) /\ task'[d] = AtRest /\ UNCHANGED <<registration, replacement>>
      /\ t.pc # "idle" /\ t # AtRest
  BY DEF Refused, Asking, AtRest
<1>2. r \in Used /\ registration[r] \in VoterRow /\ t.shown.pending = {}
  <2>1. r \in Used /\ t.shown.pending = {}
    BY <1>1, Zenon DEF OfferInv
  <2>2. QED BY <2>1, RowsHaveShape
<1>3. t.shown.closed => ~open /\ r \notin roll
  BY <1>1, Zenon DEF OfferInv
<1>4. registration[r].status \in Decision /\ (registration[r].status # "REJECTED" => r \in Live)
  BY <1>2 DEF VoterRow, Live
<1>5. CASE RequestKeyReplacement(d)
  <2>1. task' = [task EXCEPT ![d] =
          CASE registration[r].status = "PENDING" /\ registration[r].key # t.key -> [t EXCEPT !.pc = "correct"]
            [] registration[r].status = "APPROVED" /\ voter[r].key # t.key ->
                 [pc |-> "check", id |-> r, key |-> t.key, shown |-> t.shown, previous |-> voter[r].key]
            [] OTHER -> AtRest]
    BY <1>5 DEF RequestKeyReplacement, Become
  <2>2. t \in [pc : {"page", "correct", "correcting"}, id : Registration, key : Key, shown : Page]
    BY <1>5, TaskOfPc DEF RequestKeyReplacement, PeopleTyped
  <2>3. [t EXCEPT !.pc = "correct"].pc # AtRest.pc
    BY <2>2 DEF AtRest
  <2>4. [pc |-> "check", id |-> r, key |-> t.key, shown |-> t.shown, previous |-> voter[r].key].pc # AtRest.pc
    BY DEF AtRest
  <2>5. /\ ~(registration[r].status = "PENDING" /\ registration[r].key # t.key)
        /\ ~(registration[r].status = "APPROVED" /\ voter[r].key # t.key)
    BY <1>1, <2>1, <2>3, <2>4 DEF PeopleTyped
  <2>6. registration[r].status = "APPROVED" => r \in Voters
    BY <1>2 DEF Apart, Approved, Used
  <2>7. QED BY <1>4, <2>5, <2>6 DEF Decision, Held
<1>6. CASE CorrectKey(d)
  <2> DEFINE claim == [registration[r] EXCEPT !.key = t.key]
  <2>1. /\ t.pc = "correct"
        /\ task' = [task EXCEPT ![d] = IF AssertPending(r) /\ \A v \in FindVoterConflicts(claim) : voter[v].key # t.key
                                        THEN [t EXCEPT !.pc = "correcting"] ELSE AtRest]
    BY <1>6 DEF CorrectKey, Become
  <2>2. t \in [pc : {"page", "correct", "correcting"}, id : Registration, key : Key, shown : Page]
    BY <2>1, TaskOfPc DEF PeopleTyped
  <2>3. [t EXCEPT !.pc = "correcting"].pc # AtRest.pc
    BY <2>2 DEF AtRest
  <2>4. ~AssertPending(r) \/ \E v \in FindVoterConflicts(claim) : voter[v].key = t.key
    BY <1>1, <2>1, <2>3 DEF PeopleTyped
  <2>5. \A v \in FindVoterConflicts(claim) : v \in Voters
    BY DEF FindVoterConflicts
  <2>6. QED BY <1>2, <2>1, <2>4, <2>5 DEF AssertPending, Held
<1>7. CASE UpdateRegistrationKey(d)
  <2> DEFINE row == [registration[r] EXCEPT !.key = t.key]
  <2>1. r \in Waiting /\ r \in Live
    BY <1>2, <1>7 DEF UpdateRegistrationKey, LocksHold, Holding, Waiting, AssertPending, Live
  <2>2. row.nid = registration[r].nid /\ row.email = registration[r].email /\ row.key = t.key
    BY <1>2 DEF VoterRow
  <2>3. CASE LiveUnique(r, row)
    <3>1. registration' = [registration EXCEPT ![r] = row]
      BY <1>7, <2>3 DEF UpdateRegistrationKey
    <3>2. registration[r] = row
      BY <1>1, <2>1, <3>1 DEF PeopleTyped, Waiting
    <3> HIDE DEF row
    <3>3. registration[r].key = t.key
      BY <2>2, <3>2
    <3>4. QED BY <2>1, <3>3 DEF Held
  <2>4. CASE ~LiveUnique(r, row)
    <3> HIDE DEF row
    <3>1. PICK s \in Live \ {r}, f \in Field : registration[s][f] = row[f]
      BY <2>4 DEF LiveUnique
    <3>2. f = "key"
      BY <2>1, <2>2, <3>1 DEF Field, Apart
    <3>3. QED BY <2>2, <3>1, <3>2 DEF Held
  <2>5. QED BY <2>3, <2>4
<1>8. CASE CheckReplacement(d)
  <2>1. task' = [task EXCEPT ![d] = IF /\ AssessRotation(r)
                                       /\ PendingFor(r) = {}
                                       /\ \A w \in Voters \ {r} : voter[w].key # t.key
                                      THEN [t EXCEPT !.pc = "file"] ELSE AtRest]
    BY <1>8 DEF CheckReplacement, Become
  <2>2. t \in [pc : {"check", "file"}, id : Registration, key : Key, shown : Page, previous : Key]
    BY <1>8, TaskOfPc DEF CheckReplacement, PeopleTyped
  <2>3. [t EXCEPT !.pc = "file"].pc # AtRest.pc
    BY <2>2 DEF AtRest
  <2>4. ~AssessRotation(r) \/ PendingFor(r) # {} \/ \E w \in Voters \ {r} : voter[w].key = t.key
    BY <1>1, <2>1, <2>3 DEF PeopleTyped
  <2>5. CASE ~AssessRotation(r)
    <3>1. r \in roll /\ ~open
      BY <2>5 DEF AssessRotation
    <3>2. ~t.shown.closed
      BY <1>3, <3>1, Zenon
    <3>3. QED BY <3>1, <3>2, Zenon
  <2>6. CASE PendingFor(r) # {}
    BY <1>2, <2>6
  <2>7. CASE \E w \in Voters \ {r} : voter[w].key = t.key
    BY <2>7 DEF Held
  <2>8. QED BY <2>4, <2>5, <2>6, <2>7
<1>9. CASE CreateReplacement(d)
  <2>1. CASE PendingFor(r) = {}
    <3>1. PICK q \in Replacement :
            /\ replacement[q] = Free
            /\ replacement' = [replacement EXCEPT ![q] =
                 [status |-> "PENDING", voter |-> r, new |-> t.key, previous |-> t.previous]]
      BY <1>9, <2>1 DEF CreateReplacement
    <3>2. replacement'[q] = [status |-> "PENDING", voter |-> r, new |-> t.key, previous |-> t.previous]
      BY <3>1 DEF PeopleTyped
    <3>3. "voter" \in DOMAIN replacement'[q] /\ DOMAIN Free = {"status"}
      BY <3>2 DEF Free
    <3>4. QED BY <1>1, <3>1, <3>3
  <2>2. CASE PendingFor(r) # {}
    BY <1>2, <2>2
  <2>3. QED BY <2>1, <2>2
<1>10. \/ RequestKeyReplacement(d) \/ CorrectKey(d) \/ UpdateRegistrationKey(d)
       \/ CheckReplacement(d) \/ CreateReplacement(d)
  BY <1>1, EndsOfAsking
<1>11. QED BY <1>5, <1>6, <1>7, <1>8, <1>9, <1>10

\* A voter whom the status page offered a replacement is refused only for what happened
\* between the page and the answer, or because the key is somebody's.
THEOREM OfferHonouredAlways == PeopleSpec => OfferHonoured
<1>1. PeopleInit => OfferInv
  BY DEF PeopleInit, OfferInv, Asking, AtRest
<1>2. PeopleInv /\ RollTyped /\ OfferInv /\ [PeopleNext]_peopleVars => OfferInv'
  BY OfferStep
<1>3. PeopleSpec => []OfferInv
  BY <1>1, <1>2, PeopleInvariant, RollAlways, PTL DEF PeopleSpec
<1> DEFINE Explained ==
      \A d \in Desk :
        LET t == task[d]
        IN  Refused(d) /\ t.shown.offered =>
              \/ registration[t.id].status = "REJECTED"
              \/ t.pc = "correct" /\ registration[t.id].status # "PENDING"
              \/ ~t.shown.closed /\ ~open /\ t.id \in roll
              \/ PendingFor(t.id) \ t.shown.pending # {}
              \/ Held(t.key)
<1>4. PeopleInv /\ OfferInv /\ [PeopleNext]_peopleVars => [Explained]_peopleVars
  BY RefusalsExplained
<1>5. QED BY <1>3, <1>4, PeopleInvariant, PTL DEF PeopleSpec, OfferHonoured
=============================================================================
