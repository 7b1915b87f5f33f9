------------------------------- MODULE People -------------------------------
(***************************************************************************)
(* Registrations, the voters they become, and the replacement of voters'   *)
(* keys, for one election whose roll is open until registration closes.    *)
(*                                                                         *)
(* A request works at a desk, statement by statement: what it read may be  *)
(* out of date when it writes.  Rows locked FOR UPDATE are the             *)
(* registration under approval or correction and the replacement request   *)
(* under review; the unique indexes decide what the checks cannot.  A      *)
(* voter has the name of the registration that created it.                 *)
(***************************************************************************)
EXTENDS Naturals, FiniteSets

CONSTANTS Registration, Replacement,  \* ids of registrations and of replacement requests
          NationalId, Key,
          Spelling, Lower,            \* mail addresses as typed, and what they are stored as
          Desk,                       \* requests that may run at the same time
          MaxTasks                    \* bound: requests started

ASSUME PeopleAssumption ==
  /\ Lower \in [Spelling -> Spelling]
  /\ MaxTasks \in Nat

VARIABLES registration, voter, replacement,
          open,      \* the election still takes voters
          roll,      \* its electorate
          task,      \* [Desk -> what the request is doing]
          tasks      \* requests started

people == <<registration, voter, replacement, open, roll>>
peopleVars == <<people, task, tasks>>

Field == {"nid", "email", "key"}
Claim == [nid : NationalId, email : {Lower[s] : s \in Spelling}, key : Key]
Free == [status |-> "FREE"]
NoVoter == [status |-> "FREE"]
AtRest == [pc |-> "idle"]

Used == {r \in Registration : registration[r] # Free}
Live == {r \in Used : registration[r].status # "REJECTED"}
Voters == {r \in Registration : voter[r] # NoVoter}
PendingFor(v) ==
  {q \in Replacement : /\ replacement[q] # Free
                       /\ replacement[q].status = "PENDING" /\ replacement[q].voter = v}

PeopleInit ==
  /\ registration = [r \in Registration |-> Free]
  /\ voter = [r \in Registration |-> NoVoter]
  /\ replacement = [q \in Replacement |-> Free]
  /\ open = TRUE
  /\ roll = {}
  /\ task = [d \in Desk |-> AtRest]
  /\ tasks = 0

Begin(d, t) ==
  /\ task[d] = AtRest
  /\ tasks < MaxTasks
  /\ tasks' = tasks + 1
  /\ task' = [task EXCEPT ![d] = t]

\* One statement outside any request that has to be remembered.
Single == tasks < MaxTasks /\ tasks' = tasks + 1 /\ UNCHANGED task
Become(d, t) == task' = [task EXCEPT ![d] = t] /\ UNCHANGED tasks

LockedRegistration(r) ==
  \E d \in Desk : task[d].pc \in {"approving", "correcting"} /\ task[d].id = r
LockedReplacement(q) == \E d \in Desk : task[d].pc = "reviewing" /\ task[d].id = q

-----------------------------------------------------------------------------
\* Collisions of a claim, as the queries and as the unique indexes see them.
FindConflictingFields(claim) == {f \in Field : \E r \in Live : registration[r][f] = claim[f]}
FindConflictingVoterFields(claim) == {f \in Field : \E v \in Voters : voter[v][f] = claim[f]}
FindVoterConflicts(claim) == {v \in Voters : \E f \in Field : voter[v][f] = claim[f]}
FindLiveConflicts(r) ==
  {s \in Live \ {r} : \E f \in Field : registration[s][f] = registration[r][f]}

\* Variant: a unique index over the key alone.
LiveUniqueOnKey(r, row) == \A s \in Live \ {r} : registration[s].key # row.key

\* The partial unique indexes of registrations, which leave out rejected rows.
LiveUnique(r, row) ==
  \A s \in Live \ {r} : \A f \in Field : registration[s][f] # row[f]

\* The unique indexes of voters.
VoterUnique(v, row) ==
  \A w \in Voters \ {v} : \A f \in Field : voter[w][f] # row[f]

-----------------------------------------------------------------------------
\* submitRegistration: the claim is put into normal form and checked against
\* both tables, then inserted.
Normalise(n, s, k) == [nid |-> n, email |-> Lower[s], key |-> k]

SubmitRegistration(d, n, s, k) ==
  LET claim == Normalise(n, s, k)
  IN  /\ FindConflictingFields(claim) \cup FindConflictingVoterFields(claim) = {}
      /\ Begin(d, [pc |-> "insert", claim |-> claim])
      /\ UNCHANGED people

CreateRegistration(d) ==
  /\ task[d].pc = "insert"
  /\ Used # Registration
  /\ LET r == CHOOSE s \in Registration : s \notin Used    \* a fresh id, whichever
         row == [status |-> "PENDING", nid |-> task[d].claim.nid,
                 email |-> task[d].claim.email, key |-> task[d].claim.key]
     IN  IF LiveUnique(r, row)
           THEN registration' = [registration EXCEPT ![r] = row]
           ELSE UNCHANGED registration
  /\ Become(d, AtRest)
  /\ UNCHANGED <<voter, replacement, open, roll>>

-----------------------------------------------------------------------------
\* Approval, singly or in bulk: one transaction for each registration, whose
\* refusal leaves the others alone.
AssertPending(r) == r \in Used /\ registration[r].status = "PENDING"

ApproveRegistrations(d, ids, enrol) ==
  /\ ids # {}
  /\ Begin(d, [pc |-> "next", todo |-> ids, enrol |-> enrol])
  /\ UNCHANGED people

\* What remains of the list once r is done with.
NextOf(t, r) ==
  IF t.todo \ {r} = {} THEN AtRest
  ELSE [pc |-> "next", todo |-> t.todo \ {r}, enrol |-> t.enrol]

\* The row is locked, found pending and free of collisions, or r has failed.
LockForApproval(d) ==
  /\ task[d].pc = "next"
  /\ \E r \in task[d].todo :
       /\ ~LockedRegistration(r)
       /\ Become(d, IF AssertPending(r) /\ FindVoterConflicts(registration[r]) = {}
                      THEN [pc |-> "approving", id |-> r, todo |-> task[d].todo, enrol |-> task[d].enrol]
                      ELSE NextOf(task[d], r))
  /\ UNCHANGED people

VoterOf(r) == [nid |-> registration[r].nid, email |-> registration[r].email,
               key |-> registration[r].key]

\* The voter is inserted, the registration marked, the voter enrolled; all of it
\* is rolled back when an index or the election refuses.
ApproveRegistration(d) ==
  LET r == task[d].id
  IN  /\ task[d].pc = "approving"
      /\ IF VoterUnique(r, VoterOf(r)) /\ (task[d].enrol => open)
           THEN /\ voter' = [voter EXCEPT ![r] = VoterOf(r)]
                /\ registration' = [registration EXCEPT ![r].status = "APPROVED"]
                /\ roll' = IF task[d].enrol THEN roll \cup {r} ELSE roll
           ELSE UNCHANGED <<voter, registration, roll>>
      /\ Become(d, NextOf(task[d], r))
      /\ UNCHANGED <<replacement, open>>

\* Variant: the row is read without a lock while an approval holds it.
RejectRegistrationUnlocked(r) ==
  /\ AssertPending(r)
  /\ registration' = [registration EXCEPT ![r].status = "REJECTED"]
  /\ Single
  /\ UNCHANGED <<voter, replacement, open, roll>>

RejectRegistration(r) ==
  /\ ~LockedRegistration(r)
  /\ AssertPending(r)
  /\ registration' = [registration EXCEPT ![r].status = "REJECTED"]
  /\ Single
  /\ UNCHANGED <<voter, replacement, open, roll>>

\* Enrolling and removing voters under the election's lock.
SetEligibility(voters, eligible) ==
  /\ open
  /\ roll' = IF eligible THEN roll \cup voters ELSE roll \ voters
  /\ roll' # roll
  /\ Single
  /\ UNCHANGED <<registration, voter, replacement, open>>

CloseRegistration ==
  /\ open
  /\ open' = FALSE
  /\ UNCHANGED <<registration, voter, replacement, roll, task, tasks>>

-----------------------------------------------------------------------------
\* Replacing a key, from the page that offers it to the answer.  A replacement can
\* still be of use: on no roll, or the roll is open.
AssessRotation(v) == v \in roll => open

\* Variant: the request under review is not looked for.
KeyReplacementAvailableAgain(r) ==
  IF registration[r].status = "APPROVED" THEN AssessRotation(r) ELSE registration[r].status = "PENDING"

\* What the voter's status page says of replacing the key.
KeyReplacementAvailable(r) ==
  IF registration[r].status = "APPROVED"
    THEN AssessRotation(r) /\ PendingFor(r) = {}
    ELSE registration[r].status = "PENDING"

\* The page as it is loaded, with the key it will make, and the moment it speaks of,
\* which is history.  No guard reads either: the server takes a request from anybody.
Offer(r) == [offered |-> KeyReplacementAvailable(r), closed |-> ~open, pending |-> PendingFor(r)]

ShowStatus(d, r, k) ==
  /\ Begin(d, [pc |-> "page", id |-> r, key |-> k, shown |-> Offer(r)])
  /\ UNCHANGED people

\* The registration is read, and the voter if it was approved.
RequestKeyReplacement(d) ==
  LET t == task[d]
  IN  /\ t.pc = "page"
      /\ Become(d, CASE registration[t.id].status = "PENDING" /\ registration[t.id].key # t.key ->
                          [t EXCEPT !.pc = "correct"]
                     [] registration[t.id].status = "APPROVED" /\ voter[t.id].key # t.key ->
                          [pc |-> "check", id |-> t.id, key |-> t.key, shown |-> t.shown,
                           previous |-> voter[t.id].key]
                     [] OTHER -> AtRest)
      /\ UNCHANGED people

\* A pending registration is locked, found pending still, and corrected in place.
CorrectKey(d) ==
  LET t == task[d]
      claim == [registration[t.id] EXCEPT !.key = t.key]
  IN  /\ t.pc = "correct"
      /\ ~LockedRegistration(t.id)
      /\ Become(d, IF AssertPending(t.id) /\ \A v \in FindVoterConflicts(claim) : voter[v].key # t.key
                     THEN [t EXCEPT !.pc = "correcting"] ELSE AtRest)
      /\ UNCHANGED people

UpdateRegistrationKey(d) ==
  LET r == task[d].id
      row == [registration[r] EXCEPT !.key = task[d].key]
  IN  /\ task[d].pc = "correcting"
      /\ IF LiveUnique(r, row)
           THEN registration' = [registration EXCEPT ![r] = row]
           ELSE UNCHANGED registration
      /\ Become(d, AtRest)
      /\ UNCHANGED <<voter, replacement, open, roll>>

\* An approved voter's request is checked, then filed under the index of one pending
\* request per voter.
CheckReplacement(d) ==
  LET v == task[d].id
  IN  /\ task[d].pc = "check"
      /\ Become(d, IF /\ AssessRotation(v)
                      /\ PendingFor(v) = {}
                      /\ \A w \in Voters \ {v} : voter[w].key # task[d].key
                     THEN [task[d] EXCEPT !.pc = "file"] ELSE AtRest)
      /\ UNCHANGED people

CreateReplacement(d) ==
  LET t == task[d]
  IN  /\ t.pc = "file"
      /\ IF PendingFor(t.id) = {}
           THEN \E q \in Replacement :
                  /\ replacement[q] = Free
                  /\ replacement' = [replacement EXCEPT ![q] =
                       [status |-> "PENDING", voter |-> t.id, new |-> t.key, previous |-> t.previous]]
           ELSE UNCHANGED replacement
      /\ Become(d, AtRest)
      /\ UNCHANGED <<registration, voter, open, roll>>

\* The decision: the request is locked and the enrolments are read again, then
\* the key is swapped and the request marked.
LockForReview(d, q) ==
  /\ replacement[q] # Free /\ replacement[q].status = "PENDING"
  /\ ~LockedReplacement(q)
  /\ AssessRotation(replacement[q].voter)
  /\ Begin(d, [pc |-> "reviewing", id |-> q])
  /\ UNCHANGED people

ApproveReplacement(d) ==
  LET q == task[d].id
      v == replacement[q].voter
      row == [voter[v] EXCEPT !.key = replacement[q].new]
  IN  /\ task[d].pc = "reviewing"
      /\ IF VoterUnique(v, row)
           THEN /\ voter' = [voter EXCEPT ![v] = row]
                /\ replacement' = [replacement EXCEPT ![q].status = "APPROVED"]
           ELSE UNCHANGED <<voter, replacement>>
      /\ Become(d, AtRest)
      /\ UNCHANGED <<registration, open, roll>>

RejectReplacement(q) ==
  /\ replacement[q] # Free /\ replacement[q].status = "PENDING"
  /\ ~LockedReplacement(q)
  /\ replacement' = [replacement EXCEPT ![q].status = "REJECTED"]
  /\ Single
  /\ UNCHANGED <<registration, voter, open, roll>>

-----------------------------------------------------------------------------
PeopleNext ==
  \/ \E d \in Desk :
       \/ \E n \in NationalId, s \in Spelling, k \in Key : SubmitRegistration(d, n, s, k)
       \/ CreateRegistration(d)
       \/ \E ids \in SUBSET Used, enrol \in BOOLEAN : ApproveRegistrations(d, ids, enrol)
       \/ LockForApproval(d) \/ ApproveRegistration(d)
       \/ \E r \in Used, k \in Key : ShowStatus(d, r, k)
       \/ RequestKeyReplacement(d) \/ CorrectKey(d) \/ UpdateRegistrationKey(d)
       \/ CheckReplacement(d) \/ CreateReplacement(d)
       \/ \E q \in Replacement : LockForReview(d, q)
       \/ ApproveReplacement(d)
  \/ \E r \in Registration : RejectRegistration(r)
  \/ \E q \in Replacement : RejectReplacement(q)
  \/ \E voters \in SUBSET Voters, eligible \in BOOLEAN : SetEligibility(voters, eligible)
  \/ CloseRegistration

PeopleSpec == PeopleInit /\ [][PeopleNext]_peopleVars

PeopleTypeOK ==
  /\ \A r \in Used : /\ registration[r].status \in {"PENDING", "APPROVED", "REJECTED"}
                     /\ [nid |-> registration[r].nid, email |-> registration[r].email,
                         key |-> registration[r].key] \in Claim
  /\ \A v \in Voters : voter[v] \in Claim
  /\ \A q \in Replacement : replacement[q] = Free \/
       replacement[q] \in [status : {"PENDING", "APPROVED", "REJECTED"}, voter : Voters,
                           new : Key, previous : Key]
  /\ open \in BOOLEAN
  /\ roll \subseteq Voters
=============================================================================
