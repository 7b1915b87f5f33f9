------------------------------ MODULE Election ------------------------------
(***************************************************************************)
(* One election in the API (api/src/services): its lifecycle, its roll and  *)
(* candidates, the anonymity groups formed from the roll, and the export of *)
(* the manifest, which publishes the groups.                                *)
(*                                                                          *)
(* One action per database transaction.  Requests that lock the election    *)
(* row are atomic, except the forming of groups: it holds the lock, but     *)
(* exports and key replacements take none and commit between its reads and  *)
(* its writes.  An export is no transaction at all: every statement of it   *)
(* is a step of its own.                                                    *)
(***************************************************************************)
EXTENDS Naturals, SequencesExt, FiniteSetsExt

CONSTANTS
  Voters,       \* people; one registration and one national id each
  Vetted,       \* those approved before this election was created
  Elsewhere,    \* those also on the roll of another election that stays open
  Candidates,   \* candidate ids an admin may add
  Admins,       \* admins who export manifests
  SuperAdmins, \* those among them with role SUPER_ADMIN
  RingSizes,    \* group sizes an admin may set
  DefaultSize,  \* elections.ringSize before anyone sets it
  RING_MIN_SIZE, \* policy floor from the environment
  NoCall,       \* no request under way
  NoRef,        \* rings.chainTxRef of an unpublished ring
  MaxFormations, \* bound: successful formRings requests
  MaxRotations  \* bound: key replacements in all

ASSUME ElectionAssumption ==
  /\ IsFiniteSet(Voters)
  /\ Vetted \subseteq Voters
  /\ Elsewhere \subseteq Vetted
  /\ SuperAdmins \subseteq Admins
  /\ RingSizes \subseteq Nat \ {0, 1}
  /\ DefaultSize \in RingSizes
  /\ RING_MIN_SIZE \in Nat \ {0, 1}
  /\ MaxFormations \in Nat
  /\ MaxRotations \in Nat

VARIABLES
  status,     \* elections.status
  ringSize,   \* elections.ringSize
  cands,      \* candidates of this election
  pending,    \* people with a PENDING registration
  voters,     \* people with a voters row
  roll,       \* election_eligibility
  key,        \* voters.publicKey, as the number of replacements so far
  rings,      \* rings with their members, in the order of rings.index
  formations, \* successful formRings requests so far
  forming,    \* a formRings transaction between its reads and its writes
  exports,    \* exportChainManifest calls between their statements
  rotating,   \* voters whose replacement passed its check, not yet committed
  manifests   \* manifests handed out so far

people == <<pending, voters, roll>>
calls == <<forming, exports, rotating>>
vars == <<status, ringSize, cands, people, key, rings, formations, calls, manifests>>

Transitions ==
  [DRAFT |-> {"REGISTRATION_OPEN", "CANCELLED"},
   REGISTRATION_OPEN |-> {"RINGS_FROZEN", "CANCELLED"},
   RINGS_FROZEN |-> {"VOTING_OPEN"},
   VOTING_OPEN |-> {"VOTING_CLOSED"},
   VOTING_CLOSED |-> {"TALLIED"},
   TALLIED |-> {},
   CANCELLED |-> {}]

Status == DOMAIN Transitions

\* OPERATION_STATES of lifecycle.ts and ROTATION_SAFE_STATES.
EditStates == {"DRAFT", "REGISTRATION_OPEN"}
CandidateStates == {"DRAFT", "REGISTRATION_OPEN"}
ReviewStates == {"REGISTRATION_OPEN"}
FormStates == {"RINGS_FROZEN"}
ExportStates == {"RINGS_FROZEN", "VOTING_OPEN", "VOTING_CLOSED", "TALLIED"}
RotationStates == {"DRAFT", "REGISTRATION_OPEN"}

\* A public key, by its owner: the key of the owner's record after that many
\* replacements.
PublicKey == [voter : Voters, version : Nat]

\* The exported file. A ring's id is its formation and its place in it. Its
\* SHA-256 digest, which chainTxRef keeps, is taken to be injective.
Manifest == [formation : Nat, ringSize : RingSizes, cands : SUBSET Candidates,
             groups : Seq(Seq(PublicKey))]
Ring == [formation : Nat, members : Seq(PublicKey), ref : Manifest \cup {NoRef}]
Export == [stage : {"reading", "publishing"}, size : Nat, unpublished : SUBSET Nat,
           manifest : Manifest]

\* A published ring's reference is told from none.
ASSUME ReferenceAssumption == NoRef \notin Manifest

TypeOK ==
  /\ status \in Status
  /\ ringSize \in RingSizes
  /\ cands \subseteq Candidates
  /\ pending \subseteq Voters
  /\ voters \subseteq Voters \ pending
  /\ roll \subseteq voters
  /\ key \in [Voters -> Nat]
  /\ rings \in Seq(Ring)
  /\ formations \in 0 .. MaxFormations
  /\ forming \in (SUBSET PublicKey) \cup {NoCall}
  /\ exports \in [Admins -> Export \cup {NoCall}]
  /\ rotating \subseteq voters
  /\ manifests \subseteq Manifest

Init ==
  /\ status = "DRAFT"
  /\ ringSize = DefaultSize
  /\ cands = {}
  /\ pending = {}
  /\ voters = Vetted
  /\ roll = {}
  /\ key = [v \in Voters |-> 0]
  /\ rings = <<>>
  /\ formations = 0
  /\ forming = NoCall
  /\ exports = [a \in Admins |-> NoCall]
  /\ rotating = {}
  /\ manifests = {}

-----------------------------------------------------------------------------
(***************************************************************************)
(* Pre-flight checks (guards.service.ts).                                   *)
(***************************************************************************)
\* lockElectionById: nobody else holds the election row.
Unlocked == forming = NoCall

Contested == Cardinality(cands) >= 2

InGroup(v, ring) == \E j \in DOMAIN ring.members : ring.members[j].voter = v
Assigned == {v \in Voters : \E i \in DOMAIN rings : InGroup(v, rings[i])}
Unpublished == {i \in DOMAIN rings : rings[i].ref = NoRef}

EveryVoterAssigned == roll # {} /\ roll \subseteq Assigned
NoGroupTooSmall ==
  /\ rings # <<>>
  /\ \A i \in DOMAIN rings : Len(rings[i].members) >= RING_MIN_SIZE

CloseRegistrationGuards ==
  /\ pending = {}
  /\ Cardinality(roll) >= RING_MIN_SIZE
  /\ Contested

PublishGuards ==
  /\ EveryVoterAssigned
  /\ NoGroupTooSmall
  /\ pending = {}
  /\ Contested

VotingOpenGuards ==
  /\ Contested
  /\ Unpublished = {}
  /\ EveryVoterAssigned
  /\ NoGroupTooSmall

TransitionGuards(to) ==
  /\ to = "RINGS_FROZEN" => CloseRegistrationGuards
  /\ to = "VOTING_OPEN" => VotingOpenGuards

-----------------------------------------------------------------------------
(***************************************************************************)
(* Lifecycle, metadata, candidates (election.service.ts, candidate.service) *)
(***************************************************************************)
\* transitionElection, by a super-admin.
Transition(to) ==
  /\ Unlocked
  /\ SuperAdmins # {}
  /\ to \in Transitions[status]
  /\ TransitionGuards(to)
  /\ status' = to
  /\ UNCHANGED <<ringSize, cands, people, key, rings, formations, calls, manifests>>

\* updateElectionMetadata, as far as the group size goes.
SetRingSize(size) ==
  /\ Unlocked
  /\ status \in EditStates
  /\ ringSize' = size
  /\ UNCHANGED <<status, cands, people, key, rings, formations, calls, manifests>>

AddCandidate(c) ==
  /\ Unlocked
  /\ status \in CandidateStates
  /\ cands' = cands \cup {c}
  /\ UNCHANGED <<status, ringSize, people, key, rings, formations, calls, manifests>>

RemoveCandidate(c) ==
  /\ Unlocked
  /\ status \in CandidateStates
  /\ cands' = cands \ {c}
  /\ UNCHANGED <<status, ringSize, people, key, rings, formations, calls, manifests>>

-----------------------------------------------------------------------------
(***************************************************************************)
(* Registrations and the roll (registration.service.ts, review.service.ts). *)
(***************************************************************************)
\* submitRegistration: open to the public at any time, refused to anyone with a
\* live registration or a voter record.
Register(v) ==
  /\ v \notin pending \cup voters
  /\ pending' = pending \cup {v}
  /\ UNCHANGED <<status, ringSize, cands, voters, roll, key, rings, formations, calls,
                 manifests>>

\* Variant: the registration stays in the queue.
ApproveKeepsPending(v) ==
  /\ v \in pending
  /\ voters' = voters \cup {v}
  /\ UNCHANGED <<status, ringSize, cands, pending, roll, key, rings, formations, calls,
                 manifests>>

\* approveRegistration naming no election: no lock on any.
Approve(v) ==
  /\ v \in pending
  /\ pending' = pending \ {v}
  /\ voters' = voters \cup {v}
  /\ UNCHANGED <<status, ringSize, cands, roll, key, rings, formations, calls, manifests>>

\* approveRegistration for this election.
ApproveOntoRoll(v) ==
  /\ Unlocked
  /\ status \in ReviewStates
  /\ v \in pending
  /\ pending' = pending \ {v}
  /\ voters' = voters \cup {v}
  /\ roll' = roll \cup {v}
  /\ UNCHANGED <<status, ringSize, cands, key, rings, formations, calls, manifests>>

Reject(v) ==
  /\ v \in pending
  /\ pending' = pending \ {v}
  /\ UNCHANGED <<status, ringSize, cands, voters, roll, key, rings, formations, calls,
                 manifests>>

\* transferVotersOntoRoll, and setEligibility for one voter.
Enrol(vs) ==
  /\ Unlocked
  /\ status \in ReviewStates
  /\ roll' = roll \cup vs
  /\ UNCHANGED <<status, ringSize, cands, pending, voters, key, rings, formations, calls,
                 manifests>>

\* removeVotersFromRoll: whoever is in a group stays.
Unenrol(vs) ==
  /\ Unlocked
  /\ status \in ReviewStates
  /\ roll' = roll \ (vs \ Assigned)
  /\ UNCHANGED <<status, ringSize, cands, pending, voters, key, rings, formations, calls,
                 manifests>>

-----------------------------------------------------------------------------
(***************************************************************************)
(* Forming the groups (ring.service.ts).                                    *)
(***************************************************************************)
\* Variant: what is left over becomes a last, short group.
PartitionShortLast(count, target) ==
  [i \in 1 .. (count + target - 1) \div target |->
     IF i * target <= count THEN target ELSE count % target]

\* Group sizes: as many groups of the target size as fit, and the voters left
\* over dealt to them one each, round after round.
Partition(count, target) ==
  LET groups == count \div target
      left == count % target
  IN [i \in 1 .. groups |->
        target + left \div groups + (IF i <= left % groups THEN 1 ELSE 0)]

\* How many voters are dealt once each group is full.
Cursor(sizes) ==
  LET cursor[i \in 0 .. Len(sizes)] == IF i = 0 THEN 0 ELSE cursor[i - 1] + sizes[i]
  IN  cursor

Total(sizes) == Cursor(sizes)[Len(sizes)]

\* Cut a shuffled electorate into groups of these sizes.
Deal(shuffled, sizes) ==
  LET cursor == Cursor(sizes)
  IN  [i \in DOMAIN sizes |-> SubSeq(shuffled, cursor[i - 1] + 1, cursor[i])]

Formable == ringSize >= RING_MIN_SIZE /\ Cardinality(roll) >= RING_MIN_SIZE

\* formRings locks the election, looks for published groups and reads the roll
\* with the keys as they are now.
ReadElectorate ==
  /\ Unlocked
  /\ formations < MaxFormations
  /\ status \in FormStates
  /\ Unpublished = DOMAIN rings
  /\ Formable
  /\ forming' = {[voter |-> v, version |-> key[v]] : v \in roll}
  /\ UNCHANGED <<status, ringSize, cands, people, key, rings, formations, exports,
                 rotating, manifests>>

FormedFrom(shuffled) ==
  LET groups == Deal(shuffled, Partition(Len(shuffled), ringSize))
  IN [i \in DOMAIN groups |->
        [formation |-> formations + 1, members |-> groups[i], ref |-> NoRef]]

\* Variant: all groups are deleted, published or not.
WriteGroupsDeletesAll ==
  /\ forming # NoCall
  /\ Total(Partition(Cardinality(forming), ringSize)) = Cardinality(forming)
  /\ \E shuffled \in SetToSeqs(forming) : rings' = FormedFrom(shuffled)
  /\ formations' = formations + 1
  /\ forming' = NoCall
  /\ UNCHANGED <<status, ringSize, cands, people, key, exports, rotating, manifests>>

\* formRings deletes the unpublished groups and inserts the new ones. A group
\* published since the check stays, and the unique indexes refuse the new rows.
WriteGroups ==
  /\ forming # NoCall
  /\ Total(Partition(Cardinality(forming), ringSize)) = Cardinality(forming)
  /\ Unpublished = DOMAIN rings
  /\ \E shuffled \in SetToSeqs(forming) : rings' = FormedFrom(shuffled)
  /\ formations' = formations + 1
  /\ forming' = NoCall
  /\ UNCHANGED <<status, ringSize, cands, people, key, exports, rotating, manifests>>

\* formRings throws and rolls back: voters left over, or a row refused.
RollBackForming ==
  /\ forming # NoCall
  /\ \/ Total(Partition(Cardinality(forming), ringSize)) # Cardinality(forming)
     \/ Unpublished # DOMAIN rings
  /\ forming' = NoCall
  /\ UNCHANGED <<status, ringSize, cands, people, key, rings, formations, exports,
                 rotating, manifests>>

-----------------------------------------------------------------------------
(***************************************************************************)
(* Exporting the manifest (exportChainManifest), which publishes the groups *)
(* the first time.                                                          *)
(***************************************************************************)
EndExport(a) == exports' = [exports EXCEPT ![a] = NoCall]

\* The election, its groups and its candidates are read.
ListGroups(a) ==
  /\ exports[a] = NoCall
  /\ status \in ExportStates
  /\ rings # <<>>
  /\ cands # {}
  /\ exports' = [exports EXCEPT ![a] =
       [stage |-> "reading", size |-> Len(rings), unpublished |-> Unpublished,
        manifest |-> [formation |-> rings[1].formation, ringSize |-> ringSize,
                      cands |-> cands, groups |-> <<>>]]]
  /\ UNCHANGED <<status, ringSize, cands, people, key, rings, formations, forming,
                 rotating, manifests>>

Reading(a) == exports[a] # NoCall /\ exports[a].stage = "reading"
AllRead(a) == Len(exports[a].manifest.groups) = exports[a].size

\* The listed group i as it is now: gone once the groups were formed anew.
StillThere(call, i) ==
  i \in DOMAIN rings /\ rings[i].formation = call.manifest.formation

\* Variant: keys are read from the voters' records.
ReadMembersJoined(a) ==
  /\ Reading(a)
  /\ ~AllRead(a)
  /\ LET i == Len(exports[a].manifest.groups) + 1
         group == IF StillThere(exports[a], i) THEN rings[i].members ELSE <<>>
     IN exports' = [exports EXCEPT ![a].manifest.groups = Append(@,
          [j \in DOMAIN group |->
             [voter |-> group[j].voter, version |-> key[group[j].voter]]])]
  /\ UNCHANGED <<status, ringSize, cands, people, key, rings, formations, forming,
                 rotating, manifests>>

\* The members of the next group are read.
ReadMembers(a) ==
  /\ Reading(a)
  /\ ~AllRead(a)
  /\ LET i == Len(exports[a].manifest.groups) + 1
         group == IF StillThere(exports[a], i) THEN rings[i].members ELSE <<>>
     IN exports' = [exports EXCEPT ![a].manifest.groups = Append(@, group)]
  /\ UNCHANGED <<status, ringSize, cands, people, key, rings, formations, forming,
                 rotating, manifests>>

\* Some group was unpublished when listed: only a super-admin goes on, and only
\* if the checks hold now.
CheckPublish(a) ==
  /\ Reading(a)
  /\ AllRead(a)
  /\ exports[a].unpublished # {}
  /\ IF a \in SuperAdmins /\ PublishGuards
     THEN exports' = [exports EXCEPT ![a].stage = "publishing"]
     ELSE EndExport(a)
  /\ UNCHANGED <<status, ringSize, cands, people, key, rings, formations, forming,
                 rotating, manifests>>

\* markRingPublished for the next group; it throws if the group is gone or was
\* published by another export.
PublishGroup(a) ==
  /\ exports[a] # NoCall
  /\ exports[a].stage = "publishing"
  /\ exports[a].unpublished # {}
  /\ LET i == Min(exports[a].unpublished)
     IN IF StillThere(exports[a], i) /\ rings[i].ref = NoRef
        THEN /\ rings' = [rings EXCEPT ![i].ref = exports[a].manifest]
             /\ exports' = [exports EXCEPT ![a].unpublished = @ \ {i}]
        ELSE EndExport(a) /\ UNCHANGED rings
  /\ UNCHANGED <<status, ringSize, cands, people, key, formations, forming, rotating,
                 manifests>>

\* Every group is published: the manifest is handed out.
HandOut(a) ==
  /\ exports[a] # NoCall
  /\ AllRead(a)
  /\ exports[a].unpublished = {}
  /\ manifests' = manifests \cup {exports[a].manifest}
  /\ EndExport(a)
  /\ UNCHANGED <<status, ringSize, cands, people, key, rings, formations, forming, rotating>>

-----------------------------------------------------------------------------
(***************************************************************************)
(* Key replacement (keyRotation.service.ts), once an admin approves it.     *)
(***************************************************************************)
\* reviewKeyReplacement reads the elections the voter is on, locking none: one
\* that has not frozen its groups is enough.
CheckRotation(v) ==
  /\ v \in voters \ rotating
  /\ Cardinality(rotating) + MapThenSumSet(LAMBDA w : key[w], Voters) < MaxRotations
  /\ v \in roll \ Elsewhere => status \in RotationStates
  /\ rotating' = rotating \cup {v}
  /\ UNCHANGED <<status, ringSize, cands, people, key, rings, formations, forming,
                 exports, manifests>>

CommitRotation(v) ==
  /\ v \in rotating
  /\ key' = [key EXCEPT ![v] = @ + 1]
  /\ rotating' = rotating \ {v}
  /\ UNCHANGED <<status, ringSize, cands, people, rings, formations, forming, exports,
                 manifests>>

-----------------------------------------------------------------------------
\* The API process stops between two statements of its requests.
Crash ==
  /\ forming' = NoCall
  /\ exports' = [a \in Admins |-> NoCall]
  /\ rotating' = {}
  /\ UNCHANGED <<status, ringSize, cands, people, key, rings, formations, manifests>>

Manage ==
  \/ \E to \in Status : Transition(to)
  \/ \E size \in RingSizes : SetRingSize(size)
  \/ \E c \in Candidates : AddCandidate(c)
  \/ \E c \in Candidates : RemoveCandidate(c)

Review ==
  \/ \E v \in Voters : Register(v)
  \/ \E v \in Voters : Approve(v)
  \/ \E v \in Voters : ApproveOntoRoll(v)
  \/ \E v \in Voters : Reject(v)
  \/ \E vs \in SUBSET voters : Enrol(vs)
  \/ \E vs \in SUBSET voters : Unenrol(vs)

Form ==
  \/ ReadElectorate
  \/ WriteGroups
  \/ RollBackForming

ExportStep(a) ==
  \/ ListGroups(a)
  \/ ReadMembers(a)
  \/ CheckPublish(a)
  \/ PublishGroup(a)
  \/ HandOut(a)

Rotate ==
  \/ \E v \in Voters : CheckRotation(v)
  \/ \E v \in Voters : CommitRotation(v)

Next ==
  \/ Manage
  \/ Review
  \/ Form
  \/ \E a \in Admins : ExportStep(a)
  \/ Rotate
  \/ Crash

Spec == Init /\ [][Next]_vars
=============================================================================
