------------------------- MODULE ElectionProperties -------------------------
(***************************************************************************)
(* What an election's groups and manifests are checked for.                 *)
(***************************************************************************)
EXTENDS Dashboard

VotingStates == {"VOTING_OPEN", "VOTING_CLOSED", "TALLIED"}

\* Where a voter's key is in the groups.
Places(v) ==
  {p \in (DOMAIN rings) \X (1 .. Cardinality(Voters)) :
     p[2] \in DOMAIN rings[p[1]].members /\ rings[p[1]].members[p[2]].voter = v}

\* The leftovers are absorbed: groups divide the roll, none is smaller than the
\* target size and no two differ by more than one voter.
GroupsDivideRoll ==
  rings # <<>> =>
    /\ Assigned = roll
    /\ \A v \in roll : Cardinality(Places(v)) = 1
    /\ \A i, j \in DOMAIN rings :
         /\ Len(rings[i].members) >= ringSize
         /\ Len(rings[i].members) <= Len(rings[j].members) + 1

\* Nobody is stranded: the groups divide the roll, and once ballots are accepted
\* there are groups, each is published and at least as large as the policy floor,
\* and there is a choice of candidates.
VotingNeedsGroups ==
  /\ GroupsDivideRoll
  /\ status \in VotingStates => Unpublished = {} /\ NoGroupTooSmall /\ Contested

\* The digest kept with a published group is the digest of every manifest handed
\* out, also when an export stopped half way and another one finished its work.
ReferencesAgree ==
  \A i \in DOMAIN rings \ Unpublished : manifests \subseteq {rings[i].ref}

\* However exports, re-forming and key replacements interleave, a manifest that
\* was handed out is the one manifest of this election: the groups as they are
\* and will stay, every one of them published under this manifest's digest.
ManifestsAgree ==
  /\ ReferencesAgree
  /\ \A m \in manifests :
       /\ m.groups = [i \in DOMAIN rings |-> rings[i].members]
       /\ m.cands = cands
       /\ m.ringSize = ringSize
       /\ Unpublished = {}

\* Between closing registration and opening voting there is no way back, and the
\* dashboard never falls silent there: it asks for groups, for their publication or
\* for the opening, and where the last two would be refused, however exports and
\* crashes left the groups, it is for a registration it asks to review as well.
NextStepNamed ==
  LET asked == Attention({})
  IN  status = "RINGS_FROZEN" =>
        \/ "form_rings" \in asked
        \/ "publish_rings" \in asked /\ (PublishGuards \/ "registrations_waiting" \in asked)
        \/ "open_voting" \in asked

-----------------------------------------------------------------------------
\* "at least N needed to form one group" (evaluateCloseRegistrationGuards): an
\* election that passed the check, whose roll and group size are now fixed, can
\* form its groups.
FrozenCanForm ==
  status = "RINGS_FROZEN" /\ rings = <<>> =>
    /\ Formable
    /\ Total(Partition(Cardinality(roll), ringSize)) = Cardinality(roll)

\* "approving then would install a key that no published ring contains, quietly
\* disenfranchising the voter" (reviewKeyReplacement, of the check it makes):
\* a voter with no other election holds the key their published group lists.
VotersCanSign ==
  \A i \in DOMAIN rings \ Unpublished : \A j \in DOMAIN rings[i].members :
    LET member == rings[i].members[j]
    IN member.voter \in Elsewhere \/ key[member.voter] = member.version

-----------------------------------------------------------------------------
Published == DOMAIN rings \ Unpublished

Settled == INSTANCE GroupRegister WITH
  Groups <- Seq(PublicKey),
  division <- IF Published = {} THEN <<>> ELSE [i \in DOMAIN rings |-> rings[i].members],
  out <- Published,
  voting <- status \in VotingStates

\* The first group published settles all of them, whatever is re-formed or
\* exported at the same time, and voting waits for the last one.
RegisterSpec == Settled!Spec
=============================================================================
