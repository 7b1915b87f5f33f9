----------------------------- MODULE Dashboard -----------------------------
(***************************************************************************)
(* What the administrators' dashboard asks for (dashboard.service.ts), for  *)
(* one election.  It is worked out from the pre-flight checks and the       *)
(* counts, here in one reading; linked are the voters with an access row.   *)
(***************************************************************************)
EXTENDS Election

\* countsForElections.
Counts(linked) ==
  [eligibleVoters |-> Cardinality(roll),
   candidates |-> Cardinality(cands),
   rings |-> Len(rings),
   ringsPublished |-> Len(rings) - Cardinality(Unpublished),
   ringMembers |-> FoldSeq(LAMBDA ring, n : n + Len(ring.members), 0, rings),
   tokensIssued |-> Cardinality(linked)]

\* nextForwardStage: at most one stage.
NextForwardStage == Transitions[status] \ {"CANCELLED"}

\* The check the transition itself will make.
Ready(to) == to \in NextForwardStage /\ TransitionGuards(to)

RegistrationsWaiting == pending # {}
CloseRegistration == Ready("RINGS_FROZEN")
OpenVoting == Ready("VOTING_OPEN")
FormRings(counts) == status = "RINGS_FROZEN" /\ counts.rings = 0

\* Variant: asked only while nothing is published.
PublishRingsFirst(counts) ==
  status = "RINGS_FROZEN" /\ counts.rings > 0 /\ counts.ringsPublished = 0

PublishRings(counts) ==
  status = "RINGS_FROZEN" /\ counts.rings > 0 /\ counts.ringsPublished < counts.rings

IssueTokens(counts) ==
  status = "VOTING_OPEN" /\ counts.tokensIssued < counts.eligibleVoters

CountUnassignedVoters == Cardinality(roll \ Assigned)
UnassignedVoters(counts) ==
  status = "RINGS_FROZEN" /\ counts.rings > 0 /\ CountUnassignedVoters > 0

\* getDashboard: the items under "Needs you today", by their keys.
Attention(linked) ==
  LET counts == Counts(linked)
      Asked == [registrations_waiting |-> RegistrationsWaiting,
                close_registration |-> CloseRegistration,
                open_voting |-> OpenVoting,
                form_rings |-> FormRings(counts),
                publish_rings |-> PublishRings(counts),
                issue_tokens |-> IssueTokens(counts),
                unassigned |-> UnassignedVoters(counts)]
  IN  {item \in DOMAIN Asked : Asked[item]}
=============================================================================
