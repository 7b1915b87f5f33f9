------------------------------- MODULE Portal -------------------------------
(***************************************************************************)
(* The web portal: what voters and officers do in their browsers, and the  *)
(* requests behind it.  Its parts share no state that these modules model, *)
(* so one behaviour is a behaviour of one part, chosen at the start, while *)
(* the others rest.                                                        *)
(***************************************************************************)
EXTENDS PeopleProperties, OperatorsProperties, ListingProperties, DraftsProperties,
        ConfirmationProperties, BallotPaperProperties, VoterProperties, SigningProperties,
        DetailsProperties, AuditProperties

VARIABLE part

portalVars == <<part, peopleVars, operatorsVars, listingVars, draftsVars,
                 confirmationVars, ballotPaperVars, custodyVars, votingVars,
                 signingVars, detailsVars, auditVars>>

\* Where a part may start in more than one state, it does so only when it is chosen.
Resting ==
  /\ part # "listing" => page = "queue" /\ view = CHOOSE v \in View : TRUE
  /\ part # "confirmation" => /\ site = "election" /\ stage = "DRAFT" /\ sound = TRUE
  /\ part # "drafts" => form = "record" /\ facing = CHOOSE s \in Screens : TRUE

PortalInit ==
  /\ part \in {"people", "operators", "listing", "drafts", "confirmation",
               "ballot paper", "custody", "voting", "signing", "details", "audit"}
  /\ PeopleInit /\ OperatorsInit /\ ListingInit /\ DraftsInit /\ ConfirmationInit
  /\ BallotPaperInit /\ CustodyInit /\ VotingInit /\ SigningInit
  /\ DetailsInit /\ AuditInit
  /\ Resting

PortalNext ==
  /\ UNCHANGED part
  /\ \/ part = "people" /\ PeopleNext
        /\ UNCHANGED <<operatorsVars, listingVars, draftsVars, confirmationVars,
                       ballotPaperVars, custodyVars, votingVars, signingVars,
                       detailsVars, auditVars>>
     \/ part = "operators" /\ OperatorsNext
        /\ UNCHANGED <<peopleVars, listingVars, draftsVars, confirmationVars,
                       ballotPaperVars, custodyVars, votingVars, signingVars,
                       detailsVars, auditVars>>
     \/ part = "listing" /\ ListingNext
        /\ UNCHANGED <<peopleVars, operatorsVars, draftsVars, confirmationVars,
                       ballotPaperVars, custodyVars, votingVars, signingVars,
                       detailsVars, auditVars>>
     \/ part = "drafts" /\ DraftsNext
        /\ UNCHANGED <<peopleVars, operatorsVars, listingVars, confirmationVars,
                       ballotPaperVars, custodyVars, votingVars, signingVars,
                       detailsVars, auditVars>>
     \/ part = "confirmation" /\ ConfirmationNext
        /\ UNCHANGED <<peopleVars, operatorsVars, listingVars, draftsVars,
                       ballotPaperVars, custodyVars, votingVars, signingVars,
                       detailsVars, auditVars>>
     \/ part = "ballot paper" /\ BallotPaperNext
        /\ UNCHANGED <<peopleVars, operatorsVars, listingVars, draftsVars,
                       confirmationVars, custodyVars, votingVars, signingVars,
                       detailsVars, auditVars>>
     \/ part = "custody" /\ CustodyNext
        /\ UNCHANGED <<peopleVars, operatorsVars, listingVars, draftsVars,
                       confirmationVars, ballotPaperVars, votingVars, signingVars,
                       detailsVars, auditVars>>
     \/ part = "voting" /\ VotingNext
        /\ UNCHANGED <<peopleVars, operatorsVars, listingVars, draftsVars,
                       confirmationVars, ballotPaperVars, custodyVars,
                       signingVars, detailsVars, auditVars>>
     \/ part = "signing" /\ SigningNext
        /\ UNCHANGED <<peopleVars, operatorsVars, listingVars, draftsVars,
                       confirmationVars, ballotPaperVars, custodyVars, votingVars,
                       detailsVars, auditVars>>
     \/ part = "details" /\ DetailsNext
        /\ UNCHANGED <<peopleVars, operatorsVars, listingVars, draftsVars,
                       confirmationVars, ballotPaperVars, custodyVars, votingVars,
                       signingVars, auditVars>>
     \/ part = "audit" /\ AuditNext
        /\ UNCHANGED <<peopleVars, operatorsVars, listingVars, draftsVars,
                       confirmationVars, ballotPaperVars, custodyVars, votingVars,
                       signingVars, detailsVars>>

PortalSpec == PortalInit /\ [][PortalNext]_portalVars

\* The state of the part that runs is of its type.
PortalTypeOK ==
  /\ part = "people" => PeopleTypeOK
  /\ part = "operators" => OperatorsTypeOK
  /\ part = "listing" => ListingTypeOK
  /\ part = "drafts" => DraftsTypeOK
  /\ part = "confirmation" => ConfirmationTypeOK
  /\ part = "ballot paper" => BallotPaperTypeOK
  /\ part = "custody" => CustodyTypeOK
  /\ part = "voting" => VotingTypeOK
  /\ part = "signing" => SigningTypeOK
  /\ part = "details" => DetailsTypeOK
  /\ part = "audit" => AuditTypeOK
=============================================================================
