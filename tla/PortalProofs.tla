---------------------------- MODULE PortalProofs ----------------------------
(***************************************************************************)
(* The portal's behaviours are behaviours of each of its parts, so what is *)
(* proved of a part holds in the portal.                                   *)
(***************************************************************************)
EXTENDS Portal, PeopleProofs, OperatorsProofs, PagesProofs, VoterProofs

\* In every step of the portal a part takes a step of its own or rests.
LEMMA PortalStep ==
  ASSUME [PortalNext]_portalVars
  PROVE  /\ [PeopleNext]_peopleVars
         /\ [OperatorsNext]_operatorsVars
         /\ [ListingNext]_listingVars
         /\ [DraftsNext]_draftsVars
         /\ [ConfirmationNext]_confirmationVars
         /\ [BallotPaperNext]_ballotPaperVars
         /\ [CustodyNext]_custodyVars
         /\ [VotingNext]_votingVars
         /\ [SigningNext]_signingVars
         /\ [DetailsNext]_detailsVars
         /\ [AuditNext]_auditVars
BY DEF PortalNext, portalVars

\* Whatever part runs, every part behaves as it would by itself.
THEOREM PartsBehave ==
  PortalSpec => /\ PeopleSpec /\ OperatorsSpec /\ ListingSpec /\ DraftsSpec
                /\ ConfirmationSpec /\ BallotPaperSpec /\ CustodySpec /\ VotingSpec
                /\ SigningSpec /\ DetailsSpec /\ AuditSpec
<1>1. PortalInit => /\ PeopleInit /\ OperatorsInit /\ ListingInit /\ DraftsInit
                    /\ ConfirmationInit /\ BallotPaperInit /\ CustodyInit /\ VotingInit
                    /\ SigningInit /\ DetailsInit /\ AuditInit
  BY DEF PortalInit
<1>2. QED
  BY <1>1, PortalStep, PTL
     DEF PortalSpec, PeopleSpec, OperatorsSpec, ListingSpec, DraftsSpec, ConfirmationSpec,
         BallotPaperSpec, CustodySpec, VotingSpec, SigningSpec, DetailsSpec, AuditSpec

\* The state of whichever part runs is of its type.
THEOREM PortalTypes == PortalSpec => []PortalTypeOK
<1>1. /\ PeopleTypeOK /\ OperatorsTypeOK /\ ListingTypeOK /\ DraftsTypeOK
      /\ ConfirmationTypeOK /\ BallotPaperTypeOK /\ CustodyTypeOK /\ VotingTypeOK
      /\ SigningTypeOK /\ DetailsTypeOK /\ AuditTypeOK
      => PortalTypeOK
  BY DEF PortalTypeOK
<1>2. QED
  BY <1>1, PartsBehave, PeopleTypeCorrect, OperatorsTypeCorrect, ListingTypeCorrect, DraftsTypeCorrect,
     ConfirmationTypeCorrect, BallotPaperTypeCorrect, CustodyTypes, VotingTypes, SigningTypeCorrect,
     DetailsTypeCorrect, AuditTypeCorrect, PTL
=============================================================================
