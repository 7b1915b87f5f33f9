----------------------- MODULE BallotPaperProperties -----------------------
(***************************************************************************)
(* What officers and voters may rely on about the ballot paper.            *)
(***************************************************************************)
EXTENDS BallotPaper

BallotPaperTypeOK ==
  /\ DOMAIN ballot \subseteq 1 .. added /\ added \in 0 .. MaxEntries
  /\ \A c \in DOMAIN ballot : ballot[c] \in Nat \ {0}
  /\ IsInjective(ballot)
  /\ Range(listed) \subseteq 1 .. added /\ editable \in BOOLEAN
  /\ {editing, meant} \subseteq 0 .. added

\* Whatever removals and chosen positions left the ballot like, and however old the
\* list on the officer's screen: an order is never lost to two candidates in one
\* place on the way, is refused when it is not of the candidates there are, and
\* otherwise becomes the ballot's, without gaps.
OrderAsAsked ==
  reordering # NoOrder /\ IsInjective(reordering.order) =>
    LET whole == Range(reordering.order) = DOMAIN ballot
    IN  /\ reordering.outcome = IF whole /\ ~fixed THEN "written" ELSE "refused"
        /\ reordering.outcome = "written" =>
             \A i \in DOMAIN reordering.order : ballot[reordering.order[i]] = i

\* An order names every candidate exactly once.  It does not hold: the service counts
\* and looks up, and a candidate named twice may stand in for one left out.
EachExactlyOnce == reordering # NoOrder /\ reordering.outcome = "written" => IsInjective(reordering.order)

\* What the form would save is what the officer asked it for.  It does not hold: the
\* button to add a second candidate leaves the first one in the form.
FormAsAsked == editing = meant
=============================================================================
