----------------------- MODULE BallotAccessProperties -----------------------
(***************************************************************************)
(* What must hold of the ballot access links.                              *)
(***************************************************************************)
EXTENDS BallotAccess

AtRest(v) == \A p \in Pass : v \notin Carries(p)

\* The voter's live link was mailed to the address the row shows.
LiveLinkMailed(v) == [link |-> token[v].hash, to |-> token[v].to] \in inbox

\* The dispatch screen tells the truth about a voter whose deliveries never
\* overlapped and were never cut short: shown as SENT, the link that works is in
\* the inbox shown, whatever failures, retries, resends and corrections went before.
TruthfulWhenAlone ==
  \A v \in Voter \ disturbed : token[v].status = "SENT" /\ AtRest(v) => LiveLinkMailed(v)

\* Correcting an address starts the delivery over and revokes the link that went
\* to the wrong one; dispatching again is safe because rows leave PENDING as they
\* are attempted.  So whoever is shown as SENT has the link that works at the
\* address shown.  Both fail: an outcome is written over a correction, and two
\* passes may carry one row.
SentIsLive ==
  \A v \in Voter : token[v].status = "SENT" /\ AtRest(v) => LiveLinkMailed(v)

\* However many administrators click at once, no voter is sent more resends in
\* one window than the limit.
ResendsBounded == \A v \in Voter : clicks[v] <= MaxResends

\* A group is only ever handed out to a link that reached some inbox, and the
\* first collection is one of those that were handed out: the turnout counts
\* voters, neither page loads nor refused links.
TurnoutCounted ==
  \A v \in Voter : /\ (token[v].redeemed # 0) <=> (accepted[v] # 0)
                   /\ accepted[v] # 0 => \E m \in inbox : m.link = accepted[v]

\* The links implement the register: one live link per voter, no dead link
\* accepted even when a rotation runs beside the retrieval, one first collection.
Register == INSTANCE LinkRegister
  WITH live <- [v \in Voter |-> token[v].hash],
       Link <- 1 .. MaxLoad * Batch,
       used <- 1 .. links,
       first <- [v \in Voter |-> token[v].redeemed]
RegisterSpec == Register!Spec
=============================================================================
