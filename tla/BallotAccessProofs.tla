------------------------- MODULE BallotAccessProofs -------------------------
(***************************************************************************)
(* What holds of the ballot access links for any roll, any number of       *)
(* requests, batches, browsers, resends and crashes.                       *)
(***************************************************************************)
EXTENDS BallotAccessProperties, TLAPS

Row == [hash : Nat, status : Delivery \cup {"NONE"}, to : Address, redeemed : Nat,
        window : BOOLEAN, resends : Nat]
RowCopy == [voter : Voter, to : Address]

\* A request at work: what it carries, and what the next statement needs.
Carrying == [pc : {"rotate", "allow"}, todo : SUBSET RowCopy]
Redirecting == [pc : {"redirect"}, todo : SUBSET RowCopy, to : Address]
Sending == [pc : {"send"}, todo : SUBSET RowCopy, now : RowCopy, link : Nat \ {0}]
Recording == [pc : {"record"}, todo : SUBSET RowCopy, now : RowCopy, outcome : Delivery]
Retrieving == [pc : {"locked"}, voter : Voter, link : Nat \ {0}]

Typed ==
  /\ roll \subseteq Voter
  /\ token \in [Voter -> Row]
  /\ inbox \subseteq [link : Nat \ {0}, to : Address]
  /\ pass \in [Pass -> {Idle, [Idle EXCEPT !.pc = "claim"]}
                        \cup Carrying \cup Redirecting \cup Sending \cup Recording]
  /\ retrieval \in [Client -> {NoRetrieval} \cup Retrieving]
  /\ links \in Nat
  /\ accepted \in [Voter -> Nat]
  /\ clicks \in [Voter -> Nat]

\* The row a retrieval has locked keeps the link that was presented, and that link
\* came from an inbox.
LocksHold ==
  \A c \in Client : retrieval[c] # NoRetrieval =>
    /\ token[retrieval[c].voter].hash = retrieval[c].link
    /\ \E m \in inbox : m.link = retrieval[c].link

\* While the window lasts, the row counts the resends granted in it.
WindowsCount ==
  \A v \in Voter : clicks[v] <= MaxResends /\ (token[v].window => token[v].resends = clicks[v])

AccessInv == Typed /\ LocksHold /\ WindowsCount /\ TurnoutCounted

\* The register with as many links as are ever wanted.
Links == INSTANCE LinkRegister
  WITH live <- [v \in Voter |-> token[v].hash],
       Link <- Nat \ {0},
       used <- 1 .. links,
       first <- [v \in Voter |-> token[v].redeemed]

\* What the register sees of a step that makes no link and accepts none.
RegisterUnmoved ==
  /\ UNCHANGED <<links, accepted>>
  /\ \A v \in Voter : token'[v].hash = token[v].hash /\ token'[v].redeemed = token[v].redeemed

-----------------------------------------------------------------------------
LEMMA InitHolds == Init => AccessInv
BY AccessAssumption
   DEF Init, AccessInv, Typed, LocksHold, WindowsCount, TurnoutCounted, NoRow, Row, Delivery, NoRetrieval

\* What a request at work carries.
LEMMA PassStates ==
  ASSUME Typed, NEW p \in Pass
  PROVE  /\ pass[p].pc \in {"rotate", "allow"} => pass[p] \in Carrying
         /\ pass[p].pc = "redirect" => pass[p] \in Redirecting
         /\ pass[p].pc = "send" => pass[p] \in Sending
         /\ pass[p].pc = "record" => pass[p] \in Recording
BY DEF Typed, Idle, Carrying, Redirecting, Sending, Recording

LEMMA RetrievalStates ==
  ASSUME Typed, NEW c \in Client
  PROVE  /\ retrieval[c].pc # "idle" => retrieval[c] \in Retrieving /\ retrieval[c] # NoRetrieval
         /\ retrieval[c] # NoRetrieval => retrieval[c].pc = "locked"
BY DEF Typed, NoRetrieval, Retrieving

\* Steps that touch no row, no mail, no retrieval and none of the histories.
LEMMA PassStep ==
  ASSUME AccessInv, Typed', UNCHANGED <<token, inbox, retrieval, links, accepted, clicks>>
  PROVE  AccessInv' /\ RegisterUnmoved
BY DEF AccessInv, LocksHold, WindowsCount, TurnoutCounted, RegisterUnmoved

\* Requests that read before they write.
LEMMA DeliverTyped ==
  ASSUME Typed, NEW p \in Pass, NEW voters \in SUBSET Voter, Deliver(p, voters)
  PROVE  pass' \in [Pass -> {Idle, [Idle EXCEPT !.pc = "claim"]}
                            \cup Carrying \cup Redirecting \cup Sending \cup Recording]
<1> DEFINE carried == [pc |-> "rotate", todo |-> {Copy(v) : v \in voters}]
<1>1. \A v \in voters : Copy(v) \in RowCopy
  BY DEF Typed, Copy, RowCopy, Row
<1>2. carried \in Carrying
  BY <1>1 DEF Carrying
<1>3. pass' = [pass EXCEPT ![p] = Idle] \/ pass' = [pass EXCEPT ![p] = carried]
  BY DEF Deliver
<1> HIDE DEF carried
<1>4. QED BY <1>2, <1>3 DEF Typed

LEMMA DispatchHolds ==
  ASSUME AccessInv, NEW p \in Pass, DispatchPending(p) \/ RetryFailed(p)
  PROVE  AccessInv' /\ RegisterUnmoved
<1>1. UNCHANGED <<database, retrieval, accepted, clicks>>
  BY DEF DispatchPending, RetryFailed
<1>2. PICK voters \in SUBSET Voter : Deliver(p, voters)
  <2>1. \A state : \A page \in Page(state) : page \subseteq Voter
    BY DEF Page, Issued
  <2>2. QED BY <2>1 DEF DispatchPending, RetryFailed, ClaimPending
<1>3. Typed'
  BY <1>1, <1>2, DeliverTyped DEF AccessInv, Typed, database
<1>4. QED BY <1>1, <1>3, PassStep DEF database

LEMMA FindHolds ==
  ASSUME AccessInv, NEW p \in Pass, NEW v \in Voter, NEW a \in Address,
         FindForResend(p, v) \/ FindForRecipient(p, v, a)
  PROVE  AccessInv' /\ RegisterUnmoved
<1> DEFINE asked == [pc |-> "allow", todo |-> {Copy(v)}]
           moved == [pc |-> "redirect", todo |-> {Copy(v)}, to |-> a]
<1>1. Copy(v) \in RowCopy
  BY DEF AccessInv, Typed, Copy, RowCopy, Row
<1>2. asked \in Carrying /\ moved \in Redirecting
  BY <1>1 DEF Carrying, Redirecting
<1>3. /\ pass' = [pass EXCEPT ![p] = asked] \/ pass' = [pass EXCEPT ![p] = moved]
      /\ UNCHANGED <<database, retrieval, accepted, clicks>>
  BY DEF FindForResend, FindForRecipient
<1> HIDE DEF asked, moved
<1>4. Typed'
  BY <1>2, <1>3 DEF AccessInv, Typed, database
<1>5. QED BY <1>3, <1>4, PassStep DEF database

\* Issuing writes rows only where there are none.
LEMMA IssueHolds ==
  ASSUME AccessInv, NEW p \in Pass, IssueTokens(p)
  PROVE  AccessInv' /\ RegisterUnmoved
<1> DEFINE fresh == [NoRow EXCEPT !.status = "PENDING"]
<1>1. /\ NoRow \in Row /\ NoRow.hash = 0 /\ NoRow.redeemed = 0 /\ ~NoRow.window
      /\ fresh \in Row /\ fresh.hash = 0 /\ fresh.redeemed = 0 /\ ~fresh.window
  BY AccessAssumption DEF NoRow, Row, Delivery
<1>2. /\ token' = [v \in Voter |-> IF v \in roll /\ token[v] = NoRow THEN fresh ELSE token[v]]
      /\ pass' = [pass EXCEPT ![p] = [Idle EXCEPT !.pc = "claim"]]
      /\ UNCHANGED <<roll, inbox, links, retrieval, accepted, clicks>>
  BY DEF IssueTokens, InsertTokens, history
<1> HIDE DEF fresh
<1>3. Typed'
  BY <1>1, <1>2 DEF AccessInv, Typed
<1>4. RegisterUnmoved /\ \A v \in Voter : token'[v] = token[v] \/ ~token'[v].window
  BY <1>1, <1>2 DEF RegisterUnmoved
<1>5. LocksHold'
  BY <1>2, <1>4, RetrievalStates DEF AccessInv, Typed, LocksHold, RegisterUnmoved, Retrieving
<1>6. WindowsCount'
  BY <1>2, <1>4 DEF AccessInv, WindowsCount
<1>7. TurnoutCounted'
  BY <1>2, <1>4 DEF AccessInv, TurnoutCounted, RegisterUnmoved
<1>8. QED BY <1>3, <1>4, <1>5, <1>6, <1>7 DEF AccessInv

\* A new link for a row that no retrieval has locked.
LEMMA RotateHolds ==
  ASSUME AccessInv, NEW p \in Pass, Rotate(p)
  PROVE  AccessInv' /\ \E v \in Voter : Links!Mint(v)
<1>1. PICK c \in pass[p].todo :
        /\ Unlocked(c.voter)
        /\ links' = links + 1
        /\ token' = [token EXCEPT ![c.voter].hash = links + 1]
        /\ pass' = [pass EXCEPT ![p] = [pc |-> "send", todo |-> @.todo, now |-> c, link |-> links + 1]]
  BY DEF Rotate
<1> DEFINE v == c.voter
           row == [token[v] EXCEPT !.hash = links + 1]
           sending == [pc |-> "send", todo |-> pass[p].todo, now |-> c, link |-> links + 1]
<1>2. pass[p] \in Carrying /\ UNCHANGED <<roll, inbox, retrieval, accepted, clicks>>
  BY PassStates DEF Rotate, AccessInv, history
<1>3. c \in RowCopy /\ v \in Voter /\ links + 1 \in Nat \ {0} /\ token[v] \in Row
  BY <1>2 DEF Carrying, RowCopy, AccessInv, Typed
<1>4. /\ row \in Row /\ row.hash = links + 1 /\ row.redeemed = token[v].redeemed
      /\ row.window = token[v].window /\ row.resends = token[v].resends
  BY <1>3 DEF Row
<1>5. sending \in Sending
  BY <1>2, <1>3 DEF Sending, Carrying
<1>6. token' = [token EXCEPT ![v] = row] /\ pass' = [pass EXCEPT ![p] = sending]
  BY <1>1 DEF AccessInv, Typed
<1> HIDE DEF row, sending
<1>7. Typed'
  BY <1>1, <1>2, <1>3, <1>4, <1>5, <1>6 DEF AccessInv, Typed
<1>8. LocksHold'
  <2>1. \A d \in Client : retrieval[d] # NoRetrieval => retrieval[d].voter # v
    BY <1>1, RetrievalStates DEF AccessInv, Unlocked, Locked
  <2>2. QED BY <2>1, <1>2, <1>6 DEF AccessInv, Typed, LocksHold
<1>9. WindowsCount'
  BY <1>2, <1>3, <1>4, <1>6 DEF AccessInv, Typed, WindowsCount
<1>10. TurnoutCounted'
  BY <1>2, <1>3, <1>4, <1>6 DEF AccessInv, Typed, TurnoutCounted
<1>11. Links!Mint(v)
  <2>1. links + 1 \in (Nat \ {0}) \ (1 .. links)
    BY <1>3 DEF AccessInv, Typed
  <2>2. 1 .. links' = 1 .. links \cup {links + 1}
    BY <1>1 DEF AccessInv, Typed
  <2>3. [u \in Voter |-> token'[u].hash] = [[u \in Voter |-> token[u].hash] EXCEPT ![v] = links + 1]
    BY <1>3, <1>4, <1>6 DEF AccessInv, Typed
  <2>4. [u \in Voter |-> token'[u].redeemed] = [u \in Voter |-> token[u].redeemed]
    BY <1>3, <1>4, <1>6 DEF AccessInv, Typed
  <2>5. QED BY <2>1, <2>2, <2>3, <2>4, <1>2 DEF Links!Mint
<1>12. QED BY <1>3, <1>7, <1>8, <1>9, <1>10, <1>11 DEF AccessInv

\* A mail that arrives carries a link that was made.
LEMMA SendHolds ==
  ASSUME AccessInv, NEW p \in Pass, Send(p)
  PROVE  AccessInv' /\ RegisterUnmoved
<1> DEFINE state(a) == [pc |-> "record", todo |-> pass[p].todo, now |-> pass[p].now, outcome |-> a.status]
           mail == [link |-> pass[p].link, to |-> pass[p].now.to]
<1>1. pass[p] \in Sending
  BY PassStates DEF Send, AccessInv
<1>2. PICK a \in Answers :
        /\ inbox' = IF a.arrived THEN inbox \cup {mail} ELSE inbox
        /\ pass' = [pass EXCEPT ![p] = state(a)]
  BY DEF Send, AccessInv, Typed
<1>3. state(a) \in Recording /\ mail \in [link : Nat \ {0}, to : Address]
  BY <1>1 DEF Answers, Delivery, Sending, Recording, RowCopy
<1>4. UNCHANGED <<roll, token, links, retrieval, accepted, clicks>>
  BY DEF Send, history
<1> HIDE DEF state, mail
<1>5. inbox \subseteq inbox' /\ inbox' \subseteq [link : Nat \ {0}, to : Address]
  BY <1>2, <1>3 DEF AccessInv, Typed
<1>6. Typed'
  BY <1>2, <1>3, <1>4, <1>5 DEF AccessInv, Typed
<1>7. QED BY <1>4, <1>5, <1>6
          DEF AccessInv, LocksHold, WindowsCount, TurnoutCounted, RegisterUnmoved

\* Rows that change in what the register does not see.
LEMMA RowStep ==
  ASSUME AccessInv, Typed', NEW v \in Voter, NEW row \in Row,
         token' = [token EXCEPT ![v] = row],
         row.hash = token[v].hash, row.redeemed = token[v].redeemed,
         UNCHANGED <<inbox, retrieval, links, accepted>>,
         \A u \in Voter \ {v} : clicks'[u] = clicks[u],
         clicks'[v] <= MaxResends,
         row.window => row.resends = clicks'[v]
  PROVE  AccessInv' /\ RegisterUnmoved
<1>1. RegisterUnmoved
  BY DEF RegisterUnmoved, AccessInv, Typed
<1>2. LocksHold'
  BY <1>1, RetrievalStates DEF AccessInv, Typed, LocksHold, RegisterUnmoved, Retrieving
<1>3. WindowsCount'
  BY DEF AccessInv, Typed, WindowsCount
<1>4. TurnoutCounted'
  BY <1>1 DEF AccessInv, TurnoutCounted, RegisterUnmoved
<1>5. QED BY <1>1, <1>2, <1>3, <1>4 DEF AccessInv

LEMMA RecordHolds ==
  ASSUME AccessInv, NEW p \in Pass, Record(p)
  PROVE  AccessInv' /\ RegisterUnmoved
<1> DEFINE v == pass[p].now.voter
           rest == pass[p].todo \ {pass[p].now}
           further == [pc |-> "rotate", todo |-> rest]
           row == [token[v] EXCEPT !.status = pass[p].outcome]
<1>1. pass[p] \in Recording
  BY PassStates DEF Record, AccessInv
<1>2. v \in Voter /\ token[v] \in Row /\ further \in Carrying
  BY <1>1 DEF Recording, RowCopy, Carrying, AccessInv, Typed
<1>3. /\ row \in Row /\ row.hash = token[v].hash /\ row.redeemed = token[v].redeemed
      /\ row.window = token[v].window /\ row.resends = token[v].resends
  BY <1>1, <1>2 DEF Recording, Row
<1>4. token' = [token EXCEPT ![v] = row]
  BY DEF Record, RecordDeliveryAttempt, AccessInv, Typed
<1>5. pass' = [pass EXCEPT ![p] = Idle] \/ pass' = [pass EXCEPT ![p] = further]
  BY DEF Record
<1>6. UNCHANGED <<roll, inbox, retrieval, links, accepted, clicks>>
  BY DEF Record, history
<1> HIDE DEF further, row
<1>7. Typed'
  BY <1>2, <1>3, <1>4, <1>5, <1>6 DEF AccessInv, Typed
<1>8. clicks'[v] <= MaxResends /\ (row.window => row.resends = clicks'[v])
  BY <1>2, <1>3, <1>6 DEF AccessInv, WindowsCount
<1>9. QED BY <1>2, <1>3, <1>4, <1>6, <1>7, <1>8, RowStep

LEMMA ChangeRecipientHolds ==
  ASSUME AccessInv, NEW p \in Pass, ChangeRecipient(p)
  PROVE  AccessInv' /\ RegisterUnmoved
<1>1. pass[p] \in Redirecting
  BY PassStates DEF ChangeRecipient, AccessInv
<1>2. PICK v \in Carries(p) : token' = [token EXCEPT ![v].to = pass[p].to, ![v].status = "PENDING"]
  BY DEF ChangeRecipient
<1> DEFINE row == [token[v] EXCEPT !.to = pass[p].to, !.status = "PENDING"]
<1>3. v \in Voter /\ token[v] \in Row /\ pass[p].to \in Address
  BY <1>1, <1>2 DEF Redirecting, Carries, RowCopy, AccessInv, Typed
<1>4. /\ row \in Row /\ row.hash = token[v].hash /\ row.redeemed = token[v].redeemed
      /\ row.window = token[v].window /\ row.resends = token[v].resends
  BY <1>3 DEF Row, Delivery
<1>5. token' = [token EXCEPT ![v] = row]
  BY <1>2 DEF AccessInv, Typed
<1>6. pass' = [pass EXCEPT ![p] = Idle] /\ UNCHANGED <<roll, inbox, retrieval, links, accepted, clicks>>
  BY DEF ChangeRecipient, history
<1> HIDE DEF row
<1>7. Typed'
  BY <1>3, <1>4, <1>5, <1>6 DEF AccessInv, Typed
<1>8. clicks'[v] <= MaxResends /\ (row.window => row.resends = clicks'[v])
  BY <1>3, <1>4, <1>6 DEF AccessInv, WindowsCount
<1>9. QED BY <1>3, <1>4, <1>5, <1>6, <1>7, <1>8, RowStep

\* The allowance is consumed and counted in one statement.
LEMMA ResendTokenHolds ==
  ASSUME AccessInv, NEW p \in Pass, ResendToken(p)
  PROVE  AccessInv' /\ RegisterUnmoved
<1>1. pass[p] \in Carrying
  BY PassStates DEF ResendToken, AccessInv
<1>2. UNCHANGED <<roll, inbox, retrieval, links, accepted>>
  BY DEF ResendToken
<1>3. PICK v \in Carries(p) :
        \/ ConsumeResendAllowance(p, v)
        \/ pass' = [pass EXCEPT ![p] = Idle] /\ UNCHANGED <<token, clicks>>
  BY DEF ResendToken
<1>4. v \in Voter /\ token[v] \in Row
  BY <1>1, <1>3 DEF Carrying, Carries, RowCopy, AccessInv, Typed
<1>5. CASE pass' = [pass EXCEPT ![p] = Idle] /\ UNCHANGED <<token, clicks>>
  <2>1. Typed'
    BY <1>2, <1>5 DEF AccessInv, Typed
  <2>2. QED BY <1>2, <1>5, <2>1, PassStep
<1>6. CASE ConsumeResendAllowance(p, v)
  <2> DEFINE n == IF WindowOver(v) THEN 1 ELSE token[v].resends + 1
             row == [token[v] EXCEPT !.window = TRUE, !.resends = n]
             carried == [pc |-> "rotate", todo |-> {Copy(v)}]
  <2>1. n \in Nat /\ n <= MaxResends
    BY <1>4, <1>6, AccessAssumption DEF ConsumeResendAllowance, Allowed, WindowOver, Row
  <2>2. /\ row \in Row /\ row.hash = token[v].hash /\ row.redeemed = token[v].redeemed
        /\ row.window /\ row.resends = n
    <3> HIDE DEF n
    <3>1. QED BY <1>4, <2>1 DEF Row
  <2>3. token' = [token EXCEPT ![v] = row]
    BY <1>4, <1>6 DEF ConsumeResendAllowance, AccessInv, Typed
  <2>4. clicks' = [clicks EXCEPT ![v] = n]
    <3>1. ~WindowOver(v) => clicks[v] = token[v].resends
      BY <1>4 DEF WindowOver, AccessInv, WindowsCount
    <3>2. QED BY <1>4, <1>6, <3>1 DEF ConsumeResendAllowance, AccessInv, Typed
  <2>5. carried \in Carrying
    BY <1>4 DEF Carrying, RowCopy, Copy, Row
  <2>6. pass' = [pass EXCEPT ![p] = carried]
    BY <1>6 DEF ConsumeResendAllowance
  <2> HIDE DEF n, row, carried
  <2>7. Typed'
    BY <1>2, <1>4, <2>1, <2>2, <2>3, <2>4, <2>5, <2>6 DEF AccessInv, Typed
  <2>8. /\ clicks'[v] <= MaxResends /\ (row.window => row.resends = clicks'[v])
        /\ \A u \in Voter \ {v} : clicks'[u] = clicks[u]
    BY <1>4, <2>1, <2>2, <2>4 DEF AccessInv, Typed
  <2>9. QED BY <1>2, <1>4, <2>2, <2>3, <2>7, <2>8, RowStep
<1>7. QED BY <1>3, <1>5, <1>6

LEMMA WindowRunsOutHolds ==
  ASSUME AccessInv, NEW v \in Voter, WindowRunsOut(v)
  PROVE  AccessInv' /\ RegisterUnmoved
<1> DEFINE row == [token[v] EXCEPT !.window = FALSE, !.resends = 0]
<1>1. token[v] \in Row
  BY DEF AccessInv, Typed
<1>2. row \in Row /\ row.hash = token[v].hash /\ row.redeemed = token[v].redeemed /\ ~row.window
  BY <1>1 DEF Row
<1>3. token' = [token EXCEPT ![v] = row]
  BY DEF WindowRunsOut, AccessInv, Typed
<1>4. UNCHANGED <<roll, pass, inbox, retrieval, links, accepted, clicks>>
  BY DEF WindowRunsOut, history
<1> HIDE DEF row
<1>5. Typed'
  BY <1>2, <1>3, <1>4 DEF AccessInv, Typed
<1>6. clicks'[v] <= MaxResends
  BY <1>4 DEF AccessInv, WindowsCount
<1>7. QED BY <1>2, <1>3, <1>4, <1>5, <1>6, RowStep

\* A retrieval starts with a link from an inbox, and locks the row that has it.
LEMMA LockTokenByHashHolds ==
  ASSUME AccessInv, NEW c \in Client, NEW m \in inbox, LockTokenByHash(c, m.link)
  PROVE  AccessInv' /\ RegisterUnmoved
<1>1. PICK v \in Voter :
        /\ token[v].hash = m.link
        /\ retrieval' = [retrieval EXCEPT ![c] = [pc |-> "locked", voter |-> v, link |-> m.link]]
  BY DEF LockTokenByHash
<1> DEFINE now == [pc |-> "locked", voter |-> v, link |-> m.link]
<1>2. now \in Retrieving /\ now.voter = v /\ now.link = m.link
  BY DEF AccessInv, Typed, Retrieving
<1>3. UNCHANGED <<roll, token, inbox, links, pass, accepted, clicks>>
  BY DEF LockTokenByHash, database, history
<1>4. retrieval' = [retrieval EXCEPT ![c] = now]
  BY <1>1
<1> HIDE DEF now
<1>5. Typed'
  BY <1>2, <1>3, <1>4 DEF AccessInv, Typed
<1>6. LocksHold'
  BY <1>1, <1>2, <1>3, <1>4 DEF AccessInv, Typed, LocksHold
<1>7. QED BY <1>3, <1>5, <1>6 DEF AccessInv, WindowsCount, TurnoutCounted, RegisterUnmoved

\* The locked row is stamped once, and the group handed out for its live link.
LEMMA RedeemForRingHolds ==
  ASSUME AccessInv, NEW c \in Client, RedeemForRing(c)
  PROVE  AccessInv' /\ (RegisterUnmoved \/ \E v \in Voter : Links!Accept(v))
<1>1. retrieval[c] \in Retrieving /\ retrieval[c] # NoRetrieval
  BY RetrievalStates DEF RedeemForRing, AccessInv
<1> PICK v \in Voter : v = retrieval[c].voter
  BY <1>1 DEF Retrieving
<1> DEFINE link == retrieval[c].link
           first == IF token[v].redeemed = 0 THEN link ELSE token[v].redeemed
           row == [token[v] EXCEPT !.redeemed = first]
<1>2. /\ link \in Nat \ {0} /\ token[v] \in Row /\ token[v].hash = link
      /\ \E m \in inbox : m.link = link
  BY <1>1 DEF Retrieving, AccessInv, Typed, LocksHold
<1>3. /\ retrieval' = [retrieval EXCEPT ![c] = NoRetrieval]
      /\ UNCHANGED <<roll, inbox, links, pass, clicks>>
  BY DEF RedeemForRing
<1>4. CASE UNCHANGED <<token, accepted>>
  <2>1. Typed' /\ LocksHold'
    BY <1>3, <1>4 DEF AccessInv, Typed, LocksHold
  <2>2. QED BY <1>3, <1>4, <2>1 DEF AccessInv, WindowsCount, TurnoutCounted, RegisterUnmoved
<1>5. CASE MarkTokenRedeemed(v, link) /\ accepted' = [accepted EXCEPT ![v] = link]
  <2>1. first \in Nat \ {0}
    BY <1>2 DEF Row
  <2>2. /\ row \in Row /\ row.hash = token[v].hash /\ row.redeemed = first
        /\ row.window = token[v].window /\ row.resends = token[v].resends
    <3> HIDE DEF first
    <3>1. QED BY <1>2, <2>1 DEF Row
  <2>3. token' = [token EXCEPT ![v] = row]
    BY <1>2, <1>5 DEF MarkTokenRedeemed, AccessInv, Typed
  <2>4. Links!Accept(v)
    <3>1. [u \in Voter |-> token'[u].hash] = [u \in Voter |-> token[u].hash]
      <4> HIDE DEF row
      <4>1. QED BY <1>2, <2>2, <2>3 DEF AccessInv, Typed
    <3>2. [u \in Voter |-> token'[u].redeemed]
            = [[u \in Voter |-> token[u].redeemed] EXCEPT ![v] = first]
      <4> HIDE DEF row, first
      <4>1. QED BY <1>2, <2>2, <2>3 DEF AccessInv, Typed
    <3>3. QED BY <1>2, <1>3, <1>5, <3>1, <3>2 DEF Links!Accept
  <2> HIDE DEF row, first
  <2>5. Typed'
    BY <1>2, <1>3, <1>5, <2>2, <2>3 DEF AccessInv, Typed
  <2>6. LocksHold'
    BY <1>2, <1>3, <2>2, <2>3, RetrievalStates DEF AccessInv, Typed, LocksHold, Retrieving
  <2>7. WindowsCount'
    BY <1>2, <1>3, <2>2, <2>3 DEF AccessInv, Typed, WindowsCount
  <2>8. TurnoutCounted'
    BY <1>2, <1>3, <1>5, <2>1, <2>2, <2>3 DEF AccessInv, Typed, TurnoutCounted
  <2>9. AccessInv'
    BY <2>5, <2>6, <2>7, <2>8 DEF AccessInv
  <2>10. QED BY <2>4, <2>9
<1>6. QED BY <1>4, <1>5 DEF RedeemForRing

\* Time passes; the server stops.
LEMMA WorldHolds ==
  ASSUME AccessInv, Advance \/ Crash \/ UNCHANGED vars
  PROVE  AccessInv' /\ RegisterUnmoved
<1>1. UNCHANGED <<roll, token, inbox, links, accepted, clicks>>
  BY DEF Advance, Crash, vars, database, history
<1>2. \/ UNCHANGED <<pass, retrieval>>
      \/ pass' = [p \in Pass |-> Idle] /\ retrieval' = [c \in Client |-> NoRetrieval]
  BY DEF Advance, Crash, vars
<1>3. Typed' /\ LocksHold'
  BY <1>1, <1>2 DEF AccessInv, Typed, LocksHold
<1>4. QED BY <1>1, <1>3 DEF AccessInv, WindowsCount, TurnoutCounted, RegisterUnmoved

-----------------------------------------------------------------------------
\* Every step keeps the invariant, and is a step of the register or none at all.
LEMMA AccessStep ==
  ASSUME AccessInv, [Next]_vars
  PROVE  AccessInv' /\ (RegisterUnmoved \/ \E v \in Voter : Links!Mint(v) \/ Links!Accept(v))
<1>1. ASSUME NEW p \in Pass, Request(p) \/ Continue(p)
      PROVE  AccessInv' /\ (RegisterUnmoved \/ \E v \in Voter : Links!Mint(v))
  <2>1. ASSUME Request(p)
        PROVE  AccessInv' /\ RegisterUnmoved
    <3>1. ASSUME NEW v \in Voter, FindForResend(p, v)
          PROVE  AccessInv' /\ RegisterUnmoved
      <4>1. Registered \in Address
        BY AccessAssumption
      <4>2. QED BY <3>1, <4>1, FindHolds
    <3>2. QED BY <2>1, <3>1, IssueHolds, DispatchHolds, FindHolds DEF Request
  <2>2. QED BY <1>1, <2>1, DispatchHolds, RotateHolds, SendHolds, RecordHolds, ResendTokenHolds,
               ChangeRecipientHolds DEF Continue
<1>2. ASSUME NEW c \in Client, RedeemForRing(c) \/ \E m \in inbox : LockTokenByHash(c, m.link)
      PROVE  AccessInv' /\ (RegisterUnmoved \/ \E v \in Voter : Links!Accept(v))
  BY <1>2, RedeemForRingHolds, LockTokenByHashHolds
<1>3. QED BY <1>1, <1>2, WindowRunsOutHolds, WorldHolds DEF Next

\* Rows, retrievals and histories agree, however requests interleave.
THEOREM AccessInvariant == Spec => []AccessInv
<1>1. AccessInv /\ [Next]_vars => AccessInv'
  BY AccessStep
<1>2. QED BY <1>1, InitHolds, PTL DEF Spec

\* The resend limit holds however many administrators click at once
\* (consumeResendAllowance).
THEOREM ResendsBoundedAlways == Spec => []ResendsBounded
<1>1. AccessInv => ResendsBounded
  BY DEF AccessInv, WindowsCount, ResendsBounded
<1>2. QED BY <1>1, AccessInvariant, PTL

\* Whoever is counted as having collected the group presented a mailed link.
THEOREM TurnoutCountedAlways == Spec => []TurnoutCounted
<1>1. AccessInv => TurnoutCounted
  BY DEF AccessInv
<1>2. QED BY <1>1, AccessInvariant, PTL

\* The links implement the register: one live link per voter, no dead link accepted,
\* one first collection (ballotAccess.service.ts).
THEOREM AccessImplementsRegister == Spec => Links!Spec
<1>1. Init => Links!Init
  BY DEF Init, Links!Init, NoRow
<1>2. AccessInv /\ [Next]_vars =>
        [Links!Next]_<<[v \in Voter |-> token[v].hash], 1 .. links, accepted,
                       [v \in Voter |-> token[v].redeemed]>>
  <2> SUFFICES ASSUME AccessInv, [Next]_vars
               PROVE  [Links!Next]_<<[v \in Voter |-> token[v].hash], 1 .. links, accepted,
                                     [v \in Voter |-> token[v].redeemed]>>
    OBVIOUS
  <2>1. CASE RegisterUnmoved
    <3>1. [v \in Voter |-> token'[v].hash] = [v \in Voter |-> token[v].hash]
      BY <2>1 DEF RegisterUnmoved
    <3>2. [v \in Voter |-> token'[v].redeemed] = [v \in Voter |-> token[v].redeemed]
      BY <2>1 DEF RegisterUnmoved
    <3>3. QED BY <2>1, <3>1, <3>2 DEF RegisterUnmoved
  <2>2. CASE \E v \in Voter : Links!Mint(v) \/ Links!Accept(v)
    BY <2>2 DEF Links!Next
  <2>3. QED BY <2>1, <2>2, AccessStep
<1>3. QED BY <1>1, <1>2, AccessInvariant, PTL DEF Spec, Links!Spec

-----------------------------------------------------------------------------
\* What a row keeps to: links made so far, the resend limit, and the roll.
RowBounded(v) ==
  /\ {token[v].hash, token[v].redeemed, accepted[v]} \subseteq 0 .. links
  /\ token[v].resends \in 0 .. MaxResends
  /\ token[v] # NoRow => token[v].status # "NONE" /\ v \in roll

\* What a request keeps to: copies of rows that exist, one of each.
PassBounded(p) ==
  /\ Carries(p) \subseteq Issued
  /\ \A c, d \in pass[p].todo : c.voter = d.voter => c = d
  /\ pass[p].pc = "send" => pass[p].link <= links
  /\ pass[p].pc \in {"send", "record"} => pass[p].now \in pass[p].todo

Bounded ==
  /\ status \in {"RINGS_FROZEN", "VOTING_OPEN", "VOTING_CLOSED"}
  /\ expired \in BOOLEAN
  /\ disturbed \subseteq Voter
  /\ \A v \in Voter : RowBounded(v)
  /\ \A m \in inbox : m.link <= links
  /\ \A p \in Pass : PassBounded(p)

\* Whoever attempts v's delivery copied the address the row still shows, and has the
\* link that works.
CopyCurrent(p, v) ==
  /\ \A c \in pass[p].todo : c.voter = v => c.to = token[v].to
  /\ pass[p].pc = "send" /\ pass[p].now.voter = v => pass[p].link = token[v].hash
  /\ pass[p].pc = "record" /\ pass[p].now.voter = v /\ pass[p].outcome = "SENT" =>
       LiveLinkMailed(v)

\* No request is about to attempt v's delivery.
NotUnderWay(v) == \A p \in Pass : v \in Carries(p) => pass[p].pc \in {"allow", "redirect"}

\* A delivery that no other overlaps.
Alone(v) ==
  /\ \A p, q \in Pass : v \in Carries(p) /\ v \in Carries(q) => p = q
  /\ \A p \in Pass : CopyCurrent(p, v)
  /\ token[v].status = "SENT" /\ NotUnderWay(v) => LiveLinkMailed(v)

AllAlone == \A v \in Voter \ disturbed : Alone(v)

DeliveryInv == AccessInv /\ Bounded /\ AllAlone

\* What a step of request p leaves of the others.
OnlyPass(p) == \A q \in Pass \ {p} : pass'[q] = pass[q]

LEMMA DeliveryInit == Init => Bounded /\ AllAlone
<1> SUFFICES ASSUME Init PROVE Bounded /\ AllAlone
  OBVIOUS
<1>1. /\ \A v \in Voter : token[v] = NoRow /\ accepted[v] = 0
      /\ \A p \in Pass : pass[p] = Idle
      /\ inbox = {} /\ links = 0 /\ disturbed = {} /\ expired = FALSE /\ status = "RINGS_FROZEN"
  BY DEF Init
<1>2. \A p \in Pass : pass[p].todo = {} /\ pass[p].pc = "idle" /\ Carries(p) = {}
  BY <1>1 DEF Idle, Carries
<1>3. \A v \in Voter : RowBounded(v)
  <2>1. NoRow.hash = 0 /\ NoRow.redeemed = 0 /\ NoRow.resends = 0
    BY DEF NoRow
  <2>2. 0 \in 0 .. links /\ 0 \in 0 .. MaxResends
    BY <1>1, AccessAssumption
  <2>3. QED BY <1>1, <2>1, <2>2 DEF RowBounded
<1>4. \A p \in Pass : PassBounded(p)
  BY <1>2 DEF PassBounded
<1>5. \A v \in Voter : token[v].status # "SENT"
  BY <1>1 DEF NoRow
<1>6. AllAlone
  BY <1>2, <1>5 DEF AllAlone, Alone, CopyCurrent
<1>7. QED BY <1>1, <1>3, <1>4, <1>6 DEF Bounded

\* Requests that did not move keep to what they kept to.
LEMMA OthersBounded ==
  ASSUME Typed, Bounded, NEW q \in Pass, pass'[q] = pass[q],
         links' \in Nat, links <= links', Issued \subseteq Issued'
  PROVE  PassBounded(q)'
<1>1. pass[q].pc = "send" => pass[q].link \in Nat
  BY PassStates DEF Sending
<1>2. Carries(q)' = Carries(q)
  BY DEF Carries
<1>3. QED BY <1>1, <1>2 DEF Bounded, PassBounded, Typed

\* A row that exists changes within its limits.
LEMMA RowChanges ==
  ASSUME Typed, Bounded, NEW v \in Issued, NEW row \in Row, token' = [token EXCEPT ![v] = row],
         row.status # "NONE", links' \in Nat, links <= links',
         {row.hash, row.redeemed, accepted'[v]} \subseteq 0 .. links',
         row.resends <= MaxResends,
         \A u \in Voter \ {v} : accepted'[u] = accepted[u], roll' = roll
  PROVE  (\A u \in Voter : RowBounded(u)') /\ Issued \subseteq Issued'
<1>1. v \in Voter /\ v \in roll
  BY DEF Issued, Bounded, RowBounded
<1>2. row # NoRow
  BY DEF NoRow
<1>3. token'[v] = row /\ \A u \in Voter \ {v} : token'[u] = token[u]
  BY <1>1 DEF Typed
<1>4. RowBounded(v)'
  <2>1. row.resends \in 0 .. MaxResends
    BY DEF Row
  <2>2. QED BY <1>1, <1>3, <2>1 DEF RowBounded
<1>5. ASSUME NEW u \in Voter \ {v} PROVE RowBounded(u)'
  <2>1. RowBounded(u) /\ token'[u] = token[u] /\ accepted'[u] = accepted[u]
    BY <1>3 DEF Bounded
  <2>2. 0 .. links \subseteq 0 .. links'
    BY DEF Typed
  <2>3. QED BY <2>1, <2>2 DEF RowBounded
<1>6. Issued \subseteq Issued'
  BY <1>1, <1>2, <1>3 DEF Issued
<1>7. QED BY <1>4, <1>5, <1>6

\* A voter whose row, mail and requests stay as they are, or who is let go by a
\* request that had not set out to deliver.
LEMMA AloneKept ==
  ASSUME NEW u \in Voter, Alone(u), NEW p \in Pass, OnlyPass(p), inbox \subseteq inbox',
         token'[u].hash = token[u].hash, token'[u].to = token[u].to,
         token'[u].status = token[u].status,
         Bounded',
         \/ u \notin Carries(p)' /\ (u \in Carries(p) => pass[p].pc \in {"allow", "redirect"})
         \/ /\ u \in Carries(p) /\ u \in Carries(p)' /\ CopyCurrent(p, u)'
            /\ pass'[p].pc \notin {"allow", "redirect"}
  PROVE  Alone(u)'
<1>1. \A q \in Pass \ {p} : Carries(q)' = Carries(q) /\ pass'[q] = pass[q]
  BY DEF Carries, OnlyPass
<1>2. u \in Carries(p)' => u \in Carries(p)
  OBVIOUS
<1>3. LiveLinkMailed(u) => LiveLinkMailed(u)'
  BY DEF LiveLinkMailed
<1>4. ASSUME NEW q \in Pass PROVE CopyCurrent(q, u)'
  <2>1. CASE q # p
    BY <1>1, <1>3, <2>1 DEF Alone, CopyCurrent
  <2>2. CASE q = p /\ u \notin Carries(p)'
    <3>1. \A c \in pass'[p].todo : c.voter # u
      BY <2>2 DEF Carries
    <3>2. pass'[p].pc \in {"send", "record"} => pass'[p].now \in pass'[p].todo
      BY DEF Bounded, PassBounded
    <3>3. QED BY <2>2, <3>1, <3>2 DEF CopyCurrent
  <2>3. QED BY <2>1, <2>2
<1>5. \A q, r \in Pass : u \in Carries(q)' /\ u \in Carries(r)' => q = r
  BY <1>1, <1>2 DEF Alone
<1>6. CASE u \notin Carries(p)' /\ (u \in Carries(p) => pass[p].pc \in {"allow", "redirect"})
  <2>1. NotUnderWay(u)' => NotUnderWay(u)
    BY <1>1, <1>6 DEF NotUnderWay
  <2>2. QED BY <1>3, <1>4, <1>5, <2>1 DEF Alone
<1>7. CASE u \in Carries(p)' /\ pass'[p].pc \notin {"allow", "redirect"}
  <2>1. ~NotUnderWay(u)'
    BY <1>7 DEF NotUnderWay
  <2>2. QED BY <1>4, <1>5, <2>1 DEF Alone
<1>8. QED BY <1>6, <1>7

\* A voter whom only request p carries.
LEMMA AloneWith ==
  ASSUME NEW v \in Voter, NEW p \in Pass, OnlyPass(p), Bounded',
         \A q \in Pass \ {p} : v \notin Carries(q),
         CopyCurrent(p, v)',
         token'[v].status = "SENT" /\ (v \in Carries(p)' => pass'[p].pc \in {"allow", "redirect"})
           => LiveLinkMailed(v)'
  PROVE  Alone(v)'
<1>1. \A q \in Pass \ {p} : v \notin Carries(q)' /\ pass'[q] = pass[q]
  BY DEF Carries, OnlyPass
<1>2. ASSUME NEW q \in Pass \ {p} PROVE CopyCurrent(q, v)'
  <2>1. \A c \in pass'[q].todo : c.voter # v
    BY <1>1 DEF Carries
  <2>2. pass'[q].pc \in {"send", "record"} => pass'[q].now \in pass'[q].todo
    BY DEF Bounded, PassBounded
  <2>3. QED BY <2>1, <2>2 DEF CopyCurrent
<1>3. NotUnderWay(v)' => (v \in Carries(p)' => pass'[p].pc \in {"allow", "redirect"})
  BY DEF NotUnderWay
<1>4. QED BY <1>1, <1>2, <1>3 DEF Alone

\* Requests as they were, and rows that keep link, address and status.
LEMMA PassesStill ==
  ASSUME Bounded, AllAlone, UNCHANGED <<pass, inbox, disturbed>>,
         \A v \in Voter : /\ token'[v].hash = token[v].hash /\ token'[v].to = token[v].to
                          /\ token'[v].status = token[v].status
  PROVE  AllAlone'
<1>1. \A v \in Voter : LiveLinkMailed(v)' <=> LiveLinkMailed(v)
  BY DEF LiveLinkMailed
<1>2. \A p \in Pass : Carries(p)' = Carries(p)
  BY DEF Carries
<1>3. \A v \in Voter, p \in Pass : CopyCurrent(p, v) => CopyCurrent(p, v)'
  BY <1>1 DEF CopyCurrent
<1>4. \A v \in Voter : NotUnderWay(v)' <=> NotUnderWay(v)
  BY <1>2 DEF NotUnderWay
<1>5. QED BY <1>1, <1>2, <1>3, <1>4 DEF AllAlone, Alone

\* A request that starts out with copies of rows it just read.
LEMMA SetsOut ==
  ASSUME DeliveryInv, Typed', NEW p \in Pass, NEW voters \in SUBSET Issued, OnlyPass(p),
         Carries(p) = {}, pass'[p].pc \notin {"send", "record"},
         pass'[p].todo = {Copy(v) : v \in voters},
         pass'[p].pc = "rotate" \/ pass'[p].pc \in {"allow", "redirect"} \/ voters = {},
         disturbed' = disturbed \cup (voters \cap CarriedByOthers(p)),
         UNCHANGED database, UNCHANGED accepted
  PROVE  Bounded' /\ AllAlone'
<1>1. UNCHANGED <<roll, status, expired, token, inbox, links>> /\ Issued' = Issued
  BY DEF database, Issued
<1>2. Carries(p)' = voters
  <2>1. \A v \in voters : Copy(v) \in pass'[p].todo /\ Copy(v).voter = v
    BY DEF Copy
  <2>2. \A c \in pass'[p].todo : \E v \in voters : c.voter = v
    BY DEF Copy
  <2>3. QED BY <2>1, <2>2 DEF Carries
<1>3. \A c, d \in pass'[p].todo : c.voter = d.voter => c = d
  BY DEF Copy
<1>4. PassBounded(p)'
  BY <1>1, <1>2, <1>3 DEF PassBounded
<1>5. \A q \in Pass \ {p} : PassBounded(q)'
  BY <1>1, OthersBounded DEF DeliveryInv, AccessInv, Typed, OnlyPass
<1>6. \A v \in Voter : RowBounded(v)'
  BY <1>1 DEF DeliveryInv, Bounded, RowBounded
<1>7. Bounded'
  BY <1>1, <1>4, <1>5, <1>6 DEF DeliveryInv, Bounded, Issued
<1>8. ASSUME NEW u \in Voter \ disturbed' PROVE Alone(u)'
  <2>1. Alone(u)
    BY DEF DeliveryInv, AllAlone
  <2>2. CASE u \in voters
    <3>1. \A q \in Pass \ {p} : u \notin Carries(q)
      BY <2>2 DEF CarriedByOthers
    <3>2. CopyCurrent(p, u)'
      BY <1>1 DEF CopyCurrent, Copy
    <3>3. NotUnderWay(u)
      BY <3>1 DEF NotUnderWay
    <3>4. LiveLinkMailed(u)' <=> LiveLinkMailed(u)
      BY <1>1 DEF LiveLinkMailed
    <3>5. token'[u].status = "SENT" => LiveLinkMailed(u)'
      BY <1>1, <2>1, <3>3, <3>4 DEF Alone
    <3>6. QED BY <1>7, <3>1, <3>2, <3>5, AloneWith
  <2>3. CASE u \notin voters
    BY <1>1, <1>2, <1>7, <2>1, <2>3, AloneKept
  <2>4. QED BY <2>2, <2>3
<1>9. QED BY <1>7, <1>8 DEF AllAlone

LEMMA StartsEmpty ==
  ASSUME Typed, NEW p \in Pass, pass[p].pc \in {"idle", "claim"}
  PROVE  Carries(p) = {} /\ pass[p].todo = {}
BY DEF Typed, Idle, Carrying, Redirecting, Sending, Recording, Carries

LEMMA DispatchDelivers ==
  ASSUME DeliveryInv, AccessInv', NEW p \in Pass, DispatchPending(p) \/ RetryFailed(p)
  PROVE  Bounded' /\ AllAlone'
<1>1. UNCHANGED database /\ UNCHANGED accepted /\ pass[p].pc \in {"idle", "claim"}
  BY DEF DispatchPending, RetryFailed, Start
<1>2. PICK voters \in SUBSET Issued : Deliver(p, voters)
  <2>1. \A state : \A page \in Page(state) : page \subseteq Issued
    BY DEF Page
  <2>2. QED BY <2>1 DEF DispatchPending, RetryFailed, ClaimPending
<1> DEFINE carried == [pc |-> "rotate", todo |-> {Copy(v) : v \in voters}]
<1>3. \/ voters = {} /\ pass' = [pass EXCEPT ![p] = Idle]
      \/ pass' = [pass EXCEPT ![p] = carried]
  BY <1>2 DEF Deliver
<1>4. carried.pc = "rotate" /\ carried.todo = {Copy(v) : v \in voters}
  OBVIOUS
<1>5. Idle.pc = "idle" /\ Idle.todo = {}
  BY DEF Idle
<1> HIDE DEF carried
<1>6. /\ OnlyPass(p)
      /\ pass'[p].pc \notin {"send", "record"} /\ pass'[p].todo = {Copy(v) : v \in voters}
      /\ pass'[p].pc = "rotate" \/ voters = {}
  BY <1>3, <1>4, <1>5 DEF OnlyPass, DeliveryInv, AccessInv, Typed
<1>7. disturbed' = disturbed \cup (voters \cap CarriedByOthers(p))
  BY <1>2 DEF Deliver
<1>8. Carries(p) = {}
  BY <1>1, StartsEmpty DEF DeliveryInv, AccessInv
<1>9. QED BY <1>1, <1>6, <1>7, <1>8, SetsOut DEF AccessInv

LEMMA FindDelivers ==
  ASSUME DeliveryInv, AccessInv', NEW p \in Pass, NEW v \in Voter, NEW a \in Address,
         FindForResend(p, v) \/ FindForRecipient(p, v, a)
  PROVE  Bounded' /\ AllAlone'
<1> DEFINE asked == [pc |-> "allow", todo |-> {Copy(v)}]
           moved == [pc |-> "redirect", todo |-> {Copy(v)}, to |-> a]
<1>1. /\ UNCHANGED database /\ UNCHANGED accepted /\ pass[p].pc = "idle" /\ v \in Issued
      /\ disturbed' = disturbed \cup ({v} \cap CarriedByOthers(p))
      /\ pass' = [pass EXCEPT ![p] = asked] \/ pass' = [pass EXCEPT ![p] = moved]
  BY DEF FindForResend, FindForRecipient, Start
<1>2. /\ asked.pc = "allow" /\ asked.todo = {Copy(v)}
      /\ moved.pc = "redirect" /\ moved.todo = {Copy(v)}
  OBVIOUS
<1> HIDE DEF asked, moved
<1>3. /\ OnlyPass(p) /\ pass'[p].pc \in {"allow", "redirect"} /\ pass'[p].todo = {Copy(v)}
  BY <1>1, <1>2 DEF OnlyPass, DeliveryInv, AccessInv, Typed
<1>4. {Copy(u) : u \in {v}} = {Copy(v)}
  OBVIOUS
<1>5. Carries(p) = {}
  BY <1>1, StartsEmpty DEF DeliveryInv, AccessInv
<1>6. {v} \in SUBSET Issued
  BY <1>1
<1>7. QED BY <1>1, <1>3, <1>4, <1>5, <1>6, SetsOut DEF AccessInv

\* Rows are written only where there are none, and nobody carries those.
LEMMA IssueDelivers ==
  ASSUME DeliveryInv, AccessInv', NEW p \in Pass, IssueTokens(p)
  PROVE  Bounded' /\ AllAlone'
<1> DEFINE fresh == [NoRow EXCEPT !.status = "PENDING"]
           claiming == [Idle EXCEPT !.pc = "claim"]
<1>1. /\ NoRow.status = "NONE" /\ fresh \in Row /\ fresh.hash = 0 /\ fresh.redeemed = 0
      /\ fresh.resends = 0 /\ fresh.status = "PENDING"
  BY AccessAssumption DEF NoRow, Row, Delivery
<1>2. claiming.pc = "claim" /\ claiming.todo = {}
  BY DEF Idle
<1>3. /\ token' = [v \in Voter |-> IF v \in roll /\ token[v] = NoRow THEN fresh ELSE token[v]]
      /\ pass' = [pass EXCEPT ![p] = claiming] /\ pass[p].pc = "idle"
      /\ UNCHANGED <<roll, status, expired, inbox, links, accepted, disturbed>>
  BY DEF IssueTokens, InsertTokens, history, Start
<1> HIDE DEF fresh, claiming
<1>4. Carries(p) = {} /\ OnlyPass(p) /\ pass'[p].pc = "claim" /\ pass'[p].todo = {}
  BY <1>2, <1>3, StartsEmpty DEF OnlyPass, DeliveryInv, AccessInv, Typed
<1>5. \A v \in Voter : token'[v] = token[v] \/ (v \in roll /\ v \notin Issued /\ token'[v] = fresh)
  BY <1>3 DEF Issued
<1>6. Issued \subseteq Issued'
  BY <1>5 DEF Issued
<1>7. ASSUME NEW v \in Voter PROVE RowBounded(v)'
  <2>1. RowBounded(v) /\ 0 \in 0 .. links /\ 0 \in 0 .. MaxResends
    BY AccessAssumption DEF DeliveryInv, AccessInv, Typed, Bounded
  <2>2. CASE token'[v] = token[v]
    BY <1>3, <2>1, <2>2 DEF RowBounded
  <2>3. CASE v \in roll /\ token'[v] = fresh
    BY <1>1, <1>3, <2>1, <2>3 DEF RowBounded
  <2>4. QED BY <1>5, <2>2, <2>3
<1>8. \A q \in Pass : PassBounded(q)'
  <2>1. \A q \in Pass \ {p} : PassBounded(q)'
    BY <1>3, <1>4, <1>6, OthersBounded DEF DeliveryInv, AccessInv, Typed, OnlyPass
  <2>2. PassBounded(p)'
    BY <1>4 DEF PassBounded, Carries
  <2>3. QED BY <2>1, <2>2
<1>9. Bounded'
  BY <1>3, <1>7, <1>8 DEF DeliveryInv, Bounded
<1>10. ASSUME NEW u \in Voter \ disturbed' PROVE Alone(u)'
  <2>1. Alone(u) /\ Carries(p)' = {}
    BY <1>3, <1>4 DEF DeliveryInv, AllAlone, Carries
  <2>2. CASE token'[u] = token[u]
    BY <1>3, <1>4, <1>9, <2>1, <2>2, AloneKept
  <2>3. CASE u \notin Issued /\ token'[u] = fresh
    <3>1. \A q \in Pass : u \notin Carries(q)
      BY <2>3 DEF DeliveryInv, Bounded, PassBounded
    <3>2. CopyCurrent(p, u)'
      BY <1>4 DEF CopyCurrent
    <3>3. token'[u].status # "SENT"
      BY <1>1, <2>3
    <3>4. QED BY <1>4, <1>9, <3>1, <3>2, <3>3, AloneWith
  <2>4. QED BY <1>5, <2>2, <2>3
<1>11. QED BY <1>9, <1>10 DEF AllAlone

\* A new link is in the hands of the one request that carries the row.
LEMMA RotateDelivers ==
  ASSUME DeliveryInv, AccessInv', NEW p \in Pass, Rotate(p)
  PROVE  Bounded' /\ AllAlone'
<1>1. PICK c \in pass[p].todo :
        /\ links' = links + 1
        /\ token' = [token EXCEPT ![c.voter].hash = links + 1]
        /\ pass' = [pass EXCEPT ![p] = [pc |-> "send", todo |-> @.todo, now |-> c, link |-> links + 1]]
  BY DEF Rotate
<1> DEFINE v == c.voter
           row == [token[v] EXCEPT !.hash = links + 1]
           sending == [pc |-> "send", todo |-> pass[p].todo, now |-> c, link |-> links + 1]
<1>2. /\ pass[p] \in Carrying /\ pass[p].pc = "rotate"
      /\ UNCHANGED <<roll, status, expired, inbox, accepted, disturbed>>
  BY PassStates DEF Rotate, DeliveryInv, AccessInv, history
<1>3. /\ c \in RowCopy /\ v \in Voter /\ token[v] \in Row /\ v \in Carries(p) /\ v \in Issued
      /\ links \in Nat
  BY <1>2 DEF Carrying, RowCopy, DeliveryInv, AccessInv, Typed, Carries, Bounded, PassBounded
<1>4. /\ row \in Row /\ row.hash = links + 1 /\ row.redeemed = token[v].redeemed
      /\ row.to = token[v].to /\ row.status = token[v].status /\ row.resends = token[v].resends
  BY <1>3 DEF Row
<1>5. /\ sending.pc = "send" /\ sending.todo = pass[p].todo /\ sending.now = c
      /\ sending.link = links + 1
  OBVIOUS
<1>6. token' = [token EXCEPT ![v] = row] /\ pass' = [pass EXCEPT ![p] = sending]
  BY <1>1 DEF DeliveryInv, AccessInv, Typed
<1> HIDE DEF row, sending
<1>7. /\ OnlyPass(p) /\ pass'[p] = sending
      /\ token'[v] = row /\ \A u \in Voter \ {v} : token'[u] = token[u]
  BY <1>3, <1>6 DEF OnlyPass, DeliveryInv, AccessInv, Typed
<1>8. RowBounded(v)
  BY <1>3 DEF DeliveryInv, Bounded
<1>9. /\ row.status # "NONE" /\ row.resends <= MaxResends
      /\ {row.hash, row.redeemed, accepted'[v]} \subseteq 0 .. links'
  BY <1>1, <1>2, <1>3, <1>4, <1>8, AccessAssumption DEF RowBounded, Issued, DeliveryInv, AccessInv, Typed, Row
<1>10. links' \in Nat /\ links <= links'
  BY <1>1, <1>3
<1>11. (\A u \in Voter : RowBounded(u)') /\ Issued \subseteq Issued'
  BY <1>2, <1>3, <1>4, <1>6, <1>9, <1>10, RowChanges DEF DeliveryInv, AccessInv
<1>12. Carries(p)' = Carries(p)
  BY <1>5, <1>7 DEF Carries
<1>13. PassBounded(p)'
  BY <1>1, <1>5, <1>7, <1>10, <1>11, <1>12 DEF PassBounded, DeliveryInv, Bounded
<1>14. \A q \in Pass \ {p} : PassBounded(q)'
  BY <1>7, <1>10, <1>11, OthersBounded DEF DeliveryInv, AccessInv, OnlyPass
<1>15. \A m \in inbox' : m.link <= links'
  BY <1>2, <1>3, <1>10 DEF DeliveryInv, AccessInv, Bounded, Typed
<1>16. Bounded'
  BY <1>2, <1>11, <1>13, <1>14, <1>15 DEF DeliveryInv, Bounded
<1>17. ASSUME NEW u \in Voter \ disturbed' PROVE Alone(u)'
  <2>1. Alone(u) /\ CopyCurrent(p, u)
    BY <1>2 DEF DeliveryInv, AllAlone, Alone
  <2>2. CASE u = v
    <3>1. \A q \in Pass \ {p} : v \notin Carries(q)
      BY <1>3, <2>1, <2>2 DEF Alone
    <3>2. CopyCurrent(p, v)'
      BY <1>4, <1>5, <1>7, <2>1, <2>2 DEF CopyCurrent
    <3>3. v \in Carries(p)' /\ pass'[p].pc \notin {"allow", "redirect"}
      BY <1>3, <1>5, <1>7, <1>12
    <3>4. QED BY <1>3, <1>7, <1>16, <2>2, <3>1, <3>2, <3>3, AloneWith
  <2>3. CASE u # v /\ u \in Carries(p)
    <3>1. CopyCurrent(p, u)'
      BY <1>5, <1>7, <2>1, <2>3 DEF CopyCurrent
    <3>2. pass'[p].pc \notin {"allow", "redirect"}
      BY <1>5, <1>7
    <3>3. QED BY <1>2, <1>7, <1>12, <1>16, <2>1, <2>3, <3>1, <3>2, AloneKept
  <2>4. CASE u # v /\ u \notin Carries(p)
    BY <1>2, <1>7, <1>12, <1>16, <2>1, <2>4, AloneKept
  <2>5. QED BY <2>2, <2>3, <2>4
<1>18. QED BY <1>16, <1>17 DEF AllAlone

\* A mail reported as sent arrived, and bears the link that works.
LEMMA SendDelivers ==
  ASSUME DeliveryInv, AccessInv', NEW p \in Pass, Send(p)
  PROVE  Bounded' /\ AllAlone'
<1> DEFINE state(a) == [pc |-> "record", todo |-> pass[p].todo, now |-> pass[p].now, outcome |-> a.status]
           mail == [link |-> pass[p].link, to |-> pass[p].now.to]
<1>1. pass[p] \in Sending /\ pass[p].pc = "send"
  BY PassStates DEF Send, DeliveryInv, AccessInv
<1>2. PICK a \in Answers :
        /\ inbox' = IF a.arrived THEN inbox \cup {mail} ELSE inbox
        /\ pass' = [pass EXCEPT ![p] = state(a)]
  BY DEF Send, DeliveryInv, AccessInv, Typed
<1>3. /\ state(a).pc = "record" /\ state(a).todo = pass[p].todo /\ state(a).now = pass[p].now
      /\ state(a).outcome = a.status /\ (a.status = "SENT" => a.arrived)
  BY DEF Answers
<1>4. UNCHANGED <<roll, status, expired, token, links, accepted, disturbed>>
  BY DEF Send, history
<1>5. mail.link = pass[p].link /\ mail.to = pass[p].now.to
  OBVIOUS
<1> HIDE DEF state, mail
<1>6. OnlyPass(p) /\ pass'[p] = state(a) /\ inbox \subseteq inbox'
  BY <1>2 DEF OnlyPass, DeliveryInv, AccessInv, Typed
<1>7. Carries(p)' = Carries(p) /\ Issued' = Issued
  BY <1>3, <1>4, <1>6 DEF Carries, Issued
<1>8. PassBounded(p)
  BY DEF DeliveryInv, Bounded
<1>9. PassBounded(p)'
  BY <1>1, <1>3, <1>4, <1>6, <1>7, <1>8 DEF PassBounded
<1>10. \A q \in Pass \ {p} : PassBounded(q)'
  BY <1>4, <1>6, <1>7, OthersBounded DEF DeliveryInv, AccessInv, Typed, OnlyPass
<1>11. \A m \in inbox' : m.link <= links'
  BY <1>1, <1>2, <1>4, <1>5, <1>8 DEF PassBounded, DeliveryInv, Bounded
<1>12. \A v \in Voter : RowBounded(v)'
  BY <1>4 DEF DeliveryInv, Bounded, RowBounded
<1>13. Bounded'
  BY <1>4, <1>9, <1>10, <1>11, <1>12 DEF DeliveryInv, Bounded
<1>14. ASSUME NEW u \in Voter \ disturbed' PROVE Alone(u)'
  <2>1. Alone(u) /\ CopyCurrent(p, u)
    BY <1>4 DEF DeliveryInv, AllAlone, Alone
  <2>2. CASE u \in Carries(p)
    <3>1. pass[p].now.voter = u /\ a.status = "SENT" => LiveLinkMailed(u)'
      <4> SUFFICES ASSUME pass[p].now.voter = u, a.status = "SENT" PROVE LiveLinkMailed(u)'
        OBVIOUS
      <4>1. pass[p].now.to = token[u].to /\ pass[p].link = token[u].hash
        BY <1>1, <1>8, <2>1 DEF PassBounded, CopyCurrent
      <4>2. mail = [link |-> token[u].hash, to |-> token[u].to]
        BY <4>1 DEF mail
      <4>3. QED BY <1>2, <1>3, <1>4, <4>2 DEF LiveLinkMailed
    <3>2. CopyCurrent(p, u)'
      BY <1>3, <1>4, <1>6, <2>1, <3>1 DEF CopyCurrent
    <3>3. pass'[p].pc \notin {"allow", "redirect"}
      BY <1>3, <1>6
    <3>4. QED BY <1>4, <1>6, <1>7, <1>13, <2>1, <2>2, <3>2, <3>3, AloneKept
  <2>3. CASE u \notin Carries(p)
    BY <1>4, <1>6, <1>7, <1>13, <2>1, <2>3, AloneKept
  <2>4. QED BY <2>2, <2>3
<1>15. QED BY <1>13, <1>14 DEF AllAlone

\* The outcome is written of the delivery that was made.
LEMMA RecordDelivers ==
  ASSUME DeliveryInv, AccessInv', NEW p \in Pass, Record(p)
  PROVE  Bounded' /\ AllAlone'
<1>0. pass[p] \in Recording /\ pass[p].pc = "record" /\ PassBounded(p)
  BY PassStates DEF Record, DeliveryInv, AccessInv, Bounded
<1> PICK v \in Voter : v = pass[p].now.voter
  BY <1>0 DEF Recording, RowCopy
<1> DEFINE rest == pass[p].todo \ {pass[p].now}
           further == [pc |-> "rotate", todo |-> rest]
           row == [token[v] EXCEPT !.status = pass[p].outcome]
<1>2. /\ v \in Voter /\ token[v] \in Row /\ v \in Carries(p) /\ v \in Issued
      /\ pass[p].outcome \in Delivery /\ links \in Nat
  BY <1>0 DEF Recording, RowCopy, DeliveryInv, AccessInv, Typed, PassBounded, Carries
<1>3. /\ row \in Row /\ row.hash = token[v].hash /\ row.redeemed = token[v].redeemed
      /\ row.to = token[v].to /\ row.status = pass[p].outcome /\ row.resends = token[v].resends
  BY <1>2 DEF Row
<1>4. token' = [token EXCEPT ![v] = row]
  BY DEF Record, RecordDeliveryAttempt, DeliveryInv, AccessInv, Typed
<1>5. \/ rest = {} /\ pass' = [pass EXCEPT ![p] = Idle]
      \/ rest # {} /\ pass' = [pass EXCEPT ![p] = further]
  BY DEF Record
<1>6. UNCHANGED <<roll, status, expired, inbox, links, accepted, disturbed>>
  BY DEF Record, history
<1>7. further.pc = "rotate" /\ further.todo = rest /\ Idle.pc = "idle" /\ Idle.todo = {}
  BY DEF Idle
<1> HIDE DEF further, row
<1>8. /\ OnlyPass(p) /\ pass'[p].todo = rest /\ pass'[p].pc \in {"idle", "rotate"}
      /\ rest # {} => pass'[p].pc = "rotate"
  BY <1>5, <1>7 DEF OnlyPass, DeliveryInv, AccessInv, Typed
<1>9. token'[v] = row /\ \A u \in Voter \ {v} : token'[u] = token[u]
  BY <1>2, <1>4 DEF DeliveryInv, AccessInv, Typed
<1>10. Carries(p)' = Carries(p) \ {v}
  <2>1. \A c \in rest : c.voter \in Carries(p) \ {v}
    BY <1>0 DEF PassBounded, Carries
  <2>2. \A u \in Carries(p) \ {v} : \E c \in rest : c.voter = u
    BY DEF Carries
  <2>3. QED BY <1>8, <2>1, <2>2 DEF Carries
<1>11. RowBounded(v)
  BY <1>2 DEF DeliveryInv, Bounded
<1>12. /\ row.status # "NONE" /\ row.resends <= MaxResends
       /\ {row.hash, row.redeemed, accepted'[v]} \subseteq 0 .. links'
  BY <1>2, <1>3, <1>6, <1>11, AccessAssumption DEF RowBounded, Delivery, Row
<1>13. (\A u \in Voter : RowBounded(u)') /\ Issued \subseteq Issued'
  <2>1. links' \in Nat /\ links <= links' /\ roll' = roll
        /\ \A u \in Voter \ {v} : accepted'[u] = accepted[u]
    BY <1>2, <1>6
  <2>2. QED BY <1>2, <1>3, <1>4, <1>12, <2>1, RowChanges DEF DeliveryInv, AccessInv
<1>14. PassBounded(p)'
  BY <1>0, <1>8, <1>10, <1>13 DEF PassBounded
<1>15. \A q \in Pass \ {p} : PassBounded(q)'
  BY <1>2, <1>6, <1>8, <1>13, OthersBounded DEF DeliveryInv, AccessInv, OnlyPass
<1>16. Bounded'
  BY <1>6, <1>13, <1>14, <1>15 DEF DeliveryInv, Bounded
<1>17. ASSUME NEW u \in Voter \ disturbed' PROVE Alone(u)'
  <2>1. Alone(u) /\ CopyCurrent(p, u)
    BY <1>6 DEF DeliveryInv, AllAlone, Alone
  <2>2. CASE u = v
    <3>1. \A q \in Pass \ {p} : v \notin Carries(q)
      BY <1>2, <2>1, <2>2 DEF Alone
    <3>2. CopyCurrent(p, v)'
      <4>1. \A c \in rest : c.voter # v
        BY <1>0 DEF PassBounded
      <4>2. QED BY <1>8, <4>1 DEF CopyCurrent
    <3>3. token'[v].status = "SENT" => LiveLinkMailed(v)'
      BY <1>0, <1>3, <1>6, <1>9, <2>1, <2>2 DEF CopyCurrent, LiveLinkMailed
    <3>4. QED BY <1>2, <1>8, <1>16, <2>2, <3>1, <3>2, <3>3, AloneWith
  <2>3. CASE u # v /\ u \in Carries(p)
    <3>1. CopyCurrent(p, u)'
      BY <1>8, <1>9, <2>1, <2>3 DEF CopyCurrent
    <3>2. rest # {}
      BY <2>3 DEF Carries
    <3>3. pass'[p].pc \notin {"allow", "redirect"} /\ u \in Carries(p)'
      BY <1>8, <1>10, <2>3, <3>2
    <3>4. QED BY <1>6, <1>8, <1>9, <1>16, <2>1, <2>3, <3>1, <3>3, AloneKept
  <2>4. CASE u # v /\ u \notin Carries(p)
    BY <1>6, <1>8, <1>9, <1>10, <1>16, <2>1, <2>4, AloneKept
  <2>5. QED BY <2>2, <2>3, <2>4
<1>18. QED BY <1>16, <1>17 DEF AllAlone

\* The copy is made anew with the allowance, or the request ends.
LEMMA ResendDelivers ==
  ASSUME DeliveryInv, AccessInv', NEW p \in Pass, ResendToken(p)
  PROVE  Bounded' /\ AllAlone'
<1>1. pass[p] \in Carrying /\ pass[p].pc = "allow" /\ PassBounded(p)
  BY PassStates DEF ResendToken, DeliveryInv, AccessInv, Bounded
<1>2. UNCHANGED <<roll, status, expired, inbox, links, accepted, disturbed>>
  BY DEF ResendToken
<1>3. PICK v \in Carries(p) :
        \/ ConsumeResendAllowance(p, v)
        \/ pass' = [pass EXCEPT ![p] = Idle] /\ UNCHANGED token
  BY DEF ResendToken
<1>4. v \in Voter /\ token[v] \in Row /\ v \in Issued /\ links \in Nat
  BY <1>1, <1>3 DEF Carrying, Carries, RowCopy, DeliveryInv, AccessInv, Typed, PassBounded
<1>5. CASE pass' = [pass EXCEPT ![p] = Idle] /\ UNCHANGED token
  <2>1. OnlyPass(p) /\ pass'[p].todo = {} /\ pass'[p].pc = "idle" /\ Issued' = Issued
    BY <1>5 DEF OnlyPass, Idle, Issued, DeliveryInv, AccessInv, Typed
  <2>2. PassBounded(p)' /\ Carries(p)' = {}
    BY <2>1 DEF PassBounded, Carries
  <2>3. \A q \in Pass \ {p} : PassBounded(q)'
    BY <1>2, <1>4, <2>1, OthersBounded DEF DeliveryInv, AccessInv, OnlyPass
  <2>4. \A u \in Voter : RowBounded(u)'
    BY <1>2, <1>5 DEF DeliveryInv, Bounded, RowBounded
  <2>5. Bounded'
    BY <1>2, <2>2, <2>3, <2>4 DEF DeliveryInv, Bounded
  <2>6. ASSUME NEW u \in Voter \ disturbed' PROVE Alone(u)'
    BY <1>1, <1>2, <1>5, <2>1, <2>2, <2>5, AloneKept DEF DeliveryInv, AllAlone
  <2>7. QED BY <2>5, <2>6 DEF AllAlone
<1>6. CASE ConsumeResendAllowance(p, v)
  <2> DEFINE n == IF WindowOver(v) THEN 1 ELSE token[v].resends + 1
             row == [token[v] EXCEPT !.window = TRUE, !.resends = n]
             carried == [pc |-> "rotate", todo |-> {Copy(v)}]
  <2>1. n \in Nat /\ n <= MaxResends
    BY <1>4, <1>6, AccessAssumption DEF ConsumeResendAllowance, Allowed, WindowOver, Row
  <2>2. /\ row \in Row /\ row.hash = token[v].hash /\ row.redeemed = token[v].redeemed
        /\ row.to = token[v].to /\ row.status = token[v].status /\ row.resends = n
    <3> HIDE DEF n
    <3>1. QED BY <1>4, <2>1 DEF Row
  <2>3. token' = [token EXCEPT ![v] = row]
    BY <1>4, <1>6 DEF ConsumeResendAllowance, DeliveryInv, AccessInv, Typed
  <2>4. carried.pc = "rotate" /\ carried.todo = {Copy(v)}
    OBVIOUS
  <2>5. pass' = [pass EXCEPT ![p] = carried]
    BY <1>6 DEF ConsumeResendAllowance
  <2> HIDE DEF n, row, carried
  <2>6. /\ OnlyPass(p) /\ pass'[p].pc = "rotate" /\ pass'[p].todo = {Copy(v)}
        /\ token'[v] = row /\ \A u \in Voter \ {v} : token'[u] = token[u]
    BY <1>4, <2>3, <2>4, <2>5 DEF OnlyPass, DeliveryInv, AccessInv, Typed
  <2>7. /\ row.status # "NONE" /\ row.resends <= MaxResends
        /\ {row.hash, row.redeemed, accepted'[v]} \subseteq 0 .. links'
    BY <1>2, <1>4, <2>1, <2>2 DEF DeliveryInv, Bounded, RowBounded, Issued
  <2>8. links' \in Nat /\ links <= links' /\ roll' = roll
        /\ \A u \in Voter \ {v} : accepted'[u] = accepted[u]
    BY <1>2, <1>4
  <2>9. (\A u \in Voter : RowBounded(u)') /\ Issued \subseteq Issued'
    BY <1>4, <2>2, <2>3, <2>7, <2>8, RowChanges DEF DeliveryInv, AccessInv
  <2>10. Carries(p)' = {v}
    BY <2>6 DEF Carries, Copy
  <2>11. PassBounded(p)'
    BY <1>4, <2>6, <2>9, <2>10 DEF PassBounded
  <2>12. \A q \in Pass \ {p} : PassBounded(q)'
    BY <2>6, <2>8, <2>9, OthersBounded DEF DeliveryInv, AccessInv, OnlyPass
  <2>13. Bounded'
    BY <1>2, <2>9, <2>11, <2>12 DEF DeliveryInv, Bounded
  <2>14. ASSUME NEW u \in Voter \ disturbed' PROVE Alone(u)'
    <3>1. Alone(u)
      BY <1>2 DEF DeliveryInv, AllAlone
    <3>2. CASE u = v
      <4>1. \A q \in Pass \ {p} : v \notin Carries(q)
        BY <1>3, <3>1, <3>2 DEF Alone
      <4>2. Copy(v).to = token'[v].to
        BY <2>2, <2>6 DEF Copy
      <4>3. CopyCurrent(p, v)'
        BY <2>6, <4>2 DEF CopyCurrent
      <4>4. QED BY <1>4, <2>6, <2>10, <2>13, <3>2, <4>1, <4>3, AloneWith
    <3>3. CASE u # v
      BY <1>1, <1>2, <2>6, <2>10, <2>13, <3>1, <3>3, AloneKept
    <3>4. QED BY <3>2, <3>3
  <2>15. QED BY <2>13, <2>14 DEF AllAlone
<1>7. QED BY <1>3, <1>5, <1>6

\* A corrected address puts the delivery back to the start.
LEMMA ChangeRecipientDelivers ==
  ASSUME DeliveryInv, AccessInv', NEW p \in Pass, ChangeRecipient(p)
  PROVE  Bounded' /\ AllAlone'
<1>1. pass[p] \in Redirecting /\ pass[p].pc = "redirect" /\ PassBounded(p)
  BY PassStates DEF ChangeRecipient, DeliveryInv, AccessInv, Bounded
<1>2. PICK v \in Carries(p) : token' = [token EXCEPT ![v].to = pass[p].to, ![v].status = "PENDING"]
  BY DEF ChangeRecipient
<1> DEFINE row == [token[v] EXCEPT !.to = pass[p].to, !.status = "PENDING"]
<1>3. /\ v \in Voter /\ token[v] \in Row /\ v \in Issued /\ pass[p].to \in Address /\ links \in Nat
  BY <1>1, <1>2 DEF Redirecting, Carries, RowCopy, DeliveryInv, AccessInv, Typed, PassBounded
<1>4. /\ row \in Row /\ row.hash = token[v].hash /\ row.redeemed = token[v].redeemed
      /\ row.status = "PENDING" /\ row.resends = token[v].resends
  BY <1>3 DEF Row, Delivery
<1>5. token' = [token EXCEPT ![v] = row]
  BY <1>2 DEF DeliveryInv, AccessInv, Typed
<1>6. /\ pass' = [pass EXCEPT ![p] = Idle]
      /\ UNCHANGED <<roll, status, expired, inbox, links, accepted, disturbed>>
  BY DEF ChangeRecipient, history
<1> HIDE DEF row
<1>7. /\ OnlyPass(p) /\ pass'[p].pc = "idle" /\ pass'[p].todo = {}
      /\ token'[v] = row /\ \A u \in Voter \ {v} : token'[u] = token[u]
  BY <1>3, <1>5, <1>6 DEF OnlyPass, Idle, DeliveryInv, AccessInv, Typed
<1>8. /\ row.status # "NONE" /\ row.resends <= MaxResends
      /\ {row.hash, row.redeemed, accepted'[v]} \subseteq 0 .. links'
  BY <1>3, <1>4, <1>6, AccessAssumption DEF DeliveryInv, Bounded, RowBounded, Row
<1>9. links' \in Nat /\ links <= links' /\ roll' = roll
      /\ \A u \in Voter \ {v} : accepted'[u] = accepted[u]
  BY <1>3, <1>6
<1>10. (\A u \in Voter : RowBounded(u)') /\ Issued \subseteq Issued'
  BY <1>3, <1>4, <1>5, <1>8, <1>9, RowChanges DEF DeliveryInv, AccessInv
<1>11. Carries(p)' = {} /\ PassBounded(p)'
  BY <1>7 DEF Carries, PassBounded
<1>12. \A q \in Pass \ {p} : PassBounded(q)'
  BY <1>7, <1>9, <1>10, OthersBounded DEF DeliveryInv, AccessInv, OnlyPass
<1>13. Bounded'
  BY <1>6, <1>10, <1>11, <1>12 DEF DeliveryInv, Bounded
<1>14. ASSUME NEW u \in Voter \ disturbed' PROVE Alone(u)'
  <2>1. Alone(u)
    BY <1>6 DEF DeliveryInv, AllAlone
  <2>2. CASE u = v
    <3>1. \A q \in Pass \ {p} : v \notin Carries(q)
      BY <1>2, <2>1, <2>2 DEF Alone
    <3>2. CopyCurrent(p, v)'
      BY <1>7 DEF CopyCurrent
    <3>3. token'[v].status # "SENT"
      BY <1>4, <1>7
    <3>4. QED BY <1>3, <1>7, <1>13, <2>2, <3>1, <3>2, <3>3, AloneWith
  <2>3. CASE u # v
    BY <1>1, <1>6, <1>7, <1>11, <1>13, <2>1, <2>3, AloneKept
  <2>4. QED BY <2>2, <2>3
<1>15. QED BY <1>13, <1>14 DEF AllAlone

\* Requests stand still while a row changes in what deliveries do not look at.
LEMMA RowDelivers ==
  ASSUME DeliveryInv, AccessInv', NEW v \in Issued, NEW row \in Row,
         token' = [token EXCEPT ![v] = row],
         row.hash = token[v].hash, row.to = token[v].to, row.status = token[v].status,
         {row.redeemed, accepted'[v]} \subseteq 0 .. links, row.resends <= MaxResends,
         \A u \in Voter \ {v} : accepted'[u] = accepted[u],
         UNCHANGED <<roll, status, expired, inbox, links, pass, disturbed>>
  PROVE  Bounded' /\ AllAlone'
<1>1. v \in Voter /\ links \in Nat /\ links <= links' /\ links' \in Nat
  BY DEF Issued, DeliveryInv, AccessInv, Typed
<1>2. token'[v] = row /\ \A u \in Voter \ {v} : token'[u] = token[u]
  BY <1>1 DEF DeliveryInv, AccessInv, Typed
<1>3. row.status # "NONE" /\ {row.hash, row.redeemed, accepted'[v]} \subseteq 0 .. links'
  BY <1>1 DEF DeliveryInv, Bounded, RowBounded, Issued
<1>4. (\A u \in Voter : RowBounded(u)') /\ Issued \subseteq Issued'
  BY <1>1, <1>3, RowChanges DEF DeliveryInv, AccessInv
<1>5. \A q \in Pass : PassBounded(q)'
  BY <1>1, <1>4, OthersBounded DEF DeliveryInv, AccessInv
<1>6. Bounded'
  BY <1>4, <1>5 DEF DeliveryInv, Bounded
<1>7. AllAlone'
  BY <1>2, PassesStill DEF DeliveryInv
<1>8. QED BY <1>6, <1>7

LEMMA WindowDelivers ==
  ASSUME DeliveryInv, AccessInv', NEW v \in Voter, WindowRunsOut(v)
  PROVE  Bounded' /\ AllAlone'
<1> DEFINE row == [token[v] EXCEPT !.window = FALSE, !.resends = 0]
<1>1. token[v] \in Row
  BY DEF DeliveryInv, AccessInv, Typed
<1>2. /\ row \in Row /\ row.hash = token[v].hash /\ row.to = token[v].to
      /\ row.status = token[v].status /\ row.redeemed = token[v].redeemed /\ row.resends = 0
  BY <1>1 DEF Row
<1>3. token' = [token EXCEPT ![v] = row]
  BY DEF WindowRunsOut, DeliveryInv, AccessInv, Typed
<1>4. UNCHANGED <<roll, status, expired, pass, inbox, links, accepted, disturbed>>
  BY DEF WindowRunsOut, history
<1>5. v \in Issued
  BY DEF WindowRunsOut, Issued, NoRow
<1>6. row.resends <= MaxResends /\ {row.redeemed, accepted'[v]} \subseteq 0 .. links
  BY <1>2, <1>4, AccessAssumption DEF DeliveryInv, Bounded, RowBounded
<1> HIDE DEF row
<1>7. QED BY <1>2, <1>3, <1>4, <1>5, <1>6, RowDelivers

LEMMA RetrievalDelivers ==
  ASSUME DeliveryInv, AccessInv', NEW c \in Client, RedeemForRing(c)
  PROVE  Bounded' /\ AllAlone'
<1>1. retrieval[c] \in Retrieving /\ retrieval[c] # NoRetrieval
  BY RetrievalStates DEF RedeemForRing, DeliveryInv, AccessInv
<1> PICK v \in Voter : v = retrieval[c].voter
  BY <1>1 DEF Retrieving
<1> DEFINE link == retrieval[c].link
           first == IF token[v].redeemed = 0 THEN link ELSE token[v].redeemed
           row == [token[v] EXCEPT !.redeemed = first]
<1>2. link \in Nat \ {0} /\ token[v] \in Row /\ token[v].hash = link /\ RowBounded(v)
  BY <1>1 DEF Retrieving, DeliveryInv, AccessInv, Typed, LocksHold, Bounded
<1>3. UNCHANGED <<roll, status, expired, inbox, links, pass, disturbed>>
  BY DEF RedeemForRing
<1>4. CASE UNCHANGED <<token, accepted>>
  <2>1. Issued' = Issued /\ links' \in Nat /\ links <= links'
    BY <1>3, <1>4 DEF Issued, DeliveryInv, AccessInv, Typed
  <2>2. \A q \in Pass : PassBounded(q)'
    BY <1>3, <2>1, OthersBounded DEF DeliveryInv, AccessInv
  <2>3. \A u \in Voter : RowBounded(u)'
    BY <1>3, <1>4 DEF DeliveryInv, Bounded, RowBounded
  <2>4. Bounded'
    BY <1>3, <2>2, <2>3 DEF DeliveryInv, Bounded
  <2>5. QED BY <1>3, <1>4, <2>4, PassesStill DEF DeliveryInv
<1>5. CASE MarkTokenRedeemed(v, link) /\ accepted' = [accepted EXCEPT ![v] = link]
  <2>1. first \in 0 .. links /\ link \in 0 .. links
    BY <1>2 DEF RowBounded
  <2>2. /\ row \in Row /\ row.hash = token[v].hash /\ row.to = token[v].to
        /\ row.status = token[v].status /\ row.redeemed = first /\ row.resends = token[v].resends
    <3> HIDE DEF first
    <3>1. QED BY <1>2, <2>1 DEF Row, DeliveryInv, AccessInv, Typed
  <2>3. token' = [token EXCEPT ![v] = row]
    BY <1>2, <1>5 DEF MarkTokenRedeemed, DeliveryInv, AccessInv, Typed
  <2>4. v \in Issued
    BY <1>2 DEF Issued, NoRow
  <2>5. accepted'[v] = link /\ \A u \in Voter \ {v} : accepted'[u] = accepted[u]
    BY <1>5 DEF DeliveryInv, AccessInv, Typed
  <2>6. row.resends <= MaxResends
    BY <1>2, <2>2, AccessAssumption DEF RowBounded
  <2> HIDE DEF row, first, link
  <2>7. QED BY <1>3, <2>1, <2>2, <2>3, <2>4, <2>5, <2>6, RowDelivers
<1>6. QED BY <1>4, <1>5 DEF RedeemForRing

\* Time passes, browsers present links, and the server stops: whatever was on its
\* way is then cut short.
LEMMA WorldDelivers ==
  ASSUME DeliveryInv, AccessInv',
         \/ \E c \in Client, m \in inbox : LockTokenByHash(c, m.link)
         \/ Advance \/ Crash \/ UNCHANGED vars
  PROVE  Bounded' /\ AllAlone'
<1>1. UNCHANGED <<roll, token, inbox, links, accepted>>
  BY DEF LockTokenByHash, Advance, Crash, vars, database, history
<1>2. /\ status' \in {"RINGS_FROZEN", "VOTING_OPEN", "VOTING_CLOSED"} /\ expired' \in BOOLEAN
  BY DEF DeliveryInv, Bounded, LockTokenByHash, Advance, Crash, vars, database
<1>3. \A u \in Voter : RowBounded(u)'
  BY <1>1 DEF DeliveryInv, Bounded, RowBounded
<1>4. Issued' = Issued /\ links' \in Nat /\ links <= links'
  BY <1>1 DEF Issued, DeliveryInv, AccessInv, Typed
<1>5. CASE UNCHANGED <<pass, disturbed>>
  <2>1. \A q \in Pass : PassBounded(q)'
    BY <1>4, <1>5, OthersBounded DEF DeliveryInv, AccessInv
  <2>2. Bounded'
    BY <1>1, <1>2, <1>3, <1>5, <2>1 DEF DeliveryInv, Bounded
  <2>3. QED BY <1>1, <1>5, <2>2, PassesStill DEF DeliveryInv
<1>6. CASE Crash
  <2>1. \A q \in Pass : pass'[q].todo = {} /\ pass'[q].pc = "idle" /\ Carries(q)' = {}
    BY <1>6 DEF Crash, Idle, Carries
  <2>2. \A q \in Pass : PassBounded(q)'
    BY <2>1 DEF PassBounded
  <2>3. disturbed' = disturbed \cup UNION {Carries(p) : p \in Pass}
    BY <1>6 DEF Crash
  <2>4. disturbed' \subseteq Voter
    BY <2>3 DEF DeliveryInv, Bounded, PassBounded, Issued
  <2>5. Bounded'
    BY <1>1, <1>2, <1>3, <2>2, <2>4 DEF DeliveryInv, Bounded
  <2>6. ASSUME NEW u \in Voter \ disturbed' PROVE Alone(u)'
    <3>1. Alone(u) /\ NotUnderWay(u)
      BY <2>3 DEF DeliveryInv, AllAlone, NotUnderWay
    <3>2. token'[u].status = "SENT" => LiveLinkMailed(u)'
      BY <1>1, <3>1 DEF Alone, LiveLinkMailed
    <3>3. QED BY <2>1, <3>2 DEF Alone, CopyCurrent
  <2>7. QED BY <2>5, <2>6 DEF AllAlone
<1>7. QED BY <1>5, <1>6 DEF LockTokenByHash, Advance, vars, history

LEMMA DeliveryStep ==
  ASSUME DeliveryInv, [Next]_vars
  PROVE  DeliveryInv'
<1>1. AccessInv'
  BY AccessStep DEF DeliveryInv
<1>2. ASSUME NEW p \in Pass, Request(p) \/ Continue(p)
      PROVE  Bounded' /\ AllAlone'
  <2>1. ASSUME Request(p)
        PROVE  Bounded' /\ AllAlone'
    <3>1. ASSUME NEW v \in Voter, FindForResend(p, v)
          PROVE  Bounded' /\ AllAlone'
      <4>1. Registered \in Address
        BY AccessAssumption
      <4>2. QED BY <1>1, <3>1, <4>1, FindDelivers
    <3>2. QED BY <1>1, <2>1, <3>1, IssueDelivers, DispatchDelivers, FindDelivers DEF Request
  <2>2. QED BY <1>1, <1>2, <2>1, DispatchDelivers, RotateDelivers, SendDelivers, RecordDelivers,
               ResendDelivers, ChangeRecipientDelivers DEF Continue
<1>3. QED BY <1>1, <1>2, RetrievalDelivers, WindowDelivers, WorldDelivers DEF Next, DeliveryInv

\* Deliveries that no other overlaps know the address and the link of the row.
THEOREM DeliveryInvariant == Spec => []DeliveryInv
<1>1. Init => DeliveryInv
  BY InitHolds, DeliveryInit DEF DeliveryInv
<1>2. DeliveryInv /\ [Next]_vars => DeliveryInv'
  BY DeliveryStep
<1>3. QED BY <1>1, <1>2, PTL DEF Spec

\* No link is used that was not made, no voter off the roll has a row, and no row a
\* request works on goes away (ballotAccess.service.ts).
THEOREM AccessTypes == Spec => []TypeOK
<1>1. ASSUME DeliveryInv PROVE TypeOK
  <2>1. /\ AccessInv /\ Typed /\ Bounded /\ links \in Nat
    BY <1>1 DEF DeliveryInv, AccessInv, Typed
  <2>2. token \in [Voter -> [hash : 0 .. links, status : Delivery \cup {"NONE"}, to : Address,
                             redeemed : 0 .. links, window : BOOLEAN, resends : 0 .. MaxResends]]
    <3>1. ASSUME NEW v \in Voter
          PROVE  token[v] \in [hash : 0 .. links, status : Delivery \cup {"NONE"}, to : Address,
                               redeemed : 0 .. links, window : BOOLEAN, resends : 0 .. MaxResends]
      <4>1. token[v] \in Row /\ RowBounded(v)
        BY <2>1 DEF Typed, Bounded
      <4>2. QED BY <4>1 DEF Row, RowBounded
    <3>2. QED BY <2>1, <3>1 DEF Typed
  <2>3. inbox \subseteq [link : 1 .. links, to : Address]
    BY <2>1 DEF Typed, Bounded
  <2>4. \A p \in Pass :
          /\ pass[p].pc \in {"idle", "claim", "rotate", "send", "record", "allow", "redirect"}
          /\ Carries(p) \subseteq Issued
    BY <2>1 DEF Typed, Bounded, PassBounded, Idle, Carrying, Redirecting, Sending, Recording
  <2>5. Issued \subseteq roll
    BY <2>1 DEF Issued, Bounded, RowBounded
  <2>6. accepted \in [Voter -> 0 .. links]
    BY <2>1 DEF Typed, Bounded, RowBounded
  <2>7. QED BY <2>1, <2>2, <2>3, <2>4, <2>5, <2>6 DEF TypeOK, Typed, Bounded
<1>2. QED BY <1>1, DeliveryInvariant, PTL

\* A voter shown as SENT, whose deliveries never overlapped and were never cut short,
\* has the link that works at the address shown (rotateAndDeliver, recordDeliveryAttempt).
THEOREM TruthfulWhenAloneAlways == Spec => []TruthfulWhenAlone
<1>1. ASSUME DeliveryInv PROVE TruthfulWhenAlone
  <2>1. \A v \in Voter : AtRest(v) => NotUnderWay(v)
    BY DEF AtRest, NotUnderWay
  <2>2. QED BY <1>1, <2>1 DEF DeliveryInv, AllAlone, Alone, TruthfulWhenAlone
<1>2. QED BY <1>1, DeliveryInvariant, PTL
=============================================================================
