---------------------------- MODULE BallotAccess ----------------------------
(***************************************************************************)
(* Ballot access links of one election: issuing, the dispatch passes that  *)
(* mail them, resending, correcting an address, retrying failures, and the *)
(* retrieval of a voter's anonymity group with a link.                     *)
(*                                                                         *)
(* A request runs as a pass.  Between two statements of a pass any other   *)
(* pass may run: the delivery loop takes no lock and no claim, so a pass   *)
(* works on the copies of the rows it read when it started.  Retrieval     *)
(* alone locks the row it found (SELECT ... FOR UPDATE) until it commits.  *)
(*                                                                         *)
(* A link is a number; 0 stands for the token minted at issue, whose       *)
(* plaintext is dropped and which nobody can ever present.                 *)
(***************************************************************************)
EXTENDS Naturals, FiniteSets

CONSTANTS Voter,        \* approved people
          Address,      \* mail addresses
          Registered,   \* the address every voter registered with
          Pass,         \* requests that may run at the same time
          Client,       \* browsers presenting a link
          Batch,        \* TOKEN_DISPATCH_BATCH_SIZE
          MaxResends,   \* TOKEN_RESEND_MAX
          MaxLoad,      \* bound: requests started, and two for every voter on the roll
          MaxCrashes    \* bound: restarts of the server

ASSUME AccessAssumption ==
  /\ Registered \in Address
  /\ {Batch, MaxResends} \subseteq Nat \ {0}
  /\ {MaxLoad, MaxCrashes} \subseteq Nat

VARIABLES roll,       \* the electorate, fixed when groups are frozen
          status,     \* of the election, as far as links depend on it
          expired,    \* expiresAt has passed
          token,      \* [Voter -> Row or NoRow]
          inbox,      \* mails that arrived: [link, to]
          pass,       \* [Pass -> what the request is doing]
          retrieval,  \* [Client -> the retrieval transaction in progress]
          links,      \* links minted so far: 1 .. links
          requests, crashes,
          accepted,   \* history: the link a group was last handed out for
          clicks,     \* history: resends granted since the window started
          disturbed   \* history: a delivery was overlapped or cut short

database == <<roll, status, expired, token, inbox, links>>
bounds == <<requests, crashes>>
history == <<accepted, clicks, disturbed>>
vars == <<database, pass, retrieval, bounds, history>>

NoRow == [hash |-> 0, status |-> "NONE", to |-> Registered, redeemed |-> 0,
          window |-> FALSE, resends |-> 0]
Delivery == {"PENDING", "SENT", "FAILED", "BOUNCED"}
Idle == [pc |-> "idle", todo |-> {}]
NoRetrieval == [pc |-> "idle"]

\* Variant: mail goes to the address the voter registered with.
CopyRegistered(v) == [voter |-> v, to |-> Registered]

\* The copy of a row that a pass carries while it works.
Copy(v) == [voter |-> v, to |-> token[v].to]

Issued == {v \in Voter : token[v] # NoRow}
\* The rows a pass has still to attempt, by the copy it made of them.
Carries(p) == {c.voter : c \in pass[p].todo}
CarriedByOthers(p) == UNION {Carries(q) : q \in Pass \ {p}}
\* SELECT ... FOR UPDATE: an UPDATE of the row waits for the retrieval.
Locked(v) == \E c \in Client : retrieval[c].pc = "locked" /\ retrieval[c].voter = v
Unlocked(v) == ~Locked(v)

Init ==
  /\ roll \in SUBSET Voter
  /\ status = "RINGS_FROZEN"
  /\ expired = FALSE
  /\ token = [v \in Voter |-> NoRow]
  /\ inbox = {}
  /\ pass = [p \in Pass |-> Idle]
  /\ retrieval = [c \in Client |-> NoRetrieval]
  /\ links = 0
  /\ requests = 0 /\ crashes = 0
  /\ accepted = [v \in Voter |-> 0]
  /\ clicks = [v \in Voter |-> 0]
  /\ disturbed = {}

Start(p) ==
  /\ pass[p].pc = "idle"
  /\ requests + 2 * Cardinality(roll) < MaxLoad
  /\ requests' = requests + 1
  /\ UNCHANGED crashes

-----------------------------------------------------------------------------
\* Issuing.  The insert skips voters that hold a row; the dispatch pass that
\* follows the commit is started and not awaited.
IssueStates == {"RINGS_FROZEN", "VOTING_OPEN"}

\* Variant: on conflict the row is written anew.
InsertTokensAnew(voters) ==
  token' = [v \in Voter |->
              IF v \in voters THEN [NoRow EXCEPT !.status = "PENDING"] ELSE token[v]]

\* Variant: every approved voter, whether or not on this election's roll.
InsertTokensForAll(voters) ==
  token' = [v \in Voter |->
              IF token[v] = NoRow THEN [NoRow EXCEPT !.status = "PENDING"] ELSE token[v]]

InsertTokens(voters) ==
  token' = [v \in Voter |->
              IF v \in voters /\ token[v] = NoRow
                THEN [NoRow EXCEPT !.status = "PENDING"] ELSE token[v]]

IssueTokens(p) ==
  /\ Start(p)
  /\ status \in IssueStates
  /\ roll # {}
  /\ InsertTokens(roll)
  /\ pass' = [pass EXCEPT ![p] = [Idle EXCEPT !.pc = "claim"]]
  /\ UNCHANGED <<roll, status, expired, inbox, links, retrieval, history>>

\* The first Batch rows in a delivery state; all were issued at one moment,
\* so that the order among them is the database's choice.
Page(state) ==
  LET rows == {v \in Issued : token[v].status = state}
  IN  {page \in SUBSET rows :
         Cardinality(page) = IF Cardinality(rows) < Batch THEN Cardinality(rows) ELSE Batch}

\* Sets out to deliver a page, noting the rows another pass already carries.
Deliver(p, voters) ==
  /\ pass' = [pass EXCEPT ![p] =
       IF voters = {} THEN Idle
       ELSE [pc |-> "rotate", todo |-> {Copy(v) : v \in voters}]]
  /\ disturbed' = disturbed \cup (voters \cap CarriedByOthers(p))

\* The rows are read, not claimed, whatever the name of the query says.
ClaimPending(p) ==
  \E page \in Page("PENDING") : Deliver(p, page)

DispatchPending(p) ==
  /\ \/ Start(p)
     \/ pass[p].pc = "claim" /\ UNCHANGED bounds
  /\ Issued # {}
  /\ ClaimPending(p)
  /\ UNCHANGED <<database, retrieval, accepted, clicks>>

RetryFailed(p) ==
  /\ Start(p)
  /\ Issued # {}
  /\ \E page \in Page("FAILED") : Deliver(p, page)
  /\ UNCHANGED <<database, retrieval, accepted, clicks>>

-----------------------------------------------------------------------------
\* rotateAndDeliver, statement by statement.  Delivery goes to the address of
\* the copy, whatever the row says by now.
Rotate(p) ==
  /\ pass[p].pc = "rotate"
  /\ \E c \in pass[p].todo :
       /\ Unlocked(c.voter)
       /\ links' = links + 1
       /\ token' = [token EXCEPT ![c.voter].hash = links + 1]
       /\ pass' = [pass EXCEPT ![p] = [pc |-> "send", todo |-> @.todo, now |-> c, link |-> links + 1]]
  /\ UNCHANGED <<roll, status, expired, inbox, retrieval, bounds, history>>

\* The mail server's answer and what became of the mail.  A transfer may be
\* reported failed after the mail was accepted; nothing is bounced that arrived.
Answers == {[arrived |-> TRUE, status |-> "SENT"], [arrived |-> TRUE, status |-> "FAILED"],
            [arrived |-> FALSE, status |-> "FAILED"], [arrived |-> FALSE, status |-> "BOUNCED"]}

Send(p) ==
  /\ pass[p].pc = "send"
  /\ \E a \in Answers :
       /\ inbox' = IF a.arrived
                     THEN inbox \cup {[link |-> pass[p].link, to |-> pass[p].now.to]} ELSE inbox
       /\ pass' = [pass EXCEPT ![p] =
                     [pc |-> "record", todo |-> @.todo, now |-> @.now, outcome |-> a.status]]
  /\ UNCHANGED <<roll, status, expired, token, links, retrieval, bounds, history>>

\* The outcome is written whatever happened to the row meanwhile.
RecordDeliveryAttempt(v, outcome) == token' = [token EXCEPT ![v].status = outcome]

Record(p) ==
  LET v == pass[p].now.voter
      rest == pass[p].todo \ {pass[p].now}
  IN  /\ pass[p].pc = "record"
      /\ Unlocked(v)
      /\ RecordDeliveryAttempt(v, pass[p].outcome)
      /\ pass' = [pass EXCEPT ![p] = IF rest = {} THEN Idle ELSE [pc |-> "rotate", todo |-> rest]]
      /\ UNCHANGED <<roll, status, expired, inbox, links, retrieval, bounds, history>>

-----------------------------------------------------------------------------
\* Resending to one voter: the row is read and checked, then the allowance is
\* consumed in one conditional UPDATE, whose row is the copy that is delivered.
FindForResend(p, v) ==
  /\ Start(p)
  /\ v \in Issued
  /\ token[v].redeemed = 0
  /\ ~expired
  /\ pass' = [pass EXCEPT ![p] = [pc |-> "allow", todo |-> {Copy(v)}]]
  /\ disturbed' = disturbed \cup ({v} \cap CarriedByOthers(p))
  /\ UNCHANGED <<database, retrieval, accepted, clicks>>

\* No resend yet, or the first one is older than the window.
WindowOver(v) == ~token[v].window

\* Variant: the request that finds the allowance spent is still served.
AllowedOnceMore(v) == WindowOver(v) \/ token[v].resends <= MaxResends

Allowed(v) == WindowOver(v) \/ token[v].resends < MaxResends

ConsumeResendAllowance(p, v) ==
  /\ Allowed(v)
  /\ token' = [token EXCEPT ![v].window = TRUE,
                            ![v].resends = IF WindowOver(v) THEN 1 ELSE @ + 1]
  /\ clicks' = [clicks EXCEPT ![v] = IF WindowOver(v) THEN 1 ELSE @ + 1]
  /\ pass' = [pass EXCEPT ![p] = [pc |-> "rotate", todo |-> {Copy(v)}]]

ResendToken(p) ==
  /\ pass[p].pc = "allow"
  /\ \E v \in Carries(p) :
       /\ Unlocked(v)
       /\ \/ ConsumeResendAllowance(p, v)
          \/ /\ ~Allowed(v)
             /\ pass' = [pass EXCEPT ![p] = Idle]
             /\ UNCHANGED <<token, clicks>>
  /\ UNCHANGED <<roll, status, expired, inbox, links, retrieval, bounds, accepted, disturbed>>

\* Correcting an address: checked on one read, written by another statement.
FindForRecipient(p, v, a) ==
  /\ Start(p)
  /\ v \in Issued
  /\ token[v].redeemed = 0
  /\ pass' = [pass EXCEPT ![p] = [pc |-> "redirect", todo |-> {Copy(v)}, to |-> a]]
  /\ disturbed' = disturbed \cup ({v} \cap CarriedByOthers(p))
  /\ UNCHANGED <<database, retrieval, accepted, clicks>>

ChangeRecipient(p) ==
  /\ pass[p].pc = "redirect"
  /\ \E v \in Carries(p) :
       /\ Unlocked(v)
       /\ token' = [token EXCEPT ![v].to = pass[p].to, ![v].status = "PENDING"]
  /\ pass' = [pass EXCEPT ![p] = Idle]
  /\ UNCHANGED <<roll, status, expired, inbox, links, retrieval, bounds, history>>

-----------------------------------------------------------------------------
\* redeemForRing: the row with the presented hash is locked, checked, stamped
\* on the first retrieval, and the transaction commits.
\* Variant: the row is read without FOR UPDATE.
LockTokenByHashUnlocked(c, link) ==
  /\ retrieval[c].pc = "idle"
  /\ \E v \in Voter :
       /\ token[v].hash = link
       /\ retrieval' = [retrieval EXCEPT ![c] = [pc |-> "reading", voter |-> v, link |-> link]]
  /\ UNCHANGED <<database, pass, bounds, history>>

LockTokenByHash(c, link) ==
  /\ retrieval[c].pc = "idle"
  /\ \E v \in Voter :
       /\ token[v].hash = link
       /\ Unlocked(v)
       /\ retrieval' = [retrieval EXCEPT ![c] = [pc |-> "locked", voter |-> v, link |-> link]]
  /\ UNCHANGED <<database, pass, bounds, history>>

Retrievable == status = "VOTING_OPEN" /\ ~expired

MarkTokenRedeemed(v, link) ==
  token' = [token EXCEPT ![v].redeemed = IF @ = 0 THEN link ELSE @]

RedeemForRing(c) ==
  LET v == retrieval[c].voter
      link == retrieval[c].link
  IN  /\ retrieval[c].pc # "idle"
      /\ IF Retrievable
           THEN /\ MarkTokenRedeemed(v, link)
                /\ accepted' = [accepted EXCEPT ![v] = link]
           ELSE UNCHANGED <<token, accepted>>
      /\ retrieval' = [retrieval EXCEPT ![c] = NoRetrieval]
      /\ UNCHANGED <<roll, status, expired, inbox, links, pass, bounds, clicks, disturbed>>

-----------------------------------------------------------------------------
\* Time and the election move on; the window of the resend limit runs out.
Advance ==
  /\ \/ status = "RINGS_FROZEN" /\ status' = "VOTING_OPEN" /\ UNCHANGED expired
     \/ status = "VOTING_OPEN" /\ status' = "VOTING_CLOSED" /\ UNCHANGED expired
     \/ ~expired /\ status # "RINGS_FROZEN" /\ expired' = TRUE /\ UNCHANGED status
  /\ UNCHANGED <<roll, token, inbox, links, pass, retrieval, bounds, history>>

WindowRunsOut(v) ==
  /\ token[v].window
  /\ token' = [token EXCEPT ![v].window = FALSE, ![v].resends = 0]
  /\ UNCHANGED <<roll, status, expired, inbox, links, pass, retrieval, bounds, history>>

\* The server stops: passes end where they are, open transactions roll back.
Crash ==
  /\ crashes < MaxCrashes
  /\ crashes' = crashes + 1
  /\ disturbed' = disturbed \cup UNION {Carries(p) : p \in Pass}
  /\ pass' = [p \in Pass |-> Idle]
  /\ retrieval' = [c \in Client |-> NoRetrieval]
  /\ UNCHANGED <<database, requests, accepted, clicks>>

Continue(p) ==
  \/ pass[p].pc = "claim" /\ DispatchPending(p)
  \/ Rotate(p) \/ Send(p) \/ Record(p) \/ ResendToken(p) \/ ChangeRecipient(p)

Request(p) ==
  \/ IssueTokens(p) \/ DispatchPending(p) \/ RetryFailed(p)
  \/ \E v \in Voter : FindForResend(p, v) \/ \E a \in Address : FindForRecipient(p, v, a)

Next ==
  \/ \E p \in Pass : Request(p) \/ Continue(p)
  \/ \E c \in Client : RedeemForRing(c) \/ \E m \in inbox : LockTokenByHash(c, m.link)
  \/ \E v \in Voter : WindowRunsOut(v)
  \/ Advance
  \/ Crash

Spec == Init /\ [][Next]_vars
-----------------------------------------------------------------------------
TypeOK ==
  /\ roll \subseteq Voter
  /\ status \in {"RINGS_FROZEN", "VOTING_OPEN", "VOTING_CLOSED"}
  /\ expired \in BOOLEAN
  /\ token \in [Voter -> [hash : 0 .. links, status : Delivery \cup {"NONE"}, to : Address,
                          redeemed : 0 .. links, window : BOOLEAN,
                          resends : 0 .. MaxResends]]
  /\ inbox \subseteq [link : 1 .. links, to : Address]
  /\ links \in Nat
  /\ \A p \in Pass : /\ pass[p].pc \in {"idle", "claim", "rotate", "send", "record", "allow", "redirect"}
                     /\ Carries(p) \subseteq Issued
  /\ Issued \subseteq roll
  /\ accepted \in [Voter -> 0 .. links]
  /\ disturbed \subseteq Voter
=============================================================================
