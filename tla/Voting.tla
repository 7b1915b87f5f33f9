------------------------------- MODULE Voting -------------------------------
(***************************************************************************)
(* Casting a ballot and looking it up afterwards, in one voter's browser.  *)
(*                                                                         *)
(* A voting page holds a key of its group and a choice; the signed ballot  *)
(* goes straight to the ledger's node, whose reply may be lost.  The       *)
(* browser keeps a receipt for each key image.  The verify page asks the   *)
(* node about a receipt, and shows the answer that came last.  The ledger  *)
(* is the ballot box (BallotBox) of the node and the ballots it has taken  *)
(* in but not mined.                                                       *)
(***************************************************************************)
EXTENDS Naturals, FiniteSets

CONSTANTS Signer,    \* keys of the group, each with its key image
          Choice,    \* candidates
          Booth,     \* tabs with a voting page
          Keys,      \* [Booth -> the keys its voter has at hand]
          MaxCasts   \* bound: ballots sent

ASSUME VotingAssumption == Keys \in [Booth -> SUBSET Signer] /\ MaxCasts \in Nat

VARIABLES booth,     \* [Booth -> the page: its key, its choice and how far it is]
          counted,   \* what the node's chain records
          taken,     \* ballots the node has taken in and not mined
          receipts,  \* receipts the browser keeps
          verify,    \* the verify page: the image entered and the one the result is about
          lookup,    \* the image looked up, or "none"
          casts,     \* ballots sent
          sent,      \* the ballots that were sent
          lost       \* history: the node has lost ballots

pageVars == <<receipts, verify, lookup>>
votingVars == <<booth, counted, taken, pageVars, casts, sent, lost>>

NoChoice == "none"
Unused == [key |-> "none", choice |-> NoChoice, stage |-> "ready", message |-> "none"]

Box == INSTANCE BallotBox WITH
         Nodes <- {"node"}, Images <- Signer, Candidates <- Choice, box <- [n \in {"node"} |-> counted]

VotingInit ==
  /\ booth = [b \in Booth |-> Unused]
  /\ counted = {} /\ taken = {} /\ receipts = {}
  /\ verify = [image |-> "none", result |-> "none"]
  /\ lookup = "none"
  /\ casts = 0 /\ sent = {}
  /\ lost = FALSE

-----------------------------------------------------------------------------
\* The voting page.  A key that is not in the group cannot be used, and another one
\* cannot be loaded over one that can; the page can be left at any moment.
LoadKey(b, k) ==
  /\ booth[b].key = "none" /\ booth[b].stage # "cast"
  /\ booth' = [booth EXCEPT ![b].key = k]
  /\ UNCHANGED <<counted, taken, pageVars, casts, sent, lost>>

UseDifferentKey(b) ==
  /\ booth[b].key # "none" /\ booth[b].stage # "cast"
  /\ booth' = [booth EXCEPT ![b].key = "none", ![b].choice = NoChoice]
  /\ UNCHANGED <<counted, taken, pageVars, casts, sent, lost>>

\* The choice can be changed while the ballot is under way.
Choose(b, c) ==
  /\ booth[b].key # "none" /\ booth[b].stage # "cast" /\ booth[b].choice # c
  /\ booth' = [booth EXCEPT ![b].choice = c]
  /\ UNCHANGED <<counted, taken, pageVars, casts, sent, lost>>

Cast(b) ==
  /\ booth[b].stage = "ready" /\ booth[b].key # "none" /\ booth[b].choice # NoChoice
  /\ casts < MaxCasts /\ casts' = casts + 1
  /\ sent' = sent \cup {[image |-> booth[b].key, cand |-> booth[b].choice]}
  /\ booth' = [booth EXCEPT ![b] =
       [key |-> booth[b].key, choice |-> booth[b].choice, stage |-> "casting", message |-> "none",
        sent |-> [image |-> booth[b].key, cand |-> booth[b].choice], reply |-> "none"]]
  /\ UNCHANGED <<counted, taken, pageVars, lost>>

\* The node answers OK unless its chain knows the key image; a ballot whose key image
\* already waits to be mined is dropped all the same.
ReceiveBallot(b) ==
  LET ballot == booth[b].sent
      Knows(ballots) == \E v \in ballots : v.image = ballot.image
  IN  /\ booth[b].stage = "casting" /\ booth[b].reply = "none"
      /\ booth' = [booth EXCEPT ![b].reply = IF Knows(counted) THEN "DOUBLE_VOTE" ELSE "OK"]
      /\ taken' = IF Knows(counted \cup taken) THEN taken ELSE taken \cup {ballot}
      /\ UNCHANGED <<counted, pageVars, casts, sent, lost>>

\* Variant: the receipt names the candidate that is chosen when the reply arrives.
ReceiptAsChosen(b) == [image |-> booth[b].sent.image, cand |-> booth[b].choice]

Receipt(b) == [image |-> booth[b].sent.image, cand |-> booth[b].sent.cand]

\* A receipt takes the place of an earlier one for the key image.
SaveVoteReceipt(r) == receipts' = {q \in receipts : q.image # r.image} \cup {r}

After(b, stage, message) ==
  booth' = [booth EXCEPT ![b] = [key |-> booth[b].key, choice |-> booth[b].choice,
                                 stage |-> stage, message |-> message]]

Replied(b) ==
  /\ booth[b].stage = "casting" /\ booth[b].reply # "none"
  /\ IF booth[b].reply = "OK" THEN SaveVoteReceipt(Receipt(b)) /\ After(b, "cast", "recorded")
     ELSE After(b, "ready", "already cast") /\ UNCHANGED receipts
  /\ UNCHANGED <<counted, taken, verify, lookup, casts, sent, lost>>

\* No connection, or none any more.
Unreachable(b) ==
  /\ booth[b].stage = "casting"
  /\ After(b, "ready", "nothing recorded")
  /\ UNCHANGED <<counted, taken, pageVars, casts, sent, lost>>

Leave(b) ==
  /\ booth[b] # Unused /\ booth[b].stage # "casting"
  /\ booth' = [booth EXCEPT ![b] = Unused]
  /\ UNCHANGED <<counted, taken, pageVars, casts, sent, lost>>

-----------------------------------------------------------------------------
\* The ledger mines what it took in; a restart loses chain and pool, a longer chain
\* loses what it does not hold.
Mine ==
  /\ \E v \in taken : /\ counted' = counted \cup {v}
                      /\ Box!Count("node", v)
                      /\ taken' = taken \ {v}
  /\ UNCHANGED <<booth, pageVars, casts, sent, lost>>

LoseBallots ==
  /\ counted \cup taken # {}
  /\ \/ counted' = {} /\ taken' = {}
     \/ \E v \in taken : taken' = taken \ {v} /\ UNCHANGED counted
  /\ lost' = TRUE
  /\ UNCHANGED <<booth, pageVars, casts, sent>>

-----------------------------------------------------------------------------
\* The verify page.
SelectReceipt(r) ==
  /\ r \in receipts
  /\ verify' = [image |-> r.image, result |-> "none"]
  /\ UNCHANGED <<booth, counted, taken, receipts, lookup, casts, sent, lost>>

\* A node and a key image typed by hand; what was shown stays.
EnterKeyImage(i) ==
  /\ verify.image # i
  /\ verify' = [verify EXCEPT !.image = i]
  /\ UNCHANGED <<booth, counted, taken, receipts, lookup, casts, sent, lost>>

Check ==
  /\ lookup = "none" /\ verify.image # "none"
  /\ lookup' = verify.image
  /\ verify' = [verify EXCEPT !.result = "none"]
  /\ UNCHANGED <<booth, counted, taken, receipts, casts, sent, lost>>

\* What the node answers is shown as it is, whatever is entered by then.
Looked(answered) ==
  /\ lookup # "none"
  /\ lookup' = "none"
  /\ verify' = [verify EXCEPT !.result = IF answered THEN lookup ELSE @]
  /\ UNCHANGED <<booth, counted, taken, receipts, casts, sent, lost>>

VotingNext ==
  \/ \E b \in Booth :
       \/ \E k \in Keys[b] : LoadKey(b, k)
       \/ \E c \in Choice : Choose(b, c)
       \/ UseDifferentKey(b) \/ Cast(b) \/ ReceiveBallot(b) \/ Replied(b) \/ Unreachable(b)
       \/ Leave(b)
  \/ Mine \/ LoseBallots \/ Check
  \/ \E r \in receipts : SelectReceipt(r)
  \/ \E i \in Signer : EnterKeyImage(i)
  \/ \E answered \in BOOLEAN : Looked(answered)

VotingSpec == VotingInit /\ [][VotingNext]_votingVars
=============================================================================
