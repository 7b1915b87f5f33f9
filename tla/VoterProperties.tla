-------------------------- MODULE VoterProperties --------------------------
(***************************************************************************)
(* What a voter may rely on: that the key they need is in their hands, and *)
(* that what their browser tells them of their ballot is so.               *)
(***************************************************************************)
EXTENDS KeyCustody, Voting

CustodyTypeOK ==
  /\ stored.key \in 0 .. made
  /\ \A c \in Citizen : /\ file[c] \subseteq 1 .. made
                        /\ {entry[c].key, asking[c], group[c]} \subseteq 0 .. made
                        /\ entry[c].status \in {"NONE", "PENDING", "APPROVED", "REJECTED"}
  /\ \A w \in Wizard : wizard[w].step \in 0 .. 3

VotingTypeOK ==
  /\ {counted, taken, sent, receipts} \subseteq SUBSET Box!Ballot
  /\ \A b \in Booth : booth[b].stage \in {"ready", "casting", "cast"}
  /\ {lookup, verify.image, verify.result} \subseteq Signer \cup {"none"}

\* Whatever the voter does on the pages, in whatever order, in two tabs, with answers
\* lost and pages left: the key the server has for them, the one under review and the
\* one in their group are each in a file they saved.  Nobody could give it back.
KeyHeld ==
  \A c \in Citizen : {entry[c].key, asking[c], group[c]} \ {0} \subseteq file[c]

\* The copy in the browser is a key of its owner's and saved as well.
StoredHeld == stored # NoKey => stored.key \in file[stored.citizen]

\* "Your current key keeps working until they do": the key the browser remembers for
\* somebody whose key was frozen into a group is that key.
StoredWorks ==
  stored # NoKey /\ group[stored.citizen] # 0 => stored.key = group[stored.citizen]

\* A receipt is a ballot that the ledger holds or is about to mine, unless the node
\* lost ballots or two ballots of one key were sent with different choices.
ReceiptTruthful ==
  ~lost /\ (\A b, c \in sent : b.image = c.image => b = c) => receipts \subseteq counted \cup taken

\* "Your ballot has been recorded on the ledger": the same, as long as the node loses
\* nothing, for a voter who tries again after a lost reply as well.
RecordedAsSaid == ~lost => receipts \subseteq counted \cup taken

\* "Nothing has been recorded": a page that says so is right.
NothingRecordedAsSaid ==
  \A b \in Booth : booth[b].message = "nothing recorded" =>
    \A v \in counted \cup taken : v.image # booth[b].key

\* The result on the verify page is about the key image that is entered.  It does not
\* hold: an answer is shown whatever was entered meanwhile.
VerifyFits == verify.result \in {verify.image, "none"}
=============================================================================
