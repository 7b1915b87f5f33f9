----------------------------- MODULE KeyCustody -----------------------------
(***************************************************************************)
(* A voter's key, which exists nowhere but with the voter: made in the     *)
(* browser on the registration page or the replacement page, saved to a    *)
(* file, submitted as a public key, kept in the browser if that works.     *)
(* The server and its officers appear as the voter sees them.  Keys are    *)
(* numbered as they are made.                                              *)
(***************************************************************************)
EXTENDS Naturals, FiniteSets

CONSTANTS Citizen,    \* people who share a browser
          Wizard,     \* tabs in which one of the two pages is open
          MaxKeys,    \* bound: keys made
          MaxVisits   \* bound: pages opened

ASSUME CustodyAssumption == {MaxKeys, MaxVisits} \subseteq Nat

VARIABLES made,     \* keys made so far: 1 .. made
          wizard,   \* [Wizard -> the page and how far it is, or Closed]
          file,     \* [Citizen -> keys they saved to a file]
          stored,   \* the key the browser remembers, and whose it is, or NoKey
          entry,    \* [Citizen -> their registration as the server has it]
          asking,   \* [Citizen -> the replacement key under review, or 0]
          group,    \* [Citizen -> their key in the frozen group, or 0]
          visits    \* pages opened

officeVars == <<entry, asking, group>>
custodyVars == <<made, wizard, file, stored, officeVars, visits>>

Closed == [page |-> "none", step |-> 0, sent |-> "no"]
NoKey == [key |-> 0]
NoEntry == [status |-> "NONE", key |-> 0]

CustodyInit ==
  /\ made = 0 /\ visits = 0
  /\ wizard = [w \in Wizard |-> Closed]
  /\ file = [c \in Citizen |-> {}]
  /\ stored = NoKey
  /\ entry = [c \in Citizen |-> NoEntry]
  /\ asking = [c \in Citizen |-> 0]
  /\ group = [c \in Citizen |-> 0]

Frozen == \E c \in Citizen : group[c] # 0

\* The status page links to the replacement page when the server says a key can be
\* replaced: before review, or after it if no frozen group holds the old one and no
\* replacement is under review.
Replaceable(c) ==
  \/ entry[c].status = "PENDING"
  \/ entry[c].status = "APPROVED" /\ asking[c] = 0 /\ group[c] = 0

-----------------------------------------------------------------------------
\* The pages.  What a page knows is gone when it is closed or left; a request it has
\* sent has arrived by then or never will.
Visit(w, c, page) ==
  /\ wizard[w].sent # "sent"
  /\ visits < MaxVisits /\ visits' = visits + 1
  /\ page = "replace" => Replaceable(c)
  /\ wizard' = [wizard EXCEPT ![w] = [page |-> page, citizen |-> c, step |-> 1, key |-> 0,
                                      downloaded |-> FALSE, sent |-> "no"]]
  /\ UNCHANGED <<made, file, stored, officeVars>>

At(w, page, step) == wizard[w].page = page /\ wizard[w].step = step /\ wizard[w].sent = "no"

\* Variant: a key is made whenever the step is entered.
GenerateAnew(w) ==
  /\ made < MaxKeys
  /\ made' = made + 1
  /\ wizard' = [wizard EXCEPT ![w].key = made + 1, ![w].step = 2]
  /\ UNCHANGED <<file, stored, officeVars, visits>>

\* A key is made once in a visit and kept.
Generate(w) ==
  /\ IF wizard[w].key # 0 THEN UNCHANGED made /\ wizard' = [wizard EXCEPT ![w].step = 2]
     ELSE /\ made < MaxKeys
          /\ made' = made + 1
          /\ wizard' = [wizard EXCEPT ![w].key = made + 1, ![w].step = 2]
  /\ UNCHANGED <<file, stored, officeVars, visits>>

GoToKeyStep(w) == At(w, "register", 1) /\ Generate(w)
HandleGenerate(w) == At(w, "replace", 1) /\ Generate(w)

HandleDownload(w) ==
  /\ \E page \in {"register", "replace"} : At(w, page, 2)
  /\ file' = [file EXCEPT ![wizard[w].citizen] = @ \cup {wizard[w].key}]
  /\ wizard' = [wizard EXCEPT ![w].downloaded = TRUE]
  /\ UNCHANGED <<made, stored, officeVars, visits>>

GoToReview(w) ==
  /\ At(w, "register", 2) /\ wizard[w].downloaded
  /\ wizard' = [wizard EXCEPT ![w].step = 3]
  /\ UNCHANGED <<made, file, stored, officeVars, visits>>

StepBack(w) ==
  /\ \E step \in {2, 3} : At(w, "register", step)
  /\ wizard' = [wizard EXCEPT ![w].step = @ - 1]
  /\ UNCHANGED <<made, file, stored, officeVars, visits>>

Submit(w) ==
  /\ At(w, "register", 3) \/ (At(w, "replace", 2) /\ wizard[w].downloaded)
  /\ wizard' = [wizard EXCEPT ![w].sent = "sent"]
  /\ UNCHANGED <<made, file, stored, officeVars, visits>>

-----------------------------------------------------------------------------
\* The server.  A registration is new or refused; a replacement corrects one that was
\* not reviewed, or is filed for review, or is refused.
Settled(w, accepted) ==
  wizard' = [wizard EXCEPT ![w].sent = IF accepted THEN "accepted" ELSE "refused"]

ReceiveRegistration(w) ==
  LET c == wizard[w].citizen
      new == entry[c].status \in {"NONE", "REJECTED"}
  IN  /\ wizard[w].page = "register" /\ wizard[w].sent = "sent"
      /\ entry' = IF new THEN [entry EXCEPT ![c] = [status |-> "PENDING", key |-> wizard[w].key]]
                  ELSE entry
      /\ Settled(w, new)
      /\ UNCHANGED <<made, file, stored, asking, group, visits>>

ReceiveReplacement(w) ==
  LET c == wizard[w].citizen
      k == wizard[w].key
      able == Replaceable(c) /\ k # entry[c].key
  IN  /\ wizard[w].page = "replace" /\ wizard[w].sent = "sent"
      /\ entry' = IF able /\ entry[c].status = "PENDING" THEN [entry EXCEPT ![c].key = k] ELSE entry
      /\ asking' = IF able /\ entry[c].status = "APPROVED" THEN [asking EXCEPT ![c] = k]
                    ELSE asking
      /\ Settled(w, able)
      /\ UNCHANGED <<made, file, stored, group, visits>>

LoseSubmission(w) ==
  /\ wizard[w].sent = "sent"
  /\ Settled(w, FALSE)
  /\ UNCHANGED <<made, file, stored, officeVars, visits>>

\* The answer: the browser keeps a copy if the voter wants it and storage works, and
\* the page is left.  After a refusal or a lost answer everything is as before.
Answered(w, lost, keeps) ==
  LET p == wizard[w]
  IN  /\ p.sent \in {"accepted", "refused"}
      /\ IF p.sent = "accepted" /\ ~lost
           THEN /\ wizard' = [wizard EXCEPT ![w] = Closed]
                /\ stored' = IF keeps THEN [key |-> p.key, citizen |-> p.citizen] ELSE stored
           ELSE wizard' = [wizard EXCEPT ![w].sent = "no"] /\ UNCHANGED stored
      /\ UNCHANGED <<made, file, officeVars, visits>>

-----------------------------------------------------------------------------
\* The officers.  A registration may be reviewed at any time; an approval after the
\* groups are frozen names no election and puts nobody on the roll.
Review(c, approved) ==
  /\ entry[c].status = "PENDING"
  /\ entry' = [entry EXCEPT ![c].status = IF approved THEN "APPROVED" ELSE "REJECTED"]
  /\ UNCHANGED <<made, wizard, file, stored, asking, group, visits>>

ReviewReplacement(c, approved) ==
  /\ asking[c] # 0 /\ (approved => group[c] = 0)
  /\ asking' = [asking EXCEPT ![c] = 0]
  /\ entry' = IF approved THEN [entry EXCEPT ![c].key = asking[c]] ELSE entry
  /\ UNCHANGED <<made, wizard, file, stored, group, visits>>

\* The groups are formed of those on the roll, which approval alone does not put
\* anybody on.
FreezeGroups(enrolled) ==
  /\ ~Frozen /\ enrolled # {}
  /\ \A c \in enrolled : entry[c].status = "APPROVED"
  /\ group' = [c \in Citizen |-> IF c \in enrolled THEN entry[c].key ELSE 0]
  /\ UNCHANGED <<made, wizard, file, stored, entry, asking, visits>>

CustodyNext ==
  \/ \E w \in Wizard :
       \/ \E c \in Citizen, page \in {"register", "replace"} : Visit(w, c, page)
       \/ GoToKeyStep(w) \/ HandleGenerate(w) \/ HandleDownload(w) \/ GoToReview(w)
       \/ StepBack(w) \/ Submit(w) \/ ReceiveRegistration(w) \/ ReceiveReplacement(w)
       \/ LoseSubmission(w)
       \/ \E lost, keeps \in BOOLEAN : Answered(w, lost, keeps)
  \/ \E c \in Citizen, approved \in BOOLEAN : Review(c, approved) \/ ReviewReplacement(c, approved)
  \/ \E enrolled \in SUBSET Citizen : FreezeGroups(enrolled)

CustodySpec == CustodyInit /\ [][CustodyNext]_custodyVars
=============================================================================
