---------------------------- MODULE VoterProofs ----------------------------
(***************************************************************************)
(* What voters may rely on, proved for every number of voters, tabs, keys, *)
(* visits and tokens: no key is ever lost by the pages, a page says what   *)
(* became of its ballot, and a ring signature verifies for the ballot it   *)
(* was made for and no other, and links exactly the ballots of one key.    *)
(***************************************************************************)
EXTENDS VoterProperties, SigningProperties, TLAPS

\* Pages that are open, with what they know.
PageOpen ==
  [page : {"register", "replace"}, citizen : Citizen, step : {1, 2, 3}, key : Nat,
   downloaded : BOOLEAN, sent : {"no", "sent", "accepted", "refused"}]

CustodyTyped ==
  /\ made \in Nat
  /\ wizard \in [Wizard -> PageOpen \cup {Closed}]
  /\ file \in [Citizen -> SUBSET Nat]
  /\ entry \in [Citizen -> [status : {"NONE", "PENDING", "APPROVED", "REJECTED"}, key : Nat]]
  /\ asking \in [Citizen -> Nat]
  /\ group \in [Citizen -> Nat]

\* What a page believes saved is saved: a key is not exchanged behind the voter's
\* back, and none is submitted before it was downloaded.
Truthful(p) ==
  /\ p.downloaded \/ p.step # 1 => p.key # 0
  /\ p.downloaded => p.key \in file[p.citizen]
  /\ p.step = 3 \/ p.sent # "no" => p.downloaded

PagesTruthful == \A w \in Wizard : wizard[w] # Closed => Truthful(wizard[w])

CustodyInv == CustodyTyped /\ PagesTruthful /\ KeyHeld

-----------------------------------------------------------------------------
LEMMA CustodyInitHolds == CustodyInit => CustodyInv
BY DEF CustodyInit, CustodyInv, CustodyTyped, PagesTruthful, KeyHeld, NoEntry, PageOpen

\* A page that is at work is open.
LEMMA AtWork ==
  ASSUME CustodyTyped, NEW w \in Wizard, wizard[w].page # "none"
  PROVE  wizard[w] \in PageOpen /\ wizard[w] # Closed
BY DEF CustodyTyped, Closed, PageOpen

\* A step that replaces a page by a truthful one and changes nothing else that keys
\* depend on.
LEMMA PageStep ==
  ASSUME CustodyInv, NEW w \in Wizard, NEW p \in PageOpen \cup {Closed},
         wizard' = [wizard EXCEPT ![w] = p], made' \in Nat,
         p # Closed => Truthful(p),
         UNCHANGED <<file, entry, asking, group>>
  PROVE  CustodyInv'
<1>1. CustodyTyped'
  BY DEF CustodyInv, CustodyTyped
<1>2. PagesTruthful'
  BY DEF CustodyInv, CustodyTyped, PagesTruthful, Truthful
<1>3. KeyHeld'
  BY DEF CustodyInv, KeyHeld
<1>4. QED BY <1>1, <1>2, <1>3 DEF CustodyInv

LEMMA VisitHolds ==
  ASSUME CustodyInv, NEW w \in Wizard, NEW c \in Citizen, NEW page \in {"register", "replace"},
         Visit(w, c, page)
  PROVE  CustodyInv'
<1> DEFINE p == [page |-> page, citizen |-> c, step |-> 1, key |-> 0, downloaded |-> FALSE, sent |-> "no"]
<1>1. p \in PageOpen /\ Truthful(p)
  BY DEF PageOpen, Truthful
<1>2. wizard' = [wizard EXCEPT ![w] = p] /\ UNCHANGED <<made, file, entry, asking, group>>
  BY DEF Visit, officeVars
<1>3. made' \in Nat
  BY <1>2 DEF CustodyInv, CustodyTyped
<1> HIDE DEF p
<1>4. QED BY <1>1, <1>2, <1>3, PageStep

\* A key is made on a page that has none, which therefore has downloaded none, so
\* nothing downloaded is exchanged.
LEMMA GenerateHolds ==
  ASSUME CustodyInv, NEW w \in Wizard, GoToKeyStep(w) \/ HandleGenerate(w)
  PROVE  CustodyInv'
<1> DEFINE p == wizard[w]
           kept == [p EXCEPT !.step = 2]
           fresh == [p EXCEPT !.key = made + 1, !.step = 2]
<1>1. p \in PageOpen /\ Truthful(p) /\ p.sent = "no" /\ made \in Nat
  BY AtWork DEF GoToKeyStep, HandleGenerate, At, CustodyInv, CustodyTyped, PagesTruthful
<1>2. kept \in PageOpen /\ fresh \in PageOpen
  <2>1. kept \in PageOpen
    BY <1>1 DEF PageOpen
  <2>2. made + 1 \in Nat
    BY <1>1
  <2>3. fresh \in PageOpen
    BY <1>1, <2>2 DEF PageOpen
  <2>4. QED BY <2>1, <2>3
<1>3. UNCHANGED <<file, entry, asking, group>>
  BY DEF GoToKeyStep, HandleGenerate, Generate, officeVars
<1>4. CASE p.key # 0
  <2>1. Truthful(kept)
    BY <1>1, <1>4 DEF Truthful, PageOpen
  <2>2. wizard' = [wizard EXCEPT ![w] = kept] /\ made' \in Nat
    BY <1>1, <1>4 DEF GoToKeyStep, HandleGenerate, Generate
  <2> HIDE DEF kept
  <2>3. QED BY <1>2, <1>3, <2>1, <2>2, PageStep
<1>5. CASE p.key = 0
  <2>1. Truthful(fresh)
    BY <1>1, <1>5 DEF Truthful, PageOpen
  <2>2. wizard' = [wizard EXCEPT ![w] = fresh] /\ made' \in Nat
    <3>1. made' = made + 1
      BY <1>5 DEF GoToKeyStep, HandleGenerate, Generate
    <3>2. wizard' = [wizard EXCEPT ![w].key = made + 1, ![w].step = 2]
      BY <1>5 DEF GoToKeyStep, HandleGenerate, Generate
    <3>3. wizard' = [wizard EXCEPT ![w] = fresh]
      BY <3>2 DEF CustodyInv, CustodyTyped
    <3>4. made' \in Nat
      BY <1>1, <3>1
    <3>5. QED BY <3>3, <3>4
  <2> HIDE DEF fresh
  <2>3. QED BY <1>2, <1>3, <2>1, <2>2, PageStep
<1>6. QED BY <1>4, <1>5

\* Saving a file adds to what is saved.
LEMMA HandleDownloadHolds ==
  ASSUME CustodyInv, NEW w \in Wizard, HandleDownload(w)
  PROVE  CustodyInv'
<1> DEFINE p == wizard[w]
           c == p.citizen
           saved == [p EXCEPT !.downloaded = TRUE]
<1>1. p \in PageOpen /\ Truthful(p) /\ p.sent = "no" /\ p.step = 2
  BY AtWork DEF HandleDownload, At, CustodyInv, CustodyTyped, PagesTruthful
<1>2. saved \in PageOpen /\ c \in Citizen /\ p.key \in Nat /\ p.key # 0
  BY <1>1 DEF PageOpen, Truthful
<1>3. /\ file' = [file EXCEPT ![c] = file[c] \cup {p.key}]
      /\ wizard' = [wizard EXCEPT ![w] = saved]
      /\ UNCHANGED <<made, entry, asking, group>>
  BY DEF HandleDownload, officeVars
<1>4. /\ file' \in [Citizen -> SUBSET Nat]
      /\ \A d \in Citizen : file[d] \subseteq file'[d]
      /\ p.key \in file'[c]
  BY <1>2, <1>3 DEF CustodyInv, CustodyTyped
<1>5. saved.key \in file'[saved.citizen] /\ saved.key # 0 /\ saved.downloaded
  BY <1>1, <1>2, <1>4 DEF PageOpen
<1>6. CustodyTyped'
  BY <1>2, <1>3, <1>4 DEF CustodyInv, CustodyTyped
<1>7. PagesTruthful'
  <2> SUFFICES ASSUME NEW v \in Wizard, wizard'[v] # Closed
               PROVE  Truthful(wizard[v])'
    BY DEF PagesTruthful
  <2>1. CASE v = w
    BY <2>1, <1>3, <1>5 DEF CustodyInv, CustodyTyped, Truthful
  <2>2. CASE v # w
    <3>1. wizard'[v] = wizard[v] /\ wizard[v] \in PageOpen /\ Truthful(wizard[v])
      BY <2>2, <1>3 DEF CustodyInv, CustodyTyped, PagesTruthful
    <3>2. wizard[v].citizen \in Citizen
      BY <3>1 DEF PageOpen
    <3>3. QED BY <3>1, <3>2, <1>4 DEF Truthful
  <2>3. QED BY <2>1, <2>2
<1>8. KeyHeld'
  BY <1>3, <1>4 DEF CustodyInv, KeyHeld
<1>9. QED BY <1>6, <1>7, <1>8 DEF CustodyInv

\* Going on, going back, sending, and learning what became of it change no key; only
\* what was downloaded is reviewed or sent.
LEMMA MoveHolds ==
  ASSUME CustodyInv, NEW w \in Wizard,
         \/ GoToReview(w) \/ StepBack(w) \/ Submit(w) \/ LoseSubmission(w)
         \/ \E away, keeps \in BOOLEAN : Answered(w, away, keeps)
  PROVE  CustodyInv'
<1> DEFINE p == wizard[w]
<1>1. p \in PageOpen /\ Truthful(p)
  <2>1. p # Closed
    <3>1. Closed.page = "none" /\ Closed.step = 0 /\ Closed.sent = "no"
      BY DEF Closed
    <3>2. CASE GoToReview(w) \/ StepBack(w) \/ Submit(w)
      BY <3>1, <3>2 DEF GoToReview, StepBack, Submit, At
    <3>3. CASE LoseSubmission(w)
      BY <3>1, <3>3 DEF LoseSubmission
    <3>4. ASSUME NEW away \in BOOLEAN, NEW keeps \in BOOLEAN, Answered(w, away, keeps)
          PROVE  p # Closed
      BY <3>1, <3>4 DEF Answered
    <3>5. QED BY <3>2, <3>3, <3>4
  <2>2. QED BY <2>1 DEF CustodyInv, CustodyTyped, PagesTruthful
<1>2. made \in Nat /\ UNCHANGED <<made, file, entry, asking, group>>
  BY DEF GoToReview, StepBack, Submit, LoseSubmission, Answered, CustodyInv, CustodyTyped,
         Settled, officeVars
<1>3. ASSUME GoToReview(w) PROVE CustodyInv'
  <2> DEFINE next == [p EXCEPT !.step = 3]
  <2>1. next \in PageOpen /\ Truthful(next) /\ wizard' = [wizard EXCEPT ![w] = next]
    BY <1>1, <1>3 DEF GoToReview, Truthful, PageOpen
  <2> HIDE DEF next
  <2>2. QED BY <1>2, <2>1, PageStep
<1>4. ASSUME StepBack(w) PROVE CustodyInv'
  <2> DEFINE next == [p EXCEPT !.step = p.step - 1]
  <2>1. p.step \in {2, 3} /\ p.sent = "no" /\ wizard' = [wizard EXCEPT ![w] = next]
    BY <1>4 DEF StepBack, At
  <2>2. next \in PageOpen /\ Truthful(next)
    BY <1>1, <2>1 DEF Truthful, PageOpen
  <2> HIDE DEF next
  <2>3. QED BY <1>2, <2>1, <2>2, PageStep
<1>5. ASSUME Submit(w) PROVE CustodyInv'
  <2> DEFINE next == [p EXCEPT !.sent = "sent"]
  <2>1. next \in PageOpen /\ Truthful(next) /\ wizard' = [wizard EXCEPT ![w] = next]
    BY <1>1, <1>5 DEF Submit, At, Truthful, PageOpen
  <2> HIDE DEF next
  <2>2. QED BY <1>2, <2>1, PageStep
<1>6. ASSUME LoseSubmission(w) PROVE CustodyInv'
  <2> DEFINE next == [p EXCEPT !.sent = "refused"]
  <2>1. next \in PageOpen /\ Truthful(next) /\ wizard' = [wizard EXCEPT ![w] = next]
    BY <1>1, <1>6 DEF LoseSubmission, Settled, Truthful, PageOpen
  <2> HIDE DEF next
  <2>2. QED BY <1>2, <2>1, PageStep
<1>7. ASSUME NEW away \in BOOLEAN, NEW keeps \in BOOLEAN, Answered(w, away, keeps) PROVE CustodyInv'
  <2> DEFINE next == [p EXCEPT !.sent = "no"]
  <2>1. next \in PageOpen /\ Truthful(next)
    BY <1>1 DEF Truthful, PageOpen
  <2>2. wizard' = [wizard EXCEPT ![w] = Closed] \/ wizard' = [wizard EXCEPT ![w] = next]
    BY <1>7 DEF Answered
  <2> HIDE DEF next
  <2>3. QED BY <1>2, <2>1, <2>2, PageStep
<1>8. QED BY <1>3, <1>4, <1>5, <1>6, <1>7

\* The server takes what a page sends, which was downloaded.
LEMMA ReceiveHolds ==
  ASSUME CustodyInv, NEW w \in Wizard, ReceiveRegistration(w) \/ ReceiveReplacement(w)
  PROVE  CustodyInv'
<1> DEFINE p == wizard[w]
           c == p.citizen
           after(reply) == [p EXCEPT !.sent = reply]
<1>1. p \in PageOpen /\ Truthful(p) /\ p.sent = "sent"
  BY AtWork DEF ReceiveRegistration, ReceiveReplacement, CustodyInv, CustodyTyped, PagesTruthful
<1>2. c \in Citizen /\ p.key \in Nat /\ p.key \in file[c]
  BY <1>1 DEF Truthful, PageOpen
<1>3. \A reply \in {"accepted", "refused"} : after(reply) \in PageOpen /\ Truthful(after(reply))
  BY <1>1 DEF PageOpen, Truthful
<1>4. PICK reply \in {"accepted", "refused"} : wizard' = [wizard EXCEPT ![w] = after(reply)]
  BY DEF ReceiveRegistration, ReceiveReplacement, Settled
<1>5. UNCHANGED <<made, file, group>>
  BY DEF ReceiveRegistration, ReceiveReplacement
<1>6. \/ UNCHANGED <<entry, asking>>
      \/ entry' = [entry EXCEPT ![c] = [status |-> "PENDING", key |-> p.key]] /\ UNCHANGED asking
      \/ entry' = [entry EXCEPT ![c].key = p.key] /\ UNCHANGED asking
      \/ asking' = [asking EXCEPT ![c] = p.key] /\ UNCHANGED entry
  <2>1. CASE ReceiveRegistration(w)
    BY <2>1 DEF ReceiveRegistration
  <2>2. CASE ReceiveReplacement(w)
    BY <2>2, <1>2 DEF ReceiveReplacement, CustodyInv, CustodyTyped
  <2>3. QED BY <2>1, <2>2
<1> HIDE DEF after
<1>7. CustodyTyped'
  BY <1>2, <1>3, <1>4, <1>5, <1>6 DEF CustodyInv, CustodyTyped
<1>8. PagesTruthful'
  BY <1>3, <1>4, <1>5 DEF CustodyInv, CustodyTyped, PagesTruthful, Truthful
<1>9. KeyHeld'
  BY <1>2, <1>5, <1>6 DEF CustodyInv, CustodyTyped, KeyHeld
<1>10. QED BY <1>7, <1>8, <1>9 DEF CustodyInv

\* The officers pass on keys the server has.
LEMMA OfficeHolds ==
  ASSUME CustodyInv,
         \/ \E c \in Citizen, approved \in BOOLEAN : Review(c, approved) \/ ReviewReplacement(c, approved)
         \/ \E enrolled \in SUBSET Citizen : FreezeGroups(enrolled)
  PROVE  CustodyInv'
<1>1. UNCHANGED <<made, wizard, file>>
  BY DEF Review, ReviewReplacement, FreezeGroups
<1>2. ASSUME NEW c \in Citizen, NEW approved \in BOOLEAN, Review(c, approved)
      PROVE  CustodyTyped' /\ KeyHeld'
  BY <1>1, <1>2 DEF Review, CustodyInv, CustodyTyped, KeyHeld
<1>3. ASSUME NEW c \in Citizen, NEW approved \in BOOLEAN, ReviewReplacement(c, approved)
      PROVE  CustodyTyped' /\ KeyHeld'
  BY <1>1, <1>3 DEF ReviewReplacement, CustodyInv, CustodyTyped, KeyHeld
<1>4. ASSUME NEW enrolled \in SUBSET Citizen, FreezeGroups(enrolled) PROVE CustodyTyped' /\ KeyHeld'
  BY <1>1, <1>4 DEF FreezeGroups, CustodyInv, CustodyTyped, KeyHeld
<1>5. PagesTruthful'
  BY <1>1 DEF CustodyInv, PagesTruthful, Truthful
<1>6. QED BY <1>2, <1>3, <1>4, <1>5 DEF CustodyInv

-----------------------------------------------------------------------------
\* What pages believe saved is saved, and what the server has was downloaded.
THEOREM CustodyInvariant == CustodySpec => []CustodyInv
<1>1. CustodyInv /\ [CustodyNext]_custodyVars => CustodyInv'
  <2> SUFFICES ASSUME CustodyInv, [CustodyNext]_custodyVars PROVE CustodyInv'
    OBVIOUS
  <2>1. CASE UNCHANGED custodyVars
    BY <2>1 DEF custodyVars, officeVars, CustodyInv, CustodyTyped, PagesTruthful, Truthful, KeyHeld
  <2>2. CASE CustodyNext
    BY <2>2, VisitHolds, GenerateHolds, HandleDownloadHolds, MoveHolds, ReceiveHolds, OfficeHolds
       DEF CustodyNext
  <2>3. QED BY <2>1, <2>2
<1>2. QED BY <1>1, CustodyInitHolds, PTL DEF CustodySpec

\* Nobody is registered, up for a replacement, or in a group with a key that is not in
\* a file of theirs (RegisterPage.tsx, ReplaceKeyPage.tsx).
THEOREM KeyHeldAlways == CustodySpec => []KeyHeld
<1>1. CustodyInv => KeyHeld
  BY DEF CustodyInv
<1>2. QED BY <1>1, CustodyInvariant, PTL

\* Keys on pages, in files and in the browser are keys that were made.
KeysMade ==
  /\ \A c \in Citizen : file[c] \subseteq 1 .. made
  /\ \A w \in Wizard : wizard[w] # Closed => wizard[w].key <= made
  /\ stored.key \in 0 .. made

\* A step in which page w alone changes, to one whose key was made.
LEMMA MadeStep ==
  ASSUME CustodyInv, KeysMade, NEW w \in Wizard, NEW p,
         wizard' = [wizard EXCEPT ![w] = p], made' \in Nat, made <= made',
         p # Closed => p.key <= made',
         \A c \in Citizen : file'[c] \subseteq 1 .. made',
         stored'.key \in 0 .. made'
  PROVE  KeysMade'
<1>1. ASSUME NEW v \in Wizard, wizard'[v] # Closed PROVE wizard'[v].key <= made'
  <2>1. CASE v = w
    BY <1>1, <2>1 DEF CustodyInv, CustodyTyped
  <2>2. CASE v # w
    <3>1. wizard'[v] = wizard[v] /\ wizard[v].key \in Nat /\ wizard[v].key <= made
      BY <1>1, <2>2 DEF CustodyInv, CustodyTyped, KeysMade, PageOpen
    <3>2. QED BY <3>1 DEF CustodyInv, CustodyTyped
  <2>3. QED BY <2>1, <2>2
<1>2. QED BY <1>1 DEF KeysMade

LEMMA KeysMadeStep ==
  ASSUME CustodyInv, KeysMade, [CustodyNext]_custodyVars
  PROVE  KeysMade'
<1>1. made \in Nat
  BY DEF CustodyInv, CustodyTyped
<1>2. CASE UNCHANGED <<made, file, wizard, stored>>
  BY <1>2 DEF KeysMade
<1>3. ASSUME NEW w \in Wizard, NEW c \in Citizen, NEW page \in {"register", "replace"},
             Visit(w, c, page)
      PROVE  KeysMade'
  <2> DEFINE p == [page |-> page, citizen |-> c, step |-> 1, key |-> 0, downloaded |-> FALSE, sent |-> "no"]
  <2>1. wizard' = [wizard EXCEPT ![w] = p] /\ UNCHANGED <<made, file, stored>> /\ p.key <= made'
    BY <1>1, <1>3 DEF Visit
  <2> HIDE DEF p
  <2>2. QED BY <1>1, <2>1, MadeStep DEF KeysMade
<1>4. ASSUME NEW w \in Wizard, GoToKeyStep(w) \/ HandleGenerate(w)
      PROVE  KeysMade'
  <2> DEFINE p == wizard[w]
             kept == [p EXCEPT !.step = 2]
             fresh == [p EXCEPT !.key = made + 1, !.step = 2]
  <2>1. p \in PageOpen /\ p # Closed
    BY <1>4, AtWork DEF GoToKeyStep, HandleGenerate, At, CustodyInv
  <2>2. kept.key = p.key /\ fresh.key = made + 1 /\ p.key <= made
    BY <2>1 DEF PageOpen, KeysMade
  <2>3. \/ wizard' = [wizard EXCEPT ![w] = kept] /\ made' = made
        \/ wizard' = [wizard EXCEPT ![w] = fresh] /\ made' = made + 1
    BY <1>4 DEF GoToKeyStep, HandleGenerate, Generate, CustodyInv, CustodyTyped
  <2>4. UNCHANGED <<file, stored>>
    BY <1>4 DEF GoToKeyStep, HandleGenerate, Generate
  <2>5. /\ made' \in Nat /\ made <= made' /\ stored'.key \in 0 .. made'
        /\ \A c \in Citizen : file'[c] \subseteq 1 .. made'
    BY <1>1, <2>3, <2>4 DEF KeysMade
  <2> HIDE DEF kept, fresh
  <2>6. QED BY <1>1, <2>2, <2>3, <2>5, MadeStep
<1>5. ASSUME NEW w \in Wizard, HandleDownload(w) PROVE KeysMade'
  <2> DEFINE p == wizard[w]
             saved == [p EXCEPT !.downloaded = TRUE]
  <2>1. p \in PageOpen /\ p # Closed /\ Truthful(p) /\ p.step = 2
    BY <1>5, AtWork DEF HandleDownload, At, CustodyInv, PagesTruthful
  <2>2. saved.key = p.key /\ p.key \in 1 .. made /\ p.citizen \in Citizen
    BY <1>1, <2>1 DEF PageOpen, KeysMade, Truthful
  <2>3. /\ wizard' = [wizard EXCEPT ![w] = saved] /\ UNCHANGED <<made, stored>>
        /\ file' = [file EXCEPT ![p.citizen] = @ \cup {p.key}]
    BY <1>5 DEF HandleDownload
  <2>4. \A c \in Citizen : file'[c] \subseteq 1 .. made'
    BY <2>2, <2>3 DEF KeysMade, CustodyInv, CustodyTyped
  <2> HIDE DEF saved
  <2>5. QED BY <1>1, <2>2, <2>3, <2>4, MadeStep DEF KeysMade
<1>6. ASSUME NEW w \in Wizard,
             \/ GoToReview(w) \/ StepBack(w) \/ Submit(w) \/ ReceiveRegistration(w)
             \/ ReceiveReplacement(w) \/ LoseSubmission(w)
             \/ \E away, keeps \in BOOLEAN : Answered(w, away, keeps)
      PROVE  KeysMade'
  <2> DEFINE p == wizard[w]
  <2>1. p \in PageOpen /\ p # Closed /\ p.key \in 0 .. made
    <3>1. p # Closed
      <4>1. Closed.page = "none" /\ Closed.step = 0 /\ Closed.sent = "no"
        BY DEF Closed
      <4>2. CASE GoToReview(w) \/ StepBack(w) \/ Submit(w)
        BY <4>1, <4>2 DEF GoToReview, StepBack, Submit, At
      <4>3. CASE ReceiveRegistration(w) \/ ReceiveReplacement(w) \/ LoseSubmission(w)
        BY <4>1, <4>3 DEF ReceiveRegistration, ReceiveReplacement, LoseSubmission
      <4>4. ASSUME NEW away \in BOOLEAN, NEW keeps \in BOOLEAN, Answered(w, away, keeps)
            PROVE  p # Closed
        BY <4>1, <4>4 DEF Answered
      <4>5. QED BY <1>6, <4>2, <4>3, <4>4
    <3>2. QED BY <1>1, <3>1 DEF CustodyInv, CustodyTyped, KeysMade, PageOpen
  <2>2. PICK q : wizard' = [wizard EXCEPT ![w] = q] /\ (q # Closed => q.key = p.key)
    <3>1. \/ wizard' = [wizard EXCEPT ![w] = Closed]
          \/ \E s : wizard' = [wizard EXCEPT ![w].step = s]
          \/ \E s : wizard' = [wizard EXCEPT ![w].sent = s]
      BY <1>6 DEF GoToReview, StepBack, Submit, ReceiveRegistration, ReceiveReplacement,
                  LoseSubmission, Answered, Settled
    <3>2. \A s : [p EXCEPT !.step = s].key = p.key /\ [p EXCEPT !.sent = s].key = p.key
      BY <2>1 DEF PageOpen
    <3>3. CASE wizard' = [wizard EXCEPT ![w] = Closed]
      BY <3>3
    <3>4. ASSUME NEW s, wizard' = [wizard EXCEPT ![w].step = s]
          PROVE  \E q : wizard' = [wizard EXCEPT ![w] = q] /\ (q # Closed => q.key = p.key)
      <4>1. wizard' = [wizard EXCEPT ![w] = [p EXCEPT !.step = s]]
        BY <3>4
      <4>2. QED BY <3>2, <4>1
    <3>5. ASSUME NEW s, wizard' = [wizard EXCEPT ![w].sent = s]
          PROVE  \E q : wizard' = [wizard EXCEPT ![w] = q] /\ (q # Closed => q.key = p.key)
      <4>1. wizard' = [wizard EXCEPT ![w] = [p EXCEPT !.sent = s]]
        BY <3>5
      <4>2. QED BY <3>2, <4>1
    <3>6. QED BY <3>1, <3>3, <3>4, <3>5
  <2>3. UNCHANGED <<made, file>>
    BY <1>6 DEF GoToReview, StepBack, Submit, ReceiveRegistration, ReceiveReplacement,
                LoseSubmission, Answered
  <2>4. stored'.key \in 0 .. made
    <3>1. stored' = stored \/ stored' = [key |-> p.key, citizen |-> p.citizen]
      BY <1>6 DEF GoToReview, StepBack, Submit, ReceiveRegistration, ReceiveReplacement,
                  LoseSubmission, Answered
    <3>2. QED BY <2>1, <3>1 DEF KeysMade
  <2>5. QED BY <1>1, <2>1, <2>2, <2>3, <2>4, MadeStep DEF KeysMade
<1>7. QED BY <1>2, <1>3, <1>4, <1>5, <1>6
          DEF CustodyNext, custodyVars, Review, ReviewReplacement, FreezeGroups

\* Every key the server, a file or the browser has was made on a page
\* (RegisterPage.tsx, ReplaceKeyPage.tsx, keyStorage.ts).
THEOREM CustodyTypes == CustodySpec => []CustodyTypeOK
<1>1. CustodyInit => KeysMade
  BY DEF CustodyInit, KeysMade, NoKey
<1>2. CustodyInv /\ KeysMade /\ [CustodyNext]_custodyVars => KeysMade'
  BY KeysMadeStep
<1>3. ASSUME CustodyInv, KeysMade PROVE CustodyTypeOK
  <2>1. ASSUME NEW c \in Citizen PROVE {entry[c].key, asking[c], group[c]} \subseteq 0 .. made
    <3>1. {entry[c].key, asking[c], group[c]} \ {0} \subseteq 1 .. made
      BY <1>3 DEF CustodyInv, KeyHeld, KeysMade
    <3>2. 0 \in 0 .. made
      BY <1>3 DEF CustodyInv, CustodyTyped
    <3>3. QED BY <3>1, <3>2
  <2>2. \A w \in Wizard : wizard[w].step \in 0 .. 3
    BY <1>3 DEF CustodyInv, CustodyTyped, PageOpen, Closed
  <2>3. QED BY <1>3, <2>1, <2>2 DEF CustodyTypeOK, CustodyInv, CustodyTyped, KeysMade
<1>4. QED BY <1>1, <1>2, <1>3, CustodyInvariant, PTL DEF CustodySpec

-----------------------------------------------------------------------------
\* A page on which a ballot may be made out, and one on which a ballot is under way.
BoothReady == [key : Signer \cup {"none"}, choice : Choice \cup {NoChoice}, stage : {"ready", "cast"},
               message : {"none", "recorded", "already cast", "nothing recorded"}]
Casting == [key : Signer \cup {"none"}, choice : Choice \cup {NoChoice}, stage : {"casting"},
            message : {"none"}, sent : sent, reply : {"none", "OK", "DOUBLE_VOTE"}]

VotingTyped ==
  /\ booth \in [Booth -> BoothReady \cup Casting]
  /\ sent \subseteq Box!Ballot
  /\ {counted, taken, receipts} \subseteq SUBSET sent
  /\ {lookup, verify.image, verify.result} \subseteq Signer \cup {"none"}
  /\ verify \in [image : Signer \cup {"none"}, result : Signer \cup {"none"}]

\* As long as the node loses nothing and a key's ballots agree, a ballot it answered
\* OK to is one that it holds, and so is one that a receipt is kept for.
OneBallotPerKey == \A b, c \in sent : b.image = c.image => b = c

HeldOnceAnswered ==
  ~lost /\ OneBallotPerKey =>
    /\ receipts \subseteq counted \cup taken
    /\ \A b \in Booth : booth[b].stage = "casting" /\ booth[b].reply = "OK" =>
         booth[b].sent \in counted \cup taken

VotingInv == VotingTyped /\ HeldOnceAnswered

LEMMA VotingInitHolds == VotingInit => VotingInv
BY DEF VotingInit, VotingInv, VotingTyped, HeldOnceAnswered, Unused, BoothReady, NoChoice

LEMMA BoothStates ==
  ASSUME VotingTyped, NEW b \in Booth
  PROVE  /\ booth[b].stage = "casting" => booth[b] \in Casting
         /\ booth[b].stage # "casting" => booth[b] \in BoothReady
         /\ booth[b].key \in Signer \cup {"none"} /\ booth[b].choice \in Choice \cup {NoChoice}
BY DEF VotingTyped, BoothReady, Casting

\* A step of one page that is not, or no longer, waiting for an answer of OK.
LEMMA BoothStep ==
  ASSUME VotingInv, NEW b \in Booth, NEW p \in BoothReady \cup Casting, booth' = [booth EXCEPT ![b] = p],
         p.stage = "casting" =>
           \/ p.reply # "OK"
           \/ p.sent = booth[b].sent /\ booth[b].stage = "casting" /\ booth[b].reply = "OK",
         UNCHANGED <<counted, taken, receipts, sent, verify, lookup, lost>>
  PROVE  VotingInv'
<1>1. VotingTyped'
  BY DEF VotingInv, VotingTyped, Casting
<1>2. HeldOnceAnswered'
  BY DEF VotingInv, VotingTyped, HeldOnceAnswered, OneBallotPerKey
<1>3. QED BY <1>1, <1>2 DEF VotingInv

\* What is done at a page without the ledger or the browser's memory.
LEMMA PageHolds ==
  ASSUME VotingInv, NEW b \in Booth,
         \/ \E k \in Keys[b] : LoadKey(b, k)
         \/ \E c \in Choice : Choose(b, c)
         \/ UseDifferentKey(b) \/ Unreachable(b) \/ Leave(b)
  PROVE  VotingInv'
<1> DEFINE p == booth[b]
<1>1. UNCHANGED <<counted, taken, receipts, sent, verify, lookup, lost>>
  BY DEF LoadKey, Choose, UseDifferentKey, Unreachable, Leave, After, pageVars
<1>2. /\ p \in BoothReady \cup Casting /\ (p.stage = "casting" => p \in Casting)
      /\ (p.stage # "casting" => p \in BoothReady)
      /\ p.key \in Signer \cup {"none"} /\ p.choice \in Choice \cup {NoChoice}
  BY BoothStates DEF VotingInv, VotingTyped
<1>3. ASSUME NEW k \in Keys[b], LoadKey(b, k) PROVE VotingInv'
  <2> DEFINE q == [p EXCEPT !.key = k]
  <2>1. k \in Signer
    BY VotingAssumption
  <2>2. q \in BoothReady \cup Casting /\ q.stage = p.stage
        /\ (p.stage = "casting" => q.reply # "OK" \/ (q.sent = p.sent /\ p.reply = "OK"))
    BY <1>2, <2>1 DEF BoothReady, Casting
  <2>3. booth' = [booth EXCEPT ![b] = q]
    BY <1>3 DEF LoadKey
  <2> HIDE DEF q
  <2>4. QED BY <1>1, <2>2, <2>3, BoothStep
<1>4. ASSUME NEW c \in Choice, Choose(b, c) PROVE VotingInv'
  <2> DEFINE q == [p EXCEPT !.choice = c]
  <2>1. q \in BoothReady \cup Casting /\ q.stage = p.stage
        /\ (p.stage = "casting" => q.reply # "OK" \/ (q.sent = p.sent /\ p.reply = "OK"))
    BY <1>2 DEF BoothReady, Casting
  <2>2. booth' = [booth EXCEPT ![b] = q]
    BY <1>4 DEF Choose
  <2> HIDE DEF q
  <2>3. QED BY <1>1, <2>1, <2>2, BoothStep
<1>5. ASSUME UseDifferentKey(b) PROVE VotingInv'
  <2> DEFINE q == [p EXCEPT !.key = "none", !.choice = NoChoice]
  <2>1. q \in BoothReady \cup Casting /\ q.stage = p.stage
        /\ (p.stage = "casting" => q.reply # "OK" \/ (q.sent = p.sent /\ p.reply = "OK"))
    BY <1>2 DEF BoothReady, Casting
  <2>2. booth' = [booth EXCEPT ![b] = q]
    BY <1>5 DEF UseDifferentKey
  <2> HIDE DEF q
  <2>3. QED BY <1>1, <2>1, <2>2, BoothStep
<1>6. ASSUME Unreachable(b) \/ Leave(b) PROVE VotingInv'
  <2> DEFINE q == [key |-> p.key, choice |-> p.choice, stage |-> "ready", message |-> "nothing recorded"]
  <2>1. q \in BoothReady /\ q.stage = "ready" /\ Unused \in BoothReady /\ Unused.stage = "ready"
    BY <1>2 DEF BoothReady, Unused
  <2>2. booth' = [booth EXCEPT ![b] = q] \/ booth' = [booth EXCEPT ![b] = Unused]
    BY <1>6 DEF Unreachable, Leave, After
  <2> HIDE DEF q
  <2>3. QED BY <1>1, <2>1, <2>2, BoothStep
<1>7. QED BY <1>3, <1>4, <1>5, <1>6

\* A second ballot of a key makes its ballots disagree, or is the same ballot again.
LEMMA CastHolds ==
  ASSUME VotingInv, NEW b \in Booth, Cast(b)
  PROVE  VotingInv'
<1> DEFINE ballot == [image |-> booth[b].key, cand |-> booth[b].choice]
           p == [key |-> booth[b].key, choice |-> booth[b].choice, stage |-> "casting",
                 message |-> "none", sent |-> ballot, reply |-> "none"]
<1>1. /\ sent' = sent \cup {ballot} /\ booth' = [booth EXCEPT ![b] = p]
      /\ UNCHANGED <<counted, taken, receipts, verify, lookup, lost>>
  BY DEF Cast, pageVars
<1>2. booth[b].key \in Signer /\ booth[b].choice \in Choice
  BY BoothStates DEF Cast, VotingInv
<1>3. ballot \in Box!Ballot /\ ballot \in sent'
  BY <1>1, <1>2 DEF Box!Ballot
<1> HIDE DEF ballot
<1>4. p \in Casting' /\ p.stage = "casting" /\ p.reply = "none" /\ p.sent = ballot
  BY <1>2, <1>3 DEF Casting
<1>5. Casting \subseteq Casting' /\ BoothReady' = BoothReady
  BY <1>1 DEF Casting, BoothReady
<1> HIDE DEF p
<1>6. VotingTyped'
  BY <1>1, <1>3, <1>4, <1>5 DEF VotingInv, VotingTyped
<1>7. OneBallotPerKey' => OneBallotPerKey
  BY <1>1 DEF OneBallotPerKey
<1>8. HeldOnceAnswered'
  BY <1>1, <1>4, <1>7 DEF VotingInv, VotingTyped, HeldOnceAnswered
<1>9. QED BY <1>6, <1>8 DEF VotingInv

\* A node that answers OK has the ballot, or one of the same key.
LEMMA ReceiveBallotHolds ==
  ASSUME VotingInv, NEW b \in Booth, ReceiveBallot(b)
  PROVE  VotingInv'
<1> PICK ballot : ballot = booth[b].sent
  OBVIOUS
<1> DEFINE Knows(ballots) == \E v \in ballots : v.image = ballot.image
           reply == IF Knows(counted) THEN "DOUBLE_VOTE" ELSE "OK"
           p == [booth[b] EXCEPT !.reply = reply]
<1>1. booth[b] \in Casting /\ ballot \in sent
  BY BoothStates DEF ReceiveBallot, VotingInv, Casting
<1>2. /\ booth' = [booth EXCEPT ![b] = p]
      /\ taken' = IF Knows(counted \cup taken) THEN taken ELSE taken \cup {ballot}
      /\ UNCHANGED <<counted, receipts, verify, lookup, sent, lost>>
  BY DEF ReceiveBallot, pageVars
<1>3. p \in Casting /\ p.sent = ballot /\ p.reply = reply /\ p.stage = "casting"
  BY <1>1 DEF Casting
<1>4. reply = "OK" /\ OneBallotPerKey => ballot \in counted \cup taken'
  BY <1>1, <1>2 DEF OneBallotPerKey, VotingInv, VotingTyped
<1>5. taken \subseteq taken' /\ taken' \subseteq sent
  BY <1>1, <1>2 DEF VotingInv, VotingTyped
<1> HIDE DEF p, reply
<1>6. VotingTyped'
  BY <1>2, <1>3, <1>5 DEF VotingInv, VotingTyped, Casting, BoothReady
<1>7. HeldOnceAnswered'
  BY <1>2, <1>3, <1>4, <1>5 DEF VotingInv, VotingTyped, HeldOnceAnswered, OneBallotPerKey
<1>8. QED BY <1>6, <1>7 DEF VotingInv

\* A receipt is kept for the ballot that the OK was for.
LEMMA RepliedHolds ==
  ASSUME VotingInv, NEW b \in Booth, Replied(b)
  PROVE  VotingInv'
<1> DEFINE p(stage, message) == [key |-> booth[b].key, choice |-> booth[b].choice,
                                 stage |-> stage, message |-> message]
<1>1. booth[b] \in Casting /\ booth[b].stage = "casting" /\ booth[b].sent \in sent
  BY BoothStates DEF Replied, VotingInv, Casting
<1>2. UNCHANGED <<counted, taken, sent, verify, lookup, lost>>
  BY DEF Replied
<1>3. /\ p("cast", "recorded") \in BoothReady /\ p("cast", "recorded").stage = "cast"
      /\ p("ready", "already cast") \in BoothReady /\ p("ready", "already cast").stage = "ready"
  BY <1>1 DEF BoothReady, Casting
<1>4. \/ booth[b].reply = "OK" /\ SaveVoteReceipt(Receipt(b)) /\ booth' = [booth EXCEPT ![b] = p("cast", "recorded")]
      \/ booth' = [booth EXCEPT ![b] = p("ready", "already cast")] /\ UNCHANGED receipts
  BY DEF Replied, After
<1> HIDE DEF p
<1>5. CASE booth' = [booth EXCEPT ![b] = p("ready", "already cast")] /\ UNCHANGED receipts
  BY <1>2, <1>3, <1>5, BoothStep
<1>6. CASE /\ booth[b].reply = "OK" /\ SaveVoteReceipt(Receipt(b))
           /\ booth' = [booth EXCEPT ![b] = p("cast", "recorded")]
  <2>1. Receipt(b) = booth[b].sent
    <3>1. booth[b].sent \in Box!Ballot
      BY <1>1 DEF VotingInv, VotingTyped
    <3>2. QED BY <3>1 DEF Receipt, Box!Ballot
  <2>2. receipts' \subseteq receipts \cup {booth[b].sent}
    BY <1>6, <2>1 DEF SaveVoteReceipt
  <2>3. PICK q \in BoothReady : q.stage = "cast" /\ booth' = [booth EXCEPT ![b] = q]
    BY <1>3, <1>6
  <2>4. receipts' \subseteq sent
    BY <1>1, <2>2 DEF VotingInv, VotingTyped
  <2>5. VotingTyped'
    BY <1>2, <2>3, <2>4 DEF VotingInv, VotingTyped, Casting, BoothReady
  <2>6. HeldOnceAnswered'
    BY <1>1, <1>2, <1>6, <2>2, <2>3 DEF VotingInv, VotingTyped, HeldOnceAnswered, OneBallotPerKey
  <2>7. QED BY <2>5, <2>6 DEF VotingInv
<1>7. QED BY <1>4, <1>5, <1>6

\* What is mined is held all the same; what the node loses is noted.
LEMMA NodeHolds ==
  ASSUME VotingInv, Mine \/ LoseBallots
  PROVE  VotingInv'
<1>1. UNCHANGED <<booth, receipts, verify, lookup, sent>>
  BY DEF Mine, LoseBallots, pageVars
<1>2. CASE Mine
  <2>1. counted' \cup taken' = counted \cup taken /\ counted' \subseteq sent /\ taken' \subseteq sent /\ UNCHANGED lost
    BY <1>2 DEF Mine, VotingInv, VotingTyped
  <2>2. VotingTyped'
    BY <1>1, <2>1 DEF VotingInv, VotingTyped, Casting, BoothReady
  <2>3. HeldOnceAnswered'
    BY <1>1, <2>1 DEF VotingInv, HeldOnceAnswered, OneBallotPerKey
  <2>4. QED BY <2>2, <2>3 DEF VotingInv
<1>3. CASE LoseBallots
  <2>1. lost' /\ counted' \subseteq sent /\ taken' \subseteq sent
    BY <1>3 DEF LoseBallots, VotingInv, VotingTyped
  <2>2. VotingTyped'
    BY <1>1, <2>1 DEF VotingInv, VotingTyped, Casting, BoothReady
  <2>3. QED BY <2>1, <2>2 DEF VotingInv, HeldOnceAnswered
<1>4. QED BY <1>2, <1>3

\* Looking up a ballot changes nothing but the verify page.
LEMMA LookHolds ==
  ASSUME VotingInv,
         \/ Check \/ \E r \in receipts : SelectReceipt(r)
         \/ \E i \in Signer : EnterKeyImage(i)
         \/ \E answered \in BOOLEAN : Looked(answered)
  PROVE  VotingInv'
<1>1. UNCHANGED <<booth, counted, taken, receipts, sent, lost>>
  BY DEF Check, SelectReceipt, EnterKeyImage, Looked
<1>2. \A r \in receipts : r.image \in Signer
  BY DEF VotingInv, VotingTyped, Box!Ballot
<1>3. /\ verify' \in [image : Signer \cup {"none"}, result : Signer \cup {"none"}]
      /\ lookup' \in Signer \cup {"none"}
  BY <1>2 DEF Check, SelectReceipt, EnterKeyImage, Looked, VotingInv, VotingTyped
<1>4. VotingTyped'
  BY <1>1, <1>3 DEF VotingInv, VotingTyped, Casting, BoothReady
<1>5. QED BY <1>1, <1>4 DEF VotingInv, HeldOnceAnswered, OneBallotPerKey

\* What the pages say of a ballot is kept true by every step.
THEOREM VotingInvariant == VotingSpec => []VotingInv
<1>1. ASSUME VotingInv, [VotingNext]_votingVars PROVE VotingInv'
  <2>1. CASE UNCHANGED votingVars
    BY <1>1, <2>1 DEF votingVars, pageVars, VotingInv, VotingTyped, HeldOnceAnswered, OneBallotPerKey,
                      Casting, BoothReady
  <2>2. CASE VotingNext
    BY <1>1, <2>2, PageHolds, CastHolds, ReceiveBallotHolds, RepliedHolds, NodeHolds, LookHolds
       DEF VotingNext
  <2>3. QED BY <1>1, <2>1, <2>2
<1>2. QED BY <1>1, VotingInitHolds, PTL DEF VotingSpec

\* Ballots, receipts and lookups are of the group's keys and the candidates.
THEOREM VotingTypes == VotingSpec => []VotingTypeOK
<1>1. VotingInv => VotingTypeOK
  BY DEF VotingInv, VotingTyped, VotingTypeOK, BoothReady, Casting
<1>2. QED BY <1>1, VotingInvariant, PTL

\* A receipt is for a ballot that the ledger holds or is about to mine, whatever
\* replies were lost, unless the node loses ballots or the key's ballots differ
\* (VotePage.tsx, saveVoteReceipt).
THEOREM ReceiptTruthfulAlways == VotingSpec => []ReceiptTruthful
<1>1. VotingInv => ReceiptTruthful
  BY DEF VotingInv, HeldOnceAnswered, OneBallotPerKey, ReceiptTruthful
<1>2. QED BY <1>1, VotingInvariant, PTL

(***************************************************************************)
(* Signatures.                                                             *)
(***************************************************************************)
LEMMA DivMod ==
  ASSUME NEW q \in Nat \ {0}, NEW a \in Int
  PROVE  a = q * (a \div q) + (a % q) /\ a \div q \in Int /\ a % q \in 0 .. q - 1
BY SMTT(60)

LEMMA ModUnique ==
  ASSUME NEW q \in Nat \ {0}, NEW a \in Int, NEW d \in Int, NEW r \in 0 .. q - 1, a = q * d + r
  PROVE  a % q = r
BY SMTT(60)

LEMMA ModSmall ==
  ASSUME NEW q \in Nat \ {0}, NEW a \in 0 .. q - 1
  PROVE  a % q = a
BY SMTT(60)

\* A response closes the walk: what the challenge takes away comes back.
LEMMA ModCloses ==
  ASSUME NEW q \in Nat \ {0}, NEW a \in Int, NEW m \in Int
  PROVE  (((a - m) % q) + (m % q)) % q = a % q
<1> DEFINE u == (a - m) % q
           v == m % q
           d == (a - m) \div q
           e == m \div q
           g == a \div q
           r == a % q
<1>1. a - m = q * d + u /\ d \in Int /\ u \in 0 .. q - 1
  BY DivMod
<1>2. m = q * e + v /\ e \in Int /\ v \in 0 .. q - 1
  BY DivMod
<1>3. a = q * g + r /\ g \in Int /\ r \in 0 .. q - 1
  BY DivMod
<1> HIDE DEF u, v, d, e, g, r
<1>4. u + v = q * (g - d - e) + r
  BY <1>1, <1>2, <1>3, SMTT(60)
<1>5. g - d - e \in Int /\ u + v \in Int
  BY <1>1, <1>2, <1>3
<1>6. (u + v) % q = r
  BY <1>3, <1>4, <1>5, ModUnique
<1>7. QED BY <1>6 DEF u, v, r

\* Reducing before adding changes nothing.
LEMMA ModAdds ==
  ASSUME NEW q \in Nat \ {0}, NEW a \in Int, NEW b \in Int
  PROVE  ((a % q) + (b % q)) % q = (a + b) % q
<1>1. a + b \in Int /\ (a + b) - b = a
  OBVIOUS
<1>2. ((((a + b) - b) % q) + (b % q)) % q = (a + b) % q
  BY <1>1, ModCloses
<1>3. QED BY <1>1, <1>2

LEMMA FollowingIs ==
  ASSUME NEW n \in Nat \ {0}, NEW i \in 1 .. n
  PROVE  Following(i, n) = IF i = n THEN 1 ELSE i + 1
<1>1. CASE i = n
  <2>1. n % n = 0
    BY ModUnique, n = n * 1 + 0
  <2>2. QED BY <1>1, <2>1 DEF Following
<1>2. CASE i # n
  BY <1>2, ModSmall DEF Following
<1>3. QED BY <1>1, <1>2

\* The places of the ring walked so far, from the one after the signer's.
Walked(at, i, n) ==
  IF i > at THEN (at + 1) .. (i - 1) ELSE ((at + 1) .. n) \cup (1 .. (i - 1))

LEMMA WalkedGrows ==
  ASSUME NEW n \in Nat \ {0}, NEW at \in 1 .. n, NEW i \in 1 .. n, i # at
  PROVE  /\ Following(i, n) \in 1 .. n
         /\ Walked(at, Following(i, n), n) = Walked(at, i, n) \cup {i}
         /\ Walked(at, i, n) \subseteq (1 .. n) \ {i, at, Following(i, n)}
         /\ \A k \in 1 .. n : Following(k, n) \in 1 .. n /\ (Following(k, n) = Following(i, n) => k = i)
<1>1. \A k \in 1 .. n : Following(k, n) = IF k = n THEN 1 ELSE k + 1
  BY FollowingIs
<1>2. Following(i, n) \in 1 .. n
  BY <1>1
<1>3. Walked(at, Following(i, n), n) = Walked(at, i, n) \cup {i}
  BY <1>1 DEF Walked
<1>4. Walked(at, i, n) \subseteq (1 .. n) \ {i, at, Following(i, n)}
  BY <1>1 DEF Walked
<1>5. \A k \in 1 .. n : Following(k, n) \in 1 .. n /\ (Following(k, n) = Following(i, n) => k = i)
  BY <1>1
<1>6. QED BY <1>2, <1>3, <1>4, <1>5

LEMMA WalkEnds ==
  ASSUME NEW n \in Nat \ {0}, NEW at \in 1 .. n
  PROVE  Walked(at, at, n) = (1 .. n) \ {at} /\ Walked(at, Following(at, n), n) = {}
         /\ Following(at, n) \in 1 .. n
BY FollowingIs DEF Walked

-----------------------------------------------------------------------------
LEMMA OrderIs == Order \in Nat /\ Order >= 2 /\ Secret \subseteq 1 .. Order - 1
                 /\ RandomScalar \cup {0} \subseteq Scalar /\ Answers \subseteq Scalar
BY SigningAssumption DEF RandomScalar, Scalar

LEMMA PublicKeyIs ==
  ASSUME NEW x \in Scalar
  PROVE  PublicKey(x) = [b \in Bases |-> IF b = G THEN x ELSE 0] /\ G \in Bases
<1>1. Order \in Nat \ {0} /\ x \in 0 .. Order - 1 /\ 0 \in 0 .. Order - 1
  BY OrderIs DEF Scalar
<1>2. x % Order = x /\ 0 % Order = 0
  BY <1>1, ModSmall
<1>3. 1 * x = x /\ 0 * x = 0
  BY <1>1
<1>4. ASSUME NEW b \in Bases PROVE (Base(G)[b] * x) % Order = IF b = G THEN x ELSE 0
  BY <1>2, <1>3 DEF Base
<1>5. QED BY <1>4 DEF PublicKey, Mul, Bases

LEMMA KeyImageIs ==
  ASSUME NEW x \in Secret, NEW poll \in Poll
  PROVE  /\ KeyImage(x, poll) = [b \in Bases |-> IF b = <<x, poll>> THEN x ELSE 0]
         /\ KeyImageBase(PublicKey(x), poll) = Base(<<x, poll>>)
         /\ <<x, poll>> \in Bases
<1>1. Order \in Nat \ {0} /\ x \in 0 .. Order - 1 /\ 0 \in 0 .. Order - 1 /\ x \in Scalar
  BY OrderIs DEF Scalar
<1>2. x % Order = x /\ 0 % Order = 0
  BY <1>1, ModSmall
<1>3. 1 * x = x /\ 0 * x = 0
  BY <1>1
<1>4. PublicKey(x)[G] = x
  BY <1>1, PublicKeyIs
<1>5. KeyImageBase(PublicKey(x), poll) = Base(<<x, poll>>)
  BY <1>4 DEF KeyImageBase
<1>6. ASSUME NEW b \in Bases PROVE (Base(<<x, poll>>)[b] * x) % Order = IF b = <<x, poll>> THEN x ELSE 0
  BY <1>2, <1>3 DEF Base
<1>7. KeyImage(x, poll) = [b \in Bases |-> IF b = <<x, poll>> THEN x ELSE 0]
  BY <1>5, <1>6 DEF KeyImage, Mul
<1>8. <<x, poll>> \in Bases
  BY DEF Bases
<1>9. QED BY <1>5, <1>7, <1>8

Reply(alpha, c, x) == (alpha - c * x) % Order

\* The signer's own response makes the walk arrive where the commitment began it.
LEMMA SignerCloses ==
  ASSUME NEW x \in Secret, NEW poll \in Poll, NEW alpha \in Scalar, NEW c \in Scalar
  PROVE  LET r == Reply(alpha, c, x)
         IN  /\ r \in Scalar
             /\ Left(PublicKey(x), r, c) = PublicKey(alpha)
             /\ Right(PublicKey(x), poll, KeyImage(x, poll), r, c) = Mul(KeyImageBase(PublicKey(x), poll), alpha)
<1> DEFINE r == Reply(alpha, c, x)
<1>0. r = (alpha - c * x) % Order
  BY DEF Reply
<1> HIDE DEF r
<1>1. /\ Order \in Nat \ {0} /\ x \in Int /\ alpha \in Int /\ c \in Int /\ r \in 0 .. Order - 1
      /\ c * x \in Int /\ 0 \in 0 .. Order - 1 /\ x * c = c * x /\ x \in Scalar
  <2>1. Order \in Nat \ {0} /\ x \in Int /\ alpha \in Int /\ c \in Int /\ x \in Scalar
    BY OrderIs DEF Scalar
  <2>2. c * x \in Int /\ x * c = c * x /\ alpha - c * x \in Int
    BY <2>1
  <2>3. r \in 0 .. Order - 1
    BY <1>0, <2>1, <2>2, DivMod
  <2>4. QED BY <2>1, <2>2, <2>3
<1>2. r % Order = r /\ 0 % Order = 0
  BY <1>1, ModSmall
<1>3. (r + ((x * c) % Order)) % Order = alpha % Order
  BY <1>0, <1>1, ModCloses
<1>4. 1 * r = r /\ 0 * r = 0 /\ 0 * c = 0 /\ 1 * alpha = alpha /\ 0 * alpha = 0 /\ 0 + 0 = 0
  BY <1>1
<1>5. ASSUME NEW own \in Bases
      PROVE  LET image == [b \in Bases |-> IF b = own THEN x ELSE 0]
             IN  AddPoints(Mul(Base(own), r), Mul(image, c)) = Mul(Base(own), alpha)
  <2> DEFINE image == [b \in Bases |-> IF b = own THEN x ELSE 0]
  <2>1. ASSUME NEW b \in Bases
        PROVE  (((Base(own)[b] * r) % Order) + ((image[b] * c) % Order)) % Order = (Base(own)[b] * alpha) % Order
    <3>1. CASE b = own
      <4>1. Base(own)[b] = 1 /\ image[b] = x
        BY <3>1 DEF Base
      <4>2. QED BY <1>2, <1>3, <1>4, <4>1
    <3>2. CASE b # own
      <4>1. Base(own)[b] = 0 /\ image[b] = 0
        BY <3>2 DEF Base
      <4>2. QED BY <1>2, <1>4, <4>1
    <3>3. QED BY <3>1, <3>2
  <2>2. QED BY <2>1 DEF AddPoints, Mul
<1>6. Left(PublicKey(x), r, c) = PublicKey(alpha)
  BY <1>1, <1>5, PublicKeyIs DEF Left, PublicKey
<1>7. Right(PublicKey(x), poll, KeyImage(x, poll), r, c) = Mul(KeyImageBase(PublicKey(x), poll), alpha)
  BY <1>5, KeyImageIs DEF Right
<1>8. r \in Scalar
  BY <1>1 DEF Scalar
<1>9. QED BY <1>6, <1>7, <1>8 DEF r

\* A member's point is the identity exactly if its response and its challenge cancel.
LEMMA LeftVanishes ==
  ASSUME NEW y \in Secret, NEW s \in Scalar, NEW c \in Scalar
  PROVE  Left(PublicKey(y), s, c) = Identity <=> (s + c * y) % Order = 0
<1>1. /\ Order \in Nat \ {0} /\ y \in Scalar /\ s \in 0 .. Order - 1 /\ 0 \in 0 .. Order - 1
      /\ s \in Int /\ y \in Int /\ c \in Int
  BY OrderIs DEF Scalar
<1>2. /\ y * c = c * y /\ c * y \in Int /\ 1 * s = s /\ 0 * s = 0 /\ 0 * c = 0 /\ 0 + 0 = 0
      /\ s % Order = s /\ 0 % Order = 0
  BY <1>1, ModSmall
<1>3. (s + ((c * y) % Order)) % Order = (s + c * y) % Order
  BY <1>1, <1>2, ModAdds
<1>4. ASSUME NEW b \in Bases
      PROVE  Left(PublicKey(y), s, c)[b] = IF b = G THEN (s + c * y) % Order ELSE 0
  <2>1. PublicKey(y)[b] = IF b = G THEN y ELSE 0
    BY <1>1, PublicKeyIs
  <2>2. Left(PublicKey(y), s, c)[b] =
          (((Base(G)[b] * s) % Order) + ((PublicKey(y)[b] * c) % Order)) % Order
    BY DEF Left, AddPoints, Mul
  <2>3. CASE b = G
    <3>1. Base(G)[b] = 1
      BY <2>3 DEF Base
    <3>2. QED BY <1>2, <1>3, <2>1, <2>2, <2>3, <3>1
  <2>4. CASE b # G
    <3>1. Base(G)[b] = 0
      BY <2>4 DEF Base
    <3>2. QED BY <1>2, <2>1, <2>2, <2>4, <3>1
  <2>5. QED BY <2>3, <2>4
<1>5. G \in Bases /\ Left(PublicKey(y), s, c) = [b \in Bases |-> Left(PublicKey(y), s, c)[b]]
  BY DEF Bases, Left, AddPoints
<1>6. QED BY <1>4, <1>5 DEF Identity

\* For a signature as the browser makes it, the other point is the identity only
\* if this one is.
LEMMA RightVanishes ==
  ASSUME NEW x \in Secret, NEW y \in Secret, NEW poll \in Poll, NEW s \in Scalar, NEW c \in Scalar,
         y = x \/ s # 0,
         Right(PublicKey(y), poll, KeyImage(x, poll), s, c) = Identity
  PROVE  (s + c * y) % Order = 0
<1> DEFINE b == <<y, poll>>
<1>1. /\ Order \in Nat \ {0} /\ s \in 0 .. Order - 1 /\ 0 \in 0 .. Order - 1
      /\ s \in Int /\ y \in Int /\ c \in Int
  BY OrderIs DEF Scalar
<1>2. /\ y * c = c * y /\ c * y \in Int /\ 1 * s = s /\ 0 * c = 0 /\ s + 0 = s
      /\ s % Order = s /\ 0 % Order = 0
  BY <1>1, ModSmall
<1>3. b \in Bases /\ KeyImageBase(PublicKey(y), poll) = Base(b) /\ Base(b)[b] = 1
  BY KeyImageIs DEF Base
<1>4. KeyImage(x, poll)[b] = IF y = x THEN y ELSE 0
  <2>1. KeyImage(x, poll) = [d \in Bases |-> IF d = <<x, poll>> THEN x ELSE 0]
    BY KeyImageIs
  <2>2. b = <<x, poll>> <=> y = x
    OBVIOUS
  <2> HIDE DEF b
  <2>3. QED BY <1>3, <2>1, <2>2
<1>5. Right(PublicKey(y), poll, KeyImage(x, poll), s, c)[b] =
        (((Base(b)[b] * s) % Order) + ((KeyImage(x, poll)[b] * c) % Order)) % Order
  BY <1>3 DEF Right, AddPoints, Mul
<1>6. Identity[b] = 0
  BY <1>3 DEF Identity
<1> HIDE DEF b
<1>7. CASE y = x
  <2>1. (s + ((c * y) % Order)) % Order = 0
    BY <1>2, <1>3, <1>4, <1>5, <1>6, <1>7
  <2>2. ((s % Order) + ((c * y) % Order)) % Order = (s + c * y) % Order
    BY <1>1, <1>2, ModAdds
  <2>3. QED BY <1>2, <2>1, <2>2
<1>8. CASE y # x
  <2>1. s = 0
    BY <1>2, <1>3, <1>4, <1>5, <1>6, <1>8
  <2>2. QED BY <1>8, <2>1
<1>9. QED BY <1>7, <1>8

-----------------------------------------------------------------------------
Members(v) == Len(Group[v.group])

LEMMA RingOfGroup ==
  ASSUME NEW v \in Statement
  PROVE  /\ Members(v) \in Nat
         /\ Len(RingOf(v.group)) = Members(v)
         /\ \A i \in 1 .. Members(v) :
              Group[v.group][i] \in Secret /\ RingOf(v.group)[i] = PublicKey(Group[v.group][i])
<1>1. Group[v.group] \in Seq(Secret)
  BY SigningAssumption DEF Statement
<1>2. Members(v) \in Nat /\ DOMAIN Group[v.group] = 1 .. Members(v)
  BY <1>1 DEF Members
<1>3. RingOf(v.group) = [i \in 1 .. Members(v) |-> PublicKey(Group[v.group][i])]
  BY <1>2 DEF RingOf
<1>4. Len(RingOf(v.group)) = Members(v)
  BY <1>2, <1>3
<1>5. QED BY <1>1, <1>2, <1>3, <1>4 DEF Members

\* What is hashed at a place of the ring, and at the start of the signer's walk.
Query(v, image, k, s, c) ==
  <<EncodeMessage(v), RingOf(v.group), Left(RingOf(v.group)[k], s, c),
    Right(RingOf(v.group)[k], v.poll, image, s, c)>>
Commitment(v, x, alpha) ==
  <<EncodeMessage(v), RingOf(v.group), PublicKey(alpha), Mul(KeyImageBase(PublicKey(x), v.poll), alpha)>>
Hashed(o, query, c) == [query |-> query, answer |-> c] \in o

Making(n) ==
  [stage : {"walk", "signed"}, statement : Statement, key : Secret, at : 1 .. n, alpha : Scalar,
   image : [Bases -> Scalar], i : 1 .. n, s : [1 .. n -> Scalar], c : [1 .. n -> Scalar]]
Checking ==
  [stage : {"walk", "done"}, by : Verifier, statement : Statement, i : Nat, c : Scalar,
   accepted : BOOLEAN]

\* Every step of the signer's walk was hashed, from the commitment on.
Walking(o, j) ==
  LET v == j.statement
      n == Members(v)
  IN  /\ n >= 2 /\ j \in Making(n)
      /\ j.image = KeyImage(j.key, v.poll)
      /\ RingOf(v.group)[j.at] = PublicKey(j.key)
      /\ \A k \in 1 .. n : k # j.at => j.s[k] # 0
      /\ Hashed(o, Commitment(v, j.key, j.alpha), j.c[Following(j.at, n)])
      /\ \A k \in Walked(j.at, j.i, n) :
           Hashed(o, Query(v, j.image, k, j.s[k], j.c[k]), j.c[Following(k, n)])

\* What was sent walks the whole ring and returns to where it began.
WalksRing(o, j, w) ==
  LET v == j.statement
      n == Members(v)
  IN  /\ WellFormed(w) /\ w[2] = n /\ w[3] = j.c[1] /\ w[4] = j.image
      /\ \A k \in 1 .. n : k # j.at => w[4 + k] # 0
      /\ \A k \in 1 .. n : Hashed(o, Query(v, j.image, k, w[4 + k], j.c[k]), j.c[Following(k, n)])

OracleInv ==
  /\ \A h \in oracle : h.answer \in Answers
  /\ \A g, h \in oracle : g.query = h.query => g.answer = h.answer

SignerInv ==
  /\ signing # NotSigning => Walking(oracle, signing)
  /\ wire # << >> => signing # NotSigning /\ signing.stage = "signed"
  /\ signing.stage = "signed" => wire # << >> /\ WalksRing(oracle, signing, wire)

\* What a verifier would refuse at the k-th member, in the signer's terms.
Spoiled(by, k) ==
  IF by = "ledger" THEN (wire[4 + k] + signing.c[k] * Group[signing.statement.group][k]) % Order = 0
                   ELSE k = signing.at /\ wire[4 + k] = 0

\* The verifier of the signer's own statement meets the signer's challenges.
VerifierInv ==
  verifying # NotVerifying =>
    /\ wire # << >> /\ verifying \in Checking
    /\ verifying.stage = "walk" =>
         /\ ~verifying.accepted
         /\ verifying.i \in 1 .. Members(verifying.statement)
         /\ Members(verifying.statement) = wire[2]
         /\ verifying.statement = signing.statement =>
              /\ verifying.c = signing.c[verifying.i]
              /\ \A k \in 1 .. verifying.i - 1 : ~Spoiled(verifying.by, k)
    /\ verifying.stage = "done" /\ verifying.statement = signing.statement =>
         (verifying.accepted <=> \A k \in 1 .. Members(verifying.statement) : ~Spoiled(verifying.by, k))
    /\ verifying.accepted =>
         \E q : Hashed(oracle, q, wire[3]) /\ q[1] = EncodeMessage(verifying.statement)

CastInv ==
  \A a \in cast : a.key \in Secret /\ a.poll \in Poll /\ a.image = KeyImage(a.key, a.poll)

SigningInv == OracleInv /\ SignerInv /\ VerifierInv /\ CastInv

LEMMA ChallengeHashes ==
  ASSUME OracleInv, NEW m, NEW ring, NEW l, NEW r, NEW c \in Answers, Challenge(m, ring, l, r, c)
  PROVE  /\ OracleInv' /\ oracle \subseteq oracle' /\ Hashed(oracle', <<m, ring, l, r>>, c)
         /\ \A d : Hashed(oracle, <<m, ring, l, r>>, d) => c = d
BY DEF Challenge, OracleInv, Hashed

LEMMA HashedStays ==
  ASSUME NEW o, NEW p, o \subseteq p, NEW j, NEW w
  PROVE  (Walking(o, j) => Walking(p, j)) /\ (WalksRing(o, j, w) => WalksRing(p, j, w))
BY DEF Walking, WalksRing, Hashed

LEMMA SigningInitHolds == SigningInit => SigningInv
BY DEF SigningInit, SigningInv, OracleInv, SignerInv, VerifierInv, CastInv, NotSigning

LEMMA SignHolds ==
  ASSUME SigningInv, NEW c \in Answers, NEW v \in Statement, NEW x \in Secret,
         NEW alpha \in RandomScalar, Sign(v, x, alpha, c)
  PROVE  SigningInv'
<1> DEFINE n == Members(v)
<1>1. n \in Nat /\ Len(RingOf(v.group)) = n
  BY RingOfGroup
<1>2. PICK at \in 1 .. n, s \in [1 .. n -> RandomScalar \cup {0}] :
        /\ RingOf(v.group)[at] = PublicKey(x)
        /\ \A i \in 1 .. n : s[i] = 0 <=> i = at
        /\ Challenge(EncodeMessage(v), RingOf(v.group), PublicKey(alpha),
                     Mul(KeyImageBase(PublicKey(x), v.poll), alpha), c)
        /\ signing' = [stage |-> "walk", statement |-> v, key |-> x, at |-> at, alpha |-> alpha,
                       image |-> KeyImage(x, v.poll), i |-> Following(at, n), s |-> s,
                       c |-> [i \in 1 .. n |-> IF i = Following(at, n) THEN c ELSE 0]]
  BY <1>1 DEF Sign
<1>3. n >= 2 /\ signing = NotSigning /\ UNCHANGED <<wire, verifying, cast>>
  BY <1>1 DEF Sign
<1> HIDE DEF n
<1>4. /\ OracleInv' /\ oracle \subseteq oracle'
      /\ Hashed(oracle', Commitment(v, x, alpha), c)
  BY <1>2, ChallengeHashes DEF SigningInv, Commitment
<1>5. wire = << >> /\ verifying = NotVerifying
  BY <1>3 DEF SigningInv, SignerInv, VerifierInv
<1>6. /\ Following(at, n) \in 1 .. n /\ Walked(at, Following(at, n), n) = {}
  BY <1>1, <1>3, WalkEnds
<1>7. Walking(oracle', signing')
  <2>1. signing'.statement = v /\ Members(signing'.statement) = n
    BY <1>2 DEF n
  <2>2. KeyImage(x, v.poll) \in [Bases -> Scalar]
    <3>1. x \in Scalar /\ 0 \in Scalar /\ v.poll \in Poll
      BY OrderIs DEF Scalar, Statement
    <3>2. KeyImage(x, v.poll) = [b \in Bases |-> IF b = <<x, v.poll>> THEN x ELSE 0]
      BY <3>1, KeyImageIs
    <3>3. QED BY <3>1, <3>2
  <2>3. [i \in 1 .. n |-> IF i = Following(at, n) THEN c ELSE 0] \in [1 .. n -> Scalar]
    BY OrderIs
  <2>4. s \in [1 .. n -> Scalar] /\ alpha \in Scalar
    BY OrderIs
  <2>5. signing' \in Making(n)
    BY <1>2, <1>6, <2>2, <2>3, <2>4 DEF Making
  <2>6. signing'.c[Following(at, n)] = c
    BY <1>2, <1>6
  <2>7. QED
    BY <1>2, <1>3, <1>4, <1>6, <2>1, <2>5, <2>6 DEF Walking
<1>8. signing'.stage = "walk"
  BY <1>2
<1>9. SignerInv'
  BY <1>3, <1>5, <1>7, <1>8 DEF SignerInv
<1>10. VerifierInv'
  BY <1>3, <1>5 DEF VerifierInv, NotVerifying
<1>11. CastInv'
  BY <1>3 DEF SigningInv, CastInv
<1>12. QED BY <1>4, <1>9, <1>10, <1>11 DEF SigningInv

LEMMA WalkHolds ==
  ASSUME SigningInv, NEW c \in Answers, Walk(c)
  PROVE  SigningInv'
<1> DEFINE j == signing
           v == j.statement
           n == Members(v)
           next == Following(j.i, n)
<1>1. j.stage = "walk" /\ j # NotSigning /\ UNCHANGED <<wire, verifying, cast>>
  BY DEF Walk, NotSigning
<1>2. Walking(oracle, j)
  BY <1>1 DEF SigningInv, SignerInv
<1>3. /\ n \in Nat \ {0} /\ n >= 2 /\ j \in Making(n) /\ v \in Statement
      /\ j.at \in 1 .. n /\ j.i \in 1 .. n /\ j.c \in [1 .. n -> Scalar]
  <2>1. v \in Statement /\ n >= 2 /\ j \in Making(n)
    BY <1>2 DEF Walking, Making
  <2>2. n \in Nat
    BY <2>1, RingOfGroup
  <2>3. QED BY <2>1, <2>2 DEF Making
<1>4. Len(RingOf(v.group)) = n
  BY <1>3, RingOfGroup
<1>5. /\ j.i # j.at
      /\ Challenge(EncodeMessage(v), RingOf(v.group), Left(RingOf(v.group)[j.i], j.s[j.i], j.c[j.i]),
                   Right(RingOf(v.group)[j.i], v.poll, j.image, j.s[j.i], j.c[j.i]), c)
      /\ signing' = [j EXCEPT !.i = next, !.c[next] = c]
  BY <1>4 DEF Walk
<1>6. /\ OracleInv' /\ oracle \subseteq oracle'
      /\ Hashed(oracle', Query(v, j.image, j.i, j.s[j.i], j.c[j.i]), c)
  BY <1>5, ChallengeHashes DEF SigningInv, Query
<1>7. wire = << >> /\ verifying = NotVerifying
  BY <1>1 DEF SigningInv, SignerInv, VerifierInv
<1>8. /\ next \in 1 .. n
      /\ Walked(j.at, next, n) = Walked(j.at, j.i, n) \cup {j.i}
      /\ Walked(j.at, j.i, n) \subseteq (1 .. n) \ {j.i, j.at, next}
      /\ \A k \in 1 .. n : Following(k, n) \in 1 .. n /\ (Following(k, n) = next => k = j.i)
  BY <1>3, <1>5, WalkedGrows
<1>9. /\ signing' \in Making(n)
      /\ signing'.stage = "walk" /\ signing'.statement = v /\ signing'.key = j.key /\ signing'.at = j.at
      /\ signing'.alpha = j.alpha /\ signing'.image = j.image /\ signing'.i = next /\ signing'.s = j.s
      /\ signing'.c = [j.c EXCEPT ![next] = c]
  <2>1. c \in Scalar
    BY OrderIs
  <2>2. [j.c EXCEPT ![next] = c] \in [1 .. n -> Scalar]
    BY <1>3, <2>1
  <2>3. QED BY <1>1, <1>3, <1>5, <1>8, <2>2 DEF Making
<1>10. \A k \in 1 .. n : signing'.c[k] = IF k = next THEN c ELSE j.c[k]
  BY <1>3, <1>9
<1> HIDE DEF n, next
<1>11. Walking(oracle', signing')
  <2>1. Walking(oracle', j)
    BY <1>2, <1>6, HashedStays
  <2>2. /\ j.image = KeyImage(j.key, v.poll)
        /\ RingOf(v.group)[j.at] = PublicKey(j.key)
        /\ \A k \in 1 .. n : k # j.at => j.s[k] # 0
        /\ Hashed(oracle', Commitment(v, j.key, j.alpha), j.c[Following(j.at, n)])
        /\ \A k \in Walked(j.at, j.i, n) :
             Hashed(oracle', Query(v, j.image, k, j.s[k], j.c[k]), j.c[Following(k, n)])
    BY <2>1 DEF Walking, n
  <2>3. signing'.c[Following(j.at, n)] = j.c[Following(j.at, n)]
    BY <1>3, <1>5, <1>8, <1>10
  <2>4. ASSUME NEW k \in Walked(j.at, next, n)
        PROVE  Hashed(oracle', Query(v, j.image, k, j.s[k], signing'.c[k]), signing'.c[Following(k, n)])
    <3>1. CASE k = j.i
      <4>1. j.i # next
        BY <1>3, <1>8, FollowingIs DEF next
      <4>2. signing'.c[k] = j.c[k] /\ signing'.c[Following(k, n)] = c
        BY <1>3, <1>8, <1>10, <3>1, <4>1 DEF next
      <4>3. QED BY <1>6, <3>1, <4>2
    <3>2. CASE k # j.i
      <4>1. k \in Walked(j.at, j.i, n) /\ k \in 1 .. n /\ k # next
        BY <1>8, <3>2
      <4>2. signing'.c[k] = j.c[k] /\ signing'.c[Following(k, n)] = j.c[Following(k, n)]
        BY <1>8, <1>10, <3>2, <4>1
      <4>3. QED BY <2>2, <4>1, <4>2
    <3>3. QED BY <3>1, <3>2
  <2>5. Members(signing'.statement) = n
    BY <1>9 DEF n
  <2>6. QED BY <1>3, <1>9, <2>2, <2>3, <2>4, <2>5 DEF Walking
<1>12. SignerInv'
  BY <1>1, <1>7, <1>9, <1>11 DEF SignerInv
<1>13. VerifierInv'
  BY <1>1, <1>7 DEF VerifierInv, NotVerifying
<1>14. CastInv'
  BY <1>1 DEF SigningInv, CastInv
<1>15. QED BY <1>6, <1>12, <1>13, <1>14 DEF SigningInv

LEMMA CloseHolds ==
  ASSUME SigningInv, Close
  PROVE  SigningInv'
<1> DEFINE j == signing
           v == j.statement
           n == Members(v)
           r == Response(j)
           s == [j.s EXCEPT ![j.at] = r]
<1>1. /\ j.stage = "walk" /\ j.i = j.at /\ j # NotSigning
      /\ wire' = SerializeSignature(j.c[1], j.image, s)
      /\ signing' = [j EXCEPT !.stage = "signed"]
      /\ cast' = cast \cup {[key |-> j.key, poll |-> v.poll, image |-> j.image]}
      /\ UNCHANGED <<oracle, verifying>>
  BY DEF Close, NotSigning
<1>2. Walking(oracle, j)
  BY <1>1 DEF SigningInv, SignerInv
<1>3. /\ n \in Nat \ {0} /\ n >= 2 /\ j \in Making(n) /\ v \in Statement /\ j.key \in Secret
      /\ j.at \in 1 .. n /\ j.i \in 1 .. n /\ j.c \in [1 .. n -> Scalar] /\ j.s \in [1 .. n -> Scalar]
      /\ j.alpha \in Scalar /\ j.c[1] \in Scalar /\ j.c[j.at] \in Scalar /\ v.poll \in Poll
  <2>1. v \in Statement /\ n >= 2 /\ j \in Making(n)
    BY <1>2 DEF Walking, Making
  <2>2. n \in Nat
    BY <2>1, RingOfGroup
  <2>3. /\ j.at \in 1 .. n /\ j.i \in 1 .. n /\ j.c \in [1 .. n -> Scalar] /\ j.s \in [1 .. n -> Scalar]
        /\ j.alpha \in Scalar /\ j.key \in Secret /\ v.poll \in Poll
    BY <2>1 DEF Making, Statement
  <2>4. j.c[1] \in Scalar /\ j.c[j.at] \in Scalar
    BY <2>1, <2>2, <2>3
  <2>5. QED BY <2>1, <2>2, <2>3, <2>4
<1>4. /\ j.image = KeyImage(j.key, v.poll)
      /\ RingOf(v.group)[j.at] = PublicKey(j.key)
      /\ \A k \in 1 .. n : k # j.at => j.s[k] # 0
      /\ Hashed(oracle, Commitment(v, j.key, j.alpha), j.c[Following(j.at, n)])
      /\ \A k \in Walked(j.at, j.i, n) :
           Hashed(oracle, Query(v, j.image, k, j.s[k], j.c[k]), j.c[Following(k, n)])
  BY <1>2 DEF Walking
<1>5. r = Reply(j.alpha, j.c[j.at], j.key) /\ r \in Scalar
  <2>1. r = Reply(j.alpha, j.c[j.at], j.key)
    BY DEF Response, Reply
  <2>2. QED BY <1>3, <2>1, SignerCloses
<1>6. wire' = <<Version, n, j.c[1], j.image>> \o s /\ s \in [1 .. n -> Scalar] /\ Len(s) = n /\ s \in Seq(Scalar)
  <2>1. s \in [1 .. n -> Scalar]
    BY <1>3, <1>5
  <2>2. s \in Seq(Scalar) /\ Len(s) = n
    BY <1>3, <2>1
  <2>3. QED BY <1>1, <2>1, <2>2 DEF SerializeSignature
<1> HIDE DEF n, r, s
<1>7. /\ Len(wire') = 4 + n /\ wire'[1] = Version /\ wire'[2] = n /\ wire'[3] = j.c[1] /\ wire'[4] = j.image
      /\ \A k \in 1 .. n : wire'[4 + k] = s[k]
  <2> DEFINE head == <<Version, n, j.c[1], j.image>>
             T == {Version, n, j.c[1], j.image} \cup Scalar
  <2>1. head \in Seq(T) /\ Len(head) = 4 /\ s \in Seq(T)
        /\ head[1] = Version /\ head[2] = n /\ head[3] = j.c[1] /\ head[4] = j.image
    <3>1. head \in Seq(T) /\ Len(head) = 4
      OBVIOUS
    <3>2. s \in Seq(T)
      <4>1. s \in [1 .. n -> T]
        BY <1>6
      <4>2. QED BY <1>3, <4>1
    <3>3. QED BY <3>1, <3>2
  <2> HIDE DEF head, T
  <2>2. wire' = head \o s
    BY <1>6 DEF head
  <2>3. Len(wire') = 4 + n
    BY <1>6, <2>1, <2>2
  <2>4. \A k \in 1 .. 4 : wire'[k] = head[k]
    BY <1>3, <1>6, <2>1, <2>2
  <2>5. \A k \in 1 .. n : wire'[4 + k] = s[k]
    BY <1>3, <1>6, <2>1, <2>2
  <2>6. QED BY <2>1, <2>3, <2>4, <2>5
<1>8. j.image # Identity
  <2>1. j.key \in Secret /\ v.poll \in Poll /\ j.key # 0
    BY <1>3, OrderIs
  <2>2. <<j.key, v.poll>> \in Bases
        /\ j.image = [b \in Bases |-> IF b = <<j.key, v.poll>> THEN j.key ELSE 0]
    BY <1>4, <2>1, KeyImageIs
  <2>3. j.image[<<j.key, v.poll>>] = j.key
    BY <2>2
  <2>4. Identity[<<j.key, v.poll>>] = 0
    BY <2>2 DEF Identity
  <2>5. QED BY <2>1, <2>3, <2>4
<1>9. WellFormed(wire')
  <2>1. \A i \in 5 .. Len(wire') : wire'[i] \in Scalar
    <3>1. ASSUME NEW i \in 5 .. 4 + n PROVE wire'[i] \in Scalar
      <4>1. i - 4 \in 1 .. n /\ 4 + (i - 4) = i
        BY <1>3
      <4>2. QED BY <1>6, <1>7, <4>1
    <3>2. QED BY <1>7, <3>1
  <2>2. QED BY <1>3, <1>7, <1>8, <2>1 DEF WellFormed
<1>10. ASSUME NEW k \in 1 .. n
       PROVE  Hashed(oracle, Query(v, j.image, k, s[k], j.c[k]), j.c[Following(k, n)])
  <2>1. CASE k = j.at
    <3>1. s[k] = r
      BY <1>3, <2>1 DEF s
    <3>2. /\ Left(PublicKey(j.key), r, j.c[j.at]) = PublicKey(j.alpha)
          /\ Right(PublicKey(j.key), v.poll, KeyImage(j.key, v.poll), r, j.c[j.at])
               = Mul(KeyImageBase(PublicKey(j.key), v.poll), j.alpha)
      BY <1>3, <1>5, SignerCloses
    <3>3. Query(v, j.image, k, s[k], j.c[k]) = Commitment(v, j.key, j.alpha)
      BY <1>4, <2>1, <3>1, <3>2 DEF Query, Commitment
    <3>4. QED BY <1>4, <2>1, <3>3
  <2>2. CASE k # j.at
    <3>1. k \in Walked(j.at, j.i, n)
      BY <1>1, <1>3, <2>2, WalkEnds
    <3>2. s[k] = j.s[k]
      BY <1>3, <2>2 DEF s
    <3>3. QED BY <1>4, <3>1, <3>2
  <2>3. QED BY <2>1, <2>2
<1>11. /\ signing' \in Making(n)
       /\ signing'.stage = "signed" /\ signing'.statement = v /\ signing'.key = j.key /\ signing'.at = j.at
       /\ signing'.alpha = j.alpha /\ signing'.image = j.image /\ signing'.i = j.i /\ signing'.s = j.s
       /\ signing'.c = j.c
  BY <1>1, <1>3 DEF Making
<1>12. Members(signing'.statement) = n
  BY <1>11 DEF n
<1>13. Walking(oracle', signing')
  BY <1>1, <1>3, <1>4, <1>11, <1>12 DEF Walking
<1>14. WalksRing(oracle', signing', wire')
  <2>1. \A k \in 1 .. n : k # j.at => wire'[4 + k] # 0
    BY <1>3, <1>4, <1>7 DEF s
  <2>2. QED BY <1>1, <1>7, <1>9, <1>10, <1>11, <1>12, <2>1 DEF WalksRing
<1>15. wire' # << >>
  BY <1>3, <1>7
<1>16. SignerInv'
  BY <1>11, <1>13, <1>14, <1>15 DEF SignerInv, NotSigning
<1>17. VerifierInv'
  <2>1. wire = << >> /\ verifying = NotVerifying
    BY <1>1 DEF SigningInv, SignerInv, VerifierInv
  <2>2. QED BY <1>1, <2>1 DEF VerifierInv, NotVerifying
<1>18. CastInv'
  BY <1>1, <1>3, <1>4 DEF SigningInv, CastInv
<1>19. OracleInv'
  BY <1>1 DEF SigningInv, OracleInv
<1>20. QED BY <1>16, <1>17, <1>18, <1>19 DEF SigningInv

LEMMA SubmittedHolds ==
  ASSUME SigningInv, NEW v \in Statement, NEW by \in Verifier, Submitted(v, by)
  PROVE  SigningInv'
<1>1. /\ wire # << >> /\ UNCHANGED <<oracle, signing, wire, cast>>
      /\ verifying' = [stage |-> IF WellFormed(wire) /\ Len(Group[v.group]) = wire[2] THEN "walk" ELSE "done",
                       by |-> by, statement |-> v, i |-> 1, c |-> wire[3], accepted |-> FALSE]
  BY DEF Submitted
<1>2. /\ signing # NotSigning /\ Walking(oracle, signing) /\ WalksRing(oracle, signing, wire)
  BY <1>1 DEF SigningInv, SignerInv
<1>3. /\ WellFormed(wire) /\ wire[2] = Members(signing.statement) /\ wire[3] = signing.c[1] /\ wire[3] \in Scalar
  BY <1>2 DEF WalksRing, WellFormed
<1>4. verifying'.stage = IF Members(v) = wire[2] THEN "walk" ELSE "done"
  BY <1>1, <1>3 DEF Members
<1>5. verifying' \in Checking /\ verifying'.accepted = FALSE /\ verifying'.i = 1
      /\ verifying'.c = wire[3] /\ verifying'.statement = v
  BY <1>1, <1>3 DEF Checking
<1>6. Members(v) = wire[2] => 1 \in 1 .. Members(v) /\ 1 .. 1 - 1 = {}
  BY <1>3, RingOfGroup DEF WellFormed
<1>7. VerifierInv'
  BY <1>1, <1>3, <1>4, <1>5, <1>6 DEF VerifierInv
<1>8. OracleInv' /\ SignerInv' /\ CastInv'
  BY <1>1 DEF SigningInv, OracleInv, SignerInv, CastInv, NotSigning
<1>9. QED BY <1>7, <1>8 DEF SigningInv

\* Where the signer's own statement is checked, what stops a verifier is what it
\* would refuse in the signer's terms.
LEMMA DegenerateIs ==
  ASSUME SigningInv, verifying.stage = "walk", verifying.statement = signing.statement
  PROVE  Degenerate(verifying) <=> Spoiled(verifying.by, verifying.i)
<1> DEFINE k == verifying
           v == k.statement
           n == Members(v)
           y == Group[v.group][k.i]
           s == wire[4 + k.i]
<1>1. /\ wire # << >> /\ k \in Checking /\ k.i \in 1 .. n /\ k.c = signing.c[k.i]
  BY DEF SigningInv, VerifierInv, NotVerifying
<1>2. Walking(oracle, signing) /\ WalksRing(oracle, signing, wire)
  BY <1>1 DEF SigningInv, SignerInv
<1>3. v \in Statement /\ k.by \in Verifier /\ k.c \in Scalar /\ v.poll \in Poll
  BY <1>1 DEF Checking, Statement
<1>4. n \in Nat /\ y \in Secret /\ RingOf(v.group)[k.i] = PublicKey(y)
  BY <1>1, <1>3, RingOfGroup
<1>5. /\ signing.key \in Secret /\ signing.at \in 1 .. n
      /\ RingOf(v.group)[signing.at] = PublicKey(signing.key)
      /\ wire[4] = KeyImage(signing.key, v.poll)
      /\ k.i # signing.at => s # 0
  BY <1>1, <1>2 DEF Walking, WalksRing, Making
<1>6. s \in Scalar
  <2>1. WellFormed(wire) /\ wire[2] = n
    BY <1>2 DEF WalksRing
  <2>2. 4 + k.i \in 5 .. Len(wire)
    BY <1>1, <1>4, <2>1 DEF WellFormed
  <2>3. QED BY <2>1, <2>2 DEF WellFormed
<1>7. y = signing.key \/ s # 0
  <2>1. SUFFICES ASSUME k.i = signing.at PROVE y = signing.key
    BY <1>5
  <2>2. PublicKey(y) = PublicKey(signing.key)
    BY <1>4, <1>5, <2>1
  <2>3. y \in Scalar /\ signing.key \in Scalar
    <3>1. \A z \in Secret : z \in Scalar
      BY OrderIs DEF Scalar
    <3>2. QED BY <1>4, <1>5, <3>1
  <2>4. PublicKey(y)[G] = y /\ PublicKey(signing.key)[G] = signing.key
    BY <2>3, PublicKeyIs
  <2>5. QED BY <2>2, <2>4
<1>8. CASE k.by = "ledger"
  <2>1. LeftAt(k) = Left(PublicKey(y), s, k.c)
        /\ RightAt(k) = Right(PublicKey(y), v.poll, KeyImage(signing.key, v.poll), s, k.c)
    BY <1>4, <1>5 DEF LeftAt, RightAt
  <2>2. LeftAt(k) = Identity <=> (s + k.c * y) % Order = 0
    BY <1>3, <1>4, <1>6, <2>1, LeftVanishes
  <2>3. RightAt(k) = Identity => (s + k.c * y) % Order = 0
    BY <1>3, <1>4, <1>5, <1>6, <1>7, <2>1, RightVanishes
  <2>4. Degenerate(k) <=> Identity \in {LeftAt(k), RightAt(k)}
    BY <1>8 DEF Degenerate
  <2>5. Spoiled(k.by, k.i) <=> (s + k.c * y) % Order = 0
    BY <1>1, <1>8 DEF Spoiled
  <2>6. QED BY <2>2, <2>3, <2>4, <2>5
<1>9. CASE k.by = "browser"
  BY <1>5, <1>9 DEF Degenerate, Spoiled
<1>10. QED BY <1>3, <1>8, <1>9 DEF Verifier

LEMMA RejectHolds ==
  ASSUME SigningInv, Reject
  PROVE  SigningInv'
<1>1. /\ verifying.stage = "walk" /\ Degenerate(verifying) /\ verifying # NotVerifying
      /\ verifying' = [verifying EXCEPT !.stage = "done"] /\ UNCHANGED <<oracle, signing, wire, cast>>
  BY DEF Reject, NotVerifying
<1>2. /\ wire # << >> /\ verifying \in Checking /\ ~verifying.accepted
      /\ verifying.i \in 1 .. Members(verifying.statement)
      /\ Members(verifying.statement) = wire[2]
  BY <1>1 DEF SigningInv, VerifierInv
<1>3. /\ verifying' \in Checking /\ verifying'.stage = "done" /\ verifying'.statement = verifying.statement
      /\ verifying'.accepted = verifying.accepted /\ verifying'.by = verifying.by
  BY <1>1, <1>2 DEF Checking
<1>4. verifying.statement = signing.statement =>
        \E k \in 1 .. Members(verifying.statement) : Spoiled(verifying.by, k)
  BY <1>1, <1>2, DegenerateIs
<1>5. \A by, k : Spoiled(by, k)' <=> Spoiled(by, k)
  BY <1>1 DEF Spoiled
<1>6. VerifierInv'
  BY <1>1, <1>2, <1>3, <1>4, <1>5 DEF VerifierInv
<1>7. OracleInv' /\ SignerInv' /\ CastInv'
  BY <1>1 DEF SigningInv, OracleInv, SignerInv, CastInv, NotSigning
<1>8. QED BY <1>6, <1>7 DEF SigningInv

LEMMA AgainHolds ==
  ASSUME SigningInv, Again
  PROVE  SigningInv'
BY DEF Again, SigningInv, OracleInv, SignerInv, VerifierInv, CastInv, NotSigning

LEMMA RewalkHolds ==
  ASSUME SigningInv, NEW c \in Answers, Rewalk(c)
  PROVE  SigningInv'
<1> DEFINE k == verifying
           v == k.statement
           n == Members(v)
           s == wire[4 + k.i]
<1>1. k.stage = "walk" /\ ~Degenerate(k) /\ k # NotVerifying /\ UNCHANGED <<signing, wire, cast>>
  BY DEF Rewalk, NotVerifying
<1>2. /\ wire # << >> /\ k \in Checking /\ k.i \in 1 .. n /\ n = wire[2] /\ ~k.accepted
      /\ v = signing.statement => /\ k.c = signing.c[k.i]
                                  /\ \A m \in 1 .. k.i - 1 : ~Spoiled(k.by, m)
  BY <1>1 DEF SigningInv, VerifierInv
<1>3. Walking(oracle, signing) /\ WalksRing(oracle, signing, wire)
  BY <1>2 DEF SigningInv, SignerInv
<1>4. v \in Statement /\ n \in Nat \ {0} /\ Len(RingOf(v.group)) = n /\ k.i \in Nat /\ Len(wire) = 4 + n
      /\ wire[3] \in Scalar
  <2>1. v \in Statement /\ k.i \in Nat
    BY <1>2 DEF Checking
  <2>2. n \in Nat /\ Len(RingOf(v.group)) = n
    BY <2>1, RingOfGroup
  <2>3. WellFormed(wire)
    BY <1>3 DEF WalksRing
  <2>4. QED BY <1>2, <2>1, <2>2, <2>3 DEF WellFormed
<1>5. /\ Challenge(EncodeMessage(v), RingOf(v.group), Left(RingOf(v.group)[k.i], s, k.c),
                   Right(RingOf(v.group)[k.i], v.poll, wire[4], s, k.c), c)
      /\ verifying' = IF k.i < n THEN [k EXCEPT !.i = @ + 1, !.c = c]
                      ELSE [k EXCEPT !.stage = "done", !.c = c, !.accepted = (c = wire[3])]
  BY <1>4 DEF Rewalk, LeftAt, RightAt
<1> DEFINE query == Query(v, wire[4], k.i, s, k.c)
<1>6. /\ OracleInv' /\ oracle \subseteq oracle' /\ Hashed(oracle', query, c)
      /\ \A d : Hashed(oracle, query, d) => c = d
  BY <1>5, ChallengeHashes DEF SigningInv, Query
<1>7. v = signing.statement => c = signing.c[Following(k.i, n)]
  <2>1. SUFFICES ASSUME v = signing.statement PROVE Hashed(oracle, query, signing.c[Following(k.i, n)])
    BY <1>6
  <2>2. Hashed(oracle, Query(signing.statement, signing.image, k.i, wire[4 + k.i], signing.c[k.i]),
               signing.c[Following(k.i, n)])
    BY <1>2, <1>3, <2>1 DEF WalksRing
  <2>3. wire[4] = signing.image
    BY <1>3 DEF WalksRing
  <2>4. QED BY <1>2, <2>1, <2>2, <2>3
<1>8. query[1] = EncodeMessage(v)
  BY DEF Query
<1>9. c \in Scalar
  BY OrderIs
<1>10. Following(k.i, n) = IF k.i = n THEN 1 ELSE k.i + 1
  BY <1>2, <1>4, FollowingIs
<1> HIDE DEF n, query
<1>14. v = signing.statement => ~Spoiled(k.by, k.i)
  BY <1>1, DegenerateIs
<1>15. \A by, m : Spoiled(by, m)' <=> Spoiled(by, m)
  BY <1>1 DEF Spoiled
<1>11. SignerInv' /\ CastInv'
  <2>1. (signing # NotSigning => Walking(oracle', signing))
        /\ (signing.stage = "signed" => wire # << >> /\ WalksRing(oracle', signing, wire))
    BY <1>6, HashedStays DEF SigningInv, SignerInv
  <2>2. SignerInv'
    BY <1>1, <2>1 DEF SigningInv, SignerInv, NotSigning
  <2>3. QED BY <1>1, <2>2 DEF SigningInv, CastInv
<1>12. VerifierInv'
  <2>1. CASE k.i < n
    <3>1. /\ verifying' \in Checking /\ verifying'.stage = "walk" /\ verifying'.statement = v
          /\ verifying'.i = k.i + 1 /\ verifying'.c = c /\ verifying'.accepted = k.accepted
          /\ verifying'.by = k.by
      <4>1. verifying' = [k EXCEPT !.i = k.i + 1, !.c = c]
        BY <1>5, <2>1
      <4>2. k.i + 1 \in Nat
        BY <1>4
      <4>3. QED BY <1>1, <1>2, <1>9, <4>1, <4>2 DEF Checking
    <3>2. v = signing.statement => verifying'.c = signing.c[k.i + 1]
      BY <1>7, <1>10, <2>1, <3>1, <1>4
    <3>3. v = signing.statement => \A m \in 1 .. k.i : ~Spoiled(k.by, m)
      BY <1>2, <1>4, <1>14
    <3>4. k.i + 1 \in 1 .. n /\ (k.i + 1) - 1 = k.i
      BY <1>2, <1>4, <2>1
    <3>5. Members(v) = n
      BY DEF n
    <3>6. QED BY <1>1, <1>2, <1>15, <3>1, <3>2, <3>3, <3>4, <3>5 DEF VerifierInv
  <2>2. CASE k.i = n
    <3>1. verifying' = [k EXCEPT !.stage = "done", !.c = c, !.accepted = (c = wire[3])]
      BY <1>4, <1>5, <2>2
    <3>2. /\ verifying' \in Checking /\ verifying'.stage = "done" /\ verifying'.statement = v
          /\ verifying'.accepted <=> (c = wire[3])
          /\ verifying'.by = k.by
      BY <1>2, <1>9, <3>1 DEF Checking
    <3>3. v = signing.statement => c = wire[3]
      <4>1. wire[3] = signing.c[1]
        BY <1>3 DEF WalksRing
      <4>2. QED BY <1>7, <1>10, <2>2, <4>1
    <3>4. v = signing.statement => \A m \in 1 .. Members(v) : ~Spoiled(k.by, m)
      <4>1. \A m \in 1 .. n : m = k.i \/ m \in 1 .. k.i - 1
        BY <1>4, <2>2
      <4>2. QED BY <1>2, <1>14, <4>1 DEF n
    <3>5. c = wire[3] => Hashed(oracle', query, wire[3])
      BY <1>6
    <3>6. QED BY <1>1, <1>2, <1>8, <1>15, <3>2, <3>3, <3>4, <3>5 DEF VerifierInv
  <2>3. QED BY <1>2, <1>4, <2>1, <2>2
<1>13. QED BY <1>6, <1>11, <1>12 DEF SigningInv

LEMMA SigningStep ==
  ASSUME SigningInv, [SigningNext]_signingVars
  PROVE  SigningInv'
<1>1. CASE UNCHANGED signingVars
  <2>1. UNCHANGED <<oracle, signing, wire, verifying, cast>>
    BY <1>1 DEF signingVars
  <2>2. QED BY <2>1 DEF SigningInv, OracleInv, SignerInv, VerifierInv, CastInv, NotSigning, NotVerifying,
                       Spoiled
<1>2. ASSUME NEW v \in Statement, NEW by \in Verifier, Submitted(v, by) PROVE SigningInv'
  BY <1>2, SubmittedHolds
<1>3. ASSUME NEW c \in Answers,
             \/ \E v \in Statement, x \in Secret, alpha \in RandomScalar : Sign(v, x, alpha, c)
             \/ Walk(c) \/ Rewalk(c)
      PROVE  SigningInv'
  BY <1>3, SignHolds, WalkHolds, RewalkHolds
<1>4. QED BY <1>1, <1>2, <1>3, CloseHolds, RejectHolds, AgainHolds DEF SigningNext

LEMMA SigningInvariant == SigningSpec => []SigningInv
BY SigningInitHolds, SigningStep, PTL DEF SigningSpec

LEMMA SigningTypeCorrect == SigningSpec => []SigningTypeOK
<1>1. ASSUME SigningInv PROVE SigningTypeOK
  <2>1. signing.stage \in {"none", "walk", "signed"}
    BY <1>1 DEF SigningInv, SignerInv, Walking, Making, NotSigning
  <2>2. verifying.stage \in {"none", "walk", "done"}
    BY <1>1 DEF SigningInv, VerifierInv, Checking, NotVerifying
  <2>3. wire # << >> => WellFormed(wire)
    BY <1>1 DEF SigningInv, SignerInv, WalksRing
  <2>4. QED BY <1>1, <2>1, <2>2, <2>3 DEF SigningTypeOK, SigningInv, OracleInv
<1>2. QED BY <1>1, SigningInvariant, PTL

\* The ledger accepts a signature for the ballot it was made for unless a member's
\* response and challenge cancel, the browser's verifier unless the signer's response
\* is zero.
THEOREM SignaturesVerifyAlways == SigningSpec => []SignaturesVerify
<1>1. ASSUME SigningInv, verifying.stage = "done", verifying.statement = signing.statement
      PROVE  verifying.accepted <=>
               IF verifying.by = "ledger"
                 THEN \A i \in DOMAIN Group[signing.statement.group] :
                        ~((wire[4 + i] + signing.c[i] * Group[signing.statement.group][i]) % Order = 0)
                 ELSE wire[4 + signing.at] # 0
  <2> DEFINE v == signing.statement
             n == Members(v)
  <2>1. /\ wire # << >>
        /\ verifying.accepted <=> \A k \in 1 .. n : ~Spoiled(verifying.by, k)
    BY <1>1 DEF SigningInv, VerifierInv, NotVerifying
  <2>2. Walking(oracle, signing)
    BY <1>1, <2>1 DEF SigningInv, SignerInv
  <2>3. v \in Statement /\ signing.at \in 1 .. n
    BY <2>2 DEF Walking, Making
  <2>4. DOMAIN Group[v.group] = 1 .. n
    BY <2>3, SigningAssumption DEF Statement, Members
  <2>5. QED BY <2>1, <2>3, <2>4 DEF Spoiled
<1>2. QED BY <1>1, SigningInvariant, PTL DEF SignaturesVerify

\* A signature accepted for another ballot shows two transcripts with one hash.
THEOREM SignaturesBindAlways == SigningSpec => []SignaturesBind
<1>1. ASSUME SigningInv, verifying.stage = "done", verifying.accepted,
             verifying.statement # signing.statement
      PROVE  \E g, h \in oracle : g.query # h.query /\ g.answer = wire[3] /\ h.answer = wire[3]
  <2>1. /\ verifying # NotVerifying /\ wire # << >> /\ verifying.statement \in Statement
    BY <1>1 DEF SigningInv, VerifierInv, NotVerifying, Checking
  <2>2. PICK q : Hashed(oracle, q, wire[3]) /\ q[1] = EncodeMessage(verifying.statement)
    BY <1>1, <2>1 DEF SigningInv, VerifierInv
  <2>3. Walking(oracle, signing) /\ WalksRing(oracle, signing, wire)
    BY <1>1, <2>1 DEF SigningInv, SignerInv
  <2> DEFINE v == signing.statement
             n == Members(v)
             p == Query(v, signing.image, n, wire[4 + n], signing.c[n])
  <2>4. v \in Statement
    BY <2>3 DEF Walking, Making
  <2>5. n \in Nat \ {0}
    BY <2>3, <2>4, RingOfGroup DEF Walking
  <2>6. Hashed(oracle, p, wire[3])
    BY <2>3, <2>5, FollowingIs DEF WalksRing
  <2>7. p[1] = EncodeMessage(v)
    BY DEF Query
  <2>8. EncodeMessage(v) # EncodeMessage(verifying.statement)
    BY <1>1, <2>1, <2>4 DEF EncodeMessage, Statement
  <2> HIDE DEF p
  <2>9. p # q
    BY <2>2, <2>7, <2>8
  <2>10. QED BY <2>2, <2>6, <2>9 DEF Hashed
<1>2. QED BY <1>1, SigningInvariant, PTL DEF SignaturesBind

\* A key image is that of one key in one election.
LEMMA ImagesDiffer ==
  ASSUME NEW x \in Secret, NEW y \in Secret, NEW p \in Poll, NEW q \in Poll, KeyImage(x, p) = KeyImage(y, q)
  PROVE  x = y /\ p = q
<1>1. KeyImage(x, p)[<<x, p>>] = x
  BY KeyImageIs
<1>2. KeyImage(y, q)[<<x, p>>] = IF <<x, p>> = <<y, q>> THEN y ELSE 0
  <2>1. KeyImage(y, q) = [b \in Bases |-> IF b = <<y, q>> THEN y ELSE 0]
    BY KeyImageIs
  <2>2. <<x, p>> \in Bases
    BY KeyImageIs
  <2>3. QED BY <2>1, <2>2
<1>3. x # 0
  BY OrderIs
<1>4. <<x, p>> = <<y, q>>
  BY <1>1, <1>2, <1>3
<1>5. QED BY <1>4

\* Two signatures are linked exactly when one key signed twice in one election.
THEOREM LinkedExactlyAlways == SigningSpec => []LinkedExactly
<1>1. SigningInv => LinkedExactly
  BY ImagesDiffer DEF SigningInv, CastInv, LinkedExactly, AreLinked
<1>2. QED BY <1>1, SigningInvariant, PTL
=============================================================================
