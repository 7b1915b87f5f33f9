---------------------------- MODULE BallotPaper ----------------------------
(***************************************************************************)
(* The list of candidates of an election: an officer edits it on           *)
(* CandidatesPage while others do, or a client of the API; the candidate   *)
(* service applies each request in a transaction that holds the election's *)
(* row.  Positions are unique in the database after every row written, so  *)
(* a new order is written in two passes.                                   *)
(***************************************************************************)
EXTENDS Integers, Sequences, FiniteSets, FiniteSetsExt, Functions

CONSTANTS MaxEntries,   \* bound: candidates ever added, numbered as they come
          Offset,       \* REORDER_OFFSET
          Cap,          \* the largest position a client may choose
          Chosen,       \* bound: the positions clients choose
          Orders        \* bound: the orders clients send

ASSUME BallotPaperAssumption ==
  /\ MaxEntries \in Nat /\ Cap \in Nat /\ Chosen \subseteq 1 .. Cap
  /\ Offset \in Nat /\ Offset >= Cap + MaxEntries
  /\ Orders \subseteq Seq(Nat)

VARIABLES ballot,     \* [candidate -> position]
          added,      \* candidates added so far
          fixed,      \* registration is closed
          listed,     \* the candidates on the page, in ballot order
          editable,   \* whether the page offers to change them
          editing,    \* the candidate the page's form saves to, or 0 for a new one
          meant,      \* the candidate the officer asked the form for, or 0
          reordering  \* history: the order just asked for, with what became of it

ballotPaperVars == <<ballot, added, fixed, listed, editable, editing, meant, reordering>>

NoOrder == [outcome |-> "none"]

InBallotOrder(rows) ==
  CHOOSE s \in [1 .. Cardinality(DOMAIN rows) -> DOMAIN rows] :
    \A i, j \in DOMAIN s : i < j => rows[s[i]] < rows[s[j]]

BallotPaperInit ==
  /\ ballot = << >> /\ added = 0 /\ fixed = FALSE
  /\ listed = << >> /\ editable = TRUE /\ editing = 0 /\ meant = 0
  /\ reordering = NoOrder

-----------------------------------------------------------------------------
\* The service.  A position that is taken is a conflict, and nothing changes.
NextBallotPosition == Max({0} \cup Range(ballot)) + 1

AddCandidateAt(p) ==
  /\ ~fixed /\ added < MaxEntries /\ p \notin Range(ballot)
  /\ added' = added + 1
  /\ ballot' = [c \in DOMAIN ballot \cup {added + 1} |-> IF c = added + 1 THEN p ELSE ballot[c]]

EditCandidateAt(c, p) ==
  /\ ~fixed /\ c \in DOMAIN ballot /\ p \notin {ballot[d] : d \in DOMAIN ballot \ {c}}
  /\ ballot' = [ballot EXCEPT ![c] = p]
  /\ UNCHANGED added

RemoveCandidateOf(c) ==
  /\ ~fixed /\ c \in DOMAIN ballot
  /\ ballot' = Restrict(ballot, DOMAIN ballot \ {c})
  /\ UNCHANGED added

\* Variant: the rows are not parked first.
ParkedInPlace(i) == i

Parked(i) == Offset + i

\* The rows written for an order, and the table after the first k of them.
Writes(order) ==
  [i \in 1 .. 2 * Len(order) |->
     IF i <= Len(order) THEN [id |-> order[i], at |-> Parked(i)]
     ELSE [id |-> order[i - Len(order)], at |-> i - Len(order)]]

Written(writes, k) ==
  [c \in DOMAIN ballot |->
     LET own == {i \in 1 .. k : writes[i].id = c}
     IN  IF own = {} THEN ballot[c] ELSE writes[Max(own)].at]

\* As many entries as there are candidates, all of them known.
Complete(order) == Len(order) = Cardinality(DOMAIN ballot) /\ Range(order) \subseteq DOMAIN ballot

Reorder(order) ==
  LET writes == Writes(order)
      unique == \A k \in 0 .. Len(writes) : IsInjective(Written(writes, k))
      outcome == IF fixed \/ ~Complete(order) THEN "refused"
                 ELSE IF unique THEN "written" ELSE "collided"
  IN  /\ ballot' = IF outcome = "written" THEN Written(writes, Len(writes)) ELSE ballot
      /\ reordering' = [order |-> order, outcome |-> outcome]
      /\ UNCHANGED added

-----------------------------------------------------------------------------
\* The page.  Its list is as old as its last load, and so is what it offers.
Reload ==
  /\ listed' = InBallotOrder(ballot) /\ editable' = ~fixed
  /\ reordering' = NoOrder
  /\ UNCHANGED <<ballot, added, fixed, editing, meant>>

EditEntry(c) ==
  /\ editable /\ c \in Range(listed)
  /\ editing' = c /\ meant' = c
  /\ reordering' = NoOrder
  /\ UNCHANGED <<ballot, added, fixed, listed, editable>>

CancelEdit ==
  /\ editable /\ editing # 0
  /\ editing' = 0 /\ meant' = 0
  /\ reordering' = NoOrder
  /\ UNCHANGED <<ballot, added, fixed, listed, editable>>

\* Below two candidates there is a button to add the second.  It empties the form for
\* new candidates, which is not the one on screen while another is being edited.
AddSecond ==
  /\ editable /\ Len(listed) = 1
  /\ meant' = 0
  /\ reordering' = NoOrder
  /\ UNCHANGED <<ballot, added, fixed, listed, editable, editing>>

\* The form's button; the answer closes the form, unless it is lost.
SaveForm(answered) ==
  /\ editable
  /\ IF editing = 0 THEN AddCandidateAt(NextBallotPosition)
     ELSE editing \in DOMAIN ballot /\ EditCandidateAt(editing, ballot[editing])
  /\ editing' = IF answered THEN 0 ELSE editing
  /\ meant' = IF answered THEN 0 ELSE meant
  /\ reordering' = NoOrder
  /\ UNCHANGED <<fixed, listed, editable>>

Remove(c) ==
  /\ editable /\ c \in Range(listed)
  /\ RemoveCandidateOf(c)
  /\ reordering' = NoOrder
  /\ UNCHANGED <<fixed, listed, editable, editing, meant>>

\* Up and Down swap two neighbours of the list on screen.
Move(i, delta) ==
  /\ editable /\ {i, i + delta} \subseteq DOMAIN listed
  /\ Reorder([listed EXCEPT ![i] = listed[i + delta], ![i + delta] = listed[i]])
  /\ UNCHANGED <<fixed, listed, editable, editing, meant>>

-----------------------------------------------------------------------------
\* Others: their own pages, and requests no page makes.
OthersEdit ==
  /\ \/ \E p \in Chosen \cup {NextBallotPosition} : AddCandidateAt(p)
     \/ \E c \in DOMAIN ballot, p \in Chosen : EditCandidateAt(c, p)
     \/ \E c \in DOMAIN ballot : RemoveCandidateOf(c)
  /\ reordering' = NoOrder
  /\ UNCHANGED <<fixed, listed, editable, editing, meant>>

OthersReorder ==
  /\ \E order \in Orders : Reorder(order)
  /\ UNCHANGED <<fixed, listed, editable, editing, meant>>

CloseRegistrationOf ==
  /\ ~fixed
  /\ fixed' = TRUE
  /\ reordering' = NoOrder
  /\ UNCHANGED <<ballot, added, listed, editable, editing, meant>>

BallotPaperNext ==
  \/ Reload \/ CancelEdit \/ AddSecond
  \/ \E c \in 1 .. added : EditEntry(c) \/ Remove(c)
  \/ \E answered \in BOOLEAN : SaveForm(answered)
  \/ \E i \in DOMAIN listed, delta \in {-1, 1} : Move(i, delta)
  \/ OthersEdit \/ OthersReorder \/ CloseRegistrationOf

BallotPaperSpec == BallotPaperInit /\ [][BallotPaperNext]_ballotPaperVars
=============================================================================
