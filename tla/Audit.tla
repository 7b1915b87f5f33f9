------------------------------- MODULE Audit -------------------------------
(***************************************************************************)
(* The audit record and the page it is read on.  Transactions add entries  *)
(* that carry the moment they began at, one or many; a reader narrows the  *)
(* record to an election and turns its pages, newest entry first.          *)
(*                                                                         *)
(* A page is asked for by number and worked out when the query runs, so    *)
(* that entries move down while the reader turns pages.  Entries of one    *)
(* moment have no order of their own.                                      *)
(***************************************************************************)
EXTENDS Naturals, FiniteSets

CONSTANTS Subject,      \* elections an entry may be about
          All,          \* no filter
          Inspected,    \* the filters a reader sets
          EntriesAdded, \* how many entries one transaction adds
          PAGE_SIZE,
          MaxMoments,   \* bound: transactions
          MaxTurns      \* bound: loads of the page

ASSUME AuditAssumption ==
  /\ All \notin Subject
  /\ All \in Inspected /\ Inspected \subseteq Subject \cup {All}
  /\ EntriesAdded \subseteq Nat \ {0}
  /\ PAGE_SIZE \in Nat \ {0}
  /\ {MaxMoments, MaxTurns} \subseteq Nat

VARIABLES log,          \* audit_log
          filter,       \* the address bar: the election
          pageAsked,    \* the address bar: the page
          awaitedTotal, \* the total counted for the answer under way
          onScreen,     \* the last answer: page, number of pages and rows
          turns,
          there,        \* history: entries that matched when the filter was set
          read,         \* history: entries shown since
          turnedEarly   \* history: a page was turned before this filter was answered

address == <<filter, pageAsked>>
history == <<there, read, turnedEarly>>
auditVars == <<log, address, awaitedTotal, onScreen, turns, history>>

Entry == [at : 1 .. MaxMoments, nr : Nat, about : Subject]
NoAnswer == [page |-> 0]
NotAwaited == [answered |-> TRUE]

Matching(f) == {e \in log : f \in {All, e.about}}
Pages(total) == IF total = 0 THEN 1 ELSE (total + PAGE_SIZE - 1) \div PAGE_SIZE

AuditInit ==
  /\ log = {}
  /\ filter = All /\ pageAsked = 1
  /\ awaitedTotal = [counted |-> 0]
  /\ onScreen = NoAnswer
  /\ turns = 1
  /\ there = {} /\ read = {} /\ turnedEarly = FALSE

-----------------------------------------------------------------------------
\* recordAuditEntry and recordAuditEntries: created_at is the time the transaction
\* began, so one that takes long is filed below entries already on screen.
RecordAuditEntries(moment, n, about) ==
  /\ \A e \in log : e.at # moment
  /\ log' = log \cup {[at |-> moment, nr |-> i, about |-> about] : i \in 1 .. n}
  /\ UNCHANGED <<address, awaitedTotal, onScreen, turns, history>>

\* The first so many entries in descending order of time; within a moment the
\* database picks.
Front(f, limit) ==
  {front \in SUBSET Matching(f) :
     /\ Cardinality(front) = IF Cardinality(Matching(f)) < limit
                               THEN Cardinality(Matching(f)) ELSE limit
     /\ \A e \in front, o \in Matching(f) \ front : e.at >= o.at}

ListAuditEntries(f, page) ==
  LET Skipped(front) == {skipped \in Front(f, (page - 1) * PAGE_SIZE) : skipped \subseteq front}
  IN  UNION {{front \ skipped : skipped \in Skipped(front)} : front \in Front(f, page * PAGE_SIZE)}

\* useAsyncData: another address cancels the request under way.  The total is
\* counted by a query of its own.
LoadPage(f, page) ==
  /\ turns < MaxTurns
  /\ turns' = turns + 1
  /\ filter' = f /\ pageAsked' = page
  /\ awaitedTotal' = [counted |-> Cardinality(Matching(f))]

\* Choosing an election, or clearing the filters, goes to the first page.
SetFilter(f) ==
  /\ <<f, 1>> # address
  /\ LoadPage(f, 1)
  /\ there' = Matching(f) /\ read' = {} /\ turnedEarly' = FALSE
  /\ UNCHANGED <<log, onScreen>>

\* Variant: the buttons count from the page in the address bar.
CurrentPageAsked == pageAsked

\* The buttons count from the page of the answer on screen.
CurrentPage == onScreen.page

TurnTo(page) ==
  /\ page # pageAsked
  /\ LoadPage(filter, page)
  /\ turnedEarly' = (turnedEarly \/ read = {})
  /\ UNCHANGED <<log, onScreen, there, read>>

\* Previous and Next, of whatever answer is on screen.
Turn ==
  /\ onScreen # NoAnswer /\ onScreen.rows # {}
  /\ \/ onScreen.page > 1 /\ TurnTo(CurrentPage - 1)
     \/ onScreen.page < onScreen.pages /\ TurnTo(CurrentPage + 1)

AnswerOf(rows, total) == [page |-> pageAsked, pages |-> Pages(total), rows |-> rows]

\* listAudit answers, and the page shows the answer.
ListAudit ==
  /\ awaitedTotal # NotAwaited
  /\ awaitedTotal' = NotAwaited
  /\ \E rows \in ListAuditEntries(filter, pageAsked),
        total \in awaitedTotal.counted .. Cardinality(Matching(filter)) :
       /\ onScreen' = AnswerOf(rows, total)
       /\ read' = read \cup rows
  /\ UNCHANGED <<log, address, turns, there, turnedEarly>>

\* A failure leaves nothing on screen, and only the filters to go on with.
FailToLoad ==
  /\ awaitedTotal # NotAwaited
  /\ awaitedTotal' = NotAwaited
  /\ onScreen' = NoAnswer
  /\ UNCHANGED <<log, address, turns, history>>

AuditNext ==
  \/ \E moment \in 1 .. MaxMoments, n \in EntriesAdded, about \in Subject :
       RecordAuditEntries(moment, n, about)
  \/ \E f \in Inspected : SetFilter(f)
  \/ Turn
  \/ ListAudit
  \/ FailToLoad

AuditSpec == AuditInit /\ [][AuditNext]_auditVars
=============================================================================
