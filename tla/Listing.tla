------------------------------ MODULE Listing ------------------------------
(***************************************************************************)
(* The two administrator pages that act on many rows at once: the          *)
(* verification queue, which decides pending registrations, and the        *)
(* electoral roll, which enrols vetted voters.  Both are built from        *)
(* useAsyncData, which keeps the last answer on screen until the next one  *)
(* arrives, and useSelection, which remembers ticked rows together with    *)
(* the view they were ticked in.  A view is a filter, a search and a page. *)
(***************************************************************************)
EXTENDS Naturals, FiniteSets

CONSTANTS View,      \* views a page can show
          Listed,    \* [View -> the rows it shows while they are open], rows in display order
          MaxLoads   \* bound: loads of the list

ASSUME ListingAssumption ==
  Listed \in [View -> SUBSET Nat] /\ MaxLoads \in Nat

VARIABLES page,       \* "queue" or "roll"
          undecided,  \* rows still pending, or not yet on the roll, at the server
          view,       \* the view in the address bar
          rows,       \* the rows on screen
          loading,    \* an answer is awaited for this view
          ticked,     \* [view, ids]: the selection as it was last written
          anchor,     \* [view, id] of the last row touched, or NoAnchor
          call,       \* the rows the action in flight carries
          loads,      \* loads started
          hasty       \* a row was ticked while an answer was awaited

listingVars == <<page, undecided, view, rows, loading, ticked, anchor, call, loads, hasty>>

Row == UNION {Listed[v] : v \in View}
NoAnchor == [id |-> 0]
NoCall == [ids |-> {}]
Nothing(v) == [view |-> v, ids |-> {}]

ListingInit ==
  /\ page \in {"queue", "roll"}
  /\ undecided = Row
  /\ view \in View
  /\ rows = {}
  /\ loading = TRUE
  /\ ticked = Nothing(view)
  /\ anchor = NoAnchor
  /\ call = NoCall
  /\ loads = 1
  /\ hasty = FALSE

-----------------------------------------------------------------------------
\* useAsyncData.  A new view or a reload cancels what was awaited.
Load(v) ==
  /\ loads < MaxLoads
  /\ loads' = loads + 1
  /\ loading' = TRUE
  /\ view' = v

Navigate(v) ==
  /\ v # view /\ Load(v)
  /\ UNCHANGED <<page, undecided, rows, ticked, anchor, call, hasty>>

\* The answer replaces the rows; a failure leaves none.
Settle(answered) ==
  /\ loading
  /\ loading' = FALSE
  /\ rows' = IF answered THEN Listed[view] \cap undecided ELSE {}
  /\ UNCHANGED <<page, undecided, view, ticked, anchor, call, loads, hasty>>

-----------------------------------------------------------------------------
\* useSelection.  Variant: ticks are kept from one view to the next.
SelectedInAnyView == ticked.ids

\* What is selected, as far as this view is concerned.
Selected == IF ticked.view = view THEN ticked.ids ELSE {}

Write(ids) == ticked' = [view |-> view, ids |-> ids]

\* The rows from the anchor to r, when both can be picked.
Span(r) ==
  LET a == anchor.id
  IN  {s \in rows : (a <= s /\ s <= r) \/ (r <= s /\ s <= a)}

Toggle(r, shift) ==
  /\ r \in rows
  /\ LET ranged == shift /\ anchor # NoAnchor /\ anchor.view = view
                         /\ anchor.id # r /\ anchor.id \in rows
         touched == IF ranged THEN Span(r) ELSE {r}
     IN  Write(IF r \in Selected THEN Selected \ touched ELSE Selected \cup touched)
  /\ anchor' = [view |-> view, id |-> r]
  /\ hasty' = (hasty \/ loading)
  /\ UNCHANGED <<page, undecided, view, rows, loading, call, loads>>

ToggleAll ==
  /\ rows # {}
  /\ Write(IF rows \subseteq Selected THEN {} ELSE rows)
  /\ anchor' = NoAnchor
  /\ hasty' = (hasty \/ loading)
  /\ UNCHANGED <<page, undecided, view, rows, loading, call, loads>>

Clear ==
  /\ Selected # {}
  /\ Write({}) /\ anchor' = NoAnchor
  /\ UNCHANGED <<page, undecided, view, rows, loading, call, loads, hasty>>

-----------------------------------------------------------------------------
\* Acting on the selection.
\* The queue sends the rows on screen that are selected, the roll page the ids.
QueueIds == {r \in rows : r \in Selected}
RollIds == Selected

\* One action at a time: a click while one is in flight is ignored.
Run(ids) ==
  /\ call = NoCall /\ ids # {}
  /\ call' = [ids |-> ids]
  /\ UNCHANGED <<page, undecided, view, rows, loading, ticked, anchor, loads, hasty>>

DecideSelected == page = "queue" /\ Run(QueueIds)
TransferSelected == page = "roll" /\ Run(RollIds)

\* The server deals with the rows it still can, in a request that may fail on the
\* way back; on success the page reloads, and forgets the selection.
Succeed ==
  /\ call # NoCall
  /\ undecided' = undecided \ call.ids
  /\ call' = NoCall
  /\ Load(view)
  /\ ticked' = Nothing(view) /\ anchor' = NoAnchor
  /\ UNCHANGED <<page, rows, hasty>>

Fail ==
  /\ call # NoCall
  /\ \E done \in {{}, call.ids} : undecided' = undecided \ done
  /\ call' = NoCall
  /\ UNCHANGED <<page, view, rows, loading, ticked, anchor, loads, hasty>>

\* Another officer decides a row.
Elsewhere(r) ==
  /\ r \in undecided
  /\ undecided' = undecided \ {r}
  /\ UNCHANGED <<page, view, rows, loading, ticked, anchor, call, loads, hasty>>

ListingNext ==
  \/ \E v \in View : Navigate(v)
  \/ \E answered \in BOOLEAN : Settle(answered)
  \/ \E r \in Row, shift \in BOOLEAN : Toggle(r, shift)
  \/ ToggleAll \/ Clear \/ DecideSelected \/ TransferSelected \/ Succeed \/ Fail
  \/ \E r \in Row : Elsewhere(r)

ListingSpec == ListingInit /\ [][ListingNext]_listingVars
=============================================================================
