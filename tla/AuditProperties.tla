-------------------------- MODULE AuditProperties --------------------------
(***************************************************************************)
(* What an auditor who reads the record page by page may rely on.          *)
(***************************************************************************)
EXTENDS Audit

AuditTypeOK ==
  /\ log \subseteq Entry /\ there \cup read \subseteq log
  /\ filter \in Inspected
  /\ pageAsked \in Nat
  /\ onScreen = NoAnswer \/
       /\ onScreen.page \in Nat
       /\ Cardinality(onScreen.rows) <= PAGE_SIZE

\* Recorded by itself, so that no other entry shares its moment.
Alone(e) == \A o \in log : o.at = e.at => o = e
\* The reader has gone further back than this entry.
Passed(e) == \E o \in read : o.at < e.at

\* The record has no holes: whatever was added in the meantime, wherever it was
\* filed, and however fast and often the buttons were pressed, an entry that was
\* there when the filter was set has been shown once the reader has seen an older
\* one.  Not so for entries of one moment, and not if a page was turned in
\* the answer to an earlier filter, which stays on screen until the next arrives.
NothingSkipped ==
  ~turnedEarly => \A e \in there : Alone(e) /\ Passed(e) => e \in read

\* Any given person's entry can be found, also one of a bulk enrolment, which has
\* one entry for each voter.  It does not hold: they are of one moment, and two
\* pages may both show one of them and neither the other.
EachCanBeFound ==
  ~turnedEarly => \A e \in there : Passed(e) => e \in read

\* The last page is the end of the record.  It does not hold: an entry that is added
\* after the total was counted may move another to a page that Next does not offer.
LastIsLast ==
  (~turnedEarly /\ awaitedTotal = NotAwaited /\ onScreen # NoAnswer) =>
    (onScreen.page = onScreen.pages => \A e \in there : Alone(e) => e \in read)
=============================================================================
