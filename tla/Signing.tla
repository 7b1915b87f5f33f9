------------------------------ MODULE Signing ------------------------------
(***************************************************************************)
(* Linkable ring signatures as the browser makes them and two verifiers    *)
(* check them, the ledger's (lrs/verify.rs), which every ballot meets, and *)
(* the browser library's own (lrs/verify.ts), over a group of prime order. *)
(*                                                                         *)
(* Hashing to a point gives bases nobody knows a relation between, so a    *)
(* point is a combination of independent bases.  Hashing to a scalar may   *)
(* give anything, but the same for the same input: each new transcript is  *)
(* answered by choice and remembered.  That forgeries are hard is no       *)
(* statement of this module.                                               *)
(***************************************************************************)
EXTENDS Integers, Sequences, FiniteSets

CONSTANTS Order,      \* the order of the group, a prime
          Secret,     \* private keys of the voters
          Poll,       \* elections
          Candidate,
          Group,      \* [group -> its public keys, by their secrets, in published order]
          Draws,      \* bound: the scalars the random generator draws
          Answers,    \* bound: the scalars a transcript hashes to
          MaxSigned   \* bound: signatures made

ASSUME SigningAssumption ==
  /\ Order \in Nat \ {0, 1} /\ MaxSigned \in Nat
  /\ Secret \subseteq 1 .. Order - 1 /\ Draws \cup Answers \subseteq 0 .. Order - 1
  /\ \A g \in DOMAIN Group : Group[g] \in Seq(Secret)

VARIABLES oracle,     \* transcripts hashed so far, with their answers
          signing,    \* the signature in the making: what the browser knows
          wire,       \* the bytes sent, field by field, or << >>
          verifying,  \* the walk of a verifier: what it checks and how far it is
          cast        \* history: key, election and key image of the signatures made

signingVars == <<oracle, signing, wire, verifying, cast>>

Scalar == 0 .. Order - 1

\* What the generator draws is never zero.
RandomScalar == {IF d = 0 THEN 1 ELSE d : d \in Draws}

Statement == [poll : Poll, group : DOMAIN Group, candidate : Candidate]

-----------------------------------------------------------------------------
\* The group.
G == <<0, "G">>
Bases == {G} \cup (Secret \X Poll)
Base(b) == [a \in Bases |-> IF a = b THEN 1 ELSE 0]
Mul(p, s) == [b \in Bases |-> (p[b] * s) % Order]
AddPoints(p, q) == [b \in Bases |-> (p[b] + q[b]) % Order]
Identity == [b \in Bases |-> 0]

PublicKey(x) == Mul(Base(G), x)
RingOf(g) == [i \in DOMAIN Group[g] |-> PublicKey(Group[g][i])]

\* Variant: the base of a key image is the key's, whatever the election.
KeyImageBaseOfKey(p, poll) == Base(<<p[G], CHOOSE e \in Poll : TRUE>>)

KeyImageBase(p, poll) == Base(<<p[G], poll>>)

KeyImage(x, poll) == Mul(KeyImageBase(PublicKey(x), poll), x)

\* Variant: the message leaves the candidate out.
EncodeMessageOfGroup(v) == <<v.poll, v.group>>

EncodeMessage(v) == <<v.poll, v.group, v.candidate>>

\* The hash of a transcript.
Challenge(message, ring, l, r, c) ==
  LET query == <<message, ring, l, r>>
  IN  /\ \A h \in oracle : h.query = query => h.answer = c
      /\ oracle' = oracle \cup {[query |-> query, answer |-> c]}

\* One step of a walk around the ring: L = sG + cP and R = sH + cI.
Left(p, s, c) == AddPoints(Mul(Base(G), s), Mul(p, c))
Right(p, poll, image, s, c) == AddPoints(Mul(KeyImageBase(p, poll), s), Mul(image, c))

-----------------------------------------------------------------------------
\* Signing.  The walk begins after the signer, whose own response closes it.
NotSigning == [stage |-> "none"]
NotVerifying == [stage |-> "none"]

Following(i, n) == (i % n) + 1

Sign(v, x, alpha, c) ==
  LET ring == RingOf(v.group)
      n == Len(ring)
      own == KeyImageBase(PublicKey(x), v.poll)
  IN  /\ signing = NotSigning
      /\ n >= 2
      /\ \E at \in 1 .. n, s \in [1 .. n -> RandomScalar \cup {0}] :
           /\ ring[at] = PublicKey(x)
           /\ \A i \in 1 .. n : s[i] = 0 <=> i = at
           /\ Challenge(EncodeMessage(v), ring, PublicKey(alpha), Mul(own, alpha), c)
           /\ signing' = [stage |-> "walk", statement |-> v, key |-> x, at |-> at, alpha |-> alpha,
                          image |-> KeyImage(x, v.poll), i |-> Following(at, n), s |-> s,
                          c |-> [i \in 1 .. n |-> IF i = Following(at, n) THEN c ELSE 0]]
      /\ UNCHANGED <<wire, verifying, cast>>

Walk(c) ==
  LET j == signing
      v == j.statement
      ring == RingOf(v.group)
      next == Following(j.i, Len(ring))
  IN  /\ j.stage = "walk" /\ j.i # j.at
      /\ Challenge(EncodeMessage(v), ring, Left(ring[j.i], j.s[j.i], j.c[j.i]),
                   Right(ring[j.i], v.poll, j.image, j.s[j.i], j.c[j.i]), c)
      /\ signing' = [j EXCEPT !.i = next, !.c[next] = c]
      /\ UNCHANGED <<wire, verifying, cast>>

\* Variant: the response is computed from the first challenge of the ring.
ResponseOfFirst(j) == (j.alpha - j.c[1] * j.key) % Order

Response(j) == (j.alpha - j.c[j.at] * j.key) % Order

Version == 1
SerializeSignature(c0, image, s) == <<Version, Len(s), c0, image>> \o s

\* Version, length, scalars in range, an image that is not the identity.
WellFormed(w) ==
  /\ Len(w) >= 4 /\ w[1] = Version /\ w[2] >= 2 /\ Len(w) = 4 + w[2]
  /\ w[3] \in Scalar /\ w[4] # Identity
  /\ \A i \in 5 .. Len(w) : w[i] \in Scalar

Close ==
  LET j == signing
      s == [j.s EXCEPT ![j.at] = Response(j)]
  IN  /\ j.stage = "walk" /\ j.i = j.at
      /\ wire' = SerializeSignature(j.c[1], j.image, s)
      /\ signing' = [j EXCEPT !.stage = "signed"]
      /\ cast' = cast \cup {[key |-> j.key, poll |-> j.statement.poll, image |-> j.image]}
      /\ UNCHANGED <<oracle, verifying>>

-----------------------------------------------------------------------------
\* Verifying, for the statement a ballot is submitted with, by one of the two.
Verifier == {"ledger", "browser"}

Submitted(v, by) ==
  /\ wire # << >> /\ verifying = NotVerifying
  /\ verifying' = [stage |-> IF WellFormed(wire) /\ Len(Group[v.group]) = wire[2] THEN "walk" ELSE "done",
                   by |-> by, statement |-> v, i |-> 1, c |-> wire[3], accepted |-> FALSE]
  /\ UNCHANGED <<oracle, signing, wire, cast>>

\* The points of the member the walk is at.
LeftAt(k) == Left(RingOf(k.statement.group)[k.i], wire[4 + k.i], k.c)
RightAt(k) == Right(RingOf(k.statement.group)[k.i], k.statement.poll, wire[4], wire[4 + k.i], k.c)

\* The ledger takes a point that is the identity for a forgery; the browser's base
\* point is not multiplied by zero: its verifier throws, and rejects.
Degenerate(k) ==
  \/ k.by = "ledger" /\ Identity \in {LeftAt(k), RightAt(k)}
  \/ k.by = "browser" /\ wire[4 + k.i] = 0

Rewalk(c) ==
  LET k == verifying
      ring == RingOf(k.statement.group)
  IN  /\ k.stage = "walk" /\ ~Degenerate(k)
      /\ Challenge(EncodeMessage(k.statement), ring, LeftAt(k), RightAt(k), c)
      /\ verifying' = IF k.i < Len(ring) THEN [k EXCEPT !.i = @ + 1, !.c = c]
                      ELSE [k EXCEPT !.stage = "done", !.c = c, !.accepted = (c = wire[3])]
      /\ UNCHANGED <<signing, wire, cast>>

Reject ==
  /\ verifying.stage = "walk" /\ Degenerate(verifying)
  /\ verifying' = [verifying EXCEPT !.stage = "done"]
  /\ UNCHANGED <<oracle, signing, wire, cast>>

\* The next signature; what was hashed for the last one is of no use to it.
Again ==
  /\ verifying.stage = "done" /\ Cardinality(cast) < MaxSigned
  /\ oracle' = {} /\ signing' = NotSigning /\ wire' = << >> /\ verifying' = NotVerifying
  /\ UNCHANGED cast

AreLinked(a, b) == a.image = b.image

SigningInit ==
  /\ oracle = {} /\ signing = NotSigning /\ wire = << >> /\ verifying = NotVerifying
  /\ cast = {}

SigningNext ==
  \/ \E c \in Answers :
       \/ \E v \in Statement, x \in Secret, alpha \in RandomScalar : Sign(v, x, alpha, c)
       \/ Walk(c) \/ Rewalk(c)
  \/ Close \/ Reject \/ Again
  \/ \E v \in Statement, by \in Verifier : Submitted(v, by)

SigningSpec == SigningInit /\ [][SigningNext]_signingVars
=============================================================================
