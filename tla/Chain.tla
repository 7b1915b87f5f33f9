------------------------------- MODULE Chain -------------------------------
(***************************************************************************)
(* The rules a ledger node applies to blocks and chains: a pure reading of  *)
(* blockchain/src/block (block.rs, chain.rs, miner.rs) and of the election  *)
(* manifest's part in them.                                                 *)
(*                                                                          *)
(* A ballot stands for the four fields a mining task carries (candidate,    *)
(* ring, key image, signature).  Two ballots of one voter share their key   *)
(* image.  Verifies[n] is the set of ballots whose ring, signature and      *)
(* candidate check against the manifest file node n loaded at startup;      *)
(* every node loads its own.                                                *)
(*                                                                          *)
(* A SHA-256 digest is taken to be injective: the hash of a block is the    *)
(* list of contents it closes, from the first block on.  Proof of work and  *)
(* the nonce search are not modelled: Block::new always ends with a hash    *)
(* that passes both checks, and equal contents get equal hashes.            *)
(***************************************************************************)
EXTENDS Naturals, Sequences, FiniteSets

CONSTANTS
  Nodes,      \* the running node processes
  Images,     \* key images: one per voter and election
  Candidates, \* candidate ids the manifest offers
  Times,      \* wall-clock readings (milliseconds); clocks are not in step
  Verifies    \* node -> the ballots its own manifest verifies

Ballot == [image : Images, cand : Candidates]

ASSUME ChainAssumption ==
  /\ Times \subseteq Nat
  /\ Verifies \in [Nodes -> SUBSET Ballot]

Content == [idx : Nat, ballot : Ballot, ts : Times]
Block == [idx : Nat, ballot : Ballot, ts : Times, prev : Seq(Content)]

\* The digest of a block: of its own fields and of its parent's digest.
Hash(b) == Append(b.prev, [idx |-> b.idx, ballot |-> b.ballot, ts |-> b.ts])

\* What a miner builds on: the digest and the index for the next block.
TipHash(c) == IF c = <<>> THEN <<>> ELSE Hash(c[Len(c)])

MineBlock(ballot, prev, idx, ts) ==
  [idx |-> idx, ballot |-> ballot, ts |-> ts, prev |-> prev]

\* The key images recorded on a chain, and the ballots counted from it.
ImagesOf(c) == {c[i].ballot.image : i \in DOMAIN c}
BallotsOf(c) == {c[i].ballot : i \in DOMAIN c}

\* Block::validate on node n, for blocks whose proof of work holds.
BlockValid(n, b) == b.ballot \in Verifies[n]

-----------------------------------------------------------------------------
(***************************************************************************)
(* Chain::validate: is a peer's chain to replace the current one?           *)
(* Longer, or as long with a later last block; then every block but the     *)
(* first must be linked, valid and carry a key image of its own among the   *)
(* blocks after the first.                                                  *)
(***************************************************************************)
\* Variant: only the clock of the last block decides.
PreferredByClock(new, cur) ==
  new # <<>> /\ (cur = <<>> \/ new[Len(new)].ts > cur[Len(cur)].ts)

Preferred(new, cur) ==
  \/ Len(new) > Len(cur)
  \/ /\ Len(new) = Len(cur)
     /\ new # <<>>
     /\ new[Len(new)].ts > cur[Len(cur)].ts

\* Variant: a gossiped block is linked and counted, not verified again.
ValidLinkTrusted(n, c, i) ==
  /\ c[i].prev = Hash(c[i - 1])
  /\ \A j \in 2 .. i - 1 : c[j].ballot.image # c[i].ballot.image

ValidLink(n, c, i) ==
  /\ c[i].prev = Hash(c[i - 1])
  /\ BlockValid(n, c[i])
  /\ \A j \in 2 .. i - 1 : c[j].ballot.image # c[i].ballot.image

ChainValid(n, new, cur) ==
  /\ Preferred(new, cur)
  /\ \A i \in 2 .. Len(new) : ValidLink(n, new, i)

-----------------------------------------------------------------------------
(***************************************************************************)
(* Chain::validate_addition: what becomes of a block this node mined.       *)
(***************************************************************************)
\* Variant: off by one, the next slot counts as taken too.
MinedLateOffByOne(c, b) == c # <<>> /\ b.idx <= c[Len(c)].idx + 1

\* The slot the block was mined for is taken, or its parent was replaced.
MinedLate(c, b) ==
  /\ c # <<>>
  /\ \/ b.idx <= c[Len(c)].idx
     \/ /\ b.idx = c[Len(c)].idx + 1
        /\ b.prev # Hash(c[Len(c)])

\* The block says it is the next one of this chain.
FitsChain(c, b) ==
  IF c = <<>> THEN b.idx = 0
  ELSE b.idx = c[Len(c)].idx + 1 /\ b.prev = Hash(c[Len(c)])

\* Variant: the key image was looked up before mining, that is enough.
ValidateAdditionUnseen(n, seenImages, c, b) ==
  IF MinedLate(c, b) THEN "AttemptedLateAdd"
  ELSE IF FitsChain(c, b) /\ BlockValid(n, b) THEN "AddBlock"
  ELSE "IgnoreBlock"

\* Variant: the tip is trusted to be the one the block was mined on.
ValidateAdditionUnlinked(n, seenImages, c, b) ==
  IF b.ballot.image \in seenImages THEN "IgnoreBlock"
  ELSE IF BlockValid(n, b) THEN "AddBlock"
  ELSE "IgnoreBlock"

ValidateAddition(n, seenImages, c, b) ==
  IF b.ballot.image \in seenImages THEN "IgnoreBlock"
  ELSE IF MinedLate(c, b) THEN "AttemptedLateAdd"
  ELSE IF FitsChain(c, b) /\ BlockValid(n, b) THEN "AddBlock"
  ELSE "IgnoreBlock"

-----------------------------------------------------------------------------
(***************************************************************************)
(* What a chain built only by these rules looks like.                       *)
(***************************************************************************)
\* One block per key image, the first block included.
OneBallotPerImage(c) ==
  \A i, j \in DOMAIN c : c[i].ballot.image = c[j].ballot.image => i = j

\* Every block names its position and closes the block before it.
Linked(c) ==
  \A i \in DOMAIN c :
    /\ c[i].idx = i - 1
    /\ c[i].prev = IF i = 1 THEN <<>> ELSE Hash(c[i - 1])
=============================================================================
