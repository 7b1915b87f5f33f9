-------------------------- MODULE LedgerProperties --------------------------
(***************************************************************************)
(* What the ledger network is checked for.                                  *)
(***************************************************************************)
EXTENDS Ledger

\* One voter, one block: however pools, mined blocks and adopted chains
\* interleave, no chain ever records a key image twice, the first block (which
\* Chain::validate skips) included.
NoDoubleVote == \A n \in Nodes : OneBallotPerImage(chain[n])

\* The set a node answers has_voted from is the set of images on its chain,
\* also between a replacement of the chain and the rebuild of the tally.
SeenMatchesChain == \A n \in Nodes : seen[n] = ImagesOf(chain[n])

\* A block mined on a tip that was replaced in the meantime never joins the
\* chain: every chain stays a hash chain from its first block on.
ChainsLinked == \A n \in Nodes : Linked(chain[n])

\* A tally never counts a key image for two candidates, whichever of the
\* mined-block and the rebuilt-chain updates comes last.
CacheCountsOnce ==
  \A n \in Nodes : \A v, w \in cache[n] : v.image = w.image => v = w

\* From its second block on, a chain holds only ballots this node's own
\* manifest verifies, also when its peers loaded another manifest.
NonGenesisVerified ==
  \A n \in Nodes : \A i \in 2 .. Len(chain[n]) : chain[n][i].ballot \in Verifies[n]

-----------------------------------------------------------------------------
\* Nothing is under way: no message, no queued or mined ballot, no half-done call.
AtRest ==
  /\ pushes = {}
  /\ \A n \in Nodes : /\ tasks[n] = {}
                      /\ pool[n] = <<>>
                      /\ miner[n] = "idle"
                      /\ syncs[n] = {}

\* Neither chain would replace the other.
SameHeight(c, d) == ~Preferred(c, d) /\ ~Preferred(d, c)

\* The relay reaches everyone: once all is quiet and nothing was lost, nodes
\* that loaded the same manifest hold chains none of which would replace
\* another, also nodes that are not each other's peers.
AgreeAtRest ==
  AtRest /\ faults = 0 =>
    \A m, n \in Nodes : Verifies[m] = Verifies[n] => SameHeight(chain[m], chain[n])

\* Two nodes that loaded the same manifest.
Alike(m, n) == Verifies[m] = Verifies[n]

\* The networks AgreeAtRest speaks of: from peer to peer a chain reaches every
\* node of its manifest by way of such nodes only. Discovery gives more than
\* that: a joiner and the nodes the root knows are told of each other.
RelayConnected ==
  \A n \in Nodes :
    LET group == {m \in Nodes : Alike(m, n)}
    IN \A S \in SUBSET group :
         n \in S /\ (\A m \in S : Peers[m] \cap group \subseteq S) => S = group

\* "Rebuilt whenever the chain changes" (vote_cache.rs): once all is quiet, a
\* node's tally counts the ballots of its chain.
TallyMatchesAtRest == AtRest => \A n \in Nodes : cache[n] = BallotsOf(chain[n])

\* "task left in pool for that run to pick up" (drive_mining_pool): while no
\* run drains the pool, no ballot waits in it.
IdleMeansDrained == \A n \in Nodes : miner[n] = "idle" => pool[n] = <<>>

\* Mining retries and gossip come to an end: after the last submission there is
\* a time from which no node mines, requeues, relays or rebuilds any more.
Settles ==
  <>[](pushes = {} /\ \A n \in Nodes : miner[n] = "idle" /\ syncs[n] = {})

-----------------------------------------------------------------------------
Box == INSTANCE BallotBox WITH box <- [n \in Nodes |-> BallotsOf(chain[n])]

\* Seen from its ballots alone, a node counts one new ballot at a time, takes
\* over a legal box at least as full as its own, or loses all in a restart.
BoxSpec == Box!Spec
=============================================================================
