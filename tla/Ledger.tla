------------------------------- MODULE Ledger -------------------------------
(***************************************************************************)
(* The network of ledger nodes (blockchain/src): every node keeps a chain,  *)
(* the key images on it, a pool of ballots to mine, a mining loop and a     *)
(* tally cache; nodes hand each other ballots and whole chains.             *)
(*                                                                          *)
(* One action per critical section.  The code releases its mutexes between  *)
(* replacing the chain, refreshing the tally and pushing to the peers, and  *)
(* runs every incoming message and every HTTP request on a task of its own, *)
(* so those sections interleave in any order, also within one node.         *)
(***************************************************************************)
EXTENDS Chain

CONSTANTS
  Root,       \* the node that serves the HTTP API
  Peers,      \* node -> the peers it learned of during discovery
  NoJob,      \* no block is being mined
  MaxCasts,   \* bound: submissions to POST /ballot
  MaxFaults   \* bound: restarts, failed sends and lost messages together

Job == [ballot : Ballot, prev : Seq(Content), idx : Nat]

ASSUME LedgerAssumption ==
  /\ IsFiniteSet(Nodes)
  /\ Root \in Nodes
  /\ Peers \in [Nodes -> SUBSET Nodes]
  /\ NoJob \notin Job
  /\ MaxCasts \in Nat
  /\ MaxFaults \in Nat

VARIABLES
  chain,     \* App::chain
  seen,      \* App::seen_key_images
  pool,      \* App::mining_pool, last task on top
  miner,     \* where the mining loop stands: who holds App::mining_lock
  job,       \* the block being mined or just mined
  cache,     \* App::votes_cache, as the ballots it counts
  syncs,     \* sync_chain calls between their critical sections
  known,     \* App::known_peers
  peerHash,  \* KnownPeers::id_map: the chain a peer is thought to hold
  rejected,  \* App::rejected_ballots
  tasks,     \* add_mining_task calls to come, on this node
  pushes,    \* PushChainReq messages under way
  casts,     \* submissions so far
  faults     \* faults so far

nodeVars == <<chain, seen, pool, miner, job, cache, syncs, known, peerHash>>
vars == <<nodeVars, rejected, tasks, pushes, casts, faults>>

Busy == {"taken", "mining", "record", "push"}
MinerPc == Busy \cup {"idle", "loop", "drained"}
Push == [to : Nodes, from : Nodes, chain : Seq(Block), sent : SUBSET Nodes]
Sync == [stage : {"accepted", "counted"}, chain : Seq(Block), skip : SUBSET Nodes]

TypeOK ==
  /\ chain \in [Nodes -> Seq(Block)]
  /\ seen \in [Nodes -> SUBSET Images]
  /\ pool \in [Nodes -> Seq(Ballot)]
  /\ miner \in [Nodes -> MinerPc]
  /\ job \in [Nodes -> Job \cup {NoJob}]
  /\ \A n \in Nodes : job[n] = NoJob <=> miner[n] \notin Busy
  /\ cache \in [Nodes -> SUBSET Ballot]
  /\ syncs \in [Nodes -> SUBSET Sync]
  /\ known \in [Nodes -> SUBSET Nodes]
  /\ peerHash \in [Nodes -> [Nodes -> Seq(Block)]]
  /\ rejected \in [Nodes -> Nat]
  /\ tasks \in [Nodes -> SUBSET Ballot]
  /\ pushes \in SUBSET Push
  /\ casts \in Nat
  /\ faults \in Nat

Init ==
  /\ chain = [n \in Nodes |-> <<>>]
  /\ seen = [n \in Nodes |-> {}]
  /\ pool = [n \in Nodes |-> <<>>]
  /\ miner = [n \in Nodes |-> "idle"]
  /\ job = [n \in Nodes |-> NoJob]
  /\ cache = [n \in Nodes |-> {}]
  /\ syncs = [n \in Nodes |-> {}]
  /\ known = Peers
  /\ peerHash = [n \in Nodes |-> [p \in Nodes |-> <<>>]]
  /\ rejected = [n \in Nodes |-> 0]
  /\ tasks = [n \in Nodes |-> {}]
  /\ pushes = {}
  /\ casts = 0
  /\ faults = 0

-----------------------------------------------------------------------------
(***************************************************************************)
(* VoteCache.                                                               *)
(***************************************************************************)
Counted(votes) == {b.image : b \in votes}

\* Variant: every mined ballot is added to the tally.
RecordEveryVote(votes, ballot) == votes \cup {ballot}

\* VoteCache::record_vote: a key image counts once, for its first candidate.
RecordVote(votes, ballot) ==
  IF ballot.image \in Counted(votes) THEN votes ELSE votes \cup {ballot}

\* The cache sync_chain rebuilds, block by block, from the new chain.
CountChain(c) ==
  {c[i].ballot : i \in {k \in DOMAIN c :
     \A j \in 1 .. k - 1 : c[j].ballot.image # c[k].ballot.image}}

-----------------------------------------------------------------------------
(***************************************************************************)
(* Voting: the HTTP endpoint and the tasks it hands out.                    *)
(***************************************************************************)
\* ceil(0.4 * peers), at least one: how often cast_ballot hands the ballot on.
FanOut(peers) == IF peers = 0 THEN 0 ELSE (2 * peers + 4) \div 5

Refuse(n) == rejected' = [rejected EXCEPT ![n] = @ + 1]

\* cast_ballot on the root refuses: not verified, or the image already voted.
RefuseBallot(ballot) ==
  /\ casts < MaxCasts
  /\ \/ ballot \notin Verifies[Root]
     \/ ballot.image \in seen[Root]
  /\ casts' = casts + 1
  /\ Refuse(Root)
  /\ UNCHANGED <<nodeVars, tasks, pushes, faults>>

\* cast_ballot on the root accepts: the ballot goes to random peers, the same
\* one perhaps twice, then to its own add_mining_task. Every copy is tried
\* three times; a copy no try delivers is a fault.
CastBallot(ballot) ==
  /\ casts < MaxCasts
  /\ ballot \in Verifies[Root]
  /\ ballot.image \notin seen[Root]
  /\ casts' = casts + 1
  /\ \E reached \in SUBSET known[Root] :
       /\ Cardinality(reached) <= FanOut(Cardinality(known[Root]))
       /\ IF reached = {} /\ known[Root] # {}
          THEN faults < MaxFaults /\ faults' = faults + 1
          ELSE faults' = faults
       /\ tasks' = [n \in Nodes |->
            IF n \in reached \cup {Root} THEN tasks[n] \cup {ballot} ELSE tasks[n]]
  /\ UNCHANGED <<nodeVars, rejected, pushes>>

Queued(n, image) == \E i \in DOMAIN pool[n] : pool[n][i].image = image

\* add_mining_task: verify, ask the seen set, queue, and start the mining loop
\* unless some call already runs it.
AddMiningTask(n, ballot) ==
  /\ ballot \in tasks[n]
  /\ tasks' = [tasks EXCEPT ![n] = @ \ {ballot}]
  /\ IF ballot \notin Verifies[n] \/ ballot.image \in seen[n]
     THEN Refuse(n) /\ UNCHANGED <<pool, miner>>
     ELSE /\ UNCHANGED rejected
          /\ IF Queued(n, ballot.image)
             THEN UNCHANGED <<pool, miner>>
             ELSE /\ pool' = [pool EXCEPT ![n] = Append(@, ballot)]
                  /\ miner' = [miner EXCEPT ![n] = IF @ = "idle" THEN "loop" ELSE @]
  /\ UNCHANGED <<chain, seen, job, cache, syncs, known, peerHash, pushes, casts, faults>>

-----------------------------------------------------------------------------
(***************************************************************************)
(* The mining loop, drive_mining_pool.                                      *)
(***************************************************************************)
\* Take the newest task; drop it if its image is on the chain by now.
TakeTask(n) ==
  /\ miner[n] = "loop"
  /\ pool[n] # <<>>
  /\ LET top == Len(pool[n])
         ballot == pool[n][top]
     IN /\ pool' = [pool EXCEPT ![n] = SubSeq(@, 1, top - 1)]
        /\ IF ballot.image \in seen[n]
           THEN UNCHANGED <<miner, job>>
           ELSE /\ miner' = [miner EXCEPT ![n] = "taken"]
                /\ job' = [job EXCEPT ![n] = [ballot |-> ballot, prev |-> <<>>, idx |-> 0]]
  /\ UNCHANGED <<chain, seen, cache, syncs, known, peerHash, rejected, tasks, pushes,
                 casts, faults>>

\* Read the tip the block is to follow, and mine.
ReadTip(n) ==
  /\ miner[n] = "taken"
  /\ miner' = [miner EXCEPT ![n] = "mining"]
  /\ job' = [job EXCEPT ![n].prev = TipHash(chain[n]), ![n].idx = Len(chain[n])]
  /\ UNCHANGED <<chain, seen, pool, cache, syncs, known, peerHash, rejected, tasks, pushes,
                 casts, faults>>

\* The pool is empty: the loop ends, its guard still held.
FindPoolEmpty(n) ==
  /\ miner[n] = "loop"
  /\ pool[n] = <<>>
  /\ miner' = [miner EXCEPT ![n] = "drained"]
  /\ UNCHANGED <<chain, seen, pool, job, cache, syncs, known, peerHash, rejected, tasks,
                 pushes, casts, faults>>

\* drop(mining_guard).
ReleaseMiningLock(n) ==
  /\ miner[n] = "drained"
  /\ miner' = [miner EXCEPT ![n] = "idle"]
  /\ UNCHANGED <<chain, seen, pool, job, cache, syncs, known, peerHash, rejected, tasks,
                 pushes, casts, faults>>

\* mine_block has a block: add_block_to_chain's critical section on the chain
\* and the seen set, and the requeue when the block came too late.
AddBlockToChain(n) ==
  /\ miner[n] = "mining"
  /\ \E ts \in Times :
       LET block == MineBlock(job[n].ballot, job[n].prev, job[n].idx, ts)
           result == ValidateAddition(n, seen[n], chain[n], block)
       IN \/ /\ result = "AddBlock"
             /\ chain' = [chain EXCEPT ![n] = Append(@, block)]
             /\ seen' = [seen EXCEPT ![n] = @ \cup {block.ballot.image}]
             /\ miner' = [miner EXCEPT ![n] = "record"]
             /\ UNCHANGED <<pool, job>>
          \/ /\ result = "AttemptedLateAdd"
             /\ pool' = [pool EXCEPT ![n] = Append(@, block.ballot)]
             /\ miner' = [miner EXCEPT ![n] = "loop"]
             /\ job' = [job EXCEPT ![n] = NoJob]
             /\ UNCHANGED <<chain, seen>>
          \/ /\ result = "IgnoreBlock"
             /\ miner' = [miner EXCEPT ![n] = "loop"]
             /\ job' = [job EXCEPT ![n] = NoJob]
             /\ UNCHANGED <<chain, seen, pool>>
  /\ UNCHANGED <<cache, syncs, known, peerHash, rejected, tasks, pushes, casts, faults>>

\* add_block_to_chain goes on: the tally counts the ballot just added.
RecordMinedVote(n) ==
  /\ miner[n] = "record"
  /\ cache' = [cache EXCEPT ![n] = RecordVote(@, job[n].ballot)]
  /\ miner' = [miner EXCEPT ![n] = "push"]
  /\ UNCHANGED <<chain, seen, pool, job, syncs, known, peerHash, rejected, tasks, pushes,
                 casts, faults>>

-----------------------------------------------------------------------------
(***************************************************************************)
(* Gossip of whole chains.                                                  *)
(***************************************************************************)
\* push_chain_sync: the chain as it is now to every known peer not ignored;
\* a peer the send fails for is forgotten.
PushChainSync(n, ignore) ==
  LET targets == known[n] \ ignore
  IN \E failed \in SUBSET targets :
       /\ faults + Cardinality(failed) <= MaxFaults
       /\ faults' = faults + Cardinality(failed)
       /\ known' = [known EXCEPT ![n] = @ \ failed]
       /\ pushes' = pushes \cup
            {[to |-> p, from |-> n, chain |-> chain[n], sent |-> targets] :
               p \in targets \ failed}

\* Variant: the finished job is kept when the loop goes on.
PushMinedChainKeepsJob(n) ==
  /\ miner[n] = "push"
  /\ PushChainSync(n, {})
  /\ miner' = [miner EXCEPT ![n] = "loop"]
  /\ UNCHANGED <<chain, seen, pool, job, cache, syncs, peerHash, rejected, tasks, casts>>

\* add_block_to_chain ends: no peer can hold the new block, all are pushed to.
PushMinedChain(n) ==
  /\ miner[n] = "push"
  /\ PushChainSync(n, {})
  /\ miner' = [miner EXCEPT ![n] = "loop"]
  /\ job' = [job EXCEPT ![n] = NoJob]
  /\ UNCHANGED <<chain, seen, pool, cache, syncs, peerHash, rejected, tasks, casts>>

\* Variant: the images of the new chain are added to the old ones.
SyncChainExtendsSeen(n, msg) ==
  /\ msg \in pushes
  /\ msg.to = n
  /\ pushes' = pushes \ {msg}
  /\ IF ChainValid(n, msg.chain, chain[n])
     THEN /\ chain' = [chain EXCEPT ![n] = msg.chain]
          /\ seen' = [seen EXCEPT ![n] = @ \cup ImagesOf(msg.chain)]
          /\ syncs' = [syncs EXCEPT ![n] = @ \cup
               {[stage |-> "accepted", chain |-> msg.chain, skip |-> msg.sent]}]
     ELSE UNCHANGED <<chain, seen, syncs>>
  /\ UNCHANGED <<pool, miner, job, cache, known, peerHash, rejected, tasks, casts, faults>>

\* sync_chain's first section: a chain the rules prefer replaces this one and
\* its seen set. The new tally is built but not yet published.
SyncChain(n, msg) ==
  /\ msg \in pushes
  /\ msg.to = n
  /\ pushes' = pushes \ {msg}
  /\ IF ChainValid(n, msg.chain, chain[n])
     THEN /\ chain' = [chain EXCEPT ![n] = msg.chain]
          /\ seen' = [seen EXCEPT ![n] = ImagesOf(msg.chain)]
          /\ peerHash' = IF msg.from \in known[n]
                         THEN [peerHash EXCEPT ![n][msg.from] = msg.chain]
                         ELSE peerHash
          /\ syncs' = [syncs EXCEPT ![n] = @ \cup
               {[stage |-> "accepted", chain |-> msg.chain, skip |-> msg.sent]}]
     ELSE UNCHANGED <<chain, seen, peerHash, syncs>>
  /\ UNCHANGED <<pool, miner, job, cache, known, rejected, tasks, casts, faults>>

\* sync_chain goes on: the rebuilt tally replaces the cache.
PublishCache(n, call) ==
  /\ call \in syncs[n]
  /\ call.stage = "accepted"
  /\ cache' = [cache EXCEPT ![n] = CountChain(call.chain)]
  /\ syncs' = [syncs EXCEPT ![n] = (@ \ {call}) \cup {[call EXCEPT !.stage = "counted"]}]
  /\ UNCHANGED <<chain, seen, pool, miner, job, known, peerHash, rejected, tasks, pushes,
                 casts, faults>>

\* Variant: an accepted chain goes no further than the node it was sent to.
PushAcceptedChainNowhere(n, call) ==
  /\ call \in syncs[n]
  /\ call.stage = "counted"
  /\ syncs' = [syncs EXCEPT ![n] = @ \ {call}]
  /\ PushChainSync(n, Nodes)
  /\ UNCHANGED <<chain, seen, pool, miner, job, cache, peerHash, rejected, tasks, casts>>

\* sync_chain ends: pass the chain on to the peers not thought to hold it.
PushAcceptedChain(n, call) ==
  /\ call \in syncs[n]
  /\ call.stage = "counted"
  /\ syncs' = [syncs EXCEPT ![n] = @ \ {call}]
  /\ peerHash' = [peerHash EXCEPT ![n] = [p \in Nodes |->
                    IF p \in known[n] THEN call.chain ELSE @[p]]]
  /\ PushChainSync(n, call.skip \cup {p \in known[n] : peerHash[n][p] = call.chain})
  /\ UNCHANGED <<chain, seen, pool, miner, job, cache, rejected, tasks, casts>>

-----------------------------------------------------------------------------
(***************************************************************************)
(* Faults.                                                                  *)
(***************************************************************************)
\* A PushChainReq the sender wrote in part, or that the reader's 1024-byte
\* framing cut short: it does not deserialize and is dropped.
LosePush(msg) ==
  /\ faults < MaxFaults
  /\ msg \in pushes
  /\ pushes' = pushes \ {msg}
  /\ faults' = faults + 1
  /\ UNCHANGED <<nodeVars, rejected, tasks, casts>>

\* The same for a DistributeMiningTask on its way to another node.
LoseTask(n, ballot) ==
  /\ faults < MaxFaults
  /\ n # Root
  /\ ballot \in tasks[n]
  /\ tasks' = [tasks EXCEPT ![n] = @ \ {ballot}]
  /\ faults' = faults + 1
  /\ UNCHANGED <<nodeVars, rejected, pushes, casts>>

\* Whom each node knows once n is up again, on another port: a joiner asks
\* the root, which spreads the new address; nobody looks for a new root.
KnownAfterRestart(n) ==
  [m \in Nodes |->
    IF n = Root THEN IF m = n THEN {} ELSE known[m] \ {n}
    ELSE IF m = n THEN (known[Root] \cup {Root}) \ {n}
    ELSE IF m \in known[Root] \cup {Root} THEN known[m] \cup {n}
    ELSE known[m] \ {n}]

\* main: a node always starts from an empty chain; the chain file is never
\* read back. Calls to its old address are gone.
Restart(n) ==
  /\ faults < MaxFaults
  /\ faults' = faults + 1
  /\ chain' = [chain EXCEPT ![n] = <<>>]
  /\ seen' = [seen EXCEPT ![n] = {}]
  /\ pool' = [pool EXCEPT ![n] = <<>>]
  /\ miner' = [miner EXCEPT ![n] = "idle"]
  /\ job' = [job EXCEPT ![n] = NoJob]
  /\ cache' = [cache EXCEPT ![n] = {}]
  /\ syncs' = [syncs EXCEPT ![n] = {}]
  /\ rejected' = [rejected EXCEPT ![n] = 0]
  /\ tasks' = [tasks EXCEPT ![n] = {}]
  /\ pushes' = {m \in pushes : m.to # n}
  /\ known' = KnownAfterRestart(n)
  /\ peerHash' = [m \in Nodes |-> IF m = n THEN [p \in Nodes |-> <<>>]
                                  ELSE [peerHash[m] EXCEPT ![n] = <<>>]]
  /\ UNCHANGED casts

-----------------------------------------------------------------------------
\* What the nodes do of themselves: every task the runtime polls, every message.
MinerStep(n) ==
  \/ TakeTask(n)
  \/ ReadTip(n)
  \/ FindPoolEmpty(n)
  \/ ReleaseMiningLock(n)
  \/ AddBlockToChain(n)
  \/ RecordMinedVote(n)
  \/ PushMinedChain(n)

Work ==
  \/ \E n \in Nodes : MinerStep(n)
  \/ \E n \in Nodes : \E ballot \in tasks[n] : AddMiningTask(n, ballot)
  \/ \E msg \in pushes : SyncChain(msg.to, msg)
  \/ \E n \in Nodes : \E call \in syncs[n] : PublishCache(n, call)
  \/ \E n \in Nodes : \E call \in syncs[n] : PushAcceptedChain(n, call)

\* What comes from outside: submissions and faults.
Environment ==
  \/ \E ballot \in Ballot : RefuseBallot(ballot)
  \/ \E ballot \in Ballot : CastBallot(ballot)
  \/ \E msg \in pushes : LosePush(msg)
  \/ \E n \in Nodes : \E ballot \in tasks[n] : LoseTask(n, ballot)
  \/ \E n \in Nodes : Restart(n)

Next == Work \/ Environment

Spec == Init /\ [][Next]_vars

\* The runtime does not stop while one of its tasks can go on.
FairSpec == Spec /\ WF_vars(Work)
=============================================================================
