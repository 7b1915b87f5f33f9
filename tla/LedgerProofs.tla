---------------------------- MODULE LedgerProofs ----------------------------
(***************************************************************************)
(* What the chain rules return and preserve, and on that ground the        *)
(* ledger's safety properties, proved for every network, manifest, number  *)
(* of submissions and number of faults.                                    *)
(***************************************************************************)
EXTENDS LedgerProperties, SequenceTheorems, FiniteSetTheorems, TLAPS

-----------------------------------------------------------------------------
(***************************************************************************)
(* What the rules of Chain.tla return and preserve, for every chain.        *)
(***************************************************************************)
\* A chain as these rules build it.
Good(c) == OneBallotPerImage(c) /\ Linked(c)

\* The digest of a block is a list of contents.
LEMMA HashType ==
  ASSUME NEW b \in Block
  PROVE  Hash(b) \in Seq(Content)
<1>1. /\ b.prev \in Seq(Content)
      /\ [idx |-> b.idx, ballot |-> b.ballot, ts |-> b.ts] \in Content
  BY DEF Block, Content
<1>2. QED BY <1>1 DEF Hash

\* What a miner builds on is a digest.
LEMMA TipHashType ==
  ASSUME NEW c \in Seq(Block)
  PROVE  TipHash(c) \in Seq(Content)
<1>1. CASE c = <<>> BY <1>1 DEF TipHash
<1>2. CASE c # <<>>
  <2>1. c[Len(c)] \in Block
    BY <1>2
  <2>2. QED BY <2>1, <1>2, HashType DEF TipHash
<1>3. QED BY <1>1, <1>2

\* The block mine_block returns has the parts it was given.
LEMMA MineBlockType ==
  ASSUME NEW ballot \in Ballot, NEW prev \in Seq(Content), NEW idx \in Nat,
         NEW ts \in Times
  PROVE  MineBlock(ballot, prev, idx, ts) \in Block
BY DEF MineBlock, Block

\* The images on a chain are images.
LEMMA ImagesOfType ==
  ASSUME NEW c \in Seq(Block)
  PROVE  /\ ImagesOf(c) \subseteq Images
         /\ BallotsOf(c) \subseteq Ballot
<1>1. \A i \in DOMAIN c : c[i] \in Block
  OBVIOUS
<1>2. \A i \in DOMAIN c : c[i].ballot \in Ballot /\ c[i].ballot.image \in Images
  BY <1>1 DEF Block, Ballot
<1>3. QED BY <1>2 DEF ImagesOf, BallotsOf

\* A block that fits adds its own image and ballot to the chain's.
LEMMA AppendImages ==
  ASSUME NEW c \in Seq(Block), NEW b \in Block
  PROVE  /\ ImagesOf(Append(c, b)) = ImagesOf(c) \cup {b.ballot.image}
         /\ BallotsOf(Append(c, b)) = BallotsOf(c) \cup {b.ballot}
<1> DEFINE d == Append(c, b)
<1>1. /\ DOMAIN d = DOMAIN c \cup {Len(c) + 1}
      /\ \A i \in DOMAIN c : d[i] = c[i]
      /\ d[Len(c) + 1] = b
  OBVIOUS
<1>2. ImagesOf(d) = ImagesOf(c) \cup {b.ballot.image}
  BY <1>1 DEF ImagesOf
<1>3. BallotsOf(d) = BallotsOf(c) \cup {b.ballot}
  BY <1>1 DEF BallotsOf
<1>4. QED BY <1>2, <1>3

\* validate_addition keeps a good chain good: the image is new, the block
\* names its place and closes the last block. On an empty chain the code does
\* not look at the parent, so the caller owes that it is none.
LEMMA AppendGood ==
  ASSUME NEW c \in Seq(Block), NEW b \in Block, Good(c),
         b.ballot.image \notin ImagesOf(c), FitsChain(c, b),
         c = <<>> => b.prev = <<>>
  PROVE  Good(Append(c, b))
<1> DEFINE d == Append(c, b)
<1>1. /\ Len(c) \in Nat
      /\ DOMAIN c = 1 .. Len(c)
      /\ DOMAIN d = 1 .. Len(c) + 1
      /\ \A i \in 1 .. Len(c) : d[i] = c[i]
      /\ d[Len(c) + 1] = b
  OBVIOUS
<1>2. OneBallotPerImage(d)
  <2>1. \A i \in 1 .. Len(c) : d[i].ballot.image # b.ballot.image
    BY <1>1 DEF ImagesOf
  <2>2. \A i, j \in 1 .. Len(c) : d[i].ballot.image = d[j].ballot.image => i = j
    BY <1>1 DEF Good, OneBallotPerImage
  <2>3. QED BY <1>1, <2>1, <2>2 DEF OneBallotPerImage
<1>3. Linked(d)
  <2> SUFFICES ASSUME NEW i \in 1 .. Len(c) + 1
               PROVE  /\ d[i].idx = i - 1
                      /\ d[i].prev = IF i = 1 THEN <<>> ELSE Hash(d[i - 1])
    BY <1>1 DEF Linked
  <2>1. CASE i \in 1 .. Len(c)
    <3>1. /\ c[i].idx = i - 1
          /\ c[i].prev = IF i = 1 THEN <<>> ELSE Hash(c[i - 1])
      BY <1>1, <2>1 DEF Good, Linked
    <3>2. i # 1 => d[i - 1] = c[i - 1]
      BY <1>1, <2>1
    <3>3. QED BY <1>1, <2>1, <3>1, <3>2
  <2>2. CASE i = Len(c) + 1 /\ c = <<>>
    BY <1>1, <2>2 DEF FitsChain
  <2>3. CASE i = Len(c) + 1 /\ c # <<>>
    <3>1. Len(c) \in DOMAIN c /\ i # 1 /\ i - 1 = Len(c)
      BY <1>1, <2>3
    <3>2. c[Len(c)].idx = Len(c) - 1
      BY <3>1 DEF Good, Linked
    <3>3. b.idx = c[Len(c)].idx + 1 /\ b.prev = Hash(c[Len(c)])
      BY <2>3 DEF FitsChain
    <3>4. QED BY <1>1, <2>3, <3>1, <3>2, <3>3
  <2>4. QED BY <2>1, <2>2, <2>3
<1>4. QED BY <1>2, <1>3 DEF Good

\* A chain with one block per image holds as many ballots as blocks.
LEMMA OneBallotPerBlock ==
  ASSUME NEW c \in Seq(Block), OneBallotPerImage(c)
  PROVE  /\ IsFiniteSet(BallotsOf(c))
         /\ Cardinality(BallotsOf(c)) = Len(c)
<1> DEFINE f == [i \in 1 .. Len(c) |-> c[i].ballot]
<1>1. Len(c) \in Nat /\ DOMAIN c = 1 .. Len(c)
  OBVIOUS
<1>2. f \in Bijection(1 .. Len(c), BallotsOf(c))
  <2>1. f \in [1 .. Len(c) -> BallotsOf(c)]
    BY <1>1 DEF BallotsOf
  <2>2. \A i, j \in 1 .. Len(c) : f[i] = f[j] => i = j
    BY <1>1 DEF OneBallotPerImage
  <2>3. \A v \in BallotsOf(c) : \E i \in 1 .. Len(c) : f[i] = v
    BY <1>1 DEF BallotsOf
  <2>4. QED BY <2>1, <2>2, <2>3
            DEF Bijection, Injection, Surjection, IsInjective
<1>3. ExistsBijection(1 .. Len(c), BallotsOf(c))
  BY <1>2 DEF ExistsBijection
<1>4. IsFiniteSet(1 .. Len(c)) /\ Cardinality(1 .. Len(c)) = Len(c)
  BY <1>1, FS_Interval
<1>5. QED BY <1>3, <1>4, FS_Bijection

\* A chain that is to replace another is no shorter.
LEMMA PreferredIsLonger ==
  ASSUME NEW c \in Seq(Block), NEW d \in Seq(Block), Preferred(d, c)
  PROVE  Len(d) >= Len(c) /\ d # <<>>
BY DEF Preferred

-----------------------------------------------------------------------------
(***************************************************************************)
(* Types.                                                                   *)
(***************************************************************************)
\* Pushing a chain leaves messages, peers and the fault count well typed.
LEMMA PushChainSyncType ==
  ASSUME TypeOK, NEW n \in Nodes, NEW ignore, PushChainSync(n, ignore)
  PROVE  /\ faults' \in Nat
         /\ known' \in [Nodes -> SUBSET Nodes]
         /\ pushes' \in SUBSET Push
<1> DEFINE targets == known[n] \ ignore
<1>1. PICK failed \in SUBSET targets :
        /\ faults' = faults + Cardinality(failed)
        /\ known' = [known EXCEPT ![n] = @ \ failed]
        /\ pushes' = pushes \cup
             {[to |-> p, from |-> n, chain |-> chain[n], sent |-> targets] :
                p \in targets \ failed}
  BY DEF PushChainSync
<1>2. targets \subseteq Nodes /\ failed \subseteq Nodes
  BY DEF TypeOK
<1>3. Cardinality(failed) \in Nat
  BY <1>2, LedgerAssumption, FS_Subset, FS_CardinalityType
<1>4. \A p \in targets : [to |-> p, from |-> n, chain |-> chain[n], sent |-> targets] \in Push
  BY <1>2 DEF TypeOK, Push
<1>5. QED BY <1>1, <1>2, <1>3, <1>4 DEF TypeOK

\* A tally stays a set of ballots.
LEMMA TallyType ==
  /\ \A votes \in SUBSET Ballot : \A ballot \in Ballot :
       RecordVote(votes, ballot) \in SUBSET Ballot
  /\ \A c \in Seq(Block) : CountChain(c) \in SUBSET Ballot
<1>1. ASSUME NEW c \in Seq(Block)
      PROVE  CountChain(c) \subseteq BallotsOf(c)
  BY DEF CountChain, BallotsOf
<1>2. QED BY <1>1, ImagesOfType DEF RecordVote

\* Nodes start empty, with the peers they discovered.
LEMMA InitType == Init => TypeOK
BY LedgerAssumption DEF Init, TypeOK, MinerPc, Busy

\* A refused ballot only counts.
LEMMA RefuseBallotType ==
  ASSUME TypeOK, NEW ballot \in Ballot, RefuseBallot(ballot)
  PROVE  TypeOK'
BY LedgerAssumption DEF RefuseBallot, Refuse, nodeVars, TypeOK

\* A ballot that is cast becomes a task of nodes.
LEMMA CastBallotType ==
  ASSUME TypeOK, NEW ballot \in Ballot, CastBallot(ballot)
  PROVE  TypeOK'
<1>1. PICK reached \in SUBSET known[Root] :
        tasks' = [n \in Nodes |->
          IF n \in reached \cup {Root} THEN tasks[n] \cup {ballot} ELSE tasks[n]]
  BY DEF CastBallot
<1>2. tasks' \in [Nodes -> SUBSET Ballot]
  BY <1>1 DEF TypeOK
<1>3. casts' \in Nat /\ faults' \in Nat
  BY DEF CastBallot, TypeOK
<1>4. QED BY <1>2, <1>3 DEF CastBallot, nodeVars, TypeOK

\* A task leaves well-typed pools and miners behind, and no job changes.
LEMMA AddMiningTaskType ==
  ASSUME TypeOK, NEW n \in Nodes, NEW ballot \in tasks[n], AddMiningTask(n, ballot)
  PROVE  TypeOK'
<1>1. ballot \in Ballot
  BY DEF TypeOK
<1>2. /\ rejected' \in [Nodes -> Nat]
      /\ tasks' \in [Nodes -> SUBSET Ballot]
  <2>1. /\ tasks' = [tasks EXCEPT ![n] = @ \ {ballot}]
        /\ rejected' = rejected \/ rejected' = [rejected EXCEPT ![n] = @ + 1]
    BY DEF AddMiningTask, Refuse
  <2>2. tasks' \in [Nodes -> SUBSET Ballot]
    BY <2>1 DEF TypeOK
  <2>3. rejected' \in [Nodes -> Nat]
    <3>1. rejected \in [Nodes -> Nat] /\ rejected[n] + 1 \in Nat
      BY DEF TypeOK
    <3>2. QED BY <2>1, <3>1
  <2>4. QED BY <2>2, <2>3
<1>3. pool' \in [Nodes -> Seq(Ballot)]
  <2>1. Append(pool[n], ballot) \in Seq(Ballot)
    BY <1>1 DEF TypeOK
  <2>2. pool' \in {pool, [pool EXCEPT ![n] = Append(@, ballot)]}
    BY DEF AddMiningTask
  <2>3. QED BY <2>1, <2>2 DEF TypeOK
<1>4. /\ miner' \in [Nodes -> MinerPc]
      /\ \A m \in Nodes : job[m] = NoJob <=> miner'[m] \notin Busy
  BY DEF AddMiningTask, TypeOK, MinerPc, Busy
<1>5. QED BY <1>2, <1>3, <1>4 DEF AddMiningTask, TypeOK

\* The mining loop keeps its job exactly as long as it is busy.
LEMMA MinerStepType ==
  ASSUME TypeOK, NEW n \in Nodes, MinerStep(n)
  PROVE  TypeOK'
<1>1. CASE TakeTask(n)
  <2> DEFINE top == Len(pool[n])
             ballot == pool[n][top]
             fresh == [ballot |-> ballot, prev |-> <<>>, idx |-> 0]
  <2>1. pool[n] \in Seq(Ballot) /\ pool[n] # <<>>
    BY <1>1 DEF TakeTask, TypeOK
  <2>2. top \in Nat \ {0} /\ ballot \in Ballot
    BY <2>1
  <2>3. SubSeq(pool[n], 1, top - 1) \in Seq(Ballot)
    BY <2>1, <2>2
  <2>4. fresh \in Job
    BY <2>2 DEF Job
  <2>5. /\ pool' = [pool EXCEPT ![n] = SubSeq(@, 1, top - 1)]
        /\ \/ UNCHANGED <<miner, job>>
           \/ /\ miner' = [miner EXCEPT ![n] = "taken"]
              /\ job' = [job EXCEPT ![n] = fresh]
    BY <1>1 DEF TakeTask
  <2>6. pool' \in [Nodes -> Seq(Ballot)]
    BY <2>3, <2>5 DEF TypeOK
  <2> HIDE DEF fresh
  <2>7. fresh # NoJob
    BY <2>4, LedgerAssumption
  <2>8. /\ miner' \in [Nodes -> MinerPc]
        /\ job' \in [Nodes -> Job \cup {NoJob}]
        /\ \A m \in Nodes : job'[m] = NoJob <=> miner'[m] \notin Busy
    BY <2>4, <2>5, <2>7 DEF TypeOK, MinerPc, Busy
  <2>9. QED BY <1>1, <2>6, <2>8 DEF TakeTask, TypeOK
<1>2. CASE ReadTip(n)
  <2>1. job[n] \in Job
    BY <1>2 DEF ReadTip, TypeOK, Busy
  <2>2. Len(chain[n]) \in Nat /\ TipHash(chain[n]) \in Seq(Content)
    BY TipHashType DEF TypeOK
  <2>3. [job[n] EXCEPT !.prev = TipHash(chain[n]), !.idx = Len(chain[n])] \in Job
    BY <2>1, <2>2 DEF Job
  <2>4. job' = [job EXCEPT ![n] =
                  [job[n] EXCEPT !.prev = TipHash(chain[n]), !.idx = Len(chain[n])]]
    BY <1>2 DEF ReadTip, TypeOK
  <2>5. /\ job' \in [Nodes -> Job \cup {NoJob}]
        /\ job'[n] # NoJob
        /\ \A m \in Nodes \ {n} : job'[m] = job[m]
    BY <2>3, <2>4, LedgerAssumption DEF TypeOK
  <2>6. QED BY <1>2, <2>5 DEF ReadTip, TypeOK, MinerPc, Busy
<1>3. CASE FindPoolEmpty(n)
  BY <1>3 DEF FindPoolEmpty, TypeOK, MinerPc, Busy
<1>4. CASE ReleaseMiningLock(n)
  BY <1>4 DEF ReleaseMiningLock, TypeOK, MinerPc, Busy
<1>5. CASE AddBlockToChain(n)
  <2>1. job[n] \in Job
    BY <1>5 DEF AddBlockToChain, TypeOK, Busy
  <2>2. PICK ts \in Times :
          LET block == MineBlock(job[n].ballot, job[n].prev, job[n].idx, ts)
          IN \/ /\ chain' = [chain EXCEPT ![n] = Append(@, block)]
                /\ seen' = [seen EXCEPT ![n] = @ \cup {block.ballot.image}]
                /\ miner' = [miner EXCEPT ![n] = "record"]
                /\ UNCHANGED <<pool, job>>
             \/ /\ pool' = [pool EXCEPT ![n] = Append(@, block.ballot)]
                /\ miner' = [miner EXCEPT ![n] = "loop"]
                /\ job' = [job EXCEPT ![n] = NoJob]
                /\ UNCHANGED <<chain, seen>>
             \/ /\ miner' = [miner EXCEPT ![n] = "loop"]
                /\ job' = [job EXCEPT ![n] = NoJob]
                /\ UNCHANGED <<chain, seen, pool>>
    BY <1>5 DEF AddBlockToChain
  <2> DEFINE block == MineBlock(job[n].ballot, job[n].prev, job[n].idx, ts)
  <2>3. block \in Block /\ block.ballot \in Ballot /\ block.ballot.image \in Images
    BY <2>1, MineBlockType DEF Job, Block, Ballot
  <2> HIDE DEF block
  <2>4. /\ Append(chain[n], block) \in Seq(Block)
        /\ Append(pool[n], block.ballot) \in Seq(Ballot)
    BY <2>3 DEF TypeOK
  <2>5. /\ chain' = chain \/ chain' = [chain EXCEPT ![n] = Append(@, block)]
        /\ seen' = seen \/ seen' = [seen EXCEPT ![n] = @ \cup {block.ballot.image}]
        /\ pool' = pool \/ pool' = [pool EXCEPT ![n] = Append(@, block.ballot)]
    BY <2>2 DEF block
  <2>6. /\ miner' \in [Nodes -> MinerPc]
        /\ job' \in [Nodes -> Job \cup {NoJob}]
        /\ \A m \in Nodes : job'[m] = NoJob <=> miner'[m] \notin Busy
    BY <1>5, <2>2 DEF AddBlockToChain, TypeOK, MinerPc, Busy
  <2>7. chain' \in [Nodes -> Seq(Block)]
    BY <2>4, <2>5 DEF TypeOK
  <2>8. seen' \in [Nodes -> SUBSET Images]
    <3>1. seen[n] \cup {block.ballot.image} \in SUBSET Images
      BY <2>3 DEF TypeOK
    <3>2. QED BY <2>5, <3>1 DEF TypeOK
  <2>9. pool' \in [Nodes -> Seq(Ballot)]
    BY <2>4, <2>5 DEF TypeOK
  <2>10. QED BY <1>5, <2>6, <2>7, <2>8, <2>9 DEF AddBlockToChain, TypeOK
<1>6. CASE RecordMinedVote(n)
  <2>1. job[n].ballot \in Ballot
    BY <1>6 DEF RecordMinedVote, TypeOK, Busy, Job
  <2>2. cache' \in [Nodes -> SUBSET Ballot]
    BY <1>6, <2>1, TallyType DEF RecordMinedVote, TypeOK
  <2>3. QED BY <1>6, <2>2 DEF RecordMinedVote, TypeOK, MinerPc, Busy
<1>7. CASE PushMinedChain(n)
  <2>1. /\ faults' \in Nat
        /\ known' \in [Nodes -> SUBSET Nodes]
        /\ pushes' \in SUBSET Push
    BY <1>7, PushChainSyncType DEF PushMinedChain
  <2>2. QED BY <1>7, <2>1 DEF PushMinedChain, TypeOK, MinerPc, Busy
<1>8. QED BY <1>1, <1>2, <1>3, <1>4, <1>5, <1>6, <1>7 DEF MinerStep

\* A call of sync_chain that has accepted a chain is a sync record.
LEMMA SyncType ==
  /\ \A c \in Seq(Block) : \A skip \in SUBSET Nodes :
       [stage |-> "accepted", chain |-> c, skip |-> skip] \in Sync
  /\ \A call \in Sync :
       /\ [call EXCEPT !.stage = "counted"] \in Sync
       /\ call.chain \in Seq(Block)
BY DEF Sync

\* Adopting or refusing a pushed chain is well typed.
LEMMA SyncChainType ==
  ASSUME TypeOK, NEW n \in Nodes, NEW msg \in pushes, SyncChain(n, msg)
  PROVE  TypeOK'
<1>1. /\ msg.from \in Nodes
      /\ msg.chain \in Seq(Block)
      /\ msg.sent \in SUBSET Nodes
  BY DEF TypeOK, Push
<1>2. ImagesOf(msg.chain) \in SUBSET Images
  BY <1>1, ImagesOfType
<1>3. pushes' \in SUBSET Push
  BY DEF SyncChain, TypeOK
<1>4. UNCHANGED <<pool, miner, job, cache, known, rejected, tasks, casts, faults>>
  BY DEF SyncChain
<1>5. CASE ChainValid(n, msg.chain, chain[n])
  <2> DEFINE call == [stage |-> "accepted", chain |-> msg.chain, skip |-> msg.sent]
  <2>1. call \in Sync
    BY <1>1, SyncType
  <2> HIDE DEF call
  <2>2. /\ chain' = [chain EXCEPT ![n] = msg.chain]
        /\ seen' = [seen EXCEPT ![n] = ImagesOf(msg.chain)]
        /\ peerHash' \in {peerHash, [peerHash EXCEPT ![n][msg.from] = msg.chain]}
        /\ syncs' = [syncs EXCEPT ![n] = @ \cup {call}]
    BY <1>5 DEF SyncChain, call
  <2>3. /\ chain' \in [Nodes -> Seq(Block)]
        /\ seen' \in [Nodes -> SUBSET Images]
    BY <1>1, <1>2, <2>2 DEF TypeOK
  <2>4. syncs' \in [Nodes -> SUBSET Sync]
    BY <2>1, <2>2 DEF TypeOK
  <2>5. [peerHash EXCEPT ![n][msg.from] = msg.chain] \in [Nodes -> [Nodes -> Seq(Block)]]
    BY <1>1 DEF TypeOK
  <2>6. peerHash' \in [Nodes -> [Nodes -> Seq(Block)]]
    BY <2>2, <2>5 DEF TypeOK
  <2>7. QED BY <1>3, <1>4, <2>3, <2>4, <2>6 DEF TypeOK
<1>6. CASE ~ChainValid(n, msg.chain, chain[n])
  <2>1. UNCHANGED <<chain, seen, peerHash, syncs>>
    BY <1>6 DEF SyncChain
  <2>2. QED BY <1>3, <1>4, <2>1 DEF TypeOK
<1>7. QED BY <1>5, <1>6

\* Publishing the rebuilt tally is well typed.
LEMMA PublishCacheType ==
  ASSUME TypeOK, NEW n \in Nodes, NEW call \in syncs[n], PublishCache(n, call)
  PROVE  TypeOK'
<1>1. call \in Sync
  BY DEF TypeOK
<1>2. CountChain(call.chain) \in SUBSET Ballot
  BY <1>1, SyncType, TallyType
<1>3. cache' \in [Nodes -> SUBSET Ballot]
  BY <1>2 DEF PublishCache, TypeOK
<1>4. syncs' \in [Nodes -> SUBSET Sync]
  BY <1>1, SyncType DEF PublishCache, TypeOK
<1>5. QED BY <1>3, <1>4 DEF PublishCache, TypeOK

\* Passing an accepted chain on is well typed.
LEMMA PushAcceptedChainType ==
  ASSUME TypeOK, NEW n \in Nodes, NEW call \in syncs[n], PushAcceptedChain(n, call)
  PROVE  TypeOK'
<1>1. call \in Sync /\ call.chain \in Seq(Block)
  BY SyncType DEF TypeOK
<1>2. /\ faults' \in Nat
      /\ known' \in [Nodes -> SUBSET Nodes]
      /\ pushes' \in SUBSET Push
  BY PushChainSyncType DEF PushAcceptedChain
<1>3. peerHash' \in [Nodes -> [Nodes -> Seq(Block)]]
  BY <1>1 DEF PushAcceptedChain, TypeOK
<1>4. syncs' \in [Nodes -> SUBSET Sync]
  BY DEF PushAcceptedChain, TypeOK
<1>5. QED BY <1>2, <1>3, <1>4 DEF PushAcceptedChain, TypeOK

\* Losing a message changes nothing but the messages and the fault count.
LEMMA LossType ==
  ASSUME TypeOK,
         \/ \E msg \in pushes : LosePush(msg)
         \/ \E n \in Nodes : \E ballot \in tasks[n] : LoseTask(n, ballot)
  PROVE  TypeOK'
<1>1. CASE \E msg \in pushes : LosePush(msg)
  BY <1>1 DEF LosePush, nodeVars, TypeOK
<1>2. CASE \E n \in Nodes : \E ballot \in tasks[n] : LoseTask(n, ballot)
  BY <1>2 DEF LoseTask, nodeVars, TypeOK
<1>3. QED BY <1>1, <1>2

\* A restarted node is well typed, and so are the others' views of it.
LEMMA RestartType ==
  ASSUME TypeOK, NEW n \in Nodes, Restart(n)
  PROVE  TypeOK'
<1>1. known' \in [Nodes -> SUBSET Nodes]
  BY LedgerAssumption DEF Restart, KnownAfterRestart, TypeOK
<1>2. peerHash' \in [Nodes -> [Nodes -> Seq(Block)]]
  BY DEF Restart, TypeOK
<1>3. /\ chain' \in [Nodes -> Seq(Block)]
      /\ seen' \in [Nodes -> SUBSET Images]
      /\ pool' \in [Nodes -> Seq(Ballot)]
      /\ cache' \in [Nodes -> SUBSET Ballot]
      /\ syncs' \in [Nodes -> SUBSET Sync]
      /\ tasks' \in [Nodes -> SUBSET Ballot]
  BY DEF Restart, TypeOK
<1>4. /\ miner' \in [Nodes -> MinerPc]
      /\ job' \in [Nodes -> Job \cup {NoJob}]
      /\ \A m \in Nodes : job'[m] = NoJob <=> miner'[m] \notin Busy
  BY DEF Restart, TypeOK, MinerPc, Busy
<1>5. /\ rejected' \in [Nodes -> Nat] /\ faults' \in Nat /\ casts' \in Nat
      /\ pushes' \in SUBSET Push
  BY DEF Restart, TypeOK
<1>6. QED BY <1>1, <1>2, <1>3, <1>4, <1>5 DEF TypeOK

\* Every step keeps the types.
LEMMA NextType == TypeOK /\ [Next]_vars => TypeOK'
<1> SUFFICES ASSUME TypeOK, [Next]_vars PROVE TypeOK'
  OBVIOUS
<1>1. CASE UNCHANGED vars
  BY <1>1 DEF vars, nodeVars, TypeOK
<1>2. CASE Work
  <2>1. ASSUME NEW msg \in pushes, SyncChain(msg.to, msg) PROVE TypeOK'
    <3>1. msg.to \in Nodes
      BY DEF TypeOK, Push
    <3>2. QED BY <2>1, <3>1, SyncChainType
  <2>2. QED BY <1>2, <2>1, MinerStepType, AddMiningTaskType, PublishCacheType,
               PushAcceptedChainType DEF Work
<1>3. CASE Environment
  BY <1>3, RefuseBallotType, CastBallotType, LossType, RestartType DEF Environment
<1>4. QED BY <1>1, <1>2, <1>3 DEF Next

\* Every variable keeps its type, and a node has a job exactly while its
\* mining loop is between taking a task and finishing it.
THEOREM TypeCorrect == Spec => []TypeOK
BY InitType, NextType, PTL DEF Spec

-----------------------------------------------------------------------------
(***************************************************************************)
(* The inductive invariant.  NoDoubleVote needs the seen set to match the   *)
(* chain, which needs every chain under way to be good; a chain's first     *)
(* link needs the miner to have read an empty chain when it mines block 0.  *)
(***************************************************************************)
MinedFromTip ==
  \A n \in Nodes : miner[n] = "mining" /\ job[n].idx = 0 => job[n].prev = <<>>

ChainInv ==
  /\ SeenMatchesChain
  /\ \A n \in Nodes : Good(chain[n])
  /\ \A msg \in pushes : Good(msg.chain)
  /\ MinedFromTip

\* The chain of a node that has just started.
LEMMA EmptyChainGood == Good(<<>>) /\ ImagesOf(<<>>) = {} /\ BallotsOf(<<>>) = {}
BY DEF Good, OneBallotPerImage, Linked, ImagesOf, BallotsOf

\* The invariant holds when all chains are empty.
LEMMA InitInv == Init => ChainInv
BY EmptyChainGood DEF Init, ChainInv, SeenMatchesChain, MinedFromTip

\* Only three actions touch a chain; for the others it is enough that what
\* they push is somebody's chain and that they start no mining.
LEMMA QuietInv ==
  ASSUME ChainInv, UNCHANGED <<chain, seen>>,
         \A msg \in pushes' : msg \in pushes \/ \E n \in Nodes : msg.chain = chain[n],
         MinedFromTip'
  PROVE  ChainInv'
BY DEF ChainInv, SeenMatchesChain

\* What push_chain_sync sends is the sender's own chain, hence a good one.
LEMMA PushChainSyncInv ==
  ASSUME NEW n \in Nodes, NEW ignore, PushChainSync(n, ignore)
  PROVE  \A msg \in pushes' : msg \in pushes \/ \E m \in Nodes : msg.chain = chain[m]
BY DEF PushChainSync

\* A mined block extends a good chain by a new image, or leaves it alone.
LEMMA AddBlockInv ==
  ASSUME TypeOK, ChainInv, NEW n \in Nodes, AddBlockToChain(n)
  PROVE  /\ ChainInv'
         /\ \/ UNCHANGED chain
            \/ \E b \in Block :
                 /\ b.ballot.image \notin ImagesOf(chain[n])
                 /\ b.ballot \in Verifies[n]
                 /\ chain' = [chain EXCEPT ![n] = Append(@, b)]
<1>1. job[n] \in Job /\ miner[n] = "mining"
  BY DEF AddBlockToChain, TypeOK, Busy
<1>2. PICK ts \in Times :
        LET block == MineBlock(job[n].ballot, job[n].prev, job[n].idx, ts)
            result == ValidateAddition(n, seen[n], chain[n], block)
        IN \/ /\ result = "AddBlock"
              /\ chain' = [chain EXCEPT ![n] = Append(@, block)]
              /\ seen' = [seen EXCEPT ![n] = @ \cup {block.ballot.image}]
              /\ miner' = [miner EXCEPT ![n] = "record"]
              /\ UNCHANGED <<pool, job>>
           \/ /\ miner' = [miner EXCEPT ![n] = "loop"]
              /\ job' = [job EXCEPT ![n] = NoJob]
              /\ UNCHANGED <<chain, seen>>
  BY DEF AddBlockToChain
<1> DEFINE block == MineBlock(job[n].ballot, job[n].prev, job[n].idx, ts)
<1>3. block \in Block
  BY <1>1, MineBlockType DEF Job
<1>4. /\ block.idx = job[n].idx
      /\ block.prev = job[n].prev
  BY DEF MineBlock
<1> HIDE DEF block
<1>5. UNCHANGED pushes
  BY DEF AddBlockToChain
<1>6. MinedFromTip'
  BY <1>1, <1>2 DEF MinedFromTip, ChainInv, TypeOK
<1>7. CASE /\ ValidateAddition(n, seen[n], chain[n], block) = "AddBlock"
           /\ chain' = [chain EXCEPT ![n] = Append(@, block)]
           /\ seen' = [seen EXCEPT ![n] = @ \cup {block.ballot.image}]
  <2>1. /\ block.ballot.image \notin seen[n]
        /\ FitsChain(chain[n], block)
        /\ block.ballot \in Verifies[n]
    BY <1>7 DEF ValidateAddition, BlockValid
  <2>2. /\ chain[n] \in Seq(Block)
        /\ Good(chain[n])
        /\ seen[n] = ImagesOf(chain[n])
    BY DEF TypeOK, ChainInv, SeenMatchesChain
  <2>3. chain[n] = <<>> => block.prev = <<>>
    BY <1>1, <1>4, <2>1 DEF FitsChain, ChainInv, MinedFromTip
  <2>4. Good(Append(chain[n], block))
    BY <1>3, <2>1, <2>2, <2>3, AppendGood
  <2>5. ImagesOf(Append(chain[n], block)) = seen[n] \cup {block.ballot.image}
    BY <1>3, <2>2, AppendImages
  <2>6. \A m \in Nodes : /\ chain'[m] = IF m = n THEN Append(chain[n], block) ELSE chain[m]
                         /\ seen'[m] = IF m = n THEN seen[n] \cup {block.ballot.image} ELSE seen[m]
    BY <1>7 DEF TypeOK
  <2>7. SeenMatchesChain' /\ \A m \in Nodes : Good(chain'[m])
    BY <2>4, <2>5, <2>6 DEF ChainInv, SeenMatchesChain
  <2>8. ChainInv'
    BY <1>5, <1>6, <2>7 DEF ChainInv
  <2>9. QED BY <1>3, <1>7, <2>1, <2>2, <2>8
<1>8. CASE UNCHANGED <<chain, seen>>
  BY <1>5, <1>6, <1>8, QuietInv
<1>9. QED BY <1>2, <1>7, <1>8 DEF block

\* An adopted chain was some node's chain when it was pushed.
LEMMA SyncChainInv ==
  ASSUME TypeOK, ChainInv, NEW n \in Nodes, NEW msg \in pushes, SyncChain(n, msg)
  PROVE  ChainInv'
<1>1. MinedFromTip' /\ pushes' \subseteq pushes
  BY DEF SyncChain, ChainInv, MinedFromTip
<1>2. CASE UNCHANGED <<chain, seen>>
  BY <1>1, <1>2, QuietInv
<1>3. CASE /\ chain' = [chain EXCEPT ![n] = msg.chain]
           /\ seen' = [seen EXCEPT ![n] = ImagesOf(msg.chain)]
  <2>1. \A m \in Nodes : /\ chain'[m] = IF m = n THEN msg.chain ELSE chain[m]
                         /\ seen'[m] = IF m = n THEN ImagesOf(msg.chain) ELSE seen[m]
    BY <1>3 DEF TypeOK
  <2>2. QED BY <1>1, <2>1 DEF ChainInv, SeenMatchesChain
<1>4. QED BY <1>2, <1>3 DEF SyncChain

\* A restart leaves an empty chain and an empty seen set behind.
LEMMA RestartInv ==
  ASSUME TypeOK, ChainInv, NEW n \in Nodes, Restart(n)
  PROVE  ChainInv'
<1>1. \A m \in Nodes : /\ chain'[m] = IF m = n THEN <<>> ELSE chain[m]
                       /\ seen'[m] = IF m = n THEN {} ELSE seen[m]
                       /\ miner'[m] = IF m = n THEN "idle" ELSE miner[m]
                       /\ m # n => job'[m] = job[m]
  BY DEF Restart, TypeOK
<1>2. pushes' \subseteq pushes
  BY DEF Restart
<1>3. QED BY <1>1, <1>2, EmptyChainGood DEF ChainInv, SeenMatchesChain, MinedFromTip

\* Every step of the mining loop keeps the chain invariant.
LEMMA MinerStepInv ==
  ASSUME TypeOK, ChainInv, NEW n \in Nodes, MinerStep(n)
  PROVE  ChainInv'
<1>1. CASE TakeTask(n)
  <2>1. MinedFromTip'
    BY <1>1 DEF TakeTask, ChainInv, MinedFromTip, TypeOK
  <2>2. QED BY <1>1, <2>1, QuietInv DEF TakeTask
<1>2. CASE ReadTip(n)
  <2>1. job[n] \in Job
    BY <1>2 DEF ReadTip, TypeOK, Busy
  <2>2. job' = [job EXCEPT ![n] =
                  [job[n] EXCEPT !.prev = TipHash(chain[n]), !.idx = Len(chain[n])]]
    BY <1>2 DEF ReadTip, TypeOK
  <2>3. /\ job'[n].prev = TipHash(chain[n])
        /\ job'[n].idx = Len(chain[n])
        /\ \A m \in Nodes \ {n} : job'[m] = job[m]
    BY <2>1, <2>2 DEF Job, TypeOK
  <2>4. Len(chain[n]) = 0 => TipHash(chain[n]) = <<>>
    BY DEF TypeOK, TipHash
  <2>5. MinedFromTip'
    BY <1>2, <2>3, <2>4 DEF ReadTip, ChainInv, MinedFromTip, TypeOK
  <2>6. QED BY <1>2, <2>5, QuietInv DEF ReadTip
<1>3. CASE FindPoolEmpty(n) \/ ReleaseMiningLock(n) \/ RecordMinedVote(n)
  <2>1. MinedFromTip'
    BY <1>3 DEF FindPoolEmpty, ReleaseMiningLock, RecordMinedVote, ChainInv, MinedFromTip, TypeOK
  <2>2. QED BY <1>3, <2>1, QuietInv DEF FindPoolEmpty, ReleaseMiningLock, RecordMinedVote
<1>4. CASE AddBlockToChain(n)
  BY <1>4, AddBlockInv
<1>5. CASE PushMinedChain(n)
  <2>1. MinedFromTip'
    BY <1>5 DEF PushMinedChain, ChainInv, MinedFromTip, TypeOK
  <2>2. QED BY <1>5, <2>1, QuietInv, PushChainSyncInv DEF PushMinedChain
<1>6. QED BY <1>1, <1>2, <1>3, <1>4, <1>5 DEF MinerStep

\* Every step keeps the chain invariant.
LEMMA NextInv == TypeOK /\ ChainInv /\ [Next]_vars => ChainInv'
<1> SUFFICES ASSUME TypeOK, ChainInv, [Next]_vars PROVE ChainInv'
  OBVIOUS
<1> USE DEF ChainInv, MinedFromTip
<1>1. CASE UNCHANGED vars
  BY <1>1 DEF vars, nodeVars, SeenMatchesChain
<1>2. ASSUME NEW n \in Nodes, MinerStep(n) PROVE ChainInv'
  BY <1>2, MinerStepInv
<1>3. ASSUME NEW n \in Nodes, NEW ballot \in tasks[n], AddMiningTask(n, ballot)
      PROVE  ChainInv'
  <2>1. MinedFromTip'
    BY <1>3 DEF AddMiningTask, TypeOK
  <2>2. QED BY <1>3, <2>1, QuietInv DEF AddMiningTask
<1>4. ASSUME NEW msg \in pushes, SyncChain(msg.to, msg) PROVE ChainInv'
  <2>1. msg.to \in Nodes
    BY DEF TypeOK, Push
  <2>2. QED BY <1>4, <2>1, SyncChainInv
<1>5. ASSUME NEW n \in Nodes, NEW call \in syncs[n],
             PublishCache(n, call) \/ PushAcceptedChain(n, call)
      PROVE  ChainInv'
  BY <1>5, QuietInv, PushChainSyncInv DEF PublishCache, PushAcceptedChain
<1>6. CASE Environment
  <2>1. ASSUME NEW ballot \in Ballot, RefuseBallot(ballot) \/ CastBallot(ballot)
        PROVE  ChainInv'
    BY <2>1, QuietInv DEF RefuseBallot, CastBallot, nodeVars
  <2>2. ASSUME NEW msg \in pushes, LosePush(msg) PROVE ChainInv'
    BY <2>2, QuietInv DEF LosePush, nodeVars
  <2>3. ASSUME NEW n \in Nodes, NEW ballot \in tasks[n], LoseTask(n, ballot) PROVE ChainInv'
    BY <2>3, QuietInv DEF LoseTask, nodeVars
  <2>4. QED BY <1>6, <2>1, <2>2, <2>3, RestartInv DEF Environment
<1>7. QED BY <1>1, <1>2, <1>3, <1>4, <1>5, <1>6 DEF Next, Work

\* The inductive invariant behind the theorems below: chains on nodes and in
\* messages are good, the seen set mirrors the chain, and a block mined for
\* slot 0 has no parent (validate_addition does not look there).
THEOREM ChainInvariant == Spec => [](TypeOK /\ ChainInv)
BY InitType, NextType, InitInv, NextInv, PTL DEF Spec

\* No chain of any node ever holds two blocks with one key image.
THEOREM NoDoubleVoteAlways == Spec => []NoDoubleVote
<1>1. ChainInv => NoDoubleVote
  BY DEF ChainInv, Good, NoDoubleVote
<1>2. QED BY <1>1, ChainInvariant, PTL

\* has_voted always answers from the images on the node's chain.
THEOREM SeenMatchesChainAlways == Spec => []SeenMatchesChain
<1>1. ChainInv => SeenMatchesChain
  BY DEF ChainInv
<1>2. QED BY <1>1, ChainInvariant, PTL

\* Every chain is a hash chain from its first block on.
THEOREM ChainsLinkedAlways == Spec => []ChainsLinked
<1>1. ChainInv => ChainsLinked
  BY DEF ChainInv, Good, ChainsLinked
<1>2. QED BY <1>1, ChainInvariant, PTL

-----------------------------------------------------------------------------
(***************************************************************************)
(* The tally and the verified part of the chain.                            *)
(***************************************************************************)
\* Both ways to a new tally count every key image once.
LEMMA TallyCountsOnce ==
  /\ \A votes, ballot :
       (\A v, w \in votes : v.image = w.image => v = w)
         => \A v, w \in RecordVote(votes, ballot) : v.image = w.image => v = w
  /\ \A c \in Seq(Block) :
       \A v, w \in CountChain(c) : v.image = w.image => v = w
<1>1. ASSUME NEW votes, NEW ballot, \A v, w \in votes : v.image = w.image => v = w
      PROVE  \A v, w \in RecordVote(votes, ballot) : v.image = w.image => v = w
  BY <1>1 DEF RecordVote, Counted
<1>2. ASSUME NEW c \in Seq(Block), NEW v \in CountChain(c), NEW w \in CountChain(c),
             v.image = w.image
      PROVE  v = w
  <2>1. PICK i \in DOMAIN c :
          /\ v = c[i].ballot
          /\ \A k \in 1 .. i - 1 : c[k].ballot.image # c[i].ballot.image
    BY DEF CountChain
  <2>2. PICK j \in DOMAIN c :
          /\ w = c[j].ballot
          /\ \A k \in 1 .. j - 1 : c[k].ballot.image # c[j].ballot.image
    BY DEF CountChain
  <2>3. i \in Nat \ {0} /\ j \in Nat \ {0}
    OBVIOUS
  <2>4. ~(i < j) /\ ~(j < i)
    BY <1>2, <2>1, <2>2, <2>3
  <2>5. QED BY <2>1, <2>2, <2>3, <2>4
<1>3. QED BY <1>1, <1>2

\* Every step keeps each tally free of second votes.
LEMMA NextCountsOnce ==
  ASSUME TypeOK, CacheCountsOnce, [Next]_vars
  PROVE  CacheCountsOnce'
<1>1. CASE UNCHANGED cache
  BY <1>1 DEF CacheCountsOnce
<1>2. ASSUME NEW n \in Nodes, RecordMinedVote(n) PROVE CacheCountsOnce'
  <2>1. \A m \in Nodes : cache'[m] = IF m = n THEN RecordVote(cache[n], job[n].ballot) ELSE cache[m]
    BY <1>2 DEF RecordMinedVote, TypeOK
  <2>2. QED BY <2>1, TallyCountsOnce DEF CacheCountsOnce
<1>3. ASSUME NEW n \in Nodes, NEW call \in syncs[n], PublishCache(n, call)
      PROVE  CacheCountsOnce'
  <2>1. call.chain \in Seq(Block)
    BY SyncType DEF TypeOK
  <2>2. \A m \in Nodes : cache'[m] = IF m = n THEN CountChain(call.chain) ELSE cache[m]
    BY <1>3 DEF PublishCache, TypeOK
  <2>3. QED BY <2>1, <2>2, TallyCountsOnce DEF CacheCountsOnce
<1>4. ASSUME NEW n \in Nodes, Restart(n) PROVE CacheCountsOnce'
  <2>1. \A m \in Nodes : cache'[m] = IF m = n THEN {} ELSE cache[m]
    BY <1>4 DEF Restart, TypeOK
  <2>2. QED BY <2>1 DEF CacheCountsOnce
<1>5. CASE Work
  BY <1>1, <1>2, <1>3, <1>5 DEF Work, MinerStep, TakeTask, ReadTip, FindPoolEmpty,
     ReleaseMiningLock, AddBlockToChain, PushMinedChain, AddMiningTask, SyncChain,
     PushAcceptedChain
<1>6. CASE Environment
  BY <1>1, <1>4, <1>6 DEF Environment, RefuseBallot, CastBallot, LosePush, LoseTask, nodeVars
<1>7. QED BY <1>1, <1>5, <1>6 DEF Next, vars, nodeVars

\* No tally ever counts a key image for two candidates.
THEOREM CacheCountsOnceAlways == Spec => []CacheCountsOnce
<1>1. Init => CacheCountsOnce
  BY DEF Init, CacheCountsOnce
<1>2. QED BY <1>1, NextCountsOnce, TypeCorrect, PTL DEF Spec

\* What a step may do to the chains: nothing, add a block this node verifies,
\* take over a chain the rules prefer, or lose one in a restart.
LEMMA ChainSteps ==
  ASSUME TypeOK, ChainInv, [Next]_vars
  PROVE  \/ UNCHANGED chain
         \/ \E n \in Nodes : \E b \in Block :
              /\ b.ballot.image \notin ImagesOf(chain[n])
              /\ b.ballot \in Verifies[n]
              /\ chain' = [chain EXCEPT ![n] = Append(@, b)]
         \/ \E n \in Nodes : \E c \in Seq(Block) :
              /\ Good(c)
              /\ ChainValid(n, c, chain[n])
              /\ chain' = [chain EXCEPT ![n] = c]
         \/ \E n \in Nodes : chain' = [chain EXCEPT ![n] = <<>>]
<1>1. ASSUME NEW msg \in pushes, SyncChain(msg.to, msg)
      PROVE  \/ UNCHANGED chain
             \/ \E n \in Nodes : \E c \in Seq(Block) :
                  /\ Good(c)
                  /\ ChainValid(n, c, chain[n])
                  /\ chain' = [chain EXCEPT ![n] = c]
  <2>1. msg.to \in Nodes /\ msg.chain \in Seq(Block) /\ Good(msg.chain)
    BY DEF TypeOK, Push, ChainInv
  <2>2. QED BY <1>1, <2>1 DEF SyncChain
<1>2. CASE Work
  BY <1>1, <1>2, AddBlockInv DEF Work, MinerStep, TakeTask, ReadTip, FindPoolEmpty,
     ReleaseMiningLock, RecordMinedVote, PushMinedChain, AddMiningTask, PublishCache,
     PushAcceptedChain
<1>3. CASE Environment
  BY <1>3 DEF Environment, RefuseBallot, CastBallot, LosePush, LoseTask, Restart, nodeVars
<1>4. QED BY <1>2, <1>3 DEF Next, vars, nodeVars

\* Every step adds or adopts only blocks that this node verified.
LEMMA NextVerified ==
  ASSUME TypeOK, ChainInv, NonGenesisVerified, [Next]_vars
  PROVE  NonGenesisVerified'
<1> DEFINE Checked(n, c) == \A i \in 2 .. Len(c) : c[i].ballot \in Verifies[n]
<1>1. \A n \in Nodes : Checked(n, chain[n]) /\ chain[n] \in Seq(Block)
  BY DEF NonGenesisVerified, TypeOK
<1>2. chain \in [Nodes -> Seq(Block)]
  BY DEF TypeOK
<1> SUFFICES \A n \in Nodes : Checked(n, chain'[n])
  BY DEF NonGenesisVerified
<1>3. ASSUME NEW n \in Nodes, NEW b \in Block, b.ballot \in Verifies[n]
      PROVE  Checked(n, Append(chain[n], b))
  BY <1>1, <1>3
<1>4. ASSUME NEW n \in Nodes, NEW c \in Seq(Block), ChainValid(n, c, chain[n])
      PROVE  Checked(n, c)
  BY <1>4 DEF ChainValid, ValidLink, BlockValid
<1>5. \A n \in Nodes : Checked(n, <<>>)
  OBVIOUS
<1> HIDE DEF Checked
<1>6. CASE UNCHANGED chain
  BY <1>1, <1>6
<1>7. ASSUME NEW n \in Nodes, NEW c, Checked(n, c), chain' = [chain EXCEPT ![n] = c]
      PROVE  \A m \in Nodes : Checked(m, chain'[m])
  BY <1>2, <1>1, <1>7
<1>8. QED BY <1>3, <1>4, <1>5, <1>6, <1>7, ChainSteps

\* From its second block on, a chain holds only ballots the node's own
\* manifest verifies.
THEOREM NonGenesisVerifiedAlways == Spec => []NonGenesisVerified
<1>1. Init => NonGenesisVerified
  BY DEF Init, NonGenesisVerified
<1>2. QED BY <1>1, NextVerified, ChainInvariant, PTL DEF Spec

-----------------------------------------------------------------------------
(***************************************************************************)
(* The relay.  While nothing is lost, whoever is told that a peer holds a   *)
(* chain, or skips that peer because somebody else sends it the chain, is   *)
(* right: the peer is as far, or a message that takes it there is under     *)
(* way.  So a chain nobody is about to relay is covered at every peer.      *)
(***************************************************************************)
\* What Chain::validate asks of a peer's chain besides being preferred.
Checks(n, c) == \A i \in 2 .. Len(c) : ValidLink(n, c, i)

\* Node p holds a chain as high as c, or is about to adopt one.
Covered(p, c) ==
  \/ ~Preferred(c, chain[p])
  \/ \E msg \in pushes : /\ msg.to = p
                         /\ Checks(p, msg.chain)
                         /\ ~Preferred(c, msg.chain)

\* The sender of a message holds its chain, and so do the peers it names.
MessageCovered(msg) ==
  /\ ~Preferred(msg.chain, chain[msg.from])
  /\ \A p \in msg.sent :
       Alike(p, msg.to) /\ Checks(msg.to, msg.chain) => Covered(p, msg.chain)

\* An accepted chain is no higher than the node's, and the peers the relay
\* will skip are covered.
CallCovered(n, call) ==
  /\ ~Preferred(call.chain, chain[n])
  /\ \A p \in call.skip : Alike(p, n) => Covered(p, call.chain)

\* Node n is yet to push the chain it holds.
ToRelay(n) ==
  \/ miner[n] \in {"record", "push"}
  \/ \E call \in syncs[n] : call.chain = chain[n]

PeersCovered(n) == \A p \in Peers[n] : Alike(p, n) => Covered(p, chain[n])

RelayInv ==
  /\ known = Peers
  /\ \A msg \in pushes : MessageCovered(msg)
  /\ \A n \in Nodes : \A call \in syncs[n] : CallCovered(n, call)
  /\ \A n, p \in Nodes : Alike(p, n) => Covered(p, peerHash[n][p])
  /\ \A n \in Nodes : ToRelay(n) \/ PeersCovered(n)

\* The rules order chains by height: a total preorder.
LEMMA HeightOrder ==
  /\ \A c \in Seq(Block) : ~Preferred(c, c)
  /\ \A c, d \in Seq(Block) : Preferred(c, d) => ~Preferred(d, c)
  /\ \A c, d, e \in Seq(Block) :
       ~Preferred(c, d) /\ ~Preferred(d, e) => ~Preferred(c, e)
  /\ \A c \in Seq(Block) : ~Preferred(<<>>, c)
  /\ \A c \in Seq(Block) : \A b \in Block : ~Preferred(c, Append(c, b))
<1> DEFINE last(c) == c[Len(c)].ts
<1>1. ASSUME NEW c \in Seq(Block)
      PROVE  Len(c) \in Nat /\ (c # <<>> => Len(c) > 0 /\ last(c) \in Nat)
  <2>1. CASE c = <<>>
    BY <2>1
  <2>2. CASE c # <<>>
    <3>1. Len(c) \in Nat \ {0} /\ c[Len(c)] \in Block
      BY <2>2
    <3>2. \A b \in Block : b.ts \in Nat
      BY ChainAssumption DEF Block
    <3>3. QED BY <3>1, <3>2
  <2>3. QED BY <2>1, <2>2
<1>2. \A c, d : Preferred(c, d) <=>
        \/ Len(c) > Len(d)
        \/ Len(c) = Len(d) /\ c # <<>> /\ last(c) > last(d)
  BY DEF Preferred
<1>3. \A c \in Seq(Block) : \A b \in Block :
        Append(c, b) \in Seq(Block) /\ Len(Append(c, b)) = Len(c) + 1
  OBVIOUS
<1>4. <<>> \in Seq(Block) /\ Len(<<>>) = 0 /\ \A c \in Seq(Block) : Len(c) = 0 => c = <<>>
  OBVIOUS
<1> HIDE DEF last
<1>5. \A c \in Seq(Block) : c = <<>> \/ last(c) \in Nat
  BY <1>1
<1>6. \A c \in Seq(Block) : Len(c) \in Nat /\ (Len(c) = 0 <=> c = <<>>)
  BY <1>1, <1>4
<1>7. ASSUME NEW c \in Seq(Block), NEW d \in Seq(Block), NEW e \in Seq(Block),
             ~Preferred(c, d), ~Preferred(d, e)
      PROVE  ~Preferred(c, e)
  <2>1. CASE c = <<>> \/ d = <<>> \/ e = <<>>
    BY <1>2, <1>6, <1>7, <2>1
  <2>2. CASE c # <<>> /\ d # <<>> /\ e # <<>>
    BY <1>2, <1>5, <1>6, <1>7, <2>2
  <2>3. QED BY <2>1, <2>2
<1>8. ASSUME NEW c \in Seq(Block), NEW d \in Seq(Block), Preferred(c, d)
      PROVE  ~Preferred(d, c)
  BY <1>2, <1>5, <1>6, <1>8
<1>9. \A c \in Seq(Block) : ~Preferred(c, c) /\ ~Preferred(<<>>, c)
  BY <1>2, <1>4, <1>5, <1>6
<1>10. ASSUME NEW c \in Seq(Block), NEW b \in Block
       PROVE  ~Preferred(c, Append(c, b))
  <2>1. Len(Append(c, b)) = Len(c) + 1 /\ Len(c) \in Nat
    BY <1>3, <1>6
  <2>2. ~(Len(c) > Len(Append(c, b))) /\ Len(c) # Len(Append(c, b))
    BY <2>1
  <2>3. QED BY <1>2, <2>2
<1>11. QED BY <1>7, <1>8, <1>9, <1>10

\* A node's own chain passes the checks of every node of its manifest.
LEMMA OwnChainChecks ==
  ASSUME TypeOK, ChainInv, NonGenesisVerified, NEW n \in Nodes
  PROVE  Checks(n, chain[n])
<1> DEFINE c == chain[n]
<1>1. c \in Seq(Block) /\ Good(c)
  BY DEF TypeOK, ChainInv
<1> SUFFICES ASSUME NEW i \in 2 .. Len(c) PROVE ValidLink(n, c, i)
  BY DEF Checks
<1>2. i \in DOMAIN c /\ i # 1
  BY <1>1
<1>3. c[i].prev = Hash(c[i - 1])
  BY <1>1, <1>2 DEF Good, Linked
<1>4. c[i].ballot \in Verifies[n]
  BY DEF NonGenesisVerified
<1>5. \A j \in 2 .. i - 1 : c[j].ballot.image # c[i].ballot.image
  BY <1>1, <1>2 DEF Good, OneBallotPerImage
<1>6. QED BY <1>3, <1>4, <1>5 DEF ValidLink, BlockValid

\* Nodes of one manifest check alike.
LEMMA AlikeChecks ==
  ASSUME NEW m, NEW n, Alike(m, n), NEW c, Checks(n, c)
  PROVE  Checks(m, c)
BY DEF Alike, Checks, ValidLink, BlockValid

\* A step without a fault takes no chain back, and a message it consumes has
\* taken its receiver to that chain, unless the receiver may not accept it.
LEMMA StepsGoOnward ==
  ASSUME TypeOK, ChainInv, Next, faults' = 0
  PROVE  /\ faults = 0
         /\ \A n \in Nodes : ~Preferred(chain[n], chain'[n])
         /\ \A msg \in pushes :
              \/ msg \in pushes'
              \/ Checks(msg.to, msg.chain) => ~Preferred(msg.chain, chain'[msg.to])
<1> DEFINE Onward ==
      /\ faults = 0
      /\ \A n \in Nodes : ~Preferred(chain[n], chain'[n])
      /\ \A msg \in pushes :
           \/ msg \in pushes'
           \/ Checks(msg.to, msg.chain) => ~Preferred(msg.chain, chain'[msg.to])
<1>1. \A n \in Nodes : chain[n] \in Seq(Block) /\ ~Preferred(chain[n], chain[n])
  BY HeightOrder DEF TypeOK
<1>2. ASSUME UNCHANGED <<chain, faults>>, pushes \subseteq pushes' PROVE Onward
  BY <1>1, <1>2
<1>3. ASSUME NEW n \in Nodes, NEW ignore, PushChainSync(n, ignore), UNCHANGED chain
      PROVE  Onward
  <2>1. PICK failed \in SUBSET (known[n] \ ignore) :
               faults' = faults + Cardinality(failed)
    BY <1>3 DEF PushChainSync
  <2>2. IsFiniteSet(failed) /\ Cardinality(failed) \in Nat
    BY LedgerAssumption, FS_Subset, FS_CardinalityType DEF TypeOK
  <2>3. faults = 0
    BY <2>1, <2>2 DEF TypeOK
  <2>4. pushes \subseteq pushes'
    BY <1>3 DEF PushChainSync
  <2>5. QED BY <1>1, <1>3, <2>3, <2>4
<1>4. ASSUME NEW n \in Nodes, MinerStep(n) PROVE Onward
  <2>1. CASE AddBlockToChain(n)
    <3>1. UNCHANGED <<pushes, faults>>
      BY <2>1 DEF AddBlockToChain
    <3>2. \A m \in Nodes : \/ chain'[m] = chain[m]
                           \/ \E b \in Block : chain'[m] = Append(chain[m], b)
      BY <2>1, AddBlockInv DEF TypeOK
    <3>3. QED BY <1>1, <3>1, <3>2, HeightOrder
  <2>2. CASE PushMinedChain(n)
    BY <1>3, <2>2 DEF PushMinedChain
  <2>3. CASE ~AddBlockToChain(n) /\ ~PushMinedChain(n)
    BY <1>2, <1>4, <2>3 DEF MinerStep, TakeTask, ReadTip, FindPoolEmpty,
       ReleaseMiningLock, RecordMinedVote
  <2>4. QED BY <2>1, <2>2, <2>3
<1>5. ASSUME NEW msg \in pushes, SyncChain(msg.to, msg) PROVE Onward
  <2>1. msg.to \in Nodes /\ msg.chain \in Seq(Block) /\ chain[msg.to] \in Seq(Block)
    BY DEF TypeOK, Push
  <2>2. pushes' = pushes \ {msg} /\ faults' = faults
    BY <1>5 DEF SyncChain
  <2>3. CASE ChainValid(msg.to, msg.chain, chain[msg.to])
    <3>1. Preferred(msg.chain, chain[msg.to])
      BY <2>3 DEF ChainValid
    <3>2. chain' = [chain EXCEPT ![msg.to] = msg.chain]
      BY <1>5, <2>3 DEF SyncChain
    <3>3. \A n \in Nodes : chain'[n] = IF n = msg.to THEN msg.chain ELSE chain[n]
      BY <3>2 DEF TypeOK
    <3>4. QED BY <1>1, <2>1, <2>2, <3>1, <3>3, HeightOrder
  <2>4. CASE ~ChainValid(msg.to, msg.chain, chain[msg.to])
    <3>1. Checks(msg.to, msg.chain) => ~Preferred(msg.chain, chain[msg.to])
      BY <2>4 DEF ChainValid, Checks
    <3>2. chain' = chain
      BY <1>5, <2>4 DEF SyncChain
    <3>3. QED BY <1>1, <2>1, <2>2, <3>1, <3>2
  <2>5. QED BY <2>3, <2>4
<1>6. CASE Work
  BY <1>2, <1>3, <1>4, <1>5, <1>6 DEF Work, AddMiningTask, PublishCache, PushAcceptedChain
<1>7. CASE Environment
  <2>1. faults' # faults + 1
    BY DEF TypeOK
  <2>2. QED BY <1>2, <1>7, <2>1 DEF Environment, RefuseBallot, CastBallot, LosePush,
       LoseTask, Restart, nodeVars
<1>8. QED BY <1>6, <1>7 DEF Next

\* What is covered stays covered.
LEMMA CoveredStays ==
  ASSUME TypeOK, TypeOK', ChainInv, Next, faults' = 0,
         NEW p \in Nodes, NEW c \in Seq(Block), Covered(p, c)
  PROVE  Covered(p, c)'
<1>1. chain[p] \in Seq(Block) /\ chain'[p] \in Seq(Block)
  BY DEF TypeOK
<1>2. ~Preferred(chain[p], chain'[p])
  BY StepsGoOnward
<1>3. CASE ~Preferred(c, chain[p])
  BY <1>1, <1>2, <1>3, HeightOrder DEF Covered
<1>4. ASSUME NEW msg \in pushes, msg.to = p, Checks(p, msg.chain), ~Preferred(c, msg.chain)
      PROVE  Covered(p, c)'
  <2>1. msg.chain \in Seq(Block)
    BY DEF TypeOK, Push
  <2>2. CASE msg \in pushes'
    BY <1>4, <2>2 DEF Covered, Checks, ValidLink, BlockValid
  <2>3. CASE ~Preferred(msg.chain, chain'[p])
    BY <1>1, <1>4, <2>1, <2>3, HeightOrder DEF Covered
  <2>4. QED BY <1>4, <2>2, <2>3, StepsGoOnward
<1>5. QED BY <1>3, <1>4 DEF Covered

\* So do the messages under way and the accepted chains.
LEMMA RelayStays ==
  ASSUME TypeOK, TypeOK', ChainInv, RelayInv, Next, faults' = 0
  PROVE  /\ \A msg \in pushes : MessageCovered(msg)'
         /\ \A n \in Nodes : \A call \in syncs[n] : CallCovered(n, call)'
<1>1. /\ \A n \in Nodes : /\ chain[n] \in Seq(Block) /\ chain'[n] \in Seq(Block)
                          /\ ~Preferred(chain[n], chain'[n])
      /\ \A p \in Nodes : \A c \in Seq(Block) : Covered(p, c) => Covered(p, c)'
  BY StepsGoOnward, CoveredStays DEF TypeOK
<1>2. ASSUME NEW msg \in pushes
      PROVE  MessageCovered(msg)'
  <2>1. msg.from \in Nodes /\ msg.sent \subseteq Nodes /\ msg.chain \in Seq(Block)
    BY DEF TypeOK, Push
  <2>2. MessageCovered(msg)
    BY DEF RelayInv
  <2>3. ~Preferred(msg.chain, chain'[msg.from])
    BY <1>1, <2>1, <2>2, HeightOrder DEF MessageCovered
  <2>4. \A p \in msg.sent :
          Alike(p, msg.to) /\ Checks(msg.to, msg.chain) => Covered(p, msg.chain)'
    BY <1>1, <2>1, <2>2 DEF MessageCovered
  <2>5. QED BY <2>3, <2>4 DEF MessageCovered, Alike, Checks, ValidLink, BlockValid
<1>3. ASSUME NEW n \in Nodes, NEW call \in syncs[n]
      PROVE  CallCovered(n, call)'
  <2>1. call.skip \subseteq Nodes /\ call.chain \in Seq(Block)
    BY DEF TypeOK, Sync
  <2>2. CallCovered(n, call)
    BY DEF RelayInv
  <2>3. ~Preferred(call.chain, chain'[n])
    BY <1>1, <2>1, <2>2, HeightOrder DEF CallCovered
  <2>4. \A p \in call.skip : Alike(p, n) => Covered(p, call.chain)'
    BY <1>1, <2>1, <2>2 DEF CallCovered
  <2>5. QED BY <2>3, <2>4 DEF CallCovered, Alike
<1>4. QED BY <1>2, <1>3

\* A push without a failed send covers every peer it is not told to ignore,
\* and its messages name only peers that are sent the same chain.
LEMMA PushCovers ==
  ASSUME TypeOK, ChainInv, NonGenesisVerified, NEW n \in Nodes, NEW ignore,
         PushChainSync(n, ignore), UNCHANGED chain, Next, faults' = 0
  PROVE  /\ known' = known
         /\ \A p \in known[n] \ ignore : Alike(p, n) => Covered(p, chain[n])'
         /\ \A msg \in pushes' : msg \in pushes \/ MessageCovered(msg)'
<1> DEFINE targets == known[n] \ ignore
           news(p) == [to |-> p, from |-> n, chain |-> chain[n], sent |-> targets]
<1>1. PICK failed \in SUBSET targets :
        /\ faults' = faults + Cardinality(failed)
        /\ known' = [known EXCEPT ![n] = @ \ failed]
        /\ pushes' = pushes \cup {news(p) : p \in targets \ failed}
  BY DEF PushChainSync
<1>2. faults = 0
  BY StepsGoOnward
<1>3. failed = {}
  <2>1. IsFiniteSet(failed)
    BY LedgerAssumption, FS_Subset DEF TypeOK
  <2>2. Cardinality(failed) = 0
    BY <1>1, <1>2, <2>1, FS_CardinalityType
  <2>3. QED BY <2>1, <2>2, FS_EmptySet
<1>4. known' = known /\ pushes' = pushes \cup {news(p) : p \in targets}
  BY <1>1, <1>3 DEF TypeOK
<1>5. chain[n] \in Seq(Block) /\ ~Preferred(chain[n], chain[n]) /\ chain' = chain
  BY HeightOrder DEF TypeOK
<1>6. ASSUME NEW p \in targets, Checks(p, chain[n])
      PROVE  Covered(p, chain[n])'
  <2>1. news(p) \in pushes' /\ news(p).to = p /\ news(p).chain = chain[n]
    BY <1>4
  <2> HIDE DEF news
  <2>2. QED BY <1>5, <1>6, <2>1 DEF Covered, Checks, ValidLink, BlockValid
<1>7. \A p \in targets : Alike(p, n) => Covered(p, chain[n])'
  BY <1>6, OwnChainChecks, AlikeChecks
<1>8. ASSUME NEW msg \in pushes', msg \notin pushes
      PROVE  MessageCovered(msg)'
  <2>1. PICK q \in targets : msg = news(q)
    BY <1>4, <1>8
  <2>2. /\ msg.to = q /\ msg.from = n
        /\ msg.chain = chain'[n] /\ msg.sent = targets
    BY <1>5, <2>1
  <2>3. \A p \in targets : Alike(p, q) /\ Checks(q, chain[n]) => Covered(p, chain[n])'
    BY <1>6, AlikeChecks
  <2>4. ASSUME NEW p \in msg.sent, Alike(p, msg.to), Checks(msg.to, msg.chain)
        PROVE  Covered(p, msg.chain)'
    <3>1. Covered(p, chain[n])'
      BY <1>5, <2>2, <2>3, <2>4
    <3>2. QED BY <2>2, <3>1 DEF Covered
  <2>5. ~Preferred(msg.chain, chain'[msg.from])
    BY <1>5, <2>2
  <2>6. QED BY <2>4, <2>5 DEF MessageCovered, Alike, Checks, ValidLink, BlockValid
<1>9. QED BY <1>4, <1>7, <1>8

\* So it is enough to look at what a step adds: its messages, its calls, the
\* peers it takes note of, and the nodes that are done relaying.
LEMMA RelayFromNews ==
  ASSUME TypeOK, TypeOK', ChainInv, RelayInv, Next, faults' = 0,
         known' = known,
         \A msg \in pushes' : msg \in pushes \/ MessageCovered(msg)',
         \A n \in Nodes : \A call \in syncs'[n] :
           \/ CallCovered(n, call)'
           \/ \E old \in syncs[n] : call.chain = old.chain /\ call.skip = old.skip,
         \A n, p \in Nodes :
           \/ peerHash'[n][p] = peerHash[n][p]
           \/ Alike(p, n) => Covered(p, peerHash[n][p])',
         \A n \in Nodes :
           \/ ToRelay(n)'
           \/ PeersCovered(n)'
           \/ chain'[n] = chain[n] /\ ~ToRelay(n)
  PROVE  RelayInv'
<1>1. known' = Peers
  BY DEF RelayInv
<1>2. \A msg \in pushes' : MessageCovered(msg)'
  BY RelayStays
<1>3. \A n \in Nodes : \A call \in syncs'[n] : CallCovered(n, call)'
  <2> SUFFICES ASSUME NEW n \in Nodes, NEW call, NEW old \in syncs[n],
                      call.chain = old.chain, call.skip = old.skip
               PROVE  CallCovered(n, call)'
    OBVIOUS
  <2>1. CallCovered(n, old)'
    BY RelayStays
  <2>2. QED BY <2>1 DEF CallCovered
<1>4. \A n, p \in Nodes : Alike(p, n) => Covered(p, peerHash[n][p])'
  <2> SUFFICES ASSUME NEW n \in Nodes, NEW p \in Nodes, Alike(p, n),
                      peerHash'[n][p] = peerHash[n][p]
               PROVE  Covered(p, peerHash[n][p])'
    OBVIOUS
  <2>1. PICK c \in Seq(Block) : c = peerHash[n][p]
    BY DEF TypeOK
  <2>2. Covered(p, c)
    BY <2>1 DEF RelayInv
  <2>3. Covered(p, c)'
    BY <2>2, CoveredStays
  <2>4. QED BY <2>1, <2>3 DEF Covered
<1>5. \A n \in Nodes : ToRelay(n)' \/ PeersCovered(n)'
  <2> SUFFICES ASSUME NEW n \in Nodes, chain'[n] = chain[n], ~ToRelay(n)
               PROVE  PeersCovered(n)'
    OBVIOUS
  <2>1. PICK c \in Seq(Block) : c = chain[n]
    BY DEF TypeOK
  <2>2. \A p \in Peers[n] : p \in Nodes /\ (Alike(p, n) => Covered(p, c))
    BY <2>1, LedgerAssumption DEF RelayInv, PeersCovered
  <2>3. \A p \in Peers[n] : Alike(p, n) => Covered(p, c)'
    BY <2>2, CoveredStays
  <2>4. QED BY <2>1, <2>3 DEF PeersCovered, Covered, Alike
<1>6. QED BY <1>1, <1>2, <1>3, <1>4, <1>5 DEF RelayInv, Alike

\* Steps that move no chain and no message, and leave who is to relay alone.
LEMMA QuietRelay ==
  ASSUME TypeOK, TypeOK', ChainInv, RelayInv, Next, faults' = 0,
         UNCHANGED <<chain, known, peerHash, pushes, syncs>>,
         \A n \in Nodes : miner[n] \in {"record", "push"} => miner'[n] \in {"record", "push"}
  PROVE  RelayInv'
<1>1. \A n \in Nodes : ToRelay(n) => ToRelay(n)'
  BY DEF ToRelay
<1>2. QED BY <1>1, RelayFromNews

\* The mining loop owes the peers every block it adds, and pushes it to all.
LEMMA MinerStepRelay ==
  ASSUME TypeOK, TypeOK', ChainInv, NonGenesisVerified, RelayInv, Next, faults' = 0,
         NEW n \in Nodes, MinerStep(n)
  PROVE  RelayInv'
<1>1. CASE AddBlockToChain(n)
  <2>1. UNCHANGED <<known, peerHash, pushes, syncs>>
    BY <1>1 DEF AddBlockToChain
  <2>2. \/ UNCHANGED chain /\ miner'[n] \notin {"taken", "mining"}
        \/ /\ \A m \in Nodes \ {n} : chain'[m] = chain[m]
           /\ miner'[n] = "record"
    BY <1>1 DEF AddBlockToChain, TypeOK
  <2>3. miner[n] = "mining" /\ \A m \in Nodes \ {n} : miner'[m] = miner[m]
    BY <1>1 DEF AddBlockToChain, TypeOK
  <2>4. \A m \in Nodes : ToRelay(m)' \/ (chain'[m] = chain[m] /\ ~ToRelay(m))
    BY <2>1, <2>2, <2>3 DEF ToRelay
  <2>5. QED BY <2>1, <2>4, RelayFromNews
<1>2. CASE PushMinedChain(n)
  <2>1. UNCHANGED <<chain, peerHash, syncs>> /\ PushChainSync(n, {})
    BY <1>2 DEF PushMinedChain
  <2>2. /\ known' = known
        /\ \A p \in known[n] : Alike(p, n) => Covered(p, chain[n])'
        /\ \A msg \in pushes' : msg \in pushes \/ MessageCovered(msg)'
    BY <2>1, PushCovers
  <2>3. PeersCovered(n)'
    BY <2>2 DEF PeersCovered, RelayInv, Alike
  <2>4. \A m \in Nodes \ {n} : ToRelay(m) => ToRelay(m)'
    BY <1>2, <2>1 DEF PushMinedChain, ToRelay, TypeOK
  <2>5. QED BY <2>1, <2>2, <2>3, <2>4, RelayFromNews
<1>3. CASE TakeTask(n) \/ ReadTip(n) \/ FindPoolEmpty(n) \/ ReleaseMiningLock(n) \/ RecordMinedVote(n)
  <2>1. UNCHANGED <<chain, known, peerHash, pushes, syncs>>
    BY <1>3 DEF TakeTask, ReadTip, FindPoolEmpty, ReleaseMiningLock, RecordMinedVote
  <2>2. \A m \in Nodes : miner[m] \in {"record", "push"} => miner'[m] \in {"record", "push"}
    BY <1>3 DEF TakeTask, ReadTip, FindPoolEmpty, ReleaseMiningLock, RecordMinedVote, TypeOK
  <2>3. QED BY <2>1, <2>2, QuietRelay
<1>4. QED BY <1>1, <1>2, <1>3 DEF MinerStep

\* An adopted chain is to be relayed, but for the peers its sender named.
LEMMA SyncChainRelay ==
  ASSUME TypeOK, TypeOK', ChainInv, RelayInv, Next, faults' = 0,
         NEW msg \in pushes, SyncChain(msg.to, msg)
  PROVE  RelayInv'
<1> DEFINE n == msg.to
           call == [stage |-> "accepted", chain |-> msg.chain, skip |-> msg.sent]
<1>1. n \in Nodes /\ msg.from \in Nodes /\ msg.sent \subseteq Nodes /\ msg.chain \in Seq(Block)
  BY DEF TypeOK, Push
<1>2. UNCHANGED <<known, miner>> /\ pushes' \subseteq pushes
  BY DEF SyncChain
<1>3. CASE ~ChainValid(n, msg.chain, chain[n])
  <2>1. UNCHANGED <<chain, peerHash, syncs>>
    BY <1>3 DEF SyncChain
  <2>2. \A m \in Nodes : ToRelay(m) => ToRelay(m)'
    BY <1>2, <2>1 DEF ToRelay
  <2>3. QED BY <1>2, <2>1, <2>2, RelayFromNews
<1>4. CASE ChainValid(n, msg.chain, chain[n])
  <2>1. /\ chain' = [chain EXCEPT ![n] = msg.chain]
        /\ syncs' = [syncs EXCEPT ![n] = @ \cup {call}]
        /\ \/ peerHash' = peerHash
           \/ peerHash' = [peerHash EXCEPT ![n][msg.from] = msg.chain]
    BY <1>4 DEF SyncChain
  <2>2. call.chain = msg.chain /\ call.skip = msg.sent
    OBVIOUS
  <2> HIDE DEF call
  <2>3. /\ chain'[n] = msg.chain /\ \A m \in Nodes \ {n} : chain'[m] = chain[m]
        /\ syncs'[n] = syncs[n] \cup {call} /\ \A m \in Nodes \ {n} : syncs'[m] = syncs[m]
    BY <1>1, <2>1 DEF TypeOK
  <2>4. /\ ~Preferred(msg.chain, chain'[msg.from])
        /\ \A p \in msg.sent : Alike(p, n) => Covered(p, msg.chain)'
    <3>1. MessageCovered(msg)'
      BY RelayStays
    <3>2. Checks(n, msg.chain)
      BY <1>4 DEF ChainValid, Checks
    <3>3. QED BY <3>1, <3>2 DEF MessageCovered, Alike, Checks, ValidLink, BlockValid
  <2>5. CallCovered(n, call)'
    <3>1. ~Preferred(msg.chain, chain'[n])
      BY <1>1, <2>3, HeightOrder
    <3>2. PICK old : old = call
      OBVIOUS
    <3>3. CallCovered(n, old)'
      BY <2>2, <2>4, <3>1, <3>2 DEF CallCovered, Alike
    <3>4. QED BY <3>2, <3>3 DEF call
  <2>6. \A m \in Nodes : \A other \in syncs'[m] : other \in syncs[m] \/ CallCovered(m, other)'
    BY <2>3, <2>5 DEF call
  <2>7. ToRelay(n)' /\ \A m \in Nodes \ {n} : ToRelay(m) => ToRelay(m)'
    BY <1>2, <2>2, <2>3 DEF ToRelay
  <2>8. \A m, p \in Nodes : \/ peerHash'[m][p] = peerHash[m][p]
                            \/ Alike(p, m) => Covered(p, peerHash[m][p])'
    <3> SUFFICES ASSUME NEW m \in Nodes, NEW p \in Nodes, peerHash'[m][p] # peerHash[m][p]
                 PROVE  Covered(p, peerHash[m][p])'
      OBVIOUS
    <3>1. /\ peerHash' = [peerHash EXCEPT ![n][msg.from] = msg.chain]
          /\ peerHash \in [Nodes -> [Nodes -> Seq(Block)]]
      BY <2>1 DEF TypeOK
    <3>2. peerHash'[m] = IF m = n THEN [peerHash[n] EXCEPT ![msg.from] = msg.chain]
                         ELSE peerHash[m]
      BY <1>1, <3>1
    <3>3. p = msg.from /\ peerHash'[m][p] = msg.chain
      BY <1>1, <3>1, <3>2
    <3>4. QED BY <2>4, <3>3 DEF Covered
  <2>9. \A m \in Nodes : ToRelay(m)' \/ (chain'[m] = chain[m] /\ ~ToRelay(m))
    BY <2>3, <2>7
  <2>10. QED BY <1>2, <2>6, <2>8, <2>9, RelayFromNews
<1>5. QED BY <1>3, <1>4

\* Publishing the tally leaves the call's chain and whom it skips alone.
LEMMA PublishCacheRelay ==
  ASSUME TypeOK, TypeOK', ChainInv, RelayInv, Next, faults' = 0,
         NEW n \in Nodes, NEW call \in syncs[n], PublishCache(n, call)
  PROVE  RelayInv'
<1> DEFINE next == [call EXCEPT !.stage = "counted"]
<1>1. UNCHANGED <<chain, known, peerHash, pushes, miner>>
  BY DEF PublishCache
<1>2. next.chain = call.chain /\ next.skip = call.skip
  BY DEF TypeOK, Sync
<1> HIDE DEF next
<1>3. /\ syncs'[n] = (syncs[n] \ {call}) \cup {next}
      /\ \A m \in Nodes \ {n} : syncs'[m] = syncs[m]
  BY DEF PublishCache, TypeOK, next
<1>4. \A m \in Nodes : \A other \in syncs'[m] :
        \E old \in syncs[m] : other.chain = old.chain /\ other.skip = old.skip
  BY <1>2, <1>3
<1>5. \A m \in Nodes : ToRelay(m) => ToRelay(m)'
  BY <1>1, <1>2, <1>3 DEF ToRelay
<1>6. QED BY <1>1, <1>4, <1>5, RelayFromNews

\* Passing an accepted chain on covers every peer: it is sent the node's
\* chain, or was sent this one by the same sender, or is known to hold it.
LEMMA PushAcceptedChainRelay ==
  ASSUME TypeOK, TypeOK', ChainInv, NonGenesisVerified, RelayInv, Next, faults' = 0,
         NEW n \in Nodes, NEW call \in syncs[n], PushAcceptedChain(n, call)
  PROVE  RelayInv'
<1> DEFINE told == {p \in known[n] : peerHash[n][p] = call.chain}
<1>1. /\ UNCHANGED <<chain, miner>>
      /\ PushChainSync(n, call.skip \cup told)
      /\ syncs' = [syncs EXCEPT ![n] = @ \ {call}]
      /\ peerHash' = [peerHash EXCEPT ![n] = [p \in Nodes |->
                        IF p \in known[n] THEN call.chain ELSE @[p]]]
  BY DEF PushAcceptedChain
<1>2. /\ syncs'[n] = syncs[n] \ {call}
      /\ \A m \in Nodes \ {n} : syncs'[m] = syncs[m]
      /\ \A p \in Nodes : peerHash'[n][p] = IF p \in known[n] THEN call.chain ELSE peerHash[n][p]
      /\ \A m \in Nodes \ {n} : peerHash'[m] = peerHash[m]
  BY <1>1 DEF TypeOK
<1>3. /\ known' = known
      /\ \A p \in known[n] \ (call.skip \cup told) : Alike(p, n) => Covered(p, chain[n])'
      /\ \A msg \in pushes' : msg \in pushes \/ MessageCovered(msg)'
  BY <1>1, PushCovers
<1>4. /\ call.chain \in Seq(Block) /\ chain[n] \in Seq(Block)
      /\ known[n] \subseteq Nodes
  BY DEF TypeOK, Sync
<1>5. ASSUME NEW p \in known[n], Alike(p, n)
      PROVE  Covered(p, call.chain)'
  <2>1. CallCovered(n, call)'
    BY RelayStays
  <2>2. CASE p \in call.skip
    BY <1>5, <2>1, <2>2 DEF CallCovered, Alike
  <2>3. CASE p \in told
    <3>1. Covered(p, call.chain)
      BY <1>4, <1>5, <2>3 DEF RelayInv
    <3>2. QED BY <1>4, <3>1, CoveredStays
  <2>4. CASE p \notin call.skip \cup told
    <3>1. Covered(p, chain[n])'
      BY <1>3, <1>5, <2>4
    <3>2. ~Preferred(call.chain, chain'[n])
      BY <2>1 DEF CallCovered
    <3>3. /\ chain'[n] = chain[n] /\ chain'[p] \in Seq(Block)
          /\ \A msg \in pushes' : msg.chain \in Seq(Block)
      BY <1>1, <1>4 DEF TypeOK, Push
    <3>4. QED BY <1>4, <3>1, <3>2, <3>3, HeightOrder DEF Covered
  <2>5. QED BY <2>2, <2>3, <2>4
<1>6. \A m, p \in Nodes : \/ peerHash'[m][p] = peerHash[m][p]
                          \/ Alike(p, m) => Covered(p, peerHash[m][p])'
  <2> SUFFICES ASSUME NEW m \in Nodes, NEW p \in Nodes, Alike(p, m),
                      peerHash'[m][p] # peerHash[m][p]
               PROVE  Covered(p, peerHash[m][p])'
    OBVIOUS
  <2>1. m = n /\ p \in known[n] /\ peerHash'[m][p] = call.chain
    BY <1>2
  <2>2. QED BY <1>5, <2>1 DEF Covered
<1>7. ToRelay(n)' \/ PeersCovered(n)' \/ ~ToRelay(n)
  <2>1. CASE call.chain = chain[n]
    BY <1>1, <1>3, <1>5, <2>1 DEF PeersCovered, Covered, Alike, RelayInv
  <2>2. CASE call.chain # chain[n]
    BY <1>1, <1>2, <2>2 DEF ToRelay
  <2>3. QED BY <2>1, <2>2
<1>8. \A m \in Nodes \ {n} : ToRelay(m) => ToRelay(m)'
  BY <1>1, <1>2 DEF ToRelay
<1>9. \A m \in Nodes : \A other \in syncs'[m] : other \in syncs[m]
  BY <1>2
<1>10. QED BY <1>1, <1>3, <1>6, <1>7, <1>8, <1>9, RelayFromNews

\* Every step without a fault keeps the relay invariant.
LEMMA NextRelay ==
  ASSUME TypeOK, TypeOK', ChainInv, NonGenesisVerified, faults = 0 => RelayInv, [Next]_vars
  PROVE  (faults = 0 => RelayInv)'
<1> SUFFICES ASSUME faults' = 0 PROVE RelayInv'
  OBVIOUS
<1>1. CASE UNCHANGED vars
  BY <1>1 DEF vars, nodeVars, RelayInv, MessageCovered, CallCovered, ToRelay, PeersCovered,
     Covered, Checks, ValidLink, BlockValid, Alike
<1>2. CASE Next
  <2>1. RelayInv
    BY <1>2, StepsGoOnward
  <2>2. CASE Work
    <3>1. ASSUME NEW n \in Nodes, NEW ballot \in tasks[n], AddMiningTask(n, ballot)
          PROVE  RelayInv'
      <4>1. UNCHANGED <<chain, known, peerHash, pushes, syncs>>
        BY <3>1 DEF AddMiningTask
      <4>2. \A m \in Nodes : miner[m] \in {"record", "push"} => miner'[m] \in {"record", "push"}
        BY <3>1 DEF AddMiningTask, TypeOK
      <4>3. QED BY <1>2, <2>1, <4>1, <4>2, QuietRelay
    <3>2. QED BY <1>2, <2>1, <2>2, <3>1, MinerStepRelay, SyncChainRelay, PublishCacheRelay,
                 PushAcceptedChainRelay DEF Work
  <2>3. CASE Environment
    <3>1. faults' # faults + 1
      BY DEF TypeOK
    <3>2. UNCHANGED nodeVars /\ UNCHANGED pushes
      BY <2>3, <3>1 DEF Environment, RefuseBallot, CastBallot, LosePush, LoseTask, Restart
    <3>3. QED BY <1>2, <2>1, <3>2, QuietRelay DEF nodeVars
  <2>4. QED BY <1>2, <2>2, <2>3 DEF Next
<1>3. QED BY <1>1, <1>2

\* At rest nobody is to relay and no message is under way, so every node is as
\* far as any node whose chain can reach it.
LEMMA RelayedAtRest ==
  ASSUME TypeOK, RelayInv, AtRest, RelayConnected, NEW m \in Nodes, NEW n \in Nodes, Alike(m, n)
  PROVE  ~Preferred(chain[n], chain[m])
<1> DEFINE group == {p \in Nodes : Alike(p, n)}
           ahead == {p \in group : ~Preferred(chain[n], chain[p])}
<1>1. \A p \in Nodes : chain[p] \in Seq(Block)
  BY DEF TypeOK
<1>2. n \in ahead
  BY <1>1, HeightOrder DEF Alike
<1>3. ASSUME NEW p \in ahead, NEW q \in Peers[p] \cap group
      PROVE  q \in ahead
  <2>1. p \in Nodes /\ q \in Nodes /\ Alike(q, p)
    BY DEF Alike
  <2>2. PeersCovered(p)
    BY <2>1 DEF RelayInv, AtRest, ToRelay
  <2>3. ~Preferred(chain[p], chain[q])
    BY <2>1, <2>2 DEF PeersCovered, Covered, AtRest
  <2>4. QED BY <1>1, <2>1, <2>3, HeightOrder
<1>4. ahead = group
  <2>1. ahead \in SUBSET group
    OBVIOUS
  <2> HIDE DEF ahead
  <2>2. QED BY <1>2, <1>3, <2>1 DEF RelayConnected
<1>5. QED BY <1>4

\* While no fault happened, whoever skips a peer in a relay is right to: the
\* peer is as far, or a message it will accept takes it there.
THEOREM RelayInvariant == Spec => [](faults = 0 => RelayInv)
<1>1. Init => (faults = 0 => RelayInv)
  <2> SUFFICES ASSUME Init PROVE RelayInv
    OBVIOUS
  <2>1. ~Preferred(<<>>, <<>>)
    BY DEF Preferred
  <2>2. \A p \in Nodes : Covered(p, <<>>)
    BY <2>1 DEF Init, Covered
  <2>3. \A n \in Nodes : PeersCovered(n)
    BY <2>2, LedgerAssumption DEF Init, PeersCovered
  <2>4. \A n, p \in Nodes : Covered(p, peerHash[n][p])
    BY <2>2 DEF Init
  <2>5. QED BY <2>3, <2>4 DEF Init, RelayInv
<1>2. QED BY <1>1, NextRelay, ChainInvariant, NonGenesisVerifiedAlways, PTL DEF Spec

\* In every network whose nodes of one manifest reach each other, once all is
\* quiet and nothing was lost, such nodes hold chains of the same height.
THEOREM AgreeAtRestAlways == RelayConnected => (Spec => []AgreeAtRest)
<1> SUFFICES ASSUME RelayConnected PROVE Spec => []AgreeAtRest
  OBVIOUS
<1>1. TypeOK /\ (faults = 0 => RelayInv) => AgreeAtRest
  BY RelayedAtRest DEF AgreeAtRest, SameHeight, Alike
<1>2. QED BY <1>1, RelayInvariant, TypeCorrect, PTL

-----------------------------------------------------------------------------
(***************************************************************************)
(* The ledger implements the ballot box.                                    *)
(***************************************************************************)
\* The instance's finite sets are the usual ones.
LEMMA BoxFiniteSets ==
  /\ \A S : Box!IsFiniteSet(S) <=> IsFiniteSet(S)
  /\ \A S : Box!Cardinality(S) = Cardinality(S)
<1>1. \A S : Box!IsFiniteSet(S) <=> IsFiniteSet(S)
  BY DEF Box!IsFiniteSet, IsFiniteSet
<1>2. \A S : Box!Cardinality(S) = Cardinality(S)
  BY <1>1 DEF Box!Cardinality, Cardinality
<1>3. QED BY <1>1, <1>2

\* The ballots of a good chain are a legal box.
LEMMA GoodIsLegal ==
  ASSUME NEW c \in Seq(Block), Good(c)
  PROVE  /\ Box!Legal(BallotsOf(c))
         /\ BallotsOf(c) \in SUBSET Ballot
         /\ Cardinality(BallotsOf(c)) = Len(c)
<1>1. \A v, w \in BallotsOf(c) : v.image = w.image => v = w
  BY DEF BallotsOf, Good, OneBallotPerImage
<1>2. QED BY <1>1, OneBallotPerBlock, ImagesOfType, BoxFiniteSets DEF Box!Legal, Good

\* Every step of the ledger is a step of the ballot box, or leaves it alone.
LEMMA NextIsBoxNext ==
  ASSUME TypeOK, TypeOK', ChainInv, [Next]_vars
  PROVE  [Box!Next]_([n \in Nodes |-> BallotsOf(chain[n])])
<1> DEFINE box == [n \in Nodes |-> BallotsOf(chain[n])]
<1>1. chain \in [Nodes -> Seq(Block)] /\ \A n \in Nodes : Good(chain[n])
  BY DEF TypeOK, ChainInv
<1>2. ASSUME NEW n \in Nodes, NEW c, chain' = [chain EXCEPT ![n] = c]
      PROVE  box' = [box EXCEPT ![n] = BallotsOf(c)]
  BY <1>1, <1>2
<1>3. CASE UNCHANGED chain
  BY <1>3
<1>4. ASSUME NEW n \in Nodes, NEW b \in Block,
             b.ballot.image \notin ImagesOf(chain[n]),
             chain' = [chain EXCEPT ![n] = Append(@, b)]
      PROVE  Box!Next
  <2>1. b.ballot \in Ballot
    BY DEF Block
  <2>2. BallotsOf(Append(chain[n], b)) = BallotsOf(chain[n]) \cup {b.ballot}
    BY <1>1, AppendImages
  <2>3. chain' = [chain EXCEPT ![n] = Append(chain[n], b)]
    BY <1>4
  <2>4. box' = [box EXCEPT ![n] = box[n] \cup {b.ballot}]
    BY <1>2, <2>2, <2>3
  <2>5. \A v \in box[n] : v.image # b.ballot.image
    BY <1>4 DEF BallotsOf, ImagesOf
  <2>6. Box!Count(n, b.ballot)
    BY <2>4, <2>5 DEF Box!Count
  <2>7. QED BY <2>1, <2>6 DEF Box!Next, Box!Ballot, Ballot
<1>5. ASSUME NEW n \in Nodes, NEW c \in Seq(Block), Good(c),
             ChainValid(n, c, chain[n]), chain' = [chain EXCEPT ![n] = c]
      PROVE  Box!Next
  <2>1. Len(c) >= Len(chain[n])
    BY <1>1, <1>5, PreferredIsLonger DEF ChainValid
  <2>2. /\ Box!Legal(BallotsOf(c))
        /\ BallotsOf(c) \in SUBSET Ballot
        /\ Cardinality(BallotsOf(c)) >= Cardinality(BallotsOf(chain[n]))
    BY <1>1, <1>5, <2>1, GoodIsLegal
  <2>3. Box!Adopt(n, BallotsOf(c))
    BY <1>2, <1>5, <2>2, BoxFiniteSets DEF Box!Adopt
  <2>4. QED BY <2>2, <2>3 DEF Box!Next, Box!Ballot, Ballot
<1>6. ASSUME NEW n \in Nodes, chain' = [chain EXCEPT ![n] = <<>>]
      PROVE  Box!Next
  BY <1>2, <1>6, EmptyChainGood DEF Box!Next, Box!Lose
<1>7. QED BY <1>3, <1>4, <1>5, <1>6, ChainSteps

\* Every behaviour of the ledger is one of the ballot box: a node counts one
\* new ballot, adopts a legal box at least as full as its own, or loses it all.
THEOREM LedgerIsBallotBox == Spec => BoxSpec
<1>1. Init => Box!Init
  BY EmptyChainGood DEF Init, Box!Init
<1>2. TypeOK /\ TypeOK' /\ ChainInv /\ [Next]_vars
        => [Box!Next]_([n \in Nodes |-> BallotsOf(chain[n])])
  BY NextIsBoxNext
<1>3. QED BY <1>1, <1>2, ChainInvariant, PTL DEF Spec, BoxSpec, Box!Spec
=============================================================================
