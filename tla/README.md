# SecurePoll in TLA+

SecurePoll runs anonymous elections. Voters sign ballots with linkable ring
signatures: anybody can check that a ballot comes from *some* member of a
published anonymity group, and two ballots of one voter carry the same *key
image*. This directory holds TLA+ models of the parts of the system where
order, concurrency and failure decide whether that works, the TLC runs that
check them, and TLAPS proofs of what matters most.

Paths below are relative to the repository (`src/`).

## 1. Inventory

Three programs talk over HTTP, TCP and files.

| Part | State | Operations | Modules |
|---|---|---|---|
| **Ledger node** (`blockchain/src`, Rust/tokio) | chain, seen key images, mining pool, mining lock, tally cache, peer table with the chain hash each peer is thought to hold, count of refused ballots | `POST /ballot`, `add_mining_task`, `drive_mining_pool`, `add_block_to_chain`, `sync_chain`, `push_chain_sync`, discovery, restart | `Chain`, `Ledger`, `BallotBox` |
| **Election API: elections** (`api/src/services`: election, candidate, guards, lifecycle, dashboard) | `elections` (status, dates, group size), `candidates` with positions | create, edit, transition, candidate add/edit/remove/reorder | `Election`, `Dashboard`, `BallotPaper`, `Details` |
| **API: people** (registration, review) | `registrations`, `voters`, `election_eligibility` | register, approve (onto a roll or not), reject, enrol, remove | `People`, `Election` |
| **API: anonymity groups** (ring) | `rings`, `ring_members` | form, export manifest (publishes the first time) | `Election`, `GroupRegister` |
| **API: key replacement** (keyRotation) | `key_rotation_requests`, `voters.publicKey` | request, correct, approve, reject | `People`, `Election` (approval) |
| **API: ballot access** (ballotAccess) | `ballot_access_tokens` | issue, dispatch, resend, redirect, retry, redeem | `BallotAccess`, `LinkRegister` |
| **API: operators** (adminManagement, adminAuth) | `admins`, tokens in browsers | create, change role, deactivate, sign in and out | `Operators` |
| **API: audit record** | `audit_log` | add entries, read page by page | `Audit` |
| **Web: administrators** (`web/src/pages/admin`, `components`, `hooks`) | what is on screen, ticked, typed, awaited | select and decide many, confirm, type reasons, edit forms and ballot | `Listing`, `Confirmation`, `Drafts`, `BallotPaper`, `Details` |
| **Web: voters** (`RegisterPage`, `ReplaceKeyPage`, `VotePage`, `VerifyPage`) | keys, receipts | make and save a key, cast, look up a vote | `KeyCustody`, `Voting` |
| **Web: signatures** (`web/src/crypto/lrs`; `blockchain/src/lrs` verifies) | none | sign, encode, verify, link | `Signing` |
| **API: infrastructure** | connection pool, mailer, chain adapters, rate limits | | not modelled |
| **Scripts** | | launch nodes, tally, seed, demo vote | not modelled |

**How they interact.** The API writes an election manifest to a file; every
ledger node loads such a file at start (`election.rs`), so nodes may hold
different ones. The browser fetches candidates and group from the API with a
one-time link, signs, and posts the ballot to the root ledger node. That node
hands it to a random share of its peers; every node that gets it mines it, and
a node that mined a block, or accepted a longer chain, pushes its *whole chain*
to its peers. Admins work through the web interface on one PostgreSQL database
behind the API.

**What is hard.**

- *Ledger.* Every message and every request is a task of its own. `sync_chain`
  may replace the chain while the same node spends seconds mining on the old
  tip; mutexes are released between replacing the chain, refreshing the tally
  and gossiping; two nodes mine the same slot; messages are lost, peers
  forgotten, nodes restart empty.
- *API.* Requests of several admins interleave statement by statement. Most
  take a row lock on the election; manifest export, key replacement and
  everything in ballot access do not. Publishing a group cannot be undone, and
  neither can a mail. A locked row protects the row, not what was counted to
  decide about it.
- *Web.* A page shows what was fetched some time ago. Answers arrive late, out of
  order or never, while the officer ticks, types, confirms and goes elsewhere;
  tabs share storage; other officers work on the same rows. What a voter loses
  (the key file) nobody can give back.

**What makes a component correct.**

- Ledger: one counted ballot per key image, whatever chains are exchanged;
  `has_voted` answers from the chain; chains stay hash chains; nodes with the
  same manifest end with chains of the same height; mining and gossip come to
  rest; every queued ballot is mined; the tally is the chain's tally.
- Election: when voting is open everybody on the roll is in exactly one published
  group of sufficient size; a published group never changes; all manifests and
  their recorded digests agree; an election that closed registration can go on.
- People: an identity belongs to one person, a decision is made once, and what
  the screens say of duplicates and of replacing a key is what the server does.
- Ballot access: one live link per voter, no dead link accepted, one first
  collection; whoever is shown as sent has the link that works.
- Operators: an active super-admin is always left; rights that were taken away
  start nothing new.
- Administrators' pages: an act is about what was on screen and typed for it.
- Voters' pages: the key that counts is in the voter's hands; a receipt is a
  recorded ballot.
- Signatures: what was signed verifies and links, and nothing else was signed.
- Audit: a reader who turns every page has read every entry.

`PROJECT.json` lists every hazard at its line with the property that covers it.

## 2. Modules

| Module | What it is |
|---|---|
| `Chain` | The data and rules of one chain: ballots, blocks, hashes, `Block::validate`, `Chain::validate`, `Chain::validate_addition`. Pure operators. |
| `Ledger` | The network: one action per critical section of `app.rs`, the HTTP endpoint and the mining loop; lost messages, failed sends, restarts. |
| `BallotBox` | Abstract specification of the ledger: every node has a set of ballots, one per key image, that grows by one, is taken over from a box at least as full, or is lost. |
| `LedgerProperties` | The ledger's invariants, liveness, and the instance of `BallotBox`. |
| `MCLedger`, `MCGossip` | Instances for TLC: two nodes; three nodes in a line. |
| `LedgerProofs` | The proofs, with lemmas on what the rules of `Chain` return and preserve. |
| `Election` | One election in the API: one action per transaction, except forming groups (two steps) and exporting the manifest (a step per statement). |
| `GroupRegister` | Abstract specification of an election's groups: the first group out settles the division of the roll; groups only go out; voting waits for the last. |
| `Dashboard` | What the dashboard asks administrators to do next, worked out from the election's state. Pure operators. |
| `ElectionProperties`, `MCElection`, `ElectionProofs` | The election's properties, its instance for TLC and its proofs. |
| `BallotAccess` | Links of one election, one action per statement of issuing, dispatching, resending, correcting, retrying and retrieving; mail that fails, bounces, or arrives although it was reported failed; crashes. |
| `LinkRegister` | Abstract specification of the links: one live link per voter, replaced links stay dead, only the live one is accepted. |
| `BallotAccessProperties`, `MCBallotAccess`, `BallotAccessProofs` | Its properties, instance and proofs. |
| `People` | Registrations, voters and key replacements: requests at desks, one action per statement; locks and unique indexes. |
| `Operators` | Accounts, tokens in browsers, tabs, and the transactions that change accounts. |
| `Listing`, `Confirmation`, `Drafts` | Three mechanisms of the administrators' pages: selections over paged lists, the dialog in front of irreversible steps, texts typed about people. |
| `BallotPaper`, `Details` | Editing candidates and the details of an election, on pages and elsewhere, with the services behind them. |
| `KeyCustody`, `Voting` | A voter's key from its making to its file; casting and looking up a ballot. |
| `Signing` | Linkable ring signatures step by step over a group of prime order. |
| `Audit` | The audit record and its pages. |
| `...Properties` | For each of these, what must hold (`VoterProperties` for both of the voters' modules), and the statements TLC refutes. |
| `Portal`, `MCPortal` | The eleven modules from `People` to `Audit` side by side, and their instance for TLC. |
| `PeopleProofs`, `OperatorsProofs` | Proofs about `People` and `Operators`. |
| `VoterProofs` | Proofs about `KeyCustody`, `Voting` and `Signing`. |
| `PagesProofs` | Proofs about `Listing`, `Drafts`, `Confirmation`, `Details`, `Audit` and `BallotPaper`. |
| `PortalProofs` | What is proved of a part holds in `Portal`. |

How they compose: `Election` and `Dashboard` read one state; `Voting` stands on
`BallotBox`, the abstract ledger that `Ledger` is proved to implement, instead of on
the network; `Details` ends where `Election` begins, at the publication of the groups.
`BallotAccess` takes from the election its status and its roll. The parts of
`Portal` share no state that these modules model, so a behaviour of `Portal` is a
behaviour of one part, chosen at the start. Exploring them one after the
other in one run says as much as exploring their product.

### Ledger and code

| Variable | Code |
|---|---|
| `chain`, `seen`, `pool`, `cache` | `App::chain`, `seen_key_images`, `mining_pool`, `votes_cache` |
| `miner`, `job` | where `drive_mining_pool` stands; `miner # "idle"` means `mining_lock` is held |
| `syncs` | calls of `sync_chain` between its critical sections |
| `known`, `peerHash` | `KnownPeers`: the table and `id_map` |
| `tasks`, `pushes` | `DistributeMiningTask` and `PushChainReq` messages not yet handled |

A ballot that fails verification or whose image is on the chain is refused at
the endpoint (`RefuseBallot`) and again by every node that receives it
(`AddMiningTask`). The mining loop is `TakeTask`, `ReadTip` (the tip is read
*before* the seconds of mining), `AddBlockToChain` (`validate_addition` under
the chain and seen locks; a block that came too late is requeued), then
`RecordMinedVote` and `PushMinedChain`, each after the locks were released.
Adoption is `SyncChain`, `PublishCache`, `PushAcceptedChain`.

Abstractions:

- A block's hash is the sequence of block contents up to it: SHA-256 is taken
  to be injective. Nonce and difficulty are left out; mining succeeds.
- Signature verification is the constant `Verifies[n]`, the ballots that node
  `n`'s manifest verifies. Two nodes may have different manifests.
- `add_mining_task` is one action: what it does before queuing only reads, and
  an image that lands on the chain between its look at `seen` and the queue is
  dropped later by `TakeTask`. Requeueing a late block is part of
  `AddBlockToChain`: nothing reads the pool in between but `contains_key_image`,
  which then finds the ballot one step earlier.
- The code keeps a restarted node's old address until a send to it fails; the
  model drops it at once and enters the new one at once.
- A broken message is a lost message. The framing that breaks it is not modelled.
- Lock order is not modelled (`sync_chain` takes `chain` before `known_peers`,
  `push_chain_sync` and `save_chain` the other way round); see the hazards.

### Election and code

| Variable | Code |
|---|---|
| `status`, `ringSize`, `cands` | `elections.status`, `.ringSize`, the rows of `candidates` |
| `pending`, `voters`, `roll` | `PENDING` registrations, `voters`, `election_eligibility` |
| `key` | `voters.publicKey`, as the number of replacements |
| `rings` | `rings` joined with `ring_members`, in index order; `ref` is `chainTxRef` (set together with `publishedAt`) |
| `forming` | a `formRings` transaction that has read the electorate; the election row is locked (`Unlocked` is false) |
| `exports` | calls of `exportChainManifest` between their statements |
| `rotating` | approvals of `reviewKeyReplacement` between check and write |
| `manifests` | files handed out |

Requests that take the row lock are atomic, since whoever could disturb them
takes it too. Their guards read over other connections (`guards.service.ts` uses
the default executor), but the only writers that need no lock submit or decide
registrations or publish groups: a registration between guard and write is as
good as one after the write, and a group stays published. `formRings` is split because an
export, which takes no lock, can publish a group between its check and its
delete; the unique index on `(election, index)` then refuses the new rows
(`RollBackForming`). `exportChainManifest` runs outside any transaction:
`ListGroups`, one `ReadMembers` per group, `CheckPublish`, one `PublishGroup`
per group, `HandOut`. Its first reads are fused, as status, group size and
candidates are settled by the time it is allowed. An admin has one export under
way at a time; two admins give the races. `Crash` stops the API process between any two of these.

Abstractions: a person has one identity and one registration at a time;
editing a candidate and reordering the ballot change what adding and removing
change, under the same guard, and are left out; so are titles and dates,
which are editable in the same states as the group size. The digest kept in
`chainTxRef` is taken to be injective. Formed groups follow every order of the
roll (`SetToSeqs`), which is what `shuffle` can produce. `Elsewhere` are voters
on the roll of another election that stays open.

### Ballot access and code

| Variable | Code |
|---|---|
| `token` | rows of `ballot_access_tokens`: the hash (as the number of its link), `to`, `status`, the resend window, `redeemedAt` |
| `inbox` | mails that reached an address |
| `pass` | a request of `ballotAccess.service.ts` between two of its statements: which rows it read, which it is at |
| `retrieval` | a `redeemForRing` transaction and the row it holds |
| `accepted`, `clicks`, `disturbed` | history the properties speak of |

A request is `Request`, then `Continue` statement by statement (`Rotate`,
`Send`, `Record`). No statement takes a lock or a claim but the
retrieval's, as in the code. `disturbed` marks voters two passes carried at the
same time or whose pass died with the process.

### People and code

`registration`, `voter`, `replacement`, `roll` are the tables, `task` a request between
two statements. A row locked `FOR UPDATE` is `LockedRegistration` or
`LockedReplacement`; the partial unique indexes are `LiveUnique` and `VoterUnique`.
A replacement begins with the status page (`ShowStatus`); the request is then read
(`RequestKeyReplacement`) and either corrects the pending registration under its lock
(`CorrectKey`, `UpdateRegistrationKey`) or is checked and filed (`CheckReplacement`,
`CreateReplacement`). It carries along what its page showed, as history: no guard reads it.
Mail addresses are typed in several spellings and compared in one (`Lower`).

### Operators and code

`account` is `admins`; `token` is `localStorage`, one for each browser; `shown` is
`AuthContext`'s operator, one for each tab; `request` a request with the role that the
look-up found when it arrived. `UpdateAdmin` and `CreateAdministrator` start one,
`LockAdmin` locks the target and counts, `WriteAdmin` writes, once for the role and
once for the activity when both change. `crossed` remembers that two changes overlapped.

### The administrators' pages and code

| Module | State | Abstractions |
|---|---|---|
| `Listing` | `rows`, `loading` are `useAsyncData`'s; `ticked`, `anchor` are `useSelection`'s; `call` is `decide` or `transfer` under way | a view stands for filter, search and page number |
| `Confirmation` | `screen`, `target`, `preview`, `consent` are `ElectionDetailPage`'s or `GroupsPage`'s and `ConfirmDialog`'s state; `awaited` are pre-flights not yet answered | guards are one truth value; `Colleague` is any other officer |
| `Drafts` | `facing` is the record on screen, `draft` the text with the tag it was opened under, `letter` the request under way | a text is the set of people it was typed for |
| `BallotPaper` | `ballot` is `candidates.position`; `listed`, `editing` the page's state | names and parties are left out; the two passes of a new order are one transaction, worked out by `Parked` and the rows written |
| `Details` | `details` is the row, `edits` the form, `divided` the sizes of the groups | two dates and the group size stand for all; an instant is read by the officer's clock as `FromLocalInput` and `ToLocalInput` do |
| `Audit` | `log`, and the page's address bar, `onScreen` | an entry is its moment and its election |

An officer's change that other officers may make at the same moment is an action of its
own (`Elsewhere`, `Colleague`, `OthersEdit`, `OthersReorder`, `OthersUpdate`).

### The voters' pages and code

`KeyCustody` numbers keys as they are made; a `wizard` is a `RegisterPage` or
`ReplaceKeyPage` open in a tab, `file` is what `downloadKeyFile` saved, `stored` is
`localStorage`. The office is `Review`, `ReviewReplacement`, `FreezeGroups`; registrations
may be decided after groups froze, and groups hold some of the approved. In `Voting` a
`booth` is an open `VotePage`, `receipts` is `voteReceipts`, `verify` and `lookup` are the
`VerifyPage`'s; the node behind it is `counted` (its box) and `taken` (its pool).

### Signatures and code

A point is a combination of independent bases over a field of `Order` elements: the
generator, and one base for each input of `hashToPoint`, between which nobody knows a
relation. `hashToScalar` is a remembered oracle: a new transcript gets any
answer, an old one its old answer. `Sign`, `Walk` and `Close` are `sign.ts`. Verifying
(`Submitted`, `Rewalk`, `Reject`) is by either of two programs: the ledger's `lrs/verify.rs`,
which the node runs on every ballot and every block, and the browser library's `verify.ts`,
which its tests run and casting does not. They walk alike and give up
differently (`Degenerate`): the ledger refuses a point that is the identity, the browser cannot
multiply its base point by zero. The fields of the encoding are `wire`.
That forging is infeasible is a computational statement and none of these.

## 3. Runs

| Run | Bounds | What it shows |
|---|---|---|
| `ledger_faults` | 2 nodes, the second with a manifest that lacks one voter; 2 key images, 2 candidates, 2 submissions, 2 clock values, 1 fault | type correctness, `NoDoubleVote`, `SeenMatchesChain`, `ChainsLinked`, `CacheCountsOnce`, `NonGenesisVerified`, and that `Ledger` implements `BallotBox` |
| `ledger_gossip` | 3 nodes in a line, 2 ballots being mined on 2 of them, no fault | `AgreeAtRest`: the relay reaches the node that knows only the middle one |
| `ledger_settles` | 2 nodes, 2 submissions, no fault, fairness | `Settles`: mining retries and relays of equal-height chains end |
| `election_groups` | 4 people (3 vetted before), 2 super-admins, 2 candidates, group sizes 2 and 3, floor 2, 2 formations, 1 key replacement, crashes | type correctness, `VotingNeedsGroups`, `ManifestsAgree`, `NextStepNamed`, and that `Election` implements `GroupRegister` |
| `access_links` | 2 voters, 2 addresses, 2 passes and 1 retrieval at a time, batches of 2, 1 resend, load 6, 1 crash | type correctness, `TruthfulWhenAlone`, `ResendsBounded`, `TurnoutCounted`, and that `BallotAccess` implements `LinkRegister` |
| `portal_parts` | per part, below | the properties of the eleven parts of `Portal`, 845,180 states |
| `ledger_tally`, `ledger_stranded` | as `ledger_settles` | **violated**: `TallyMatchesAtRest`, `IdleMeansDrained` |
| `election_stuck` | 4 people, group sizes 2 and 3, floor 2 | **violated**: `FrozenCanForm` |
| `election_rotation` | 3 people, one key replacement | **violated**: `VotersCanSign` |
| `operators_last`, `votes_recorded` | as `portal_parts` | **violated**: `SomeoneRuns`, `RecordedAsSaid` |

The parts of `portal_parts`:

| Part | Bounds | Properties |
|---|---|---|
| `People` | 2 registrations, 1 replacement, 2 keys, 3 spellings of 2 addresses, 2 desks, 4 requests or pages | `IdentityExclusive`, `FlagsAgree`, `OfferHonoured`, `DecisionsStand` |
| `Operators` | 2 operators, 3 tabs in 2 browsers, 2 requests at a time, 3 in all | `SomeoneRunsUnlessCrossed`, `ChangesAreOthers`, `RightsAreFresh` |
| `Listing` | 2 views with a row in common, 2 loads | `SelectionStays` |
| `Confirmation` | 2 openings, 1 change by others | `FreshConsent`, `PreviewFits` |
| `Drafts` | 2 people, 3 screens | `TextsReachTheirOwn` |
| `BallotPaper` | 3 candidates, orders with a name left out or twice | `OrderAsAsked` |
| `KeyCustody` | 2 citizens, 2 tabs, 2 keys, 3 visits | `KeyHeld` |
| `Voting` | 1 key image, 2 choices, 2 tabs of its voter, 2 casts (2 key images in `votes_recorded`) | `ReceiptTruthful` |
| `Signing` | a group of order 5, 2 elections, groups of 2 and 3 that share a voter, 2 signatures | `SignaturesVerify`, `SignaturesBind`, `LinkedExactly` |
| `Details` | a clock that repeats a reading and is behind, group sizes default 3, 0 and 4, a roll of 6, 2 inputs | `OnlyTypedChanges`, `FormedAsPreviewed` |
| `Audit` | pages of 1, 3 transactions of 1 or 2 entries at 3 moments, 2 elections, 4 loads | `NothingSkipped` |

*Why these bounds.* Two submissions by one or two voters are the least that
compete for a slot or for a key image; with two candidates they may be
different votes of one voter. Two clock values order or tie two blocks of one
slot, which is all `Chain::validate` compares. One fault suffices to lose any
one message or restart either node at any point; the proofs cover any number.
Three nodes in a line are the least where a relay is needed. Four voters in
groups of two make two groups, so an export can stop between them; three give a
remainder of one, and a group size of three over four or two voters the other
cases of `partition`. Two formations let one be replaced while it is exported,
two exporters race for every statement.

Two passes over two voters are the least where one carries a row the other has
finished, and where the last of a batch and the first of the next differ; with load
6 (an issue counts for its voters, a pass for each row it reads) each voter is
issued, sent, corrected or retried, and sent again. Two desks and two registrations are
the least of a race for an identity; four requests are a submission and an approval
of each, or a submission, an approval, and then two pages and their requests, or one and its review. Two operators
are the least that can remove each other; the third tab is in another browser. Two
openings of a dialog with two answers on the way cover every crossing of answers; two
tabs with two keys give one the key the other was to submit. In a group of order 5 with one answer
zero and one not, every case of a closing response occurs (`Draws` and `Answers` choose
which), and so do both verifiers' rejections. In the audit record a page of one entry and four loads let each of three
transactions come between any two pages. Where a proof covers every value of the
constants (section 4), the run is there to find mistakes cheaply.

Symmetry: candidates are interchangeable; in `MCElection` so are voters vetted
before the election, and super-admins; in `MCBallotAccess` voters and passes. None of these
runs checks liveness. `MCGossip` starts from `CastInit`, which
`Spec` reaches by two submissions fanned out to `n2`, and its `VIEW` leaves out
the tally and the refusal counter, which no guard and no property of that run
reads. Configurations turn deadlock checking off where the
bounded number of requests comes to an end; the election never stops, since
the process may always restart.

**Violated properties** quote the repository and are refuted by the code:

- `TallyMatchesAtRest` — `vote_cache.rs:4`, "Rebuilt whenever the chain
  changes". `sync_chain` builds the new cache under the chain lock and stores it
  after releasing it; a block mined in between is counted and then wiped, or
  counted although its block is gone.
- `IdleMeansDrained` — `app.rs:214`, "task left in pool for that run to pick
  up". A drain that found the pool empty and has not yet dropped its guard picks
  nothing up; the ballot waits for the next submission.
- `FrozenCanForm` — `guards.service.ts:61-62` and `:90`. Closing registration
  compares the roll with the policy floor, not with the election's group size;
  with fewer voters than one group `formRings` always throws and no transition
  leads back.
- `VotersCanSign` — `keyRotation.service.ts:378-381`. The re-check "under the
  lock" locks the request, not the elections it reads.
- `SomeoneRuns` — `admins.repository.ts:104`, "so two concurrent role changes cannot
  both pass the last-super-admin check". The lock is on the target's row; two
  super-admins who change each other lock different rows, both count two, and nobody
  is left. `SomeoneRunsUnlessCrossed` is what holds.
- `RecordedAsSaid` — `VotePage.tsx:177`, "Your ballot has been recorded on the ledger".
  After a lost reply the voter chooses again; the node answers OK and keeps the ballot it
  already had. `ReceiptTruthful` is what holds.

Each names the strongest statement that does hold beside it where there is one.
Further statements of the repository's comments and texts are written in the
`...Properties` modules, are refuted by TLC when given as invariants, and are listed under
`findings` with the line they quote. The bounds above suffice for all but three:
`SelectedIsSeen` needs a third load, `RecordedAsShown` a third operator, `VerifyFits` a
second key image.

| Statement | Why it fails |
|---|---|
| `SentIsLive` | a late outcome is written over a correction; two passes carry one row |
| `SelectedIsSeen` | a selection comes back with its view, whatever became of its rows |
| `CheckedBeforeConfirmed`, `AcknowledgedAsWorded` | a missing pre-flight passes; a tick stays when its wording changes |
| `FrozenAsShown` | the request to freeze names no shuffle |
| `BulkTextsReachTheirOwn` | the reason for a selection outlives it |
| `StoredWorks` | the browser forgets the old key when a replacement is filed, not when it is approved |
| `NothingRecordedAsSaid` | the page says nothing was recorded whenever the reply was lost |
| `RecordedAsShown` | a tab goes on naming an operator whose token another tab replaced |
| `EachExactlyOnce`, `FormAsAsked` | a candidate named twice passes the count; the form for a new candidate is still the one being edited |
| `OfferedAnew`, `TypedStays` | the groups page counts the groups there would be; the answer to a save empties the form, with what was typed since |
| `VerifyFits` | the page shows the answer of an earlier look-up beside another key image |
| `EachCanBeFound`, `LastIsLast` | entries of one moment have no order; the number of pages is counted before the page is read |

**Mutants.** For every property of a passing run `PROJECT.json` names a variant
of one definition, defined just before it and marked *Variant*, that a plausible
slip in the code would give (a dropped guard, a reset left out, keys joined
instead of copied, an off-by-one in the late-block rule). With it TLC finds the
property violated.

**Fairness.** `Settles` assumes `WF_vars(Work)`: as long as some task of a node
can go on, the runtime eventually polls one. tokio guarantees this for ready
tasks, and none of the modelled steps waits for anything outside the model. No
fairness is assumed of submissions or faults, and none of single steps.

## 4. Proofs

Every theorem assumes only the named assumptions on the constants, which bound
nothing but the counters (and `AgreeAtRestAlways` that the network is connected): *any* finite or infinite sets of people, keys, requests,
tabs and candidates, *any* number of steps. Each proof has one step for each action,
and under it one for each conjunct the action can disturb.

**The ledger** (`LedgerProofs`; any finite set of nodes, any manifests,
any number of submissions and faults).

- `TypeCorrect`: `Spec => []TypeOK`.
- `ChainInvariant`: `Spec => []ChainInv`, the inductive invariant. None of the
  properties is inductive by itself. `NoDoubleVote` at a node that adopts a
  chain needs every chain *in a message* to hold one ballot per image, because
  `Chain::validate` neither checks the first block nor compares later images
  with it; at a node that appends a block it needs the seen set to be exactly
  the chain's images, because that set is all `validate_addition` asks. So
  `ChainInv` says, of every node's chain and every chain under way, that it is
  linked and has one ballot per image, that `seen` mirrors the chain, and that
  a block mined for position 0 was mined on an empty chain (`MinedFromTip`),
  since `validate_addition` does not look at the parent of a first block.
- `NoDoubleVoteAlways`, `SeenMatchesChainAlways`, `ChainsLinkedAlways` follow.
- `CacheCountsOnceAlways` and `NonGenesisVerifiedAlways` have invariants of their
  own over the same lemmas.
- `AgreeAtRestAlways`: `RelayConnected => (Spec => []AgreeAtRest)`. A relay leaves peers out:
  those its sender named (`sent`), and those `id_map` says hold the chain. `RelayInv` says that this
  is right as long as nothing was lost. A peer is *covered* for a chain if it is as
  far as that chain, or a message under way holds one as far that it will accept. Then: the sender of
  a message is as far as its chain, and the peers it names are covered, if the receiver may
  accept the chain at all; so are the peers an unfinished `sync_chain` skips, and every
  peer for the chain noted for it; and a node covers all its peers for the chain it
  holds, unless its mining loop or an unfinished `sync_chain` for just that chain is still to push
  it. The last clause is why a call that pushes the chain *as it is by then* suffices,
  whatever replaced the accepted one. Two facts carry the steps: height is a total preorder
  (`HeightOrder`), and without a fault no chain is taken back and no message is consumed
  in vain (`StepsGoOnward`), so what is covered stays covered (`CoveredStays`). At rest every peer
  of the same manifest is as far as the node, and the nodes as far as a given one are closed
  under peers, so they are all (`RelayedAtRest`, no induction on paths). `RelayConnected` is
  needed: a node between two others that loaded another manifest relays nothing it rejects.
  `MCGossip` asserts it of its line, as `LineConnected`.
- `LedgerIsBallotBox`: `Spec => Box!Spec`. Every step of the network is a step
  of the abstract ballot box under the mapping `box[n] = BallotsOf(chain[n])`,
  or leaves all boxes alone.

The first part of the module proves what the operators do: a block accepted by
`ValidateAddition` keeps a chain linked and free of repeated images; a chain
accepted by `ChainValid` is at least as long as the one it replaces; and so on.

**The election** (`ElectionProofs`; any finite set of voters, any admins, candidates,
group sizes, formations, replacements, exports and crashes). `ElectionInv` has seven parts:
the type; `Staged`, what the guards of a stage saw still holds in it; `ReadWhole`, a
formation under way has read the roll as it is; `GroupsDivideRoll`; `OneFormation`, all
groups are of the last formation and a published one carries the digest of the manifest as it
is now; `ExportsSound`; `HandedOut`, a manifest that went out is the current one and every
group is published. The work is in `ExportsSound`. An export runs outside any transaction, so what it
holds may be of a formation that is gone. The invariant says: what an export listed and
read is of *one* formation (group rows are deleted and inserted together, and `ReadMembers`
fails when its group is gone); if that is the last formation, what it read is what the
groups are; and a group it takes for published is one, which stops any new formation. So either the
manifest is current or nothing of it can be written.

- `PartitionConsumes`: the sizes `partition` works out add up to the roll, for every roll
  and target. The sizes are summed by a recursive function; the induction is over the set of
  naturals for which the closed form holds, since the library's induction theorems
  take an operator. With it each voter gets exactly one place (`NobodyStranded`).
- `OneManifest`, `NeverSilent` follow from the invariant. `NeverSilent` is where
  `evaluatePublishGuards` counts waiting registrations, and the dashboard names them.
- `ElectionImplementsRegister`: `Spec => RegisterSpec`. `PublishGroup` is the register's
  step (the first settles the division), opening the vote is another, everything else a stutter; a
  formation changes the groups only while none is out.

**Ballot access** (`BallotAccessProofs`). `AccessInv` adds to the type that the row a
retrieval has locked keeps the link it was found by (no statement of a pass takes a lock,
but none of them can write a row that is locked) and that the window's counter is
the number of resends in it.
`ResendsBoundedAlways` and `TurnoutCountedAlways` follow. `AccessImplementsRegister`:
`Spec => Links!Spec`; a rotation is the register's replacement of a link, a retrieval its
acceptance, and everything else a stutter. `DeliveryInv` is about one delivery that no other overlaps:
its copy of the address is the row's, the link it is sending is the row's, and before it
records SENT that link is in the inbox (`TruthfulWhenAloneAlways`). It needs that nobody else
carries the voter (`Alone`), and that `disturbed` is exactly where this fails; hence the condition
of the property. `AccessTypes` bounds links and resends.

**People** (`PeopleProofs`). `PeopleInv` says that what a request has locked is
pending and locked by it alone, that replacements are about voters, and that a voter has the
national id and address of an approved registration that no live one shares.
The last is what makes the two unique indexes, each over one table, decide for both:
`IdentityExclusive` speaks of a registration *and* a voter, which no index compares. The
first is what makes a write after a check safe (`DecisionsStandAlways`,
`IdentityExclusiveAlways`). `FlagsAgreeAlways` compares what two screens say by queries of
their own. `OfferHonouredAlways` is about a span of steps: "offering a replacement the server would refuse is
worse than explaining why it is unavailable" (`VoterStatusPage.tsx:37-38`). `OfferInv` keeps for
each request what its page's offer implied (nothing pending; on no roll, if registration had
closed), and `RollStays` that a closed roll takes nobody, so a voter the page offered a
replacement is refused only for what happened since, or for a key that is taken
(`RefusalsExplained`, a case for each step that may refuse).

**Operators** (`OperatorsProofs`). As long as no two super-admins have changed each other,
at most one request is about to take a right from a super-admin, and whoever made it stays
one (`Sound`). So somebody is left (`SomeoneRunsAlways`); the run `operators_last` shows that
the condition cannot be dropped. `ChangesAreOthersAlways` and `RightsAreFreshAlways` follow
from the types of requests under way.

**Voters** (`VoterProofs`).

- *Keys.* `KeyHeld` speaks of what the server has. The invariant adds what
  each open page believes: what it takes to be downloaded is in the voter's file, and nothing
  is sent, nor the last step reached, before that (`Truthful`).
- *Casting.* A receipt is written when the node says OK, some steps after it took the ballot.
  `HeldOnceAnswered` covers the time between: while the node loses nothing and a key's
  ballots agree, an OK under way is about a ballot the node holds. The node is the
  abstract box, which `LedgerIsBallotBox` lets stand for the network.
- *Signatures.* The signer walks the ring from the place after its own, the verifier
  from the first, so the proof cannot follow one along the other. Instead `WalksRing` says of a
  finished signature that every step of the ring, wherever the walk began, was hashed to the next challenge,
  and for this the last response has to close the walk (`ModCloses`, arithmetic modulo `Order`).
  The verifier asks for the same hashes and, as the oracle answers the same question in the same way,
  meets the signer's challenges (`SignaturesVerifyAlways`), unless it gave up on the way, which
the theorem states exactly for each of the two. A verifier that accepts *another*
  statement has asked a different question and met the same first challenge
  (`SignaturesBindAlways`). Key images of different keys or elections differ, as no base has a
  known multiple in another (`LinkedExactlyAlways`). Nothing here needs `Order` to be prime.

**Administrators' pages** (`PagesProofs`).

- `ListingInv` (ticked rows of the shown view were loaded there), `DraftsInv` (outside a
  selection, the text on screen and the one under way are about the
  person shown) and `ConfirmationInv` (consent belongs to the opening on screen, awaited
  pre-flights to its step unless one overtook another).
- *Details.* `FormsFilled`: where nobody typed, a form shows the record it was filled with, read by
  the officer's clock. That clock is any sequence of readings, so that a date that goes
  through the form comes back as itself or as an earlier instant with the same reading
  (`ThroughTheClock`); this is what `OnlyTypedChangesAlways` allows and no more.
- *Audit.* An entry's depth is the number of matching entries not older. Entries only push
  others down, so an unread entry stays below the pages that were shown (`Below`), and a page
  shows all that is within its reach (`PageShowsNext`): an entry whose moment is its own is read
  before any older one (`NothingSkippedAlways`).
- *Ballot paper.* `OrderNeverCollides` is about every prefix of the rows written for an order,
  for which `PlaceAfter` says where a candidate is after `k` of them: where it was, then parked, then in its
  place. Parked places are above all others because a position is never above `Cap`
  plus the number of candidates ever added (`BelowParked`), which removals and
  chosen positions must not break; that `Offset` is at least their sum is what
  `schemas.ts:62` caps positions for (10,000 against a cap of 999, so for the first 9,001 candidates).

**The portal** (`PortalProofs`). `PartsBehave`: each behaviour of `Portal` is a behaviour of
each part. So what the theorems above say of `PeopleSpec`, `SigningSpec` and the others, the run
`portal_parts` checks on the composition; `PortalTypes` states it for the types.

*Only model-checked:* `Settles` (liveness under fairness is beyond the
prover), and the violations, which are facts about particular
behaviours. Out of the prover's reach in general: liveness under fairness, `ENABLED`, and
induction theorems that take an operator as a parameter. Where an argument needed induction over what a
recursive function computes (`Cursor`, the sums of group sizes) or a least or greatest element, it is done over
a set of naturals or by the well-foundedness of `<`.

## 5. What is not modelled

- Curve arithmetic and hashing in both signature libraries, and that forging is hard: the
  ledger takes verification as a constant, `Signing` works in an ideal group.
- The wire framing (a broken message is a lost one) and the checks of a manifest file when
  a node starts (a node has the manifest it has).
- The database's connection pool and the order of the ledger's mutexes: both can make
  requests wait for each other, and both are listed as hazards.
- The chain adapters, which only read the ledger for the API, or throw; the
  ledger's read endpoints; lists, searches and statistics, which change nothing.
- Mail transport and rate limits: a mail is delivered, fails or is reported wrongly; a limit
  only refuses.
- Presentation: layout, wording and validation messages, except where a
  property is about what a screen says.
- Scripts run by hand.

Within the modelled parts: the audit page's filter is by election only;
when the answer to a creation is lost, submitting the form again is not followed; an
officer has one dialog open at a time, as the page allows. `PROJECT.json` gives for
each component what is left out.

## 6. Plan

1. `Pool`: transactions that hold a connection while their guards ask for more, with
   the pool's size as a constant; the ledger's lock order likewise.
2. Wire framing and manifest checks as pure operators.
