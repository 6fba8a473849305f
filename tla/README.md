# Blobsitter: a verification development in TLA+

Blobsitter is a protocol that keeps an append-only dataset of blobs available. A
publisher declares 31-byte chunks in blob transactions, a contract (one *instance* per
dataset) accumulates their root in a Merkle mountain range, bonded *providers* keep the
chunks and prove it, anyone may *challenge* a provider for chunks, and a *paymaster*
funded by donations reimburses the carriers of publications. This directory holds models
of contracts, daemon, carrier and data path, the TLC runs that check them, and TLAPS
proofs of what matters most.

Everything is modelled from the source; file and lines of each definition are in
`PROJECT.json` under `map`.

## 1. Inventory

| Component | State | Operations | Hard part | Modelled |
|---|---|---|---|---|
| Bonded tier, `contracts/src/BlobsitterInstance.sol` + `PayoutSink.sol` | provider records, challenge records, ETH, `claimable` | stake, initiateUnbonding, withdraw, beginProof, submitProof, submitProofEscape, lapse, challenge, respond, resolveTimeout, claim | races of challenges, exits, lapses and time-outs over one stake; windows that must meet exactly; refused pushes | yes |
| Publication, same contract | `leafCount`, `peaks`, three nonces, app pointer, successor, activity checkpoint | declareFor, setAppPointer, setSuccessor | replay, expiry and late carriage of signed intents; the checkpoint; a paymaster that must never block | yes |
| `BlobsitterPaymaster.sol` | donation ledger, token bucket, `claimable` | donate, reimburse, absorbSlash, reclaim, claim | a rate limiter with rounding; pro-rata reclaims over a balance others draw on | yes |
| `libraries/MMR.sol`, `reference/` | none (pure) | decompose, applyUpdate, root, locate, verify, sampling | two implementations that must agree on the decomposition and the carry chain for every (n, m) | yes |
| Chunk store, `daemon/src/store`, `persist.rs` | `chunks.dat`, `frontier.json`, `.lock`, frontier in memory | open, commit_declaration, chunk, reader | a crash between any two disk calls; two daemons on one directory | yes |
| Ingest and blob sources, `ingest.rs`, `source/`, `verify.rs` | none beyond the store | ingest, acquire, verify | redelivery, gaps, blobs that are missing or junk | yes |
| Follower, `follower.rs` | two cursors (memory and file), page size | tick: two scans, drive, check_root | logs left out of an answer, lagging nodes, halts, rewinds | yes |
| Responder and enforcement intake, `responder.rs`, `enforcement.rs`, `proofs.rs` | ledger (memory and file), jobs, counters | on_challenge_opened, on_challenge_resolved, drive, respond | persist failures, redelivery, answers in time for every open challenge | yes |
| Custody loop, `custody.rs`, `prover.rs` | jobs, proving task, failed period | plan, drive, reap, begin, prove, escape | decisions on a view read earlier; races of escape, proof and commit | yes |
| Transaction sender, `tx.rs` | nonce, fee, attempts of one episode | send_until | a time-out with the transaction still in the pool | yes |
| Carrier, `carrier/src` | none between calls | preflight, solvency, carry, claim | a check before inclusion against bucket, balance, fees and rivals at inclusion | yes |
| Intent packages, `intents/`, `reference/src/eip712.rs` | none | parse, validate, encode | data conversion only | partly |
| Circuits, `circuits/` | none | equivalence and custody relations | what the relation must pin down for the rest to be right | partly |
| Bindings, test kit, binary, tools | none | - | - | partly |

How they interact. The instance calls its paymaster (`reimburse` with a gas cap and a
swallowed failure, `absorbSlash`); the paymaster reads `activityCheckpointTime` back.
Both inherit push-or-park payouts. The daemon reads finalized `Declared` logs and feeds
ingest, which fetches blobs and commits to the store; it reads enforcement logs on a
second cursor into the responder's ledger; each tick it decides on the latest view of the
chain whether to respond, begin, prove or escape. Responses and custody transactions go
through one sender, which holds a mutex per escalation episode. Carriers bring signed
intents to the instance and are paid by the paymaster.

What makes each component correct:

* bonded tier: a stake moves once, to the right party; the counter that gates `withdraw`
  counts open challenges; nobody owes chunks published after leaving; no exit is blocked
  for ever; a proof on time always saves a stake and nothing else proves a period;
* publication and paymaster: declarations apply once and in order; donors get out only
  after real inactivity and hurt nobody by reclaiming; over any window the paymaster pays
  at most what the bucket allows; parked payouts are always covered;
* data path: what the contract accumulates are the chunks that were carried; what it pins
  can be proved, and nothing else verifies; a daemon gets all of it from a chain of
  sources of which one is good, and never believes the others;
* daemon: what the store commits is a prefix of the dataset whatever crashes; no
  declaration is lost unnoticed; every challenge is answered before its deadline while
  chain and node cooperate; every period is proven; duties never displace each other's
  transactions;
* carrier: no gas is spent on a transaction that was bound to revert, and a carriage
  found covered is paid.

`PROJECT.json` lists the hazards at their lines, each with the properties that would catch
it or the reason none does.

## 2. Modules

| Module | Models |
|---|---|
| `ProviderBond` | abstract: a stake is put up, returned to a leaver without open claims, or forfeited |
| `BlobsitterInstance` | the bonded tier, one action per entry point; implements `ProviderBond` |
| `Paymaster` | state and operations of the paymaster and of the payouts it inherits |
| `Publication` | the publication entry points composed with the paymaster |
| `Carriage` | the carrier program, packages, the mempool and moving fees, composed with `Publication` |
| `MerkleMountainRange` | the mountain range of contract and reference library over symbolic hashes |
| `BlobEncoding` | blob polynomials, their evaluation, packing of chunks, the canonical-packing check |
| `DataPath` | publisher, contract, circuits, blob sources, ingest and proofs on top of those two; implements `DatasetReplica` |
| `DatasetReplica` | abstract: an append-only prefix of the dataset that ends at a declaration's end |
| `ChunkStore` | the store on a disk that can lose unsynced data |
| `Follower` | declaration scan, ingest and commit, composed with the store, a chain and failures; implements `DatasetReplica` |
| `TxSender` | `send_until`, the node's pool and receipts |
| `Responder` | enforcement scan, ledger and response jobs, composed with `BlobsitterInstance` and `TxSender` |
| `CustodyLoop` | planner, driver, prover and jobs of the custody duty, composed with `BlobsitterInstance` and `TxSender` |
| `Arithmetic` | lemmas for the proofs: induction, sums over finite sets, division, powers of two |
| `BlobsitterInstanceProofs` | theorems about the bonded tier: challenges, bonds, the balance, custody, exits |
| `PublicationProofs` | theorems about publication and paymaster |
| `DataPathProofs` | theorems about the way of the data: declarations, acquisition, the store; the theory of the mountain range; peaks, proofs, samples, packages |
| `ResponderProofs` | theorems about the response ledger |
| `CustodyLoopProofs` | the sender's invariant, and the theorems about the custody duty |
| `CarriageProofs` | theorems about carriage |
| `FollowerProofs` | theorems about the store under the follower |
| `MCFollowerLiveness` | `Follower` with a budget of failures and fairness |
| `MC...` | the modules the `.cfg` files instantiate |

Definitions marked `mutant` are variants of the next definition with a plausible bug; they
are used by nothing in the specifications and serve to show that a property can fail.

### BlobsitterInstance

A transaction is atomic and one that reverts changes nothing, so each entry point is one
action with the checks as guard. Payouts are the last effect of a handler
(checks-effects-interactions), so what a recipient does when it re-enters equals a later
transaction of the same block. A payout is pushed or, for an account in `Refusers`, parked.
`now` is `block.timestamp`; several transactions may share it.

Abstractions: a pin (root, leaf count) is named by the leaf count, the dataset being
append-only; the seed of a commit is named by the block time (`prevrandao` differs between
blocks and is constant within one); an opening or proof that does not verify reverts, so only
accepted ones are actions; a declaration is a longer dataset. `announce` and `retract`
only emit events. The bond formula keeps its template constants.

### Paymaster and Publication

`Paymaster` has the contract's variables and one operator per function. `Publication` adds
the instance's publication state and calls them: a reimbursement is the last effect of a
carrier's transaction, and either the call happens or it fails and is ignored. The amount
is the source's formula over a gas fee and a blob fee drawn from small sets. `windowStart`,
`windowReimbursed` and `windowChunks` are history variables: one arbitrary window that
started at any time and is still open, so a property of it is a property of every window.
`declaredLog` is the sequence of `Declared` events.

### Carriage

A run of the carrier program is preflight, simulation, pricing, reading the bucket, reading
the balance and sending: five reads at five moments, between which blocks pass, fees
move, rivals carry, donors reclaim and the wallet rotates its key. A failing check ends the
run; `--force` and `--dry-run` are its inputs. Inclusion applies the instance's own checks
at the fees of that block, so what the program computed and what the contract computes
are two definitions. A package is its signed fields, its key and at most one defect;
parsing is left out. Gas is `MeasuredGas` plus `IntrinsicGas` for every call; the simulated
gas holds the intrinsic part a second time, as in the code.

### MerkleMountainRange, BlobEncoding and DataPath

A hash is the term of what was hashed, so equality of hashes is equality of preimages:
collisions are left out, confusion of two encodings is not. The contract's and the
reference library's versions of the update and of the sampling are separate definitions;
for decomposition, location and verification one definition stands for both. Recursion over
sequences is by recursive functions and folds. A blob is a sequence of field elements
over a prime field of 17 elements, a field element is a high byte and a chunk, and
evaluation is the barycentric formula of the source; the properties compare it with Lagrange's
polynomial. Fiat-Shamir is modelled by what it gives: the point is a hash of all a
declaration fixes, so two lists of blobs agree at it only if they agree everywhere.
Soundness of the proof system is assumed: the verifier accepts exactly what the
circuit's relation accepts of some witness.

A publisher may submit any blobs with any witness and any claimed peaks. The daemon asks
its sources in order; an endpoint that is not honest answers with any set of blobs. The
per-blob check, reordering, unpacking, recomputation of the subtree roots and the
contradiction halt are as in `ingest.rs` and `verify.rs`.

### ChunkStore and Follower

A chunk is named by the nonce of the declaration it came from, which tells a wrong chunk
from a right one. Each file has two faces: what a process reads, and what a power cut may
leave of it. `chunks.dat` after a power cut has any subset of what was written since its
last fsync and any length in between; a rename of `frontier.json` may be undone until
the directory is synced; the cursor file is never synced, so any version may come back. A
kill loses the process's memory and its lock and keeps the page cache.

A step of the daemon ends where it waits for the node or the disk: finalized tag, page,
blobs, write, fsync, rename, directory sync, cursor, root check. Each may fail; the
failing call ends the scan as in the code (halt before the block, or the floor for a nonce
gap) and the root check still runs. A node may lag behind in its finalized tag and may leave
the logs of `Droppable` out of an answer. Pages shrink on failures and grow back. A
write that fails may have written some of the chunks.

Not in it: a fragment of a chunk at the end of the file (beside a frontier never counted by
`found_bytes / 31` and always cut off; without one it is refused like whole chunks, for
which it would stand), the backoff between ticks and the failed-ticks alarm.
Opening the store is one step: its truncation is redone by the next open if it is cut
short. The order of the blob sources is in `DataPath`, the enforcement scan in `Responder`.

### TxSender

One operator per step of `send_until`, each telling how the call goes on, so that the
responder and the custody loop decide what a result means. One mutex, handed over in
order, is held for a whole episode; its nonce is fetched once; an answer may be lost after
the node took the transaction; after every error the sender asks whether an earlier attempt
landed, and a failing query counts as no. Fees are left out: an attempt outbids the one before. The pool replaces the
transaction of a pending nonce, keeps `PoolSlots` of an account and may forget.

### Responder

The scan for enforcement events with its own cursor, halt and requested rescan; the ledger
in memory and on disk, each write of which may fail; start-up reconciliation; the streak of
ticks in which the contract counts more open challenges than the ledger; one job per
challenge. The cursor file is truncated, then written: an error or a kill may leave it `Empty`,
and then no start gets past `Follower::new`. What the other scan may leave behind when it is
cut short is `ingestCut`: an unreadable scan cursor, or chunks without a frontier; both are
refused likewise (`Follower` has the details). `Refused` is a daemon that stays down for one of
these reasons. The contract is `BlobsitterInstance` itself; a block holds at most one event, so
a cursor is a position in the list of events. A response is executed on a chain that does
not reorganise.

### CustodyLoop

A tick reads the latest block and the provider's record (`ReadChain`), and acts on what it
read later (`Drive` = reap, plan, spawn). `DeriveStatus` is the daemon's own computation of
the custody status. The prover answers or times out; the witness is cut from the store
when the job is spawned and fails if the store lags. The contract is `BlobsitterInstance`.

## 3. Runs

| Run | Question | Bounds |
|---|---|---|
| `instance_challenges` | do counter, pins, exits, money and the abstract bond survive overlapping challenges, exits, lapses and refused pushes? | two providers, two challenges, windows of 2, all new business by time 3, clock to 7; the one account refuses at will |
| `instance_custody` | do view and lapse agree, does a slashed provider answer nothing, does a proof always cure, is only fresh randomness used and drawn once, does every challenge settle and every exit end? | one provider, two challenges, periods of 3, grace 1, clock to 12 (four periods), past every deadline |
| `publication` | are the ledgers backed, is the bucket a bound, are reclaims fair, is dormancy real, is the log sequential? | two accounts, one refusing; rate 3 per 2 ticks (rounds down), cap 3, window 2, three chunks in any split, clock to 5 |
| `carriage` | is a covered carriage paid, and does one revert only by losing a race? | two runs of one carrier, nine packages with every defect, a rival who carries, donates and reclaims, one key rotation, fees that move by up to a quarter in all |
| `datapath` | do peaks equal the data, is every pin provable, does nothing else verify, does the daemon catch up? | every leaf count up to 9 in three declarations, blobs of 4 elements, five blobs of which two are not canonical, two bad beacon endpoints and an archive |
| `follower_store` | is what is committed the dataset's prefix, through crashes and two daemons? | three blocks, three declarations of two chunks (so a write can tear), pages of 1 and 2, two kills and a power cut |
| `follower_liveness` | do gaps heal, are losses noticed? | three declarations of which the first and the last may be left out of an answer, three failures of any kind |
| `responder_faults` | is only what was answered taken as answered, is every challenge met, does the ledger drain? | one challenge, two attempts, two pool slots, two faults of node or process and two failing writes |
| `custody_loop` | does every period get proven, is one payload on its way at a time, do duties displace each other? | a period of 3 whose last instant is left to the escape hatch and most of a second one, one fault |
| `follower_crash`, `follower_root_alarm`, `responder_ledger` | violations, see findings | two blocks, one daemon; one challenge, one failed write |

Why the bounds are enough. The bonded tier's hazards involve one stake and two events on it
(two challenges; a challenge and a lapse; a challenge and an exit), and a second provider
only to show that its state is not touched; windows of 2 distinguish before, at and after an
edge, and the clock runs past the latest deadline. The bucket's hazards need two draws and
a refill in between; reclaims need two donors, one parked payout and one slash. Carriage
needs a rival, a second transaction of the same carrier, and a window long enough for a
deadline to pass. The mountain range's carry chain and the decomposition at a leaf count
that is not aligned both happen below nine leaves, with blobs of four chunks also the
boundary between blobs and a partial last blob. The store's need a commit that fails and a
later one that succeeds at the same offset, plus a crash at each point. The responder's
hazards are a fault at one step and a second one during the recovery from it; the custody
loop's are one fault in a period that still has time. Several properties are proved
without bounds (section 4). `MaxTime`, `Horizon`, `MaxKills`, `MaxFaults` and the other
bounds are constants named as bounds in the modules. With a bounded clock and nothing left
to do the models stop, so the runs set `CHECK_DEADLOCK FALSE`.

What the bounds leave out. In `responder_faults` the node leaves out `ChallengeOpened`
events only (`DroppableKinds`): an entry whose resolution event is never seen leaves the
ledger when the job looks at the chain, once the challenge is brought back or the daemon
restarts. With one challenge the run cannot show one such entry hiding another challenge from
the count that is compared (`enforcement.rs:128`). In `carriage` both fees move together, the second run of the program is for a
package that is still pending, and the history window of `Publication` is closed (`OneWindow`) from the
start. A beacon endpoint that answers with junk keeps its later endpoints from being asked
in that attempt; `CatchesUp` holds because the archive comes after it. That a failing paymaster
leaves publication alone (`BlobsitterInstance.sol:1042`) is how `Publication` is built and no
property of it. `custody_loop` allows
one attempt per episode; several are in `responder_faults`, and `NoEviction` and
`OneSubmission` are proved for any number.

Fairness. `FairSpec` (in `instance_custody`) assumes that blocks keep coming and that
`resolveTimeout` and `withdraw` are called once possible: both are open to anyone, and pay
the challenger and the withdrawal address. `LiveSpec` (`follower_liveness`) bounds the number
of failures and assumes weak fairness of the daemon's working steps: a supervisor restarts
it and the loop in `run` never ends. `DataFairness` is weak fairness of asking and ingesting,
which every tick repeats. `ResponderFairness` and `CustodyFairness` schedule the daemon's tasks
and restart it, make blocks final, and include a transaction that is in the pool again and
again (strong fairness, since a resend or eviction may interrupt); time need not pass, so the
liveness properties say "unless the window runs out" or speak of the period in which time
stops. No claim is made for a disk or a node that fails for ever.

### What each property is for

* `CounterIntegrity`, `NoOrphanChallenge`, `ExitBound`, `ExitPinning` (test plan I7, I8,
  I10): the withdrawal gate and the edges of the unbonding window.
* `Solvency` (I4, I5, I20): balance = stakes + open bonds + parked payouts, at all times.
* `ImplementsBond` (I6, I9): every step is a step of the abstract bond.
* `SlashedNeverAnswers`: what the abstract bond does not tell apart, a response and a refund.
  After a slash, by a lapse or another challenge, only the refund closes what is open.
* `CustodyViewAgrees`, `CureWins` (I14 to I16): three pieces of code compute the same
  two-missed-periods rule with different offsets. `FreshRandomness` (I14): a seed is of the
  period it proves, and the operator cannot draw another one until that period is proven.
  `ChallengesSettle`, `ExitCompletes`: nothing is stuck for ever.
* `Backed`, `BucketBound`, `ReclaimTelescopes`, `DormancyHonest`, `LogSequential` (I11,
  I13, I17, I18, I20).
* `CoveredIsPaid`, `RevertsOnlyByRaces`: the program's arithmetic against the contract's, and
  its checks against the contract's, with time between the two.
* `PeaksAreTheData`, `PinsAreProvable`, `OnlyTheDataVerifies`, `SamplesAreUniform`: contract and
  reference library, a table with a count and a map by height, against the mountain range
  built from the whole list.
  `EvaluationInterpolates`, `PackagesAreAccepted`: the encoding; `NoContradiction`: the circuit's
  relation is strong enough for the daemon's halt never to happen; `ImplementsReplica`,
  `CatchesUp`: sources.
* `CommittedIntact`, `ImplementsReplica`: the store's crash-safety protocol.
* `GapsHeal`, `LossIsNoticed`: what the rescan and the root check are worth together. The
  second holds only because of the root check: a left-out log of the last declaration is
  not found by any nonce.
* `RespondedIsAnswered`, `ChallengesAreMet`, `LedgerDrains`: the ledger against the contract.
  The second allows for a daemon that is `Refused`, as `LossIsNoticed` does: without that escape
  TLC finds the truncated cursor (see the divergences).
* `StatusAgrees`, `OneSubmission`, `PeriodGetsProven`, `NoEviction`: the custody duty against
  the custody clock, and the sender under two callers.

### Findings

1. `follower_crash`: a daemon killed between its first append and its first frontier write
   leaves chunk bytes without a frontier; `Store::open` takes that for a lost frontier and
   refuses, although its comment and `d5_crash_consistency.rs` say every crash is recovered from.
2. `follower_root_alarm`: `check_root` runs after a failed scan and compares the store, which
   lags by design, with a newer block: one failed `getLogs` call raises the alarm that "must
   never cry wolf".
3. `responder_ledger`: the ledger changes in memory before it is written and keeps the change
   when the write fails; the redelivered event then finds its entry and passes, so the cursor
   file moves past an event of which nothing is on disk, contrary to the module's comment.
   `responder_faults` shows that the detection of missed events repairs it after a restart.

Divergences met while modelling that no run states: each of the two cursor files is truncated,
then written (`follower.rs:490`, `follower.rs:499`); an error or a kill in between leaves an empty
file, which does not parse, and `Follower::new` refuses every later start, although the comments
at `follower.rs:488` and `497` say that a lost cursor only causes a rescan (`Refused`, in `Follower`
and in `Responder`); after an accepted proof the operator can begin
again in the same period and draws a new seed, which `test-plan.md:64` excludes (the period
is proven already, so nothing is gained); and with two faults in one period, beyond the bound
of `custody_loop`, the driver can do so itself, which the comment at `custody.rs:178` excludes.

## 4. Proofs

All theorems hold for every value of the constants under the named assumptions
`ParamsAssumption` and `BoundsAssumption` (instance), `PaymasterAssumption` and
`PublicationAssumption` (publication), `CarriageAssumption`, `TxSenderAssumption`,
`CustodyAssumption`, `ResponderAssumption`, `ChunkStoreAssumption`, `FollowerAssumption`,
`RangeAssumption`, `BlobAssumption`, `GeneratorAssumption` and `DataPathAssumption`, which TLC
evaluates on every run. They say that amounts and times are
natural numbers, that the accounts are finitely many, that the bounty is at most the stake,
that a day and a period are not zero, that the escape threshold is below the period
(`config.rs:82` enforces it), that the operator is an account, what the duties are, that an
empty cursor file is no number,
that the marks for no daemon and no frontier are neither, that a declaration has a chunk,
that blobs are functions from places to field elements, that the modulus is prime, that the
width of a blob is a power of two that divides the modulus less one, and that the generator
generates (`reference/src/lib.rs:452`: "7 generates Fr*"). The bounds of the model are
arbitrary naturals.

`Arithmetic`: the library's induction theorems take the predicate as an operator, which the
provers do not instantiate. `SubsetInduction` and `NumberInduction` take it as a set, and
rest on the library's theorem that strict inclusion is well-founded on finite sets. From them
follow what changing one or two entries does to a sum over a function (`TotalOfUpdate`,
`TotalOfTwo`), and what every recursive function of the modules computes. `PowerOfTwo` is the
library's theorem on the number of subsets of a set.

`BlobsitterInstanceProofs`:

* `TypeCorrect`, `CounterCorrect`. `TypeOK` is not inductive: that `openChallenges` is
  decremented only above zero rests on what it counts. `IInv` adds `CounterIntegrity`, that
  an assigned record names a provider, and that anchors lie in the past. The heart is
  `ResolvePreserves`: resolving removes one element from the set of exactly one provider.
* `ExitPinningHolds`, `NoOrphanChallengeHolds`, by a second invariant (`LifeInv`) that relates
  a provider's status to its exit time and snapshot, and pins to leaf counts: a withdrawal
  needs counter zero, hence no open challenge; no challenge is admitted afterwards.
* `RefinesBond`: initial states map to initial states, and every action maps to a bond
  action or a stutter.

* `SolvencyHolds`: `FundsInv` adds to `Solvency` what each payout needs, above all that a
  provider's stake is there while it is staked; each action moves one summand of three sums
  and the balance by as much.

In the same module, `ClockInv` says that a proven period is a past or the present one, and that a
commit was drawn in the period it names; with division by an arbitrary period
`CustodyViewAgreesHolds`, `CureWinsHolds`, `FreshRandomnessHolds` and `SlashIsAnnouncedHolds`
(a slash without an overdue challenge was announced by the public view; no run checks it)
follow. `SlashedNeverAnswersHolds` needs the type invariant only. `ExitInv` bounds the deadline of every open challenge against a leaver
(`ExitBoundHolds`).

`PublicationProofs`:

* `BucketBoundHolds`: in an open window, what was paid plus what is left in the bucket is at
  most the cap plus the refill up to the last update (`BucketInv`, in wei-seconds so that
  rounding down only helps; `FloorBound`).
* `DormancyHonestHolds`: the chunks of the window are bounded by those since the last
  checkpoint once that checkpoint lies before the window.
* `LogSequentialHolds`: one lemma about appending to the log.
* `BackedHolds`: the totals follow the sums over the ledgers, and every payout is of at most
  what is available; `ReclaimTelescopesHolds` is then arithmetic over shares rounded down.

`CustodyLoopProofs`: `SenderInv` says that the queue has no duty twice, that
only its head is past fetching its nonce, that this nonce is not behind the account's, and
that no transaction of another duty is pending with it. That the node's pending count skips
every pending nonce is what makes it inductive. `NoEvictionHolds` follows for any number of
duties, slots, attempts and faults. `LoopInv` ties the driver's jobs to the episodes:
`OneSubmissionHolds`. `LoopImplementsInstance` shows that the composition takes only steps of
the instance, so the theorems above hold beside any such daemon; `StatusAgreesHolds` is
arithmetic over any period and grace.

`CarriageProofs`: `CarriageInv` keeps, for every run and every pending transaction, what of
the preflight still binds (that only nonces, key and time can have moved against it):
`RevertsOnlyByRacesHolds`. `EnoughWasExpectedHolds` is the arithmetic behind `CoveredIsPaid`: for
any number of blobs and any rounding, a request at fees a quarter higher is at most what was
expected. `CoverInv` keeps with a pending transaction what the program had read when it found
it covered: `CoveredIsPaidHolds`. The invariants of the paymaster and of the log are kept by
whatever is carried, by whom and at whatever fees, where `Publication` draws them from small
sets: `CarriageKeepsTheMoney` (the sums, the cover, the bucket's bound),
`CarriageKeepsTheShares` (telescoping) and `CarriageKeepsTheLog` (the log, and dormancy),
all for an arbitrary window. No run checks these three.

`ResponderProofs`: `RespondedIsAnswered` is not inductive, since a job marks its entry upon a
receipt and a start takes what the file says. `LedgerInv` adds that a receipt of success is
one of an answer the contract took, that memory and file are both `Truthful` (an entry marked
as responded is of a closed challenge), and that pages name events of the log; a page is
consumed position by position, so `Truthful` is kept by induction along it
(`RespondedIsAnsweredHolds`). `ResponderImplementsInstance` carries the instance's theorems over.
`OpenedIsOnDiskIfCarefulHolds` bounds the third finding: `ScanInv` says that ledger and file
agree while the daemon runs, and that the file has an entry for every opened challenge that
is not resolved and whose event lies before the cursor file or on the page just taken in; a
write that fails, or an opening left out by a node, is the only way out of it.

`DataPathProofs`: a blob is determined by its evaluations, because the points include the
domain and its points are distinct (`RootsDistinct`, below; `EvaluationsBind`), so the circuit's word for the witness is a word for what was carried.
`DataInv` says of every event that canonical blobs of its hashes exist whose chunks are those
published and whose subtree peaks are those declared (`LogInv`), that the store holds the
published chunks up to an event's end (`StoreInv`), and that an acquisition is complete only if
every hash of the next event is served (`AcquisitionInv`). Since a hash determines its blob, what
was acquired is what was carried: `NoContradictionHolds` and `DataRefinesReplica`.
`SamplesAreUniformHolds` is an induction over the digits.

The same module has the theory of the mountain range, for any `MaxHeight`, any leaf counts
up to `2^MaxHeight` and any contents. `Top(n, h)` is what is left of `n` above its lowest `h`
bits, `High(n, h)` that part of it.

* `PeakStarts`: the subtree of height `h`, where `n` has a bit, begins at leaf
  `High(n, h + 1)`; the subtrees cover `0..n - 1` without gaps.
* `DecomposeAligned`: every subtree that `decompose` yields begins at a leaf count divisible
  by its size, and together they end at `n + m`. That there is always a tallest subtree that
  fits (`TallestFits`) makes the recursion well defined.
* `BitsCarry`: adding `2^h` to a count divisible by it clears the run of ones from `h` on,
  and sets the first free bit. `CarryIsRoot`: joining the peaks of that run with the new one,
  older ones on the left, gives the root of the subtree at the free height.
* `Tabulates` is what a collection of peaks has to say of a count. `MergeTabulates` and
  `MergeMaps` show that a merge in the contract's table and one in the library's map keep it,
  `TableAfter` and `MapAfter` that a whole update does: both accumulators end with `PeaksAt`
  the new count (`ContractMerges`, `DaemonMerges`).
* `PeaksLocal`: the peaks of `n` depend on the first `n` chunks only, so those of a pinned
  snapshot can be computed by a daemon that has more, or only just enough.
* `LocateFinds`, `Ancestors`: the climb from a leaf along the siblings ends at its peak
  (`ProvenVerifies`), and a climb that ends at that peak began at that leaf, whatever the
  path (`VerifiedIsData`): a node determines its two children.

`RangeInv` is `DataInv` with `PeaksInv` (the contract's peaks, and each pinned root, are those
of the published chunks) and `StorePeaksInv` (the daemon's peaks are those of its chunks).
`PeaksAreTheData` speaks of present peaks only; a pin outlives the state it was made in, so
the invariant also says what was pinned. From it follow `PeaksAreTheDataHolds`,
`RootsAgreeHolds` (what `check_root` compares is equal at every pinned leaf count),
`OnlyTheDataVerifiesHolds`, `PinsAreProvableHolds` and `PackagesAreAcceptedHolds`, where
`PackedIsCanonical` is the counting of places in the last blob. `AcceptedIsTheDataHolds` goes
beyond what TLC can enumerate: any proof set or witness at all that `respond`,
`submitProofEscape` or the custody circuit accepts against a pin holds the published chunks at
the positions asked for.

The field, in the same module, for any prime and any width: `Cong` is congruence, and its
lemmas are what lets the provers compute in the field with integers.

* `NoZeroDivisors` is Euclid's lemma by a least counterexample: the remainder of the modulus by
  it would be a lesser one. With counting on finite sets, every nonzero element has the
  inverse the code computes (`InvertedIs`), and the powers of the generator below the order
  of the group are distinct (`PowersDistinct`), so that the order is the modulus less one
  (`GeneratorOrder`).
* `BitReversal`: reversing the bits permutes the places of a blob (a sum of distinct powers of
  two determines its bits, bits determine a number). Hence the points of the domain are
  distinct roots of unity (`RootsDistinct`, `RootsOfUnity`).
* Polynomials are functions on the field built by Horner's scheme. `MonicDivides` is division
  by `z - a` with remainder, `MonicFactored` that a monic polynomial with as many roots as its
  degree is the product over them; the product itself is `Others`, which the property states.
* `PowerQuotient` divides `z^n` by `z - a` and evaluates the quotient at `a` (the derivative). For
  a point of the domain that quotient vanishes at all the others, so it is `Others`
  (`OthersQuotient`), and the terms of the two sums agree up to the factor that the code
  multiplies with at the end (`TermsAgree`, `SumsAgree`): `EvaluationInterpolatesHolds`.

`FollowerProofs`: `StoreInv` says of every version of the frontier a power cut may leave, and
of every frontier in memory, that its leaf count is that of its nonce and that both faces of
the chunk file agree with the dataset up to there; that one version is the newest and one the
oldest; that a running daemon holds the lock, and has the version on disk or the one before; and
what a commit has achieved after each of its calls. `WriteIntact` (writing at the committed end
damages nothing, gaps and earlier torn writes included) and `ImageAgrees` (a power cut keeps
what is synced and agreed) carry it: `CommittedIntactHolds`. The replica that survives is the
oldest version's, and no step brings back an older one: `StoreRefinesReplica`.

`CursorNeverSkipsHolds` is about the loss that no nonce shows: a cursor that passes a
declaration without ingesting it. `CursorInv` says that every
declaration up to a cursor, in memory or in the file, is in the store unless its log may be
left out, and that what a page holds up to its end is ingested or still in the batch,
in order; `ingest` returns before the cursor moves. The hypothesis that power was never cut is needed: a
cut may undo the frontier's rename and keep the cursor's. `OpensOnceCommittedHolds`, from
`StoreInv`, bounds the first finding: only a crash before the first durable commit leaves a
store that no daemon opens.

Only model-checked: all liveness (`ChallengesSettle`, `ExitCompletes`, `CatchesUp`, `GapsHeal`,
`LossIsNoticed`, `ChallengesAreMet`, `LedgerDrains`, `PeriodGetsProven`), which is out of the
prover's reach.

## 5. Not modelled, and what is left

* Circuits: the relations they assert are in `DataPath`; the proof system is assumed sound.
* Intent packages: fields, key and defect are in `Carriage`; parsing, hex, JSON and the EIP-712
  digest are data conversion without state.
* Test kit, bindings, tools, process start-up: the packages the test kit builds are in
  `DataPath`; the rest holds no protocol state.
* Reorganisations: the daemon reads final logs, but decides and sends on the latest block. A
  response that is reorganised away after it was marked would not be sent again
  (`responder.rs:215`); this is not modelled.
* Resource use: sizes of files, pages and requests.

Next would be a chain that reorganises under `Responder` and `CustodyLoop`, and the composition of
instance and paymaster in one balance (slash remainders and reimbursements are arbitrary
inputs of `Publication` now).
