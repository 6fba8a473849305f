------------------------------ MODULE Follower ------------------------------
(***************************************************************************)
(* The daemon's ingest path: the scan for Declared logs of finalized       *)
(* blocks (daemon/src/follower.rs), the ingest of one declaration          *)
(* (ingest.rs) and the chunk store it commits to (store/), against a chain *)
(* that keeps finalizing declarations, a node that may fail, lag or leave  *)
(* logs out of an answer, and daemons that are killed at any point or lose *)
(* power.                                                                  *)
(*                                                                         *)
(* A step of a daemon ends where it waits for the node or the disk.  Every *)
(* failing call ends the tick; the next tick tries again.                  *)
(***************************************************************************)
EXTENDS ChunkStore

CONSTANTS
  LogPage,         \* the most blocks asked for in one getLogs call
  Empty            \* a cursor file that was truncated and not yet written

\* Bounds of the model, and the failures it has.
CONSTANTS
  MaxBlock,        \* blocks ever finalized
  MaxDeclarations,
  DeclarationSizes,
  Droppable,       \* the nonces whose log a node may leave out of an answer
  MaxKills, MaxPowerCuts

ASSUME FollowerAssumption ==
  /\ LogPage \in Nat \ {0}
  /\ MaxBlock \in Nat /\ MaxDeclarations \in Nat /\ MaxKills \in Nat /\ MaxPowerCuts \in Nat
  /\ DeclarationSizes \subseteq Nat \ {0}
  /\ Droppable \subseteq Nat

ScanFloor == 0     \* the block before deployment

VARIABLES
  \* The chain
  finalized,       \* the last finalized block
  declared,        \* declared[n + 1]: block and leaf count of declaration n
  dataset,         \* the published chunks
  \* The cursor file, likewise with what a power cut may leave
  cursorFile, cursorOnDisk,
  \* Each daemon's memory
  pc,
  cursor,          \* the last block whose declarations are ingested
  currentPage,
  target,          \* the finalized block this tick scans to
  batch, pageEnd,  \* the logs left to dispatch, and the last block of their page
  rootAlarm,       \* the last root check found the store to disagree
  kills, powerCuts

chainVars == <<finalized, declared, dataset>>
cursorFileVars == <<cursorFile, cursorOnDisk>>
faultVars == <<kills, powerCuts>>
daemonVars == <<pc, cursor, currentPage, target, batch, pageEnd, rootAlarm>>
vars == <<storeVars, chainVars, cursorFileVars, daemonVars, faultVars>>

Nonces == 0..Len(declared) - 1
Block(n) == declared[n + 1].block
LeafCount(n) == IF n = 0 THEN 0 ELSE declared[n].leafCount   \* before declaration n
ChunksOf(n) == SubSeq(dataset, LeafCount(n) + 1, declared[n + 1].leafCount)

\* leafCount() of the contract at a block.
ChainLeafCount(b) == LeafCount(Cardinality({n \in Nonces : Block(n) <= b}))

(***************************************************************************)
(* The chain: declarations land in the next block, which then is final.    *)
(***************************************************************************)

Declare(size) ==
  /\ Len(declared) < MaxDeclarations /\ finalized < MaxBlock
  /\ declared' =
       Append(declared, [block |-> finalized + 1, leafCount |-> Len(dataset) + size])
  /\ dataset' = dataset \o [i \in 1..size |-> Len(declared)]
  /\ UNCHANGED <<storeVars, finalized, cursorFileVars, daemonVars, faultVars>>

FinalizeBlock ==
  /\ finalized < MaxBlock
  /\ finalized' = finalized + 1
  /\ UNCHANGED <<storeVars, declared, dataset, cursorFileVars, daemonVars, faultVars>>

(***************************************************************************)
(* One tick of the follower.                                               *)
(***************************************************************************)

At(d, step) == pc[d] = step
Goto(d, step) == pc' = [pc EXCEPT ![d] = step]

SetCursor(d, b) ==
  /\ cursor' = [cursor EXCEPT ![d] = b]
  /\ cursorFile' = b
  /\ cursorOnDisk' = cursorOnDisk \cup {b}

\* fs::write truncates the file before it writes, and may fail, or be cut short by a
\* kill, before, between or after.
SetCursorFails ==
  /\ cursorFile' \in {cursorFile, Empty}
  /\ cursorOnDisk' = cursorOnDisk \cup {cursorFile'}
  /\ UNCHANGED cursor

\* Follower::new after Store::open.
Start(d) ==
  /\ At(d, "down")
  /\ cursorFile # Empty
  /\ OpenStore(d)
  /\ Goto(d, "idle")
  /\ cursor' = [cursor EXCEPT ![d] = cursorFile]
  /\ currentPage' = [currentPage EXCEPT ![d] = LogPage]
  /\ UNCHANGED <<chainVars, cursorFileVars, target, batch, pageEnd, rootAlarm, faultVars>>

\* The node's finalized tag; a lagging node answers an older one.
BeginScan(d, f) ==
  /\ At(d, "idle")
  /\ f <= finalized
  /\ target' = [target EXCEPT ![d] = f]
  /\ rootAlarm' = [rootAlarm EXCEPT ![d] = FALSE]
  /\ Goto(d, "scan")
  /\ UNCHANGED <<storeVars, chainVars, cursorFileVars, cursor, currentPage, batch, pageEnd,
                 faultVars>>

PageEnd(d) ==
  IF target[d] < cursor[d] + currentPage[d] THEN target[d] ELSE cursor[d] + currentPage[d]

\* The nonces declared after block b, up to block e, in order, without those in dropped:
\* the one increasing enumeration of that set.
Logs(b, e, dropped) ==
  LET found == {n \in Nonces : b < Block(n) /\ Block(n) <= e} \ dropped IN
  {logs \in [1..Cardinality(found) -> found] :
     \A i, j \in DOMAIN logs : i < j => logs[i] < logs[j]}

FetchPage(d, dropped) ==
  /\ At(d, "scan")
  /\ cursor[d] < target[d]
  /\ \E logs \in Logs(cursor[d], PageEnd(d), dropped) : batch' = [batch EXCEPT ![d] = logs]
  /\ pageEnd' = [pageEnd EXCEPT ![d] = PageEnd(d)]
  /\ currentPage' = [currentPage EXCEPT ![d] = IF 2 * @ < LogPage THEN 2 * @ ELSE LogPage]
  /\ Goto(d, "page")
  /\ UNCHANGED <<storeVars, chainVars, cursorFileVars, cursor, target, rootAlarm, faultVars>>

FetchFails(d) ==
  /\ At(d, "scan")
  /\ cursor[d] < target[d]
  /\ currentPage' = [currentPage EXCEPT ![d] = IF @ = 1 THEN 1 ELSE @ \div 2]
  /\ Goto(d, "check")
  /\ UNCHANGED <<storeVars, chainVars, cursorFileVars, cursor, target, batch, pageEnd, rootAlarm,
                 faultVars>>

ScanDone(d) ==
  /\ At(d, "scan")
  /\ cursor[d] >= target[d]
  /\ Goto(d, "check")
  /\ UNCHANGED <<storeVars, chainVars, cursorFileVars, cursor, currentPage, target, batch, pageEnd,
                 rootAlarm, faultVars>>

\* The locals of a page go out of scope.
EndPage(d) ==
  /\ batch' = [batch EXCEPT ![d] = <<>>]
  /\ pageEnd' = [pageEnd EXCEPT ![d] = 0]

PageDone(d) ==
  /\ At(d, "page")
  /\ batch[d] = <<>>
  /\ EndPage(d)
  /\ \/ SetCursor(d, pageEnd[d]) /\ Goto(d, "scan")
     \/ SetCursorFails /\ Goto(d, "check")
  /\ UNCHANGED <<storeVars, chainVars, currentPage, target, rootAlarm, faultVars>>

\* Ingest of the next log: an old nonce is a redelivery.
Redelivered(d) ==
  /\ At(d, "page")
  /\ batch[d] # <<>>
  /\ Head(batch[d]) < frontier[d].nonce
  /\ batch' = [batch EXCEPT ![d] = Tail(@)]
  /\ UNCHANGED <<storeVars, chainVars, cursorFileVars, pc, cursor, currentPage, target, pageEnd,
                 rootAlarm, faultVars>>

\* A future nonce: a log of an earlier block was left out, so everything is scanned again.
ResumeBefore(n) == Block(n) - 1   \* mutant
ResumeAfterGap(n) == ScanFloor
NonceGap(d) ==
  /\ At(d, "page")
  /\ batch[d] # <<>>
  /\ Head(batch[d]) > frontier[d].nonce
  /\ SetCursor(d, ResumeAfterGap(Head(batch[d]))) \/ SetCursorFails
  /\ EndPage(d)
  /\ Goto(d, "check")
  /\ UNCHANGED <<storeVars, chainVars, currentPage, target, rootAlarm, faultVars>>

\* The due declaration: its blobs were acquired and its chunks checked against the
\* subtree roots, which fit only at the leaf count the declaration extends.
Acquired(d) ==
  /\ At(d, "page")
  /\ batch[d] # <<>>
  /\ Head(batch[d]) = frontier[d].nonce
  /\ LeafCount(Head(batch[d])) = frontier[d].leafCount
  /\ Goto(d, "append")
  /\ UNCHANGED <<storeVars, chainVars, cursorFileVars, cursor, currentPage, target, batch, pageEnd,
                 rootAlarm, faultVars>>

\* Any failure of an ingest stops the scan just before the block of its log.
Halt(d) ==
  /\ SetCursor(d, Block(Head(batch[d])) - 1) \/ SetCursorFails
  /\ EndPage(d)
  /\ Goto(d, "check")
  /\ UNCHANGED <<chainVars, currentPage, target, rootAlarm, faultVars>>

\* No source has the blobs, or what they hold contradicts the chain.
NotAcquired(d) ==
  /\ At(d, "page")
  /\ batch[d] # <<>>
  /\ Head(batch[d]) = frontier[d].nonce
  /\ Halt(d)
  /\ UNCHANGED storeVars

\* Store::commit_declaration, call by call.
NextFrontier(n) == [nonce |-> n + 1, leafCount |-> declared[n + 1].leafCount]

CommitStep(d, from, to) ==
  /\ At(d, from)
  /\ Goto(d, to)
  /\ UNCHANGED <<chainVars, cursorFileVars, cursor, currentPage, target, pageEnd, rootAlarm,
                 faultVars>>

Write(d) ==
  /\ CommitStep(d, "append", "sync")
  /\ WriteChunks(d, ChunksOf(Head(batch[d])))
  /\ UNCHANGED batch
SyncSkipped(d) ==   \* mutant
  /\ CommitStep(d, "sync", "rename")
  /\ UNCHANGED <<storeVars, batch>>
Sync(d) ==
  /\ CommitStep(d, "sync", "rename")
  /\ SyncChunks
  /\ UNCHANGED batch
Rename(d) ==
  /\ CommitStep(d, "rename", "syncdir")
  /\ RenameFrontier(NextFrontier(Head(batch[d])))
  /\ UNCHANGED batch
Committed(d) ==
  /\ CommitStep(d, "syncdir", "page")
  /\ SyncDirectory(d)
  /\ batch' = [batch EXCEPT ![d] = Tail(@)]

CommitFails(d) ==
  \/ At(d, "append") /\ TornWrite(d, ChunksOf(Head(batch[d]))) /\ Halt(d)
  \/ pc[d] \in {"sync", "rename", "syncdir"} /\ UNCHANGED storeVars /\ Halt(d)

\* check_root at the scanned block, unless the node's view is older than the cursor; a
\* call that fails ends the tick without it.
TickDone(d) ==
  /\ At(d, "check")
  /\ target' = [target EXCEPT ![d] = 0]
  /\ Goto(d, "idle")
  /\ UNCHANGED <<storeVars, chainVars, cursorFileVars, cursor, currentPage, batch, pageEnd,
                 faultVars>>

DisagreesAhead(d) ==   \* mutant
  /\ target[d] > cursor[d]
  /\ frontier[d].leafCount # ChainLeafCount(target[d])
Disagrees(d) ==
  /\ target[d] >= cursor[d]
  /\ frontier[d].leafCount # ChainLeafCount(target[d])

CheckRoot(d) == TickDone(d) /\ rootAlarm' = [rootAlarm EXCEPT ![d] = Disagrees(d)]
CheckFails(d) == TickDone(d) /\ UNCHANGED rootAlarm

(***************************************************************************)
(* Failures.                                                               *)
(***************************************************************************)

Forget(D) ==
  LET Reset(f, v) == [d \in Daemons |-> IF d \in D THEN v ELSE f[d]] IN
  /\ pc' = Reset(pc, "down")
  /\ cursor' = Reset(cursor, ScanFloor)
  /\ currentPage' = Reset(currentPage, LogPage)
  /\ target' = Reset(target, 0)
  /\ batch' = Reset(batch, <<>>)
  /\ pageEnd' = Reset(pageEnd, 0)
  /\ rootAlarm' = Reset(rootAlarm, FALSE)

\* A daemon may be killed anywhere.
Kill(d) ==
  /\ kills < MaxKills
  /\ ~At(d, "down")
  /\ kills' = kills + 1
  /\ StoreKilled(d)
  /\ Forget({d})
  /\ UNCHANGED <<chainVars, cursorFileVars, powerCuts>>

\* Nothing syncs the cursor file: any version may be left.
PowerCut ==
  /\ powerCuts < MaxPowerCuts
  /\ powerCuts' = powerCuts + 1
  /\ StorePowerCut
  /\ Forget(Daemons)
  /\ \E version \in cursorOnDisk : cursorFile' = version /\ cursorOnDisk' = {version}
  /\ UNCHANGED <<chainVars, kills>>

-----------------------------------------------------------------------------

Init ==
  /\ StoreInit
  /\ finalized = 0 /\ declared = <<>> /\ dataset = <<>>
  /\ cursorFile = ScanFloor /\ cursorOnDisk = {ScanFloor}
  /\ pc = [d \in Daemons |-> "down"]
  /\ cursor = [d \in Daemons |-> ScanFloor]
  /\ currentPage = [d \in Daemons |-> LogPage]
  /\ target = [d \in Daemons |-> 0]
  /\ batch = [d \in Daemons |-> <<>>]
  /\ pageEnd = [d \in Daemons |-> 0]
  /\ rootAlarm = [d \in Daemons |-> FALSE]
  /\ kills = 0 /\ powerCuts = 0

ChainAction == FinalizeBlock \/ \E size \in DeclarationSizes : Declare(size)

DaemonAction(d) ==
  \/ Start(d)
  \/ \E f \in 0..MaxBlock : BeginScan(d, f)
  \/ \E dropped \in SUBSET Droppable : FetchPage(d, dropped)
  \/ FetchFails(d)
  \/ ScanDone(d)
  \/ PageDone(d)
  \/ Redelivered(d)
  \/ NonceGap(d)
  \/ Acquired(d)
  \/ NotAcquired(d)
  \/ Write(d) \/ Sync(d) \/ Rename(d) \/ Committed(d)
  \/ CommitFails(d)
  \/ CheckRoot(d)
  \/ CheckFails(d)

Next ==
  \/ ChainAction
  \/ \E d \in Daemons : DaemonAction(d) \/ Kill(d)
  \/ PowerCut

Spec == Init /\ [][Next]_vars

-----------------------------------------------------------------------------
(***************************************************************************)
(* Properties.                                                             *)
(***************************************************************************)

\* Whatever a restart may find, and whatever a running daemon answers from, is backed by
\* the right chunks: the chunks a frontier commits are the first chunks of the dataset,
\* already synced, however often writes tore and processes died on the way.
CommittedIntact ==
  \A v \in frontierOnDisk \cup {frontier[d] : d \in Daemons} : v # NoFrontier =>
    /\ v.leafCount = LeafCount(v.nonce)
    /\ Len(fileSafe) >= v.leafCount
    /\ \A i \in 1..v.leafCount : file[i] = dataset[i] /\ fileSafe[i] = dataset[i]

Durable == CHOOSE v \in frontierOnDisk \ {NoFrontier} :
             \A w \in frontierOnDisk \ {NoFrontier} : v.nonce <= w.nonce
DurableCount == IF NoFrontier \in frontierOnDisk THEN 0 ELSE Durable.leafCount
DurableChunks ==
  [i \in 1..DurableCount |-> IF i <= Len(fileSafe) THEN fileSafe[i] ELSE Lost]

\* The store keeps the promise of DatasetReplica: what survives any crash is a prefix of
\* the dataset that only ever grows, by whole declarations and in order.
Replica == INSTANCE DatasetReplica WITH
  ends <- {0} \cup {declared[j].leafCount : j \in DOMAIN declared},
  replica <- DurableChunks

ImplementsReplica == Replica!ReplicaSpec

\* No daemon runs, and none can be started.
Refused ==
  /\ lockHolder = NoDaemon
  /\ cursorFile = Empty \/ OrphanedChunkData \/ MissingCommittedData

Ingested(n) == Loaded.nonce > n

\* A gap in the stream heals: however logs are left out, calls fail and daemons die, a
\* declaration ends up ingested for good once one after it is final whose log is
\* delivered (unless start-up is refused).
GapsHeal ==
  \A n \in 0..MaxDeclarations - 1 :
    <>[]((\E m \in Nonces \ Droppable : m > n /\ Block(m) <= finalized)
           => Ingested(n) \/ Refused)

\* The cursor may pass a declaration whose log was left out, or whose frontier a power
\* cut undid; a daemon then takes it in after all or alarms.
LossIsNoticed ==
  \A n \in 0..MaxDeclarations - 1 :
    (n \in Nonces /\ ~Ingested(n) /\ \E d \in Daemons : cursor[d] >= Block(n))
      ~> (Ingested(n) \/ (\E d \in Daemons : rootAlarm[d]) \/ Refused)

\* Documented (store/mod.rs): a crash never leaves a store that cannot be opened again;
\* what it refuses is damage, not a crash artifact.
CrashIsNotDamage == lockHolder = NoDaemon => ~OrphanedChunkData /\ ~MissingCommittedData

\* Documented (follower.rs): the root is compared when contract state and cursor describe
\* the same instant; the alarm never cries wolf.
RootAlarmIsHonest ==
  \A d \in Daemons : rootAlarm[d] => frontier[d].leafCount # ChainLeafCount(cursor[d])

=============================================================================
