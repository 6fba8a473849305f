------------------------------ MODULE Responder ------------------------------
(***************************************************************************)
(* The challenge path of a bonded provider's daemon: the scan for          *)
(* enforcement events on its own cursor (daemon/src/follower.rs), the      *)
(* persistent ledger of open challenges and the jobs that answer them      *)
(* (responder.rs), the detection of missed events (enforcement.rs) and the *)
(* transaction sender, composed with the contract of BlobsitterInstance.   *)
(*                                                                         *)
(* One provider.  A block holds at most one of its enforcement events, so  *)
(* a cursor over blocks is a position in the list of events.               *)
(***************************************************************************)
EXTENDS BlobsitterInstance, TxSender

CONSTANTS
  Operator,          \* the account whose key the daemon holds
  DeficitStreak,     \* ticks of a surplus on the chain before a rescan
  DroppableKinds,    \* the events a node may leave out of an answer
  Empty,             \* a cursor file that was truncated and not yet written
  MaxWriteFails      \* bound: failing writes of ledger or cursor

ASSUME ResponderAssumption ==
  /\ Operator \in Accounts
  /\ MaxProviders # 0
  /\ Duties = ChallengeIds   \* a response is all this sender is used for
  /\ DeficitStreak \in Nat \ {0}
  /\ Empty \notin Nat
  /\ MaxWriteFails \in Nat

Provider == 1

VARIABLES
  \* The chain's log of enforcement events, and how many of them are final
  events, final,
  \* The daemon's disk
  stored,            \* leaf count of the store's frontier
  ledgerFile, enfCursorFile, writeFails,
  ingestCut,         \* what the scan for declarations left cut short: nothing ("none"),
                     \* scan-cursor.json ("cursor"), chunks before a frontier ("store")
  \* The daemon's memory
  pc,                \* the follower's task
  ledger,            \* ledger[c]: "absent", "open" or "responded"
  enfCursor,
  pageEnd,           \* the last block consumed, before the cursor is written
  rescanRequested,
  deficitStreak,
  job,               \* job[c]: where the response job is
  snapshot           \* snapshot[c]: leaf count of the reader the job was given

chainLogVars == <<events, final>>
scanVars == <<enfCursor, enfCursorFile, pageEnd>>
ledgerVars == <<ledger, ledgerFile>>
driveVars == <<rescanRequested, deficitStreak>>
jobVars == <<job, snapshot>>
diskVars == <<stored, writeFails, ingestCut>>
daemonVars == <<diskVars, pc, ledgerVars, scanVars, driveVars, jobVars>>
respVars == <<vars, senderVars, faults, chainLogVars, daemonVars>>

Challenges == ChallengeIds
Resolved(c) == Assigned(c) /\ challengeRecords[c].resolved
Expired(c) == Assigned(c) /\ now >= Deadline(c)

(***************************************************************************)
(* The chain.                                                              *)
(***************************************************************************)

Emit(kind, c) == events' = Append(events, [kind |-> kind, id |-> c])

Publish(n) ==
  /\ Declare(n)
  /\ UNCHANGED <<senderVars, faults, chainLogVars, daemonVars>>

ChallengeProvider(a, indices, v, fee) ==
  /\ OpenChallenge(a, Provider, indices, v, fee)
  /\ Emit("opened", nextChallengeId)
  /\ UNCHANGED <<senderVars, faults, final, daemonVars>>

TimeOut(c) ==
  /\ ResolveTimeout(c)
  /\ Emit(IF status[Provider] = "SLASHED" THEN "refunded" ELSE "timedOut", c)
  /\ UNCHANGED <<senderVars, faults, final, daemonVars>>

\* A response of the pool is executed.
IncludeResponse(t) ==
  /\ Include(t, MayRespond(t.duty))
  /\ \/ Respond(Operator, t.duty) /\ Emit("answered", t.duty)
     \/ ~MayRespond(t.duty) /\ UNCHANGED <<vars, events>>
  /\ UNCHANGED <<final, daemonVars>>

Finalize ==
  /\ final < Len(events)
  /\ final' = final + 1
  /\ UNCHANGED <<vars, senderVars, faults, events, daemonVars>>

Clock ==
  /\ status[Provider] # "NONE"
  /\ Tick
  /\ UNCHANGED <<senderVars, faults, chainLogVars, daemonVars>>

(***************************************************************************)
(* The ledger: memory first, then the file (tmp + rename).                 *)
(***************************************************************************)

Written(result) ==
  \/ result = "ok" /\ UNCHANGED writeFails
  \/ result = "error" /\ writeFails < MaxWriteFails /\ writeFails' = writeFails + 1

Persist(result) ==
  /\ ledgerFile' = (IF result = "ok" THEN ledger' ELSE ledgerFile)
  /\ Written(result)

Unchanged(result) == result = "ok" /\ UNCHANGED <<ledgerVars, writeFails>>

MarkResponded(c, result) ==
  \/ ledger[c] = "absent" /\ Unchanged(result)
  \/ /\ ledger[c] # "absent"
     /\ ledger' = [ledger EXCEPT ![c] = "responded"]
     /\ Persist(result)

Forget(c, result) ==
  \/ ledger[c] = "absent" /\ Unchanged(result)
  \/ /\ ledger[c] # "absent"
     /\ ledger' = [ledger EXCEPT ![c] = "absent"]
     /\ Persist(result)

\* unresponded_count.
Unresponded == {c \in Challenges : ledger[c] = "open"}

(***************************************************************************)
(* One tick of the follower's task: scan, then drive, whatever the scan    *)
(* returned.                                                               *)
(***************************************************************************)

EmptyLedger == [c \in Challenges |-> "absent"]

\* Store::open, which refuses chunks that no frontier covers, and build_enforcement.
Start ==
  /\ pc = "down" /\ pc' = "reconcile"
  /\ ingestCut # "store"
  /\ ledger' = ledgerFile
  /\ UNCHANGED <<vars, senderVars, faults, chainLogVars, diskVars, ledgerFile, scanVars, driveVars,
                 jobVars>>

\* Follower::new takes no cursor file that does not parse.
CursorsParse == enfCursorFile # Empty /\ ingestCut # "cursor"

\* Entries the chain resolved meanwhile are dropped, one call and one write each; a
\* failure ends the start, and so does a cursor file that Follower::new refuses after it.
Without(l, S) == [c \in Challenges |-> IF c \in S THEN "absent" ELSE l[c]]

Reconcile ==
  LET resolved == {c \in Challenges : Resolved(c)} IN
  /\ pc = "reconcile"
  /\ \/ /\ pc' = "idle"
        /\ ledger' = Without(ledger, resolved)
        /\ ledgerFile' = ledger' /\ NoFault
        /\ CursorsParse /\ enfCursor' = enfCursorFile
     \/ /\ pc' = "down"
        /\ ledger' = EmptyLedger
        /\ \/ ~CursorsParse /\ ledgerFile' = Without(ledgerFile, resolved) /\ NoFault
           \/ (\E S \in SUBSET resolved : ledgerFile' = Without(ledgerFile, S)) /\ Fault
        /\ UNCHANGED enfCursor
  /\ UNCHANGED <<vars, senderVars, chainLogVars, diskVars, enfCursorFile, pageEnd, driveVars,
                 jobVars>>

\* fs::write truncates the file, then writes it: an error may leave it as it was or empty.
SetEnfCursor(b, result) ==
  /\ Written(result)
  /\ \/ result = "ok" /\ enfCursor' = b /\ enfCursorFile' = b
     \/ /\ result = "error"
        /\ enfCursorFile' \in {enfCursorFile, Empty} /\ UNCHANGED enfCursor

\* The rest of a tick once the cursor may have moved: another page, or the drive.
ScanOn == pc' = (IF enfCursor' < final THEN "scan" ELSE "drive")

\* What the scan for declarations (Follower) may leave behind when it fails or is killed:
\* a truncated cursor, or, at the first declaration, chunks without a frontier.
CutIngest == {ingestCut, "cursor"} \cup (IF stored = 0 /\ leafCount > 0 THEN {"store"} ELSE {})

\* The scan for declarations, which may halt, comes before the one for events.  A
\* requested rescan starts at the floor.
BeginScan ==
  /\ pc = "idle"
  /\ \/ stored' = leafCount /\ ingestCut' = "none" /\ NoFault
     \/ UNCHANGED stored /\ ingestCut' \in CutIngest /\ Fault
  /\ rescanRequested' = FALSE
  /\ \/ /\ ~rescanRequested
        /\ UNCHANGED <<enfCursor, enfCursorFile, writeFails>>
        /\ ScanOn
     \/ /\ rescanRequested
        /\ SetEnfCursor(0, "ok")
        /\ ScanOn
     \/ /\ rescanRequested
        /\ SetEnfCursor(0, "error")
        /\ pc' = "drive"
  /\ UNCHANGED <<vars, senderVars, chainLogVars, ledgerVars, pageEnd, deficitStreak, jobVars>>

NoFinalizedBlock ==
  /\ pc = "idle" /\ pc' = "drive"
  /\ Fault
  /\ UNCHANGED <<vars, senderVars, chainLogVars, diskVars, ledgerVars, scanVars, driveVars, jobVars>>

\* on_challenge_opened and on_challenge_resolved of the event at position i.
ConsumedUnanswered(l, i) ==   \* mutant
  LET c == events[i].id IN
  CASE events[i].kind = "opened" -> IF l[c] = "absent" THEN [l EXCEPT ![c] = "open"] ELSE l
    [] events[i].kind = "answered" -> l
    [] OTHER -> [l EXCEPT ![c] = "absent"]
Consumed(l, i) ==
  LET c == events[i].id IN
  IF events[i].kind # "opened" THEN [l EXCEPT ![c] = "absent"]
  ELSE IF l[c] = "absent" THEN [l EXCEPT ![c] = "open"]
  ELSE l

\* The ledger after the events past position from, up to to, those left out not seen.
ConsumedAll(l, from, to, dropped) ==
  LET after[i \in from..to] ==
        IF i = from THEN l
        ELSE IF i \in dropped THEN after[i - 1]
        ELSE Consumed(after[i - 1], i)
  IN after[to]

\* A page ends anywhere up to the last final block: its length is shared with the scan
\* for declarations.  Its events are consumed in order; the first whose ledger write
\* fails halts the scan, whose cursor moves to just before its block.
FetchPage(to, dropped) ==
  /\ pc = "scan"
  /\ enfCursor < to /\ to <= final
  /\ \A i \in dropped : i \in enfCursor + 1..to /\ events[i].kind \in DroppableKinds
  /\ IF dropped = {} THEN NoFault ELSE Fault
  /\ \/ /\ ledger' = ConsumedAll(ledger, enfCursor, to, dropped)
        /\ ledgerFile' = (IF ledger' = ledger THEN ledgerFile ELSE ledger')
        /\ pageEnd' = to /\ pc' = "page"
        /\ UNCHANGED writeFails
     \/ \E i \in (enfCursor + 1..to) \ dropped :
          LET before == ConsumedAll(ledger, enfCursor, i - 1, dropped) IN
          /\ ledger' = Consumed(before, i)
          /\ ledger' # before
          /\ Written("error")
          /\ ledgerFile' = (IF before = ledger THEN ledgerFile ELSE before)
          /\ pageEnd' = i - 1 /\ pc' = "halt"
  /\ UNCHANGED <<vars, senderVars, chainLogVars, stored, ingestCut, enfCursor, enfCursorFile,
                 driveVars, jobVars>>

FetchFails ==
  /\ pc = "scan" /\ pc' = "drive"
  /\ Fault
  /\ UNCHANGED <<vars, senderVars, chainLogVars, diskVars, ledgerVars, scanVars, driveVars, jobVars>>

PageDone ==
  /\ pc \in {"page", "halt"}
  /\ pageEnd' = 0
  /\ \/ pc = "page" /\ SetEnfCursor(pageEnd, "ok") /\ ScanOn
     \/ pc = "halt" /\ SetEnfCursor(pageEnd, "ok") /\ pc' = "drive"
     \/ SetEnfCursor(pageEnd, "error") /\ pc' = "drive"
  /\ UNCHANGED <<vars, senderVars, faults, chainLogVars, stored, ingestCut, ledgerVars, driveVars,
                 jobVars>>

\* Enforcement::drive on the latest state: detection of missed events, then a response
\* job for every open entry that has none and is not overdue.
Deficit == openChallenges[Provider] > Cardinality(Unresponded)

Due == {c \in Challenges : ledger[c] = "open" /\ job[c] = "none" /\ ~Expired(c)}

DetectOnly ==   \* mutant
  LET streak == IF Deficit THEN deficitStreak + 1 ELSE 0 IN
  /\ deficitStreak' = IF streak >= DeficitStreak THEN 0 ELSE streak
  /\ UNCHANGED rescanRequested
DetectMissed ==
  LET streak == IF Deficit THEN deficitStreak + 1 ELSE 0 IN
  /\ rescanRequested' = (rescanRequested \/ streak >= DeficitStreak)
  /\ deficitStreak' = IF streak >= DeficitStreak THEN 0 ELSE streak

Drive ==
  /\ pc = "drive" /\ pc' = "idle"
  /\ \/ /\ DetectMissed
        /\ job' = [c \in Challenges |-> IF c \in Due THEN "check" ELSE job[c]]
        /\ snapshot' = [c \in Challenges |-> IF c \in Due THEN stored ELSE snapshot[c]]
        /\ NoFault
     \/ UNCHANGED <<driveVars, jobVars>> /\ Fault
  /\ UNCHANGED <<vars, senderVars, chainLogVars, diskVars, ledgerVars, scanVars>>

(***************************************************************************)
(* A response job.                                                         *)
(***************************************************************************)

Finished(c) ==
  /\ job' = [job EXCEPT ![c] = "none"]
  /\ UNCHANGED snapshot

\* getChallenge: an entry that a rescan brought back is dropped; build_proof_set, which
\* fails when the store lags behind the pinned state; then the call of the sender.
PrepareResponse(c) ==
  /\ job[c] = "check"
  /\ snapshot' = [snapshot EXCEPT ![c] = 0]
  /\ \/ /\ Resolved(c) /\ NoFault
        /\ \E result \in {"ok", "error"} : Forget(c, result)
        /\ job' = [job EXCEPT ![c] = "none"] /\ UNCHANGED senderVars
     \/ /\ IF Resolved(c) THEN Fault ELSE NoFault   \* that call failed
        /\ UNCHANGED <<ledgerVars, writeFails>>
        /\ \/ /\ challengeRecords[c].pinnedLeafCount <= snapshot[c]
              /\ job' = [job EXCEPT ![c] = "send"] /\ SendUntil(c)
           \/ /\ challengeRecords[c].pinnedLeafCount > snapshot[c]
              /\ job' = [job EXCEPT ![c] = "none"] /\ UNCHANGED senderVars
  /\ UNCHANGED <<vars, chainLogVars, stored, ingestCut, pc, scanVars, driveVars>>

\* A write that fails after the confirmation only raises an alarm.
SendResponse(c) ==
  /\ job[c] = "send"
  /\ \E result \in {"pending", "confirmed", "failed"} :
       /\ SendStep(c, Expired(c), ~MayRespond(c), result)
       /\ \/ result = "pending" /\ UNCHANGED <<jobVars, ledgerVars, writeFails>>
          \/ result = "failed" /\ Finished(c) /\ UNCHANGED <<ledgerVars, writeFails>>
          \/ /\ result = "confirmed" /\ Finished(c)
             /\ \E written \in {"ok", "error"} : MarkResponded(c, written)
  /\ UNCHANGED <<vars, chainLogVars, stored, ingestCut, pc, scanVars, driveVars>>

(***************************************************************************)
(* Faults of node and process.                                             *)
(***************************************************************************)

EvictResponse(t) ==
  /\ Evict(t)
  /\ UNCHANGED <<vars, chainLogVars, daemonVars>>

\* A tick that is killed while it writes the cursor of the scan for events, or in the scan
\* for declarations, leaves a file cut short.
WritesEnfCursor == pc \in {"page", "halt"} \/ (pc = "idle" /\ rescanRequested)

CutShort ==
  \/ UNCHANGED <<enfCursorFile, ingestCut>>
  \/ WritesEnfCursor /\ enfCursorFile' = Empty /\ UNCHANGED ingestCut
  \/ pc = "idle" /\ ingestCut' \in CutIngest /\ UNCHANGED enfCursorFile

Kill ==
  /\ pc # "down"
  /\ Fault
  /\ SenderKilled
  /\ pc' = "down"
  /\ ledger' = EmptyLedger
  /\ enfCursor' = 0 /\ pageEnd' = 0
  /\ rescanRequested' = FALSE /\ deficitStreak' = 0
  /\ job' = [c \in Challenges |-> "none"]
  /\ snapshot' = [c \in Challenges |-> 0]
  /\ CutShort
  /\ UNCHANGED <<vars, chainLogVars, stored, writeFails, ledgerFile>>

-----------------------------------------------------------------------------

ResponderInit ==
  /\ Init /\ SenderInit
  /\ events = <<>> /\ final = 0
  /\ stored = 0 /\ writeFails = 0 /\ ingestCut = "none"
  /\ ledger = EmptyLedger /\ ledgerFile = EmptyLedger
  /\ enfCursor = 0 /\ enfCursorFile = 0 /\ pageEnd = 0
  /\ rescanRequested = FALSE /\ deficitStreak = 0
  /\ pc = "down"
  /\ job = [c \in Challenges |-> "none"]
  /\ snapshot = [c \in Challenges |-> 0]

StakeProvider ==
  /\ leafCount > 0
  /\ Stake(Operator, Operator)
  /\ UNCHANGED <<senderVars, faults, chainLogVars, daemonVars>>

FollowerStep ==
  \/ Start \/ Reconcile \/ BeginScan \/ NoFinalizedBlock \/ FetchFails \/ PageDone \/ Drive
  \/ \E to \in 1..Len(events), dropped \in SUBSET (1..Len(events)) : FetchPage(to, dropped)

JobStep(c) == PrepareResponse(c) \/ SendResponse(c)

ResponderNext ==
  \/ StakeProvider
  \/ \E n \in 1..MaxLeafCount : Publish(n)
  \/ \E a \in Accounts, i \in 0..MaxLeafCount - 1, v \in BondValues, fee \in BaseFees :
       ChallengeProvider(a, {i}, v, fee)
  \/ \E c \in Challenges : TimeOut(c) \/ JobStep(c)
  \/ \E t \in pool : IncludeResponse(t) \/ EvictResponse(t)
  \/ Finalize
  \/ Clock
  \/ FollowerStep
  \/ Kill

ResponderSpec == ResponderInit /\ [][ResponderNext]_respVars

\* The tasks of a running daemon are scheduled and a stopped one is restarted; blocks
\* become final; and a transaction that stays in the pool is included.  Time need not
\* pass: a window is as long as it takes.
ResponderFairness ==
  /\ WF_respVars(FollowerStep)
  /\ \A c \in Challenges : WF_respVars(JobStep(c))
  /\ WF_respVars(Finalize)
  /\ SF_respVars(\E t \in pool : IncludeResponse(t))

FairResponder == ResponderSpec /\ ResponderFairness

-----------------------------------------------------------------------------
(***************************************************************************)
(* Properties.                                                             *)
(***************************************************************************)

\* The ledger takes a challenge as answered only if the contract did, whatever the node
\* answered about the attempts.
RespondedIsAnswered ==
  \A c \in Challenges : "responded" \in {ledger[c], ledgerFile[c]} => Resolved(c)

\* A daemon that can never be started again.
Refused == pc = "down" /\ (ingestCut # "none" \/ enfCursorFile = Empty)

\* Every challenge is answered unless its window runs out first: though logs are left
\* out, writes fail, the store lags, transactions vanish and the daemon dies.  Only a
\* death that leaves a file cut short ends it: the next start refuses the file.
ChallengesAreMet ==
  \A c \in Challenges : Assigned(c) ~> (Resolved(c) \/ Expired(c) \/ Refused)

\* What is settled leaves the ledger, also after a rescan has brought it back.
LedgerDrains == \A c \in Challenges : <>[](Resolved(c) => ledger[c] = "absent")

\* Documented (responder.rs): an opened challenge is on disk before the scan cursor moves
\* past its event.
OpenedIsOnDisk ==
  enfCursorFile # Empty =>
    \A i \in 1..enfCursorFile :
      events[i].kind = "opened" /\ ~Resolved(events[i].id) => ledgerFile[events[i].id] # "absent"

=============================================================================
