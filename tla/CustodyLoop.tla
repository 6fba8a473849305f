----------------------------- MODULE CustodyLoop -----------------------------
(***************************************************************************)
(* The custody duty of a bonded provider's daemon: the planner and driver  *)
(* of daemon/src/custody.rs with the prover (prover.rs) and the            *)
(* transaction sender, composed with the contract of BlobsitterInstance.   *)
(*                                                                         *)
(* One provider, staked in the first block.  The commit a proof or a set   *)
(* of reveals is made for is named by its seed, hence by the block time of *)
(* its beginProof; the window a beginProof is sent for by its first        *)
(* instant.                                                                *)
(***************************************************************************)
EXTENDS BlobsitterInstance, TxSender

CONSTANTS
  Operator,          \* the account whose key the daemon holds
  EscapeThreshold,   \* escape_threshold
  ProverAvailable    \* CustodyProver::available

Provider == 1

ASSUME CustodyAssumption ==
  /\ Provider \in ProviderIds /\ MaxTime # 0
  /\ Operator \in Accounts
  /\ EscapeThreshold \in Nat /\ EscapeThreshold < CustodyPeriod   \* effective_escape_threshold
  /\ ProverAvailable \in BOOLEAN
  /\ Duties = [kind : {"begin", "proof", "escape"}, of : 1..MaxTime]

VARIABLES
  stored,            \* leaf count of the store's frontier
  ticking,           \* a tick has read the chain
  seenNow,           \* the latest block's time, as this tick read it
  view,              \* the provider's record, as this tick read it
  \* CustodyDriver
  begin, submitting, \* the jobs: the duty each calls send_until for
  proving,           \* the proving task: its commit, and how far it is
  proverFailed       \* prover_failed_period, one more; 0 for none

tickVars == <<ticking, seenNow, view>>
driverVars == <<begin, submitting, proving, proverFailed>>
custodyLoopVars == <<vars, senderVars, faults, stored, tickVars, driverVars>>

NoCommit == [period |-> 0, seed |-> 0, leafCount |-> 0]
NoView == [active |-> FALSE, lastProvenPlusOne |-> 0, commit |-> NoCommit]
NoDuty == [kind |-> "none", of |-> 0]
NoProving == [step |-> "none", commit |-> NoCommit]

\* Saturating: a block older than the stake is in its first period.
PeriodAt(t) == IF t < anchor[Provider] THEN 0 ELSE (t - anchor[Provider]) \div CustodyPeriod
PeriodStart(n) == anchor[Provider] + n * CustodyPeriod
PeriodEnd(n) == PeriodStart(n + 1)

(***************************************************************************)
(* One tick of Enforcement::drive: the chain is read, then the driver acts *)
(* on what was read.                                                       *)
(***************************************************************************)

\* ProviderView::from.
CommitOf(p) ==
  IF commitPeriodPlusOne[p] = 0 THEN NoCommit
  ELSE [period |-> commitPeriodPlusOne[p] - 1, seed |-> commitSeed[p],
        leafCount |-> commitLeafCount[p]]

\* The latest block and, with a call of its own, the provider's record; the block may be
\* the older one.  A tick whose calls fail does nothing.
ReadChain ==
  /\ ~ticking
  /\ status[Provider] # "NONE"
  /\ ticking' = TRUE
  /\ \/ seenNow' = now /\ NoFault
     \/ seenNow' = now - 1 /\ Fault
  /\ view' = [active |-> status[Provider] = "ACTIVE",
              lastProvenPlusOne |-> lastProvenPlusOne[Provider],
              commit |-> CommitOf(Provider)]
  /\ UNCHANGED <<vars, senderVars, stored, driverVars>>

\* derive_status.
DeriveStatusStrict(t, provenPlusOne) ==   \* mutant
  IF PeriodAt(t) < provenPlusOne THEN "CURRENT"
  ELSE IF PeriodAt(t) = provenPlusOne THEN "STALE"
  ELSE IF t < PeriodStart(provenPlusOne + 1) + LapseGrace THEN "LAPSE_ELIGIBLE"
  ELSE "LAPSABLE"
DeriveStatus(t, provenPlusOne) ==
  IF PeriodAt(t) <= provenPlusOne THEN "CURRENT"
  ELSE IF PeriodAt(t) = provenPlusOne + 1 THEN "STALE"
  ELSE IF t < PeriodStart(provenPlusOne + 2) + LapseGrace THEN "LAPSE_ELIGIBLE"
  ELSE "LAPSABLE"

SeenPeriod == PeriodAt(seenNow)
CommitSeen == view.commit # NoCommit

\* reap: finished work is forgotten.  A finished proof goes to a submit job if the commit
\* in view is of its period and nothing is being submitted, and is discarded otherwise.
MayHandOverAnyway(period, sending) == TRUE   \* mutant
MayHandOver(period, sending) ==
  CommitSeen /\ view.commit.period = period /\ sending = NoDuty

Finished(job) == job # NoDuty /\ episode[job] = NoEpisode

Reaped ==
  LET sending == IF Finished(submitting) THEN NoDuty ELSE submitting
      done == proving.commit
  IN
  [begin |-> IF Finished(begin) THEN NoDuty ELSE begin,
   proving |-> IF proving.step \in {"proved", "failed"} THEN NoProving ELSE proving,
   proverFailed |-> IF proving.step = "failed" THEN done.period + 1 ELSE proverFailed,
   submitting |-> IF proving.step = "proved" /\ MayHandOver(done.period, sending)
                  THEN [kind |-> "proof", of |-> done.seed] ELSE sending]

\* plan.
MustEscape(driver) ==
  \/ view.commit.leafCount = 0
  \/ ~ProverAvailable
  \/ driver.proverFailed = view.commit.period + 1
  \/ PeriodEnd(SeenPeriod) - seenNow < EscapeThreshold

ProvenSeenEarly == view.lastProvenPlusOne >= SeenPeriod   \* mutant
ProvenSeen == view.lastProvenPlusOne > SeenPeriod

HoldsCommit == view.active /\ CommitSeen /\ view.commit.period = SeenPeriod
PlansBegin(driver) ==
  /\ view.active /\ ~HoldsCommit /\ ~ProvenSeen
  /\ driver.begin = NoDuty /\ driver.submitting = NoDuty
PlansEscape(driver) == HoldsCommit /\ driver.submitting = NoDuty /\ MustEscape(driver)
PlansProve(driver) ==
  /\ HoldsCommit /\ driver.submitting = NoDuty /\ ~MustEscape(driver)
  /\ driver.proving = NoProving

\* The witness and the reveals are cut from the store as it is when the job is spawned.
Reproducible == view.commit.leafCount <= stored

\* spawn_begin, spawn_escape and spawn_prove.
Spawned(driver) ==
  [begin |-> IF PlansBegin(driver) THEN [kind |-> "begin", of |-> PeriodStart(SeenPeriod)]
             ELSE driver.begin,
   submitting |-> IF PlansEscape(driver) THEN [kind |-> "escape", of |-> view.commit.seed]
                  ELSE driver.submitting,
   proving |-> IF PlansProve(driver)
               THEN [step |-> IF Reproducible THEN "running" ELSE "failed",
                     commit |-> view.commit]
               ELSE driver.proving,
   proverFailed |-> driver.proverFailed]

\* A new job calls send_until at once; a job whose reveals cannot be built just ends.
StartSending(driver) ==
  LET fresh == {job \in {driver.begin, driver.submitting} \ {NoDuty} :
                  episode[job] = NoEpisode /\ (job.kind = "escape" => Reproducible)}
  IN IF fresh = {} THEN UNCHANGED senderVars ELSE \E job \in fresh : SendUntil(job)

Drive ==
  LET driver == Spawned(Reaped) IN
  /\ ticking
  /\ StartSending(driver)
  /\ begin' = driver.begin
  /\ submitting' = driver.submitting
  /\ proving' = driver.proving
  /\ proverFailed' = driver.proverFailed
  /\ ticking' = FALSE /\ seenNow' = 0 /\ view' = NoView
  /\ UNCHANGED <<vars, faults, stored>>

(***************************************************************************)
(* The spawned work.                                                       *)
(***************************************************************************)

\* The prover answers, or its budget runs out.
ProverStep ==
  /\ proving.step = "running"
  /\ \/ proving' = [step |-> "proved", commit |-> proving.commit] /\ NoFault
     \/ proving' = [step |-> "failed", commit |-> proving.commit] /\ Fault
  /\ UNCHANGED <<vars, senderVars, stored, tickVars, begin, submitting, proverFailed>>

\* What the call of a duty does when it is executed, and whether it reverts.  A proof or
\* a set of reveals is accepted for the commit it was made for only.
Accepted(d) ==
  /\ status[Provider] = "ACTIVE"
  /\ \/ d.kind = "begin" /\ MayCommit(Provider)
     \/ d.kind # "begin" /\ CommitIsCurrent(Provider) /\ commitSeed[Provider] = d.of

Execute(d) ==
  \/ d.kind = "begin" /\ BeginProof(Operator, Provider)
  \/ d.kind = "proof" /\ SubmitProof(Operator, Provider)
  \/ d.kind = "escape" /\ SubmitProofEscape(Operator, Provider)

DutyDeadline(d) == PeriodEnd(PeriodAt(d.of))

JobStep(d) ==
  /\ \E result \in {"pending", "confirmed", "failed"} :
       SendStep(d, now >= DutyDeadline(d), ~Accepted(d), result)
  /\ UNCHANGED <<vars, stored, tickVars, driverVars>>

(***************************************************************************)
(* The chain, the follower and the process.                                *)
(***************************************************************************)

IncludeDuty(t) ==
  /\ Include(t, Accepted(t.duty))
  /\ \/ Accepted(t.duty) /\ Execute(t.duty)
     \/ ~Accepted(t.duty) /\ UNCHANGED vars
  /\ UNCHANGED <<stored, tickVars, driverVars>>

EvictDuty(t) ==
  /\ Evict(t)
  /\ UNCHANGED <<vars, stored, tickVars, driverVars>>

StakeProvider ==
  /\ now = 1
  /\ Stake(Operator, Operator)
  /\ UNCHANGED <<senderVars, faults, stored, tickVars, driverVars>>

OthersAct ==
  /\ status[Provider] # "NONE"
  /\ \/ Tick
     \/ \E n \in 1..MaxLeafCount : Declare(n)
     \/ InitiateUnbonding(Operator, Provider)
  /\ UNCHANGED <<senderVars, faults, stored, tickVars, driverVars>>

\* The follower commits what was declared, some time later.
Ingest ==
  /\ stored < leafCount
  /\ stored' = leafCount
  /\ UNCHANGED <<vars, senderVars, faults, tickVars, driverVars>>

\* The driver keeps nothing on disk.
Kill ==
  /\ Fault
  /\ SenderKilled
  /\ ticking' = FALSE /\ seenNow' = 0 /\ view' = NoView
  /\ begin' = NoDuty /\ submitting' = NoDuty /\ proving' = NoProving
  /\ proverFailed' = 0
  /\ UNCHANGED <<vars, stored>>

-----------------------------------------------------------------------------

CustodyInit ==
  /\ Init /\ SenderInit
  /\ stored = 0
  /\ ticking = FALSE /\ seenNow = 0 /\ view = NoView
  /\ begin = NoDuty /\ submitting = NoDuty /\ proving = NoProving
  /\ proverFailed = 0

DriverTick == ReadChain \/ Drive

CustodyNext ==
  \/ DriverTick
  \/ ProverStep
  \/ \E d \in Duties : JobStep(d)
  \/ \E t \in pool : IncludeDuty(t) \/ EvictDuty(t)
  \/ StakeProvider
  \/ OthersAct
  \/ Ingest
  \/ Kill

CustodySpec == CustodyInit /\ [][CustodyNext]_custodyLoopVars

\* The daemon's tasks are scheduled, a prover answers or is timed out, the follower
\* catches up, and a transaction that stays in the pool is included.  Time need not pass.
CustodyFairness ==
  /\ WF_custodyLoopVars(DriverTick)
  /\ WF_custodyLoopVars(ProverStep)
  /\ \A d \in Duties : WF_custodyLoopVars(JobStep(d))
  /\ WF_custodyLoopVars(Ingest)
  /\ SF_custodyLoopVars(\E t \in pool : IncludeDuty(t))

FairCustody == CustodySpec /\ CustodyFairness

-----------------------------------------------------------------------------
(***************************************************************************)
(* Properties.                                                             *)
(***************************************************************************)

\* The daemon derives the status the contract derives, at every boundary.
StatusAgrees ==
  status[Provider] = "ACTIVE" =>
    DeriveStatus(now, lastProvenPlusOne[Provider]) = CustodyStatus(Provider)

\* The driver never has two payloads for one account on their way.
OneSubmission ==
  \A d, e \in Duties :
    /\ d.kind # "begin" /\ e.kind # "begin"
    /\ episode[d] # NoEpisode /\ episode[e] # NoEpisode
    => d = e

\* The period time stops in is proven, though prover, store, node or process failed.
PeriodGetsProven ==
  <>[](status[Provider] = "ACTIVE" => lastProvenPlusOne[Provider] = PeriodIndex(Provider) + 1)

=============================================================================
