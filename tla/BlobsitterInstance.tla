------------------------- MODULE BlobsitterInstance -------------------------
(***************************************************************************)
(* The bonded side of contracts/src/BlobsitterInstance.sol: staking,       *)
(* unbonding and withdrawal, possession challenges, custody proofs and     *)
(* lapse, and the push-with-pull-fallback payouts of PayoutSink.sol.       *)
(*                                                                         *)
(* Every external entry point is one action: the EVM runs a transaction    *)
(* atomically.  A transaction that reverts changes nothing, so the         *)
(* require/revert checks are the action's guard.  Payouts are the last     *)
(* effect of every handler, so a recipient that re-enters from the push    *)
(* acts exactly like a later transaction of the same block.                *)
(*                                                                         *)
(* The dataset is append-only, so a pin (root, leafCount) is named by its  *)
(* leaf count; prevrandao differs from block to block and is constant in   *)
(* one, so the seed of a custody commit is named by the block time.        *)
(***************************************************************************)
EXTENDS Integers, FiniteSets, Functions

CONSTANTS
  Accounts,            \* addresses: operators, withdrawal addresses, anyone else
  NoAccount,           \* address(0)
  Refusers,            \* the accounts whose ETH push may fail (PayoutSink)
  StakeWei,            \* constructor parameters, named as in struct Params
  ResponseWindow,
  UnbondingDelay,
  CustodyPeriod,
  LapseGrace,
  MaxSample,
  BountyBps,
  BondMultiplier,      \* template constants of the bond formula
  ResponseGasPerChunk,
  ResponseBaseGas,
  BaseFees,            \* the values block.basefee can take
  BondValues           \* the msg.value a challenger may attach

\* Bounds of the model; none of them is in the code.
CONSTANTS
  MaxProviders,        \* provider ids ever assigned
  MaxChallenges,       \* challenge ids ever assigned
  MaxLeafCount,        \* chunks ever published
  Horizon,             \* last time of a stake, exit, challenge or declaration
  CommitHorizon,       \* last time of a custody commit
  MaxTime              \* last time of the clock

ASSUME ParamsAssumption ==
  /\ NoAccount \notin Accounts
  /\ IsFiniteSet(Accounts)
  /\ Refusers \subseteq Accounts
  /\ StakeWei \in Nat
  /\ ResponseWindow \in Nat
  /\ UnbondingDelay \in Nat
  /\ CustodyPeriod \in Nat \ {0}
  /\ LapseGrace \in Nat
  /\ MaxSample \in Nat
  /\ BountyBps \in 0..10000
  /\ BondMultiplier \in Nat /\ ResponseGasPerChunk \in Nat /\ ResponseBaseGas \in Nat
  /\ BaseFees \subseteq Nat /\ BondValues \subseteq Nat

ASSUME BoundsAssumption ==
  /\ MaxProviders \in Nat /\ MaxChallenges \in Nat /\ MaxLeafCount \in Nat
  /\ Horizon \in Nat /\ CommitHorizon \in Nat /\ MaxTime \in Nat

VARIABLES
  now,                 \* block.timestamp
  leafCount,           \* chunks published so far; stands for (root, leafCount)
  \* Provider records, field by field
  nextProviderId, operator, withdrawal, status, anchor,
  unbondingAt, exitLeafCount, openChallenges,
  \* Custody fields of the provider record
  lastProvenPlusOne, lastDegraded, commitPeriodPlusOne, commitSeed, commitLeafCount,
  \* Challenge records
  nextChallengeId, challengeRecords,
  \* ETH of the instance, the pull ledger, and what the paymaster absorbed
  balance, claimable, totalClaimable, slashAbsorbed

datasetVars == <<now, leafCount>>
lifecycleVars == <<nextProviderId, operator, withdrawal, anchor, unbondingAt, exitLeafCount>>
commitVars == <<commitPeriodPlusOne, commitSeed, commitLeafCount>>
custodyVars == <<lastProvenPlusOne, lastDegraded, commitVars>>
challengeVars == <<nextChallengeId, challengeRecords>>
moneyVars == <<balance, claimable, totalClaimable, slashAbsorbed>>
vars == <<datasetVars, lifecycleVars, status, openChallenges, custodyVars, challengeVars,
          moneyVars>>

ProviderIds == 1..MaxProviders
ChallengeIds == 0..MaxChallenges - 1
Statuses == {"NONE", "ACTIVE", "UNBONDING", "EXITED", "SLASHED"}

Challenge == [providerId : ProviderIds \cup {0}, challenger : Accounts \cup {NoAccount},
              bond : Nat, openedAt : Nat, pinnedLeafCount : Nat,
              indices : SUBSET Nat, resolved : BOOLEAN]

\* The zero value of a mapping entry that was never written.
NoChallenge == [providerId |-> 0, challenger |-> NoAccount, bond |-> 0, openedAt |-> 0,
                pinnedLeafCount |-> 0, indices |-> {}, resolved |-> FALSE]

Assigned(c) == c < nextChallengeId
Unresolved(c) == Assigned(c) /\ ~challengeRecords[c].resolved

(***************************************************************************)
(* Time and money rules shared by the handlers.                            *)
(***************************************************************************)

WithdrawableAt(p) == unbondingAt[p] + UnbondingDelay

Deadline(c) == challengeRecords[c].openedAt + ResponseWindow

\* custodyPeriodIndex: whole custody periods since the provider staked.
PeriodIndex(p) == (now - anchor[p]) \div CustodyPeriod

\* _lapseTimes: when the second consecutive missed period completes, and one grace
\* window later.
EligibleAtOneMiss(p) == anchor[p] + (lastProvenPlusOne[p] + 1) * CustodyPeriod   \* mutant
EligibleAt(p) == anchor[p] + (lastProvenPlusOne[p] + 2) * CustodyPeriod
LapsableAt(p) == EligibleAt(p) + LapseGrace

RequiredBond(k, baseFee) ==
  BondMultiplier * (k * ResponseGasPerChunk + ResponseBaseGas) * baseFee

Bounty == (StakeWei * BountyBps) \div 10000

\* _payout(to, amount) after toPaymaster was moved out of the instance: the push
\* succeeds, or the amount is parked in the claimable ledger.
Payout(to, amount, toPaymaster) ==
  /\ slashAbsorbed' = slashAbsorbed + toPaymaster
  /\ \/ /\ balance' = balance - toPaymaster - amount
        /\ UNCHANGED <<claimable, totalClaimable>>
     \/ /\ to \in Refusers
        /\ balance' = balance - toPaymaster
        /\ claimable' = [claimable EXCEPT ![to] = @ + amount]
        /\ totalClaimable' = totalClaimable + amount

\* claim(): the caller drains its parked balance.  A failing transfer reverts.
Claim(a) ==
  /\ claimable[a] # 0
  /\ claimable' = [claimable EXCEPT ![a] = 0]
  /\ totalClaimable' = totalClaimable - claimable[a]
  /\ balance' = balance - claimable[a]
  /\ UNCHANGED <<datasetVars, lifecycleVars, status, openChallenges, custodyVars,
                 challengeVars, slashAbsorbed>>

(***************************************************************************)
(* Provider lifecycle.                                                     *)
(***************************************************************************)

Stake(op, wd) ==
  LET id == nextProviderId IN
  /\ id \in ProviderIds
  /\ now <= Horizon
  /\ nextProviderId' = id + 1
  /\ operator' = [operator EXCEPT ![id] = op]
  /\ withdrawal' = [withdrawal EXCEPT ![id] = wd]
  /\ status' = [status EXCEPT ![id] = "ACTIVE"]
  /\ anchor' = [anchor EXCEPT ![id] = now]
  /\ balance' = balance + StakeWei
  /\ UNCHANGED <<datasetVars, unbondingAt, exitLeafCount, openChallenges, custodyVars,
                 challengeVars, claimable, totalClaimable, slashAbsorbed>>

VoidCommit(p) ==
  /\ commitPeriodPlusOne' = [commitPeriodPlusOne EXCEPT ![p] = 0]
  /\ commitSeed' = [commitSeed EXCEPT ![p] = 0]
  /\ commitLeafCount' = [commitLeafCount EXCEPT ![p] = 0]

InitiateUnbonding(sender, p) ==
  /\ sender = operator[p]
  /\ status[p] = "ACTIVE"
  /\ now <= Horizon
  /\ status' = [status EXCEPT ![p] = "UNBONDING"]
  /\ unbondingAt' = [unbondingAt EXCEPT ![p] = now]
  /\ exitLeafCount' = [exitLeafCount EXCEPT ![p] = leafCount]
  /\ VoidCommit(p)
  /\ UNCHANGED <<datasetVars, nextProviderId, operator, withdrawal, anchor, openChallenges,
                 lastProvenPlusOne, lastDegraded, challengeVars, moneyVars>>

\* withdraw may be called by anyone and pays the withdrawal address.
MayWithdrawEarly(p) == status[p] = "UNBONDING" /\ now >= WithdrawableAt(p)   \* mutant
MayWithdraw(p) ==
  /\ status[p] = "UNBONDING"
  /\ now >= WithdrawableAt(p)
  /\ openChallenges[p] = 0

Withdraw(p) ==
  /\ MayWithdraw(p)
  /\ status' = [status EXCEPT ![p] = "EXITED"]
  /\ Payout(withdrawal[p], StakeWei, 0)
  /\ UNCHANGED <<datasetVars, lifecycleVars, openChallenges, custodyVars, challengeVars>>

(***************************************************************************)
(* Custody proofs.                                                         *)
(***************************************************************************)

\* A commit of the current period blocks another; an older one is overwritten.
MayCommitAgain(p) == status[p] = "ACTIVE"   \* mutant
MayCommit(p) == commitPeriodPlusOne[p] # PeriodIndex(p) + 1

BeginProof(sender, p) ==
  /\ sender = operator[p]
  /\ status[p] = "ACTIVE"
  /\ MayCommit(p)
  /\ now <= CommitHorizon
  /\ commitPeriodPlusOne' = [commitPeriodPlusOne EXCEPT ![p] = PeriodIndex(p) + 1]
  /\ commitSeed' = [commitSeed EXCEPT ![p] = now]
  /\ commitLeafCount' = [commitLeafCount EXCEPT ![p] = leafCount]
  /\ UNCHANGED <<datasetVars, lifecycleVars, status, openChallenges, lastProvenPlusOne,
                 lastDegraded, challengeVars, moneyVars>>

\* _submitGuards: there is a commit and its period is the current one.
CommitExists(p) == commitPeriodPlusOne[p] # 0   \* mutant
CommitIsCurrent(p) ==
  /\ commitPeriodPlusOne[p] # 0
  /\ commitPeriodPlusOne[p] - 1 = PeriodIndex(p)

\* The stored encoding of the proven period: 0 means none yet.
ProvenUnshifted(p) == PeriodIndex(p)   \* mutant
ProvenPlusOne(p) == PeriodIndex(p) + 1

\* submitProof and submitProofEscape with a payload the verifier, respectively the
\* Merkle check of every sampled chunk, accepts; any other payload reverts.
AcceptProof(sender, p, degraded) ==
  /\ sender = operator[p]
  /\ status[p] = "ACTIVE"
  /\ CommitIsCurrent(p)
  /\ lastProvenPlusOne' = [lastProvenPlusOne EXCEPT ![p] = ProvenPlusOne(p)]
  /\ lastDegraded' = [lastDegraded EXCEPT ![p] = degraded]
  /\ VoidCommit(p)
  /\ UNCHANGED <<datasetVars, lifecycleVars, status, openChallenges, challengeVars, moneyVars>>

SubmitProof(sender, p) == AcceptProof(sender, p, FALSE)
SubmitProofEscape(sender, p) == AcceptProof(sender, p, TRUE)

\* The public view custodyStatus, from period arithmetic.
CustodyStatus(p) ==
  LET period == PeriodIndex(p) IN
  IF status[p] # "ACTIVE" THEN "NONE"
  ELSE IF period <= lastProvenPlusOne[p] THEN "CURRENT"
  ELSE IF period = lastProvenPlusOne[p] + 1 THEN "STALE"
  ELSE IF now < LapsableAt(p) THEN "LAPSE_ELIGIBLE"
  ELSE "LAPSABLE"

\* lapse(): anyone may slash a provider two periods and a grace window behind.
Lapse(sender, p) ==
  /\ status[p] = "ACTIVE"
  /\ now >= EligibleAt(p)
  /\ now >= LapsableAt(p)
  /\ status' = [status EXCEPT ![p] = "SLASHED"]
  /\ Payout(sender, Bounty, StakeWei - Bounty)
  /\ UNCHANGED <<datasetVars, lifecycleVars, openChallenges, custodyVars, challengeVars>>

(***************************************************************************)
(* Possession challenges.                                                  *)
(***************************************************************************)

\* An UNBONDING provider can be challenged until its stake may be withdrawn.
ChallengeableLate(p) == status[p] \in {"ACTIVE", "UNBONDING"}   \* mutant
Challengeable(p) ==
  \/ status[p] = "ACTIVE"
  \/ status[p] = "UNBONDING" /\ now < WithdrawableAt(p)

\* What a new challenge is pinned to: the live dataset, or the exit snapshot.
PinForLive(p) == leafCount   \* mutant
PinFor(p) == IF status[p] = "ACTIVE" THEN leafCount ELSE exitLeafCount[p]

\* challenge(providerId, indices) with msg.value.  A repeated index asks for nothing
\* new, so the index list is a set.
OpenChallenge(sender, p, indices, value, baseFee) ==
  LET id == nextChallengeId IN
  /\ id \in ChallengeIds
  /\ now <= Horizon
  /\ Challengeable(p)
  /\ indices # {}
  /\ Cardinality(indices) <= MaxSample
  /\ \A i \in indices : i < PinFor(p)
  /\ value >= RequiredBond(Cardinality(indices), baseFee)
  /\ nextChallengeId' = id + 1
  /\ challengeRecords' = [challengeRecords EXCEPT ![id] =
       [providerId |-> p, challenger |-> sender, bond |-> value, openedAt |-> now,
        pinnedLeafCount |-> PinFor(p), indices |-> indices, resolved |-> FALSE]]
  /\ openChallenges' = [openChallenges EXCEPT ![p] = @ + 1]
  /\ balance' = balance + value
  /\ UNCHANGED <<datasetVars, lifecycleVars, status, custodyVars, claimable, totalClaimable,
                 slashAbsorbed>>

ResolveUncounted(c) ==   \* mutant
  /\ challengeRecords' = [challengeRecords EXCEPT ![c].resolved = TRUE]
  /\ UNCHANGED <<openChallenges, nextChallengeId>>
Resolve(c) ==
  /\ challengeRecords' = [challengeRecords EXCEPT ![c].resolved = TRUE]
  /\ openChallenges' = [openChallenges EXCEPT ![challengeRecords[c].providerId] = @ - 1]
  /\ UNCHANGED nextChallengeId

\* respond() is for an unresolved challenge, inside its window, of a provider that has
\* not been slashed.
MayRespondSlashed(c) == Unresolved(c) /\ now < Deadline(c)   \* mutant
MayRespond(c) ==
  /\ Unresolved(c)
  /\ now < Deadline(c)
  /\ status[challengeRecords[c].providerId] # "SLASHED"

\* Openings of every index against the pin; any other payload reverts.  The bond goes
\* to the operator.
Respond(sender, c) ==
  LET p == challengeRecords[c].providerId IN
  /\ MayRespond(c)
  /\ sender = operator[p]
  /\ Resolve(c)
  /\ Payout(operator[p], challengeRecords[c].bond, 0)
  /\ UNCHANGED <<datasetVars, lifecycleVars, status, custodyVars>>

MayTimeOutTwice(c) == Assigned(c) /\ now >= Deadline(c)   \* mutant
MayTimeOutUnslashed(c) ==                                 \* mutant
  /\ Unresolved(c)
  /\ now >= Deadline(c)
  /\ status[challengeRecords[c].providerId] # "SLASHED"
MayTimeOut(c) == Unresolved(c) /\ now >= Deadline(c)

\* resolveTimeout(), by anyone: the first unanswered challenge slashes the provider
\* and pays the bounty; later ones refund the bond only.
ResolveTimeout(c) ==
  LET p == challengeRecords[c].providerId
      challenger == challengeRecords[c].challenger
      bond == challengeRecords[c].bond
  IN
  /\ MayTimeOut(c)
  /\ Resolve(c)
  /\ \/ /\ status[p] # "SLASHED"
        /\ status' = [status EXCEPT ![p] = "SLASHED"]
        /\ Payout(challenger, Bounty + bond, StakeWei - Bounty)
     \/ /\ status[p] = "SLASHED"
        /\ UNCHANGED status
        /\ Payout(challenger, bond, 0)
  /\ UNCHANGED <<datasetVars, lifecycleVars, custodyVars>>

(***************************************************************************)
(* The rest of the chain.                                                  *)
(***************************************************************************)

\* declareFor, as the handlers above see it: all they read is leafCount and peaks,
\* which a declaration replaces by those of a strictly longer dataset.
Declare(newLeafCount) ==
  /\ newLeafCount > leafCount
  /\ now <= Horizon
  /\ leafCount' = newLeafCount
  /\ UNCHANGED <<now, lifecycleVars, status, openChallenges, custodyVars, challengeVars,
                 moneyVars>>

\* A block with a later timestamp.
Tick ==
  /\ now < MaxTime
  /\ now' = now + 1
  /\ UNCHANGED <<leafCount, lifecycleVars, status, openChallenges, custodyVars, challengeVars,
                 moneyVars>>

Init ==
  /\ now = 1
  /\ leafCount = 0
  /\ nextProviderId = 1
  /\ operator = [p \in ProviderIds |-> NoAccount]
  /\ withdrawal = [p \in ProviderIds |-> NoAccount]
  /\ status = [p \in ProviderIds |-> "NONE"]
  /\ anchor = [p \in ProviderIds |-> 0]
  /\ unbondingAt = [p \in ProviderIds |-> 0]
  /\ exitLeafCount = [p \in ProviderIds |-> 0]
  /\ openChallenges = [p \in ProviderIds |-> 0]
  /\ lastProvenPlusOne = [p \in ProviderIds |-> 0]
  /\ lastDegraded = [p \in ProviderIds |-> FALSE]
  /\ commitPeriodPlusOne = [p \in ProviderIds |-> 0]
  /\ commitSeed = [p \in ProviderIds |-> 0]
  /\ commitLeafCount = [p \in ProviderIds |-> 0]
  /\ nextChallengeId = 0
  /\ challengeRecords = [c \in ChallengeIds |-> NoChallenge]
  /\ balance = 0
  /\ claimable = [a \in Accounts |-> 0]
  /\ totalClaimable = 0
  /\ slashAbsorbed = 0

ProviderAction(p) ==
  \/ Withdraw(p)
  \/ \E a \in Accounts :
       \/ InitiateUnbonding(a, p)
       \/ BeginProof(a, p)
       \/ SubmitProof(a, p)
       \/ SubmitProofEscape(a, p)
       \/ Lapse(a, p)
       \/ \E indices \in SUBSET (0..MaxLeafCount - 1), v \in BondValues, fee \in BaseFees :
            OpenChallenge(a, p, indices, v, fee)

ChallengeAction(c) == ResolveTimeout(c) \/ \E a \in Accounts : Respond(a, c)

Next ==
  \/ Tick
  \/ \E n \in 1..MaxLeafCount : Declare(n)
  \/ \E op, wd \in Accounts : Stake(op, wd)
  \/ \E p \in ProviderIds : ProviderAction(p)
  \/ \E c \in ChallengeIds : ChallengeAction(c)
  \/ \E a \in Accounts : Claim(a)

Spec == Init /\ [][Next]_vars

\* Blocks keep coming, and the two permissionless clean-up calls are made once they
\* are possible: each pays the one who wants it (challenger, withdrawal address).
Fairness ==
  /\ WF_vars(Tick)
  /\ \A c \in ChallengeIds : WF_vars(ResolveTimeout(c))
  /\ \A p \in ProviderIds : WF_vars(Withdraw(p))

FairSpec == Spec /\ Fairness


-----------------------------------------------------------------------------
(***************************************************************************)
(* Properties.                                                             *)
(***************************************************************************)

\* The type of every variable.  openChallenges is an unsigned counter: a decrement below
\* zero would revert the resolution that caused it.
TypeOK ==
  /\ now \in Nat /\ leafCount \in Nat
  /\ nextProviderId \in 1..MaxProviders + 1
  /\ operator \in [ProviderIds -> Accounts \cup {NoAccount}]
  /\ withdrawal \in [ProviderIds -> Accounts \cup {NoAccount}]
  /\ status \in [ProviderIds -> Statuses]
  /\ anchor \in [ProviderIds -> Nat]
  /\ unbondingAt \in [ProviderIds -> Nat]
  /\ exitLeafCount \in [ProviderIds -> Nat]
  /\ openChallenges \in [ProviderIds -> Nat]
  /\ lastProvenPlusOne \in [ProviderIds -> Nat]
  /\ lastDegraded \in [ProviderIds -> BOOLEAN]
  /\ commitPeriodPlusOne \in [ProviderIds -> Nat]
  /\ commitSeed \in [ProviderIds -> Nat]
  /\ commitLeafCount \in [ProviderIds -> Nat]
  /\ nextChallengeId \in 0..MaxChallenges
  /\ challengeRecords \in [ChallengeIds -> Challenge]
  /\ balance \in Int
  /\ claimable \in [Accounts -> Nat]
  /\ totalClaimable \in Int
  /\ slashAbsorbed \in Nat

OpenAgainst(p) == {c \in ChallengeIds : Unresolved(c) /\ challengeRecords[c].providerId = p}

\* openChallenges, the counter that blocks withdraw(), is the number of unresolved
\* challenge records of the provider, over every interleaving of challenge, respond
\* and resolveTimeout (test plan, I8).
CounterIntegrity == \A p \in ProviderIds : openChallenges[p] = Cardinality(OpenAgainst(p))

\* A provider that has initiated unbonding is never answerable for chunks published
\* afterwards, by a challenge opened before or after (test plan, I10).
ExitPinning ==
  \A c \in ChallengeIds : Assigned(c) =>
    LET p == challengeRecords[c].providerId IN
    unbondingAt[p] # 0 =>
      /\ challengeRecords[c].pinnedLeafCount <= exitLeafCount[p]
      /\ \A i \in challengeRecords[c].indices : i < exitLeafCount[p]

\* No challenge is ever left open against a provider whose stake has been returned:
\* the last moment to challenge, the first moment to withdraw and the counter fit.
NoOrphanChallenge ==
  \A c \in ChallengeIds : Unresolved(c) =>
    status[challengeRecords[c].providerId] \in {"ACTIVE", "UNBONDING", "SLASHED"}

\* Nothing can hold up an exit for longer than one response window past the delay: an
\* unresolved challenge of a leaving provider has its deadline before that (I7).
ExitBound ==
  \A c \in ChallengeIds :
    LET p == challengeRecords[c].providerId
        opened == challengeRecords[c].openedAt
    IN
    Unresolved(c) /\ status[p] = "UNBONDING" =>
      \/ opened <= unbondingAt[p]
      \/ opened + ResponseWindow < unbondingAt[p] + UnbondingDelay + ResponseWindow

Staked == {p \in ProviderIds : status[p] \in {"ACTIVE", "UNBONDING"}}
Slashed == {p \in ProviderIds : status[p] = "SLASHED"}
OpenBonds == SumFunction([c \in {d \in ChallengeIds : Unresolved(d)} |-> challengeRecords[c].bond])

\* The instance holds exactly the stakes not yet settled, the bonds of unresolved
\* challenges and the parked payouts, and the paymaster has absorbed the remainder of
\* each slashed stake: no stake or bond is paid twice or stranded (I4, I5, I20).
Solvency ==
  /\ totalClaimable = SumFunction(claimable)
  /\ balance = StakeWei * Cardinality(Staked) + OpenBonds + totalClaimable
  /\ slashAbsorbed = (StakeWei - (StakeWei * BountyBps) \div 10000) * Cardinality(Slashed)

\* custodyStatus and lapse() derive the two-missed-periods threshold by different
\* arithmetic and must agree: the view reports LAPSE_ELIGIBLE or LAPSABLE exactly from
\* the instant lapse() takes as the start of the grace window (I15).
CustodyViewAgrees ==
  \A p \in ProviderIds : status[p] = "ACTIVE" =>
    (now >= EligibleAt(p) <=> CustodyStatus(p) \in {"LAPSE_ELIGIBLE", "LAPSABLE"})

\* Once the stake is slashed, by another challenge or by a lapse, nothing answers what is
\* still open: an unresolved challenge is closed only from its own deadline on, by the
\* refund, and its bond never goes to the slashed provider's operator.
ClosedByRefund(c) ==
  /\ Unresolved(c) /\ challengeRecords'[c].resolved
  /\ status[challengeRecords[c].providerId] = "SLASHED"
  => now >= Deadline(c)
SlashedNeverAnswers == [][\A c \in ChallengeIds : ClosedByRefund(c)]_vars

\* An ACTIVE provider with no overdue challenge loses its stake only when the public
\* custody view says LAPSABLE.
Announced(p) ==
  /\ status[p] = "ACTIVE" /\ status'[p] = "SLASHED"
  /\ \A c \in OpenAgainst(p) : now < Deadline(c)
  => CustodyStatus(p) = "LAPSABLE"
SlashIsAnnounced == [][\A p \in ProviderIds : Announced(p)]_vars

\* Cure wins: a proof that advances lastProven buys more than two whole periods and the
\* grace window before anyone can lapse the provider, however late it lands (I15, I16).
Cured(p) ==
  lastProvenPlusOne'[p] # lastProvenPlusOne[p] =>
    /\ lastProvenPlusOne'[p] > lastProvenPlusOne[p]
    /\ LapsableAt(p)' > now + 2 * CustodyPeriod + LapseGrace
CureWins == [][\A p \in ProviderIds : Cured(p)]_vars

\* A period is proven only from randomness drawn in that period: a commit kept over a
\* period boundary can never be used (I14, second half).  And the operator cannot choose
\* among seeds: while a period runs unproven, only its proof, or leaving for good, ends
\* its commit.
ProvenFresh(p) ==
  lastProvenPlusOne'[p] # lastProvenPlusOne[p] =>
    /\ commitPeriodPlusOne[p] = lastProvenPlusOne'[p]
    /\ commitSeed[p] >= anchor[p] + (lastProvenPlusOne'[p] - 1) * CustodyPeriod
    /\ now < anchor[p] + lastProvenPlusOne'[p] * CustodyPeriod
DrawnOnce(p) ==
  /\ commitPeriodPlusOne[p] = PeriodIndex(p) + 1
  /\ lastProvenPlusOne'[p] # PeriodIndex(p) + 1
  /\ status'[p] = "ACTIVE"
  => commitPeriodPlusOne'[p] = commitPeriodPlusOne[p] /\ commitSeed'[p] = commitSeed[p]
FreshRandomness == [][\A p \in ProviderIds : ProvenFresh(p) /\ DrawnOnce(p)]_vars

\* Every challenge is resolved, one way or the other.
ChallengesSettle == \A c \in ChallengeIds : Unresolved(c) ~> ~Unresolved(c)

\* Every exit completes: the stake is returned, or lost to an unanswered challenge.
ExitCompletes ==
  \A p \in ProviderIds : status[p] = "UNBONDING" ~> status[p] \in {"EXITED", "SLASHED"}

\* The abstract bond, seen in the instance's state.
StakeState(s) ==
  CASE s = "NONE" -> "absent"
    [] s = "ACTIVE" -> "serving"
    [] s = "UNBONDING" -> "leaving"
    [] s = "EXITED" -> "returned"
    [] s = "SLASHED" -> "forfeited"

BondStake == [p \in ProviderIds |-> StakeState(status[p])]
BondClaimOn == [c \in ChallengeIds |-> challengeRecords[c].providerId]
BondClosed == {c \in ChallengeIds : challengeRecords[c].resolved}

Bond == INSTANCE ProviderBond WITH
  Providers <- ProviderIds, Claims <- ChallengeIds, NoProvider <- 0,
  stake <- BondStake, claimOn <- BondClaimOn, closed <- BondClosed

\* Stakes and challenges, seen without time and money, follow the abstract bond: the
\* status graph of I6 and challenge admission of I9.
ImplementsBond == Bond!BondSpec

=============================================================================
