---------------------- MODULE BlobsitterInstanceProofs ----------------------
(***************************************************************************)
(* Invariants of BlobsitterInstance proved for every value of its          *)
(* constants.                                                              *)
(***************************************************************************)
EXTENDS BlobsitterInstance, Arithmetic, FiniteSetTheorems, TLAPS

\* A challenge record that has been assigned names a provider.
RecordsNamed == \A c \in ChallengeIds : Assigned(c) => challengeRecords[c].providerId \in ProviderIds

\* Nobody staked in the future, so the custody period index is a natural number.
AnchorsPast == \A p \in ProviderIds : anchor[p] <= now

\* TypeOK is not inductive by itself: that the counter never goes below zero rests on
\* its meaning, and the type of a commit on the period index.
IInv == TypeOK /\ RecordsNamed /\ AnchorsPast /\ CounterIntegrity

\* The bounty is part of the stake, so the paymaster's remainder is never negative.
LEMMA BountyBound == Bounty \in Nat /\ Bounty <= StakeWei
<1> DEFINE prod == StakeWei * BountyBps
<1>1. StakeWei \in Nat /\ BountyBps \in Nat /\ BountyBps <= 10000
  BY ParamsAssumption
<1>2. prod \in Nat /\ prod <= StakeWei * 10000
  BY <1>1
<1> HIDE DEF prod
<1>3. prod \div 10000 \in Nat /\ prod \div 10000 <= StakeWei
  BY <1>1, <1>2
<1> QED  BY <1>3 DEF Bounty, prod

\* A payout keeps the types of the money variables.
LEMMA PayoutTyped ==
  ASSUME TypeOK, NEW to, NEW amount \in Nat, NEW rest \in Nat, Payout(to, amount, rest)
  PROVE  /\ balance' \in Int /\ totalClaimable' \in Int
         /\ claimable' \in [Accounts -> Nat] /\ slashAbsorbed' \in Nat
<1>1. CASE UNCHANGED <<claimable, totalClaimable>> /\ balance' = balance - rest - amount
  BY <1>1 DEF TypeOK, Payout
<1>2. CASE /\ to \in Refusers /\ balance' = balance - rest
           /\ claimable' = [claimable EXCEPT ![to] = @ + amount]
           /\ totalClaimable' = totalClaimable + amount
  BY <1>2, ParamsAssumption DEF TypeOK, Payout
<1> QED  BY <1>1, <1>2 DEF Payout

\* The set a counter counts is finite.
LEMMA OpenAgainstFinite ==
  ASSUME NEW p PROVE IsFiniteSet(OpenAgainst(p)) /\ IsFiniteSet(OpenAgainst(p))'
<1>1. IsFiniteSet(ChallengeIds)
  BY FS_Interval, BoundsAssumption DEF ChallengeIds
<1>2. OpenAgainst(p) \subseteq ChallengeIds /\ OpenAgainst(p)' \subseteq ChallengeIds
  BY DEF OpenAgainst
<1> QED  BY <1>1, <1>2, FS_Subset

\* Resolving an unresolved challenge: the record leaves the set of exactly one provider,
\* whose counter goes down by one without passing zero.
LEMMA ResolvePreserves ==
  ASSUME IInv, NEW c \in ChallengeIds, Unresolved(c), Resolve(c)
  PROVE  /\ openChallenges' \in [ProviderIds -> Nat]
         /\ challengeRecords' \in [ChallengeIds -> Challenge]
         /\ nextChallengeId' \in 0..MaxChallenges
         /\ RecordsNamed' /\ CounterIntegrity'
<1> DEFINE p == challengeRecords[c].providerId
<1>1. p \in ProviderIds /\ c \in OpenAgainst(p)
  BY DEF IInv, RecordsNamed, Unresolved, OpenAgainst
<1>2. /\ challengeRecords' = [challengeRecords EXCEPT ![c].resolved = TRUE]
      /\ openChallenges' = [openChallenges EXCEPT ![p] = @ - 1]
      /\ nextChallengeId' = nextChallengeId
  BY DEF Resolve
<1>3. /\ challengeRecords' \in [ChallengeIds -> Challenge]
      /\ \A d \in ChallengeIds : challengeRecords'[d].providerId = challengeRecords[d].providerId
      /\ \A d \in ChallengeIds \ {c} : challengeRecords'[d] = challengeRecords[d]
      /\ challengeRecords'[c].resolved
  BY <1>2 DEF IInv, TypeOK, Challenge
<1>4. OpenAgainst(p)' = OpenAgainst(p) \ {c}
  BY <1>2, <1>3 DEF OpenAgainst, Unresolved, Assigned
<1>5. ASSUME NEW q \in ProviderIds \ {p} PROVE OpenAgainst(q)' = OpenAgainst(q)
  BY <1>2, <1>3 DEF OpenAgainst, Unresolved, Assigned
<1>6. Cardinality(OpenAgainst(p)') = Cardinality(OpenAgainst(p)) - 1
  BY <1>1, <1>4, OpenAgainstFinite, FS_RemoveElement
<1>7. Cardinality(OpenAgainst(p)') \in Nat
  BY OpenAgainstFinite, FS_CardinalityType, <1>4, FS_RemoveElement
<1>8. openChallenges[p] = Cardinality(OpenAgainst(p)) /\ openChallenges \in [ProviderIds -> Nat]
  BY <1>1 DEF IInv, TypeOK, CounterIntegrity
<1>9. openChallenges' \in [ProviderIds -> Nat]
  BY <1>1, <1>2, <1>6, <1>7, <1>8
<1>10. CounterIntegrity'
  <2> SUFFICES ASSUME NEW q \in ProviderIds PROVE openChallenges'[q] = Cardinality(OpenAgainst(q)')
    BY DEF CounterIntegrity
  <2>1. CASE q = p  BY <2>1, <1>1, <1>2, <1>6, <1>8
  <2>2. CASE q # p  BY <2>2, <1>2, <1>5, <1>8 DEF IInv, CounterIntegrity
  <2> QED  BY <2>1, <2>2
<1>11. RecordsNamed'
  BY <1>2, <1>3 DEF IInv, RecordsNamed, Assigned
<1> QED  BY <1>2, <1>3, <1>9, <1>10, <1>11 DEF IInv, TypeOK

LEMMA PeriodIndexNat ==
  ASSUME TypeOK, AnchorsPast, NEW p \in ProviderIds PROVE PeriodIndex(p) \in Nat
<1>1. now - anchor[p] \in Nat
  BY DEF TypeOK, AnchorsPast
<1> QED  BY <1>1, ParamsAssumption DEF PeriodIndex

LEMMA InitIInv == Init => IInv
<1> SUFFICES ASSUME Init PROVE IInv
  OBVIOUS
<1>1. TypeOK
  BY BoundsAssumption DEF Init, TypeOK, Statuses, Challenge, NoChallenge, ProviderIds
<1>2. RecordsNamed
  BY DEF Init, RecordsNamed, Assigned, ChallengeIds
<1>3. AnchorsPast
  BY DEF Init, AnchorsPast
<1>4. CounterIntegrity
  <2> SUFFICES ASSUME NEW p \in ProviderIds PROVE openChallenges[p] = Cardinality(OpenAgainst(p))
    BY DEF CounterIntegrity
  <2>1. OpenAgainst(p) = {}
    BY DEF Init, OpenAgainst, Unresolved, Assigned, ChallengeIds
  <2> QED  BY <2>1, FS_EmptySet DEF Init
<1> QED  BY <1>1, <1>2, <1>3, <1>4 DEF IInv

\* A step that leaves the counters and the records alone leaves their relation alone.
LEMMA CountersFramed ==
  ASSUME IInv, UNCHANGED <<openChallenges, challengeVars>>
  PROVE  RecordsNamed' /\ CounterIntegrity'
<1>1. \A p \in ProviderIds : OpenAgainst(p)' = OpenAgainst(p)
  BY DEF challengeVars, OpenAgainst, Unresolved, Assigned
<1> QED  BY <1>1 DEF IInv, RecordsNamed, CounterIntegrity, challengeVars, Assigned

LEMMA IInvTick == IInv /\ Tick => IInv'
<1> SUFFICES ASSUME IInv, Tick PROVE IInv'
  OBVIOUS
<1>1. RecordsNamed' /\ CounterIntegrity'
  BY CountersFramed DEF Tick
<1>2. TypeOK' /\ AnchorsPast'
  BY DEF IInv, TypeOK, AnchorsPast, Tick, lifecycleVars, custodyVars, commitVars, challengeVars, moneyVars
<1> QED  BY <1>1, <1>2 DEF IInv

LEMMA IInvDeclare == ASSUME IInv, NEW n \in Nat, Declare(n) PROVE IInv'
<1>1. RecordsNamed' /\ CounterIntegrity'
  BY CountersFramed DEF Declare
<1>2. TypeOK' /\ AnchorsPast'
  BY DEF IInv, TypeOK, AnchorsPast, Declare, lifecycleVars, custodyVars, commitVars, challengeVars, moneyVars
<1> QED  BY <1>1, <1>2 DEF IInv

LEMMA IInvClaim == ASSUME IInv, NEW a \in Accounts, Claim(a) PROVE IInv'
<1>1. RecordsNamed' /\ CounterIntegrity'
  BY CountersFramed DEF Claim
<1>2. TypeOK' /\ AnchorsPast'
  BY DEF IInv, TypeOK, AnchorsPast, Claim, datasetVars, lifecycleVars, custodyVars, commitVars, challengeVars
<1> QED  BY <1>1, <1>2 DEF IInv

LEMMA IInvStake ==
  ASSUME IInv, NEW op \in Accounts, NEW wd \in Accounts, Stake(op, wd) PROVE IInv'
<1>1. RecordsNamed' /\ CounterIntegrity'
  BY CountersFramed DEF Stake
<1>2. nextProviderId \in ProviderIds /\ nextProviderId + 1 \in 1..MaxProviders + 1
  BY BoundsAssumption DEF Stake, ProviderIds
<1>3. TypeOK' /\ AnchorsPast'
  BY <1>2, ParamsAssumption DEF IInv, TypeOK, AnchorsPast, Stake, Statuses, datasetVars, custodyVars, commitVars,
     challengeVars
<1> QED  BY <1>1, <1>3 DEF IInv

LEMMA IInvInitiateUnbonding ==
  ASSUME IInv, NEW a, NEW p \in ProviderIds, InitiateUnbonding(a, p) PROVE IInv'
<1>1. RecordsNamed' /\ CounterIntegrity'
  BY CountersFramed DEF InitiateUnbonding
<1>2. TypeOK' /\ AnchorsPast'
  BY DEF IInv, TypeOK, AnchorsPast, InitiateUnbonding, VoidCommit, Statuses, datasetVars,
     challengeVars, moneyVars
<1> QED  BY <1>1, <1>2 DEF IInv

LEMMA IInvWithdraw == ASSUME IInv, NEW p \in ProviderIds, Withdraw(p) PROVE IInv'
<1>1. RecordsNamed' /\ CounterIntegrity'
  BY CountersFramed DEF Withdraw
<1>2. /\ balance' \in Int /\ totalClaimable' \in Int
      /\ claimable' \in [Accounts -> Nat] /\ slashAbsorbed' \in Nat
  BY PayoutTyped, ParamsAssumption DEF IInv, Withdraw
<1>3. TypeOK' /\ AnchorsPast'
  BY <1>2 DEF IInv, TypeOK, AnchorsPast, Withdraw, Statuses, datasetVars, lifecycleVars,
     custodyVars, commitVars, challengeVars
<1> QED  BY <1>1, <1>3 DEF IInv

LEMMA IInvBeginProof ==
  ASSUME IInv, NEW a, NEW p \in ProviderIds, BeginProof(a, p) PROVE IInv'
<1>1. RecordsNamed' /\ CounterIntegrity'
  BY CountersFramed DEF BeginProof
<1>2. PeriodIndex(p) + 1 \in Nat
  BY PeriodIndexNat DEF IInv
<1>3. TypeOK' /\ AnchorsPast'
  BY <1>2 DEF IInv, TypeOK, AnchorsPast, BeginProof, datasetVars, lifecycleVars, challengeVars,
     moneyVars
<1> QED  BY <1>1, <1>3 DEF IInv

LEMMA IInvAcceptProof ==
  ASSUME IInv, NEW a, NEW p \in ProviderIds, NEW d \in BOOLEAN, AcceptProof(a, p, d)
  PROVE  IInv'
<1>1. RecordsNamed' /\ CounterIntegrity'
  BY CountersFramed DEF AcceptProof
<1>2. ProvenPlusOne(p) \in Nat
  BY PeriodIndexNat DEF IInv, ProvenPlusOne
<1>3. TypeOK' /\ AnchorsPast'
  BY <1>2 DEF IInv, TypeOK, AnchorsPast, AcceptProof, VoidCommit, datasetVars, lifecycleVars,
     challengeVars, moneyVars
<1> QED  BY <1>1, <1>3 DEF IInv

LEMMA IInvLapse == ASSUME IInv, NEW a, NEW p \in ProviderIds, Lapse(a, p) PROVE IInv'
<1>1. RecordsNamed' /\ CounterIntegrity'
  BY CountersFramed DEF Lapse
<1>2. StakeWei - Bounty \in Nat /\ Bounty \in Nat
  BY BountyBound, ParamsAssumption
<1>3. /\ balance' \in Int /\ totalClaimable' \in Int
      /\ claimable' \in [Accounts -> Nat] /\ slashAbsorbed' \in Nat
  BY <1>2, PayoutTyped DEF IInv, Lapse
<1>4. TypeOK' /\ AnchorsPast'
  BY <1>3 DEF IInv, TypeOK, AnchorsPast, Lapse, Statuses, datasetVars, lifecycleVars,
     custodyVars, commitVars, challengeVars
<1> QED  BY <1>1, <1>4 DEF IInv

\* Opening adds one record, against the provider whose counter goes up.
LEMMA IInvOpenChallenge ==
  ASSUME IInv, NEW a \in Accounts, NEW p \in ProviderIds, NEW indices \in SUBSET Nat,
         NEW v \in Nat, NEW fee \in Nat, OpenChallenge(a, p, indices, v, fee)
  PROVE  IInv'
<1> DEFINE id == nextChallengeId
           new == [providerId |-> p, challenger |-> a, bond |-> v, openedAt |-> now,
                   pinnedLeafCount |-> PinFor(p), indices |-> indices, resolved |-> FALSE]
<1>1. /\ id \in ChallengeIds /\ nextChallengeId' = id + 1
      /\ challengeRecords' = [challengeRecords EXCEPT ![id] = new]
      /\ openChallenges' = [openChallenges EXCEPT ![p] = @ + 1]
      /\ balance' = balance + v
  BY DEF OpenChallenge
<1>2. nextChallengeId' \in 0..MaxChallenges
  BY <1>1, BoundsAssumption DEF ChallengeIds
<1>3. new \in Challenge
  BY DEF IInv, TypeOK, PinFor, Challenge
<1>4. challengeRecords' \in [ChallengeIds -> Challenge]
  BY <1>1, <1>3 DEF IInv, TypeOK
<1>5. challengeRecords'[id].providerId = p /\ ~challengeRecords'[id].resolved
  BY <1>1 DEF IInv, TypeOK
<1>6. \A d \in ChallengeIds \ {id} : challengeRecords'[d] = challengeRecords[d]
  BY <1>1 DEF IInv, TypeOK
<1>7. \A d \in ChallengeIds : Assigned(d)' <=> (Assigned(d) \/ d = id)
  BY <1>1 DEF Assigned, ChallengeIds, IInv, TypeOK
<1>8. ~Assigned(id)
  BY <1>1 DEF Assigned, ChallengeIds
<1> HIDE DEF new
<1>9. OpenAgainst(p)' = OpenAgainst(p) \cup {id} /\ id \notin OpenAgainst(p)
  BY <1>1, <1>5, <1>6, <1>7, <1>8 DEF OpenAgainst, Unresolved
<1>10. ASSUME NEW q \in ProviderIds \ {p} PROVE OpenAgainst(q)' = OpenAgainst(q)
  BY <1>1, <1>5, <1>6, <1>7, <1>8 DEF OpenAgainst, Unresolved
<1>11. Cardinality(OpenAgainst(p)') = Cardinality(OpenAgainst(p)) + 1
  BY <1>9, OpenAgainstFinite, FS_AddElement
<1>12. RecordsNamed'
  BY <1>5, <1>6, <1>7 DEF IInv, RecordsNamed
<1>13. CounterIntegrity'
  <2> SUFFICES ASSUME NEW q \in ProviderIds PROVE openChallenges'[q] = Cardinality(OpenAgainst(q)')
    BY DEF CounterIntegrity
  <2>1. openChallenges[q] = Cardinality(OpenAgainst(q)) /\ openChallenges \in [ProviderIds -> Nat]
    BY DEF IInv, TypeOK, CounterIntegrity
  <2>2. CASE q = p  BY <2>1, <2>2, <1>1, <1>11
  <2>3. CASE q # p  BY <2>1, <2>3, <1>1, <1>10
  <2> QED  BY <2>2, <2>3
<1>14. TypeOK' /\ AnchorsPast'
  BY <1>1, <1>2, <1>4 DEF IInv, TypeOK, AnchorsPast, OpenChallenge, datasetVars, lifecycleVars,
     custodyVars, commitVars
<1> QED  BY <1>12, <1>13, <1>14 DEF IInv

LEMMA IInvRespond == ASSUME IInv, NEW a, NEW c \in ChallengeIds, Respond(a, c) PROVE IInv'
<1>1. Unresolved(c) /\ Resolve(c)
  BY DEF Respond, MayRespond
<1>2. challengeRecords[c].bond \in Nat
  BY DEF IInv, TypeOK, Challenge
<1>3. /\ balance' \in Int /\ totalClaimable' \in Int
      /\ claimable' \in [Accounts -> Nat] /\ slashAbsorbed' \in Nat
  BY <1>2, PayoutTyped DEF IInv, Respond
<1>4. TypeOK' /\ AnchorsPast'
  BY <1>1, <1>3, ResolvePreserves DEF IInv, TypeOK, AnchorsPast, Respond, datasetVars,
     lifecycleVars, custodyVars, commitVars
<1> QED  BY <1>1, <1>4, ResolvePreserves DEF IInv

LEMMA IInvResolveTimeout ==
  ASSUME IInv, NEW c \in ChallengeIds, ResolveTimeout(c) PROVE IInv'
<1> DEFINE p == challengeRecords[c].providerId
           bond == challengeRecords[c].bond
<1>1. Unresolved(c) /\ Resolve(c)
  BY DEF ResolveTimeout, MayTimeOut
<1>2. bond \in Nat /\ Bounty + bond \in Nat /\ StakeWei - Bounty \in Nat
  BY BountyBound, ParamsAssumption DEF IInv, TypeOK, Challenge
<1>3. /\ balance' \in Int /\ totalClaimable' \in Int
      /\ claimable' \in [Accounts -> Nat] /\ slashAbsorbed' \in Nat
  BY <1>2, PayoutTyped DEF IInv, ResolveTimeout
<1>4. status' \in [ProviderIds -> Statuses]
  BY DEF IInv, TypeOK, ResolveTimeout, Statuses
<1>5. TypeOK' /\ AnchorsPast'
  BY <1>1, <1>3, <1>4, ResolvePreserves DEF IInv, TypeOK, AnchorsPast, ResolveTimeout,
     datasetVars, lifecycleVars, custodyVars, commitVars
<1> QED  BY <1>1, <1>5, ResolvePreserves DEF IInv

LEMMA IInvStutter == IInv /\ UNCHANGED vars => IInv'
<1> SUFFICES ASSUME IInv, UNCHANGED vars PROVE IInv'
  OBVIOUS
<1>1. RecordsNamed' /\ CounterIntegrity'
  BY CountersFramed DEF vars
<1>2. TypeOK' /\ AnchorsPast'
  BY DEF IInv, TypeOK, AnchorsPast, vars, datasetVars, lifecycleVars, custodyVars, commitVars,
     challengeVars, moneyVars
<1> QED  BY <1>1, <1>2 DEF IInv

LEMMA IInvStep == IInv /\ [Next]_vars => IInv'
<1> SUFFICES ASSUME IInv, Next PROVE IInv'
  BY IInvStutter
<1>1. CASE Tick  BY <1>1, IInvTick
<1>2. CASE \E n \in 1..MaxLeafCount : Declare(n)
  BY <1>2, IInvDeclare, BoundsAssumption
<1>3. CASE \E op, wd \in Accounts : Stake(op, wd)
  BY <1>3, IInvStake
<1>4. CASE \E p \in ProviderIds : ProviderAction(p)
  <2>1. PICK p \in ProviderIds : ProviderAction(p)
    BY <1>4
  <2>2. CASE Withdraw(p)  BY <2>2, IInvWithdraw
  <2>3. ASSUME NEW a \in Accounts, InitiateUnbonding(a, p) PROVE IInv'
    BY <2>3, IInvInitiateUnbonding
  <2>4. ASSUME NEW a \in Accounts, BeginProof(a, p) PROVE IInv'
    BY <2>4, IInvBeginProof
  <2>5. ASSUME NEW a \in Accounts, SubmitProof(a, p) \/ SubmitProofEscape(a, p) PROVE IInv'
    BY <2>5, IInvAcceptProof DEF SubmitProof, SubmitProofEscape
  <2>6. ASSUME NEW a \in Accounts, Lapse(a, p) PROVE IInv'
    BY <2>6, IInvLapse
  <2>7. ASSUME NEW a \in Accounts, NEW indices \in SUBSET (0..MaxLeafCount - 1),
               NEW v \in BondValues, NEW fee \in BaseFees, OpenChallenge(a, p, indices, v, fee)
        PROVE  IInv'
    <3>1. indices \in SUBSET Nat /\ v \in Nat /\ fee \in Nat
      BY ParamsAssumption, BoundsAssumption
    <3> QED  BY <2>7, <3>1, IInvOpenChallenge
  <2> QED  BY <2>1, <2>2, <2>3, <2>4, <2>5, <2>6, <2>7 DEF ProviderAction
<1>5. CASE \E c \in ChallengeIds : ChallengeAction(c)
  BY <1>5, IInvRespond, IInvResolveTimeout DEF ChallengeAction
<1>6. CASE \E a \in Accounts : Claim(a)
  BY <1>6, IInvClaim
<1> QED  BY <1>1, <1>2, <1>3, <1>4, <1>5, <1>6 DEF Next

LEMMA InvariantHolds == Spec => []IInv
  BY InitIInv, IInvStep, PTL DEF Spec

\* Every variable keeps its type; in particular openChallenges never underflows and the
\* paymaster never absorbs a negative amount.
THEOREM TypeCorrect == Spec => []TypeOK
<1>1. IInv => TypeOK  BY DEF IInv
<1> QED  BY <1>1, InvariantHolds, PTL

\* The counter that gates withdraw() is the number of unresolved challenges (I8), for any
\* number of providers and challenges and any windows.
THEOREM CounterCorrect == Spec => []CounterIntegrity
<1>1. IInv => CounterIntegrity  BY DEF IInv
<1> QED  BY <1>1, InvariantHolds, PTL

-----------------------------------------------------------------------------
(***************************************************************************)
(* Exit pinning and orphan challenges.                                     *)
(***************************************************************************)

\* Every pin and every exit snapshot was the length of the dataset at some time, so the
\* dataset is at least as long now; and unbondingAt is set on leaving ACTIVE only.
PinsBounded ==
  /\ \A p \in ProviderIds : status[p] \in {"NONE", "ACTIVE"} => unbondingAt[p] = 0
  /\ \A p \in ProviderIds : exitLeafCount[p] <= leafCount
  /\ \A c \in ChallengeIds : Assigned(c) =>
       /\ challengeRecords[c].pinnedLeafCount <= leafCount
       /\ \A i \in challengeRecords[c].indices : i < challengeRecords[c].pinnedLeafCount

\* Ids beyond the counters have never been written.
Unwritten ==
  /\ \A p \in ProviderIds : p >= nextProviderId => status[p] = "NONE"
  /\ \A c \in ChallengeIds : ~Assigned(c) =>
       challengeRecords[c].providerId = 0 /\ ~challengeRecords[c].resolved

LifeInv == PinsBounded /\ ExitPinning /\ Unwritten /\ NoOrphanChallenge

\* What an entry of the challenge mapping is pinned to is written once.
PinsKept ==
  /\ nextChallengeId' = nextChallengeId
  /\ \A c \in ChallengeIds :
       /\ challengeRecords'[c].providerId = challengeRecords[c].providerId
       /\ challengeRecords'[c].pinnedLeafCount = challengeRecords[c].pinnedLeafCount
       /\ challengeRecords'[c].indices = challengeRecords[c].indices
       /\ challengeRecords[c].resolved => challengeRecords'[c].resolved
       /\ ~Assigned(c) => challengeRecords'[c].resolved = challengeRecords[c].resolved

LEMMA UnchangedKeepsPins == ASSUME UNCHANGED challengeVars PROVE PinsKept
  BY DEF challengeVars, PinsKept

LEMMA ResolveKeepsPins ==
  ASSUME TypeOK, NEW c \in ChallengeIds, Assigned(c), Resolve(c) PROVE PinsKept
<1>1. /\ challengeRecords' = [challengeRecords EXCEPT ![c].resolved = TRUE]
      /\ nextChallengeId' = nextChallengeId
  BY DEF Resolve
<1> QED  BY <1>1 DEF TypeOK, Challenge, PinsKept

\* A step that changes no exit snapshot, and moves no provider into service or out of the
\* statuses a challenge may be open in, keeps LifeInv.
LEMMA LifeFramed ==
  ASSUME IInv, LifeInv, PinsKept, leafCount' \in Nat, leafCount' >= leafCount,
         UNCHANGED <<nextProviderId, unbondingAt, exitLeafCount>>,
         \A p \in ProviderIds : \/ status'[p] = status[p]
                                \/ status[p] # "NONE" /\ status'[p] = "SLASHED"
                                \/ /\ status[p] = "UNBONDING" /\ status'[p] = "EXITED"
                                   /\ OpenAgainst(p) = {}
  PROVE  LifeInv'
<1>1. PinsBounded'
  <2>1. ASSUME NEW p \in ProviderIds
        PROVE  /\ status'[p] \in {"NONE", "ACTIVE"} => unbondingAt'[p] = 0
               /\ exitLeafCount'[p] <= leafCount'
    BY DEF IInv, TypeOK, LifeInv, PinsBounded
  <2>2. ASSUME NEW c \in ChallengeIds, Assigned(c)'
        PROVE  /\ challengeRecords'[c].pinnedLeafCount <= leafCount'
               /\ \A i \in challengeRecords'[c].indices : i < challengeRecords'[c].pinnedLeafCount
    <3>1. challengeRecords[c].pinnedLeafCount \in Nat /\ leafCount \in Nat
      BY DEF IInv, TypeOK, Challenge
    <3> QED  BY <2>2, <3>1 DEF LifeInv, PinsBounded, PinsKept, Assigned
  <2> QED  BY <2>1, <2>2 DEF PinsBounded
<1>2. ExitPinning'
  BY DEF LifeInv, ExitPinning, PinsKept, Assigned
<1>3. Unwritten'
  BY DEF IInv, TypeOK, LifeInv, Unwritten, PinsKept, Assigned
<1>4. NoOrphanChallenge'
  BY DEF IInv, RecordsNamed, LifeInv, NoOrphanChallenge, PinsKept, Unresolved, Assigned,
     OpenAgainst
<1> QED  BY <1>1, <1>2, <1>3, <1>4 DEF LifeInv

LEMMA InitLifeInv == Init => LifeInv
  BY DEF Init, LifeInv, PinsBounded, ExitPinning, Unwritten, NoOrphanChallenge, Assigned,
     Unresolved, ChallengeIds, NoChallenge

LEMMA LifeInitiateUnbonding ==
  ASSUME IInv, LifeInv, NEW a, NEW p \in ProviderIds, InitiateUnbonding(a, p) PROVE LifeInv'
<1>1. PinsKept
  BY UnchangedKeepsPins DEF InitiateUnbonding
<1>2. /\ status' = [status EXCEPT ![p] = "UNBONDING"] /\ status[p] = "ACTIVE"
      /\ unbondingAt' = [unbondingAt EXCEPT ![p] = now]
      /\ exitLeafCount' = [exitLeafCount EXCEPT ![p] = leafCount]
      /\ leafCount' = leafCount /\ nextProviderId' = nextProviderId
  BY DEF InitiateUnbonding, datasetVars
<1>3. /\ leafCount \in Nat
      /\ \A c \in ChallengeIds : /\ challengeRecords[c].pinnedLeafCount \in Nat
                                 /\ challengeRecords[c].indices \subseteq Nat
  BY DEF IInv, TypeOK, Challenge
<1>4. PinsBounded'
  BY <1>1, <1>2, <1>3 DEF IInv, TypeOK, LifeInv, PinsBounded, PinsKept, Assigned
<1>5. ExitPinning'
  BY <1>1, <1>2, <1>3 DEF IInv, TypeOK, LifeInv, PinsBounded, ExitPinning, PinsKept, Assigned
<1>6. Unwritten'
  BY <1>1, <1>2 DEF IInv, TypeOK, LifeInv, Unwritten, PinsKept, Assigned
<1>7. NoOrphanChallenge'
  BY <1>1, <1>2 DEF IInv, TypeOK, RecordsNamed, LifeInv, NoOrphanChallenge, PinsKept,
     Unresolved, Assigned
<1> QED  BY <1>4, <1>5, <1>6, <1>7 DEF LifeInv

LEMMA LifeStake ==
  ASSUME IInv, LifeInv, NEW op, NEW wd, Stake(op, wd) PROVE LifeInv'
<1> DEFINE id == nextProviderId
<1>1. PinsKept
  BY UnchangedKeepsPins DEF Stake
<1>2. /\ id \in ProviderIds /\ nextProviderId' = id + 1
      /\ status' = [status EXCEPT ![id] = "ACTIVE"]
      /\ UNCHANGED <<leafCount, unbondingAt, exitLeafCount>>
  BY DEF Stake, datasetVars
<1>3. status[id] = "NONE" /\ unbondingAt[id] = 0
  BY <1>2 DEF LifeInv, Unwritten, PinsBounded, ProviderIds
<1>4. PinsBounded'
  BY <1>1, <1>2, <1>3 DEF IInv, TypeOK, LifeInv, PinsBounded, PinsKept, Assigned
<1>5. ExitPinning'
  BY <1>1, <1>2 DEF LifeInv, ExitPinning, PinsKept, Assigned
<1>6. Unwritten'
  BY <1>1, <1>2 DEF IInv, TypeOK, LifeInv, Unwritten, PinsKept, Assigned, ProviderIds
<1>7. NoOrphanChallenge'
  BY <1>1, <1>2 DEF IInv, TypeOK, RecordsNamed, LifeInv, NoOrphanChallenge, PinsKept,
     Unresolved, Assigned
<1> QED  BY <1>4, <1>5, <1>6, <1>7 DEF LifeInv

LEMMA LifeOpenChallenge ==
  ASSUME IInv, LifeInv, NEW a, NEW p \in ProviderIds, NEW indices \in SUBSET Nat,
         NEW v, NEW fee, OpenChallenge(a, p, indices, v, fee)
  PROVE  LifeInv'
<1> DEFINE id == nextChallengeId
<1>1. /\ id \in ChallengeIds /\ nextChallengeId' = id + 1 /\ id \in Nat
      /\ status[p] \in {"ACTIVE", "UNBONDING"}
      /\ \A i \in indices : i < PinFor(p)
      /\ UNCHANGED <<leafCount, status, nextProviderId, unbondingAt, exitLeafCount>>
  BY DEF OpenChallenge, Challengeable, datasetVars, lifecycleVars, ChallengeIds
<1>2. /\ challengeRecords'[id].providerId = p
      /\ challengeRecords'[id].pinnedLeafCount = PinFor(p)
      /\ challengeRecords'[id].indices = indices
      /\ \A d \in ChallengeIds \ {id} : challengeRecords'[d] = challengeRecords[d]
  BY DEF OpenChallenge, IInv, TypeOK
<1>3. \A d \in ChallengeIds : Assigned(d)' <=> (Assigned(d) \/ d = id)
  BY <1>1 DEF Assigned, ChallengeIds
<1>4. PinFor(p) <= leafCount
  BY DEF PinFor, IInv, TypeOK, LifeInv, PinsBounded
<1>5. unbondingAt[p] # 0 => PinFor(p) <= exitLeafCount[p]
  BY <1>1 DEF PinFor, IInv, TypeOK, LifeInv, PinsBounded
<1>6. PinFor(p) \in Nat /\ exitLeafCount[p] \in Nat
  BY DEF PinFor, IInv, TypeOK
<1>7. PinsBounded'
  BY <1>1, <1>2, <1>3, <1>4 DEF LifeInv, PinsBounded
<1>8. ExitPinning'
  <2> SUFFICES ASSUME NEW d \in ChallengeIds, Assigned(d)',
                      unbondingAt[challengeRecords'[d].providerId] # 0
               PROVE  LET q == challengeRecords'[d].providerId IN
                      /\ challengeRecords'[d].pinnedLeafCount <= exitLeafCount[q]
                      /\ \A i \in challengeRecords'[d].indices : i < exitLeafCount[q]
    BY <1>1 DEF ExitPinning
  <2>1. CASE d = id
    <3>1. PinFor(p) <= exitLeafCount[p]
      BY <2>1, <1>2, <1>5
    <3>2. \A i \in indices : i < exitLeafCount[p]
      BY <3>1, <1>1, <1>6
    <3> QED  BY <2>1, <3>1, <3>2, <1>2
  <2>2. CASE d # id  BY <2>2, <1>2, <1>3 DEF LifeInv, ExitPinning
  <2> QED  BY <2>1, <2>2
<1>9. Unwritten'
  BY <1>1, <1>2, <1>3 DEF LifeInv, Unwritten
<1>10. NoOrphanChallenge'
  BY <1>1, <1>2, <1>3 DEF LifeInv, NoOrphanChallenge, Unresolved
<1> QED  BY <1>7, <1>8, <1>9, <1>10 DEF LifeInv

\* withdraw() returns the stake of a provider nobody is challenging: the counter is zero,
\* and the counter is the number of open challenges.
LEMMA WithdrawUnchallenged ==
  ASSUME IInv, NEW p \in ProviderIds, MayWithdraw(p) PROVE OpenAgainst(p) = {}
<1>1. Cardinality(OpenAgainst(p)) = 0
  BY DEF MayWithdraw, IInv, CounterIntegrity
<1> QED  BY <1>1, OpenAgainstFinite, FS_EmptySet

LEMMA LifeStep == IInv /\ LifeInv /\ [Next]_vars => LifeInv'
<1> SUFFICES ASSUME IInv, LifeInv, [Next]_vars PROVE LifeInv'
  OBVIOUS
<1>0. leafCount \in Nat /\ status \in [ProviderIds -> Statuses]
  BY DEF IInv, TypeOK
<1>1. CASE Tick \/ UNCHANGED vars
  BY <1>0, <1>1, UnchangedKeepsPins, LifeFramed DEF Tick, vars, datasetVars, lifecycleVars
<1>2. CASE \E n \in 1..MaxLeafCount : Declare(n)
  <2>1. PICK n \in 1..MaxLeafCount : Declare(n)
    BY <1>2
  <2>2. n \in Nat
    BY BoundsAssumption
  <2> QED  BY <2>1, <2>2, <1>0, UnchangedKeepsPins, LifeFramed DEF Declare, lifecycleVars
<1>3. CASE \E op, wd \in Accounts : Stake(op, wd)
  BY <1>3, LifeStake
<1>4. CASE \E p \in ProviderIds : ProviderAction(p)
  <2>1. PICK p \in ProviderIds : ProviderAction(p)
    BY <1>4
  <2>2. CASE Withdraw(p)
    BY <2>2, <1>0, UnchangedKeepsPins, WithdrawUnchallenged, LifeFramed
    DEF Withdraw, MayWithdraw, datasetVars, lifecycleVars
  <2>3. ASSUME NEW a \in Accounts, InitiateUnbonding(a, p) PROVE LifeInv'
    BY <2>3, LifeInitiateUnbonding
  <2>4. ASSUME NEW a \in Accounts, BeginProof(a, p) PROVE LifeInv'
    BY <2>4, <1>0, UnchangedKeepsPins, LifeFramed DEF BeginProof, datasetVars, lifecycleVars
  <2>5. ASSUME NEW a \in Accounts, SubmitProof(a, p) \/ SubmitProofEscape(a, p) PROVE LifeInv'
    BY <2>5, <1>0, UnchangedKeepsPins, LifeFramed
    DEF SubmitProof, SubmitProofEscape, AcceptProof, datasetVars, lifecycleVars
  <2>6. ASSUME NEW a \in Accounts, Lapse(a, p) PROVE LifeInv'
    BY <2>6, <1>0, UnchangedKeepsPins, LifeFramed DEF Lapse, datasetVars, lifecycleVars
  <2>7. ASSUME NEW a \in Accounts, NEW indices \in SUBSET (0..MaxLeafCount - 1),
               NEW v \in BondValues, NEW fee \in BaseFees, OpenChallenge(a, p, indices, v, fee)
        PROVE  LifeInv'
    <3>1. indices \in SUBSET Nat
      BY BoundsAssumption
    <3> QED  BY <2>7, <3>1, LifeOpenChallenge
  <2> QED  BY <2>1, <2>2, <2>3, <2>4, <2>5, <2>6, <2>7 DEF ProviderAction
<1>5. CASE \E c \in ChallengeIds : ChallengeAction(c)
  <2>1. PICK c \in ChallengeIds : ChallengeAction(c)
    BY <1>5
  <2>2. ASSUME NEW a \in Accounts, Respond(a, c) PROVE LifeInv'
    BY <2>2, <1>0, ResolveKeepsPins, LifeFramed
    DEF Respond, MayRespond, Unresolved, IInv, datasetVars, lifecycleVars
  <2>3. CASE ResolveTimeout(c)
    <3>1. /\ Unresolved(c) /\ Resolve(c)
          /\ UNCHANGED <<leafCount, nextProviderId, unbondingAt, exitLeafCount>>
      BY <2>3 DEF ResolveTimeout, MayTimeOut, datasetVars, lifecycleVars
    <3>2. challengeRecords[c].providerId \in ProviderIds
          /\ status[challengeRecords[c].providerId] # "NONE"
      BY <3>1 DEF IInv, RecordsNamed, LifeInv, NoOrphanChallenge, Unresolved
    <3>3. \A p \in ProviderIds : status'[p] = status[p]
                                 \/ (status[p] # "NONE" /\ status'[p] = "SLASHED")
      BY <2>3, <3>2, <1>0 DEF ResolveTimeout
    <3> QED  BY <3>1, <3>3, <1>0, ResolveKeepsPins, LifeFramed DEF Unresolved, IInv
  <2> QED  BY <2>1, <2>2, <2>3 DEF ChallengeAction
<1>6. CASE \E a \in Accounts : Claim(a)
  BY <1>6, <1>0, UnchangedKeepsPins, LifeFramed DEF Claim, datasetVars, lifecycleVars
<1> QED  BY <1>1, <1>2, <1>3, <1>4, <1>5, <1>6 DEF Next

LEMMA LifeInvHolds == Spec => []LifeInv
  BY InvariantHolds, InitLifeInv, LifeStep, PTL DEF Spec

\* A leaving provider is never answerable for a chunk published after it left (I10).
THEOREM ExitPinningHolds == Spec => []ExitPinning
<1>1. LifeInv => ExitPinning  BY DEF LifeInv
<1> QED  BY <1>1, LifeInvHolds, PTL

\* No challenge is left open against a provider whose stake was returned.
THEOREM NoOrphanChallengeHolds == Spec => []NoOrphanChallenge
<1>1. LifeInv => NoOrphanChallenge  BY DEF LifeInv
<1> QED  BY <1>1, LifeInvHolds, PTL

-----------------------------------------------------------------------------
(***************************************************************************)
(* Solvency: the books balance after every transaction.                    *)
(***************************************************************************)

Opened == {c \in ChallengeIds : Unresolved(c)}
BondOf == [c \in ChallengeIds |-> challengeRecords[c].bond]

LEMMA OpenedFinite == IsFiniteSet(Opened) /\ IsFiniteSet(Opened')
<1>1. IsFiniteSet(ChallengeIds)
  BY FS_Interval, BoundsAssumption DEF ChallengeIds
<1>2. Opened \subseteq ChallengeIds /\ Opened' \subseteq ChallengeIds
  BY DEF Opened
<1> QED  BY <1>1, <1>2, FS_Subset

\* The open bonds are the sum of the bond field over the unresolved records.
LEMMA OpenBondsSum == OpenBonds = SumFunctionOnSet(BondOf, Opened)
<1> DEFINE f == [c \in Opened |-> challengeRecords[c].bond]
<1>1. \A c \in Opened : f[c] = BondOf[c]
  BY DEF Opened, BondOf
<1>2. OpenBonds = SumFunctionOnSet(f, Opened)
  BY DEF OpenBonds, SumFunction, Opened
<1> HIDE DEF f
<1> QED  BY <1>1, <1>2, OpenedFinite, SumAgrees

LEMMA OpenBondsSumNext == OpenBonds' = SumFunctionOnSet(BondOf', Opened')
<1> DEFINE f == [c \in Opened' |-> challengeRecords'[c].bond]
<1>1. \A c \in Opened' : f[c] = BondOf'[c]
  BY DEF Opened, BondOf
<1>2. OpenBonds' = SumFunctionOnSet(f, Opened')
  BY DEF OpenBonds, SumFunction, Opened
<1> HIDE DEF f
<1> QED  BY <1>1, <1>2, OpenedFinite, SumAgrees

LEMMA BondsNat == ASSUME TypeOK PROVE (\A c \in ChallengeIds : BondOf[c] \in Nat) /\ OpenBonds \in Nat
<1>1. \A c \in ChallengeIds : BondOf[c] \in Nat
  BY DEF TypeOK, Challenge, BondOf
<1>2. \A c \in Opened : BondOf[c] \in Nat
  BY <1>1 DEF Opened
<1> QED  BY <1>1, <1>2, OpenBondsSum, OpenedFinite, SumNat

\* Resolving an unresolved challenge takes its bond out of the open ones.
LEMMA ResolveFreesBond ==
  ASSUME TypeOK, NEW c \in ChallengeIds, Unresolved(c), Resolve(c)
  PROVE  OpenBonds' = OpenBonds - challengeRecords[c].bond
<1>1. /\ challengeRecords' = [challengeRecords EXCEPT ![c].resolved = TRUE]
      /\ nextChallengeId' = nextChallengeId
  BY DEF Resolve
<1>2. /\ challengeRecords'[c].resolved
      /\ \A d \in ChallengeIds : challengeRecords'[d].bond = challengeRecords[d].bond
      /\ \A d \in ChallengeIds \ {c} : challengeRecords'[d] = challengeRecords[d]
  BY <1>1 DEF TypeOK, Challenge
<1>3. BondOf' = BondOf
  BY <1>2 DEF BondOf
<1>4. Opened' = Opened \ {c} /\ c \in Opened
  BY <1>1, <1>2 DEF Opened, Unresolved, Assigned
<1>5. \A d \in Opened : BondOf[d] \in Nat
  BY BondsNat DEF Opened
<1>6. /\ SumFunctionOnSet(BondOf, Opened) = BondOf[c] + SumFunctionOnSet(BondOf, Opened \ {c})
      /\ SumFunctionOnSet(BondOf, Opened \ {c}) \in Nat
  BY <1>4, <1>5, OpenedFinite, SumSplit
<1>7. BondOf[c] \in Nat /\ BondOf[c] = challengeRecords[c].bond
  BY BondsNat DEF BondOf
<1> QED  BY <1>3, <1>4, <1>6, <1>7, OpenBondsSum, OpenBondsSumNext

\* Opening a challenge adds what was attached to it.
LEMMA OpeningAddsBond ==
  ASSUME TypeOK, NEW a \in Accounts, NEW p \in ProviderIds, NEW indices \in SUBSET Nat,
         NEW v \in Nat, NEW fee, OpenChallenge(a, p, indices, v, fee)
  PROVE  OpenBonds' = OpenBonds + v
<1> DEFINE id == nextChallengeId
<1>1. id \in ChallengeIds /\ nextChallengeId' = id + 1
  BY DEF OpenChallenge
<1>2. /\ challengeRecords'[id].bond = v /\ ~challengeRecords'[id].resolved
      /\ \A d \in ChallengeIds \ {id} : challengeRecords'[d] = challengeRecords[d]
  BY DEF OpenChallenge, TypeOK
<1>3. \A d \in ChallengeIds : Assigned(d)' <=> (Assigned(d) \/ d = id)
  BY <1>1 DEF Assigned, ChallengeIds
<1>4. ~Assigned(id)
  BY <1>1 DEF Assigned, ChallengeIds
<1>5. Opened' = Opened \cup {id} /\ id \notin Opened
  BY <1>1, <1>2, <1>3, <1>4 DEF Opened, Unresolved
<1>6. BondOf'[id] = v /\ \A d \in Opened : BondOf'[d] = BondOf[d] /\ BondOf[d] \in Nat
  BY <1>1, <1>2, <1>5, BondsNat DEF BondOf, Opened
<1>7. \A d \in Opened \cup {id} : BondOf'[d] \in Nat
  BY <1>6
<1>8. SumFunctionOnSet(BondOf', Opened \cup {id}) = BondOf'[id] + SumFunctionOnSet(BondOf', Opened)
  BY <1>5, <1>7, OpenedFinite, SumAdd
<1>9. SumFunctionOnSet(BondOf', Opened) = SumFunctionOnSet(BondOf, Opened)
  BY <1>6, OpenedFinite, SumAgrees
<1> QED  BY <1>5, <1>6, <1>8, <1>9, OpenBondsSum, OpenBondsSumNext, BondsNat

HasStake(s) == IF s \in {"ACTIVE", "UNBONDING"} THEN 1 ELSE 0
LostStake(s) == IF s = "SLASHED" THEN 1 ELSE 0

\* A change of one status changes the two counts by what the provider left and joined.
LEMMA StatusesCounted ==
  ASSUME IInv, NEW p \in ProviderIds, NEW s, status' = [status EXCEPT ![p] = s]
  PROVE  /\ Cardinality(Staked') = Cardinality(Staked) - HasStake(status[p]) + HasStake(s)
         /\ Cardinality(Slashed') = Cardinality(Slashed) - LostStake(status[p]) + LostStake(s)
<1> DEFINE A == Staked \ {p}
           B == Slashed \ {p}
<1>1. IsFiniteSet(ProviderIds) /\ Staked \subseteq ProviderIds /\ Slashed \subseteq ProviderIds
  BY FS_Interval, BoundsAssumption DEF ProviderIds, Staked, Slashed
<1>2. IsFiniteSet(Staked) /\ IsFiniteSet(Slashed)
  BY <1>1, FS_Subset
<1>3. IsFiniteSet(A) /\ IsFiniteSet(B) /\ p \notin A /\ p \notin B
  BY <1>2, FS_RemoveElement
<1>4. Cardinality(A) \in Nat /\ Cardinality(B) \in Nat
  BY <1>3, FS_CardinalityType
<1>5. Cardinality(A \cup {p}) = Cardinality(A) + 1 /\ Cardinality(B \cup {p}) = Cardinality(B) + 1
  BY <1>3, FS_AddElement
<1>6. Staked = IF status[p] \in {"ACTIVE", "UNBONDING"} THEN A \cup {p} ELSE A
  BY DEF Staked
<1>7. Slashed = IF status[p] = "SLASHED" THEN B \cup {p} ELSE B
  BY DEF Slashed
<1>8. Staked' = IF s \in {"ACTIVE", "UNBONDING"} THEN A \cup {p} ELSE A
  BY DEF Staked, IInv, TypeOK
<1>9. Slashed' = IF s = "SLASHED" THEN B \cup {p} ELSE B
  BY DEF Slashed, IInv, TypeOK
<1> HIDE DEF A, B
<1>10. Cardinality(Staked') = Cardinality(Staked) - HasStake(status[p]) + HasStake(s)
  BY <1>4, <1>5, <1>6, <1>8 DEF HasStake
<1>11. Cardinality(Slashed') = Cardinality(Slashed) - LostStake(status[p]) + LostStake(s)
  BY <1>4, <1>5, <1>7, <1>9 DEF LostStake
<1> QED  BY <1>10, <1>11

LEMMA CountsNat == Cardinality(Staked) \in Nat /\ Cardinality(Slashed) \in Nat
<1>1. IsFiniteSet(ProviderIds) /\ Staked \subseteq ProviderIds /\ Slashed \subseteq ProviderIds
  BY FS_Interval, BoundsAssumption DEF ProviderIds, Staked, Slashed
<1> QED  BY <1>1, FS_Subset, FS_CardinalityType

\* A stake is released once: the provider leaves the staked ones, and joins the slashed ones
\* exactly if it is SLASHED.
LEMMA StakeReleased ==
  ASSUME IInv, NEW p \in ProviderIds, status[p] \in {"ACTIVE", "UNBONDING"},
         NEW s \in {"EXITED", "SLASHED"}, status' = [status EXCEPT ![p] = s]
  PROVE  /\ Cardinality(Staked) = Cardinality(Staked') + 1
         /\ s = "EXITED" => Cardinality(Slashed') = Cardinality(Slashed)
         /\ s = "SLASHED" => Cardinality(Slashed') = Cardinality(Slashed) + 1
<1>1. /\ Cardinality(Staked') = Cardinality(Staked) - HasStake(status[p]) + HasStake(s)
      /\ Cardinality(Slashed') = Cardinality(Slashed) - LostStake(status[p]) + LostStake(s)
  BY StatusesCounted
<1>2. /\ HasStake(status[p]) = 1 /\ HasStake(s) = 0 /\ LostStake(status[p]) = 0
      /\ LostStake(s) = IF s = "SLASHED" THEN 1 ELSE 0
  BY DEF HasStake, LostStake
<1> QED  BY <1>1, <1>2, CountsNat

\* A payout moves the amount out of the instance or into the parked ledger, whose total
\* follows; only the part sent to the paymaster is absorbed.
LEMMA PayoutBalanced ==
  ASSUME TypeOK, totalClaimable = SumFunction(claimable),
         NEW to, NEW amount \in Nat, NEW rest \in Nat, Payout(to, amount, rest)
  PROVE  /\ totalClaimable' = SumFunction(claimable')
         /\ balance' - totalClaimable' = balance - totalClaimable - rest - amount
         /\ balance' \in Int /\ totalClaimable' \in Int
         /\ slashAbsorbed' = slashAbsorbed + rest
<1>1. CASE UNCHANGED <<claimable, totalClaimable>> /\ balance' = balance - rest - amount
  BY <1>1 DEF TypeOK, Payout
<1>2. CASE /\ to \in Refusers /\ balance' = balance - rest
           /\ claimable' = [claimable EXCEPT ![to] = @ + amount]
           /\ totalClaimable' = totalClaimable + amount
  <2>1. to \in Accounts /\ IsFiniteSet(Accounts)
    BY <1>2, ParamsAssumption
  <2>2. claimable[to] + amount \in Nat /\ claimable[to] \in Nat
    BY <2>1 DEF TypeOK
  <2> DEFINE v == claimable[to] + amount
  <2>3. claimable \in [Accounts -> Nat] /\ v \in Nat
    BY <2>2 DEF TypeOK
  <2>4. claimable' = [claimable EXCEPT ![to] = v]
    BY <1>2
  <2> HIDE DEF v
  <2>5. /\ SumFunction([claimable EXCEPT ![to] = v]) = SumFunction(claimable) - claimable[to] + v
        /\ SumFunction(claimable) \in Nat
    BY <2>1, <2>3, TotalOfUpdate
  <2> QED  BY <1>2, <2>2, <2>4, <2>5 DEF TypeOK, Payout, v
<1> QED  BY <1>1, <1>2 DEF Payout

\* Solvency with the bounty by name.
LEMMA SolvencyParts ==
  Solvency <=> /\ totalClaimable = SumFunction(claimable)
               /\ balance = StakeWei * Cardinality(Staked) + OpenBonds + totalClaimable
               /\ slashAbsorbed = (StakeWei - Bounty) * Cardinality(Slashed)
  BY DEF Solvency, Bounty

\* What a step that pays nothing out leaves alone.
LEMMA SolvencyFramed ==
  ASSUME Solvency, UNCHANGED <<status, challengeVars, moneyVars>> PROVE Solvency'
  BY DEF Solvency, moneyVars, challengeVars, Staked, Slashed, OpenBonds, Unresolved, Assigned

\* A step that moves one provider between ACTIVE, UNBONDING and not staked at all.
LEMMA SolvencyStake ==
  ASSUME IInv, LifeInv, Solvency, NEW op, NEW wd, Stake(op, wd) PROVE Solvency'
<1> DEFINE id == nextProviderId
<1>1. /\ id \in ProviderIds /\ status' = [status EXCEPT ![id] = "ACTIVE"]
      /\ balance' = balance + StakeWei
      /\ UNCHANGED <<challengeVars, claimable, totalClaimable, slashAbsorbed>>
  BY DEF Stake
<1>2. status[id] = "NONE"
  BY <1>1 DEF LifeInv, Unwritten, ProviderIds
<1>3. Cardinality(Staked') = Cardinality(Staked) + 1 /\ Cardinality(Slashed') = Cardinality(Slashed)
  <2>1. /\ Cardinality(Staked') = Cardinality(Staked) - HasStake("NONE") + HasStake("ACTIVE")
        /\ Cardinality(Slashed') = Cardinality(Slashed) - LostStake("NONE") + LostStake("ACTIVE")
    BY <1>1, <1>2, StatusesCounted
  <2>2. /\ HasStake("NONE") = 0 /\ HasStake("ACTIVE") = 1
        /\ LostStake("NONE") = 0 /\ LostStake("ACTIVE") = 0
    BY DEF HasStake, LostStake
  <2> QED  BY <2>1, <2>2, CountsNat
<1>4. OpenBonds' = OpenBonds /\ OpenBonds \in Nat
  BY <1>1, BondsNat DEF challengeVars, OpenBonds, Unresolved, Assigned, IInv
<1>5. balance' = StakeWei * (Cardinality(Staked) + 1) + OpenBonds + totalClaimable
  BY <1>1, <1>4, CountsNat, ParamsAssumption, SolvencyParts DEF IInv, TypeOK
<1> QED  BY <1>1, <1>3, <1>4, <1>5 DEF Solvency

LEMMA SolvencyInitiateUnbonding ==
  ASSUME IInv, Solvency, NEW a, NEW p \in ProviderIds, InitiateUnbonding(a, p) PROVE Solvency'
<1>1. /\ status[p] = "ACTIVE" /\ status' = [status EXCEPT ![p] = "UNBONDING"]
      /\ UNCHANGED <<challengeVars, moneyVars>>
  BY DEF InitiateUnbonding
<1>2. Cardinality(Staked') = Cardinality(Staked) /\ Cardinality(Slashed') = Cardinality(Slashed)
  <2>1. /\ Cardinality(Staked') = Cardinality(Staked) - HasStake(status[p]) + HasStake("UNBONDING")
        /\ Cardinality(Slashed') = Cardinality(Slashed) - LostStake(status[p]) + LostStake("UNBONDING")
    BY <1>1, StatusesCounted
  <2>2. HasStake(status[p]) = 1 /\ LostStake(status[p]) = 0
        /\ HasStake("UNBONDING") = 1 /\ LostStake("UNBONDING") = 0
    BY <1>1 DEF HasStake, LostStake
  <2> QED  BY <2>1, <2>2, CountsNat
<1>3. OpenBonds' = OpenBonds
  BY <1>1 DEF challengeVars, OpenBonds, Unresolved, Assigned
<1> QED  BY <1>1, <1>2, <1>3 DEF Solvency, moneyVars

\* A payout of the whole stake and of freed bonds, the slashed part to the paymaster.
LEMMA SolvencyPaid ==
  ASSUME IInv, Solvency, NEW to, NEW amount \in Nat, NEW rest \in Nat, Payout(to, amount, rest),
         NEW n \in Nat, NEW m \in Nat, NEW freed \in Nat,
         Cardinality(Staked') = n, Cardinality(Slashed') = m,
         OpenBonds' = OpenBonds - freed,
         \/ /\ Cardinality(Staked) = n + 1 /\ Cardinality(Slashed) = m
            /\ amount = StakeWei + freed /\ rest = 0
         \/ /\ Cardinality(Staked) = n + 1 /\ m = Cardinality(Slashed) + 1
            /\ amount = Bounty + freed /\ rest = StakeWei - Bounty
         \/ /\ Cardinality(Staked) = n /\ Cardinality(Slashed) = m
            /\ amount = freed /\ rest = 0
  PROVE  Solvency'
<1>1. StakeWei \in Nat /\ Bounty \in Nat /\ OpenBonds \in Nat /\ balance \in Int
      /\ totalClaimable \in Int /\ slashAbsorbed \in Nat
  BY ParamsAssumption, BountyBound, BondsNat DEF IInv, TypeOK
<1>2. /\ totalClaimable' = SumFunction(claimable')
      /\ balance' - totalClaimable' = balance - totalClaimable - rest - amount
      /\ balance' \in Int /\ totalClaimable' \in Int
      /\ slashAbsorbed' = slashAbsorbed + rest
  BY PayoutBalanced, SolvencyParts DEF IInv
<1>3. Cardinality(Staked) \in Nat /\ Cardinality(Slashed) \in Nat
  BY CountsNat
<1>4. /\ balance = StakeWei * Cardinality(Staked) + OpenBonds + totalClaimable
      /\ slashAbsorbed = (StakeWei - Bounty) * Cardinality(Slashed)
  BY SolvencyParts
<1>5. balance' = StakeWei * n + OpenBonds' + totalClaimable'
  <2>1. StakeWei * (n + 1) = StakeWei * n + StakeWei /\ StakeWei * n \in Nat
    BY <1>1
  <2> DEFINE x == StakeWei * n
             y == StakeWei * (n + 1)
  <2>2. balance = (IF Cardinality(Staked) = n + 1 THEN y ELSE x) + OpenBonds + totalClaimable
    BY <1>3, <1>4
  <2>3. y = x + StakeWei /\ x \in Nat
    BY <2>1
  <2> HIDE DEF x, y
  <2>4. balance' = x + OpenBonds' + totalClaimable'
    BY <1>1, <1>2, <2>2, <2>3
  <2> QED  BY <2>4 DEF x
<1>6. slashAbsorbed' = (StakeWei - Bounty) * m
  <2> DEFINE k == Cardinality(Slashed)
             r == StakeWei - Bounty
  <2>1. r * (k + 1) = r * k + r /\ r * k \in Int
    BY <1>1, <1>3
  <2>2. CASE m = k /\ rest = 0
    BY <1>1, <1>2, <1>4, <2>2
  <2>3. CASE m = k + 1 /\ rest = r
    <3>1. slashAbsorbed' = r * k + r
      BY <1>2, <1>4, <2>3
    <3> QED  BY <2>1, <2>3, <3>1
  <2> QED  BY <2>2, <2>3
<1> QED  BY <1>2, <1>5, <1>6 DEF Solvency, Bounty

LEMMA OpenBondsFramed ==
  ASSUME IInv, UNCHANGED challengeVars PROVE OpenBonds' = OpenBonds - 0
  BY BondsNat DEF IInv, challengeVars, OpenBonds, Unresolved, Assigned

LEMMA CountsNatNext == Cardinality(Staked') \in Nat /\ Cardinality(Slashed') \in Nat
<1>1. /\ IsFiniteSet(ProviderIds) /\ Staked' \subseteq ProviderIds
      /\ Slashed' \subseteq ProviderIds
  BY FS_Interval, BoundsAssumption DEF ProviderIds, Staked, Slashed
<1> QED  BY <1>1, FS_Subset, FS_CardinalityType

LEMMA SolvencyWithdraw ==
  ASSUME IInv, Solvency, NEW p \in ProviderIds, Withdraw(p) PROVE Solvency'
<1>1. /\ status[p] = "UNBONDING" /\ status' = [status EXCEPT ![p] = "EXITED"]
      /\ Payout(withdrawal[p], StakeWei + 0, 0) /\ StakeWei + 0 \in Nat
      /\ UNCHANGED challengeVars
  BY ParamsAssumption DEF Withdraw, MayWithdraw
<1>2. Cardinality(Staked) = Cardinality(Staked') + 1 /\ Cardinality(Slashed) = Cardinality(Slashed')
  BY <1>1, StakeReleased
<1>3. OpenBonds' = OpenBonds - 0
  BY <1>1, OpenBondsFramed
<1> QED  BY <1>1, <1>2, <1>3, CountsNatNext, SolvencyPaid

LEMMA SolvencyLapse ==
  ASSUME IInv, Solvency, NEW a, NEW p \in ProviderIds, Lapse(a, p) PROVE Solvency'
<1>1. /\ status[p] = "ACTIVE" /\ status' = [status EXCEPT ![p] = "SLASHED"]
      /\ Payout(a, Bounty + 0, StakeWei - Bounty)
      /\ Bounty + 0 \in Nat /\ StakeWei - Bounty \in Nat
      /\ UNCHANGED challengeVars
  BY BountyBound, ParamsAssumption DEF Lapse
<1>2. Cardinality(Staked) = Cardinality(Staked') + 1
      /\ Cardinality(Slashed') = Cardinality(Slashed) + 1
  BY <1>1, StakeReleased
<1>3. OpenBonds' = OpenBonds - 0
  BY <1>1, OpenBondsFramed
<1> QED  BY <1>1, <1>2, <1>3, CountsNatNext, SolvencyPaid

LEMMA SolvencyOpenChallenge ==
  ASSUME IInv, Solvency, NEW a \in Accounts, NEW p \in ProviderIds, NEW indices \in SUBSET Nat,
         NEW v \in Nat, NEW fee, OpenChallenge(a, p, indices, v, fee)
  PROVE  Solvency'
<1>1. /\ balance' = balance + v
      /\ UNCHANGED <<status, claimable, totalClaimable, slashAbsorbed>>
  BY DEF OpenChallenge
<1>2. OpenBonds' = OpenBonds + v /\ OpenBonds \in Nat
  BY OpeningAddsBond, BondsNat DEF IInv
<1>3. Staked' = Staked /\ Slashed' = Slashed
  BY <1>1 DEF Staked, Slashed
<1>4. StakeWei * Cardinality(Staked) \in Nat
  BY CountsNat, ParamsAssumption
<1>5. balance = StakeWei * Cardinality(Staked) + OpenBonds + totalClaimable
  BY DEF Solvency
<1>6. balance' = StakeWei * Cardinality(Staked') + OpenBonds' + totalClaimable'
  <2> DEFINE x == StakeWei * Cardinality(Staked)
  <2>1. x \in Nat /\ balance = x + OpenBonds + totalClaimable
    BY <1>4, <1>5
  <2> HIDE DEF x
  <2>2. balance' = x + OpenBonds' + totalClaimable'
    BY <1>1, <1>2, <2>1 DEF IInv, TypeOK
  <2> QED  BY <1>3, <2>2 DEF x
<1> QED  BY <1>1, <1>3, <1>6 DEF Solvency

LEMMA SolvencyRespond ==
  ASSUME IInv, Solvency, NEW a, NEW c \in ChallengeIds, Respond(a, c) PROVE Solvency'
<1> DEFINE bond == challengeRecords[c].bond
<1>1. /\ Unresolved(c) /\ Resolve(c) /\ status' = status
      /\ Payout(operator[challengeRecords[c].providerId], bond, 0)
  BY DEF Respond, MayRespond
<1>2. bond \in Nat
  BY DEF IInv, TypeOK, Challenge
<1>3. OpenBonds' = OpenBonds - bond
  BY <1>1, ResolveFreesBond DEF IInv
<1>4. Cardinality(Staked') = Cardinality(Staked) /\ Cardinality(Slashed') = Cardinality(Slashed)
  BY <1>1 DEF Staked, Slashed
<1> QED  BY <1>1, <1>2, <1>3, <1>4, CountsNatNext, SolvencyPaid

\* The provider of an unresolved challenge is still staked or already slashed: nobody is
\* slashed whose stake was returned.
LEMMA SolvencyResolveTimeout ==
  ASSUME IInv, LifeInv, Solvency, NEW c \in ChallengeIds, ResolveTimeout(c) PROVE Solvency'
<1> DEFINE p == challengeRecords[c].providerId
           bond == challengeRecords[c].bond
<1>1. Unresolved(c) /\ Resolve(c)
  BY DEF ResolveTimeout, MayTimeOut
<1>2. bond \in Nat /\ Bounty + bond \in Nat /\ StakeWei - Bounty \in Nat
  BY BountyBound, ParamsAssumption DEF IInv, TypeOK, Challenge
<1>3. OpenBonds' = OpenBonds - bond
  BY <1>1, ResolveFreesBond DEF IInv
<1>4. p \in ProviderIds /\ status[p] \in {"ACTIVE", "UNBONDING", "SLASHED"}
  BY <1>1 DEF IInv, RecordsNamed, Unresolved, LifeInv, NoOrphanChallenge
<1>5. CASE /\ status[p] # "SLASHED" /\ status' = [status EXCEPT ![p] = "SLASHED"]
           /\ Payout(challengeRecords[c].challenger, Bounty + bond, StakeWei - Bounty)
  <2>1. Cardinality(Staked) = Cardinality(Staked') + 1
        /\ Cardinality(Slashed') = Cardinality(Slashed) + 1
    BY <1>4, <1>5, StakeReleased
  <2> QED  BY <1>2, <1>3, <1>5, <2>1, CountsNatNext, SolvencyPaid
<1>6. CASE status' = status /\ Payout(challengeRecords[c].challenger, bond, 0)
  <2>1. Cardinality(Staked') = Cardinality(Staked) /\ Cardinality(Slashed') = Cardinality(Slashed)
    BY <1>6 DEF Staked, Slashed
  <2> QED  BY <1>2, <1>3, <1>6, <2>1, CountsNatNext, SolvencyPaid
<1> QED  BY <1>5, <1>6 DEF ResolveTimeout

LEMMA SolvencyClaim ==
  ASSUME IInv, Solvency, NEW a \in Accounts, Claim(a) PROVE Solvency'
<1>1. /\ claimable' = [claimable EXCEPT ![a] = 0]
      /\ totalClaimable' = totalClaimable - claimable[a]
      /\ balance' = balance - claimable[a]
      /\ UNCHANGED <<status, challengeVars, slashAbsorbed>>
  BY DEF Claim
<1>2. claimable \in [Accounts -> Nat] /\ claimable[a] \in Nat
  BY DEF IInv, TypeOK
<1>3. /\ SumFunction([claimable EXCEPT ![a] = 0]) = SumFunction(claimable) - claimable[a] + 0
      /\ SumFunction(claimable) \in Nat
  <2>1. IsFiniteSet(Accounts) /\ 0 \in Nat
    BY ParamsAssumption
  <2> QED  BY <1>2, <2>1, TotalOfUpdate
<1>4. totalClaimable' = SumFunction(claimable')
  BY <1>1, <1>2, <1>3 DEF Solvency
<1>5. Staked' = Staked /\ Slashed' = Slashed /\ OpenBonds' = OpenBonds
  BY <1>1 DEF Staked, Slashed, challengeVars, OpenBonds, Unresolved, Assigned
<1>6. balance' = StakeWei * Cardinality(Staked') + OpenBonds' + totalClaimable'
  <2> DEFINE x == StakeWei * Cardinality(Staked)
  <2>1. x \in Nat /\ balance = x + OpenBonds + totalClaimable
    BY CountsNat, ParamsAssumption DEF Solvency
  <2> HIDE DEF x
  <2>2. balance' = x + OpenBonds + totalClaimable'
    BY <1>1, <1>2, <2>1, BondsNat DEF IInv, TypeOK
  <2> QED  BY <1>5, <2>2 DEF x
<1> QED  BY <1>1, <1>4, <1>5, <1>6 DEF Solvency

LEMMA InitSolvency == Init => Solvency
<1> SUFFICES ASSUME Init PROVE Solvency
  OBVIOUS
<1>1. IInv
  BY InitIInv
<1>2. SumFunction(claimable) = 0
  BY TotalOfZeros, ParamsAssumption DEF Init
<1>3. Staked = {} /\ Slashed = {} /\ Opened = {}
  BY DEF Init, Staked, Slashed, Opened, Unresolved, Assigned, ChallengeIds
<1>4. Cardinality(Staked) = 0 /\ Cardinality(Slashed) = 0
  BY <1>3, FS_EmptySet
<1>5. OpenBonds = 0
  BY <1>3, OpenBondsSum, SumEmpty
<1> QED  BY <1>2, <1>4, <1>5, BountyBound, ParamsAssumption, SolvencyParts DEF Init

LEMMA SolvencyStep == IInv /\ LifeInv /\ Solvency /\ [Next]_vars => Solvency'
<1> SUFFICES ASSUME IInv, LifeInv, Solvency, [Next]_vars PROVE Solvency'
  OBVIOUS
<1>1. CASE Tick \/ UNCHANGED vars \/ \E n \in 1..MaxLeafCount : Declare(n)
  BY <1>1, SolvencyFramed DEF Tick, Declare, vars
<1>2. CASE \E op, wd \in Accounts : Stake(op, wd)
  BY <1>2, SolvencyStake
<1>3. CASE \E p \in ProviderIds : ProviderAction(p)
  <2>1. PICK p \in ProviderIds : ProviderAction(p)
    BY <1>3
  <2>2. CASE Withdraw(p)  BY <2>2, SolvencyWithdraw
  <2>3. ASSUME NEW a \in Accounts, InitiateUnbonding(a, p) PROVE Solvency'
    BY <2>3, SolvencyInitiateUnbonding
  <2>4. ASSUME NEW a \in Accounts,
               BeginProof(a, p) \/ SubmitProof(a, p) \/ SubmitProofEscape(a, p)
        PROVE  Solvency'
    BY <2>4, SolvencyFramed DEF BeginProof, SubmitProof, SubmitProofEscape, AcceptProof
  <2>5. ASSUME NEW a \in Accounts, Lapse(a, p) PROVE Solvency'
    BY <2>5, SolvencyLapse
  <2>6. ASSUME NEW a \in Accounts, NEW indices \in SUBSET (0..MaxLeafCount - 1),
               NEW v \in BondValues, NEW fee \in BaseFees, OpenChallenge(a, p, indices, v, fee)
        PROVE  Solvency'
    <3>1. indices \in SUBSET Nat /\ v \in Nat
      BY ParamsAssumption, BoundsAssumption
    <3> QED  BY <2>6, <3>1, SolvencyOpenChallenge
  <2> QED  BY <2>1, <2>2, <2>3, <2>4, <2>5, <2>6 DEF ProviderAction
<1>4. CASE \E c \in ChallengeIds : ChallengeAction(c)
  BY <1>4, SolvencyRespond, SolvencyResolveTimeout DEF ChallengeAction
<1>5. CASE \E a \in Accounts : Claim(a)
  BY <1>5, SolvencyClaim
<1> QED  BY <1>1, <1>2, <1>3, <1>4, <1>5 DEF Next

\* The instance holds exactly the unsettled stakes, the open bonds and the parked payouts,
\* for any number of providers, challenges and accounts and any bonds: nothing is paid
\* twice and nothing is stranded (I4, I5, I20).
THEOREM SolvencyHolds == Spec => []Solvency
  BY InvariantHolds, LifeInvHolds, InitSolvency, SolvencyStep, PTL DEF Spec

-----------------------------------------------------------------------------
(***************************************************************************)
(* The instance implements the abstract bond of module ProviderBond.       *)
(***************************************************************************)

LEMMA BondInitMaps == Init => Bond!BondInit
  BY DEF Init, Bond!BondInit, BondStake, BondClaimOn, BondClosed, StakeState, NoChallenge

\* What the abstract state shows of a step that touches neither statuses nor records.
LEMMA BondStutters ==
  ASSUME UNCHANGED <<status, challengeVars>> PROVE UNCHANGED Bond!bondVars
  BY DEF challengeVars, Bond!bondVars, BondStake, BondClaimOn, BondClosed

\* A change of one status is a change of one abstract stake.
LEMMA BondStakeMoves ==
  ASSUME NEW p \in ProviderIds, NEW s, status \in [ProviderIds -> Statuses],
         status' = [status EXCEPT ![p] = s]
  PROVE  BondStake' = [BondStake EXCEPT ![p] = StakeState(s)]
  BY DEF BondStake

LEMMA BondRecordsKept ==
  ASSUME UNCHANGED challengeVars PROVE UNCHANGED <<BondClaimOn, BondClosed>>
  BY DEF challengeVars, BondClaimOn, BondClosed

\* Resolving a challenge closes one claim.
LEMMA BondClosesOne ==
  ASSUME TypeOK, NEW c \in ChallengeIds, Resolve(c)
  PROVE  BondClosed' = BondClosed \cup {c} /\ BondClaimOn' = BondClaimOn
<1>1. challengeRecords' = [challengeRecords EXCEPT ![c].resolved = TRUE]
  BY DEF Resolve
<1>2. /\ challengeRecords'[c].resolved
      /\ \A d \in ChallengeIds \ {c} : challengeRecords'[d] = challengeRecords[d]
      /\ \A d \in ChallengeIds : challengeRecords'[d].providerId = challengeRecords[d].providerId
  BY <1>1 DEF TypeOK, Challenge
<1> QED  BY <1>2 DEF BondClosed, BondClaimOn

\* What an unresolved challenge looks like in the abstract state.
LEMMA BondClaimOpen ==
  ASSUME IInv, LifeInv, NEW c \in ChallengeIds, Unresolved(c)
  PROVE  /\ challengeRecords[c].providerId \in ProviderIds
         /\ BondClaimOn[c] = challengeRecords[c].providerId
         /\ BondClaimOn[c] # 0 /\ c \notin BondClosed
         /\ BondStake[BondClaimOn[c]] \in {"serving", "leaving", "forfeited"}
         /\ status[challengeRecords[c].providerId] # "SLASHED" =>
              BondStake[BondClaimOn[c]] \in {"serving", "leaving"}
<1>1. challengeRecords[c].providerId \in ProviderIds
  BY DEF IInv, RecordsNamed, Unresolved
<1>2. status[challengeRecords[c].providerId] \in {"ACTIVE", "UNBONDING", "SLASHED"}
  BY DEF LifeInv, NoOrphanChallenge
<1>3. challengeRecords[c].providerId # 0
  BY <1>1, BoundsAssumption DEF ProviderIds
<1> QED  BY <1>1, <1>2, <1>3 DEF BondClaimOn, BondClosed, BondStake, StakeState, Unresolved

LEMMA BondStepStake ==
  ASSUME IInv, LifeInv, NEW op, NEW wd, Stake(op, wd) PROVE Bond!BondNext
<1> DEFINE id == nextProviderId
<1>1. id \in ProviderIds /\ status' = [status EXCEPT ![id] = "ACTIVE"] /\ UNCHANGED challengeVars
  BY DEF Stake
<1>2. status[id] = "NONE"
  BY <1>1 DEF LifeInv, Unwritten, ProviderIds
<1>3. BondStake[id] = "absent" /\ BondStake' = [BondStake EXCEPT ![id] = "serving"]
  BY <1>1, <1>2, BondStakeMoves DEF BondStake, StakeState, IInv, TypeOK
<1>4. Bond!Enter(id)
  BY <1>1, <1>3, BondRecordsKept DEF Bond!Enter
<1> QED  BY <1>1, <1>4 DEF Bond!BondNext

LEMMA BondStepInitiateUnbonding ==
  ASSUME IInv, NEW a, NEW p \in ProviderIds, InitiateUnbonding(a, p) PROVE Bond!BondNext
<1>1. status[p] = "ACTIVE" /\ status' = [status EXCEPT ![p] = "UNBONDING"]
      /\ UNCHANGED challengeVars
  BY DEF InitiateUnbonding
<1>2. BondStake[p] = "serving" /\ BondStake' = [BondStake EXCEPT ![p] = "leaving"]
  BY <1>1, BondStakeMoves DEF BondStake, StakeState, IInv, TypeOK
<1>3. Bond!Leave(p)
  BY <1>1, <1>2, BondRecordsKept DEF Bond!Leave
<1> QED  BY <1>3 DEF Bond!BondNext

LEMMA BondStepWithdraw ==
  ASSUME IInv, LifeInv, NEW p \in ProviderIds, Withdraw(p) PROVE Bond!BondNext
<1>1. status[p] = "UNBONDING" /\ status' = [status EXCEPT ![p] = "EXITED"]
      /\ UNCHANGED challengeVars
  BY DEF Withdraw, MayWithdraw
<1>2. BondStake[p] = "leaving" /\ BondStake' = [BondStake EXCEPT ![p] = "returned"]
  BY <1>1, BondStakeMoves DEF BondStake, StakeState, IInv, TypeOK
<1>3. OpenAgainst(p) = {}
  BY WithdrawUnchallenged DEF Withdraw
<1>4. p # 0
  BY BoundsAssumption DEF ProviderIds
<1>5. Bond!OpenClaims(p) = {}
  <2> SUFFICES ASSUME NEW c \in ChallengeIds \ BondClosed, BondClaimOn[c] = p PROVE FALSE
    BY DEF Bond!OpenClaims
  <2>1. challengeRecords[c].providerId = p /\ ~challengeRecords[c].resolved
    BY DEF BondClaimOn, BondClosed
  <2>2. Assigned(c)
    BY <2>1, <1>4 DEF LifeInv, Unwritten
  <2> QED  BY <2>1, <2>2, <1>3 DEF OpenAgainst, Unresolved
<1>6. Bond!Return(p)
  BY <1>1, <1>2, <1>5, BondRecordsKept DEF Bond!Return
<1> QED  BY <1>6 DEF Bond!BondNext

LEMMA BondStepLapse ==
  ASSUME IInv, NEW a, NEW p \in ProviderIds, Lapse(a, p) PROVE Bond!BondNext
<1>1. status[p] = "ACTIVE" /\ status' = [status EXCEPT ![p] = "SLASHED"]
      /\ UNCHANGED challengeVars
  BY DEF Lapse
<1>2. BondStake[p] = "serving" /\ BondStake' = [BondStake EXCEPT ![p] = "forfeited"]
  BY <1>1, BondStakeMoves DEF BondStake, StakeState, IInv, TypeOK
<1>3. Bond!Forfeit(p)
  BY <1>1, <1>2, BondRecordsKept DEF Bond!Forfeit
<1> QED  BY <1>3 DEF Bond!BondNext

LEMMA BondStepOpenChallenge ==
  ASSUME IInv, LifeInv, NEW a, NEW p \in ProviderIds, NEW indices, NEW v, NEW fee,
         OpenChallenge(a, p, indices, v, fee)
  PROVE  Bond!BondNext
<1> DEFINE id == nextChallengeId
<1>1. /\ id \in ChallengeIds /\ status' = status
      /\ status[p] \in {"ACTIVE", "UNBONDING"}
      /\ challengeRecords'[id].providerId = p /\ ~challengeRecords'[id].resolved
      /\ \A d \in ChallengeIds \ {id} : challengeRecords'[d] = challengeRecords[d]
  BY DEF OpenChallenge, Challengeable, IInv, TypeOK
<1>2. ~Assigned(id)
  BY <1>1 DEF Assigned, ChallengeIds
<1>3. challengeRecords[id].providerId = 0 /\ ~challengeRecords[id].resolved
  BY <1>1, <1>2 DEF LifeInv, Unwritten
<1>4. BondStake' = BondStake /\ BondStake[p] \in {"serving", "leaving"}
  BY <1>1 DEF BondStake, StakeState
<1>5. BondClosed' = BondClosed
  BY <1>1, <1>3 DEF BondClosed
<1>6. BondClaimOn' = [BondClaimOn EXCEPT ![id] = p] /\ BondClaimOn[id] = 0
  BY <1>1, <1>3 DEF BondClaimOn
<1>7. Bond!Accuse(id, p)
  BY <1>4, <1>5, <1>6 DEF Bond!Accuse
<1> QED  BY <1>1, <1>7 DEF Bond!BondNext

LEMMA BondStepRespond ==
  ASSUME IInv, LifeInv, NEW a, NEW c \in ChallengeIds, Respond(a, c) PROVE Bond!BondNext
<1>1. /\ Unresolved(c) /\ Resolve(c) /\ status' = status
      /\ status[challengeRecords[c].providerId] # "SLASHED"
  BY DEF Respond, MayRespond
<1>2. BondStake' = BondStake
  BY <1>1 DEF BondStake
<1>3. BondClosed' = BondClosed \cup {c} /\ BondClaimOn' = BondClaimOn
  BY <1>1, BondClosesOne DEF IInv
<1>4. Bond!Answer(c)
  BY <1>1, <1>2, <1>3, BondClaimOpen DEF Bond!Answer
<1> QED  BY <1>4 DEF Bond!BondNext

LEMMA BondStepResolveTimeout ==
  ASSUME IInv, LifeInv, NEW c \in ChallengeIds, ResolveTimeout(c) PROVE Bond!BondNext
<1> DEFINE p == challengeRecords[c].providerId
<1>1. Unresolved(c) /\ Resolve(c)
  BY DEF ResolveTimeout, MayTimeOut
<1>2. p \in ProviderIds /\ status \in [ProviderIds -> Statuses]
  BY <1>1, BondClaimOpen DEF IInv, TypeOK
<1>3. status' = [status EXCEPT ![p] = "SLASHED"]
  BY <1>2 DEF ResolveTimeout
<1>4. BondStake' = [BondStake EXCEPT ![p] = "forfeited"]
  BY <1>2, <1>3, BondStakeMoves DEF StakeState
<1>5. BondClosed' = BondClosed \cup {c} /\ BondClaimOn' = BondClaimOn
  BY <1>1, BondClosesOne DEF IInv
<1>6. Bond!Fail(c)
  BY <1>1, <1>4, <1>5, BondClaimOpen DEF Bond!Fail
<1> QED  BY <1>6 DEF Bond!BondNext

LEMMA BondStepMaps == IInv /\ LifeInv /\ [Next]_vars => [Bond!BondNext]_(Bond!bondVars)
<1> SUFFICES ASSUME IInv, LifeInv, [Next]_vars
             PROVE  Bond!BondNext \/ UNCHANGED Bond!bondVars
  OBVIOUS
<1>1. CASE Tick \/ UNCHANGED vars \/ \E a \in Accounts : Claim(a)
  BY <1>1, BondStutters DEF Tick, vars, Claim
<1>2. CASE \E n \in 1..MaxLeafCount : Declare(n)
  BY <1>2, BondStutters DEF Declare
<1>3. CASE \E op, wd \in Accounts : Stake(op, wd)
  BY <1>3, BondStepStake
<1>4. CASE \E p \in ProviderIds : ProviderAction(p)
  <2>1. PICK p \in ProviderIds : ProviderAction(p)
    BY <1>4
  <2>2. CASE Withdraw(p)  BY <2>2, BondStepWithdraw
  <2>3. ASSUME NEW a \in Accounts, InitiateUnbonding(a, p) PROVE Bond!BondNext
    BY <2>3, BondStepInitiateUnbonding
  <2>4. ASSUME NEW a \in Accounts,
               BeginProof(a, p) \/ SubmitProof(a, p) \/ SubmitProofEscape(a, p)
        PROVE  UNCHANGED Bond!bondVars
    BY <2>4, BondStutters DEF BeginProof, SubmitProof, SubmitProofEscape, AcceptProof
  <2>5. ASSUME NEW a \in Accounts, Lapse(a, p) PROVE Bond!BondNext
    BY <2>5, BondStepLapse
  <2>6. ASSUME NEW a \in Accounts, NEW indices \in SUBSET (0..MaxLeafCount - 1),
               NEW v \in BondValues, NEW fee \in BaseFees, OpenChallenge(a, p, indices, v, fee)
        PROVE  Bond!BondNext
    BY <2>6, BondStepOpenChallenge
  <2> QED  BY <2>1, <2>2, <2>3, <2>4, <2>5, <2>6 DEF ProviderAction
<1>5. CASE \E c \in ChallengeIds : ChallengeAction(c)
  BY <1>5, BondStepRespond, BondStepResolveTimeout DEF ChallengeAction
<1> QED  BY <1>1, <1>2, <1>3, <1>4, <1>5 DEF Next

\* Seen without time, money and data, the instance follows the abstract bond: a stake is
\* returned only unchallenged, forfeited only once, and every claim is closed once.
THEOREM RefinesBond == Spec => ImplementsBond
  BY BondInitMaps, BondStepMaps, InvariantHolds, LifeInvHolds, PTL
  DEF Spec, ImplementsBond, Bond!BondSpec

-----------------------------------------------------------------------------
(***************************************************************************)
(* The custody clock and the bound on an exit.                             *)
(***************************************************************************)

LEMMA DivBounds ==
  ASSUME NEW x \in Nat, NEW d \in Nat \ {0}
  PROVE  /\ x \div d \in Nat
         /\ (x \div d) * d <= x
         /\ x < (x \div d) * d + d
  OBVIOUS

LEMMA MultiplesOrdered ==
  ASSUME NEW a \in Nat, NEW b \in Nat, NEW d \in Nat, a <= b
  PROVE  a * d \in Nat /\ b * d \in Nat /\ a * d <= b * d
  OBVIOUS

\* Counting whole periods and comparing with the start of a period say the same.
LEMMA PeriodsPassed ==
  ASSUME NEW x \in Nat, NEW d \in Nat \ {0}, NEW k \in Nat
  PROVE  /\ k * d \in Nat
         /\ x >= k * d <=> x \div d >= k
<1> DEFINE q == x \div d
<1>1. q \in Nat /\ q * d <= x /\ x < q * d + d
  BY DivBounds
<1> HIDE DEF q
<1>2. k * d \in Nat /\ q * d \in Nat
  BY <1>1, MultiplesOrdered
<1>3. CASE q >= k
  BY <1>1, <1>3, MultiplesOrdered
<1>4. CASE q < k
  <2>1. (q + 1) * d <= k * d
    BY <1>1, <1>4, MultiplesOrdered
  <2>2. (q + 1) * d = q * d + d
    BY <1>1
  <2> QED  BY <1>1, <1>2, <1>4, <2>1, <2>2
<1> QED  BY <1>1, <1>2, <1>3, <1>4 DEF q

-----------------------------------------------------------------------------

\* The view and lapse() put the boundary at the same instant (I15).
LEMMA ViewAgrees == IInv => CustodyViewAgrees
<1> SUFFICES ASSUME IInv, NEW p \in ProviderIds, status[p] = "ACTIVE"
             PROVE  now >= EligibleAt(p)
                      <=> CustodyStatus(p) \in {"LAPSE_ELIGIBLE", "LAPSABLE"}
  BY DEF CustodyViewAgrees
<1> DEFINE L == lastProvenPlusOne[p]
           x == now - anchor[p]
<1>1. L \in Nat /\ x \in Nat /\ anchor[p] \in Nat /\ now \in Nat
  BY DEF IInv, TypeOK, AnchorsPast
<1>2. PeriodIndex(p) \in Nat /\ PeriodIndex(p) = x \div CustodyPeriod
  BY PeriodIndexNat DEF IInv, PeriodIndex
<1>3. (L + 2) * CustodyPeriod \in Nat /\ (x >= (L + 2) * CustodyPeriod <=> PeriodIndex(p) >= L + 2)
  <2> DEFINE k == L + 2
  <2>1. k \in Nat /\ CustodyPeriod \in Nat \ {0}
    BY <1>1, ParamsAssumption
  <2> HIDE DEF k, x
  <2>2. k * CustodyPeriod \in Nat /\ (x >= k * CustodyPeriod <=> x \div CustodyPeriod >= k)
    BY <1>1, <2>1, PeriodsPassed
  <2>3. k * CustodyPeriod \in Nat /\ (x >= k * CustodyPeriod <=> PeriodIndex(p) >= k)
    BY <1>2, <2>2
  <2> QED  BY <2>3 DEF k
<1>4. now >= EligibleAt(p) <=> PeriodIndex(p) >= L + 2
  <2> DEFINE span == (L + 2) * CustodyPeriod
  <2>1. EligibleAt(p) = anchor[p] + span
    BY DEF EligibleAt
  <2>2. span \in Nat /\ (x >= span <=> PeriodIndex(p) >= L + 2)
    BY <1>3
  <2> HIDE DEF span
  <2> QED  BY <1>1, <2>1, <2>2
<1>5. CASE PeriodIndex(p) <= L
  BY <1>1, <1>2, <1>4, <1>5 DEF CustodyStatus
<1>6. CASE PeriodIndex(p) = L + 1
  BY <1>1, <1>2, <1>4, <1>6 DEF CustodyStatus
<1>7. CASE PeriodIndex(p) >= L + 2
  BY <1>1, <1>2, <1>4, <1>7 DEF CustodyStatus
<1> QED  BY <1>1, <1>2, <1>5, <1>6, <1>7

\* custodyStatus reports LAPSE_ELIGIBLE or LAPSABLE from the very instant lapse() counts
\* its grace window from.
THEOREM CustodyViewAgreesHolds == Spec => []CustodyViewAgrees
  BY ViewAgrees, InvariantHolds, PTL

-----------------------------------------------------------------------------

\* The clock of the custody fields: no period is proven ahead of time, and a commit's
\* randomness is not older than its period.
CustodyClock ==
  \A p \in ProviderIds :
    /\ lastProvenPlusOne[p] # 0 => anchor[p] + (lastProvenPlusOne[p] - 1) * CustodyPeriod <= now
    /\ commitPeriodPlusOne[p] # 0 =>
         anchor[p] + (commitPeriodPlusOne[p] - 1) * CustodyPeriod <= commitSeed[p]

\* Ids that were never staked have no custody fields.
UnstakedBlank ==
  \A p \in ProviderIds : p >= nextProviderId =>
    lastProvenPlusOne[p] = 0 /\ commitPeriodPlusOne[p] = 0

ClockInv == CustodyClock /\ UnstakedBlank

\* The period that runs has begun, and has not ended.
LEMMA PeriodRuns ==
  ASSUME IInv, NEW p \in ProviderIds
  PROVE  /\ PeriodIndex(p) \in Nat
         /\ anchor[p] + PeriodIndex(p) * CustodyPeriod <= now
         /\ now < anchor[p] + (PeriodIndex(p) + 1) * CustodyPeriod
<1> DEFINE x == now - anchor[p]
           q == x \div CustodyPeriod
<1>1. x \in Nat /\ anchor[p] \in Nat /\ now \in Nat
  BY DEF IInv, TypeOK, AnchorsPast
<1>2. CustodyPeriod \in Nat \ {0}
  BY ParamsAssumption
<1>3. q \in Nat /\ q * CustodyPeriod <= x /\ x < q * CustodyPeriod + CustodyPeriod
  BY <1>1, <1>2, DivBounds
<1>4. PeriodIndex(p) = q
  BY DEF PeriodIndex
<1> HIDE DEF q
<1>5. q * CustodyPeriod \in Nat /\ (q + 1) * CustodyPeriod = q * CustodyPeriod + CustodyPeriod
  BY <1>2, <1>3, MultiplesOrdered
<1> QED  BY <1>1, <1>2, <1>3, <1>4, <1>5

-----------------------------------------------------------------------------

\* A step that lets time pass and leaves the custody fields alone keeps ClockInv.
LEMMA ClockFramed ==
  ASSUME IInv, ClockInv, now' \in Nat, now' >= now, nextProviderId' \in Nat,
         nextProviderId' >= nextProviderId,
         \A p \in ProviderIds : p < nextProviderId => anchor'[p] = anchor[p],
         UNCHANGED <<lastProvenPlusOne, commitPeriodPlusOne, commitSeed>>
  PROVE  ClockInv'
<1>1. now \in Nat /\ nextProviderId \in Nat
  BY BoundsAssumption DEF IInv, TypeOK
<1> SUFFICES ASSUME NEW p \in ProviderIds
    PROVE  /\ lastProvenPlusOne[p] # 0 =>
                anchor'[p] + (lastProvenPlusOne[p] - 1) * CustodyPeriod <= now'
           /\ commitPeriodPlusOne[p] # 0 =>
                anchor'[p] + (commitPeriodPlusOne[p] - 1) * CustodyPeriod <= commitSeed[p]
           /\ p >= nextProviderId' => lastProvenPlusOne[p] = 0 /\ commitPeriodPlusOne[p] = 0
  BY DEF ClockInv, CustodyClock, UnstakedBlank
<1>2. p \in Nat /\ anchor[p] \in Nat /\ lastProvenPlusOne[p] \in Nat
  BY DEF IInv, TypeOK, ProviderIds
<1>3. CASE p >= nextProviderId
  BY <1>1, <1>2, <1>3 DEF ClockInv, UnstakedBlank
<1>4. CASE p < nextProviderId
  <2> DEFINE t == (lastProvenPlusOne[p] - 1) * CustodyPeriod
  <2>1. t \in Int
    BY <1>2, ParamsAssumption
  <2>2. /\ anchor'[p] = anchor[p]
        /\ lastProvenPlusOne[p] # 0 => anchor[p] + t <= now
        /\ commitPeriodPlusOne[p] # 0 =>
             anchor[p] + (commitPeriodPlusOne[p] - 1) * CustodyPeriod <= commitSeed[p]
    BY <1>4 DEF ClockInv, CustodyClock
  <2> HIDE DEF t
  <2>3. lastProvenPlusOne[p] # 0 => anchor[p] + t <= now'
    BY <1>1, <1>2, <2>1, <2>2
  <2> QED  BY <1>1, <1>2, <1>4, <2>2, <2>3 DEF t
<1> QED  BY <1>1, <1>2, <1>3, <1>4

\* An ACTIVE provider has been staked.
LEMMA ActiveIsStaked ==
  ASSUME IInv, LifeInv, NEW p \in ProviderIds, status[p] = "ACTIVE" PROVE p < nextProviderId
  BY DEF IInv, TypeOK, LifeInv, Unwritten, ProviderIds

LEMMA ClockInitiateUnbonding ==
  ASSUME IInv, ClockInv, NEW a, NEW p \in ProviderIds, InitiateUnbonding(a, p) PROVE ClockInv'
<1>1. /\ UNCHANGED <<now, anchor, nextProviderId, lastProvenPlusOne>>
      /\ commitPeriodPlusOne' = [commitPeriodPlusOne EXCEPT ![p] = 0]
      /\ commitSeed' = [commitSeed EXCEPT ![p] = 0]
  BY DEF InitiateUnbonding, VoidCommit, datasetVars
<1> QED  BY <1>1 DEF IInv, TypeOK, ClockInv, CustodyClock, UnstakedBlank

LEMMA ClockBeginProof ==
  ASSUME IInv, LifeInv, ClockInv, NEW a, NEW p \in ProviderIds, BeginProof(a, p)
  PROVE  ClockInv'
<1>1. /\ UNCHANGED <<now, anchor, nextProviderId, lastProvenPlusOne>>
      /\ commitPeriodPlusOne' = [commitPeriodPlusOne EXCEPT ![p] = PeriodIndex(p) + 1]
      /\ commitSeed' = [commitSeed EXCEPT ![p] = now]
      /\ status[p] = "ACTIVE"
  BY DEF BeginProof, datasetVars, lifecycleVars
<1>2. p < nextProviderId
  BY <1>1, ActiveIsStaked
<1>3. /\ PeriodIndex(p) \in Nat /\ PeriodIndex(p) + 1 - 1 = PeriodIndex(p)
      /\ anchor[p] + PeriodIndex(p) * CustodyPeriod <= now
  BY PeriodRuns
<1>4. CustodyClock'
  BY <1>1, <1>3 DEF IInv, TypeOK, ClockInv, CustodyClock
<1>5. UnstakedBlank'
  BY <1>1, <1>2 DEF IInv, TypeOK, ClockInv, UnstakedBlank, ProviderIds
<1> QED  BY <1>4, <1>5 DEF ClockInv

LEMMA ClockAcceptProof ==
  ASSUME IInv, LifeInv, ClockInv, NEW a, NEW p \in ProviderIds, NEW d, AcceptProof(a, p, d)
  PROVE  ClockInv'
<1>1. /\ UNCHANGED <<now, anchor, nextProviderId>>
      /\ lastProvenPlusOne' = [lastProvenPlusOne EXCEPT ![p] = PeriodIndex(p) + 1]
      /\ commitPeriodPlusOne' = [commitPeriodPlusOne EXCEPT ![p] = 0]
      /\ commitSeed' = [commitSeed EXCEPT ![p] = 0]
      /\ status[p] = "ACTIVE"
  BY DEF AcceptProof, VoidCommit, ProvenPlusOne, datasetVars, lifecycleVars
<1>2. p < nextProviderId
  BY <1>1, ActiveIsStaked
<1>3. /\ PeriodIndex(p) \in Nat /\ PeriodIndex(p) + 1 - 1 = PeriodIndex(p)
      /\ anchor[p] + PeriodIndex(p) * CustodyPeriod <= now
  BY PeriodRuns
<1>4. CustodyClock'
  BY <1>1, <1>3 DEF IInv, TypeOK, ClockInv, CustodyClock
<1>5. UnstakedBlank'
  BY <1>1, <1>2 DEF IInv, TypeOK, ClockInv, UnstakedBlank, ProviderIds
<1> QED  BY <1>4, <1>5 DEF ClockInv

\* The steps that do not touch the custody fields.
CustodyIdle ==
  /\ now' \in Nat /\ now' >= now
  /\ nextProviderId' \in Nat /\ nextProviderId' >= nextProviderId
  /\ \A p \in ProviderIds : p < nextProviderId => anchor'[p] = anchor[p]
  /\ UNCHANGED <<lastProvenPlusOne, commitPeriodPlusOne, commitSeed>>

\* Every step leaves the custody fields alone, or is one of the three that write them.
LEMMA CustodyWriters ==
  ASSUME IInv, [Next]_vars
  PROVE  \/ CustodyIdle
         \/ \E p \in ProviderIds, a \in Accounts :
              \/ InitiateUnbonding(a, p)
              \/ BeginProof(a, p)
              \/ \E d \in BOOLEAN : AcceptProof(a, p, d)
<1>1. now \in Nat /\ nextProviderId \in Nat
  BY BoundsAssumption DEF IInv, TypeOK
<1>2. CASE UNCHANGED vars
  BY <1>1, <1>2 DEF CustodyIdle, vars, datasetVars, lifecycleVars, custodyVars, commitVars
<1>3. CASE Tick
  BY <1>1, <1>3 DEF CustodyIdle, Tick, lifecycleVars, custodyVars, commitVars
<1>4. ASSUME NEW n, Declare(n) PROVE CustodyIdle
  BY <1>1, <1>4 DEF CustodyIdle, Declare, lifecycleVars, custodyVars, commitVars
<1>5. ASSUME NEW op, NEW wd, Stake(op, wd) PROVE CustodyIdle
  BY <1>1, <1>5 DEF CustodyIdle, Stake, datasetVars, custodyVars, commitVars, IInv, TypeOK,
     ProviderIds
<1>6. ASSUME NEW a, Claim(a) PROVE CustodyIdle
  BY <1>1, <1>6 DEF CustodyIdle, Claim, datasetVars, lifecycleVars, custodyVars, commitVars
<1>7. ASSUME NEW c, ChallengeAction(c) PROVE CustodyIdle
  BY <1>1, <1>7 DEF CustodyIdle, ChallengeAction, Respond, ResolveTimeout, datasetVars,
     lifecycleVars, custodyVars, commitVars
<1>8. ASSUME NEW p \in ProviderIds,
             \/ Withdraw(p)
             \/ \E a \in Accounts : Lapse(a, p)
             \/ \E a, indices, v, fee : OpenChallenge(a, p, indices, v, fee)
      PROVE  CustodyIdle
  BY <1>1, <1>8 DEF CustodyIdle, Withdraw, Lapse, OpenChallenge, datasetVars, lifecycleVars,
     custodyVars, commitVars
<1>9. CASE \E p \in ProviderIds : ProviderAction(p)
  <2>1. PICK p \in ProviderIds : ProviderAction(p)
    BY <1>9
  <2>2. ASSUME NEW a \in Accounts, SubmitProof(a, p) \/ SubmitProofEscape(a, p)
        PROVE  \E d \in BOOLEAN : AcceptProof(a, p, d)
    BY <2>2 DEF SubmitProof, SubmitProofEscape
  <2> QED  BY <1>8, <2>1, <2>2 DEF ProviderAction
<1> QED  BY <1>2, <1>3, <1>4, <1>5, <1>6, <1>7, <1>9 DEF Next

LEMMA ClockStep == IInv /\ LifeInv /\ ClockInv /\ [Next]_vars => ClockInv'
<1> SUFFICES ASSUME IInv, LifeInv, ClockInv, [Next]_vars PROVE ClockInv'
  OBVIOUS
<1>1. CASE CustodyIdle
  BY <1>1, ClockFramed DEF CustodyIdle
<1> QED  BY <1>1, CustodyWriters, ClockInitiateUnbonding, ClockBeginProof, ClockAcceptProof

LEMMA ClockInvHolds == Spec => []ClockInv
<1>1. Init => ClockInv
  BY DEF Init, ClockInv, CustodyClock, UnstakedBlank
<1> QED  BY <1>1, ClockStep, InvariantHolds, LifeInvHolds, PTL DEF Spec

-----------------------------------------------------------------------------

\* lastProven moves only when a proof for the commit of the running period is accepted.
LEMMA AdvanceIsProof ==
  ASSUME IInv, [Next]_vars, NEW p \in ProviderIds, lastProvenPlusOne'[p] # lastProvenPlusOne[p]
  PROVE  /\ status[p] = "ACTIVE"
         /\ commitPeriodPlusOne[p] = PeriodIndex(p) + 1
         /\ lastProvenPlusOne'[p] = PeriodIndex(p) + 1
         /\ anchor'[p] = anchor[p]
<1>1. PICK q \in ProviderIds, a \in Accounts : \E d \in BOOLEAN : AcceptProof(a, q, d)
  BY CustodyWriters DEF CustodyIdle, InitiateUnbonding, BeginProof
<1>2. q = p /\ lastProvenPlusOne'[p] = PeriodIndex(p) + 1
  BY <1>1 DEF AcceptProof, ProvenPlusOne, IInv, TypeOK
<1>3. PeriodIndex(p) \in Nat /\ commitPeriodPlusOne[p] \in Nat
  BY PeriodRuns DEF IInv, TypeOK
<1> QED  BY <1>1, <1>2, <1>3 DEF AcceptProof, CommitIsCurrent, lifecycleVars

LEMMA CureStep ==
  ASSUME IInv, ClockInv, [Next]_vars, NEW p \in ProviderIds PROVE Cured(p)
<1> DEFINE L == lastProvenPlusOne[p]
           k == PeriodIndex(p)
           P == CustodyPeriod
<1> SUFFICES ASSUME lastProvenPlusOne'[p] # L
    PROVE  lastProvenPlusOne'[p] > L /\ LapsableAt(p)' > now + 2 * P + LapseGrace
  BY DEF Cured
<1>1. /\ L \in Nat /\ k \in Nat /\ P \in Nat /\ now \in Nat /\ anchor[p] \in Nat
      /\ LapseGrace \in Nat
  BY PeriodRuns, ParamsAssumption DEF IInv, TypeOK
<1>2. lastProvenPlusOne'[p] = k + 1 /\ anchor'[p] = anchor[p]
  BY AdvanceIsProof
<1>3. now < anchor[p] + (k + 1) * P
  BY PeriodRuns
<1>4. L <= k + 1
  <2> SUFFICES ASSUME L > k + 1 PROVE FALSE
    BY <1>1
  <2>1. anchor[p] + (L - 1) * P <= now
    BY <1>1 DEF ClockInv, CustodyClock
  <2>2. L - 1 \in Nat /\ k + 1 \in Nat /\ k + 1 <= L - 1
    BY <1>1
  <2> HIDE DEF L, k, P
  <2>3. (k + 1) * P \in Nat /\ (L - 1) * P \in Nat /\ (k + 1) * P <= (L - 1) * P
    BY <1>1, <2>2, MultiplesOrdered
  <2> QED  BY <1>1, <1>3, <2>1, <2>3
<1>5. LapsableAt(p)' = anchor[p] + (k + 1 + 2) * P + LapseGrace
  BY <1>2 DEF LapsableAt, EligibleAt
<1> HIDE DEF k, P, L
<1>6. (k + 1 + 2) * P = (k + 1) * P + 2 * P /\ (k + 1) * P \in Nat /\ 2 * P \in Nat
  BY <1>1
<1> QED  BY <1>1, <1>2, <1>3, <1>4, <1>5, <1>6

\* An accepted proof buys more than two whole periods and the grace window before anyone
\* can lapse the provider (I15, I16).
THEOREM CureWinsHolds == Spec => CureWins
<1>1. IInv /\ ClockInv /\ [Next]_vars => \A p \in ProviderIds : Cured(p)
  BY CureStep
<1> QED  BY <1>1, InvariantHolds, ClockInvHolds, PTL DEF Spec, CureWins

LEMMA FreshStep ==
  ASSUME IInv, ClockInv, [Next]_vars, NEW p \in ProviderIds PROVE ProvenFresh(p)
<1> SUFFICES ASSUME lastProvenPlusOne'[p] # lastProvenPlusOne[p]
    PROVE  /\ commitPeriodPlusOne[p] = lastProvenPlusOne'[p]
           /\ commitSeed[p] >= anchor[p] + (lastProvenPlusOne'[p] - 1) * CustodyPeriod
           /\ now < anchor[p] + lastProvenPlusOne'[p] * CustodyPeriod
  BY DEF ProvenFresh
<1>1. PeriodIndex(p) \in Nat /\ now < anchor[p] + (PeriodIndex(p) + 1) * CustodyPeriod
  BY PeriodRuns
<1>2. /\ commitPeriodPlusOne[p] = PeriodIndex(p) + 1
      /\ lastProvenPlusOne'[p] = PeriodIndex(p) + 1
  BY AdvanceIsProof
<1>3. commitPeriodPlusOne[p] # 0
  BY <1>1, <1>2
<1>4. anchor[p] + (commitPeriodPlusOne[p] - 1) * CustodyPeriod <= commitSeed[p]
  BY <1>3 DEF ClockInv, CustodyClock
<1>5. /\ anchor[p] \in Nat /\ commitSeed[p] \in Nat
      /\ (commitPeriodPlusOne[p] - 1) * CustodyPeriod \in Int
  BY <1>1, <1>2, ParamsAssumption DEF IInv, TypeOK
<1> QED  BY <1>1, <1>2, <1>4, <1>5

\* The commit of a running, unproven period outlasts every step of a provider that stays.
LEMMA DrawnStep ==
  ASSUME IInv, [Next]_vars, NEW p \in ProviderIds PROVE DrawnOnce(p)
<1> SUFFICES ASSUME commitPeriodPlusOne[p] = PeriodIndex(p) + 1,
                    lastProvenPlusOne'[p] # PeriodIndex(p) + 1, status'[p] = "ACTIVE"
             PROVE  /\ commitPeriodPlusOne'[p] = commitPeriodPlusOne[p]
                    /\ commitSeed'[p] = commitSeed[p]
  BY DEF DrawnOnce
<1>0. /\ status \in [ProviderIds -> Statuses]
      /\ lastProvenPlusOne \in [ProviderIds -> Nat]
      /\ commitPeriodPlusOne \in [ProviderIds -> Nat]
      /\ commitSeed \in [ProviderIds -> Nat]
  BY DEF IInv, TypeOK
<1>1. ASSUME NEW a \in Accounts, NEW q \in ProviderIds, InitiateUnbonding(a, q)
      PROVE  /\ commitPeriodPlusOne'[p] = commitPeriodPlusOne[p]
             /\ commitSeed'[p] = commitSeed[p]
  BY <1>0, <1>1 DEF InitiateUnbonding, VoidCommit
<1>2. ASSUME NEW a \in Accounts, NEW q \in ProviderIds, BeginProof(a, q)
      PROVE  /\ commitPeriodPlusOne'[p] = commitPeriodPlusOne[p]
             /\ commitSeed'[p] = commitSeed[p]
  BY <1>0, <1>2 DEF BeginProof, MayCommit
<1>3. ASSUME NEW a \in Accounts, NEW q \in ProviderIds, NEW d, AcceptProof(a, q, d)
      PROVE  /\ commitPeriodPlusOne'[p] = commitPeriodPlusOne[p]
             /\ commitSeed'[p] = commitSeed[p]
  BY <1>0, <1>3 DEF AcceptProof, VoidCommit, ProvenPlusOne
<1>4. CASE UNCHANGED commitVars
  BY <1>4 DEF commitVars
<1>5. CASE \E q \in ProviderIds : ProviderAction(q)
  BY <1>1, <1>2, <1>3, <1>4, <1>5 DEF ProviderAction, Withdraw, Lapse, SubmitProof,
     SubmitProofEscape, custodyVars, commitVars, OpenChallenge
<1>6. CASE \E c \in ChallengeIds : ChallengeAction(c)
  BY <1>4, <1>6 DEF ChallengeAction, Respond, ResolveTimeout, custodyVars, commitVars
<1>7. CASE UNCHANGED vars \/ Tick \/ (\E n : Declare(n)) \/ \E a : Claim(a)
  BY <1>4, <1>7 DEF vars, Tick, Declare, Claim, custodyVars, commitVars
<1>8. ASSUME NEW op, NEW wd, Stake(op, wd) PROVE UNCHANGED commitVars
  BY <1>8 DEF Stake, custodyVars, commitVars
<1> QED  BY <1>4, <1>5, <1>6, <1>7, <1>8 DEF Next

\* A period is proven only from randomness drawn in that period, and drawn once (I14).
THEOREM FreshRandomnessHolds == Spec => FreshRandomness
<1>1. IInv /\ ClockInv /\ [Next]_vars => \A p \in ProviderIds : ProvenFresh(p) /\ DrawnOnce(p)
  BY FreshStep, DrawnStep
<1> QED  BY <1>1, InvariantHolds, ClockInvHolds, PTL DEF Spec, FreshRandomness

-----------------------------------------------------------------------------

\* A step closes a challenge of a slashed provider only by its time-out.
LEMMA RefundStep ==
  ASSUME IInv, [Next]_vars, NEW c \in ChallengeIds PROVE ClosedByRefund(c)
<1> SUFFICES ASSUME Unresolved(c), status[challengeRecords[c].providerId] = "SLASHED",
                    challengeRecords'[c].resolved
             PROVE  now >= Deadline(c)
  BY DEF ClosedByRefund
<1>0. challengeRecords \in [ChallengeIds -> Challenge] /\ ~challengeRecords[c].resolved
  BY DEF IInv, TypeOK, Unresolved
<1>1. ASSUME NEW d \in ChallengeIds, Resolve(d) PROVE d = c
  BY <1>0, <1>1 DEF Resolve
<1>2. ASSUME NEW a, NEW d \in ChallengeIds, Respond(a, d) PROVE FALSE
  BY <1>1, <1>2 DEF Respond, MayRespond
<1>3. ASSUME NEW d \in ChallengeIds, ResolveTimeout(d) PROVE now >= Deadline(c)
  BY <1>1, <1>3 DEF ResolveTimeout, MayTimeOut
<1>4. CASE challengeRecords' = challengeRecords
  BY <1>0, <1>4
<1>5. ASSUME NEW a, NEW p, NEW indices, NEW v, NEW fee, OpenChallenge(a, p, indices, v, fee)
      PROVE  FALSE
  BY <1>0, <1>5 DEF OpenChallenge, Unresolved, Assigned
<1>6. CASE \E p \in ProviderIds : ProviderAction(p)
  BY <1>4, <1>5, <1>6 DEF ProviderAction, InitiateUnbonding, Withdraw, BeginProof, SubmitProof,
     SubmitProofEscape, AcceptProof, Lapse, challengeVars
<1>7. CASE UNCHANGED vars \/ Tick \/ (\E n : Declare(n)) \/ \E a : Claim(a)
  BY <1>4, <1>7 DEF vars, Tick, Declare, Claim, challengeVars
<1>8. ASSUME NEW op, NEW wd, Stake(op, wd) PROVE now >= Deadline(c)
  BY <1>4, <1>8 DEF Stake, challengeVars
<1> QED  BY <1>2, <1>3, <1>6, <1>7, <1>8 DEF Next, ChallengeAction

\* Nothing but the refund closes a challenge of a slashed provider.
THEOREM SlashedNeverAnswersHolds == Spec => SlashedNeverAnswers
<1>1. IInv /\ [Next]_vars => \A c \in ChallengeIds : ClosedByRefund(c)
  BY RefundStep
<1> QED  BY <1>1, InvariantHolds, PTL DEF Spec, SlashedNeverAnswers

-----------------------------------------------------------------------------

\* lapse() succeeds only when the view says LAPSABLE.
LEMMA LapseAnnounced ==
  ASSUME IInv, NEW a, NEW p \in ProviderIds, Lapse(a, p) PROVE CustodyStatus(p) = "LAPSABLE"
<1>1. status[p] = "ACTIVE" /\ now >= EligibleAt(p) /\ now >= LapsableAt(p)
  BY DEF Lapse
<1>2. CustodyStatus(p) \in {"LAPSE_ELIGIBLE", "LAPSABLE"}
  BY <1>1, ViewAgrees DEF CustodyViewAgrees
<1>3. now \in Nat /\ LapsableAt(p) \in Int
  BY ParamsAssumption DEF IInv, TypeOK, LapsableAt, EligibleAt
<1> QED  BY <1>1, <1>2, <1>3 DEF CustodyStatus

LEMMA SlashStep ==
  ASSUME IInv, [Next]_vars, NEW p \in ProviderIds PROVE Announced(p)
<1> SUFFICES ASSUME status[p] = "ACTIVE", status'[p] = "SLASHED",
                    \A c \in OpenAgainst(p) : now < Deadline(c)
             PROVE  CustodyStatus(p) = "LAPSABLE"
  BY DEF Announced
<1>0. status \in [ProviderIds -> Statuses] /\ now \in Nat
  BY DEF IInv, TypeOK
<1>1. ASSUME NEW c \in ChallengeIds, ResolveTimeout(c) PROVE FALSE
  <2>1. Unresolved(c) /\ now >= Deadline(c)
    BY <1>1 DEF ResolveTimeout, MayTimeOut
  <2>2. challengeRecords[c].providerId = p
    BY <1>0, <1>1 DEF ResolveTimeout
  <2>3. now < Deadline(c)
    BY <2>1, <2>2 DEF OpenAgainst
  <2>4. Deadline(c) \in Nat
    BY ParamsAssumption DEF IInv, TypeOK, Challenge, Deadline
  <2> QED  BY <1>0, <2>1, <2>3, <2>4
<1>2. ASSUME NEW q \in ProviderIds, NEW a \in Accounts, Lapse(a, q)
      PROVE  CustodyStatus(p) = "LAPSABLE"
  <2>1. q = p
    BY <1>0, <1>2 DEF Lapse
  <2> QED  BY <1>2, <2>1, LapseAnnounced
<1>3. ASSUME NEW c, NEW a, Respond(a, c) PROVE FALSE
  BY <1>3 DEF Respond
<1>4. ASSUME NEW q \in ProviderIds,
             \/ Withdraw(q)
             \/ \E a \in Accounts : \/ InitiateUnbonding(a, q) \/ BeginProof(a, q)
                                   \/ SubmitProof(a, q) \/ SubmitProofEscape(a, q)
             \/ \E a, indices, v, fee : OpenChallenge(a, q, indices, v, fee)
      PROVE  FALSE
  BY <1>0, <1>4 DEF Withdraw, InitiateUnbonding, BeginProof, SubmitProof, SubmitProofEscape,
     AcceptProof, OpenChallenge
<1>5. CASE \E q \in ProviderIds : ProviderAction(q)
  BY <1>2, <1>4, <1>5 DEF ProviderAction
<1>6. CASE UNCHANGED vars \/ Tick \/ (\E n : Declare(n)) \/ \E a : Claim(a)
  BY <1>6 DEF vars, Tick, Declare, Claim
<1>7. ASSUME NEW op, NEW wd, Stake(op, wd) PROVE FALSE
  BY <1>0, <1>7 DEF Stake
<1> QED  BY <1>1, <1>3, <1>5, <1>6, <1>7 DEF Next, ChallengeAction

\* An ACTIVE provider with no overdue challenge is slashed only when the public view has
\* said LAPSABLE.
THEOREM SlashIsAnnouncedHolds == Spec => SlashIsAnnounced
<1>1. IInv /\ [Next]_vars => \A p \in ProviderIds : Announced(p)
  BY SlashStep
<1> QED  BY <1>1, InvariantHolds, PTL DEF Spec, SlashIsAnnounced

-----------------------------------------------------------------------------
(***************************************************************************)
(* The bound on an exit (I7).                                              *)
(***************************************************************************)

\* No challenge was opened in the future.
OpenedPast == \A c \in ChallengeIds : Assigned(c) => challengeRecords[c].openedAt <= now

ExitInv == OpenedPast /\ ExitBound

\* When and against whom a challenge was opened is written once, and it stays resolved.
OpeningsKept ==
  /\ nextChallengeId' = nextChallengeId
  /\ \A c \in ChallengeIds :
       /\ challengeRecords'[c].providerId = challengeRecords[c].providerId
       /\ challengeRecords'[c].openedAt = challengeRecords[c].openedAt
       /\ challengeRecords[c].resolved => challengeRecords'[c].resolved

LEMMA ResolveKeepsOpenings ==
  ASSUME TypeOK, NEW c \in ChallengeIds, Resolve(c) PROVE OpeningsKept
<1>1. /\ challengeRecords' = [challengeRecords EXCEPT ![c].resolved = TRUE]
      /\ nextChallengeId' = nextChallengeId
  BY DEF Resolve
<1> QED  BY <1>1 DEF TypeOK, Challenge, OpeningsKept

\* A step that opens no challenge and lets nobody leave keeps the bound.
LEMMA ExitFramed ==
  ASSUME IInv, ExitInv, OpeningsKept, now' \in Nat, now' >= now, unbondingAt' = unbondingAt,
         \A p \in ProviderIds : status'[p] = "UNBONDING" => status[p] = "UNBONDING"
  PROVE  ExitInv'
<1>1. \A c \in ChallengeIds : challengeRecords[c].openedAt \in Nat
  BY DEF IInv, TypeOK, Challenge
<1>2. OpenedPast'
  BY <1>1 DEF IInv, TypeOK, ExitInv, OpenedPast, OpeningsKept, Assigned
<1>3. ExitBound'
  BY DEF IInv, RecordsNamed, ExitInv, ExitBound, OpeningsKept, Unresolved, Assigned
<1> QED  BY <1>2, <1>3 DEF ExitInv

\* Every challenge open against a provider that leaves was opened before it left.
LEMMA ExitInitiateUnbonding ==
  ASSUME IInv, ExitInv, NEW a, NEW p \in ProviderIds, InitiateUnbonding(a, p) PROVE ExitInv'
<1>1. /\ status' = [status EXCEPT ![p] = "UNBONDING"]
      /\ unbondingAt' = [unbondingAt EXCEPT ![p] = now]
      /\ UNCHANGED <<now, nextChallengeId, challengeRecords>>
  BY DEF InitiateUnbonding, datasetVars, challengeVars
<1>2. OpenedPast'
  BY <1>1 DEF ExitInv, OpenedPast, Assigned
<1>3. ExitBound'
  BY <1>1 DEF IInv, TypeOK, RecordsNamed, ExitInv, OpenedPast, ExitBound, Unresolved, Assigned
<1> QED  BY <1>2, <1>3 DEF ExitInv

\* A leaving provider is challenged only before its stake may be withdrawn.
LEMMA ExitOpenChallenge ==
  ASSUME IInv, ExitInv, NEW a, NEW p \in ProviderIds, NEW indices, NEW v, NEW fee,
         OpenChallenge(a, p, indices, v, fee)
  PROVE  ExitInv'
<1> DEFINE id == nextChallengeId
<1>1. /\ id \in ChallengeIds /\ nextChallengeId' = id + 1
      /\ status[p] = "UNBONDING" => now < unbondingAt[p] + UnbondingDelay
      /\ UNCHANGED <<now, status, unbondingAt>>
      /\ challengeRecords'[id].providerId = p /\ challengeRecords'[id].openedAt = now
      /\ \A d \in ChallengeIds \ {id} : challengeRecords'[d] = challengeRecords[d]
  BY DEF OpenChallenge, Challengeable, WithdrawableAt, IInv, TypeOK, datasetVars, lifecycleVars
<1>2. \A d \in ChallengeIds : Assigned(d)' <=> (Assigned(d) \/ d = id)
  BY <1>1 DEF Assigned, ChallengeIds
<1>3. now \in Nat /\ unbondingAt[p] \in Nat /\ UnbondingDelay \in Nat /\ ResponseWindow \in Nat
  BY ParamsAssumption DEF IInv, TypeOK
<1>4. OpenedPast'
  BY <1>1, <1>2, <1>3 DEF ExitInv, OpenedPast
<1>5. ExitBound'
  <2> SUFFICES ASSUME NEW d \in ChallengeIds, Unresolved(d)',
                      status[challengeRecords'[d].providerId] = "UNBONDING"
      PROVE  LET q == challengeRecords'[d].providerId
                 opened == challengeRecords'[d].openedAt
             IN  \/ opened <= unbondingAt[q]
                 \/ opened + ResponseWindow < unbondingAt[q] + UnbondingDelay + ResponseWindow
    BY <1>1 DEF ExitBound
  <2>1. CASE d = id
    BY <2>1, <1>1, <1>3
  <2>2. CASE d # id
    BY <2>2, <1>1, <1>2 DEF ExitInv, ExitBound, Unresolved
  <2> QED  BY <2>1, <2>2
<1> QED  BY <1>4, <1>5 DEF ExitInv

LEMMA ExitStep == IInv /\ ExitInv /\ [Next]_vars => ExitInv'
<1> SUFFICES ASSUME IInv, ExitInv, [Next]_vars PROVE ExitInv'
  OBVIOUS
<1>0. now \in Nat /\ status \in [ProviderIds -> Statuses] /\ TypeOK
  BY DEF IInv, TypeOK
<1>1. ASSUME UNCHANGED challengeVars PROVE OpeningsKept
  BY <1>1 DEF challengeVars, OpeningsKept
<1>2. CASE UNCHANGED vars \/ Tick \/ (\E n : Declare(n)) \/ \E a : Claim(a)
  BY <1>0, <1>1, <1>2, ExitFramed DEF vars, Tick, Declare, Claim, datasetVars, lifecycleVars
<1>3. ASSUME NEW op, NEW wd, Stake(op, wd) PROVE ExitInv'
  BY <1>0, <1>1, <1>3, ExitFramed DEF Stake, datasetVars
<1>4. ASSUME NEW p \in ProviderIds, NEW a \in Accounts,
             \/ BeginProof(a, p) \/ SubmitProof(a, p)
             \/ SubmitProofEscape(a, p) \/ Lapse(a, p)
      PROVE  ExitInv'
  BY <1>0, <1>1, <1>4, ExitFramed DEF BeginProof, SubmitProof, SubmitProofEscape,
     AcceptProof, Lapse, datasetVars, lifecycleVars
<1>5. ASSUME NEW p \in ProviderIds, Withdraw(p) PROVE ExitInv'
  BY <1>0, <1>1, <1>5, ExitFramed DEF Withdraw, datasetVars, lifecycleVars
<1>6. CASE \E p \in ProviderIds : ProviderAction(p)
  BY <1>4, <1>5, <1>6, ExitInitiateUnbonding, ExitOpenChallenge DEF ProviderAction
<1>7. ASSUME NEW c \in ChallengeIds, ResolveTimeout(c) PROVE ExitInv'
  BY <1>0, <1>7, ResolveKeepsOpenings, ExitFramed
  DEF ResolveTimeout, MayTimeOut, datasetVars, lifecycleVars
<1>8. ASSUME NEW c \in ChallengeIds, NEW a, Respond(a, c) PROVE ExitInv'
  BY <1>0, <1>8, ResolveKeepsOpenings, ExitFramed DEF Respond, datasetVars, lifecycleVars
<1> QED  BY <1>2, <1>3, <1>6, <1>7, <1>8 DEF Next, ChallengeAction

\* Nothing holds up an exit for longer than one response window past the delay (I7).
THEOREM ExitBoundHolds == Spec => []ExitBound
<1>1. Init => ExitInv
  BY DEF Init, ExitInv, OpenedPast, ExitBound, Unresolved, Assigned, ChallengeIds
<1>2. ExitInv => ExitBound
  BY DEF ExitInv
<1> QED  BY <1>1, <1>2, ExitStep, InvariantHolds, PTL DEF Spec

=============================================================================
