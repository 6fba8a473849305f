--------------------------- MODULE CustodyLoopProofs ---------------------------
(***************************************************************************)
(* The daemon's custody loop beside the contract: what is proved of the    *)
(* contract holds of the pair, the daemon derives the contract's status,   *)
(* and no two payloads are ever on their way.                              *)
(***************************************************************************)
EXTENDS CustodyLoop, BlobsitterInstanceProofs, WellFoundedInduction

(***************************************************************************)
(* The duties of one account never push each other's transactions out of   *)
(* the node's pool, for any set of duties and any size of the pool.        *)
(***************************************************************************)

\* An episode that has fetched its nonce.
Numbered(d) == episode[d].step \in {"check", "send", "receipt"}

Episode == [step : {"none", "nonce", "check", "send", "receipt"}, nonce : Nat, attempt : Nat,
            submitted : SUBSET Nat]

SenderTypes ==
  /\ accountNonce \in Nat
  /\ pool \subseteq [duty : Duties, nonce : Nat, attempt : Nat] /\ IsFiniteSet(pool)
  /\ lockQueue \in Seq(Duties)
  /\ episode \in [Duties -> Episode]

\* Only the holder of the mutex has a nonce, and no other duty's transaction has that one.
NonceOwned ==
  \A d \in Duties : Numbered(d) =>
    /\ HoldsLock(d)
    /\ \A t \in pool : t.nonce = episode[d].nonce => t.duty = d

NoncesUnique == \A t, u \in pool : t.nonce = u.nonce => t = u

SenderInv == SenderTypes /\ NonceOwned /\ NoncesUnique

LEMMA InitSenderInv == SenderInit => SenderInv
  BY FS_EmptySet DEF SenderInit, SenderInv, SenderTypes, NonceOwned, NoncesUnique, Numbered,
     Episode, NoEpisode

-----------------------------------------------------------------------------

\* A node always has an answer: among more nonces than it has transactions one is free,
\* and the first free one follows a gapless run of pending ones.
LEMMA PendingNonceFree ==
  ASSUME SenderTypes
  PROVE  PendingNonce \in Nat /\ \A t \in pool : t.nonce # PendingNonce
<1> DEFINE k == Cardinality(pool)
           I == accountNonce..accountNonce + k
           used == {t.nonce : t \in pool}
           free == I \ used
           Answer(n) == /\ \A t \in pool : t.nonce # n
                        /\ \A m \in accountNonce..n - 1 : \E t \in pool : t.nonce = m
<1>1. k \in Nat /\ accountNonce \in Nat
  BY FS_CardinalityType DEF SenderTypes
<1>2. IsFiniteSet(used) /\ Cardinality(used) <= k
  <2> DEFINE f == [t \in pool |-> t.nonce]
  <2>1. f \in Surjection(pool, used)
    BY DEF Surjection
  <2> HIDE DEF f, used
  <2> QED  BY <2>1, FS_Surjection DEF SenderTypes
<1>3. IsFiniteSet(I) /\ Cardinality(I) = k + 1
  BY <1>1, FS_Interval
<1>4. free # {}
  <2> SUFFICES ASSUME I \subseteq used PROVE FALSE
    OBVIOUS
  <2>1. Cardinality(I) <= Cardinality(used)
    BY <1>2, FS_Subset
  <2>2. Cardinality(used) \in Nat
    BY <1>2, FS_CardinalityType
  <2> QED  BY <1>1, <1>2, <1>3, <2>1, <2>2
<1>5. free \subseteq Nat
  BY <1>1
<1>6. PICK n \in free : \A m \in free : n <= m
  <2> DEFINE R == OpToRel(<, Nat)
  <2>1. IsWellFoundedOn(R, Nat)
    BY NatLessThanWellFounded
  <2>2. \A m, n \in Nat : m < n => <<m, n>> \in R
    BY DEF OpToRel
  <2> HIDE DEF R, free
  <2>3. PICK n \in free : \A m \in free : ~ (<<m, n>> \in R)
    BY <1>4, <1>5, <2>1, WFMin
  <2>4. \A m \in free : ~ (m < n)
    BY <1>5, <2>2, <2>3
  <2> QED  BY <1>5, <2>4
<1>7. n \in I /\ Answer(n)
  BY <1>1, <1>6
<1>8. PendingNonce \in I /\ Answer(PendingNonce)
  BY <1>7 DEF PendingNonce
<1> QED  BY <1>1, <1>8

-----------------------------------------------------------------------------

\* A step that takes nothing but transactions from the pool, and gives nobody a nonce.
LEMMA SenderFramed ==
  ASSUME SenderInv, pool' \subseteq pool, accountNonce' \in Nat, lockQueue' \in Seq(Duties),
         episode' \in [Duties -> Episode],
         \A d \in Duties : Numbered(d)' =>
           /\ Numbered(d) /\ HoldsLock(d)' /\ episode'[d].nonce = episode[d].nonce
  PROVE  SenderInv' /\ NoncesKept
<1>1. SenderTypes'
  BY FS_Subset DEF SenderInv, SenderTypes
<1>2. NonceOwned'
  BY DEF SenderInv, NonceOwned
<1>3. NoncesUnique' /\ NoncesKept
  BY DEF SenderInv, NoncesUnique, NoncesKept
<1> QED  BY <1>1, <1>2, <1>3 DEF SenderInv

LEMMA SendUntilSafe ==
  ASSUME SenderInv, NEW d \in Duties, episode[d] = NoEpisode, SendUntil(d)
  PROVE  SenderInv' /\ NoncesKept
<1>1. /\ pool' = pool /\ accountNonce' = accountNonce
      /\ lockQueue' = Append(lockQueue, d)
      /\ episode' = [episode EXCEPT ![d] = [NoEpisode EXCEPT !.step = "nonce"]]
  BY DEF SendUntil, chainSideVars
<1>2. lockQueue \in Seq(Duties) /\ accountNonce \in Nat
  BY DEF SenderInv, SenderTypes
<1>3. lockQueue' \in Seq(Duties)
      /\ (lockQueue # <<>> => lockQueue' # <<>> /\ Head(lockQueue') = Head(lockQueue))
  BY <1>1, <1>2
<1>4. /\ episode'[d].step = "nonce"
      /\ \A e \in Duties \ {d} : episode'[e] = episode[e]
      /\ episode' \in [Duties -> Episode]
  BY <1>1 DEF Episode, NoEpisode, SenderInv, SenderTypes
<1>5. ASSUME NEW e \in Duties, Numbered(e)'
      PROVE  Numbered(e) /\ HoldsLock(e)' /\ episode'[e].nonce = episode[e].nonce
  BY <1>3, <1>4, <1>5 DEF Numbered, SenderInv, NonceOwned, HoldsLock
<1> QED  BY <1>1, <1>2, <1>3, <1>4, <1>5, SenderFramed

\* How a step of a call of send_until ends or goes on.
Ends(d) == episode' = [episode EXCEPT ![d] = NoEpisode] /\ lockQueue' = Tail(lockQueue)
GoesOn(d) ==
  /\ lockQueue' = lockQueue
  /\ \E e \in Episode :
       /\ episode' = [episode EXCEPT ![d] = e]
       /\ \/ Numbered(d) /\ e.nonce = episode[d].nonce
          \/ e.nonce = PendingNonce /\ pool' = pool

\* The parts of a step that follow a failure.
LEMMA AfterErrorEffect ==
  ASSUME SenderInv, NEW d \in Duties, NEW result, Numbered(d),
         AfterError(d, result) \/ NextAttempt(d, result)
  PROVE  Ends(d) \/ GoesOn(d)
<1>0. episode[d] \in Episode /\ episode \in [Duties -> Episode]
  BY DEF SenderInv, SenderTypes
<1>1. CASE Confirm(d, result)
  BY <1>1 DEF Confirm, End, Ends
<1>2. CASE NextAttempt(d, result)
  <2> DEFINE next == episode[d].attempt + 1
             e == [episode[d] EXCEPT !.attempt = next, !.step = "check"]
  <2>1. CASE End(d)
    BY <2>1 DEF End, Ends
  <2>2. CASE /\ episode' = [episode EXCEPT ![d].attempt = next, ![d].step = "check"]
             /\ lockQueue' = lockQueue
    <3>1. next \in Nat
      BY <1>0 DEF Episode
    <3> HIDE DEF next
    <3>2. e \in Episode /\ e.nonce = episode[d].nonce
      BY <1>0, <3>1 DEF Episode
    <3>3. episode' = [episode EXCEPT ![d] = e]
      BY <1>0, <2>2
    <3> QED  BY <2>2, <3>2, <3>3 DEF GoesOn
  <2> QED  BY <1>2, <2>1, <2>2 DEF NextAttempt
<1> QED  BY <1>1, <1>2 DEF AfterError

\* Every step of send_until is made by the holder of the mutex, and puts nothing but its
\* own transaction into the pool.
LEMMA SendStepEffect ==
  ASSUME SenderInv, NEW d \in Duties, NEW late, NEW reverting, NEW result,
         SendStep(d, late, reverting, result)
  PROVE  /\ HoldsLock(d) /\ accountNonce' = accountNonce
         /\ pool' = pool \/ (Numbered(d) /\ EnterPool(Tx(d)))
         /\ Ends(d) \/ GoesOn(d)
<1>0. episode[d] \in Episode /\ episode \in [Duties -> Episode]
  BY DEF SenderInv, SenderTypes
<1>1. CASE FetchNonce(d, result)
  <2> DEFINE e == [episode[d] EXCEPT !.step = "check", !.nonce = PendingNonce]
  <2>1. HoldsLock(d) /\ accountNonce' = accountNonce /\ pool' = pool
    BY <1>1 DEF FetchNonce
  <2>2. CASE End(d)
    BY <2>1, <2>2 DEF End, Ends
  <2>3. CASE /\ episode' = [episode EXCEPT ![d].step = "check", ![d].nonce = PendingNonce]
             /\ lockQueue' = lockQueue
    <3>1. e \in Episode /\ e.nonce = PendingNonce
      BY <1>0, PendingNonceFree DEF Episode, SenderInv
    <3>2. episode' = [episode EXCEPT ![d] = e]
      BY <1>0, <2>3
    <3> HIDE DEF e
    <3> QED  BY <2>1, <2>3, <3>1, <3>2 DEF GoesOn
  <2> QED  BY <1>1, <2>1, <2>2, <2>3 DEF FetchNonce
<1>2. CASE CheckDeadline(d, late, result)
  <2> DEFINE e == [episode[d] EXCEPT !.step = "send"]
  <2>1. Numbered(d) /\ HoldsLock(d) /\ accountNonce' = accountNonce /\ pool' = pool
    BY <1>2 DEF CheckDeadline, EpisodeAt, Numbered, SenderInv, NonceOwned
  <2>2. CASE End(d)
    BY <2>1, <2>2 DEF End, Ends
  <2>3. CASE episode' = [episode EXCEPT ![d].step = "send"] /\ lockQueue' = lockQueue
    <3>1. e \in Episode /\ e.nonce = episode[d].nonce
      BY <1>0 DEF Episode
    <3>2. episode' = [episode EXCEPT ![d] = e]
      BY <1>0, <2>3
    <3> HIDE DEF e
    <3> QED  BY <2>1, <2>3, <3>1, <3>2 DEF GoesOn
  <2> QED  BY <1>2, <2>1, <2>2, <2>3 DEF CheckDeadline
<1>3. CASE Attempt(d, reverting, result)
  <2>1. Numbered(d) /\ HoldsLock(d)
    BY <1>3 DEF Attempt, EpisodeAt, Numbered, SenderInv, NonceOwned
  <2>2. CASE Reverts(d, result)
    BY <2>1, <2>2 DEF Reverts, Confirm, End, Ends
  <2>3. CASE NotSubmitted(d, result)
    <3>1. AfterError(d, result) \/ NextAttempt(d, result)
      BY <2>3 DEF NotSubmitted, AfterOutage, AfterError
    <3>2. accountNonce' = accountNonce /\ pool' = pool
      BY <2>3 DEF NotSubmitted
    <3> QED  BY <2>1, <3>1, <3>2, AfterErrorEffect
  <2>4. CASE Submitted(d, result)
    <3> DEFINE e == [episode[d] EXCEPT !.step = "receipt", !.submitted =
                       @ \cup {episode[d].attempt}]
    <3>1. EnterPool(Tx(d)) /\ accountNonce' = accountNonce
      BY <2>4 DEF Submitted
    <3>2. CASE AfterError(d, result) \/ NextAttempt(d, result)
      BY <2>1, <3>1, <3>2, AfterErrorEffect
    <3>3. CASE /\ episode' = [episode EXCEPT ![d].step = "receipt", ![d].submitted =
                                @ \cup {episode[d].attempt}]
               /\ lockQueue' = lockQueue
      <4>1. e \in Episode /\ e.nonce = episode[d].nonce
        BY <1>0 DEF Episode
      <4>2. episode' = [episode EXCEPT ![d] = e]
        BY <1>0, <3>3
      <4> HIDE DEF e
      <4> QED  BY <2>1, <3>1, <3>3, <4>1, <4>2 DEF GoesOn
    <3> QED  BY <2>4, <3>2, <3>3 DEF Submitted, AfterOutage, AfterError
  <2> QED  BY <1>3, <2>2, <2>3, <2>4 DEF Attempt
<1>4. CASE AwaitReceipt(d, result)
  <2>1. Numbered(d) /\ HoldsLock(d) /\ accountNonce' = accountNonce /\ pool' = pool
    BY <1>4 DEF AwaitReceipt, EpisodeAt, Numbered, SenderInv, NonceOwned
  <2>2. CASE End(d)
    BY <2>1, <2>2 DEF End, Ends
  <2>3. CASE AfterError(d, result) \/ NextAttempt(d, result)
    BY <2>1, <2>3, AfterErrorEffect
  <2> QED  BY <1>4, <2>2, <2>3 DEF AwaitReceipt
<1> QED  BY <1>1, <1>2, <1>3, <1>4 DEF SendStep

\* The transaction of the holder takes the place of one of its own or of none.
LEMMA EnterPoolSafe ==
  ASSUME SenderInv, NEW d \in Duties, Numbered(d), EnterPool(Tx(d))
  PROVE  /\ pool' \subseteq [duty : Duties, nonce : Nat, attempt : Nat] /\ IsFiniteSet(pool')
         /\ NoncesUnique' /\ NoncesKept
         /\ \A t \in pool' : t.nonce = episode[d].nonce => t.duty = d
<1> DEFINE n == episode[d].nonce
           kept == {u \in pool : u.nonce # n}
<1>1. Tx(d).duty = d /\ Tx(d).nonce = n /\ Tx(d) \in [duty : Duties, nonce : Nat, attempt : Nat]
  BY DEF Tx, Episode, SenderInv, SenderTypes
<1>2. pool' = kept \cup {Tx(d)}
  BY <1>1 DEF EnterPool
<1>3. IsFiniteSet(pool')
  <2>1. IsFiniteSet(kept)
    BY FS_Subset DEF SenderInv, SenderTypes
  <2> QED  BY <1>2, <2>1, FS_AddElement
<1>4. \A t \in pool : t.nonce = n => t.duty = d
  BY DEF SenderInv, NonceOwned
<1> HIDE DEF n
<1>5. pool' \subseteq [duty : Duties, nonce : Nat, attempt : Nat]
  BY <1>1, <1>2 DEF SenderInv, SenderTypes
<1>6. NoncesUnique'
  BY <1>1, <1>2 DEF SenderInv, NoncesUnique
<1>7. NoncesKept
  BY <1>1, <1>2, <1>4 DEF SenderInv, NoncesUnique, NoncesKept
<1>8. \A t \in pool' : t.nonce = n => t.duty = d
  BY <1>1, <1>2
<1> QED  BY <1>3, <1>5, <1>6, <1>7, <1>8 DEF n

LEMMA SendStepSafe ==
  ASSUME SenderInv, NEW d \in Duties, NEW late, NEW reverting, NEW result,
         SendStep(d, late, reverting, result)
  PROVE  SenderInv' /\ NoncesKept
<1>0. episode \in [Duties -> Episode] /\ lockQueue \in Seq(Duties)
  BY DEF SenderInv, SenderTypes
<1>1. /\ HoldsLock(d) /\ accountNonce' = accountNonce
      /\ pool' = pool \/ (Numbered(d) /\ EnterPool(Tx(d)))
      /\ Ends(d) \/ GoesOn(d)
  BY SendStepEffect
<1>2. /\ pool' \subseteq [duty : Duties, nonce : Nat, attempt : Nat] /\ IsFiniteSet(pool')
      /\ NoncesUnique' /\ NoncesKept
      /\ Numbered(d) => \A t \in pool' : t.nonce = episode[d].nonce => t.duty = d
  <2>1. CASE pool' = pool
    BY <2>1 DEF SenderInv, SenderTypes, NoncesUnique, NoncesKept, NonceOwned
  <2> QED  BY <1>1, <2>1, EnterPoolSafe
<1>3. \A e \in Duties \ {d} : ~ Numbered(e)
  BY <1>1 DEF SenderInv, NonceOwned, HoldsLock
<1>4. CASE Ends(d)
  <2>1. lockQueue' \in Seq(Duties)
    BY <1>0, <1>1, <1>4 DEF Ends, HoldsLock
  <2>2. episode' \in [Duties -> Episode]
    BY <1>0, <1>4 DEF Ends, Episode, NoEpisode
  <2>3. \A e \in Duties : ~ Numbered(e)'
    BY <1>0, <1>3, <1>4 DEF Ends, Numbered, NoEpisode
  <2> QED  BY <1>1, <1>2, <2>1, <2>2, <2>3 DEF SenderInv, SenderTypes, NonceOwned
<1>5. CASE GoesOn(d)
  <2>1. PICK e \in Episode :
          /\ episode' = [episode EXCEPT ![d] = e]
          /\ \/ Numbered(d) /\ e.nonce = episode[d].nonce
             \/ e.nonce = PendingNonce /\ pool' = pool
    BY <1>5 DEF GoesOn
  <2>2. lockQueue' = lockQueue
    BY <1>5 DEF GoesOn
  <2>3. \A t \in pool' : t.nonce = e.nonce => t.duty = d
    BY <1>2, <2>1, PendingNonceFree DEF SenderInv
  <2>4. NonceOwned'
    BY <1>0, <1>1, <1>3, <2>1, <2>2, <2>3 DEF NonceOwned, Numbered, HoldsLock
  <2>5. SenderTypes'
    BY <1>0, <1>1, <1>2, <2>1, <2>2 DEF SenderInv, SenderTypes
  <2> QED  BY <1>2, <2>4, <2>5 DEF SenderInv
<1> QED  BY <1>1, <1>2, <1>4, <1>5

\* What the node and the process do.
LEMMA NodeSafe ==
  ASSUME SenderInv,
         \/ \E t \in pool : \E ok : Include(t, ok)
         \/ \E t \in pool : Evict(t)
         \/ SenderKilled
         \/ UNCHANGED senderVars
  PROVE  SenderInv' /\ NoncesKept
<1>0. accountNonce \in Nat /\ lockQueue \in Seq(Duties) /\ episode \in [Duties -> Episode]
  BY DEF SenderInv, SenderTypes
<1>1. /\ pool' \subseteq pool /\ accountNonce' \in Nat
      /\ \/ lockQueue' = lockQueue /\ episode' = episode
         \/ lockQueue' = <<>> /\ episode' = [d \in Duties |-> NoEpisode]
  BY <1>0 DEF Include, Evict, SenderKilled, senderVars, chainSideVars
<1>2. lockQueue' \in Seq(Duties) /\ episode' \in [Duties -> Episode]
  <2>1. NoEpisode \in Episode /\ <<>> \in Seq(Duties)
    BY DEF Episode, NoEpisode
  <2> QED  BY <1>0, <1>1, <2>1
<1>3. ASSUME NEW d \in Duties, Numbered(d)'
      PROVE  Numbered(d) /\ HoldsLock(d)' /\ episode'[d].nonce = episode[d].nonce
  BY <1>1, <1>3 DEF Numbered, NoEpisode, SenderInv, NonceOwned, HoldsLock
<1> QED  BY <1>1, <1>2, <1>3, SenderFramed

-----------------------------------------------------------------------------
(***************************************************************************)
(* The contract beside the daemon.                                         *)
(***************************************************************************)

\* A step of the daemon or the node is a step of the contract or leaves it alone.
LEMMA ChainStep == [CustodyNext]_custodyLoopVars => [Next]_vars
<1> SUFFICES ASSUME [CustodyNext]_custodyLoopVars PROVE [Next]_vars
  OBVIOUS
<1>1. Operator \in Accounts /\ Provider \in ProviderIds
  BY CustodyAssumption
<1>2. CASE UNCHANGED custodyLoopVars \/ DriverTick \/ ProverStep \/ Ingest \/ Kill
           \/ \E d \in Duties : JobStep(d)
  BY <1>2 DEF custodyLoopVars, DriverTick, ReadChain, Drive, ProverStep, Ingest, Kill, JobStep
<1>3. ASSUME NEW t \in pool, IncludeDuty(t) PROVE [Next]_vars
  BY <1>1, <1>3 DEF IncludeDuty, Execute, Next, ProviderAction
<1>4. ASSUME NEW t \in pool, EvictDuty(t) PROVE [Next]_vars
  BY <1>4 DEF EvictDuty
<1>5. CASE StakeProvider
  BY <1>1, <1>5 DEF StakeProvider, Next
<1>6. CASE OthersAct
  BY <1>1, <1>6 DEF OthersAct, Next, ProviderAction
<1> QED  BY <1>2, <1>3, <1>4, <1>5, <1>6 DEF CustodyNext

\* The pair implements the contract, so every theorem about Spec holds of it.
THEOREM LoopImplementsInstance == CustodySpec => Spec
<1>1. CustodyInit => Init
  BY DEF CustodyInit
<1> QED  BY <1>1, ChainStep, PTL DEF CustodySpec, Spec

-----------------------------------------------------------------------------

\* The daemon derives the status the contract derives, at every boundary of every
\* period, for any period, grace window and history of proofs.
THEOREM StatusAgreesHolds == CustodySpec => []StatusAgrees
<1>1. IInv => StatusAgrees
  <2> SUFFICES ASSUME IInv, status[Provider] = "ACTIVE"
               PROVE  DeriveStatus(now, lastProvenPlusOne[Provider]) = CustodyStatus(Provider)
    BY DEF StatusAgrees
  <2>1. Provider \in ProviderIds
    BY CustodyAssumption
  <2>2. now \in Nat /\ anchor[Provider] \in Nat /\ anchor[Provider] <= now
    BY <2>1 DEF IInv, TypeOK, AnchorsPast
  <2>3. PeriodAt(now) = PeriodIndex(Provider)
    BY <2>2 DEF PeriodAt, PeriodIndex
  <2>4. PeriodStart(lastProvenPlusOne[Provider] + 2) = EligibleAt(Provider)
    BY DEF PeriodStart, EligibleAt
  <2> QED  BY <2>3, <2>4 DEF DeriveStatus, CustodyStatus, LapsableAt
<1> QED  BY <1>1, LoopImplementsInstance, InvariantHolds, PTL

-----------------------------------------------------------------------------
(***************************************************************************)
(* The jobs.                                                               *)
(***************************************************************************)

\* The chain's clock, and the block times the jobs are named by.
ChainTimes ==
  /\ now \in 1..MaxTime
  /\ status[Provider] # "NONE" => anchor[Provider] \in 1..MaxTime
  /\ commitPeriodPlusOne[Provider] # 0 => commitSeed[Provider] \in 1..MaxTime

\* What a tick has seen is something the chain was.
TickSeen ==
  /\ ticking => status[Provider] # "NONE"
  /\ seenNow \in 0..MaxTime
  /\ view.commit = NoCommit \/ view.commit.seed \in 1..MaxTime

BeginJobs == {d \in Duties : d.kind = "begin"} \cup {NoDuty}
SubmitJobs == {d \in Duties : d.kind # "begin"} \cup {NoDuty}

\* A payload is on its way only for the job the driver calls submitting.
JobsOwned ==
  /\ begin \in BeginJobs /\ submitting \in SubmitJobs
  /\ proving.step # "none" => proving.commit.seed \in 1..MaxTime
  /\ \A d \in Duties : d.kind # "begin" /\ episode[d] # NoEpisode => submitting = d

LoopInv == ChainTimes /\ TickSeen /\ JobsOwned /\ SenderInv

LEMMA DutyMade ==
  ASSUME NEW kind \in {"begin", "proof", "escape"}, NEW of \in 1..MaxTime
  PROVE  [kind |-> kind, of |-> of] \in Duties
  BY CustodyAssumption

LEMMA NoDutyIsNone == NoDuty \notin Duties
  BY CustodyAssumption DEF NoDuty

LEMMA InitLoopInv == CustodyInit => LoopInv
<1> SUFFICES ASSUME CustodyInit PROVE LoopInv
  OBVIOUS
<1>1. Provider \in ProviderIds /\ MaxTime \in Nat /\ MaxTime # 0
  BY CustodyAssumption, BoundsAssumption
<1>2. ChainTimes
  BY <1>1 DEF CustodyInit, Init, ChainTimes
<1>3. TickSeen
  BY <1>1 DEF CustodyInit, TickSeen, NoView, NoCommit
<1>4. JobsOwned
  BY DEF CustodyInit, JobsOwned, BeginJobs, SubmitJobs, NoProving, SenderInit
<1> QED  BY <1>2, <1>3, <1>4, InitSenderInv DEF CustodyInit, LoopInv

\* The contract keeps the times in bounds.
LEMMA ChainTimesStep ==
  ASSUME IInv, ChainTimes, [CustodyNext]_custodyLoopVars
  PROVE  ChainTimes' /\ (status[Provider] # "NONE" => status'[Provider] # "NONE")
<1> DEFINE Goal == ChainTimes' /\ (status[Provider] # "NONE" => status'[Provider] # "NONE")
<1>1. Provider \in ProviderIds /\ MaxTime \in Nat
  BY CustodyAssumption, BoundsAssumption
<1>2. /\ status \in [ProviderIds -> Statuses] /\ anchor \in [ProviderIds -> Nat]
      /\ commitPeriodPlusOne \in [ProviderIds -> Nat] /\ commitSeed \in [ProviderIds -> Nat]
  BY DEF IInv, TypeOK
<1>3. ASSUME UNCHANGED vars PROVE Goal
  BY <1>3 DEF ChainTimes, vars, datasetVars, lifecycleVars, custodyVars, commitVars
<1>4. CASE UNCHANGED custodyLoopVars \/ DriverTick \/ ProverStep \/ Ingest \/ Kill
           \/ (\E d \in Duties : JobStep(d)) \/ \E t \in pool : EvictDuty(t)
  BY <1>3, <1>4 DEF custodyLoopVars, DriverTick, ReadChain, Drive, ProverStep, Ingest, Kill,
     JobStep, EvictDuty
<1>5. ASSUME NEW t \in pool, IncludeDuty(t) PROVE Goal
  <2>1. CASE BeginProof(Operator, Provider)
    BY <2>1, <1>1, <1>2 DEF BeginProof, ChainTimes, datasetVars, lifecycleVars
  <2>2. CASE SubmitProof(Operator, Provider) \/ SubmitProofEscape(Operator, Provider)
    BY <2>2, <1>1, <1>2 DEF SubmitProof, SubmitProofEscape, AcceptProof, VoidCommit, ChainTimes,
       datasetVars, lifecycleVars
  <2> QED  BY <1>3, <1>5, <2>1, <2>2 DEF IncludeDuty, Execute
<1>6. CASE StakeProvider
  <2>1. PICK id \in ProviderIds :
          /\ status' = [status EXCEPT ![id] = "ACTIVE"] /\ anchor' = [anchor EXCEPT ![id] = now]
          /\ UNCHANGED <<now, commitPeriodPlusOne, commitSeed>>
    BY <1>6 DEF StakeProvider, Stake, datasetVars, custodyVars, commitVars
  <2> QED  BY <1>1, <1>2, <2>1 DEF ChainTimes
<1>7. CASE OthersAct
  <2>1. CASE Tick
    BY <2>1, <1>1 DEF Tick, ChainTimes, lifecycleVars, custodyVars, commitVars
  <2>2. CASE \E n \in 1..MaxLeafCount : Declare(n)
    BY <2>2 DEF Declare, ChainTimes, lifecycleVars, custodyVars, commitVars
  <2>3. CASE InitiateUnbonding(Operator, Provider)
    BY <2>3, <1>1, <1>2 DEF InitiateUnbonding, VoidCommit, ChainTimes, datasetVars
  <2> QED  BY <1>7, <2>1, <2>2, <2>3 DEF OthersAct
<1> QED  BY <1>4, <1>5, <1>6, <1>7 DEF CustodyNext

\* A tick reads the chain, forgets what it read, or is not concerned.
LEMMA TickSeenStep ==
  ASSUME IInv, ChainTimes, TickSeen, [CustodyNext]_custodyLoopVars PROVE TickSeen'
<1>1. Provider \in ProviderIds /\ MaxTime \in Nat
  BY CustodyAssumption, BoundsAssumption
<1>2. status[Provider] # "NONE" => status'[Provider] # "NONE"
  BY ChainTimesStep
<1>3. ASSUME UNCHANGED tickVars PROVE TickSeen'
  BY <1>2, <1>3 DEF TickSeen, tickVars
<1>4. CASE ReadChain
  <2>1. seenNow' \in 0..MaxTime
    BY <1>1, <1>4 DEF ReadChain, ChainTimes
  <2>2. view'.commit = CommitOf(Provider) /\ status[Provider] # "NONE"
    BY <1>4 DEF ReadChain
  <2>3. CommitOf(Provider) = NoCommit \/ CommitOf(Provider).seed \in 1..MaxTime
    BY DEF CommitOf, ChainTimes
  <2> QED  BY <1>2, <2>1, <2>2, <2>3 DEF TickSeen
<1>5. CASE Drive \/ Kill
  BY <1>1, <1>5 DEF Drive, Kill, TickSeen, NoView
<1>6. CASE ProverStep \/ Ingest \/ StakeProvider \/ OthersAct \/ UNCHANGED custodyLoopVars
           \/ (\E d \in Duties : JobStep(d)) \/ \E t \in pool : IncludeDuty(t) \/ EvictDuty(t)
  BY <1>3, <1>6 DEF ProverStep, Ingest, StakeProvider, OthersAct, custodyLoopVars, JobStep,
     IncludeDuty, EvictDuty
<1> QED  BY <1>4, <1>5, <1>6 DEF CustodyNext, DriverTick

-----------------------------------------------------------------------------

\* The window a beginProof is sent for begins in the past of the block it was seen in.
LEMMA WindowTimed ==
  ASSUME IInv, ChainTimes, TickSeen, ticking PROVE PeriodStart(SeenPeriod) \in 1..MaxTime
<1> DEFINE a == anchor[Provider]
<1>1. a \in 1..MaxTime /\ seenNow \in 0..MaxTime /\ MaxTime \in Nat /\ CustodyPeriod \in Nat \ {0}
  BY ParamsAssumption, BoundsAssumption DEF ChainTimes, TickSeen
<1>2. CASE seenNow < a
  <2>1. SeenPeriod = 0
    BY <1>2 DEF SeenPeriod, PeriodAt
  <2> QED  BY <1>1, <2>1 DEF PeriodStart
<1>3. CASE seenNow >= a
  <2> DEFINE x == seenNow - a
             q == x \div CustodyPeriod
  <2>1. x \in Nat
    BY <1>1, <1>3
  <2>2. q \in Nat /\ q * CustodyPeriod <= x
    BY <1>1, <2>1, DivBounds
  <2>3. SeenPeriod = q
    BY <1>1, <1>3 DEF SeenPeriod, PeriodAt
  <2> HIDE DEF q
  <2>4. q * CustodyPeriod \in Nat
    BY <1>1, <2>2
  <2> QED  BY <1>1, <2>1, <2>2, <2>3, <2>4 DEF PeriodStart
<1> QED  BY <1>1, <1>2, <1>3

\* Reaping forgets no job whose call is under way.
LEMMA ReapedOwns ==
  ASSUME LoopInv
  PROVE  /\ Reaped.begin \in BeginJobs /\ Reaped.submitting \in SubmitJobs
         /\ Reaped.proving.step # "none" => Reaped.proving.commit.seed \in 1..MaxTime
         /\ \A d \in Duties : d.kind # "begin" /\ episode[d] # NoEpisode =>
              Reaped.submitting = d
<1> DEFINE sending == IF Finished(submitting) THEN NoDuty ELSE submitting
           handed == [kind |-> "proof", of |-> proving.commit.seed]
<1>1. /\ Reaped.begin \in {NoDuty, begin} /\ Reaped.proving \in {NoProving, proving}
      /\ Reaped.submitting = IF proving.step = "proved" /\ MayHandOver(proving.commit.period, sending)
                             THEN handed ELSE sending
  BY DEF Reaped
<1>2. Reaped.begin \in BeginJobs
  BY <1>1 DEF LoopInv, JobsOwned, BeginJobs
<1>3. proving.step = "proved" => handed \in SubmitJobs
  BY DutyMade DEF LoopInv, JobsOwned, SubmitJobs
<1>4. Reaped.submitting \in SubmitJobs
  <2>1. sending \in SubmitJobs
    BY DEF LoopInv, JobsOwned, SubmitJobs
  <2> HIDE DEF sending, handed
  <2> QED  BY <1>1, <1>3, <2>1
<1>5. Reaped.proving.step # "none" => Reaped.proving.commit.seed \in 1..MaxTime
  BY <1>1 DEF LoopInv, JobsOwned, NoProving
<1>6. ASSUME NEW d \in Duties, d.kind # "begin", episode[d] # NoEpisode
      PROVE  Reaped.submitting = d
  <2>1. submitting = d
    BY <1>6 DEF LoopInv, JobsOwned
  <2>2. sending = d /\ sending # NoDuty
    BY <1>6, <2>1, NoDutyIsNone DEF Finished
  <2>3. ~ MayHandOver(proving.commit.period, sending)
    BY <2>2 DEF MayHandOver
  <2> QED  BY <1>1, <2>2, <2>3
<1> QED  BY <1>2, <1>4, <1>5, <1>6

\* So does what the plan spawns.
LEMMA SpawnedOwns ==
  ASSUME IInv, LoopInv, ticking
  PROVE  LET driver == Spawned(Reaped) IN
         /\ driver.begin \in BeginJobs /\ driver.submitting \in SubmitJobs
         /\ driver.proving.step # "none" => driver.proving.commit.seed \in 1..MaxTime
         /\ \A d \in Duties : d.kind # "begin" /\ episode[d] # NoEpisode =>
              driver.submitting = d
<1> DEFINE reaped == Reaped
           driver == Spawned(reaped)
           opened == [kind |-> "begin", of |-> PeriodStart(SeenPeriod)]
           escaped == [kind |-> "escape", of |-> view.commit.seed]
<1>1. /\ reaped.begin \in BeginJobs /\ reaped.submitting \in SubmitJobs
      /\ reaped.proving.step # "none" => reaped.proving.commit.seed \in 1..MaxTime
      /\ \A d \in Duties : d.kind # "begin" /\ episode[d] # NoEpisode => reaped.submitting = d
  BY ReapedOwns
<1> HIDE DEF reaped
<1>2. /\ driver.begin = IF PlansBegin(reaped) THEN opened ELSE reaped.begin
      /\ driver.submitting = IF PlansEscape(reaped) THEN escaped ELSE reaped.submitting
      /\ driver.proving = IF PlansProve(reaped)
                         THEN [step |-> IF Reproducible THEN "running" ELSE "failed",
                               commit |-> view.commit]
                         ELSE reaped.proving
  BY DEF Spawned
<1>3. opened \in BeginJobs
  BY WindowTimed, DutyMade DEF LoopInv, BeginJobs
<1>4. HoldsCommit => view.commit.seed \in 1..MaxTime
  BY DEF HoldsCommit, CommitSeen, LoopInv, TickSeen
<1>5. HoldsCommit => escaped \in SubmitJobs
  BY <1>4, DutyMade DEF SubmitJobs
<1> HIDE DEF driver, opened, escaped
<1>6. driver.begin \in BeginJobs
  BY <1>1, <1>2, <1>3
<1>7. driver.submitting \in SubmitJobs
  BY <1>1, <1>2, <1>5 DEF PlansEscape
<1>8. driver.proving.step # "none" => driver.proving.commit.seed \in 1..MaxTime
  <2>1. CASE PlansProve(reaped)
    BY <1>2, <1>4, <2>1 DEF PlansProve
  <2> QED  BY <1>1, <1>2, <2>1
<1>9. ASSUME NEW d \in Duties, d.kind # "begin", episode[d] # NoEpisode
      PROVE  driver.submitting = d
  <2>1. reaped.submitting = d /\ d # NoDuty
    BY <1>1, <1>9, NoDutyIsNone
  <2> QED  BY <1>2, <2>1 DEF PlansEscape
<1> QED  BY <1>6, <1>7, <1>8, <1>9 DEF driver, reaped

LEMMA DriveSafe ==
  ASSUME IInv, LoopInv, Drive PROVE JobsOwned' /\ SenderInv' /\ NoncesKept
<1> DEFINE driver == Spawned(Reaped)
<1>1. /\ driver.begin \in BeginJobs /\ driver.submitting \in SubmitJobs
      /\ driver.proving.step # "none" => driver.proving.commit.seed \in 1..MaxTime
      /\ \A d \in Duties : d.kind # "begin" /\ episode[d] # NoEpisode => driver.submitting = d
  BY SpawnedOwns DEF Drive
<1>2. /\ begin' = driver.begin /\ submitting' = driver.submitting /\ proving' = driver.proving
      /\ StartSending(driver)
  BY DEF Drive
<1> HIDE DEF driver
<1>3. \/ UNCHANGED senderVars
      \/ \E job \in {driver.begin, driver.submitting} \ {NoDuty} :
           episode[job] = NoEpisode /\ SendUntil(job)
  BY <1>2 DEF StartSending
<1>4. CASE UNCHANGED senderVars
  BY <1>1, <1>2, <1>4, NodeSafe DEF LoopInv, JobsOwned, senderVars
<1>5. CASE \E job \in {driver.begin, driver.submitting} \ {NoDuty} :
             episode[job] = NoEpisode /\ SendUntil(job)
  <2>1. PICK job \in {driver.begin, driver.submitting} \ {NoDuty} :
               episode[job] = NoEpisode /\ SendUntil(job)
    BY <1>5
  <2>2. job \in Duties /\ (job.kind # "begin" => job = driver.submitting)
    BY <1>1, <2>1 DEF BeginJobs, SubmitJobs
  <2>3. SenderInv' /\ NoncesKept
    BY <2>1, <2>2, SendUntilSafe DEF LoopInv
  <2>4. \A d \in Duties \ {job} : episode'[d] = episode[d]
    BY <2>1 DEF SendUntil, LoopInv, SenderInv, SenderTypes
  <2>5. JobsOwned'
    BY <1>1, <1>2, <2>2, <2>4 DEF JobsOwned, BeginJobs, SubmitJobs
  <2> QED  BY <2>3, <2>5
<1> QED  BY <1>3, <1>4, <1>5

\* A call that is under way stays the job's own until it ends.
LEMMA JobSafe ==
  ASSUME LoopInv, NEW d \in Duties, JobStep(d) PROVE JobsOwned' /\ SenderInv' /\ NoncesKept
<1>1. PICK result : SendStep(d, now >= DutyDeadline(d), ~Accepted(d), result)
  BY DEF JobStep
<1>2. SenderInv' /\ NoncesKept
  BY <1>1, SendStepSafe DEF LoopInv
<1>3. episode[d] # NoEpisode
  BY <1>1 DEF SendStep, FetchNonce, CheckDeadline, Attempt, AwaitReceipt, EpisodeAt, NoEpisode
<1>4. \A e \in Duties \ {d} : episode'[e] = episode[e]
  BY <1>1, SendStepEffect DEF Ends, GoesOn, LoopInv, SenderInv, SenderTypes
<1>5. UNCHANGED driverVars
  BY DEF JobStep
<1>6. JobsOwned'
  BY <1>3, <1>4, <1>5 DEF driverVars, LoopInv, JobsOwned, BeginJobs, SubmitJobs
<1> QED  BY <1>2, <1>6

LEMMA LoopStep == IInv /\ LoopInv /\ [CustodyNext]_custodyLoopVars => LoopInv' /\ NoncesKept
<1> SUFFICES ASSUME IInv, LoopInv, [CustodyNext]_custodyLoopVars PROVE LoopInv' /\ NoncesKept
  OBVIOUS
<1>1. ChainTimes' /\ TickSeen'
  BY ChainTimesStep, TickSeenStep DEF LoopInv
<1> SUFFICES JobsOwned' /\ SenderInv' /\ NoncesKept
  BY <1>1 DEF LoopInv
<1>2. ASSUME UNCHANGED <<senderVars, driverVars>> PROVE JobsOwned' /\ SenderInv' /\ NoncesKept
  BY <1>2, NodeSafe DEF LoopInv, JobsOwned, BeginJobs, SubmitJobs, senderVars, driverVars
<1>3. CASE ReadChain \/ StakeProvider \/ OthersAct \/ Ingest \/ UNCHANGED custodyLoopVars
  BY <1>2, <1>3 DEF ReadChain, StakeProvider, OthersAct, Ingest, custodyLoopVars
<1>4. CASE Drive  BY <1>4, DriveSafe
<1>5. CASE ProverStep
  <2>1. /\ proving.step = "running" /\ UNCHANGED <<senderVars, begin, submitting>>
        /\ \/ proving' = [step |-> "proved", commit |-> proving.commit]
           \/ proving' = [step |-> "failed", commit |-> proving.commit]
    BY <1>5 DEF ProverStep
  <2>2. proving'.commit = proving.commit
    BY <2>1
  <2>3. JobsOwned'
    BY <2>1, <2>2 DEF LoopInv, JobsOwned, BeginJobs, SubmitJobs, senderVars
  <2> QED  BY <2>1, <2>3, NodeSafe DEF LoopInv
<1>6. ASSUME NEW d \in Duties, JobStep(d) PROVE JobsOwned' /\ SenderInv' /\ NoncesKept
  BY <1>6, JobSafe
<1>7. ASSUME NEW t \in pool, IncludeDuty(t) \/ EvictDuty(t)
      PROVE  JobsOwned' /\ SenderInv' /\ NoncesKept
  <2>1. /\ (\E ok : Include(t, ok)) \/ Evict(t)
        /\ UNCHANGED <<driverVars, episode>>
    BY <1>7 DEF IncludeDuty, EvictDuty, Include, Evict
  <2>2. JobsOwned'
    BY <2>1 DEF LoopInv, JobsOwned, BeginJobs, SubmitJobs, driverVars
  <2> QED  BY <2>1, <2>2, NodeSafe DEF LoopInv
<1>8. CASE Kill
  <2>1. SenderKilled
    BY <1>8 DEF Kill
  <2>2. JobsOwned'
    BY <1>8, <2>1 DEF Kill, SenderKilled, JobsOwned, BeginJobs, SubmitJobs, NoProving
  <2> QED  BY <2>1, <2>2, NodeSafe DEF LoopInv
<1> QED  BY <1>3, <1>4, <1>5, <1>6, <1>7, <1>8 DEF CustodyNext, DriverTick

LEMMA LoopInvHolds == CustodySpec => [](IInv /\ LoopInv)
<1>1. CustodySpec => []IInv
  BY LoopImplementsInstance, InvariantHolds, PTL
<1> QED  BY <1>1, InitLoopInv, LoopStep, PTL DEF CustodySpec

\* At no time are two payloads for one account on their way.
THEOREM OneSubmissionHolds == CustodySpec => []OneSubmission
<1>1. LoopInv => OneSubmission
  BY DEF LoopInv, JobsOwned, OneSubmission
<1> QED  BY <1>1, LoopInvHolds, PTL

\* No duty's transaction ever pushes another duty's out of the node's pool.
THEOREM NoEvictionHolds == CustodySpec => NoEviction
<1>1. IInv /\ LoopInv /\ [CustodyNext]_custodyLoopVars => [NoncesKept]_senderVars
  BY LoopStep
<1> QED  BY <1>1, LoopInvHolds, PTL DEF CustodySpec, NoEviction

=============================================================================
