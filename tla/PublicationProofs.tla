-------------------------- MODULE PublicationProofs --------------------------
(***************************************************************************)
(* Proofs about Publication for every value of its constants: the bucket   *)
(* bounds what is paid over any window, the reclaim gate opens only after  *)
(* real inactivity, the event log is sequential, the ledgers add up and no *)
(* donor is hurt by reclaiming late.                                       *)
(*                                                                         *)
(* The invariants are independent; each gets its own strengthening and one *)
(* lemma per action that touches its variables.                            *)
(***************************************************************************)
EXTENDS Publication, Arithmetic, TLAPS

\* Rounding down never adds: d * floor(x / d) <= x.
LEMMA FloorBound ==
  ASSUME NEW x \in Nat, NEW d \in Nat \ {0}
  PROVE  /\ x \div d \in Nat
         /\ (x \div d) * d <= x
  OBVIOUS

LEMMA MulMono ==
  ASSUME NEW a \in Nat, NEW b \in Int, NEW c \in Int, b <= c
  PROVE  a * b <= a * c
  OBVIOUS

LEMMA MulNat ==
  ASSUME NEW a \in Nat, NEW b \in Nat
  PROVE  a * b \in Nat
  OBVIOUS

-----------------------------------------------------------------------------
(***************************************************************************)
(* The bucket.                                                             *)
(***************************************************************************)

ClockTypes ==
  /\ now \in Nat
  /\ windowStart \in Nat

\* What was paid in the window plus what is left in the bucket is what a full bucket and
\* the refill since the window opened amount to.
BucketInv ==
  /\ ClockTypes
  /\ lastBucketUpdate \in Nat
  /\ lastBucketUpdate <= now
  /\ storedBucketLevel \in Nat
  /\ storedBucketLevel <= BucketCapWei
  /\ windowReimbursed \in Nat
  /\ lastBucketUpdate < windowStart => windowReimbursed = 0
  /\ lastBucketUpdate >= windowStart =>
       (windowReimbursed + storedBucketLevel) * Day
         <= BucketCapWei * Day + BucketRateWeiPerDay * (lastBucketUpdate - windowStart)

LEMMA InitBucketInv == Init => BucketInv
<1> SUFFICES ASSUME Init PROVE BucketInv
  OBVIOUS
<1> USE PaymasterAssumption, PublicationAssumption DEF Init, PaymasterInit
<1>1. now = 1 /\ windowStart \in Nat /\ windowStart >= 1
  OBVIOUS
<1>2. BucketRateWeiPerDay * (lastBucketUpdate - windowStart) = 0
      \/ lastBucketUpdate < windowStart
  <2>1. CASE windowStart = 1  BY <2>1, <1>1
  <2>2. CASE windowStart # 1  BY <2>2, <1>1
  <2> QED  BY <2>1, <2>2
<1> QED  BY <1>1, <1>2 DEF BucketInv, ClockTypes

\* The level the contract computes, against the refill it stands for.
LEMMA LevelBound ==
  ASSUME BucketInv
  PROVE  /\ BucketLevel \in Nat
         /\ BucketLevel <= BucketCapWei
         /\ BucketLevel * Day
              <= storedBucketLevel * Day + BucketRateWeiPerDay * (now - lastBucketUpdate)
<1> USE PaymasterAssumption DEF BucketInv, ClockTypes
<1> DEFINE dt == now - lastBucketUpdate
           refill == (BucketRateWeiPerDay * dt) \div Day
<1>1. dt \in Nat
  OBVIOUS
<1>2. BucketRateWeiPerDay * dt \in Nat
  BY <1>1, MulNat
<1>3. refill \in Nat /\ refill * Day <= BucketRateWeiPerDay * dt
  BY <1>2, FloorBound
<1>4. BucketLevel = IF storedBucketLevel + refill > BucketCapWei
                    THEN BucketCapWei ELSE storedBucketLevel + refill
  BY DEF BucketLevel
<1> HIDE DEF refill, dt
<1>5. BucketLevel \in Nat /\ BucketLevel <= BucketCapWei
      /\ BucketLevel <= storedBucketLevel + refill
  BY <1>3, <1>4
<1>6. Day * BucketLevel <= Day * (storedBucketLevel + refill)
  BY <1>3, <1>5, MulMono
<1>7. BucketLevel * Day <= storedBucketLevel * Day + refill * Day
  BY <1>3, <1>5, <1>6
<1> QED  BY <1>2, <1>3, <1>5, <1>7 DEF dt

\* One reimbursement request, whatever it asks and however it ends.
LEMMA BucketRequest ==
  ASSUME BucketInv, NEW carrier, NEW amount \in Nat,
         RequestReimbursement(carrier, amount), UNCHANGED <<now, windowStart>>
  PROVE  BucketInv'
<1> USE PaymasterAssumption
<1> DEFINE Accrued(t) == BucketRateWeiPerDay * (t - windowStart)
           Since == BucketRateWeiPerDay * (now - lastBucketUpdate)
           sum == windowReimbursed + storedBucketLevel
<1>1. BucketLevel \in Nat /\ BucketLevel <= BucketCapWei
      /\ BucketLevel * Day <= storedBucketLevel * Day + Since
  BY LevelBound
<1>2. now >= windowStart =>
        (windowReimbursed + BucketLevel) * Day <= BucketCapWei * Day + Accrued(now)
  <2> SUFFICES ASSUME now >= windowStart
               PROVE  (windowReimbursed + BucketLevel) * Day
                        <= BucketCapWei * Day + Accrued(now)
    OBVIOUS
  <2>1. CASE lastBucketUpdate >= windowStart
    <3>1. Accrued(now) = Accrued(lastBucketUpdate) + Since
      BY DEF BucketInv, ClockTypes
    <3>2. (windowReimbursed + storedBucketLevel) * Day
            <= BucketCapWei * Day + Accrued(lastBucketUpdate)
      BY <2>1 DEF BucketInv
    <3>3. /\ (windowReimbursed + BucketLevel) * Day = windowReimbursed * Day + BucketLevel * Day
          /\ (windowReimbursed + storedBucketLevel) * Day
               = windowReimbursed * Day + storedBucketLevel * Day
      BY <1>1 DEF BucketInv
    <3>4. /\ Accrued(now) \in Int /\ Accrued(lastBucketUpdate) \in Int /\ Since \in Int
          /\ windowReimbursed * Day \in Int /\ BucketLevel * Day \in Int
          /\ storedBucketLevel * Day \in Int /\ BucketCapWei * Day \in Int
      BY <1>1 DEF BucketInv, ClockTypes
    <3> HIDE DEF Accrued, Since
    <3> QED  BY <1>1, <3>1, <3>2, <3>3, <3>4
  <2>2. CASE lastBucketUpdate < windowStart
    <3>1. windowReimbursed = 0
      BY <2>2 DEF BucketInv
    <3>2. Day * BucketLevel <= Day * BucketCapWei
      BY <1>1, MulMono
    <3>3. Accrued(now) \in Nat
      BY MulNat DEF BucketInv, ClockTypes
    <3> QED  BY <1>1, <3>1, <3>2, <3>3
  <2> QED  BY <2>1, <2>2 DEF BucketInv, ClockTypes
<1>3. CASE UNCHANGED <<paymasterVars, windowReimbursed>>
  BY <1>3 DEF BucketInv, ClockTypes, paymasterVars, bucketVars
<1>4. CASE Reimburse(carrier, amount)
           /\ windowReimbursed' = IF Covered(amount) /\ now >= windowStart
                                  THEN windowReimbursed + amount ELSE windowReimbursed
  <2>1. lastBucketUpdate' = now
    BY <1>4 DEF Reimburse
  <2>2. CASE Covered(amount)
    <3>1. amount <= BucketLevel /\ storedBucketLevel' = BucketLevel - amount
      BY <1>4, <2>2 DEF Reimburse, Covered
    <3>2. CASE now >= windowStart
      <4>1. windowReimbursed' = windowReimbursed + amount
        BY <1>4, <2>2, <3>2
      <4>2. windowReimbursed' + storedBucketLevel' = windowReimbursed + BucketLevel
        BY <1>1, <3>1, <4>1 DEF BucketInv
      <4> QED  BY <1>1, <1>2, <2>1, <3>1, <3>2, <4>1, <4>2 DEF BucketInv, ClockTypes
    <3>3. CASE now < windowStart
      BY <1>1, <1>4, <2>1, <3>1, <3>3 DEF BucketInv, ClockTypes
    <3> QED  BY <3>2, <3>3 DEF BucketInv, ClockTypes
  <2>3. CASE ~Covered(amount)
    <3>1. storedBucketLevel' = BucketLevel /\ windowReimbursed' = windowReimbursed
      BY <1>4, <2>3 DEF Reimburse
    <3> QED  BY <1>1, <1>2, <2>1, <3>1 DEF BucketInv, ClockTypes
  <2> QED  BY <2>2, <2>3
<1> QED  BY <1>3, <1>4 DEF RequestReimbursement

\* What the instance asks for is a natural number.
LEMMA AmountNat ==
  ASSUME NEW k \in Nat, NEW s \in Nat, NEW g \in Nat, NEW b \in Nat
  PROVE  ReimbursementAmount(k, s, g, b) \in Nat
<1>1. k * b \in Nat  BY MulNat
<1> QED  BY <1>1, PublicationAssumption DEF ReimbursementAmount

LEMMA BlobCountNat ==
  ASSUME NEW m \in Nat
  PROVE  BlobCount(m) \in Nat
<1>1. m + ChunksPerBlob - 1 \in Nat  BY PublicationAssumption
<1> QED  BY <1>1, FloorBound, PublicationAssumption DEF BlobCount

LEMMA DeclarationAmountNat ==
  ASSUME leafCount \in Nat, NEW a, NEW d, d.newLeafCount \in Nat, NEW g \in Nat, NEW b \in Nat,
         DeclareFor(a, d, g, b)
  PROVE  ReimbursementAmount(BlobCount(d.newLeafCount - leafCount), ProvingSubsidyWei, g, b) \in Nat
<1>1. d.newLeafCount - leafCount \in Nat
  BY DEF DeclareFor, MayDeclare
<1>2. BlobCount(d.newLeafCount - leafCount) \in Nat /\ ProvingSubsidyWei \in Nat
  BY <1>1, BlobCountNat, PublicationAssumption
<1> QED  BY <1>2, AmountNat

\* A carrier's transaction, at any fees.
LEMMA BucketDeclareFor ==
  ASSUME BucketInv, leafCount \in Nat, NEW a, NEW d, d.newLeafCount \in Nat, NEW g \in Nat,
         NEW b \in Nat, DeclareFor(a, d, g, b)
  PROVE  BucketInv'
<1>1. ReimbursementAmount(BlobCount(d.newLeafCount - leafCount), ProvingSubsidyWei, g, b) \in Nat
  BY DeclarationAmountNat
<1> QED  BY <1>1, BucketRequest DEF DeclareFor

LEMMA BucketPointers ==
  ASSUME BucketInv, NEW a, NEW n, NEW t, NEW q, NEW g \in Nat,
         SetAppPointer(a, n, t, q, g) \/ SetSuccessor(a, n, t, q, g)
  PROVE  BucketInv'
<1>1. ReimbursementAmount(0, 0, g, 0) \in Nat
  BY AmountNat
<1> QED  BY <1>1, BucketRequest DEF SetAppPointer, SetSuccessor

LEMMA BucketTick == ASSUME BucketInv, Tick PROVE BucketInv'
<1>1. /\ now' = now + 1
      /\ UNCHANGED <<lastBucketUpdate, storedBucketLevel, windowReimbursed, windowStart>>
  BY DEF Tick, paymasterVars, bucketVars
<1> QED  BY <1>1, PublicationAssumption DEF BucketInv, ClockTypes

LEMMA BucketFramed ==
  ASSUME BucketInv, UNCHANGED <<now, bucketVars, windowReimbursed, windowStart>> PROVE BucketInv'
  BY DEF bucketVars, BucketInv, ClockTypes

LEMMA BucketFunds ==
  ASSUME BucketInv, SlashRemainder \/ \E a \in Accounts : FundsAction(a) PROVE BucketInv'
  BY BucketFramed DEF SlashRemainder, AbsorbSlash, FundsAction, Donate, Reclaim, Claim, instanceVars

LEMMA BucketStep ==
  ASSUME BucketInv, leafCount \in Nat, [Next]_vars
  PROVE  BucketInv'
<1>1. CASE Tick  BY <1>1, BucketTick
<1>2. CASE SlashRemainder \/ \E a \in Accounts : FundsAction(a)
  BY <1>2, BucketFunds
<1>3. ASSUME NEW a \in Accounts, NEW g \in GasFees, NEW d \in Declaration, NEW b \in BlobFees,
             DeclareFor(a, d, g, b)
      PROVE  BucketInv'
  <2>1. d.newLeafCount \in Nat /\ g \in Nat /\ b \in Nat
    BY PublicationAssumption DEF Declaration
  <2> QED  BY <1>3, <2>1, BucketDeclareFor
<1>4. ASSUME NEW a \in Accounts, NEW g \in GasFees, NEW n, NEW t, NEW q,
             SetAppPointer(a, n, t, q, g) \/ SetSuccessor(a, n, t, q, g)
      PROVE  BucketInv'
  BY <1>4, BucketPointers, PublicationAssumption
<1>5. CASE UNCHANGED vars
  BY <1>5, BucketFramed DEF vars, paymasterVars
<1> QED  BY <1>1, <1>2, <1>3, <1>4, <1>5 DEF Next, CarryAction

-----------------------------------------------------------------------------
(***************************************************************************)
(* The dormancy clock and the event log.                                   *)
(***************************************************************************)

\* Fewer than dormancyMinChunks chunks since the checkpoint, and the window's chunks are
\* among them when the checkpoint is older than the window.
DormancyInv ==
  /\ ClockTypes
  /\ leafCount \in Nat /\ windowChunks \in Nat
  /\ activityCheckpointTime \in Nat /\ activityCheckpointTime <= now
  /\ activityCheckpointLeafCount \in Nat /\ activityCheckpointLeafCount <= leafCount
  /\ \/ leafCount = activityCheckpointLeafCount
     \/ leafCount - activityCheckpointLeafCount < DormancyMinChunks
  /\ now < windowStart => windowChunks = 0
  /\ activityCheckpointTime < windowStart =>
       windowChunks <= leafCount - activityCheckpointLeafCount

LogTypes == declaredLog \in Seq([nonce : Nat, newLeafCount : Nat])

LogInv == leafCount \in Nat /\ declarationNonce \in Nat /\ LogTypes /\ LogSequential

LEMMA InitDormancyLog == Init => DormancyInv /\ LogInv
  BY PublicationAssumption DEF Init, DormancyInv, ClockTypes, LogInv, LogTypes, LogSequential

\* Every action but Tick and DeclareFor leaves both invariants' variables alone.
LEMMA DeclarationFrame ==
  ASSUME Next, ~Tick,
         \A a \in Accounts, g \in GasFees, d \in Declaration, b \in BlobFees :
           ~DeclareFor(a, d, g, b)
  PROVE  UNCHANGED <<now, windowStart, declarationVars>>
<1>1. CASE SlashRemainder
  BY <1>1 DEF SlashRemainder, instanceVars
<1>2. ASSUME NEW a \in Accounts, FundsAction(a) PROVE UNCHANGED <<now, windowStart, declarationVars>>
  BY <1>2 DEF FundsAction, instanceVars
<1>3. ASSUME NEW a \in Accounts, CarryAction(a) PROVE UNCHANGED <<now, windowStart, declarationVars>>
  BY <1>3 DEF CarryAction, SetAppPointer, SetSuccessor
<1> QED  BY <1>1, <1>2, <1>3 DEF Next

LEMMA DormancyDeclareFor ==
  ASSUME DormancyInv, NEW a, NEW d, d.newLeafCount \in Nat, NEW g, NEW b, DeclareFor(a, d, g, b)
  PROVE  DormancyInv'
<1> USE PublicationAssumption
<1>1. /\ d.newLeafCount \in Nat /\ d.newLeafCount > leafCount
      /\ leafCount' = d.newLeafCount
      /\ UNCHANGED <<now, windowStart>>
      /\ windowChunks' = IF now >= windowStart THEN windowChunks + (d.newLeafCount - leafCount)
                         ELSE windowChunks
  BY DEF DeclareFor, MayDeclare
<1>2. CASE /\ activityCheckpointTime' = now
           /\ activityCheckpointLeafCount' = d.newLeafCount
  BY <1>1, <1>2 DEF DormancyInv, ClockTypes
<1>3. CASE ~CheckpointDue(d.newLeafCount) /\ UNCHANGED checkpointVars
  BY <1>1, <1>3 DEF DormancyInv, ClockTypes, CheckpointDue, checkpointVars
<1> QED  BY <1>2, <1>3 DEF DeclareFor

LEMMA DormancyFramed ==
  ASSUME DormancyInv, Tick \/ UNCHANGED <<now, windowStart, declarationVars>>
  PROVE  DormancyInv'
  BY DEF Tick, declarationVars, checkpointVars, DormancyInv, ClockTypes

LEMMA DormancyStep == DormancyInv /\ [Next]_vars => DormancyInv'
<1> SUFFICES ASSUME DormancyInv, [Next]_vars PROVE DormancyInv'
  OBVIOUS
<1>1. ASSUME NEW a \in Accounts, NEW g \in GasFees, NEW d \in Declaration, NEW b \in BlobFees,
             DeclareFor(a, d, g, b)
      PROVE  DormancyInv'
  BY <1>1, DormancyDeclareFor, PublicationAssumption DEF Declaration
<1>2. CASE UNCHANGED vars
  BY <1>2, DormancyFramed DEF vars
<1> QED  BY <1>1, <1>2, DeclarationFrame, DormancyFramed

LEMMA LogDeclareFor ==
  ASSUME LogInv, NEW a, NEW d, d.newLeafCount \in Nat, NEW g, NEW b, DeclareFor(a, d, g, b)
  PROVE  LogInv'
<1> DEFINE e == [nonce |-> d.nonce, newLeafCount |-> d.newLeafCount]
<1>1. /\ d.newLeafCount \in Nat /\ d.newLeafCount > leafCount
      /\ d.nonce \in Nat /\ d.nonce = declarationNonce
      /\ leafCount' = d.newLeafCount /\ declarationNonce' = d.nonce + 1
      /\ declaredLog' = Append(declaredLog, e)
  BY DEF DeclareFor, MayDeclare, LogInv
<1>2. e \in [nonce : Nat, newLeafCount : Nat]
  BY <1>1
<1>3. /\ declaredLog' \in Seq([nonce : Nat, newLeafCount : Nat])
      /\ Len(declaredLog') = Len(declaredLog) + 1
      /\ \A i \in 1..Len(declaredLog) : declaredLog'[i] = declaredLog[i]
      /\ declaredLog'[Len(declaredLog) + 1] = e
  BY <1>1, <1>2 DEF LogInv, LogTypes
<1>4. Len(declaredLog) \in Nat /\ DOMAIN declaredLog = 1..Len(declaredLog)
      /\ DOMAIN declaredLog' = 1..Len(declaredLog) + 1 /\ declaredLog' # <<>>
  BY <1>1, <1>3 DEF LogInv, LogTypes
<1>5. Len(declaredLog') = declarationNonce'
  BY <1>1, <1>3 DEF LogInv, LogSequential
<1>6. ASSUME NEW i \in DOMAIN declaredLog'
      PROVE  /\ declaredLog'[i].nonce = i - 1
             /\ declaredLog'[i].newLeafCount
                  > (IF i = 1 THEN 0 ELSE declaredLog'[i - 1].newLeafCount)
  <2>1. CASE i \in DOMAIN declaredLog
    <3>1. declaredLog'[i] = declaredLog[i] /\ i \in 1..Len(declaredLog)
      BY <1>3, <1>4, <2>1
    <3>2. /\ declaredLog[i].nonce = i - 1
          /\ declaredLog[i].newLeafCount
               > (IF i = 1 THEN 0 ELSE declaredLog[i - 1].newLeafCount)
      BY <2>1 DEF LogInv, LogSequential
    <3>3. CASE i = 1
      BY <3>1, <3>2, <3>3
    <3>4. CASE i # 1
      <4>1. i - 1 \in 1..Len(declaredLog)
        BY <1>4, <3>1, <3>4
      <4>2. declaredLog'[i - 1] = declaredLog[i - 1]
        BY <1>3, <4>1
      <4> QED  BY <3>1, <3>2, <3>4, <4>2
    <3> QED  BY <3>3, <3>4
  <2>2. CASE i = Len(declaredLog) + 1
    <3>1. declaredLog'[i] = e /\ e.nonce = declarationNonce /\ e.newLeafCount > leafCount
      BY <1>1, <1>3, <2>2
    <3>2. Len(declaredLog) = declarationNonce
      BY DEF LogInv, LogSequential
    <3>3. declaredLog'[i].nonce = i - 1
      BY <1>1, <1>4, <2>2, <3>1, <3>2
    <3>4. CASE declaredLog = <<>>
      <4>1. leafCount = 0
        BY <3>4 DEF LogInv, LogSequential
      <4>2. i = 1
        BY <2>2, <3>4
      <4> QED  BY <3>1, <3>3, <4>1, <4>2
    <3>5. CASE declaredLog # <<>>
      <4>1. Len(declaredLog) \in 1..Len(declaredLog) /\ i # 1
        BY <2>2, <3>5 DEF LogInv, LogTypes
      <4>2. declaredLog'[i - 1] = declaredLog[Len(declaredLog)]
        BY <1>3, <1>4, <2>2, <4>1
      <4>3. leafCount = declaredLog[Len(declaredLog)].newLeafCount
        BY <3>5 DEF LogInv, LogSequential
      <4> QED  BY <3>1, <3>3, <4>1, <4>2, <4>3
    <3> QED  BY <3>4, <3>5
  <2> QED  BY <1>4, <2>1, <2>2
<1>7. leafCount' = declaredLog'[Len(declaredLog')].newLeafCount
  BY <1>1, <1>3
<1>8. LogSequential'
  <2>1. leafCount' = IF declaredLog' = <<>> THEN 0
                     ELSE declaredLog'[Len(declaredLog')].newLeafCount
    BY <1>4, <1>7
  <2> QED  BY <1>5, <1>6, <2>1 DEF LogSequential
<1>9. leafCount' \in Nat /\ declarationNonce' \in Nat /\ LogTypes'
  BY <1>1, <1>3 DEF LogTypes
<1> QED  BY <1>8, <1>9 DEF LogInv

LEMMA LogFramed == LogInv /\ UNCHANGED declarationVars => LogInv'
  BY DEF declarationVars, LogInv, LogTypes, LogSequential

LEMMA LogStep == LogInv /\ [Next]_vars => LogInv'
<1> SUFFICES ASSUME LogInv, [Next]_vars PROVE LogInv'
  OBVIOUS
<1>1. ASSUME NEW a \in Accounts, NEW g \in GasFees, NEW d \in Declaration, NEW b \in BlobFees,
             DeclareFor(a, d, g, b)
      PROVE  LogInv'
  BY <1>1, LogDeclareFor, PublicationAssumption DEF Declaration
<1>2. CASE Tick \/ UNCHANGED vars
  BY <1>2, LogFramed DEF Tick, vars
<1> QED  BY <1>1, <1>2, DeclarationFrame, LogFramed

-----------------------------------------------------------------------------

LEMMA InvariantsHold == Spec => [](BucketInv /\ DormancyInv /\ LogInv)
<1>1. DormancyInv => leafCount \in Nat
  BY DEF DormancyInv
<1> QED
  BY <1>1, InitBucketInv, InitDormancyLog, BucketStep, DormancyStep, LogStep, PTL DEF Spec

\* The bucket's account of the window bounds what left it.
LEMMA BucketInvBounds == BucketInv => BucketBound
<1> SUFFICES ASSUME BucketInv, now >= windowStart
             PROVE  windowReimbursed * Day
                      <= BucketCapWei * Day + BucketRateWeiPerDay * (now - windowStart)
  BY DEF BucketBound
<1> USE PaymasterAssumption
<1>1. CASE lastBucketUpdate >= windowStart
  <2>1. BucketRateWeiPerDay * (lastBucketUpdate - windowStart)
          <= BucketRateWeiPerDay * (now - windowStart)
    BY <1>1, MulMono DEF BucketInv, ClockTypes
  <2>2. Day * windowReimbursed <= Day * (windowReimbursed + storedBucketLevel)
    BY MulMono DEF BucketInv
  <2>3. windowReimbursed * Day <= (windowReimbursed + storedBucketLevel) * Day
    BY <2>2 DEF BucketInv
  <2>4. (windowReimbursed + storedBucketLevel) * Day
          <= BucketCapWei * Day + BucketRateWeiPerDay * (lastBucketUpdate - windowStart)
    BY <1>1 DEF BucketInv
  <2> QED  BY <2>1, <2>3, <2>4 DEF BucketInv, ClockTypes
<1>2. CASE lastBucketUpdate < windowStart
  <2>1. windowReimbursed = 0
    BY <1>2 DEF BucketInv
  <2>2. BucketCapWei * Day \in Nat /\ BucketRateWeiPerDay * (now - windowStart) \in Nat
    BY MulNat DEF BucketInv, ClockTypes
  <2> QED  BY <2>1, <2>2
<1> QED  BY <1>1, <1>2 DEF BucketInv, ClockTypes

LEMMA DormancyInvHonest == DormancyInv => DormancyHonest
  BY PaymasterAssumption, PublicationAssumption DEF DormancyInv, ClockTypes, DormancyHonest

\* Over any window, the paymaster pays carriers at most the cap and what the rate accrued
\* (I17), for every cap, rate and sequence of requests.
THEOREM BucketBoundHolds == Spec => []BucketBound
  BY BucketInvBounds, InvariantsHold, PTL

\* While reclaim is open, fewer than dormancyMinChunks chunks were declared in the last
\* dormancy window.
THEOREM DormancyHonestHolds == Spec => []DormancyHonest
  BY DormancyInvHonest, InvariantsHold, PTL

\* The Declared events are a gapless run of nonces with growing leaf counts that ends in
\* the contract's state (I11, I13).
THEOREM LogSequentialHolds == Spec => []LogSequential
<1>1. LogInv => LogSequential
  BY DEF LogInv
<1> QED  BY <1>1, InvariantsHold, PTL

-----------------------------------------------------------------------------
(***************************************************************************)
(* The funds: what the paymaster holds, owes to donors and has parked.     *)
(***************************************************************************)

FundsTypes ==
  /\ pmBalance \in Nat /\ outstanding \in Nat /\ totalClaimable \in Nat
  /\ contributions \in [Accounts -> Nat]
  /\ claimable \in [Accounts -> Nat]

FundsInv == FundsTypes /\ Backed

LEMMA InitFundsInv == PaymasterInit => FundsInv
<1> SUFFICES ASSUME PaymasterInit PROVE FundsInv
  OBVIOUS
<1>1. SumFunction([a \in Accounts |-> 0]) = 0
  BY TotalOfZeros, PaymasterAssumption
<1> QED  BY <1>1 DEF PaymasterInit, FundsInv, FundsTypes, Backed

LEMMA AvailableNat == ASSUME FundsInv PROVE AvailableBalance \in Nat
  BY DEF FundsInv, FundsTypes, Backed, AvailableBalance

\* A payout the available balance covers takes exactly that much from it, pushed or
\* parked, and the parked ledger's total follows.
LEMMA PaidOut ==
  ASSUME FundsInv, NEW to, NEW amount \in Nat, amount <= AvailableBalance, Payout(to, amount)
  PROVE  /\ pmBalance' \in Nat /\ totalClaimable' \in Nat /\ claimable' \in [Accounts -> Nat]
         /\ totalClaimable' = SumFunction(claimable') /\ totalClaimable' <= pmBalance'
         /\ AvailableBalance' = AvailableBalance - amount
<1> USE DEF FundsInv, FundsTypes, Backed, AvailableBalance
<1>1. CASE pmBalance' = pmBalance - amount /\ UNCHANGED <<claimable, totalClaimable>>
  BY <1>1
<1>2. CASE /\ to \in Refusers /\ pmBalance' = pmBalance
           /\ claimable' = [claimable EXCEPT ![to] = @ + amount]
           /\ totalClaimable' = totalClaimable + amount
  <2> DEFINE v == claimable[to] + amount
  <2>1. to \in Accounts /\ IsFiniteSet(Accounts)
    BY <1>2, PaymasterAssumption
  <2>2. claimable[to] \in Nat /\ v \in Nat
    BY <2>1
  <2>3. claimable' = [claimable EXCEPT ![to] = v]
    BY <1>2
  <2>4. SumFunction([claimable EXCEPT ![to] = v]) = SumFunction(claimable) - claimable[to] + v
    <3> HIDE DEF v
    <3> QED  BY <2>1, <2>2, TotalOfUpdate
  <2>5. totalClaimable' = SumFunction(claimable')
    BY <1>2, <2>2, <2>3, <2>4
  <2> QED  BY <1>2, <2>1, <2>2, <2>5
<1> QED  BY <1>1, <1>2 DEF Payout

LEMMA FundsReimburse ==
  ASSUME FundsInv, NEW carrier, NEW amount \in Nat, Reimburse(carrier, amount)
  PROVE  FundsInv'
<1>1. UNCHANGED donationVars
  BY DEF Reimburse
<1>2. CASE UNCHANGED payoutVars
  BY <1>1, <1>2 DEF donationVars, payoutVars, FundsInv, FundsTypes, Backed
<1>3. CASE Covered(amount) /\ Payout(carrier, amount)
  <2>1. amount <= AvailableBalance
    BY <1>3 DEF Covered
  <2> QED  BY <1>1, <1>3, <2>1, PaidOut DEF donationVars, FundsInv, FundsTypes, Backed
<1> QED  BY <1>2, <1>3 DEF Reimburse

LEMMA FundsDonate ==
  ASSUME FundsInv, NEW a \in Accounts, NEW v \in Nat, Donate(a, v) PROVE FundsInv'
<1> DEFINE w == contributions[a] + v
<1>1. contributions \in [Accounts -> Nat] /\ contributions[a] \in Nat /\ w \in Nat
  BY DEF FundsInv, FundsTypes
<1>2. contributions' = [contributions EXCEPT ![a] = w]
  BY DEF Donate
<1>3. /\ SumFunction([contributions EXCEPT ![a] = w])
           = SumFunction(contributions) - contributions[a] + w
      /\ SumFunction(contributions) \in Nat
  <2> HIDE DEF w
  <2> QED  BY <1>1, PaymasterAssumption, TotalOfUpdate
<1>4. outstanding' = SumFunction(contributions')
  BY <1>1, <1>2, <1>3 DEF Donate, FundsInv, Backed
<1> QED  BY <1>1, <1>2, <1>4 DEF Donate, FundsInv, FundsTypes, Backed

LEMMA FundsAbsorb == ASSUME FundsInv, NEW v \in Nat, AbsorbSlash(v) PROVE FundsInv'
  BY DEF AbsorbSlash, donationVars, FundsInv, FundsTypes, Backed

LEMMA FundsClaim == ASSUME FundsInv, NEW a \in Accounts, Claim(a) PROVE FundsInv'
<1>1. claimable \in [Accounts -> Nat] /\ claimable[a] \in Nat
  BY DEF FundsInv, FundsTypes
<1>2. /\ SumFunction([claimable EXCEPT ![a] = 0]) = SumFunction(claimable) - claimable[a] + 0
      /\ claimable[a] <= SumFunction(claimable)
  <2>1. IsFiniteSet(Accounts) /\ 0 \in Nat
    BY PaymasterAssumption
  <2> QED  BY <1>1, <2>1, TotalOfUpdate
<1>3. totalClaimable' = SumFunction(claimable') /\ claimable[a] <= totalClaimable
  BY <1>1, <1>2 DEF Claim, FundsInv, FundsTypes, Backed
<1> QED  BY <1>1, <1>3 DEF Claim, donationVars, FundsInv, FundsTypes, Backed

\* A factor divides out of an inequality.
LEMMA MulCancel ==
  ASSUME NEW a \in Int, NEW b \in Int, NEW d \in Nat \ {0}, a * d <= b * d
  PROVE  a <= b
<1> SUFFICES ASSUME a > b PROVE FALSE
  OBVIOUS
<1>1. a - b \in Nat /\ a - b >= 1
  OBVIOUS
<1>2. (a - b) * d >= d
  BY <1>1, MulMono
<1>3. (a - b) * d = a * d - b * d
  OBVIOUS
<1> QED  BY <1>2, <1>3

\* What is below the exact quotient is below its floor.
LEMMA FloorAbove ==
  ASSUME NEW x \in Nat, NEW d \in Nat \ {0}, NEW q \in Nat, q * d <= x
  PROVE  q <= x \div d
<1>1. x \div d \in Nat /\ x < (x \div d + 1) * d
  OBVIOUS
<1> DEFINE r == x \div d
<1> HIDE DEF r
<1>2. r \in Nat /\ x < (r + 1) * d
  BY <1>1 DEF r
<1>3. SUFFICES ASSUME q >= r + 1 PROVE FALSE
  BY <1>2 DEF r
<1>4. d * (r + 1) <= d * q
  BY <1>2, <1>3, MulMono
<1>5. (r + 1) * d <= q * d
  BY <1>2, <1>4
<1> QED  BY <1>2, <1>5

\* A share of what is available is no more than that, and the share of the only donor is
\* all of it.
LEMMA ShareBound ==
  ASSUME NEW A \in Nat, NEW O \in Nat \ {0}, NEW c \in Nat, c <= O
  PROVE  /\ (A * c) \div O \in Nat /\ (A * c) \div O <= A
         /\ ((A * c) \div O) * O <= A * c
         /\ c = O => (A * c) \div O = A
<1> DEFINE s == (A * c) \div O
<1>1. A * c \in Nat /\ A * c <= A * O
  BY MulNat, MulMono
<1>2. s \in Nat /\ s * O <= A * c
  BY <1>1, FloorBound
<1> HIDE DEF s
<1>3. s * O <= A * O
  BY <1>1, <1>2
<1>4. s <= A
  BY <1>2, <1>3, MulCancel
<1>5. c = O => A <= s
  <2> SUFFICES ASSUME c = O PROVE A <= (A * O) \div O
    BY DEF s
  <2>1. A * O \in Nat /\ A * O <= A * O
    BY MulNat
  <2> QED  BY <2>1, FloorAbove
<1> QED  BY <1>2, <1>4, <1>5 DEF s

\* After a reclaim of the share of c, the share of d of what remains is no less.
LEMMA LateShare ==
  ASSUME NEW A \in Nat, NEW O \in Nat \ {0}, NEW c \in Nat, NEW d \in Nat \ {0}, c + d <= O,
         NEW s \in Nat, s * O <= A * c, s <= A
  PROVE  ((A - s) * d) \div (O - c) >= (A * d) \div O
<1> DEFINE q == (A * d) \div O
           X == (A - s) * d
           R == O - c
<1>1. R \in Nat \ {0} /\ A - s \in Nat /\ X \in Nat /\ A * d \in Nat
  <2>1. R \in Nat \ {0} /\ A - s \in Nat
    OBVIOUS
  <2> HIDE DEF R
  <2> QED  BY <2>1, MulNat
<1>2. q \in Nat /\ q * O <= A * d
  BY <1>1, FloorBound
<1> HIDE DEF q
<1>3. R * (q * O) <= R * (A * d)
  <2> HIDE DEF R
  <2>1. q * O \in Int /\ A * d \in Int
    BY <1>1, <1>2
  <2> QED  BY <1>1, <1>2, <2>1, MulMono
<1>4. d * (s * O) <= d * (A * c)
  <2>1. s * O \in Int /\ A * c \in Int
    OBVIOUS
  <2> QED  BY <2>1, MulMono
<1>5. R * (A * d) = d * (A * O) - d * (A * c)
  OBVIOUS
<1>6. X * O = d * (A * O) - d * (s * O)
  OBVIOUS
<1>7. (q * R) * O = R * (q * O)
  <2> HIDE DEF R
  <2> QED  BY <1>1, <1>2
<1>8. (q * R) * O <= X * O
  <2> DEFINE u == d * (A * O)
             v == d * (A * c)
             w == d * (s * O)
             y == R * (q * O)
  <2>1. u \in Int /\ v \in Int /\ w \in Int /\ y \in Int
    <3> HIDE DEF R
    <3> QED  BY <1>1, <1>2
  <2>2. y <= u - v /\ w <= v /\ X * O = u - w /\ (q * R) * O = y
    BY <1>3, <1>4, <1>5, <1>6, <1>7
  <2> HIDE DEF u, v, w, y, X, R
  <2> QED  BY <2>1, <2>2
<1>9. q * R \in Nat /\ q * R <= X
  <2> HIDE DEF X, R
  <2>1. q * R \in Nat
    BY <1>1, <1>2
  <2> QED  BY <1>1, <1>8, <2>1, MulCancel
<1>10. q <= X \div R
  <2> HIDE DEF X, R
  <2> QED  BY <1>1, <1>2, <1>9, FloorAbove
<1> QED  BY <1>10 DEF q

\* reclaim() takes one donor's share and leaves the others' no smaller.
LEMMA FundsReclaim ==
  ASSUME FundsInv, NEW a \in Accounts, NEW t, Reclaim(a, t) PROVE FundsInv' /\ Telescopes
<1> DEFINE A == AvailableBalance
           O == outstanding
           c == contributions[a]
           s == ShareOf(a)
<1>1. /\ contributions \in [Accounts -> Nat] /\ c \in Nat \ {0} /\ O \in Nat /\ A \in Nat
      /\ O = SumFunction(contributions)
  BY AvailableNat DEF Reclaim, FundsInv, FundsTypes, Backed
<1>2. /\ outstanding' = O - c /\ contributions' = [contributions EXCEPT ![a] = 0]
      /\ Payout(a, s)
  BY DEF Reclaim
<1>3. /\ SumFunction([contributions EXCEPT ![a] = 0]) = SumFunction(contributions) - c + 0
      /\ c <= SumFunction(contributions)
  <2>1. IsFiniteSet(Accounts) /\ 0 \in Nat
    BY PaymasterAssumption
  <2> QED  BY <1>1, <2>1, TotalOfUpdate
<1>4. c <= O /\ O \in Nat \ {0} /\ outstanding' \in Nat /\ outstanding' = SumFunction(contributions')
  BY <1>1, <1>2, <1>3
<1>5. /\ s \in Nat /\ s <= A /\ s * O <= A * c
      /\ c = O => s = A
  <2>1. s = (A * c) \div O
    BY DEF ShareOf
  <2> HIDE DEF A, O, c, s
  <2> QED  BY <1>1, <1>4, <2>1, ShareBound
<1>6. /\ pmBalance' \in Nat /\ totalClaimable' \in Nat /\ claimable' \in [Accounts -> Nat]
      /\ totalClaimable' = SumFunction(claimable') /\ totalClaimable' <= pmBalance'
      /\ AvailableBalance' = A - s
  BY <1>2, <1>5, PaidOut
<1>7. FundsInv'
  BY <1>1, <1>2, <1>4, <1>6 DEF FundsInv, FundsTypes, Backed
<1>8. ASSUME NEW b \in Accounts, contributions'[b] # 0
      PROVE  (AvailableBalance' * contributions'[b]) \div outstanding'
               >= (AvailableBalance * contributions[b]) \div outstanding
  <2> DEFINE d == contributions[b]
  <2>1. b # a /\ contributions'[b] = d /\ d \in Nat \ {0}
    BY <1>1, <1>2, <1>8
  <2>2. c + d <= O
    BY <1>1, <2>1, PaymasterAssumption, TotalOfTwo
  <2>3. ((A - s) * d) \div (O - c) >= (A * d) \div O
    <3> HIDE DEF A, O, c, s, d
    <3> QED  BY <1>1, <1>4, <1>5, <2>1, <2>2, LateShare
  <2> QED  BY <1>2, <1>6, <2>1, <2>3
<1>9. outstanding' = 0 => AvailableBalance' = 0
  <2> SUFFICES ASSUME outstanding' = 0 PROVE AvailableBalance' = 0
    OBVIOUS
  <2>1. O - c = 0 /\ c \in Nat /\ O \in Nat /\ A \in Nat
    BY <1>1, <1>2
  <2> HIDE DEF A, O, c, s
  <2>2. c = O
    BY <2>1
  <2> QED  BY <1>5, <1>6, <2>1, <2>2
<1> QED  BY <1>7, <1>8, <1>9 DEF Telescopes

\* What the instance asks for, and how it ends.
LEMMA FundsRequest ==
  ASSUME FundsInv, NEW carrier, NEW amount \in Nat, RequestReimbursement(carrier, amount)
  PROVE  FundsInv' /\ outstanding' = outstanding
<1>1. CASE Reimburse(carrier, amount)
  BY <1>1, FundsReimburse DEF Reimburse, donationVars
<1>2. CASE UNCHANGED paymasterVars
  BY <1>2 DEF paymasterVars, donationVars, payoutVars, FundsInv, FundsTypes, Backed
<1> QED  BY <1>1, <1>2 DEF RequestReimbursement

LEMMA FundsDeclareFor ==
  ASSUME FundsInv, leafCount \in Nat, NEW a, NEW d, d.newLeafCount \in Nat, NEW g \in Nat,
         NEW b \in Nat, DeclareFor(a, d, g, b)
  PROVE  FundsInv' /\ outstanding' = outstanding
<1>1. ReimbursementAmount(BlobCount(d.newLeafCount - leafCount), ProvingSubsidyWei, g, b) \in Nat
  BY DeclarationAmountNat
<1> QED  BY <1>1, FundsRequest DEF DeclareFor

LEMMA FundsPointers ==
  ASSUME FundsInv, NEW a, NEW n, NEW t, NEW q, NEW g \in Nat,
         SetAppPointer(a, n, t, q, g) \/ SetSuccessor(a, n, t, q, g)
  PROVE  FundsInv' /\ outstanding' = outstanding
<1>1. ReimbursementAmount(0, 0, g, 0) \in Nat
  BY AmountNat
<1> QED  BY <1>1, FundsRequest DEF SetAppPointer, SetSuccessor

\* The other transactions of the paymaster, and the slash remainders.
LEMMA FundsOther ==
  ASSUME FundsInv,
         SlashRemainder \/ \E a \in Accounts : FundsAction(a)
  PROVE  FundsInv' /\ Telescopes
<1>1. CASE SlashRemainder
  <2>1. PICK v \in SlashValues : AbsorbSlash(v)
    BY <1>1 DEF SlashRemainder
  <2>2. FundsInv'
    BY <2>1, FundsAbsorb, PublicationAssumption
  <2> QED  BY <2>1, <2>2 DEF AbsorbSlash, donationVars, Telescopes, FundsInv, FundsTypes
<1>2. ASSUME NEW a \in Accounts, NEW v \in DonationValues, Donate(a, v)
      PROVE  FundsInv' /\ Telescopes
  <2>1. FundsInv' /\ outstanding' = outstanding + v /\ v \in Nat /\ outstanding \in Nat
    BY <1>2, FundsDonate, PublicationAssumption DEF Donate, FundsInv, FundsTypes
  <2> QED  BY <2>1 DEF Telescopes
<1>3. ASSUME NEW a \in Accounts, Reclaim(a, activityCheckpointTime)
      PROVE  FundsInv' /\ Telescopes
  BY <1>3, FundsReclaim
<1>4. ASSUME NEW a \in Accounts, Claim(a) PROVE FundsInv' /\ Telescopes
  <2>1. FundsInv' /\ outstanding' = outstanding /\ outstanding \in Nat
    BY <1>4, FundsClaim DEF Claim, donationVars, FundsInv, FundsTypes
  <2> QED  BY <2>1 DEF Telescopes
<1> QED  BY <1>1, <1>2, <1>3, <1>4 DEF FundsAction

LEMMA FundsStep ==
  ASSUME FundsInv, leafCount \in Nat, [Next]_vars
  PROVE  FundsInv' /\ Telescopes
<1>1. ASSUME FundsInv', outstanding' = outstanding PROVE FundsInv' /\ Telescopes
  BY <1>1 DEF Telescopes, FundsInv, FundsTypes
<1>2. CASE Tick \/ UNCHANGED vars
  BY <1>1, <1>2 DEF Tick, vars, paymasterVars, payoutVars, donationVars, FundsInv, FundsTypes, Backed
<1>3. CASE SlashRemainder \/ \E a \in Accounts : FundsAction(a)
  BY <1>3, FundsOther
<1>4. ASSUME NEW a \in Accounts, NEW g \in GasFees, NEW d \in Declaration, NEW b \in BlobFees,
             DeclareFor(a, d, g, b)
      PROVE  FundsInv' /\ Telescopes
  <2>1. d.newLeafCount \in Nat /\ g \in Nat /\ b \in Nat
    BY PublicationAssumption DEF Declaration
  <2> QED  BY <1>1, <1>4, <2>1, FundsDeclareFor
<1>5. ASSUME NEW a \in Accounts, NEW g \in GasFees, NEW n, NEW t, NEW q,
             SetAppPointer(a, n, t, q, g) \/ SetSuccessor(a, n, t, q, g)
      PROVE  FundsInv' /\ Telescopes
  <2>1. g \in Nat
    BY PublicationAssumption
  <2> QED  BY <1>1, <1>5, <2>1, FundsPointers
<1> QED  BY <1>2, <1>3, <1>4, <1>5 DEF Next, CarryAction

LEMMA FundsInvHolds == Spec => []FundsInv /\ [][Telescopes]_vars
<1>1. DormancyInv => leafCount \in Nat
  BY DEF DormancyInv
<1>2. Init => FundsInv
  BY InitFundsInv DEF Init
<1>3. DormancyInv /\ FundsInv /\ [Next]_vars => FundsInv' /\ [Telescopes]_vars
  BY <1>1, FundsStep
<1>4. Spec => []DormancyInv
  BY InvariantsHold, PTL
<1> QED  BY <1>2, <1>3, <1>4, PTL DEF Spec

\* The ledgers add up and parked payouts are always covered, so availableBalance never
\* underflows (I18, I20), for any set of accounts and any amounts.
THEOREM BackedHolds == Spec => []Backed
<1>1. FundsInv => Backed
  BY DEF FundsInv
<1> QED  BY <1>1, FundsInvHolds, PTL

\* A reclaim never lowers what another donor would get, and the last one sweeps the whole
\* available balance (I18), whatever the donations and however the division rounds.
THEOREM ReclaimTelescopesHolds == Spec => ReclaimTelescopes
  BY FundsInvHolds, PTL DEF ReclaimTelescopes

=============================================================================
