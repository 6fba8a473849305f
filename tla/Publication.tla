----------------------------- MODULE Publication -----------------------------
(***************************************************************************)
(* The publication side of contracts/src/BlobsitterInstance.sol            *)
(* (declareFor, setAppPointer, setSuccessor) with the paymaster it asks    *)
(* for reimbursement.  A carrier's transaction is one action: the checks,  *)
(* the effects and, last, the gas-capped call to the paymaster, whose      *)
(* failure is swallowed.                                                   *)
(*                                                                         *)
(* A declaration the checks accept is its signed fields.  The signature,   *)
(* the blobs, the openings and the equivalence proof are sound checks of   *)
(* code outside the instance: an input that fails one reverts and changes  *)
(* nothing.                                                                *)
(***************************************************************************)
EXTENDS Paymaster, Sequences

CONSTANTS
  NoAccount,           \* address(0)
  NoPointer,           \* bytes32(0)
  Pointers,
  DormancyMinChunks,
  ChunksPerBlob,       \* 4096
  CarrierTipWei,
  ProvingSubsidyWei,
  GasFees,             \* values of the bracketed gas at block.basefee
  BlobFees             \* values of one blob's gas at block.blobbasefee

\* Bounds of the model.
CONSTANTS
  Deadlines,           \* deadlines a publisher signs
  DonationValues,      \* amounts a donor sends
  SlashValues,         \* remainders a slash sends
  MaxBalance,          \* no donation or remainder when the balance has reached it
  MaxLeafCount,        \* chunks ever published
  MaxPointerNonce,     \* app pointer updates
  MaxTime              \* last time of the clock

ASSUME PublicationAssumption ==
  /\ NoAccount \notin Accounts
  /\ NoPointer \notin Pointers
  /\ DormancyMinChunks \in Nat
  /\ ChunksPerBlob \in Nat \ {0}
  /\ CarrierTipWei \in Nat /\ ProvingSubsidyWei \in Nat
  /\ GasFees \subseteq Nat /\ BlobFees \subseteq Nat
  /\ Deadlines \subseteq Nat /\ DonationValues \subseteq Nat /\ SlashValues \subseteq Nat
  /\ MaxBalance \in Nat /\ MaxLeafCount \in Nat /\ MaxPointerNonce \in Nat /\ MaxTime \in Nat

VARIABLES
  leafCount, declarationNonce, appPointerNonce, successorNonce, appPointer, successor,
  activityCheckpointTime, activityCheckpointLeafCount,
  declaredLog,         \* the Declared events
  \* History of an arbitrary window that starts at windowStart and is still open:
  windowStart,
  windowReimbursed,    \* what the paymaster has paid or parked for carriers in it
  windowChunks         \* the chunks declared in it

checkpointVars == <<activityCheckpointTime, activityCheckpointLeafCount>>
declarationVars == <<leafCount, declarationNonce, checkpointVars, declaredLog, windowChunks>>
pointerVars == <<appPointerNonce, successorNonce, appPointer, successor>>
vars == <<now, paymasterVars, declarationVars, pointerVars, windowStart, windowReimbursed>>

\* The signed fields of a declaration that its checks and its effects use.
Declaration ==
  [nonce : 0..MaxLeafCount, deadline : Deadlines, newLeafCount : 1..MaxLeafCount,
   designatedCarrier : Accounts \cup {NoAccount}, appPointer : Pointers \cup {NoPointer}]

BlobCount(m) == (m + ChunksPerBlob - 1) \div ChunksPerBlob

ReimbursementAmount(numBlobs, subsidy, gasFee, blobFee) ==
  numBlobs * blobFee + gasFee + CarrierTipWei + subsidy

\* _reimburse: a call to the paymaster whose failure, out of gas, is ignored.
RequestReimbursement(carrier, amount) ==
  \/ /\ Reimburse(carrier, amount)
     /\ windowReimbursed' = IF Covered(amount) /\ now >= windowStart
                            THEN windowReimbursed + amount ELSE windowReimbursed
  \/ UNCHANGED <<paymasterVars, windowReimbursed>>

\* Enough chunks since the last checkpoint, over any number of declarations.
CheckpointDueAlone(newLeafCount) == newLeafCount - leafCount >= DormancyMinChunks   \* mutant
CheckpointDue(newLeafCount) == newLeafCount - activityCheckpointLeafCount >= DormancyMinChunks

AnyNonce(d) == d.newLeafCount > leafCount   \* mutant
MayDeclare(d) ==
  /\ d.nonce = declarationNonce
  /\ d.newLeafCount > leafCount

DeclareFor(sender, d, gasFee, blobFee) ==
  LET m == d.newLeafCount - leafCount IN
  /\ now <= d.deadline
  /\ d.designatedCarrier \in {NoAccount, sender}
  /\ MayDeclare(d)
  /\ leafCount' = d.newLeafCount
  /\ declarationNonce' = d.nonce + 1
  /\ appPointer' = IF d.appPointer # NoPointer THEN d.appPointer ELSE appPointer
  /\ \/ /\ CheckpointDue(d.newLeafCount)
        /\ activityCheckpointTime' = now
        /\ activityCheckpointLeafCount' = d.newLeafCount
     \/ /\ ~CheckpointDue(d.newLeafCount)
        /\ UNCHANGED checkpointVars
  /\ declaredLog' = Append(declaredLog, [nonce |-> d.nonce, newLeafCount |-> d.newLeafCount])
  /\ windowChunks' = IF now >= windowStart THEN windowChunks + m ELSE windowChunks
  /\ RequestReimbursement(sender,
       ReimbursementAmount(BlobCount(m), ProvingSubsidyWei, gasFee, blobFee))
  /\ UNCHANGED <<now, appPointerNonce, successorNonce, successor, windowStart>>

SetAppPointer(sender, nonce, deadline, pointer, gasFee) ==
  /\ now <= deadline
  /\ nonce = appPointerNonce
  /\ appPointerNonce' = nonce + 1
  /\ appPointer' = pointer
  /\ RequestReimbursement(sender, ReimbursementAmount(0, 0, gasFee, 0))
  /\ UNCHANGED <<now, declarationVars, successorNonce, successor, windowStart>>

\* Write-once, and never address(0).
SetSuccessor(sender, nonce, deadline, target, gasFee) ==
  /\ now <= deadline
  /\ nonce = successorNonce
  /\ successor = NoAccount
  /\ target # NoAccount
  /\ successorNonce' = nonce + 1
  /\ successor' = target
  /\ RequestReimbursement(sender, ReimbursementAmount(0, 0, gasFee, 0))
  /\ UNCHANGED <<now, declarationVars, appPointerNonce, appPointer, windowStart>>

Tick ==
  /\ now < MaxTime
  /\ now' = now + 1
  /\ UNCHANGED <<paymasterVars, declarationVars, pointerVars, windowStart, windowReimbursed>>

instanceVars == <<now, declarationVars, pointerVars, windowStart, windowReimbursed>>

FundsAction(a) ==
  \/ /\ pmBalance < MaxBalance
     /\ \E v \in DonationValues : Donate(a, v)
     /\ UNCHANGED instanceVars
  \/ Reclaim(a, activityCheckpointTime) /\ UNCHANGED instanceVars
  \/ Claim(a) /\ UNCHANGED instanceVars

\* A slash executes in the instance.
SlashRemainder ==
  /\ pmBalance < MaxBalance
  /\ \E v \in SlashValues : AbsorbSlash(v)
  /\ UNCHANGED instanceVars

CarryAction(sender) ==
  \E gasFee \in GasFees :
    \/ \E d \in Declaration, blobFee \in BlobFees : DeclareFor(sender, d, gasFee, blobFee)
    \/ \E nonce \in 0..MaxPointerNonce - 1, deadline \in Deadlines,
          pointer \in Pointers \cup {NoPointer} :
         SetAppPointer(sender, nonce, deadline, pointer, gasFee)
    \/ \E nonce \in {0, 1}, deadline \in Deadlines, target \in Accounts \cup {NoAccount} :
         SetSuccessor(sender, nonce, deadline, target, gasFee)

Init ==
  /\ now = 1
  /\ PaymasterInit
  /\ leafCount = 0 /\ declarationNonce = 0 /\ appPointerNonce = 0 /\ successorNonce = 0
  /\ appPointer = NoPointer
  /\ successor = NoAccount
  /\ activityCheckpointTime = now
  /\ activityCheckpointLeafCount = 0
  /\ declaredLog = <<>>
  /\ windowStart \in 1..MaxTime
  /\ windowReimbursed = 0
  /\ windowChunks = 0

Next ==
  \/ Tick
  \/ SlashRemainder
  \/ \E a \in Accounts : FundsAction(a) \/ CarryAction(a)

Spec == Init /\ [][Next]_vars

-----------------------------------------------------------------------------
(***************************************************************************)
(* Properties.                                                             *)
(***************************************************************************)

\* The ledger sums hold and parked payouts are always covered by the balance, so that
\* availableBalance never underflows: a view that reverts would end reimbursements and
\* reclaims for good, silently (I18, I20).
Backed ==
  /\ outstanding = SumFunction(contributions)
  /\ totalClaimable = SumFunction(claimable)
  /\ totalClaimable <= pmBalance

\* The bucket bounds the drain: over any window, whatever is asked and in whatever
\* rhythm, the paymaster pays carriers at most the cap and what the rate accrued (I17).
BucketBound ==
  now >= windowStart =>
    windowReimbursed * Day <= BucketCapWei * Day + BucketRateWeiPerDay * (now - windowStart)

\* Donors can pull out only after real inactivity: while reclaim is open, fewer than
\* dormancyMinChunks chunks were declared in the last dormancy window, in however many
\* declarations.
DormancyHonest ==
  (now > activityCheckpointTime + DormancyWindow /\ now - windowStart <= DormancyWindow) =>
    windowChunks = 0 \/ windowChunks < DormancyMinChunks

\* No donor is hurt by being late: a reclaim never lowers what another donor would get,
\* and the last one sweeps the whole unencumbered balance, slash remainders included
\* (I18, the telescoping rule).
Telescopes ==
  outstanding' < outstanding =>
    /\ \A a \in Accounts : contributions'[a] # 0 =>
         (AvailableBalance' * contributions'[a]) \div outstanding'
           >= (AvailableBalance * contributions[a]) \div outstanding
    /\ outstanding' = 0 => AvailableBalance' = 0
ReclaimTelescopes == [][Telescopes]_vars

\* The Declared events, from which every daemon rebuilds the dataset, are a gapless run
\* of nonces with growing leaf counts that ends in the contract's state: no signed
\* declaration applies twice or out of order (I11, I13).
LogSequential ==
  /\ Len(declaredLog) = declarationNonce
  /\ \A i \in DOMAIN declaredLog :
       /\ declaredLog[i].nonce = i - 1
       /\ declaredLog[i].newLeafCount
            > (IF i = 1 THEN 0 ELSE declaredLog[i - 1].newLeafCount)
  /\ leafCount = IF declaredLog = <<>> THEN 0
                 ELSE declaredLog[Len(declaredLog)].newLeafCount

=============================================================================
