------------------------------ MODULE Paymaster ------------------------------
(***************************************************************************)
(* The funding sidecar, contracts/src/BlobsitterPaymaster.sol: donations   *)
(* and their ledger, reimbursements throttled by a token bucket, absorbed  *)
(* slash remainders, the dormancy reclaim, and the payouts it inherits     *)
(* from PayoutSink.sol.                                                    *)
(*                                                                         *)
(* This module has the paymaster's state and its operations; Publication   *)
(* composes them with the instance that calls them.                        *)
(***************************************************************************)
EXTENDS Integers, FiniteSets, Functions

CONSTANTS
  Accounts,
  Refusers,            \* the accounts whose ETH push may fail
  BucketRateWeiPerDay,
  BucketCapWei,
  DormancyWindow,
  Day                  \* 1 days, in seconds

ASSUME PaymasterAssumption ==
  /\ IsFiniteSet(Accounts)
  /\ Refusers \subseteq Accounts
  /\ BucketRateWeiPerDay \in Nat
  /\ BucketCapWei \in Nat
  /\ DormancyWindow \in Nat
  /\ Day \in Nat \ {0}

VARIABLES
  now,                 \* block.timestamp
  pmBalance,           \* ETH held by the paymaster
  contributions,       \* the donation ledger
  outstanding,
  storedBucketLevel,
  lastBucketUpdate,
  claimable,           \* payouts parked by a failed push
  totalClaimable

bucketVars == <<storedBucketLevel, lastBucketUpdate>>
donationVars == <<contributions, outstanding>>
payoutVars == <<pmBalance, claimable, totalClaimable>>
paymasterVars == <<payoutVars, donationVars, bucketVars>>

PaymasterInit ==
  /\ pmBalance = 0
  /\ contributions = [a \in Accounts |-> 0]
  /\ outstanding = 0
  /\ storedBucketLevel = BucketCapWei
  /\ lastBucketUpdate = now
  /\ claimable = [a \in Accounts |-> 0]
  /\ totalClaimable = 0

\* bucketLevel(): the refill since the last draw, rounded down and clamped to the cap.
BucketLevel ==
  LET refilled == storedBucketLevel + (BucketRateWeiPerDay * (now - lastBucketUpdate)) \div Day
  IN  IF refilled > BucketCapWei THEN BucketCapWei ELSE refilled

\* availableBalance(): ETH not already spoken for by parked payouts.
WholeBalance == pmBalance   \* mutant
AvailableBalance == pmBalance - totalClaimable

\* _payout: the push succeeds, or the amount is parked.
Payout(to, amount) ==
  \/ /\ pmBalance' = pmBalance - amount
     /\ UNCHANGED <<claimable, totalClaimable>>
  \/ /\ to \in Refusers
     /\ claimable' = [claimable EXCEPT ![to] = @ + amount]
     /\ totalClaimable' = totalClaimable + amount
     /\ UNCHANGED pmBalance

\* claim(): a failing transfer reverts.
Claim(a) ==
  /\ claimable[a] # 0
  /\ claimable' = [claimable EXCEPT ![a] = 0]
  /\ totalClaimable' = totalClaimable - claimable[a]
  /\ pmBalance' = pmBalance - claimable[a]
  /\ UNCHANGED <<donationVars, bucketVars>>

\* donate() and plain transfers.
Donate(a, amount) ==
  /\ contributions' = [contributions EXCEPT ![a] = @ + amount]
  /\ outstanding' = outstanding + amount
  /\ pmBalance' = pmBalance + amount
  /\ UNCHANGED <<bucketVars, claimable, totalClaimable>>

\* absorbSlash(): the balance grows, the ledger does not.
AbsorbSlash(amount) ==
  /\ pmBalance' = pmBalance + amount
  /\ UNCHANGED <<donationVars, bucketVars, claimable, totalClaimable>>

\* reimburse(): all or nothing.  The bucket is brought up to date either way.
Covered(amount) == amount <= BucketLevel /\ amount <= AvailableBalance

ReimburseUndrawn(carrier, amount) ==   \* mutant
  /\ lastBucketUpdate' = now
  /\ storedBucketLevel' = BucketLevel
  /\ \/ ~Covered(amount) /\ UNCHANGED payoutVars
     \/ Covered(amount) /\ Payout(carrier, amount)
  /\ UNCHANGED donationVars
Reimburse(carrier, amount) ==
  /\ lastBucketUpdate' = now
  /\ \/ /\ ~Covered(amount)
        /\ storedBucketLevel' = BucketLevel
        /\ UNCHANGED payoutVars
     \/ /\ Covered(amount)
        /\ storedBucketLevel' = BucketLevel - amount
        /\ Payout(carrier, amount)
  /\ UNCHANGED donationVars

\* What a donor gets: its share of the balance remaining at its call.
ShareOfDonations(a) == contributions[a]   \* mutant
ShareOf(a) == (AvailableBalance * contributions[a]) \div outstanding

\* reclaim(), checkpointTime read from the instance.
Reclaim(a, checkpointTime) ==
  /\ now > checkpointTime + DormancyWindow
  /\ contributions[a] # 0
  /\ outstanding' = outstanding - contributions[a]
  /\ contributions' = [contributions EXCEPT ![a] = 0]
  /\ Payout(a, ShareOf(a))
  /\ UNCHANGED bucketVars

=============================================================================
