------------------------------- MODULE Carriage -------------------------------
(***************************************************************************)
(* Carriage: a publisher signs intent packages and never holds ETH; a      *)
(* carrier checks a package against the chain, asks whether the paymaster  *)
(* could reimburse it, and fronts the gas of the transaction (intents/src, *)
(* carrier/src).  Composed with the instance and the paymaster, which      *)
(* judge the transaction when it is included, at the fees of that block.   *)
(*                                                                         *)
(* A package is its signed fields, the key that signed it, the declaration *)
(* its openings were made for, and its defect: "bytes" if its blobs are    *)
(* not what was signed or not chunks, "shape" if they do not fit the       *)
(* update, "proof" if the verifier rejects the equivalence proof.          *)
(***************************************************************************)
EXTENDS Publication

CONSTANTS
  Carriers,            \* the accounts that run the carrier program
  Packages,
  SlotSeconds,         \* 12
  MeasuredGas,         \* of any carried call, between the instance's two readings
  IntrinsicGas,        \* 21000 + 16 * calldata + TAIL
  MinBlobFeeCap        \* 1 gwei

\* Bounds of the model.
CONSTANTS
  Fees,                \* [base, blob], of a block; a blob is one unit of blob gas
  MaxKey,              \* last key of the publisher's wallet
  MaxRuns              \* runs of the carrier program that pass its preflight

Defects == {"none", "bytes", "shape", "proof"}
IntentPackage ==
  [kind : {"declaration"}, nonce : Nat, deadline : Nat, newLeafCount : Nat,
   designatedCarrier : Accounts \cup {NoAccount}, appPointer : Pointers \cup {NoPointer},
   openedAt : Nat, key : Nat, defect : Defects]
  \cup [kind : {"pointer"}, nonce : Nat, deadline : Nat, appPointer : Pointers \cup {NoPointer},
        key : Nat, defect : {"none"}]
  \cup [kind : {"successor"}, nonce : Nat, deadline : Nat, target : Accounts \cup {NoAccount},
        key : Nat, defect : {"none"}]

ASSUME CarriageAssumption ==
  /\ Carriers \subseteq Accounts
  /\ Packages \subseteq IntentPackage
  /\ SlotSeconds \in Nat /\ MeasuredGas \in Nat /\ IntrinsicGas \in Nat /\ MinBlobFeeCap \in Nat
  /\ \A f \in Fees : f.base \in Nat /\ f.blob \in Nat
  /\ MaxKey \in Nat /\ MaxRuns \in Nat

VARIABLES
  fees,                \* the base fee and the blob base fee of the latest block
  walletKey,           \* the key whose signatures the publisher's wallet accepts
  carriage,            \* each carrier's run of the program
  mempool,             \* transactions sent and not yet included
  runs                 \* of the carrier program so far

chainVars == <<fees, walletKey>>
carriageVars == <<carriage, mempool, runs>>
allVars == <<vars, chainVars, carriageVars>>

NoCarriage == [step |-> "none"]

(***************************************************************************)
(* What the instance checks and asks for.                                  *)
(***************************************************************************)

NonceOf(kind) ==
  CASE kind = "declaration" -> declarationNonce
    [] kind = "pointer" -> appPointerNonce
    [] kind = "successor" -> successorNonce

Blobs(p) == IF p.kind = "declaration" THEN BlobCount(p.newLeafCount - leafCount) ELSE 0
Subsidy(p) == IF p.kind = "declaration" THEN ProvingSubsidyWei ELSE 0
GasFee == (MeasuredGas + IntrinsicGas) * fees.base
Requested(p) == ReimbursementAmount(Blobs(p), Subsidy(p), GasFee, fees.blob)

\* The openings are made for the peaks of one declaration: the Fiat-Shamir point is a hash
\* of them.
OpeningsHold(p) == p.openedAt = declarationNonce
DeclarationHolds(sender, p) ==
  /\ p.designatedCarrier \in {NoAccount, sender}
  /\ p.newLeafCount > leafCount
  /\ OpeningsHold(p)

\* The signature is over a digest of every signed field.
SignatureAccepted(p) == p.key = walletKey

\* declareFor, setAppPointer and setSuccessor do not revert.
Accepts(sender, p) ==
  /\ now <= p.deadline
  /\ p.nonce = NonceOf(p.kind)
  /\ SignatureAccepted(p)
  /\ p.defect = "none"
  /\ p.kind = "declaration" => DeclarationHolds(sender, p)
  /\ p.kind = "successor" => successor = NoAccount /\ p.target # NoAccount

Execute(sender, p) ==
  /\ Accepts(sender, p)
  /\ \/ p.kind = "declaration" /\ DeclareFor(sender, p, GasFee, fees.blob)
     \/ p.kind = "pointer" /\ SetAppPointer(sender, p.nonce, p.deadline, p.appPointer, GasFee)
     \/ p.kind = "successor" /\ SetSuccessor(sender, p.nonce, p.deadline, p.target, GasFee)

(***************************************************************************)
(* The carrier's run over one package.  A failing check ends it before     *)
(* anything is sent.                                                       *)
(***************************************************************************)

Become(c, state) == carriage' = [carriage EXCEPT ![c] = state]
Steps(c, step, state) == carriage[c].step = step /\ Become(c, state)

\* The static checks of a package.
Validates(p) == p.defect # "bytes"

\* The reads of the preflight are pinned to one block, and the transaction can be in no
\* block before the next slot.
PreflightOnTime(carrier, p) ==   \* mutant
  /\ now <= p.deadline
  /\ SignatureAccepted(p)
  /\ p.nonce = NonceOf(p.kind)
  /\ p.kind = "declaration" => DeclarationHolds(carrier, p) /\ p.defect # "shape"
PreflightHolds(carrier, p) ==
  /\ now + SlotSeconds < p.deadline
  /\ SignatureAccepted(p)
  /\ p.nonce = NonceOf(p.kind)
  /\ p.kind = "declaration" => DeclarationHolds(carrier, p) /\ p.defect # "shape"

\* Bounds: MaxRuns runs, and after the first only for a package that is still pending.
StartCarry(c, p) ==
  /\ runs < MaxRuns /\ runs' = runs + 1
  /\ runs > 0 => \E t \in mempool : t.carrier = c /\ t.order.package = p
  /\ Validates(p) /\ PreflightHolds(c, p)
  /\ Steps(c, "none", [step |-> "preflighted", package |-> p, pinnedAt |-> now])
  /\ UNCHANGED <<vars, chainVars, mempool>>

\* The blob fee cap and the simulation, against the latest block.
BlobFeeCap == IF 2 * fees.blob > MinBlobFeeCap THEN 2 * fees.blob ELSE MinBlobFeeCap
Simulate(c) ==
  LET at == carriage[c] IN
  /\ Steps(c, "preflighted",
       IF Accepts(c, at.package)
       THEN [step |-> "simulated", package |-> at.package, pinnedAt |-> at.pinnedAt,
             cap |-> BlobFeeCap, numBlobs |-> Blobs(at.package)]
       ELSE NoCarriage)
  /\ UNCHANGED <<vars, chainVars, mempool, runs>>

\* The expected reimbursement.  The simulated gas holds the intrinsic gas already, and
\* both fees have a quarter of headroom.
ExpectedBare(p, numBlobs) ==   \* mutant
  numBlobs * fees.blob + (MeasuredGas + IntrinsicGas) * fees.base + CarrierTipWei + Subsidy(p)
WithHeadroom(fee) == fee + fee \div 4
Expected(p, numBlobs) ==
  WithHeadroom(numBlobs * fees.blob) + WithHeadroom((MeasuredGas + 2 * IntrinsicGas) * fees.base)
    + CarrierTipWei + Subsidy(p)

Price(c) ==
  LET at == carriage[c] IN
  /\ Steps(c, "simulated",
       [step |-> "priced", package |-> at.package, pinnedAt |-> at.pinnedAt, cap |-> at.cap,
        expected |-> Expected(at.package, at.numBlobs), fees |-> fees])
  /\ UNCHANGED <<vars, chainVars, mempool, runs>>

ReadBucket(c) ==
  LET at == carriage[c] IN
  /\ Steps(c, "priced",
       [step |-> "bucket", package |-> at.package, pinnedAt |-> at.pinnedAt, cap |-> at.cap,
        expected |-> at.expected, fees |-> at.fees, bucket |-> BucketLevel])
  /\ UNCHANGED <<vars, chainVars, mempool, runs>>

\* The balance is read last; then the transaction is sent if both would cover it or the
\* carrier insists.
Submit(c, dryRun, force) ==
  LET at == carriage[c]
      covered == at.expected <= at.bucket /\ at.expected <= AvailableBalance
      sends == ~dryRun /\ (covered \/ force)
  IN
  /\ Steps(c, "bucket", IF sends THEN [step |-> "sent", package |-> at.package] ELSE NoCarriage)
  /\ mempool' = IF sends
                THEN mempool \cup {[carrier |-> c, covered |-> covered, order |-> at,
                                    available |-> AvailableBalance]}
                ELSE mempool
  /\ UNCHANGED <<vars, chainVars, runs>>

\* The receipt cannot be read, or the operator stops the program; what was sent stays.
LoseReceipt(c) ==
  /\ Steps(c, "sent", NoCarriage)
  /\ UNCHANGED <<vars, chainVars, mempool, runs>>

\* A block includes a transaction whose cap covers the blob fee.
Include(t) ==
  LET p == t.order.package IN
  /\ p.kind = "declaration" => fees.blob <= t.order.cap
  /\ mempool' = mempool \ {t}
  /\ \/ Execute(t.carrier, p)
     \/ ~Accepts(t.carrier, p) /\ UNCHANGED vars
  /\ \/ Steps(t.carrier, "sent", NoCarriage)
     \/ carriage[t.carrier].step # "sent" /\ UNCHANGED carriage
  /\ UNCHANGED <<chainVars, runs>>

\* Anyone may carry a package in a transaction of their own.
CarryDirectly(a, p) == Execute(a, p) /\ UNCHANGED <<chainVars, carriageVars>>

RotateKey ==
  /\ walletKey < MaxKey
  /\ walletKey' = walletKey + 1
  /\ UNCHANGED <<vars, fees, carriageVars>>

\* A fee moves by at most an eighth from a block to the next.
NextBlock ==
  /\ Tick
  /\ fees' \in {f \in Fees : /\ f.base * 8 \in 7 * fees.base..9 * fees.base
                            /\ f.blob * 8 \in 7 * fees.blob..9 * fees.blob}
  /\ UNCHANGED <<walletKey, carriageVars>>

-----------------------------------------------------------------------------

\* The window of Publication's history is of no interest here.
CarriageInit ==
  /\ Init
  /\ fees \in Fees
  /\ walletKey = 1
  /\ carriage = [c \in Carriers |-> NoCarriage]
  /\ mempool = {} /\ runs = 0

Carry(c) ==
  \/ \E p \in Packages : StartCarry(c, p)
  \/ Simulate(c) \/ Price(c) \/ ReadBucket(c) \/ LoseReceipt(c)
  \/ \E dryRun, force \in BOOLEAN : Submit(c, dryRun, force)

CarriageNext ==
  \/ NextBlock \/ RotateKey
  \/ \E c \in Carriers : Carry(c)
  \/ \E t \in mempool : Include(t)
  \/ \E a \in Accounts \ Carriers, p \in Packages : CarryDirectly(a, p)
  \/ (\E a \in Accounts \ Carriers : FundsAction(a)) /\ UNCHANGED <<chainVars, carriageVars>>

CarriageSpec == CarriageInit /\ [][CarriageNext]_allVars

-----------------------------------------------------------------------------
(***************************************************************************)
(* Properties.                                                             *)
(***************************************************************************)

\* A carrier loses its gas only to a race: an included transaction reverts only if since
\* its check another intent took its nonce, the wallet's key was rotated, or it missed the
\* next slot and then its deadline.
RevertedByRace(t) ==
  LET p == t.order.package IN
  UNCHANGED <<declarationNonce, appPointerNonce, successorNonce>> =>
    \/ p.nonce # NonceOf(p.kind)
    \/ p.key # walletKey
    \/ now > p.deadline /\ now > t.order.pinnedAt + SlotSeconds
RevertsOnlyByRaces == [][\A t \in mempool \ mempool' : RevertedByRace(t)]_allVars

\* A carriage found covered is paid in full, if the paymaster has what it had then and
\* neither fee has risen by more than a quarter, however long the inclusion takes.
CoveredIsPaid ==
  \A t \in mempool :
    (/\ t.covered
     /\ BucketLevel >= t.order.bucket /\ AvailableBalance >= t.available
     /\ 4 * fees.base <= 5 * t.order.fees.base /\ 4 * fees.blob <= 5 * t.order.fees.blob
     /\ Accepts(t.carrier, t.order.package))
    => Covered(Requested(t.order.package))

=============================================================================
