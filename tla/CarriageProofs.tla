---------------------------- MODULE CarriageProofs ----------------------------
(***************************************************************************)
(* What a carrier can count on, for any packages, carriers, fees and       *)
(* histories of the chain.                                                 *)
(***************************************************************************)
EXTENDS Carriage, PublicationProofs

LEMMA MultiplesOrdered ==
  ASSUME NEW a \in Nat, NEW b \in Nat, NEW d \in Nat, a <= b
  PROVE  d * a \in Nat /\ d * b \in Nat /\ d * a <= d * b
  OBVIOUS

\* A quarter of headroom outweighs a rise of a quarter, in spite of the rounding.
LEMMA HeadroomSuffices ==
  ASSUME NEW n \in Nat, NEW m \in Nat, n <= m, NEW before \in Nat, NEW after \in Nat,
         4 * after <= 5 * before
  PROVE  n * after \in Nat /\ WithHeadroom(m * before) \in Nat
         /\ n * after <= WithHeadroom(m * before)
<1> DEFINE x == n * after
           y == n * before
           z == m * before
<1>1. x \in Nat /\ y \in Nat /\ z \in Nat
  OBVIOUS
<1>2. y <= z
  BY MultiplesOrdered
<1>3. 4 * x <= 5 * y
  <2>1. n * (4 * after) <= n * (5 * before)
    BY MultiplesOrdered
  <2>2. n * (4 * after) = 4 * x /\ n * (5 * before) = 5 * y
    OBVIOUS
  <2> QED  BY <2>1, <2>2
<1> HIDE DEF x, y, z
<1>4. x <= z + z \div 4 /\ z + z \div 4 \in Nat
  BY <1>1, <1>2, <1>3
<1> QED  BY <1>1, <1>4 DEF WithHeadroom, x, z

\* Expected, at the fees of the block it was computed in.
ExpectedAt(f, p, numBlobs) ==
  WithHeadroom(numBlobs * f.blob) + WithHeadroom((MeasuredGas + 2 * IntrinsicGas) * f.base)
    + CarrierTipWei + Subsidy(p)

\* The wallet, the nonces and the length of the dataset.
ChainTypes ==
  /\ now \in Nat /\ leafCount \in Nat
  /\ declarationNonce \in Nat /\ appPointerNonce \in Nat /\ successorNonce \in Nat
  /\ fees \in Fees

\* What a simulation showed of a package: it stays true until its nonce is used.
Current(p) == p.nonce = NonceOf(p.kind)
Holds(p) ==
  /\ p.defect = "none" /\ p.nonce <= NonceOf(p.kind)
  /\ Current(p) /\ p.kind = "declaration" => p.newLeafCount > leafCount /\ OpeningsHold(p)
  /\ Current(p) /\ p.kind = "successor" => successor = NoAccount /\ p.target # NoAccount

Vetted(c, p, pinnedAt) ==
  /\ p \in Packages /\ pinnedAt \in Nat /\ pinnedAt + SlotSeconds < p.deadline
  /\ p.kind = "declaration" => p.designatedCarrier \in {NoAccount, c}

Priced(at) ==
  /\ at.fees \in Fees
  /\ Current(at.package) => at.expected = ExpectedAt(at.fees, at.package, Blobs(at.package))

\* A run of the program, at each of its steps.
RunSound(c, at) ==
  /\ at.step \in {"preflighted", "simulated", "priced", "bucket"} =>
       Vetted(c, at.package, at.pinnedAt)
  /\ at.step \in {"simulated", "priced", "bucket"} => Holds(at.package)
  /\ at.step = "simulated" => (Current(at.package) => at.numBlobs = Blobs(at.package))
  /\ at.step \in {"priced", "bucket"} => Priced(at)

OrderSound(t) ==
  /\ Vetted(t.carrier, t.order.package, t.order.pinnedAt)
  /\ Holds(t.order.package) /\ Priced(t.order)

CarriageInv ==
  /\ ChainTypes
  /\ DOMAIN carriage = Carriers
  /\ \A c \in Carriers : RunSound(c, carriage[c])
  /\ \A t \in mempool : OrderSound(t)

-----------------------------------------------------------------------------

\* The chain only moves forward: what a package was checked against changes with its nonce.
Forward ==
  /\ declarationNonce' >= declarationNonce /\ appPointerNonce' >= appPointerNonce
  /\ successorNonce' >= successorNonce
  /\ declarationNonce' = declarationNonce => leafCount' = leafCount
  /\ successorNonce' = successorNonce => successor' = successor

LEMMA PackageTyped ==
  ASSUME NEW p \in Packages
  PROVE  /\ p.kind \in {"declaration", "pointer", "successor"} /\ p.nonce \in Nat
         /\ p.deadline \in Nat
         /\ p.kind = "declaration" => p.newLeafCount \in Nat
<1>1. p \in IntentPackage
  BY CarriageAssumption
<1> QED  BY <1>1 DEF IntentPackage

\* A carried package uses its nonce.
LEMMA ExecuteForward ==
  ASSUME ChainTypes, NEW a, NEW p \in Packages, Execute(a, p), fees' = fees
  PROVE  ChainTypes' /\ Forward
         /\ ~ UNCHANGED <<declarationNonce, appPointerNonce, successorNonce>>
<1>1. CASE p.kind = "declaration" /\ DeclareFor(a, p, GasFee, fees.blob)
  <2>1. /\ leafCount' = p.newLeafCount /\ declarationNonce' = declarationNonce + 1
        /\ UNCHANGED <<now, appPointerNonce, successorNonce, successor>>
    BY <1>1 DEF DeclareFor, MayDeclare
  <2> QED  BY <1>1, <2>1, PackageTyped DEF ChainTypes, Forward
<1>2. CASE SetAppPointer(a, p.nonce, p.deadline, p.appPointer, GasFee)
  <2>1. /\ appPointerNonce' = appPointerNonce + 1
        /\ UNCHANGED <<now, leafCount, declarationNonce, successorNonce, successor>>
    BY <1>2 DEF SetAppPointer, declarationVars
  <2> QED  BY <2>1 DEF ChainTypes, Forward
<1>3. CASE SetSuccessor(a, p.nonce, p.deadline, p.target, GasFee)
  <2>1. /\ successorNonce' = successorNonce + 1
        /\ UNCHANGED <<now, leafCount, declarationNonce, appPointerNonce>>
    BY <1>3 DEF SetSuccessor, declarationVars
  <2> QED  BY <2>1 DEF ChainTypes, Forward
<1> QED  BY <1>1, <1>2, <1>3 DEF Execute

LEMMA Idle ==
  ASSUME ChainTypes, UNCHANGED <<now, fees, leafCount, declarationNonce, pointerVars>>
  PROVE  ChainTypes' /\ Forward
  BY DEF ChainTypes, Forward, pointerVars

LEMMA ChainForward ==
  ASSUME CarriageInv, [CarriageNext]_allVars PROVE ChainTypes' /\ Forward
<1>1. ChainTypes
  BY DEF CarriageInv
<1>2. CASE NextBlock
  <2>1. /\ now' = now + 1 /\ fees' \in Fees
        /\ UNCHANGED <<leafCount, declarationNonce, appPointerNonce, successorNonce, successor>>
    BY <1>2 DEF NextBlock, Tick, declarationVars, pointerVars
  <2> QED  BY <1>1, <2>1 DEF ChainTypes, Forward
<1>3. ASSUME NEW c, Carry(c) PROVE ChainTypes' /\ Forward
  BY <1>1, <1>3, Idle DEF Carry, StartCarry, Simulate, Price, ReadBucket, LoseReceipt, Submit,
     vars, chainVars, declarationVars
<1>4. ASSUME NEW t \in mempool, Include(t) PROVE ChainTypes' /\ Forward
  <2>1. t.order.package \in Packages /\ fees' = fees
    BY <1>4 DEF Include, chainVars, CarriageInv, OrderSound, Vetted
  <2>2. CASE Execute(t.carrier, t.order.package)
    BY <1>1, <2>1, <2>2, ExecuteForward
  <2>3. CASE UNCHANGED vars
    BY <1>1, <2>1, <2>3, Idle DEF vars, declarationVars
  <2> QED  BY <1>4, <2>2, <2>3 DEF Include
<1>5. ASSUME NEW a, NEW p \in Packages, CarryDirectly(a, p) PROVE ChainTypes' /\ Forward
  BY <1>1, <1>5, ExecuteForward DEF CarryDirectly, chainVars
<1>6. CASE RotateKey \/ UNCHANGED allVars
  BY <1>1, <1>6, Idle DEF RotateKey, allVars, chainVars, vars, declarationVars
<1>7. ASSUME NEW a, FundsAction(a), UNCHANGED chainVars PROVE ChainTypes' /\ Forward
  BY <1>1, <1>7, Idle DEF FundsAction, chainVars, instanceVars, declarationVars
<1> QED  BY <1>2, <1>3, <1>4, <1>5, <1>6, <1>7 DEF CarriageNext

\* What was found out about a package stays true while the chain moves forward.
LEMMA FindingsKept ==
  ASSUME ChainTypes, ChainTypes', Forward, NEW p \in Packages
  PROVE  /\ Holds(p) => Holds(p)'
         /\ Holds(p) /\ Current(p)' => Current(p) /\ Blobs(p)' = Blobs(p)
<1>1. p.kind \in {"declaration", "pointer", "successor"} /\ p.nonce \in Nat
  BY PackageTyped
<1>2. CASE p.kind = "declaration"
  BY <1>1, <1>2 DEF ChainTypes, Forward, Holds, Current, NonceOf, OpeningsHold, Blobs
<1>3. CASE p.kind = "pointer"
  BY <1>1, <1>3 DEF ChainTypes, Forward, Holds, Current, NonceOf, Blobs
<1>4. CASE p.kind = "successor"
  BY <1>1, <1>4 DEF ChainTypes, Forward, Holds, Current, NonceOf, Blobs
<1> QED  BY <1>1, <1>2, <1>3, <1>4

-----------------------------------------------------------------------------

\* A run or an order that does not move stays sound while the chain moves forward.
LEMMA RunKept ==
  ASSUME ChainTypes, ChainTypes', Forward, NEW c, NEW at, RunSound(c, at)
  PROVE  RunSound(c, at)'
<1>1. CASE at.step \in {"preflighted", "simulated", "priced", "bucket"}
  <2> DEFINE p == at.package
  <2>1. p \in Packages /\ Vetted(c, p, at.pinnedAt)
    BY <1>1 DEF RunSound, Vetted
  <2>2. /\ Holds(p) => Holds(p)'
        /\ Holds(p) /\ Current(p)' => Current(p) /\ Blobs(p)' = Blobs(p)
    BY <2>1, FindingsKept
  <2>3. Vetted(c, p, at.pinnedAt)' <=> Vetted(c, p, at.pinnedAt)
    BY DEF Vetted
  <2> QED  BY <2>1, <2>2, <2>3 DEF RunSound, Priced
<1>2. CASE at.step \notin {"preflighted", "simulated", "priced", "bucket"}
  BY <1>2 DEF RunSound
<1> QED  BY <1>1, <1>2

LEMMA OrderKept ==
  ASSUME ChainTypes, ChainTypes', Forward, NEW t, OrderSound(t)
  PROVE  OrderSound(t)'
<1> DEFINE p == t.order.package
<1>1. p \in Packages
  BY DEF OrderSound, Vetted
<1>2. /\ Holds(p) => Holds(p)'
      /\ Holds(p) /\ Current(p)' => Current(p) /\ Blobs(p)' = Blobs(p)
  BY <1>1, FindingsKept
<1> QED  BY <1>2 DEF OrderSound, Vetted, Priced

LEMMA OneRunMoves ==
  ASSUME CarriageInv, ChainTypes', Forward, NEW c \in Carriers, NEW state, Become(c, state),
         RunSound(c, state)'
  PROVE  DOMAIN carriage' = Carriers /\ \A x \in Carriers : RunSound(x, carriage[x])'
<1>1. DOMAIN carriage' = Carriers /\ carriage'[c] = state
  BY DEF CarriageInv, Become
<1>2. ASSUME NEW x \in Carriers PROVE RunSound(x, carriage[x])'
  <2>1. CASE x = c
    BY <1>1, <2>1
  <2>2. CASE x # c
    <3>1. carriage'[x] = carriage[x] /\ RunSound(x, carriage[x])
      BY <2>2 DEF CarriageInv, Become
    <3>2. PICK at : at = carriage[x]
      OBVIOUS
    <3>3. RunSound(x, at)'
      BY <3>1, <3>2, RunKept DEF CarriageInv
    <3> QED  BY <3>1, <3>2, <3>3
  <2> QED  BY <2>1, <2>2
<1> QED  BY <1>1, <1>2

LEMMA NoRunMoves ==
  ASSUME CarriageInv, ChainTypes', Forward, UNCHANGED carriage
  PROVE  DOMAIN carriage' = Carriers /\ \A x \in Carriers : RunSound(x, carriage[x])'
<1>1. ASSUME NEW x \in Carriers PROVE RunSound(x, carriage[x])'
  <2>1. PICK at : at = carriage[x]
    OBVIOUS
  <2>2. RunSound(x, at) /\ at = carriage'[x]
    BY <2>1 DEF CarriageInv
  <2>3. RunSound(x, at)'
    BY <2>2, RunKept DEF CarriageInv
  <2> QED  BY <2>2, <2>3
<1> QED  BY <1>1 DEF CarriageInv

LEMMA OrdersKept ==
  ASSUME CarriageInv, ChainTypes', Forward, mempool' \subseteq mempool
  PROVE  \A t \in mempool' : OrderSound(t)'
  BY OrderKept DEF CarriageInv

-----------------------------------------------------------------------------

\* Each step of a run leaves it with what the step checked.
RunsSound == \A c \in Carriers : RunSound(c, carriage[c])
OrdersSound == \A t \in mempool : OrderSound(t)

LEMMA NonceOfTyped ==
  ASSUME ChainTypes, NEW p \in Packages PROVE NonceOf(p.kind) \in Nat
  BY PackageTyped DEF ChainTypes, NonceOf

LEMMA StartSound ==
  ASSUME CarriageInv, ChainTypes', Forward, NEW c \in Carriers, NEW p \in Packages,
         StartCarry(c, p)
  PROVE  DOMAIN carriage' = Carriers /\ RunsSound'
<1>1. PICK s : s = [step |-> "preflighted", package |-> p, pinnedAt |-> now]
  OBVIOUS
<1>2. Become(c, s) /\ now \in Nat
  BY <1>1 DEF StartCarry, Steps, CarriageInv, ChainTypes
<1>3. Vetted(c, p, now)
  BY <1>2 DEF StartCarry, PreflightHolds, DeclarationHolds, Vetted
<1>4. RunSound(c, s)'
  BY <1>1, <1>3 DEF RunSound, Vetted
<1> QED  BY <1>2, <1>4, OneRunMoves DEF RunsSound

LEMMA SimulateSound ==
  ASSUME CarriageInv, ChainTypes', Forward, NEW c \in Carriers, Simulate(c)
  PROVE  DOMAIN carriage' = Carriers /\ RunsSound'
<1>1. PICK at : at = carriage[c]
  OBVIOUS
<1> DEFINE p == at.package
           state == [step |-> "simulated", package |-> p, pinnedAt |-> at.pinnedAt,
                     cap |-> BlobFeeCap, numBlobs |-> Blobs(p)]
<1>2. Vetted(c, p, at.pinnedAt) /\ p \in Packages
  BY <1>1 DEF CarriageInv, Simulate, Steps, RunSound, Vetted
<1>3. NonceOf(p.kind) \in Nat
  BY <1>2, NonceOfTyped DEF CarriageInv
<1>4. CASE Accepts(c, p)
  <2>1. Holds(p)
    BY <1>3, <1>4 DEF Accepts, DeclarationHolds, Holds
  <2>2. PICK s : s = state
    OBVIOUS
  <2>3. RunSound(c, s)
    BY <1>2, <2>1, <2>2 DEF RunSound
  <2>4. RunSound(c, s)'
    BY <2>3, RunKept DEF CarriageInv
  <2>5. Become(c, s)
    BY <1>1, <1>4, <2>2 DEF Simulate, Steps
  <2> QED  BY <2>4, <2>5, OneRunMoves DEF RunsSound
<1>5. CASE ~ Accepts(c, p)
  <2>1. Become(c, NoCarriage)
    BY <1>1, <1>5 DEF Simulate, Steps
  <2>2. RunSound(c, NoCarriage)'
    BY DEF NoCarriage, RunSound
  <2> QED  BY <2>1, <2>2, OneRunMoves DEF RunsSound
<1> QED  BY <1>4, <1>5

LEMMA PriceSound ==
  ASSUME CarriageInv, ChainTypes', Forward, NEW c \in Carriers, Price(c)
  PROVE  DOMAIN carriage' = Carriers /\ RunsSound'
<1>1. PICK at : at = carriage[c]
  OBVIOUS
<1>2. PICK s : s = [step |-> "priced", package |-> at.package, pinnedAt |-> at.pinnedAt,
                    cap |-> at.cap, expected |-> Expected(at.package, at.numBlobs),
                    fees |-> fees]
  OBVIOUS
<1>3. at.step = "simulated" /\ RunSound(c, at) /\ fees \in Fees
  BY <1>1 DEF CarriageInv, ChainTypes, Price, Steps
<1>4. Priced(s)
  BY <1>2, <1>3 DEF RunSound, Priced, Expected, ExpectedAt
<1>5. RunSound(c, s)
  BY <1>2, <1>3, <1>4 DEF RunSound
<1>6. Become(c, s)
  BY <1>1, <1>2 DEF Price, Steps
<1>7. RunSound(c, s)'
  BY <1>5, RunKept DEF CarriageInv
<1> QED  BY <1>6, <1>7, OneRunMoves DEF RunsSound

LEMMA ReadBucketSound ==
  ASSUME CarriageInv, ChainTypes', Forward, NEW c \in Carriers, ReadBucket(c)
  PROVE  DOMAIN carriage' = Carriers /\ RunsSound'
<1>1. PICK at : at = carriage[c]
  OBVIOUS
<1>2. PICK s : s = [step |-> "bucket", package |-> at.package, pinnedAt |-> at.pinnedAt,
                    cap |-> at.cap, expected |-> at.expected, fees |-> at.fees,
                    bucket |-> BucketLevel]
  OBVIOUS
<1>3. at.step = "priced" /\ RunSound(c, at)
  BY <1>1 DEF CarriageInv, ReadBucket, Steps
<1>4. RunSound(c, s)
  BY <1>2, <1>3 DEF RunSound, Priced
<1>5. Become(c, s)
  BY <1>1, <1>2 DEF ReadBucket, Steps
<1>6. RunSound(c, s)'
  BY <1>4, RunKept DEF CarriageInv
<1> QED  BY <1>5, <1>6, OneRunMoves DEF RunsSound

LEMMA SubmitSound ==
  ASSUME CarriageInv, ChainTypes', Forward, NEW c \in Carriers, NEW dryRun, NEW force,
         Submit(c, dryRun, force)
  PROVE  DOMAIN carriage' = Carriers /\ RunsSound' /\ OrdersSound'
<1>1. PICK at : at = carriage[c]
  OBVIOUS
<1>2. at.step = "bucket" /\ RunSound(c, at)
  BY <1>1 DEF CarriageInv, Submit, Steps
<1>3. PICK s : Become(c, s) /\ s.step \in {"sent", "none"}
  BY DEF Submit, Steps, NoCarriage
<1>4. RunSound(c, s)'
  BY <1>3 DEF RunSound
<1>5. DOMAIN carriage' = Carriers /\ RunsSound'
  BY <1>3, <1>4, OneRunMoves DEF RunsSound
<1>6. ASSUME NEW t \in mempool' PROVE OrderSound(t)'
  <2>1. CASE t \in mempool
    BY <2>1, OrderKept DEF CarriageInv
  <2>2. CASE t \notin mempool
    <3>1. t.carrier = c /\ t.order = at
      BY <1>1, <2>2 DEF Submit
    <3>2. OrderSound(t)
      BY <1>2, <3>1 DEF OrderSound, RunSound
    <3> QED  BY <3>2, OrderKept DEF CarriageInv
  <2> QED  BY <2>1, <2>2
<1> QED  BY <1>5, <1>6 DEF OrdersSound

LEMMA CarrySound ==
  ASSUME CarriageInv, ChainTypes', Forward, NEW c \in Carriers, Carry(c)
  PROVE  DOMAIN carriage' = Carriers /\ RunsSound' /\ OrdersSound'
<1>1. ASSUME NEW p \in Packages, StartCarry(c, p)
      PROVE  DOMAIN carriage' = Carriers /\ RunsSound' /\ OrdersSound'
  BY <1>1, StartSound, OrdersKept DEF StartCarry, OrdersSound
<1>2. CASE Simulate(c)
  BY <1>2, SimulateSound, OrdersKept DEF Simulate, OrdersSound
<1>3. CASE Price(c)
  BY <1>3, PriceSound, OrdersKept DEF Price, OrdersSound
<1>4. CASE ReadBucket(c)
  BY <1>4, ReadBucketSound, OrdersKept DEF ReadBucket, OrdersSound
<1>5. CASE LoseReceipt(c)
  <2>1. Become(c, NoCarriage) /\ RunSound(c, NoCarriage)' /\ mempool' = mempool
    BY <1>5 DEF LoseReceipt, Steps, NoCarriage, RunSound
  <2> QED  BY <2>1, OneRunMoves, OrdersKept DEF RunsSound, OrdersSound
<1>6. ASSUME NEW dryRun \in BOOLEAN, NEW force \in BOOLEAN, Submit(c, dryRun, force)
      PROVE  DOMAIN carriage' = Carriers /\ RunsSound' /\ OrdersSound'
  BY <1>6, SubmitSound
<1> QED  BY <1>1, <1>2, <1>3, <1>4, <1>5, <1>6 DEF Carry

LEMMA IncludeSound ==
  ASSUME CarriageInv, ChainTypes', Forward, NEW t \in mempool, Include(t)
  PROVE  DOMAIN carriage' = Carriers /\ RunsSound' /\ OrdersSound'
<1>1. OrdersSound'
  BY OrdersKept DEF Include, OrdersSound
<1>2. CASE UNCHANGED carriage
  BY <1>1, <1>2, NoRunMoves DEF RunsSound
<1>3. CASE Steps(t.carrier, "sent", NoCarriage)
  <2>1. CASE t.carrier \in Carriers
    <3>1. Become(t.carrier, NoCarriage) /\ RunSound(t.carrier, NoCarriage)'
      BY <1>3 DEF Steps, NoCarriage, RunSound
    <3> QED  BY <1>1, <2>1, <3>1, OneRunMoves DEF RunsSound
  <2>2. CASE t.carrier \notin Carriers
    <3>1. \A x \in Carriers : carriage'[x] = carriage[x]
      BY <1>3, <2>2 DEF Steps, Become, CarriageInv
    <3>2. DOMAIN carriage' = Carriers
      BY <1>3 DEF Steps, Become, CarriageInv
    <3>3. ASSUME NEW x \in Carriers PROVE RunSound(x, carriage[x])'
      <4>1. PICK at : at = carriage[x]
        OBVIOUS
      <4>2. RunSound(x, at)'
        BY <4>1, RunKept DEF CarriageInv
      <4> QED  BY <3>1, <4>1, <4>2
    <3> QED  BY <1>1, <3>2, <3>3 DEF RunsSound
  <2> QED  BY <2>1, <2>2
<1> QED  BY <1>2, <1>3 DEF Include

LEMMA CarriageInvKept ==
  ASSUME CarriageInv, [CarriageNext]_allVars PROVE CarriageInv'
<1>1. ChainTypes' /\ Forward
  BY ChainForward
<1>2. CASE UNCHANGED carriageVars
  <2>1. UNCHANGED <<carriage, mempool>>
    BY <1>2 DEF carriageVars
  <2> QED  BY <1>1, <2>1, NoRunMoves, OrdersKept DEF CarriageInv
<1>3. ASSUME NEW c \in Carriers, Carry(c) PROVE CarriageInv'
  BY <1>1, <1>3, CarrySound DEF CarriageInv, RunsSound, OrdersSound
<1>4. ASSUME NEW t \in mempool, Include(t) PROVE CarriageInv'
  BY <1>1, <1>4, IncludeSound DEF CarriageInv, RunsSound, OrdersSound
<1> QED
  BY <1>2, <1>3, <1>4 DEF CarriageNext, NextBlock, RotateKey, CarryDirectly, allVars

LEMMA InitCarriageInv == CarriageInit => CarriageInv
<1> SUFFICES ASSUME CarriageInit PROVE CarriageInv
  OBVIOUS
<1>1. ChainTypes
  BY DEF CarriageInit, Init, ChainTypes
<1> QED  BY <1>1 DEF CarriageInit, CarriageInv, NoCarriage, RunSound

LEMMA CarriageInvHolds == CarriageSpec => []CarriageInv
<1> QED  BY InitCarriageInv, CarriageInvKept, PTL DEF CarriageSpec

-----------------------------------------------------------------------------

\* Only its inclusion takes a transaction out of the mempool, and it reverts then only if
\* it lost a race: what the run found out about its package still holds.
THEOREM RevertsOnlyByRacesHolds == CarriageSpec => RevertsOnlyByRaces
<1>1. ASSUME CarriageInv, [CarriageNext]_allVars, NEW t \in mempool \ mempool'
      PROVE  RevertedByRace(t)
  <2> DEFINE p == t.order.package
  <2> SUFFICES ASSUME UNCHANGED <<declarationNonce, appPointerNonce, successorNonce>>,
                      p.nonce = NonceOf(p.kind), p.key = walletKey
               PROVE  now > p.deadline /\ now > t.order.pinnedAt + SlotSeconds
    BY DEF RevertedByRace
  <2>1. Include(t)
    BY <1>1 DEF CarriageNext, NextBlock, RotateKey, CarryDirectly, allVars, carriageVars, Carry,
       StartCarry, Simulate, Price, ReadBucket, LoseReceipt, Submit, Include
  <2>2. OrderSound(t) /\ p \in Packages /\ ChainTypes /\ fees' = fees
    BY <1>1, <2>1 DEF CarriageInv, OrderSound, Vetted, Include, chainVars
  <2>3. ~ Accepts(t.carrier, p)
    BY <2>1, <2>2, ExecuteForward DEF Include
  <2>4. now > p.deadline
    <3>1. now \in Nat /\ p.deadline \in Nat
      BY <2>2, PackageTyped DEF ChainTypes
    <3>2. /\ p.defect = "none"
          /\ p.kind = "declaration" => DeclarationHolds(t.carrier, p)
          /\ p.kind = "successor" => successor = NoAccount /\ p.target # NoAccount
      BY <2>2 DEF OrderSound, Vetted, Holds, Current, DeclarationHolds
    <3>3. ~ (now <= p.deadline)
      BY <2>3, <3>2 DEF Accepts, SignatureAccepted
    <3> QED  BY <3>1, <3>3
  <2>5. now > t.order.pinnedAt + SlotSeconds
    BY <2>2, <2>4, PackageTyped, CarriageAssumption DEF OrderSound, Vetted, ChainTypes
  <2> QED  BY <2>4, <2>5
<1>2. CarriageInv /\ [CarriageNext]_allVars
        => [\A t \in mempool \ mempool' : RevertedByRace(t)]_allVars
  BY <1>1
<1> QED
  BY <1>2, CarriageInvHolds, PTL DEF CarriageSpec, RevertsOnlyByRaces

\* While neither fee has risen by more than a quarter, a transaction that will be accepted
\* asks the paymaster for no more than its carrier made sure of.
EnoughWasExpected ==
  \A t \in mempool :
    (/\ 4 * fees.base <= 5 * t.order.fees.base /\ 4 * fees.blob <= 5 * t.order.fees.blob
     /\ Accepts(t.carrier, t.order.package))
    => Requested(t.order.package) <= t.order.expected

LEMMA BlobsTyped ==
  ASSUME ChainTypes, NEW p \in Packages, Holds(p), Current(p) PROVE Blobs(p) \in Nat
<1>1. CASE p.kind = "declaration"
  <2>1. p.newLeafCount - leafCount \in Nat
    BY <1>1, PackageTyped DEF ChainTypes, Holds
  <2>2. PICK m \in Nat : m = p.newLeafCount - leafCount
    BY <2>1
  <2>3. (m + ChunksPerBlob - 1) \div ChunksPerBlob \in Nat
    BY PublicationAssumption
  <2> QED  BY <1>1, <2>2, <2>3 DEF Blobs, BlobCount
<1>2. CASE p.kind # "declaration"
  BY <1>2 DEF Blobs
<1> QED  BY <1>1, <1>2

\* What is asked for in a later block is covered by the expectation made at the fees of an
\* earlier one.
LEMMA ExpectedEnough ==
  ASSUME CarriageInv, NEW t \in mempool,
         4 * fees.base <= 5 * t.order.fees.base, 4 * fees.blob <= 5 * t.order.fees.blob,
         Accepts(t.carrier, t.order.package)
  PROVE  /\ Requested(t.order.package) \in Nat /\ t.order.expected \in Nat
         /\ Requested(t.order.package) <= t.order.expected
<1>1. PICK p, g : p = t.order.package /\ g = t.order.fees
  OBVIOUS
<1>2. ChainTypes /\ p \in Packages /\ Holds(p) /\ Current(p) /\ Priced(t.order)
  BY <1>1 DEF CarriageInv, OrderSound, Vetted, Accepts, Current
<1>3. /\ fees.base \in Nat /\ fees.blob \in Nat /\ g.base \in Nat /\ g.blob \in Nat
      /\ MeasuredGas \in Nat /\ IntrinsicGas \in Nat
      /\ CarrierTipWei \in Nat /\ Subsidy(p) \in Nat
  BY <1>1, <1>2, CarriageAssumption, PublicationAssumption DEF ChainTypes, Priced, Subsidy
<1>4. Blobs(p) \in Nat
  BY <1>2, BlobsTyped
<1> DEFINE blobFee == Blobs(p) * fees.blob
           gas == MeasuredGas + IntrinsicGas
           bid == MeasuredGas + 2 * IntrinsicGas
           x == WithHeadroom(Blobs(p) * g.blob)
           y == WithHeadroom(bid * g.base)
<1>5. blobFee \in Nat /\ x \in Nat /\ blobFee <= x
  <2>1. ASSUME NEW n \in Nat, NEW m \in Nat, n <= m
        PROVE  n * fees.blob \in Nat /\ WithHeadroom(m * g.blob) \in Nat
               /\ n * fees.blob <= WithHeadroom(m * g.blob)
    BY <1>1, <1>3, <2>1, HeadroomSuffices
  <2>2. PICK n \in Nat : n = Blobs(p)
    BY <1>4
  <2> QED  BY <2>1, <2>2
<1>6. gas \in Nat /\ bid \in Nat /\ gas <= bid
  BY <1>3
<1>7. gas * fees.base \in Nat /\ y \in Nat /\ gas * fees.base <= y
  <2> HIDE DEF gas, bid
  <2> QED  BY <1>1, <1>3, <1>6, HeadroomSuffices
<1>8. t.order.expected = x + y + CarrierTipWei + Subsidy(p)
  BY <1>1, <1>2 DEF Priced, ExpectedAt
<1>9. Requested(p) = blobFee + gas * fees.base + CarrierTipWei + Subsidy(p)
  BY DEF Requested, ReimbursementAmount, GasFee
<1> HIDE DEF blobFee, gas, bid, x, y
<1>10. blobFee + gas * fees.base + CarrierTipWei + Subsidy(p)
         <= x + y + CarrierTipWei + Subsidy(p)
  <2>1. ASSUME NEW i \in Nat, NEW j \in Nat, NEW k \in Nat, NEW l \in Nat, NEW m \in Nat,
               NEW n \in Nat, i <= k, j <= l
        PROVE  i + j + m + n <= k + l + m + n
    BY <2>1
  <2> QED  BY <1>3, <1>5, <1>7, <2>1
<1>11. blobFee + gas * fees.base + CarrierTipWei + Subsidy(p) \in Nat
       /\ x + y + CarrierTipWei + Subsidy(p) \in Nat
  BY <1>3, <1>5, <1>7
<1> QED  BY <1>1, <1>8, <1>9, <1>10, <1>11

\* The expected reimbursement, made at the fees of one block, covers what the instance asks
\* for in a later one: the hard part of a carriage found covered being paid.
THEOREM EnoughWasExpectedHolds == CarriageSpec => []EnoughWasExpected
<1>1. CarriageInv => EnoughWasExpected
  BY ExpectedEnough DEF EnoughWasExpected
<1> QED  BY <1>1, CarriageInvHolds, PTL

-----------------------------------------------------------------------------
(***************************************************************************)
(* A carriage found covered is paid: the bucket and the balance of the     *)
(* paymaster stay sound whatever is carried.                               *)
(***************************************************************************)

\* A covered order was expected to ask for no more than both readings showed.
CoverSound(t) ==
  /\ t.order.bucket \in Nat /\ t.available \in Nat
  /\ t.covered => t.order.expected <= t.order.bucket /\ t.order.expected <= t.available

CoverInv ==
  /\ BucketInv /\ FundsInv
  /\ \A c \in Carriers : carriage[c].step = "bucket" => carriage[c].bucket \in Nat
  /\ \A t \in mempool : CoverSound(t)

LEMMA MoneyExecute ==
  ASSUME ChainTypes, BucketInv, FundsInv, NEW a, NEW p \in Packages, Execute(a, p)
  PROVE  BucketInv' /\ FundsInv' /\ outstanding' = outstanding
<1>1. leafCount \in Nat /\ fees.blob \in Nat /\ fees.base \in Nat
  BY CarriageAssumption DEF ChainTypes
<1>2. GasFee \in Nat
  BY <1>1, MulNat, CarriageAssumption DEF GasFee
<1>3. CASE p.kind = "declaration" /\ DeclareFor(a, p, GasFee, fees.blob)
  BY <1>1, <1>2, <1>3, PackageTyped, BucketDeclareFor, FundsDeclareFor
<1>4. CASE SetAppPointer(a, p.nonce, p.deadline, p.appPointer, GasFee)
  BY <1>2, <1>4, BucketPointers, FundsPointers
<1>5. CASE SetSuccessor(a, p.nonce, p.deadline, p.target, GasFee)
  BY <1>2, <1>5, BucketPointers, FundsPointers
<1> QED  BY <1>3, <1>4, <1>5 DEF Execute

LEMMA MoneyFramed ==
  ASSUME BucketInv, FundsInv, UNCHANGED vars
  PROVE  BucketInv' /\ FundsInv' /\ outstanding' = outstanding
  BY BucketFramed DEF vars, paymasterVars, payoutVars, donationVars, FundsInv, FundsTypes, Backed

LEMMA MoneyStep ==
  ASSUME CarriageInv, BucketInv, FundsInv, [CarriageNext]_allVars
  PROVE  BucketInv' /\ FundsInv' /\ Telescopes
<1> DEFINE Money == BucketInv' /\ FundsInv' /\ Telescopes
<1>0. ASSUME BucketInv', FundsInv', outstanding' = outstanding PROVE Money
  BY <1>0 DEF Telescopes, FundsInv, FundsTypes
<1>1. ChainTypes
  BY DEF CarriageInv
<1>2. ASSUME NextBlock PROVE BucketInv' /\ FundsInv' /\ outstanding' = outstanding
  <2>1. Tick
    BY <1>2 DEF NextBlock
  <2> QED  BY <2>1, BucketTick DEF Tick, paymasterVars, payoutVars, donationVars, FundsInv,
           FundsTypes, Backed
<1>3. ASSUME NEW c, Carry(c) PROVE UNCHANGED vars
  BY <1>3 DEF Carry, StartCarry, Simulate, Price, ReadBucket, LoseReceipt, Submit
<1>4. ASSUME NEW t \in mempool, Include(t)
      PROVE  BucketInv' /\ FundsInv' /\ outstanding' = outstanding
  <2>1. t.order.package \in Packages
    BY DEF CarriageInv, OrderSound, Vetted
  <2> QED  BY <1>1, <1>4, <2>1, MoneyExecute, MoneyFramed DEF Include
<1>5. ASSUME NEW a, NEW p \in Packages, CarryDirectly(a, p)
      PROVE  BucketInv' /\ FundsInv' /\ outstanding' = outstanding
  BY <1>1, <1>5, MoneyExecute DEF CarryDirectly
<1>6. ASSUME NEW a \in Accounts, FundsAction(a) PROVE Money
  BY <1>6, BucketFunds, FundsOther
<1>7. ASSUME RotateKey \/ UNCHANGED allVars PROVE UNCHANGED vars
  BY <1>7 DEF RotateKey, allVars
<1>8. CASE UNCHANGED vars
  BY <1>0, <1>8, MoneyFramed
<1> QED  BY <1>0, <1>2, <1>3, <1>4, <1>5, <1>6, <1>7, <1>8 DEF CarriageNext

\* What a step adds to the runs and the orders was read from the paymaster in it.
LEMMA CoverStep ==
  ASSUME CarriageInv, CoverInv, [CarriageNext]_allVars PROVE CoverInv'
<1>1. BucketInv' /\ FundsInv'
  BY MoneyStep DEF CoverInv
<1>2. CASE /\ mempool' \subseteq mempool
           /\ \A c \in Carriers : \/ carriage'[c] = carriage[c]
                                  \/ carriage'[c].step # "bucket"
                                  \/ carriage'[c].bucket \in Nat
  BY <1>1, <1>2 DEF CoverInv, CoverSound
<1>3. ASSUME NEW c \in Carriers, StartCarry(c, carriage'[c].package) \/ Simulate(c) \/ Price(c)
                                 \/ LoseReceipt(c)
      PROVE  CoverInv'
  <2>1. mempool' = mempool /\ carriage'[c].step # "bucket"
    BY <1>3 DEF CarriageInv, StartCarry, Simulate, Price, LoseReceipt, Steps, Become, NoCarriage
  <2>2. \A x \in Carriers \ {c} : carriage'[x] = carriage[x]
    BY <1>3 DEF StartCarry, Simulate, Price, LoseReceipt, Steps, Become, CarriageInv
  <2> QED  BY <1>2, <2>1, <2>2
<1>4. ASSUME NEW c \in Carriers, ReadBucket(c) PROVE CoverInv'
  <2>1. mempool' = mempool /\ carriage'[c].bucket = BucketLevel
    BY <1>4 DEF CarriageInv, ReadBucket, Steps, Become
  <2>2. \A x \in Carriers \ {c} : carriage'[x] = carriage[x]
    BY <1>4 DEF ReadBucket, Steps, Become, CarriageInv
  <2>3. BucketLevel \in Nat
    BY LevelBound DEF CoverInv
  <2> QED  BY <1>2, <2>1, <2>2, <2>3
<1>5. ASSUME NEW c \in Carriers, NEW dryRun, NEW force, Submit(c, dryRun, force) PROVE CoverInv'
  <2>1. PICK at : at = carriage[c]
    OBVIOUS
  <2>2. at.step = "bucket" /\ at.bucket \in Nat /\ carriage'[c].step # "bucket"
    BY <1>5, <2>1 DEF CarriageInv, Submit, Steps, Become, NoCarriage, CoverInv
  <2>3. \A x \in Carriers \ {c} : carriage'[x] = carriage[x]
    BY <1>5 DEF Submit, Steps, Become, CarriageInv
  <2>4. AvailableBalance \in Nat
    BY AvailableNat DEF CoverInv
  <2>5. ASSUME NEW t \in mempool', t \notin mempool PROVE CoverSound(t)
    <3>1. /\ t.order = at /\ t.available = AvailableBalance
          /\ t.covered = (at.expected <= at.bucket /\ at.expected <= AvailableBalance)
      BY <1>5, <2>1, <2>5 DEF Submit
    <3> QED  BY <2>2, <2>4, <3>1 DEF CoverSound
  <2> QED  BY <1>1, <2>2, <2>3, <2>5 DEF CoverInv, CoverSound
<1>6. ASSUME NEW t \in mempool, Include(t) PROVE CoverInv'
  <2>1. mempool' \subseteq mempool
    BY <1>6 DEF Include
  <2>2. CASE UNCHANGED carriage
    BY <1>2, <2>1, <2>2
  <2>3. CASE Steps(t.carrier, "sent", NoCarriage)
    <3>1. ASSUME NEW x \in Carriers
          PROVE  carriage'[x] = carriage[x] \/ carriage'[x].step # "bucket"
      BY <2>3 DEF Steps, Become, NoCarriage, CarriageInv
    <3> QED  BY <1>2, <2>1, <3>1
  <2> QED  BY <1>6, <2>2, <2>3 DEF Include
<1>7. CASE UNCHANGED <<carriage, mempool>>
  BY <1>2, <1>7
<1>8. ASSUME NEW c \in Carriers, Carry(c) PROVE CoverInv'
  <2>1. ASSUME NEW p \in Packages, StartCarry(c, p) PROVE CoverInv'
    <3>1. carriage'[c].package = p
      BY <2>1 DEF CarriageInv, StartCarry, Steps, Become
    <3> QED  BY <1>3, <2>1, <3>1
  <2> QED  BY <1>3, <1>4, <1>5, <1>8, <2>1 DEF Carry
<1> QED  BY <1>6, <1>7, <1>8 DEF CarriageNext, NextBlock, RotateKey, CarryDirectly, carriageVars,
         allVars

LEMMA CoverInvHolds == CarriageSpec => []CoverInv
<1>1. CarriageInit => CoverInv
  BY InitBucketInv, InitFundsInv DEF CarriageInit, Init, CoverInv, NoCarriage
<1> QED  BY <1>1, CarriageInvHolds, CoverStep, PTL DEF CarriageSpec

\* The ledger sums hold, parked payouts are covered and the bucket bounds the drain at
\* every gas and blob fee a block may have, and whatever the carriers bring, late,
\* repeated or beside each other (I17, I18, I20).
THEOREM CarriageKeepsTheMoney == CarriageSpec => [](Backed /\ BucketBound)
<1>1. CoverInv => Backed /\ BucketBound
  BY BucketInvBounds DEF CoverInv, FundsInv
<1> QED  BY <1>1, CoverInvHolds, PTL

\* A reclaim leaves the others' shares no smaller, whatever is carried beside it, and the
\* last one sweeps the balance (I18, the telescoping rule).
THEOREM CarriageKeepsTheShares == CarriageSpec => [][Telescopes]_allVars
  BY MoneyStep, CarriageInvHolds, CoverInvHolds, PTL DEF CarriageSpec, CoverInv

\* The log and the dormancy account are kept whatever is carried.
LEMMA DeclarationsStep ==
  ASSUME CarriageInv, DormancyInv, LogInv, [CarriageNext]_allVars
  PROVE  DormancyInv' /\ LogInv'
<1>1. CASE UNCHANGED <<now, windowStart, declarationVars>>
  BY <1>1, DormancyFramed, LogFramed
<1>2. ASSUME NEW a, NEW p \in Packages, Execute(a, p) PROVE DormancyInv' /\ LogInv'
  <2>1. CASE p.kind = "declaration" /\ DeclareFor(a, p, GasFee, fees.blob)
    BY <2>1, PackageTyped, DormancyDeclareFor, LogDeclareFor
  <2>2. CASE SetAppPointer(a, p.nonce, p.deadline, p.appPointer, GasFee)
    BY <1>1, <2>2 DEF SetAppPointer
  <2>3. CASE SetSuccessor(a, p.nonce, p.deadline, p.target, GasFee)
    BY <1>1, <2>3 DEF SetSuccessor
  <2> QED  BY <1>2, <2>1, <2>2, <2>3 DEF Execute
<1>3. CASE UNCHANGED vars
  BY <1>1, <1>3 DEF vars
<1>4. CASE NextBlock
  BY <1>4, DormancyFramed, LogFramed DEF NextBlock, Tick
<1>5. ASSUME NEW c, Carry(c) PROVE UNCHANGED vars
  BY <1>5 DEF Carry, StartCarry, Simulate, Price, ReadBucket, LoseReceipt, Submit
<1>6. ASSUME NEW t \in mempool, Include(t) PROVE DormancyInv' /\ LogInv'
  <2>1. t.order.package \in Packages
    BY DEF CarriageInv, OrderSound, Vetted
  <2> QED  BY <1>2, <1>3, <1>6, <2>1 DEF Include
<1>7. ASSUME NEW a, FundsAction(a) PROVE DormancyInv' /\ LogInv'
  BY <1>1, <1>7 DEF FundsAction, instanceVars
<1> QED  BY <1>2, <1>3, <1>4, <1>5, <1>6, <1>7 DEF CarriageNext, CarryDirectly, RotateKey, allVars

\* However packages are carried, by whom and at what fee, the Declared events stay a gapless
\* run that ends in the contract's state, and donors reclaim only after real inactivity
\* (I11, I13).
THEOREM CarriageKeepsTheLog == CarriageSpec => [](LogSequential /\ DormancyHonest)
<1>1. CarriageInit => DormancyInv /\ LogInv
  BY InitDormancyLog DEF CarriageInit
<1>2. DormancyInv /\ LogInv => LogSequential /\ DormancyHonest
  BY DormancyInvHonest DEF LogInv
<1> QED  BY <1>1, <1>2, CarriageInvHolds, DeclarationsStep, PTL DEF CarriageSpec

\* A carriage found covered is paid in full if the paymaster has what it had then and
\* neither fee has risen by more than a quarter, however long the inclusion takes and
\* whatever else is carried, donated or reclaimed meanwhile.
THEOREM CoveredIsPaidHolds == CarriageSpec => []CoveredIsPaid
<1>1. CarriageInv /\ CoverInv => CoveredIsPaid
  <2> SUFFICES ASSUME CarriageInv, CoverInv, NEW t \in mempool, t.covered,
                      BucketLevel >= t.order.bucket, AvailableBalance >= t.available,
                      4 * fees.base <= 5 * t.order.fees.base,
                      4 * fees.blob <= 5 * t.order.fees.blob,
                      Accepts(t.carrier, t.order.package)
               PROVE  Covered(Requested(t.order.package))
    BY DEF CoveredIsPaid
  <2>1. /\ Requested(t.order.package) \in Nat /\ t.order.expected \in Nat
        /\ Requested(t.order.package) <= t.order.expected
    BY ExpectedEnough
  <2>2. /\ t.order.bucket \in Nat /\ t.available \in Nat
        /\ t.order.expected <= t.order.bucket /\ t.order.expected <= t.available
    BY DEF CoverInv, CoverSound
  <2>3. BucketLevel \in Nat /\ AvailableBalance \in Nat
    BY LevelBound, AvailableNat DEF CoverInv
  <2> QED  BY <2>1, <2>2, <2>3 DEF Covered
<1> QED  BY <1>1, CarriageInvHolds, CoverInvHolds, PTL

=============================================================================
