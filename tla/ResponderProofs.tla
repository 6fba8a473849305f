---------------------------- MODULE ResponderProofs ----------------------------
(***************************************************************************)
(* The challenge path beside the contract: what is proved of the contract  *)
(* holds of the pair, and the ledger never takes an open challenge as      *)
(* answered.                                                               *)
(***************************************************************************)
EXTENDS Responder, BlobsitterInstanceProofs, SequenceTheorems

LEMMA ProviderKnown == Operator \in Accounts /\ Provider \in ProviderIds
  BY ResponderAssumption, BoundsAssumption DEF Provider, ProviderIds

(***************************************************************************)
(* What a step of the sender does to the pool and to the receipts.         *)
(***************************************************************************)

\* Only answers to challenges are sent, and the chain executes them.
PoolOurs == \A t \in pool : t.duty \in Challenges

LEMMA AfterErrorReceipts ==
  ASSUME NEW d, NEW result, AfterError(d, result) \/ NextAttempt(d, result)
  PROVE  /\ receipts' \subseteq receipts
         /\ result = "confirmed" => \E r \in receipts : r.ok /\ r.tx.duty = d
<1>1. ASSUME NextAttempt(d, result) PROVE receipts' \subseteq receipts /\ result # "confirmed"
  BY <1>1 DEF NextAttempt, End
<1>2. ASSUME AfterError(d, result), ~NextAttempt(d, result)
      PROVE  receipts' \subseteq receipts /\ \E r \in receipts : r.ok /\ r.tx.duty = d
  BY <1>2 DEF AfterError, Confirm, AnyConfirmed, End
<1> QED  BY <1>1, <1>2

\* A call is confirmed by a successful receipt of one of its own transactions.
LEMMA SendStepReceipts ==
  ASSUME NEW d \in Challenges, NEW late, NEW reverting, NEW result,
         SendStep(d, late, reverting, result), PoolOurs
  PROVE  /\ receipts' \subseteq receipts /\ PoolOurs'
         /\ result = "confirmed" => \E r \in receipts : r.ok /\ r.tx.duty = d
<1> DEFINE Goal == /\ receipts' \subseteq receipts /\ PoolOurs'
                   /\ result = "confirmed" => \E r \in receipts : r.ok /\ r.tx.duty = d
<1>0. Tx(d).duty = d
  BY DEF Tx
<1>1. CASE FetchNonce(d, result)
  BY <1>1 DEF FetchNonce, End, PoolOurs
<1>2. CASE CheckDeadline(d, late, result)
  BY <1>2 DEF CheckDeadline, End, PoolOurs
<1>3. CASE Attempt(d, reverting, result)
  <2>1. CASE Reverts(d, result)
    BY <2>1 DEF Reverts, Confirm, AnyConfirmed, End, PoolOurs
  <2>2. CASE Submitted(d, result)
    <3>1. PoolOurs'
      BY <1>0, <2>2 DEF Submitted, EnterPool, PoolOurs
    <3>2. (receipts' = receipts /\ result = "pending") \/ AfterError(d, result) \/ NextAttempt(d, result)
      BY <2>2 DEF Submitted, AfterOutage, AfterError
    <3> QED  BY <3>1, <3>2, AfterErrorReceipts
  <2>3. CASE NotSubmitted(d, result)
    BY <2>3, AfterErrorReceipts DEF NotSubmitted, AfterOutage, AfterError, PoolOurs
  <2> QED  BY <1>3, <2>1, <2>2, <2>3 DEF Attempt
<1>4. CASE AwaitReceipt(d, result)
  <2>1. PoolOurs'
    BY <1>4 DEF AwaitReceipt, PoolOurs
  <2>2. CASE \E r \in receipts : r.tx = Tx(d) /\ result = (IF r.ok THEN "confirmed" ELSE "failed")
             /\ End(d)
    BY <1>0, <2>1, <2>2 DEF End
  <2>3. CASE AfterError(d, result) \/ NextAttempt(d, result)
    BY <2>1, <2>3, AfterErrorReceipts
  <2> QED  BY <1>4, <2>2, <2>3 DEF AwaitReceipt
<1> QED  BY <1>1, <1>2, <1>3, <1>4 DEF SendStep

(***************************************************************************)
(* The contract beside the daemon.                                         *)
(***************************************************************************)

LEMMA PoolOursStep == PoolOurs /\ [ResponderNext]_respVars => PoolOurs'
<1> SUFFICES ASSUME PoolOurs, [ResponderNext]_respVars PROVE PoolOurs'
  OBVIOUS
<1>1. CASE UNCHANGED pool
  BY <1>1 DEF PoolOurs
<1>2. ASSUME NEW c \in Challenges, JobStep(c) PROVE PoolOurs'
  <2>1. CASE PrepareResponse(c)
    BY <1>1, <2>1 DEF PrepareResponse, SendUntil, chainSideVars, senderVars
  <2>2. CASE SendResponse(c)
    BY <2>2, SendStepReceipts DEF SendResponse
  <2> QED  BY <1>2, <2>1, <2>2 DEF JobStep
<1>3. ASSUME NEW t \in pool, IncludeResponse(t) \/ EvictResponse(t) PROVE PoolOurs'
  BY <1>3 DEF IncludeResponse, Include, EvictResponse, Evict, PoolOurs
<1>4. CASE UNCHANGED senderVars
  BY <1>1, <1>4 DEF senderVars, chainSideVars
<1>5. CASE Kill
  BY <1>1, <1>5 DEF Kill, SenderKilled
<1>6. CASE \/ UNCHANGED respVars \/ StakeProvider \/ Finalize \/ Clock
           \/ \E n \in 1..MaxLeafCount : Publish(n)
           \/ \E a \in Accounts, i \in 0..MaxLeafCount - 1, v \in BondValues, fee \in BaseFees :
                ChallengeProvider(a, {i}, v, fee)
           \/ \E c \in Challenges : TimeOut(c)
  BY <1>4, <1>6 DEF respVars, StakeProvider, Finalize, Clock, Publish, ChallengeProvider, TimeOut
<1>7. CASE FollowerStep
  BY <1>4, <1>7 DEF FollowerStep, Start, Reconcile, BeginScan, NoFinalizedBlock, FetchFails,
     PageDone, Drive, FetchPage
<1> QED  BY <1>2, <1>3, <1>5, <1>6, <1>7 DEF ResponderNext

\* A step of the daemon or the node is a step of the contract or leaves it alone.
LEMMA ResponderChainStep == PoolOurs /\ [ResponderNext]_respVars => [Next]_vars
<1> SUFFICES ASSUME PoolOurs, [ResponderNext]_respVars PROVE [Next]_vars
  OBVIOUS
<1>1. CASE UNCHANGED respVars \/ Finalize \/ Kill
  BY <1>1 DEF respVars, Finalize, Kill
<1>2. CASE FollowerStep
  BY <1>2 DEF FollowerStep, Start, Reconcile, BeginScan, NoFinalizedBlock, FetchFails,
     PageDone, Drive, FetchPage
<1>3. ASSUME NEW c \in Challenges, JobStep(c) PROVE [Next]_vars
  BY <1>3 DEF JobStep, PrepareResponse, SendResponse
<1>4. ASSUME NEW t \in pool, IncludeResponse(t) \/ EvictResponse(t) PROVE [Next]_vars
  BY <1>4, ProviderKnown DEF IncludeResponse, EvictResponse, PoolOurs, Challenges, Next,
     ChallengeAction
<1>5. CASE StakeProvider \/ Clock
  BY <1>5, ProviderKnown DEF StakeProvider, Clock, Next
<1>6. ASSUME NEW n \in 1..MaxLeafCount, Publish(n) PROVE [Next]_vars
  BY <1>6 DEF Publish, Next
<1>7. ASSUME NEW a \in Accounts, NEW i \in 0..MaxLeafCount - 1, NEW v \in BondValues,
             NEW fee \in BaseFees, ChallengeProvider(a, {i}, v, fee)
      PROVE  [Next]_vars
  <2>1. {i} \in SUBSET (0..MaxLeafCount - 1)
    OBVIOUS
  <2>2. OpenChallenge(a, Provider, {i}, v, fee)
    BY <1>7 DEF ChallengeProvider
  <2>3. ProviderAction(Provider)
    BY <2>1, <2>2 DEF ProviderAction
  <2> QED  BY <2>3, ProviderKnown DEF Next
<1>8. ASSUME NEW c \in Challenges, TimeOut(c) PROVE [Next]_vars
  BY <1>8 DEF TimeOut, Challenges, Next, ChallengeAction
<1> QED  BY <1>1, <1>2, <1>3, <1>4, <1>5, <1>6, <1>7, <1>8 DEF ResponderNext

LEMMA PoolOursHolds == ResponderSpec => []PoolOurs
<1>1. ResponderInit => PoolOurs
  BY DEF ResponderInit, SenderInit, PoolOurs
<1> QED  BY <1>1, PoolOursStep, PTL DEF ResponderSpec

\* The pair implements the contract: a response is executed only by respond(), whatever
\* is left in the pool, so every theorem about Spec holds of it.
THEOREM ResponderImplementsInstance == ResponderSpec => Spec
<1>1. ResponderInit => Init
  BY DEF ResponderInit
<1> QED  BY <1>1, ResponderChainStep, PoolOursHolds, PTL DEF ResponderSpec, Spec

(***************************************************************************)
(* The ledger.                                                             *)
(***************************************************************************)

\* The contract never reopens a challenge.
ResolvedStays == \A c \in Challenges : Resolved(c) => Resolved(c)'

LEMMA ResolveResolves ==
  ASSUME IInv, NEW c \in ChallengeIds, Resolve(c), Unresolved(c)
  PROVE  ResolvedStays /\ Resolved(c)'
<1>1. /\ nextChallengeId' = nextChallengeId
      /\ challengeRecords' = [challengeRecords EXCEPT ![c].resolved = TRUE]
  BY DEF Resolve
<1>2. challengeRecords \in [ChallengeIds -> Challenge] /\ challengeRecords[c] \in Challenge
  BY DEF IInv, TypeOK
<1>3. challengeRecords'[c].resolved /\ \A d \in ChallengeIds \ {c} :
        challengeRecords'[d] = challengeRecords[d]
  BY <1>1, <1>2 DEF Challenge
<1> QED  BY <1>1, <1>3 DEF ResolvedStays, Resolved, Assigned, Unresolved, Challenges

LEMMA ResolvedStaysStep == ASSUME IInv, [Next]_vars PROVE ResolvedStays
<1>1. CASE UNCHANGED challengeVars
  BY <1>1 DEF challengeVars, ResolvedStays, Resolved, Assigned
<1>2. CASE \/ Tick \/ UNCHANGED vars
           \/ \E n \in 1..MaxLeafCount : Declare(n)
           \/ \E op, wd \in Accounts : Stake(op, wd)
           \/ \E a \in Accounts : Claim(a)
  BY <1>1, <1>2 DEF Tick, vars, Declare, Stake, Claim
<1>3. ASSUME NEW p \in ProviderIds, NEW a \in Accounts,
             \/ Withdraw(p) \/ InitiateUnbonding(a, p) \/ BeginProof(a, p)
             \/ SubmitProof(a, p) \/ SubmitProofEscape(a, p) \/ Lapse(a, p)
      PROVE  ResolvedStays
  BY <1>1, <1>3 DEF Withdraw, InitiateUnbonding, BeginProof, SubmitProof, SubmitProofEscape,
     AcceptProof, Lapse
<1>4. ASSUME NEW p \in ProviderIds, NEW a \in Accounts, NEW indices, NEW v, NEW fee,
             OpenChallenge(a, p, indices, v, fee)
      PROVE  ResolvedStays
  <2> DEFINE id == nextChallengeId
             record == [providerId |-> p, challenger |-> a, bond |-> v, openedAt |-> now,
                        pinnedLeafCount |-> PinFor(p), indices |-> indices, resolved |-> FALSE]
  <2>1. /\ nextChallengeId \in Nat /\ nextChallengeId' = nextChallengeId + 1
        /\ challengeRecords' = [challengeRecords EXCEPT ![id] = record]
    BY <1>4, BoundsAssumption DEF OpenChallenge, IInv, TypeOK
  <2> HIDE DEF record
  <2> SUFFICES ASSUME NEW c \in ChallengeIds, Resolved(c) PROVE Resolved(c)'
    BY DEF ResolvedStays, Challenges
  <2>2. c \in Nat /\ c < nextChallengeId
    BY BoundsAssumption DEF ChallengeIds, Resolved, Assigned
  <2>3. challengeRecords'[c] = challengeRecords[c]
    BY <2>1, <2>2 DEF IInv, TypeOK
  <2> QED  BY <2>1, <2>2, <2>3 DEF Resolved, Assigned
<1>5. ASSUME NEW c \in ChallengeIds, NEW a, ResolveTimeout(c) \/ Respond(a, c)
      PROVE  ResolvedStays
  BY <1>5, ResolveResolves DEF ResolveTimeout, Respond, MayTimeOut, MayRespond
<1>6. ASSUME NEW p \in ProviderIds, ProviderAction(p) PROVE ResolvedStays
  <2>1. CASE Withdraw(p)
    BY <1>1, <2>1 DEF Withdraw
  <2> QED  BY <1>3, <1>4, <1>6, <2>1 DEF ProviderAction
<1> QED  BY <1>2, <1>5, <1>6 DEF Next, ChallengeAction

\* The ledgers that take nothing but resolved challenges as answered.
Truthful ==
  {l \in [Challenges -> {"absent", "open", "responded"}] :
     \A c \in Challenges : l[c] = "responded" => Resolved(c)}

LEMMA TruthfulStays == ASSUME ResolvedStays PROVE Truthful \subseteq Truthful'
  BY DEF Truthful, ResolvedStays, Challenges, ChallengeIds

LEMMA EmptyTruthful == EmptyLedger \in Truthful
  BY DEF Truthful, EmptyLedger

LEMMA ForgettingTruthful ==
  ASSUME NEW l \in Truthful, NEW c PROVE [l EXCEPT ![c] = "absent"] \in Truthful
  BY DEF Truthful

LEMMA ConsumedTruthful == ASSUME NEW l \in Truthful, NEW i PROVE Consumed(l, i) \in Truthful
<1> DEFINE c == events[i].id
<1>1. [l EXCEPT ![c] = "absent"] \in Truthful
  BY ForgettingTruthful
<1>2. [l EXCEPT ![c] = "open"] \in Truthful
  BY DEF Truthful
<1>3. Consumed(l, i) \in {l, [l EXCEPT ![c] = "absent"], [l EXCEPT ![c] = "open"]}
  BY DEF Consumed
<1> QED  BY <1>1, <1>2, <1>3

\* Consuming a page, whatever is left out of it, answers no challenge.
Page(l, from, to, dropped, after) ==
  after = [i \in from..to |-> IF i = from THEN l
                              ELSE IF i \in dropped THEN after[i - 1]
                              ELSE Consumed(after[i - 1], i)]

LEMMA PageExists ==
  ASSUME NEW l, NEW from \in Nat, NEW n \in Nat, NEW dropped
  PROVE  \E after : Page(l, from, from + n, dropped, after)
<1> DEFINE F == {k \in Nat : \E after : Page(l, from, from + k, dropped, after)}
<1>1. 0 \in F
  <2> DEFINE after == [i \in from..from + 0 |-> l]
  <2>1. Page(l, from, from + 0, dropped, after)
    BY DEF Page
  <2> QED  BY <2>1
<1>2. ASSUME NEW k \in F PROVE k + 1 \in F
  <2>1. PICK before : Page(l, from, from + k, dropped, before)
    BY <1>2
  <2> DEFINE last == from + (k + 1)
             next == IF last \in dropped THEN before[last - 1] ELSE Consumed(before[last - 1], last)
             after == [i \in from..last |-> IF i = last THEN next ELSE before[i]]
  <2>2. k \in Nat
    OBVIOUS
  <2>3. \A i \in from..from + k :
          before[i] = IF i = from THEN l
                      ELSE IF i \in dropped THEN before[i - 1]
                      ELSE Consumed(before[i - 1], i)
    BY <2>1 DEF Page
  <2>4. ASSUME NEW i \in from..last
        PROVE  after[i] = IF i = from THEN l
                          ELSE IF i \in dropped THEN after[i - 1]
                          ELSE Consumed(after[i - 1], i)
    <3>1. CASE i = last
      <4>1. last - 1 \in from..last /\ last - 1 # last /\ last # from
        BY <2>2
      <4>2. after[last - 1] = before[last - 1] /\ after[last] = next
        BY <4>1
      <4> QED  BY <3>1, <4>1, <4>2
    <3>2. CASE i # last
      <4>1. i \in from..from + k /\ (i # from => i - 1 \in from..last /\ i - 1 # last)
        BY <2>2, <3>2
      <4>2. after[i] = before[i] /\ (i # from => after[i - 1] = before[i - 1])
        BY <3>2, <4>1
      <4>3. before[i] = IF i = from THEN l
                        ELSE IF i \in dropped THEN before[i - 1]
                        ELSE Consumed(before[i - 1], i)
        BY <2>3, <4>1
      <4> HIDE DEF after
      <4> QED  BY <4>2, <4>3
    <3> QED  BY <3>1, <3>2
  <2>5. Page(l, from, last, dropped, after)
    BY <2>4 DEF Page
  <2> QED  BY <2>2, <2>5
<1>3. Nat \subseteq F
  <2> HIDE DEF F
  <2> QED  BY <1>1, <1>2, NumberInduction
<1> QED  BY <1>3

PageSteps(l, from, to, dropped, after) ==
  /\ ConsumedAll(l, from, to, dropped) = after[to]
  /\ \A i \in from..to : after[i] = IF i = from THEN l
                                   ELSE IF i \in dropped THEN after[i - 1]
                                   ELSE Consumed(after[i - 1], i)

LEMMA ConsumedAllPage ==
  ASSUME NEW l, NEW from \in Nat, NEW n \in Nat, NEW dropped
  PROVE  \E after : PageSteps(l, from, from + n, dropped, after)
<1>1. PICK after : after = CHOOSE g : Page(l, from, from + n, dropped, g)
  OBVIOUS
<1>2. Page(l, from, from + n, dropped, after)
  BY <1>1, PageExists
<1>3. ConsumedAll(l, from, from + n, dropped) = after[from + n]
  BY <1>1 DEF ConsumedAll, Page
<1> QED  BY <1>2, <1>3 DEF Page, PageSteps

LEMMA ConsumedAllTruthful ==
  ASSUME NEW l \in Truthful, NEW from \in Nat, NEW to \in Nat, from <= to, NEW dropped
  PROVE  ConsumedAll(l, from, to, dropped) \in Truthful
<1>1. PICK n \in Nat : to = from + n
  <2>1. to - from \in Nat /\ to = from + (to - from)
    OBVIOUS
  <2> QED  BY <2>1
<1>0. PICK after : PageSteps(l, from, from + n, dropped, after)
  BY ConsumedAllPage
<1>2. /\ ConsumedAll(l, from, to, dropped) = after[to]
      /\ \A i \in from..to : after[i] = IF i = from THEN l
                                       ELSE IF i \in dropped THEN after[i - 1]
                                       ELSE Consumed(after[i - 1], i)
  BY <1>0, <1>1 DEF PageSteps
<1>4. ConsumedAll(l, from, to, dropped) = after[to]
  BY <1>2
<1>5. \A i \in from..to : after[i] = IF i = from THEN l
                                     ELSE IF i \in dropped THEN after[i - 1]
                                     ELSE Consumed(after[i - 1], i)
  BY <1>2
<1> DEFINE F == {k \in Nat : k <= n => after[from + k] \in Truthful}
<1>6. 0 \in F
  BY <1>1, <1>5
<1>7. ASSUME NEW k \in F PROVE k + 1 \in F
  <2>1. k \in Nat /\ (k <= n => after[from + k] \in Truthful)
    OBVIOUS
  <2> DEFINE i == from + (k + 1)
  <2> SUFFICES ASSUME k + 1 <= n PROVE after[i] \in Truthful
    BY <2>1
  <2>2. i \in from..to /\ i # from /\ i - 1 = from + k /\ k <= n
    BY <1>1, <2>1
  <2>3. after[i] = IF i \in dropped THEN after[from + k] ELSE Consumed(after[from + k], i)
    BY <1>5, <2>2
  <2> HIDE DEF i
  <2> QED  BY <2>1, <2>2, <2>3, ConsumedTruthful
<1>8. Nat \subseteq F
  <2> HIDE DEF F
  <2> QED  BY <1>6, <1>7, NumberInduction
<1> QED  BY <1>1, <1>4, <1>8

-----------------------------------------------------------------------------

\* A receipt of success is one of an answer the contract took.
ReceiptsTrue == \A r \in receipts : r.ok => r.tx.duty \in Challenges /\ Resolved(r.tx.duty)

\* The log and the positions in it.
LogTypes ==
  /\ events \in Seq([kind : {"opened", "answered", "timedOut", "refunded"}, id : Challenges])
  /\ enfCursor \in Nat /\ enfCursorFile \in Nat \cup {Empty} /\ pageEnd \in Nat

\* RespondedIsAnswered is not inductive alone: a job marks its entry upon a receipt, and
\* a start takes what the file says.
LedgerInv ==
  /\ PoolOurs /\ LogTypes /\ ReceiptsTrue
  /\ ledger \in Truthful /\ ledgerFile \in Truthful

LEMMA InitLedgerInv == ResponderInit => LedgerInv
  BY EmptyTruthful DEF ResponderInit, SenderInit, LedgerInv, PoolOurs, LogTypes, ReceiptsTrue

LEMMA LogTypesStep == ASSUME IInv, LedgerInv, [ResponderNext]_respVars PROVE LogTypes'
<1> USE DEF LedgerInv, LogTypes
<1>1. CASE UNCHANGED <<events, enfCursor, enfCursorFile, pageEnd>>
  BY <1>1
<1>2. ASSUME NEW kind \in {"opened", "answered", "timedOut", "refunded"}, NEW c \in Challenges,
             Emit(kind, c), UNCHANGED <<enfCursor, enfCursorFile, pageEnd>>
      PROVE  LogTypes'
  BY <1>2 DEF Emit
<1>3. CASE \/ UNCHANGED respVars \/ StakeProvider \/ Finalize \/ Clock
           \/ (\E n \in 1..MaxLeafCount : Publish(n)) \/ (\E t \in pool : EvictResponse(t))
           \/ \E c \in Challenges : JobStep(c)
  BY <1>1, <1>3 DEF respVars, StakeProvider, Finalize, Clock, Publish, EvictResponse, JobStep,
     PrepareResponse, SendResponse, chainLogVars, daemonVars, scanVars
<1>4. ASSUME NEW a \in Accounts, NEW i \in 0..MaxLeafCount - 1, NEW v \in BondValues,
             NEW fee \in BaseFees, ChallengeProvider(a, {i}, v, fee)
      PROVE  LogTypes'
  BY <1>2, <1>4 DEF ChallengeProvider, OpenChallenge, Challenges, daemonVars, scanVars
<1>5. ASSUME NEW c \in Challenges, TimeOut(c) PROVE LogTypes'
  BY <1>2, <1>5 DEF TimeOut, daemonVars, scanVars
<1>6. ASSUME NEW t \in pool, IncludeResponse(t) PROVE LogTypes'
  BY <1>1, <1>2, <1>6 DEF IncludeResponse, PoolOurs, daemonVars, scanVars
<1>7. CASE Kill
  BY <1>7 DEF Kill, CutShort, chainLogVars
<1>8. CASE FollowerStep
  <2>1. CASE Start \/ Reconcile \/ BeginScan \/ NoFinalizedBlock \/ FetchFails \/ PageDone \/ Drive
    BY <1>1, <2>1 DEF Start, Reconcile, CursorsParse, BeginScan, NoFinalizedBlock, FetchFails, PageDone,
       Drive, SetEnfCursor, scanVars, chainLogVars
  <2>2. ASSUME NEW to \in 1..Len(events), NEW dropped, FetchPage(to, dropped) PROVE LogTypes'
    <3>1. events' = events /\ to \in Nat
      BY <2>2 DEF FetchPage, chainLogVars
    <3>2. UNCHANGED <<enfCursor, enfCursorFile>>
      BY <2>2 DEF FetchPage
    <3>3. pageEnd' = to \/ \E i \in (enfCursor + 1..to) \ dropped : pageEnd' = i - 1
      BY <2>2 DEF FetchPage
    <3> QED  BY <3>1, <3>2, <3>3
  <2> QED  BY <1>8, <2>1, <2>2 DEF FollowerStep
<1> QED  BY <1>3, <1>4, <1>5, <1>6, <1>7, <1>8 DEF ResponderNext

LEMMA ReceiptsTrueStep ==
  ASSUME IInv, LedgerInv, ResolvedStays, [ResponderNext]_respVars PROVE ReceiptsTrue'
<1>0. ASSUME receipts' \subseteq receipts PROVE ReceiptsTrue'
  BY <1>0 DEF LedgerInv, ReceiptsTrue, ResolvedStays
<1>1. ASSUME NEW t \in pool, IncludeResponse(t) PROVE ReceiptsTrue'
  <2>1. t.duty \in ChallengeIds
    BY DEF LedgerInv, PoolOurs, Challenges
  <2>2. receipts' \subseteq receipts \cup {[tx |-> t, ok |-> MayRespond(t.duty)]}
    BY <1>1 DEF IncludeResponse, Include
  <2>3. MayRespond(t.duty) => Resolved(t.duty)'
    BY <1>1, <2>1, ResolveResolves DEF IncludeResponse, Respond, MayRespond
  <2> QED  BY <2>1, <2>2, <2>3 DEF LedgerInv, ReceiptsTrue, ResolvedStays, Challenges
<1>2. ASSUME NEW c \in Challenges, JobStep(c) PROVE ReceiptsTrue'
  <2>1. CASE PrepareResponse(c)
    BY <1>0, <2>1 DEF PrepareResponse, SendUntil, chainSideVars, senderVars
  <2>2. CASE SendResponse(c)
    BY <1>0, <2>2, SendStepReceipts DEF SendResponse, LedgerInv
  <2> QED  BY <1>2, <2>1, <2>2 DEF JobStep
<1>3. CASE UNCHANGED senderVars
  BY <1>0, <1>3 DEF senderVars, chainSideVars
<1>4. CASE Kill \/ \E t \in pool : EvictResponse(t)
  BY <1>0, <1>4 DEF Kill, SenderKilled, EvictResponse, Evict
<1>5. CASE \/ UNCHANGED respVars \/ StakeProvider \/ Finalize \/ Clock
           \/ \E n \in 1..MaxLeafCount : Publish(n)
           \/ \E a \in Accounts, i \in 0..MaxLeafCount - 1, v \in BondValues, fee \in BaseFees :
                ChallengeProvider(a, {i}, v, fee)
           \/ \E c \in Challenges : TimeOut(c)
  BY <1>3, <1>5 DEF respVars, StakeProvider, Finalize, Clock, Publish, ChallengeProvider, TimeOut
<1>6. CASE FollowerStep
  BY <1>3, <1>6 DEF FollowerStep, Start, Reconcile, BeginScan, NoFinalizedBlock, FetchFails,
     PageDone, Drive, FetchPage
<1> QED  BY <1>1, <1>2, <1>4, <1>5, <1>6 DEF ResponderNext

\* Every step leaves the ledger in memory and on disk truthful about the state it starts
\* in, except for the entry of a call that was confirmed.
LEMMA LedgersStep ==
  ASSUME IInv, LedgerInv, [ResponderNext]_respVars
  PROVE  ledger' \in Truthful /\ ledgerFile' \in Truthful
<1>0. ledger \in Truthful /\ ledgerFile \in Truthful
  BY DEF LedgerInv
<1>1. CASE UNCHANGED ledgerVars
  BY <1>0, <1>1 DEF ledgerVars
<1>2. CASE UNCHANGED daemonVars
  BY <1>1, <1>2 DEF daemonVars
<1>3. CASE \/ UNCHANGED respVars \/ StakeProvider \/ Finalize \/ Clock
           \/ \E n \in 1..MaxLeafCount : Publish(n)
           \/ \E a \in Accounts, i \in 0..MaxLeafCount - 1, v \in BondValues, fee \in BaseFees :
                ChallengeProvider(a, {i}, v, fee)
           \/ \E c \in Challenges : TimeOut(c)
           \/ \E t \in pool : IncludeResponse(t) \/ EvictResponse(t)
  BY <1>2, <1>3 DEF respVars, StakeProvider, Finalize, Clock, Publish, ChallengeProvider, TimeOut,
     IncludeResponse, EvictResponse
<1>4. ASSUME NEW c \in Challenges, JobStep(c) PROVE ledger' \in Truthful /\ ledgerFile' \in Truthful
  <2>1. ASSUME ledger' \in Truthful, NEW result, Persist(result)
        PROVE  ledgerFile' \in Truthful
    BY <1>0, <2>1 DEF Persist
  <2>2. CASE PrepareResponse(c)
    <3>1. CASE UNCHANGED <<ledgerVars, writeFails>>
      BY <1>1, <3>1
    <3>2. CASE \E result \in {"ok", "error"} : Forget(c, result)
      <4>1. PICK result : Forget(c, result)
        BY <3>2
      <4>2. CASE ledger' = [ledger EXCEPT ![c] = "absent"] /\ Persist(result)
        BY <1>0, <2>1, <4>2, ForgettingTruthful
      <4> QED  BY <1>1, <4>1, <4>2 DEF Forget, Unchanged
    <3> QED  BY <2>2, <3>1, <3>2 DEF PrepareResponse
  <2>3. CASE SendResponse(c)
    <3>1. CASE UNCHANGED <<ledgerVars, writeFails>>
      BY <1>1, <3>1
    <3>2. ASSUME NEW written, MarkResponded(c, written),
                 SendStep(c, Expired(c), ~MayRespond(c), "confirmed")
          PROVE  ledger' \in Truthful /\ ledgerFile' \in Truthful
      <4>1. Resolved(c)
        BY <3>2, SendStepReceipts DEF LedgerInv, ReceiptsTrue
      <4>2. [ledger EXCEPT ![c] = "responded"] \in Truthful
        BY <1>0, <4>1 DEF Truthful
      <4>3. CASE ledger' = [ledger EXCEPT ![c] = "responded"] /\ Persist(written)
        BY <2>1, <4>2, <4>3
      <4> QED  BY <1>1, <3>2, <4>3 DEF MarkResponded, Unchanged
    <3> QED  BY <2>3, <3>1, <3>2 DEF SendResponse
  <2> QED  BY <1>4, <2>2, <2>3 DEF JobStep
<1>5. CASE Kill
  BY <1>0, <1>5, EmptyTruthful DEF Kill
<1>6. CASE FollowerStep
  <2>1. CASE Start
    BY <1>0, <2>1 DEF Start
  <2>2. CASE Reconcile
    <3>1. ASSUME NEW l \in Truthful, NEW S PROVE Without(l, S) \in Truthful
      BY <3>1 DEF Without, Truthful
    <3> QED  BY <1>0, <2>2, <3>1, EmptyTruthful DEF Reconcile
  <2>3. CASE BeginScan \/ NoFinalizedBlock \/ FetchFails \/ PageDone \/ Drive
    BY <1>1, <2>3 DEF BeginScan, NoFinalizedBlock, FetchFails, PageDone, Drive
  <2>4. ASSUME NEW to \in 1..Len(events), NEW dropped, FetchPage(to, dropped)
        PROVE  ledger' \in Truthful /\ ledgerFile' \in Truthful
    <3>1. enfCursor \in Nat /\ to \in Nat /\ enfCursor <= to
      BY <2>4 DEF FetchPage, LedgerInv, LogTypes
    <3>2. CASE /\ ledger' = ConsumedAll(ledger, enfCursor, to, dropped)
               /\ ledgerFile' = (IF ledger' = ledger THEN ledgerFile ELSE ledger')
      BY <1>0, <3>1, <3>2, ConsumedAllTruthful
    <3>3. ASSUME NEW i \in (enfCursor + 1..to) \ dropped, NEW before,
                 before = ConsumedAll(ledger, enfCursor, i - 1, dropped),
                 ledger' = Consumed(before, i),
                 ledgerFile' = (IF before = ledger THEN ledgerFile ELSE before)
          PROVE  ledger' \in Truthful /\ ledgerFile' \in Truthful
      <4>1. i - 1 \in Nat /\ enfCursor <= i - 1
        BY <3>1
      <4>2. before \in Truthful
        BY <1>0, <3>1, <3>3, <4>1, ConsumedAllTruthful
      <4> QED  BY <1>0, <3>3, <4>2, ConsumedTruthful
    <3> QED  BY <2>4, <3>2, <3>3 DEF FetchPage
  <2> QED  BY <1>6, <2>1, <2>2, <2>3, <2>4 DEF FollowerStep
<1> QED  BY <1>3, <1>4, <1>5, <1>6 DEF ResponderNext

LEMMA LedgerStep == IInv /\ LedgerInv /\ [ResponderNext]_respVars => LedgerInv'
<1> SUFFICES ASSUME IInv, LedgerInv, [ResponderNext]_respVars PROVE LedgerInv'
  OBVIOUS
<1>1. ResolvedStays
  BY ResponderChainStep, ResolvedStaysStep DEF LedgerInv
<1>2. PoolOurs' /\ LogTypes' /\ ReceiptsTrue'
  BY <1>1, PoolOursStep, LogTypesStep, ReceiptsTrueStep DEF LedgerInv
<1>3. ledger' \in Truthful' /\ ledgerFile' \in Truthful'
  BY <1>1, LedgersStep, TruthfulStays
<1> QED  BY <1>2, <1>3 DEF LedgerInv

\* A challenge marked as answered, in memory or on disk, was resolved by the contract,
\* over any failures of node, disk and process.
THEOREM RespondedIsAnsweredHolds == ResponderSpec => []RespondedIsAnswered
<1>1. LedgerInv => RespondedIsAnswered
  BY DEF LedgerInv, Truthful, RespondedIsAnswered
<1>2. ResponderSpec => []IInv
  BY ResponderImplementsInstance, InvariantHolds, PTL
<1> QED  BY <1>1, <1>2, InitLedgerInv, LedgerStep, PTL DEF ResponderSpec

(***************************************************************************)
(* What is on disk before the cursor passes it.                            *)
(***************************************************************************)

\* No node leaves an opening out of an answer, and no write of ledger or cursor has failed.
Careful == "opened" \notin DroppableKinds /\ writeFails = 0

\* The other half of the finding on OpenedIsOnDisk: the documented rule holds as long as
\* no opening is left out by a node and no write fails, whatever else goes wrong.
OpenedIsOnDiskIfCareful == Careful => OpenedIsOnDisk

\* The first n events have left their mark on ledger l, now or after a step.
Recorded(l, n) ==
  \A i \in 1..n, c \in Challenges :
    events[i].kind = "opened" /\ events[i].id = c /\ ~Resolved(c) => l[c] # "absent"
RecordedNext(l, n) ==
  \A i \in 1..n, c \in Challenges :
    events'[i].kind = "opened" /\ events'[i].id = c /\ ~Resolved(c)' => l[c] # "absent"

LogInv ==
  /\ final \in Nat /\ final <= Len(events) /\ writeFails \in Nat
  /\ \A i \in 1..Len(events), c \in Challenges :
       events[i].kind # "opened" /\ events[i].id = c => Resolved(c)

\* What the two files and the memory say, and how far the scan has got.
Scanning == pc \notin {"down", "reconcile"}
KeptInv ==
  Careful => /\ enfCursorFile # Empty => Recorded(ledgerFile, enfCursorFile)
             /\ Scanning => enfCursorFile # Empty
             /\ pc # "halt" /\ (pc = "page" => Recorded(ledgerFile, pageEnd))
             /\ pc # "down" => ledger = ledgerFile
ScanInv ==
  /\ LogInv
  /\ enfCursor <= final
  /\ enfCursorFile # Empty => enfCursorFile <= final
  /\ Scanning => enfCursorFile \in {enfCursor, Empty}
  /\ pc \in {"page", "halt"} => pageEnd <= final
  /\ Scanning \/ \A c \in Challenges : job[c] = "none"
  /\ KeptInv

LEMMA InitScanInv == ResponderInit => ScanInv
  BY ResponderAssumption DEF ResponderInit, SenderInit, ScanInv, LogInv, KeptInv, Recorded, Scanning

\* The log only grows, and only by an event on a challenge that is settled with it, or by
\* an opening; what is final of it only grows.
LogKept ==
  /\ Len(events') \in Nat /\ Len(events) <= Len(events')
  /\ \A i \in 1..Len(events) : events'[i] = events[i]
  /\ final' \in Nat /\ final <= final' /\ final' <= Len(events')
  /\ \A i \in 1..Len(events'), c \in Challenges :
       events'[i].kind # "opened" /\ events'[i].id = c => Resolved(c)'

LEMMA EventIds ==
  ASSUME LedgerInv
  PROVE  /\ Len(events) \in Nat /\ \A i \in 1..Len(events) : events[i].id \in Challenges
         /\ \A e : /\ Len(Append(events, e)) = Len(events) + 1
                   /\ \A i \in 1..Len(events) : Append(events, e)[i] = events[i]
                   /\ Append(events, e)[Len(events) + 1] = e
<1>1. PICK S : S = [kind : {"opened", "answered", "timedOut", "refunded"}, id : Challenges]
  OBVIOUS
<1>2. events \in Seq(S)
  BY <1>1 DEF LedgerInv, LogTypes
<1>3. Len(events) \in Nat /\ \A i \in 1..Len(events) : events[i] \in S
  BY <1>2
<1>4. \A i \in 1..Len(events) : events[i].id \in Challenges
  BY <1>1, <1>3
<1>5. ASSUME NEW e
      PROVE  /\ Len(Append(events, e)) = Len(events) + 1
             /\ \A i \in 1..Len(events) : Append(events, e)[i] = events[i]
             /\ Append(events, e)[Len(events) + 1] = e
  <2>1. events \in Seq(S \cup {e}) /\ e \in S \cup {e}
    BY <1>2, SeqMonotonic
  <2> QED  BY <2>1, AppendProperties
<1> QED  BY <1>3, <1>4, <1>5

LEMMA EmitKeepsLog ==
  ASSUME LedgerInv, LogInv, ResolvedStays, NEW kind, NEW c \in Challenges, Emit(kind, c),
         final' = final, kind # "opened" => Resolved(c)'
  PROVE  LogKept
<1> DEFINE e == [kind |-> kind, id |-> c]
<1>0. e.kind = kind /\ e.id = c
  OBVIOUS
<1> HIDE DEF e
<1>1. events' = Append(events, e)
  BY DEF Emit, e
<1>2. /\ Len(events) \in Nat /\ Len(events') = Len(events) + 1
      /\ \A i \in 1..Len(events) : events'[i] = events[i]
      /\ events'[Len(events) + 1] = e
  BY <1>1, EventIds
<1>3. \A i \in 1..Len(events) : events[i].id \in Challenges
  BY EventIds
<1>4. ASSUME NEW i \in 1..Len(events'), NEW d \in Challenges, events'[i].kind # "opened",
             events'[i].id = d
      PROVE  Resolved(d)'
  <2>1. CASE i \in 1..Len(events)
    BY <1>2, <1>3, <1>4, <2>1 DEF LogInv, ResolvedStays
  <2>2. CASE i = Len(events) + 1
    BY <1>0, <1>2, <1>4, <2>2
  <2> QED  BY <1>2, <2>1, <2>2
<1> QED  BY <1>2, <1>4 DEF LogKept, LogInv

LEMMA LogKeptStep ==
  ASSUME IInv, LedgerInv, LogInv, ResolvedStays, [ResponderNext]_respVars PROVE LogKept
<1>1. Len(events) \in Nat /\ \A i \in 1..Len(events) : events[i].id \in Challenges
  BY EventIds
<1>2. ASSUME events' = events, final' \in {final, final + 1}, final' <= Len(events) PROVE LogKept
  BY <1>1, <1>2 DEF LogInv, LogKept, ResolvedStays
<1>3. ASSUME UNCHANGED chainLogVars PROVE LogKept
  BY <1>1, <1>3 DEF LogInv, LogKept, ResolvedStays, chainLogVars
<1>4. CASE \/ UNCHANGED respVars \/ StakeProvider \/ Clock \/ Kill
           \/ (\E n \in 1..MaxLeafCount : Publish(n)) \/ (\E t \in pool : EvictResponse(t))
           \/ \E c \in Challenges : JobStep(c)
  BY <1>3, <1>4 DEF respVars, StakeProvider, Clock, Kill, Publish, EvictResponse, JobStep,
     PrepareResponse, SendResponse
<1>5. CASE Finalize
  BY <1>1, <1>2, <1>5 DEF Finalize, LogInv
<1>6. CASE FollowerStep
  BY <1>3, <1>6 DEF FollowerStep, Start, Reconcile, BeginScan, NoFinalizedBlock, FetchFails,
     PageDone, Drive, FetchPage
<1>7. ASSUME NEW a \in Accounts, NEW i \in 0..MaxLeafCount - 1, NEW v \in BondValues,
             NEW fee \in BaseFees, ChallengeProvider(a, {i}, v, fee)
      PROVE  LogKept
  <2>1. nextChallengeId \in Challenges
    BY <1>7 DEF ChallengeProvider, OpenChallenge, Challenges
  <2> QED  BY <1>7, <2>1, EmitKeepsLog DEF ChallengeProvider
<1>8. ASSUME NEW c \in Challenges, TimeOut(c) PROVE LogKept
  <2>1. Resolved(c)'
    BY <1>8, ResolveResolves DEF TimeOut, ResolveTimeout, MayTimeOut, Challenges
  <2> QED  BY <1>8, <2>1, EmitKeepsLog DEF TimeOut
<1>9. ASSUME NEW t \in pool, IncludeResponse(t) PROVE LogKept
  <2>1. t.duty \in Challenges
    BY DEF LedgerInv, PoolOurs
  <2>2. CASE Respond(Operator, t.duty) /\ Emit("answered", t.duty)
    <3>1. Resolved(t.duty)'
      BY <2>1, <2>2, ResolveResolves DEF Respond, MayRespond, Challenges
    <3> QED  BY <1>9, <2>1, <2>2, <3>1, EmitKeepsLog DEF IncludeResponse
  <2>3. CASE UNCHANGED events
    BY <1>3, <1>9, <2>3 DEF IncludeResponse, chainLogVars
  <2> QED  BY <1>9, <2>2, <2>3 DEF IncludeResponse
<1> QED  BY <1>4, <1>5, <1>6, <1>7, <1>8, <1>9 DEF ResponderNext

\* What a ledger has recorded it has still recorded when the log has grown, and so has
\* one that has lost only settled challenges.
LEMMA RecordedStays ==
  ASSUME LedgerInv, LogKept, ResolvedStays, NEW l, NEW m, NEW n \in Nat, n <= Len(events),
         Recorded(l, n),
         \A c \in Challenges : l[c] # "absent" => m[c] # "absent" \/ Resolved(c)
  PROVE  RecordedNext(m, n)
<1> SUFFICES ASSUME NEW i \in 1..n, NEW c \in Challenges, events'[i].kind = "opened",
                    events'[i].id = c, ~Resolved(c)'
             PROVE  m[c] # "absent"
  BY DEF RecordedNext
<1>1. i \in 1..Len(events) /\ events'[i] = events[i] /\ events[i].id \in Challenges
  BY EventIds DEF LogKept
<1> QED  BY <1>1 DEF Recorded, ResolvedStays

LEMMA ConsumedRecords ==
  ASSUME LedgerInv, LogInv, NEW l \in Truthful, NEW i \in 1..Len(events), Recorded(l, i - 1)
  PROVE  Recorded(Consumed(l, i), i)
<1> SUFFICES ASSUME NEW j \in 1..i, NEW c \in Challenges, events[j].kind = "opened",
                    events[j].id = c, ~Resolved(c)
             PROVE  Consumed(l, i)[c] # "absent"
  BY DEF Recorded
<1> DEFINE d == events[i].id
<1>1. Len(events) \in Nat /\ c \in Challenges /\ d \in Challenges
  BY EventIds
<1>2. j # i => l[c] # "absent"
  BY <1>1 DEF Recorded
<1>3. l \in [Challenges -> {"absent", "open", "responded"}]
  BY DEF Truthful
<1>4. CASE events[i].kind # "opened"
  <2>1. c # d /\ j # i
    BY <1>4 DEF LogInv
  <2> QED  BY <1>1, <1>2, <1>3, <1>4, <2>1 DEF Consumed
<1>5. CASE events[i].kind = "opened"
  BY <1>1, <1>2, <1>3, <1>5 DEF Consumed
<1> QED  BY <1>4, <1>5

\* No opening is among the events left out.
OpeningsSeen(from, to, dropped) ==
  \A i \in from + 1..to : i \in dropped => events[i].kind # "opened"

LEMMA ConsumedAllRecords ==
  ASSUME LedgerInv, LogInv, NEW l \in Truthful, NEW from \in Nat, NEW to \in Nat, from <= to,
         to <= Len(events), Recorded(l, from), NEW dropped,
         OpeningsSeen(from, to, dropped)
  PROVE  Recorded(ConsumedAll(l, from, to, dropped), to)
<1>1. PICK n \in Nat : to = from + n
  <2>1. to - from \in Nat /\ to = from + (to - from)
    OBVIOUS
  <2> QED  BY <2>1
<1>0. PICK after : PageSteps(l, from, from + n, dropped, after)
  BY ConsumedAllPage
<1>2. /\ ConsumedAll(l, from, to, dropped) = after[to]
      /\ \A i \in from..to : after[i] = IF i = from THEN l
                                       ELSE IF i \in dropped THEN after[i - 1]
                                       ELSE Consumed(after[i - 1], i)
  BY <1>0, <1>1 DEF PageSteps
<1> DEFINE F == {k \in Nat : k <= n => /\ after[from + k] \in Truthful
                                       /\ Recorded(after[from + k], from + k)}
<1>3. 0 \in F
  BY <1>1, <1>2
<1>4. ASSUME NEW k \in F PROVE k + 1 \in F
  <2>1. k \in Nat /\ (k <= n => /\ after[from + k] \in Truthful
                                /\ Recorded(after[from + k], from + k))
    OBVIOUS
  <2> DEFINE i == from + (k + 1)
  <2> SUFFICES ASSUME k + 1 <= n PROVE after[i] \in Truthful /\ Recorded(after[i], i)
    BY <2>1
  <2>2. i \in from..to /\ i # from /\ i - 1 = from + k /\ k <= n /\ i \in 1..Len(events)
    BY <1>1, <2>1, EventIds
  <2>3. after[i] = IF i \in dropped THEN after[from + k] ELSE Consumed(after[from + k], i)
    BY <1>2, <2>2
  <2>4. after[from + k] \in Truthful /\ Recorded(after[from + k], i - 1)
    BY <2>1, <2>2
  <2> HIDE DEF i
  <2>5. CASE i \in dropped
    <3>1. \A j \in 1..i : events[j].kind = "opened" => j \in 1..i - 1
      BY <2>2, <2>5 DEF OpeningsSeen
    <3> QED  BY <2>3, <2>4, <2>5, <3>1 DEF Recorded
  <2>6. CASE i \notin dropped
    BY <2>2, <2>3, <2>4, <2>6, ConsumedTruthful, ConsumedRecords
  <2> QED  BY <2>5, <2>6
<1>5. Nat \subseteq F
  <2> HIDE DEF F
  <2> QED  BY <1>3, <1>4, NumberInduction
<1>6. n \in F
  <2> HIDE DEF F
  <2> QED  BY <1>5
<1> QED  BY <1>1, <1>2, <1>6

\* What the first n events have left on a ledger is still there after a step that takes
\* nothing but settled challenges off it.
LEMMA KeptStays ==
  ASSUME LedgerInv, ScanInv, LogKept, ResolvedStays, writeFails' \in Nat,
         writeFails' = 0 => writeFails = 0,
         Careful =>
           \A c \in Challenges : ledgerFile[c] # "absent" => ledgerFile'[c] # "absent" \/ Resolved(c),
         \/ enfCursorFile' \in {0, enfCursorFile, Empty}
         \/ pc \in {"page", "halt"} /\ enfCursorFile' = pageEnd,
         enfCursor' \in {0, enfCursor} \/ (enfCursor' = enfCursorFile' /\ enfCursorFile' # Empty),
         pc' \in {"page", "halt"} => pc' = pc /\ pageEnd' = pageEnd,
         Careful /\ Careful' /\ pc' # "down" => ledger' = ledgerFile',
         Scanning' => enfCursorFile' \in {enfCursor', Empty},
         Careful /\ Careful' /\ Scanning' => enfCursorFile' # Empty,
         Scanning' \/ \A c \in Challenges : job'[c] = "none"
  PROVE  ScanInv'
<1>1. LogInv'
  BY DEF LogKept, LogInv
<1>2. /\ enfCursorFile # Empty => enfCursorFile \in Nat /\ enfCursorFile <= Len(events)
      /\ enfCursor \in Nat /\ pageEnd \in Nat /\ Len(events) \in Nat /\ final \in Nat
      /\ pc \in {"page", "halt"} => pageEnd <= Len(events)
  BY EventIds DEF LedgerInv, LogTypes, ScanInv, LogInv
<1>3. /\ enfCursorFile' # Empty => enfCursorFile' <= final'
      /\ enfCursor' <= final' /\ (pc' \in {"page", "halt"} => pageEnd' <= final')
  BY <1>2 DEF ScanInv, LogKept
<1>4. ASSUME Careful'
      PROVE  /\ enfCursorFile' # Empty => RecordedNext(ledgerFile', enfCursorFile')
             /\ pc' # "halt" /\ (pc' = "page" => RecordedNext(ledgerFile', pageEnd'))
  <2>1. Careful
    BY <1>4 DEF Careful
  <2>2. /\ enfCursorFile # Empty => RecordedNext(ledgerFile', enfCursorFile)
        /\ pc = "page" => RecordedNext(ledgerFile', pageEnd)
    BY <1>2, <2>1, RecordedStays DEF ScanInv, KeptInv
  <2>3. RecordedNext(ledgerFile', 0)
    BY DEF RecordedNext
  <2>4. pc # "halt"
    BY <2>1 DEF ScanInv, KeptInv
  <2> QED  BY <2>2, <2>3, <2>4
<1>5. Careful' => Careful
  BY DEF Careful
<1>6. KeptInv'
  BY <1>4, <1>5 DEF KeptInv, Recorded, RecordedNext
<1> QED  BY <1>1, <1>3, <1>6 DEF ScanInv

LEMMA WrittenType ==
  ASSUME LogInv, NEW result, Written(result)
  PROVE  /\ writeFails' \in Nat /\ (writeFails' = 0 => writeFails = 0)
         /\ writeFails' = 0 => result = "ok"
  BY DEF LogInv, Written

LEMMA JobScanStep ==
  ASSUME IInv, LedgerInv, ScanInv, LogKept, ResolvedStays, NEW c \in Challenges, JobStep(c)
  PROVE  ScanInv'
<1>0. writeFails \in Nat /\ ledger \in [Challenges -> {"absent", "open", "responded"}]
  BY DEF ScanInv, LogInv, LedgerInv, Truthful
<1>1. UNCHANGED <<pc, scanVars>> /\ Scanning /\ Scanning'
  BY DEF JobStep, PrepareResponse, SendResponse, ScanInv, Scanning
<1>2. ASSUME UNCHANGED <<ledgerVars, writeFails>> PROVE ScanInv'
  BY <1>0, <1>1, <1>2, KeptStays DEF ledgerVars, scanVars, ScanInv, KeptInv
<1>3. ASSUME NEW result, NEW mark, ledger' = [ledger EXCEPT ![c] = mark], Persist(result),
             mark # "absent" \/ Resolved(c)
      PROVE  ScanInv'
  <2>1. writeFails' \in Nat /\ (writeFails' = 0 => writeFails = 0 /\ result = "ok")
    BY <1>3, WrittenType DEF Persist, ScanInv
  <2>2. ledgerFile' = IF result = "ok" THEN ledger' ELSE ledgerFile
    BY <1>3 DEF Persist
  <2>3. Careful => ledger = ledgerFile /\ enfCursorFile # Empty
    BY <1>1 DEF ScanInv, KeptInv, Scanning
  <2>4. ASSUME Careful, NEW d \in Challenges, ledgerFile[d] # "absent"
        PROVE  ledgerFile'[d] # "absent" \/ Resolved(d)
    BY <1>0, <1>3, <2>2, <2>3, <2>4
  <2>5. Careful' => ledger' = ledgerFile'
    BY <2>1, <2>2 DEF Careful
  <2> QED  BY <1>1, <2>1, <2>3, <2>4, <2>5, KeptStays DEF scanVars, ScanInv
<1>4. CASE PrepareResponse(c)
  <2>1. CASE Resolved(c) /\ \E result \in {"ok", "error"} : Forget(c, result)
    BY <1>2, <1>3, <2>1 DEF Forget, Unchanged
  <2> QED  BY <1>2, <1>4, <2>1 DEF PrepareResponse
<1>5. CASE SendResponse(c)
  <2>1. ASSUME NEW written, MarkResponded(c, written) PROVE ScanInv'
    BY <1>2, <1>3, <2>1 DEF MarkResponded, Unchanged
  <2> QED  BY <1>2, <1>5, <2>1 DEF SendResponse
<1> QED  BY <1>4, <1>5 DEF JobStep

LEMMA FetchScanStep ==
  ASSUME IInv, LedgerInv, ScanInv, LogKept, ResolvedStays, NEW to \in 1..Len(events), NEW dropped,
         FetchPage(to, dropped)
  PROVE  ScanInv'
<1>1. /\ enfCursor \in Nat /\ to \in Nat /\ enfCursor < to /\ to <= final /\ final <= Len(events)
      /\ enfCursorFile \in {enfCursor, Empty} /\ pc = "scan" /\ events' = events
      /\ Len(events) \in Nat /\ final \in Nat /\ writeFails \in Nat
      /\ final' = final /\ UNCHANGED <<enfCursor, enfCursorFile>>
      /\ Careful => enfCursorFile = enfCursor /\ enfCursorFile # Empty
  BY EventIds DEF FetchPage, LedgerInv, LogTypes, ScanInv, LogInv, KeptInv, Scanning, chainLogVars
<1>2. ledger \in Truthful
  BY DEF LedgerInv
<1>3. ASSUME Careful, NEW m \in Nat, enfCursor <= m, m <= to
      PROVE  /\ Recorded(ConsumedAll(ledger, enfCursor, m, dropped), m)
             /\ Recorded(ledgerFile, enfCursorFile) /\ ledger = ledgerFile
  <2>1. Recorded(ledgerFile, enfCursorFile) /\ ledger = ledgerFile
    BY <1>1, <1>3 DEF ScanInv, KeptInv
  <2>2. OpeningsSeen(enfCursor, m, dropped)
    BY <1>3 DEF FetchPage, Careful, OpeningsSeen
  <2>3. m <= Len(events)
    BY <1>1, <1>3
  <2>4. Recorded(ledger, enfCursor) /\ enfCursor \in Nat /\ m \in Nat /\ enfCursor <= m
    BY <1>1, <1>3, <2>1
  <2>5. Recorded(ConsumedAll(ledger, enfCursor, m, dropped), m)
    BY <1>2, <2>2, <2>3, <2>4, ConsumedAllRecords DEF ScanInv
  <2> QED  BY <2>1, <2>5
<1>4. ASSUME NEW l, NEW n \in Nat, n <= to, Recorded(l, n) PROVE RecordedNext(l, n)
  <2>1. n <= Len(events)
    BY <1>1, <1>4
  <2> QED  BY <1>4, <2>1, RecordedStays
<1>5. CASE /\ ledger' = ConsumedAll(ledger, enfCursor, to, dropped)
           /\ ledgerFile' = (IF ledger' = ledger THEN ledgerFile ELSE ledger')
           /\ pageEnd' = to /\ pc' = "page"
           /\ UNCHANGED writeFails
  <2>1. LogInv' /\ enfCursor' <= final' /\ pageEnd' <= final'
    BY <1>1, <1>5 DEF LogKept, LogInv
  <2>2. ASSUME Careful'
        PROVE  /\ RecordedNext(ledgerFile', enfCursorFile') /\ RecordedNext(ledgerFile', pageEnd')
               /\ ledger' = ledgerFile' /\ enfCursorFile' # Empty
    <3>1. Careful
      BY <1>5, <2>2 DEF Careful
    <3>2. ledger' = ledgerFile' /\ Recorded(ledger', to)
      BY <1>1, <1>3, <1>5, <3>1
    <3>3. Recorded(ledger', enfCursor)
      BY <1>1, <3>2 DEF Recorded
    <3>4. RecordedNext(ledger', enfCursor) /\ RecordedNext(ledger', to)
      BY <1>1, <1>4, <3>2, <3>3
    <3> QED  BY <1>1, <1>5, <3>1, <3>2, <3>4
  <2>3. KeptInv'
    BY <1>5, <2>2 DEF KeptInv, Recorded, RecordedNext
  <2> QED  BY <1>1, <1>5, <2>1, <2>3 DEF ScanInv, Scanning
<1>6. ASSUME NEW i \in (enfCursor + 1..to) \ dropped, Written("error"),
             pageEnd' = i - 1, pc' = "halt"
      PROVE  ScanInv'
  <2>1. writeFails' \in Nat /\ writeFails' # 0
    BY <1>6, WrittenType DEF ScanInv
  <2>2. LogInv' /\ ~Careful'
    BY <2>1 DEF LogKept, LogInv, Careful
  <2>3. pageEnd' <= final' /\ enfCursor' <= final' /\ (enfCursorFile' # Empty => enfCursorFile' <= final')
    BY <1>1, <1>6
  <2> QED  BY <1>1, <1>6, <2>2, <2>3 DEF ScanInv, KeptInv, Scanning
<1> QED  BY <1>5, <1>6 DEF FetchPage

LEMMA ScanStep == IInv /\ LedgerInv /\ ScanInv /\ [ResponderNext]_respVars => ScanInv'
<1> SUFFICES ASSUME IInv, LedgerInv, ScanInv, [ResponderNext]_respVars PROVE ScanInv'
  OBVIOUS
<1>1. ResolvedStays
  BY ResponderChainStep, ResolvedStaysStep DEF LedgerInv
<1>2. LogKept
  BY <1>1, LogKeptStep DEF ScanInv
<1>3. writeFails \in Nat /\ LogInv
  BY DEF ScanInv, LogInv
<1>4. CASE UNCHANGED daemonVars
  BY <1>1, <1>2, <1>3, <1>4, KeptStays DEF daemonVars, diskVars, ledgerVars, scanVars, jobVars, ScanInv,
     KeptInv, Scanning
<1>5. CASE \/ UNCHANGED respVars \/ StakeProvider \/ Finalize \/ Clock
           \/ \E n \in 1..MaxLeafCount : Publish(n)
           \/ \E a \in Accounts, i \in 0..MaxLeafCount - 1, v \in BondValues, fee \in BaseFees :
                ChallengeProvider(a, {i}, v, fee)
           \/ \E c \in Challenges : TimeOut(c)
           \/ \E t \in pool : IncludeResponse(t) \/ EvictResponse(t)
  BY <1>4, <1>5 DEF respVars, StakeProvider, Finalize, Clock, Publish, ChallengeProvider, TimeOut,
     IncludeResponse, EvictResponse
<1>6. ASSUME NEW c \in Challenges, JobStep(c) PROVE ScanInv'
  BY <1>1, <1>2, <1>6, JobScanStep
<1>7. CASE Kill
  <2>1. \A c \in Challenges : job'[c] = "none"
    BY <1>7 DEF Kill
  <2>2. enfCursorFile' \in {enfCursorFile, Empty} /\ ~Scanning'
    BY <1>7 DEF Kill, CutShort, Scanning
  <2> QED  BY <1>1, <1>2, <1>3, <1>7, <2>1, <2>2, KeptStays DEF Kill
<1>8. CASE FollowerStep
  <2>1. CASE Start
    BY <1>1, <1>2, <1>3, <2>1, KeptStays DEF Start, diskVars, scanVars, jobVars, ScanInv, Scanning
  <2>2. CASE Reconcile
    <3>1. ASSUME NEW S \in SUBSET Challenges, \A c \in S : Resolved(c), NEW c \in Challenges,
                 ledgerFile[c] # "absent"
          PROVE  Without(ledgerFile, S)[c] # "absent" \/ Resolved(c)
      BY <3>1 DEF Without
    <3>2. /\ UNCHANGED <<job, enfCursorFile, pageEnd, writeFails>> /\ pc = "reconcile"
          /\ pc' \in {"idle", "down"} /\ ~Scanning /\ (Scanning' <=> pc' # "down")
      BY <2>2 DEF Reconcile, jobVars, diskVars, Scanning
    <3>3. Careful => ledger = ledgerFile
      BY <3>2 DEF ScanInv, KeptInv
    <3>4. Careful => \A c \in Challenges :
            ledgerFile[c] # "absent" => ledgerFile'[c] # "absent" \/ Resolved(c)
      BY <2>2, <3>1, <3>3 DEF Reconcile
    <3>5. IF pc' # "down" THEN ledger' = ledgerFile' /\ enfCursor' = enfCursorFile /\ enfCursorFile # Empty
                          ELSE enfCursor' = enfCursor
      BY <2>2 DEF Reconcile, CursorsParse
    <3> QED  BY <1>1, <1>2, <1>3, <3>2, <3>4, <3>5, KeptStays DEF ScanInv
  <2>3. CASE NoFinalizedBlock \/ FetchFails
    BY <1>1, <1>2, <1>3, <2>3, KeptStays DEF NoFinalizedBlock, FetchFails, diskVars, ledgerVars, scanVars,
       jobVars, ScanInv, KeptInv, Scanning
  <2>4. CASE Drive
    BY <1>1, <1>2, <1>3, <2>4, KeptStays DEF Drive, diskVars, ledgerVars, scanVars, jobVars, ScanInv,
       KeptInv, Scanning
  <2>5. ASSUME NEW b, NEW result, SetEnfCursor(b, result), pc' \in {"scan", "drive"},
               pc \in {"idle", "page", "halt"}, UNCHANGED ledgerVars,
               b = 0 \/ (pc \in {"page", "halt"} /\ b = pageEnd)
        PROVE  ScanInv'
    <3>1. writeFails' \in Nat /\ (writeFails' = 0 => writeFails = 0)
      BY <1>3, <2>5, WrittenType DEF SetEnfCursor
    <3>2. Scanning /\ Scanning' /\ b \in Nat /\ b # Empty
      BY <2>5, ResponderAssumption DEF Scanning, LedgerInv, LogTypes
    <3>3. \/ enfCursor' = b /\ enfCursorFile' = b
          \/ ~Careful' /\ enfCursorFile' \in {enfCursorFile, Empty} /\ enfCursor' = enfCursor
      BY <1>3, <2>5, WrittenType DEF SetEnfCursor, Careful
    <3>4. Careful => ledger' = ledgerFile'
      BY <2>5, <3>2 DEF ledgerVars, ScanInv, KeptInv, Scanning
    <3> QED  BY <1>1, <1>2, <2>5, <3>1, <3>2, <3>3, <3>4, KeptStays DEF ledgerVars, ScanInv
  <2>6. CASE BeginScan
    <3>1. CASE UNCHANGED <<enfCursor, enfCursorFile, writeFails>>
      BY <1>1, <1>2, <1>3, <2>6, <3>1, KeptStays DEF BeginScan, ScanOn, ledgerVars, jobVars, ScanInv,
         KeptInv, Scanning
    <3>2. CASE \E result \in {"ok", "error"} : SetEnfCursor(0, result)
      BY <2>5, <2>6, <3>2 DEF BeginScan, ScanOn
    <3> QED  BY <2>6, <3>1, <3>2 DEF BeginScan
  <2>7. CASE PageDone
    BY <2>5, <2>7 DEF PageDone, ScanOn
  <2>8. ASSUME NEW to \in 1..Len(events), NEW dropped, FetchPage(to, dropped) PROVE ScanInv'
    BY <1>1, <1>2, <2>8, FetchScanStep
  <2> QED  BY <1>8, <2>1, <2>2, <2>3, <2>4, <2>6, <2>7, <2>8 DEF FollowerStep
<1> QED  BY <1>5, <1>6, <1>7, <1>8 DEF ResponderNext

\* An opened challenge is on disk before the cursor file moves past its event, over kills,
\* rescans, late answers and lost transactions, unless a node leaves the opening out of
\* an answer or a write fails: the failing write of the run responder_ledger is the only
\* way to the state it shows.
THEOREM OpenedIsOnDiskIfCarefulHolds == ResponderSpec => []OpenedIsOnDiskIfCareful
<1>1. LedgerInv /\ ScanInv => OpenedIsOnDiskIfCareful
  <2> SUFFICES ASSUME LedgerInv, ScanInv, Careful, enfCursorFile # Empty, NEW i \in 1..enfCursorFile,
                      events[i].kind = "opened", ~Resolved(events[i].id)
               PROVE  ledgerFile[events[i].id] # "absent"
    BY DEF OpenedIsOnDiskIfCareful, OpenedIsOnDisk
  <2>1. i \in 1..Len(events)
    BY EventIds DEF ScanInv, LogInv, LedgerInv, LogTypes
  <2>2. events[i].id \in Challenges
    BY <2>1, EventIds
  <2> QED  BY <2>2 DEF ScanInv, KeptInv, Recorded
<1>2. ResponderSpec => []IInv
  BY ResponderImplementsInstance, InvariantHolds, PTL
<1>3. ResponderSpec => []LedgerInv
  BY <1>2, InitLedgerInv, LedgerStep, PTL DEF ResponderSpec
<1> QED  BY <1>1, <1>2, <1>3, InitScanInv, ScanStep, PTL DEF ResponderSpec

=============================================================================
