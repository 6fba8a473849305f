------------------------------ MODULE TxSender ------------------------------
(***************************************************************************)
(* The daemon's transaction sender (daemon/src/tx.rs) between the duties   *)
(* that call send_until and the node: one escalation episode at a time,    *)
(* one nonce for all its attempts, and an answer that may be wrong about   *)
(* what landed.  The account's nonce, the node's pool and the receipts are *)
(* the chain's side of it.                                                 *)
(*                                                                         *)
(* An attempt only raises the fees, so a transaction is named by the duty  *)
(* it serves, its nonce and its attempt.  Whether a duty's call succeeds   *)
(* is decided by the module that composes this one with the contract.      *)
(***************************************************************************)
EXTENDS Naturals, Sequences, FiniteSets

CONSTANTS
  Duties,          \* what a transaction may be sent for
  MaxAttempts      \* MAX_ATTEMPTS

\* Bounds of the model.
CONSTANTS
  PoolSlots,       \* transactions of one account a node keeps pending
  MaxFaults        \* failures of the node, the disk or the process in a behaviour

ASSUME TxSenderAssumption ==
  MaxAttempts \in Nat \ {0} /\ PoolSlots \in Nat \ {0} /\ MaxFaults \in Nat

VARIABLES
  accountNonce,    \* transactions of the operator included so far
  pool,            \* its pending transactions
  receipts,        \* its included transactions and whether each succeeded, kept for
                   \* the episodes that still ask for them
  lockQueue,       \* the episode mutex: its holder, then those who wait
  episode,         \* episode[d]: where duty d's send_until is
  faults

chainSideVars == <<accountNonce, pool, receipts>>
senderVars == <<chainSideVars, lockQueue, episode>>

NoEpisode == [step |-> "none", nonce |-> 0, attempt |-> 0, submitted |-> {}]

Tx(d) == [duty |-> d, nonce |-> episode[d].nonce, attempt |-> episode[d].attempt]
EpisodeAt(d, step) == episode[d].step = step

Fault == faults < MaxFaults /\ faults' = faults + 1
NoFault == UNCHANGED faults

SenderInit ==
  /\ accountNonce = 0 /\ pool = {} /\ receipts = {}
  /\ lockQueue = <<>>
  /\ episode = [d \in Duties |-> NoEpisode]
  /\ faults = 0

(***************************************************************************)
(* send_until.  Each step says how the call ends: "pending" as long as it  *)
(* does not, then "confirmed" or "failed".                                 *)
(***************************************************************************)

\* The call waits for the episode mutex, which is handed over in order.
SendUntil(d) ==
  /\ episode' = [episode EXCEPT ![d] = [NoEpisode EXCEPT !.step = "nonce"]]
  /\ lockQueue' = Append(lockQueue, d)
  /\ UNCHANGED chainSideVars

AnyTurn(d) == TRUE   \* mutant
HoldsLock(d) == lockQueue # <<>> /\ Head(lockQueue) = d

\* A call ends while it holds the mutex.
End(d) ==
  /\ episode' = [episode EXCEPT ![d] = NoEpisode]
  /\ lockQueue' = Tail(lockQueue)
  /\ receipts' = {r \in receipts : r.tx.duty # d}

\* The account's transaction count in the node's pending state.
PendingNonce ==
  CHOOSE n \in accountNonce..accountNonce + Cardinality(pool) :
    /\ \A t \in pool : t.nonce # n
    /\ \A m \in accountNonce..n - 1 : \E t \in pool : t.nonce = m

FetchNonce(d, result) ==
  /\ EpisodeAt(d, "nonce")
  /\ HoldsLock(d)
  /\ \/ /\ NoFault /\ result = "pending"
        /\ episode' = [episode EXCEPT ![d].step = "check", ![d].nonce = PendingNonce]
        /\ UNCHANGED <<lockQueue, receipts>>
     \/ Fault /\ result = "failed" /\ End(d)
  /\ UNCHANGED <<accountNonce, pool>>

\* any_confirmed: a successful receipt of an attempt this episode knows the hash of.
AnyIncluded(d) ==   \* mutant
  \E r \in receipts : r.tx.duty = d /\ r.tx.attempt \in episode[d].submitted
AnyConfirmed(d) ==
  \E r \in receipts : r.ok /\ r.tx.duty = d /\ r.tx.attempt \in episode[d].submitted

Confirm(d, result) == AnyConfirmed(d) /\ result = "confirmed" /\ End(d)

\* The next attempt, with higher fees, or the end of the budget.
NextAttempt(d, result) ==
  LET next == episode[d].attempt + 1 IN
  \/ /\ next < MaxAttempts /\ result = "pending"
     /\ episode' = [episode EXCEPT ![d].attempt = next, ![d].step = "check"]
     /\ UNCHANGED <<lockQueue, receipts>>
  \/ next >= MaxAttempts /\ result = "failed" /\ End(d)

\* After any failure the sender first asks whether an earlier attempt landed.
AfterError(d, result) ==
  \/ Confirm(d, result)
  \/ ~AnyConfirmed(d) /\ NextAttempt(d, result)

\* A receipt query that fails counts as no receipt: a failing node may hide what landed.
AfterOutage(d, result) == Fault /\ (Confirm(d, result) \/ NextAttempt(d, result))

\* The deadline is looked up before every attempt; a clock that cannot be read counts as
\* not passed.
CheckDeadline(d, late, result) ==
  /\ EpisodeAt(d, "check")
  /\ \/ late /\ result = "failed" /\ End(d) /\ NoFault
     \/ /\ result = "pending"
        /\ IF late THEN Fault ELSE NoFault
        /\ episode' = [episode EXCEPT ![d].step = "send"]
        /\ UNCHANGED <<lockQueue, receipts>>
  /\ UNCHANGED <<accountNonce, pool>>

\* A pool replaces the transaction of a pending nonce, takes the account's next one, and
\* later ones while it has room.
Poolable(t) ==
  \/ t.nonce = accountNonce
  \/ t.nonce > accountNonce /\ (\/ \E u \in pool : u.nonce = t.nonce
                               \/ Cardinality(pool) < PoolSlots)
EnterPool(t) == pool' = {u \in pool : u.nonce # t.nonce} \cup {t}

Submitted(d, result) ==
  /\ Poolable(Tx(d))
  /\ EnterPool(Tx(d))
  /\ \/ /\ NoFault /\ result = "pending"
        /\ episode' = [episode EXCEPT ![d].step = "receipt", ![d].submitted =
                         @ \cup {episode[d].attempt}]
        /\ UNCHANGED <<lockQueue, receipts>>
     \/ AfterOutage(d, result)   \* the node's answer is lost
  /\ UNCHANGED accountNonce

NotSubmitted(d, result) ==
  /\ \/ ~Poolable(Tx(d)) /\ NoFault /\ AfterError(d, result)
     \/ AfterOutage(d, result)
  /\ UNCHANGED <<accountNonce, pool>>

\* The call fails when its gas is estimated against the latest state.
Reverts(d, result) ==
  /\ \/ NoFault /\ Confirm(d, result)
     \/ /\ IF AnyConfirmed(d) THEN Fault ELSE NoFault   \* that query fails too
        /\ result = "failed" /\ End(d)
  /\ UNCHANGED <<accountNonce, pool>>

Attempt(d, reverting, result) ==
  /\ EpisodeAt(d, "send")
  /\ \/ reverting /\ Reverts(d, result)
     \/ ~reverting /\ (Submitted(d, result) \/ NotSubmitted(d, result))

\* The receipt of this attempt, or none within confirm_timeout.
AwaitReceipt(d, result) ==
  /\ EpisodeAt(d, "receipt")
  /\ \/ /\ \E r \in receipts :
             r.tx = Tx(d) /\ result = (IF r.ok THEN "confirmed" ELSE "failed")
        /\ NoFault /\ End(d)
     \/ NoFault /\ AfterError(d, result)
     \/ AnyConfirmed(d) /\ Fault /\ NextAttempt(d, result)
  /\ UNCHANGED <<accountNonce, pool>>

SendStep(d, late, reverting, result) ==
  \/ FetchNonce(d, result)
  \/ CheckDeadline(d, late, result)
  \/ Attempt(d, reverting, result)
  \/ AwaitReceipt(d, result)

(***************************************************************************)
(* The node's side.                                                        *)
(***************************************************************************)

\* The next transaction of the account is included in a block.
Include(t, ok) ==
  /\ t.nonce = accountNonce
  /\ accountNonce' = accountNonce + 1
  /\ pool' = pool \ {t}
  /\ receipts' = IF episode[t.duty].step \in {"check", "send", "receipt"} /\ episode[t.duty].nonce = t.nonce
                 THEN receipts \cup {[tx |-> t, ok |-> ok]}
                 ELSE receipts
  /\ UNCHANGED <<lockQueue, episode, faults>>

\* A node may forget a pending transaction.
Evict(t) ==
  /\ Fault
  /\ pool' = pool \ {t}
  /\ UNCHANGED <<accountNonce, receipts, lockQueue, episode>>

\* A killed daemon forgets its episodes; what it sent stays in the pool.
SenderKilled ==
  /\ episode' = [d \in Duties |-> NoEpisode]
  /\ lockQueue' = <<>>
  /\ receipts' = {}
  /\ UNCHANGED <<accountNonce, pool>>

-----------------------------------------------------------------------------

\* Duties never push each other out of the pool: a pending transaction gives way only to
\* a later attempt of its own duty or of one started anew, never to another duty's.
NoncesKept == \A t \in pool, u \in pool' : t.nonce = u.nonce => t.duty = u.duty
NoEviction == [][NoncesKept]_senderVars

=============================================================================
