--------------------------- MODULE DatasetReplica ---------------------------
(***************************************************************************)
(* What a provider's daemon promises about the dataset: whatever crashes,  *)
(* it durably holds a prefix of the published chunks that ends where a     *)
(* declaration ends, and that prefix only grows.                           *)
(***************************************************************************)
EXTENDS Naturals, Sequences

VARIABLES
  dataset,   \* the published chunks, in order
  ends,      \* the leaf counts at which a declaration ends
  replica    \* the chunks held

replicaVars == <<dataset, ends, replica>>

Held(n) == SubSeq(dataset, 1, n)

ReplicaInit ==
  /\ dataset = <<>>
  /\ ends = {0}
  /\ replica = <<>>

\* One or more declarations, each of at least one chunk.
Publish ==
  /\ Len(dataset') > Len(dataset)
  /\ SubSeq(dataset', 1, Len(dataset)) = dataset
  /\ ends \subseteq ends' /\ Len(dataset') \in ends'
  /\ ends' \ ends \subseteq Len(dataset) + 1..Len(dataset')
  /\ UNCHANGED replica

Take ==
  /\ \E n \in ends : n > Len(replica) /\ replica' = Held(n)
  /\ UNCHANGED <<dataset, ends>>

ReplicaNext == Publish \/ Take

ReplicaSpec == ReplicaInit /\ [][ReplicaNext]_replicaVars

=============================================================================
