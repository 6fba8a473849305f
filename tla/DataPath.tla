------------------------------ MODULE DataPath ------------------------------
(***************************************************************************)
(* The way of the data: from a publisher's blobs through the declaration   *)
(* the contract accepts on the word of the equivalence circuit, to the     *)
(* daemon that acquires the blobs from untrusted sources, checks them,     *)
(* stores their chunks, and later proves chunks to the contract and the    *)
(* custody circuit.                                                        *)
(*                                                                         *)
(* A publisher may submit anything.  The Fiat-Shamir point is a hash of    *)
(* everything the declaration fixes, so nobody chooses blobs by it: an     *)
(* evaluation is a function of the point, and two evaluations agree if     *)
(* they do at every point.                                                 *)
(***************************************************************************)
EXTENDS MerkleMountainRange, BlobEncoding

CONSTANTS
  Sources          \* the daemon's chain: [kind, honest], honest[e] for its endpoint e

\* Bounds of the model.
CONSTANTS
  Blobs,           \* what may be carried by a transaction or served by a source
  MaxDeclarations,
  MaxLeafCount,
  Digests          \* of the sample positions

ASSUME DataPathAssumption ==
  /\ Blobs \subseteq [Elements -> Field]
  /\ \A i \in DOMAIN Sources : Sources[i].kind \in {"beacon", "archive"}
  /\ MaxDeclarations \in Nat
  /\ MaxLeafCount \in 0..2^MaxHeight
  /\ Digests \subseteq Seq(0..DigitBase - 1)

VARIABLES
  \* The contract, and the snapshots it has taken for challenges and custody
  peaks, leafCount, pins,
  events,          \* its Declared events; an event's nonce is its place
  published,       \* the chunks of the blobs that were carried
  \* The daemon
  store,           \* [nonce, chunks, peaks]
  acquisition      \* of the blobs of the next declaration

contractVars == <<peaks, leafCount, pins, events, published>>
dataVars == <<contractVars, store, acquisition>>

NoAcquisition == [step |-> "none"]

(***************************************************************************)
(* Declarations.                                                           *)
(***************************************************************************)

FsPreimage(vhs, prior, subtrees, n0, n1) == <<"z", vhs, prior, subtrees, n0, n1>>

\* The chunks that the test kit declares after n others.
TestChunks(n, m) == [u \in 1..m |-> (n + u - 1) % ChunkValues]
TestBlobs ==
  UNION {ToSet(Pack(TestChunks(n, m))) : n \in 0..BlobWidth - 1, m \in 1..MaxLeafCount}

\* Every blob's evaluation at every point.
Evaluations == [b \in Blobs \cup TestBlobs |-> [z \in Field |-> Evaluate(b, z)]]
EvaluationsOf(blobs) == [j \in DOMAIN blobs |-> Evaluations[blobs[j]]]
HashesOf(blobs) == [j \in DOMAIN blobs |-> VersionedHash(blobs[j])]

\* What the equivalence circuit asserts of its witness, and the values it then commits.
CircuitAcceptsData(witness, n0, n1) ==   \* mutant
  n1 > n0 /\ CanonicalData(witness, n1 - n0)
CircuitAccepts(witness, n0, n1) == n1 > n0 /\ Canonical(witness, n1 - n0)
CircuitPreimage(witness, vhs, prior, n0, n1) ==
  FsPreimage(vhs, prior, UpdateSubtreeRoots(n0, Unpacked(witness, n1 - n0)), n0, n1)

\* declareFor up to its effects: the shape, the openings of the carried blobs, and a proof
\* whose public values are the preimage and the evaluations the contract computed.
DeclarationAccepted(carried, declared, n1, witness) ==
  /\ n1 > leafCount
  /\ Len(carried) = CeilDiv(n1 - leafCount, BlobWidth)
  /\ Len(declared) = Len(Decompose(leafCount, n1 - leafCount))
  /\ CircuitAccepts(witness, leafCount, n1)
  /\ EvaluationsOf(witness) = EvaluationsOf(carried)
  /\ CircuitPreimage(witness, HashesOf(carried), peaks, leafCount, n1)
       = FsPreimage(HashesOf(carried), peaks, declared, leafCount, n1)

DeclareFor(carried, declared, n1, witness) ==
  LET after == ContractApplyUpdate(peaks, leafCount, declared, Decompose(leafCount, n1 - leafCount))
  IN
  /\ Len(events) < MaxDeclarations /\ n1 <= MaxLeafCount
  /\ DeclarationAccepted(carried, declared, n1, witness)
  /\ peaks' = after
  /\ leafCount' = n1
  /\ pins' = pins \cup {[n |-> n1, root |-> Root(n1, after)]}
  /\ events' = Append(events, [versionedHashes |-> HashesOf(carried), subtreePeaks |-> declared,
                               newLeafCount |-> n1])
  /\ published' = published \o Unpacked(carried, n1 - leafCount)
  /\ UNCHANGED <<store, acquisition>>

\* The package the publisher of the test kit builds for m more chunks.
BuildPackage(m) ==
  LET chunks == TestChunks(leafCount, m) IN
  [blobs |-> Pack(chunks), newSubtreePeaks |-> UpdateSubtreeRoots(leafCount, chunks),
   newLeafCount |-> leafCount + m]

(***************************************************************************)
(* The acquisition of the blobs of the next declaration: source by source, *)
(* each asked for what is still missing.                                   *)
(***************************************************************************)

Event == events[store.nonce + 1]

\* Asking source i, having the blobs `have`; complete when nothing is missing, given up
\* when no source is left.
FirstSourceOnly(i, have) ==   \* mutant
  LET missing == {j \in DOMAIN Event.versionedHashes :
                    \A b \in have : VersionedHash(b) # Event.versionedHashes[j]}
  IN
  CASE missing = {} -> [step |-> "complete", have |-> have]
    [] missing # {} /\ i > 1 -> NoAcquisition
    [] OTHER -> [step |-> "asking", have |-> have, source |-> i, missing |-> missing,
                 endpoint |-> 1, collected |-> {}, count |-> 0]
AskSource(i, have) ==
  LET missing == {j \in DOMAIN Event.versionedHashes :
                    \A b \in have : VersionedHash(b) # Event.versionedHashes[j]}
  IN
  CASE missing = {} -> [step |-> "complete", have |-> have]
    [] missing # {} /\ i > Len(Sources) -> NoAcquisition
    [] OTHER -> [step |-> "asking", have |-> have, source |-> i, missing |-> missing,
                 endpoint |-> 1, collected |-> {}, count |-> 0]

Acquire ==
  /\ acquisition = NoAcquisition
  /\ store.nonce < Len(events)
  /\ acquisition' = AskSource(1, {})
  /\ UNCHANGED <<contractVars, store>>

\* What a source is asked for: acquisition.missing holds the places of these hashes.
Wanted == {Event.versionedHashes[j] : j \in acquisition.missing}

\* A candidate is one of the blobs asked for if its own hash is.
Admitted(candidates) == {b \in candidates : VersionedHash(b) \in Wanted}

\* An endpoint of the source answers with some blobs, or not at all.  A beacon source goes
\* on to its next endpoint until it holds as many candidates as were asked for; an archive
\* has looked up one hash after the other.
Answer(blobs) ==
  LET source == Sources[acquisition.source]
      held == acquisition.count + Cardinality(blobs)
      candidates == acquisition.collected \cup blobs
  IN
  /\ acquisition.step = "asking"
  /\ source.honest[acquisition.endpoint] =>
       {VersionedHash(b) : b \in blobs} = Wanted
  /\ acquisition' =
       IF \/ source.kind = "archive"
          \/ held >= Cardinality(acquisition.missing)
          \/ acquisition.endpoint = Len(source.honest)
       THEN AskSource(acquisition.source + 1, acquisition.have \cup Admitted(candidates))
       ELSE [acquisition EXCEPT !.endpoint = @ + 1, !.collected = candidates, !.count = held]
  /\ UNCHANGED <<contractVars, store>>

(***************************************************************************)
(* Ingest.                                                                 *)
(***************************************************************************)

\* One blob serves every copy of its hash.
Ordered ==
  [j \in DOMAIN Event.versionedHashes |->
     CHOOSE b \in acquisition.have : VersionedHash(b) = Event.versionedHashes[j]]

NewChunks == Unpacked(Ordered, Event.newLeafCount - Len(store.chunks))

\* Anything else contradicts what the chain accepted.
Consistent ==
  /\ Event.newLeafCount > Len(store.chunks)
  /\ Canonical(Ordered, Event.newLeafCount - Len(store.chunks))
  /\ UpdateSubtreeRoots(Len(store.chunks), NewChunks) = Event.subtreePeaks

IngestPadded ==   \* mutant
  /\ acquisition.step = "complete"
  /\ acquisition' = NoAcquisition
  /\ store' = [store EXCEPT !.nonce = @ + 1,
                             !.chunks = @ \o Unpacked(Ordered, Len(Ordered) * BlobWidth)]
  /\ UNCHANGED contractVars
Ingest ==
  LET n0 == Len(store.chunks)
      mmr == ApplyUpdate(FromState(n0, store.peaks), Event.subtreePeaks, Event.newLeafCount - n0)
  IN
  /\ acquisition.step = "complete"
  /\ acquisition' = NoAcquisition
  /\ store' = IF Consistent
              THEN [nonce |-> store.nonce + 1, chunks |-> store.chunks \o NewChunks,
                    peaks |-> Peaks(mmr)]
              ELSE store
  /\ UNCHANGED contractVars

(***************************************************************************)
(* Proofs from the store.                                                  *)
(***************************************************************************)

NoProof == [n |-> 0, peaks |-> <<>>, proven |-> <<>>]

AllVerify(proven, indices, n, ps) ==
  \A j \in DOMAIN indices : Verify(proven[j].chunk, indices[j], proven[j].path, n, ps)

\* build_proof_set.
BuildProofSet(indices, n, pinnedRoot) ==
  IF n > Len(store.chunks) \/ \E i \in ToSet(indices) : i >= n THEN NoProof
  ELSE LET ps == PeaksAt(store.chunks, n)
           proven == [j \in DOMAIN indices |->
                        [chunk |-> store.chunks[indices[j] + 1],
                         path |-> Prove(store.chunks, indices[j], n)]]
       IN IF Root(n, ps) = pinnedRoot /\ AllVerify(proven, indices, n, ps)
          THEN [n |-> n, peaks |-> ps, proven |-> proven]
          ELSE NoProof

\* respond and submitProofEscape: the peaks bag to the pinned root and every chunk
\* verifies at its index.
ContractAccepts(set, indices, pin) ==
  /\ set.n = pin.n /\ Root(set.n, set.peaks) = pin.root
  /\ Len(set.proven) = Len(indices)
  /\ AllVerify(set.proven, indices, set.n, set.peaks)

\* sample_indices, for one digest per sample.
SampleIndices(digests, n) == [j \in DOMAIN digests |-> SampleIndex(digests[j], n)]

\* build_witness, and the custody circuit, which derives the indices anew.
BuildWitness(digests, pin) == BuildProofSet(SampleIndices(digests, pin.n), pin.n, pin.root)
CustodyCircuit(witness, digests, pin) ==
  /\ pin.n > 0
  /\ Root(pin.n, witness.peaks) = pin.root
  /\ Len(witness.proven) = Len(digests)
  /\ AllVerify(witness.proven, SampleIndices(digests, pin.n), pin.n, witness.peaks)

-----------------------------------------------------------------------------

DataInit ==
  /\ peaks = <<>> /\ leafCount = 0 /\ events = <<>> /\ published = <<>>
  /\ pins = {[n |-> 0, root |-> Root(0, <<>>)]}
  /\ store = [nonce |-> 0, chunks |-> <<>>, peaks |-> <<>>]
  /\ acquisition = NoAcquisition

BlobLists == UNION {[1..k -> Blobs] : k \in 1..CeilDiv(MaxLeafCount, BlobWidth)}

\* A publisher with any blobs, any witness, and any subtree peaks that are the roots of
\* something.
PublisherStep ==
  /\ Len(events) < MaxDeclarations
  /\ \E n1 \in leafCount + 1..MaxLeafCount :
       \E witness \in {w \in BlobLists : CircuitAccepts(w, leafCount, n1)},
          claim \in [1..CeilDiv(n1 - leafCount, BlobWidth) -> Blobs] :
         \E carried \in {c \in BlobLists : EvaluationsOf(c) = EvaluationsOf(witness)} :
           DeclareFor(carried, UpdateSubtreeRoots(leafCount, Unpacked(claim, n1 - leafCount)), n1,
                      witness)

DaemonStep ==
  \/ Acquire
  \/ \E S \in SUBSET Blobs : Answer(S)
  \/ Ingest

DataNext == PublisherStep \/ DaemonStep

\* Every tick of the daemon tries again: weak fairness of DaemonStep, in the words of the
\* variable that each of its steps changes.
DataFairness ==
  /\ WF_acquisition(Acquire)
  /\ WF_acquisition(\E S \in SUBSET Blobs : Answer(S))
  /\ WF_acquisition(acquisition.step = "complete" /\ acquisition' = NoAcquisition)
DataSpec == DataInit /\ [][DataNext]_dataVars /\ DataFairness

-----------------------------------------------------------------------------
(***************************************************************************)
(* Properties.                                                             *)
(***************************************************************************)

\* Whatever a publisher submits, the contract's peaks are those of the chunks in the
\* blobs that were carried, and the daemon's, which the reference library's own update
\* keeps, are those of its chunks; so the merge of declared subtree peaks, at any leaf
\* count and in both representations, is the mountain range built from the data.
PeaksAreTheData ==
  /\ peaks = PeaksAt(published, leafCount)
  /\ store.peaks = PeaksAt(store.chunks, Len(store.chunks))

\* The daemon never sees a declaration that contradicts the chain.
NoContradiction == acquisition.step = "complete" => Consistent

\* Whatever snapshot the contract has pinned, a daemon that has got that far can prove
\* every chunk of it, and contract and custody circuit accept the proofs.
PinsAreProvable ==
  acquisition = NoAcquisition =>
    \A pin \in {p \in pins : p.n \in 1..Len(store.chunks)} :
      /\ \A i \in 0..pin.n - 1 :
           ContractAccepts(BuildProofSet(<<i>>, pin.n, pin.root), <<i>>, pin)
      /\ \A d \in Digests : CustodyCircuit(BuildWitness(<<d>>, pin), <<d>>, pin)

\* Only the declared chunk of a position verifies there, with the path of whatever
\* position.
OnlyTheDataVerifies ==
  acquisition = NoAcquisition =>
    \A i, j \in 0..leafCount - 1, c \in 0..ChunkValues - 1 :
      Verify(c, i, Prove(published, j, leafCount), leafCount, peaks) => c = published[i + 1]

\* The number a sequence of digits stands for.
Number(digits) ==
  LET value[k \in 0..Len(digits)] ==
        IF k = 0 THEN 0 ELSE value[k - 1] * DigitBase + digits[k]
  IN value[Len(digits)]

\* The sampled position is the digest modulo the leaf count, as the contract computes it
\* in one division.
SamplesAreUniform ==
  leafCount > 0 => \A d \in Digests : SampleIndex(d, leafCount) = Number(d) % leafCount

\* The product of the distances of a to all points of the domain but the one at e.
Others(e, a) ==
  LET upTo[k \in 0..BlobWidth] ==
        IF k = 0 THEN 1
        ELSE IF k = e THEN upTo[k - 1]
        ELSE (upTo[k - 1] * Less(a, EvaluationDomain[k])) % Modulus
  IN upTo[BlobWidth]

\* Lagrange's polynomial through the blob's values.
Interpolated(blob, z) ==
  LET w == EvaluationDomain IN
  Total([e \in Elements |-> (blob[e] * Others(e, z) * Inverted(Others(e, w[e]))) % Modulus])

\* At the point, each carried blob is evaluated to the value of the polynomial it stands
\* for, on the domain and off it.
EvaluationInterpolates ==
  events = <<>> => \A b \in Blobs, z \in Field : Evaluations[b][z] = Interpolated(b, z)

\* The package of any number of chunks is accepted, at any leaf count.
PackagesAreAccepted ==
  acquisition = NoAcquisition =>
    \A m \in 1..MaxLeafCount - leafCount :
      LET p == BuildPackage(m) IN
      DeclarationAccepted(p.blobs, p.newSubtreePeaks, p.newLeafCount, p.blobs)

\* The store is a replica of the published dataset, one declaration after the other.
Replica ==
  INSTANCE DatasetReplica WITH
    dataset <- published, ends <- {p.n : p \in pins}, replica <- store.chunks
ImplementsReplica == Replica!ReplicaInit /\ [][Replica!ReplicaNext]_(Replica!replicaVars)

\* With one honest source in the chain the daemon gets all the data, whatever the others
\* answer.
CatchesUp == <>[](store.chunks = published)

=============================================================================
