---------------------------- MODULE BlobEncoding ----------------------------
(***************************************************************************)
(* Blobs: the polynomial a blob stands for, its evaluation, and how chunks *)
(* are packed into the field elements of blobs (reference/src, mod blob;   *)
(* the checks of circuits/common and daemon/src/verify.rs).  A field       *)
(* element is a high byte and a chunk; the field, the blob and the chunk   *)
(* are small.                                                              *)
(***************************************************************************)
EXTENDS Naturals, Sequences, FiniteSetsExt

CONSTANTS
  Modulus,         \* of the scalar field
  Generator,       \* 7: generates its multiplicative group
  BlobWidth,       \* 4096 field elements in a blob
  ChunkValues      \* chunks are 0..ChunkValues - 1

\* The modulus is a prime, the width a power of two that divides its predecessor.
ASSUME BlobAssumption ==
  /\ Modulus \in Nat \ {0, 1} /\ \A a \in 2..Modulus - 1 : Modulus % a # 0
  /\ Generator \in 1..Modulus - 1
  /\ BlobWidth \in Nat \ {0} /\ (Modulus - 1) % BlobWidth = 0
  /\ \E b \in 0..BlobWidth : 2^b = BlobWidth
  /\ ChunkValues \in 1..Modulus

Field == 0..Modulus - 1
Elements == 1..BlobWidth
CeilDiv(a, b) == (a + b - 1) \div b

(***************************************************************************)
(* Evaluation.                                                             *)
(***************************************************************************)

Less(a, b) == (Modulus + a - b) % Modulus
Inverted(a) == CHOOSE x \in Field : (a * x) % Modulus = 1
Total(terms) == SumFunction(terms) % Modulus
Power(a, n) ==
  LET power[k \in 0..n] == IF k = 0 THEN 1 ELSE (power[k - 1] * a) % Modulus
  IN power[n]

ASSUME GeneratorAssumption ==
  \A a \in 1..Modulus - 1 : \E k \in 0..Modulus - 2 : Power(Generator, k) = a

\* The roots of unity, in bit-reversed order.
RootOfUnity == Power(Generator, (Modulus - 1) \div BlobWidth)
IndexBits == CHOOSE b \in 0..BlobWidth : 2^b = BlobWidth
BitReversed(i) ==
  SumFunction([b \in 0..IndexBits - 1 |-> ((i \div 2^b) % 2) * 2^(IndexBits - 1 - b)])
EvaluationDomain == [e \in Elements |-> Power(RootOfUnity, BitReversed(e - 1))]

\* A blob stores its polynomial by the values on that domain.
EvaluateUnscaled(blob, z) ==   \* mutant
  LET w == EvaluationDomain IN
  IF \E e \in Elements : w[e] = z THEN blob[CHOOSE e \in Elements : w[e] = z]
  ELSE Total([e \in Elements |-> blob[e] * w[e] * Inverted(Less(z, w[e]))])
Evaluate(blob, z) ==
  LET w == EvaluationDomain IN
  IF \E e \in Elements : w[e] = z THEN blob[CHOOSE e \in Elements : w[e] = z]
  ELSE LET sum == Total([e \in Elements |-> blob[e] * w[e] * Inverted(Less(z, w[e]))])
       IN (sum * Less(Power(z, BlobWidth), 1) * Inverted(BlobWidth)) % Modulus

\* The commitment of a blob is binding, and its versioned hash is a hash of it.
VersionedHash(blob) == <<"versioned", blob>>

(***************************************************************************)
(* Packing.                                                                *)
(***************************************************************************)

HighByte(element) == element \div ChunkValues
Position(j, e) == (j - 1) * BlobWidth + e

\* The publisher's side: chunk after chunk with zero high bytes, then zero elements.
PackSpareBlob(chunks) ==   \* mutant
  [j \in 1..(Len(chunks) \div BlobWidth) + 1 |->
     [e \in Elements |-> IF Position(j, e) <= Len(chunks) THEN chunks[Position(j, e)] ELSE 0]]
Pack(chunks) ==
  [j \in 1..CeilDiv(Len(chunks), BlobWidth) |->
     [e \in Elements |-> IF Position(j, e) <= Len(chunks) THEN chunks[Position(j, e)] ELSE 0]]

\* What circuit and daemon require of the blobs of m chunks.
CanonicalData(blobs, m) ==   \* mutant
  /\ Len(blobs) = CeilDiv(m, BlobWidth)
  /\ \A j \in 1..Len(blobs), e \in Elements :
       Position(j, e) <= m => HighByte(blobs[j][e]) = 0
Canonical(blobs, m) ==
  /\ Len(blobs) = CeilDiv(m, BlobWidth)
  /\ \A j \in 1..Len(blobs), e \in Elements :
       IF Position(j, e) <= m THEN HighByte(blobs[j][e]) = 0 ELSE blobs[j][e] = 0

\* The last 31 bytes of the first m elements.
Unpacked(blobs, m) ==
  [u \in 1..m |-> blobs[CeilDiv(u, BlobWidth)][((u - 1) % BlobWidth) + 1] % ChunkValues]

=============================================================================
