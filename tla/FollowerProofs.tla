---------------------------- MODULE FollowerProofs ----------------------------
(***************************************************************************)
(* The store's crash safety, for any number of daemons, declarations,      *)
(* kills and power cuts: what a frontier commits is the dataset's prefix,  *)
(* the store implements an append-only replica, a cursor passes only what  *)
(* is ingested, and a store that ever committed opens again.               *)
(***************************************************************************)
EXTENDS Follower, FiniteSetTheorems, SequenceTheorems, TLAPS

Cells == Nat \cup {Lost}
Declarations == [block : Nat, leafCount : Nat]
Steps == {"down", "idle", "scan", "page", "append", "sync", "rename", "syncdir", "check"}
Committing == {"append", "sync", "rename", "syncdir"}

\* The first n chunks of a file are the dataset's.
AgreesTo(f, n) == Len(f) >= n /\ \A i \in 1..n : f[i] = dataset[i]

Version(v) ==
  /\ v \in [nonce : Nat, leafCount : Nat]
  /\ v.nonce <= Len(declared) /\ v.leafCount = LeafCount(v.nonce)
Intact(v) == Version(v) /\ AgreesTo(file, v.leafCount) /\ AgreesTo(fileSafe, v.leafCount)

ChainOk ==
  /\ finalized \in Nat
  /\ declared \in Seq(Declarations) /\ dataset \in Seq(Nat)
  /\ \A i, j \in DOMAIN declared : i < j => declared[i].leafCount <= declared[j].leafCount
  /\ LeafCount(Len(declared)) = Len(dataset)

FilesOk == file \in Seq(Cells) /\ fileSafe \in Seq(Cells) /\ Len(fileSafe) <= Len(file)

\* The newest version is what a process reads, and one version is the oldest.
DiskOk ==
  /\ frontierFile \in frontierOnDisk
  /\ \A v \in frontierOnDisk :
       v # NoFrontier => Intact(v) /\ frontierFile # NoFrontier /\ v.nonce <= frontierFile.nonce
  /\ \E v \in frontierOnDisk :
       \A w \in frontierOnDisk : v # NoFrontier => w # NoFrontier /\ v.nonce <= w.nonce

\* A running daemon holds the lock; what it has in memory is what the disk has, or the
\* version before.
Running(d) ==
  /\ lockHolder = d
  /\ frontier[d] # NoFrontier /\ Intact(frontier[d])
  /\ Loaded.nonce \in {frontier[d].nonce, frontier[d].nonce + 1}

MemoryOk ==
  /\ pc \in [Daemons -> Steps] /\ DOMAIN frontier = Daemons /\ DOMAIN batch = Daemons
  /\ \A d \in Daemons : pc[d] # "down" => Running(d)
  /\ \A d \in Daemons : pc[d] = "down" => frontier[d] = NoFrontier
  /\ \A d \in Daemons :
       batch[d] \in Seq(Nat) /\ \A i \in 1..Len(batch[d]) : batch[d][i] < Len(declared)

\* What a commit has achieved after each of its calls.
DueFrontier(d) == NextFrontier(Head(batch[d]))
CommitAt(d) ==
  /\ batch[d] # <<>> /\ Head(batch[d]) = frontier[d].nonce
  /\ pc[d] # "append" => AgreesTo(file, DueFrontier(d).leafCount)
  /\ pc[d] \in {"rename", "syncdir"} => AgreesTo(fileSafe, DueFrontier(d).leafCount)
  /\ pc[d] = "syncdir" => frontierFile = DueFrontier(d)
CommitOk == \A d \in Daemons : pc[d] \in Committing => CommitAt(d)

StoreInv == ChainOk /\ FilesOk /\ DiskOk /\ MemoryOk /\ CommitOk

-----------------------------------------------------------------------------

\* Leaf counts grow with the nonce, up to the length of the dataset.
LEMMA LeafCounts ==
  ASSUME ChainOk
  PROVE  /\ \A n \in 0..Len(declared) : LeafCount(n) \in Nat /\ LeafCount(n) <= Len(dataset)
         /\ \A m, n \in 0..Len(declared) : m <= n => LeafCount(m) <= LeafCount(n)
<1>1. Len(declared) \in Nat /\ DOMAIN declared = 1..Len(declared)
  BY DEF ChainOk
<1>2. ASSUME NEW n \in 0..Len(declared) PROVE LeafCount(n) \in Nat
  <2>1. CASE n # 0
    <3>1. n \in DOMAIN declared
      BY <1>1, <2>1
    <3>2. declared[n] \in Declarations
      BY <1>1, <3>1 DEF ChainOk
    <3> QED  BY <2>1, <3>2 DEF LeafCount, Declarations
  <2> QED  BY <2>1 DEF LeafCount
<1>3. ASSUME NEW m \in 0..Len(declared), NEW n \in 0..Len(declared), m <= n
      PROVE  LeafCount(m) <= LeafCount(n)
  <2>1. CASE m = 0
    BY <1>2, <2>1 DEF LeafCount
  <2>2. CASE m # 0 /\ m < n
    <3>1. m \in DOMAIN declared /\ n \in DOMAIN declared /\ n # 0
      BY <1>1, <2>2
    <3> QED  BY <2>2, <3>1 DEF LeafCount, ChainOk
  <2>3. CASE m = n
    BY <1>2, <2>3
  <2> QED  BY <1>3, <2>1, <2>2, <2>3
<1>4. \A n \in 0..Len(declared) : LeafCount(n) <= Len(dataset)
  BY <1>1, <1>3 DEF ChainOk
<1> QED  BY <1>2, <1>3, <1>4

\* Writing the due chunks where the committed ones end damages nothing.
LEMMA WriteIntact ==
  ASSUME FilesOk, dataset \in Seq(Nat), UNCHANGED dataset,
         NEW first \in Nat, NEW cells \in Seq(Nat), AgreesTo(file, first),
         first + Len(cells) <= Len(dataset),
         \A j \in 1..Len(cells) : cells[j] = dataset[first + j],
         file' = Overwritten(first, cells)
  PROVE  /\ file' \in Seq(Cells) /\ Len(file') >= Len(file)
         /\ AgreesTo(file', first + Len(cells))
         /\ \A n \in Nat : AgreesTo(file, n) => AgreesTo(file', n)
<1> DEFINE last == first + Len(cells)
           top == IF last > Len(file) THEN last ELSE Len(file)
<1>1. last \in Nat /\ top \in Nat /\ Len(file) \in Nat /\ Len(cells) \in Nat
  BY DEF FilesOk
<1>2. file' = [i \in 1..top |-> IF i > first /\ i <= last THEN cells[i - first]
                                ELSE IF i <= Len(file) THEN file[i] ELSE Lost]
  BY DEF Overwritten
<1>3. ASSUME NEW i \in 1..top PROVE file'[i] \in Cells
  BY <1>1, <1>2 DEF FilesOk, Cells
<1>4. file' \in Seq(Cells) /\ Len(file') = top
  <2> HIDE DEF top
  <2>1. file' \in [1..top -> Cells]
    BY <1>2, <1>3
  <2> QED  BY <1>1, <2>1
<1>5. ASSUME NEW i \in 1..top, i <= last PROVE file'[i] = dataset[i]
  <2>1. CASE i > first
    BY <1>1, <1>2, <1>5, <2>1
  <2>2. CASE i <= first
    BY <1>1, <1>2, <1>5, <2>2 DEF AgreesTo
  <2> QED  BY <1>1, <2>1, <2>2
<1>6. ASSUME NEW n \in Nat, AgreesTo(file, n) PROVE AgreesTo(file', n)
  <2>1. Len(file') >= n
    BY <1>1, <1>4, <1>6 DEF AgreesTo
  <2>2. ASSUME NEW i \in 1..n PROVE file'[i] = dataset[i]
    <3>1. i \in 1..top /\ i <= Len(file)
      BY <1>1, <1>6 DEF AgreesTo
    <3> QED  BY <1>1, <1>2, <1>5, <1>6, <3>1 DEF AgreesTo
  <2> QED  BY <2>1, <2>2 DEF AgreesTo
<1>7. AgreesTo(file', last)
  <2>1. last <= top /\ 1..last \subseteq 1..top
    BY <1>1
  <2> QED  BY <1>1, <1>4, <1>5, <2>1 DEF AgreesTo
<1> QED  BY <1>1, <1>4, <1>6, <1>7

\* A page holds nonces of declarations.
LEMMA LogsTyped ==
  ASSUME ChainOk, NEW b, NEW e, NEW dropped, NEW logs \in Logs(b, e, dropped)
  PROVE  logs \in Seq(Nat) /\ \A i \in 1..Len(logs) : logs[i] < Len(declared)
<1> DEFINE found == {n \in Nonces : b < Block(n) /\ Block(n) <= e} \ dropped
           size == Cardinality(found)
<1>1. Len(declared) \in Nat
  BY DEF ChainOk
<1>2. IsFiniteSet(Nonces)
  BY <1>1, FS_Interval DEF Nonces
<1>3. size \in Nat
  <2>1. found \in SUBSET Nonces
    OBVIOUS
  <2> QED  BY <1>2, <2>1, FS_Subset, FS_CardinalityType
<1>4. logs \in [1..size -> found]
  BY DEF Logs
<1>5. \A n \in found : n \in Nat /\ n < Len(declared)
  BY <1>1 DEF Nonces
<1> HIDE DEF found, size
<1>6. logs \in [1..size -> Nat] /\ \A i \in 1..size : logs[i] < Len(declared)
  BY <1>4, <1>5
<1> QED  BY <1>3, <1>6

-----------------------------------------------------------------------------

\* The lock admits one daemon.
LEMMA Alone ==
  ASSUME MemoryOk, NEW d \in Daemons, pc[d] # "down", NEW e \in Daemons \ {d}
  PROVE  pc[e] = "down" /\ frontier[e] = NoFrontier
  BY DEF MemoryOk, Running

\* A step of a daemon d beside which none runs keeps the invariant if it keeps the disk,
\* and leaves d with what its place in the code demands.
LEMMA AloneKeeps ==
  ASSUME StoreInv, UNCHANGED chainVars, NEW d \in Daemons,
         \A e \in Daemons \ {d} : pc[e] = "down" /\ frontier[e] = NoFrontier,
         pc' \in [Daemons -> Steps], pc'[d] # "down",
         DOMAIN frontier' = Daemons, DOMAIN batch' = Daemons,
         \A e \in Daemons \ {d} :
           pc'[e] = pc[e] /\ frontier'[e] = frontier[e] /\ batch'[e] = batch[e],
         batch'[d] \in Seq(Nat), \A i \in 1..Len(batch'[d]) : batch'[d][i] < Len(declared),
         FilesOk', DiskOk', Running(d)', pc'[d] \in Committing => CommitAt(d)'
  PROVE  StoreInv'
<1>1. ChainOk'
  BY DEF StoreInv, ChainOk, chainVars, LeafCount
<1>2. ASSUME NEW e \in Daemons \ {d} PROVE pc'[e] = "down" /\ frontier'[e] = NoFrontier
  OBVIOUS
<1>3. declared' = declared
  BY DEF chainVars
<1>4. \A e \in Daemons :
        batch'[e] \in Seq(Nat) /\ \A i \in 1..Len(batch'[e]) : batch'[e][i] < Len(declared')
  BY <1>3 DEF StoreInv, MemoryOk
<1>5. \A e \in Daemons : pc'[e] # "down" => Running(e)'
  BY <1>2
<1>6. \A e \in Daemons : pc'[e] = "down" => frontier'[e] = NoFrontier
  BY <1>2
<1>7. MemoryOk'
  BY <1>4, <1>5, <1>6 DEF MemoryOk
<1>8. CommitOk'
  BY <1>2 DEF CommitOk, Committing
<1> QED  BY <1>1, <1>7, <1>8 DEF StoreInv

\* The same of a running daemon, which the lock keeps alone.
LEMMA DaemonKeeps ==
  ASSUME StoreInv, UNCHANGED chainVars, NEW d \in Daemons, pc[d] # "down",
         pc' \in [Daemons -> Steps], pc'[d] # "down",
         DOMAIN frontier' = Daemons, DOMAIN batch' = Daemons,
         \A e \in Daemons \ {d} :
           pc'[e] = pc[e] /\ frontier'[e] = frontier[e] /\ batch'[e] = batch[e],
         batch'[d] \in Seq(Nat), \A i \in 1..Len(batch'[d]) : batch'[d][i] < Len(declared),
         FilesOk', DiskOk', Running(d)', pc'[d] \in Committing => CommitAt(d)'
  PROVE  StoreInv'
<1>1. \A e \in Daemons \ {d} : pc[e] = "down" /\ frontier[e] = NoFrontier
  BY Alone DEF StoreInv
<1> QED  BY <1>1, AloneKeeps

\* What is said of the store depends on store and chain alone.
LEMMA StoreSame ==
  ASSUME UNCHANGED <<storeVars, chainVars>>, NEW d
  PROVE  FilesOk' = FilesOk /\ DiskOk' = DiskOk /\ Running(d)' = Running(d)
  BY DEF storeVars, chunkVars, frontierVars, chainVars, FilesOk, DiskOk, Running, Intact,
     Version, AgreesTo, LeafCount, Loaded, Fresh

\* The steps between two commits.
LEMMA ScanKeeps ==
  ASSUME StoreInv, UNCHANGED <<storeVars, chainVars>>, NEW d \in Daemons,
         NEW step \in Steps \ ({"down"} \cup Committing), pc[d] # "down",
         pc' = [pc EXCEPT ![d] = step],
         \/ UNCHANGED batch
         \/ batch' = [batch EXCEPT ![d] = <<>>]
         \/ batch[d] # <<>> /\ batch' = [batch EXCEPT ![d] = Tail(@)]
         \/ \E b, e, dropped : \E logs \in Logs(b, e, dropped) :
              batch' = [batch EXCEPT ![d] = logs]
  PROVE  StoreInv'
<1>1. /\ pc' \in [Daemons -> Steps] /\ pc'[d] = step
      /\ DOMAIN frontier' = Daemons /\ DOMAIN batch' = Daemons /\ frontier' = frontier
      /\ \A e \in Daemons \ {d} : pc'[e] = pc[e] /\ batch'[e] = batch[e]
  BY DEF StoreInv, MemoryOk, storeVars
<1>2. batch'[d] \in Seq(Nat) /\ \A i \in 1..Len(batch'[d]) : batch'[d][i] < Len(declared)
  <2>0. batch[d] \in Seq(Nat) /\ \A i \in 1..Len(batch[d]) : batch[d][i] < Len(declared)
    BY DEF StoreInv, MemoryOk
  <2>1. CASE UNCHANGED batch
    BY <2>0, <2>1
  <2>2. CASE batch' = [batch EXCEPT ![d] = <<>>]
    BY <2>2 DEF StoreInv, MemoryOk
  <2>3. CASE batch[d] # <<>> /\ batch' = [batch EXCEPT ![d] = Tail(@)]
    BY <2>0, <2>3 DEF StoreInv, MemoryOk
  <2>4. ASSUME NEW b, NEW e, NEW dropped, NEW logs \in Logs(b, e, dropped),
               batch' = [batch EXCEPT ![d] = logs]
        PROVE  batch'[d] \in Seq(Nat) /\ \A i \in 1..Len(batch'[d]) : batch'[d][i] < Len(declared)
    <3>1. batch'[d] = logs
      BY <2>4 DEF StoreInv, MemoryOk
    <3> QED  BY <3>1, LogsTyped DEF StoreInv
  <2> QED  BY <2>1, <2>2, <2>3, <2>4
<1>3. FilesOk' /\ DiskOk' /\ Running(d)'
  BY StoreSame DEF StoreInv, MemoryOk
<1> QED  BY <1>1, <1>2, <1>3, DaemonKeeps

-----------------------------------------------------------------------------

\* What SubSeq returns, in the form it is used here.
LEMMA Stretch ==
  ASSUME NEW s \in Seq(Nat), NEW first \in Nat, NEW last \in Nat, first <= last, last <= Len(s)
  PROVE  /\ SubSeq(s, first + 1, last) \in Seq(Nat)
         /\ Len(SubSeq(s, first + 1, last)) = last - first
         /\ \A j \in 1..Len(SubSeq(s, first + 1, last)) :
              SubSeq(s, first + 1, last)[j] = s[first + j]
<1>1. PICK m \in Int : m = first + 1
  OBVIOUS
<1>2. \A i \in m..last : s[i] \in Nat
  BY <1>1
<1>3. /\ SubSeq(s, m, last) \in Seq(Nat)
      /\ Len(SubSeq(s, m, last)) = IF m <= last THEN last - m + 1 ELSE 0
      /\ \A i \in 1..last - m + 1 : SubSeq(s, m, last)[i] = s[m + i - 1]
  BY <1>2, SubSeqProperties
<1>4. Len(SubSeq(s, m, last)) = last - first
  BY <1>1, <1>3
<1>5. ASSUME NEW j \in 1..last - first PROVE SubSeq(s, m, last)[j] = s[first + j]
  <2>1. j \in 1..last - m + 1 /\ m + j - 1 = first + j
    BY <1>1
  <2> QED  BY <1>3, <2>1
<1> QED  BY <1>1, <1>3, <1>4, <1>5

\* The same from the first element on.
LEMMA Stretched ==
  ASSUME NEW s \in Seq(Nat), NEW n \in Nat, n <= Len(s)
  PROVE  /\ SubSeq(s, 1, n) \in Seq(Nat) /\ Len(SubSeq(s, 1, n)) = n
         /\ \A i \in 1..n : SubSeq(s, 1, n)[i] = s[i]
<1>1. /\ SubSeq(s, 0 + 1, n) \in Seq(Nat) /\ Len(SubSeq(s, 0 + 1, n)) = n - 0
      /\ \A j \in 1..Len(SubSeq(s, 0 + 1, n)) : SubSeq(s, 0 + 1, n)[j] = s[0 + j]
  BY Stretch
<1> QED  BY <1>1

\* The chunks a commit is about to write, and the frontier it is about to set.
LEMMA Due ==
  ASSUME StoreInv, NEW d \in Daemons, pc[d] \in Committing, NEW first, NEW cells,
         first = frontier[d].leafCount, cells = ChunksOf(Head(batch[d]))
  PROVE  /\ first \in Nat /\ AgreesTo(file, first) /\ AgreesTo(fileSafe, first)
         /\ Version(DueFrontier(d)) /\ DueFrontier(d) # NoFrontier
         /\ DueFrontier(d).nonce = frontier[d].nonce + 1 /\ frontier[d].nonce \in Nat
         /\ cells \in Seq(Nat) /\ first + Len(cells) = DueFrontier(d).leafCount
         /\ DueFrontier(d).leafCount <= Len(dataset)
         /\ \A j \in 1..Len(cells) : cells[j] = dataset[first + j]
<1>1. CommitAt(d) /\ Intact(frontier[d])
  BY DEF StoreInv, CommitOk, MemoryOk, Running, Committing
<1>2. PICK n : n = Head(batch[d])
  OBVIOUS
<1>3. n = frontier[d].nonce /\ n \in Nat /\ n < Len(declared)
  <2>1. batch[d] \in Seq(Nat) /\ \A i \in 1..Len(batch[d]) : batch[d][i] < Len(declared)
    BY DEF StoreInv, MemoryOk
  <2>2. batch[d] # <<>> /\ n = frontier[d].nonce
    BY <1>1, <1>2 DEF CommitAt
  <2> QED  BY <1>2, <2>1, <2>2
<1>4. Len(declared) \in Nat /\ dataset \in Seq(Nat)
  BY DEF StoreInv, ChainOk
<1>5. /\ first = LeafCount(n) /\ LeafCount(n) \in Nat /\ LeafCount(n + 1) \in Nat
      /\ LeafCount(n) <= LeafCount(n + 1) /\ LeafCount(n + 1) <= Len(dataset)
  <2>1. n \in 0..Len(declared) /\ n + 1 \in 0..Len(declared)
    BY <1>3, <1>4
  <2> QED  BY <1>1, <1>3, <2>1, LeafCounts DEF StoreInv, Intact, Version
<1>6. DueFrontier(d) = [nonce |-> n + 1, leafCount |-> LeafCount(n + 1)]
  BY <1>2, <1>3 DEF DueFrontier, NextFrontier, LeafCount
<1>7. Version(DueFrontier(d)) /\ DueFrontier(d) # NoFrontier
  BY <1>3, <1>4, <1>5, <1>6, ChunkStoreAssumption DEF Version
<1>8. cells = SubSeq(dataset, first + 1, LeafCount(n + 1))
  <2>1. LeafCount(n + 1) = declared[n + 1].leafCount
    BY <1>3 DEF LeafCount
  <2>2. cells = ChunksOf(n)
    BY <1>2
  <2> QED  BY <1>5, <2>1, <2>2 DEF ChunksOf
<1>9. /\ cells \in Seq(Nat) /\ Len(cells) = LeafCount(n + 1) - first
      /\ \A j \in 1..Len(cells) : cells[j] = dataset[first + j]
  <2>1. PICK last : last = LeafCount(n + 1)
    OBVIOUS
  <2>2. first \in Nat /\ last \in Nat /\ first <= last /\ last <= Len(dataset)
    BY <1>5, <2>1
  <2>3. /\ SubSeq(dataset, first + 1, last) \in Seq(Nat)
        /\ Len(SubSeq(dataset, first + 1, last)) = last - first
        /\ \A j \in 1..Len(SubSeq(dataset, first + 1, last)) :
             SubSeq(dataset, first + 1, last)[j] = dataset[first + j]
    BY <1>4, <2>2, Stretch
  <2> QED  BY <1>8, <2>1, <2>3, Zenon
<1>10. AgreesTo(file, first) /\ AgreesTo(fileSafe, first)
  BY <1>1 DEF Intact
<1> QED  BY <1>3, <1>5, <1>6, <1>7, <1>9, <1>10

\* What is intact stays so while the files keep agreeing with the dataset.
FilesKeep ==
  \A n \in Nat : AgreesTo(file, n) /\ AgreesTo(fileSafe, n) =>
    AgreesTo(file', n) /\ AgreesTo(fileSafe', n)

\* A frontier whose chunks are kept stays intact.
LEMMA IntactKept ==
  ASSUME UNCHANGED chainVars, FilesKeep, NEW v, Intact(v) PROVE Intact(v)'
<1>1. v.leafCount \in Nat
  BY DEF Intact, Version
<1>2. AgreesTo(file', v.leafCount) /\ AgreesTo(fileSafe', v.leafCount)
  BY <1>1 DEF FilesKeep, Intact
<1>3. AgreesTo(file, v.leafCount)' /\ AgreesTo(fileSafe, v.leafCount)'
  BY <1>2 DEF AgreesTo, chainVars
<1> QED  BY <1>3 DEF Intact, Version, LeafCount, chainVars

\* So do all versions of it, and the running daemon's.
LEMMA DiskKept ==
  ASSUME DiskOk, UNCHANGED <<chainVars, frontierVars, lockHolder, frontier>>, FilesKeep, NEW d
  PROVE  DiskOk' /\ (Running(d) => Running(d)')
<1>1. DiskOk'
  BY IntactKept DEF DiskOk, frontierVars
<1>2. ASSUME Running(d) PROVE Running(d)'
  <2>1. PICK v : v = frontier[d]
    OBVIOUS
  <2>2. Intact(v)'
    BY <1>2, <2>1, IntactKept DEF Running
  <2> QED  BY <1>2, <2>1, <2>2 DEF Running, Loaded, Fresh, frontierVars
<1> QED  BY <1>1, <1>2

\* Any number of the due chunks may have been written.
LEMMA WriteKeeps ==
  ASSUME StoreInv, UNCHANGED chainVars, NEW d \in Daemons, pc[d] = "append",
         NEW k \in 0..Len(ChunksOf(Head(batch[d]))),
         WriteChunks(d, SubSeq(ChunksOf(Head(batch[d])), 1, k))
  PROVE  /\ FilesOk' /\ DiskOk' /\ Running(d)' /\ frontier' = frontier
         /\ AgreesTo(file', frontier[d].leafCount + k)
<1>1. PICK first, all : first = frontier[d].leafCount /\ all = ChunksOf(Head(batch[d]))
  OBVIOUS
<1>2. /\ first \in Nat /\ AgreesTo(file, first) /\ all \in Seq(Nat)
      /\ first + Len(all) <= Len(dataset)
      /\ \A j \in 1..Len(all) : all[j] = dataset[first + j]
  BY <1>1, Due DEF Committing
<1>3. PICK cells : cells = SubSeq(all, 1, k)
  OBVIOUS
<1>4. /\ cells \in Seq(Nat) /\ Len(cells) = k /\ \A j \in 1..Len(cells) : cells[j] = all[j]
      /\ k \in Nat /\ k <= Len(all)
  <2>1. k \in Nat /\ k <= Len(all)
    BY <1>1, <1>2
  <2> QED  BY <1>2, <1>3, <2>1, Stretched
<1>5. /\ file' = Overwritten(first, cells)
      /\ UNCHANGED <<fileSafe, frontierVars, lockHolder, frontier>>
  BY <1>1, <1>3 DEF WriteChunks, AppendAt
<1>6. /\ file' \in Seq(Cells) /\ Len(file') >= Len(file)
      /\ AgreesTo(file', first + Len(cells))
      /\ \A n \in Nat : AgreesTo(file, n) => AgreesTo(file', n)
  <2>1. FilesOk /\ dataset \in Seq(Nat) /\ UNCHANGED dataset
    BY DEF StoreInv, ChainOk, chainVars
  <2>2. /\ first + Len(cells) <= Len(dataset)
        /\ \A j \in 1..Len(cells) : cells[j] = dataset[first + j]
    <3>1. Len(dataset) \in Nat /\ Len(all) \in Nat
      BY <1>2, <2>1
    <3>2. ASSUME NEW j \in 1..Len(cells) PROVE cells[j] = dataset[first + j]
      <4>1. j \in 1..Len(all)
        BY <1>4, <3>1
      <4> QED  BY <1>2, <1>4, <4>1
    <3>3. first \in Nat /\ first + Len(all) <= Len(dataset)
      BY <1>2
    <3>4. Len(cells) = k /\ k \in Nat /\ k <= Len(all)
      BY <1>4
    <3>5. first + Len(cells) <= Len(dataset)
      BY <3>1, <3>3, <3>4
    <3> QED  BY <3>2, <3>5
  <2> QED  BY <1>2, <1>4, <1>5, <2>1, <2>2, WriteIntact
<1>7. FilesOk'
  BY <1>5, <1>6 DEF StoreInv, FilesOk
<1>8. FilesKeep
  BY <1>5, <1>6 DEF FilesKeep
<1>9. DiskOk' /\ Running(d)'
  BY <1>5, <1>8, DiskKept DEF StoreInv, MemoryOk
<1> QED  BY <1>1, <1>4, <1>5, <1>6, <1>7, <1>9

-----------------------------------------------------------------------------

\* A commit, call by call.
LEMMA WriteStep ==
  ASSUME StoreInv, NEW d \in Daemons, Write(d) PROVE StoreInv'
<1>1. /\ pc[d] = "append" /\ pc' = [pc EXCEPT ![d] = "sync"]
      /\ UNCHANGED chainVars /\ UNCHANGED batch
      /\ WriteChunks(d, ChunksOf(Head(batch[d])))
  BY DEF Write, CommitStep, At, Goto
<1>2. PICK cells : cells = ChunksOf(Head(batch[d]))
  OBVIOUS
<1>3. cells \in Seq(Nat) /\ frontier[d].leafCount + Len(cells) = DueFrontier(d).leafCount
  BY <1>1, <1>2, Due DEF Committing
<1>4. Len(cells) \in 0..Len(cells) /\ SubSeq(cells, 1, Len(cells)) = cells
  BY <1>3, SubSeqFull, LenProperties
<1>5. WriteChunks(d, SubSeq(ChunksOf(Head(batch[d])), 1, Len(cells)))
  BY <1>1, <1>2, <1>4
<1>6. /\ FilesOk' /\ DiskOk' /\ Running(d)' /\ frontier' = frontier
      /\ AgreesTo(file', frontier[d].leafCount + Len(cells))
  BY <1>1, <1>2, <1>4, <1>5, WriteKeeps
<1>7. /\ pc' \in [Daemons -> Steps] /\ pc'[d] = "sync"
      /\ DOMAIN frontier' = Daemons /\ DOMAIN batch' = Daemons
      /\ \A e \in Daemons \ {d} : pc'[e] = pc[e] /\ batch'[e] = batch[e]
      /\ batch'[d] \in Seq(Nat) /\ \A i \in 1..Len(batch'[d]) : batch'[d][i] < Len(declared)
  BY <1>1, <1>6 DEF StoreInv, MemoryOk, Steps
<1>8. CommitAt(d)'
  <2>1. CommitAt(d)
    BY <1>1 DEF StoreInv, CommitOk, Committing
  <2>2. AgreesTo(file, DueFrontier(d).leafCount)'
    BY <1>1, <1>3, <1>6 DEF AgreesTo, DueFrontier, NextFrontier, chainVars
  <2> QED  BY <1>1, <1>6, <1>7, <2>1, <2>2 DEF CommitAt
<1> QED  BY <1>1, <1>6, <1>7, <1>8, DaemonKeeps

\* A write that fails leaves part of the due chunks, and the daemon gives up for now.
LEMMA TornStep ==
  ASSUME StoreInv, NEW d \in Daemons, pc[d] = "append",
         TornWrite(d, ChunksOf(Head(batch[d]))), Halt(d)
  PROVE  StoreInv'
<1>1. /\ pc' = [pc EXCEPT ![d] = "check"] /\ batch' = [batch EXCEPT ![d] = <<>>]
      /\ UNCHANGED chainVars
  BY DEF Halt, Goto, EndPage
<1>2. PICK cells : cells = ChunksOf(Head(batch[d]))
  OBVIOUS
<1>3. cells \in Seq(Nat)
  BY <1>2, Due DEF Committing
<1>4. PICK k \in 0..Len(cells) - 1 : WriteChunks(d, SubSeq(cells, 1, k))
  BY <1>2 DEF TornWrite
<1>5. k \in 0..Len(ChunksOf(Head(batch[d])))
  BY <1>2, <1>3, <1>4
<1>6. FilesOk' /\ DiskOk' /\ Running(d)' /\ frontier' = frontier
  BY <1>1, <1>2, <1>4, <1>5, WriteKeeps
<1>7. /\ pc' \in [Daemons -> Steps] /\ pc'[d] = "check"
      /\ DOMAIN frontier' = Daemons /\ DOMAIN batch' = Daemons
      /\ \A e \in Daemons \ {d} : pc'[e] = pc[e] /\ batch'[e] = batch[e]
      /\ batch'[d] = <<>>
  BY <1>1, <1>6 DEF StoreInv, MemoryOk, Steps
<1> QED  BY <1>1, <1>6, <1>7, DaemonKeeps DEF Committing

\* What was written is safe now.
LEMMA SyncStep ==
  ASSUME StoreInv, NEW d \in Daemons, Sync(d) PROVE StoreInv'
<1>1. /\ pc[d] = "sync" /\ pc' = [pc EXCEPT ![d] = "rename"]
      /\ UNCHANGED <<chainVars, batch, file, frontierVars, lockHolder, frontier>>
      /\ fileSafe' = file
  BY DEF Sync, SyncChunks, CommitStep, At, Goto
<1>2. FilesOk'
  BY <1>1 DEF StoreInv, FilesOk
<1>3. FilesKeep
  BY <1>1 DEF FilesKeep
<1>4. DiskOk' /\ Running(d)'
  BY <1>1, <1>3, DiskKept DEF StoreInv, MemoryOk
<1>5. /\ pc' \in [Daemons -> Steps] /\ pc'[d] = "rename"
      /\ DOMAIN frontier' = Daemons /\ DOMAIN batch' = Daemons
      /\ \A e \in Daemons \ {d} : pc'[e] = pc[e] /\ batch'[e] = batch[e] /\ frontier'[e] = frontier[e]
      /\ batch'[d] \in Seq(Nat) /\ \A i \in 1..Len(batch'[d]) : batch'[d][i] < Len(declared)
  BY <1>1 DEF StoreInv, MemoryOk, Steps
<1>6. CommitAt(d)'
  <2>1. CommitAt(d)
    BY <1>1 DEF StoreInv, CommitOk, Committing
  <2> QED  BY <1>1, <1>5, <2>1 DEF CommitAt, AgreesTo, DueFrontier, NextFrontier, chainVars
<1> QED  BY <1>1, <1>2, <1>4, <1>5, <1>6, DaemonKeeps

\* The frontier that is renamed into place commits chunks that are synced.
LEMMA RenameStep ==
  ASSUME StoreInv, NEW d \in Daemons, Rename(d) PROVE StoreInv'
<1>1. /\ pc[d] = "rename" /\ pc' = [pc EXCEPT ![d] = "syncdir"]
      /\ UNCHANGED <<chainVars, batch, chunkVars, lockHolder, frontier>>
      /\ frontierFile' = DueFrontier(d) /\ frontierOnDisk' = frontierOnDisk \cup {DueFrontier(d)}
  BY DEF Rename, RenameFrontier, CommitStep, At, Goto, DueFrontier
<1>2. PICK next : next = DueFrontier(d)
  OBVIOUS
<1>3. /\ Version(next) /\ next # NoFrontier /\ next.nonce = frontier[d].nonce + 1
      /\ frontier[d].nonce \in Nat
  BY <1>1, <1>2, Due DEF Committing
<1>4. CommitAt(d) /\ Running(d) /\ DiskOk /\ FilesOk
  BY <1>1 DEF StoreInv, CommitOk, Committing, MemoryOk
<1>5. Intact(next)
  BY <1>1, <1>2, <1>3, <1>4 DEF CommitAt, Intact
<1>6. FilesOk' /\ FilesKeep
  BY <1>1, <1>4 DEF FilesOk, FilesKeep, chunkVars
<1>7. \A v : Intact(v) => Intact(v)'
  BY <1>1, <1>6, IntactKept
<1>8. Loaded.nonce <= next.nonce
  BY <1>3, <1>4 DEF Running
<1>9. ASSUME NEW v \in frontierOnDisk', v # NoFrontier
      PROVE  Intact(v)' /\ v.nonce <= next.nonce
  <2>1. CASE v = next
    BY <1>3, <1>5, <1>7, <2>1
  <2>2. CASE v # next
    <3>1. v \in frontierOnDisk
      BY <1>1, <1>2, <2>2
    <3>2. Intact(v) /\ frontierFile # NoFrontier /\ v.nonce <= frontierFile.nonce
      BY <1>4, <1>9, <3>1 DEF DiskOk
    <3>3. frontierFile.nonce \in Nat /\ v.nonce \in Nat
      BY <1>4, <3>2 DEF DiskOk, Intact, Version
    <3> QED  BY <1>3, <1>7, <1>8, <3>2, <3>3 DEF Loaded
  <2> QED  BY <2>1, <2>2
<1>10. DiskOk'
  <2>1. PICK v \in frontierOnDisk :
          \A w \in frontierOnDisk : v # NoFrontier => w # NoFrontier /\ v.nonce <= w.nonce
    BY <1>4 DEF DiskOk
  <2>2. v \in frontierOnDisk' /\ \A w \in frontierOnDisk' :
          v # NoFrontier => w # NoFrontier /\ v.nonce <= w.nonce
    BY <1>1, <1>2, <1>3, <1>9, <2>1
  <2>3. frontierFile' \in frontierOnDisk' /\ frontierFile' = next
    BY <1>1, <1>2
  <2> QED  BY <1>3, <1>9, <2>2, <2>3 DEF DiskOk
<1>11. Running(d)'
  BY <1>1, <1>2, <1>3, <1>4, <1>7 DEF Running, Loaded
<1>12. /\ pc' \in [Daemons -> Steps] /\ pc'[d] = "syncdir"
       /\ DOMAIN frontier' = Daemons /\ DOMAIN batch' = Daemons
       /\ \A e \in Daemons \ {d} : pc'[e] = pc[e] /\ batch'[e] = batch[e] /\ frontier'[e] = frontier[e]
       /\ batch'[d] \in Seq(Nat) /\ \A i \in 1..Len(batch'[d]) : batch'[d][i] < Len(declared)
  BY <1>1 DEF StoreInv, MemoryOk, Steps
<1>13. CommitAt(d)'
  <2>1. DueFrontier(d)' = DueFrontier(d)
    BY <1>1 DEF DueFrontier, NextFrontier, chainVars
  <2>2. UNCHANGED <<file, fileSafe, dataset>>
    BY <1>1 DEF chainVars, chunkVars
  <2> QED  BY <1>1, <1>4, <2>1, <2>2 DEF CommitAt, AgreesTo
<1> QED  BY <1>1, <1>6, <1>10, <1>11, <1>12, <1>13, DaemonKeeps

\* The commit is done: one version is left, and memory follows.
LEMMA CommittedStep ==
  ASSUME StoreInv, NEW d \in Daemons, Committed(d) PROVE StoreInv'
<1>1. /\ pc[d] = "syncdir" /\ pc' = [pc EXCEPT ![d] = "page"]
      /\ UNCHANGED <<chainVars, chunkVars, frontierFile, lockHolder>>
      /\ frontierOnDisk' = {frontierFile}
      /\ frontier' = [frontier EXCEPT ![d] = frontierFile]
      /\ batch' = [batch EXCEPT ![d] = Tail(@)]
  BY DEF Committed, SyncDirectory, CommitStep, At, Goto
<1>2. CommitAt(d) /\ Running(d) /\ DiskOk /\ FilesOk /\ frontierFile = DueFrontier(d)
  BY <1>1 DEF StoreInv, CommitOk, Committing, MemoryOk, CommitAt
<1>3. PICK next : next = frontierFile
  OBVIOUS
<1>4. next # NoFrontier /\ Version(next)
  BY <1>1, <1>2, <1>3, Due DEF Committing
<1>5. Intact(next)
  BY <1>2, <1>3, <1>4 DEF DiskOk
<1>6. FilesOk' /\ FilesKeep
  BY <1>1, <1>2 DEF FilesOk, FilesKeep, chunkVars
<1>7. Intact(next)'
  BY <1>1, <1>5, <1>6, IntactKept
<1>8. next.nonce \in Nat
  BY <1>4 DEF Version
<1>9. DiskOk'
  BY <1>1, <1>3, <1>4, <1>7, <1>8 DEF DiskOk
<1>10. frontier'[d] = next /\ DOMAIN frontier' = Daemons
  BY <1>1, <1>3 DEF StoreInv, MemoryOk
<1>11. Running(d)'
  BY <1>1, <1>2, <1>3, <1>4, <1>7, <1>8, <1>10 DEF Running, Loaded
<1>12. /\ pc' \in [Daemons -> Steps] /\ pc'[d] = "page" /\ DOMAIN batch' = Daemons
       /\ \A e \in Daemons \ {d} : pc'[e] = pc[e] /\ batch'[e] = batch[e] /\ frontier'[e] = frontier[e]
  BY <1>1 DEF StoreInv, MemoryOk, Steps
<1>13. batch'[d] \in Seq(Nat) /\ \A i \in 1..Len(batch'[d]) : batch'[d][i] < Len(declared)
  <2>1. batch[d] \in Seq(Nat) /\ \A i \in 1..Len(batch[d]) : batch[d][i] < Len(declared)
    BY DEF StoreInv, MemoryOk
  <2>2. batch[d] # <<>> /\ batch'[d] = Tail(batch[d])
    BY <1>1, <1>2 DEF StoreInv, MemoryOk, CommitAt
  <2> QED  BY <2>1, <2>2
<1> QED  BY <1>1, <1>6, <1>9, <1>10, <1>11, <1>12, <1>13, DaemonKeeps DEF Committing

-----------------------------------------------------------------------------

\* The blobs of the due declaration are there: the commit begins.
LEMMA AcquiredStep ==
  ASSUME StoreInv, NEW d \in Daemons, Acquired(d) PROVE StoreInv'
<1>1. /\ pc[d] = "page" /\ batch[d] # <<>> /\ Head(batch[d]) = frontier[d].nonce
      /\ pc' = [pc EXCEPT ![d] = "append"]
      /\ UNCHANGED <<chainVars, storeVars, batch>>
  BY DEF Acquired, At, Goto
<1>2. FilesOk' /\ DiskOk' /\ Running(d)'
  BY <1>1, StoreSame DEF StoreInv, MemoryOk
<1>3. /\ pc' \in [Daemons -> Steps] /\ pc'[d] = "append" /\ UNCHANGED frontier
      /\ DOMAIN frontier' = Daemons /\ DOMAIN batch' = Daemons
      /\ \A e \in Daemons \ {d} : pc'[e] = pc[e] /\ batch'[e] = batch[e] /\ frontier'[e] = frontier[e]
      /\ batch'[d] \in Seq(Nat) /\ \A i \in 1..Len(batch'[d]) : batch'[d][i] < Len(declared)
  BY <1>1 DEF StoreInv, MemoryOk, Steps, storeVars
<1>4. CommitAt(d)'
  BY <1>1, <1>3 DEF CommitAt
<1> QED  BY <1>1, <1>2, <1>3, <1>4, DaemonKeeps

\* What a process reads is intact; a store without a frontier is empty or refused.
LEMMA LoadedIntact ==
  ASSUME StoreInv, NEW v, v = Loaded
  PROVE  /\ Intact(v) /\ v # NoFrontier
         /\ \A w \in frontierOnDisk : w # NoFrontier => Intact(w) /\ w.leafCount <= v.leafCount
<1>1. ChainOk /\ FilesOk /\ DiskOk
  BY DEF StoreInv
<1>2. CASE frontierFile = NoFrontier
  <2>1. v = Fresh
    BY <1>2 DEF Loaded
  <2>2. Version(v) /\ v.leafCount = 0 /\ v # NoFrontier
    BY <1>1, <2>1, ChunkStoreAssumption DEF Fresh, Version, LeafCount, ChainOk
  <2>3. Intact(v)
    BY <1>1, <2>2 DEF Intact, AgreesTo, FilesOk
  <2> QED  BY <1>1, <1>2, <2>2, <2>3 DEF DiskOk
<1>3. CASE frontierFile # NoFrontier
  <2>1. v = frontierFile /\ Intact(v)
    BY <1>1, <1>3 DEF Loaded, DiskOk
  <2>2. ASSUME NEW w \in frontierOnDisk, w # NoFrontier
        PROVE  Intact(w) /\ w.leafCount <= v.leafCount
    <3>1. Intact(w) /\ w.nonce <= v.nonce
      BY <1>1, <2>1, <2>2 DEF DiskOk
    <3>2. /\ w.nonce \in 0..Len(declared) /\ v.nonce \in 0..Len(declared)
          /\ w.leafCount = LeafCount(w.nonce) /\ v.leafCount = LeafCount(v.nonce)
      BY <1>1, <2>1, <3>1 DEF Intact, Version, ChainOk
    <3> QED  BY <1>1, <3>1, <3>2, LeafCounts
  <2> QED  BY <1>3, <2>1, <2>2
<1> QED  BY <1>2, <1>3

\* Opening cuts off what no version of the frontier commits.
LEMMA StartStep ==
  ASSUME StoreInv, NEW d \in Daemons, Start(d) PROVE StoreInv'
<1>1. /\ pc[d] = "down" /\ pc' = [pc EXCEPT ![d] = "idle"] /\ UNCHANGED <<chainVars, batch>>
      /\ OpenStore(d)
  BY DEF Start, At, Goto
<1>2. PICK v : v = Loaded
  OBVIOUS
<1>3. /\ Intact(v) /\ v # NoFrontier
      /\ \A w \in frontierOnDisk : w # NoFrontier => Intact(w) /\ w.leafCount <= v.leafCount
  BY <1>2, LoadedIntact
<1>4. /\ lockHolder = NoDaemon /\ lockHolder' = d /\ UNCHANGED frontierVars
      /\ frontier' = [frontier EXCEPT ![d] = v]
      /\ \/ file' = SubSeq(file, 1, v.leafCount) /\ fileSafe' = file'
         \/ UNCHANGED chunkVars
  BY <1>1, <1>2 DEF OpenStore, LockFree
<1>5. ASSUME NEW e \in Daemons PROVE pc[e] = "down" /\ frontier[e] = NoFrontier
  BY <1>4, ChunkStoreAssumption DEF StoreInv, MemoryOk, Running
<1>6. /\ v.leafCount \in Nat /\ AgreesTo(file, v.leafCount) /\ file \in Seq(Cells)
      /\ fileSafe \in Seq(Cells) /\ Len(fileSafe) <= Len(file)
  BY <1>3 DEF StoreInv, Intact, Version, FilesOk
<1>7. /\ file' \in Seq(Cells) /\ fileSafe' \in Seq(Cells) /\ Len(fileSafe') <= Len(file')
      /\ \A n \in Nat : n <= v.leafCount /\ AgreesTo(file, n) /\ AgreesTo(fileSafe, n) =>
           AgreesTo(file', n) /\ AgreesTo(fileSafe', n)
  <2>1. CASE UNCHANGED chunkVars
    BY <1>6, <2>1 DEF chunkVars
  <2>2. CASE file' = SubSeq(file, 1, v.leafCount) /\ fileSafe' = file'
    <3>1. PICK n \in Nat : n = v.leafCount
      BY <1>6
    <3>2. n <= Len(file) /\ Len(file) \in Nat
      BY <1>6, <3>1 DEF AgreesTo
    <3>3. \A i \in 1..n : file[i] \in Cells
      BY <1>6, <3>2
    <3>4. /\ file' \in Seq(Cells) /\ Len(file') = n /\ \A i \in 1..n : file'[i] = file[i]
      <4>1. /\ SubSeq(file, 1, n) \in Seq(Cells)
            /\ Len(SubSeq(file, 1, n)) = IF 1 <= n THEN n - 1 + 1 ELSE 0
            /\ \A i \in 1..n - 1 + 1 : SubSeq(file, 1, n)[i] = file[1 + i - 1]
        BY <3>3, SubSeqProperties
      <4>2. file' = SubSeq(file, 1, n)
        BY <2>2, <3>1
      <4>3. Len(SubSeq(file, 1, n)) = n
        BY <4>1
      <4>4. ASSUME NEW i \in 1..n PROVE SubSeq(file, 1, n)[i] = file[i]
        <5>1. i \in 1..n - 1 + 1 /\ 1 + i - 1 = i
          OBVIOUS
        <5> QED  BY <4>1, <5>1
      <4> QED  BY <4>1, <4>2, <4>3, <4>4
    <3>5. ASSUME NEW k \in Nat, k <= n, AgreesTo(file, k) PROVE AgreesTo(file', k)
      BY <3>4, <3>5 DEF AgreesTo
    <3> QED  BY <2>2, <3>1, <3>4, <3>5 DEF AgreesTo
  <2> QED  BY <1>4, <2>1, <2>2
<1>8. ASSUME NEW w, Intact(w), w.leafCount <= v.leafCount PROVE Intact(w)'
  <2>1. w.leafCount \in Nat /\ AgreesTo(file', w.leafCount) /\ AgreesTo(fileSafe', w.leafCount)
    BY <1>7, <1>8 DEF Intact, Version
  <2>2. AgreesTo(file, w.leafCount)' /\ AgreesTo(fileSafe, w.leafCount)'
    BY <1>1, <2>1 DEF AgreesTo, chainVars
  <2> QED  BY <1>1, <1>8, <2>2 DEF Intact, Version, LeafCount, chainVars
<1>9. DiskOk'
  BY <1>3, <1>4, <1>8 DEF StoreInv, DiskOk, frontierVars
<1>10. FilesOk'
  BY <1>7 DEF FilesOk
<1>11. frontier'[d] = v /\ DOMAIN frontier' = Daemons
  BY <1>4 DEF StoreInv, MemoryOk
<1>12. Intact(v)'
  BY <1>3, <1>6, <1>8
<1>13. Running(d)'
  <2>1. Loaded' = v
    BY <1>2, <1>4 DEF Loaded, Fresh, frontierVars
  <2> QED  BY <1>3, <1>4, <1>11, <1>12, <2>1 DEF Running
<1>14. /\ pc' \in [Daemons -> Steps] /\ pc'[d] = "idle" /\ DOMAIN batch' = Daemons
       /\ \A e \in Daemons \ {d} : pc'[e] = pc[e] /\ batch'[e] = batch[e] /\ frontier'[e] = frontier[e]
       /\ batch'[d] \in Seq(Nat) /\ \A i \in 1..Len(batch'[d]) : batch'[d][i] < Len(declared)
  BY <1>1, <1>4 DEF StoreInv, MemoryOk, Steps
<1> QED  BY <1>1, <1>5, <1>9, <1>10, <1>11, <1>13, <1>14, AloneKeeps DEF Committing

-----------------------------------------------------------------------------

\* When no daemon runs, only the disk matters.
LEMMA DownKeeps ==
  ASSUME StoreInv, UNCHANGED chainVars, FilesOk', DiskOk',
         pc' \in [Daemons -> Steps], DOMAIN frontier' = Daemons, DOMAIN batch' = Daemons,
         \A e \in Daemons :
           /\ pc'[e] = "down" /\ frontier'[e] = NoFrontier
           /\ batch'[e] = <<>> \/ batch'[e] = batch[e]
  PROVE  StoreInv'
<1>1. ChainOk'
  BY DEF StoreInv, ChainOk, chainVars, LeafCount
<1>2. \A e \in Daemons :
        batch'[e] \in Seq(Nat) /\ \A i \in 1..Len(batch'[e]) : batch'[e][i] < Len(declared')
  <2>1. ASSUME NEW e \in Daemons
        PROVE  batch'[e] \in Seq(Nat) /\ \A i \in 1..Len(batch'[e]) : batch'[e][i] < Len(declared)
    <3>1. CASE batch'[e] = <<>>
      BY <3>1
    <3>2. CASE batch'[e] = batch[e]
      BY <3>2 DEF StoreInv, MemoryOk
    <3> QED  BY <3>1, <3>2
  <2> QED  BY <2>1 DEF chainVars
<1>3. MemoryOk'
  BY <1>2 DEF MemoryOk
<1>4. CommitOk'
  BY DEF CommitOk, Committing
<1> QED  BY <1>1, <1>3, <1>4 DEF StoreInv

\* A kill forgets memory and lock, and leaves the disk as it is.
LEMMA KillStep ==
  ASSUME StoreInv, NEW d \in Daemons, Kill(d) PROVE StoreInv'
<1>1. /\ pc[d] # "down" /\ StoreKilled(d) /\ Forget({d}) /\ UNCHANGED chainVars
  BY DEF Kill, At
<1>2. \A e \in Daemons \ {d} : pc[e] = "down" /\ frontier[e] = NoFrontier
  BY <1>1, Alone DEF StoreInv
<1>3. /\ pc' \in [Daemons -> Steps] /\ DOMAIN frontier' = Daemons /\ DOMAIN batch' = Daemons
      /\ \A e \in Daemons :
           /\ pc'[e] = "down" /\ frontier'[e] = NoFrontier
           /\ batch'[e] = <<>> \/ batch'[e] = batch[e]
  BY <1>1, <1>2 DEF StoreKilled, Forget, StoreInv, MemoryOk, Steps
<1>4. FilesOk' /\ FilesKeep /\ UNCHANGED <<chunkVars, frontierVars>>
  BY <1>1 DEF StoreKilled, chunkVars, StoreInv, FilesOk, FilesKeep
<1>5. DiskOk'
  BY <1>1, <1>4, IntactKept DEF StoreInv, DiskOk, frontierVars
<1> QED  BY <1>1, <1>3, <1>4, <1>5, DownKeeps

\* Whatever a power cut leaves of the file, what was synced and agreed still does.
LEMMA ImageAgrees ==
  ASSUME FilesOk, NEW image \in CrashImages
  PROVE  /\ image \in Seq(Cells)
         /\ \A n \in Nat : AgreesTo(file, n) /\ AgreesTo(fileSafe, n) => AgreesTo(image, n)
<1> DEFINE Unsynced(k) == {i \in 1..k : i > Len(fileSafe) \/ file[i] # fileSafe[i]}
           Image(k, kept) ==
             [i \in 1..k |-> IF i \notin Unsynced(k) \/ i \in kept THEN file[i]
                             ELSE IF i <= Len(fileSafe) THEN fileSafe[i] ELSE Lost]
<1> DEFINE Images(k) == {Image(k, kept) : kept \in SUBSET Unsynced(k)}
<1>0. PICK k \in Len(fileSafe)..Len(file) : image \in Images(k)
  <2>1. image \in UNION {Images(k) : k \in Len(fileSafe)..Len(file)}
    BY DEF CrashImages
  <2> QED  BY <2>1
<1>1. PICK kept \in SUBSET Unsynced(k) : image = Image(k, kept)
  BY <1>0
<1>2. /\ Len(fileSafe) \in Nat /\ Len(file) \in Nat /\ k \in Nat
      /\ Len(fileSafe) <= k /\ k <= Len(file)
  BY <1>0 DEF FilesOk
<1>3. ASSUME NEW i \in 1..k PROVE image[i] \in Cells
  <2>1. file[i] \in Cells
    BY <1>2 DEF FilesOk
  <2>2. i <= Len(fileSafe) => fileSafe[i] \in Cells
    BY <1>2 DEF FilesOk
  <2> QED  BY <1>1, <2>1, <2>2 DEF Cells
<1>4. image \in Seq(Cells) /\ Len(image) = k
  <2>1. image \in [1..k -> Cells]
    BY <1>1, <1>3
  <2> QED  BY <1>2, <2>1
<1>5. ASSUME NEW n \in Nat, AgreesTo(file, n), AgreesTo(fileSafe, n) PROVE AgreesTo(image, n)
  <2>1. n <= k /\ n <= Len(fileSafe)
    BY <1>2, <1>5 DEF AgreesTo
  <2>2. ASSUME NEW i \in 1..n PROVE image[i] = dataset[i]
    <3>1. i \in 1..k /\ i \notin Unsynced(k) /\ file[i] = dataset[i]
      BY <1>2, <1>5, <2>1 DEF AgreesTo
    <3> QED  BY <1>1, <3>1
  <2> QED  BY <1>4, <2>1, <2>2 DEF AgreesTo
<1> QED  BY <1>4, <1>5

\* A power cut leaves one version of the frontier, and the chunks any version commits.
LEMMA PowerCutStep ==
  ASSUME StoreInv, PowerCut PROVE StoreInv'
<1>1. StorePowerCut /\ Forget(Daemons) /\ UNCHANGED chainVars
  BY DEF PowerCut
<1>2. PICK image \in CrashImages : file' = image /\ fileSafe' = image
  BY <1>1 DEF StorePowerCut
<1>3. /\ image \in Seq(Cells)
      /\ \A n \in Nat : AgreesTo(file, n) /\ AgreesTo(fileSafe, n) => AgreesTo(image, n)
  BY ImageAgrees DEF StoreInv
<1>4. FilesOk'
  BY <1>2, <1>3 DEF FilesOk
<1>5. FilesKeep
  BY <1>2, <1>3 DEF FilesKeep
<1>6. PICK version \in frontierOnDisk : frontierFile' = version /\ frontierOnDisk' = {version}
  BY <1>1 DEF StorePowerCut
<1>7. ASSUME version # NoFrontier PROVE Intact(version)' /\ version.nonce \in Nat
  <2>1. Intact(version)
    BY <1>7 DEF StoreInv, DiskOk
  <2> QED  BY <1>1, <1>5, <2>1, IntactKept DEF Intact, Version
<1>8. DiskOk'
  BY <1>6, <1>7 DEF DiskOk
<1>9. /\ pc' \in [Daemons -> Steps] /\ DOMAIN frontier' = Daemons /\ DOMAIN batch' = Daemons
      /\ \A e \in Daemons : pc'[e] = "down" /\ frontier'[e] = NoFrontier /\ batch'[e] = <<>>
  BY <1>1 DEF StorePowerCut, Forget, Steps
<1> QED  BY <1>1, <1>4, <1>8, <1>9, DownKeeps

-----------------------------------------------------------------------------

\* A longer dataset leaves the daemons' side as it is.
LEMMA ChainKeeps ==
  ASSUME StoreInv, ChainOk', UNCHANGED <<storeVars, pc, batch>>,
         Len(declared') >= Len(declared), Len(dataset') >= Len(dataset),
         \A n \in 1..Len(declared) : declared'[n] = declared[n],
         \A i \in 1..Len(dataset) : dataset'[i] = dataset[i]
  PROVE  StoreInv'
<1>1. /\ Len(declared) \in Nat /\ Len(declared') \in Nat
      /\ Len(dataset) \in Nat /\ Len(dataset') \in Nat
  BY DEF StoreInv, ChainOk
<1>2. \A n \in 0..Len(declared) : LeafCount(n)' = LeafCount(n)
  BY <1>1 DEF LeafCount
<1>3. /\ UNCHANGED <<file, fileSafe, frontierFile, frontierOnDisk, lockHolder, frontier, pc, batch>>
  BY DEF storeVars, chunkVars, frontierVars
<1>4. \A f, n : n \in Nat /\ n <= Len(dataset) /\ AgreesTo(f, n) =>
        Len(f) >= n /\ \A i \in 1..n : f[i] = dataset'[i]
  BY <1>1 DEF AgreesTo
<1>5. ASSUME NEW n \in Nat, n <= Len(dataset)
      PROVE  /\ AgreesTo(file, n) => AgreesTo(file, n)'
             /\ AgreesTo(fileSafe, n) => AgreesTo(fileSafe, n)'
  <2>1. /\ AgreesTo(file, n) => Len(file) >= n /\ \A i \in 1..n : file[i] = dataset'[i]
        /\ AgreesTo(fileSafe, n) => Len(fileSafe) >= n /\ \A i \in 1..n : fileSafe[i] = dataset'[i]
    BY <1>4, <1>5
  <2> QED  BY <1>3, <2>1 DEF AgreesTo
<1>6. ASSUME NEW v, Intact(v) PROVE Intact(v)'
  <2>1. v.nonce \in 0..Len(declared) /\ v.leafCount = LeafCount(v.nonce)
    BY <1>1, <1>6 DEF Intact, Version
  <2>2. v.leafCount \in Nat /\ v.leafCount <= Len(dataset)
    BY <2>1, LeafCounts DEF StoreInv
  <2>3. AgreesTo(file, v.leafCount)' /\ AgreesTo(fileSafe, v.leafCount)'
    BY <1>5, <1>6, <2>2 DEF Intact
  <2>4. Version(v)'
    BY <1>1, <1>2, <1>6, <2>1 DEF Intact, Version
  <2> QED  BY <2>3, <2>4 DEF Intact
<1>7. FilesOk' /\ DiskOk'
  BY <1>3, <1>6 DEF StoreInv, FilesOk, DiskOk
<1>8. MemoryOk'
  <2>1. ASSUME NEW d \in Daemons, pc[d] # "down" PROVE Running(d)'
    <3>1. PICK v : v = frontier[d]
      OBVIOUS
    <3>2. Running(d) /\ Intact(v)'
      BY <1>6, <2>1, <3>1 DEF StoreInv, MemoryOk, Running
    <3> QED  BY <1>3, <3>1, <3>2 DEF Running, Loaded, Fresh
  <2>2. \A d \in Daemons : \A i \in 1..Len(batch[d]) : batch[d][i] < Len(declared')
    <3>1. ASSUME NEW d \in Daemons, NEW i \in 1..Len(batch[d]) PROVE batch[d][i] < Len(declared')
      <4>1. batch[d][i] \in Nat /\ batch[d][i] < Len(declared)
        BY DEF StoreInv, MemoryOk
      <4> QED  BY <1>1, <4>1
    <3> QED  BY <3>1
  <2> QED  BY <1>3, <2>1, <2>2 DEF StoreInv, MemoryOk
<1>9. CommitOk'
  <2>1. ASSUME NEW d \in Daemons, pc[d] \in Committing PROVE CommitAt(d)'
    <3>1. CommitAt(d) /\ DueFrontier(d).leafCount <= Len(dataset) /\ DueFrontier(d).leafCount \in Nat
      BY <2>1, Due DEF StoreInv, CommitOk, Version
    <3>2. DueFrontier(d)' = DueFrontier(d)
      <4>1. batch[d] \in Seq(Nat) /\ batch[d] # <<>> /\ Head(batch[d]) < Len(declared)
        BY <3>1 DEF StoreInv, MemoryOk, CommitAt
      <4>2. Head(batch[d]) + 1 \in 1..Len(declared)
        BY <1>1, <4>1
      <4> QED  BY <1>3, <4>2 DEF DueFrontier, NextFrontier
    <3>3. PICK n \in Nat : n = DueFrontier(d).leafCount
      BY <3>1
    <3>4. /\ AgreesTo(file, n) => AgreesTo(file, n)'
          /\ AgreesTo(fileSafe, n) => AgreesTo(fileSafe, n)'
      BY <1>5, <3>1, <3>3
    <3>5. /\ AgreesTo(file, DueFrontier(d).leafCount) => AgreesTo(file, DueFrontier(d).leafCount)'
          /\ AgreesTo(fileSafe, DueFrontier(d).leafCount) => AgreesTo(fileSafe, DueFrontier(d).leafCount)'
      BY <3>2, <3>3, <3>4 DEF AgreesTo
    <3> QED  BY <1>3, <3>1, <3>2, <3>5 DEF CommitAt
  <2> QED  BY <1>3, <2>1 DEF CommitOk
<1> QED  BY <1>7, <1>8, <1>9 DEF StoreInv

\* A declaration appends to dataset and declarations.
LEMMA DeclareStep ==
  ASSUME StoreInv, NEW size \in DeclarationSizes, Declare(size)
  PROVE  /\ StoreInv' /\ UNCHANGED storeVars
         /\ size \in Nat \ {0} /\ Len(dataset') = Len(dataset) + size
         /\ Len(declared') = Len(declared) + 1
         /\ declared'[Len(declared) + 1].leafCount = Len(dataset')
         /\ \A n \in 1..Len(declared) : declared'[n] = declared[n]
         /\ \A i \in 1..Len(dataset) : dataset'[i] = dataset[i]
<1>1. size \in Nat /\ size # 0 /\ Len(dataset) \in Nat /\ Len(declared) \in Nat
  BY FollowerAssumption DEF StoreInv, ChainOk
<1>2. PICK new : new = [block |-> finalized + 1, leafCount |-> Len(dataset) + size]
  OBVIOUS
<1>3. new \in Declarations /\ new.leafCount = Len(dataset) + size
  BY <1>1, <1>2 DEF Declarations, StoreInv, ChainOk
<1>4. declared' = Append(declared, new)
  BY <1>2 DEF Declare
<1>5. /\ declared' \in Seq(Declarations) /\ Len(declared') = Len(declared) + 1
      /\ \A n \in 1..Len(declared) : declared'[n] = declared[n]
      /\ declared'[Len(declared) + 1] = new
  <2>1. declared \in Seq(Declarations)
    BY DEF StoreInv, ChainOk
  <2> QED  BY <1>1, <1>3, <1>4, <2>1, AppendProperties
<1>6. PICK more : more = [i \in 1..size |-> Len(declared)]
  OBVIOUS
<1>7. more \in Seq(Nat) /\ Len(more) = size
  <2>1. more \in [1..size -> Nat]
    BY <1>1, <1>6
  <2> QED  BY <1>1, <2>1
<1>8. dataset' = dataset \o more
  BY <1>6 DEF Declare
<1>9. /\ dataset' \in Seq(Nat) /\ Len(dataset') = Len(dataset) + size
      /\ \A i \in 1..Len(dataset) : dataset'[i] = dataset[i]
  <2>1. dataset \in Seq(Nat)
    BY DEF StoreInv, ChainOk
  <2>2. /\ dataset' \in Seq(Nat) /\ Len(dataset') = Len(dataset) + Len(more)
        /\ \A i \in 1..Len(dataset) + Len(more) :
             dataset'[i] = IF i <= Len(dataset) THEN dataset[i] ELSE more[i - Len(dataset)]
    BY <1>7, <1>8, <2>1, ConcatProperties, Zenon
  <2>3. ASSUME NEW i \in 1..Len(dataset) PROVE dataset'[i] = dataset[i]
    <3>1. i \in 1..Len(dataset) + Len(more) /\ i <= Len(dataset)
      BY <1>1, <1>7
    <3> QED  BY <2>2, <3>1
  <2> QED  BY <1>7, <2>2, <2>3
<1>10. ChainOk'
  <2>1. finalized' = finalized /\ finalized \in Nat
    BY DEF Declare, StoreInv, ChainOk
  <2>2. LeafCount(Len(declared))' = Len(dataset')
    BY <1>1, <1>3, <1>5, <1>9 DEF LeafCount
  <2>3. ASSUME NEW i \in DOMAIN declared', NEW j \in DOMAIN declared', i < j
        PROVE  declared'[i].leafCount <= declared'[j].leafCount
    <3>1. i \in 1..Len(declared) /\ j \in 1..Len(declared) + 1
      BY <1>1, <1>5, <2>3
    <3>2. CASE j \in 1..Len(declared)
      BY <1>5, <2>3, <3>1, <3>2 DEF StoreInv, ChainOk
    <3>3. CASE j = Len(declared) + 1
      <4>1. i \in 0..Len(declared) /\ LeafCount(i) = declared[i].leafCount
        BY <3>1 DEF LeafCount
      <4>2. declared[i].leafCount \in Nat /\ declared[i].leafCount <= Len(dataset)
        BY <4>1, LeafCounts DEF StoreInv
      <4> QED  BY <1>1, <1>3, <1>5, <3>1, <3>3, <4>2
    <3> QED  BY <3>1, <3>2, <3>3
  <2> QED  BY <1>5, <1>9, <2>1, <2>2, <2>3 DEF ChainOk
<1>11. UNCHANGED <<storeVars, pc, batch>>
  BY DEF Declare, daemonVars
<1>12. StoreInv'
  BY <1>1, <1>5, <1>9, <1>10, <1>11, ChainKeeps
<1> QED  BY <1>1, <1>3, <1>5, <1>9, <1>11, <1>12

\* A block without a declaration changes neither.
LEMMA FinalizeStep ==
  ASSUME StoreInv, FinalizeBlock PROVE StoreInv'
<1>1. /\ UNCHANGED <<declared, dataset, storeVars, pc, batch>>
      /\ finalized' = finalized + 1
  BY DEF FinalizeBlock, daemonVars
<1>2. ChainOk'
  BY <1>1 DEF StoreInv, ChainOk, LeafCount
<1>3. Len(declared') >= Len(declared) /\ Len(dataset') >= Len(dataset)
  BY <1>1 DEF StoreInv, ChainOk
<1> QED  BY <1>1, <1>2, <1>3, ChainKeeps

-----------------------------------------------------------------------------

\* An empty store beside an empty chain.
LEMMA InitOk == Init => StoreInv
<1> SUFFICES ASSUME Init PROVE StoreInv
  OBVIOUS
<1>1. ChainOk
  BY DEF Init, ChainOk, LeafCount
<1>2. FilesOk /\ DiskOk
  BY DEF Init, StoreInit, FilesOk, DiskOk
<1>3. MemoryOk
  BY DEF Init, StoreInit, MemoryOk, Steps
<1>4. CommitOk
  BY DEF Init, CommitOk, Committing
<1> QED  BY <1>1, <1>2, <1>3, <1>4 DEF StoreInv

\* The steps of a daemon that leave store and chain alone and do not begin a commit.
LEMMA IdleStep ==
  ASSUME StoreInv, NEW d \in Daemons,
         \/ \E f : BeginScan(d, f)
         \/ \E dropped : FetchPage(d, dropped)
         \/ FetchFails(d) \/ ScanDone(d) \/ PageDone(d) \/ Redelivered(d) \/ NonceGap(d)
         \/ NotAcquired(d)
         \/ pc[d] \in {"sync", "rename", "syncdir"} /\ UNCHANGED storeVars /\ Halt(d)
         \/ CheckRoot(d) \/ CheckFails(d)
  PROVE  StoreInv' /\ UNCHANGED <<storeVars, chainVars>>
<1> DEFINE Keeps(step) ==
      /\ UNCHANGED <<storeVars, chainVars>> /\ pc[d] # "down"
      /\ pc' = [pc EXCEPT ![d] = step]
      /\ \/ UNCHANGED batch
         \/ batch' = [batch EXCEPT ![d] = <<>>]
         \/ batch[d] # <<>> /\ batch' = [batch EXCEPT ![d] = Tail(@)]
         \/ \E b, e, dropped : \E logs \in Logs(b, e, dropped) :
              batch' = [batch EXCEPT ![d] = logs]
<1>1. ASSUME NEW f, BeginScan(d, f) PROVE Keeps("scan")
  BY <1>1 DEF BeginScan, At, Goto
<1>2. ASSUME NEW dropped, FetchPage(d, dropped) PROVE Keeps("page")
  <2>1. \E logs \in Logs(cursor[d], PageEnd(d), dropped) : batch' = [batch EXCEPT ![d] = logs]
    BY <1>2 DEF FetchPage
  <2> QED  BY <1>2, <2>1 DEF FetchPage, At, Goto
<1>3. CASE FetchFails(d) \/ ScanDone(d)
  <2>1. Keeps("check")
    BY <1>3 DEF FetchFails, ScanDone, At, Goto
  <2> QED  BY <2>1, ScanKeeps DEF Steps, Committing
<1>4. CASE PageDone(d)
  <2>1. Keeps("scan") \/ Keeps("check")
    BY <1>4 DEF PageDone, EndPage, At, Goto
  <2> QED  BY <2>1, ScanKeeps DEF Steps, Committing
<1>5. CASE Redelivered(d)
  <2>1. pc' = [pc EXCEPT ![d] = "page"]
    BY <1>5 DEF Redelivered, At, StoreInv, MemoryOk
  <2>2. Keeps("page")
    BY <1>5, <2>1 DEF Redelivered, At
  <2> QED  BY <2>2, ScanKeeps DEF Steps, Committing
<1>6. CASE \/ NonceGap(d) \/ NotAcquired(d)
           \/ pc[d] \in {"sync", "rename", "syncdir"} /\ UNCHANGED storeVars /\ Halt(d)
  <2>1. Keeps("check")
    BY <1>6 DEF NonceGap, NotAcquired, Halt, EndPage, At, Goto
  <2> QED  BY <2>1, ScanKeeps DEF Steps, Committing
<1>7. CASE CheckRoot(d) \/ CheckFails(d)
  <2>1. Keeps("idle")
    BY <1>7 DEF CheckRoot, CheckFails, TickDone, At, Goto
  <2> QED  BY <2>1, ScanKeeps DEF Steps, Committing
<1>8. (\E f : BeginScan(d, f)) \/ (\E dropped : FetchPage(d, dropped)) =>
        StoreInv' /\ UNCHANGED <<storeVars, chainVars>>
  <2>1. Keeps("scan") \/ Keeps("page") => StoreInv' /\ UNCHANGED <<storeVars, chainVars>>
    BY ScanKeeps DEF Steps, Committing
  <2> QED  BY <1>1, <1>2, <2>1
<1> QED  BY <1>3, <1>4, <1>5, <1>6, <1>7, <1>8

\* Every step keeps the invariant.
LEMMA StepKeeps == StoreInv /\ [Next]_vars => StoreInv'
<1> SUFFICES ASSUME StoreInv, [Next]_vars PROVE StoreInv'
  OBVIOUS
<1>1. CASE ChainAction
  BY <1>1, DeclareStep, FinalizeStep DEF ChainAction
<1>2. ASSUME NEW d \in Daemons, DaemonAction(d) PROVE StoreInv'
  <2>1. CASE Start(d)
    BY <2>1, StartStep
  <2>2. CASE Acquired(d)
    BY <2>2, AcquiredStep
  <2>3. CASE Write(d) \/ Sync(d) \/ Rename(d) \/ Committed(d)
    BY <2>3, WriteStep, SyncStep, RenameStep, CommittedStep
  <2>4. CASE CommitFails(d)
    BY <2>4, TornStep, IdleStep DEF CommitFails, At
  <2>5. CASE \/ \E f \in 0..MaxBlock : BeginScan(d, f)
             \/ \E dropped \in SUBSET Droppable : FetchPage(d, dropped)
             \/ FetchFails(d) \/ ScanDone(d) \/ PageDone(d) \/ Redelivered(d) \/ NonceGap(d)
             \/ NotAcquired(d) \/ CheckRoot(d) \/ CheckFails(d)
    BY <2>5, IdleStep
  <2> QED  BY <1>2, <2>1, <2>2, <2>3, <2>4, <2>5 DEF DaemonAction
<1>3. ASSUME NEW d \in Daemons, Kill(d) PROVE StoreInv'
  BY <1>3, KillStep
<1>4. CASE PowerCut
  BY <1>4, PowerCutStep
<1>5. CASE UNCHANGED vars
  <2>1. UNCHANGED <<storeVars, pc, batch, chainVars>>
    BY <1>5 DEF vars, daemonVars
  <2>2. ChainOk'
    BY <2>1 DEF StoreInv, ChainOk, LeafCount, chainVars
  <2>3. UNCHANGED <<declared, dataset>> /\ Len(declared) \in Nat /\ Len(dataset) \in Nat
    BY <2>1 DEF chainVars, StoreInv, ChainOk
  <2> QED  BY <2>1, <2>2, <2>3, ChainKeeps
<1> QED  BY <1>1, <1>2, <1>3, <1>4, <1>5 DEF Next

\* The inductive invariant behind both theorems.
THEOREM StoreInvariant == Spec => []StoreInv
  BY InitOk, StepKeeps, PTL DEF Spec

\* The store's crash safety: whatever is killed, cut off or left half written, by however
\* many daemons, every frontier a restart may find or a daemon holds commits synced
\* chunks that are the first of the dataset.
THEOREM CommittedIntactHolds == Spec => []CommittedIntact
<1>1. StoreInv => CommittedIntact
  <2> SUFFICES ASSUME StoreInv, NEW v \in frontierOnDisk \cup {frontier[d] : d \in Daemons},
                      v # NoFrontier
               PROVE  /\ v.leafCount = LeafCount(v.nonce)
                      /\ Len(fileSafe) >= v.leafCount
                      /\ \A i \in 1..v.leafCount : file[i] = dataset[i] /\ fileSafe[i] = dataset[i]
    BY DEF CommittedIntact
  <2>1. Intact(v)
    <3>1. CASE v \in frontierOnDisk
      BY <3>1 DEF StoreInv, DiskOk
    <3>2. CASE v \notin frontierOnDisk
      <4>1. PICK d \in Daemons : v = frontier[d]
        BY <3>2
      <4> QED  BY <4>1 DEF StoreInv, MemoryOk, Running
    <3> QED  BY <3>1, <3>2
  <2> QED  BY <2>1 DEF Intact, Version, AgreesTo
<1> QED  BY <1>1, StoreInvariant, PTL

-----------------------------------------------------------------------------
(***************************************************************************)
(* The refinement of DatasetReplica.                                       *)
(***************************************************************************)

Count(v) == IF v = NoFrontier THEN 0 ELSE v.leafCount
Ends == {0} \cup {declared[j].leafCount : j \in DOMAIN declared}

\* A version commits a part of the dataset that ends where a declaration does.
LEMMA CountTyped ==
  ASSUME StoreInv, NEW v \in frontierOnDisk
  PROVE  Count(v) \in Nat /\ Count(v) <= Len(dataset) /\ Count(v) \in Ends
<1>1. Len(dataset) \in Nat /\ Len(declared) \in Nat /\ DOMAIN declared = 1..Len(declared)
  BY DEF StoreInv, ChainOk
<1>2. CASE v = NoFrontier
  BY <1>1, <1>2 DEF Count, Ends
<1>3. CASE v # NoFrontier
  <2>1. v.nonce \in 0..Len(declared) /\ Count(v) = LeafCount(v.nonce)
    BY <1>1, <1>3 DEF StoreInv, DiskOk, Intact, Version, Count
  <2>2. LeafCount(v.nonce) \in Ends
    BY <1>1, <2>1 DEF LeafCount, Ends
  <2> QED  BY <2>1, <2>2, LeafCounts DEF StoreInv
<1> QED  BY <1>2, <1>3

\* What is durable is the least any version of the frontier commits.
LEMMA DurableIsLeast ==
  ASSUME StoreInv
  PROVE  \E v \in frontierOnDisk :
           DurableCount = Count(v) /\ \A w \in frontierOnDisk : Count(v) <= Count(w)
<1>1. CASE NoFrontier \in frontierOnDisk
  <2>1. DurableCount = Count(NoFrontier) /\ Count(NoFrontier) = 0
    BY <1>1 DEF DurableCount, Count
  <2> QED  BY <1>1, <2>1, CountTyped
<1>2. CASE NoFrontier \notin frontierOnDisk
  <2> DEFINE Least(v) == \A w \in frontierOnDisk \ {NoFrontier} : v.nonce <= w.nonce
  <2>1. \E v \in frontierOnDisk \ {NoFrontier} : Least(v)
    BY <1>2 DEF StoreInv, DiskOk
  <2>2. Durable = CHOOSE v \in frontierOnDisk \ {NoFrontier} : Least(v)
    BY DEF Durable
  <2> HIDE DEF Least
  <2>3. Durable \in frontierOnDisk \ {NoFrontier} /\ Least(Durable)
    BY <2>1, <2>2
  <2>4. ASSUME NEW w \in frontierOnDisk PROVE Count(Durable) <= Count(w)
    <3>1. w # NoFrontier /\ Durable.nonce <= w.nonce
      BY <1>2, <2>3, <2>4 DEF Least
    <3>2. PICK v \in frontierOnDisk : v = Durable
      BY <2>3
    <3>3. /\ v.nonce \in 0..Len(declared) /\ w.nonce \in 0..Len(declared)
          /\ Count(v) = LeafCount(v.nonce) /\ Count(w) = LeafCount(w.nonce)
      BY <2>3, <3>1, <3>2 DEF StoreInv, ChainOk, DiskOk, Intact, Version, Count
    <3> QED  BY <3>1, <3>2, <3>3, LeafCounts DEF StoreInv
  <2>5. DurableCount = Count(Durable)
    BY <1>2, <2>3 DEF DurableCount, Count
  <2> QED  BY <2>3, <2>4, <2>5
<1> QED  BY <1>1, <1>2

\* It is the dataset's prefix and ends where a declaration does.
DurableIsHeld ==
  /\ \E v \in frontierOnDisk :
       DurableCount = Count(v) /\ \A w \in frontierOnDisk : Count(v) <= Count(w)
  /\ DurableCount \in Nat /\ DurableCount <= Len(dataset) /\ DurableCount \in Ends
  /\ DurableChunks = SubSeq(dataset, 1, DurableCount) /\ Len(DurableChunks) = DurableCount

\* The durable replica of every reachable state is held so.
LEMMA HeldInvariant == StoreInv => DurableIsHeld
<1> SUFFICES ASSUME StoreInv PROVE DurableIsHeld
  OBVIOUS
<1>1. PICK v \in frontierOnDisk : DurableCount = Count(v)
  BY DurableIsLeast
<1>2. PICK c \in Nat : c = DurableCount
  BY <1>1, CountTyped
<1>3. c <= Len(dataset) /\ c \in Ends /\ dataset \in Seq(Nat)
  BY <1>1, <1>2, CountTyped DEF StoreInv, ChainOk
<1>4. \A i \in 1..c : i <= Len(fileSafe) /\ fileSafe[i] = dataset[i]
  <2>1. CASE v = NoFrontier
    BY <1>1, <1>2, <2>1 DEF Count
  <2>2. CASE v # NoFrontier
    <3>1. AgreesTo(fileSafe, c)
      BY <1>1, <1>2, <2>2 DEF StoreInv, DiskOk, Intact, Count
    <3> QED  BY <3>1 DEF AgreesTo, StoreInv, FilesOk
  <2> QED  BY <2>1, <2>2
<1>5. DurableChunks = [i \in 1..c |-> dataset[i]]
  BY <1>2, <1>4 DEF DurableChunks
<1>6. DurableChunks \in Seq(Nat) /\ Len(DurableChunks) = c /\ \A i \in 1..c : DurableChunks[i] = dataset[i]
  <2>1. \A i \in 1..c : dataset[i] \in Nat
    BY <1>3
  <2>2. DurableChunks \in [1..c -> Nat]
    BY <1>5, <2>1
  <2> QED  BY <1>5, <2>2
<1>7. /\ SubSeq(dataset, 1, c) \in Seq(Nat) /\ Len(SubSeq(dataset, 1, c)) = c
      /\ \A i \in 1..c : SubSeq(dataset, 1, c)[i] = dataset[i]
  BY <1>3, Stretched
<1>8. DurableChunks = SubSeq(dataset, 1, c)
  BY <1>6, <1>7, SeqEqual
<1> QED  BY <1>2, <1>3, <1>6, <1>8, DurableIsLeast DEF DurableIsHeld

\* No step brings back a version of the frontier older than the oldest.
LEMMA DiskGrows ==
  ASSUME StoreInv, [Next]_vars, ~ChainAction
  PROVE  /\ UNCHANGED chainVars
         /\ \A v \in frontierOnDisk' :
              \/ v \in frontierOnDisk
              \/ v # NoFrontier /\ \A w \in frontierOnDisk : Count(w) <= Count(v)
<1> DEFINE Grows ==
      \A v \in frontierOnDisk' :
        \/ v \in frontierOnDisk
        \/ v # NoFrontier /\ \A w \in frontierOnDisk : Count(w) <= Count(v)
<1>1. ASSUME NEW d \in Daemons, Rename(d) PROVE Grows /\ UNCHANGED chainVars
  <2>1. pc[d] = "rename" /\ frontierOnDisk' = frontierOnDisk \cup {DueFrontier(d)} /\ UNCHANGED chainVars
    BY <1>1 DEF Rename, RenameFrontier, CommitStep, At, DueFrontier
  <2>2. PICK next : next = DueFrontier(d)
    OBVIOUS
  <2>3. /\ Version(next) /\ next # NoFrontier /\ next.nonce = frontier[d].nonce + 1
        /\ frontier[d].nonce \in Nat
    BY <2>1, <2>2, Due DEF Committing
  <2>4. ASSUME NEW w \in frontierOnDisk PROVE Count(w) <= Count(next)
    <3>1. CASE w = NoFrontier
      BY <2>3, <3>1, LeafCounts DEF Count, Version, StoreInv, ChainOk
    <3>2. CASE w # NoFrontier
      <4>1. Version(w) /\ w.nonce <= Loaded.nonce
        BY <3>2 DEF StoreInv, DiskOk, Loaded, Intact
      <4>2. Loaded.nonce <= next.nonce
        BY <2>1, <2>3 DEF StoreInv, MemoryOk, Running
      <4>3. /\ w.nonce \in 0..Len(declared) /\ next.nonce \in 0..Len(declared)
            /\ Count(w) = LeafCount(w.nonce) /\ Count(next) = LeafCount(next.nonce)
        BY <2>3, <3>2, <4>1 DEF Version, Count, StoreInv, ChainOk
      <4>4. Loaded.nonce \in Nat
        BY <2>1, <2>3 DEF StoreInv, MemoryOk, Running
      <4>5. w.nonce <= next.nonce
        BY <4>1, <4>2, <4>3, <4>4
      <4> QED  BY <4>3, <4>5, LeafCounts DEF StoreInv
    <3> QED  BY <3>1, <3>2
  <2> QED  BY <2>1, <2>2, <2>3, <2>4
<1>2. ASSUME NEW d \in Daemons, Committed(d) PROVE Grows /\ UNCHANGED chainVars
  BY <1>2 DEF Committed, SyncDirectory, CommitStep, StoreInv, DiskOk
<1>3. CASE PowerCut
  BY <1>3 DEF PowerCut, StorePowerCut
<1>4. ASSUME NEW d \in Daemons, Start(d) \/ Acquired(d) \/ Write(d) \/ Sync(d) \/ Kill(d)
      PROVE  Grows /\ UNCHANGED chainVars
  BY <1>4 DEF Start, OpenStore, Acquired, storeVars, frontierVars, Write, WriteChunks, Sync,
     SyncChunks, CommitStep, Kill, StoreKilled
<1>5. ASSUME NEW d \in Daemons, CommitFails(d) PROVE Grows /\ UNCHANGED chainVars
  BY <1>5 DEF CommitFails, TornWrite, WriteChunks, Halt, storeVars, frontierVars
<1>6. ASSUME NEW d \in Daemons,
             \/ \E f \in 0..MaxBlock : BeginScan(d, f)
             \/ \E dropped \in SUBSET Droppable : FetchPage(d, dropped)
             \/ FetchFails(d) \/ ScanDone(d) \/ PageDone(d) \/ Redelivered(d) \/ NonceGap(d)
             \/ NotAcquired(d) \/ CheckRoot(d) \/ CheckFails(d)
      PROVE  Grows /\ UNCHANGED chainVars
  <2>1. UNCHANGED <<storeVars, chainVars>>
    BY <1>6, IdleStep
  <2> QED  BY <2>1 DEF storeVars, frontierVars
<1>7. CASE UNCHANGED vars
  BY <1>7 DEF vars, storeVars, frontierVars
<1>8. ASSUME NEW d \in Daemons, DaemonAction(d) PROVE Grows /\ UNCHANGED chainVars
  BY <1>1, <1>2, <1>4, <1>5, <1>6, <1>8 DEF DaemonAction
<1> QED  BY <1>3, <1>4, <1>7, <1>8 DEF Next

\* A step beside the chain's takes more of the dataset, or changes nothing of the replica.
LEMMA TakesOrStutters ==
  ASSUME StoreInv, DurableIsHeld, DurableIsHeld', [Next]_vars, ~ChainAction
  PROVE  Replica!Take \/ UNCHANGED Replica!replicaVars
<1>1. UNCHANGED chainVars /\ Ends' = Ends
  BY DiskGrows DEF Ends, chainVars
<1>2. PICK c \in Nat, n \in Nat : c = DurableCount /\ n = DurableCount'
  BY DEF DurableIsHeld
<1>3. c <= n
  <2>1. \A w \in frontierOnDisk : c <= Count(w)
    BY <1>2 DEF DurableIsHeld
  <2>2. PICK w \in frontierOnDisk' : n = Count(w)
    BY <1>2 DEF DurableIsHeld, Count
  <2>3. PICK v \in frontierOnDisk : c = Count(v)
    BY <1>2 DEF DurableIsHeld
  <2> QED  BY <2>1, <2>2, <2>3, DiskGrows
<1>4. /\ DurableChunks = SubSeq(dataset, 1, c) /\ Len(DurableChunks) = c
      /\ DurableChunks' = SubSeq(dataset, 1, n) /\ n \in Ends
  BY <1>1, <1>2 DEF chainVars, DurableIsHeld
<1>5. CASE n = c
  BY <1>1, <1>4, <1>5 DEF Replica!replicaVars, chainVars, Ends
<1>6. CASE n # c
  BY <1>1, <1>3, <1>4, <1>6 DEF Replica!Take, Replica!Held, chainVars, Ends
<1> QED  BY <1>5, <1>6

\* The chain's steps publish, or change nothing of the abstract state.
LEMMA Publishes ==
  ASSUME StoreInv, ChainAction
  PROVE  Replica!Publish \/ UNCHANGED Replica!replicaVars
<1>1. UNCHANGED storeVars
  BY DEF ChainAction, FinalizeBlock, Declare
<1>2. DurableChunks' = DurableChunks
  BY <1>1 DEF DurableChunks, DurableCount, Durable, storeVars, chunkVars, frontierVars
<1>3. CASE FinalizeBlock
  BY <1>2, <1>3 DEF FinalizeBlock, Replica!replicaVars
<1>4. ASSUME NEW size \in DeclarationSizes, Declare(size) PROVE Replica!Publish
  <2>1. /\ StoreInv' /\ size \in Nat \ {0} /\ Len(dataset') = Len(dataset) + size
        /\ Len(declared') = Len(declared) + 1
        /\ declared'[Len(declared) + 1].leafCount = Len(dataset')
        /\ \A j \in 1..Len(declared) : declared'[j] = declared[j]
        /\ \A i \in 1..Len(dataset) : dataset'[i] = dataset[i]
    BY <1>4, DeclareStep
  <2>2. /\ dataset \in Seq(Nat) /\ dataset' \in Seq(Nat) /\ Len(declared) \in Nat
        /\ Len(dataset) \in Nat /\ Len(dataset') \in Nat
        /\ DOMAIN declared = 1..Len(declared) /\ DOMAIN declared' = 1..Len(declared')
    BY <2>1 DEF StoreInv, ChainOk
  <2>3. SubSeq(dataset', 1, Len(dataset)) = dataset
    <3>1. PICK held : held = SubSeq(dataset', 1, Len(dataset))
      OBVIOUS
    <3>2. /\ held \in Seq(Nat) /\ Len(held) = Len(dataset)
          /\ \A i \in 1..Len(dataset) : held[i] = dataset'[i]
      BY <2>1, <2>2, <3>1, Stretched
    <3>3. held = dataset
      BY <2>1, <2>2, <3>2, SeqEqual
    <3> QED  BY <3>1, <3>3
  <2>4. Ends' = Ends \cup {Len(dataset')}
    <3>1. DOMAIN declared' = DOMAIN declared \cup {Len(declared) + 1}
      BY <2>1, <2>2
    <3>2. \A j \in DOMAIN declared : declared'[j].leafCount = declared[j].leafCount
      BY <2>1, <2>2
    <3>3. Ends' = {0} \cup {declared'[j].leafCount : j \in DOMAIN declared'}
      BY DEF Ends
    <3> QED  BY <2>1, <3>1, <3>2, <3>3 DEF Ends
  <2>5. Len(dataset') > Len(dataset) /\ Len(dataset') \in Len(dataset) + 1..Len(dataset')
    BY <2>1, <2>2
  <2>6. /\ Ends \subseteq Ends' /\ Len(dataset') \in Ends'
        /\ Ends' \ Ends \subseteq Len(dataset) + 1..Len(dataset')
    BY <2>4, <2>5
  <2>7. /\ Ends = {0} \cup {declared[j].leafCount : j \in DOMAIN declared}
        /\ Ends' = {0} \cup {declared'[j].leafCount : j \in DOMAIN declared'}
    BY DEF Ends
  <2> QED  BY <1>2, <2>3, <2>5, <2>6, <2>7, Zenon DEF Replica!Publish
<1> QED  BY <1>3, <1>4 DEF ChainAction

\* What survives any crash of the store is an append-only replica of the dataset: every
\* step takes in whole declarations, in order, or changes nothing of it.
THEOREM StoreRefinesReplica == Spec => ImplementsReplica
<1>1. Init => Replica!ReplicaInit
  BY DEF Init, StoreInit, Replica!ReplicaInit, DurableChunks, DurableCount
<1>2. StoreInv /\ DurableIsHeld /\ DurableIsHeld' /\ [Next]_vars =>
        [Replica!ReplicaNext]_(Replica!replicaVars)
  BY TakesOrStutters, Publishes DEF Replica!ReplicaNext
<1> QED  BY <1>1, <1>2, StoreInvariant, HeldInvariant, PTL DEF Spec, ImplementsReplica, Replica!ReplicaSpec

-----------------------------------------------------------------------------
(***************************************************************************)
(* The cursors.  Until a power cut undoes a commit that the cursor file    *)
(* survives, only a declaration whose log was left out is ever passed over.*)
(***************************************************************************)

\* A cursor, in a daemon's memory or in the file, stands behind no declaration that is
\* not ingested, but for those whose log a node may leave out.
CursorNeverSkips ==
  powerCuts = 0 => \A n \in Nonces \ Droppable :
    \/ \E d \in Daemons : cursor[d] >= Block(n)
    \/ cursorFile # Empty /\ cursorFile >= Block(n)
    => Ingested(n)

\* Declarations are in the order of their blocks.
BlocksOk ==
  /\ \A i, j \in DOMAIN declared : i < j => declared[i].block <= declared[j].block
  /\ \A i \in DOMAIN declared : 1 <= declared[i].block /\ declared[i].block <= finalized + 1

\* No mark of a daemon is ahead of the chain.
MarksOk ==
  /\ cursor \in [Daemons -> Nat] /\ target \in [Daemons -> Nat]
  /\ pageEnd \in [Daemons -> Nat] /\ currentPage \in [Daemons -> Nat]
  /\ \A d \in Daemons :
       cursor[d] <= finalized /\ target[d] <= finalized /\ pageEnd[d] <= finalized
  /\ \A d \in Daemons : pc[d] = "down" => cursor[d] = 0
  /\ \A v \in cursorOnDisk \cup {cursorFile} : v # Empty => v \in Nat /\ v <= finalized
  /\ powerCuts \in Nat

\* Every declaration up to block b whose log is delivered has a nonce below f.
Seen(b, f) == \A n \in Nonces \ Droppable : Block(n) <= b => n < f

\* What is left of a page, and what its daemon has ingested, is all the page holds.
PageOk(d) ==
  /\ \A i, j \in 1..Len(batch[d]) : i < j => batch[d][i] < batch[d][j]
  /\ \A i \in 1..Len(batch[d]) : Block(batch[d][i]) <= pageEnd[d]
  /\ \A n \in Nonces \ Droppable : Block(n) <= pageEnd[d] =>
       n < frontier[d].nonce \/ \E i \in 1..Len(batch[d]) : batch[d][i] = n

InPage == {"page"} \cup Committing
SeenOk ==
  /\ cursorFile # Empty => Seen(cursorFile, Loaded.nonce)
  /\ \A d \in Daemons : pc[d] # "down" => Seen(cursor[d], frontier[d].nonce)
  /\ \A d \in Daemons : pc[d] \in InPage => PageOk(d)

CursorInv == BlocksOk /\ MarksOk /\ (powerCuts = 0 => SeenOk)

\* The types the proofs keep needing.
LEMMA CursorTypes ==
  ASSUME StoreInv, CursorInv
  PROVE  /\ Len(declared) \in Nat /\ finalized \in Nat /\ Loaded.nonce \in Nat
         /\ \A n \in Nonces : n \in Nat /\ n + 1 \in DOMAIN declared
         /\ \A n \in Nonces : Block(n) \in Nat /\ 1 <= Block(n) /\ Block(n) <= finalized + 1
         /\ \A m, n \in Nonces : m < n => Block(m) <= Block(n)
         /\ \A d \in Daemons : pc[d] # "down" => frontier[d].nonce \in Nat
         /\ \A d \in Daemons : batch[d] \in Seq(Nat)
         /\ \A d \in Daemons : \A i \in 1..Len(batch[d]) : batch[d][i] \in Nonces
<1>1. Len(declared) \in Nat /\ finalized \in Nat /\ DOMAIN declared = 1..Len(declared)
  BY DEF StoreInv, ChainOk
<1>2. ASSUME NEW n \in Nonces PROVE n \in Nat /\ n + 1 \in DOMAIN declared
  BY <1>1 DEF Nonces
<1>3. ASSUME NEW n \in Nonces
      PROVE  Block(n) \in Nat /\ 1 <= Block(n) /\ Block(n) <= finalized + 1
  <2>1. declared[n + 1] \in Declarations
    BY <1>1, <1>2 DEF StoreInv, ChainOk
  <2> QED  BY <1>2, <2>1 DEF Block, Declarations, CursorInv, BlocksOk
<1>4. ASSUME NEW m \in Nonces, NEW n \in Nonces, m < n PROVE Block(m) <= Block(n)
  BY <1>2, <1>4 DEF Block, CursorInv, BlocksOk
<1>5. Loaded.nonce \in Nat
  BY LoadedIntact DEF Intact, Version
<1>6. ASSUME NEW d \in Daemons, pc[d] # "down" PROVE frontier[d].nonce \in Nat
  BY <1>6 DEF StoreInv, MemoryOk, Running, Intact, Version
<1>7. ASSUME NEW d \in Daemons
      PROVE  batch[d] \in Seq(Nat) /\ \A i \in 1..Len(batch[d]) : batch[d][i] \in Nonces
  <2>1. batch[d] \in Seq(Nat) /\ \A i \in 1..Len(batch[d]) : batch[d][i] < Len(declared)
    BY DEF StoreInv, MemoryOk
  <2>2. \A i \in 1..Len(batch[d]) : batch[d][i] \in Nat
    BY <2>1
  <2> QED  BY <1>1, <2>1, <2>2 DEF Nonces
<1> QED  BY <1>1, <1>2, <1>3, <1>4, <1>5, <1>6, <1>7

\* The step of a daemon, which is alone.
LEMMA CursorKept ==
  ASSUME StoreInv, StoreInv', CursorInv, MarksOk', UNCHANGED <<chainVars, powerCuts>>,
         NEW d \in Daemons, pc'[d] # "down",
         Loaded.nonce <= Loaded'.nonce,
         cursorFile' \in {cursorFile, Empty, cursor'[d]},
         powerCuts = 0 => Seen(cursor'[d], frontier'[d].nonce),
         powerCuts = 0 /\ pc'[d] \in InPage => PageOk(d)'
  PROVE  CursorInv'
<1>1. BlocksOk'
  BY DEF CursorInv, BlocksOk, chainVars
<1>2. \A b, f : Seen(b, f)' <=> Seen(b, f)
  BY DEF Seen, Nonces, Block, chainVars
<1>3. \A e \in Daemons \ {d} : pc'[e] = "down"
  BY DEF StoreInv, MemoryOk, Running
<1>4. /\ Len(declared) \in Nat /\ Loaded.nonce \in Nat /\ Loaded'.nonce \in Nat
      /\ frontier'[d].nonce \in Nat /\ frontier'[d].nonce <= Loaded'.nonce
  <2>1. Running(d)'
    BY DEF StoreInv, MemoryOk
  <2>2. frontier'[d].nonce \in Nat /\ Loaded'.nonce \in {frontier'[d].nonce, frontier'[d].nonce + 1}
    BY <2>1 DEF Running, Intact, Version
  <2> QED  BY <2>2, CursorTypes
<1>5. ASSUME NEW b, NEW f \in Nat, NEW g \in Nat, f <= g, Seen(b, f) PROVE Seen(b, g)
  BY <1>4, <1>5 DEF Seen, Nonces
<1>6. ASSUME powerCuts = 0 PROVE SeenOk'
  <2>1. SeenOk /\ Seen(cursor'[d], Loaded'.nonce)
    BY <1>4, <1>5, <1>6 DEF CursorInv
  <2>2. cursorFile' # Empty => Seen(cursorFile', Loaded'.nonce)
    <3>1. CASE cursorFile' = cursorFile
      <4>1. PICK f, g : f = Loaded.nonce /\ g = Loaded'.nonce
        OBVIOUS
      <4>2. cursorFile # Empty => Seen(cursorFile, f)
        BY <2>1, <4>1 DEF SeenOk
      <4>3. f \in Nat /\ g \in Nat /\ f <= g
        BY <1>4, <4>1
      <4> QED  BY <1>5, <3>1, <4>1, <4>2, <4>3
    <3> QED  BY <2>1, <3>1
  <2>3. (cursorFile # Empty => Seen(cursorFile, Loaded.nonce))'
    <3>1. PICK b, f : b = cursorFile' /\ f = Loaded'.nonce
      OBVIOUS
    <3> QED  BY <1>2, <2>2, <3>1 DEF Seen, Nonces, Block, chainVars
  <2>4. (\A e \in Daemons : pc[e] # "down" => Seen(cursor[e], frontier[e].nonce))'
    BY <1>3, <1>6 DEF Seen, Nonces, Block, chainVars
  <2>5. (\A e \in Daemons : pc[e] \in InPage => PageOk(e))'
    BY <1>3, <1>6 DEF InPage, Committing
  <2> QED  BY <2>3, <2>4, <2>5 DEF SeenOk
<1> QED  BY <1>1, <1>6 DEF CursorInv

\* A declaration lands in a block past every mark.
LEMMA CursorChain ==
  ASSUME StoreInv, CursorInv, ChainAction PROVE CursorInv'
<1>1. /\ UNCHANGED <<storeVars, cursorFileVars, daemonVars, faultVars>>
      /\ \/ declared' = declared /\ finalized' = finalized + 1
         \/ /\ Len(declared') = Len(declared) + 1 /\ finalized' = finalized
            /\ declared'[Len(declared) + 1].block = finalized + 1
            /\ \A i \in 1..Len(declared) : declared'[i] = declared[i]
  <2>1. CASE FinalizeBlock
    BY <2>1 DEF FinalizeBlock
  <2>2. ASSUME NEW size \in DeclarationSizes, Declare(size)
        PROVE  /\ Len(declared') = Len(declared) + 1 /\ finalized' = finalized
               /\ declared'[Len(declared) + 1].block = finalized + 1
               /\ \A i \in 1..Len(declared) : declared'[i] = declared[i]
    <3>1. PICK new : new = [block |-> finalized + 1, leafCount |-> Len(dataset) + size]
      OBVIOUS
    <3>2. declared' = Append(declared, new) /\ new.block = finalized + 1 /\ finalized' = finalized
      BY <2>2, <3>1 DEF Declare
    <3>3. new \in Declarations
      BY <3>1, FollowerAssumption DEF StoreInv, ChainOk, Declarations
    <3> QED  BY <3>2, <3>3, AppendProperties DEF StoreInv, ChainOk
  <2> QED  BY <2>1, <2>2 DEF ChainAction, FinalizeBlock, Declare
<1>2. /\ UNCHANGED <<pc, cursor, target, batch, pageEnd, currentPage>>
      /\ UNCHANGED <<cursorFile, cursorOnDisk, powerCuts>>
      /\ UNCHANGED <<frontierFile, frontier>> /\ Loaded' = Loaded
  BY <1>1 DEF storeVars, frontierVars, cursorFileVars, daemonVars, faultVars, Loaded, Fresh
<1>3. /\ Len(declared) \in Nat /\ Len(declared') \in Nat /\ finalized \in Nat
      /\ DOMAIN declared = 1..Len(declared) /\ DOMAIN declared' = 1..Len(declared')
      /\ \A i \in DOMAIN declared : declared[i].block \in Nat
  <2>1. ChainOk /\ declared' \in Seq(Declarations)
    <3>1. StoreInv'
      BY DeclareStep, FinalizeStep DEF ChainAction
    <3> QED  BY <3>1 DEF StoreInv, ChainOk
  <2>2. /\ Len(declared) \in Nat /\ DOMAIN declared = 1..Len(declared) /\ finalized \in Nat
        /\ \A i \in DOMAIN declared : declared[i] \in Declarations
    BY <2>1 DEF ChainOk
  <2>3. Len(declared') \in Nat /\ DOMAIN declared' = 1..Len(declared')
    BY <2>1
  <2> QED  BY <2>2, <2>3 DEF Declarations
<1>4. BlocksOk'
  <2>1. CASE declared' = declared /\ finalized' = finalized + 1
    <3>1. \A i \in DOMAIN declared : declared[i].block \in Nat /\ declared[i].block <= finalized + 1 + 1
      BY <1>3 DEF CursorInv, BlocksOk
    <3> QED  BY <2>1, <3>1 DEF CursorInv, BlocksOk
  <2>2. CASE Len(declared') = Len(declared) + 1
    <3>1. \A i \in DOMAIN declared' : i \in DOMAIN declared \/ i = Len(declared) + 1
      BY <1>3, <2>2
    <3>2. /\ finalized' = finalized /\ declared'[Len(declared) + 1].block = finalized + 1
          /\ \A i \in DOMAIN declared : declared'[i] = declared[i]
      BY <1>1, <1>3, <2>2
    <3>3. ASSUME NEW i \in DOMAIN declared'
          PROVE  1 <= declared'[i].block /\ declared'[i].block <= finalized' + 1
      BY <1>3, <3>1, <3>2 DEF CursorInv, BlocksOk
    <3>4. ASSUME NEW i \in DOMAIN declared', NEW j \in DOMAIN declared', i < j
          PROVE  declared'[i].block <= declared'[j].block
      <4>1. i \in DOMAIN declared
        BY <1>3, <2>2, <3>4
      <4>2. CASE j \in DOMAIN declared
        BY <3>2, <3>4, <4>1, <4>2 DEF CursorInv, BlocksOk
      <4>3. CASE j = Len(declared) + 1
        BY <3>2, <4>1, <4>3 DEF CursorInv, BlocksOk
      <4> QED  BY <3>1, <4>2, <4>3
    <3> QED  BY <3>3, <3>4 DEF BlocksOk
  <2> QED  BY <1>1, <2>1, <2>2
<1>5. MarksOk'
  <2>1. finalized' \in Nat /\ finalized <= finalized'
    <3>1. finalized' = finalized \/ finalized' = finalized + 1
      BY <1>1
    <3> QED  BY <1>3, <3>1
  <2> QED  BY <1>2, <1>3, <2>1 DEF CursorInv, MarksOk
<1>6. /\ \A n \in Nonces : n \in Nonces' /\ Block(n)' = Block(n)
      /\ \A n \in Nonces' : n \notin Nonces => Block(n)' = finalized + 1
  <2>1. CASE declared' = declared
    BY <2>1 DEF Nonces, Block
  <2>2. CASE /\ Len(declared') = Len(declared) + 1
             /\ declared'[Len(declared) + 1].block = finalized + 1
             /\ \A i \in 1..Len(declared) : declared'[i] = declared[i]
    BY <1>3, <2>2 DEF Nonces, Block
  <2> QED  BY <1>1, <2>1, <2>2
<1>7. ASSUME NEW b \in Nat, b <= finalized, NEW f, Seen(b, f) PROVE Seen(b, f)'
  BY <1>3, <1>6, <1>7 DEF Seen
<1>8. ASSUME powerCuts = 0 PROVE SeenOk'
  <2>1. SeenOk /\ MarksOk
    BY <1>8 DEF CursorInv
  <2>2. (cursorFile # Empty => Seen(cursorFile, Loaded.nonce))'
    <3>1. PICK f : f = Loaded.nonce
      OBVIOUS
    <3>2. cursorFile # Empty => Seen(cursorFile, f)'
      BY <1>2, <1>7, <2>1, <3>1 DEF SeenOk, MarksOk
    <3> QED  BY <1>2, <3>1, <3>2
  <2>3. ASSUME NEW d \in Daemons, pc[d] # "down" PROVE Seen(cursor[d], frontier[d].nonce)'
    <3>1. PICK b, f : /\ b \in Nat /\ b <= finalized
                      /\ b = cursor[d] /\ f = frontier[d].nonce
      BY <2>1 DEF MarksOk
    <3>2. Seen(b, f)'
      BY <1>7, <2>1, <2>3, <3>1 DEF SeenOk
    <3> QED  BY <1>2, <3>1, <3>2
  <2>4. ASSUME NEW d \in Daemons, pc[d] \in InPage PROVE PageOk(d)'
    <3>1. PageOk(d) /\ pageEnd[d] \in Nat /\ pageEnd[d] <= finalized
      BY <2>1, <2>4 DEF SeenOk, MarksOk
    <3>2. \A i \in 1..Len(batch[d]) : batch[d][i] \in Nonces
      BY CursorTypes
    <3>3. \A n \in Nonces' \ Droppable : Block(n)' <= pageEnd[d] => n \in Nonces
      BY <1>3, <1>6, <3>1
    <3> QED  BY <1>2, <1>6, <3>1, <3>2, <3>3 DEF PageOk
  <2> QED  BY <1>2, <2>2, <2>3, <2>4 DEF SeenOk
<1> QED  BY <1>2, <1>4, <1>5, <1>8 DEF CursorInv

\* A page ends at most at the target.
LEMMA PageEndTyped ==
  ASSUME StoreInv, MarksOk, NEW d \in Daemons
  PROVE  PageEnd(d) \in Nat /\ PageEnd(d) <= finalized
  BY DEF MarksOk, PageEnd, StoreInv, ChainOk

\* A page's size stays a size.
LEMMA PageHalved == \A n \in Nat : 2 * n \in Nat /\ n \div 2 \in Nat
  OBVIOUS

\* The marks after a page, a gap or a halt, whether or not the cursor is written.
LEMMA SetMarks ==
  ASSUME StoreInv, MarksOk, NEW d \in Daemons, NEW b \in Nat, b <= finalized,
         SetCursor(d, b) \/ SetCursorFails, EndPage(d), pc[d] # "down",
         NEW step, step # "down", pc' = [pc EXCEPT ![d] = step],
         UNCHANGED <<chainVars, currentPage, target, powerCuts>>
  PROVE  /\ MarksOk' /\ cursorFile' \in {cursorFile, Empty, cursor'[d]}
         /\ cursor'[d] \in {cursor[d], b} /\ pc'[d] = step
<1>1. finalized' = finalized /\ pc \in [Daemons -> Steps] /\ 0 <= finalized
  BY DEF chainVars, StoreInv, ChainOk, MemoryOk
<1>2. pageEnd' \in [Daemons -> Nat] /\ \A e \in Daemons : pageEnd'[e] <= finalized
  BY <1>1 DEF EndPage, MarksOk
<1>3. CASE SetCursor(d, b)
  <2>1. /\ cursor' = [cursor EXCEPT ![d] = b] /\ cursorFile' = b
        /\ cursorOnDisk' = cursorOnDisk \cup {b}
    BY <1>3 DEF SetCursor
  <2>2. cursor' \in [Daemons -> Nat] /\ \A e \in Daemons : cursor'[e] <= finalized
    BY <2>1 DEF MarksOk
  <2> QED  BY <1>1, <1>2, <2>1, <2>2 DEF MarksOk
<1>4. CASE SetCursorFails
  BY <1>1, <1>2, <1>4 DEF SetCursorFails, MarksOk
<1> QED  BY <1>3, <1>4

\* Before the block of the next log, all is ingested.
LEMMA HaltCursor ==
  ASSUME StoreInv, CursorInv, NEW d \in Daemons, pc[d] \in InPage, batch[d] # <<>>,
         Halt(d), UNCHANGED <<frontier, powerCuts>>, StoreInv', Loaded.nonce <= Loaded'.nonce
  PROVE  CursorInv'
<1>1. PICK b : b = Block(Head(batch[d])) - 1
  OBVIOUS
<1>2. batch[d] \in Seq(Nat) /\ 1 \in 1..Len(batch[d]) /\ Head(batch[d]) = batch[d][1]
  BY CursorTypes
<1>3. Head(batch[d]) \in Nonces /\ finalized \in Nat
  BY <1>2, CursorTypes
<1>4. b \in Nat /\ b <= finalized
  BY <1>1, <1>3, CursorTypes
<1>5. /\ SetCursor(d, b) \/ SetCursorFails
      /\ EndPage(d) /\ UNCHANGED <<chainVars, currentPage, target>>
      /\ pc' = [pc EXCEPT ![d] = "check"]
  BY <1>1 DEF Halt, Goto
<1>6. pc[d] # "down" /\ MarksOk
  BY DEF InPage, Committing, CursorInv
<1>7. /\ MarksOk' /\ cursorFile' \in {cursorFile, Empty, cursor'[d]}
      /\ cursor'[d] \in {cursor[d], b} /\ pc'[d] = "check"
  BY <1>4, <1>5, <1>6, SetMarks
<1>8. ASSUME powerCuts = 0 PROVE Seen(cursor'[d], frontier'[d].nonce)
  <2>1. Seen(cursor[d], frontier[d].nonce) /\ PageOk(d)
    BY <1>6, <1>8 DEF CursorInv, SeenOk
  <2>2. ASSUME NEW n \in Nonces \ Droppable, Block(n) <= b PROVE n < frontier[d].nonce
    <3>1. Block(batch[d][1]) <= pageEnd[d] /\ pageEnd[d] \in Nat
      BY <1>2, <1>6, <2>1 DEF PageOk, MarksOk
    <3>2. Block(n) < Block(batch[d][1]) /\ Block(n) \in Nat /\ Block(batch[d][1]) \in Nat
      BY <1>1, <1>2, <1>3, <2>2, CursorTypes
    <3>3. Block(n) <= pageEnd[d]
      BY <3>1, <3>2
    <3>4. ASSUME NEW i \in 1..Len(batch[d]), batch[d][i] = n PROVE FALSE
      <4>1. i = 1 \/ batch[d][1] < batch[d][i]
        BY <1>2, <2>1 DEF PageOk
      <4>2. Block(batch[d][1]) <= Block(n)
        BY <1>2, <1>3, <3>4, <4>1, CursorTypes
      <4> QED  BY <3>2, <4>2
    <3> QED  BY <2>1, <3>3, <3>4 DEF PageOk
  <2> QED  BY <1>7, <2>1, <2>2 DEF Seen
<1> QED  BY <1>5, <1>7, <1>8, CursorKept DEF InPage, Committing

\* A gap sends the cursor back to where nothing is declared.
LEMMA GapCursor ==
  ASSUME StoreInv, StoreInv', CursorInv, NEW d \in Daemons, NonceGap(d) PROVE CursorInv'
<1>1. /\ pc[d] = "page" /\ batch[d] # <<>>
      /\ SetCursor(d, 0) \/ SetCursorFails
      /\ EndPage(d) /\ UNCHANGED <<storeVars, chainVars, currentPage, target, powerCuts>>
      /\ pc' = [pc EXCEPT ![d] = "check"]
  BY DEF NonceGap, ResumeAfterGap, ScanFloor, At, Goto, faultVars
<1>2. MarksOk /\ 0 <= finalized
  BY DEF CursorInv, StoreInv, ChainOk
<1>3. /\ MarksOk' /\ cursorFile' \in {cursorFile, Empty, cursor'[d]}
      /\ cursor'[d] \in {cursor[d], 0} /\ pc'[d] = "check"
  BY <1>1, <1>2, SetMarks
<1>4. UNCHANGED frontier /\ Loaded' = Loaded
  BY <1>1 DEF storeVars, frontierVars, Loaded, Fresh
<1>5. ASSUME powerCuts = 0 PROVE Seen(cursor'[d], frontier'[d].nonce)
  <2>1. Seen(cursor[d], frontier[d].nonce)
    BY <1>1, <1>5 DEF CursorInv, SeenOk
  <2>2. Seen(0, frontier[d].nonce)
    BY CursorTypes DEF Seen
  <2> QED  BY <1>3, <1>4, <2>1, <2>2
<1> QED  BY <1>1, <1>3, <1>4, <1>5, CursorKept, CursorTypes DEF InPage, Committing

\* Every log of the page was taken in.
LEMMA PageDoneCursor ==
  ASSUME StoreInv, StoreInv', CursorInv, NEW d \in Daemons, PageDone(d) PROVE CursorInv'
<1>1. PICK b : b = pageEnd[d]
  OBVIOUS
<1>2. PICK step \in {"scan", "check"} :
        /\ pc[d] = "page" /\ batch[d] = <<>>
        /\ SetCursor(d, b) \/ SetCursorFails
        /\ EndPage(d) /\ UNCHANGED <<storeVars, chainVars, currentPage, target, powerCuts>>
        /\ pc' = [pc EXCEPT ![d] = step]
  BY <1>1 DEF PageDone, At, Goto, faultVars
<1>3. MarksOk /\ b \in Nat /\ b <= finalized
  BY <1>1 DEF CursorInv, MarksOk
<1>4. /\ MarksOk' /\ cursorFile' \in {cursorFile, Empty, cursor'[d]}
      /\ cursor'[d] \in {cursor[d], b} /\ pc'[d] = step
  <2>1. step # "down" /\ pc[d] # "down"
    BY <1>2
  <2> QED  BY <1>2, <1>3, <2>1, SetMarks
<1>5. UNCHANGED frontier /\ Loaded' = Loaded
  BY <1>2 DEF storeVars, frontierVars, Loaded, Fresh
<1>6. ASSUME powerCuts = 0 PROVE Seen(cursor'[d], frontier'[d].nonce)
  <2>1. Seen(cursor[d], frontier[d].nonce) /\ PageOk(d)
    BY <1>2, <1>6 DEF CursorInv, SeenOk, InPage
  <2>2. Seen(b, frontier[d].nonce)
    BY <1>1, <1>2, <2>1 DEF Seen, PageOk
  <2> QED  BY <1>4, <1>5, <2>1, <2>2
<1>7. pc'[d] # "down" /\ pc'[d] \notin InPage
  BY <1>2, <1>4 DEF InPage, Committing
<1> QED  BY <1>2, <1>4, <1>5, <1>6, <1>7, CursorKept, CursorTypes

\* A page that is fetched holds every delivered log from the cursor to its end: the
\* increasing enumeration of a finite set leaves none of it out.
LEMMA LogsHold ==
  ASSUME StoreInv, CursorInv, NEW b, NEW e, NEW dropped, NEW logs \in Logs(b, e, dropped)
  PROVE  /\ logs \in Seq(Nat)
         /\ \A i, j \in 1..Len(logs) : i < j => logs[i] < logs[j]
         /\ \A i \in 1..Len(logs) : Block(logs[i]) <= e
         /\ \A n \in Nonces \ dropped :
              b < Block(n) /\ Block(n) <= e => \E i \in 1..Len(logs) : logs[i] = n
<1> DEFINE found == {n \in Nonces : b < Block(n) /\ Block(n) <= e} \ dropped
           size == Cardinality(found)
<1>1. IsFiniteSet(found)
  <2>1. IsFiniteSet(Nonces) /\ found \in SUBSET Nonces
    <3>1. 0 \in Int /\ Len(declared) - 1 \in Int
      BY CursorTypes
    <3> QED  BY <3>1, FS_Interval DEF Nonces
  <2> QED  BY <2>1, FS_Subset
<1>2. /\ logs \in [1..size -> found] /\ size \in Nat
      /\ \A i, j \in DOMAIN logs : i < j => logs[i] < logs[j]
  BY <1>1, FS_CardinalityType DEF Logs
<1>3. \A n \in found : n \in Nat /\ Block(n) <= e
  BY CursorTypes
<1>4. \A n \in Nonces \ dropped : b < Block(n) /\ Block(n) <= e => n \in found
  OBVIOUS
<1> HIDE DEF found, size
<1>5. logs \in Seq(Nat) /\ Len(logs) = size
  <2>1. logs \in [1..size -> Nat]
    BY <1>2, <1>3
  <2> QED  BY <1>2, <2>1
<1>6. \A i, j \in 1..size : i # j => logs[i] # logs[j]
  BY <1>2, <1>3
<1>7. \A n \in found : \E i \in 1..size : logs[i] = n
  <2>1. IsFiniteSet(1..size) /\ Cardinality(1..size) = size
    BY <1>2, FS_Interval
  <2>2. logs \in Injection(1..size, found)
    BY <1>2, <1>6 DEF Injection, IsInjective
  <2>3. size = Cardinality(found)
    BY DEF size
  <2>4. logs \in Surjection(1..size, found)
    BY <1>1, <2>1, <2>2, <2>3, FS_Injection
  <2> QED  BY <2>4 DEF Surjection
<1> QED  BY <1>2, <1>3, <1>4, <1>5, <1>7

LEMMA FetchCursor ==
  ASSUME StoreInv, StoreInv', CursorInv, NEW d \in Daemons, NEW dropped \in SUBSET Droppable,
         FetchPage(d, dropped)
  PROVE  CursorInv'
<1>1. PICK e : e = PageEnd(d)
  OBVIOUS
<1>2. PICK logs \in Logs(cursor[d], e, dropped) : batch' = [batch EXCEPT ![d] = logs]
  BY <1>1 DEF FetchPage
<1>3. /\ pc[d] = "scan" /\ pc' = [pc EXCEPT ![d] = "page"]
      /\ pageEnd' = [pageEnd EXCEPT ![d] = e]
      /\ currentPage' = [currentPage EXCEPT ![d] = IF 2 * @ < LogPage THEN 2 * @ ELSE LogPage]
      /\ UNCHANGED <<storeVars, chainVars, cursorFile, cursorOnDisk, cursor, target, powerCuts>>
  BY <1>1 DEF FetchPage, At, Goto, cursorFileVars, faultVars
<1>4. e \in Nat /\ e <= finalized
  BY <1>1, PageEndTyped DEF CursorInv
<1>5. pc'[d] = "page" /\ batch'[d] = logs /\ UNCHANGED frontier /\ Loaded' = Loaded
  BY <1>2, <1>3 DEF storeVars, frontierVars, Loaded, Fresh, StoreInv, MemoryOk
<1>6. MarksOk'
  <2>1. currentPage' \in [Daemons -> Nat]
    BY <1>3, FollowerAssumption DEF CursorInv, MarksOk
  <2>2. pc \in [Daemons -> Steps] /\ finalized' = finalized
    BY <1>3 DEF StoreInv, MemoryOk, chainVars
  <2> QED  BY <1>3, <1>4, <2>1, <2>2 DEF CursorInv, MarksOk
<1>7. ASSUME powerCuts = 0 PROVE Seen(cursor'[d], frontier'[d].nonce) /\ PageOk(d)'
  <2>1. Seen(cursor[d], frontier[d].nonce) /\ cursor[d] \in Nat
    BY <1>3, <1>7 DEF CursorInv, SeenOk, MarksOk
  <2>2. ASSUME NEW n \in Nonces \ Droppable, Block(n) <= e
        PROVE  n < frontier[d].nonce \/ \E i \in 1..Len(logs) : logs[i] = n
    <3>1. CASE Block(n) <= cursor[d]
      BY <2>1, <3>1 DEF Seen
    <3>2. CASE cursor[d] < Block(n)
      BY <2>2, <3>2, LogsHold
    <3> QED  BY <2>1, <3>1, <3>2, CursorTypes
  <2>3. /\ \A i, j \in 1..Len(logs) : i < j => logs[i] < logs[j]
        /\ \A i \in 1..Len(logs) : Block(logs[i]) <= e
    BY LogsHold
  <2>4. pageEnd'[d] = e
    BY <1>3 DEF CursorInv, MarksOk
  <2>5. declared' = declared
    BY <1>3 DEF chainVars
  <2> QED  BY <1>3, <1>5, <2>1, <2>2, <2>3, <2>4, <2>5 DEF PageOk, Nonces, Block
<1> QED  BY <1>3, <1>5, <1>6, <1>7, CursorKept, CursorTypes

\* The first log of the page is taken in, now or before.
LEMMA TailCursor ==
  ASSUME StoreInv, StoreInv', CursorInv, NEW d \in Daemons, Redelivered(d) \/ Committed(d)
  PROVE  CursorInv'
<1>1. /\ UNCHANGED <<chainVars, cursor, currentPage, target, pageEnd>>
      /\ UNCHANGED <<cursorFile, cursorOnDisk, powerCuts>>
      /\ frontierFile' = frontierFile /\ pc'[d] = "page" /\ pc[d] \in InPage
      /\ batch[d] # <<>> /\ batch'[d] = Tail(batch[d])
      /\ \A e \in Daemons \ {d} : pc'[e] = pc[e]
      /\ frontier'[d].nonce \in Nat /\ frontier[d].nonce \in Nat
      /\ frontier[d].nonce <= frontier'[d].nonce /\ Head(batch[d]) < frontier'[d].nonce
  <2>1. DOMAIN batch = Daemons /\ DOMAIN frontier = Daemons /\ DOMAIN pc = Daemons
    BY DEF StoreInv, MemoryOk
  <2>2. CASE Redelivered(d)
    <3>1. frontier' = frontier /\ frontier[d].nonce \in Nat
      BY <2>2, CursorTypes DEF Redelivered, At, storeVars
    <3> QED  BY <2>1, <2>2, <3>1 DEF Redelivered, At, storeVars, frontierVars, cursorFileVars,
             faultVars, InPage
  <2>3. CASE Committed(d)
    <3>1. /\ pc[d] = "syncdir" /\ pc' = [pc EXCEPT ![d] = "page"]
          /\ UNCHANGED <<chainVars, cursor, currentPage, target, pageEnd>>
          /\ UNCHANGED <<cursorFile, cursorOnDisk, powerCuts>>
          /\ frontierFile' = frontierFile /\ frontier' = [frontier EXCEPT ![d] = frontierFile]
          /\ batch' = [batch EXCEPT ![d] = Tail(@)]
      BY <2>3 DEF Committed, SyncDirectory, CommitStep, At, Goto, cursorFileVars, faultVars
    <3>2. CommitAt(d) /\ frontierFile = DueFrontier(d)
      BY <3>1 DEF StoreInv, CommitOk, Committing, CommitAt
    <3>3. DueFrontier(d).nonce = frontier[d].nonce + 1 /\ frontier[d].nonce \in Nat
      BY <3>1, Due DEF Committing
    <3>4. frontier'[d].nonce = frontier[d].nonce + 1 /\ Head(batch[d]) = frontier[d].nonce
      BY <2>1, <3>1, <3>2, <3>3 DEF CommitAt
    <3> QED  BY <2>1, <3>1, <3>2, <3>3, <3>4 DEF CommitAt, InPage, Committing
  <2> QED  BY <2>2, <2>3
<1>2. Loaded' = Loaded /\ pc[d] # "down"
  BY <1>1 DEF Loaded, Fresh, InPage, Committing
<1>3. MarksOk'
  BY <1>1, <1>2 DEF CursorInv, MarksOk, chainVars
<1>4. ASSUME powerCuts = 0 PROVE Seen(cursor'[d], frontier'[d].nonce) /\ PageOk(d)'
  <2>1. Seen(cursor[d], frontier[d].nonce) /\ PageOk(d)
    BY <1>1, <1>2, <1>4 DEF CursorInv, SeenOk
  <2>2. Seen(cursor'[d], frontier'[d].nonce)
    BY <1>1, <2>1, CursorTypes DEF Seen
  <2>3. PICK logs \in Seq(Nat) : logs = batch[d]
    BY CursorTypes
  <2>4. logs # <<>> /\ Head(logs) = logs[1] /\ Len(logs) \in Nat
    BY <1>1, <2>3
  <2>5. PICK rest : rest = Tail(logs)
    OBVIOUS
  <2>6. /\ rest \in Seq(Nat) /\ Len(rest) = Len(logs) - 1
        /\ \A i \in 1..Len(rest) : rest[i] = logs[i + 1]
    BY <2>4, <2>5
  <2>7. \A i \in 1..Len(rest) : i + 1 \in 1..Len(logs)
    BY <2>4, <2>6
  <2>8. /\ \A i, j \in 1..Len(rest) : i < j => rest[i] < rest[j]
        /\ \A i \in 1..Len(rest) : Block(rest[i]) <= pageEnd[d]
    <3>1. /\ \A i, j \in 1..Len(logs) : i < j => logs[i] < logs[j]
          /\ \A i \in 1..Len(logs) : Block(logs[i]) <= pageEnd[d]
      BY <2>1, <2>3 DEF PageOk
    <3>2. ASSUME NEW i \in 1..Len(rest), NEW j \in 1..Len(rest), i < j PROVE rest[i] < rest[j]
      <4>1. i + 1 \in 1..Len(logs) /\ j + 1 \in 1..Len(logs) /\ i + 1 < j + 1
        BY <2>7, <3>2
      <4>2. logs[i + 1] < logs[j + 1]
        BY <3>1, <4>1
      <4> QED  BY <2>6, <4>2
    <3> QED  BY <2>6, <2>7, <3>1, <3>2
  <2>9. ASSUME NEW n \in Nonces \ Droppable, Block(n) <= pageEnd[d]
        PROVE  n < frontier'[d].nonce \/ \E i \in 1..Len(rest) : rest[i] = n
    <3>1. CASE n < frontier[d].nonce
      BY <1>1, <3>1, CursorTypes
    <3>2. ASSUME NEW i \in 1..Len(logs), logs[i] = n
          PROVE  n < frontier'[d].nonce \/ \E j \in 1..Len(rest) : rest[j] = n
      <4>1. CASE i = 1
        BY <1>1, <2>3, <2>4, <3>2, <4>1
      <4>2. CASE i # 1
        <5>1. i - 1 \in 1..Len(rest) /\ i - 1 + 1 = i
          BY <2>4, <2>6, <4>2
        <5>2. rest[i - 1] = n
          BY <2>6, <3>2, <5>1
        <5> QED  BY <5>1, <5>2
      <4> QED  BY <4>1, <4>2
    <3> QED  BY <2>1, <2>3, <2>9, <3>1, <3>2 DEF PageOk
  <2>10. batch'[d] = rest /\ declared' = declared /\ pageEnd' = pageEnd
    BY <1>1, <2>3, <2>5 DEF chainVars
  <2> QED  BY <2>2, <2>8, <2>9, <2>10 DEF PageOk, Nonces, Block
<1> QED  BY <1>1, <1>2, <1>3, <1>4, CursorKept, CursorTypes

\* The steps that leave cursor and page alone.
LEMMA StillCursor ==
  ASSUME StoreInv, StoreInv', CursorInv, NEW d \in Daemons,
         \/ \E f \in 0..MaxBlock : BeginScan(d, f)
         \/ FetchFails(d) \/ ScanDone(d) \/ Acquired(d)
         \/ Write(d) \/ Sync(d) \/ Rename(d) \/ CheckRoot(d) \/ CheckFails(d)
  PROVE  CursorInv'
<1>1. /\ UNCHANGED <<chainVars, cursorFile, cursorOnDisk, cursor, batch, frontier, pageEnd, powerCuts>>
      /\ pc[d] # "down" /\ pc'[d] # "down" /\ (pc'[d] \in InPage => pc[d] \in InPage)
      /\ \A e \in Daemons \ {d} : pc'[e] = pc[e]
      /\ UNCHANGED frontierFile \/ Rename(d)
  <2>1. pc \in [Daemons -> Steps]
    BY DEF StoreInv, MemoryOk
  <2>2. CASE (\E f \in 0..MaxBlock : BeginScan(d, f)) \/ FetchFails(d) \/ ScanDone(d) \/ Acquired(d)
    BY <2>1, <2>2 DEF BeginScan, FetchFails, ScanDone, Acquired, At, Goto, storeVars, frontierVars,
       cursorFileVars, faultVars, InPage, Committing
  <2>3. CASE Write(d) \/ Sync(d) \/ Rename(d)
    BY <2>1, <2>3 DEF Write, WriteChunks, Sync, SyncChunks, Rename, RenameFrontier, CommitStep, At, Goto,
       frontierVars, cursorFileVars, faultVars, InPage, Committing
  <2>4. CASE CheckRoot(d) \/ CheckFails(d)
    BY <2>1, <2>4 DEF CheckRoot, CheckFails, TickDone, At, Goto, storeVars, frontierVars,
       cursorFileVars, faultVars, InPage, Committing
  <2> QED  BY <2>2, <2>3, <2>4
<1>2. currentPage' \in [Daemons -> Nat] /\ target' \in [Daemons -> Nat]
      /\ \A e \in Daemons : target'[e] <= finalized
  <2>1. MarksOk /\ finalized \in Nat
    BY DEF CursorInv, StoreInv, ChainOk
  <2>2. ASSUME NEW f \in 0..MaxBlock, BeginScan(d, f)
        PROVE  currentPage' = currentPage /\ target' = [target EXCEPT ![d] = f]
               /\ f \in Nat /\ f <= finalized
    BY <2>2, FollowerAssumption DEF BeginScan
  <2>3. CASE FetchFails(d)
    BY <2>1, <2>3 DEF FetchFails, MarksOk
  <2>4. CASE ScanDone(d) \/ Acquired(d) \/ Write(d) \/ Sync(d) \/ Rename(d)
    BY <2>1, <2>4 DEF ScanDone, Acquired, Write, Sync, Rename, CommitStep, MarksOk
  <2>5. CASE CheckRoot(d) \/ CheckFails(d)
    BY <2>1, <2>5 DEF CheckRoot, CheckFails, TickDone, MarksOk
  <2> QED  BY <2>1, <2>2, <2>3, <2>4, <2>5 DEF MarksOk
<1>3. MarksOk'
  BY <1>1, <1>2 DEF CursorInv, MarksOk, chainVars
<1>4. Loaded.nonce <= Loaded'.nonce
  <2>1. CASE UNCHANGED frontierFile
    <3>1. Loaded' = Loaded
      BY <2>1 DEF Loaded, Fresh
    <3> QED  BY <3>1, CursorTypes
  <2>2. CASE Rename(d)
    <3>1. pc[d] = "rename" /\ frontierFile' = DueFrontier(d)
      BY <2>2 DEF Rename, RenameFrontier, CommitStep, At, DueFrontier
    <3>2. /\ DueFrontier(d) # NoFrontier /\ DueFrontier(d).nonce = frontier[d].nonce + 1
          /\ frontier[d].nonce \in Nat
      BY <3>1, Due DEF Committing
    <3>3. Loaded' = DueFrontier(d) /\ Running(d)
      BY <3>1, <3>2 DEF Loaded, StoreInv, MemoryOk
    <3> QED  BY <3>2, <3>3 DEF Running
  <2> QED  BY <1>1, <2>1, <2>2
<1>5. ASSUME powerCuts = 0
      PROVE  Seen(cursor'[d], frontier'[d].nonce) /\ (pc'[d] \in InPage => PageOk(d)')
  <2>1. Seen(cursor[d], frontier[d].nonce) /\ (pc[d] \in InPage => PageOk(d))
    BY <1>1, <1>5 DEF CursorInv, SeenOk
  <2>2. PageOk(d)' = PageOk(d)
    BY <1>1 DEF PageOk, Nonces, Block, chainVars
  <2> QED  BY <1>1, <2>1, <2>2
<1> QED  BY <1>1, <1>3, <1>4, <1>5, CursorKept

\* A restart reads what the file and the disk say.
LEMMA StartCursor ==
  ASSUME StoreInv, StoreInv', CursorInv, NEW d \in Daemons, Start(d) PROVE CursorInv'
<1>1. /\ pc' = [pc EXCEPT ![d] = "idle"] /\ cursorFile # Empty
      /\ cursor' = [cursor EXCEPT ![d] = cursorFile]
      /\ currentPage' = [currentPage EXCEPT ![d] = LogPage]
      /\ frontier' = [frontier EXCEPT ![d] = Loaded]
      /\ UNCHANGED <<chainVars, cursorFile, cursorOnDisk, frontierFile, target, pageEnd, powerCuts>>
  BY DEF Start, At, Goto, OpenStore, frontierVars, cursorFileVars, faultVars
<1>2. Loaded' = Loaded /\ DOMAIN frontier = Daemons /\ pc \in [Daemons -> Steps]
  BY <1>1 DEF Loaded, Fresh, StoreInv, MemoryOk
<1>3. MarksOk'
  BY <1>1, <1>2, FollowerAssumption DEF CursorInv, MarksOk, chainVars
<1>4. ASSUME powerCuts = 0 PROVE Seen(cursor'[d], frontier'[d].nonce)
  <2>1. cursor'[d] = cursorFile /\ frontier'[d] = Loaded
    BY <1>1, <1>2 DEF CursorInv, MarksOk
  <2>2. Seen(cursorFile, Loaded.nonce)
    BY <1>1, <1>4 DEF CursorInv, SeenOk
  <2> QED  BY <2>1, <2>2
<1> QED  BY <1>1, <1>2, <1>3, <1>4, CursorKept, CursorTypes DEF InPage, Committing

\* A kill leaves the files, and the memory of none but the killed.
LEMMA KillCursor ==
  ASSUME StoreInv, CursorInv, NEW d \in Daemons, Kill(d) PROVE CursorInv'
<1>1. /\ pc[d] # "down" /\ Forget({d})
      /\ UNCHANGED <<chainVars, cursorFile, cursorOnDisk, frontierFile, powerCuts>>
  BY DEF Kill, At, StoreKilled, frontierVars, cursorFileVars
<1>2. \A e \in Daemons : pc'[e] = "down"
  BY <1>1, Alone DEF Forget, StoreInv
<1>3. MarksOk'
  BY <1>1, FollowerAssumption DEF Forget, ScanFloor, CursorInv, MarksOk, chainVars, StoreInv, ChainOk
<1>4. BlocksOk'
  BY <1>1 DEF CursorInv, BlocksOk, chainVars
<1>5. powerCuts = 0 => SeenOk'
  BY <1>1, <1>2 DEF CursorInv, SeenOk, Seen, Loaded, Fresh, Nonces, Block, chainVars, InPage, Committing
<1> QED  BY <1>1, <1>3, <1>4, <1>5 DEF CursorInv

\* After a power cut nothing is said of what the cursor file has passed.
LEMMA PowerCutCursor ==
  ASSUME StoreInv, CursorInv, PowerCut PROVE CursorInv'
<1>1. /\ Forget(Daemons) /\ UNCHANGED chainVars /\ powerCuts' = powerCuts + 1
      /\ \E version \in cursorOnDisk : cursorFile' = version /\ cursorOnDisk' = {version}
  BY DEF PowerCut
<1>2. MarksOk'
  BY <1>1, FollowerAssumption DEF Forget, ScanFloor, CursorInv, MarksOk, chainVars, StoreInv, ChainOk
<1>3. BlocksOk'
  BY <1>1 DEF CursorInv, BlocksOk, chainVars
<1>4. powerCuts' # 0
  BY <1>1 DEF CursorInv, MarksOk
<1> QED  BY <1>2, <1>3, <1>4 DEF CursorInv

LEMMA InitCursor == Init => CursorInv
<1> SUFFICES ASSUME Init PROVE CursorInv
  OBVIOUS
<1>1. BlocksOk
  BY DEF Init, BlocksOk
<1>2. MarksOk
  BY FollowerAssumption DEF Init, ScanFloor, MarksOk
<1>3. SeenOk
  BY DEF Init, SeenOk, Seen, Nonces, InPage, Committing
<1> QED  BY <1>1, <1>2, <1>3 DEF CursorInv

LEMMA CursorStep == StoreInv /\ CursorInv /\ [Next]_vars => CursorInv'
<1> SUFFICES ASSUME StoreInv, CursorInv, [Next]_vars PROVE CursorInv'
  OBVIOUS
<1>0. StoreInv'
  BY StepKeeps
<1>1. CASE ChainAction
  BY <1>1, CursorChain
<1>2. ASSUME NEW d \in Daemons, DaemonAction(d) PROVE CursorInv'
  <2>1. CASE Start(d)
    BY <1>0, <2>1, StartCursor
  <2>2. ASSUME NEW dropped \in SUBSET Droppable, FetchPage(d, dropped) PROVE CursorInv'
    BY <1>0, <2>2, FetchCursor
  <2>3. CASE PageDone(d)
    BY <1>0, <2>3, PageDoneCursor
  <2>4. CASE Redelivered(d) \/ Committed(d)
    BY <1>0, <2>4, TailCursor
  <2>5. CASE NonceGap(d)
    BY <1>0, <2>5, GapCursor
  <2>6. CASE NotAcquired(d) \/ CommitFails(d)
    <3>1. /\ pc[d] \in InPage /\ batch[d] # <<>> /\ Halt(d)
          /\ UNCHANGED <<frontier, frontierFile, powerCuts>>
      <4>1. CASE NotAcquired(d)
        BY <4>1 DEF NotAcquired, At, InPage, storeVars, frontierVars, Halt, faultVars
      <4>2. CASE CommitFails(d)
        <5>1. pc[d] \in Committing /\ Halt(d) /\ UNCHANGED <<frontier, frontierFile, powerCuts>>
          BY <4>2 DEF CommitFails, TornWrite, WriteChunks, At, Committing, storeVars, frontierVars,
             Halt, faultVars
        <5> QED  BY <5>1 DEF StoreInv, CommitOk, CommitAt, InPage
      <4> QED  BY <2>6, <4>1, <4>2
    <3>2. Loaded' = Loaded /\ Loaded.nonce \in Nat
      BY <3>1, CursorTypes DEF Loaded, Fresh
    <3> QED  BY <1>0, <3>1, <3>2, HaltCursor
  <2>7. CASE \/ \E f \in 0..MaxBlock : BeginScan(d, f)
             \/ FetchFails(d) \/ ScanDone(d) \/ Acquired(d)
             \/ Write(d) \/ Sync(d) \/ Rename(d) \/ CheckRoot(d) \/ CheckFails(d)
    BY <1>0, <2>7, StillCursor
  <2> QED  BY <1>2, <2>1, <2>2, <2>3, <2>4, <2>5, <2>6, <2>7 DEF DaemonAction
<1>3. ASSUME NEW d \in Daemons, Kill(d) PROVE CursorInv'
  BY <1>3, KillCursor
<1>4. CASE PowerCut
  BY <1>4, PowerCutCursor
<1>5. CASE UNCHANGED vars
  <2>1. UNCHANGED <<frontierFile, frontier, finalized, declared, cursorFile, cursorOnDisk, pc,
                    cursor, currentPage, target, batch, pageEnd, powerCuts>>
    BY <1>5 DEF vars, storeVars, frontierVars, chainVars, cursorFileVars, daemonVars, faultVars
  <2>2. \A d \in Daemons : PageOk(d)' = PageOk(d)
    BY <2>1 DEF PageOk, Nonces, Block
  <2>4. SeenOk' = SeenOk
    BY <2>1, <2>2 DEF SeenOk, Seen, Loaded, Fresh, Nonces, Block
  <2> QED  BY <2>1, <2>4 DEF CursorInv, BlocksOk, MarksOk
<1> QED  BY <1>1, <1>2, <1>3, <1>4, <1>5 DEF Next

\* Over gaps in the answers, failed calls, torn writes, kills and lagging nodes, a cursor
\* passes only what is ingested or was left out; only a power cut can leave a cursor file
\* ahead of the store.
THEOREM CursorNeverSkipsHolds == Spec => []CursorNeverSkips
<1>1. StoreInv /\ CursorInv => CursorNeverSkips
  <2> SUFFICES ASSUME StoreInv, CursorInv, powerCuts = 0, NEW n \in Nonces \ Droppable,
                      \/ \E d \in Daemons : cursor[d] >= Block(n)
                      \/ cursorFile # Empty /\ cursorFile >= Block(n)
               PROVE  Ingested(n)
    BY DEF CursorNeverSkips
  <2>1. n \in Nat /\ Block(n) \in Nat /\ 1 <= Block(n) /\ Loaded.nonce \in Nat
    BY CursorTypes
  <2>2. ASSUME NEW d \in Daemons, cursor[d] >= Block(n) PROVE n < Loaded.nonce
    <3>1. cursor[d] \in Nat /\ pc[d] # "down"
      BY <2>1, <2>2 DEF CursorInv, MarksOk
    <3>2. n < frontier[d].nonce
      BY <2>1, <2>2, <3>1 DEF CursorInv, SeenOk, Seen
    <3>3. Loaded.nonce \in {frontier[d].nonce, frontier[d].nonce + 1} /\ frontier[d].nonce \in Nat
      BY <3>1, CursorTypes DEF StoreInv, MemoryOk, Running
    <3> QED  BY <2>1, <3>2, <3>3
  <2>3. ASSUME cursorFile # Empty, cursorFile >= Block(n) PROVE n < Loaded.nonce
    BY <2>1, <2>3 DEF CursorInv, MarksOk, SeenOk, Seen
  <2> QED  BY <2>1, <2>2, <2>3 DEF Ingested
<1> QED  BY <1>1, InitCursor, CursorStep, StoreInvariant, PTL DEF Spec

-----------------------------------------------------------------------------
(***************************************************************************)
(* What a store refuses to open.                                           *)
(***************************************************************************)

\* Committed chunks are never missing, and once a commit is durable no chunk data is
\* orphaned again.
OpensOnceCommitted ==
  /\ []~MissingCommittedData
  /\ [](NoFrontier \notin frontierOnDisk => []~OrphanedChunkData)

\* The crash artifact that is refused as damage, which the run follower_crash shows, is
\* left only before the first commit is durable: from then on every crash leaves a store
\* that opens.
THEOREM OpensOnceCommittedHolds == Spec => OpensOnceCommitted
<1>1. StoreInv => ~MissingCommittedData
  <2> SUFFICES ASSUME StoreInv PROVE ~MissingCommittedData
    OBVIOUS
  <2>1. PICK v : v = Loaded
    OBVIOUS
  <2>2. AgreesTo(file, v.leafCount) /\ v.leafCount \in Nat
    BY <2>1, LoadedIntact DEF Intact, Version
  <2> QED  BY <2>1, <2>2 DEF MissingCommittedData, AgreesTo, StoreInv, FilesOk
<1>2. StoreInv /\ NoFrontier \notin frontierOnDisk => ~OrphanedChunkData
  BY DEF StoreInv, DiskOk, OrphanedChunkData
<1>3. StoreInv /\ NoFrontier \notin frontierOnDisk /\ [Next]_vars => (NoFrontier \notin frontierOnDisk)'
  <2> SUFFICES ASSUME StoreInv, NoFrontier \notin frontierOnDisk, [Next]_vars
               PROVE  NoFrontier \notin frontierOnDisk'
    OBVIOUS
  <2>1. CASE ChainAction
    BY <2>1 DEF ChainAction, FinalizeBlock, Declare, storeVars, frontierVars
  <2>2. CASE ~ChainAction
    BY <2>2, DiskGrows
  <2> QED  BY <2>1, <2>2
<1> QED  BY <1>1, <1>2, <1>3, StoreInvariant, PTL DEF Spec, OpensOnceCommitted

==============================================================================
