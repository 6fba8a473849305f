----------------------------- MODULE ChunkStore -----------------------------
(***************************************************************************)
(* The daemon's chunk store, daemon/src/store: a flat chunk file, a        *)
(* frontier file that is replaced atomically, and a directory lock.  The   *)
(* disk has two faces: what a process reads back, and what a power cut     *)
(* leaves of it.                                                           *)
(*                                                                         *)
(* A chunk is named by the nonce of the declaration it was taken from.  A  *)
(* fragment of a chunk at the end of the file is never counted, so the     *)
(* file is a sequence of whole chunks.  Peaks follow from the chunks.      *)
(*                                                                         *)
(* Follower composes these operations with the scan that drives them.      *)
(***************************************************************************)
EXTENDS Integers, FiniteSets, Sequences

CONSTANTS
  Daemons,
  NoDaemon,
  NoFrontier,      \* no frontier file; no frontier in memory
  Lost             \* a chunk whose bytes did not survive

ASSUME ChunkStoreAssumption ==
  NoDaemon \notin Daemons /\ NoFrontier \notin [nonce : Nat, leafCount : Nat]

VARIABLES
  file,            \* chunks.dat, as a process reads it
  fileSafe,        \* chunks.dat as of its last fsync
  frontierFile,    \* frontier.json, as a process reads it
  frontierOnDisk,  \* the versions of frontier.json a power cut may leave
  lockHolder,      \* the daemon that holds .lock
  frontier         \* frontier[d]: in the memory of daemon d

chunkVars == <<file, fileSafe>>
frontierVars == <<frontierFile, frontierOnDisk>>
storeVars == <<chunkVars, frontierVars, lockHolder, frontier>>

Fresh == [nonce |-> 0, leafCount |-> 0]
Loaded == IF frontierFile = NoFrontier THEN Fresh ELSE frontierFile

StoreInit ==
  /\ file = <<>> /\ fileSafe = <<>>
  /\ frontierFile = NoFrontier /\ frontierOnDisk = {NoFrontier}
  /\ lockHolder = NoDaemon
  /\ frontier = [d \in Daemons |-> NoFrontier]

OrphanedChunkData == frontierFile = NoFrontier /\ file # <<>>
MissingCommittedData == Len(file) < Loaded.leafCount

\* Store::open.  What lies past the committed frontier is cut off and the cut is synced.
LockFree == lockHolder = NoDaemon
OpenStore(d) ==
  /\ LockFree
  /\ ~OrphanedChunkData
  /\ ~MissingCommittedData
  /\ lockHolder' = d
  /\ frontier' = [frontier EXCEPT ![d] = Loaded]
  /\ \/ /\ Len(file) > Loaded.leafCount
        /\ file' = SubSeq(file, 1, Loaded.leafCount)
        /\ fileSafe' = file'
     \/ Len(file) = Loaded.leafCount /\ UNCHANGED chunkVars
  /\ UNCHANGED frontierVars

\* A positioned write; a gap before it reads as zeros.
Overwritten(first, cells) ==
  LET last == first + Len(cells) IN
  [i \in 1..(IF last > Len(file) THEN last ELSE Len(file)) |->
     IF i > first /\ i <= last THEN cells[i - first]
     ELSE IF i <= Len(file) THEN file[i] ELSE Lost]

\* ChunkFile::append writes at the committed frontier; a write that fails may have
\* written some of the chunks.
AppendAtEnd(d) == Len(file)   \* mutant
AppendAt(d) == frontier[d].leafCount
WriteChunks(d, cells) ==
  /\ file' = Overwritten(AppendAt(d), cells)
  /\ UNCHANGED <<fileSafe, frontierVars, lockHolder, frontier>>
TornWrite(d, cells) ==
  \E k \in 0..Len(cells) - 1 : WriteChunks(d, SubSeq(cells, 1, k))

SyncChunks ==
  /\ fileSafe' = file
  /\ UNCHANGED <<file, frontierVars, lockHolder, frontier>>

\* write_atomic: the synced temporary file is renamed over frontier.json; a power cut may
\* undo the rename until the directory is synced.  Memory follows last.
RenameFrontier(next) ==
  /\ frontierFile' = next
  /\ frontierOnDisk' = frontierOnDisk \cup {next}
  /\ UNCHANGED <<chunkVars, lockHolder, frontier>>
SyncDirectory(d) ==
  /\ frontierOnDisk' = {frontierFile}
  /\ frontier' = [frontier EXCEPT ![d] = frontierFile]
  /\ UNCHANGED <<chunkVars, frontierFile, lockHolder>>

\* A process dies: its lock goes, the page cache stays.
StoreKilled(d) ==
  /\ lockHolder' = IF lockHolder = d THEN NoDaemon ELSE lockHolder
  /\ frontier' = [frontier EXCEPT ![d] = NoFrontier]
  /\ UNCHANGED <<chunkVars, frontierVars>>

\* What a power cut may leave of chunks.dat: of what was written since the last fsync,
\* any chunk may be there or not, and the file may be longer than its data.
CrashImages ==
  LET Unsynced(k) == {i \in 1..k : i > Len(fileSafe) \/ file[i] # fileSafe[i]}
      Image(k, kept) == [i \in 1..k |-> IF i \notin Unsynced(k) \/ i \in kept THEN file[i]
                                        ELSE IF i <= Len(fileSafe) THEN fileSafe[i] ELSE Lost]
  IN  UNION {{Image(k, kept) : kept \in SUBSET Unsynced(k)} : k \in Len(fileSafe)..Len(file)}

StorePowerCut ==
  /\ \E image \in CrashImages : file' = image /\ fileSafe' = image
  /\ \E version \in frontierOnDisk :
       frontierFile' = version /\ frontierOnDisk' = {version}
  /\ lockHolder' = NoDaemon
  /\ frontier' = [d \in Daemons |-> NoFrontier]

=============================================================================
