------------------------- MODULE MCFollowerLiveness -------------------------
(***************************************************************************)
(* Follower with a budget of failures: killed daemons, power cuts, calls   *)
(* that fail, logs left out, lagging nodes.  Once the budget is spent the  *)
(* supervisor restarts a daemon that can start, the loop goes on, nodes    *)
(* answer in full, sources serve and disks write.                          *)
(***************************************************************************)
EXTENDS Follower

CONSTANT MaxFailures

VARIABLE failures

\* A step of daemon d in which every call does what it is asked to.
Working(d) ==
  \/ Start(d)
  \/ BeginScan(d, finalized)
  \/ FetchPage(d, {}) \/ ScanDone(d)
  \/ PageDone(d) /\ SetCursor(d, pageEnd[d])
  \/ Redelivered(d)
  \/ NonceGap(d) /\ SetCursor(d, ResumeAfterGap(Head(batch[d])))
  \/ Acquired(d)
  \/ Write(d) \/ Sync(d) \/ Rename(d) \/ Committed(d)
  \/ CheckRoot(d)

Failing(d) ==
  \/ \E f \in 0..finalized - 1 : BeginScan(d, f)
  \/ \E dropped \in SUBSET Droppable : dropped # {} /\ FetchPage(d, dropped)
  \/ FetchFails(d)
  \/ PageDone(d) /\ SetCursorFails
  \/ NonceGap(d) /\ SetCursorFails
  \/ NotAcquired(d) \/ CommitFails(d) \/ CheckFails(d)
  \/ Kill(d)

Failure ==
  /\ failures < MaxFailures
  /\ failures' = failures + 1
  /\ PowerCut \/ \E d \in Daemons : Failing(d)

LiveInit == Init /\ failures = 0

LiveNext ==
  \/ ChainAction /\ UNCHANGED failures
  \/ \E d \in Daemons : Working(d) /\ UNCHANGED failures
  \/ Failure

LiveSpec ==
  /\ LiveInit
  /\ [][LiveNext]_<<vars, failures>>
  /\ WF_<<vars, failures>>(\E d \in Daemons : Working(d) /\ UNCHANGED failures)

=============================================================================
