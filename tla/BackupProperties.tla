--------------------------- MODULE BackupProperties ---------------------------
(***************************************************************************)
(* What backups and restores promise: a restore point is not lost by what  *)
(* runs beside it, and the row of a restore tells what became of the data. *)
(***************************************************************************)
EXTENDS Backups

Capturing(w) == job[w].pc \in CapturePcs
Overwriting(s) == apply[s].pc \in ApplyPcs \ {"none", "queued"}

(* Objects are taken away from a restore point by retention alone, which   *)
(* then holds the lock of the run, and only when the run is unprotected,   *)
(* is not being restored and RetainCount newer restore points exist        *)
(* (pruneCurrentPolicy against beginPrepare, protectRun and executeRun).   *)
RestorePointsLast ==
  [][\A r \in Restorable :
       \/ Keys(r) \cap stored \subseteq stored'
       \/ /\ \E w \in Workers : runLock[r] = w
          /\ ~run[r].protected
          /\ ActiveRestores(r) = {}
          /\ Cardinality({x \in Restorable : run[x].finished > run[r].finished}) >= RetainCount
     ]_vars

(* The newest restore point is complete: no capture, failed capture or     *)
(* retention that works beside it takes an object it shares                *)
(* (uploadIncrementalArtifact, prunePolicy, the reclaim of a failed run).  *)
NewestComplete ==
  \A r \in Restorable :
    (\A x \in Restorable : run[x].finished <= run[r].finished) =>
      run[r].artifacts # {} /\ Keys(r) \subseteq stored

(* What a restore was told is sound stays where it is until the restore is *)
(* over (beginPrepare and retention under the lock of the run).            *)
SourceStays ==
  \A s \in Restores :
    restore[s].status \in {"prepared", "applying"} =>
      run[restore[s].run].artifacts # {} /\ run[restore[s].run].artifacts \subseteq stored

(* When nothing is under way, what the destination holds is what restore   *)
(* points refer to: captures that failed and runs that were retired leave  *)
(* nothing behind, whoever decided their rows. The code does not promise   *)
(* it when a delete is refused, a process dies, the reply to a success or  *)
(* the columns that go with it are lost, or a refused capture cannot read  *)
(* who won ("preserve data"): those faults are excluded where it is stated.*)
NothingLeaked ==
  (\A w \in Workers : At(w, "idle")) => stored = UNION {Keys(r) : r \in Restorable}

(* One worker captures a run, and the lease it took at the claim is open   *)
(* as long as it works, whatever the row says (claimExecution,             *)
(* acknowledgeExecutionFinished).                                          *)
LeaseCoversWork ==
  \A w \in Workers :
    Capturing(w) =>
      /\ run[job[w].run].lease = "open"
      /\ \A x \in Workers \ {w} : Capturing(x) => job[x].run # job[w].run

(* A restore that overwrites data is not settled, so that its verdict is   *)
(* the proof that the writer stopped (cancel never settles what is         *)
(* applying); no capture and no other restore works on the data meanwhile, *)
(* and behind a cleanup that has begun nothing does (withProjectRuntimeLock*)
(* around captures, restores and teardownProject).                         *)
OneWriter ==
  /\ \A s \in Restores : restore[s].status \in RestoreTerminal =>
       apply[s].pc \in {"none", "flagging", "leaving"}
  /\ \A s \in Restores : Overwriting(s) =>
       /\ \A w \in Workers : ~Capturing(w)
       /\ \A x \in Restores \ {s} : ~Overwriting(x)
  /\ phase \in {"cleaning", "gone"} =>
       /\ \A w \in Workers : ~Capturing(w)
       /\ \A s \in Restores : apply[s].pc = "none"

(* A cancellation accepted before the restore was applied stands: the      *)
(* restore is neither applied nor succeeds afterwards.                     *)
CancelStands ==
  [][\A s \in Restores :
       restore[s].cancel /\ restore[s].status # "applying" =>
         restore'[s].status \notin {"applying", "succeeded"} \ {restore[s].status}]_vars

(* A service whose volume is written in part does not run.                 *)
PartialNeverServed == kind = "volume" /\ target = "partial" => service = "down"

(* When data is written in part, some restore says that it began to write  *)
(* it: a crash or a failure after the mark does not hide it. The mark is   *)
(* best effort: markDestructive goes on when its statement fails, and      *)
(* mergedMeta drops it when it cannot read it back. Where this is stated   *)
(* neither happens, nor is the preparation's own write delayed.            *)
PartialIsKnown ==
  target = "partial" =>
    \E s \in Restores : restore[s].destructive /\ restore[s].status # "succeeded"

(* A restore that is being applied is settled: by its worker, or by the    *)
(* boot after the worker died.                                             *)
AppliesSettle ==
  \A s \in Restores : restore[s].status = "applying" ~> restore[s].status \in RestoreTerminal

-----------------------------------------------------------------------------
(* What the source says of itself, and the code does not do                *)

(* restore.orchestrator.ts:1347: the flags are computed from what          *)
(* happened, so that no flags mean that the data is intact and the service *)
(* is up.                                                                  *)
NoFlagsMeanHealthy ==
  [][\A s \in Restores :
       apply[s].pc = "flagging" /\ apply'[s].pc = "leaving" /\ apply[s].verdict = "failed" =>
         restore'[s].partial \/ restore'[s].down \/ (target = "whole" /\ service = "up")]_vars

(* restore.orchestrator.ts:1392: the record that data is being written     *)
(* leads the write, so that a cancellation is told the truth.              *)
WritingIsKnown ==
  \A s \in Restores : apply[s].pc = "writing" => restore[s].destructive

(* restore.orchestrator.ts:438: a cancellation returns what actually happened. *)
CancelAnswersTruth ==
  \A s \in Restores : answer[s] = "cancelled" => restore[s].status = "cancelled"

(* project-teardown.ts:728: the poll is the window in which a restore that was *)
(* cancelled stops, so a restore it waits for can move.                    *)
WindowLetsRestoreStop ==
  \A s \in Restores :
    TeardownAt("window") /\ restore[s].status = "applying" => apply[s].pc # "queued"

=============================================================================
