----------------------------- MODULE BackupProofs -----------------------------
(***************************************************************************)
(* What backups and restores guarantee, proved for every value of the      *)
(* constants: one writer at a time, restores that a cancellation stops,    *)
(* data written in part that is neither served nor hidden, and restore     *)
(* points that keep their objects.                                         *)
(***************************************************************************)
EXTENDS BackupTypeProofs

USE DEF At, Goto

(* The fields that steps write one by one.                                 *)
LEMMA Shapes ==
  ASSUME TypeInv
  PROVE  /\ DOMAIN job = Workers /\ DOMAIN run = Runs
         /\ DOMAIN restore = Restores /\ DOMAIN apply = Restores
         /\ DOMAIN prep = Restores /\ DOMAIN cancelling = Restores /\ DOMAIN answer = Restores
         /\ \A w \in Workers :
              DOMAIN job[w] = {"pc", "run", "frozen", "content", "old", "kept", "uploaded",
                               "elsewhere", "completed", "plan", "victims"}
         /\ \A r \in Runs :
              DOMAIN run[r] = {"status", "lease", "artifacts", "manifest", "finished", "protected",
                               "deleted"}
         /\ \A s \in Restores :
              /\ DOMAIN restore[s] = {"status", "run", "cancel", "destructive", "partial", "down"}
              /\ DOMAIN apply[s] = {"pc", "part", "running", "stopped", "wrote", "unfinished", "broken",
                                    "down", "verdict"}
BY DEF TypeInv, TypeOK, StoreTypeOK, JobTypeOK, RestoreTypeOK, Jobs, RunRows, RestoreRows, Applies

LEMMA TeardownShape ==
  ASSUME TypeInv
  PROVE  DOMAIN teardown = {"pc", "kept", "todo"} /\ teardown.pc \in TeardownPcs
BY DEF TypeInv, TypeOK

(* A step of one slot leaves the others alone.                             *)
LEMMA JobOthers ==
  ASSUME TypeInv, NEW w \in Workers,
         Capture(w) \/ Prune(w) \/ StartSweep(w) \/ \E r \in Runs : Deliver(w, r)
  PROVE  \A x \in Workers \ {w} : job'[x] = job[x]
<1> DEFINE OK == \A x \in Workers \ {w} : job'[x] = job[x]
<1> SUFFICES OK OBVIOUS
<1>a. job \in [Workers -> Jobs]
  BY DEF TypeInv, TypeOK, JobTypeOK
<1>1. ASSUME \/ TakePolicyLock(w) \/ TakeProjectLock(w) \/ StartSweep(w) \/ FailCapture(w) \/ Fail(w)
             \/ RecordSuccess(w) \/ FinishBlocks(w) \/ Reclaim(w)
      PROVE  OK
  BY <1>1, <1>a
  DEF TakePolicyLock, TakeProjectLock, StartSweep, FailCapture, Reclaim, Fail, RecordSuccess, FinishBlocks
<1>2. ASSUME Claim(w) \/ Finish(w) \/ EndPrune(w) \/ Survey(w) \/ \E r \in Runs : Deliver(w, r) PROVE OK
  BY <1>2, <1>a DEF Claim, Finish, EndPrune, Survey, Deliver
<1>3. ASSUME Snapshot(w) \/ RecordArtifacts(w) \/ Succeed(w) PROVE OK
  BY <1>3, <1>a DEF Snapshot, RecordArtifacts, Succeed, Refused
<1>4. ASSUME Verify(w) PROVE OK
  BY <1>4, <1>a DEF Verify, Refused
<1>5. ASSUME StartUpload(w) PROVE OK
  BY <1>5, <1>a DEF StartUpload, Refused
<1>6. ASSUME UploadBlock(w) PROVE OK
  BY <1>6, <1>a DEF UploadBlock
<1>7. ASSUME LockVictim(w) \/ Erase(w) \/ Drop(w) PROVE OK
  BY <1>7, <1>a DEF LockVictim, Erase, Drop, LeaveVictim
<1> HIDE DEF OK
<1> QED BY <1>1, <1>2, <1>3, <1>4, <1>5, <1>6, <1>7 DEF Capture, Prune

(* Nor does a step of one restore touch another.                           *)
LEMMA RestoreOthers ==
  ASSUME TypeInv, NEW s \in Restores, Prepare(s) \/ Apply(s) \/ Cancel(s) \/ Operator(s)
  PROVE  \A x \in Restores \ {s} :
           UNCHANGED <<restore[x], prep[x], cancelling[x], answer[x], apply[x]>>
<1> DEFINE OK == \A x \in Restores \ {s} :
                   /\ restore'[x] = restore[x] /\ prep'[x] = prep[x] /\ cancelling'[x] = cancelling[x]
                   /\ answer'[x] = answer[x] /\ apply'[x] = apply[x]
<1> SUFFICES OK OBVIOUS
<1>a. /\ restore \in [Restores -> RestoreRows] /\ prep \in [Restores -> PrepPcs]
      /\ cancelling \in [Restores -> {"none", "asked", "settling"}]
      /\ answer \in [Restores -> {"none", "cancelled", "applying"}]
      /\ apply \in [Restores -> Applies]
  BY DEF TypeInv, TypeOK, StoreTypeOK, RestoreTypeOK
<1>1. ASSUME Prepare(s) PROVE OK
  BY <1>1, <1>a DEF Prepare, PrepGoto, Settle, AdmitRestore, StartPrepare, VerifySource, CheckPrepared, Pass,
     RecordPrepared, requests
<1>2. ASSUME Cancel(s) \/ Operator(s) PROVE OK
  BY <1>2, <1>a
  DEF Cancel, Operator, RequestCancel, AskCancel, ClaimApply, CheckSource, FlagCancel, SettleCancel,
     PrepGoto, ApplyGoto, Settle, requests
<1>3. ASSUME Apply(s) PROVE OK
  <2>1. /\ UNCHANGED <<prep, requests>>
        /\ restore' = restore \/ \E row : restore' = [restore EXCEPT ![s] = row]
    BY <1>3 DEF Apply, StartApply, ResolveTarget, StopService, CheckStopped, OpenArtifact, ApplyArtifact,
       FailArtifact, LoadService, StartBack, Unwind, RecordVerdict, RecordFlags, Leave, Settle
  <2>2. \A x \in Restores \ {s} : apply'[x] = apply[x]
    BY <1>3, <1>a DEF Apply, StartApply, ResolveTarget, StopService, CheckStopped, OpenArtifact,
       ApplyArtifact, FailArtifact, LoadService, StartBack, Unwind, RecordVerdict, RecordFlags, Leave,
       ApplyGoto, Verdict, TryStart
  <2> QED BY <1>a, <2>1, <2>2 DEF requests
<1> HIDE DEF OK
<1> QED BY <1>1, <1>2, <1>3

(* The writes of the flags of a row leave the rest of it as it is.         *)
LEMMA FlagWrites ==
  ASSUME TypeInv, NEW s \in Restores, RecordPrepared(s) \/ OpenArtifact(s) \/ RecordFlags(s)
  PROVE  /\ restore'[s].status = restore[s].status /\ restore'[s].run = restore[s].run
         /\ restore'[s].cancel = restore[s].cancel
<1> DEFINE Same(row) == /\ row.status = restore[s].status /\ row.run = restore[s].run
                        /\ row.cancel = restore[s].cancel
<1>a. /\ DOMAIN restore = Restores
      /\ DOMAIN restore[s] = {"status", "run", "cancel", "destructive", "partial", "down"}
  BY Shapes
<1>1. Same(MarkDestructive(s))
  BY <1>a DEF MarkDestructive
<1>2. Same(Unflagged(restore[s])) /\ DOMAIN Unflagged(restore[s]) = DOMAIN restore[s]
  BY <1>a DEF Unflagged
<1>3. \A row : Same(row) /\ DOMAIN row = DOMAIN restore[s] => Same(Flagged(s, row))
  BY <1>a DEF Flagged
<1>4. \/ restore' = restore
      \/ \E row : Same(row) /\ restore' = [restore EXCEPT ![s] = row]
  <2>1. CASE RecordPrepared(s)
    BY <2>1, <1>2 DEF RecordPrepared
  <2>2. CASE OpenArtifact(s)
    BY <2>2, <1>1 DEF OpenArtifact
  <2>3. CASE RecordFlags(s)
    <3>1. Same(restore[s])
      OBVIOUS
    <3>2. Same(Flagged(s, restore[s])) /\ Same(Flagged(s, Unflagged(restore[s])))
      BY <1>2, <1>3, <3>1
    <3> HIDE DEF Same
    <3> QED BY <2>3, <3>2 DEF RecordFlags
  <2> QED BY <2>1, <2>2, <2>3
<1> QED BY <1>4, <1>a

(* What captures and retention, restores and deletions leave alone.        *)
LEMMA JobsKeepPhase ==
  ASSUME JobNext
  PROVE  UNCHANGED <<restore, phase>>
BY DEF JobNext, Trigger, Enqueue, ProtectRun, SweepHeartbeat, EditPolicy, Capture, Prune,
   TakePolicyLock, TakeProjectLock, UploadBlock, FinishBlocks, FailCapture, Reclaim,
   StartSweep, Survey, LockVictim, Erase, Drop, EndPrune, Claim, Snapshot, StartUpload, RecordArtifacts,
   Verify, Succeed, RecordSuccess, Fail, Finish, Deliver, store

LEMMA RestoresKeepRuns ==
  ASSUME NEW s \in Restores, Prepare(s) \/ Apply(s) \/ Cancel(s) \/ Operator(s)
  PROVE  UNCHANGED <<run, stored, incremental, phase, policyLock, kind>>
<1>1. Prepare(s) => UNCHANGED <<run, stored, incremental, phase, policyLock, kind>>
  BY DEF Prepare, AdmitRestore, StartPrepare, VerifySource, CheckPrepared, Pass, RecordPrepared, rest
<1>2. Apply(s) => UNCHANGED <<run, stored, incremental, phase, policyLock, kind>>
  BY DEF Apply, StartApply, ResolveTarget, StopService, CheckStopped, OpenArtifact, ApplyArtifact,
     FailArtifact, LoadService, StartBack, Unwind, RecordVerdict, RecordFlags, Leave, rest
<1>3. Cancel(s) \/ Operator(s) => UNCHANGED <<run, stored, incremental, phase, policyLock, kind>>
  BY DEF Cancel, FlagCancel, SettleCancel, Operator, RequestCancel, ClaimApply, CheckSource, rest
<1> QED BY <1>1, <1>2, <1>3

LEMMA DeletionKeepsRestores ==
  ASSUME ClaimDeletion \/ Teardown
  PROVE  UNCHANGED <<restore, stored, job, prep, apply, kind, policyLock, runLock>>
<1>1. ClaimDeletion => UNCHANGED <<restore, stored, job, prep, apply, kind, policyLock, runLock>>
  BY DEF ClaimDeletion, restoreVars
<1>2. Teardown => UNCHANGED <<restore, stored, job, prep, apply, kind, policyLock, runLock>>
  BY DEF Teardown, RefuseGraceful, StartCancelling, OpenWindow, QuiesceTimeout, BeginCleanup,
     Destroy, CancelRun, CancelRestore, GiveUp, restoreVars, store, locks
<1> QED BY <1>1, <1>2

-----------------------------------------------------------------------------
(* The runtime lock of the project.                                        *)

InsidePcs == {"claim"} \cup CapturePcs

(* Who works on the service holds the lock: a capture from its claim to    *)
(* its end, a restore from the resolution of its target, a deletion.       *)
ProjectLocked ==
  /\ \A w \in Workers : job[w].pc \in InsidePcs => projectLock = w
  /\ \A s \in Restores : Overwriting(s) => projectLock = s
  /\ ~TeardownAt("none") => projectLock = "teardown"

LEMMA Distinct ==
  /\ \A w \in Workers : w # "teardown" /\ w # Nobody /\ \A s \in Restores : w # s
  /\ \A s \in Restores : s # "teardown" /\ s # Nobody
  /\ Nobody # "teardown"
BY HoldersAssumption

LEMMA JobLockSteps ==
  ASSUME TypeInv, NEW w \in Workers,
         Capture(w) \/ Prune(w) \/ StartSweep(w) \/ \E r \in Runs : Deliver(w, r)
  PROVE  \/ projectLock' = projectLock /\ (job'[w].pc \in InsidePcs => job[w].pc \in InsidePcs)
         \/ projectLock = Nobody /\ projectLock' = w
         \/ projectLock' = Nobody /\ job[w].pc \in InsidePcs /\ job'[w].pc \notin InsidePcs
<1> DEFINE Keep == projectLock' = projectLock /\ (job'[w].pc \in InsidePcs => job[w].pc \in InsidePcs)
           Take == projectLock = Nobody /\ projectLock' = w
           Leaves == projectLock' = Nobody /\ job[w].pc \in InsidePcs /\ job'[w].pc \notin InsidePcs
<1> SUFFICES Keep \/ Take \/ Leaves OBVIOUS
<1>a. DOMAIN job = Workers /\ "pc" \in DOMAIN job[w]
  BY Shapes
<1>1. ASSUME \/ Snapshot(w) \/ StartUpload(w) \/ UploadBlock(w) \/ FinishBlocks(w) \/ RecordArtifacts(w)
             \/ Verify(w) \/ Succeed(w) \/ RecordSuccess(w) \/ FailCapture(w) \/ Reclaim(w) \/ Fail(w)
      PROVE  Keep
  BY <1>1
  DEF Snapshot, StartUpload, UploadBlock, FinishBlocks, RecordArtifacts, Verify, Succeed, RecordSuccess,
     FailCapture, Reclaim, Fail, locks, store, InsidePcs, CapturePcs
<1>2. ASSUME TakePolicyLock(w) \/ StartSweep(w) PROVE Keep
  BY <1>2, <1>a DEF TakePolicyLock, StartSweep, store, locks, InsidePcs, CapturePcs
<1>3. ASSUME TakeProjectLock(w) PROVE Take
  BY <1>3 DEF TakeProjectLock
<1>4. ASSUME Claim(w) PROVE Keep \/ Leaves
  BY <1>4, <1>a DEF Claim, locks, IdleJob, InsidePcs, CapturePcs
<1>5. ASSUME Finish(w) PROVE Leaves
  <2>1. job'[w] = [IdleJob EXCEPT !.pc = IF job[w].completed THEN "prune" ELSE "idle"]
    BY <1>5, <1>a DEF Finish
  <2>2. job'[w].pc \in {"prune", "idle"}
    BY <2>1 DEF IdleJob
  <2> QED BY <1>5, <2>2 DEF Finish, InsidePcs, CapturePcs
<1>6. ASSUME Survey(w) \/ EndPrune(w) PROVE Keep
  BY <1>6, <1>a DEF Survey, EndPrune, IdleJob, store, locks, InsidePcs, CapturePcs
<1>7. ASSUME LockVictim(w) \/ Erase(w) \/ Drop(w) PROVE Keep
  <2>1. projectLock' = projectLock /\ job'[w].pc \in {"victim", "erase", "drop"}
    BY <1>7, <1>a DEF LockVictim, Erase, Drop, LeaveVictim
  <2> QED BY <2>1 DEF InsidePcs, CapturePcs
<1>8. ASSUME NEW r \in Runs, Deliver(w, r) PROVE Keep
  <2>1. job'[w] = [IdleJob EXCEPT !.run = r, !.frozen = incremental,
                                  !.pc = IF incremental THEN "policy" ELSE "project"]
    BY <1>8, <1>a DEF Deliver
  <2>2. job'[w].pc \in {"policy", "project"}
    BY <2>1 DEF IdleJob
  <2> QED BY <1>8, <2>2 DEF Deliver, store, locks, InsidePcs, CapturePcs
<1> HIDE DEF Keep, Take, Leaves
<1> QED BY <1>1, <1>2, <1>3, <1>4, <1>5, <1>6, <1>7, <1>8 DEF Capture, Prune

LEMMA RestoreLockSteps ==
  ASSUME TypeInv, NEW s \in Restores, Prepare(s) \/ Apply(s) \/ Cancel(s) \/ Operator(s)
  PROVE  \/ projectLock' = projectLock /\ (Overwriting(s)' => Overwriting(s))
         \/ projectLock = Nobody /\ projectLock' = s
         \/ projectLock' = Nobody /\ Overwriting(s) /\ ~Overwriting(s)'
<1> DEFINE Keep == projectLock' = projectLock /\ (Overwriting(s)' => Overwriting(s))
           Take == projectLock = Nobody /\ projectLock' = s
           Leaves == projectLock' = Nobody /\ Overwriting(s) /\ ~Overwriting(s)'
<1> SUFFICES Keep \/ Take \/ Leaves OBVIOUS
<1>a. DOMAIN apply = Restores /\ "pc" \in DOMAIN apply[s]
  BY Shapes
<1>1. ASSUME Prepare(s) \/ Cancel(s) \/ RequestCancel(s) \/ \E r \in Runs : CheckSource(s, r) PROVE Keep
  <2>1. UNCHANGED <<projectLock, apply>>
    BY <1>1 DEF Prepare, Cancel, RequestCancel, CheckSource, AdmitRestore, StartPrepare, VerifySource,
       CheckPrepared, Pass, RecordPrepared, FlagCancel, SettleCancel
  <2> QED BY <2>1 DEF Overwriting
<1>2. ASSUME ClaimApply(s) PROVE Keep
  BY <1>2, <1>a DEF ClaimApply, ApplyGoto, Overwriting
<1>3. ASSUME StartApply(s) PROVE Take
  BY <1>3 DEF StartApply
<1>4. ASSUME ResolveTarget(s) PROVE Keep \/ Leaves
  <2>1. Overwriting(s)
    BY <1>4 DEF ResolveTarget, Overwriting, ApplyPcs
  <2>2. \/ projectLock' = projectLock
        \/ projectLock' = Nobody /\ apply' = [apply EXCEPT ![s] = NoApply]
    BY <1>4 DEF ResolveTarget
  <2> QED BY <2>1, <2>2, <1>a DEF Overwriting, NoApply
<1>5. ASSUME \/ StopService(s) \/ CheckStopped(s) \/ OpenArtifact(s) \/ ApplyArtifact(s) \/ FailArtifact(s)
             \/ LoadService(s) \/ StartBack(s) \/ Unwind(s) \/ RecordVerdict(s) \/ RecordFlags(s)
      PROVE  Keep
  BY <1>5 DEF StopService, CheckStopped, OpenArtifact, ApplyArtifact, FailArtifact, LoadService, StartBack,
     Unwind, RecordVerdict, RecordFlags, Overwriting, ApplyPcs
<1>6. ASSUME Leave(s) PROVE Leaves
  BY <1>6, <1>a DEF Leave, Overwriting, NoApply, ApplyPcs
<1> HIDE DEF Keep, Take, Leaves
<1> QED BY <1>1, <1>2, <1>3, <1>4, <1>5, <1>6 DEF Apply, Operator

LEMMA ProjectLockStep ==
  ASSUME TypeInv, ProjectLocked, [Next]_vars
  PROVE  ProjectLocked'
<1>1. CASE JobNext /\ UNCHANGED <<restoreVars, teardown>>
  <2>1. UNCHANGED <<apply, teardown>>
    BY <1>1 DEF restoreVars
  <2>2. CASE Trigger
    <3>1. UNCHANGED <<projectLock, job>>
      BY <2>2 DEF Trigger, Enqueue, ProtectRun, SweepHeartbeat, EditPolicy, locks
    <3> QED BY <2>1, <3>1 DEF ProjectLocked, Overwriting, TeardownAt
  <2>3. ASSUME NEW w \in Workers,
               Capture(w) \/ Prune(w) \/ StartSweep(w) \/ \E r \in Runs : Deliver(w, r)
        PROVE  ProjectLocked'
    <3>1. \A x \in Workers \ {w} : job'[x] = job[x]
      BY <2>3, JobOthers
    <3>2. \/ projectLock' = projectLock /\ (job'[w].pc \in InsidePcs => job[w].pc \in InsidePcs)
          \/ projectLock = Nobody /\ projectLock' = w
          \/ projectLock' = Nobody /\ job[w].pc \in InsidePcs /\ job'[w].pc \notin InsidePcs
      BY <2>3, JobLockSteps
    <3> QED BY <2>1, <3>1, <3>2, Distinct DEF ProjectLocked, Overwriting, TeardownAt
  <2> QED BY <1>1, <2>2, <2>3 DEF JobNext
<1>2. CASE RestoreNext /\ UNCHANGED <<job, teardown>>
  <2>1. PICK s \in Restores : Prepare(s) \/ Apply(s) \/ Cancel(s) \/ Operator(s)
    BY <1>2 DEF RestoreNext
  <2>2. \A x \in Restores \ {s} : apply'[x] = apply[x]
    BY <2>1, RestoreOthers
  <2>3. \/ projectLock' = projectLock /\ (Overwriting(s)' => Overwriting(s))
        \/ projectLock = Nobody /\ projectLock' = s
        \/ projectLock' = Nobody /\ Overwriting(s) /\ ~Overwriting(s)'
    BY <2>1, RestoreLockSteps
  <2> QED BY <1>2, <2>2, <2>3, Distinct DEF ProjectLocked, Overwriting, TeardownAt
<1>3. CASE ClaimDeletion
  BY <1>3, Distinct DEF ClaimDeletion, ProjectLocked, Overwriting, TeardownAt, restoreVars
<1>4. CASE Teardown
  <2>1. UNCHANGED <<job, apply>> /\ ~TeardownAt("none")
    BY <1>4 DEF Teardown, RefuseGraceful, StartCancelling, OpenWindow, QuiesceTimeout, BeginCleanup, Destroy,
       CancelRun, CancelRestore, GiveUp, TeardownAt, restoreVars
  <2>2. \/ projectLock' = projectLock
        \/ projectLock' = Nobody /\ teardown' = NoTeardown
    BY <1>4 DEF Teardown, RefuseGraceful, StartCancelling, OpenWindow, QuiesceTimeout, BeginCleanup, Destroy,
       CancelRun, CancelRestore, GiveUp, store, locks
  <2> QED BY <2>1, <2>2, Distinct DEF ProjectLocked, Overwriting, TeardownAt, NoTeardown
<1>5. CASE Restart \/ ReplicaDies
  <2>1. PICK W \in SUBSET Workers, S \in SUBSET Restores, d \in BOOLEAN : Die(W, S, d)
    BY <1>5 DEF Restart, ReplicaDies
  <2>2. /\ \A w \in Workers : job'[w].pc \in InsidePcs => w \notin W /\ job'[w] = job[w]
        /\ \A s \in Restores : Overwriting(s)' => s \notin S /\ apply'[s] = apply[s]
        /\ TeardownAt("none")' \/ (~d /\ teardown' = teardown)
    <3>1. "idle" \notin InsidePcs /\ IdleJob.pc = "idle" /\ NoApply.pc = "none"
      BY DEF InsidePcs, CapturePcs, IdleJob, NoApply
    <3>2. NoTeardown.pc = "none"
      BY DEF NoTeardown
    <3>3. \A w \in Workers : job'[w].pc \in InsidePcs => w \notin W /\ job'[w] = job[w]
      BY <2>1, <3>1 DEF Die
    <3>4. \A s \in Restores : Overwriting(s)' => s \notin S /\ apply'[s] = apply[s]
      BY <2>1, <3>1 DEF Die, Overwriting
    <3>5. TeardownAt("none")' \/ (~d /\ teardown' = teardown)
      BY <2>1, <3>2 DEF Die, TeardownAt
    <3> QED BY <3>3, <3>4, <3>5
  <2>3. projectLock' = Freed(projectLock, W \cup S \cup (IF d THEN {"teardown"} ELSE {}))
    BY <2>1 DEF Die
  <2> QED BY <2>2, <2>3, Distinct DEF ProjectLocked, Overwriting, TeardownAt, Freed
<1>6. CASE UNCHANGED vars
  BY <1>6 DEF vars, store, locks, restoreVars, ProjectLocked, Overwriting, TeardownAt
<1> QED BY <1>1, <1>2, <1>3, <1>4, <1>5, <1>6 DEF Next

-----------------------------------------------------------------------------
(* How far a restore has come.                                             *)

Reading == {"reading", "verified", "unsound", "passing"}

(* What prepares, cancels or applies a restore knows the status of its row,*)
(* unless somebody has settled it meanwhile; what applies it is sure.      *)
Tracks(s) ==
  /\ prep[s] = "admitting" => restore[s].status = "absent"
  /\ prep[s] = "queued" => restore[s].status \in {"queued"} \cup RestoreTerminal
  /\ prep[s] \in Reading => restore[s].status \in {"preparing"} \cup RestoreTerminal
  /\ prep[s] = "recording" => restore[s].status \in {"prepared", "applying"} \cup RestoreTerminal
  /\ cancelling[s] # "none" => restore[s].status # "absent"
  /\ cancelling[s] = "settling" => restore[s].cancel /\ restore[s].status # "applying"
  /\ apply[s].pc \notin {"none", "flagging", "leaving"} => restore[s].status = "applying"
  /\ apply[s].pc \in {"flagging", "leaving"} => restore[s].status \in RestoreTerminal
  /\ restore[s].status = "absent" => ~restore[s].cancel

(* Where the steps in the middle of an application lead.                   *)
LEMMA ApplyMoves ==
  ASSUME TypeInv, NEW s \in Restores
  PROVE  /\ StartApply(s) => apply'[s].pc = "starting"
         /\ ResolveTarget(s) => apply'[s].pc \in {"none", "recording", "stopping"}
         /\ StopService(s) => apply'[s].pc \in {"stopped", "recording"}
         /\ CheckStopped(s) => apply'[s].pc \in {"opening", "recording"}
         /\ ApplyArtifact(s) => apply'[s].pc \in {"loading", "opening"}
         /\ FailArtifact(s) => apply'[s].pc = "unwinding"
         /\ LoadService(s) => apply'[s].pc \in {"restarting", "unwinding"}
         /\ StartBack(s) => apply'[s].pc \in {"recording", "unwinding"}
         /\ Unwind(s) => apply'[s].pc = "recording"
<1>a. /\ DOMAIN apply = Restores
      /\ DOMAIN apply[s] = {"pc", "part", "running", "stopped", "wrote", "unfinished", "broken",
                            "down", "verdict"}
  BY Shapes
<1>b. \A pc : ApplyGoto(s, pc) => apply'[s].pc = pc
  BY <1>a DEF ApplyGoto
<1>c. \A v, pc : Verdict(s, v, pc) => apply'[s].pc = pc
  BY <1>a DEF Verdict
<1>d. \A v, pc : TryStart(s, pc, v) => apply'[s].pc = pc
  BY <1>a, <1>c DEF TryStart
<1>1. StartApply(s) => apply'[s].pc = "starting"
  BY <1>b DEF StartApply
<1>2. ResolveTarget(s) => apply'[s].pc \in {"none", "recording", "stopping"}
  BY <1>a, <1>b, <1>c DEF ResolveTarget, NoApply
<1>3. ASSUME StopService(s) PROVE apply'[s].pc \in {"stopped", "recording"}
  <2> DEFINE running == service = "up"
             stop == running /\ ~Through
             down == ~running \/ stop
  <2>1. \/ apply' = [apply EXCEPT ![s].pc = "stopped", ![s].running = running,
                                  ![s].stopped = stop, ![s].down = down]
        \/ apply' = [apply EXCEPT ![s].pc = "recording", ![s].running = running,
                                  ![s].verdict = "failed"]
    BY <1>3 DEF StopService
  <2> HIDE DEF running, stop, down
  <2> QED BY <2>1, <1>a
<1>4. CheckStopped(s) => apply'[s].pc \in {"opening", "recording"}
  BY <1>b, <1>c, <1>d DEF CheckStopped
<1>5. ApplyArtifact(s) => apply'[s].pc \in {"loading", "opening"}
  BY <1>a DEF ApplyArtifact
<1>6. FailArtifact(s) => apply'[s].pc = "unwinding"
  BY <1>a, <1>c DEF FailArtifact
<1>7. ASSUME LoadService(s) PROVE apply'[s].pc \in {"restarting", "unwinding"}
  BY <1>7, <1>a, <1>b DEF LoadService
<1>8. ASSUME StartBack(s) PROVE apply'[s].pc \in {"recording", "unwinding"}
  <2>1. \/ Verdict(s, "succeeded", "recording")
        \/ apply' = [apply EXCEPT ![s].pc = "recording", ![s].down = FALSE, ![s].verdict = "succeeded"]
        \/ Verdict(s, "failed", "unwinding")
    BY <1>8 DEF StartBack
  <2>2. apply' = [apply EXCEPT ![s].pc = "recording", ![s].down = FALSE, ![s].verdict = "succeeded"]
          => apply'[s].pc = "recording"
    BY <1>a
  <2> QED BY <2>1, <2>2, <1>c
<1>9. Unwind(s) => apply'[s].pc = "recording"
  BY <1>b, <1>d DEF Unwind
<1> QED BY <1>1, <1>2, <1>3, <1>4, <1>5, <1>6, <1>7, <1>8, <1>9

LEMMA TracksKept ==
  ASSUME TypeInv, NEW s \in Restores, Tracks(s), Prepare(s) \/ Apply(s) \/ Cancel(s) \/ Operator(s)
  PROVE  Tracks(s)'
<1> DEFINE OK == Tracks(s)'
<1> SUFFICES OK OBVIOUS
<1>a. /\ DOMAIN restore = Restores /\ DOMAIN apply = Restores /\ DOMAIN prep = Restores
      /\ DOMAIN cancelling = Restores
      /\ DOMAIN restore[s] = {"status", "run", "cancel", "destructive", "partial", "down"}
      /\ DOMAIN apply[s] = {"pc", "part", "running", "stopped", "wrote", "unfinished", "broken",
                            "down", "verdict"}
  BY Shapes
<1>b. apply[s].verdict \in RestoreTerminal
  BY DEF TypeInv, TypeOK, RestoreTypeOK, Applies, RestoreTerminal
<1>c. Tracks(s)
  OBVIOUS
<1> USE DEF RestoreTerminal
<1>1. ASSUME NEW r \in Runs, CheckSource(s, r) PROVE OK
  BY <1>1, <1>a, <1>c DEF CheckSource, PrepGoto, Tracks, Reading, requests
<1>2. ASSUME AdmitRestore(s) PROVE OK
  <2>1. /\ prep[s] = "admitting" /\ restore[s].status = "absent" /\ cancelling[s] = "none"
        /\ apply[s].pc = "none" /\ ~restore[s].cancel
    BY <1>2, <1>c DEF AdmitRestore, Tracks
  <2>2. UNCHANGED <<cancelling, apply>>
    BY <1>2 DEF AdmitRestore, requests
  <2>3. CASE Admitting
    <3>1. PICK r \in Runs : restore' = [restore EXCEPT ![s] =
                                          [NoRestore EXCEPT !.status = "queued", !.run = r]]
      BY <1>2, <2>3 DEF AdmitRestore
    <3>2. restore'[s].status = "queued"
      BY <3>1, <1>a DEF NoRestore
    <3>3. prep'[s] = "queued"
      BY <1>2, <2>3, <1>a DEF AdmitRestore, PrepGoto
    <3> QED BY <2>1, <2>2, <3>2, <3>3 DEF Tracks, Reading
  <2>4. CASE ~Admitting
    <3>1. restore' = restore /\ prep'[s] = "none"
      BY <1>2, <2>4, <1>a DEF AdmitRestore, PrepGoto
    <3> QED BY <2>1, <2>2, <3>1 DEF Tracks, Reading
  <2> QED BY <2>3, <2>4
<1>3. ASSUME StartPrepare(s) PROVE OK
  BY <1>3, <1>a, <1>c DEF StartPrepare, PrepGoto, Tracks, Reading, requests, Settle, Unsettled
<1>4. ASSUME VerifySource(s) PROVE OK
  BY <1>4, <1>a, <1>c DEF VerifySource, PrepGoto, Tracks, Reading, requests
<1>5. ASSUME CheckPrepared(s) PROVE OK
  <2>1. /\ UNCHANGED <<cancelling, apply>>
        /\ prep[s] \in {"verified", "unsound"}
        /\ \/ restore' = restore /\ PrepGoto(s, "none")
           \/ restore' = restore /\ PrepGoto(s, "passing") /\ prep[s] = "verified"
           \/ /\ Unsettled(s) /\ PrepGoto(s, "none")
              /\ \/ restore' = [restore EXCEPT ![s] = [restore[s] EXCEPT !.status = "cancelled", !.destructive = FALSE]]
                 \/ restore' = [restore EXCEPT ![s] = [restore[s] EXCEPT !.status = "failed"]]
    BY <1>5 DEF CheckPrepared, Settle, requests
  <2>2. /\ prep'[s] = "none" \/ (prep'[s] = "passing" /\ restore' = restore)
        /\ \/ restore'[s] = restore[s]
           \/ /\ restore'[s].status \in RestoreTerminal /\ Unsettled(s)
              /\ restore'[s].cancel = restore[s].cancel
    <3>1. prep'[s] = "none" \/ (prep'[s] = "passing" /\ restore' = restore)
      BY <2>1, <1>a DEF PrepGoto
    <3>2. ASSUME restore' = [restore EXCEPT ![s] = [restore[s] EXCEPT !.status = "cancelled", !.destructive = FALSE]]
          PROVE  restore'[s].status = "cancelled" /\ restore'[s].cancel = restore[s].cancel
      BY <3>2, <1>a
    <3>3. ASSUME restore' = [restore EXCEPT ![s] = [restore[s] EXCEPT !.status = "failed"]]
          PROVE  restore'[s].status = "failed" /\ restore'[s].cancel = restore[s].cancel
      BY <3>3, <1>a
    <3> QED BY <2>1, <3>1, <3>2, <3>3
  <2>3. restore[s].status \in {"preparing"} \cup RestoreTerminal
    BY <2>1, <1>c DEF Tracks, Reading
  <2> QED BY <2>1, <2>2, <2>3, <1>c DEF Tracks, Reading, Unsettled
<1>6. ASSUME Pass(s) PROVE OK
  BY <1>6, <1>a, <1>c DEF Pass, PrepGoto, Tracks, Reading, requests, Settle, Unsettled
<1>7. ASSUME RecordPrepared(s) PROVE OK
  BY <1>7, <1>a, <1>c, FlagWrites DEF RecordPrepared, PrepGoto, Tracks, Reading, requests
<1>8. ASSUME RequestCancel(s) PROVE OK
  BY <1>8, <1>a, <1>c
  DEF RequestCancel, AskCancel, RestoreActive, RestoreInFlight, Tracks, Reading
<1>9. ASSUME FlagCancel(s) PROVE OK
  BY <1>9, <1>a, <1>c DEF FlagCancel, CancelsItself, Tracks, Reading
<1>10. ASSUME SettleCancel(s) PROVE OK
  BY <1>10, <1>a, <1>c DEF SettleCancel, Tracks, Reading, Settle, Unsettled
<1>11. ASSUME ClaimApply(s) PROVE OK
  BY <1>11, <1>a, <1>c DEF ClaimApply, Eligible, ApplyGoto, Tracks, Reading, requests
<1>12. ASSUME OpenArtifact(s) PROVE OK
  <2>1. /\ restore'[s].status = restore[s].status /\ restore'[s].cancel = restore[s].cancel
        /\ UNCHANGED <<prep, cancelling>> /\ apply[s].pc = "opening"
    BY <1>12, FlagWrites DEF OpenArtifact, requests
  <2>2. apply'[s].pc \in {"writing", "unwinding"}
    BY <1>12, <1>a DEF OpenArtifact, Verdict
  <2> QED BY <2>1, <2>2, <1>c DEF Tracks, Reading
<1>13. ASSUME RecordVerdict(s) PROVE OK
  BY <1>13, <1>a, <1>b, <1>c DEF RecordVerdict, Settle, Unsettled, ApplyGoto, Tracks, Reading, requests
<1>14. ASSUME RecordFlags(s) PROVE OK
  BY <1>14, <1>a, <1>c, FlagWrites DEF RecordFlags, ApplyGoto, Tracks, Reading, requests
<1>15. ASSUME Leave(s) PROVE OK
  BY <1>15, <1>a, <1>c DEF Leave, NoApply, Tracks, Reading, requests
<1>16. ASSUME \/ StartApply(s) \/ StopService(s) \/ CheckStopped(s) \/ ApplyArtifact(s) \/ FailArtifact(s)
              \/ LoadService(s) \/ StartBack(s) \/ Unwind(s) \/ ResolveTarget(s)
       PROVE  OK
  <2>1. UNCHANGED <<restore, prep, cancelling>> /\ apply[s].pc \notin {"none", "flagging", "leaving"}
    BY <1>16 DEF StartApply, StopService, CheckStopped, ApplyArtifact, FailArtifact, LoadService, StartBack,
       Unwind, ResolveTarget, requests
  <2>2. apply'[s].pc \notin {"flagging", "leaving"}
    BY <1>16, ApplyMoves
  <2> QED BY <1>c, <2>1, <2>2 DEF Tracks
<1> HIDE DEF OK
<1> QED
  BY <1>1, <1>2, <1>3, <1>4, <1>5, <1>6, <1>7, <1>8, <1>9, <1>10, <1>11, <1>12, <1>13, <1>14,
     <1>15, <1>16
  DEF Prepare, Apply, Cancel, Operator

LEMMA TracksStep ==
  ASSUME TypeInv, \A s \in Restores : Tracks(s), [Next]_vars
  PROVE  \A s \in Restores : Tracks(s)'
<1>1. ASSUME NEW x \in Restores, UNCHANGED <<restore[x], prep[x], cancelling[x], apply[x]>>
      PROVE  Tracks(x)'
  BY <1>1 DEF Tracks
<1>2. CASE RestoreNext /\ UNCHANGED <<job, teardown>>
  <2>1. PICK s \in Restores : Prepare(s) \/ Apply(s) \/ Cancel(s) \/ Operator(s)
    BY <1>2 DEF RestoreNext
  <2>2. \A x \in Restores \ {s} : UNCHANGED <<restore[x], prep[x], cancelling[x], apply[x]>>
    BY <2>1, RestoreOthers
  <2>3. Tracks(s)'
    BY <2>1, TracksKept
  <2> QED BY <1>1, <2>2, <2>3
<1>3. CASE Teardown
  <2>1. ASSUME NEW s \in Restores, CancelRestore(s), NEW x \in Restores PROVE Tracks(x)'
    <3>1. UNCHANGED <<restore, prep, apply>>
      BY <2>1 DEF CancelRestore, store
    <3>2. \/ cancelling'[x] = cancelling[x]
          \/ cancelling'[x] = "asked" /\ restore[x].status # "absent"
      BY <2>1, Shapes DEF CancelRestore, AskCancel, RestoreActive, RestoreInFlight
    <3> QED BY <3>1, <3>2 DEF Tracks
  <2>2. ASSUME ~ \E s \in Restores : CancelRestore(s)
        PROVE  UNCHANGED <<restore, prep, cancelling, apply>>
    BY <1>3, <2>2 DEF Teardown, RefuseGraceful, StartCancelling, OpenWindow, QuiesceTimeout, BeginCleanup,
       Destroy, CancelRun, GiveUp, restoreVars, requests, store
  <2> QED BY <1>1, <2>1, <2>2
<1>4. CASE ClaimDeletion \/ UNCHANGED vars \/ (JobNext /\ UNCHANGED <<restoreVars, teardown>>)
  <2>1. UNCHANGED <<prep, cancelling, apply>>
    BY <1>4 DEF ClaimDeletion, vars, restoreVars, requests
  <2>2. UNCHANGED restore
    <3>1. JobNext => restore' = restore
      BY DEF JobNext, Trigger, Enqueue, ProtectRun, SweepHeartbeat, EditPolicy, Capture, Prune,
         TakePolicyLock, TakeProjectLock, UploadBlock, FinishBlocks, FailCapture, Reclaim,
         StartSweep, Survey, LockVictim, Erase, Drop, EndPrune, Claim, Snapshot, StartUpload, RecordArtifacts,
         Verify, Succeed, RecordSuccess, Fail, Finish, Deliver, store
    <3> QED BY <1>4, <3>1 DEF ClaimDeletion, vars, store
  <2> QED BY <1>1, <2>1, <2>2
<1>5. CASE Restart \/ ReplicaDies
  <2>1. PICK W \in SUBSET Workers, S \in SUBSET Restores, d \in BOOLEAN :
          Die(W, S, d) /\ (restore' = restore \/ S = Restores)
    BY <1>5 DEF Restart, ReplicaDies
  <2>3. \A s \in Restores \ S : UNCHANGED <<restore[s], prep[s], cancelling[s], apply[s]>>
    BY <2>1 DEF Die
  <2>2. ASSUME NEW s \in Restores, s \in S PROVE Tracks(s)'
    <3>1. prep'[s] = "none" /\ apply'[s].pc = "none" /\ cancelling'[s] = "none"
      BY <2>1, <2>2 DEF Die, NoApply
    <3>2. \/ restore'[s] = restore[s]
          \/ restore'[s].status = "server_error"
      BY <1>5, Shapes DEF Restart, ReplicaDies, RestoreSweptAtBoot
    <3> QED BY <3>1, <3>2 DEF Tracks, Reading
  <2> QED BY <1>1, <2>2, <2>3
<1> QED BY <1>2, <1>3, <1>4, <1>5 DEF Next

-----------------------------------------------------------------------------
(* Behind the fence.                                                       *)

(* A capture begins with a claim, while the project admits work.           *)
LEMMA CaptureBegins ==
  ASSUME TypeInv, NEW w \in Workers,
         Capture(w) \/ Prune(w) \/ StartSweep(w) \/ \E r \in Runs : Deliver(w, r),
         ~Capturing(w), Capturing(w)'
  PROVE  /\ Claim(w) /\ Admitting /\ Claimable(job[w].run)
         /\ ClaimExecution(job[w].run) /\ job' = [job EXCEPT ![w].pc = "snapshot"]
         /\ UNCHANGED locks
<1>a. DOMAIN job = Workers /\ "pc" \in DOMAIN job[w]
  BY Shapes
<1>b. job[w].pc \notin CapturePcs /\ job'[w].pc \in CapturePcs
  BY DEF Capturing
<1>1. \/ Claim(w) \/ TakePolicyLock(w) \/ TakeProjectLock(w) \/ Survey(w) \/ LockVictim(w)
      \/ Erase(w) \/ Drop(w) \/ EndPrune(w) \/ StartSweep(w) \/ \E r \in Runs : Deliver(w, r)
  BY <1>b DEF Capture, Prune, CapturePcs, Snapshot, StartUpload, UploadBlock, FinishBlocks, RecordArtifacts,
     Verify, Succeed, RecordSuccess, FailCapture, Reclaim, Fail, Finish
<1>2. \A r \in Runs : ~Deliver(w, r)
  <2> SUFFICES ASSUME NEW r \in Runs, Deliver(w, r) PROVE FALSE
    OBVIOUS
  <2>1. job'[w] = [IdleJob EXCEPT !.run = r, !.frozen = incremental,
                                  !.pc = IF incremental THEN "policy" ELSE "project"]
    BY <1>a DEF Deliver
  <2>2. job'[w].pc \in {"policy", "project"}
    BY <2>1 DEF IdleJob
  <2> QED BY <1>b, <2>2 DEF CapturePcs
<1>3. ~TakePolicyLock(w) /\ ~TakeProjectLock(w) /\ ~StartSweep(w)
  BY <1>a, <1>b DEF TakePolicyLock, TakeProjectLock, StartSweep, CapturePcs
<1>4. ~Survey(w) /\ ~EndPrune(w)
  BY <1>a, <1>b DEF Survey, EndPrune, IdleJob, CapturePcs
<1>5. ~LockVictim(w) /\ ~Erase(w) /\ ~Drop(w)
  <2>1. LockVictim(w) \/ Erase(w) \/ Drop(w) => job'[w].pc \in {"victim", "erase", "drop"}
    BY <1>a DEF LockVictim, Erase, Drop, LeaveVictim
  <2> QED BY <1>b, <2>1 DEF CapturePcs
<1>6. Claim(w)
  BY <1>1, <1>2, <1>3, <1>4, <1>5
<1>7. job' # [job EXCEPT ![w] = IdleJob]
  BY <1>a, <1>b DEF IdleJob, CapturePcs
<1> QED BY <1>6, <1>7 DEF Claim

(* Neither does a restore begin to be applied when work is not admitted.   *)
LEMMA ApplyBegins ==
  ASSUME TypeInv, NEW s \in Restores, Prepare(s) \/ Apply(s) \/ Cancel(s) \/ Operator(s),
         apply[s].pc = "none", apply'[s].pc # "none"
  PROVE  ClaimApply(s)
<1>1. UNCHANGED apply \/ Apply(s) \/ ClaimApply(s)
  BY DEF Prepare, Cancel, Operator, RequestCancel, CheckSource, AdmitRestore, StartPrepare,
     VerifySource, CheckPrepared, Pass, RecordPrepared, FlagCancel, SettleCancel
<1>2. ~Apply(s)
  BY DEF Apply, StartApply, ResolveTarget, StopService, CheckStopped, OpenArtifact, ApplyArtifact, FailArtifact,
     LoadService, StartBack, Unwind, RecordVerdict, RecordFlags, Leave
<1> QED BY <1>1, <1>2

Closed ==
  /\ TeardownAt("cleaning") => phase \in {"cleaning", "gone"}
  /\ phase \in {"cleaning", "gone"} =>
       /\ \A w \in Workers : ~Capturing(w)
       /\ \A s \in Restores : apply[s].pc = "none"

LEMMA ClosedStep ==
  ASSUME TypeInv, ProjectLocked, \A s \in Restores : Tracks(s), Closed, [Next]_vars
  PROVE  Closed'
<1>1. CASE JobNext /\ UNCHANGED <<restoreVars, teardown>>
  <2>1. UNCHANGED <<apply, teardown>>
    BY <1>1 DEF restoreVars
  <2>2. UNCHANGED phase
    BY <1>1, JobsKeepPhase
  <2>3. CASE Trigger
    <3>1. UNCHANGED job
      BY <2>3 DEF Trigger, Enqueue, ProtectRun, SweepHeartbeat, EditPolicy
    <3> QED BY <2>1, <2>2, <3>1 DEF Closed, Capturing, TeardownAt
  <2>4. ASSUME NEW w \in Workers,
               Capture(w) \/ Prune(w) \/ StartSweep(w) \/ \E r \in Runs : Deliver(w, r)
        PROVE  Closed'
    <3>1. \A x \in Workers \ {w} : job'[x] = job[x]
      BY <2>4, JobOthers
    <3>2. Capturing(w)' => Capturing(w) \/ phase = "open"
      BY <2>4, CaptureBegins DEF Admitting
    <3> QED BY <2>1, <2>2, <3>1, <3>2 DEF Closed, Capturing, TeardownAt
  <2> QED BY <1>1, <2>3, <2>4 DEF JobNext
<1>2. CASE RestoreNext /\ UNCHANGED <<job, teardown>>
  <2>1. PICK s \in Restores : Prepare(s) \/ Apply(s) \/ Cancel(s) \/ Operator(s)
    BY <1>2 DEF RestoreNext
  <2>2. UNCHANGED phase
    BY <2>1, RestoresKeepRuns
  <2>3. \A x \in Restores \ {s} : apply'[x] = apply[x]
    BY <2>1, RestoreOthers
  <2>4. apply[s].pc = "none" /\ apply'[s].pc # "none" => phase = "open"
    BY <2>1, ApplyBegins DEF ClaimApply, Admitting
  <2> QED BY <1>2, <2>2, <2>3, <2>4 DEF Closed, Capturing, TeardownAt
<1>3. CASE ClaimDeletion
  BY <1>3 DEF ClaimDeletion, Closed, Capturing, TeardownAt, restoreVars, NoTeardown
<1>4. CASE Teardown
  <2>1. UNCHANGED <<job, apply>>
    BY <1>4 DEF Teardown, RefuseGraceful, StartCancelling, OpenWindow, QuiesceTimeout, BeginCleanup, Destroy,
       CancelRun, CancelRestore, GiveUp, restoreVars
  <2>2. CASE BeginCleanup
    <3>1. /\ \A w \in Workers : ~Capturing(w)
          /\ \A s \in Restores : ~Overwriting(s)
      BY <2>2, Distinct DEF BeginCleanup, ProjectLocked, TeardownAt, Capturing, InsidePcs
    <3>2. \A s \in Restores : restore[s].status # "applying"
      BY <2>2 DEF BeginCleanup, Blocking, RestoreBlocks, RestoreInFlight
    <3>3. \A s \in Restores : apply[s].pc \in ApplyPcs
      BY DEF TypeInv, TypeOK, RestoreTypeOK, Applies
    <3>4. \A s \in Restores : apply[s].pc = "none"
      BY <3>1, <3>2, <3>3 DEF Tracks, Overwriting
    <3>5. phase' = "cleaning"
      BY <2>2 DEF BeginCleanup
    <3> QED BY <2>1, <3>1, <3>4, <3>5 DEF Closed, Capturing
  <2>3. CASE Destroy
    BY <2>1, <2>3 DEF Destroy, Closed, Capturing, TeardownAt, NoTeardown
  <2>4. ASSUME GiveUp PROVE Closed'
    BY <2>1, <2>4 DEF GiveUp, Closed, Capturing, TeardownAt, NoTeardown
  <2>5. ASSUME StartCancelling \/ OpenWindow \/ \E r \in Runs : CancelRun(r) PROVE Closed'
    <3>1. UNCHANGED phase /\ ~TeardownAt("cleaning")'
      BY <2>5, TeardownShape
      DEF StartCancelling, OpenWindow, CancelRun, store, TeardownAt
    <3> QED BY <2>1, <3>1 DEF Closed, Capturing
  <2>6. ASSUME \E s \in Restores : CancelRestore(s) PROVE Closed'
    <3>1. UNCHANGED phase /\ ~TeardownAt("cleaning")'
      BY <2>6, TeardownShape DEF CancelRestore, store, TeardownAt
    <3> QED BY <2>1, <3>1 DEF Closed, Capturing
  <2> QED BY <1>4, <2>2, <2>3, <2>4, <2>5, <2>6 DEF Teardown, RefuseGraceful, QuiesceTimeout
<1>5. CASE Restart \/ ReplicaDies
  <2>1. PICK W \in SUBSET Workers, S \in SUBSET Restores, d \in BOOLEAN : Die(W, S, d)
    BY <1>5 DEF Restart, ReplicaDies
  <2>2. UNCHANGED phase
    BY <2>1 DEF Die
  <2>3. IdleJob.pc = "idle" /\ NoApply.pc = "none" /\ NoTeardown.pc = "none"
    BY DEF IdleJob, NoApply, NoTeardown
  <2>4. \A w \in Workers : Capturing(w)' => Capturing(w)
    BY <2>1, <2>3 DEF Die, Capturing, CapturePcs
  <2>5. \A s \in Restores : apply[s].pc = "none" => apply'[s].pc = "none"
    BY <2>1, <2>3 DEF Die
  <2>6. TeardownAt("cleaning")' => TeardownAt("cleaning")
    <3>1. teardown' = teardown \/ teardown' = NoTeardown
      BY <2>1 DEF Die
    <3> QED BY <2>3, <3>1 DEF TeardownAt
  <2> QED BY <2>2, <2>4, <2>5, <2>6 DEF Closed
<1>6. CASE UNCHANGED vars
  BY <1>6 DEF vars, store, restoreVars, Closed, Capturing, TeardownAt
<1> QED BY <1>1, <1>2, <1>3, <1>4, <1>5, <1>6 DEF Next

(* The inductive invariant behind the restores.                            *)
RestoreInv == TypeInv /\ ProjectLocked /\ (\A s \in Restores : Tracks(s)) /\ Closed

LEMMA RestoreInvAtStart ==
  ASSUME Init
  PROVE  RestoreInv
<1>1. ProjectLocked
  BY DEF Init, JobInit, RestoreInit, ProjectLocked, Overwriting, TeardownAt, NoTeardown, IdleJob,
     NoApply, InsidePcs, CapturePcs
<1>2. \A s \in Restores : Tracks(s)
  BY DEF Init, StoreInit, RestoreInit, Tracks, Reading, NoRestore, NoApply
<1>3. Closed
  BY DEF Init, StoreInit, Closed, TeardownAt, NoTeardown
<1> QED BY <1>1, <1>2, <1>3, TypesAtStart DEF RestoreInv

LEMMA RestoreInvStep ==
  ASSUME RestoreInv, [Next]_vars
  PROVE  RestoreInv'
BY TypesStep, ProjectLockStep, TracksStep, ClosedStep DEF RestoreInv

LEMMA RestoreInvHolds == Spec => []RestoreInv
<1>1. Init => RestoreInv
  BY RestoreInvAtStart
<1>2. RestoreInv /\ [Next]_vars => RestoreInv'
  BY RestoreInvStep
<1> QED BY <1>1, <1>2, PTL DEF Spec

(* While a restore overwrites data, its row is not settled, and neither a  *)
(* capture nor another restore nor a deletion works on the service; behind *)
(* a cleanup nothing does (OneWriter). The runtime lock of the project is  *)
(* why: whoever works holds it, and the fence admits nobody.               *)
THEOREM OneWriterAlways == Spec => []OneWriter
<1>1. RestoreInv => OneWriter
  <2> SUFFICES ASSUME RestoreInv PROVE OneWriter
    OBVIOUS
  <2>1. \A s \in Restores : restore[s].status \in RestoreTerminal =>
          apply[s].pc \in {"none", "flagging", "leaving"}
    BY DEF RestoreInv, Tracks, RestoreTerminal
  <2>2. \A s \in Restores : Overwriting(s) =>
          /\ \A w \in Workers : ~Capturing(w)
          /\ \A x \in Restores \ {s} : ~Overwriting(x)
    BY Distinct DEF RestoreInv, ProjectLocked, Capturing, InsidePcs
  <2> QED BY <2>1, <2>2 DEF OneWriter, RestoreInv, Closed
<1> QED BY <1>1, RestoreInvHolds, PTL

(* A cancellation that was accepted before a restore was applied stands:   *)
(* the restore is neither applied nor succeeds (CancelStands).             *)
THEOREM CancellationStands == Spec => CancelStands
<1> DEFINE Stands == \A s \in Restores :
             restore[s].cancel /\ restore[s].status # "applying" =>
               restore'[s].status \notin {"applying", "succeeded"} \ {restore[s].status}
<1>1. ASSUME RestoreInv, [Next]_vars PROVE Stands
  <2> SUFFICES ASSUME NEW s \in Restores, restore[s].cancel, restore[s].status # "applying",
                      restore'[s].status # restore[s].status
               PROVE  restore'[s].status \notin {"applying", "succeeded"}
    OBVIOUS
  <2>a. /\ DOMAIN restore = Restores
        /\ DOMAIN restore[s] = {"status", "run", "cancel", "destructive", "partial", "down"}
    BY <1>1, Shapes DEF RestoreInv
  <2>b. Tracks(s)
    BY <1>1 DEF RestoreInv
  <2>1. CASE RestoreNext
    <3>1. PICK x \in Restores : Prepare(x) \/ Apply(x) \/ Cancel(x) \/ Operator(x)
      BY <2>1 DEF RestoreNext
    <3>2. x = s
      BY <1>1, <3>1, RestoreOthers DEF RestoreInv
    <3>3. CASE Prepare(s)
      <4>1. restore'[s].status \in {restore[s].status, "queued", "preparing", "cancelled", "failed", "prepared"}
        <5>1. ASSUME AdmitRestore(s) PROVE restore'[s].status \in {restore[s].status, "queued"}
          <6>1. ASSUME NEW r \in Runs,
                       restore' = [restore EXCEPT ![s] = [NoRestore EXCEPT !.status = "queued", !.run = r]]
                PROVE  restore'[s].status = "queued"
            BY <6>1, <2>a DEF NoRestore
          <6> QED BY <5>1, <6>1 DEF AdmitRestore
        <5>2. ASSUME NEW st, restore' = [restore EXCEPT ![s] = [restore[s] EXCEPT !.status = st]]
              PROVE  restore'[s].status = st
          BY <5>2, <2>a
        <5>3. StartPrepare(s) \/ Pass(s) => restore'[s].status \in {restore[s].status, "preparing", "prepared"}
          BY <5>2 DEF StartPrepare, Pass, Settle
        <5>4. CheckPrepared(s) => restore'[s].status \in {restore[s].status, "cancelled", "failed"}
          BY <2>a DEF CheckPrepared, Settle
        <5>5. RecordPrepared(s) => restore'[s].status = restore[s].status
          BY <1>1, FlagWrites DEF RestoreInv
        <5>6. VerifySource(s) => restore'[s].status = restore[s].status
          BY DEF VerifySource
        <5> QED BY <3>3, <5>1, <5>3, <5>4, <5>5, <5>6 DEF Prepare
      <4> QED BY <4>1
    <3>4. CASE Apply(s)
      <4>1. restore'[s].status = restore[s].status \/ RecordVerdict(s)
        <5>1. OpenArtifact(s) => restore'[s].status = restore[s].status
          BY <1>1, FlagWrites DEF RestoreInv
        <5>2. RecordFlags(s) => restore'[s].status = restore[s].status
          BY <1>1, FlagWrites DEF RestoreInv
        <5>3. ASSUME \/ StartApply(s) \/ ResolveTarget(s) \/ StopService(s) \/ CheckStopped(s)
                     \/ ApplyArtifact(s) \/ FailArtifact(s) \/ LoadService(s) \/ StartBack(s) \/ Unwind(s)
                     \/ Leave(s)
              PROVE  restore' = restore
          BY <5>3 DEF StartApply, ResolveTarget, StopService, CheckStopped, ApplyArtifact, FailArtifact,
             LoadService, StartBack, Unwind, Leave
        <5> QED BY <3>4, <5>1, <5>2, <5>3 DEF Apply
      <4>2. ~RecordVerdict(s)
        BY <2>b DEF RecordVerdict, Tracks
      <4> QED BY <4>1, <4>2
    <3>5. CASE Cancel(s) \/ Operator(s)
      <4>1. restore'[s].status \in {restore[s].status, "cancelled"} \/ ClaimApply(s)
        BY <3>5, <2>a DEF Cancel, Operator, RequestCancel, CheckSource, FlagCancel, SettleCancel, Settle
      <4>2. ~ClaimApply(s)
        BY DEF ClaimApply, Eligible
      <4> QED BY <4>1, <4>2
    <3> QED BY <3>1, <3>2, <3>3, <3>4, <3>5
  <2>2. CASE Restart
    BY <2>2, <2>a DEF Restart, RestoreSweptAtBoot
  <2>3. CASE ~RestoreNext /\ ~Restart
    <3>1. UNCHANGED restore
      BY <1>1, <2>3, JobsKeepPhase, DeletionKeepsRestores DEF RestoreInv, Next, ReplicaDies, vars, store
    <3> QED BY <3>1
  <2> QED BY <2>1, <2>2, <2>3
<1>2. RestoreInv /\ [Next]_vars => [Stands]_vars
  BY <1>1
<1> QED BY <1>2, RestoreInvHolds, PTL DEF Spec, CancelStands

-----------------------------------------------------------------------------
(* Data written in part.                                                   *)

(* Who is not at work on the service leaves it and its data alone.         *)
LEMMA ServiceWriters ==
  ASSUME RestoreInv, [Next]_vars
  PROVE  \/ UNCHANGED <<target, service>>
         \/ \E s \in Restores : Apply(s) /\ Overwriting(s) /\ UNCHANGED <<job, teardown>>
         \/ Destroy
<1>1. JobNext /\ UNCHANGED <<restoreVars, teardown>> => UNCHANGED <<target, service>>
  BY DEF restoreVars
<1>2. ASSUME RestoreNext, UNCHANGED <<job, teardown>>
      PROVE  \/ UNCHANGED <<target, service>>
             \/ \E s \in Restores : Apply(s) /\ Overwriting(s)
  <2>1. PICK s \in Restores : Prepare(s) \/ Apply(s) \/ Cancel(s) \/ Operator(s)
    BY <1>2 DEF RestoreNext
  <2>2. Prepare(s) \/ Cancel(s) \/ Operator(s) => UNCHANGED <<target, service>>
    BY DEF Prepare, Cancel, Operator, RequestCancel, ClaimApply, CheckSource, AdmitRestore, StartPrepare,
       VerifySource, CheckPrepared, Pass, RecordPrepared, FlagCancel, SettleCancel
  <2>3. StartApply(s) => UNCHANGED <<target, service>>
    BY DEF StartApply
  <2>4. Apply(s) => StartApply(s) \/ Overwriting(s)
    BY DEF Apply, Overwriting, ApplyPcs, ResolveTarget, StopService, CheckStopped, OpenArtifact,
       ApplyArtifact, FailArtifact, LoadService, StartBack, Unwind, RecordVerdict, RecordFlags, Leave
  <2> QED BY <2>1, <2>2, <2>3, <2>4
<1>3. ClaimDeletion \/ Restart \/ ReplicaDies \/ UNCHANGED vars => UNCHANGED <<target, service>>
  BY DEF ClaimDeletion, Restart, ReplicaDies, Die, vars, restoreVars
<1>4. Teardown => Destroy \/ UNCHANGED <<target, service>>
  BY DEF Teardown, RefuseGraceful, StartCancelling, OpenWindow, QuiesceTimeout, BeginCleanup, CancelRun,
     CancelRestore, GiveUp, restoreVars
<1> QED BY <1>1, <1>2, <1>3, <1>4 DEF Next

LEMMA KindsKept ==
  ASSUME [Next]_vars
  PROVE  UNCHANGED kind
<1>1. RestoreNext => UNCHANGED kind
  BY RestoresKeepRuns DEF RestoreNext
<1> QED BY <1>1, DeletionKeepsRestores DEF Next, Restart, ReplicaDies, Die, restoreVars, vars

(* Apart from the steps of a restore, its application stays or is dropped; *)
(* it is claimed anew from nothing.                                        *)
LEMMA ApplyElsewhere ==
  ASSUME RestoreInv, [Next]_vars, NEW s \in Restores, ~(Apply(s) /\ UNCHANGED <<job, teardown>>)
  PROVE  \/ apply'[s] = apply[s]
         \/ apply'[s] = NoApply
         \/ ClaimApply(s) /\ apply[s].pc = "none" /\ apply'[s] = [apply[s] EXCEPT !.pc = "queued"]
<1>1. CASE RestoreNext /\ UNCHANGED <<job, teardown>>
  <2>1. PICK x \in Restores : Prepare(x) \/ Apply(x) \/ Cancel(x) \/ Operator(x)
    BY <1>1 DEF RestoreNext
  <2>2. CASE x # s
    BY <2>1, <2>2, RestoreOthers DEF RestoreInv
  <2>3. CASE x = s
    <3>1. ClaimApply(s) \/ UNCHANGED apply
      BY <1>1, <2>1, <2>3
      DEF Prepare, Cancel, Operator, RequestCancel, CheckSource, AdmitRestore, StartPrepare, VerifySource,
         CheckPrepared, Pass, RecordPrepared, FlagCancel, SettleCancel
    <3>2. ASSUME ClaimApply(s)
          PROVE  apply[s].pc = "none" /\ apply'[s] = [apply[s] EXCEPT !.pc = "queued"]
      <4>1. restore[s].status = "prepared" /\ Tracks(s)
        BY <3>2 DEF ClaimApply, Eligible, RestoreInv
      <4>2. apply[s].pc = "none"
        BY <4>1 DEF Tracks, RestoreTerminal
      <4> QED BY <3>2, <4>2, Shapes DEF ClaimApply, ApplyGoto, RestoreInv
    <3> QED BY <3>1, <3>2
  <2> QED BY <2>2, <2>3
<1>2. CASE Restart \/ ReplicaDies
  BY <1>2 DEF Restart, ReplicaDies, Die
<1>3. CASE ClaimDeletion \/ Teardown \/ UNCHANGED vars \/ (JobNext /\ UNCHANGED <<restoreVars, teardown>>)
  BY <1>3, DeletionKeepsRestores DEF vars, restoreVars
<1> QED BY <1>1, <1>2, <1>3 DEF Next

(* A volume is written while its service is down; a service is started     *)
(* again only by who stopped it and left the data whole.                   *)
VolumeAt(s) ==
  /\ apply[s].pc \in {"stopped", "opening", "writing", "loading", "restarting", "unwinding"}
       => service = "down"
  /\ apply[s].pc = "stopped" /\ apply[s].stopped => target # "partial"
  /\ apply[s].pc = "writing" => apply[s].unfinished
  /\ apply[s].pc \in {"loading", "restarting"} => target # "partial"
  /\ apply[s].pc \in {"opening", "writing", "unwinding"} /\ apply[s].stopped /\ ~Partial(s)
       => target # "partial"
  /\ apply[s].pc \in {"none", "queued", "starting", "stopping", "stopped"} => ~Partial(s)

VolumeInv == kind = "volume" => PartialNeverServed /\ \A s \in Restores : VolumeAt(s)

LEMMA VolumeApplied ==
  ASSUME RestoreInv, kind = "volume", VolumeInv, NEW s \in Restores, Apply(s), UNCHANGED kind
  PROVE  PartialNeverServed' /\ VolumeAt(s)'
<1> DEFINE OK == PartialNeverServed' /\ VolumeAt(s)'
<1> SUFFICES OK OBVIOUS
<1>a. /\ DOMAIN apply = Restores
      /\ DOMAIN apply[s] = {"pc", "part", "running", "stopped", "wrote", "unfinished", "broken",
                            "down", "verdict"}
  BY Shapes DEF RestoreInv
<1>b. ~Through /\ ~Atomic /\ ~Bounced
  BY DEF Through, Atomic, Bounced
<1>c. PartialNeverServed /\ VolumeAt(s)
  BY DEF VolumeInv
<1>d. service \in {"up", "down"}
  BY DEF RestoreInv, TypeInv, TypeOK, RestoreTypeOK
<1> DEFINE Same == /\ apply'[s].stopped = apply[s].stopped
                   /\ apply'[s].unfinished = apply[s].unfinished
                   /\ apply'[s].broken = apply[s].broken
<1>e. \A pc : ApplyGoto(s, pc) => apply'[s].pc = pc /\ Same
  BY <1>a DEF ApplyGoto
<1>f. \A v, pc : Verdict(s, v, pc) => apply'[s].pc = pc /\ Same
  BY <1>a DEF Verdict
<1>g. \A v, pc : TryStart(s, pc, v) => /\ apply'[s].pc = pc /\ Same
                                       /\ service' = "up" \/ service' = service
  <2> TAKE v, pc
  <2>1. ASSUME apply' = [apply EXCEPT ![s].pc = pc, ![s].verdict = v, ![s].down = FALSE]
        PROVE  apply'[s].pc = pc /\ Same
    BY <2>1, <1>a
  <2> HIDE DEF Same
  <2> QED BY <2>1, <1>f DEF TryStart
<1>h. apply'[s] = NoApply => apply'[s].pc = "none" /\ ~apply'[s].unfinished /\ ~apply'[s].broken
  BY DEF NoApply
<1> USE DEF PartialNeverServed, VolumeAt, Partial
<1>1. ASSUME StartApply(s) PROVE OK
  <2>1. ApplyGoto(s, "starting") /\ apply[s].pc = "queued" /\ UNCHANGED <<target, service>>
    BY <1>1 DEF StartApply
  <2> QED BY <2>1, <1>c, <1>e
<1>2. ASSUME ResolveTarget(s) PROVE OK
  <2>1. /\ UNCHANGED <<target, service>> /\ apply[s].pc = "starting"
        /\ \/ apply' = [apply EXCEPT ![s] = NoApply]
           \/ ApplyGoto(s, "stopping")
           \/ Verdict(s, "cancelled", "recording") \/ Verdict(s, "failed", "recording")
    BY <1>2 DEF ResolveTarget
  <2>2. apply' = [apply EXCEPT ![s] = NoApply] => apply'[s] = NoApply
    BY <1>a
  <2> QED BY <2>1, <2>2, <1>c, <1>e, <1>f, <1>h
<1>3. ASSUME StopService(s) PROVE OK
  <2> DEFINE stop == service = "up"
             down == ~stop \/ stop
  <2>1. \/ /\ apply' = [apply EXCEPT ![s].pc = "stopped", ![s].running = stop,
                                  ![s].stopped = stop, ![s].down = down]
           /\ service' = "down"
        \/ apply' = [apply EXCEPT ![s].pc = "recording", ![s].running = stop,
                                  ![s].verdict = "failed"] /\ service' \in {service, "down"}
    BY <1>3, <1>b, <1>d DEF StopService
  <2>2. target' = target /\ apply[s].pc = "stopping"
    BY <1>3 DEF StopService
  <2>3. stop => target # "partial"
    BY <1>c
  <2> HIDE DEF stop, down
  <2>4. ASSUME apply' = [apply EXCEPT ![s].pc = "stopped", ![s].running = stop,
                                  ![s].stopped = stop, ![s].down = down]
        PROVE  /\ apply'[s].pc = "stopped" /\ apply'[s].stopped = stop
               /\ apply'[s].unfinished = apply[s].unfinished /\ apply'[s].broken = apply[s].broken
    BY <2>4, <1>a
  <2>5. ASSUME apply' = [apply EXCEPT ![s].pc = "recording", ![s].running = stop,
                                  ![s].verdict = "failed"]
        PROVE  apply'[s].pc = "recording"
    BY <2>5, <1>a
  <2>6. CASE service' = "down" /\ apply'[s].pc = "stopped"
    BY <2>1, <2>2, <2>3, <2>4, <2>5, <2>6, <1>c
  <2>7. CASE apply'[s].pc = "recording"
    BY <2>1, <2>2, <2>7, <1>c
  <2> QED BY <2>1, <2>4, <2>5, <2>6, <2>7
<1>4. ASSUME CheckStopped(s) PROVE OK
  <2>1. /\ target' = target /\ apply[s].pc = "stopped"
        /\ \/ ApplyGoto(s, "opening") /\ service' = service
           \/ apply[s].stopped /\ TryStart(s, "recording", "cancelled")
           \/ Verdict(s, "cancelled", "recording") /\ service' = service
    BY <1>4 DEF CheckStopped
  <2> QED BY <2>1, <1>c, <1>e, <1>f, <1>g
<1>5. ASSUME OpenArtifact(s) PROVE OK
  <2> DEFINE unfinished == apply[s].unfinished \/ TRUE
  <2>1. \/ /\ apply' = [apply EXCEPT ![s].pc = "writing", ![s].wrote = TRUE,
                                  ![s].unfinished = unfinished]
           /\ target' = "partial"
        \/ (Verdict(s, "cancelled", "unwinding") \/ Verdict(s, "failed", "unwinding")) /\ target' = target
    BY <1>5, <1>b DEF OpenArtifact
  <2>2. service' = service /\ apply[s].pc = "opening"
    BY <1>5 DEF OpenArtifact
  <2>3. unfinished
    OBVIOUS
  <2> HIDE DEF unfinished
  <2>4. ASSUME apply' = [apply EXCEPT ![s].pc = "writing", ![s].wrote = TRUE, ![s].unfinished = unfinished]
        PROVE  apply'[s].pc = "writing" /\ apply'[s].unfinished
    BY <2>3, <2>4, <1>a
  <2> QED BY <2>1, <2>2, <2>4, <1>c, <1>f
<1>6. ASSUME ApplyArtifact(s) PROVE OK
  <2>1. CASE apply[s].part = Parts
    BY <1>6, <2>1, <1>a, <1>c DEF ApplyArtifact
  <2>2. CASE apply[s].part # Parts
    BY <1>6, <2>2, <1>a, <1>c DEF ApplyArtifact
  <2> QED BY <2>1, <2>2
<1>7. ASSUME FailArtifact(s) PROVE OK
  <2>1. /\ service' = service /\ apply[s].pc = "writing"
        /\ \/ (Verdict(s, "cancelled", "unwinding") \/ Verdict(s, "failed", "unwinding")) /\ target' = target
           \/ apply' = [apply EXCEPT ![s].pc = "unwinding", ![s].verdict = "failed", ![s].broken = TRUE]
    BY <1>7 DEF FailArtifact
  <2>2. ASSUME apply' = [apply EXCEPT ![s].pc = "unwinding", ![s].verdict = "failed", ![s].broken = TRUE]
        PROVE  apply'[s].pc = "unwinding" /\ apply'[s].broken
    BY <2>2, <1>a
  <2> QED BY <2>1, <2>2, <1>c, <1>f
<1>8. ASSUME LoadService(s) PROVE OK
  BY <1>8, <1>a, <1>b, <1>c DEF LoadService, ApplyGoto
<1>9. ASSUME StartBack(s) PROVE OK
  <2>1. /\ target' = target /\ apply[s].pc = "restarting"
        /\ \/ Verdict(s, "succeeded", "recording") /\ service' = service
           \/ apply' = [apply EXCEPT ![s].pc = "recording", ![s].down = FALSE, ![s].verdict = "succeeded"]
           \/ Verdict(s, "failed", "unwinding") /\ service' = service
    BY <1>9 DEF StartBack
  <2>2. ASSUME apply' = [apply EXCEPT ![s].pc = "recording", ![s].down = FALSE, ![s].verdict = "succeeded"]
        PROVE  apply'[s].pc = "recording"
    BY <2>2, <1>a
  <2> QED BY <2>1, <2>2, <1>c, <1>f
<1>10. ASSUME Unwind(s) PROVE OK
  <2>1. /\ target' = target /\ apply[s].pc = "unwinding"
        /\ \/ ~Partial(s) /\ apply[s].stopped /\ TryStart(s, "recording", apply[s].verdict)
           \/ ApplyGoto(s, "recording") /\ service' = service
    BY <1>10 DEF Unwind
  <2> QED BY <2>1, <1>c, <1>e, <1>g
<1>11. ASSUME RecordVerdict(s) \/ RecordFlags(s) PROVE OK
  <2>1. UNCHANGED <<target, service>> /\ (ApplyGoto(s, "flagging") \/ ApplyGoto(s, "leaving"))
    BY <1>11 DEF RecordVerdict, RecordFlags
  <2>2. apply'[s].pc \in {"flagging", "leaving"}
    BY <2>1, <1>e
  <2>3. UNCHANGED <<target, service>>
    BY <2>1
  <2> QED BY <2>2, <2>3, <1>a, <1>c
<1>12. ASSUME Leave(s) PROVE OK
  BY <1>12, <1>a, <1>c DEF Leave, NoApply
<1> HIDE DEF OK
<1> QED
  BY <1>1, <1>2, <1>3, <1>4, <1>5, <1>6, <1>7, <1>8, <1>9, <1>10, <1>11, <1>12 DEF Apply

LEMMA VolumeStep ==
  ASSUME RestoreInv, VolumeInv, [Next]_vars
  PROVE  VolumeInv'
<1> SUFFICES ASSUME kind = "volume" PROVE PartialNeverServed' /\ \A s \in Restores : VolumeAt(s)'
  BY KindsKept DEF VolumeInv
<1>a. PartialNeverServed /\ \A s \in Restores : VolumeAt(s)
  BY DEF VolumeInv
<1>b. UNCHANGED kind
  BY KindsKept
<1>1. ASSUME NEW s \in Restores, UNCHANGED <<job, teardown>>, Apply(s)
      PROVE  PartialNeverServed' /\ \A x \in Restores : VolumeAt(x)'
  <2>1. PartialNeverServed' /\ VolumeAt(s)'
    BY <1>1, <1>b, VolumeApplied
  <2>2. ASSUME NEW x \in Restores \ {s} PROVE VolumeAt(x)'
    <3>1. apply'[x] = apply[x]
      BY <1>1, RestoreOthers DEF RestoreInv
    <3>2. CASE Overwriting(s)
      <4>1. apply[x].pc \in {"none", "queued"}
        BY <3>2, Distinct DEF RestoreInv, ProjectLocked, Overwriting, TypeInv, TypeOK, RestoreTypeOK, Applies
      <4> QED BY <3>1, <4>1, <1>a DEF VolumeAt, Partial
    <3>3. CASE ~Overwriting(s)
      <4>1. UNCHANGED <<target, service>>
        BY <1>1, <3>3
        DEF Apply, Overwriting, ApplyPcs, StartApply, ResolveTarget, StopService, CheckStopped,
           OpenArtifact, ApplyArtifact, FailArtifact, LoadService, StartBack, Unwind, RecordVerdict,
           RecordFlags, Leave
      <4> QED BY <3>1, <4>1, <1>a DEF VolumeAt, Partial
    <3> QED BY <3>2, <3>3
  <2> QED BY <2>1, <2>2
<1>2. ASSUME \A s \in Restores : ~(Apply(s) /\ UNCHANGED <<job, teardown>>)
      PROVE  PartialNeverServed' /\ \A x \in Restores : VolumeAt(x)'
  <2>1. /\ service' = service \/ service' = "down"
        /\ target' = target \/ target' = "gone"
    BY <1>2, ServiceWriters DEF Destroy
  <2>2. PartialNeverServed'
    BY <2>1, <1>a, <1>b DEF PartialNeverServed
  <2>3. ASSUME NEW x \in Restores PROVE VolumeAt(x)'
    <3>1. \/ apply'[x] = apply[x]
          \/ apply'[x] = NoApply
          \/ apply[x].pc = "none" /\ apply'[x] = [apply[x] EXCEPT !.pc = "queued"]
      BY <1>2, ApplyElsewhere
    <3>2. DOMAIN apply[x] = {"pc", "part", "running", "stopped", "wrote", "unfinished", "broken",
                             "down", "verdict"}
      BY Shapes DEF RestoreInv
    <3>3. \/ apply'[x] = apply[x]
          \/ apply'[x].pc = "none" /\ ~apply'[x].unfinished /\ ~apply'[x].broken
          \/ /\ apply[x].pc = "none" /\ apply'[x].pc = "queued"
             /\ apply'[x].unfinished = apply[x].unfinished /\ apply'[x].broken = apply[x].broken
      BY <3>1, <3>2 DEF NoApply
    <3> QED BY <2>1, <3>3, <1>a DEF VolumeAt, Partial
  <2> QED BY <2>2, <2>3
<1> QED BY <1>1, <1>2

(* A service whose volume is written in part does not run                  *)
(* (PartialNeverServed): not after a failure, a cancellation, a crash or a *)
(* deletion that was given up, and not by the hand of a later restore.     *)
THEOREM PartialIsNeverServed == Spec => []PartialNeverServed
<1>1. Init => VolumeInv
  <2> SUFFICES ASSUME Init PROVE VolumeInv
    OBVIOUS
  <2>1. target = "whole"
    BY DEF Init, RestoreInit
  <2>2. \A s \in Restores : apply[s].pc = "none" /\ ~apply[s].unfinished /\ ~apply[s].broken
    BY DEF Init, RestoreInit, NoApply
  <2> QED BY <2>1, <2>2 DEF VolumeInv, PartialNeverServed, VolumeAt, Partial
<1>2. RestoreInv /\ VolumeInv /\ [Next]_vars => VolumeInv'
  BY VolumeStep
<1>3. VolumeInv => PartialNeverServed
  BY DEF VolumeInv, PartialNeverServed
<1> QED BY <1>1, <1>2, <1>3, RestoreInvHolds, PTL DEF Spec

LEMMA DestroyedTarget ==
  ASSUME ClaimDeletion \/ Teardown
  PROVE  target' = target \/ target' = "gone"
BY DEF ClaimDeletion, Teardown, RefuseGraceful, StartCancelling, OpenWindow, QuiesceTimeout, BeginCleanup,
   Destroy, CancelRun, CancelRestore, GiveUp, restoreVars

(* A row that says that data may be damaged.                               *)
Tells(s) == restore[s].destructive /\ restore[s].status # "succeeded"

(* A restore that writes says so, in its row and in wroteInto, and only    *)
(* one that left the data whole succeeds.                                  *)
KnownAt(s) ==
  /\ apply[s].pc \in {"loading", "restarting"} => target # "partial"
  /\ apply[s].pc \in {"recording", "flagging"} /\ apply[s].verdict = "succeeded" => target # "partial"
  /\ apply[s].pc = "unwinding" => apply[s].verdict # "succeeded"
  /\ apply[s].pc = "writing" => restore[s].destructive
  /\ restore[s].destructive /\ apply[s].pc # "none" => apply[s].wrote
  /\ restore[s].status \in {"absent", "queued", "preparing", "prepared"} => ~restore[s].destructive
  /\ prep[s] = "recording" => ~restore[s].destructive /\ apply[s].pc = "none"

KnownInv == PartialIsKnown /\ \A s \in Restores : KnownAt(s)

LEMMA KnownApplied ==
  ASSUME RestoreInv, NEW s \in Restores, KnownAt(s), Apply(s),
         "lostMark" \notin FaultKinds, "unmerged" \notin FaultKinds
  PROVE  /\ KnownAt(s)'
         /\ target' = "partial" => (Tells(s) => Tells(s)') /\ (target = "partial" \/ Tells(s)')
<1> DEFINE OK == /\ KnownAt(s)'
                 /\ target' = "partial" => (Tells(s) => Tells(s)') /\ (target = "partial" \/ Tells(s)')
<1> SUFFICES OK OBVIOUS
<1>a. /\ DOMAIN apply = Restores /\ DOMAIN restore = Restores
      /\ DOMAIN apply[s] = {"pc", "part", "running", "stopped", "wrote", "unfinished", "broken",
                            "down", "verdict"}
      /\ DOMAIN restore[s] = {"status", "run", "cancel", "destructive", "partial", "down"}
  BY Shapes DEF RestoreInv
<1>c. Tracks(s) /\ KnownAt(s)
  BY DEF RestoreInv
<1>d. prep' = prep
  BY DEF Apply, StartApply, ResolveTarget, StopService, CheckStopped, OpenArtifact, ApplyArtifact, FailArtifact,
     LoadService, StartBack, Unwind, RecordVerdict, RecordFlags, Leave
<1>e. \A pc : ApplyGoto(s, pc) => /\ apply'[s].pc = pc /\ apply'[s].verdict = apply[s].verdict
                                  /\ apply'[s].wrote = apply[s].wrote
  BY <1>a DEF ApplyGoto
<1>f. \A v, pc : Verdict(s, v, pc) => /\ apply'[s].pc = pc /\ apply'[s].verdict = v
                                      /\ apply'[s].wrote = apply[s].wrote
  BY <1>a DEF Verdict
<1>g. \A v, pc : TryStart(s, pc, v) => /\ apply'[s].pc = pc /\ apply'[s].verdict = v
                                       /\ apply'[s].wrote = apply[s].wrote
  <2> TAKE v, pc
  <2>1. ASSUME apply' = [apply EXCEPT ![s].pc = pc, ![s].verdict = v, ![s].down = FALSE]
        PROVE  apply'[s].pc = pc /\ apply'[s].verdict = v /\ apply'[s].wrote = apply[s].wrote
    BY <2>1, <1>a
  <2> QED BY <2>1, <1>f DEF TryStart
<1>h. apply' = [apply EXCEPT ![s] = NoApply] => apply'[s].pc = "none"
  BY <1>a DEF NoApply
(* The steps that leave the row and the data alone. *)
<1>i. ASSUME UNCHANGED <<restore, target>>,
             apply'[s].pc = "none" \/ apply'[s].wrote = apply[s].wrote,
             apply[s].pc # "none",
             apply'[s].pc \in {"none", "starting", "stopping", "stopped", "opening", "leaving"}
               \/ (apply'[s].pc = "recording" /\ (apply'[s].verdict = "succeeded" => target # "partial"))
               \/ (apply'[s].pc = "unwinding" /\ apply'[s].verdict # "succeeded")
               \/ (apply'[s].pc = "restarting" /\ target # "partial")
      PROVE  OK
  BY <1>c, <1>d, <1>i DEF KnownAt, Tells
<1>1. ASSUME StartApply(s) \/ ResolveTarget(s) \/ Leave(s) PROVE OK
  <2>1. /\ UNCHANGED <<restore, target>> /\ apply[s].pc # "none"
        /\ \/ ApplyGoto(s, "starting") \/ ApplyGoto(s, "stopping")
           \/ apply' = [apply EXCEPT ![s] = NoApply]
           \/ Verdict(s, "cancelled", "recording") \/ Verdict(s, "failed", "recording")
    BY <1>1 DEF StartApply, ResolveTarget, Leave
  <2> HIDE DEF OK
  <2> QED BY <2>1, <1>e, <1>f, <1>h, <1>i
<1>2. ASSUME StopService(s) PROVE OK
  <2> DEFINE running == service = "up"
             stop == running /\ ~Through
             down == ~running \/ stop
  <2>1. \/ apply' = [apply EXCEPT ![s].pc = "stopped", ![s].running = running,
                                  ![s].stopped = stop, ![s].down = down]
        \/ apply' = [apply EXCEPT ![s].pc = "recording", ![s].running = running,
                                  ![s].verdict = "failed"]
    BY <1>2 DEF StopService
  <2>2. UNCHANGED <<restore, target>> /\ apply[s].pc # "none"
    BY <1>2 DEF StopService
  <2> HIDE DEF running, stop, down
  <2>3. /\ apply'[s].wrote = apply[s].wrote
        /\ apply'[s].pc = "stopped" \/ (apply'[s].pc = "recording" /\ apply'[s].verdict = "failed")
    BY <2>1, <1>a
  <2> HIDE DEF OK
  <2> QED BY <2>2, <2>3, <1>i
<1>3. ASSUME CheckStopped(s) PROVE OK
  <2>1. /\ UNCHANGED <<restore, target>> /\ apply[s].pc # "none"
        /\ \/ ApplyGoto(s, "opening")
           \/ TryStart(s, "recording", "cancelled")
           \/ Verdict(s, "cancelled", "recording")
    BY <1>3 DEF CheckStopped
  <2> HIDE DEF OK
  <2> QED BY <2>1, <1>e, <1>f, <1>g, <1>i
<1>4. ASSUME OpenArtifact(s) PROVE OK
  <2> DEFINE unfinished == apply[s].unfinished \/ ~Atomic
  <2>1. \/ /\ apply' = [apply EXCEPT ![s].pc = "writing", ![s].wrote = TRUE,
                                  ![s].unfinished = unfinished]
           /\ restore' = [restore EXCEPT ![s] = [restore[s] EXCEPT !.destructive = TRUE]]
        \/ /\ Verdict(s, "cancelled", "unwinding") \/ Verdict(s, "failed", "unwinding")
           /\ UNCHANGED <<restore, target>>
    BY <1>4 DEF OpenArtifact, MarkDestructive, Fault
  <2>2. apply[s].pc = "opening" /\ restore[s].status = "applying" /\ prep[s] # "recording"
    BY <1>4, <1>c DEF OpenArtifact, Tracks, KnownAt
  <2> HIDE DEF unfinished
  <2>3. ASSUME apply' = [apply EXCEPT ![s].pc = "writing", ![s].wrote = TRUE,
                                  ![s].unfinished = unfinished],
               restore' = [restore EXCEPT ![s] = [restore[s] EXCEPT !.destructive = TRUE]]
        PROVE  OK
    <3>1. apply'[s].pc = "writing" /\ apply'[s].wrote
      BY <2>3, <1>a
    <3>2. restore'[s].destructive /\ restore'[s].status = restore[s].status
      BY <2>3, <1>a
    <3> QED BY <2>2, <3>1, <3>2, <1>d DEF KnownAt, Tells
  <2> HIDE DEF OK
  <2> QED BY <2>1, <2>2, <2>3, <1>f, <1>i
<1>5. ASSUME ApplyArtifact(s) PROVE OK
  <2>1. /\ UNCHANGED restore /\ apply[s].pc = "writing"
        /\ apply'[s].pc = "opening" \/ (apply'[s].pc = "loading" /\ target' = "whole")
    <3>1. CASE apply[s].part = Parts
      BY <1>5, <3>1, <1>a DEF ApplyArtifact
    <3>2. CASE apply[s].part # Parts
      BY <1>5, <3>2, <1>a DEF ApplyArtifact
    <3> QED BY <3>1, <3>2
  <2>2. apply'[s].wrote = apply[s].wrote
    BY <1>5, <1>a DEF ApplyArtifact
  <2>3. restore[s].status = "applying" /\ restore[s].destructive
    BY <2>1, <1>c DEF Tracks, KnownAt
  <2> QED BY <2>1, <2>2, <2>3, <1>c, <1>d DEF KnownAt, Tells
<1>6. ASSUME FailArtifact(s) PROVE OK
  <2>1. UNCHANGED restore /\ apply[s].pc = "writing"
    BY <1>6 DEF FailArtifact
  <2>2. /\ apply'[s].pc = "unwinding" /\ apply'[s].verdict # "succeeded"
        /\ apply'[s].wrote = apply[s].wrote
    <3>1. \/ Verdict(s, "cancelled", "unwinding") \/ Verdict(s, "failed", "unwinding")
          \/ apply' = [apply EXCEPT ![s].pc = "unwinding", ![s].verdict = "failed", ![s].broken = TRUE]
      BY <1>6 DEF FailArtifact
    <3>2. ASSUME apply' = [apply EXCEPT ![s].pc = "unwinding", ![s].verdict = "failed", ![s].broken = TRUE]
          PROVE  /\ apply'[s].pc = "unwinding" /\ apply'[s].verdict # "succeeded"
                 /\ apply'[s].wrote = apply[s].wrote
      BY <3>2, <1>a
    <3> QED BY <3>1, <3>2, <1>f
  <2>3. restore[s].status = "applying" /\ restore[s].destructive
    BY <2>1, <1>c DEF Tracks, KnownAt
  <2> QED BY <2>1, <2>2, <2>3, <1>c, <1>d DEF KnownAt, Tells
<1>7. ASSUME LoadService(s) PROVE OK
  <2>1. \/ ApplyGoto(s, "restarting")
        \/ \E down \in BOOLEAN :
             apply' = [apply EXCEPT ![s].pc = "unwinding", ![s].verdict = "failed",
                                    ![s].broken = TRUE, ![s].down = down]
    BY <1>7 DEF LoadService
  <2>2. ASSUME NEW down,
               apply' = [apply EXCEPT ![s].pc = "unwinding", ![s].verdict = "failed",
                                  ![s].broken = TRUE, ![s].down = down]
        PROVE  /\ apply'[s].pc = "unwinding" /\ apply'[s].verdict = "failed"
               /\ apply'[s].wrote = apply[s].wrote
    BY <2>2, <1>a
  <2>3. UNCHANGED <<restore, target>> /\ apply[s].pc # "none" /\ target # "partial"
    BY <1>7, <1>c DEF LoadService, KnownAt
  <2> HIDE DEF OK
  <2> QED BY <2>1, <2>2, <2>3, <1>e, <1>i
<1>8. ASSUME StartBack(s) PROVE OK
  <2>1. \/ Verdict(s, "succeeded", "recording")
        \/ apply' = [apply EXCEPT ![s].pc = "recording", ![s].down = FALSE, ![s].verdict = "succeeded"]
        \/ Verdict(s, "failed", "unwinding")
    BY <1>8 DEF StartBack
  <2>2. ASSUME apply' = [apply EXCEPT ![s].pc = "recording", ![s].down = FALSE, ![s].verdict = "succeeded"]
        PROVE  /\ apply'[s].pc = "recording" /\ apply'[s].verdict = "succeeded"
               /\ apply'[s].wrote = apply[s].wrote
    BY <2>2, <1>a
  <2>3. UNCHANGED <<restore, target>> /\ apply[s].pc # "none" /\ target # "partial"
    BY <1>8, <1>c DEF StartBack, KnownAt
  <2> HIDE DEF OK
  <2> QED BY <2>1, <2>2, <2>3, <1>f, <1>i
<1>9. ASSUME Unwind(s) PROVE OK
  <2>1. /\ UNCHANGED <<restore, target>> /\ apply[s].pc # "none"
        /\ TryStart(s, "recording", apply[s].verdict) \/ ApplyGoto(s, "recording")
    BY <1>9 DEF Unwind
  <2>2. apply[s].verdict # "succeeded"
    BY <1>9, <1>c DEF Unwind, KnownAt
  <2> HIDE DEF OK
  <2> QED BY <2>1, <2>2, <1>e, <1>g, <1>i
<1>10. ASSUME RecordVerdict(s) PROVE OK
  <2>1. apply[s].pc = "recording" /\ restore[s].status = "applying" /\ prep[s] # "recording"
    BY <1>10, <1>c DEF RecordVerdict, Tracks, KnownAt
  <2>2. Unsettled(s)
    BY <2>1 DEF Unsettled, RestoreTerminal
  <2>3. /\ restore' = [restore EXCEPT ![s] = [restore[s] EXCEPT !.status = apply[s].verdict]]
        /\ ApplyGoto(s, "flagging") /\ target' = target
    BY <1>10, <2>2 DEF RecordVerdict, Settle
  <2>4. restore'[s].status = apply[s].verdict /\ restore'[s].destructive = restore[s].destructive
    BY <2>3, <1>a
  <2>5. apply[s].verdict \notin {"absent", "queued", "preparing", "prepared"}
    BY DEF RestoreInv, TypeInv, TypeOK, RestoreTypeOK, Applies
  <2>6. apply'[s].pc = "flagging" /\ apply'[s].verdict = apply[s].verdict /\ apply'[s].wrote = apply[s].wrote
    BY <2>3, <1>e
  <2> QED BY <2>1, <2>3, <2>4, <2>5, <2>6, <1>c, <1>d DEF KnownAt, Tells
<1>11. ASSUME RecordFlags(s) PROVE OK
  <2> DEFINE v == apply[s].verdict
             d == IF v = "failed" THEN restore[s].destructive ELSE apply[s].wrote
             p == restore[s].partial \/ (v # "succeeded" /\ Partial(s))
             e == restore[s].down \/ (v # "succeeded" /\ LeavesDown(s))
             row == [restore[s] EXCEPT !.destructive = d, !.partial = p, !.down = e]
  <2>1. apply[s].pc = "flagging" /\ restore[s].status \in RestoreTerminal /\ prep[s] # "recording"
    BY <1>11, <1>c DEF RecordFlags, Tracks, KnownAt
  <2>2. /\ restore' = restore \/ restore' = [restore EXCEPT ![s] = row]
        /\ ApplyGoto(s, "leaving") /\ target' = target
    BY <1>11 DEF RecordFlags, Flagged, Fault
  <2>3. /\ restore[s].destructive => d /\ apply[s].wrote
        /\ d => apply[s].wrote
    BY <2>1, <1>c DEF KnownAt
  <2> HIDE DEF d, p, e
  <2>4. /\ restore'[s].status = restore[s].status
        /\ restore'[s].destructive \in {restore[s].destructive, d}
    BY <2>2, <1>a
  <2>5. apply'[s].pc = "leaving" /\ apply'[s].wrote = apply[s].wrote
    BY <2>2, <1>e
  <2> QED BY <2>1, <2>2, <2>3, <2>4, <2>5, <1>c, <1>d DEF KnownAt, Tells, RestoreTerminal
<1> HIDE DEF OK
<1> QED
  BY <1>1, <1>2, <1>3, <1>4, <1>5, <1>6, <1>7, <1>8, <1>9, <1>10, <1>11 DEF Apply

LEMMA KnownElsewhere ==
  ASSUME RestoreInv, NEW s \in Restores, KnownAt(s), Prepare(s) \/ Cancel(s) \/ Operator(s),
         "slowWrite" \notin FaultKinds
  PROVE  KnownAt(s)' /\ (Tells(s) => Tells(s)')
<1> DEFINE OK == KnownAt(s)' /\ (Tells(s) => Tells(s)')
<1> SUFFICES OK OBVIOUS
<1>a. /\ DOMAIN apply = Restores /\ DOMAIN restore = Restores /\ DOMAIN prep = Restores
      /\ DOMAIN apply[s] = {"pc", "part", "running", "stopped", "wrote", "unfinished", "broken",
                            "down", "verdict"}
      /\ DOMAIN restore[s] = {"status", "run", "cancel", "destructive", "partial", "down"}
  BY Shapes DEF RestoreInv
<1>b. Tracks(s) /\ KnownAt(s)
  BY DEF RestoreInv
<1>c. restore[s].status \in {"absent", "queued", "preparing", "prepared", "applying"} \cup RestoreTerminal
  BY DEF RestoreInv, TypeInv, TypeOK, StoreTypeOK, RestoreRows, RestoreActive, RestoreInFlight
(* What is not being applied and not decided has written nothing, and      *)
(* stays so.                                                               *)
<1>d. ASSUME UNCHANGED <<apply, target>>, apply[s].pc = "none",
             restore[s].status \in {"absent", "queued", "preparing", "prepared"},
             ~restore'[s].destructive
      PROVE  OK
  BY <1>b, <1>d DEF KnownAt, Tells
<1>e. ASSUME UNCHANGED <<apply, target>>, restore'[s].destructive = restore[s].destructive,
             restore'[s].status = restore[s].status, prep'[s] \in {"none", "admitting", "queued", "reading", "verified", "unsound", "passing"} \/ prep'[s] = prep[s]
      PROVE  OK
  BY <1>b, <1>e DEF KnownAt, Tells
<1>f. ASSUME Unsettled(s), restore[s].status # "applying"
      PROVE  /\ restore[s].status \in {"absent", "queued", "preparing", "prepared"}
             /\ apply[s].pc = "none" /\ ~restore[s].destructive
  BY <1>b, <1>c, <1>f DEF Unsettled, Tracks, KnownAt
<1>1. ASSUME NEW r \in Runs, CheckSource(s, r) PROVE OK
  <2>1. UNCHANGED <<apply, target, restore>> /\ prep'[s] = "admitting"
    BY <1>1, <1>a DEF CheckSource, PrepGoto
  <2> HIDE DEF OK
  <2> QED BY <2>1, <1>e
<1>2. ASSUME AdmitRestore(s) PROVE OK
  <2>1. UNCHANGED <<apply, target>>
    BY <1>2 DEF AdmitRestore
  <2>2. restore[s].status = "absent" /\ Unsettled(s)
    BY <1>2, <1>b DEF AdmitRestore, Tracks, Unsettled, RestoreTerminal
  <2>3. ~restore'[s].destructive
    <3>1. ASSUME NEW r \in Runs,
                 restore' = [restore EXCEPT ![s] = [NoRestore EXCEPT !.status = "queued", !.run = r]]
          PROVE  ~restore'[s].destructive
      BY <3>1, <1>a DEF NoRestore
    <3>2. restore' = restore => ~restore'[s].destructive
      BY <1>f, <2>2
    <3> QED BY <1>2, <3>1, <3>2 DEF AdmitRestore
  <2> HIDE DEF OK
  <2> QED BY <2>1, <2>2, <2>3, <1>d, <1>f
<1>g. ASSUME NEW row, Settle(s, row), restore[s].status # "applying", ~restore[s].destructive => ~row.destructive,
             UNCHANGED <<apply, target>>, prep'[s] # "recording" \/ Unsettled(s)
      PROVE  OK
  <2>1. CASE Unsettled(s)
    <3>1. ~restore'[s].destructive
      BY <1>a, <1>f, <1>g, <2>1 DEF Settle
    <3> HIDE DEF OK
    <3> QED BY <1>d, <1>f, <1>g, <2>1, <3>1
  <2>2. CASE ~Unsettled(s)
    <3>1. restore' = restore
      BY <1>g, <2>2 DEF Settle
    <3> QED BY <1>b, <1>g, <2>2, <3>1 DEF KnownAt, Tells
  <2> QED BY <2>1, <2>2
<1>h. /\ \A st : [restore[s] EXCEPT !.status = st].destructive = restore[s].destructive
      /\ ~[restore[s] EXCEPT !.status = "cancelled", !.destructive = FALSE].destructive
  BY <1>a
<1>3. ASSUME StartPrepare(s) \/ Pass(s) PROVE OK
  <2>1. restore[s].status # "applying"
    BY <1>3, <1>b DEF StartPrepare, Pass, Tracks, Reading, RestoreTerminal
  <2>2. /\ UNCHANGED <<apply, target>>
        /\ \E st : Settle(s, [restore[s] EXCEPT !.status = st])
        /\ prep'[s] # "recording" \/ Unsettled(s)
    BY <1>3, <1>a DEF StartPrepare, Pass, PrepGoto
  <2> HIDE DEF OK
  <2> QED BY <2>1, <2>2, <1>g, <1>h
<1>4. ASSUME CheckPrepared(s) PROVE OK
  <2>1. restore[s].status # "applying"
    BY <1>4, <1>b DEF CheckPrepared, Tracks, Reading, RestoreTerminal
  <2>2. /\ UNCHANGED <<apply, target>> /\ prep'[s] \in {"none", "passing"}
        /\ \/ Settle(s, [restore[s] EXCEPT !.status = "cancelled", !.destructive = FALSE])
           \/ Settle(s, [restore[s] EXCEPT !.status = "failed"])
           \/ restore' = restore
    BY <1>4, <1>a DEF CheckPrepared, PrepGoto
  <2> HIDE DEF OK
  <2> QED BY <2>1, <2>2, <1>e, <1>g, <1>h
<1>5. ASSUME VerifySource(s) PROVE OK
  <2>1. UNCHANGED <<apply, target, restore>> /\ prep'[s] \in {"verified", "unsound"}
    BY <1>5, <1>a DEF VerifySource, PrepGoto
  <2> HIDE DEF OK
  <2> QED BY <2>1, <1>e
<1>6. ASSUME RecordPrepared(s) PROVE OK
  <2>1. /\ restore' = [restore EXCEPT ![s] = Unflagged(restore[s])]
        /\ UNCHANGED <<apply, target>> /\ prep'[s] = "none" /\ prep[s] = "recording"
    BY <1>6, <1>a DEF RecordPrepared, PrepGoto
  <2>2. restore'[s].destructive = FALSE /\ restore'[s].status = restore[s].status
    BY <2>1, <1>a DEF Unflagged
  <2>3. restore[s].destructive = FALSE
    BY <2>1, <1>b DEF KnownAt, RestoreInv, TypeInv, TypeOK, StoreTypeOK, RestoreRows
  <2> HIDE DEF OK
  <2> QED BY <2>1, <2>2, <2>3, <1>e
<1>7. ASSUME FlagCancel(s) PROVE OK
  <2>1. /\ restore' = [restore EXCEPT ![s].cancel = TRUE] /\ UNCHANGED <<apply, target, prep>>
    BY <1>7 DEF FlagCancel
  <2>2. restore'[s].destructive = restore[s].destructive /\ restore'[s].status = restore[s].status
    BY <2>1, <1>a
  <2> HIDE DEF OK
  <2> QED BY <2>1, <2>2, <1>e
<1>8. ASSUME SettleCancel(s) PROVE OK
  <2>1. restore[s].status # "applying"
    BY <1>8, <1>b DEF SettleCancel, Tracks
  <2>2. /\ UNCHANGED <<apply, target, prep>>
        /\ Settle(s, [restore[s] EXCEPT !.status = "cancelled", !.destructive = FALSE])
    BY <1>8 DEF SettleCancel
  <2>3. CASE Unsettled(s)
    <3> HIDE DEF OK
    <3> QED BY <2>1, <2>2, <2>3, <1>g, <1>h
  <2>4. CASE ~Unsettled(s)
    <3>1. restore' = restore
      BY <2>2, <2>4 DEF Settle
    <3> HIDE DEF OK
    <3> QED BY <2>2, <3>1, <1>e
  <2> QED BY <2>3, <2>4
<1>9. ASSUME RequestCancel(s) PROVE OK
  <2>1. UNCHANGED <<apply, target, prep, restore>>
    BY <1>9 DEF RequestCancel
  <2> HIDE DEF OK
  <2> QED BY <2>1, <1>e
<1>10. ASSUME ClaimApply(s) PROVE OK
  <2>1. /\ restore[s].status = "prepared" /\ prep[s] # "recording" /\ prep' = prep
        /\ restore' = [restore EXCEPT ![s].status = "applying"] /\ ApplyGoto(s, "queued")
        /\ target' = target
    BY <1>10 DEF ClaimApply, Eligible
  <2>2. ~restore[s].destructive
    BY <2>1, <1>b DEF KnownAt
  <2>3. restore'[s].destructive = restore[s].destructive /\ restore'[s].status = "applying"
    BY <2>1, <1>a
  <2>4. apply'[s].pc = "queued"
    BY <2>1, <1>a DEF ApplyGoto
  <2> QED BY <2>1, <2>2, <2>3, <2>4 DEF KnownAt, Tells
<1> HIDE DEF OK
<1> QED
  BY <1>1, <1>2, <1>3, <1>4, <1>5, <1>6, <1>7, <1>8, <1>9, <1>10 DEF Prepare, Cancel, Operator

LEMMA KnownStep ==
  ASSUME RestoreInv, KnownInv, [Next]_vars, {"slowWrite", "lostMark", "unmerged"} \cap FaultKinds = {}
  PROVE  KnownInv'
<1>a. (target = "partial" => \E s \in Restores : Tells(s)) /\ \A s \in Restores : KnownAt(s)
  BY DEF KnownInv, PartialIsKnown, Tells
<1> DEFINE OK == (target' = "partial" => \E s \in Restores : Tells(s)') /\ \A s \in Restores : KnownAt(s)'
<1> SUFFICES OK
  BY DEF KnownInv, PartialIsKnown, Tells
<1>b. ASSUME NEW x \in Restores, UNCHANGED <<restore[x], prep[x], apply[x], target>>
      PROVE  KnownAt(x)'
  BY <1>a, <1>b DEF KnownAt
<1>1. CASE RestoreNext /\ UNCHANGED <<job, teardown>>
  <2>1. PICK s \in Restores : Prepare(s) \/ Apply(s) \/ Cancel(s) \/ Operator(s)
    BY <1>1 DEF RestoreNext
  <2>2. \A x \in Restores \ {s} : UNCHANGED <<restore[x], prep[x], apply[x]>>
    BY <2>1, RestoreOthers DEF RestoreInv
  <2>3. \A x \in Restores \ {s} : Tells(x) => Tells(x)'
    BY <2>2 DEF Tells
  <2>4. CASE Apply(s)
    <3>1. /\ KnownAt(s)'
          /\ target' = "partial" => (Tells(s) => Tells(s)') /\ (target = "partial" \/ Tells(s)')
      BY <2>4, <1>a, KnownApplied
    <3>2. ASSUME NEW x \in Restores \ {s} PROVE KnownAt(x)'
      <4>1. CASE Overwriting(s)
        <5>1. apply[x].pc \in {"none", "queued"}
          BY <4>1, Distinct DEF RestoreInv, ProjectLocked, Overwriting, TypeInv, TypeOK, RestoreTypeOK, Applies
        <5> QED BY <2>2, <5>1, <1>a DEF KnownAt
      <4>2. CASE ~Overwriting(s)
        <5>1. UNCHANGED target
          BY <2>4, <4>2
          DEF Apply, Overwriting, ApplyPcs, StartApply, ResolveTarget, StopService, CheckStopped,
             OpenArtifact, ApplyArtifact, FailArtifact, LoadService, StartBack, Unwind, RecordVerdict,
             RecordFlags, Leave
        <5> QED BY <2>2, <5>1, <1>b
      <4> QED BY <4>1, <4>2
    <3> QED BY <2>3, <3>1, <3>2, <1>a
  <2>5. CASE Prepare(s) \/ Cancel(s) \/ Operator(s)
    <3>1. UNCHANGED target
      BY <2>5 DEF Prepare, Cancel, Operator, RequestCancel, ClaimApply, CheckSource, AdmitRestore,
         StartPrepare, VerifySource, CheckPrepared, Pass, RecordPrepared, FlagCancel, SettleCancel
    <3>2. KnownAt(s)' /\ (Tells(s) => Tells(s)')
      BY <2>5, <1>a, KnownElsewhere
    <3> QED BY <2>2, <2>3, <3>1, <3>2, <1>a, <1>b
  <2> QED BY <2>1, <2>4, <2>5
<1>2. CASE Restart \/ ReplicaDies
  <2>1. PICK W \in SUBSET Workers, S \in SUBSET Restores, d \in BOOLEAN : Die(W, S, d)
    BY <1>2 DEF Restart, ReplicaDies
  <2>2. UNCHANGED target
    BY <2>1 DEF Die
  <2>3. \A s \in Restores : \/ restore'[s] = restore[s]
                            \/ /\ restore'[s].status = "server_error"
                               /\ restore'[s].destructive = restore[s].destructive
    <3>1. CASE Restart
      <4>1. DOMAIN restore = Restores /\ \A s \in Restores : restore[s] \in RestoreRows
        BY DEF RestoreInv, TypeInv, TypeOK, StoreTypeOK
      <4>2. ASSUME NEW s \in Restores
            PROVE  \/ restore'[s] = restore[s]
                   \/ restore'[s] = [restore[s] EXCEPT !.status = "server_error"]
        BY <3>1, <4>2 DEF Restart, RestoreSweptAtBoot
      <4> QED BY <4>1, <4>2 DEF RestoreRows
    <3>2. CASE ReplicaDies
      BY <3>2 DEF ReplicaDies
    <3> QED BY <1>2, <3>1, <3>2
  <2>4. \A s \in Restores : /\ apply'[s] = apply[s] \/ apply'[s].pc = "none"
                            /\ prep'[s] = prep[s] \/ prep'[s] = "none"
    BY <2>1 DEF Die, NoApply
  <2>5. \A s \in Restores : KnownAt(s)'
    BY <2>2, <2>3, <2>4, <1>a DEF KnownAt
  <2>6. \A s \in Restores : Tells(s) => Tells(s)'
    BY <2>3 DEF Tells
  <2> QED BY <2>2, <2>5, <2>6, <1>a
<1>3. CASE ClaimDeletion \/ Teardown \/ UNCHANGED vars \/ (JobNext /\ UNCHANGED <<restoreVars, teardown>>)
  <2>1. UNCHANGED <<restore, prep, apply>>
    BY <1>3, DeletionKeepsRestores, JobsKeepPhase DEF vars, restoreVars, store
  <2>2. target' = target \/ target' = "gone"
    BY <1>3, DestroyedTarget DEF vars, restoreVars
  <2>3. \A s \in Restores : KnownAt(s)'
    BY <2>1, <2>2, <1>a DEF KnownAt
  <2> QED BY <2>1, <2>2, <2>3, <1>a DEF Tells
<1> QED BY <1>1, <1>2, <1>3 DEF Next

(* When data is written in part, some restore says so (PartialIsKnown),    *)
(* whatever failed, was cancelled or died meanwhile: provided that the     *)
(* second statement of a preparation is not overtaken by the operator, for *)
(* it would clear what the application has recorded, that the statement of *)
(* markDestructive takes effect, for the restore goes on without it, and   *)
(* that mergedMeta can read the flags it is to keep.                       *)
THEOREM PartialIsAlwaysKnown ==
  ASSUME {"slowWrite", "lostMark", "unmerged"} \cap FaultKinds = {}
  PROVE  Spec => []PartialIsKnown
<1>1. Init => KnownInv
  <2> SUFFICES ASSUME Init PROVE KnownInv
    OBVIOUS
  <2>1. target = "whole"
    BY DEF Init, RestoreInit
  <2>2. \A s \in Restores : apply[s].pc = "none" /\ prep[s] = "none" /\ ~restore[s].destructive
    BY DEF Init, RestoreInit, StoreInit, NoApply, NoRestore
  <2> QED BY <2>1, <2>2 DEF KnownInv, PartialIsKnown, KnownAt
<1>2. RestoreInv /\ KnownInv /\ [Next]_vars => KnownInv'
  BY KnownStep
<1>3. KnownInv => PartialIsKnown
  BY DEF KnownInv
<1> QED BY <1>1, <1>2, <1>3, RestoreInvHolds, PTL DEF Spec

-----------------------------------------------------------------------------
(* What the steps of a capture write, field by field.                      *)

Carries(w) ==
  UNCHANGED <<job[w].run, job[w].frozen, job[w].content, job[w].old, job[w].kept, job[w].uploaded>>

OtherRows(r) == \A x \in Runs \ {r} : run'[x] = run[x]

(* Only the status of the row changes, or the status and the artifacts.    *)
RowKept(r) ==
  UNCHANGED <<run[r].lease, run[r].manifest, run[r].protected, run[r].deleted>>

Proceeds(r, status) ==
  /\ Undecided(r) /\ run'[r].status = status
  /\ UNCHANGED <<run[r].artifacts, run[r].finished>>
  /\ RowKept(r) /\ OtherRows(r)

Refuses(w) ==
  /\ ~Undecided(job[w].run)
  /\ job'[w].pc = "reclaim" /\ Carries(w)
  /\ UNCHANGED <<run, stored>>

LEMMA WaitWrites ==
  ASSUME TypeInv, NEW w \in Workers
  PROVE  /\ TakePolicyLock(w) =>
              /\ \/ job[w].pc = "policy" /\ job'[w].pc = "project"
                 \/ job[w].pc = "prune" /\ job'[w].pc = "survey"
              /\ Carries(w) /\ UNCHANGED <<run, stored, runLock>>
         /\ TakeProjectLock(w) =>
              /\ job[w].pc = "project" /\ job'[w].pc = "claim"
              /\ Carries(w) /\ UNCHANGED <<run, stored, runLock>>
         /\ StartSweep(w) =>
              /\ job[w].pc = "idle" /\ job'[w].pc = "prune"
              /\ Carries(w) /\ UNCHANGED <<run, stored, runLock>>
         /\ \A r \in Runs : Deliver(w, r) =>
              /\ job'[w].pc = IF incremental THEN "policy" ELSE "project"
              /\ job'[w].frozen = incremental
              /\ job'[w].kept = {} /\ job'[w].uploaded = {} /\ job'[w].old = {}
              /\ job[w].pc = "idle" /\ UNCHANGED <<run, stored, runLock>>
<1>a. /\ DOMAIN job = Workers
      /\ DOMAIN job[w] = {"pc", "run", "frozen", "content", "old", "kept", "uploaded",
                          "elsewhere", "completed", "plan", "victims"}
  BY Shapes
<1>1. ASSUME NEW pc, Goto(w, pc) PROVE job'[w].pc = pc /\ Carries(w)
  BY <1>1, <1>a DEF Carries
<1>2. ASSUME NEW r \in Runs, Deliver(w, r)
      PROVE  /\ job'[w].pc = IF incremental THEN "policy" ELSE "project"
             /\ job'[w].frozen = incremental
             /\ job'[w].kept = {} /\ job'[w].uploaded = {} /\ job'[w].old = {}
             /\ job[w].pc = "idle" /\ UNCHANGED <<run, stored, runLock>>
  <2> DEFINE pc == IF incremental THEN "policy" ELSE "project"
  <2>1. job' = [job EXCEPT ![w] = [IdleJob EXCEPT !.run = r, !.frozen = incremental, !.pc = pc]]
    BY <1>2 DEF Deliver
  <2>2. job[w].pc = "idle" /\ UNCHANGED <<run, stored, runLock>>
    BY <1>2 DEF Deliver, store, locks
  <2> HIDE DEF pc
  <2>3. job'[w].pc = pc /\ job'[w].frozen = incremental
        /\ job'[w].kept = {} /\ job'[w].uploaded = {} /\ job'[w].old = {}
    BY <2>1, <1>a DEF IdleJob
  <2> QED BY <2>2, <2>3 DEF pc
<1> QED
  BY <1>1, <1>2 DEF TakePolicyLock, TakeProjectLock, StartSweep, store, locks

LEMMA StatusWrites ==
  ASSUME TypeInv, NEW w \in Workers, NEW r \in Runs, r = job[w].run
  PROVE  /\ Claim(w) =>
              /\ job[w].pc = "claim" /\ UNCHANGED <<stored, runLock>>
              /\ \/ /\ job'[w].pc = "snapshot" /\ Carries(w)
                    /\ Claimable(r) /\ run'[r].status = "preparing" /\ run'[r].lease = "open"
                    /\ UNCHANGED <<run[r].artifacts, run[r].finished, run[r].manifest,
                                   run[r].protected, run[r].deleted>>
                    /\ OtherRows(r)
                 \/ job'[w] = IdleJob /\ run' = run
         /\ Snapshot(w) =>
              /\ job[w].pc = "snapshot" /\ UNCHANGED <<stored, runLock>>
              /\ \/ job'[w].pc = "upload" /\ Carries(w) /\ Proceeds(r, "snapshotting")
                 \/ Refuses(w)
         /\ StartUpload(w) =>
              /\ job[w].pc = "upload" /\ UNCHANGED <<stored, runLock>>
              /\ \/ /\ job'[w].pc = "blocks" /\ Proceeds(r, "uploading")
                    /\ job'[w].content # {}
                    /\ job'[w].old = IF job[w].frozen THEN LatestArtifacts ELSE {}
                    /\ UNCHANGED <<job[w].run, job[w].frozen, job[w].kept, job[w].uploaded>>
                 \/ Refuses(w)
<1>a. /\ DOMAIN job = Workers /\ DOMAIN run = Runs
      /\ DOMAIN job[w] = {"pc", "run", "frozen", "content", "old", "kept", "uploaded",
                          "elsewhere", "completed", "plan", "victims"}
      /\ DOMAIN run[r] = {"status", "lease", "artifacts", "manifest", "finished", "protected",
                          "deleted"}
  BY Shapes
<1>1. ASSUME NEW pc, Goto(w, pc) PROVE job'[w].pc = pc /\ Carries(w)
  BY <1>1, <1>a DEF Carries
<1>2. ASSUME Refused(w) PROVE Refuses(w)
  BY <1>2, <1>a DEF Refused, Refuses, Carries
<1>3. ASSUME NEW status, Undecided(r), run' = [run EXCEPT ![r].status = status] PROVE Proceeds(r, status)
  BY <1>3, <1>a DEF Proceeds, RowKept, OtherRows
<1>4. ASSUME ClaimExecution(r)
      PROVE  /\ run'[r].status = "preparing" /\ run'[r].lease = "open"
             /\ UNCHANGED <<run[r].artifacts, run[r].finished, run[r].manifest,
                            run[r].protected, run[r].deleted>>
             /\ OtherRows(r)
  BY <1>4, <1>a DEF ClaimExecution, OtherRows
<1>5. ASSUME NEW C, NEW S, job' = [job EXCEPT ![w].pc = "blocks", ![w].content = C, ![w].old = S]
      PROVE  /\ job'[w].pc = "blocks" /\ job'[w].content = C /\ job'[w].old = S
             /\ UNCHANGED <<job[w].run, job[w].frozen, job[w].kept, job[w].uploaded>>
  BY <1>5, <1>a
<1>6. Claim(w) =>
        /\ job[w].pc = "claim" /\ UNCHANGED <<stored, runLock>>
        /\ \/ job'[w].pc = "snapshot" /\ Carries(w) /\ Claimable(r) /\ ClaimExecution(r)
           \/ job'[w] = IdleJob /\ run' = run
  BY <1>1, <1>a DEF Claim, locks
<1>7. Snapshot(w) =>
        /\ job[w].pc = "snapshot" /\ UNCHANGED <<stored, runLock>>
        /\ \/ job'[w].pc = "upload" /\ Carries(w) /\ Proceeds(r, "snapshotting")
           \/ Refuses(w)
  <2>1. Refused(w) => UNCHANGED stored
    BY DEF Refused
  <2> QED BY <1>1, <1>2, <1>3, <2>1 DEF Snapshot, locks
<1>8. ASSUME StartUpload(w)
      PROVE  /\ job[w].pc = "upload" /\ UNCHANGED <<stored, runLock>>
             /\ \/ /\ job'[w].pc = "blocks" /\ Proceeds(r, "uploading")
                   /\ job'[w].content # {}
                   /\ job'[w].old = IF job[w].frozen THEN LatestArtifacts ELSE {}
                   /\ UNCHANGED <<job[w].run, job[w].frozen, job[w].kept, job[w].uploaded>>
                \/ Refuses(w)
  <2> DEFINE old == IF job[w].frozen THEN LatestArtifacts ELSE {}
  <2>1. job[w].pc = "upload" /\ UNCHANGED <<stored, runLock>>
    BY <1>8 DEF StartUpload, locks, Refused
  <2>2. \/ /\ Undecided(r) /\ run' = [run EXCEPT ![r].status = "uploading"]
           /\ \E C : /\ C # {}
                     /\ job' = [job EXCEPT ![w].pc = "blocks", ![w].content = C, ![w].old = old]
        \/ Refused(w)
    <3> HIDE DEF old
    <3>1. \/ /\ Undecided(r) /\ run' = [run EXCEPT ![r].status = "uploading"]
             /\ \E C \in (SUBSET Blocks) \ {{}} :
                  job' = [job EXCEPT ![w].pc = "blocks", ![w].content = C, ![w].old = old]
          \/ Refused(w)
      BY <1>8 DEF StartUpload, old
    <3>2. \A C \in (SUBSET Blocks) \ {{}} : C # {}
      OBVIOUS
    <3> QED BY <3>1, <3>2
  <2> HIDE DEF old
  <2>3. \/ /\ job'[w].pc = "blocks" /\ Proceeds(r, "uploading")
           /\ job'[w].content # {}
           /\ job'[w].old = old
           /\ UNCHANGED <<job[w].run, job[w].frozen, job[w].kept, job[w].uploaded>>
        \/ Refuses(w)
    <3>1. ASSUME Undecided(r), run' = [run EXCEPT ![r].status = "uploading"],
                 NEW C, C # {},
                 job' = [job EXCEPT ![w].pc = "blocks", ![w].content = C, ![w].old = old]
          PROVE  /\ job'[w].pc = "blocks" /\ Proceeds(r, "uploading")
                 /\ job'[w].content # {}
                 /\ job'[w].old = old
                 /\ UNCHANGED <<job[w].run, job[w].frozen, job[w].kept, job[w].uploaded>>
      <4>1. Proceeds(r, "uploading")
        BY <3>1, <1>3
      <4>2. /\ job'[w].pc = "blocks" /\ job'[w].content = C /\ job'[w].old = old
            /\ UNCHANGED <<job[w].run, job[w].frozen, job[w].kept, job[w].uploaded>>
        BY <3>1, <1>5
      <4> QED BY <3>1, <4>1, <4>2
    <3> QED BY <2>2, <3>1, <1>2
  <2> QED BY <2>1, <2>3 DEF old
<1> QED BY <1>4, <1>6, <1>7, <1>8

LEMMA UploadWrites ==
  ASSUME TypeInv, NEW w \in Workers, NEW r \in Runs, r = job[w].run
  PROVE  /\ UploadBlock(w) =>
              /\ job[w].pc = "blocks" /\ job'[w].pc = "blocks"
              /\ UNCHANGED <<run, runLock, job[w].run, job[w].frozen, job[w].content, job[w].old>>
              /\ \E b \in job[w].content :
                   /\ job'[w].kept = job[w].kept \cup {ObjectFor(w, b)}
                   /\ job'[w].uploaded = job[w].uploaded \cup ({ObjectFor(w, b)} \ job[w].old)
                   /\ stored' = stored \cup ({ObjectFor(w, b)} \ job[w].old)
         /\ FinishBlocks(w) =>
              /\ job[w].pc = "blocks" /\ job'[w].pc = "record"
              /\ job[w].content = {o[2] : o \in job[w].kept}
              /\ UNCHANGED <<run, runLock, job[w].run, job[w].frozen, job[w].content, job[w].old>>
              /\ \E I \in SUBSET {Own(r, "index")} :
                   /\ job'[w].kept = job[w].kept \cup I
                   /\ job'[w].uploaded = job[w].uploaded \cup I
                   /\ stored' = stored \cup I
         /\ RecordArtifacts(w) =>
              /\ job[w].pc = "record" /\ UNCHANGED <<stored, runLock>>
              /\ \/ /\ job'[w].pc = "verify" /\ Carries(w)
                    /\ Undecided(r) /\ run'[r].status = "uploading"
                    /\ \/ run'[r].artifacts = job[w].kept
                       \/ "lostColumns" \in FaultKinds /\ UNCHANGED <<run[r].artifacts>>
                    /\ UNCHANGED <<run[r].finished>> /\ RowKept(r) /\ OtherRows(r)
                 \/ Refuses(w)
         /\ Verify(w) =>
              /\ job[w].pc = "verify" /\ UNCHANGED runLock
              /\ \/ /\ job'[w].pc = "succeed" /\ Proceeds(r, "verifying")
                    /\ stored' = stored \cup {Own(r, "manifest")}
                    /\ job'[w].uploaded = job[w].uploaded \cup {Own(r, "manifest")}
                    /\ UNCHANGED <<job[w].run, job[w].frozen, job[w].old, job[w].kept>>
                 \/ Refuses(w)
<1>a. /\ DOMAIN job = Workers /\ DOMAIN run = Runs
      /\ DOMAIN job[w] = {"pc", "run", "frozen", "content", "old", "kept", "uploaded",
                          "elsewhere", "completed", "plan", "victims"}
      /\ DOMAIN run[r] = {"status", "lease", "artifacts", "manifest", "finished", "protected",
                          "deleted"}
  BY Shapes
<1>1. ASSUME NEW pc, Goto(w, pc) PROVE job'[w].pc = pc /\ Carries(w)
  BY <1>1, <1>a DEF Carries
<1>2. ASSUME Refused(w) PROVE Refuses(w)
  BY <1>2, <1>a DEF Refused, Refuses, Carries
<1>3. ASSUME NEW status, Undecided(r), run' = [run EXCEPT ![r].status = status] PROVE Proceeds(r, status)
  BY <1>3, <1>a DEF Proceeds, RowKept, OtherRows
<1>4. ASSUME UploadBlock(w)
      PROVE  /\ job[w].pc = "blocks" /\ job'[w].pc = "blocks"
             /\ UNCHANGED <<run, runLock, job[w].run, job[w].frozen, job[w].content, job[w].old>>
             /\ \E b \in job[w].content :
                  /\ job'[w].kept = job[w].kept \cup {ObjectFor(w, b)}
                  /\ job'[w].uploaded = job[w].uploaded \cup ({ObjectFor(w, b)} \ job[w].old)
                  /\ stored' = stored \cup ({ObjectFor(w, b)} \ job[w].old)
  <2>1. PICK b \in job[w].content :
          LET o == ObjectFor(w, b)
              new == {o} \ job[w].old
          IN  /\ stored' = stored \cup new
              /\ job' = [job EXCEPT ![w].kept = @ \cup {o}, ![w].uploaded = @ \cup new]
    BY <1>4 DEF UploadBlock
  <2> DEFINE o == ObjectFor(w, b)
             new == {o} \ job[w].old
  <2>2. /\ stored' = stored \cup new
        /\ job' = [job EXCEPT ![w].kept = @ \cup {o}, ![w].uploaded = @ \cup new]
    BY <2>1
  <2>3. job[w].pc = "blocks" /\ UNCHANGED <<run, runLock>>
    BY <1>4 DEF UploadBlock, locks
  <2> HIDE DEF o, new
  <2>4. /\ job'[w].kept = job[w].kept \cup {o}
        /\ job'[w].uploaded = job[w].uploaded \cup new
        /\ UNCHANGED <<job[w].pc, job[w].run, job[w].frozen, job[w].content, job[w].old>>
    BY <2>2, <1>a
  <2> QED BY <2>2, <2>3, <2>4 DEF o, new
<1>5. ASSUME FinishBlocks(w)
      PROVE  /\ job[w].pc = "blocks" /\ job'[w].pc = "record"
             /\ job[w].content = {o[2] : o \in job[w].kept}
             /\ UNCHANGED <<run, runLock, job[w].run, job[w].frozen, job[w].content, job[w].old>>
             /\ \E I \in SUBSET {Own(r, "index")} :
                  /\ job'[w].kept = job[w].kept \cup I
                  /\ job'[w].uploaded = job[w].uploaded \cup I
                  /\ stored' = stored \cup I
  <2> DEFINE I == IF job[w].frozen THEN {Own(r, "index")} ELSE {}
  <2>1. I \in SUBSET {Own(r, "index")}
    OBVIOUS
  <2>2. /\ job[w].pc = "blocks" /\ UNCHANGED <<run, runLock>>
        /\ job[w].content = {o[2] : o \in job[w].kept}
        /\ stored' = stored \cup I
        /\ job' = [job EXCEPT ![w].pc = "record", ![w].kept = @ \cup I, ![w].uploaded = @ \cup I]
    BY <1>5 DEF FinishBlocks, locks
  <2> HIDE DEF I
  <2>3. /\ job'[w].pc = "record"
        /\ job'[w].kept = job[w].kept \cup I
        /\ job'[w].uploaded = job[w].uploaded \cup I
        /\ UNCHANGED <<job[w].run, job[w].frozen, job[w].content, job[w].old>>
    BY <2>2, <1>a
  <2> QED BY <2>1, <2>2, <2>3
<1>6. ASSUME RecordArtifacts(w)
      PROVE  /\ job[w].pc = "record" /\ UNCHANGED <<stored, runLock>>
             /\ \/ /\ job'[w].pc = "verify" /\ Carries(w)
                   /\ Undecided(r) /\ run'[r].status = "uploading"
                   /\ \/ run'[r].artifacts = job[w].kept
                      \/ "lostColumns" \in FaultKinds /\ UNCHANGED <<run[r].artifacts>>
                   /\ UNCHANGED <<run[r].finished>> /\ RowKept(r) /\ OtherRows(r)
                \/ Refuses(w)
  <2>1. job[w].pc = "record" /\ UNCHANGED <<stored, runLock>>
    BY <1>6 DEF RecordArtifacts, Refused, locks
  <2>2. \/ /\ Undecided(r) /\ Goto(w, "verify")
           /\ \/ run' = [run EXCEPT ![r].status = "uploading", ![r].artifacts = job[w].kept]
              \/ "lostColumns" \in FaultKinds /\ run' = [run EXCEPT ![r].status = "uploading"]
        \/ Refused(w)
    BY <1>6 DEF RecordArtifacts, Fault
  <2>3. ASSUME NEW K, run' = [run EXCEPT ![r].status = "uploading", ![r].artifacts = K]
        PROVE  /\ run'[r].status = "uploading" /\ run'[r].artifacts = K
               /\ UNCHANGED <<run[r].finished>> /\ RowKept(r) /\ OtherRows(r)
    BY <2>3, <1>a DEF RowKept, OtherRows
  <2>4. ASSUME Undecided(r), run' = [run EXCEPT ![r].status = "uploading"]
        PROVE  /\ run'[r].status = "uploading" /\ UNCHANGED <<run[r].artifacts, run[r].finished>>
               /\ RowKept(r) /\ OtherRows(r)
    BY <2>4, <1>3 DEF Proceeds
  <2> QED BY <2>1, <2>2, <2>3, <2>4, <1>1, <1>2
<1>7. ASSUME Verify(w)
      PROVE  /\ job[w].pc = "verify" /\ UNCHANGED runLock
             /\ \/ /\ job'[w].pc = "succeed" /\ Proceeds(r, "verifying")
                   /\ stored' = stored \cup {Own(r, "manifest")}
                   /\ job'[w].uploaded = job[w].uploaded \cup {Own(r, "manifest")}
                   /\ UNCHANGED <<job[w].run, job[w].frozen, job[w].old, job[w].kept>>
                \/ Refuses(w)
  <2> DEFINE M == {Own(r, "manifest")}
  <2>1. job[w].pc = "verify" /\ UNCHANGED runLock
    BY <1>7 DEF Verify, locks
  <2>2. \/ /\ Undecided(r) /\ run' = [run EXCEPT ![r].status = "verifying"]
           /\ stored' = stored \cup M
           /\ job' = [job EXCEPT ![w].pc = "succeed", ![w].uploaded = @ \cup M]
        \/ Refused(w)
    BY <1>7 DEF Verify
  <2> HIDE DEF M
  <2>3. ASSUME job' = [job EXCEPT ![w].pc = "succeed", ![w].uploaded = @ \cup M]
        PROVE  /\ job'[w].pc = "succeed" /\ job'[w].uploaded = job[w].uploaded \cup M
               /\ UNCHANGED <<job[w].run, job[w].frozen, job[w].old, job[w].kept>>
    BY <2>3, <1>a
  <2>4. \/ /\ job'[w].pc = "succeed" /\ Proceeds(r, "verifying")
           /\ stored' = stored \cup M
           /\ job'[w].uploaded = job[w].uploaded \cup M
           /\ UNCHANGED <<job[w].run, job[w].frozen, job[w].old, job[w].kept>>
        \/ Refuses(w)
    BY <2>2, <2>3, <1>2, <1>3
  <2> QED BY <2>1, <2>4 DEF M
<1> QED BY <1>4, <1>5, <1>6, <1>7

LEMMA EndWrites ==
  ASSUME TypeInv, NEW w \in Workers, NEW r \in Runs, r = job[w].run
  PROVE  /\ Succeed(w) =>
              /\ job[w].pc = "succeed" /\ UNCHANGED <<stored, runLock>>
              /\ \/ /\ job'[w].pc = "payload" \/ (job'[w].pc = "reclaim" /\ "lostReply" \in FaultKinds)
                    /\ Carries(w)
                    /\ Undecided(r) /\ run'[r].status = "succeeded" /\ run'[r].finished = NextFinish
                    /\ UNCHANGED <<run[r].artifacts>> /\ RowKept(r) /\ OtherRows(r)
                 \/ Refuses(w)
         /\ RecordSuccess(w) =>
              /\ job[w].pc = "payload" /\ job'[w].pc = "finish" /\ Carries(w)
              /\ UNCHANGED <<stored, runLock>>
              /\ \/ run'[r].artifacts = job[w].kept /\ run'[r].manifest
                 \/ /\ "lostColumns" \in FaultKinds
                    /\ run'[r].artifacts \in {run[r].artifacts, job[w].kept}
              /\ UNCHANGED <<run[r].status, run[r].lease, run[r].finished, run[r].protected,
                             run[r].deleted>>
              /\ OtherRows(r)
         /\ FailCapture(w) =>
              /\ job[w].pc \in {"snapshot", "upload", "blocks", "record", "verify", "succeed"}
              /\ job'[w].pc = "reclaim" /\ Carries(w) /\ UNCHANGED <<run, stored, runLock>>
         /\ Reclaim(w) =>
              /\ job[w].pc = "reclaim" /\ job'[w].pc \in {"finish", "fail"} /\ Carries(w)
              /\ UNCHANGED <<run, runLock>>
              /\ stored' \subseteq stored
              /\ stored \ job[w].uploaded \subseteq stored'
         /\ Fail(w) =>
              /\ job[w].pc = "fail" /\ job'[w].pc = "finish" /\ Carries(w)
              /\ UNCHANGED <<stored, runLock>>
              /\ \/ /\ Undecided(r) /\ run'[r].status = "failed" /\ run'[r].finished = NextFinish
                    /\ run'[r].artifacts = {}
                    /\ RowKept(r) /\ OtherRows(r)
                 \/ run' = run
         /\ Finish(w) =>
              /\ job[w].pc = "finish" /\ job'[w].pc \in {"prune", "idle"}
              /\ ~job'[w].frozen
              /\ UNCHANGED <<stored, runLock>>
              /\ run'[r].lease = run[r].lease \/ run'[r].lease = "closed"
              /\ UNCHANGED <<run[r].status, run[r].artifacts, run[r].manifest, run[r].finished,
                             run[r].protected, run[r].deleted>>
              /\ OtherRows(r)
<1>a. /\ DOMAIN job = Workers /\ DOMAIN run = Runs
      /\ DOMAIN job[w] = {"pc", "run", "frozen", "content", "old", "kept", "uploaded",
                          "elsewhere", "completed", "plan", "victims"}
      /\ DOMAIN run[r] = {"status", "lease", "artifacts", "manifest", "finished", "protected",
                          "deleted"}
  BY Shapes
<1>1. ASSUME NEW pc, Goto(w, pc) PROVE job'[w].pc = pc /\ Carries(w)
  BY <1>1, <1>a DEF Carries
<1>2. ASSUME Refused(w) PROVE Refuses(w)
  BY <1>2, <1>a DEF Refused, Refuses, Carries
<1>3. ASSUME Succeed(w)
      PROVE  /\ job[w].pc = "succeed" /\ UNCHANGED <<stored, runLock>>
             /\ \/ /\ job'[w].pc = "payload" \/ (job'[w].pc = "reclaim" /\ "lostReply" \in FaultKinds)
                   /\ Carries(w)
                   /\ Undecided(r) /\ run'[r].status = "succeeded" /\ run'[r].finished = NextFinish
                   /\ UNCHANGED <<run[r].artifacts>> /\ RowKept(r) /\ OtherRows(r)
                \/ Refuses(w)
  <2>1. job[w].pc = "succeed" /\ UNCHANGED <<stored, runLock>>
    BY <1>3 DEF Succeed, Refused, locks
  <2>2. \/ /\ Undecided(r) /\ run' = [run EXCEPT ![r] = Decide(r, "succeeded")]
           /\ Goto(w, "payload") \/ (Goto(w, "reclaim") /\ "lostReply" \in FaultKinds)
        \/ Refused(w)
    BY <1>3 DEF Succeed, Fault
  <2>3. ASSUME NEW n, run' = [run EXCEPT ![r] = [run[r] EXCEPT !.status = "succeeded", !.finished = n]]
        PROVE  /\ run'[r].status = "succeeded" /\ run'[r].finished = n
               /\ UNCHANGED <<run[r].artifacts>> /\ RowKept(r) /\ OtherRows(r)
    BY <2>3, <1>a DEF RowKept, OtherRows
  <2>4. ASSUME run' = [run EXCEPT ![r] = Decide(r, "succeeded")]
        PROVE  /\ run'[r].status = "succeeded" /\ run'[r].finished = NextFinish
               /\ UNCHANGED <<run[r].artifacts>> /\ RowKept(r) /\ OtherRows(r)
    BY <2>3, <2>4 DEF Decide
  <2> QED BY <2>1, <2>2, <2>4, <1>1, <1>2
<1>4. ASSUME RecordSuccess(w)
      PROVE  /\ job[w].pc = "payload" /\ job'[w].pc = "finish" /\ Carries(w)
             /\ UNCHANGED <<stored, runLock>>
             /\ \/ run'[r].artifacts = job[w].kept /\ run'[r].manifest
                \/ /\ "lostColumns" \in FaultKinds
                   /\ run'[r].artifacts \in {run[r].artifacts, job[w].kept}
             /\ UNCHANGED <<run[r].status, run[r].lease, run[r].finished, run[r].protected,
                            run[r].deleted>>
             /\ OtherRows(r)
  <2>1. /\ job[w].pc = "payload" /\ UNCHANGED <<stored, runLock>>
        /\ job' = [job EXCEPT ![w].pc = "finish", ![w].completed = TRUE]
        /\ \E K, m : /\ run' = [run EXCEPT ![r].artifacts = K, ![r].manifest = m]
                     /\ \/ K = job[w].kept /\ m = TRUE
                        \/ "lostColumns" \in FaultKinds /\ K \in {run[r].artifacts, job[w].kept}
    BY <1>4 DEF RecordSuccess, Fault, locks
  <2>2. job'[w].pc = "finish" /\ Carries(w)
    BY <2>1, <1>a DEF Carries
  <2>3. ASSUME NEW K, NEW m, run' = [run EXCEPT ![r].artifacts = K, ![r].manifest = m]
        PROVE  /\ run'[r].artifacts = K /\ run'[r].manifest = m
               /\ UNCHANGED <<run[r].status, run[r].lease, run[r].finished, run[r].protected,
                              run[r].deleted>>
               /\ OtherRows(r)
    BY <2>3, <1>a DEF OtherRows
  <2>4. PICK K, m : /\ run' = [run EXCEPT ![r].artifacts = K, ![r].manifest = m]
                    /\ \/ K = job[w].kept /\ m = TRUE
                       \/ "lostColumns" \in FaultKinds /\ K \in {run[r].artifacts, job[w].kept}
    BY <2>1
  <2>5. /\ run'[r].artifacts = K /\ run'[r].manifest = m
        /\ UNCHANGED <<run[r].status, run[r].lease, run[r].finished, run[r].protected,
                       run[r].deleted>>
        /\ OtherRows(r)
    BY <2>3, <2>4
  <2> QED BY <2>1, <2>2, <2>4, <2>5
<1>5. FailCapture(w) =>
        /\ job[w].pc \in {"snapshot", "upload", "blocks", "record", "verify", "succeed"}
        /\ job'[w].pc = "reclaim" /\ Carries(w) /\ UNCHANGED <<run, stored, runLock>>
  BY <1>1 DEF FailCapture, store, locks
<1>6. ASSUME Reclaim(w)
      PROVE  /\ job[w].pc = "reclaim" /\ job'[w].pc \in {"finish", "fail"} /\ Carries(w)
             /\ UNCHANGED <<run, runLock>>
             /\ stored' \subseteq stored
             /\ stored \ job[w].uploaded \subseteq stored'
  <2> DEFINE next == IF job[w].elsewhere THEN "finish" ELSE "fail"
  <2>1. job[w].pc = "reclaim" /\ UNCHANGED <<run, runLock>> /\ Goto(w, next)
    BY <1>6 DEF Reclaim, locks
  <2>2. next \in {"finish", "fail"}
    OBVIOUS
  <2> HIDE DEF next
  <2>3. stored' \subseteq stored /\ stored \ job[w].uploaded \subseteq stored'
    <3>1. \/ stored' = stored
          \/ stored' = stored \ job[w].uploaded
          \/ \E kept : stored' = stored \ ((job[w].uploaded \cap stored) \ kept)
      BY <1>6 DEF Reclaim
    <3> QED BY <3>1
  <2> QED BY <2>1, <2>2, <2>3, <1>1
<1>7. ASSUME Fail(w)
      PROVE  /\ job[w].pc = "fail" /\ job'[w].pc = "finish" /\ Carries(w)
             /\ UNCHANGED <<stored, runLock>>
             /\ \/ /\ Undecided(r) /\ run'[r].status = "failed" /\ run'[r].finished = NextFinish
                   /\ run'[r].artifacts = {}
                   /\ RowKept(r) /\ OtherRows(r)
                \/ run' = run
  <2>1. job[w].pc = "fail" /\ UNCHANGED <<stored, runLock>> /\ Goto(w, "finish")
    BY <1>7 DEF Fail, locks
  <2>2. \/ Undecided(r) /\ run' = [run EXCEPT ![r] = [Decide(r, "failed") EXCEPT !.artifacts = {}]]
        \/ run' = run
    BY <1>7 DEF Fail
  <2>3. ASSUME NEW n, run' = [run EXCEPT ![r] = [[run[r] EXCEPT !.status = "failed", !.finished = n]
                                                   EXCEPT !.artifacts = {}]]
        PROVE  /\ run'[r].status = "failed" /\ run'[r].finished = n
               /\ run'[r].artifacts = {}
               /\ RowKept(r) /\ OtherRows(r)
    BY <2>3, <1>a DEF RowKept, OtherRows
  <2>4. ASSUME run' = [run EXCEPT ![r] = [Decide(r, "failed") EXCEPT !.artifacts = {}]]
        PROVE  /\ run'[r].status = "failed" /\ run'[r].finished = NextFinish
               /\ run'[r].artifacts = {}
               /\ RowKept(r) /\ OtherRows(r)
    BY <2>3, <2>4 DEF Decide
  <2> QED BY <2>1, <2>2, <2>4, <1>1
<1>8. ASSUME Finish(w)
      PROVE  /\ job[w].pc = "finish" /\ job'[w].pc \in {"prune", "idle"}
             /\ ~job'[w].frozen
             /\ UNCHANGED <<stored, runLock>>
             /\ run'[r].lease = run[r].lease \/ run'[r].lease = "closed"
             /\ UNCHANGED <<run[r].status, run[r].artifacts, run[r].manifest, run[r].finished,
                            run[r].protected, run[r].deleted>>
             /\ OtherRows(r)
  <2> DEFINE next == IF job[w].completed THEN "prune" ELSE "idle"
  <2>1. /\ job[w].pc = "finish" /\ UNCHANGED <<stored, runLock>>
        /\ run' = [run EXCEPT ![r] = Acknowledged(@)]
        /\ job' = [job EXCEPT ![w] = [IdleJob EXCEPT !.pc = next]]
    BY <1>8 DEF Finish
  <2>2. next \in {"prune", "idle"}
    OBVIOUS
  <2> HIDE DEF next
  <2>3. job'[w].pc = next /\ ~job'[w].frozen
    BY <2>1, <1>a DEF IdleJob
  <2>4. run'[r] = run[r] \/ run'[r] = [run[r] EXCEPT !.lease = "closed"]
    BY <2>1, <1>a DEF Acknowledged
  <2>5. OtherRows(r)
    BY <2>1, <1>a DEF OtherRows
  <2> QED BY <2>1, <2>2, <2>3, <2>4, <2>5, <1>a
<1> QED BY <1>3, <1>4, <1>5, <1>6, <1>7, <1>8

(* What the steps of retention write.                                      *)
LEMMA PruneWrites ==
  ASSUME TypeInv, NEW w \in Workers
  PROVE  /\ Survey(w) =>
              /\ job[w].pc = "survey" /\ job'[w].pc = "victim" /\ Carries(w)
              /\ job'[w].victims = Excess
              /\ job'[w].plan = [r \in Runs |-> IF r \in Restorable THEN Keys(r) ELSE {}]
              /\ UNCHANGED <<run, stored, runLock, policyLock>>
         /\ LockVictim(w) =>
              /\ job[w].pc = "victim" /\ UNCHANGED <<run, stored, policyLock>>
              /\ UNCHANGED <<job[w].plan, job[w].frozen>>
              /\ \E v \in job[w].victims :
                   /\ runLock[v] = Nobody
                   /\ \/ /\ Expendable(v) /\ runLock' = [runLock EXCEPT ![v] = w]
                         /\ job'[w].pc = "erase" /\ job'[w].run = v
                         /\ job'[w].victims = job[w].victims
                      \/ /\ runLock' = runLock
                         /\ job'[w].pc = "victim"
                         /\ job'[w].victims = job[w].victims \ {v}
         /\ Erase(w) =>
              /\ job[w].pc = "erase" /\ UNCHANGED <<run, policyLock, job[w].plan, job[w].frozen>>
              /\ stored' \subseteq stored /\ stored \ Unshared(w) \subseteq stored'
              /\ \/ /\ job'[w].pc = "drop" /\ runLock' = runLock
                    /\ UNCHANGED <<job[w].run, job[w].victims>>
                 \/ /\ job'[w].pc = "victim"
                    /\ runLock' = [runLock EXCEPT ![job[w].run] = Nobody]
                    /\ job'[w].victims = job[w].victims \ {job[w].run}
         /\ Drop(w) =>
              /\ job[w].pc = "drop" /\ job'[w].pc = "victim"
              /\ UNCHANGED <<stored, policyLock, job[w].frozen>>
              /\ runLock' = [runLock EXCEPT ![job[w].run] = Nobody]
              /\ job'[w].victims = job[w].victims \ {job[w].run}
              /\ job'[w].plan = [job[w].plan EXCEPT ![job[w].run] = {}]
              /\ OtherRows(job[w].run)
              /\ job[w].run \in Runs => run'[job[w].run] = [run[job[w].run] EXCEPT !.deleted = TRUE]
         /\ EndPrune(w) =>
              /\ job[w].pc = "victim" /\ job'[w] = IdleJob /\ policyLock' = Nobody
              /\ UNCHANGED <<run, stored, runLock>>
<1>a. /\ DOMAIN job = Workers /\ DOMAIN run = Runs
      /\ DOMAIN job[w] = {"pc", "run", "frozen", "content", "old", "kept", "uploaded",
                          "elsewhere", "completed", "plan", "victims"}
  BY Shapes
<1>b. ASSUME NEW p, LeaveVictim(w, p)
      PROVE  /\ job'[w].pc = "victim" /\ job'[w].plan = p
             /\ job'[w].victims = job[w].victims \ {job[w].run}
             /\ UNCHANGED <<job[w].frozen>>
             /\ runLock' = [runLock EXCEPT ![job[w].run] = Nobody]
  BY <1>b, <1>a DEF LeaveVictim
<1>1. ASSUME Survey(w)
      PROVE  /\ job[w].pc = "survey" /\ job'[w].pc = "victim" /\ Carries(w)
             /\ job'[w].victims = Excess
             /\ job'[w].plan = [r \in Runs |-> IF r \in Restorable THEN Keys(r) ELSE {}]
             /\ UNCHANGED <<run, stored, runLock, policyLock>>
  <2> DEFINE p == [r \in Runs |-> IF r \in Restorable THEN Keys(r) ELSE {}]
  <2>1. /\ job[w].pc = "survey" /\ UNCHANGED <<run, stored, runLock, policyLock>>
        /\ job' = [job EXCEPT ![w].pc = "victim", ![w].victims = Excess, ![w].plan = p]
    BY <1>1 DEF Survey, store, locks
  <2> HIDE DEF p
  <2>2. job'[w].pc = "victim" /\ Carries(w) /\ job'[w].victims = Excess /\ job'[w].plan = p
    BY <2>1, <1>a DEF Carries
  <2> QED BY <2>1, <2>2 DEF p
<1>2. ASSUME LockVictim(w)
      PROVE  /\ job[w].pc = "victim" /\ UNCHANGED <<run, stored, policyLock>>
             /\ UNCHANGED <<job[w].plan, job[w].frozen>>
             /\ \E v \in job[w].victims :
                  /\ runLock[v] = Nobody
                  /\ \/ /\ Expendable(v) /\ runLock' = [runLock EXCEPT ![v] = w]
                        /\ job'[w].pc = "erase" /\ job'[w].run = v
                        /\ job'[w].victims = job[w].victims
                     \/ /\ runLock' = runLock
                        /\ job'[w].pc = "victim"
                        /\ job'[w].victims = job[w].victims \ {v}
  <2> DEFINE v == NextVictim(w)
  <2>1. v \in job[w].victims
    BY <1>2, VictimIsChosen DEF LockVictim, TypeInv, TypeOK
  <2>2. /\ job[w].pc = "victim" /\ UNCHANGED <<run, stored, policyLock>>
        /\ runLock[v] = Nobody
        /\ \/ /\ Expendable(v) /\ runLock' = [runLock EXCEPT ![v] = w]
              /\ job' = [job EXCEPT ![w].pc = "erase", ![w].run = v]
           \/ runLock' = runLock /\ job' = [job EXCEPT ![w].victims = @ \ {v}]
    BY <1>2 DEF LockVictim
  <2> HIDE DEF v
  <2>3. ASSUME job' = [job EXCEPT ![w].pc = "erase", ![w].run = v]
        PROVE  /\ job'[w].pc = "erase" /\ job'[w].run = v
               /\ UNCHANGED <<job[w].plan, job[w].frozen, job[w].victims>>
    BY <2>3, <1>a
  <2>4. ASSUME job' = [job EXCEPT ![w].victims = @ \ {v}]
        PROVE  /\ job'[w].victims = job[w].victims \ {v}
               /\ UNCHANGED <<job[w].plan, job[w].frozen, job[w].pc>>
    BY <2>4, <1>a
  <2> QED BY <2>1, <2>2, <2>3, <2>4
<1>3. ASSUME Erase(w)
      PROVE  /\ job[w].pc = "erase" /\ UNCHANGED <<run, policyLock, job[w].plan, job[w].frozen>>
             /\ stored' \subseteq stored /\ stored \ Unshared(w) \subseteq stored'
             /\ \/ /\ job'[w].pc = "drop" /\ runLock' = runLock
                   /\ UNCHANGED <<job[w].run, job[w].victims>>
                \/ /\ job'[w].pc = "victim"
                   /\ runLock' = [runLock EXCEPT ![job[w].run] = Nobody]
                   /\ job'[w].victims = job[w].victims \ {job[w].run}
  <2>1. job[w].pc = "erase" /\ UNCHANGED <<run, policyLock>>
    BY <1>3 DEF Erase
  <2>2. stored' \subseteq stored /\ stored \ Unshared(w) \subseteq stored'
    <3>1. \/ stored' = stored \ Unshared(w)
          \/ \E kept : stored' = stored \ ((Unshared(w) \cap stored) \ kept)
      BY <1>3 DEF Erase
    <3> QED BY <3>1
  <2>3. \/ Goto(w, "drop") /\ runLock' = runLock
        \/ LeaveVictim(w, job[w].plan)
    BY <1>3 DEF Erase
  <2>4. ASSUME Goto(w, "drop")
        PROVE  job'[w].pc = "drop" /\ UNCHANGED <<job[w].plan, job[w].frozen, job[w].run, job[w].victims>>
    BY <2>4, <1>a
  <2> QED BY <2>1, <2>2, <2>3, <2>4, <1>b
<1>4. ASSUME Drop(w)
      PROVE  /\ job[w].pc = "drop" /\ job'[w].pc = "victim"
             /\ UNCHANGED <<stored, policyLock, job[w].frozen>>
             /\ runLock' = [runLock EXCEPT ![job[w].run] = Nobody]
             /\ job'[w].victims = job[w].victims \ {job[w].run}
             /\ job'[w].plan = [job[w].plan EXCEPT ![job[w].run] = {}]
             /\ OtherRows(job[w].run)
             /\ job[w].run \in Runs => run'[job[w].run] = [run[job[w].run] EXCEPT !.deleted = TRUE]
  <2> DEFINE p == [job[w].plan EXCEPT ![job[w].run] = {}]
  <2>1. /\ job[w].pc = "drop" /\ UNCHANGED <<stored, policyLock>>
        /\ LeaveVictim(w, p)
        /\ run' = [run EXCEPT ![job[w].run].deleted = TRUE]
    BY <1>4 DEF Drop
  <2> HIDE DEF p
  <2>2. /\ job'[w].pc = "victim" /\ job'[w].plan = p
        /\ job'[w].victims = job[w].victims \ {job[w].run}
        /\ UNCHANGED <<job[w].frozen>>
        /\ runLock' = [runLock EXCEPT ![job[w].run] = Nobody]
    BY <2>1, <1>b
  <2>3. /\ OtherRows(job[w].run)
        /\ job[w].run \in Runs => run'[job[w].run] = [run[job[w].run] EXCEPT !.deleted = TRUE]
    BY <2>1, <1>a DEF OtherRows
  <2> QED BY <2>1, <2>2, <2>3 DEF p
<1>5. EndPrune(w) =>
        /\ job[w].pc = "victim" /\ job'[w] = IdleJob /\ policyLock' = Nobody
        /\ UNCHANGED <<run, stored, runLock>>
  BY <1>a DEF EndPrune
<1> QED BY <1>1, <1>2, <1>3, <1>4, <1>5

(* A request, an edit or the sweep of heartbeats writes one row at most.   *)
LEMMA TriggerWrites ==
  ASSUME TypeInv, Trigger
  PROVE  /\ UNCHANGED <<restore, stored, locks, job>>
         /\ \/ run' = run
            \/ \E r \in Runs :
                 /\ OtherRows(r)
                 /\ \/ run[r].status = "absent" /\ run'[r] = [NoRun EXCEPT !.status = "queued"]
                    \/ runLock[r] = Nobody /\ run'[r] = [run[r] EXCEPT !.protected = ~@]
                    \/ run[r].status \in RunInFlight /\ run'[r] = Decide(r, "server_error")
<1>a. DOMAIN run = Runs
  BY Shapes
<1>1. CASE EditPolicy
  BY <1>1 DEF EditPolicy, locks
<1>2. ASSUME NEW r \in Runs, NEW row, run' = [run EXCEPT ![r] = row] PROVE run'[r] = row /\ OtherRows(r)
  BY <1>2, <1>a DEF OtherRows
<1>3. ASSUME NEW r \in Runs, Enqueue(r) \/ ProtectRun(r) \/ SweepHeartbeat(r)
      PROVE  /\ UNCHANGED <<restore, stored, locks, job>>
             /\ OtherRows(r)
             /\ \/ run[r].status = "absent" /\ run'[r] = [NoRun EXCEPT !.status = "queued"]
                \/ runLock[r] = Nobody /\ run'[r] = [run[r] EXCEPT !.protected = ~@]
                \/ run[r].status \in RunInFlight /\ run'[r] = Decide(r, "server_error")
  <2>1. UNCHANGED <<restore, stored, locks, job>>
    BY <1>3 DEF Enqueue, ProtectRun, SweepHeartbeat, locks
  <2>2. Enqueue(r) => /\ run[r].status = "absent" /\ run' = [run EXCEPT ![r] = [NoRun EXCEPT !.status = "queued"]]
    BY DEF Enqueue, CreateRun
  <2>3. ProtectRun(r) => /\ runLock[r] = Nobody
                         /\ run' = [run EXCEPT ![r] = [run[r] EXCEPT !.protected = ~@]]
    BY <1>a DEF ProtectRun
  <2>4. SweepHeartbeat(r) => /\ run[r].status \in RunInFlight /\ run' = [run EXCEPT ![r] = Decide(r, "server_error")]
    BY DEF SweepHeartbeat
  <2> QED BY <1>3, <2>1, <2>2, <2>3, <2>4, <1>2
<1> QED BY <1>1, <1>3 DEF Trigger

-----------------------------------------------------------------------------
(* The lock of the policy.                                                 *)

(* Retention holds it, and so does an incremental capture.                 *)
HoldsPolicy(w) ==
  \/ job[w].pc \in PrunePcs
  \/ job[w].frozen /\ job[w].pc \in {"project"} \cup InsidePcs

PolicyLocked ==
  \A w \in Workers :
    /\ HoldsPolicy(w) => policyLock = w
    /\ job[w].pc = "policy" => job[w].frozen

LEMMA PolicyLockSteps ==
  ASSUME TypeInv, NEW w \in Workers, job[w].pc = "policy" => job[w].frozen,
         HoldsPolicy(w) => policyLock = w,
         Capture(w) \/ Prune(w) \/ StartSweep(w) \/ \E r \in Runs : Deliver(w, r)
  PROVE  /\ job'[w].pc = "policy" => job'[w].frozen
         /\ \/ policyLock' = policyLock /\ (HoldsPolicy(w)' => HoldsPolicy(w))
            \/ policyLock = Nobody /\ policyLock' = w
            \/ policyLock = w /\ policyLock' = Nobody /\ ~HoldsPolicy(w)'
<1> DEFINE Asks == job'[w].pc = "policy" => job'[w].frozen
           Keep == policyLock' = policyLock /\ (HoldsPolicy(w)' => HoldsPolicy(w))
           Take == policyLock = Nobody /\ policyLock' = w
           Leaves == policyLock = w /\ policyLock' = Nobody /\ ~HoldsPolicy(w)'
<1> SUFFICES Asks /\ (Keep \/ Take \/ Leaves) OBVIOUS
<1> USE DEF HoldsPolicy, InsidePcs, CapturePcs, PrunePcs
<1>1. ASSUME TakePolicyLock(w) PROVE Asks /\ Take
  <2>1. job'[w].pc \in {"project", "survey"}
    BY <1>1, WaitWrites
  <2> QED BY <1>1, <2>1 DEF TakePolicyLock
<1>2. ASSUME TakeProjectLock(w) PROVE Asks /\ Keep
  <2>1. /\ job[w].pc = "project" /\ job'[w].pc = "claim" /\ job'[w].frozen = job[w].frozen
    BY <1>2, WaitWrites DEF Carries
  <2>2. policyLock' = policyLock
    BY <1>2 DEF TakeProjectLock
  <2> QED BY <2>1, <2>2
<1>3. ASSUME StartSweep(w) PROVE Asks /\ Keep
  <2>1. job'[w].pc = "prune"
    BY <1>3, WaitWrites
  <2>2. policyLock' = policyLock
    BY <1>3 DEF StartSweep, store, locks
  <2> QED BY <2>1, <2>2
<1>4. ASSUME NEW r \in Runs, Deliver(w, r) PROVE Asks /\ Keep
  <2>1. job'[w].frozen = incremental /\ job'[w].pc = IF incremental THEN "policy" ELSE "project"
    BY <1>4, WaitWrites
  <2>2. policyLock' = policyLock
    BY <1>4 DEF Deliver, store, locks
  <2> QED BY <2>1, <2>2
<1>5. ASSUME Claim(w) PROVE Asks /\ (Keep \/ Leaves)
  <2>1. job[w].run \in Runs
    BY <1>5 DEF Claim, TypeInv, Named
  <2>2. job[w].pc = "claim"
    BY <1>5 DEF Claim
  <2>3. \/ job'[w].pc = "snapshot" /\ Carries(w) /\ policyLock' = policyLock
        \/ job'[w] = IdleJob /\ policyLock' \in {policyLock, Nobody} /\ (policyLock' = Nobody => policyLock \in {w, Nobody})
    <3>1. \/ Goto(w, "snapshot") /\ policyLock' = policyLock
          \/ /\ job' = [job EXCEPT ![w] = IdleJob]
             /\ policyLock' = IF policyLock = w THEN Nobody ELSE policyLock
      BY <1>5 DEF Claim, locks, ReleasePolicy
    <3>2. DOMAIN job = Workers /\ DOMAIN job[w] = {"pc", "run", "frozen", "content", "old", "kept", "uploaded",
                                                   "elsewhere", "completed", "plan", "victims"}
      BY Shapes
    <3>3. Goto(w, "snapshot") => job'[w].pc = "snapshot" /\ Carries(w)
      BY <3>2 DEF Carries
    <3> QED BY <3>1, <3>2, <3>3
  <2>4. IdleJob.pc = "idle"
    BY DEF IdleJob
  <2> QED BY <2>2, <2>3, <2>4 DEF Carries
<1>6. ASSUME \/ Snapshot(w) \/ StartUpload(w) \/ UploadBlock(w) \/ FinishBlocks(w) \/ RecordArtifacts(w)
             \/ Verify(w) \/ Succeed(w) \/ RecordSuccess(w) \/ FailCapture(w) \/ Reclaim(w) \/ Fail(w)
      PROVE  Asks /\ Keep
  <2>1. policyLock' = policyLock
    BY <1>6 DEF Snapshot, StartUpload, UploadBlock, FinishBlocks, RecordArtifacts, Verify, Succeed,
       RecordSuccess, FailCapture, Reclaim, Fail, locks, store
  <2>2. job[w].pc \in CapturePcs
    BY <1>6 DEF Snapshot, StartUpload, UploadBlock, FinishBlocks, RecordArtifacts, Verify, Succeed,
       RecordSuccess, FailCapture, Reclaim, Fail
  <2>3. job[w].run \in Runs
    BY <2>2 DEF TypeInv, Named
  <2>4. job'[w].frozen = job[w].frozen /\ job'[w].pc \in CapturePcs
    <3>1. Snapshot(w) \/ StartUpload(w) => job'[w].frozen = job[w].frozen /\ job'[w].pc \in CapturePcs
      BY <2>3, StatusWrites DEF Carries, Refuses
    <3>2. UploadBlock(w) \/ FinishBlocks(w) \/ RecordArtifacts(w) \/ Verify(w) =>
            job'[w].frozen = job[w].frozen /\ job'[w].pc \in CapturePcs
      BY <2>3, UploadWrites DEF Carries, Refuses
    <3>3. Succeed(w) \/ RecordSuccess(w) \/ FailCapture(w) \/ Reclaim(w) \/ Fail(w) =>
            job'[w].frozen = job[w].frozen /\ job'[w].pc \in CapturePcs
      BY <2>3, EndWrites DEF Carries, Refuses
    <3> QED BY <1>6, <3>1, <3>2, <3>3
  <2> QED BY <2>1, <2>2, <2>4
<1>7. ASSUME Finish(w) PROVE Asks /\ (Keep \/ Leaves)
  <2>1. job[w].run \in Runs
    BY <1>7 DEF Finish, TypeInv, Named
  <2>2. job'[w].pc \in {"prune", "idle"}
    BY <1>7, <2>1, EndWrites
  <2>3. policyLock' = IF policyLock = w THEN Nobody ELSE policyLock
    BY <1>7 DEF Finish, ReleasePolicy
  <2> QED BY <2>2, <2>3
<1>8. ASSUME Survey(w) \/ LockVictim(w) \/ Erase(w) \/ Drop(w) PROVE Asks /\ Keep
  <2>1. /\ policyLock' = policyLock /\ job[w].pc \in PrunePcs
        /\ job'[w].pc \in PrunePcs
    BY <1>8, PruneWrites
  <2> QED BY <2>1
<1>9. ASSUME EndPrune(w) PROVE Asks /\ Leaves
  <2>1. job[w].pc \in PrunePcs /\ policyLock' = Nobody /\ job'[w] = IdleJob
    BY <1>9, PruneWrites
  <2>2. IdleJob.pc = "idle"
    BY DEF IdleJob
  <2> QED BY <2>1, <2>2
<1> HIDE DEF Asks, Keep, Take, Leaves
<1> QED BY <1>1, <1>2, <1>3, <1>4, <1>5, <1>6, <1>7, <1>8, <1>9 DEF Capture, Prune

LEMMA PolicyLockStep ==
  ASSUME TypeInv, PolicyLocked, [Next]_vars
  PROVE  PolicyLocked'
<1>a. \A w \in Workers : w # Nobody
  BY Distinct
<1>1. CASE JobNext /\ UNCHANGED <<restoreVars, teardown>>
  <2>1. CASE Trigger
    BY <2>1, TriggerWrites DEF PolicyLocked, HoldsPolicy, locks
  <2>2. ASSUME NEW w \in Workers,
               Capture(w) \/ Prune(w) \/ StartSweep(w) \/ \E r \in Runs : Deliver(w, r)
        PROVE  PolicyLocked'
    <3>1. \A x \in Workers \ {w} : job'[x] = job[x]
      BY <2>2, JobOthers
    <3>2. /\ job'[w].pc = "policy" => job'[w].frozen
          /\ \/ policyLock' = policyLock /\ (HoldsPolicy(w)' => HoldsPolicy(w))
             \/ policyLock = Nobody /\ policyLock' = w
             \/ policyLock = w /\ policyLock' = Nobody /\ ~HoldsPolicy(w)'
      BY <2>2, PolicyLockSteps DEF PolicyLocked
    <3>3. \A x \in Workers \ {w} : HoldsPolicy(x)' <=> HoldsPolicy(x)
      BY <3>1 DEF HoldsPolicy
    <3> QED BY <3>1, <3>2, <3>3, <1>a DEF PolicyLocked
  <2> QED BY <1>1, <2>1, <2>2 DEF JobNext
<1>2. CASE RestoreNext /\ UNCHANGED <<job, teardown>>
  <2>1. UNCHANGED policyLock
    BY <1>2, RestoresKeepRuns DEF RestoreNext
  <2> QED BY <1>2, <2>1 DEF PolicyLocked, HoldsPolicy
<1>3. CASE ClaimDeletion \/ Teardown
  BY <1>3, DeletionKeepsRestores DEF PolicyLocked, HoldsPolicy
<1>4. CASE Restart \/ ReplicaDies
  <2>1. PICK W \in SUBSET Workers, S \in SUBSET Restores, d \in BOOLEAN : Die(W, S, d)
    BY <1>4 DEF Restart, ReplicaDies
  <2>2. IdleJob.pc = "idle"
    BY DEF IdleJob
  <2>3. \A w \in Workers : job'[w] = IdleJob \/ (w \notin W /\ job'[w] = job[w])
    BY <2>1 DEF Die
  <2>4. policyLock' = Freed(policyLock, W \cup S \cup (IF d THEN {"teardown"} ELSE {}))
    BY <2>1 DEF Die
  <2>5. \A w \in Workers \ W : policyLock = w => policyLock' = w
    BY <2>4, Distinct DEF Freed
  <2> QED BY <2>2, <2>3, <2>5 DEF PolicyLocked, HoldsPolicy, PrunePcs, InsidePcs, CapturePcs
<1>5. CASE UNCHANGED vars
  BY <1>5 DEF vars, store, locks, PolicyLocked, HoldsPolicy
<1> QED BY <1>1, <1>2, <1>3, <1>4, <1>5 DEF Next

-----------------------------------------------------------------------------
(* The lease of a capture.                                                 *)

(* The run it captures has an open lease and is past its queue.            *)
Leased ==
  \A w \in Workers : Capturing(w) =>
    /\ run[job[w].run].lease = "open"
    /\ run[job[w].run].status \notin {"absent", "queued"}

(* A slot that does not hold the lock of the project leaves the status and *)
(* the lease of every row alone.                                           *)
LEMMA OutsideWrites ==
  ASSUME TypeInv, NEW w \in Workers, job[w].pc \notin InsidePcs,
         Capture(w) \/ Prune(w) \/ StartSweep(w) \/ \E r \in Runs : Deliver(w, r)
  PROVE  /\ \A r \in Runs : UNCHANGED <<run[r].status, run[r].lease, run[r].artifacts, run[r].finished,
                                       run[r].manifest, run[r].protected>>
         /\ Capture(w) \/ StartSweep(w) \/ (\E r \in Runs : Deliver(w, r)) => UNCHANGED <<run, stored, runLock>>
         /\ ~Drop(w) => run' = run
<1>a. DOMAIN run = Runs
      /\ \A r \in Runs : DOMAIN run[r] = {"status", "lease", "artifacts", "manifest", "finished", "protected",
                                          "deleted"}
  BY Shapes
<1>1. Capture(w) => TakePolicyLock(w) \/ TakeProjectLock(w)
  BY DEF Capture, Claim, Snapshot, StartUpload, UploadBlock, FinishBlocks, RecordArtifacts, Verify, Succeed,
     RecordSuccess, FailCapture, Reclaim, Fail, Finish, InsidePcs, CapturePcs
<1>2. Capture(w) \/ StartSweep(w) \/ (\E r \in Runs : Deliver(w, r)) => UNCHANGED <<run, stored, runLock>>
  BY <1>1, WaitWrites
<1>3. Survey(w) \/ LockVictim(w) \/ Erase(w) \/ EndPrune(w) => UNCHANGED run
  BY PruneWrites
<1>4. ASSUME Drop(w)
      PROVE  \A r \in Runs : UNCHANGED <<run[r].status, run[r].lease, run[r].artifacts, run[r].finished,
                                        run[r].manifest, run[r].protected>>
  <2>1. job[w].run \in Runs
    BY <1>4 DEF Drop, TypeInv, Named
  <2>2. /\ OtherRows(job[w].run)
        /\ run'[job[w].run] = [run[job[w].run] EXCEPT !.deleted = TRUE]
    BY <1>4, <2>1, PruneWrites
  <2>3. ASSUME NEW r \in Runs, run'[r] = run[r] \/ run'[r] = [run[r] EXCEPT !.deleted = TRUE]
        PROVE  UNCHANGED <<run[r].status, run[r].lease, run[r].artifacts, run[r].finished,
                           run[r].manifest, run[r].protected>>
    BY <2>3, <1>a
  <2> QED BY <2>2, <2>3 DEF OtherRows
<1>5. UNCHANGED run => \A r \in Runs : UNCHANGED <<run[r].status, run[r].lease, run[r].artifacts,
                                                 run[r].finished, run[r].manifest, run[r].protected>>
  OBVIOUS
<1> QED BY <1>2, <1>3, <1>4, <1>5 DEF Prune

(* One slot at a time is between its claim and its end.                    *)
LEMMA OneInside ==
  ASSUME ProjectLocked, NEW w \in Workers, NEW x \in Workers \ {w}, job[w].pc \in InsidePcs
  PROVE  job[x].pc \notin InsidePcs
BY DEF ProjectLocked

(* What a slot does to the run that it captures itself.                    *)
LEMMA LeaseKept ==
  ASSUME TypeInv, Leased, NEW w \in Workers,
         Capture(w) \/ Prune(w) \/ StartSweep(w) \/ \E r \in Runs : Deliver(w, r), Capturing(w)'
  PROVE  /\ run'[job'[w].run].lease = "open"
         /\ run'[job'[w].run].status \notin {"absent", "queued"}
<1> DEFINE r == job[w].run
           OK == /\ run'[job'[w].run].lease = "open"
                 /\ run'[job'[w].run].status \notin {"absent", "queued"}
<1> SUFFICES OK OBVIOUS
<1>1. CASE job[w].pc \notin InsidePcs
  <2>1. job'[w].pc \notin CapturePcs
    <3>1. Capture(w) => TakePolicyLock(w) \/ TakeProjectLock(w)
      BY <1>1 DEF Capture, Claim, Snapshot, StartUpload, UploadBlock, FinishBlocks, RecordArtifacts, Verify, Succeed,
         RecordSuccess, FailCapture, Reclaim, Fail, Finish, InsidePcs, CapturePcs
    <3>2. TakePolicyLock(w) \/ TakeProjectLock(w) \/ StartSweep(w) => job'[w].pc \notin CapturePcs
      BY WaitWrites DEF CapturePcs
    <3>3. \A x \in Runs : Deliver(w, x) => job'[w].pc \in {"policy", "project"}
      BY WaitWrites
    <3>4. Prune(w) => job'[w].pc \in {"victim", "erase", "drop"} \/ job'[w] = IdleJob
      BY PruneWrites DEF Prune
    <3>5. IdleJob.pc \notin CapturePcs
      BY DEF IdleJob, CapturePcs
    <3> QED BY <3>1, <3>2, <3>3, <3>4, <3>5 DEF CapturePcs
  <2> QED BY <2>1 DEF Capturing
<1>2. CASE job[w].pc \in InsidePcs
  <2>1. r \in Runs
    BY <1>2 DEF TypeInv, Named, InsidePcs
  <2>2. Capturing(w) => run[r].lease = "open" /\ run[r].status \notin {"absent", "queued"}
    BY DEF Leased
  <2>3. \/ Claim(w) \/ Snapshot(w) \/ StartUpload(w) \/ UploadBlock(w) \/ FinishBlocks(w) \/ RecordArtifacts(w)
        \/ Verify(w) \/ Succeed(w) \/ RecordSuccess(w) \/ FailCapture(w) \/ Reclaim(w) \/ Fail(w) \/ Finish(w)
    BY <1>2 DEF Capture, Prune, TakePolicyLock, TakeProjectLock, StartSweep, Deliver, Survey, LockVictim,
       Erase, Drop, EndPrune, InsidePcs, CapturePcs
  <2> USE <2>1, <2>2 DEF Capturing, CapturePcs
  <2>4. ASSUME Claim(w) PROVE OK
    <3>1. IdleJob.pc = "idle"
      BY DEF IdleJob
    <3> QED BY <2>4, <3>1, StatusWrites DEF Carries
  <2>5. ASSUME Snapshot(w) \/ StartUpload(w) PROVE OK
    BY <2>5, StatusWrites DEF Carries, Refuses, Proceeds, RowKept
  <2>6. ASSUME UploadBlock(w) \/ FinishBlocks(w) PROVE OK
    BY <2>6, UploadWrites
  <2>7. ASSUME RecordArtifacts(w) \/ Verify(w) PROVE OK
    BY <2>7, UploadWrites DEF Carries, Refuses, Proceeds, RowKept
  <2>8. ASSUME Succeed(w) \/ RecordSuccess(w) \/ FailCapture(w) \/ Reclaim(w) \/ Fail(w) PROVE OK
    BY <2>8, EndWrites DEF Carries, Refuses, RowKept
  <2>9. ~Finish(w)
    BY EndWrites
  <2> HIDE DEF OK
  <2> QED BY <2>3, <2>4, <2>5, <2>6, <2>7, <2>8, <2>9
<1> QED BY <1>1, <1>2

(* Only a queued run is cancelled by a deletion.                           *)
LEMMA DeletionWrites ==
  ASSUME TypeInv, ClaimDeletion \/ Teardown
  PROVE  \/ run' = run
         \/ \E r \in Runs : /\ Claimable(r) /\ OtherRows(r)
                            /\ run'[r] = [run[r] EXCEPT !.status = "cancelled", !.finished = NextFinish]
<1>a. DOMAIN run = Runs
  BY Shapes
<1>1. ClaimDeletion => run' = run
  BY DEF ClaimDeletion
<1>2. ASSUME NEW r \in Runs, CancelRun(r)
      PROVE  \/ run' = run
             \/ /\ Claimable(r) /\ OtherRows(r)
                /\ run'[r] = [run[r] EXCEPT !.status = "cancelled", !.finished = NextFinish]
  <2>1. \/ run' = run
        \/ Claimable(r) /\ run' = [run EXCEPT ![r] = [run[r] EXCEPT !.status = "cancelled", !.finished = NextFinish]]
    BY <1>2, <1>a DEF CancelRun, CancelQueued
  <2> QED BY <2>1, <1>a DEF OtherRows
<1>3. Teardown => run' = run \/ \E r \in Runs : CancelRun(r)
  BY DEF Teardown, RefuseGraceful, StartCancelling, OpenWindow, QuiesceTimeout, BeginCleanup, Destroy,
     CancelRestore, GiveUp, store
<1> QED BY <1>1, <1>2, <1>3

LEMMA LeasedStep ==
  ASSUME TypeInv, ProjectLocked, Leased, [Next]_vars
  PROVE  Leased'
<1> SUFFICES ASSUME NEW w \in Workers, Capturing(w)'
             PROVE  /\ run'[job'[w].run].lease = "open"
                    /\ run'[job'[w].run].status \notin {"absent", "queued"}
  BY DEF Leased
<1>a. \A r \in Runs : DOMAIN run[r] = {"status", "lease", "artifacts", "manifest", "finished", "protected",
                                       "deleted"}
  BY Shapes
<1>b. Capturing(w) => /\ job[w].run \in Runs /\ run[job[w].run].lease = "open"
                      /\ run[job[w].run].status \notin {"absent", "queued"}
  BY DEF Leased, Capturing, TypeInv, Named
<1>1. CASE JobNext /\ UNCHANGED <<restoreVars, teardown>>
  <2>1. CASE Trigger
    <3>1. UNCHANGED job /\ Capturing(w)
      BY <2>1, TriggerWrites DEF Capturing
    <3> DEFINE r == job[w].run
    <3>2. \/ run'[r] = run[r]
          \/ run[r].status = "absent"
          \/ run'[r] = [run[r] EXCEPT !.protected = ~@]
          \/ run'[r] = Decide(r, "server_error")
      BY <2>1, <3>1, <1>b, TriggerWrites DEF OtherRows
    <3> QED BY <3>1, <3>2, <1>a, <1>b DEF Decide
  <2>2. ASSUME NEW x \in Workers,
               Capture(x) \/ Prune(x) \/ StartSweep(x) \/ \E r \in Runs : Deliver(x, r)
        PROVE  /\ run'[job'[w].run].lease = "open"
               /\ run'[job'[w].run].status \notin {"absent", "queued"}
    <3>1. CASE x = w
      BY <2>2, <3>1, LeaseKept
    <3>2. CASE x # w
      <4>1. job'[w] = job[w] /\ Capturing(w)
        BY <2>2, <3>2, JobOthers DEF Capturing
      <4>2. job[x].pc \notin InsidePcs
        BY <3>2, <4>1, OneInside DEF Capturing, InsidePcs
      <4> QED BY <2>2, <4>1, <4>2, <1>b, OutsideWrites
    <3> QED BY <3>1, <3>2
  <2> QED BY <1>1, <2>1, <2>2 DEF JobNext
<1>2. CASE RestoreNext /\ UNCHANGED <<job, teardown>>
  <2>1. UNCHANGED run
    BY <1>2, RestoresKeepRuns DEF RestoreNext
  <2> QED BY <1>2, <2>1, <1>b DEF Capturing
<1>3. CASE ClaimDeletion \/ Teardown
  <2>1. UNCHANGED job /\ Capturing(w)
    BY <1>3, DeletionKeepsRestores DEF Capturing
  <2>2. run'[job[w].run] = run[job[w].run]
    BY <1>3, <2>1, <1>b, DeletionWrites DEF Claimable, OtherRows
  <2> QED BY <2>1, <2>2, <1>b
<1>4. CASE Restart
  <2>1. job'[w].pc = "idle"
    BY <1>4 DEF Restart, Die, IdleJob
  <2> QED BY <2>1 DEF Capturing, CapturePcs
<1>5. CASE ReplicaDies
  <2>1. PICK W \in SUBSET Workers, S \in SUBSET Restores, d \in BOOLEAN : Die(W, S, d)
    BY <1>5 DEF ReplicaDies
  <2>2. IdleJob.pc = "idle"
    BY DEF IdleJob
  <2>3. job'[w] = job[w] /\ Capturing(w)
    BY <2>1, <2>2 DEF Die, Capturing, CapturePcs
  <2>4. run' = run
    BY <1>5 DEF ReplicaDies
  <2> QED BY <2>3, <2>4, <1>b
<1>6. CASE UNCHANGED vars
  BY <1>6, <1>b DEF vars, store, Capturing
<1> QED BY <1>1, <1>2, <1>3, <1>4, <1>5, <1>6 DEF Next

-----------------------------------------------------------------------------
(* What becomes of a row.                                                  *)

Same(r) ==
  UNCHANGED <<run[r].status, run[r].finished, run[r].artifacts, run[r].manifest, run[r].deleted>>

Created(r) == run[r].status = "absent" /\ run'[r] = [NoRun EXCEPT !.status = "queued"]

GoesOn(r) ==
  /\ Undecided(r) /\ run'[r].status \notin RunTerminal
  /\ UNCHANGED <<run[r].finished, run[r].artifacts, run[r].manifest, run[r].deleted>>

GivenUp(r) ==
  /\ Undecided(r) /\ run'[r].status \in RunTerminal \ {"succeeded"}
  /\ run'[r].finished = NextFinish
  /\ UNCHANGED <<run[r].artifacts, run[r].manifest, run[r].deleted>>

(* By the slot that captures it, ...                                       *)
Recorded(w, r) ==
  /\ job[w].pc = "record" /\ job'[w].pc = "verify" /\ job[w].run = r
  /\ Undecided(r) /\ run'[r].status \notin RunTerminal
  /\ run'[r].artifacts \in {run[r].artifacts, job[w].kept}
  /\ UNCHANGED <<run[r].finished, run[r].manifest, run[r].deleted>>

Succeeded(w, r) ==
  /\ job[w].pc = "succeed" /\ job'[w].pc # "succeed" /\ job[w].run = r
  /\ Undecided(r) /\ run'[r].status = "succeeded" /\ run'[r].finished = NextFinish
  /\ UNCHANGED <<run[r].artifacts, run[r].manifest, run[r].deleted>>

Completed(w, r) ==
  /\ job[w].pc = "payload" /\ job'[w].pc = "finish" /\ job[w].run = r
  /\ run'[r].artifacts \in {run[r].artifacts, job[w].kept}
  /\ "lostColumns" \notin FaultKinds => run'[r].manifest
  /\ UNCHANGED <<run[r].status, run[r].finished, run[r].deleted>>

Failed(w, r) ==
  /\ job[w].pc = "fail" /\ job'[w].pc = "finish" /\ job[w].run = r
  /\ Undecided(r) /\ run'[r].status = "failed" /\ run'[r].finished = NextFinish
  /\ run'[r].artifacts = {}
  /\ UNCHANGED <<run[r].manifest, run[r].deleted>>

(* ... and by retention.                                                   *)
Dropped(w, r) ==
  /\ Drop(w) /\ job[w].run = r
  /\ run'[r].deleted
  /\ UNCHANGED <<run[r].status, run[r].finished, run[r].artifacts, run[r].manifest>>

RowStep(r) ==
  \/ Same(r) \/ Created(r) \/ GoesOn(r) \/ GivenUp(r)
  \/ \E w \in Workers :
       Recorded(w, r) \/ Succeeded(w, r) \/ Completed(w, r) \/ Failed(w, r) \/ Dropped(w, r)

(* A restore point is protected or not as its lock is held, and is not     *)
(* leased anew.                                                            *)
Settled(r) ==
  run[r].status = "succeeded" =>
    /\ run'[r].protected = run[r].protected \/ runLock[r] = Nobody
    /\ run'[r].lease \in {run[r].lease, "closed"}

LEMMA CapturedRow ==
  ASSUME TypeInv, NEW w \in Workers, job[w].pc \in InsidePcs, NEW r \in Runs, r = job[w].run,
         Capture(w) \/ Prune(w) \/ StartSweep(w) \/ \E x \in Runs : Deliver(w, x)
  PROVE  OtherRows(r) /\ RowStep(r) /\ Settled(r)
<1> DEFINE OK == OtherRows(r) /\ RowStep(r) /\ Settled(r)
<1>a. r \in Runs /\ r = job[w].run
  OBVIOUS
<1> SUFFICES OK OBVIOUS
<1>1. \/ Claim(w) \/ Snapshot(w) \/ StartUpload(w) \/ UploadBlock(w) \/ FinishBlocks(w) \/ RecordArtifacts(w)
      \/ Verify(w) \/ Succeed(w) \/ RecordSuccess(w) \/ FailCapture(w) \/ Reclaim(w) \/ Fail(w) \/ Finish(w)
  BY DEF Capture, Prune, TakePolicyLock, TakeProjectLock, StartSweep, Deliver, Survey, LockVictim,
     Erase, Drop, EndPrune, InsidePcs, CapturePcs
<1>2. ASSUME UNCHANGED run PROVE OK
  BY <1>2 DEF OtherRows, RowStep, Same, Settled
<1>3. ASSUME NEW st \in {"snapshotting", "uploading", "verifying"}, Proceeds(r, st) PROVE OK
  BY <1>3 DEF Proceeds, RowStep, GoesOn, RunTerminal, Settled, Undecided, RowKept
<1>4. ASSUME Claim(w) PROVE OK
  <2>1. CASE UNCHANGED run
    BY <1>2, <2>1
  <2>2. CASE ~UNCHANGED run
    <3>1. /\ Claimable(r) /\ run'[r].status = "preparing"
          /\ UNCHANGED <<run[r].artifacts, run[r].finished, run[r].manifest, run[r].deleted>>
          /\ OtherRows(r)
      BY <1>4, <2>2, <1>a, StatusWrites
    <3> QED BY <3>1 DEF RowStep, GoesOn, Claimable, Undecided, RunTerminal, Settled
  <2> QED BY <2>1, <2>2
<1>5. ASSUME Snapshot(w) \/ StartUpload(w) PROVE OK
  <2>1. UNCHANGED run \/ Proceeds(r, "snapshotting") \/ Proceeds(r, "uploading")
    BY <1>5, <1>a, StatusWrites DEF Refuses
  <2> HIDE DEF OK
  <2> QED BY <2>1, <1>2, <1>3
<1>6. ASSUME UploadBlock(w) \/ FinishBlocks(w) PROVE OK
  <2>1. UNCHANGED run
    BY <1>6, <1>a, UploadWrites
  <2> QED BY <2>1, <1>2
<1>7. ASSUME RecordArtifacts(w) PROVE OK
  <2>1. CASE UNCHANGED run
    BY <1>2, <2>1
  <2>2. CASE ~UNCHANGED run
    <3>1. /\ job[w].pc = "record" /\ job'[w].pc = "verify" /\ Undecided(r) /\ run'[r].status = "uploading"
          /\ run'[r].artifacts \in {run[r].artifacts, job[w].kept}
          /\ UNCHANGED <<run[r].finished>> /\ RowKept(r) /\ OtherRows(r)
      BY <1>7, <2>2, <1>a, UploadWrites DEF Refuses
    <3>2. Recorded(w, r)
      BY <3>1 DEF Recorded, RunTerminal, RowKept
    <3> QED BY <3>1, <3>2 DEF RowStep, Settled, Undecided, RunTerminal
  <2> QED BY <2>1, <2>2
<1>8. ASSUME Verify(w) PROVE OK
  <2>1. UNCHANGED run \/ Proceeds(r, "verifying")
    BY <1>8, <1>a, UploadWrites DEF Refuses
  <2> HIDE DEF OK
  <2> QED BY <2>1, <1>2, <1>3
<1>9. ASSUME Succeed(w) PROVE OK
  <2>1. CASE UNCHANGED run
    BY <1>2, <2>1
  <2>2. CASE ~UNCHANGED run
    <3>1. /\ job[w].pc = "succeed" /\ job'[w].pc # "succeed" /\ Undecided(r) /\ run'[r].status = "succeeded"
          /\ run'[r].finished = NextFinish
          /\ UNCHANGED <<run[r].artifacts>> /\ RowKept(r) /\ OtherRows(r)
      BY <1>9, <2>2, <1>a, EndWrites DEF Refuses
    <3>2. Succeeded(w, r)
      BY <3>1 DEF Succeeded, RowKept
    <3> QED BY <3>1, <3>2 DEF RowStep, Settled, Undecided, RunTerminal
  <2> QED BY <2>1, <2>2
<1>10. ASSUME RecordSuccess(w) PROVE OK
  <2>1. /\ job[w].pc = "payload" /\ job'[w].pc = "finish"
        /\ run'[r].artifacts \in {run[r].artifacts, job[w].kept}
        /\ "lostColumns" \notin FaultKinds => run'[r].manifest
        /\ UNCHANGED <<run[r].status, run[r].lease, run[r].finished, run[r].protected,
                       run[r].deleted>>
        /\ OtherRows(r)
    BY <1>10, <1>a, EndWrites
  <2>2. Completed(w, r)
    BY <2>1 DEF Completed
  <2> QED BY <2>1, <2>2 DEF RowStep, Settled
<1>11. ASSUME FailCapture(w) \/ Reclaim(w) PROVE OK
  <2>1. UNCHANGED run
    BY <1>11, <1>a, EndWrites
  <2> QED BY <2>1, <1>2
<1>12. ASSUME Fail(w) PROVE OK
  <2>1. CASE UNCHANGED run
    BY <1>2, <2>1
  <2>2. CASE ~UNCHANGED run
    <3>1. /\ job[w].pc = "fail" /\ job'[w].pc = "finish" /\ Undecided(r) /\ run'[r].status = "failed"
          /\ run'[r].finished = NextFinish /\ run'[r].artifacts = {}
          /\ RowKept(r) /\ OtherRows(r)
      BY <1>12, <2>2, <1>a, EndWrites
    <3>2. Failed(w, r)
      BY <3>1 DEF Failed, RowKept
    <3> QED BY <3>1, <3>2 DEF RowStep, Settled, Undecided, RunTerminal
  <2> QED BY <2>1, <2>2
<1>13. ASSUME Finish(w) PROVE OK
  <2>1. /\ run'[r].lease = run[r].lease \/ run'[r].lease = "closed"
        /\ UNCHANGED <<run[r].status, run[r].artifacts, run[r].manifest, run[r].finished,
                       run[r].protected, run[r].deleted>>
        /\ OtherRows(r)
    BY <1>13, <1>a, EndWrites
  <2> QED BY <2>1 DEF RowStep, Same, Settled
<1> HIDE DEF OK
<1> QED BY <1>1, <1>4, <1>5, <1>6, <1>7, <1>8, <1>9, <1>10, <1>11, <1>12, <1>13

LEMMA RowSteps ==
  ASSUME TypeInv, [Next]_vars, NEW r \in Runs
  PROVE  RowStep(r) /\ Settled(r)
<1>a. DOMAIN run[r] = {"status", "lease", "artifacts", "manifest", "finished", "protected", "deleted"}
  BY Shapes
<1>b. ASSUME run'[r] = run[r] PROVE RowStep(r) /\ Settled(r)
  BY <1>b DEF RowStep, Same, Settled
<1>1. CASE JobNext /\ UNCHANGED <<restoreVars, teardown>>
  <2>1. CASE Trigger
    <3>1. \/ run'[r] = run[r]
          \/ run[r].status = "absent" /\ run'[r] = [NoRun EXCEPT !.status = "queued"]
          \/ runLock[r] = Nobody /\ run'[r] = [run[r] EXCEPT !.protected = ~@]
          \/ run[r].status \in RunInFlight /\ run'[r] = Decide(r, "server_error")
      BY <2>1, TriggerWrites DEF OtherRows
    <3>2. CASE run[r].status = "absent" /\ run'[r] = [NoRun EXCEPT !.status = "queued"]
      BY <3>2 DEF RowStep, Created, Settled
    <3>3. CASE runLock[r] = Nobody /\ run'[r] = [run[r] EXCEPT !.protected = ~@]
      BY <3>3, <1>a DEF RowStep, Same, Settled
    <3>4. CASE run[r].status \in RunInFlight /\ run'[r] = Decide(r, "server_error")
      <4>1. GivenUp(r)
        BY <3>4, <1>a DEF GivenUp, Decide, Undecided, RunInFlight, RunTerminal
      <4> QED BY <4>1 DEF RowStep, GivenUp, Settled, Undecided, RunTerminal
    <3> QED BY <3>1, <3>2, <3>3, <3>4, <1>b
  <2>2. ASSUME NEW w \in Workers,
               Capture(w) \/ Prune(w) \/ StartSweep(w) \/ \E x \in Runs : Deliver(w, x)
        PROVE  RowStep(r) /\ Settled(r)
    <3>1. CASE job[w].pc \in InsidePcs
      <4>1. PICK x \in Runs : x = job[w].run
        BY <3>1 DEF TypeInv, Named, InsidePcs
      <4>2. OtherRows(x) /\ RowStep(x) /\ Settled(x)
        BY <2>2, <3>1, <4>1, CapturedRow
      <4> QED BY <4>2, <1>b DEF OtherRows
    <3>2. CASE job[w].pc \notin InsidePcs
      <4>1. CASE run' = run
        BY <4>1, <1>b
      <4>2. CASE run' # run
        <5>1. Drop(w)
          BY <2>2, <3>2, <4>2, OutsideWrites
        <5>2. job[w].run \in Runs
          BY <5>1 DEF Drop, TypeInv, Named
        <5>3. /\ OtherRows(job[w].run)
              /\ run'[job[w].run] = [run[job[w].run] EXCEPT !.deleted = TRUE]
          BY <5>1, <5>2, PruneWrites
        <5>4. CASE r = job[w].run
          BY <5>1, <5>3, <5>4, <1>a DEF RowStep, Dropped, Settled
        <5> QED BY <5>3, <5>4, <1>b DEF OtherRows
      <4> QED BY <4>1, <4>2
    <3> QED BY <3>1, <3>2
  <2> QED BY <1>1, <2>1, <2>2 DEF JobNext
<1>2. CASE RestoreNext /\ UNCHANGED <<job, teardown>>
  <2>1. UNCHANGED run
    BY <1>2, RestoresKeepRuns DEF RestoreNext
  <2> QED BY <2>1, <1>b
<1>3. CASE ClaimDeletion \/ Teardown
  <2>1. \/ run'[r] = run[r]
        \/ /\ Claimable(r)
           /\ run'[r] = [run[r] EXCEPT !.status = "cancelled", !.finished = NextFinish]
    BY <1>3, DeletionWrites DEF OtherRows
  <2>2. CASE Claimable(r) /\ run'[r] = [run[r] EXCEPT !.status = "cancelled", !.finished = NextFinish]
    <3>1. GivenUp(r)
      BY <2>2, <1>a DEF GivenUp, Claimable, Undecided, RunTerminal
    <3> QED BY <3>1 DEF RowStep, GivenUp, Settled, Undecided, RunTerminal
  <2> QED BY <2>1, <2>2, <1>b
<1>4. CASE Restart
  <2>1. run'[r] = SweptAtBoot(run[r])
    BY <1>4 DEF Restart
  <2>2. ASSUME NEW row, run'[r] = Acknowledged(row),
               DOMAIN row = {"status", "lease", "artifacts", "manifest", "finished", "protected", "deleted"}
        PROVE  /\ run'[r].lease \in {row.lease, "closed"}
               /\ run'[r].status = row.status /\ run'[r].artifacts = row.artifacts
               /\ run'[r].manifest = row.manifest /\ run'[r].finished = row.finished
               /\ run'[r].protected = row.protected /\ run'[r].deleted = row.deleted
    BY <2>2 DEF Acknowledged
  <2>3. CASE run[r].status \in RunInFlight \ {"queued"}
    <3> DEFINE row == [run[r] EXCEPT !.status = "server_error", !.finished = NextFinish]
    <3>1. /\ row.status = "server_error" /\ row.finished = NextFinish
          /\ row.artifacts = run[r].artifacts /\ row.manifest = run[r].manifest
          /\ row.deleted = run[r].deleted
          /\ DOMAIN row = {"status", "lease", "artifacts", "manifest", "finished", "protected", "deleted"}
      BY <1>a
    <3>2. run'[r] = Acknowledged(row)
      BY <2>1, <2>3 DEF SweptAtBoot
    <3> HIDE DEF row
    <3>3. GivenUp(r)
      BY <2>2, <2>3, <3>1, <3>2 DEF GivenUp, Undecided, RunInFlight, RunTerminal
    <3> QED BY <3>3 DEF RowStep, GivenUp, Settled, Undecided, RunTerminal
  <2>4. CASE run[r].status \notin RunInFlight \ {"queued"}
    <3>1. run'[r] = Acknowledged(run[r])
      BY <2>1, <2>4 DEF SweptAtBoot
    <3> QED BY <3>1, <2>2, <1>a DEF RowStep, Same, Settled
  <2> QED BY <2>3, <2>4
<1>5. CASE ReplicaDies
  BY <1>5, <1>b DEF ReplicaDies
<1>6. CASE UNCHANGED vars
  BY <1>6, <1>b DEF vars, store
<1> QED BY <1>1, <1>2, <1>3, <1>4, <1>5, <1>6 DEF Next

-----------------------------------------------------------------------------
(* The lock of a run.                                                      *)

Active(s) == restore[s].status \in RestoreActive

(* The row of a restore becomes active by its admission alone, and its run *)
(* stays the same.                                                         *)
LEMMA RestoreWritesOwn ==
  ASSUME TypeInv, NEW s \in Restores, Tracks(s), Prepare(s) \/ Apply(s) \/ Cancel(s) \/ Operator(s)
  PROVE  \/ /\ Active(s)' => Active(s)
            /\ restore'[s].run = restore[s].run
         \/ /\ AdmitRestore(s) /\ prep[s] = "admitting"
            /\ restore'[s].run \in Runs /\ runLock[restore'[s].run] = s
<1> DEFINE Keeps == (Active(s)' => Active(s)) /\ restore'[s].run = restore[s].run
           Admits == /\ AdmitRestore(s) /\ prep[s] = "admitting"
                     /\ restore'[s].run \in Runs /\ runLock[restore'[s].run] = s
<1> SUFFICES Keeps \/ Admits OBVIOUS
<1>a. /\ DOMAIN restore = Restores
      /\ DOMAIN restore[s] = {"status", "run", "cancel", "destructive", "partial", "down"}
      /\ restore[s].status \in {"absent"} \cup RestoreActive \cup RestoreTerminal
  BY Shapes DEF TypeInv, TypeOK, StoreTypeOK, RestoreRows
<1>b. ASSUME restore' = restore PROVE Keeps
  BY <1>b DEF Active
<1>c. ASSUME NEW st, restore' = [restore EXCEPT ![s] = [restore[s] EXCEPT !.status = st]],
             Active(s) \/ st \in RestoreTerminal
      PROVE  Keeps
  BY <1>a, <1>c DEF Active, RestoreActive, RestoreInFlight, RestoreTerminal
<1>d. ASSUME NEW st, NEW d, restore' = [restore EXCEPT ![s] = [restore[s] EXCEPT !.status = st, !.destructive = d]],
             st \in RestoreTerminal
      PROVE  Keeps
  BY <1>a, <1>d DEF Active, RestoreActive, RestoreInFlight, RestoreTerminal
<1>1. ASSUME AdmitRestore(s) PROVE Keeps \/ Admits
  <2>1. PICK r \in Runs :
          /\ runLock[r] = s
          /\ \/ restore' = [restore EXCEPT ![s] = [NoRestore EXCEPT !.status = "queued", !.run = r]]
             \/ restore' = restore
    BY <1>1 DEF AdmitRestore
  <2>2. CASE restore' = [restore EXCEPT ![s] = [NoRestore EXCEPT !.status = "queued", !.run = r]]
    <3>1. restore'[s].run = r
      BY <2>2, <1>a DEF NoRestore
    <3>2. prep[s] = "admitting"
      BY <1>1 DEF AdmitRestore
    <3> QED BY <1>1, <2>1, <3>1, <3>2
  <2> HIDE DEF Keeps, Admits
  <2> QED BY <2>1, <2>2, <1>b
<1>2. ASSUME \/ VerifySource(s) \/ RequestCancel(s) \/ StartApply(s) \/ ResolveTarget(s) \/ StopService(s)
             \/ CheckStopped(s) \/ ApplyArtifact(s) \/ FailArtifact(s) \/ LoadService(s) \/ StartBack(s)
             \/ Unwind(s) \/ Leave(s) \/ \E r \in Runs : CheckSource(s, r)
      PROVE  Keeps
  <2>1. restore' = restore
    BY <1>2 DEF VerifySource, RequestCancel, StartApply, ResolveTarget, StopService, CheckStopped,
       ApplyArtifact, FailArtifact, LoadService, StartBack, Unwind, Leave, CheckSource
  <2> HIDE DEF Keeps
  <2> QED BY <2>1, <1>b
<1>3. ASSUME Pass(s) \/ StartPrepare(s) \/ ClaimApply(s) PROVE Keeps
  <2>1. \/ restore' = restore
        \/ /\ Unsettled(s)
           /\ \E st : restore' = [restore EXCEPT ![s] = [restore[s] EXCEPT !.status = st]]
    BY <1>3, <1>a DEF Pass, StartPrepare, ClaimApply, Settle, Eligible, Unsettled, RestoreTerminal
  <2>2. Unsettled(s) => Active(s)
    BY <1>3 DEF Pass, StartPrepare, ClaimApply, Eligible, Tracks, Reading, Active, Unsettled,
       RestoreActive, RestoreInFlight
  <2> HIDE DEF Keeps
  <2> QED BY <2>1, <2>2, <1>b, <1>c
<1>4. ASSUME CheckPrepared(s) PROVE Keeps
  <2>1. \/ restore' = restore
        \/ restore' = [restore EXCEPT ![s] = [restore[s] EXCEPT !.status = "cancelled", !.destructive = FALSE]]
        \/ restore' = [restore EXCEPT ![s] = [restore[s] EXCEPT !.status = "failed"]]
    BY <1>4 DEF CheckPrepared, Settle
  <2> HIDE DEF Keeps
  <2> QED BY <2>1, <1>b, <1>c, <1>d DEF RestoreTerminal
<1>5. ASSUME RecordVerdict(s) PROVE Keeps
  <2>1. \/ restore' = restore
        \/ restore' = [restore EXCEPT ![s] = [restore[s] EXCEPT !.status = apply[s].verdict]]
    BY <1>5 DEF RecordVerdict, Settle
  <2>2. apply[s].verdict \in RestoreTerminal
    BY DEF TypeInv, TypeOK, RestoreTypeOK, Applies, RestoreTerminal
  <2> HIDE DEF Keeps
  <2> QED BY <2>1, <2>2, <1>b, <1>c
<1>6. ASSUME RecordPrepared(s) \/ OpenArtifact(s) \/ RecordFlags(s) \/ FlagCancel(s) PROVE Keeps
  <2> DEFINE Kept == restore'[s].status = restore[s].status /\ restore'[s].run = restore[s].run
  <2>1. RecordPrepared(s) \/ OpenArtifact(s) \/ RecordFlags(s) => Kept
    BY FlagWrites
  <2>2. FlagCancel(s) => Kept
    BY <1>a DEF FlagCancel
  <2> QED BY <1>6, <2>1, <2>2 DEF Active
<1>7. ASSUME SettleCancel(s) PROVE Keeps
  <2>1. \/ restore' = restore
        \/ restore' = [restore EXCEPT ![s] = [restore[s] EXCEPT !.status = "cancelled", !.destructive = FALSE]]
    BY <1>7 DEF SettleCancel, Settle
  <2> HIDE DEF Keeps
  <2> QED BY <2>1, <1>b, <1>d DEF RestoreTerminal
<1> HIDE DEF Keeps, Admits
<1> QED BY <1>1, <1>2, <1>3, <1>4, <1>5, <1>6, <1>7 DEF Prepare, Apply, Cancel, Operator

LEMMA SourceSteps ==
  ASSUME RestoreInv, [Next]_vars, NEW s \in Restores, Active(s)'
  PROVE  \/ Active(s) /\ restore'[s].run = restore[s].run
         \/ /\ AdmitRestore(s) /\ prep[s] = "admitting" /\ RestoreNext
            /\ restore'[s].run \in Runs /\ runLock[restore'[s].run] = s
<1> DEFINE OK == \/ Active(s) /\ restore'[s].run = restore[s].run
                 \/ /\ AdmitRestore(s) /\ prep[s] = "admitting" /\ RestoreNext
                    /\ restore'[s].run \in Runs /\ runLock[restore'[s].run] = s
<1> SUFFICES OK OBVIOUS
<1>a. ASSUME restore'[s] = restore[s] PROVE OK
  BY <1>a DEF Active
<1>1. CASE JobNext \/ ClaimDeletion \/ Teardown \/ ReplicaDies
  <2>1. restore' = restore
    BY <1>1, JobsKeepPhase, DeletionKeepsRestores DEF ReplicaDies
  <2> QED BY <2>1, <1>a
<1>2. CASE RestoreNext /\ UNCHANGED <<job, teardown>>
  <2>1. PICK x \in Restores : Prepare(x) \/ Apply(x) \/ Cancel(x) \/ Operator(x)
    BY <1>2 DEF RestoreNext
  <2>2. CASE x = s
    BY <1>2, <2>1, <2>2, RestoreWritesOwn DEF RestoreInv
  <2>3. CASE x # s
    BY <2>1, <2>3, <1>a, RestoreOthers DEF RestoreInv
  <2> QED BY <2>2, <2>3
<1>3. CASE Restart
  <2>1. restore'[s] = RestoreSweptAtBoot(restore[s])
    BY <1>3 DEF Restart
  <2>2. DOMAIN restore[s] = {"status", "run", "cancel", "destructive", "partial", "down"}
    BY Shapes DEF RestoreInv
  <2>3. restore[s].status \notin RestoreInFlight
    <3>1. restore[s].status \in RestoreInFlight => restore'[s].status = "server_error"
      BY <2>1, <2>2 DEF RestoreSweptAtBoot
    <3> QED BY <3>1 DEF Active, RestoreActive, RestoreInFlight
  <2> QED BY <2>1, <2>3, <1>a DEF RestoreSweptAtBoot
<1>4. CASE UNCHANGED vars
  BY <1>4, <1>a DEF vars, store
<1> HIDE DEF OK
<1> QED BY <1>1, <1>2, <1>3, <1>4 DEF Next

Locking(w) == job[w].pc \in {"erase", "drop"}

LEMMA JobRunLocks ==
  ASSUME TypeInv, NEW w \in Workers,
         Capture(w) \/ Prune(w) \/ StartSweep(w) \/ \E r \in Runs : Deliver(w, r)
  PROVE  \/ /\ runLock' = runLock /\ (Locking(w)' <=> Locking(w))
            /\ Locking(w) => job'[w].run = job[w].run
         \/ /\ ~Locking(w) /\ Locking(w)'
            /\ \E v \in Runs : /\ runLock[v] = Nobody /\ Expendable(v)
                               /\ runLock' = [runLock EXCEPT ![v] = w] /\ job'[w].run = v
                               /\ run' = run
         \/ /\ Locking(w) /\ ~Locking(w)'
            /\ runLock' = [runLock EXCEPT ![job[w].run] = Nobody]
<1> DEFINE Keep == /\ runLock' = runLock /\ (Locking(w)' <=> Locking(w))
                   /\ Locking(w) => job'[w].run = job[w].run
           Take == /\ ~Locking(w) /\ Locking(w)'
                   /\ \E v \in Runs : /\ runLock[v] = Nobody /\ Expendable(v)
                                      /\ runLock' = [runLock EXCEPT ![v] = w] /\ job'[w].run = v
                                      /\ run' = run
           Leaves == /\ Locking(w) /\ ~Locking(w)'
                     /\ runLock' = [runLock EXCEPT ![job[w].run] = Nobody]
<1> SUFFICES Keep \/ Take \/ Leaves OBVIOUS
<1>1. ASSUME LockVictim(w) PROVE Keep \/ Take
  <2>1. job[w].victims \subseteq Runs
    BY DEF TypeInv, TypeOK, JobTypeOK, Jobs
  <2> QED BY <1>1, <2>1, PruneWrites DEF Locking
<1>2. ASSUME Erase(w) PROVE Keep \/ Leaves
  BY <1>2, PruneWrites DEF Locking
<1>3. ASSUME Drop(w) PROVE Leaves
  BY <1>3, PruneWrites DEF Locking
<1>4. ASSUME Survey(w) \/ EndPrune(w) PROVE Keep
  <2>1. IdleJob.pc = "idle"
    BY DEF IdleJob
  <2> QED BY <1>4, <2>1, PruneWrites DEF Locking
<1>5. ASSUME Capture(w) \/ StartSweep(w) \/ \E r \in Runs : Deliver(w, r) PROVE Keep
  <2>1. job[w].pc \notin {"erase", "drop"}
    BY <1>5 DEF StartSweep, Deliver, Capture, TakePolicyLock, TakeProjectLock, Claim, Snapshot, StartUpload,
       UploadBlock, FinishBlocks, RecordArtifacts, Verify, Succeed, RecordSuccess, FailCapture, Reclaim,
       Fail, Finish
  <2>2. CASE job[w].pc \notin InsidePcs
    <3>1. Capture(w) => TakePolicyLock(w) \/ TakeProjectLock(w)
      BY <2>2 DEF Capture, Claim, Snapshot, StartUpload, UploadBlock, FinishBlocks, RecordArtifacts, Verify, Succeed,
         RecordSuccess, FailCapture, Reclaim, Fail, Finish, InsidePcs, CapturePcs
    <3> QED BY <1>5, <2>1, <3>1, WaitWrites DEF Locking
  <2>3. CASE job[w].pc \in InsidePcs
    <3>1. job[w].run \in Runs
      BY <2>3 DEF TypeInv, Named, InsidePcs
    <3>2. ~StartSweep(w) /\ ~TakePolicyLock(w) /\ ~TakeProjectLock(w) /\ \A r \in Runs : ~Deliver(w, r)
      BY <2>3 DEF TakePolicyLock, TakeProjectLock, StartSweep, Deliver, InsidePcs, CapturePcs
    <3>3. IdleJob.pc = "idle"
      BY DEF IdleJob
    <3>4. Claim(w) \/ Snapshot(w) \/ StartUpload(w) => runLock' = runLock /\ job'[w].pc \notin {"erase", "drop"}
      BY <3>1, <3>3, StatusWrites DEF Refuses
    <3>5. UploadBlock(w) \/ FinishBlocks(w) \/ RecordArtifacts(w) \/ Verify(w) =>
            runLock' = runLock /\ job'[w].pc \notin {"erase", "drop"}
      BY <3>1, UploadWrites DEF Refuses
    <3>6. Succeed(w) \/ RecordSuccess(w) \/ FailCapture(w) \/ Reclaim(w) \/ Fail(w) \/ Finish(w) =>
            runLock' = runLock /\ job'[w].pc \notin {"erase", "drop"}
      BY <3>1, EndWrites DEF Refuses
    <3> QED BY <1>5, <2>1, <3>2, <3>4, <3>5, <3>6 DEF Locking, Capture
  <2> QED BY <2>2, <2>3
<1> HIDE DEF Keep, Take, Leaves
<1> QED BY <1>1, <1>2, <1>3, <1>4, <1>5 DEF Prune

LEMMA RestoreRunLocks ==
  ASSUME TypeInv, NEW s \in Restores, Prepare(s) \/ Apply(s) \/ Cancel(s) \/ Operator(s)
  PROVE  \/ runLock' = runLock /\ (prep[s] = "admitting" => prep'[s] = "admitting")
         \/ /\ prep[s] = "none" /\ prep'[s] = "admitting" /\ restore' = restore
            /\ \E r \in Runs : /\ runLock[r] = Nobody /\ r \in Restorable /\ ActiveRestores(r) = {}
                               /\ runLock' = [runLock EXCEPT ![r] = s]
         \/ /\ AdmitRestore(s) /\ prep[s] = "admitting"
            /\ \E r \in Runs : runLock[r] = s /\ runLock' = [runLock EXCEPT ![r] = Nobody]
<1> DEFINE Keep == runLock' = runLock /\ (prep[s] = "admitting" => prep'[s] = "admitting")
           Take == /\ prep[s] = "none" /\ prep'[s] = "admitting" /\ restore' = restore
                   /\ \E r \in Runs : /\ runLock[r] = Nobody /\ r \in Restorable /\ ActiveRestores(r) = {}
                                      /\ runLock' = [runLock EXCEPT ![r] = s]
           Leaves == /\ AdmitRestore(s) /\ prep[s] = "admitting"
                     /\ \E r \in Runs : runLock[r] = s /\ runLock' = [runLock EXCEPT ![r] = Nobody]
<1> SUFFICES Keep \/ Take \/ Leaves OBVIOUS
<1>a. DOMAIN prep = Restores
  BY Shapes
<1>1. ASSUME NEW r \in Runs, CheckSource(s, r) PROVE Take
  BY <1>1, <1>a DEF CheckSource, PrepGoto
<1>2. ASSUME AdmitRestore(s) PROVE Leaves
  BY <1>2 DEF AdmitRestore
<1>3. ASSUME StartPrepare(s) \/ VerifySource(s) \/ CheckPrepared(s) \/ Pass(s) \/ RecordPrepared(s) PROVE Keep
  BY <1>3 DEF StartPrepare, VerifySource, CheckPrepared, Pass, RecordPrepared
<1>4. ASSUME Apply(s) PROVE Keep
  BY <1>4 DEF Apply, StartApply, ResolveTarget, StopService, CheckStopped, OpenArtifact, ApplyArtifact,
     FailArtifact, LoadService, StartBack, Unwind, RecordVerdict, RecordFlags, Leave
<1>5. ASSUME Cancel(s) \/ RequestCancel(s) \/ ClaimApply(s) PROVE Keep
  BY <1>5 DEF Cancel, FlagCancel, SettleCancel, RequestCancel, ClaimApply
<1> HIDE DEF Keep, Take, Leaves
<1> QED BY <1>1, <1>2, <1>3, <1>4, <1>5 DEF Prepare, Operator

(* Who deletes a restore point holds the lock of its run, and nobody       *)
(* restores it, protects it or leases it meanwhile; who prepares a restore *)
(* from it holds the lock until the row that tells so is there.            *)
Unused(r) == r \in Restorable /\ ActiveRestores(r) = {}

RunLocked ==
  /\ \A w \in Workers : Locking(w) => runLock[job[w].run] = w
  /\ \A w \in Workers, r \in Runs : runLock[r] = w =>
       /\ Locking(w) /\ job[w].run = r /\ Unused(r)
       /\ ~run[r].protected /\ run[r].lease # "open"
  /\ \A s \in Restores, r \in Runs : runLock[r] = s =>
       /\ prep[s] = "admitting" /\ Unused(r)
       /\ \A x \in Runs \ {r} : runLock[x] # s
  /\ \A s \in Restores : Active(s) => restore[s].run \in Restorable

LEMMA PointKept ==
  ASSUME TypeInv, [Next]_vars, NEW r \in Restorable
  PROVE  /\ run'[r].status = "succeeded" /\ run'[r].finished = run[r].finished
         /\ (\A w \in Workers : ~(Drop(w) /\ job[w].run = r)) => r \in Restorable'
         /\ run'[r].protected = run[r].protected \/ runLock[r] = Nobody
         /\ run'[r].lease \in {run[r].lease, "closed"}
<1>1. r \in Runs /\ run[r].status = "succeeded" /\ ~run[r].deleted
  BY DEF Restorable
<1>2. RowStep(r) /\ Settled(r)
  BY <1>1, RowSteps
<1>3. /\ run'[r].status = "succeeded" /\ run'[r].finished = run[r].finished
      /\ (\A w \in Workers : ~(Drop(w) /\ job[w].run = r)) => run'[r].deleted = run[r].deleted
  BY <1>1, <1>2 DEF RowStep, Same, Created, GoesOn, GivenUp, Recorded, Succeeded, Completed, Failed, Dropped,
     Undecided, RunTerminal
<1> QED BY <1>1, <1>2, <1>3 DEF Settled, Restorable

LEMMA UnusedKept ==
  ASSUME RestoreInv, [Next]_vars, NEW r \in Runs, Unused(r),
         \A w \in Workers : ~(Drop(w) /\ job[w].run = r),
         \A s \in Restores : ~(AdmitRestore(s) /\ runLock[r] = s)
  PROVE  Unused(r)'
<1>1. r \in Restorable'
  BY PointKept DEF Unused, RestoreInv
<1>2. ASSUME NEW s \in Restores, Active(s)', restore'[s].run = r PROVE FALSE
  <2>1. \/ Active(s) /\ restore'[s].run = restore[s].run
        \/ AdmitRestore(s) /\ runLock[restore'[s].run] = s
    BY <1>2, SourceSteps
  <2>2. Active(s) /\ restore[s].run = r
    BY <1>2, <2>1
  <2> QED BY <2>2 DEF Unused, ActiveRestores, Active
<1> QED BY <1>1, <1>2 DEF Unused, ActiveRestores, Active

LEMMA RunLockStep ==
  ASSUME RestoreInv, RunLocked, [Next]_vars
  PROVE  RunLocked'
<1>a. /\ TypeInv /\ DOMAIN runLock = Runs
      /\ \A w \in Workers : Locking(w) => job[w].run \in Runs
  BY DEF RestoreInv, TypeInv, TypeOK, StoreTypeOK, Named, Locking
<1>b. /\ \A w \in Workers : Locking(w) => runLock[job[w].run] = w
      /\ \A w \in Workers, r \in Runs : runLock[r] = w =>
           /\ Locking(w) /\ job[w].run = r /\ Unused(r)
           /\ ~run[r].protected /\ run[r].lease # "open"
      /\ \A s \in Restores, r \in Runs : runLock[r] = s =>
           /\ prep[s] = "admitting" /\ Unused(r)
           /\ \A x \in Runs \ {r} : runLock[x] # s
      /\ \A s \in Restores : Active(s) => restore[s].run \in Restorable
  BY DEF RunLocked
<1>c. /\ \A w \in Workers : w # Nobody /\ \A s \in Restores : w # s
      /\ \A s \in Restores : s # Nobody
  BY Distinct
<1>d. \A w \in Workers : Drop(w) => /\ Locking(w) /\ job[w].run \in Runs /\ runLock[job[w].run] = w
                                    /\ ~Locking(w)'
  <2>1. \A w \in Workers : Drop(w) => job[w].pc = "drop" /\ job'[w].pc = "victim"
    BY <1>a, PruneWrites
  <2> QED BY <2>1, <1>a, <1>b DEF Locking
<1>e. \A s \in Restores : AdmitRestore(s) => prep'[s] # "admitting"
  <2>1. DOMAIN prep = Restores
    BY <1>a, Shapes
  <2> QED BY <2>1 DEF AdmitRestore, PrepGoto
<1>f. ASSUME NEW w \in Workers, NEW r \in Runs, runLock[r] = w, Locking(w)'
      PROVE  Unused(r)' /\ ~run'[r].protected /\ run'[r].lease # "open"
  <2>1. r \in Restorable /\ Unused(r) /\ ~run[r].protected /\ run[r].lease # "open"
    BY <1>b, <1>f DEF Unused
  <2>2. \A x \in Workers : ~(Drop(x) /\ job[x].run = r)
    BY <1>d, <1>f
  <2>3. \A s \in Restores : ~(AdmitRestore(s) /\ runLock[r] = s)
    BY <1>c, <1>f
  <2>4. Unused(r)'
    BY <2>1, <2>2, <2>3, UnusedKept
  <2>5. /\ run'[r].protected = run[r].protected \/ runLock[r] = Nobody
        /\ run'[r].lease \in {run[r].lease, "closed"}
    BY <2>1, <1>a, PointKept
  <2> QED BY <2>1, <2>4, <2>5, <1>c, <1>f
<1>g. ASSUME NEW s \in Restores, NEW r \in Runs, runLock[r] = s, prep'[s] = "admitting"
      PROVE  Unused(r)'
  <2>1. \A x \in Workers : ~(Drop(x) /\ job[x].run = r)
    BY <1>c, <1>d, <1>g
  <2>2. \A x \in Restores : ~(AdmitRestore(x) /\ runLock[r] = x)
    BY <1>e, <1>g
  <2> QED BY <2>1, <2>2, <1>b, <1>g, UnusedKept
<1>h. ASSUME NEW r \in Runs, Unused(r), runLock[r] = Nobody PROVE Unused(r)'
  <2>1. \A x \in Workers : ~(Drop(x) /\ job[x].run = r)
    BY <1>c, <1>d, <1>h
  <2>2. \A x \in Restores : ~(AdmitRestore(x) /\ runLock[r] = x)
    BY <1>c, <1>h
  <2> QED BY <2>1, <2>2, <1>h, UnusedKept
<1>i. ASSUME NEW s \in Restores, Active(s)' PROVE restore'[s].run \in Restorable'
  <2>1. CASE Active(s) /\ restore'[s].run = restore[s].run
    <3>1. restore[s].run \in Restorable /\ ~Unused(restore[s].run)
      BY <2>1, <1>b DEF Active, Unused, ActiveRestores
    <3>2. restore[s].run \in Runs
      BY <3>1 DEF Restorable
    <3>3. \A w \in Workers : ~(Drop(w) /\ job[w].run = restore[s].run)
      BY <3>1, <1>b, <1>d
    <3> QED BY <2>1, <3>1, <3>3, <1>a, PointKept
  <2>2. CASE AdmitRestore(s) /\ restore'[s].run \in Runs /\ runLock[restore'[s].run] = s
    <3>1. restore'[s].run \in Restorable
      BY <2>2, <1>b DEF Unused
    <3>2. \A w \in Workers : ~(Drop(w) /\ job[w].run = restore'[s].run)
      BY <2>2, <1>c, <1>d
    <3> QED BY <3>1, <3>2, <1>a, PointKept
  <2> QED BY <1>i, <2>1, <2>2, SourceSteps
<1> DEFINE Jobs1 == \A w \in Workers : Locking(w)' => runLock'[job'[w].run] = w
           Jobs2 == \A w \in Workers, r \in Runs : runLock'[r] = w =>
                      Locking(w)' /\ job'[w].run = r /\ Unused(r)' /\ ~run'[r].protected /\ run'[r].lease # "open"
           Rest == \A s \in Restores, r \in Runs : runLock'[r] = s =>
                     prep'[s] = "admitting" /\ Unused(r)' /\ \A x \in Runs \ {r} : runLock'[x] # s
<1> SUFFICES Jobs1 /\ Jobs2 /\ Rest
  BY <1>i DEF RunLocked
<1>j. ASSUME runLock' = runLock, prep' = prep,
             \A w \in Workers : Locking(w) => Locking(w)' /\ job'[w].run = job[w].run,
             \A w \in Workers : Locking(w)' => Locking(w)
      PROVE  Jobs1 /\ Jobs2 /\ Rest
  BY <1>b, <1>f, <1>g, <1>j
<1>1. CASE JobNext /\ UNCHANGED <<restoreVars, teardown>>
  <2>1. prep' = prep
    BY <1>1 DEF restoreVars
  <2>2. CASE Trigger
    <3>1. runLock' = runLock /\ job' = job
      BY <2>2, <1>a, TriggerWrites DEF locks
    <3> HIDE DEF Jobs1, Jobs2, Rest
    <3> QED BY <2>1, <3>1, <1>j DEF Locking
  <2>3. ASSUME NEW w \in Workers,
               Capture(w) \/ Prune(w) \/ StartSweep(w) \/ \E r \in Runs : Deliver(w, r)
        PROVE  Jobs1 /\ Jobs2 /\ Rest
    <3>1. \A x \in Workers \ {w} : job'[x] = job[x] /\ (Locking(x)' <=> Locking(x))
      BY <2>3, <1>a, JobOthers DEF Locking
    <3>2. CASE /\ runLock' = runLock /\ (Locking(w)' <=> Locking(w))
               /\ Locking(w) => job'[w].run = job[w].run
      <4>1. \A x \in Workers : /\ Locking(x) => Locking(x)' /\ job'[x].run = job[x].run
                               /\ Locking(x)' => Locking(x)
        BY <3>1, <3>2
      <4> HIDE DEF Jobs1, Jobs2, Rest
      <4> QED BY <2>1, <3>2, <4>1, <1>j
    <3>3. ASSUME ~Locking(w), Locking(w)', NEW v \in Runs, runLock[v] = Nobody, Expendable(v),
                 runLock' = [runLock EXCEPT ![v] = w], job'[w].run = v, run' = run
          PROVE  Jobs1 /\ Jobs2 /\ Rest
      <4>1. Unused(v) /\ ~run[v].protected /\ run[v].lease # "open"
        BY <3>3 DEF Expendable, Candidates, Unused
      <4>2. Unused(v)'
        BY <4>1, <3>3, <1>h
      <4>3. runLock'[v] = w /\ \A r \in Runs \ {v} : runLock'[r] = runLock[r]
        BY <3>3, <1>a
      <4>4. Jobs1
        BY <3>1, <3>3, <4>3, <1>a, <1>b, <1>c
      <4>5. Jobs2
        <5>1. ASSUME NEW x \in Workers, NEW r \in Runs, runLock'[r] = x, r # v
              PROVE  Locking(x)' /\ job'[x].run = r
          BY <3>1, <3>3, <4>3, <5>1, <1>b
        <5>2. ASSUME NEW x \in Workers, runLock'[v] = x
              PROVE  Locking(x)' /\ job'[x].run = v /\ Unused(v)' /\ ~run'[v].protected /\ run'[v].lease # "open"
          BY <3>3, <4>1, <4>2, <4>3, <5>2
        <5> QED BY <4>3, <5>1, <5>2, <1>f
      <4>6. Rest
        BY <2>1, <3>3, <4>3, <1>b, <1>c, <1>g
      <4> QED BY <4>4, <4>5, <4>6
    <3>4. CASE /\ Locking(w) /\ ~Locking(w)'
               /\ runLock' = [runLock EXCEPT ![job[w].run] = Nobody]
      <4>1. job[w].run \in Runs /\ runLock[job[w].run] = w
        BY <3>4, <1>a, <1>b
      <4>2. runLock'[job[w].run] = Nobody /\ \A r \in Runs \ {job[w].run} : runLock'[r] = runLock[r]
        BY <3>4, <4>1, <1>a
      <4>3. Jobs1
        BY <3>1, <3>4, <4>1, <4>2, <1>a, <1>b
      <4>4. Jobs2
        <5>1. ASSUME NEW x \in Workers, NEW r \in Runs, runLock'[r] = x
              PROVE  x # w /\ Locking(x)' /\ job'[x].run = r /\ runLock[r] = x
          BY <3>1, <3>4, <4>1, <4>2, <5>1, <1>b, <1>c
        <5> QED BY <5>1, <1>f
      <4>5. Rest
        BY <2>1, <4>2, <1>b, <1>c, <1>g
      <4> QED BY <4>3, <4>4, <4>5
    <3> HIDE DEF Jobs1, Jobs2, Rest
    <3> QED BY <2>3, <3>2, <3>3, <3>4, <1>a, JobRunLocks
  <2> HIDE DEF Jobs1, Jobs2, Rest
  <2> QED BY <1>1, <2>2, <2>3 DEF JobNext
<1>2. CASE RestoreNext /\ UNCHANGED <<job, teardown>>
  <2>1. PICK s \in Restores : Prepare(s) \/ Apply(s) \/ Cancel(s) \/ Operator(s)
    BY <1>2 DEF RestoreNext
  <2>2. \A x \in Restores \ {s} : prep'[x] = prep[x]
    BY <2>1, <1>a, RestoreOthers
  <2>3. \A w \in Workers : job'[w] = job[w] /\ (Locking(w)' <=> Locking(w))
    BY <1>2 DEF Locking
  <2>4. CASE runLock' = runLock /\ (prep[s] = "admitting" => prep'[s] = "admitting")
    BY <2>2, <2>3, <2>4, <1>b, <1>f, <1>g
  <2>5. ASSUME prep[s] = "none", prep'[s] = "admitting", NEW r \in Runs, runLock[r] = Nobody, Unused(r),
               runLock' = [runLock EXCEPT ![r] = s]
        PROVE  Jobs1 /\ Jobs2 /\ Rest
    <3>1. runLock'[r] = s /\ \A x \in Runs \ {r} : runLock'[x] = runLock[x]
      BY <2>5, <1>a
    <3>2. Unused(r)'
      BY <2>5, <1>h
    <3>3. Jobs1
      BY <2>3, <2>5, <3>1, <1>a, <1>b, <1>c
    <3>4. Jobs2
      BY <2>3, <3>1, <1>b, <1>c, <1>f
    <3>5. Rest
      <4>1. \A x \in Runs \ {r} : runLock'[x] # s
        BY <2>5, <3>1, <1>b
      <4>2. ASSUME NEW t \in Restores, NEW x \in Runs, runLock'[x] = t, t # s
            PROVE  prep'[t] = "admitting" /\ Unused(x)' /\ \A y \in Runs \ {x} : runLock'[y] # t
        BY <2>2, <3>1, <4>2, <1>b, <1>g
      <4> QED BY <2>5, <3>1, <3>2, <4>1, <4>2
    <3> QED BY <3>3, <3>4, <3>5
  <2>6. ASSUME NEW r \in Runs, runLock[r] = s, runLock' = [runLock EXCEPT ![r] = Nobody]
        PROVE  Jobs1 /\ Jobs2 /\ Rest
    <3>1. runLock'[r] = Nobody /\ \A x \in Runs \ {r} : runLock'[x] = runLock[x]
      BY <2>6, <1>a
    <3>2. \A x \in Runs : runLock'[x] # s
      BY <2>6, <3>1, <1>b, <1>c
    <3>3. Jobs1
      BY <2>3, <2>6, <3>1, <1>a, <1>b, <1>c
    <3>4. Jobs2
      BY <2>3, <3>1, <1>b, <1>c, <1>f
    <3>5. Rest
      BY <2>2, <3>1, <3>2, <1>b, <1>c, <1>g
    <3> QED BY <3>3, <3>4, <3>5
  <2> HIDE DEF Jobs1, Jobs2, Rest
  <2> QED BY <2>1, <2>4, <2>5, <2>6, <1>a, RestoreRunLocks DEF Unused
<1>3. CASE ClaimDeletion \/ Teardown
  <2>1. runLock' = runLock /\ prep' = prep /\ job' = job
    BY <1>3, DeletionKeepsRestores
  <2> HIDE DEF Jobs1, Jobs2, Rest
  <2> QED BY <2>1, <1>j DEF Locking
<1>4. CASE Restart \/ ReplicaDies
  <2>1. PICK W \in SUBSET Workers, S \in SUBSET Restores, d \in BOOLEAN : Die(W, S, d)
    BY <1>4 DEF Restart, ReplicaDies
  <2> DEFINE owners == W \cup S \cup (IF d THEN {"teardown"} ELSE {})
  <2>2. IdleJob.pc = "idle"
    BY DEF IdleJob
  <2>3. \A w \in Workers : IF w \in W THEN job'[w] = IdleJob ELSE job'[w] = job[w]
    BY <2>1 DEF Die
  <2>4. \A s \in Restores : s \notin S => prep'[s] = prep[s]
    BY <2>1 DEF Die
  <2>5. \A r \in Runs : runLock'[r] = IF runLock[r] \in owners THEN Nobody ELSE runLock[r]
    BY <2>1 DEF Die, Freed
  <2>6. /\ W \subseteq owners /\ S \subseteq owners
        /\ \A w \in Workers \ W : w \notin owners
    BY Distinct
  <2> HIDE DEF owners
  <2>7. Jobs1
    BY <2>2, <2>3, <2>5, <2>6, <1>a, <1>b DEF Locking
  <2>8. Jobs2
    <3>1. ASSUME NEW w \in Workers, NEW r \in Runs, runLock'[r] = w
          PROVE  runLock[r] = w /\ w \notin W
      BY <2>5, <2>6, <3>1, <1>c
    <3>2. \A w \in Workers \ W : Locking(w)' <=> Locking(w)
      BY <2>3 DEF Locking
    <3> QED BY <2>3, <3>1, <3>2, <1>b, <1>f
  <2>9. Rest
    <3>1. ASSUME NEW s \in Restores, NEW r \in Runs, runLock'[r] = s
          PROVE  runLock[r] = s /\ s \notin S
      BY <2>5, <2>6, <3>1, <1>c
    <3>2. ASSUME NEW s \in Restores, NEW r \in Runs, runLock'[r] = s, NEW x \in Runs \ {r}
          PROVE  runLock'[x] # s
      BY <2>5, <3>1, <3>2, <1>b, <1>c
    <3> QED BY <2>4, <3>1, <3>2, <1>b, <1>g
  <2> QED BY <2>7, <2>8, <2>9
<1>5. CASE UNCHANGED vars
  <2>1. runLock' = runLock /\ prep' = prep /\ job' = job
    BY <1>5 DEF vars, store, locks, restoreVars
  <2> HIDE DEF Jobs1, Jobs2, Rest
  <2> QED BY <2>1, <1>j DEF Locking
<1> HIDE DEF Jobs1, Jobs2, Rest
<1> QED BY <1>1, <1>2, <1>3, <1>4, <1>5 DEF Next

(* The inductive invariant behind the locks of captures and of retention.  *)
LockInv == RestoreInv /\ PolicyLocked /\ RunLocked /\ Leased

LEMMA LockInvHolds == Spec => []LockInv
<1>1. Init => LockInv
  <2> SUFFICES ASSUME Init PROVE LockInv
    OBVIOUS
  <2>1. \A w \in Workers : job[w].pc = "idle"
    BY DEF Init, JobInit, IdleJob
  <2>2. (\A r \in Runs : runLock[r] = Nobody) /\ \A s \in Restores : restore[s].status = "absent"
    BY DEF Init, StoreInit, NoRestore
  <2>3. PolicyLocked /\ Leased
    BY <2>1 DEF PolicyLocked, HoldsPolicy, PrunePcs, InsidePcs, CapturePcs, Leased, Capturing
  <2>4. RunLocked
    BY <2>1, <2>2, Distinct DEF RunLocked, Locking, Active, RestoreActive, RestoreInFlight
  <2> QED BY <2>3, <2>4, RestoreInvAtStart DEF LockInv
<1>2. LockInv /\ [Next]_vars => LockInv'
  BY RestoreInvStep, PolicyLockStep, RunLockStep, LeasedStep DEF LockInv, RestoreInv
<1> QED BY <1>1, <1>2, PTL DEF Spec

(* One worker captures a run at a time, and the lease that it took at its  *)
(* claim is open until it ends, whatever became of the row meanwhile       *)
(* (LeaseCoversWork): a deletion that waits for the lease waits for it.    *)
THEOREM LeaseAlwaysCoversWork == Spec => []LeaseCoversWork
<1>1. LockInv => LeaseCoversWork
  <2> SUFFICES ASSUME LockInv PROVE LeaseCoversWork
    OBVIOUS
  <2>1. \A w \in Workers : \A x \in Workers \ {w} : Capturing(w) => ~Capturing(x)
    BY OneInside DEF LockInv, RestoreInv, Capturing, InsidePcs
  <2> QED BY <2>1 DEF LeaseCoversWork, LockInv, Leased
<1> QED BY <1>1, LockInvHolds, PTL

-----------------------------------------------------------------------------
(* Restore points keep their objects.                                      *)

(* A run is finished when its row is decided, later than all that were. It *)
(* refers to objects of its own and of runs that succeeded.                *)
RowAt(r) ==
  /\ run[r].finished > 0 <=> run[r].status \in RunTerminal
  /\ run[r].finished < NextFinish
  /\ \A o \in run[r].artifacts : o[2] # "manifest" /\ (o[1] = r \/ run[o[1]].status = "succeeded")
  /\ r \in Restorable => run[r].artifacts # {}

WaitingPcs == {"policy", "project", "claim"}

(* Of a run that it captures: what it may reuse is of runs that succeeded, *)
(* when the capture is incremental, and what it uploads is its own.        *)
Lineage(w, r) ==
  /\ \A o \in job[w].old : o[2] # "manifest" /\ run[o[1]].status = "succeeded"
  /\ ~job[w].frozen => job[w].old = {}
  /\ \A o \in job[w].kept : o[2] # "manifest" /\ (o[1] = r \/ o \in job[w].old)
  /\ \A o \in job[w].uploaded : o[1] = r

(* What a slot that captures a run keeps is stored; and the run has not    *)
(* succeeded until the slot knows.                                         *)
HeldAt(w, r) ==
  /\ job[w].pc \in WaitingPcs \cup {"snapshot", "upload"} =>
       job[w].old = {} /\ job[w].kept = {} /\ job[w].uploaded = {}
  /\ job[w].pc \in WaitingPcs \cup CapturePcs => Lineage(w, r)
  /\ job[w].pc \in CapturePcs => ~run[r].deleted
  /\ job[w].pc \in CapturePcs \ {"payload", "finish"} => run[r].status # "succeeded"
  /\ job[w].pc \in {"blocks", "record", "verify", "succeed", "payload"} => job[w].kept \subseteq stored
  /\ job[w].pc = "blocks" => job[w].content # {}
  /\ job[w].pc \in {"record", "verify", "succeed", "payload"} => job[w].kept # {}
  /\ job[w].pc \in {"verify", "succeed", "payload"} => run[r].artifacts = job[w].kept
  /\ job[w].pc = "payload" => run[r].status = "succeeded"
  /\ job[w].pc \in {"succeed", "payload"} => Own(r, "manifest") \in stored

(* The plan of retention holds objects of restore points, the manifest of  *)
(* each, and all that a restore point refers to, unless it was captured    *)
(* since: then it shares nothing with the plan.                            *)
Planned(w, r) ==
  \/ run[r].artifacts \subseteq job[w].plan[r]
  \/ /\ \A o \in run[r].artifacts : o[1] = r
     /\ \A v \in Runs : \A o \in job[w].plan[v] : o[1] # r

Newer(r, S) == {x \in S : run[x].finished > run[r].finished}

PlanAt(w) ==
  job[w].pc \in {"victim", "erase", "drop"} =>
    /\ job[w].victims \subseteq Restorable
    /\ Locking(w) => job[w].run \in job[w].victims
    /\ \A v \in job[w].victims : Cardinality(Newer(v, Restorable \ job[w].victims)) >= RetainCount
    /\ \A v \in Runs : \A o \in job[w].plan[v] :
         run[o[1]].status = "succeeded" /\ (o[2] = "manifest" => o[1] = v)
    /\ \A r \in Restorable : Planned(w, r)

Newest(r) == r \in Restorable /\ \A x \in Restorable : run[x].finished <= run[r].finished

(* Told that its source is sound, a restore relies on it until it is over. *)
Relies(s) ==
  Active(s) /\ (prep[s] \in {"verified", "passing"} \/ restore[s].status \in {"prepared", "applying"})

Sound ==
  /\ \A r \in Runs : Newest(r) => Keys(r) \subseteq stored
  /\ \A s \in Restores : Relies(s) => run[restore[s].run].artifacts \subseteq stored

PointInv ==
  /\ \A r \in Runs : RowAt(r)
  /\ \A w \in Workers : HeldAt(w, job[w].run)
  /\ \A w \in Workers : PlanAt(w)
  /\ Sound

(* Objects as a row, a slot or a plan names them.                          *)
LEMMA ObjectsNamed ==
  ASSUME TypeInv
  PROVE  /\ \A o \in Objects : o[1] \in Runs
         /\ \A r \in Runs : run[r].artifacts \subseteq Objects
         /\ \A w \in Workers :
              /\ job[w].old \subseteq Objects /\ job[w].kept \subseteq Objects
              /\ job[w].uploaded \subseteq Objects
              /\ \A r \in Runs : job[w].plan[r] \subseteq Objects
BY DEF TypeInv, TypeOK, StoreTypeOK, JobTypeOK, Jobs, RunRows, Objects

LEMMA SuccessLasts ==
  ASSUME TypeInv, [Next]_vars, NEW r \in Runs, run[r].status = "succeeded"
  PROVE  run'[r].status = "succeeded"
<1>1. RowStep(r)
  BY RowSteps
<1> QED
  BY <1>1 DEF RowStep, Same, Created, GoesOn, GivenUp, Recorded, Succeeded, Completed, Failed, Dropped,
     Undecided, RunTerminal

(* The next rank grows when a run is finished, and never shrinks.          *)
LEMMA RanksGrow ==
  ASSUME TypeInv, [Next]_vars, \A r \in Runs : RowAt(r)
  PROVE  /\ NextFinish \in Nat /\ NextFinish' \in Nat /\ NextFinish > 0
         /\ NextFinish <= NextFinish'
         /\ \A r \in Runs : Undecided(r) /\ run'[r].finished = NextFinish => NextFinish < NextFinish'
<1> DEFINE T == {r \in Runs : run[r].finished > 0}
           U == {r \in Runs : run'[r].finished > 0}
<1>1. IsFiniteSet(T) /\ IsFiniteSet(U) /\ Cardinality(T) \in Nat /\ Cardinality(U) \in Nat
  BY RunsAssumption, FS_Subset, FS_CardinalityType
<1>2. NextFinish = 1 + Cardinality(T) /\ NextFinish' = 1 + Cardinality(U)
  BY DEF NextFinish
<1>3. \A r \in Runs : run[r].finished > 0 => run'[r].finished > 0
  <2> SUFFICES ASSUME NEW r \in Runs, run[r].finished > 0 PROVE run'[r].finished > 0
    OBVIOUS
  <2>1. run[r].status \in RunTerminal
    BY DEF RowAt
  <2>2. RowStep(r)
    BY RowSteps
  <2>3. run'[r].finished = run[r].finished
    BY <2>1, <2>2 DEF RowStep, Same, Created, GoesOn, GivenUp, Recorded, Succeeded, Completed, Failed, Dropped,
       Undecided, RunTerminal
  <2> QED BY <2>3
<1>4. T \subseteq U
  BY <1>3
<1>5. Cardinality(T) <= Cardinality(U)
  BY <1>1, <1>4, FS_Subset
<1>6. ASSUME NEW r \in Runs, Undecided(r), run'[r].finished = NextFinish
      PROVE  Cardinality(T) < Cardinality(U)
  <2>1. r \in U /\ r \notin T
    BY <1>1, <1>2, <1>6 DEF RowAt, Undecided
  <2> QED BY <1>1, <1>4, <2>1, FS_Subset
<1> HIDE DEF T, U
<1> QED BY <1>1, <1>2, <1>5, <1>6

-----------------------------------------------------------------------------
(* What leaves the destination.                                            *)

Works(w) == Capture(w) \/ Prune(w) \/ StartSweep(w) \/ \E r \in Runs : Deliver(w, r)

(* One slot works, or none does and some may die.                          *)
LEMMA JobSteps ==
  ASSUME TypeInv, [Next]_vars
  PROVE  \/ \E w \in Workers :
              /\ Works(w) /\ \A x \in Workers \ {w} : job'[x] = job[x]
              /\ UNCHANGED <<restore, prep>>
         \/ /\ stored' = stored
            /\ \A w \in Workers : job'[w] = job[w] \/ job'[w] = IdleJob
<1> DEFINE One == \E w \in Workers :
                    /\ Works(w) /\ \A x \in Workers \ {w} : job'[x] = job[x]
                    /\ UNCHANGED <<restore, prep>>
           None == /\ stored' = stored
                   /\ \A w \in Workers : job'[w] = job[w] \/ job'[w] = IdleJob
<1> SUFFICES One \/ None OBVIOUS
<1>1. CASE JobNext /\ UNCHANGED <<restoreVars, teardown>>
  <2>1. CASE Trigger
    <3>1. None
      BY <2>1, TriggerWrites
    <3> QED BY <3>1
  <2>2. ASSUME NEW w \in Workers, Works(w) PROVE One
    <3>1. \A x \in Workers \ {w} : job'[x] = job[x]
      BY <2>2, JobOthers DEF Works
    <3>2. UNCHANGED <<restore, prep>>
      BY <1>1, JobsKeepPhase DEF restoreVars
    <3> QED BY <2>2, <3>1, <3>2
  <2> HIDE DEF One, None
  <2> QED BY <1>1, <2>1, <2>2 DEF JobNext, Works
<1>2. CASE RestoreNext /\ UNCHANGED <<job, teardown>>
  <2>1. stored' = stored
    BY <1>2, RestoresKeepRuns DEF RestoreNext
  <2> QED BY <1>2, <2>1
<1>3. CASE ClaimDeletion \/ Teardown
  BY <1>3, DeletionKeepsRestores
<1>4. CASE Restart \/ ReplicaDies
  <2>1. PICK W \in SUBSET Workers, S \in SUBSET Restores, d \in BOOLEAN : Die(W, S, d)
    BY <1>4 DEF Restart, ReplicaDies
  <2> QED BY <2>1 DEF Die
<1>5. CASE UNCHANGED vars
  BY <1>5 DEF vars, store
<1> HIDE DEF One, None
<1> QED BY <1>1, <1>2, <1>3, <1>4, <1>5 DEF Next

LEMMA StoredKept ==
  ASSUME TypeInv, [Next]_vars, NEW o \in stored,
         \A w \in Workers : /\ Reclaim(w) => o \notin job[w].uploaded
                            /\ Erase(w) => o \notin Unshared(w)
  PROVE  o \in stored'
<1> SUFFICES ASSUME NEW w \in Workers, Works(w) PROVE o \in stored'
  BY JobSteps
<1>1. CASE job[w].pc \notin InsidePcs
  <2>1. Survey(w) \/ LockVictim(w) \/ Drop(w) \/ EndPrune(w) => stored' = stored
    BY PruneWrites
  <2>2. Erase(w) => o \in stored'
    BY PruneWrites
  <2> QED BY <1>1, <2>1, <2>2, OutsideWrites DEF Works, Prune
<1>2. CASE job[w].pc \in InsidePcs
  <2>1. PICK r \in Runs : r = job[w].run
    BY <1>2 DEF TypeInv, Named, InsidePcs
  <2>2. Claim(w) \/ Snapshot(w) \/ StartUpload(w) => stored' = stored
    BY <2>1, StatusWrites
  <2>3. UploadBlock(w) \/ FinishBlocks(w) \/ RecordArtifacts(w) \/ Verify(w) => stored \subseteq stored'
    BY <2>1, UploadWrites DEF Refuses
  <2>4. Succeed(w) \/ RecordSuccess(w) \/ FailCapture(w) \/ Fail(w) \/ Finish(w) => stored' = stored
    BY <2>1, EndWrites
  <2>5. Reclaim(w) => o \in stored'
    BY <2>1, EndWrites
  <2>6. /\ ~TakePolicyLock(w) /\ ~TakeProjectLock(w) /\ ~StartSweep(w) /\ ~Prune(w)
        /\ \A x \in Runs : ~Deliver(w, x)
    BY <1>2 DEF TakePolicyLock, TakeProjectLock, StartSweep, Deliver, Prune, Survey, LockVictim, Erase, Drop,
       EndPrune, InsidePcs, CapturePcs
  <2> QED BY <2>2, <2>3, <2>4, <2>5, <2>6 DEF Works, Capture
<1> QED BY <1>1, <1>2

(* Retention erases what belongs to runs that succeeded, and nothing that  *)
(* another restore point refers to.                                        *)
LEMMA ErasedObjects ==
  ASSUME LockInv, PointInv, NEW x \in Workers, job[x].pc = "erase", NEW o \in Unshared(x)
  PROVE  /\ run[o[1]].status = "succeeded"
         /\ o[2] = "manifest" => o[1] = job[x].run
         /\ \A r \in Restorable \ {job[x].run} : o \notin run[r].artifacts
<1>1. job[x].run \in Runs /\ o \in job[x].plan[job[x].run]
  BY DEF Unshared, LockInv, RestoreInv, TypeInv, Named
<1>2. PlanAt(x)
  BY DEF PointInv
<1>3. run[o[1]].status = "succeeded" /\ (o[2] = "manifest" => o[1] = job[x].run)
  BY <1>1, <1>2 DEF PlanAt
<1>4. ASSUME NEW r \in Restorable \ {job[x].run} PROVE o \notin run[r].artifacts
  <2>1. r \in Runs /\ Planned(x, r)
    BY <1>2 DEF PlanAt, Restorable
  <2>2. o \notin job[x].plan[r]
    BY <2>1 DEF Unshared
  <2> QED BY <1>1, <2>1, <2>2 DEF Planned
<1> QED BY <1>3, <1>4

(* A capture reclaims objects of its own run, which has not succeeded.     *)
LEMMA ReclaimedObjects ==
  ASSUME LockInv, PointInv, NEW x \in Workers, job[x].pc = "reclaim", NEW o \in job[x].uploaded
  PROVE  o[1] = job[x].run /\ run[job[x].run].status # "succeeded"
BY DEF PointInv, HeldAt, Lineage, CapturePcs

LEMMA PointObjectsKept ==
  ASSUME LockInv, PointInv, [Next]_vars, NEW r \in Restorable,
         \A w \in Workers : Erase(w) => job[w].run # r,
         NEW o \in stored, o \in run[r].artifacts \/ o = Own(r, "manifest")
  PROVE  o \in stored'
<1>1. r \in Runs /\ run[r].status = "succeeded" /\ run[o[1]].status = "succeeded"
  BY DEF Restorable, PointInv, RowAt, Own
<1>2. ASSUME NEW w \in Workers, Reclaim(w) PROVE o \notin job[w].uploaded
  <2>1. job[w].pc = "reclaim"
    BY <1>2 DEF Reclaim
  <2> QED BY <1>1, <2>1, ReclaimedObjects
<1>3. ASSUME NEW w \in Workers, Erase(w) PROVE o \notin Unshared(w)
  <2>1. job[w].pc = "erase" /\ job[w].run # r
    BY <1>3 DEF Erase
  <2>2. o = Own(r, "manifest") => o[1] = r /\ o[2] = "manifest"
    BY DEF Own
  <2> QED BY <2>1, <2>2, ErasedObjects
<1>4. TypeInv
  BY DEF LockInv, RestoreInv
<1> QED BY <1>2, <1>3, <1>4, StoredKept

(* What a slot that captures a run keeps stays, ...                        *)
LEMMA HeldObjectsKept ==
  ASSUME LockInv, PointInv, [Next]_vars, NEW w \in Workers,
         job[w].pc \in {"blocks", "record", "verify", "succeed", "payload"},
         NEW o \in stored, o \in job[w].kept \/ o = Own(job[w].run, "manifest")
  PROVE  o \in stored'
<1> DEFINE r == job[w].run
<1>1. TypeInv /\ HeldAt(w, r) /\ job[w].pc \in CapturePcs /\ job[w].pc \in InsidePcs
  BY DEF PointInv, LockInv, RestoreInv, CapturePcs, InsidePcs
<1>2. r \in Runs /\ run[r].lease = "open" /\ Capturing(w)
  BY <1>1 DEF LockInv, Leased, Capturing, TypeInv, Named
<1>3. o = Own(r, "manifest") => o[1] = r /\ o[2] = "manifest"
  BY DEF Own
<1>4. ASSUME NEW x \in Workers, Reclaim(x) PROVE o \notin job[x].uploaded
  <2>1. job[x].pc = "reclaim"
    BY <1>4 DEF Reclaim
  <2>2. job[x].pc \in InsidePcs /\ x # w
    BY <2>1 DEF InsidePcs, CapturePcs
  <2> QED BY <1>1, <2>2, OneInside DEF LockInv, RestoreInv
<1>5. ASSUME NEW x \in Workers, Erase(x), o \in Unshared(x) PROVE FALSE
  <2>1. job[x].pc = "erase"
    BY <1>5 DEF Erase
  <2>2. job[x].run \in Runs /\ run[job[x].run].lease # "open" /\ policyLock = x
    <3>1. Locking(x) /\ HoldsPolicy(x) /\ job[x].run \in Runs
      BY <2>1 DEF Locking, HoldsPolicy, PrunePcs, LockInv, RestoreInv, TypeInv, Named
    <3> QED BY <3>1 DEF LockInv, RunLocked, PolicyLocked
  <2>3. job[x].run # r
    BY <1>2, <2>2
  <2>4. ~job[w].frozen
    <3>1. x # w
      BY <2>1
    <3>2. job[w].frozen => policyLock = w
      BY <1>1 DEF LockInv, PolicyLocked, HoldsPolicy
    <3> QED BY <2>2, <3>1, <3>2
  <2>5. o[1] = r
    BY <1>1, <1>3, <2>4 DEF HeldAt, Lineage
  <2>6. run[r].status = "succeeded" /\ o[2] # "manifest"
    BY <1>5, <2>1, <2>3, <2>5, ErasedObjects
  <2>7. job[w].pc = "payload" /\ o \in job[w].kept
    BY <1>1, <1>3, <2>6 DEF HeldAt, Lineage, CapturePcs
  <2>8. r \in Restorable /\ o \in run[r].artifacts
    BY <1>1, <1>2, <2>6, <2>7 DEF HeldAt, Restorable
  <2> QED BY <1>5, <2>1, <2>3, <2>8, ErasedObjects
<1> QED BY <1>1, <1>4, <1>5, StoredKept

-----------------------------------------------------------------------------
(* The rows.                                                               *)

LEMMA PointRowKept ==
  ASSUME LockInv, PointInv, [Next]_vars, NEW r \in Restorable
  PROVE  /\ run'[r].artifacts = run[r].artifacts
         /\ run'[r].manifest => run[r].manifest \/ Own(r, "manifest") \in stored
<1>1. r \in Runs /\ run[r].status = "succeeded" /\ ~Undecided(r) /\ TypeInv
  BY DEF Restorable, Undecided, RunTerminal, LockInv, RestoreInv
<1>2. RowStep(r)
  BY <1>1, RowSteps
<1>3. ASSUME NEW w \in Workers, Completed(w, r)
      PROVE  run'[r].artifacts = run[r].artifacts /\ Own(r, "manifest") \in stored
  BY <1>3 DEF Completed, PointInv, HeldAt, CapturePcs
<1> QED BY <1>1, <1>2, <1>3 DEF RowStep, Same, Created, GoesOn, GivenUp, Recorded, Succeeded, Failed, Dropped

LEMMA RowsStep ==
  ASSUME LockInv, PointInv, [Next]_vars, NEW r \in Runs
  PROVE  RowAt(r)'
<1> DEFINE OK == RowAt(r)'
<1> SUFFICES OK OBVIOUS
<1>a. TypeInv /\ RowAt(r) /\ RowStep(r) /\ run[r].finished \in Nat
  BY RowSteps DEF LockInv, RestoreInv, PointInv, TypeInv, TypeOK, StoreTypeOK, RunRows
<1>b. /\ NextFinish \in Nat /\ NextFinish' \in Nat /\ NextFinish > 0
      /\ NextFinish <= NextFinish'
      /\ Undecided(r) /\ run'[r].finished = NextFinish => NextFinish < NextFinish'
  BY <1>a, RanksGrow DEF PointInv
<1>c. \A x \in Runs : run[x].status = "succeeded" => run'[x].status = "succeeded"
  BY <1>a, SuccessLasts
<1>d. /\ run[r].artifacts \subseteq Objects /\ \A o \in Objects : o[1] \in Runs
      /\ \A w \in Workers : job[w].kept \subseteq Objects
  BY <1>a, ObjectsNamed
<1>e. ASSUME run'[r].artifacts = run[r].artifacts
      PROVE  \A o \in run'[r].artifacts : o[2] # "manifest" /\ (o[1] = r \/ run'[o[1]].status = "succeeded")
  BY <1>a, <1>c, <1>d, <1>e DEF RowAt
<1>f. /\ run[r].finished > 0 <=> ~Undecided(r)
      /\ run[r].finished < NextFinish
      /\ r \in Restorable => run[r].artifacts # {}
  BY <1>a DEF RowAt, Undecided
<1>g. r \in Restorable' <=> run'[r].status = "succeeded" /\ ~run'[r].deleted
  BY DEF Restorable
<1>h. \A w \in Workers : HeldAt(w, job[w].run)
  BY DEF PointInv
<1>1. CASE Same(r)
  <2>1. r \in Restorable' <=> r \in Restorable
    BY <1>1, <1>g DEF Same, Restorable
  <2> QED BY <1>1, <2>1, <1>a, <1>b, <1>e, <1>f DEF Same, RowAt
<1>2. CASE Created(r)
  <2>1. run'[r].finished = 0 /\ run'[r].status = "queued" /\ run'[r].artifacts = {}
    BY <1>2 DEF Created, NoRun
  <2> QED BY <2>1, <1>b, <1>g DEF RowAt, RunTerminal
<1>3. CASE GoesOn(r)
  <2>1. /\ run'[r].status \notin RunTerminal /\ run'[r].finished = run[r].finished
        /\ run'[r].artifacts = run[r].artifacts /\ Undecided(r) /\ run'[r].status # "succeeded"
    BY <1>3 DEF GoesOn, RunTerminal
  <2> QED BY <2>1, <1>a, <1>b, <1>e, <1>f, <1>g DEF RowAt
<1>4. CASE GivenUp(r)
  <2>1. /\ run'[r].status \in RunTerminal /\ run'[r].status # "succeeded" /\ run'[r].finished = NextFinish
        /\ run'[r].artifacts = run[r].artifacts /\ Undecided(r)
    BY <1>4 DEF GivenUp
  <2> QED BY <2>1, <1>b, <1>e, <1>g DEF RowAt
<1>5. ASSUME NEW w \in Workers, Recorded(w, r) PROVE OK
  <2>1. /\ run'[r].status \notin RunTerminal /\ run'[r].finished = run[r].finished
        /\ run'[r].artifacts \in {run[r].artifacts, job[w].kept}
        /\ Undecided(r) /\ run'[r].status # "succeeded"
        /\ job[w].run = r /\ job[w].pc = "record"
    BY <1>5 DEF Recorded, RunTerminal
  <2>2. HeldAt(w, r)
    BY <2>1, <1>h
  <2>3. \A o \in job[w].kept :
          /\ o[1] \in Runs /\ o[2] # "manifest"
          /\ o[1] = r \/ run[o[1]].status = "succeeded"
    BY <2>1, <2>2, <1>d DEF HeldAt, Lineage, CapturePcs
  <2> QED BY <2>1, <2>3, <1>a, <1>b, <1>c, <1>e, <1>f, <1>g DEF RowAt
<1>6. ASSUME NEW w \in Workers, Succeeded(w, r) PROVE OK
  <2>1. /\ run'[r].status = "succeeded" /\ run'[r].finished = NextFinish
        /\ run'[r].artifacts = run[r].artifacts /\ Undecided(r)
        /\ job[w].run = r /\ job[w].pc = "succeed"
    BY <1>6 DEF Succeeded
  <2>2. run[r].artifacts # {}
    BY <2>1, <1>h DEF HeldAt, CapturePcs
  <2> QED BY <2>1, <2>2, <1>b, <1>e DEF RowAt, RunTerminal
<1>7. ASSUME NEW w \in Workers, Completed(w, r) PROVE OK
  <2>1. /\ UNCHANGED <<run[r].status, run[r].finished, run[r].deleted>>
        /\ run'[r].artifacts \in {run[r].artifacts, job[w].kept}
        /\ job[w].run = r /\ job[w].pc = "payload"
    BY <1>7 DEF Completed
  <2>2. run[r].artifacts = job[w].kept
    BY <2>1, <1>h DEF HeldAt, CapturePcs
  <2>3. r \in Restorable' <=> r \in Restorable
    BY <2>1, <1>g DEF Restorable
  <2> QED BY <2>1, <2>2, <2>3, <1>a, <1>b, <1>e, <1>f DEF RowAt
<1>8. ASSUME NEW w \in Workers, Failed(w, r) PROVE OK
  <2>1. /\ run'[r].status = "failed" /\ run'[r].finished = NextFinish
        /\ run'[r].artifacts = {} /\ Undecided(r)
    BY <1>8 DEF Failed
  <2> QED BY <2>1, <1>b, <1>g DEF RowAt, RunTerminal
<1>9. ASSUME NEW w \in Workers, Dropped(w, r) PROVE OK
  <2>1. run'[r].deleted /\ UNCHANGED <<run[r].status, run[r].finished, run[r].artifacts>>
    BY <1>9 DEF Dropped
  <2> QED BY <2>1, <1>a, <1>b, <1>e, <1>f, <1>g DEF RowAt
<1> HIDE DEF OK
<1> QED BY <1>a, <1>1, <1>2, <1>3, <1>4, <1>5, <1>6, <1>7, <1>8, <1>9 DEF RowStep

-----------------------------------------------------------------------------
(* What a slot holds.                                                      *)

(* While a slot is where it was, nothing happens to the row of the run     *)
(* that it captures but that another writer gives it up.                   *)
LEMMA CapturedRowLasts ==
  ASSUME LockInv, [Next]_vars, NEW w \in Workers, Capturing(w), job'[w].pc = job[w].pc,
         NEW r \in Runs, r = job[w].run
  PROVE  Same(r) \/ GoesOn(r) \/ GivenUp(r)
<1>1. /\ TypeInv /\ run[r].lease = "open" /\ run[r].status \notin {"absent", "queued"}
      /\ job[w].pc \in InsidePcs
  BY DEF LockInv, RestoreInv, Leased, Capturing, InsidePcs
<1>2. RowStep(r) /\ ~Created(r)
  BY <1>1, RowSteps DEF Created
<1>3. ASSUME NEW x \in Workers, Recorded(x, r) \/ Succeeded(x, r) \/ Completed(x, r) \/ Failed(x, r) PROVE FALSE
  <2>1. job[x].pc \in {"record", "succeed", "payload", "fail"} /\ job'[x].pc # job[x].pc
    BY <1>3 DEF Recorded, Succeeded, Completed, Failed
  <2>2. job[x].pc \in InsidePcs /\ x # w
    BY <2>1 DEF InsidePcs, CapturePcs
  <2> QED BY <1>1, <2>2, OneInside DEF LockInv, RestoreInv
<1>4. ASSUME NEW x \in Workers, Dropped(x, r) PROVE FALSE
  <2>1. Locking(x) /\ job[x].run = r
    BY <1>4 DEF Dropped, Drop, Locking
  <2> QED BY <1>1, <2>1 DEF LockInv, RunLocked
<1> QED BY <1>2, <1>3, <1>4 DEF RowStep

LEMMA LineageKept ==
  ASSUME TypeInv, [Next]_vars, NEW w \in Workers, NEW r \in Runs, Lineage(w, r),
         UNCHANGED <<job[w].frozen, job[w].old, job[w].kept, job[w].uploaded>>
  PROVE  Lineage(w, r)'
<1>1. \A o \in job[w].old : o[1] \in Runs
  BY ObjectsNamed
<1> QED BY <1>1, SuccessLasts DEF Lineage

(* ... in the steps of other slots, ...                                    *)
LEMMA HeldByOthers ==
  ASSUME LockInv, PointInv, [Next]_vars, NEW w \in Workers, job'[w] = job[w],
         NEW r \in Runs, r = job[w].run
  PROVE  HeldAt(w, r)'
<1>a. TypeInv /\ HeldAt(w, r)
  BY DEF LockInv, RestoreInv, PointInv
<1>1. Lineage(w, r) => Lineage(w, r)'
  BY <1>a, LineageKept
<1>2. ASSUME job[w].pc \in CapturePcs
      PROVE  /\ run'[r].deleted = run[r].deleted
             /\ run[r].status # "succeeded" => run'[r].status # "succeeded"
             /\ run[r].status = "succeeded" => run'[r].status = "succeeded"
             /\ run'[r].artifacts = run[r].artifacts
  <2>1. Same(r) \/ GoesOn(r) \/ GivenUp(r)
    BY <1>2, CapturedRowLasts DEF Capturing
  <2> QED BY <2>1 DEF Same, GoesOn, GivenUp, Undecided, RunTerminal
<1>3. ASSUME job[w].pc \in {"blocks", "record", "verify", "succeed", "payload"}
      PROVE  \A o \in stored : o \in job[w].kept \/ o = Own(r, "manifest") => o \in stored'
  BY <1>3, HeldObjectsKept
<1>4. Own(r, "manifest")' = Own(r, "manifest")
  BY DEF Own
<1> QED BY <1>a, <1>1, <1>2, <1>3, <1>4 DEF HeldAt, WaitingPcs, CapturePcs

(* ... and in its own.                                                     *)
LEMMA HeldWaiting ==
  ASSUME LockInv, PointInv, [Next]_vars, NEW w \in Workers, NEW r \in Runs, r = job'[w].run,
         \/ TakePolicyLock(w) \/ TakeProjectLock(w) \/ StartSweep(w) \/ Claim(w) \/ Prune(w)
         \/ \E x \in Runs : Deliver(w, x)
  PROVE  HeldAt(w, r)'
<1> DEFINE OK == HeldAt(w, r)'
<1> SUFFICES OK OBVIOUS
<1>a. TypeInv /\ HeldAt(w, job[w].run)
  BY DEF LockInv, RestoreInv, PointInv
<1>1. ASSUME job'[w].pc \in {"idle", "prune"} \cup PrunePcs PROVE OK
  BY <1>1 DEF HeldAt, WaitingPcs, CapturePcs, PrunePcs
<1>2. ASSUME job'[w].old = {}, job'[w].kept = {}, job'[w].uploaded = {},
             job'[w].pc \in WaitingPcs
      PROVE  OK
  <2>1. Lineage(w, r)'
    BY <1>2 DEF Lineage
  <2> QED BY <1>2, <2>1 DEF HeldAt, WaitingPcs, CapturePcs
<1>3. ASSUME TakePolicyLock(w) PROVE OK
  <2>1. job[w].pc = "policy" => job[w].old = {} /\ job[w].kept = {} /\ job[w].uploaded = {}
    BY <1>a DEF HeldAt, WaitingPcs
  <2> QED BY <1>3, <1>1, <1>2, <1>a, <2>1, WaitWrites DEF Carries, PrunePcs, WaitingPcs
<1>4. ASSUME TakeProjectLock(w) PROVE OK
  <2>1. job[w].pc = "project" => job[w].old = {} /\ job[w].kept = {} /\ job[w].uploaded = {}
    BY <1>a DEF HeldAt, WaitingPcs
  <2> QED BY <1>4, <1>2, <1>a, <2>1, WaitWrites DEF Carries, WaitingPcs
<1>5. ASSUME StartSweep(w) PROVE OK
  BY <1>5, <1>1, <1>a, WaitWrites
<1>6. ASSUME NEW x \in Runs, Deliver(w, x) PROVE OK
  <2>1. job'[w].pc \in {"policy", "project"}
    BY <1>6, <1>a, WaitWrites
  <2> QED BY <1>6, <1>2, <1>a, <2>1, WaitWrites DEF WaitingPcs
<1>7. ASSUME Claim(w) PROVE OK
  <2>1. PICK x \in Runs : x = job[w].run
    BY <1>7, <1>a DEF Claim, TypeInv, Named
  <2>2. job[w].pc = "claim" /\ Lineage(w, x) /\ job[w].old = {} /\ job[w].kept = {} /\ job[w].uploaded = {}
    <3>1. job[w].pc = "claim"
      BY <1>7 DEF Claim
    <3> QED BY <3>1, <2>1, <1>a DEF HeldAt, WaitingPcs
  <2>3. CASE job'[w] = IdleJob
    BY <2>3, <1>1 DEF IdleJob
  <2>4. CASE job'[w] # IdleJob
    <3>1. /\ job'[w].pc = "snapshot" /\ Carries(w)
          /\ Claimable(x) /\ run'[x].status = "preparing"
          /\ run'[x].deleted = run[x].deleted
      BY <1>7, <1>a, <2>1, <2>4, StatusWrites
    <3>2. r = x
      BY <2>1, <3>1 DEF Carries
    <3>3. Lineage(w, r)'
      BY <1>a, <2>2, <3>1, <3>2, LineageKept DEF Carries
    <3>4. job'[w].old = {} /\ job'[w].kept = {} /\ job'[w].uploaded = {}
      BY <2>2, <3>1 DEF Carries
    <3> QED BY <3>1, <3>2, <3>3, <3>4 DEF HeldAt, WaitingPcs, CapturePcs, Claimable
  <2> QED BY <2>3, <2>4
<1>8. ASSUME Prune(w) PROVE OK
  <2>1. job'[w].pc \in PrunePcs \/ job'[w] = IdleJob
    BY <1>8, <1>a, PruneWrites DEF Prune, PrunePcs
  <2> QED BY <2>1, <1>1 DEF IdleJob
<1> HIDE DEF OK
<1> QED BY <1>3, <1>4, <1>5, <1>6, <1>7, <1>8

LEMMA ObjectChosen ==
  ASSUME TypeInv, NEW w \in Workers, NEW r \in Runs, r = job[w].run, NEW b \in job[w].content
  PROVE  \/ ObjectFor(w, b) = Own(r, b) /\ b # "manifest"
         \/ ObjectFor(w, b) \in job[w].old /\ ObjectFor(w, b) \in stored
<1> DEFINE held == {o \in job[w].old : o[2] = b /\ o \in stored}
<1>1. ObjectFor(w, b) = IF held = {} THEN Own(r, b) ELSE CHOOSE o \in held : TRUE
  BY DEF ObjectFor
<1>2. b # "manifest"
  <2>1. job[w].content \subseteq Blocks
    BY DEF TypeInv, TypeOK, JobTypeOK, Jobs
  <2> QED BY <2>1, BlocksAssumption
<1>3. held # {} => (CHOOSE o \in held : TRUE) \in held
  OBVIOUS
<1>4. \A o \in held : o \in job[w].old /\ o \in stored
  OBVIOUS
<1> HIDE DEF held
<1> QED BY <1>1, <1>2, <1>3, <1>4

LEMMA HeldRefused ==
  ASSUME LockInv, PointInv, [Next]_vars, NEW w \in Workers, NEW r \in Runs, r = job[w].run,
         Capturing(w), Carries(w), run' = run,
         \/ job'[w].pc = "finish"
         \/ job[w].pc \notin {"payload", "finish"} /\ job'[w].pc \in {"reclaim", "fail"}
  PROVE  HeldAt(w, r)'
<1>1. TypeInv /\ HeldAt(w, r)
  BY DEF LockInv, RestoreInv, PointInv
<1>2. Lineage(w, r)'
  BY <1>1, LineageKept DEF Carries, HeldAt, Capturing
<1> QED BY <1>1, <1>2 DEF HeldAt, Capturing, WaitingPcs, CapturePcs

LEMMA HeldUploading ==
  ASSUME LockInv, PointInv, [Next]_vars, NEW w \in Workers, NEW r \in Runs, r = job[w].run,
         Snapshot(w) \/ StartUpload(w) \/ UploadBlock(w) \/ FinishBlocks(w)
  PROVE  HeldAt(w, r)'
<1> DEFINE OK == HeldAt(w, r)'
<1> SUFFICES OK OBVIOUS
<1>a. /\ TypeInv /\ HeldAt(w, r) /\ Capturing(w) /\ Lineage(w, r)
      /\ ~run[r].deleted /\ run[r].status # "succeeded"
  <2>1. job[w].pc \in {"snapshot", "upload", "blocks"}
    BY DEF Snapshot, StartUpload, UploadBlock, FinishBlocks
  <2> QED BY <2>1 DEF LockInv, RestoreInv, PointInv, Capturing, CapturePcs, HeldAt
<1>b. ASSUME Refuses(w), job[w].pc \notin {"payload", "finish"} PROVE OK
  BY <1>a, <1>b, HeldRefused DEF Refuses
<1>c. \A x \in Runs : run[x].status = "succeeded" => run'[x].status = "succeeded"
  BY <1>a, SuccessLasts
<1>1. ASSUME Snapshot(w), ~Refuses(w) PROVE OK
  <2>1. /\ job[w].pc = "snapshot" /\ job'[w].pc = "upload" /\ Carries(w)
        /\ run'[r].status = "snapshotting" /\ run'[r].deleted = run[r].deleted
    BY <1>1, <1>a, StatusWrites DEF Proceeds, RowKept
  <2>2. Lineage(w, r)'
    BY <1>a, <2>1, LineageKept DEF Carries
  <2> QED BY <1>a, <2>1, <2>2 DEF Carries, HeldAt, WaitingPcs, CapturePcs
<1>2. ASSUME StartUpload(w), ~Refuses(w) PROVE OK
  <2>1. /\ job[w].pc = "upload" /\ job'[w].pc = "blocks"
        /\ run'[r].status = "uploading" /\ run'[r].deleted = run[r].deleted
        /\ job'[w].content # {}
        /\ job'[w].old = IF job[w].frozen THEN LatestArtifacts ELSE {}
        /\ UNCHANGED <<job[w].frozen, job[w].kept, job[w].uploaded>>
    BY <1>2, <1>a, StatusWrites DEF Proceeds, RowKept
  <2>2. job'[w].kept = {} /\ job'[w].uploaded = {}
    BY <1>a, <2>1 DEF HeldAt
  <2>3. ASSUME NEW o \in LatestArtifacts PROVE o[2] # "manifest" /\ run'[o[1]].status = "succeeded"
    <3>1. PICK x \in Restorable : o \in run[x].artifacts
      BY <2>3 DEF LatestArtifacts
    <3>2. x \in Runs /\ run[x].status = "succeeded" /\ RowAt(x)
      BY <3>1 DEF Restorable, PointInv
    <3>3. o[1] \in Runs
      BY <1>a, <3>1, <3>2, ObjectsNamed
    <3> QED BY <1>c, <3>1, <3>2, <3>3 DEF RowAt
  <2>4. Lineage(w, r)'
    BY <2>1, <2>2, <2>3 DEF Lineage
  <2> QED BY <1>a, <2>1, <2>2, <2>4 DEF HeldAt, WaitingPcs, CapturePcs
<1>3. ASSUME UploadBlock(w) PROVE OK
  <2>1. /\ job[w].pc = "blocks" /\ job'[w].pc = "blocks"
        /\ UNCHANGED <<run, job[w].frozen, job[w].content, job[w].old>>
        /\ \E b \in job[w].content :
             /\ job'[w].kept = job[w].kept \cup {ObjectFor(w, b)}
             /\ job'[w].uploaded = job[w].uploaded \cup ({ObjectFor(w, b)} \ job[w].old)
             /\ stored' = stored \cup ({ObjectFor(w, b)} \ job[w].old)
    BY <1>3, <1>a, UploadWrites
  <2>2. PICK b \in job[w].content :
             /\ job'[w].kept = job[w].kept \cup {ObjectFor(w, b)}
             /\ job'[w].uploaded = job[w].uploaded \cup ({ObjectFor(w, b)} \ job[w].old)
             /\ stored' = stored \cup ({ObjectFor(w, b)} \ job[w].old)
    BY <2>1
  <2> DEFINE o == ObjectFor(w, b)
  <2>3. \/ o[1] = r /\ o[2] # "manifest" /\ o \notin job[w].old
        \/ o \in job[w].old /\ o \in stored
    BY <1>a, ObjectChosen DEF Own, Lineage
  <2>4. /\ job'[w].kept = job[w].kept \cup {o}
        /\ job'[w].uploaded = job[w].uploaded \cup ({o} \ job[w].old)
        /\ stored' = stored \cup ({o} \ job[w].old)
    BY <2>2
  <2> HIDE DEF o
  <2>5. Lineage(w, r)'
    BY <1>a, <2>1, <2>3, <2>4 DEF Lineage
  <2>6. job[w].kept \subseteq stored /\ job[w].content # {}
    BY <1>a, <2>1 DEF HeldAt
  <2>7. job'[w].kept \subseteq stored'
    BY <2>3, <2>4, <2>6
  <2> QED BY <1>a, <2>1, <2>5, <2>6, <2>7 DEF HeldAt, WaitingPcs, CapturePcs
<1>4. ASSUME FinishBlocks(w) PROVE OK
  <2>1. /\ job[w].pc = "blocks" /\ job'[w].pc = "record"
        /\ job[w].content = {o[2] : o \in job[w].kept}
        /\ UNCHANGED <<run, job[w].frozen, job[w].content, job[w].old>>
        /\ \E I \in SUBSET {Own(r, "index")} :
             /\ job'[w].kept = job[w].kept \cup I
             /\ job'[w].uploaded = job[w].uploaded \cup I
             /\ stored' = stored \cup I
    BY <1>4, <1>a, UploadWrites
  <2>2. PICK I \in SUBSET {Own(r, "index")} :
             /\ job'[w].kept = job[w].kept \cup I
             /\ job'[w].uploaded = job[w].uploaded \cup I
             /\ stored' = stored \cup I
    BY <2>1
  <2>3. \A o \in I : o[1] = r /\ o[2] # "manifest"
    BY DEF Own
  <2>4. Lineage(w, r)'
    BY <1>a, <2>1, <2>2, <2>3 DEF Lineage
  <2>5. job[w].kept \subseteq stored /\ job[w].content # {}
    BY <1>a, <2>1 DEF HeldAt
  <2>6. job'[w].kept \subseteq stored' /\ job'[w].kept # {}
    BY <2>1, <2>2, <2>5
  <2> QED BY <1>a, <2>1, <2>4, <2>6 DEF HeldAt, WaitingPcs, CapturePcs
<1>5. Snapshot(w) \/ StartUpload(w) => job[w].pc \notin {"payload", "finish"}
  BY DEF Snapshot, StartUpload
<1> HIDE DEF OK
<1> QED BY <1>b, <1>1, <1>2, <1>3, <1>4, <1>5

LEMMA HeldEnding ==
  ASSUME LockInv, PointInv, [Next]_vars, {"lostReply", "lostColumns"} \cap FaultKinds = {},
         NEW w \in Workers, NEW r \in Runs, r = job[w].run,
         \/ RecordArtifacts(w) \/ Verify(w) \/ Succeed(w) \/ RecordSuccess(w) \/ FailCapture(w)
         \/ Reclaim(w) \/ Fail(w)
  PROVE  HeldAt(w, r)'
<1> DEFINE OK == HeldAt(w, r)'
<1> SUFFICES OK OBVIOUS
<1>a. /\ TypeInv /\ HeldAt(w, r) /\ Capturing(w) /\ Lineage(w, r) /\ ~run[r].deleted
      /\ job[w].pc # "payload" /\ job[w].pc # "finish" => run[r].status # "succeeded"
  <2>1. job[w].pc \in CapturePcs
    BY DEF RecordArtifacts, Verify, Succeed, RecordSuccess, FailCapture, Reclaim, Fail, CapturePcs
  <2> QED BY <2>1 DEF LockInv, RestoreInv, PointInv, Capturing, CapturePcs, HeldAt
<1>b. ASSUME Refuses(w), job[w].pc \notin {"payload", "finish"} PROVE OK
  BY <1>a, <1>b, HeldRefused DEF Refuses
<1>1. ASSUME RecordArtifacts(w) PROVE OK
  <2>1. job[w].pc = "record" /\ stored' = stored
    BY <1>1, <1>a, UploadWrites
  <2>2. CASE Refuses(w)
    BY <1>b, <2>1, <2>2
  <2>3. CASE ~Refuses(w)
    <3>1. /\ job'[w].pc = "verify" /\ Carries(w)
          /\ run'[r].status = "uploading" /\ run'[r].artifacts = job[w].kept
          /\ run'[r].deleted = run[r].deleted
      BY <1>1, <1>a, <2>3, UploadWrites DEF RowKept
    <3>2. Lineage(w, r)'
      BY <1>a, <3>1, LineageKept DEF Carries
    <3>3. job[w].kept \subseteq stored /\ job[w].kept # {}
      BY <1>a, <2>1 DEF HeldAt
    <3> QED BY <1>a, <2>1, <3>1, <3>2, <3>3 DEF Carries, HeldAt, WaitingPcs, CapturePcs
  <2> QED BY <2>2, <2>3
<1>2. ASSUME Verify(w) PROVE OK
  <2>1. job[w].pc = "verify"
    BY <1>2 DEF Verify
  <2>2. CASE Refuses(w)
    BY <1>b, <2>1, <2>2
  <2>3. CASE ~Refuses(w)
    <3>1. /\ job'[w].pc = "succeed"
          /\ run'[r].status = "verifying" /\ run'[r].artifacts = run[r].artifacts
          /\ run'[r].deleted = run[r].deleted
          /\ stored' = stored \cup {Own(r, "manifest")}
          /\ job'[w].uploaded = job[w].uploaded \cup {Own(r, "manifest")}
          /\ UNCHANGED <<job[w].frozen, job[w].old, job[w].kept>>
      BY <1>2, <1>a, <2>3, UploadWrites DEF Proceeds, RowKept
    <3>2. \A o \in job[w].old : o[1] \in Runs
      BY <1>a, ObjectsNamed
    <3>3. Lineage(w, r)'
      BY <1>a, <3>1, <3>2, SuccessLasts DEF Lineage, Own
    <3>4. job[w].kept \subseteq stored /\ job[w].kept # {} /\ run[r].artifacts = job[w].kept
      BY <1>a, <2>1 DEF HeldAt
    <3>5. Own(r, "manifest")' = Own(r, "manifest")
      BY DEF Own
    <3> QED BY <1>a, <3>1, <3>3, <3>4, <3>5 DEF HeldAt, WaitingPcs, CapturePcs
  <2> QED BY <2>2, <2>3
<1>3. ASSUME Succeed(w) PROVE OK
  <2>1. job[w].pc = "succeed" /\ stored' = stored
    BY <1>3, <1>a, EndWrites
  <2>2. CASE Refuses(w)
    BY <1>b, <2>1, <2>2
  <2>3. CASE ~Refuses(w)
    <3>1. /\ job'[w].pc = "payload" /\ Carries(w)
          /\ run'[r].status = "succeeded" /\ run'[r].artifacts = run[r].artifacts
          /\ run'[r].deleted = run[r].deleted
      BY <1>3, <1>a, <2>3, EndWrites DEF RowKept
    <3>2. Lineage(w, r)'
      BY <1>a, <3>1, LineageKept DEF Carries
    <3>3. /\ job[w].kept \subseteq stored /\ job[w].kept # {} /\ run[r].artifacts = job[w].kept
          /\ Own(r, "manifest") \in stored
      BY <1>a, <2>1 DEF HeldAt
    <3>4. Own(r, "manifest")' = Own(r, "manifest")
      BY DEF Own
    <3> QED BY <1>a, <2>1, <3>1, <3>2, <3>3, <3>4 DEF Carries, HeldAt, WaitingPcs, CapturePcs
  <2> QED BY <2>2, <2>3
<1>4. ASSUME RecordSuccess(w) PROVE OK
  <2>1. /\ job'[w].pc = "finish" /\ Carries(w) /\ run'[r].deleted = run[r].deleted
    BY <1>4, <1>a, EndWrites
  <2>2. Lineage(w, r)'
    BY <1>a, <2>1, LineageKept DEF Carries
  <2> QED BY <1>a, <2>1, <2>2 DEF HeldAt, WaitingPcs, CapturePcs
<1>5. ASSUME FailCapture(w) PROVE OK
  <2>1. job[w].pc \notin {"payload", "finish"} /\ job'[w].pc = "reclaim" /\ Carries(w) /\ run' = run
    BY <1>5, <1>a, EndWrites
  <2> QED BY <1>a, <2>1, HeldRefused
<1>6. ASSUME Reclaim(w) PROVE OK
  <2>1. job[w].pc = "reclaim" /\ job'[w].pc \in {"finish", "fail"} /\ Carries(w) /\ run' = run
    BY <1>6, <1>a, EndWrites
  <2> QED BY <1>a, <2>1, HeldRefused
<1>7. ASSUME Fail(w) PROVE OK
  <2>1. /\ job'[w].pc = "finish" /\ Carries(w) /\ run'[r].deleted = run[r].deleted
    BY <1>7, <1>a, EndWrites DEF RowKept
  <2>2. Lineage(w, r)'
    BY <1>a, <2>1, LineageKept DEF Carries
  <2> QED BY <1>a, <2>1, <2>2 DEF HeldAt, WaitingPcs, CapturePcs
<1> HIDE DEF OK
<1> QED BY <1>1, <1>2, <1>3, <1>4, <1>5, <1>6, <1>7

LEMMA HeldStep ==
  ASSUME LockInv, PointInv, [Next]_vars, {"lostReply", "lostColumns"} \cap FaultKinds = {},
         NEW w \in Workers, NEW r \in Runs, r = job'[w].run
  PROVE  HeldAt(w, r)'
<1> DEFINE OK == HeldAt(w, r)'
<1> SUFFICES OK OBVIOUS
<1>a. TypeInv
  BY DEF LockInv, RestoreInv
<1>1. CASE job'[w] = job[w]
  BY <1>1, HeldByOthers
<1>2. ASSUME job'[w].pc \in {"idle", "prune"} PROVE OK
  BY <1>2 DEF HeldAt, WaitingPcs, CapturePcs
<1>3. ASSUME Works(w) PROVE OK
  <2>1. CASE TakePolicyLock(w) \/ TakeProjectLock(w) \/ StartSweep(w) \/ Claim(w) \/ Prune(w)
             \/ \E x \in Runs : Deliver(w, x)
    BY <2>1, HeldWaiting
  <2>2. CASE \/ Snapshot(w) \/ StartUpload(w) \/ UploadBlock(w) \/ FinishBlocks(w) \/ RecordArtifacts(w)
             \/ Verify(w) \/ Succeed(w) \/ RecordSuccess(w) \/ FailCapture(w) \/ Reclaim(w) \/ Fail(w)
    <3>1. PICK x \in Runs : x = job[w].run
      BY <2>2, <1>a DEF Snapshot, StartUpload, UploadBlock, FinishBlocks, RecordArtifacts, Verify, Succeed,
         RecordSuccess, FailCapture, Reclaim, Fail, TypeInv, Named, CapturePcs
    <3>2. Snapshot(w) \/ StartUpload(w) => x = r
      BY <1>a, <3>1, StatusWrites DEF Refuses, Carries
    <3>3. UploadBlock(w) \/ FinishBlocks(w) \/ RecordArtifacts(w) \/ Verify(w) => x = r
      BY <1>a, <3>1, UploadWrites DEF Refuses, Carries
    <3>4. Succeed(w) \/ RecordSuccess(w) \/ FailCapture(w) \/ Reclaim(w) \/ Fail(w) => x = r
      BY <1>a, <3>1, EndWrites DEF Refuses, Carries
    <3> QED BY <2>2, <3>1, <3>2, <3>3, <3>4, HeldUploading, HeldEnding
  <2>3. CASE Finish(w)
    <3>1. job[w].run \in Runs
      BY <2>3, <1>a DEF Finish, TypeInv, Named, CapturePcs
    <3> QED BY <2>3, <3>1, <1>a, <1>2, EndWrites
  <2> HIDE DEF OK
  <2> QED BY <1>3, <2>1, <2>2, <2>3 DEF Works, Capture
<1>4. IdleJob.pc = "idle"
  BY DEF IdleJob
<1> HIDE DEF OK
<1> QED BY <1>a, <1>1, <1>2, <1>3, <1>4, JobSteps

-----------------------------------------------------------------------------
(* The plan of retention.                                                  *)

LEMMA MoreRuns ==
  ASSUME NEW S, NEW T \in SUBSET Runs, S \subseteq T, Cardinality(S) >= RetainCount
  PROVE  Cardinality(T) >= RetainCount
<1>1. IsFiniteSet(T) /\ IsFiniteSet(S) /\ Cardinality(S) <= Cardinality(T)
  BY RunsAssumption, FS_Subset
<1>2. Cardinality(S) \in Nat /\ Cardinality(T) \in Nat
  BY <1>1, FS_CardinalityType
<1> QED BY <1>1, <1>2, RetainAssumption

(* Of the runs beyond the RetainCount newest, each has as many newer       *)
(* restore points that are not among them.                                 *)
LEMMA ExcessIsOld ==
  ASSUME TypeInv, NEW v \in Excess
  PROVE  Cardinality(Newer(v, Restorable \ Excess)) >= RetainCount
<1> DEFINE f == [r \in Runs |-> run[r].finished]
<1>1. Excess \subseteq Candidates /\ Candidates \subseteq Restorable /\ Restorable \subseteq Runs
  BY DEF Excess, Candidates, Restorable
<1>2. \A r \in Runs : run[r].finished \in Nat
  BY DEF TypeInv, TypeOK, StoreTypeOK, RunRows
<1>3. IsFiniteSet(Excess) /\ \A x \in Excess : f[x] \in Nat
  BY <1>1, <1>2, RunsAssumption, FS_Subset
<1>4. PICK m \in Excess : \A x \in Excess : f[x] <= f[m]
  <2> HIDE DEF f
  <2> QED BY <1>3, HighestRank
<1>5. \A x \in Excess : run[x].finished <= run[m].finished
  BY <1>1, <1>4
<1>6. Cardinality(Newer(m, Candidates)) >= RetainCount
  BY DEF Excess, Newer
<1>7. Newer(m, Candidates) \subseteq Newer(v, Restorable \ Excess)
  <2> SUFFICES ASSUME NEW x \in Candidates, run[x].finished > run[m].finished
               PROVE  x \in Restorable \ Excess /\ run[x].finished > run[v].finished
    BY DEF Newer
  <2>1. x \in Runs /\ m \in Runs /\ v \in Runs
    BY <1>1
  <2> QED BY <1>1, <1>2, <1>5, <2>1
<1> QED BY <1>1, <1>6, <1>7, MoreRuns DEF Newer

LEMMA CountKept ==
  ASSUME TypeInv, [Next]_vars, NEW w \in Workers, NEW v \in Restorable,
         Cardinality(Newer(v, Restorable \ job[w].victims)) >= RetainCount,
         Restorable \ job[w].victims \subseteq Restorable' \ job'[w].victims
  PROVE  Cardinality(Newer(v, Restorable \ job[w].victims)') >= RetainCount
<1>1. \A r \in Restorable : run'[r].finished = run[r].finished
  BY PointKept
<1>2. Newer(v, Restorable \ job[w].victims) \subseteq Newer(v, Restorable \ job[w].victims)'
  BY <1>1 DEF Newer
<1>3. Newer(v, Restorable \ job[w].victims)' \subseteq Runs
  BY DEF Newer, Restorable
<1> HIDE DEF Newer
<1> QED BY <1>2, <1>3, MoreRuns

LEMMA PlanSurveyed ==
  ASSUME LockInv, PointInv, NEW w \in Workers, Survey(w)
  PROVE  PlanAt(w)'
<1>a. TypeInv /\ \A r \in Runs : RowAt(r)
  BY DEF LockInv, RestoreInv, PointInv
<1>1. /\ run' = run /\ job'[w].pc = "victim" /\ job'[w].victims = Excess
      /\ job'[w].plan = [r \in Runs |-> IF r \in Restorable THEN Keys(r) ELSE {}]
  BY <1>a, PruneWrites
<1>2. Restorable' = Restorable
  BY <1>1 DEF Restorable
<1>3. Excess \subseteq Restorable
  BY DEF Excess, Candidates
<1>4. ASSUME NEW v \in Excess
      PROVE  Cardinality(Newer(v, Restorable \ job[w].victims)') >= RetainCount
  <2>1. Newer(v, Restorable \ job[w].victims)' = Newer(v, Restorable \ Excess)
    BY <1>1, <1>2 DEF Newer
  <2> QED BY <1>a, <2>1, ExcessIsOld
<1>5. ASSUME NEW v \in Runs, NEW o \in job'[w].plan[v]
      PROVE  run'[o[1]].status = "succeeded" /\ (o[2] = "manifest" => o[1] = v)
  <2>1. v \in Restorable /\ o \in Keys(v)
    BY <1>1, <1>5
  <2>2. run[v].status = "succeeded"
    BY <2>1 DEF Restorable
  <2>3. CASE o \in run[v].artifacts
    BY <1>1, <1>a, <2>2, <2>3 DEF RowAt
  <2>4. CASE o = Own(v, "manifest")
    BY <1>1, <2>2, <2>4 DEF Own
  <2> QED BY <2>1, <2>3, <2>4 DEF Keys
<1>6. ASSUME NEW r \in Restorable PROVE Planned(w, r)'
  <2>1. r \in Runs /\ job'[w].plan[r] = Keys(r)
    BY <1>1 DEF Restorable
  <2> QED BY <1>1, <2>1 DEF Planned, Keys
<1> QED BY <1>1, <1>2, <1>3, <1>4, <1>5, <1>6 DEF PlanAt, Locking

LEMMA PlanWorked ==
  ASSUME LockInv, PointInv, [Next]_vars, NEW w \in Workers, LockVictim(w) \/ Erase(w) \/ Drop(w)
  PROVE  PlanAt(w)'
<1>a. TypeInv
  BY DEF LockInv, RestoreInv
<1>b. /\ job[w].victims \subseteq Restorable
      /\ Locking(w) => job[w].run \in job[w].victims
      /\ \A v \in job[w].victims : Cardinality(Newer(v, Restorable \ job[w].victims)) >= RetainCount
      /\ \A v \in Runs : \A o \in job[w].plan[v] :
           run[o[1]].status = "succeeded" /\ (o[2] = "manifest" => o[1] = v)
      /\ \A r \in Restorable : Planned(w, r)
  BY DEF PointInv, PlanAt, LockVictim, Erase, Drop
<1>1. ASSUME run' = run, job'[w].plan = job[w].plan, job'[w].victims \subseteq job[w].victims,
             Locking(w)' => job'[w].run \in job'[w].victims
      PROVE  PlanAt(w)'
  <2>1. Restorable' = Restorable
    BY <1>1 DEF Restorable
  <2>2. \A v \in job[w].victims : Cardinality(Newer(v, Restorable \ job[w].victims)') >= RetainCount
    BY <1>1, <1>a, <1>b, <2>1, CountKept
  <2>3. \A r \in Restorable : Planned(w, r)'
    BY <1>1, <1>b DEF Planned
  <2> QED BY <1>1, <1>b, <2>1, <2>2, <2>3 DEF PlanAt
<1>2. ASSUME LockVictim(w) PROVE PlanAt(w)'
  BY <1>1, <1>2, <1>a, PruneWrites DEF Locking
<1>3. ASSUME Erase(w) PROVE PlanAt(w)'
  BY <1>1, <1>3, <1>a, <1>b, PruneWrites DEF Locking
<1>4. ASSUME Drop(w) PROVE PlanAt(w)'
  <2>1. PICK v \in Runs : v = job[w].run /\ v \in job[w].victims
    BY <1>4, <1>a, <1>b DEF Drop, TypeInv, Named, Locking
  <2>2. /\ job'[w].pc = "victim" /\ job'[w].victims = job[w].victims \ {v}
        /\ job'[w].plan = [job[w].plan EXCEPT ![v] = {}]
        /\ OtherRows(v) /\ run'[v] = [run[v] EXCEPT !.deleted = TRUE]
    BY <1>4, <1>a, <2>1, PruneWrites
  <2>3. /\ \A x \in Runs \ {v} : job'[w].plan[x] = job[w].plan[x]
        /\ job'[w].plan[v] = {}
    <3>1. job[w].plan \in [Runs -> SUBSET Objects]
      BY <1>a DEF TypeInv, TypeOK, JobTypeOK, Jobs
    <3> QED BY <2>2, <3>1
  <2>4. /\ run'[v].deleted
        /\ \A x \in Runs : UNCHANGED <<run[x].status, run[x].finished, run[x].artifacts>>
        /\ \A x \in Runs \ {v} : run'[x].deleted = run[x].deleted
    <3>1. DOMAIN run[v] = {"status", "lease", "artifacts", "manifest", "finished", "protected", "deleted"}
      BY <1>a, Shapes
    <3>2. run'[v].deleted /\ UNCHANGED <<run[v].status, run[v].finished, run[v].artifacts>>
      BY <2>2, <3>1
    <3> QED BY <2>2, <3>2 DEF OtherRows
  <2>5. Restorable' = Restorable \ {v}
    BY <2>4 DEF Restorable
  <2>6. \A x \in job[w].victims : Cardinality(Newer(x, Restorable \ job[w].victims)') >= RetainCount
    BY <1>a, <1>b, <2>1, <2>2, <2>5, CountKept
  <2>7. \A x \in Runs : \A o \in job'[w].plan[x] :
          run'[o[1]].status = "succeeded" /\ (o[2] = "manifest" => o[1] = x)
    <3>1. \A x \in Runs : job[w].plan[x] \subseteq Objects /\ \A o \in Objects : o[1] \in Runs
      BY <1>a, ObjectsNamed
    <3> QED BY <1>b, <2>3, <2>4, <3>1
  <2>8. ASSUME NEW r \in Restorable' PROVE Planned(w, r)'
    <3>1. r \in Runs \ {v} /\ r \in Restorable
      BY <2>5 DEF Restorable
    <3>2. /\ Planned(w, r) /\ job'[w].plan[r] = job[w].plan[r]
          /\ run'[r].artifacts = run[r].artifacts
      BY <1>b, <2>3, <2>4, <3>1
    <3>3. \A x \in Runs : \A o \in job'[w].plan[x] : o \in job[w].plan[x]
      BY <2>3
    <3> QED BY <3>2, <3>3 DEF Planned
  <2> QED BY <1>b, <2>2, <2>5, <2>6, <2>7, <2>8 DEF PlanAt, Locking
<1> QED BY <1>2, <1>3, <1>4

LEMMA PlanByOthers ==
  ASSUME LockInv, PointInv, [Next]_vars, NEW w \in Workers, job'[w] = job[w]
  PROVE  PlanAt(w)'
<1> SUFFICES ASSUME job[w].pc \in {"victim", "erase", "drop"} PROVE PlanAt(w)'
  BY DEF PlanAt
<1>a. TypeInv /\ policyLock = w
  BY DEF LockInv, RestoreInv, PolicyLocked, HoldsPolicy, PrunePcs
<1>b. /\ job[w].victims \subseteq Restorable
      /\ Locking(w) => job[w].run \in job[w].victims
      /\ \A v \in job[w].victims : Cardinality(Newer(v, Restorable \ job[w].victims)) >= RetainCount
      /\ \A v \in Runs : \A o \in job[w].plan[v] :
           run[o[1]].status = "succeeded" /\ (o[2] = "manifest" => o[1] = v)
      /\ \A r \in Restorable : Planned(w, r)
  BY DEF PointInv, PlanAt
<1>1. \A x \in Workers : ~Drop(x)
  <2> SUFFICES ASSUME NEW x \in Workers, Drop(x) PROVE FALSE
    OBVIOUS
  <2>1. job[x].pc = "drop" /\ job'[x].pc = "victim"
    BY <1>a, PruneWrites
  <2>2. policyLock = x
    BY <2>1 DEF LockInv, PolicyLocked, HoldsPolicy, PrunePcs
  <2> QED BY <1>a, <2>1, <2>2
<1>2. Restorable \subseteq Restorable'
  BY <1>1, <1>a, PointKept
<1>3. \A v \in job[w].victims : Cardinality(Newer(v, Restorable \ job[w].victims)') >= RetainCount
  BY <1>a, <1>b, <1>2, CountKept
<1>4. /\ \A v \in Runs : job[w].plan[v] \subseteq Objects
      /\ \A o \in Objects : o[1] \in Runs
  BY <1>a, ObjectsNamed
<1>5. \A v \in Runs : \A o \in job'[w].plan[v] :
        run'[o[1]].status = "succeeded" /\ (o[2] = "manifest" => o[1] = v)
  BY <1>a, <1>b, <1>4, SuccessLasts
<1>6. ASSUME NEW r \in Restorable' PROVE Planned(w, r)'
  <2>1. r \in Runs /\ run'[r].status = "succeeded" /\ ~run'[r].deleted
    BY DEF Restorable
  <2>2. CASE r \in Restorable
    <3>1. Planned(w, r) /\ run'[r].artifacts = run[r].artifacts
      BY <1>b, <2>2, PointRowKept
    <3> QED BY <3>1 DEF Planned
  <2>3. CASE r \notin Restorable
    <3>1. PICK x \in Workers : Succeeded(x, r)
      <4>1. RowStep(r)
        BY <1>a, <2>1, RowSteps
      <4> QED
        BY <2>1, <2>3, <4>1 DEF RowStep, Same, Created, GoesOn, GivenUp, Recorded, Completed, Failed, Dropped,
           Restorable, RunTerminal, NoRun
    <3>2. /\ job[x].pc = "succeed" /\ job[x].run = r /\ x # w
          /\ Undecided(r) /\ run'[r].artifacts = run[r].artifacts
      BY <3>1 DEF Succeeded
    <3>3. ~job[x].frozen
      <4>1. job[x].frozen => policyLock = x
        BY <3>2 DEF LockInv, PolicyLocked, HoldsPolicy, InsidePcs, CapturePcs
      <4> QED BY <1>a, <3>2, <4>1
    <3>4. HeldAt(x, r)
      BY <3>2 DEF PointInv
    <3>5. \A o \in run[r].artifacts : o[1] = r
      BY <3>2, <3>3, <3>4 DEF HeldAt, Lineage, CapturePcs
    <3>6. run[r].status # "succeeded"
      BY <3>2 DEF Undecided, RunTerminal
    <3>7. \A v \in Runs : \A o \in job[w].plan[v] : o[1] # r
      BY <1>b, <3>6
    <3> QED BY <3>2, <3>5, <3>7 DEF Planned
  <2> QED BY <2>2, <2>3
<1> QED BY <1>b, <1>2, <1>3, <1>5, <1>6 DEF PlanAt, Locking

LEMMA PlanStep ==
  ASSUME LockInv, PointInv, [Next]_vars, NEW w \in Workers
  PROVE  PlanAt(w)'
<1>a. TypeInv
  BY DEF LockInv, RestoreInv
<1>1. ASSUME job'[w].pc \notin {"victim", "erase", "drop"} PROVE PlanAt(w)'
  BY <1>1 DEF PlanAt
<1>2. CASE job'[w] = job[w]
  BY <1>2, PlanByOthers
<1>3. CASE job'[w] = IdleJob
  BY <1>1, <1>3 DEF IdleJob
<1>4. ASSUME Works(w) PROVE PlanAt(w)'
  <2>1. CASE TakePolicyLock(w) \/ TakeProjectLock(w) \/ StartSweep(w) \/ \E x \in Runs : Deliver(w, x)
    <3>1. job'[w].pc \in {"project", "survey", "claim", "prune", "policy"}
      BY <2>1, <1>a, WaitWrites
    <3> QED BY <3>1, <1>1
  <2>2. CASE job[w].pc \in InsidePcs
    <3>1. PICK r \in Runs : r = job[w].run
      BY <2>2, <1>a DEF InsidePcs, TypeInv, Named
    <3>2. Claim(w) \/ Snapshot(w) \/ StartUpload(w) => job'[w].pc \notin {"victim", "erase", "drop"}
      BY <1>a, <3>1, StatusWrites DEF Refuses, IdleJob
    <3>3. UploadBlock(w) \/ FinishBlocks(w) \/ RecordArtifacts(w) \/ Verify(w) =>
            job'[w].pc \notin {"victim", "erase", "drop"}
      BY <1>a, <3>1, UploadWrites DEF Refuses
    <3>4. Succeed(w) \/ RecordSuccess(w) \/ FailCapture(w) \/ Reclaim(w) \/ Fail(w) \/ Finish(w) =>
            job'[w].pc \notin {"victim", "erase", "drop"}
      BY <1>a, <3>1, EndWrites DEF Refuses
    <3>5. ~Prune(w)
      BY <2>2 DEF Prune, Survey, LockVictim, Erase, Drop, EndPrune, InsidePcs, CapturePcs
    <3> QED BY <1>4, <1>1, <2>1, <3>2, <3>3, <3>4, <3>5 DEF Works, Capture
  <2>3. CASE Prune(w)
    <3>1. EndPrune(w) => job'[w] = IdleJob
      BY <1>a, PruneWrites
    <3> QED BY <2>3, <3>1, <1>3, PlanSurveyed, PlanWorked DEF Prune
  <2>4. CASE job[w].pc \notin InsidePcs /\ Capture(w)
    <3>1. TakePolicyLock(w) \/ TakeProjectLock(w)
      BY <2>4 DEF Capture, Claim, Snapshot, StartUpload, UploadBlock, FinishBlocks, RecordArtifacts, Verify, Succeed,
         RecordSuccess, FailCapture, Reclaim, Fail, Finish, InsidePcs, CapturePcs
    <3> QED BY <2>1, <3>1
  <2> QED BY <1>4, <2>1, <2>2, <2>3, <2>4 DEF Works
<1> QED BY <1>a, <1>2, <1>3, <1>4, JobSteps

-----------------------------------------------------------------------------
(* The newest restore point, and what restores rely on.                    *)

(* Retention deletes a run while newer ones, that it does not delete, are  *)
(* restore points.                                                         *)
LEMMA VictimsAreOld ==
  ASSUME LockInv, PointInv, NEW w \in Workers, Locking(w)
  PROVE  /\ job[w].run \in Restorable \cap job[w].victims
         /\ Cardinality(Newer(job[w].run, Restorable \ job[w].victims)) >= RetainCount
         /\ \E z \in Restorable \ job[w].victims : run[z].finished > run[job[w].run].finished
<1>1. PlanAt(w) /\ job[w].pc \in {"victim", "erase", "drop"}
  BY DEF PointInv, Locking
<1>2. /\ job[w].run \in Restorable \cap job[w].victims
      /\ Cardinality(Newer(job[w].run, Restorable \ job[w].victims)) >= RetainCount
  BY <1>1 DEF PlanAt
<1>3. Newer(job[w].run, Restorable \ job[w].victims) # {}
  <2>1. Cardinality({}) = 0
    BY FS_EmptySet
  <2> HIDE DEF Newer
  <2> QED BY <1>2, <2>1, RetainAssumption
<1> QED BY <1>2, <1>3 DEF Newer

LEMMA NewestLasts ==
  ASSUME LockInv, PointInv, [Next]_vars, NEW r \in Restorable, Newest(r)'
  PROVE  Newest(r)
<1>a. TypeInv /\ \A x \in Runs : run[x].finished \in Nat
  BY DEF LockInv, RestoreInv, TypeInv, TypeOK, StoreTypeOK, RunRows
<1>b. Restorable \subseteq Runs
  BY DEF Restorable
<1>c. \A x \in Restorable : run'[x].finished = run[x].finished
  BY <1>a, PointKept
<1> SUFFICES ASSUME NEW y \in Restorable, run[y].finished > run[r].finished PROVE FALSE
  BY <1>a, <1>b DEF Newest
<1>1. \A z \in Restorable' : run'[z].finished <= run'[r].finished
  BY DEF Newest
<1>2. y \notin Restorable'
  BY <1>a, <1>b, <1>c, <1>1
<1>3. PICK x \in Workers : Drop(x) /\ job[x].run = y
  BY <1>2, <1>a, PointKept
<1>4. Locking(x)
  BY <1>3 DEF Drop, Locking
<1>5. PICK z \in Restorable \ job[x].victims : run[z].finished > run[y].finished
  BY <1>3, <1>4, VictimsAreOld
<1>6. z \in Restorable'
  <2> SUFFICES ASSUME NEW v \in Workers, Drop(v), job[v].run = z PROVE FALSE
    BY <1>a, PointKept
  <2>1. policyLock = v /\ policyLock = x
    BY <1>3 DEF Drop, LockInv, PolicyLocked, HoldsPolicy, PrunePcs
  <2>2. z = y /\ y \in job[x].victims
    BY <1>3, <1>4, <2>1, VictimsAreOld
  <2> QED BY <1>5, <2>2
<1> QED BY <1>a, <1>b, <1>c, <1>1, <1>5, <1>6

LEMMA NewestIsComplete ==
  ASSUME LockInv, PointInv, [Next]_vars, NEW r \in Runs, Newest(r)'
  PROVE  (Keys(r) \subseteq stored)'
<1> DEFINE OK == (Keys(r) \subseteq stored)'
<1> SUFFICES OK OBVIOUS
<1>a. TypeInv /\ \A w \in Workers : HeldAt(w, job[w].run)
  BY DEF LockInv, RestoreInv, PointInv
<1>b. r \in Restorable' /\ run'[r].status = "succeeded" /\ ~run'[r].deleted
  BY DEF Newest, Restorable
<1>c. Own(r, "manifest")' = Own(r, "manifest")
  BY DEF Own
<1>1. CASE r \in Restorable
  <2>1. Newest(r) /\ Keys(r) \subseteq stored
    BY <1>1, NewestLasts DEF PointInv, Sound
  <2>2. ASSUME NEW w \in Workers, Erase(w) PROVE job[w].run # r
    <3>1. Locking(w)
      BY <2>2 DEF Erase, Locking
    <3>2. PICK z \in Restorable : run[z].finished > run[job[w].run].finished
      BY <3>1, VictimsAreOld
    <3>3. run[z].finished \in Nat /\ run[r].finished \in Nat
      BY <1>a, <3>2 DEF Restorable, TypeInv, TypeOK, StoreTypeOK, RunRows
    <3> QED BY <2>1, <3>2, <3>3 DEF Newest
  <2>3. /\ run'[r].artifacts = run[r].artifacts
        /\ run'[r].manifest => Own(r, "manifest") \in stored
    BY <1>1, <2>1, PointRowKept DEF Keys
  <2>4. run[r].artifacts \subseteq stored
    BY <2>1 DEF Keys
  <2>5. \A o \in stored : o \in run[r].artifacts \/ o = Own(r, "manifest") => o \in stored'
    BY <1>1, <2>2, PointObjectsKept
  <2> QED BY <1>c, <2>3, <2>4, <2>5 DEF Keys
<1>2. CASE r \notin Restorable
  <2>1. PICK w \in Workers : Succeeded(w, r)
    <3>1. RowStep(r)
      BY <1>a, RowSteps
    <3> QED
      BY <1>b, <1>2, <3>1 DEF RowStep, Same, Created, GoesOn, GivenUp, Recorded, Completed, Failed, Dropped,
         Restorable, RunTerminal, NoRun
  <2>2. /\ job[w].pc = "succeed" /\ job[w].run = r /\ run'[r].artifacts = run[r].artifacts
        /\ run'[r].manifest = run[r].manifest
    BY <2>1 DEF Succeeded
  <2>3. run[r].artifacts = job[w].kept /\ job[w].kept \subseteq stored /\ Own(r, "manifest") \in stored
    BY <1>a, <2>2 DEF HeldAt
  <2>4. \A o \in stored : o \in job[w].kept \/ o = Own(r, "manifest") => o \in stored'
    BY <2>2, HeldObjectsKept
  <2> QED BY <1>c, <2>2, <2>3, <2>4 DEF Keys
<1> QED BY <1>1, <1>2

(* A restore comes to rely on its source when it has read it.              *)
LEMMA ReliesOwn ==
  ASSUME TypeInv, NEW s \in Restores, Prepare(s) \/ Apply(s) \/ Cancel(s) \/ Operator(s),
         Active(s), Relies(s)'
  PROVE  Relies(s) \/ Readable(s)
<1> DEFINE OK == Relies(s) \/ Readable(s)
<1> SUFFICES OK OBVIOUS
<1>a. /\ DOMAIN restore = Restores /\ DOMAIN prep = Restores
      /\ DOMAIN restore[s] = {"status", "run", "cancel", "destructive", "partial", "down"}
      /\ restore[s].status \notin RestoreTerminal
  BY Shapes DEF Active, RestoreActive, RestoreInFlight, RestoreTerminal
<1>b. /\ Active(s) /\ restore'[s].status \notin RestoreTerminal
      /\ prep'[s] \in {"verified", "passing"} \/ restore'[s].status \in {"prepared", "applying"}
  BY DEF Relies, Active, RestoreActive, RestoreInFlight, RestoreTerminal
<1>1. ASSUME restore'[s].status = restore[s].status, prep'[s] = prep[s] \/ prep'[s] \notin {"verified", "passing"}
      PROVE  OK
  BY <1>b, <1>1 DEF Relies
<1>2. ASSUME prep[s] \in {"verified", "passing"} \/ restore[s].status \in {"prepared", "applying"} PROVE OK
  BY <1>2 DEF Relies
<1>3. ASSUME NEW st, restore' = [restore EXCEPT ![s] = [restore[s] EXCEPT !.status = st]] PROVE restore'[s].status = st
  BY <1>3, <1>a
<1>4. ASSUME NEW st, restore' = [restore EXCEPT ![s] = [restore[s] EXCEPT !.status = st, !.destructive = FALSE]]
      PROVE  restore'[s].status = st
  BY <1>4, <1>a
<1>5. Unsettled(s)
  BY <1>a DEF Unsettled
<1>6. ASSUME AdmitRestore(s) PROVE OK
  <2>1. prep'[s] \in {"queued", "none"}
    BY <1>6, <1>a DEF AdmitRestore, PrepGoto
  <2>2. restore' = restore \/ \E r \in Runs : restore' = [restore EXCEPT ![s] = [NoRestore EXCEPT !.status = "queued", !.run = r]]
    BY <1>6 DEF AdmitRestore
  <2>3. restore' = restore \/ restore'[s].status = "queued"
    BY <2>2, <1>a DEF NoRestore
  <2> HIDE DEF OK
  <2> QED BY <2>1, <2>3, <1>b, <1>1
<1>7. ASSUME StartPrepare(s) PROVE OK
  <2>1. prep'[s] = "reading" /\ restore'[s].status = "preparing"
    BY <1>7, <1>a, <1>3, <1>5 DEF StartPrepare, PrepGoto, Settle
  <2> QED BY <2>1, <1>b
<1>8. ASSUME VerifySource(s) PROVE OK
  <2>1. Readable(s) \/ prep'[s] = "unsound"
    BY <1>8, <1>a DEF VerifySource, PrepGoto
  <2>2. restore' = restore
    BY <1>8 DEF VerifySource
  <2> QED BY <2>1, <2>2, <1>1
<1>9. ASSUME CheckPrepared(s) PROVE OK
  <2>1. \/ prep[s] = "verified"
        \/ restore' = [restore EXCEPT ![s] = [restore[s] EXCEPT !.status = "failed"]]
    BY <1>9, <1>5 DEF CheckPrepared, Settle
  <2>2. "failed" \in RestoreTerminal
    BY DEF RestoreTerminal
  <2> HIDE DEF OK
  <2> QED BY <2>1, <2>2, <1>b, <1>2, <1>3
<1>10. ASSUME Pass(s) PROVE OK
  BY <1>10, <1>2 DEF Pass
<1>11. ASSUME RecordPrepared(s) PROVE OK
  <2>1. prep'[s] = "none" /\ restore'[s].status = restore[s].status
    BY <1>11, <1>a, FlagWrites DEF RecordPrepared, PrepGoto
  <2> QED BY <2>1, <1>1
<1>12. ASSUME Apply(s) PROVE OK
  <2>1. prep' = prep
    BY <1>12 DEF Apply, StartApply, ResolveTarget, StopService, CheckStopped, OpenArtifact, ApplyArtifact,
       FailArtifact, LoadService, StartBack, Unwind, RecordVerdict, RecordFlags, Leave
  <2>2. CASE RecordVerdict(s)
    <3>1. restore' = [restore EXCEPT ![s] = [restore[s] EXCEPT !.status = apply[s].verdict]]
      BY <2>2, <1>5 DEF RecordVerdict, Settle
    <3>2. apply[s].verdict \in RestoreTerminal
      BY DEF TypeInv, TypeOK, RestoreTypeOK, Applies, RestoreTerminal
    <3> QED BY <3>1, <3>2, <1>3, <1>b
  <2>3. CASE RecordFlags(s) \/ OpenArtifact(s)
    <3>1. restore'[s].status = restore[s].status
      BY <2>3, FlagWrites
    <3> QED BY <2>1, <3>1, <1>1
  <2>4. CASE \/ StartApply(s) \/ ResolveTarget(s) \/ StopService(s) \/ CheckStopped(s) \/ ApplyArtifact(s)
             \/ FailArtifact(s) \/ LoadService(s) \/ StartBack(s) \/ Unwind(s) \/ Leave(s)
    <3>1. restore' = restore
      BY <2>4 DEF StartApply, ResolveTarget, StopService, CheckStopped, ApplyArtifact,
         FailArtifact, LoadService, StartBack, Unwind, Leave
    <3> QED BY <2>1, <3>1, <1>1
  <2> QED BY <1>12, <2>2, <2>3, <2>4 DEF Apply
<1>13. ASSUME FlagCancel(s) PROVE OK
  <2>1. prep' = prep /\ restore'[s].status = restore[s].status
    BY <1>13, <1>a DEF FlagCancel
  <2> QED BY <2>1, <1>1
<1>14. ASSUME SettleCancel(s) PROVE OK
  <2>1. restore' = [restore EXCEPT ![s] = [restore[s] EXCEPT !.status = "cancelled", !.destructive = FALSE]]
    BY <1>14, <1>5 DEF SettleCancel, Settle
  <2>2. "cancelled" \in RestoreTerminal
    BY DEF RestoreTerminal
  <2> QED BY <2>1, <2>2, <1>4, <1>b
<1>15. ASSUME RequestCancel(s) PROVE OK
  <2>1. prep' = prep /\ restore' = restore
    BY <1>15 DEF RequestCancel
  <2> QED BY <2>1, <1>1
<1>16. ASSUME ClaimApply(s) PROVE OK
  BY <1>16, <1>2 DEF ClaimApply, Eligible
<1>17. ASSUME NEW r \in Runs, CheckSource(s, r) PROVE OK
  <2>1. prep'[s] = "admitting" /\ restore' = restore
    BY <1>17, <1>a DEF CheckSource, PrepGoto
  <2> QED BY <2>1, <1>1
<1> HIDE DEF OK
<1> QED
  BY <1>6, <1>7, <1>8, <1>9, <1>10, <1>11, <1>12, <1>13, <1>14, <1>15, <1>16, <1>17
  DEF Prepare, Cancel, Operator

LEMMA ReliesSteps ==
  ASSUME RestoreInv, [Next]_vars, NEW s \in Restores, Relies(s)'
  PROVE  /\ Active(s) /\ restore'[s].run = restore[s].run
         /\ Relies(s) \/ Readable(s)
<1>a. TypeInv
  BY DEF RestoreInv
<1>1. Active(s) /\ restore'[s].run = restore[s].run
  <2>1. Active(s)'
    BY DEF Relies
  <2> SUFFICES ASSUME AdmitRestore(s) PROVE Active(s) /\ restore'[s].run = restore[s].run
    BY <2>1, SourceSteps
  <2>2. prep[s] = "admitting" /\ restore[s].status = "absent"
    BY DEF AdmitRestore, RestoreInv, Tracks
  <2>3. prep'[s] \in {"queued", "none"}
    BY <1>a, Shapes DEF AdmitRestore, PrepGoto
  <2>4. restore' = restore \/ \E r \in Runs : restore' = [restore EXCEPT ![s] = [NoRestore EXCEPT !.status = "queued", !.run = r]]
    BY DEF AdmitRestore
  <2>5. restore' = restore \/ restore'[s].status = "queued"
    BY <2>4, <1>a, Shapes DEF NoRestore
  <2> QED BY <2>2, <2>3, <2>5 DEF Relies
<1>2. ASSUME restore'[s] = restore[s], prep'[s] = prep[s] \/ prep'[s] = "none" PROVE Relies(s)
  BY <1>2 DEF Relies, Active
<1>3. CASE JobNext /\ UNCHANGED <<restoreVars, teardown>>
  <2>1. UNCHANGED <<restore, prep>>
    BY <1>3, JobsKeepPhase DEF restoreVars
  <2> QED BY <2>1, <1>1, <1>2
<1>4. CASE RestoreNext /\ UNCHANGED <<job, teardown>>
  <2>1. PICK x \in Restores : Prepare(x) \/ Apply(x) \/ Cancel(x) \/ Operator(x)
    BY <1>4 DEF RestoreNext
  <2>2. CASE x = s
    BY <1>a, <1>1, <2>1, <2>2, ReliesOwn
  <2>3. CASE x # s
    <3>1. UNCHANGED <<restore[s], prep[s]>>
      BY <1>a, <2>1, <2>3, RestoreOthers
    <3> QED BY <3>1, <1>1, <1>2
  <2> QED BY <2>2, <2>3
<1>5. CASE ClaimDeletion \/ Teardown
  <2>1. UNCHANGED <<restore, prep>>
    BY <1>5, DeletionKeepsRestores
  <2> QED BY <2>1, <1>1, <1>2
<1>6. CASE Restart
  <2>1. restore'[s] = RestoreSweptAtBoot(restore[s]) /\ prep'[s] = "none"
    BY <1>6 DEF Restart, Die
  <2>2. DOMAIN restore[s] = {"status", "run", "cancel", "destructive", "partial", "down"}
    BY <1>a, Shapes
  <2>3. restore[s].status \notin RestoreInFlight
    <3>1. restore[s].status \in RestoreInFlight => restore'[s].status = "server_error"
      BY <2>1, <2>2 DEF RestoreSweptAtBoot
    <3> QED BY <3>1 DEF Relies, Active, RestoreActive, RestoreInFlight
  <2> QED BY <2>1, <2>3, <1>1, <1>2 DEF RestoreSweptAtBoot
<1>7. CASE ReplicaDies
  <2>1. PICK W \in SUBSET Workers, S \in SUBSET Restores, d \in BOOLEAN : Die(W, S, d)
    BY <1>7 DEF ReplicaDies
  <2>2. restore' = restore /\ (prep'[s] = prep[s] \/ prep'[s] = "none")
    BY <1>7, <2>1 DEF ReplicaDies, Die
  <2> QED BY <2>2, <1>1, <1>2
<1>8. CASE UNCHANGED vars
  <2>1. UNCHANGED <<restore, prep>>
    BY <1>8 DEF vars, store, restoreVars
  <2> QED BY <2>1, <1>1, <1>2
<1> QED BY <1>3, <1>4, <1>5, <1>6, <1>7, <1>8 DEF Next

LEMMA SourceIsSound ==
  ASSUME LockInv, PointInv, [Next]_vars, NEW s \in Restores, Relies(s)'
  PROVE  run'[restore'[s].run].artifacts \subseteq stored'
<1>1. /\ Active(s) /\ restore'[s].run = restore[s].run
      /\ Relies(s) \/ Readable(s)
  BY ReliesSteps DEF LockInv
<1>2. PICK r \in Restorable : r = restore[s].run
  BY <1>1 DEF LockInv, RunLocked
<1>3. run[r].artifacts \subseteq stored
  BY <1>1, <1>2 DEF PointInv, Sound, Readable
<1>4. run'[r].artifacts = run[r].artifacts
  BY PointRowKept
<1>5. ASSUME NEW w \in Workers, Erase(w) PROVE job[w].run # r
  <2>1. Locking(w) /\ job[w].run \in Runs
    BY <1>5 DEF Erase, Locking, LockInv, RestoreInv, TypeInv, Named
  <2>2. ActiveRestores(job[w].run) = {}
    BY <2>1 DEF LockInv, RunLocked, Unused
  <2> QED BY <1>1, <1>2, <2>2 DEF ActiveRestores, Active
<1>6. \A o \in stored : o \in run[r].artifacts => o \in stored'
  BY <1>5, PointObjectsKept
<1> QED BY <1>1, <1>2, <1>3, <1>4, <1>6

-----------------------------------------------------------------------------
(* The guarantees of restore points.                                       *)

LEMMA PointInvAtStart ==
  ASSUME Init
  PROVE  PointInv
<1>1. \A r \in Runs : run[r] = NoRun
  BY DEF Init, StoreInit
<1>2. Restorable = {}
  BY <1>1 DEF Restorable, NoRun
<1>3. NextFinish > 0
  BY FinishIsNatural
<1>4. \A r \in Runs : RowAt(r)
  BY <1>1, <1>2, <1>3 DEF RowAt, NoRun, RunTerminal
<1>5. \A w \in Workers : job[w].pc = "idle"
  BY DEF Init, JobInit, IdleJob
<1>6. \A w \in Workers : HeldAt(w, job[w].run) /\ PlanAt(w)
  BY <1>5 DEF HeldAt, PlanAt, WaitingPcs, CapturePcs
<1>7. \A s \in Restores : restore[s].status = "absent"
  BY DEF Init, StoreInit, NoRestore
<1>8. Sound
  BY <1>2, <1>7 DEF Sound, Newest, Relies, Active, RestoreActive, RestoreInFlight
<1> QED BY <1>4, <1>6, <1>8 DEF PointInv

LEMMA PointInvStep ==
  ASSUME LockInv, PointInv, [Next]_vars, {"lostReply", "lostColumns"} \cap FaultKinds = {}
  PROVE  PointInv'
<1>a. TypeInv'
  BY TypesStep DEF LockInv, RestoreInv
<1>1. \A r \in Runs : RowAt(r)'
  BY RowsStep
<1>2. ASSUME NEW w \in Workers PROVE HeldAt(w, job[w].run)'
  <2>1. CASE job'[w].pc \notin WaitingPcs \cup CapturePcs
    BY <2>1 DEF HeldAt, WaitingPcs, CapturePcs
  <2>2. CASE job'[w].pc \in WaitingPcs \cup CapturePcs
    <3>1. PICK r \in Runs : r = job'[w].run
      BY <1>a, <2>2 DEF TypeInv, Named, WaitingPcs
    <3>2. HeldAt(w, r)'
      BY <3>1, HeldStep
    <3> QED BY <3>1, <3>2 DEF HeldAt, Lineage, Own
  <2> QED BY <2>1, <2>2
<1>3. \A w \in Workers : PlanAt(w)'
  BY PlanStep
<1>4. Sound'
  <2>1. \A r \in Runs : Newest(r)' => (Keys(r) \subseteq stored)'
    BY NewestIsComplete
  <2>2. \A s \in Restores : Relies(s)' => run'[restore'[s].run].artifacts \subseteq stored'
    BY SourceIsSound
  <2> QED BY <2>1, <2>2 DEF Sound
<1> QED BY <1>1, <1>2, <1>3, <1>4 DEF PointInv

(* The inductive invariant of captures and of retention. It needs that a   *)
(* capture which fails knows whether its run has succeeded: when the reply *)
(* to the write that says so can be lost, a slot reclaims what a restore   *)
(* point refers to. And it needs that a restore point refers to what its   *)
(* capture kept: a row whose columns were lost refers to nothing.          *)
LEMMA PointInvHolds ==
  ASSUME {"lostReply", "lostColumns"} \cap FaultKinds = {}
  PROVE  Spec => [](LockInv /\ PointInv)
<1>1. Init => PointInv
  BY PointInvAtStart
<1>2. LockInv /\ PointInv /\ [Next]_vars => PointInv'
  BY PointInvStep
<1> QED BY <1>1, <1>2, LockInvHolds, PTL DEF Spec

(* The newest restore point is complete (NewestComplete): retention, which *)
(* works from a plan made before it takes the lock of any run, a capture   *)
(* that shares objects with it and a failed capture that reclaims what it  *)
(* uploaded never take an object that it refers to. Excluded are a lost    *)
(* reply to the write of the success and columns that this write loses.    *)
THEOREM NewestIsAlwaysComplete ==
  ASSUME {"lostReply", "lostColumns"} \cap FaultKinds = {}
  PROVE  Spec => []NewestComplete
<1>1. LockInv /\ PointInv => NewestComplete
  <2> SUFFICES ASSUME LockInv, PointInv, NEW r \in Restorable,
                      \A x \in Restorable : run[x].finished <= run[r].finished
               PROVE  run[r].artifacts # {} /\ Keys(r) \subseteq stored
    BY DEF NewestComplete
  <2>1. r \in Runs /\ Newest(r)
    BY DEF Newest, Restorable
  <2> QED BY <2>1 DEF PointInv, RowAt, Sound
<1> QED BY <1>1, PointInvHolds, PTL

(* What a restore was told is sound stays at the destination until the     *)
(* restore is over (SourceStays): between the check of its source and its  *)
(* last read nothing that runs beside it removes an object of the run. The *)
(* same two faults are excluded.                                           *)
THEOREM SourceAlwaysStays ==
  ASSUME {"lostReply", "lostColumns"} \cap FaultKinds = {}
  PROVE  Spec => []SourceStays
<1>1. LockInv /\ PointInv => SourceStays
  <2> SUFFICES ASSUME LockInv, PointInv, NEW s \in Restores, restore[s].status \in {"prepared", "applying"}
               PROVE  /\ run[restore[s].run].artifacts # {}
                      /\ run[restore[s].run].artifacts \subseteq stored
    BY DEF SourceStays
  <2>1. Relies(s) /\ Active(s)
    BY DEF Relies, Active, RestoreActive, RestoreInFlight
  <2>2. restore[s].run \in Restorable /\ restore[s].run \in Runs
    BY <2>1 DEF LockInv, RunLocked, Restorable
  <2> QED BY <2>1, <2>2 DEF PointInv, RowAt, Sound
<1> QED BY <1>1, PointInvHolds, PTL

(* Nothing takes an object of a restore point but retention, which holds   *)
(* the lock of its run, while the run is neither protected nor restored    *)
(* and RetainCount newer restore points exist (RestorePointsLast). The     *)
(* same two faults are excluded.                                           *)
THEOREM RestorePointsAlwaysLast ==
  ASSUME {"lostReply", "lostColumns"} \cap FaultKinds = {}
  PROVE  Spec => RestorePointsLast
<1> DEFINE Expires(r) ==
             /\ \E w \in Workers : runLock[r] = w
             /\ ~run[r].protected
             /\ ActiveRestores(r) = {}
             /\ Cardinality({x \in Restorable : run[x].finished > run[r].finished}) >= RetainCount
           Lasts ==
             \A r \in Restorable :
               \/ Keys(r) \cap stored \subseteq stored'
               \/ /\ \E w \in Workers : runLock[r] = w
                  /\ ~run[r].protected
                  /\ ActiveRestores(r) = {}
                  /\ Cardinality({x \in Restorable : run[x].finished > run[r].finished}) >= RetainCount
<1>1. LockInv /\ PointInv /\ [Next]_vars => Lasts
  <2> SUFFICES ASSUME LockInv, PointInv, [Next]_vars, NEW r \in Restorable
               PROVE  Keys(r) \cap stored \subseteq stored' \/ Expires(r)
    OBVIOUS
  <2>1. ASSUME \A w \in Workers : Erase(w) => job[w].run # r PROVE Keys(r) \cap stored \subseteq stored'
    <3>1. \A o \in stored : o \in run[r].artifacts \/ o = Own(r, "manifest") => o \in stored'
      BY <2>1, PointObjectsKept
    <3> QED BY <3>1 DEF Keys
  <2>2. ASSUME NEW w \in Workers, Erase(w), job[w].run = r PROVE Expires(r)
    <3>1. Locking(w)
      BY <2>2 DEF Erase, Locking
    <3>2. runLock[r] = w /\ ~run[r].protected /\ ActiveRestores(r) = {}
      BY <2>2, <3>1 DEF LockInv, RunLocked, Unused, Restorable
    <3>3. Cardinality(Newer(r, Restorable \ job[w].victims)) >= RetainCount
      BY <2>2, <3>1, VictimsAreOld
    <3>4. /\ Newer(r, Restorable \ job[w].victims) \subseteq {x \in Restorable : run[x].finished > run[r].finished}
          /\ {x \in Restorable : run[x].finished > run[r].finished} \subseteq Runs
      BY DEF Newer, Restorable
    <3>5. Cardinality({x \in Restorable : run[x].finished > run[r].finished}) >= RetainCount
      BY <3>3, <3>4, MoreRuns
    <3> QED BY <3>2, <3>5
  <2> HIDE DEF Expires
  <2> QED BY <2>1, <2>2
<1>2. LockInv /\ PointInv /\ [Next]_vars => [Lasts]_vars
  BY <1>1
<1> QED BY <1>2, PointInvHolds, PTL DEF Spec, RestorePointsLast

-----------------------------------------------------------------------------
(* Nothing is left behind at the destination.                              *)

(* No request is refused, no reply and no column is lost, every row that   *)
(* decides a reclaim can be read, and nothing dies.                        *)
Reliable ==
  {"refusal", "lostReply", "lostColumns", "unreadable", "crash", "death"} \cap FaultKinds = {}

UploadPcs == {"blocks", "record", "verify", "succeed", "payload", "reclaim"}

(* An object is accounted for by a restore point that refers to it or by   *)
(* the slot that uploaded it for a run that it still captures.             *)
Referred(o) == \E r \in Restorable : o \in Keys(r)
Uploading(o) == \E w \in Workers : job[w].pc \in UploadPcs /\ o \in job[w].uploaded

Dropping(r) == \E w \in Workers : job[w].pc = "drop" /\ job[w].run = r

(* What a capture uploads its restore point will refer to; what retention  *)
(* plans with are the keys of restore points, and when it drops a run      *)
(* what is left of it is shared.                                           *)
LedgerAt(w) ==
  /\ job[w].pc \in UploadPcs \ {"reclaim"} =>
       job[w].uploaded \subseteq job[w].kept \cup {Own(job[w].run, "manifest")}
  /\ job[w].pc \in {"victim", "erase", "drop"} =>
       /\ \A r \in Runs : \A o \in job[w].plan[r] : r \in Restorable /\ o \in Keys(r)
       /\ \A v \in job[w].victims : run[v].lease # "open" /\ Keys(v) \subseteq job[w].plan[v]
  /\ job[w].pc = "drop" =>
       \A o \in stored : o \in Keys(job[w].run) => \E r \in Runs \ {job[w].run} : o \in job[w].plan[r]

LedgerInv ==
  /\ \A o \in stored : Referred(o) \/ Uploading(o)
  /\ \A r \in Restorable : Keys(r) \subseteq stored \/ Dropping(r)
  /\ \A w \in Workers : LedgerAt(w)

LEMMA SlotsLast ==
  ASSUME TypeInv, Reliable, [Next]_vars
  PROVE  \/ \E w \in Workers : Works(w) /\ \A x \in Workers \ {w} : job'[x] = job[x]
         \/ stored' = stored /\ \A w \in Workers : job'[w] = job[w]
<1> DEFINE One == \E w \in Workers : Works(w) /\ \A x \in Workers \ {w} : job'[x] = job[x]
           None == stored' = stored /\ \A w \in Workers : job'[w] = job[w]
<1> SUFFICES One \/ None OBVIOUS
<1>1. CASE JobNext /\ UNCHANGED <<restoreVars, teardown>>
  <2>1. CASE Trigger
    BY <2>1, TriggerWrites
  <2>2. ASSUME NEW w \in Workers, Works(w) PROVE One
    BY <2>2, JobOthers DEF Works
  <2> HIDE DEF One, None
  <2> QED BY <1>1, <2>1, <2>2 DEF JobNext, Works
<1>2. CASE RestoreNext /\ UNCHANGED <<job, teardown>>
  BY <1>2, RestoresKeepRuns DEF RestoreNext
<1>3. CASE ClaimDeletion \/ Teardown
  BY <1>3, DeletionKeepsRestores
<1>4. ~Restart /\ ~ReplicaDies
  BY DEF Restart, ReplicaDies, Fault, Reliable
<1>5. CASE UNCHANGED vars
  BY <1>5 DEF vars, store
<1> HIDE DEF One, None
<1> QED BY <1>1, <1>2, <1>3, <1>4, <1>5 DEF Next

(* A failed capture takes back all that it uploaded, and retention erases  *)
(* all that it alone refers to.                                            *)
LEMMA FullyRemoved ==
  ASSUME LockInv, PointInv, Reliable, NEW w \in Workers
  PROVE  /\ Reclaim(w) => stored' = stored \ job[w].uploaded
         /\ Erase(w) =>
              /\ stored' = stored \ Unshared(w)
              /\ job'[w].pc = "drop"
              /\ UNCHANGED <<run, job[w].run, job[w].plan, job[w].victims>>
<1>a. TypeInv /\ "refusal" \notin FaultKinds /\ "unreadable" \notin FaultKinds
  BY DEF LockInv, RestoreInv, Reliable
<1>1. ASSUME Reclaim(w) PROVE stored' = stored \ job[w].uploaded
  <2>1. job[w].pc = "reclaim" /\ HeldAt(w, job[w].run)
    BY <1>1 DEF Reclaim, PointInv
  <2>2. MayReclaim(w, TRUE)
    BY <2>1 DEF HeldAt, MayReclaim, CapturePcs
  <2> QED BY <1>1, <1>a, <2>2 DEF Reclaim, Fault
<1>2. ASSUME Erase(w)
      PROVE  /\ stored' = stored \ Unshared(w)
             /\ job'[w].pc = "drop"
             /\ UNCHANGED <<run, job[w].run, job[w].plan, job[w].victims>>
  <2>1. stored' = stored \ Unshared(w) /\ Goto(w, "drop") /\ run' = run
    BY <1>2, <1>a DEF Erase, Fault
  <2>2. /\ DOMAIN job = Workers
        /\ DOMAIN job[w] = {"pc", "run", "frozen", "content", "old", "kept", "uploaded",
                            "elsewhere", "completed", "plan", "victims"}
    BY <1>a, Shapes
  <2> QED BY <2>1, <2>2 DEF Goto
<1> QED BY <1>1, <1>2

(* What a slot can do at its place.                                        *)
LEMMA WorksThere ==
  ASSUME TypeInv, NEW w \in Workers, Works(w)
  PROVE  /\ job[w].pc \in InsidePcs => job[w].run \in Runs /\ Capture(w)
         /\ job[w].pc = "blocks" => UploadBlock(w) \/ FinishBlocks(w) \/ FailCapture(w)
         /\ job[w].pc = "record" => RecordArtifacts(w) \/ FailCapture(w)
         /\ job[w].pc = "verify" => Verify(w) \/ FailCapture(w)
         /\ job[w].pc = "succeed" => Succeed(w) \/ FailCapture(w)
         /\ job[w].pc = "payload" => RecordSuccess(w)
         /\ job[w].pc = "reclaim" => Reclaim(w)
         /\ job[w].pc = "erase" => Erase(w)
         /\ job[w].pc = "drop" => Drop(w)
         /\ job[w].pc = "victim" => LockVictim(w) \/ EndPrune(w)
<1>1. job[w].pc \in InsidePcs => job[w].run \in Runs
  BY DEF TypeInv, Named, InsidePcs
<1>2. job[w].pc \in InsidePcs => Capture(w)
  BY DEF Works, Prune, StartSweep, Deliver, Survey, LockVictim, Erase, Drop, EndPrune, InsidePcs, CapturePcs
<1>3. job[w].pc \in CapturePcs \cup {"victim", "erase", "drop"} =>
        /\ ~TakePolicyLock(w) /\ ~TakeProjectLock(w) /\ ~StartSweep(w) /\ ~Claim(w) /\ ~Survey(w)
        /\ \A r \in Runs : ~Deliver(w, r)
  BY DEF TakePolicyLock, TakeProjectLock, StartSweep, Deliver, Claim, Survey, CapturePcs
<1>4. /\ job[w].pc = "blocks" => UploadBlock(w) \/ FinishBlocks(w) \/ FailCapture(w)
      /\ job[w].pc = "record" => RecordArtifacts(w) \/ FailCapture(w)
      /\ job[w].pc = "verify" => Verify(w) \/ FailCapture(w)
      /\ job[w].pc = "succeed" => Succeed(w) \/ FailCapture(w)
      /\ job[w].pc = "payload" => RecordSuccess(w)
      /\ job[w].pc = "reclaim" => Reclaim(w)
  BY <1>2, <1>3 DEF Capture, Snapshot, StartUpload, UploadBlock, FinishBlocks, RecordArtifacts, Verify, Succeed,
     RecordSuccess, FailCapture, Reclaim, Fail, Finish, InsidePcs, CapturePcs
<1>5. job[w].pc \in {"victim", "erase", "drop"} => Prune(w)
  BY <1>3 DEF Works, Capture, Snapshot, StartUpload, UploadBlock, FinishBlocks, RecordArtifacts, Verify, Succeed,
     RecordSuccess, FailCapture, Reclaim, Fail, Finish
<1>6. /\ job[w].pc = "erase" => Erase(w)
      /\ job[w].pc = "drop" => Drop(w)
      /\ job[w].pc = "victim" => LockVictim(w) \/ EndPrune(w)
  BY <1>5, <1>3 DEF Prune, LockVictim, Erase, Drop, EndPrune
<1> QED BY <1>1, <1>2, <1>4, <1>6

(* The keys of a restore point stay; it gains its manifest at most, and    *)
(* nothing when its capture is over.                                       *)
LEMMA KeysKept ==
  ASSUME LockInv, PointInv, Reliable, [Next]_vars, NEW r \in Restorable
  PROVE  /\ Keys(r) \subseteq Keys(r)'
         /\ \A o \in Keys(r)' : o \in Keys(r) \/ (o = Own(r, "manifest") /\ o \in stored)
         /\ run[r].lease # "open" => Keys(r)' = Keys(r)
<1>1. r \in Runs /\ run[r].status = "succeeded" /\ ~Undecided(r) /\ TypeInv
  BY DEF Restorable, Undecided, RunTerminal, LockInv, RestoreInv
<1>2. RowStep(r)
  BY <1>1, RowSteps
<1>3. /\ run'[r].artifacts = run[r].artifacts
      /\ run'[r].manifest => run[r].manifest \/ Own(r, "manifest") \in stored
  BY PointRowKept
<1>4. \/ run'[r].manifest = run[r].manifest
      \/ run'[r].manifest /\ run[r].lease = "open"
  <2>1. ASSUME NEW w \in Workers, Completed(w, r) PROVE run'[r].manifest /\ run[r].lease = "open"
    BY <2>1 DEF Reliable, Completed, LockInv, Leased, Capturing, CapturePcs
  <2> QED BY <1>1, <1>2, <2>1 DEF RowStep, Same, Created, GoesOn, GivenUp, Recorded, Succeeded, Failed, Dropped,
     RunTerminal
<1>5. Own(r, "manifest")' = Own(r, "manifest")
  BY DEF Own
<1>6. Keys(r)' = run'[r].artifacts \cup (IF run'[r].manifest THEN {Own(r, "manifest")} ELSE {})
  BY <1>5 DEF Keys
<1>7. Keys(r) = run[r].artifacts \cup (IF run[r].manifest THEN {Own(r, "manifest")} ELSE {})
  BY DEF Keys
<1> QED BY <1>3, <1>4, <1>6, <1>7

(* What is new at the destination some slot has just uploaded, for a run   *)
(* that has not succeeded.                                                 *)
LEMMA NewObjects ==
  ASSUME LockInv, PointInv, Reliable, [Next]_vars, NEW o \in stored', o \notin stored
  PROVE  Uploading(o)' /\ run[o[1]].status # "succeeded"
<1>a. TypeInv
  BY DEF LockInv, RestoreInv
<1> DEFINE Fresh(w) ==
             /\ job'[w].pc \in UploadPcs /\ o \in job'[w].uploaded
             /\ o[1] = job[w].run /\ job[w].pc \in CapturePcs \ {"payload", "finish"}
<1>1. ASSUME NEW w \in Workers, Works(w) PROVE Fresh(w)
  <2>1. CASE job[w].pc \notin InsidePcs
    <3>1. Survey(w) \/ LockVictim(w) \/ Erase(w) \/ Drop(w) \/ EndPrune(w) => stored' \subseteq stored
      BY <1>a, PruneWrites
    <3> QED BY <1>a, <1>1, <2>1, <3>1, OutsideWrites DEF Works, Prune
  <2>2. CASE job[w].pc \in InsidePcs
    <3>1. PICK r \in Runs : r = job[w].run
      BY <2>2, <1>a, <1>1, WorksThere
    <3>2. Capture(w)
      BY <2>2, <1>a, <1>1, WorksThere
    <3>3. ~Claim(w) /\ ~Snapshot(w) /\ ~StartUpload(w)
      BY <1>a, <3>1, StatusWrites
    <3>4. ~Succeed(w) /\ ~RecordSuccess(w) /\ ~FailCapture(w) /\ ~Reclaim(w) /\ ~Fail(w) /\ ~Finish(w)
      BY <1>a, <3>1, EndWrites
    <3>5. ~TakePolicyLock(w) /\ ~TakeProjectLock(w)
      BY <2>2 DEF TakePolicyLock, TakeProjectLock, InsidePcs, CapturePcs
    <3>6. CASE UploadBlock(w)
      <4>1. PICK b \in job[w].content :
              /\ job'[w].uploaded = job[w].uploaded \cup ({ObjectFor(w, b)} \ job[w].old)
              /\ stored' = stored \cup ({ObjectFor(w, b)} \ job[w].old)
        BY <3>6, <1>a, <3>1, UploadWrites
      <4>2. job[w].pc = "blocks" /\ job'[w].pc = "blocks"
        BY <3>6, <1>a, <3>1, UploadWrites
      <4>3. o = ObjectFor(w, b) /\ o \notin job[w].old /\ o \in job'[w].uploaded
        BY <4>1
      <4>4. o[1] = r
        BY <4>3, <1>a, <3>1, ObjectChosen DEF Own
      <4> QED BY <3>1, <4>2, <4>3, <4>4 DEF UploadPcs, CapturePcs
    <3>7. CASE FinishBlocks(w)
      <4>1. PICK I \in SUBSET {Own(r, "index")} :
              job'[w].uploaded = job[w].uploaded \cup I /\ stored' = stored \cup I
        BY <3>7, <1>a, <3>1, UploadWrites
      <4>2. job[w].pc = "blocks" /\ job'[w].pc = "record"
        BY <3>7, <1>a, <3>1, UploadWrites
      <4> QED BY <3>1, <4>1, <4>2 DEF UploadPcs, CapturePcs, Own
    <3>8. CASE RecordArtifacts(w)
      BY <3>8, <1>a, <3>1, UploadWrites DEF Refuses
    <3>9. CASE Verify(w)
      <4>1. /\ job[w].pc = "verify" /\ job'[w].pc = "succeed"
            /\ stored' = stored \cup {Own(r, "manifest")}
            /\ job'[w].uploaded = job[w].uploaded \cup {Own(r, "manifest")}
        BY <3>9, <1>a, <3>1, UploadWrites DEF Refuses
      <4> QED BY <3>1, <4>1 DEF UploadPcs, CapturePcs, Own
    <3> HIDE DEF Fresh
    <3> QED BY <3>2, <3>3, <3>4, <3>5, <3>6, <3>7, <3>8, <3>9 DEF Capture
  <2> QED BY <2>1, <2>2
<1>2. PICK w \in Workers : Fresh(w)
  BY <1>1, <1>a, SlotsLast
<1>3. HeldAt(w, job[w].run)
  BY DEF PointInv
<1>4. run[o[1]].status # "succeeded"
  BY <1>2, <1>3 DEF HeldAt
<1> QED BY <1>2, <1>4 DEF Uploading

(* What a slot has uploaded stays in its list until the row of its run     *)
(* refers to it or it is taken back.                                       *)
LEMMA UploadedLasts ==
  ASSUME LockInv, PointInv, Reliable, [Next]_vars, NEW w \in Workers, LedgerAt(w),
         job[w].pc \in UploadPcs, NEW o \in job[w].uploaded, o \in stored'
  PROVE  Uploading(o)' \/ Referred(o)'
<1>a. TypeInv /\ job[w].pc \in InsidePcs /\ HeldAt(w, job[w].run)
  BY DEF LockInv, RestoreInv, UploadPcs, InsidePcs, CapturePcs, PointInv
<1>1. CASE job'[w] = job[w]
  BY <1>1 DEF Uploading
<1>2. CASE Works(w)
  <2>1. PICK r \in Runs : r = job[w].run
    BY <1>2, <1>a, WorksThere
  <2>2. ASSUME job'[w].pc \in UploadPcs, job[w].uploaded \subseteq job'[w].uploaded PROVE Uploading(o)'
    BY <2>2 DEF Uploading
  <2>3. ASSUME UploadBlock(w) \/ FinishBlocks(w) \/ RecordArtifacts(w) \/ Verify(w) PROVE Uploading(o)'
    <3>1. job'[w].pc \in UploadPcs /\ job[w].uploaded \subseteq job'[w].uploaded
      BY <2>3, <1>a, <2>1, UploadWrites DEF Refuses, Carries, UploadPcs
    <3> QED BY <3>1, <2>2
  <2>4. ASSUME Succeed(w) \/ FailCapture(w) PROVE Uploading(o)'
    <3>1. job'[w].pc \in UploadPcs /\ job[w].uploaded \subseteq job'[w].uploaded
      BY <2>4, <1>a, <2>1, EndWrites DEF Refuses, Carries, UploadPcs
    <3> QED BY <3>1, <2>2
  <2>5. ASSUME RecordSuccess(w) PROVE Referred(o)'
    <3>1. /\ job[w].pc = "payload" /\ run'[r].artifacts = job[w].kept /\ run'[r].manifest
          /\ UNCHANGED <<run[r].status, run[r].deleted>>
      BY <2>5, <1>a, <2>1, EndWrites DEF Reliable
    <3>2. o \in job[w].kept \/ o = Own(r, "manifest")
      BY <3>1, <2>1 DEF LedgerAt, UploadPcs
    <3>3. r \in Restorable'
      BY <3>1, <2>1, <1>a DEF HeldAt, CapturePcs, Restorable
    <3>4. o \in Keys(r)'
      BY <3>1, <3>2 DEF Keys, Own
    <3> QED BY <3>3, <3>4 DEF Referred
  <2>6. ~Reclaim(w)
    BY FullyRemoved
  <2> QED BY <1>2, <1>a, <2>3, <2>4, <2>5, <2>6, WorksThere DEF UploadPcs
<1> QED BY <1>1, <1>2, <1>a, SlotsLast

(* Every object stays accounted for: what a dropped run referred to is     *)
(* shared or gone.                                                         *)
LEMMA ObjectsAccounted ==
  ASSUME LockInv, PointInv, LedgerInv, Reliable, [Next]_vars, NEW o \in stored'
  PROVE  Referred(o)' \/ Uploading(o)'
<1>a. TypeInv
  BY DEF LockInv, RestoreInv
<1>1. CASE o \notin stored
  BY <1>1, NewObjects
<1>2. CASE Uploading(o)
  <2>1. PICK w \in Workers : job[w].pc \in UploadPcs /\ o \in job[w].uploaded
    BY <1>2 DEF Uploading
  <2> QED BY <2>1, UploadedLasts DEF LedgerInv
<1>3. CASE o \in stored /\ Referred(o)
  <2>1. PICK r \in Restorable : o \in Keys(r)
    BY <1>3 DEF Referred
  <2>2. ASSUME NEW x \in Restorable, o \in Keys(x), \A w \in Workers : ~(Drop(w) /\ job[w].run = x)
        PROVE  Referred(o)'
    <3>1. x \in Restorable'
      BY <1>a, <2>2, PointKept
    <3>2. o \in Keys(x)'
      BY <2>2, KeysKept
    <3> QED BY <3>1, <3>2 DEF Referred
  <2>3. ASSUME NEW w \in Workers, Drop(w), job[w].run = r PROVE Referred(o)'
    <3>1. job[w].pc = "drop" /\ LedgerAt(w)
      BY <2>3 DEF Drop, LedgerInv
    <3>2. PICK x \in Runs \ {r} : o \in job[w].plan[x]
      BY <1>3, <2>1, <2>3, <3>1 DEF LedgerAt
    <3>3. x \in Restorable /\ o \in Keys(x)
      BY <3>1, <3>2 DEF LedgerAt
    <3>4. ASSUME NEW y \in Workers, Drop(y) PROVE job[y].run # x
      <4>1. job[y].pc = "drop"
        BY <3>4 DEF Drop
      <4>2. policyLock = w /\ policyLock = y
        BY <3>1, <4>1 DEF LockInv, PolicyLocked, HoldsPolicy, PrunePcs
      <4> QED BY <2>3, <3>2, <4>2
    <3> QED BY <3>3, <3>4, <2>2
  <2> QED BY <2>1, <2>2, <2>3
<1> QED BY <1>1, <1>2, <1>3 DEF LedgerInv

(* A restore point is complete until retention has begun to drop it.       *)
LEMMA PointsComplete ==
  ASSUME LockInv, PointInv, LedgerInv, Reliable, [Next]_vars, NEW r \in Restorable'
  PROVE  Keys(r)' \subseteq stored' \/ Dropping(r)'
<1>a. TypeInv /\ r \in Runs /\ run'[r].status = "succeeded" /\ ~run'[r].deleted
  BY DEF LockInv, RestoreInv, Restorable
<1>1. CASE r \in Restorable /\ Dropping(r)
  <2>1. PICK w \in Workers : job[w].pc = "drop" /\ job[w].run = r
    BY <1>1 DEF Dropping
  <2>2. ~Drop(w)
    <3> SUFFICES ASSUME Drop(w) PROVE FALSE
      OBVIOUS
    <3>1. run'[r] = [run[r] EXCEPT !.deleted = TRUE]
      BY <1>a, <2>1, PruneWrites
    <3>2. run'[r].deleted
      BY <1>a, <3>1, Shapes
    <3> QED BY <1>a, <3>2
  <2>3. job'[w] = job[w]
    BY <1>a, <2>1, <2>2, SlotsLast, WorksThere
  <2> QED BY <2>1, <2>3 DEF Dropping
<1>2. CASE r \in Restorable /\ Keys(r) \subseteq stored
  <2>1. ASSUME NEW w \in Workers, Erase(w), job[w].run = r PROVE Dropping(r)'
    BY <2>1, FullyRemoved DEF Dropping
  <2>2. ASSUME \A w \in Workers : Erase(w) => job[w].run # r, NEW o \in Keys(r)' PROVE o \in stored'
    <3>1. o \in stored /\ (o \in run[r].artifacts \/ o = Own(r, "manifest"))
      <4>1. o \in Keys(r) \/ (o = Own(r, "manifest") /\ o \in stored)
        BY <1>2, <2>2, KeysKept
      <4> QED BY <1>2, <4>1 DEF Keys
    <3> QED BY <1>2, <2>2, <3>1, PointObjectsKept
  <2> QED BY <2>1, <2>2
<1>3. CASE r \notin Restorable
  <2>1. PICK x \in Workers : Succeeded(x, r)
    <3>1. RowStep(r)
      BY <1>a, RowSteps
    <3> QED
      BY <1>a, <1>3, <3>1 DEF RowStep, Same, Created, GoesOn, GivenUp, Recorded, Completed, Failed, Dropped,
         Restorable, RunTerminal, NoRun
  <2>2. job[x].pc = "succeed" /\ job[x].run = r /\ run'[r].artifacts = run[r].artifacts
    BY <2>1 DEF Succeeded
  <2>3. HeldAt(x, r)
    BY <2>2 DEF PointInv
  <2>4. /\ run[r].artifacts = job[x].kept /\ job[x].kept \subseteq stored
        /\ Own(r, "manifest") \in stored
    BY <2>2, <2>3 DEF HeldAt
  <2>5. \A o \in stored : o \in job[x].kept \/ o = Own(r, "manifest") => o \in stored'
    BY <2>2, HeldObjectsKept
  <2>6. \A o \in Keys(r)' : o \in run'[r].artifacts \/ o = Own(r, "manifest")
    BY DEF Keys, Own
  <2> QED BY <2>2, <2>4, <2>5, <2>6
<1> QED BY <1>1, <1>2, <1>3 DEF LedgerInv

(* The lists of a slot, in the steps of others, ...                        *)
LEMMA LedgerByOthers ==
  ASSUME LockInv, PointInv, LedgerInv, Reliable, [Next]_vars, NEW w \in Workers, job'[w] = job[w]
  PROVE  LedgerAt(w)'
<1>a. TypeInv /\ LedgerAt(w)
  BY DEF LockInv, RestoreInv, LedgerInv
<1>b. Own(job[w].run, "manifest")' = Own(job[w].run, "manifest")
  BY DEF Own
<1>1. ASSUME job[w].pc \in {"victim", "erase", "drop"}
      PROVE  /\ \A r \in Runs : \A o \in job[w].plan[r] : r \in Restorable' /\ o \in Keys(r)'
             /\ \A v \in job[w].victims :
                  run'[v].lease # "open" /\ Keys(v)' = Keys(v) /\ Keys(v) \subseteq job[w].plan[v]
  <2>1. \A x \in Workers : ~Drop(x)
    <3> SUFFICES ASSUME NEW x \in Workers, Drop(x) PROVE FALSE
      OBVIOUS
    <3>1. job[x].pc = "drop" /\ job'[x].pc = "victim"
      BY <1>a, PruneWrites
    <3>2. policyLock = x /\ policyLock = w
      BY <1>1, <3>1 DEF LockInv, PolicyLocked, HoldsPolicy, PrunePcs
    <3> QED BY <3>1, <3>2
  <2>2. ASSUME NEW r \in Runs, NEW o \in job[w].plan[r] PROVE r \in Restorable' /\ o \in Keys(r)'
    <3>1. r \in Restorable /\ o \in Keys(r)
      BY <1>1, <1>a, <2>2 DEF LedgerAt
    <3>2. r \in Restorable'
      BY <1>a, <2>1, <3>1, PointKept
    <3>3. o \in Keys(r)'
      BY <3>1, KeysKept
    <3> QED BY <3>2, <3>3
  <2>3. ASSUME NEW v \in job[w].victims
        PROVE  run'[v].lease # "open" /\ Keys(v)' = Keys(v) /\ Keys(v) \subseteq job[w].plan[v]
    <3>1. v \in Restorable /\ run[v].lease # "open" /\ Keys(v) \subseteq job[w].plan[v]
      BY <1>1, <1>a DEF LedgerAt, PointInv, PlanAt
    <3>2. run'[v].lease \in {run[v].lease, "closed"}
      BY <1>a, <3>1, PointKept
    <3>3. Keys(v)' = Keys(v)
      BY <3>1, KeysKept
    <3> QED BY <3>1, <3>2, <3>3
  <2> QED BY <2>2, <2>3
<1>2. ASSUME job[w].pc = "drop", NEW o \in stored', o \in Keys(job[w].run)'
      PROVE  \E r \in Runs \ {job[w].run} : o \in job[w].plan[r]
  <2>1. Locking(w) /\ job[w].run \in job[w].victims /\ job[w].run \in Restorable
    BY <1>2, VictimsAreOld DEF Locking, PointInv, PlanAt
  <2>2. Keys(job[w].run)' = Keys(job[w].run)
    <3>1. job'[w].run = job[w].run
      OBVIOUS
    <3>2. PICK v \in Restorable : v = job[w].run /\ v \in job[w].victims
      BY <2>1
    <3>3. Keys(v)' = Keys(v)
      BY <1>1, <1>2, <3>2
    <3> QED BY <3>1, <3>2, <3>3 DEF Keys, Own
  <2>3. o \in stored
    <3>1. run[o[1]].status = "succeeded"
      <4>1. PICK v \in Runs : v = job[w].run /\ run[v].status = "succeeded" /\ RowAt(v)
        BY <2>1 DEF Restorable, PointInv
      <4>2. o \in Keys(v)
        BY <1>2, <2>2, <4>1
      <4> QED BY <4>1, <4>2 DEF Keys, RowAt, Own
    <3> QED BY <3>1, NewObjects
  <2> QED BY <1>2, <1>a, <2>2, <2>3 DEF LedgerAt
<1>3. ASSUME job[w].pc \in {"victim", "erase", "drop"}
      PROVE  /\ \A r \in Runs : \A o \in job'[w].plan[r] : r \in Restorable' /\ o \in Keys(r)'
             /\ \A v \in job'[w].victims : run'[v].lease # "open" /\ Keys(v)' \subseteq job'[w].plan[v]
  BY <1>1, <1>3
<1>4. ASSUME job'[w].pc = "drop"
      PROVE  \A o \in stored' : o \in Keys(job[w].run)' => \E r \in Runs \ {job'[w].run} : o \in job'[w].plan[r]
  BY <1>2, <1>4
<1> QED BY <1>a, <1>b, <1>3, <1>4 DEF LedgerAt

(* ... when it captures a run, ...                                         *)
LEMMA LedgerCaptured ==
  ASSUME LockInv, PointInv, LedgerInv, Reliable, [Next]_vars, NEW w \in Workers, Works(w),
         job[w].pc \in InsidePcs
  PROVE  LedgerAt(w)'
<1>a. TypeInv /\ LedgerAt(w) /\ HeldAt(w, job[w].run)
  BY DEF LockInv, RestoreInv, LedgerInv, PointInv
<1>b. PICK r \in Runs : r = job[w].run
  BY <1>a, WorksThere
<1> DEFINE Elsewhere == job'[w].pc \notin (UploadPcs \ {"reclaim"}) \cup {"victim", "erase", "drop"}
           Lists ==
             /\ job'[w].pc \in UploadPcs \ {"reclaim"}
             /\ job'[w].run = r
             /\ job'[w].uploaded \subseteq job'[w].kept \cup {Own(r, "manifest")}
<1>1. ASSUME Elsewhere PROVE LedgerAt(w)'
  BY <1>1 DEF LedgerAt
<1>2. ASSUME Lists PROVE LedgerAt(w)'
  <2>1. \A x \in Runs : Own(x, "manifest")' = Own(x, "manifest")
    BY DEF Own
  <2>2. Own(job[w].run, "manifest")' = Own(r, "manifest")
    BY <1>2 DEF Own
  <2> QED BY <1>2, <2>2 DEF LedgerAt, UploadPcs
<1>3. ASSUME Claim(w) \/ Snapshot(w) PROVE Elsewhere
  BY <1>3, <1>a, <1>b, StatusWrites DEF Refuses, IdleJob, UploadPcs
<1>4. ASSUME StartUpload(w) PROVE Elsewhere \/ Lists
  <2>1. \/ job'[w].pc = "blocks" /\ UNCHANGED <<job[w].run, job[w].kept, job[w].uploaded>>
        \/ job'[w].pc = "reclaim"
    BY <1>4, <1>a, <1>b, StatusWrites DEF Refuses
  <2>2. job[w].pc = "upload"
    BY <1>4, <1>a, <1>b, StatusWrites
  <2>3. job[w].uploaded = {}
    BY <2>2, <1>a DEF HeldAt
  <2> QED BY <1>b, <2>1, <2>3 DEF UploadPcs
<1>5. ASSUME UploadBlock(w) PROVE Lists
  <2>1. /\ job[w].pc = "blocks" /\ job'[w].pc = "blocks" /\ job'[w].run = job[w].run
        /\ \E b \in job[w].content :
             /\ job'[w].kept = job[w].kept \cup {ObjectFor(w, b)}
             /\ job'[w].uploaded = job[w].uploaded \cup ({ObjectFor(w, b)} \ job[w].old)
    BY <1>5, <1>a, <1>b, UploadWrites
  <2>2. job[w].uploaded \subseteq job[w].kept \cup {Own(r, "manifest")}
    BY <1>a, <1>b, <2>1 DEF LedgerAt, UploadPcs
  <2>3. job'[w].uploaded \subseteq job'[w].kept \cup {Own(r, "manifest")}
    BY <2>1, <2>2
  <2> QED BY <1>b, <2>1, <2>3 DEF UploadPcs
<1>6. ASSUME FinishBlocks(w) PROVE Lists
  <2>1. /\ job[w].pc = "blocks" /\ job'[w].pc = "record" /\ job'[w].run = job[w].run
        /\ \E I \in SUBSET {Own(r, "index")} :
             job'[w].kept = job[w].kept \cup I /\ job'[w].uploaded = job[w].uploaded \cup I
    BY <1>6, <1>a, <1>b, UploadWrites
  <2>2. job[w].uploaded \subseteq job[w].kept \cup {Own(r, "manifest")}
    BY <1>a, <1>b, <2>1 DEF LedgerAt, UploadPcs
  <2>3. job'[w].uploaded \subseteq job'[w].kept \cup {Own(r, "manifest")}
    BY <2>1, <2>2
  <2> QED BY <1>b, <2>1, <2>3 DEF UploadPcs
<1>7. ASSUME RecordArtifacts(w) PROVE Elsewhere \/ Lists
  <2>1. /\ job[w].pc = "record"
        /\ (job'[w].pc = "verify" /\ Carries(w)) \/ job'[w].pc = "reclaim"
    BY <1>7, <1>a, <1>b, UploadWrites DEF Refuses
  <2>2. job[w].uploaded \subseteq job[w].kept \cup {Own(r, "manifest")}
    BY <1>a, <1>b, <2>1 DEF LedgerAt, UploadPcs
  <2> QED BY <1>b, <2>1, <2>2 DEF UploadPcs, Carries
<1>8. ASSUME Verify(w) PROVE Elsewhere \/ Lists
  <2>1. /\ job[w].pc = "verify"
        /\ \/ /\ job'[w].pc = "succeed" /\ UNCHANGED <<job[w].run, job[w].kept>>
              /\ job'[w].uploaded = job[w].uploaded \cup {Own(r, "manifest")}
           \/ job'[w].pc = "reclaim"
    BY <1>8, <1>a, <1>b, UploadWrites DEF Refuses
  <2>2. job[w].uploaded \subseteq job[w].kept \cup {Own(r, "manifest")}
    BY <1>a, <1>b, <2>1 DEF LedgerAt, UploadPcs
  <2> QED BY <1>b, <2>1, <2>2 DEF UploadPcs
<1>9. ASSUME Succeed(w) PROVE Elsewhere \/ Lists
  <2>1. /\ job[w].pc = "succeed"
        /\ (job'[w].pc = "payload" /\ Carries(w)) \/ job'[w].pc = "reclaim"
    BY <1>9, <1>a, <1>b, EndWrites DEF Refuses
  <2>2. job[w].uploaded \subseteq job[w].kept \cup {Own(r, "manifest")}
    BY <1>a, <1>b, <2>1 DEF LedgerAt, UploadPcs
  <2> QED BY <1>b, <2>1, <2>2 DEF UploadPcs, Carries
<1>10. ASSUME RecordSuccess(w) \/ FailCapture(w) \/ Reclaim(w) \/ Fail(w) \/ Finish(w) PROVE Elsewhere
  BY <1>10, <1>a, <1>b, EndWrites DEF UploadPcs
<1>11. ~TakePolicyLock(w) /\ ~TakeProjectLock(w) /\ Capture(w)
  <2>1. Capture(w)
    BY <1>a, WorksThere
  <2> QED BY <2>1 DEF TakePolicyLock, TakeProjectLock, InsidePcs, CapturePcs
<1> HIDE DEF Elsewhere, Lists
<1> QED BY <1>1, <1>2, <1>3, <1>4, <1>5, <1>6, <1>7, <1>8, <1>9, <1>10, <1>11 DEF Capture

(* ... and when it prunes.                                                 *)
LEMMA LedgerPruned ==
  ASSUME LockInv, PointInv, LedgerInv, Reliable, [Next]_vars, NEW w \in Workers, Prune(w)
  PROVE  LedgerAt(w)'
<1>a. TypeInv /\ LedgerAt(w)
  BY DEF LockInv, RestoreInv, LedgerInv
<1>b. job[w].pc \in {"victim", "erase", "drop"} =>
        /\ \A r \in Runs : \A o \in job[w].plan[r] : r \in Restorable /\ o \in Keys(r)
        /\ \A v \in job[w].victims :
             v \in Restorable /\ run[v].lease # "open" /\ Keys(v) \subseteq job[w].plan[v]
  BY <1>a DEF LedgerAt, PointInv, PlanAt
<1>c. ASSUME run' = run
      PROVE  Restorable' = Restorable /\ \A r \in Runs : Keys(r)' = Keys(r)
  BY <1>c DEF Restorable, Keys, Own
<1>1. ASSUME Survey(w) PROVE LedgerAt(w)'
  <2>1. /\ run' = run /\ job'[w].pc = "victim" /\ job'[w].victims = Excess
        /\ job'[w].plan = [r \in Runs |-> IF r \in Restorable THEN Keys(r) ELSE {}]
    BY <1>1, <1>a, PruneWrites
  <2>2. \A r \in Runs : \A o \in job'[w].plan[r] : r \in Restorable /\ o \in Keys(r)
    BY <2>1
  <2>3. \A v \in Excess : v \in Runs /\ run[v].lease # "open" /\ Keys(v) \subseteq job'[w].plan[v]
    BY <2>1 DEF Excess, Candidates, Restorable
  <2> QED BY <2>1, <2>2, <2>3, <1>c DEF LedgerAt, UploadPcs
<1>2. ASSUME LockVictim(w) PROVE LedgerAt(w)'
  <2>1. /\ job[w].pc = "victim" /\ run' = run /\ job'[w].plan = job[w].plan
        /\ job'[w].pc \in {"victim", "erase"} /\ job'[w].victims \subseteq job[w].victims
    BY <1>2, <1>a, PruneWrites
  <2>2. Restorable \subseteq Runs
    BY DEF Restorable
  <2> QED BY <2>1, <2>2, <1>b, <1>c DEF LedgerAt, UploadPcs
<1>3. ASSUME Erase(w) PROVE LedgerAt(w)'
  <2>1. /\ job[w].pc = "erase" /\ job'[w].pc = "drop" /\ stored' = stored \ Unshared(w)
        /\ UNCHANGED <<run, job[w].run, job[w].plan, job[w].victims>>
    BY <1>3, FullyRemoved DEF Erase
  <2>2. PICK v \in Runs : v = job[w].run /\ v \in job[w].victims
    BY <2>1, VictimsAreOld DEF Locking, Restorable
  <2>3. \A o \in stored' : o \in Keys(v) => \E r \in Runs \ {v} : o \in job[w].plan[r]
    BY <2>1, <2>2, <1>b DEF Unshared
  <2>4. Restorable \subseteq Runs
    BY DEF Restorable
  <2>5. Keys(job[w].run)' = Keys(v)
    <3>1. Keys(job[w].run)' = Keys(v)'
      BY <2>1, <2>2 DEF Keys, Own
    <3> QED BY <2>1, <2>2, <3>1, <1>c
  <2> QED BY <2>1, <2>2, <2>3, <2>4, <2>5, <1>b, <1>c DEF LedgerAt, UploadPcs
<1>4. ASSUME Drop(w) PROVE LedgerAt(w)'
  <2>1. job[w].pc = "drop"
    BY <1>4 DEF Drop
  <2>2. PICK v \in Runs : v = job[w].run /\ v \in job[w].victims
    BY <2>1, VictimsAreOld DEF Locking, Restorable
  <2>3. /\ job'[w].pc = "victim" /\ job'[w].victims = job[w].victims \ {v}
        /\ job'[w].plan = [job[w].plan EXCEPT ![v] = {}]
        /\ OtherRows(v)
    BY <1>4, <1>a, <2>2, PruneWrites
  <2>4. /\ \A x \in Runs \ {v} : job'[w].plan[x] = job[w].plan[x]
        /\ job'[w].plan[v] = {}
    <3>1. job[w].plan \in [Runs -> SUBSET Objects]
      BY <1>a DEF TypeInv, TypeOK, JobTypeOK, Jobs
    <3> QED BY <2>3, <3>1
  <2>5. ASSUME NEW x \in Runs \ {v}
        PROVE  (x \in Restorable => x \in Restorable') /\ Keys(x)' = Keys(x) /\ run'[x] = run[x]
    BY <2>3, <2>5 DEF OtherRows, Restorable, Keys, Own
  <2>6. \A r \in Runs : \A o \in job'[w].plan[r] : r \in Restorable' /\ o \in Keys(r)'
    BY <1>b, <2>1, <2>4, <2>5
  <2>7. Restorable \subseteq Runs
    BY DEF Restorable
  <2>8. ASSUME NEW x \in job'[w].victims
        PROVE  run'[x].lease # "open" /\ Keys(x)' \subseteq job'[w].plan[x]
    <3>1. x \in Runs \ {v} /\ x \in job[w].victims
      BY <1>b, <2>1, <2>3, <2>7
    <3> QED BY <1>b, <2>1, <2>4, <2>5, <3>1
  <2> QED BY <2>3, <2>6, <2>8 DEF LedgerAt, UploadPcs
<1>5. ASSUME EndPrune(w) PROVE LedgerAt(w)'
  <2>1. job'[w] = IdleJob
    BY <1>5, <1>a, PruneWrites
  <2>2. job'[w].pc = "idle"
    BY <2>1 DEF IdleJob
  <2> QED BY <2>2 DEF LedgerAt, UploadPcs
<1> QED BY <1>1, <1>2, <1>3, <1>4, <1>5 DEF Prune

LEMMA LedgerAtStep ==
  ASSUME LockInv, PointInv, LedgerInv, Reliable, [Next]_vars, NEW w \in Workers
  PROVE  LedgerAt(w)'
<1>a. TypeInv
  BY DEF LockInv, RestoreInv
<1>1. CASE Works(w) /\ job[w].pc \notin InsidePcs /\ ~Prune(w)
  <2>1. TakePolicyLock(w) \/ TakeProjectLock(w) \/ StartSweep(w) \/ \E r \in Runs : Deliver(w, r)
    BY <1>1 DEF Works, Capture, Claim, Snapshot, StartUpload, UploadBlock, FinishBlocks, RecordArtifacts, Verify,
       Succeed, RecordSuccess, FailCapture, Reclaim, Fail, Finish, InsidePcs, CapturePcs
  <2>2. job'[w].pc \in {"project", "survey", "claim", "prune", "policy"}
    BY <2>1, <1>a, WaitWrites
  <2> QED BY <2>2 DEF LedgerAt, UploadPcs
<1> QED BY <1>a, <1>1, SlotsLast, LedgerByOthers, LedgerCaptured, LedgerPruned

LEMMA LedgerInvHolds ==
  ASSUME Reliable
  PROVE  Spec => [](LockInv /\ PointInv /\ LedgerInv)
<1>1. Init => LedgerInv
  <2> SUFFICES ASSUME Init PROVE LedgerInv
    OBVIOUS
  <2>1. \A w \in Workers : job[w].pc = "idle"
    BY DEF Init, JobInit, IdleJob
  <2>2. Restorable = {} /\ stored = {}
    BY DEF Init, StoreInit, NoRun, Restorable
  <2> QED BY <2>1, <2>2 DEF LedgerInv, LedgerAt, UploadPcs
<1>2. LockInv /\ PointInv /\ LedgerInv /\ [Next]_vars => LedgerInv'
  <2> SUFFICES ASSUME LockInv, PointInv, LedgerInv, [Next]_vars PROVE LedgerInv'
    OBVIOUS
  <2>1. \A o \in stored' : Referred(o)' \/ Uploading(o)'
    BY ObjectsAccounted
  <2>2. \A r \in Restorable' : Keys(r)' \subseteq stored' \/ Dropping(r)'
    BY PointsComplete
  <2>3. \A w \in Workers : LedgerAt(w)'
    BY LedgerAtStep
  <2> QED BY <2>1, <2>2, <2>3 DEF LedgerInv
<1>3. {"lostReply", "lostColumns"} \cap FaultKinds = {}
  BY DEF Reliable
<1> QED BY <1>1, <1>2, <1>3, PointInvHolds, PTL DEF Spec

(* When no slot works, the destination holds what restore points refer to  *)
(* and nothing else (NothingLeaked): a capture that failed, whoever had    *)
(* decided its row, took back all that it had uploaded, and a run that     *)
(* retention dropped left only what others share; and no restore point,    *)
(* the newest or not, lacks an object. A refused deletion, a lost reply,   *)
(* lost columns, a row that cannot be read when it decides whether to      *)
(* reclaim, and a death leave objects behind, and are excluded.            *)
THEOREM NothingIsLeaked ==
  ASSUME Reliable
  PROVE  Spec => []NothingLeaked
<1>1. LedgerInv => NothingLeaked
  <2> SUFFICES ASSUME LedgerInv, \A w \in Workers : job[w].pc = "idle"
               PROVE  stored = UNION {Keys(r) : r \in Restorable}
    BY DEF NothingLeaked
  <2>1. \A o \in stored : \E r \in Restorable : o \in Keys(r)
    BY DEF LedgerInv, Referred, Uploading, UploadPcs
  <2>2. \A r \in Restorable : Keys(r) \subseteq stored
    BY DEF LedgerInv, Dropping
  <2> QED BY <2>1, <2>2
<1> QED BY <1>1, LedgerInvHolds, PTL

=============================================================================
