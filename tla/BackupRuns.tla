------------------------------ MODULE BackupRuns ------------------------------
(***************************************************************************)
(* The life of a backup run (BackupOrchestrator) and its retention         *)
(* (prunePolicy). A slot of the job runner executes a queued run: it       *)
(* claims the row, uploads the blocks of the source, writes the manifest   *)
(* and decides the row; when anything goes wrong it reclaims what it       *)
(* uploaded. An incremental run reuses blocks of the newest restore point, *)
(* so it shares a lock with retention, which deletes restore points.       *)
(***************************************************************************)
EXTENDS BackupStore

CONSTANT RetainCount  \* backup_policy.retain_count

(* Zero and negative counts are taken for no limit (pruneCurrentPolicy).   *)
ASSUME RetainAssumption == RetainCount \in Nat \ {0}

VARIABLE job          \* what each slot of the job runner is doing

(* pc         where execute, executeRun or prunePolicy is                  *)
(* run        the run it executes, or the one it is about to delete        *)
(* frozen     payloadConfig.incremental as read before the locks           *)
(* content    the blocks the source holds while it is captured             *)
(* old        artifacts of the restore point whose blocks may be reused    *)
(* kept       artifactsRecorded                                            *)
(* uploaded   uploadedKeys                                                 *)
(* elsewhere  a write was refused: another writer decided the run          *)
(* completed  executeRun returned the policy                               *)
(* plan       the keys of every restore point when retention looked, less  *)
(*            the ones it has dropped                                      *)
(* victims    toDelete, less the ones dealt with                           *)
CapturePcs == {"snapshot", "upload", "blocks", "record", "verify", "succeed", "payload",
               "reclaim", "fail", "finish"}
PrunePcs == {"survey", "victim", "erase", "drop"}

IdleJob ==
  [pc |-> "idle", run |-> Nobody, frozen |-> FALSE, content |-> {}, old |-> {},
   kept |-> {}, uploaded |-> {}, elsewhere |-> FALSE, completed |-> FALSE,
   plan |-> [r \in Runs |-> {}], victims |-> {}]

JobPcs == {"idle", "policy", "project", "claim", "prune"} \cup CapturePcs \cup PrunePcs

Jobs ==
  [pc : JobPcs, run : Runs \cup {Nobody}, frozen : BOOLEAN, content : SUBSET Blocks,
   old : SUBSET Objects, kept : SUBSET Objects, uploaded : SUBSET Objects,
   elsewhere : BOOLEAN, completed : BOOLEAN, plan : [Runs -> SUBSET Objects],
   victims : SUBSET Runs]

JobTypeOK == job \in [Workers -> Jobs]

JobInit == job = [w \in Workers |-> IdleJob]

At(w, pc) == job[w].pc = pc
Goto(w, pc) == job' = [job EXCEPT ![w].pc = pc]

-----------------------------------------------------------------------------
(* Requests and triggers                                                   *)

(* enqueue, spawnRuns: the row is created, its delivery is Deliver.        *)
Enqueue(r) ==
  /\ Admitting
  /\ run[r].status = "absent"
  /\ CreateRun(r)
  /\ UNCHANGED <<restore, stored, incremental, phase, locks, faults, job>>

(* A policy edit switches between full and incremental captures.           *)
EditPolicy ==
  /\ Fault("edit")
  /\ incremental' = ~incremental
  /\ UNCHANGED <<run, restore, stored, phase, locks, job>>

(* protectRun sets or clears retention_locked_until, under the lock of the *)
(* run.                                                                    *)
ProtectRun(r) ==
  /\ runLock[r] = Nobody
  /\ run[r].status # "absent" /\ ~run[r].deleted
  /\ run' = [run EXCEPT ![r].protected = ~@]
  /\ UNCHANGED <<restore, stored, incremental, phase, locks, faults, job>>

(* sweepRunsWithStaleHeartbeat: a row without a heartbeat is given up,     *)
(* whether or not its worker still works.                                  *)
SweepHeartbeat(r) ==
  /\ Fault("sweep")
  /\ run[r].status \in RunInFlight
  /\ run' = [run EXCEPT ![r] = Decide(r, "server_error")]
  /\ UNCHANGED <<restore, stored, incremental, phase, locks, job>>

-----------------------------------------------------------------------------
(* execute                                                                 *)

(* enqueueRun's fast path, the poll of queued rows, a retry of the queue or*)
(* the inline fallback: several may deliver the same run.                  *)
Deliver(w, r) ==
  /\ At(w, "idle")
  /\ run[r].status = "queued"
  /\ job' = [job EXCEPT ![w] = [IdleJob EXCEPT !.run = r, !.frozen = incremental,
                                  !.pc = IF incremental THEN "policy" ELSE "project"]]
  /\ UNCHANGED store

TakePolicyLock(w) ==
  /\ policyLock = Nobody
  /\ \/ At(w, "policy") /\ Goto(w, "project")
     \/ At(w, "prune") /\ Goto(w, "survey")
  /\ policyLock' = w
  /\ UNCHANGED <<run, restore, stored, incremental, phase, projectLock, runLock, faults>>

TakeProjectLock(w) ==
  /\ At(w, "project")
  /\ projectLock = Nobody
  /\ projectLock' = w
  /\ Goto(w, "claim")
  /\ UNCHANGED <<run, restore, stored, incremental, phase, policyLock, runLock, faults>>

ReleasePolicy(w) == policyLock' = IF policyLock = w THEN Nobody ELSE policyLock

(* executeRun up to claimExecution. A refused claim leaves the row to the  *)
(* next delivery.                                                          *)
Claim(w) ==
  LET r == job[w].run IN
  /\ At(w, "claim")
  /\ \/ /\ Admitting /\ Claimable(r)
        /\ ClaimExecution(r)
        /\ Goto(w, "snapshot")
        /\ UNCHANGED locks
     \/ /\ ~(Admitting /\ Claimable(r))
        /\ job' = [job EXCEPT ![w] = IdleJob]
        /\ projectLock' = Nobody
        /\ ReleasePolicy(w)
        /\ UNCHANGED <<run, runLock>>
  /\ UNCHANGED <<restore, stored, incremental, phase, faults>>

(* transition: the status is written unless the run is decided. Refused,   *)
(* it throws BackupRunFinalizedElsewhereError.                             *)
Refused(w) ==
  /\ ~Undecided(job[w].run)
  /\ job' = [job EXCEPT ![w].pc = "reclaim", ![w].elsewhere = TRUE]
  /\ UNCHANGED <<run, stored>>

Snapshot(w) ==
  LET r == job[w].run IN
  /\ At(w, "snapshot")
  /\ \/ /\ Undecided(r)
        /\ run' = [run EXCEPT ![r].status = "snapshotting"]
        /\ Goto(w, "upload")
        /\ UNCHANGED stored
     \/ Refused(w)
  /\ UNCHANGED <<restore, incremental, phase, locks, faults>>

(* The source is read from here on; the blocks of the newest restore point *)
(* are known.                                                              *)
StartUpload(w) ==
  LET r == job[w].run IN
  /\ At(w, "upload")
  /\ \/ /\ Undecided(r)
        /\ run' = [run EXCEPT ![r].status = "uploading"]
        /\ \E content \in (SUBSET Blocks) \ {{}} :
             job' = [job EXCEPT ![w].pc = "blocks", ![w].content = content,
                       ![w].old = IF job[w].frozen THEN LatestArtifacts ELSE {}]
        /\ UNCHANGED stored
     \/ Refused(w)
  /\ UNCHANGED <<restore, incremental, phase, locks, faults>>

(* An old block is reused when the destination still holds it.             *)
ObjectFor(w, b) ==
  LET held == {o \in job[w].old : o[2] = b /\ o \in stored}
  IN  IF held = {} THEN Own(job[w].run, b) ELSE CHOOSE o \in held : TRUE

UploadBlock(w) ==
  /\ At(w, "blocks")
  /\ \E b \in job[w].content \ {o[2] : o \in job[w].kept} :
       LET o == ObjectFor(w, b)
           new == {o} \ job[w].old
       IN  /\ stored' = stored \cup new
           /\ job' = [job EXCEPT ![w].kept = @ \cup {o}, ![w].uploaded = @ \cup new]
  /\ UNCHANGED <<run, restore, incremental, phase, locks, faults>>

(* The index of an incremental artifact is written last. The transition    *)
(* that records the artifacts comes after it.                              *)
FinishBlocks(w) ==
  LET index == IF job[w].frozen THEN {Own(job[w].run, "index")} ELSE {} IN
  /\ At(w, "blocks")
  /\ job[w].content = {o[2] : o \in job[w].kept}
  /\ stored' = stored \cup index
  /\ job' = [job EXCEPT ![w].pc = "record", ![w].kept = @ \cup index,
                        ![w].uploaded = @ \cup index]
  /\ UNCHANGED <<run, restore, incremental, phase, locks, faults>>

(* Columns that the database rejects are left unset, and that is logged    *)
(* (persistTransition).                                                    *)
RecordArtifacts(w) ==
  LET r == job[w].run IN
  /\ At(w, "record")
  /\ \/ /\ Undecided(r)
        /\ \/ /\ run' = [run EXCEPT ![r].status = "uploading", ![r].artifacts = job[w].kept]
              /\ UNCHANGED faults
           \/ Fault("lostColumns") /\ run' = [run EXCEPT ![r].status = "uploading"]
        /\ Goto(w, "verify")
        /\ UNCHANGED stored
     \/ Refused(w) /\ UNCHANGED faults
  /\ UNCHANGED <<restore, incremental, phase, locks>>

(* The status, then the manifest at the destination.                       *)
Verify(w) ==
  LET r == job[w].run
      manifest == {Own(r, "manifest")} IN
  /\ At(w, "verify")
  /\ \/ /\ Undecided(r)
        /\ run' = [run EXCEPT ![r].status = "verifying"]
        /\ stored' = stored \cup manifest
        /\ job' = [job EXCEPT ![w].pc = "succeed", ![w].uploaded = @ \cup manifest]
     \/ Refused(w)
  /\ UNCHANGED <<restore, incremental, phase, locks, faults>>

(* The status alone. The write may also be committed and its answer lost:  *)
(* then the worker takes it for a failure of the run.                      *)
Succeed(w) ==
  LET r == job[w].run IN
  /\ At(w, "succeed")
  /\ \/ /\ Undecided(r)
        /\ run' = [run EXCEPT ![r] = Decide(r, "succeeded")]
        /\ \/ Goto(w, "payload") /\ UNCHANGED faults
           \/ Goto(w, "reclaim") /\ Fault("lostReply")
        /\ UNCHANGED stored
     \/ Refused(w) /\ UNCHANGED faults
  /\ UNCHANGED <<restore, incremental, phase, locks>>

(* The columns that ride with the status follow in a statement of their    *)
(* own, and when it is rejected, one by one.                               *)
RecordSuccess(w) ==
  LET r == job[w].run IN
  /\ At(w, "payload")
  /\ \/ /\ run' = [run EXCEPT ![r].artifacts = job[w].kept, ![r].manifest = TRUE]
        /\ UNCHANGED faults
     \/ /\ Fault("lostColumns")
        /\ \E artifacts \in {run[r].artifacts, job[w].kept}, manifest \in BOOLEAN :
             run' = [run EXCEPT ![r].artifacts = artifacts, ![r].manifest = manifest]
  /\ job' = [job EXCEPT ![w].pc = "finish", ![w].completed = TRUE]
  /\ UNCHANGED <<restore, stored, incremental, phase, locks>>

(* Anything else that throws inside the try: preflight, a hook, the        *)
(* producer, a put, an implausible size.                                   *)
FailCapture(w) ==
  /\ job[w].pc \in {"snapshot", "upload", "blocks", "record", "verify", "succeed"}
  /\ Goto(w, "reclaim")
  /\ UNCHANGED store

(* mayReclaimObjects: when another writer decided the run, only what it    *)
(* decided, read anew, allows to take the objects away.                    *)
MayReclaim(w, read) == job[w].elsewhere => read /\ run[job[w].run].status # "succeeded"

ReclaimNothing(w) ==
  /\ At(w, "reclaim")
  /\ Goto(w, IF job[w].elsewhere THEN "finish" ELSE "fail")
  /\ UNCHANGED store

(* A winner that cannot be read leaves the objects where they are. Then    *)
(* deleteMany: some keys may be refused.                                   *)
Reclaim(w) ==
  LET next == IF job[w].elsewhere THEN "finish" ELSE "fail"
      doomed == job[w].uploaded \cap stored IN
  /\ At(w, "reclaim")
  /\ Goto(w, next)
  /\ \/ /\ stored' = IF MayReclaim(w, TRUE) THEN stored \ job[w].uploaded ELSE stored
        /\ UNCHANGED faults
     \/ /\ job[w].elsewhere /\ Fault("unreadable")
        /\ stored' = IF MayReclaim(w, FALSE) THEN stored \ job[w].uploaded ELSE stored
     \/ /\ MayReclaim(w, TRUE) /\ Fault("refusal")
        /\ \E kept \in (SUBSET doomed) \ {{}} : stored' = stored \ (doomed \ kept)
  /\ UNCHANGED <<run, restore, incremental, phase, locks>>

(* Refused, the transition throws out of the catch block.                  *)
Fail(w) ==
  LET r == job[w].run IN
  /\ At(w, "fail")
  /\ run' = IF Undecided(r)
            THEN [run EXCEPT ![r] = [Decide(r, "failed") EXCEPT !.artifacts = {}]]
            ELSE run
  /\ Goto(w, "finish")
  /\ UNCHANGED <<restore, stored, incremental, phase, locks, faults>>

(* The outermost finally and the release of the locks; a completed run is  *)
(* followed by retention, which takes the policy lock anew.                *)
Finish(w) ==
  /\ At(w, "finish")
  /\ run' = [run EXCEPT ![job[w].run] = Acknowledged(@)]
  /\ job' = [job EXCEPT ![w] = [IdleJob EXCEPT !.pc = IF job[w].completed THEN "prune"
                                                      ELSE "idle"]]
  /\ projectLock' = Nobody
  /\ ReleasePolicy(w)
  /\ UNCHANGED <<restore, stored, incremental, phase, runLock, faults>>

-----------------------------------------------------------------------------
(* prunePolicy                                                             *)

(* runRetentionSweep, on schedule.                                         *)
StartSweep(w) ==
  /\ At(w, "idle")
  /\ \E r \in Runs : run[r].status = "succeeded"
  /\ Goto(w, "prune")
  /\ UNCHANGED store

(* Mutant of Candidates: what is protected may go. *)
CandidatesProtected == {r \in Restorable : run[r].lease # "open"}

Candidates == {r \in Restorable : run[r].lease # "open" /\ ~run[r].protected}

(* The runs beyond the RetainCount newest.                                 *)
Excess ==
  {r \in Candidates :
     Cardinality({x \in Candidates : run[x].finished > run[r].finished}) >= RetainCount}

Survey(w) ==
  /\ At(w, "survey")
  /\ job' = [job EXCEPT ![w].pc = "victim", ![w].victims = Excess,
                        ![w].plan = [r \in Runs |-> IF r \in Restorable THEN Keys(r) ELSE {}]]
  /\ UNCHANGED store

ExpendableWhileRestored(r) == r \in Candidates

(* Under the lock of the run everything that may have changed is read again*)
Expendable(r) ==
  /\ r \in Candidates
  /\ ActiveRestores(r) = {}

NextVictim(w) ==
  CHOOSE r \in job[w].victims : \A x \in job[w].victims : run[x].finished <= run[r].finished

LockVictim(w) ==
  /\ At(w, "victim")
  /\ job[w].victims # {}
  /\ LET v == NextVictim(w) IN
       /\ runLock[v] = Nobody
       /\ IF Expendable(v)
          THEN /\ runLock' = [runLock EXCEPT ![v] = w]
               /\ job' = [job EXCEPT ![w].pc = "erase", ![w].run = v]
          ELSE job' = [job EXCEPT ![w].victims = @ \ {v}] /\ UNCHANGED runLock
  /\ UNCHANGED <<run, restore, stored, incremental, phase, policyLock, projectLock, faults>>

UnsharedAll(w) == job[w].plan[job[w].run]

(* The keys no other restore point of the plan refers to.                  *)
Unshared(w) ==
  {o \in job[w].plan[job[w].run] :
     \A r \in Runs \ {job[w].run} : o \notin job[w].plan[r]}

(* The run was dealt with, dropped or not.                                 *)
LeaveVictim(w, plan) ==
  /\ job' = [job EXCEPT ![w].pc = "victim", ![w].run = Nobody, ![w].plan = plan,
                        ![w].victims = @ \ {job[w].run}]
  /\ runLock' = [runLock EXCEPT ![job[w].run] = Nobody]

(* Objects that could not be deleted keep the row alive.                   *)
Erase(w) ==
  LET doomed == Unshared(w) \cap stored IN
  /\ At(w, "erase")
  /\ \/ /\ stored' = stored \ Unshared(w)
        /\ Goto(w, "drop")
        /\ UNCHANGED <<runLock, faults>>
     \/ /\ Fault("refusal")
        /\ \E kept \in (SUBSET doomed) \ {{}} : stored' = stored \ (doomed \ kept)
        /\ LeaveVictim(w, job[w].plan)
  /\ UNCHANGED <<run, restore, incremental, phase, policyLock, projectLock>>

Drop(w) ==
  LET v == job[w].run IN
  /\ At(w, "drop")
  /\ run' = [run EXCEPT ![v].deleted = TRUE]
  /\ LeaveVictim(w, [job[w].plan EXCEPT ![v] = {}])
  /\ UNCHANGED <<restore, stored, incremental, phase, policyLock, projectLock, faults>>

EndPrune(w) ==
  /\ At(w, "victim")
  /\ job[w].victims = {}
  /\ job' = [job EXCEPT ![w] = IdleJob]
  /\ policyLock' = Nobody
  /\ UNCHANGED <<run, restore, stored, incremental, phase, projectLock, runLock, faults>>

-----------------------------------------------------------------------------
Capture(w) ==
  \/ TakePolicyLock(w) \/ TakeProjectLock(w) \/ Claim(w) \/ Snapshot(w) \/ StartUpload(w)
  \/ UploadBlock(w) \/ FinishBlocks(w) \/ RecordArtifacts(w) \/ Verify(w) \/ Succeed(w)
  \/ RecordSuccess(w) \/ FailCapture(w) \/ Reclaim(w) \/ Fail(w) \/ Finish(w)

Prune(w) ==
  \/ Survey(w) \/ LockVictim(w) \/ Erase(w) \/ Drop(w) \/ EndPrune(w)

Trigger ==
  \/ \E r \in Runs : Enqueue(r) \/ ProtectRun(r) \/ SweepHeartbeat(r)
  \/ EditPolicy

JobNext ==
  \/ Trigger
  \/ \E w \in Workers : Capture(w) \/ Prune(w) \/ StartSweep(w)
  \/ \E w \in Workers, r \in Runs : Deliver(w, r)

=============================================================================
