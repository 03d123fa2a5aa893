----------------------------- MODULE BackupStore -----------------------------
(***************************************************************************)
(* What the backups of one project share: the rows of backup_run and       *)
(* backup_restore, the objects at the backup destination, the deletion     *)
(* fence of the project and the locks. Every operator that primes a row is *)
(* one statement or one transaction of packages/db/src/repos/backup.repo.ts*)
(* The project has one backup policy, one source and one destination.      *)
(***************************************************************************)
EXTENDS Naturals, FiniteSets

CONSTANTS
  Runs,        \* backup runs that may be created
  Restores,    \* restores that may be prepared
  Workers,     \* slots of the job runner, on one or several replicas
  Blocks,      \* what the source may contain
  Nobody,      \* holds a lock that is free
  FaultKinds,  \* the faults a behaviour may show
  MaxFaults    \* how many of them, together

(* A lock tells its holders apart, and a block is not one of the names     *)
(* that the index and the manifest of a run have.                          *)
ASSUME RunsAssumption == IsFiniteSet(Runs) /\ Nobody \notin Runs
ASSUME HoldersAssumption ==
  /\ Workers \cap Restores = {}
  /\ {Nobody, "teardown"} \cap (Workers \cup Restores) = {}
  /\ Nobody # "teardown"
ASSUME BlocksAssumption == {"index", "manifest"} \cap Blocks = {}
ASSUME FaultsAssumption == MaxFaults \in Nat

VARIABLES
  run,          \* the backup_run rows
  restore,      \* the backup_restore rows
  stored,       \* the objects at the destination
  incremental,  \* backup_policy.payload_config.incremental
  phase,        \* the deletion fence of the project row
  policyLock,   \* withBackupPolicyLock
  projectLock,  \* withProjectRuntimeLock
  runLock,      \* withBackupRunLock, per run
  faults        \* faults so far

locks == <<policyLock, projectLock, runLock>>
store == <<run, restore, stored, incremental, phase, locks, faults>>

RunTerminal == {"succeeded", "failed", "cancelled", "server_error"}
RunInFlight == {"queued", "preparing", "snapshotting", "uploading", "verifying"}
RestoreTerminal == {"succeeded", "failed", "cancelled", "server_error"}
RestoreInFlight == {"queued", "preparing", "applying"}
RestoreActive == RestoreInFlight \cup {"prepared"}

(* An object belongs to the run whose key prefix it carries: a block or an *)
(* artifact, the index of an incremental artifact, or the manifest.        *)
Objects == Runs \X (Blocks \cup {"index", "manifest"})
Own(r, part) == <<r, part>>

(* backup_run: lease abstracts execution_started_at and                    *)
(* execution_finished_at, finished ranks finished_at (0 when NULL),        *)
(* manifest says whether manifest_key is set, protected whether            *)
(* retention_locked_until is.                                              *)
RunRows ==
  [status : {"absent"} \cup RunInFlight \cup RunTerminal,
   lease : {"none", "open", "closed"}, artifacts : SUBSET Objects,
   manifest : BOOLEAN, finished : Nat, protected : BOOLEAN, deleted : BOOLEAN]

NoRun == [status |-> "absent", lease |-> "none", artifacts |-> {}, manifest |-> FALSE,
          finished |-> 0, protected |-> FALSE, deleted |-> FALSE]

(* backup_restore: destructive, partial and down are the flags of meta.    *)
RestoreRows ==
  [status : {"absent"} \cup RestoreActive \cup RestoreTerminal, run : Runs \cup {Nobody},
   cancel : BOOLEAN, destructive : BOOLEAN, partial : BOOLEAN, down : BOOLEAN]

NoRestore == [status |-> "absent", run |-> Nobody, cancel |-> FALSE,
              destructive |-> FALSE, partial |-> FALSE, down |-> FALSE]

StoreInit ==
  /\ run = [r \in Runs |-> NoRun]
  /\ restore = [s \in Restores |-> NoRestore]
  /\ stored = {}
  /\ incremental \in BOOLEAN
  /\ phase = "open"
  /\ policyLock = Nobody
  /\ projectLock = Nobody
  /\ runLock = [r \in Runs |-> Nobody]
  /\ faults = 0

Fault(kind) == kind \in FaultKinds /\ faults < MaxFaults /\ faults' = faults + 1

(* Runs are finished one after the other: a run that finishes is later     *)
(* than all that have.                                                     *)
NextFinish == 1 + Cardinality({r \in Runs : run[r].finished > 0})

(* withProjectWorkAdmission: the project row is locked and must not be     *)
(* claimed by a deletion.                                                  *)
Admitting == phase = "open"

-----------------------------------------------------------------------------
(* backup_run                                                              *)

CreateRun(r) == run' = [run EXCEPT ![r] = [NoRun EXCEPT !.status = "queued"]]

Claimable(r) == run[r].status = "queued" /\ run[r].lease = "none" /\ ~run[r].deleted

ClaimAsRunning(r) ==
  run' = [run EXCEPT ![r].status = "running", ![r].lease = "open"]

ClaimExecution(r) ==
  run' = [run EXCEPT ![r].status = "preparing", ![r].lease = "open"]

CancelQueued(r) ==
  /\ Claimable(r)
  /\ run' = [run EXCEPT ![r].status = "cancelled", ![r].finished = NextFinish]

(* The guard of every status write: a terminal status is final.            *)
Undecided(r) == run[r].status \notin RunTerminal

Decide(r, status) ==
  [run[r] EXCEPT !.status = status, !.finished = NextFinish]

Acknowledged(row) == IF row.lease = "open" THEN [row EXCEPT !.lease = "closed"] ELSE row

(* sweepStaleRuns, on the row of one run: at boot every run that had begun *)
(* is given up, and every lease closed.                                    *)
SweptAtBoot(row) ==
  Acknowledged(IF row.status \in RunInFlight \ {"queued"}
               THEN [row EXCEPT !.status = "server_error", !.finished = NextFinish]
               ELSE row)

(* listInFlightByProject: a terminal row counts while its worker works.    *)
RunBlocks(r) ==
  ~run[r].deleted /\ (run[r].status \in RunInFlight \/ run[r].lease = "open")

Restorable == {r \in Runs : run[r].status = "succeeded" /\ ~run[r].deleted}

(* backupArtifactObjects of all artifacts, and the manifest key.           *)
Keys(r) ==
  run[r].artifacts \cup (IF run[r].manifest THEN {Own(r, "manifest")} ELSE {})

(* latestSucceededForSource: the artifacts of the newest restore point.    *)
LatestArtifacts ==
  UNION {run[r].artifacts : r \in {x \in Restorable :
           \A y \in Restorable : run[y].finished <= run[x].finished}}

-----------------------------------------------------------------------------
(* backup_restore                                                          *)

ActiveRestores(r) ==
  {s \in Restores : restore[s].run = r /\ restore[s].status \in RestoreActive}

Unsettled(s) == restore[s].status \notin RestoreTerminal

RestoreBlocks(s) == restore[s].status \in RestoreInFlight

RestoreLeftAtBoot(row) == row

(* sweepStaleRestores, on one row: what is prepared can still be applied.  *)
RestoreSweptAtBoot(row) ==
  IF row.status \in RestoreInFlight THEN [row EXCEPT !.status = "server_error"] ELSE row

StoreTypeOK ==
  /\ run \in [Runs -> RunRows]
  /\ restore \in [Restores -> RestoreRows]
  /\ stored \subseteq Objects
  /\ incremental \in BOOLEAN
  /\ phase \in {"open", "fenced", "cleaning", "gone"}
  /\ policyLock \in Workers \cup {Nobody}
  /\ projectLock \in Workers \cup Restores \cup {Nobody, "teardown"}
  /\ runLock \in [Runs -> Workers \cup Restores \cup {Nobody}]
  /\ faults \in 0..MaxFaults

=============================================================================
