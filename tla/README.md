# Openship: deployments and the servers they share, specified and verified

This directory holds TLA+ specifications of four core protocols of Openship.

- *The life of a deployment*: how a project's deployments are created, built,
  cancelled, decided on, restored, reconciled, deleted and torn down with their
  project, across concurrent API requests, detached build workers and restarts
  of the API process.
- *Cloud builds*: how the builds of many projects, admitted and executed by
  several replicas of the API, share one managed server, which is resized under
  them, and how the work of a replica that died is recovered.
- *Role handovers*: how the worker and scheduler containers of a project pass
  from one release to the next, with failures, cancellations and crashes in the
  middle, so that no scheduler ever runs twice and none is left stopped.
- *Backups and restores*: how a project's data is captured, retained and put
  back, beside each other, beside the deletion of the project, and across
  failures, cancellations and dead processes.

TLC checks them on small instances. TLAPS proves the type invariants, the safety
properties and both refinements for every value of the constants; the liveness
properties are model-checked only.

Paths below are relative to the repository's root. Short names used throughout:

| name | file |
|---|---|
| repo | `packages/db/src/repos/deployment.repo.ts` |
| project repo | `packages/db/src/repos/project.repo.ts` |
| admission | `packages/db/src/repos/project-work-admission.ts` |
| pipeline | `packages/platform/src/engine/modules/deployments/build-pipeline.ts` |
| hooks | `packages/platform/src/engine/modules/deployments/deployment-lifecycle.ts` |
| cancellation | `packages/platform/src/engine/modules/deployments/deployment-cancellation.ts` |
| build service | `packages/platform/src/engine/modules/deployments/build.service.ts` |
| deployment service | `packages/platform/src/engine/modules/deployments/deployment.service.ts` |
| reconcile | `packages/platform/src/engine/modules/deployments/reconcile.service.ts` |
| teardown | `packages/platform/src/engine/modules/projects/project-teardown.ts` |
| lock | `packages/platform/src/engine/lib/project-runtime-lock.ts` |
| queue | `packages/platform/src/engine/modules/deployments/cloud-build-queue.ts` |
| recovery | `packages/platform/src/engine/modules/deployments/deployment-recovery.ts` |
| activity | `packages/platform/src/engine/lib/cloud-build-activity.ts` |
| resources | `packages/platform/src/engine/lib/cloud-build-resources.ts` |
| activity repo | `packages/db/src/repos/cloud-build-activity.repo.ts` |
| workspace repo | `packages/db/src/repos/cloud-workspace.repo.ts` |
| role rollout, role handover, role environment | `packages/platform/src/engine/modules/deployments/role-rollout.ts`, `role-handover.ts`, `role-handover-environment.ts` |
| web pipeline | `packages/adapters/src/runtime/deploy-pipeline.ts` |
| backup repo | `packages/db/src/repos/backup.repo.ts` |
| backup orchestrator, restore orchestrator, retention | `packages/platform/src/engine/modules/backups/backup.orchestrator.ts`, `restore.orchestrator.ts`, `retention-prune.ts` |
| incremental, backup catalog | `packages/adapters/src/backup/common/incremental.ts`, `packages/core/src/backup-catalog.ts` |

## 1. The system

Openship is a self-hosted deployment platform. An API process serves requests
(from the dashboard, the CLI, webhooks and schedules), keeps everything in a
database, and builds and runs applications through runtime adapters (Docker,
bare processes, Swarm, Kubernetes). A *project* has a history of *deployments*;
one of them is live. Each deployment has a *build session*, which is at once its
log and the durable lease of the worker that executes it.

### 1.1 Components

| component | state | operations | talks to |
|---|---|---|---|
| deployment and session rows (repo) | status, commit, version, compose decision, previous release; session status, started/finished, duration | create, claim, cancel, outcome writes, supersede, finish, sweep, delete | everything below |
| project row (project repo, admission) | deletion fence, cleanup marker, live pointer | claim, clear, begin, fail, delete; set the live release | teardown, hooks, decisions |
| project runtime lock | one holder per project, a queue of waiters | run under the lock | create, delete, reconcile, teardown, archive |
| build and deploy worker (pipeline, compose, hooks) | program counter, outcome so far, abort signal | build, promote, deploy, record, publish, finish, close the lease | rows, lock |
| cancellation | signal registry, polling timer | request, signal, wait for quiescence | rows, worker |
| deployment requests (build service, deployment service) | what a handler has read so far | deploy, start, cancel, keep, reject, delete | all of the above |
| restore and rollback | restore plan | redeploy of a frozen snapshot, archive of the predecessor | create, lock |
| reconcile | verdict of the host | settle a deploy whose connection was lost | rows, pointer, lock |
| project teardown | steps taken, whether anything was destroyed | fence, gate, drain, clean up, drop the row | lock, cancellation, rows |
| boot sweep | the statement that runs next | close what a restart orphaned | rows |
| cloud build queue (queue, resources) | the admission lock of a workspace, its queued rows | take turns, count slots, reserve, dispatch, refuse | rows, activities, worker |
| cloud build activities (activity, activity repo) | a reservation or activity per build: owner token, slot, command ledger | reserve, activate, defer, release the slot, finish | rows, workspace row |
| worker recovery (recovery) | the sweep's execution and project locks | list, lock, take the token, stop commands, settle, clean up | activities, rows, host |
| managed commands | commands asked of the host and recorded | record, create, stop, complete | activities, host |
| workspace lifecycle (workspace repo) | activity claim, operation, resources | request, claim, resize, record, release | activities, host |
| role rollout and handover (role rollout, role handover, role environment) | the journal of a deployment, the containers on the host, requests still on their way, what the worker has started and stopped | roll out by stages, unwind, commit, publish, keep, recover back or forward, discard | web pipeline, rows, lock, cancellation, deletion |
| backups and restores (backup repo, backup and restore orchestrator, retention) | backup runs with their leases and artifacts, restores with their flags, the objects at the destination, three kinds of locks | capture, full or incremental, reclaim, retain, protect; prepare, apply, cancel; sweep | project fence and lock, teardown, destination, service |
| runtime deploy pipeline, host ports | containers, port claims | cut over, claim, release | adapters |
| retention and image GC | retained releases, images | prune | rows, adapters |
| jobs | due jobs, runs | claim, run | rows |
| actions (gates, inbox, runners) | deliveries, admissions | receive, gate, dispatch | create |
| durable run events, keyed mutex, notifications, migration, invitations | see `PROJECT.json` | | |
| domains, ingress, TLS; adapters; API surface; apps | external engines, user interfaces | | |

The rows down to backups and restores are modelled here. The others are
listed in `PROJECT.json` with the reason why they are not modelled, or not yet.

### 1.2 How they interact

A deploy request checks that nothing is active, takes a snapshot, and only then
waits for the project runtime lock. Under it, it inserts the row and the session
in two transactions, retires older reconciling rows and older open decisions,
and releases the lock. Then it *claims* the execution: a compare-and-set that
turns the session into a held lease. The winner launches a worker, which nobody
awaits.

The worker holds no lock. It writes its progress with a dozen separate
updates; each has to stand beside whatever requests did meanwhile. Cancellation
is therefore decided in the database first (`recordCancellation`); the abort
signal and the polling timer only tell the worker what has been decided. A
cancelled row leaves the unique index on in-flight statuses while its worker may
still be touching containers, which is why the lease, and not the status,
says whether the project is free.

A teardown takes the lock, raises a durable fence on the project row, and either
refuses (something is active) or cancels what is active and waits. Only then
does it mark the cleanup as begun and destroy. A teardown that fails before it
destroyed anything lowers the fence; after that point the fence stays.

Keep and reject take no lock at all.

In Cloud mode a build does not start when it is submitted. It is queued, and any
replica may admit it, under the admission lock of its workspace: it must be
first in line, below the plan's limit, and fit beside what is reserved. Admission
claims the execution and reserves an *activity* in one transaction. The worker
then takes the execution lock of its deployment, runs its pre-deploy backup on
an otherwise idle server, takes the build lock of its project and activates the
reservation. Only from then on may it use the host; every command is recorded in
the activity before the host is asked to create it. A refused activation puts
the build back into the queue. Locks are advisory locks of a database session:
a process that dies gives them up and leaves everything else, and a process may
also live longer than its session. A sweep on every replica lists what is
unfinished, must win both locks, takes the activity's token, stops the recorded
commands, settles the row and finishes the activity. A resize of the server
wants the workspace without any active build and keeps builds away while it
lasts.

A release may have *roles*: containers beside its web container that run a
command of their own, as a worker or as a scheduler that must run once. The
rollout starts the new ones in stages, beside the old ones as long as possible:
workers first, then old schedulers that a new role may replace are stopped, then
the remaining workers, then each scheduler after the old one of its name, then
the web container. What is about to be done to the host is written into a journal
on the deployment row first. The *commit intent* in that journal is the point of
no return: before it a failure, a cancellation or a recovery goes back to the
previous release, after it forward. A cancellation may also ask to keep what is
there. An open journal is settled by the worker, by the reconcile sweep or by the
deletion of the release, all under the project runtime lock.

A *backup run* may be delivered to several workers at once. A worker takes the
lock of the policy if the capture is incremental, then the project runtime lock,
and claims the row; the claim opens a lease that only the worker itself or the
boot closes. It uploads what the source holds, writes the manifest and decides the
row. An incremental capture refers to objects of the newest restore point instead
of uploading them again. When anything fails, it deletes what it uploaded.
Retention follows every success and also runs on schedule, under the policy lock,
and deletes one restore point at a time, under the lock of that run and only the
objects no other one refers to.

A *restore* is prepared first: under the lock of the run it is checked and
recorded, then every object is read back. It is applied when the operator says so:
the claim makes it the only one of the project, the worker takes the project
runtime lock, stops the service if its data is a volume, says in the row that
data is being written, writes, and starts the service again. A cancellation of a
restore that is being applied only raises a flag, which the worker looks at.
A deletion of the project holds the same project lock, and counts captures and
restores among what is busy.

### 1.3 What is hard

- Interleavings of two request handlers with each other and with a worker, at
  every `await`.
- Values read before an `await` and used after it: the live release in delete,
  reject and reconcile; the status in keep; the row in the fallback handler.
- Write order: outcome, pointer, session, lease are separate updates.
- A restart between any two of them, also between the statements of the sweep
  that repairs them.
- A write that fails inside a best-effort block, after which the code goes on.
- Waiting: a teardown waits for a worker under the lock the worker wants.
- Replicas: an admission counts slots that another replica gives back; the
  server shrinks between a reservation and its activation; a command reaches the
  host after its sender died; a worker outlives its locks and meets the recovery
  that replaced it.
- A host that answers late or not at all: a stop that timed out may still take
  effect after the container was started again.
- Restore points that share objects, while retention deletes some and a capture
  refers to others; a capture whose row somebody else has decided.
- A verdict and the flags that explain it are two statements; the answer to the
  first may be lost.
- Data that is half written when a write fails, is cancelled or is cut short, and
  a service that must not be started on it.

`PROJECT.json` lists each such hazard at its line, with the properties that
cover it. Where none does, the note says what the code does in that case.

### 1.4 What makes each component correct

- *Rows and leases*: one deployment of a project is in flight, leased or
  executing at a time; a held lease has a live worker; a row shows "building" or
  "deploying" only while something works on it; a cancelled row stays cancelled.
- *Cancellation*: "cancelled" is reported only when nothing of that deployment
  runs or will run; a cancelled release is never published; a cancelled worker
  always gives the project back.
- *Teardown*: resources are destroyed only behind the fence with nothing busy;
  once destruction began the fence stays until the row is gone.
- *Live pointer*: it moves forward (without keep), and it resolves.
- *Releases*: a release number names one commit; at most one decision is open; a
  reject that restores a predecessor marks the release only after the restore
  has been created.
- *Lock*: every waiter gets its turn.
- *Admission*: the plan's limit and the size of the server are honoured; a backup
  finds the server alone; every submitted build ends.
- *Activities*: whoever works on the host owns the execution; one build of a
  project at a time; no command outside an activity; a finished activity and a
  closed session stay so; an outcome is final.
- *Resize*: no build has a command on the server while it is changed.
- *Roles*: a scheduler's command never runs in an old and a new container at
  once; until the commit intent every old container can be brought back; once
  nothing is pending the live release runs in full; what is committed or kept is
  not taken down; every open journal is settled.
- *Captures and retention*: the newest restore point is complete; only retention
  takes objects from a restore point, and only from one that may go; nothing is
  left behind at the destination; one worker at a time holds a lease.
- *Restores*: one writer of the data at a time; what was prepared from stays
  until the restore is over; a verdict ends the writing; an accepted cancellation
  stands; half-written data is announced and not served; what is being applied is
  settled.

## 2. The modules

| module | what it is |
|---|---|
| `DeploymentStore` | the tables and their transactions: every operator that primes a variable is one transaction |
| `DeploymentLifecycle` | EXTENDS the store: request handlers, workers, lock, boot sweep, crash; `Spec`, `FairSpec` |
| `ProjectWork` | the abstract specification: a project that is open, fenced, destroying, condemned or gone, and the workers that run |
| `DeploymentProperties` | all properties, and the refinement mapping to `ProjectWork` |
| `MCDeploymentLifecycle` | the instance for TLC (symmetry of requests) |
| `DeploymentProofs` | types, inductive invariant and the first safety theorems |
| `DeploymentGuaranteeProofs` | fence, refinement, leases, cancel reports, orphans, rejects |
| `ReleaseProofs` | release numbers, the live pointer, decisions on partial releases |
| `CloudBuildStore` | the rows by which a managed server is shared, and their transactions |
| `CloudBuilds` | EXTENDS the store: admission, worker, commands, recovery sweep, resize operator, faults; `Spec`, `FairSpec` |
| `HostAccess` | the abstract specification: who is on the host, who was let out, who is alone |
| `CloudBuildProperties` | all properties, and the refinement mapping to `HostAccess` |
| `MCCloudBuilds` | the instance for TLC (which build belongs to which project, what it demands) |
| `CloudBuildHostProofs` | types; commands, barrier, resize, refinement |
| `CloudBuildOwnerProofs` | tokens and outcomes; plan and backups; the capacity of the server |
| `RoleHandover` | the rollout of roles, the web container, the commit, the unwinding, the recovery, the host and its late answers; `Spec`, `FairSpec` |
| `RoleHandoverProperties` | its properties |
| `MCRoleHandover` | the instance for TLC (three releases and their roles) |
| `RoleHandoverProofs` | types; journal and host; what the handover promises |
| `BackupStore` | the rows of runs and restores with their transactions, the objects at the destination, the locks |
| `BackupRuns` | EXTENDS the store: captures and retention by the slots of the job runner |
| `RestoreRuns` | EXTENDS the store: preparation, cancellation and application of restores, the service and its data |
| `Backups` | EXTENDS both: with the deletion of the project, crashes and dying replicas; `Spec`, `FairSpec` |
| `BackupProperties` | its properties |
| `MCBackups` | the instance for TLC (symmetry of runs, restores and workers) |
| `BackupTypeProofs` | types |
| `BackupProofs` | locks and leases; what a restore writes; the objects of restore points; what is left behind |

The families share no variable: `DeploymentLifecycle` is one project on one
API process, `CloudBuilds` is many projects on several replicas with the part of
the row life cycle that admission and recovery touch, `RoleHandover` is one
project whose deployments have been built, from the lock they take to the outcome,
`Backups` is one project with one policy and no deployment. What they
have in common, claim, cancel, outcome writes and deletion, is translated in each
from the same methods, at the grain it needs.

### 2.1 State of a deployment

A deployment is its position in creation order (`Deployments == 1 ..
MaxDeployments`), so `d < e` says that d's row is the older one. Its columns are
functions: `status`, `commit`, `version`, `decision`, `previous`; of the session
`lease`, `session`, `duration`. "unborn" and "deleted" stand for the absence of
a row. The lease abstracts the two timestamps `started_at` and `finished_at`;
"closed" is a session finished without ever having started. The project row is
`exists`, `deleting`, `cleanup`, `active`.

`status` "failed" stands for failed and action_required, which no transition
modelled here tells apart. Logs, images, urls, containers, service rows and
timestamps are left out.

A request is a record `client[c]` that says at which `await` its handler is and
what it has read so far; a request that is done is `IdleClient`. `holder` is the
project runtime lock. `worker[d]` says between which two writes the worker of d
is, `result[d]` what it has decided to report and `number[d]` the version it has
read. `aborted` is the set of fired abort controllers. `reported` remembers which
deployments a cancel request has reported as cancelled. `api` and `swept` are the
boot sweep's progress. `writeFailures` and `crashes` count against their bounds.

### 2.2 Actions on a deployment

One action is the code between two awaits that touch shared state; its database
part is one transaction of `DeploymentStore`. The table gives the main ones; the
map in `PROJECT.json` names the lines of each.

| actions | code |
|---|---|
| `RequestDeploy`, `InsertDeployment`, `InsertSession`, `UndoInsert`, `RetireReconciling`, `RetireDecisions` | `createQueuedDeployment`, and the two supersessions at its end |
| `StartBuild`, `Kickoff`, `DropUnclaimed` | `startBuild`, `kickoffBuildNow` |
| `StartWork` ... `CompleteExecution` | `executeBuildAndDeploy`, `runComposePipeline`, the hooks `onSuccess`, `onFailure`, `onReconciling`, `onNoChanges`, `onCancelled`, `finalizeComposeDeploy`, `markDeploymentFailedFromOutside`, `completeDeploymentExecution` |
| `PollCancellation` | the timer of `registerDeploymentExecution` |
| `RequestCancel`, `SignalWorker`, `SettleSession`, `AwaitQuiescence` | `cancelBuildSession`, `waitForDeploymentQuiescence` |
| `RequestKeep`, `KeepRelease`, `KeepPointer` | `keepDeployment` |
| `RequestReject`, `RejectDetach`, `RejectMark` | `rejectDeployment`; the restore in the middle runs through the create actions and comes `back` |
| `RequestRollback` | `rollback` on the Docker path, where a restore is a new deployment of the old snapshot |
| `RequestDelete`, `Detach`, `Erase` | `deleteDeployment` |
| `RequestReconcile`, `Verdict`, `Forward`, `Advance` | `reconcileDeployment` |
| `RequestTeardown`, `RefuseTeardown`, `Gate`, `Drain`, `Poll`, `BeginCleanup`, `Destroy`, `DropProject`, `ReleaseFence`, `RetainFence` | `teardownProject`, `stepCancelInFlight`, `stepDeleteRow` |
| `Crash`, `BootDeployments`, `BootSessions`, `BootLeases` | a stop of the process at any moment, and `sweepStaleInFlight` statement by statement, before the first request is served |

A write the database refuses (`WriteFails`) is an outcome wherever the code
catches it and goes on; a write whose error only ends the request is not
distinguished from a request that was never made. Timeouts (the cancel request's
wait, the teardown's quiescence window) are nondeterministic: they may pass with
the worker still running.

### 2.3 Cloud builds

A build is its position in the queue. Of its rows the model keeps the status, the
lease of the session, and of the activity the owner (`absent`, `reserved`, the
token of the `worker`, of its `recovery`, `finished`), `released` (the slot was
given back) and `ledger` (it holds an unacknowledged command). The workspace has
its `claim`, its `operation` with its `target`, and the recorded `capacity`;
`host` is the size the server really has. CPU and memory obey the same
arithmetic and are one number. `command[b]` is what is on the host, or on its way
there, for b.

| actions | code |
|---|---|
| `Submit`, `Cancel`, `CloseCancelled`, `AttemptDeletion` | `requestCloudBuild`, `recordCancellation` and the settling after it, a teardown that fences and gives in |
| `EnterAdmission`, `FindRoom`, `KeepWaiting`, `Refuse`, `RecordRejection`, `Dispatch`, `FindProjectClosing`, `LoseDispatch`, `CancelUnavailable` | `admitCloudBuild`, `decideCloudBuildResources`, `claimBuildExecution` with `reserveCloudBuildActivity`, the failures the drain records |
| `AcquireExecution`, `Prepare`, `FailPreparation`, `LockProject`, `Activate`, `RefuseForNow`, `RefuseForGood`, `Defer`, `CannotDefer`, `Unwound` | `kickoffBuildNow` in Cloud mode, `withCloudBuildActivity`, `deferUnactivatedCloudBuild` |
| `Recheck`, `EndWork`, `GiveSlotBack`, `FinishWork`, `CannotFinish`, `SettleOutside`, `AcknowledgeExecution`, `Leave` | the build itself, the end of the activity, `markDeploymentFailedFromOutside`, `completeDeploymentExecution` |
| `SendCommand`, `CommandStarts`, `CommandEnds`, `StopCommand`, `StopUnrecorded` | the tracked commands of a worker or a recovery, and the host's side of them |
| `BeginRecovery` ... `AcknowledgeRecovery` | `recoverCloudBuildQueue`, `recoverManagedDeploymentExecution` |
| `RequestServerResize`, `BeginLifecycle` ... `ReleaseLifecycle` | `requestOperation`, `processWorkspaceOperation` for a resize |
| `AdmissionCrashes`, `RejectionIsLost`, `WorkerCrashes`, `RecoveryStops`, `OperatorStops`, `WorkerLosesLocks` | a process that dies or gives up anywhere; a lock session that breaks under a live worker |

The stop of a command leaves a tombstone on the host, so that a creation request
that arrives later is refused: `Stopped` maps "sent" to "none", and the mutant
that forgets it breaks the refinement.

### 2.4 Role handovers

A release is its position in creation order. `row[d]` has its status, whether its
cancellation asked to `keep` the containers, and the role containers it has
recorded; `journal[d]` is the journal with its phase, the previous release, the
old containers whose stop was intended, whether the old web container was to be
stopped and whether the new one was recorded. `container` is the host;
`started` and `retained` are the rollout's own lists; `recovery`, `target` and
`discarding` say what a recovery is doing, for which release and whether for a
deletion.

A request to the host (`Ask`) is done, or its caller gets an error or a timeout.
Then it stays in `late` and may take effect at any moment, until a later request
on the same container has been done: Docker serves the requests on one container
in order, which is also what the code relies on when a recovery stops a container
again before it starts it.

| actions | code |
|---|---|
| `Deploy`, `Cancel`, `Signal` | `create` with its refusal while a journal is pending, `recordCancellation` with its refusal after the commit intent, the abort signal |
| `BeginHandover`, `RefuseHandover` | the lock, `assertRoleInventorySettled`, `beginRoleHandover` |
| `CreateReplica`, `LoseCreate`, `StartReplica`, `StopPrevious`, `EndStage`, `FailCheck`, `SeeCancellation` | `rolloutRoles` with `deployRole` and `verify`; `Starts`, `Stops` and `Outgoing` are its plan (`planSingletonHandover`) |
| `StopPreviousWeb` ... `FailHealth` | `runDeployPipeline` under `roleHandoverEnvironment`, stop-first or overlapping |
| `Commit`, `CommitRefused`, `RetirePrevious`, `Publish`, `FailPublish` | the commit intent as a compare-and-set, `commit`, `onSuccess`, `protectRoleHandoverOutcome` |
| `KeepContainers`, `StopActivated`, `RevertWeb`, `Unwind`, `RestartRetained`, `SettleFailure`, `EndWorker` | the failed and cancelled branches of `executeServerDeploy`, `unwind` |
| `WorkerRecovers`, `SweepRecovers`, `DiscardPending` | the `finally` of the worker, `runRoleHandoverRecovery`, the start of a deletion: the three callers of `recoverProjectRoleHandovers` |
| `RemoveCandidate`, `RestorePrevious`, `CompleteUndo`; `AdvanceRelease`, `RemovePrevious`, `CompleteAdvance` | `recoverHandover`, back and forward |
| `DeleteSettled`, `CleanUp`, `DropRow` | `deleteDeploymentLocked` |
| `Crash` | the process dies; leases and in-flight rows are swept |
| `LateEffect` | a lost request takes effect |

Rollout, recovery and deletion exclude each other by the project runtime lock, so
one program counter (`step`) and one recovery suffice; the lock's queue and its
fairness are the subject of `DeploymentLifecycle`.

### 2.5 Backups and restores

A run is a row `run[r]`: its status, its lease (the two execution timestamps), the
objects it refers to, whether its manifest is recorded, its rank among the finished
ones, whether it is protected and whether retention has dropped it. An object is
named by the run that wrote it and what it is: a block of the source, the index of
an incremental artifact, or the manifest. `stored` is what the destination holds.
`job[w]` is what a slot of the job runner has read and uploaded so far; it executes
a capture or a retention.

A restore is a row `restore[s]` with the flags of its meta: `destructive` (data was
written), `partial`, and `down` (the service was left stopped). `prep[s]`,
`cancelling[s]` and `apply[s]` say where its preparation, a request to cancel it
and its application are. `target` says whether the data of the service is whole,
and `service` whether it runs: both are what really is, not what a row says.

`kind` is the payload: a volume, restored with the service stopped; a database dump,
written through the running service, which a failure leaves unchanged; and a Redis
image, written through it and loaded by a restart.

| actions | code |
|---|---|
| `Enqueue`, `Deliver`, `ProtectRun`, `EditPolicy`, `SweepHeartbeat` | `enqueue` and `spawnRuns`, the several ways to deliver a run, `protectRun`, an edit of the policy, `sweepRunsWithStaleHeartbeat` |
| `TakePolicyLock`, `TakeProjectLock`, `Claim` | `execute` with its two locks, `claimExecution` |
| `Snapshot` ... `RecordSuccess` | `executeRun`; `UploadBlock` and `FinishBlocks` are the producer, `ObjectFor` the reuse of blocks in `uploadIncrementalArtifact` |
| `FailCapture`, `Reclaim`, `Fail`, `Finish` | its `catch` and `finally`, with `mayReclaimObjects` and `acknowledgeExecutionFinished` |
| `StartSweep`, `Survey`, `LockVictim`, `Erase`, `Drop`, `EndPrune` | `runRetentionSweep`, `prunePolicy` |
| `CheckSource`, `AdmitRestore`, `StartPrepare` ... `RecordPrepared` | `beginPrepare`, `runPrepare` |
| `RequestCancel`, `FlagCancel`, `SettleCancel` | `cancel`: the read of the row, `requestCancel`, the transition that is not made while the restore is being applied |
| `ClaimApply`, `StartApply` ... `StartBack`, `Unwind`, `RecordVerdict`, `RecordFlags`, `Leave` | `apply`, `claimApply`, `runApply` with its checkpoints and its `catch` and `finally` |
| `ClaimDeletion` ... `Destroy` | `teardownProject`, as far as it waits for backups and restores and destroys what they are of |
| `Restart`, `ReplicaDies` | the boot of a self-hosted installation with `sweepStaleRuns` and `sweepStaleRestores`; the death of one replica among several, after which nothing is swept |

A status write and the columns that go with it are two statements in
`persistTransition`, and two actions here wherever a property looks at the
columns. A write by anyone but the owner of the verdict is refused by the database
once a terminal status is there (`Undecided`, `Settle`). The redundancy is in the
code: `RunBlocks` and `RestoreBlocks`, the counts a deletion waits for, matter for
work that does not hold the project lock yet; work that holds it keeps a deletion
out by itself.

Several failures are swallowed by the code, which then goes on, and each is a fault
of the model: the statement of the mark fails and the data is written all the same
(`lostMark` in `MarkDestructive` and `OpenArtifact`); `mergedMeta` cannot read the
flags it is to keep, and the verdict is recorded with the new ones alone
(`unmerged` in `RecordFlags`); a capture that was refused cannot read who won, and
leaves its objects where they are (`unreadable` in `Reclaim`). A fourth is not
swallowed, but the status it comes after stands: the columns that go with the
artifacts, the success or the verdict are rejected (`lostColumns`).

### 2.6 The abstract specifications

`ProjectWork` says, with no rows, requests or locks, what the fence and the lease
promise together: at most one worker, started only in an open project;
destruction only when fenced with no worker; no way back from "condemned" to
"open". `DeploymentProperties` maps the detailed state to it (`Phase`, and the
set of working deployments). `Condemn` is enabled from "fenced" because a
teardown that finds the fence up and gives in cannot tell what the attempt
before it has destroyed.

`HostAccess` says what a shared server promises: builds of different projects are
inside together, two of one project never are, exclusive work is alone, a command
runs only for a build that is inside, and who was let out never comes back in.
`CloudBuildProperties` maps it: inside are the activities with a token, busy
those with a command sent or running, alone is the lifecycle claim.

## 3. What TLC checks

| run | instance | shows |
|---|---|---|
| `Teardown` | 2 deployments, 2 requests, deploy/cancel/teardown/forced teardown, ready and reconciling outcomes, 1 crash, 1 failed write | types; `CleanupQuiescent`, `FenceRetained`; the refinement of `ProjectWork` |
| `Cancellation` | 2 deployments, 2 requests, deploy/start/cancel/delete/reconcile, all outcomes, 1 crash, 1 failed write | `OneWorker`, `LeaseHasWorker`, `NoOrphans`, `CancelReportTrue`, `PointerResolves`, `CancelledFinal`, `ForwardOnly`, `NeverPublishesCancelled` |
| `Restores` | 3 deployments of a commit or an image, 2 requests, deploy/reject/rollback, ready and partial outcomes | `ShippedVersionsDistinct`, `OneOpenDecision`, `RejectRestores` |
| `Progress` | 2 deployments, 2 requests, deploy/keep/forced teardown (which cancels what it finds), fair | `CancelFreesProject`, `WaitersServed` |
| `SharedServer` | 2 builds of two projects, a server of size 1 or 3, 1 fault | `CapacityHonoured`; the refinement of `HostAccess` |
| `ProjectTurns` | 2 builds of one project, limit 1, one cancellable, a refused deletion, 1 fault, which may be a broken lock session | `PlanHonoured`, `CommandsTracked`, `OwnerUndisturbed`, `OutcomeFinal` |
| `WorkerRecovery` | a source build with a pre-deploy backup and an image deployment of its project, 1 fault, fair | `BackupUndisturbed`, `BuildsEnd` |
| `Handover` | 3 releases whose worker and scheduler swap commands and swap them back, one of them overlapping; 2 faults among crashes, lost requests, failed checks and lost writes; fair | `SingletonAlone`, `PreviousRestorable`, `SettledServes`, `HeldReleaseStands`, `HandoverSettles` |
| `Retention` | 3 runs, 2 workers, full or incremental captures, 1 fault: a policy edit or a heartbeat sweep | types; `NewestComplete`, `NothingLeaked` |
| `RestoreSource` | 2 runs, 1 restore of a volume of two artifacts, several replicas, 1 fault: refused deletes, a dying replica, a failed start, a deletion, an unclear stop, an unrecorded mark or flags that cannot be read back | `SourceStays`, `RestorePointsLast`, `OneWriter`, `PartialNeverServed`, `CancelStands` |
| `RestoreSettles` | 1 restore of each payload kind, 1 run, one process, 2 faults among crashes, deletions, failed starts, lost replies, lost columns, heartbeat sweeps and unreadable winners; fair | `PartialIsKnown`, `AppliesSettle` |
| `LostReply` | 1 run, its success not answered | the counterexample to `NewestComplete` of section 5 |

Ten more configurations hold the counterexamples to the other disagreements of
section 5: `Rekeep`, `Superseded` and `CancelClock` (with `MCDeploymentLifecycle`),
`LostDeferral` (with `MCCloudBuilds`), `SilentFlags`, `CancelAnswer`,
`ReplicaDeath`, `DeletionWindow`, `SlowWrite` and `LostMark` (with `MCBackups`). An
eleventh, `LostWinner`, is no disagreement, since "preserve data" is what the comment
says: it shows why `NothingLeaked` is not stated where the winner of a refused
capture cannot be read. Each is the smallest instance that shows its case, and is
run by hand, as in `tlc -config Rekeep.cfg MCDeploymentLifecycle`. `LeaseCoversWork`, `ResizeAlone`,
`BarrierMatches`, `ClosedForGood` and `BuildingIsLeased` are proved (section 4)
and in no run.

Every property has a mutant in `PROJECT.json`: a plausible bug in one definition
(a dropped guard, a forgotten status) that makes exactly that run fail.

### 3.1 Bounds

`MaxDeployments`, `Clients`, `MaxWriteFailures`, `MaxCrashes`, `Requests` and
`Outcomes` bound an instance; when row ids run out, a create is refused, which
the code does for other reasons anyway. Two deployments are enough where a
property is about a worker and whatever replaces it, since at most one is busy.
Three are needed for releases: one live, one lost or partial, and one newer, or a
release, its predecessor and its restore. Two concurrent requests give every
pairwise race, and a slot is reused as soon as its request has ended. One crash
is enough to stop between any two writes, and it may come after the failed one;
the sweep always runs to its end afterwards or is itself cut by the crash.
`Commits = {}` leaves only image releases, the revision that every release
must number anew; `Restores` adds a commit, so that a restore ships the same
revision as its original.

`Restores` admits no failed write and no crash: its properties are stated for
the case without a lost write (what the code does after one is described with
the hazards), and crashes are the subject of the other runs. `ForwardOnly` says
that the live pointer only moves to a later release (a restore is a new deployment) or
to none; `Cancellation` checks it with deletes, reconciles and a crash, up to the
first failed write. `keep` is left out: the configuration `Rekeep` shows why.

Two builds are enough where a property relates a build and its recovery, or a
build and the one it shares a server or a project with; the demands of
`MCCloudBuilds` are chosen so that both fit the large server and only one the
small one, and so that a shrunk server refuses an activation that was reserved
before. One fault is enough to lose any one process at any step, and what it
leaves meets a complete recovery; in `ProjectTurns` that process may live on
without its locks beside the recovery. `BuildsEnd` is checked with one fault and
proves nothing about an endless series of them.

In `Handover` the second release swaps the commands of the names "work" and
"cron", and the third swaps them back: every rollout has a worker that takes over
a scheduler's command and a scheduler that takes over a worker's. Three releases
are one to serve, one to fail, be kept or be lost in the middle, and one to meet
what that left. Two faults allow a failure and a second one in the unwinding or
the recovery of the first, or a crash with a late request. The safety properties
were also checked once with three faults (1.3 million states).

For backups and restores, `Runs`, `Restores`, `Workers` and `Blocks` bound an
instance, `FaultKinds` names the faults it may show and `MaxFaults` how many of
them together; a deletion attempt counts as one, so that there are not endlessly
many. Two workers and three runs give a capture beside a retention that has
something to delete with `RetainCount` 1: one to keep, one to go, one in the making.
One block is enough to be shared, and a second artifact (`Parts` 2) to be half
restored. `Retention` takes no refused deletes, since what the destination refuses
to give back does leak; `RestoreSource` takes them. Nor does it take unreadable
winners, which leave objects too, and lost columns, which leave a success without its
artifacts; `RestoreSettles` takes both. In turn `RestoreSettles` takes no lost mark and
no flags that cannot be read back, the two faults that `PartialIsKnown` does not
survive, and `RestoreSource` does. At most one request to cancel a
restore is under way. The operator applies a restore only after the second
statement of its preparation, which follows the first within milliseconds; only
`SlowWrite` drops that assumption. Faults that break a property by themselves are
kept out of the runs that check it: `LostReply` is a case `NewestComplete` does not
survive, `LostMark` one for `PartialIsKnown`, `LostWinner` one for `NothingLeaked`.

Deadlock is not checked: a project that was deleted, or whose row ids are used
up, rightly stops.

### 3.2 Fairness

`FairSpec` of `DeploymentLifecycle` assumes what the event loop gives: a received request, a running
worker and the boot sweep continue (weak fairness), and so does the cancellation
timer. A build or a deploy phase may take for ever, so `Build` and `Deploy` are
not fair; but its end after an abort is (`WorkerHeeds`), since both race the
signal. The project runtime lock is a tail of promises, each waiter behind
exactly one predecessor, so a waiter is not overtaken for ever: strong fairness
of the two steps that take the lock inside a running handler
(`InsertDeployment`, `ArchivePrevious`). Requests, crashes and failing writes are
never forced.

`FairSpec` of `CloudBuilds` assumes weak fairness of a step some process is in
the middle of: an admission, a worker, a recovery, the operator, the settling of
a cancelled build. Four steps are strongly fair. `EnterAdmission` and
`BeginRecovery` wait for advisory locks, which queue their callers, and are tried
again by a sweep every minute on every replica, so a build that can be admitted
or recovered again and again will be. `FindRoom` says that live pressure on the
host, an outside reason to wait, does not win for ever. `FinishRecovery` says
that a recovery does not send cleanup commands for ever. A worker's commands end
because the worker does (`EndWork`); what it leaves in the ledger is the
recovery's. Nothing is assumed of users, faults, refused deletions or the retry
of a failed resize, which the user must ask for.

`FairSpec` of `RoleHandover` assumes weak fairness of a worker's next step, of a
recovery's, of the cancellation poll, and of the sweep, which is a scheduled job.
Worker and sweep are never enabled against each other for long: while a worker
holds the lock the sweep is disabled, and workers end. Users, faults and late
effects are not forced.

`FairSpec` of `Backups` assumes weak fairness of what is under way: of a worker, of
the preparation or application of a restore, of a cancellation and of a deletion.
Weak fairness is enough for the project lock, because in the run that checks
liveness its holders end and, with one run and a bounded number of deletions, no
series of others can keep the restore waiting. Nobody has to enqueue, deliver,
apply or cancel anything.

## 4. What is proved

For every number of deployments and requests, every set of commits, request kinds
and outcomes, every set of builds, projects, demands and sizes, every set of
releases with any roles, every finite set of runs and any restores, workers,
blocks and payloads, and every bound on crashes, faults and failed writes. The only assumptions are the named ones on
the constants, which TLC evaluates in every run: that the bounds are natural
numbers and what is enumerated is of its type, and that markers such as
`NoCommit`, `NoClient`, `Nobody` or the names of locks are not values themselves
(`DeploymentsAssumption`, `CommitsAssumption`, `ClientsAssumption`,
`BoundsAssumption`, `RequestsAssumption`, `OutcomesAssumption`;
`BuildsAssumption`, `ProjectAssumption`, `DemandAssumption`,
`PoliciesAssumption`, `CapacitiesAssumption`, `LimitAssumption`,
`FaultsAssumption`; the `DeploymentsAssumption` of `RoleHandover` and
`RolesAssumption`, that each release has roles, which differ in name, none of them
the "web" that stands for the web container; `RunsAssumption`, `HoldersAssumption`, `BlocksAssumption`,
`RetainAssumption`, `PayloadAssumption`, `CloudAssumption`). Where a theorem
holds only without some request or fault, the table says so.

| theorem | states |
|---|---|
| `TypeCorrect` | `Spec => []TypeOK` |
| `Inductive` | `Spec => []IInv` |
| `OneWorkerAtATime` | `Spec => []OneWorker` |
| `CleanupExcludesWorkers` | `Spec => []CleanupQuiescent` |
| `CancellationIsFinal` | `Spec => CancelledFinal` |
| `FenceIsRetained` | `Spec => FenceRetained` |
| `LifecycleImplementsProjectWork` | `Spec => ImplementsProjectWork` |
| `LeasesHaveWorkers` | `Spec => []LeaseHasWorker` |
| `CancelReportsAreTrue` | `Spec => []CancelReportTrue` |
| `NoRowIsOrphaned` | `Spec => []NoOrphans` |
| `RejectsRestore` | `Spec => RejectRestores` |
| `PointerAlwaysResolves` | without keep: `Spec => []PointerResolves` |
| `CancelledNeverPublished` | without keep: `Spec => NeverPublishesCancelled` |
| `PointerMovesForward` | without keep: `Spec => ForwardOnly` |
| `ShippedVersionsAreDistinct` | without keep: `Spec => []ShippedVersionsDistinct` |
| `OneDecisionIsOpen` | without reconcile: `Spec => []OneOpenDecision` |
| `CloudTypeCorrect` | `Spec => []TypeOK` |
| `CommandsAreTracked`, `BarrierIsExact`, `ResizesAlone` | `Spec => []CommandsTracked`, `[]BarrierMatches`, `[]ResizeAlone` |
| `CloudBuildsImplementHostAccess` | `Spec => ImplementsHostAccess` |
| `OwnersAreUndisturbed` | `Spec => []OwnerUndisturbed` |
| `OutcomesAreFinal`, `ClosedStaysClosed` | `Spec => OutcomeFinal`, `Spec => ClosedForGood` |
| `BuildingsAreLeased` | `TornDown = {}` implies `Spec => []BuildingIsLeased` |
| `PlanIsHonoured`, `BackupsAreUndisturbed` | `Spec => []PlanHonoured`, `[]BackupUndisturbed` |
| `CapacityIsHonoured` | `Spec => []CapacityHonoured` |
| `HandoverTypeCorrect` | `Spec => []TypeOK` |
| `SchedulersStayAlone` | `Spec => []SingletonAlone` |
| `WayBackStaysOpen` | `Spec => []PreviousRestorable` |
| `SettledReleaseServes` | `Spec => []SettledServes` |
| `HeldReleaseStandsAlways` | `Spec => HeldReleaseStands` |
| `BackupTypeCorrect` | `Spec => []TypeOK` |
| `OneWriterAlways` | `Spec => []OneWriter` |
| `CancellationStands` | `Spec => CancelStands` |
| `PartialIsNeverServed` | `Spec => []PartialNeverServed` |
| `PartialIsAlwaysKnown` | without a delayed flag write, a lost mark or flags that cannot be read back: `Spec => []PartialIsKnown` |
| `LeaseAlwaysCoversWork` | `Spec => []LeaseCoversWork` |
| `NewestIsAlwaysComplete` | without a lost reply or lost columns: `Spec => []NewestComplete` |
| `SourceAlwaysStays` | without a lost reply or lost columns: `Spec => []SourceStays` |
| `RestorePointsAlwaysLast` | without a lost reply or lost columns: `Spec => RestorePointsLast` |
| `NothingIsLeaked` | without refused deletes, lost replies, lost columns, unreadable winners, crashes and deaths (`Reliable`): `Spec => []NothingLeaked` |

*Types.* The proof is layered like the code: the transactions of the store
(`TransactionTypes`), the moves handlers are made of (`HandlerTypes`), and then
one case per action. `VersionTypes` needs that a finite set of numbers has a
maximum (`FiniteNatsHaveMaximum`, by well-foundedness of the strict subset
relation), because the code's `MAX(version)` is a `CHOOSE`.

*Leases of a project.* `OneWorker` and `CleanupQuiescent` are not inductive. `IInv` adds what
they rest on:

- `LockFor`: a request at a step that runs under the lock holds the lock;
- `WorkerLeased`: a worker lives inside its lease;
- `OneListed`: at most one row is in flight or leased;
- `FreshFor`, `UnbornUnleased`: between the two inserts of a create the row has
  no session, and no session exists without a row;
- `FenceFor`: a teardown keeps the fence up from its claim on, and once past its
  gate the project is quiescent;
- `AllStopped`: nothing runs before the boot sweep has ended.

The argument: nearly every transaction is *calm* (`Calm`, `LeasesKept`): it lists
no deployment that was not listed before and takes no lease away.
`CalmTransactions` shows that once, and then worker steps and most request steps
are one line each. Four steps are not calm. The insert of a row needs an open
project with nothing listed; the insert of its session is protected by the lock;
the claim needs an open project and a row already listed; and the hard delete
comes behind the gate. Each is a lemma of its own (`InsertSteps`,
`SessionSteps`, `KickoffSteps`, `DropSteps`). The other half is control:
`ControlEffects` shows that a request step touches nobody else's control state
and takes or gives only a lock that is free or its own, and `RowEffects` that the
fence moves only under the lock; so a teardown past its gate cannot lose its
fence to another request. `CancelledFinal` follows from the same lemmas: every
calm step leaves a cancelled row cancelled (`Pinned`).

*The fence, and the refinement of `ProjectWork`.* The refinement needs to know
what a teardown that fails may say about resources. `FenceInv` is a ledger: a
cleanup marker stands only behind the fence; a teardown that raised the fence
itself finds no marker until it sets its own, and carries one from then on
(`LedgerFor`). With it, a failing teardown lowers the fence only where nothing
was destroyed, so `ReleaseFence` maps to a step from "fenced" to "open" and never
to one from "condemned". `WorkSteps` maps every action to a step of `ProjectWork`
or a stutter; the start of a worker (`KickoffWork`) and the teardown's own steps
(`TeardownWork`) are the only ones that are more than a stutter.

*Outcomes.* `LeaseHasWorker`, `CancelReportTrue`, `NoOrphans` and `RejectRestores`
follow from `OutcomeInv`: what each request knows about the rows it works on
(`TargetBorn`, `Cancelling`, `RestoreFor`), what each worker has recorded at its
position (`Attended`), and what the boot sweep has already closed.
`UneventfulTransactions` shows once for all transactions but four that they open
no lease, move no row into a build or deploy phase, and keep the history of rows.

*Releases.* `ReleaseInv` builds on both. The listed deployment is the newest row
(`ListedLast`), so numbers and the pointer move with creation order. A row has
no number from the queue to its outcome (`NumberFor`), and between the read of
`MAX(version)` and the write of the outcome the number that was read stays free
(`Fits`), because only the one worker ships. The pointer names a row that was
created and, while the project exists, one that is not deleted (`PointerSound`);
a delete has detached its row before it erases it, although the pointer it
compares with was read before an await (`DeleteFor`), and a reconcile knows that
its release is no older than the live one (`ReconcileFor`). What a create under
the lock knows is `CreateFor`; what the sweep has closed, `Swept`.
`ReconcilingAlone` is the least obvious part: a deployment waits for the verdict
on its lost connection beside a newer one only until the create of the newer one
has retired it. `ForwardOnly` and `NeverPublishesCancelled` are stated up to the
first lost write, and so are the parts that serve them. Every step is first shown
to do to rows, numbers and pointer only what a few lines say (`WorkerRows`,
`WorkerNumbers`, `RequestRows`, `RequestMoves`), then each part is preserved by
what these lines allow.

The hypotheses are needed, and TLC finds the counterexamples on two or three
deployments. Keep reads the release and then writes status and pointer without
a lock. With "keep" among the requests `PointerResolves` fails when a delete has
detached the release before keep points to it again, `ShippedVersionsDistinct`
when a reject has freed its number before keep revives it, `ForwardOnly` when a
newer release has been published in between, and `NeverPublishesCancelled` when
the create of a newer one has superseded it.
`OneOpenDecision` needs that nothing is reconciled: `startBuild` may start a
deployment before its creator has retired the older reconciling ones; a crash at
that moment leaves two, and both may later turn out to be partial failures.
Without reconciles a worker that is about to hold its release for a decision has
resolved every other one (`ResolvedFor`).

*Cloud builds.* The five invariants are separate, because they rest on different
facts. `HostInv` (commands tracked, barrier exact, the operator holds the claim)
is inductive on its own, and the refinement of `HostAccess` follows from it.
`OwnerInv` is about one build at a time: only its own steps touch its rows and
its processes (`OthersKeepOut`, `ServerKeepsOut`); a worker lives inside a
claimed lease, a worker with its locks and a recovery exclude each other, until
activation the reservation is the one the worker was dispatched with, and a
recovery settles the row before it gives anything back. `QueueInv` adds that the
admission lock has one holder and that what an admission has counted stays true
until it reserves. `ServerInv` adds what the rows know of the size of the server
at each step of the operator. The sum of the demands is a fold whose value
depends on an arbitrary choice of the order; `LoadUnfolds` and `LoadSplits` show
that it does not matter, without induction over a recursion: two solutions of
the fold's equation that differ would differ on a set of least cardinality, and
they cannot (`SolutionsAgree`). `BuildingsAreLeased` assumes that no deletion of
a project is attempted, and `LostDeferral` shows why it has to.

*Role handovers.* The invariant has two parts that are proved one after the other.
`JournalInv` is about control and never mentions the host: at most one journal is
open, it is that of the newest release, and until the newer one is live it names
the live release as the one to go back to (`PendingKnows`); a worker in its rollout,
its failure or its commit has the journal in the phase that belongs to it
(`WorkerKnows`), and so has a recovery (`RecoveryKnows`). So worker and recovery are
never about different releases, except that a deletion may clean up one that is
settled.

`HostInv` relates each of these to the containers and to the requests that may
still come. The properties speak of containers that run; the invariant must speak
of those that are `Alive`, that run or will when a lost start takes effect. Its
parts:

- `RolloutFor`: while all goes well the worker knows its own containers exactly and
  nothing is on its way to them, because the first lost answer ends the rollout;
- `StoppedFor`: the old schedulers that a started role replaces are down and stay
  so; `RetainedFor`: whatever it has stopped is in the journal first;
- `FailureFor`: in its failure, what it has not recorded as started is not up;
- `PreviousFor`: before the commit intent a container of the previous release is
  `Intact` or the journal names it (`Touched`), and an old role can only come up
  again if the journal names it;
- `CommittedFor`: a committed release runs in full with nothing on its way, which
  is why the recovery may go forward without starting anything;
- `OthersFor`, `FreshFor`: no role of a third release is up, and a release that has
  not begun has touched nothing;
- `Alone`, `Settled`, `BroughtBack`: a command of an old scheduler runs once and
  will; with no journal open the live release is `Intact`; what a recovery has
  started again has nothing on its way.

Most steps touch one container or one phase, and a few lemmas say what such a step
may do (`Tame`, `AskEffect`, `IdleHost`, `OpenHost`, `RetireHost`, `CloseHost`). Three are more.
A start (`StartAlone`) is safe because the stages order it: `ReplacedStopped` shows
that a role with the command of an old scheduler is created only when that one has
been stopped, by its name or by `Outgoing`. `SingletonAlone` excepts commands that
one release gives to two of its roles, which nothing refuses: those run twice by
declaration. A commit (`CommitHost`) turns what the
worker knows into `CommittedFor`. And the end of an undo (`CompleteUndoHost`) needs
that the candidates are gone before the first old container is started
(`MayRestore`) and that a restart fences the stop still on its way. TLC checked the
invariant on two instances (1.3 million and 707 thousand states) before it was
proved.

*Backups and restores.* `RestoreInv` is about the project lock: who captures,
overwrites or deletes holds it (`ProjectLocked`), the program counter of a restore
agrees with its row (`Tracks`), and a project whose data is being destroyed admits
no other work (`Closed`). `OneWriter` and `CancelStands` follow. `VolumeInv` adds
what a restore of a volume knows of the service it has stopped, hence
`PartialNeverServed`; `KnownInv` what the flags of a row say beside what the
restore has written. `PartialIsKnown` needs that the second statement of a
preparation is not delayed past the start of the restore (`SlowWrite` is the
counterexample), that the statement of the mark takes effect (`LostMark`), and that
`mergedMeta` can read the mark when the verdict is recorded. The code guarantees
none of the three: the theorem says that nothing else hides a partial write.

For the objects of restore points `LockInv` adds the lock of a policy, that of
the run retention is erasing, and the lease of a capture, from which
`LeaseCoversWork` follows. `PointInv` then relates rows, slots and the destination:

- `RowAt`: a finished run is later than all that were, and refers to objects of its
  own and of runs that succeeded;
- `HeldAt`: what a capture keeps is stored at every step from its upload on; it reuses
  only objects of runs that succeeded, and under the policy lock only
  (`Lineage`);
- `PlanAt`: retention deletes only restore points that may go, of which enough newer ones
  remain; what it erases is nothing a remaining restore point refers to,
  also one that was captured after the plan was made (`Planned`);
- `Sound`: the newest restore point is stored in full, and so is what a restore
  that has been checked relies on.

The invariant is long because nothing in the code says it in one place: objects
are shared between runs, and three locks, the lease and the rank of a run
together keep retention from what others use. TLC checked it on two
instances (788 thousand and 4.6 million states) before it was proved. A lost
reply breaks it, which `LostReply` shows; so do lost columns, after which a run has
succeeded and its row names no artifacts.

`NothingLeaked` says of the destination as a whole what `Sound` says of the newest
restore point, and needs an account of every object. `LedgerInv` is that account:

- every stored object is referred to by a restore point or is in `uploadedKeys` of the
  slot that still captures its run (`Referred`, `Uploading`);
- every restore point is stored in full until retention has begun to drop it
  (`Dropping`);
- what a capture has uploaded is among the artifacts it will record, the manifest
  aside; the plan of retention holds keys of restore points only, and all keys of
  those it may drop, whose leases are closed, so that they gain none; and between the
  erasure and the drop of a run each stored object that it refers to is shared with
  another one (`LedgerAt`).

So a capture ends by handing its uploads to its row or by taking back all of them, and
a drop leaves nothing that only the dropped run referred to. New objects cannot break
this between erasure and drop: they belong to a run that has not succeeded
(`NewObjects`), a restore point refers to no such run but itself. A refused delete, a
lost reply, lost columns, a winner that cannot be read (`LostWinner`) and the death of a
slot each leave objects behind, hence the hypothesis `Reliable`.
TLC checked the invariant on an instance (563 thousand states) before it was proved.

Checked by TLC only: the liveness properties (`CancelFreesProject`,
`WaitersServed`, `BuildsEnd`, `HandoverSettles`, `AppliesSettle`), which are out of
the prover's reach.

## 5. Where code and comments disagree

`LostReply` is a run that expects a violation. The other ten are configurations
run by hand (section 3).

- `Rekeep`. `keepDeployment` promises that re-keeping a resolved deploy is a
  no-op. The status write is skipped then, the pointer write is not: keeping an
  old, already kept release again makes it the live one.
- `Superseded`. A release awaiting keep or reject that is superseded "is no
  longer the live one", says the comment. Supersession happens when the next
  deployment is *created*; if that one then fails, the superseded release is
  still live, with status cancelled and no decision possible.
- `CancelClock`. The cancellation's duration is said to be final. A worker
  between its claim and its first session write overwrites the session's status,
  which un-pins it, and its end then replaces the duration.

- `LostDeferral`. A deferral that is refused is said to mean that a cancellation
  or another change of state has won. It is also refused while a deletion of the
  project is being attempted, and such an attempt gives in when it finds this very
  build in flight. The worker acknowledges its execution as if it had been
  cancelled, and the row stays "building" without lease or activity: no queue, no
  recovery and (in Cloud mode) no boot sweep looks at it again.

- `LostReply`. The objects of a run that succeeded must not be reclaimed, says the
  comment, and when the winner cannot be read, data is preserved. The row is read
  only after a refused write: when the commit of "succeeded" is not answered, the
  worker reclaims, and the newest restore point has no objects.
- `SilentFlags`. "No flags" is said to be a statement: the data is intact and the
  service is up. A restore that fails before it has looked at the service has no
  flags either, whatever it would have found.
- `CancelAnswer`. A cancellation "returns what actually happened". A restore that
  is settled between its two statements is reported as cancelled.
- `ReplicaDeath`. After the death of a worker the boot sweep owns the recovery of
  its restore. With several replicas no boot sweeps; the restore stays "applying",
  no other can be applied, and no deletion gets through.
- `DeletionWindow`. The poll of a deletion is said to be the window in which an
  applying restore notices its cancellation. A restore that has been claimed and
  has not started needs the project lock for that, which the deletion holds.
- `SlowWrite`. The mark that data is being written is said to lead the write. The
  second statement of the preparation replaces the flags without looking at the
  status; delayed past the start of the restore, it erases the mark.
- `LostMark`. When the statement of the mark fails, the restore goes on and "the
  in-memory path still holds the label for the terminal transition". A crash comes to
  no terminal transition, and that of a failure records `partialWrite`, not
  `destructive`: the data is written in part and no row says that it was begun.

What follows from keep and reject taking no lock is listed under the hazards: no
comment promises otherwise, so it is not counted as a disagreement.

`RoleHandover` met three more, which are described with the hazards and have no
run of their own:

- The wish to keep the containers of a cancelled deployment is documented as
  leaving "runtime resources exactly as they are". The rollout of roles reads it
  when it fails; the web pipeline is handed its value before it starts. A
  cancellation in the middle of a stop-first cutover therefore has the new web
  container stopped and the old one started, before the release is kept.
- A release that was kept can be discarded by deleting it, says the message that
  refuses a deploy. If its predecessor was deleted first, the recovery inside
  that deletion fails ("The previous role release is missing"), and so do every
  later deploy and every later deletion of it.
- A cancellation is looked for before an old scheduler is stopped, because
  otherwise keeping "would leave no scheduler running at all". It is looked for
  once more before the new one is started: one that arrives during the stop
  leaves none running, until the kept release is discarded.

## 6. Not modelled

Of the deployments:

- The unit swap of bare hosts; a rollback is the redeploy of a frozen snapshot, as
  with Docker.
- Containers, images, routes, host ports and service rows: in `DeploymentLifecycle`
  the outcome of a deploy phase is a choice. The retention of releases and image GC
  with them.
- Several projects: the protocol is per project.
- Validation, permissions, quotas, previews, checks and notifications around the
  requests.

Of the cloud builds:

- The loss of the admission lock's session in the middle of an admission; broken
  sessions are modelled for workers, which live long.
- The provisioning of a server during an admission, and the live probe of its
  load: both are reasons to keep waiting.
- Leases and activities of controllers older than the activity rows: `NoLegacyLease`
  is kept, but no such lease is ever made.
- More than one command of an execution at a time, and what a pre-deploy backup
  does while it runs: `Prepare` is its whole duration.
- The replacement of a failed resize by a different one, and all lifecycle
  operations but the resize.
- A lifecycle claim that stays because its release failed, or its process died
  between the two rows, is resumed by the next attempt of the same operation; the
  case in which no attempt follows is not distinguished.

Of the role handovers:

- Configuration rollouts, which reuse verified containers and preserve the web
  container, and the retirement of roles by a compose release.
- More than one replica of a role, and releases without any role.
- Routes: the route swap is part of `PassWeb`, restoring routes part of
  `CompleteUndo`, and an attempt of it that fails leaves the journal open like any other
  failed step.
- A journal write that fails, other than the commit intent that a cancellation
  refuses; a read of the host that fails differs from a lost request only in
  having no effect.
- The branch of `recoverHandover` for a release that a newer one has overtaken: a
  create is refused while a journal is pending, so no newer release exists.
- Reconciliation of a lost connection beside a handover, and disabled projects.

Of the backups and restores:

- More than one policy, source or destination. An incremental capture
  refers only to restore points of its own policy, destination and source.
- Retention by age, disabled policies, mail sources and forks, restores into another
  service or a cluster import, and the content of a manifest: the cross-check of
  artifacts is one possible reason for `VerifySource` to fail.
- Columns the database rejects with a transition other than those of `RecordArtifacts`,
  `RecordSuccess` and `RecordFlags`: no property looks at them.
- A read of `cancelRequested` that fails and is taken for "no": no property promises that
  a restore which is being applied notices its cancellation.
- An acknowledgement of the lease that fails.
- What a hook of a capture does to the service, and the heartbeats themselves: a
  sweep may come at any moment, as it does when they fail.
- A deletion that removes the rows of runs and restores with the project.

What the families do not say about each other: a project deletion that
succeeds is part of `DeploymentLifecycle` only, an attempted one of `CloudBuilds`.
The comment in the recovery that a lock it won proves the previous controller gone
is not true of a worker that outlives its session: `stale` models it, and
`OutcomeFinal` names it as the one exception.

The components listed as `not_modelled` in `PROJECT.json` carry their reasons
there: some are next in the plan below, the others are calls to external
services, user interfaces, or hold no state of their own over what is modelled.

## 7. Plan

1. Role handover: configuration rollouts with reused containers and several replicas.
2. Host port claims and routes of the runtime deploy pipeline, and an abstract "at least one instance serves".
3. Retention and image GC against concurrent deploys and restores: what a restore
   needs is not pruned.
4. Backups: several policies on one destination; `NothingLeaked` up to what refused
   deletes, unreadable winners, lost columns and deaths left, object by object.
5. Jobs, the webhook inbox and the Actions gate: claims,
   stale sweeps and at-least-once deliveries.
6. Keep in the theorems of `ReleaseProofs`: what still holds of numbers and pointer
   when at most one keep is under way.

Each new one gets a module, an instance, an abstract specification where it promises one
to others (role, artifact, inbox), and its invariant proved once TLC agrees.
