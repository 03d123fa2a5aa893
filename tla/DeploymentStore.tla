--------------------------- MODULE DeploymentStore ---------------------------
(***************************************************************************)
(* The durable state of one project and its deployments: the rows of the  *)
(* deployment, build_session and project tables, and the transactions the *)
(* repositories of packages/db run on them. Every operator below that     *)
(* primes a variable is one transaction (or one single-statement update), *)
(* so it is atomic; the handlers and workers that call them, and all the  *)
(* interleavings between the calls, are in DeploymentLifecycle.           *)
(*                                                                         *)
(* A deployment is its position in creation order, so d < e says that the *)
(* row of d has the older createdAt. Columns that no property tells apart *)
(* (logs, images, urls, timestamps, service rows) are left out.           *)
(***************************************************************************)
EXTENDS Integers, FiniteSets

CONSTANTS
  MaxDeployments,   \* how many deployment rows a behaviour may create
  Commits,          \* the commits a deployment may ship
  NoCommit          \* commit_sha IS NULL: a deployment of a released image

ASSUME DeploymentsAssumption == MaxDeployments \in Nat \ {0}
ASSUME CommitsAssumption == NoCommit \notin Commits

Deployments == 1 .. MaxDeployments
NoDeployment == 0
DeploymentOrNone == 0 .. MaxDeployments

Revisions == Commits \cup {NoCommit}

InFlightStatuses == {"queued", "building", "deploying"}

ShippedStatuses == {"ready", "partial_failure"}

(***************************************************************************)
(* "failed" stands for failed and action_required, which no transition    *)
(* modelled here tells apart; "unborn" and "deleted" are the absence of a *)
(* row before its insert and after its delete.                            *)
(***************************************************************************)
Statuses == InFlightStatuses \cup ShippedStatuses \cup
  {"unborn", "deleted", "failed", "cancelled", "reconciling", "no_changes", "rejected"}

(* meta.composeDeployment.decision *)
Decisions == {"none", "pending", "kept", "rejected", "superseded"}

(***************************************************************************)
(* The pair (started_at, finished_at) of the build session: the durable   *)
(* execution lease. "held" is started and not finished; "closed" is       *)
(* finished without ever having started; "none" is no session row.        *)
(***************************************************************************)
Leases == {"none", "unclaimed", "held", "finished", "closed"}

Sessions == {"none", "queued", "building", "ready", "failed", "cancelled"}

(* Who wrote duration_ms: the cancellation that pinned it, or the worker. *)
Durations == {"none", "cancellation", "worker"}

Cleanups == {"none", "running", "failed"}

VARIABLES
  status,      \* deployment.status
  commit,      \* deployment.commit_sha
  version,     \* deployment.version, 0 when NULL
  decision,    \* deployment.meta.composeDeployment.decision
  previous,    \* deployment.meta.previousActiveDeploymentId
  lease,       \* build_session.started_at / finished_at
  session,     \* build_session.status
  duration,    \* build_session.duration_ms
  exists,      \* the project row has not been deleted
  deleting,    \* project.deletion_in_progress
  cleanup,     \* project.lifecycle_operation of kind "delete"
  active       \* project.active_deployment_id

rowVars == <<status, commit, version, decision, previous>>
sessionVars == <<lease, session, duration>>
projectVars == <<exists, deleting, cleanup, active>>
storeVars == <<rowVars, sessionVars, projectVars>>

StoreTypeOK ==
  /\ status \in [Deployments -> Statuses]
  /\ commit \in [Deployments -> Revisions]
  /\ version \in [Deployments -> Nat]
  /\ decision \in [Deployments -> Decisions]
  /\ previous \in [Deployments -> DeploymentOrNone]
  /\ lease \in [Deployments -> Leases]
  /\ session \in [Deployments -> Sessions]
  /\ duration \in [Deployments -> Durations]
  /\ exists \in BOOLEAN
  /\ deleting \in BOOLEAN
  /\ cleanup \in Cleanups
  /\ active \in DeploymentOrNone

(* A new project: no deployment yet, nothing live. *)
StoreInit ==
  /\ status = [d \in Deployments |-> "unborn"]
  /\ commit = [d \in Deployments |-> NoCommit]
  /\ version = [d \in Deployments |-> 0]
  /\ decision = [d \in Deployments |-> "none"]
  /\ previous = [d \in Deployments |-> NoDeployment]
  /\ lease = [d \in Deployments |-> "none"]
  /\ session = [d \in Deployments |-> "none"]
  /\ duration = [d \in Deployments |-> "none"]
  /\ exists = TRUE
  /\ deleting = FALSE
  /\ cleanup = "none"
  /\ active = NoDeployment

-----------------------------------------------------------------------------
(* What the queries read. *)

RowExists(d) == status[d] \notin {"unborn", "deleted"}

InFlight(d) == status[d] \in InFlightStatuses

LeaseHeld(d) == lease[d] = "held"

(* Mutant of Listed: a cancelled row whose worker unwinds is not listed. *)
ListedByStatus(d) == InFlight(d)

(* listInFlightByProject, one row at a time. *)
Listed(d) == InFlight(d) \/ LeaseHeld(d)

Quiescent == \A d \in Deployments : ~Listed(d)

(* Mutant of Admitting: the deletion fence is not read. *)
AdmittingBehindFence == exists

(* The row predicate of withProjectWorkAdmission. *)
Admitting == exists /\ ~deleting

(* assertProjectConfigurationWritable *)
ConfigurationWritable == ~(exists /\ deleting /\ cleanup # "none")

(* findActiveDeployment: the pointer has no foreign key, so it is resolved. *)
ActiveRow == IF active \in Deployments /\ RowExists(active) THEN active ELSE NoDeployment

Versions(S) == {version[d] : d \in S}

(* MAX(version) + 1 over the shipped rows; unnumbered releases count as 0. *)
NextReadyVersion ==
  LET taken == Versions({d \in Deployments : status[d] \in ShippedStatuses}) \cup {0}
  IN  1 + CHOOSE m \in taken : \A v \in taken : v <= m

(* Mutant of ReadyVersionOfCommit: image releases share a number too. *)
ReadyVersionOfSameRevision(k) ==
  LET taken == Versions({d \in Deployments : /\ commit[d] = k
                                             /\ status[d] \in ShippedStatuses}) \cup {0}
  IN  CHOOSE m \in taken : \A v \in taken : v <= m

(* The number a shipped release of this commit already carries, else 0. *)
ReadyVersionOfCommit(k) ==
  LET taken == Versions({d \in Deployments : /\ k # NoCommit
                                             /\ commit[d] = k
                                             /\ status[d] \in ShippedStatuses}) \cup {0}
  IN  CHOOSE m \in taken : \A v \in taken : v <= m

(* readReleaseVersion: one number per commit, the next one for a new commit. *)
ReleaseVersion(d) ==
  IF ReadyVersionOfCommit(commit[d]) # 0
    THEN ReadyVersionOfCommit(commit[d])
    ELSE NextReadyVersion

-----------------------------------------------------------------------------
(* Transactions on the deployment and build_session tables. *)

(* Mutant of MayCreate: the unwinding worker is not looked for. *)
MayCreateBesideWorker ==
  /\ Admitting
  /\ ~ \E d \in Deployments : InFlight(d)

(***************************************************************************)
(* The checks of create, after its project row lock: the admission fence, *)
(* the lease of a cancelled worker that is still unwinding, and the       *)
(* partial unique index on the in-flight statuses.                        *)
(***************************************************************************)
MayCreate ==
  /\ Admitting
  /\ ~ \E d \in Deployments : LeaseHeld(d)
  /\ ~ \E d \in Deployments : InFlight(d)

(* d is the next row: every earlier id has been used. *)
NextRow(d) ==
  /\ status[d] = "unborn"
  /\ \A e \in Deployments : e < d => status[e] # "unborn"

CreateDeployment(d, revision, was, held) ==
  /\ MayCreate
  /\ NextRow(d)
  /\ status' = [status EXCEPT ![d] = "queued"]
  /\ commit' = [commit EXCEPT ![d] = revision]
  /\ previous' = [previous EXCEPT ![d] = was]
  /\ decision' = [decision EXCEPT ![d] = held]
  /\ UNCHANGED <<version, sessionVars, projectVars>>

CreateBuildSession(d) ==
  /\ lease' = [lease EXCEPT ![d] = "unclaimed"]
  /\ session' = [session EXCEPT ![d] = "queued"]
  /\ UNCHANGED <<duration, rowVars, projectVars>>

(* Mutant of Claimable: only the session is looked at. *)
ClaimableBySession(d) == lease[d] = "unclaimed"

(* claimBuildExecution, the case in which the caller launches the worker. *)
Claimable(d) ==
  /\ lease[d] = "unclaimed"
  /\ status[d] \in {"queued", "building"}

ClaimBuildExecution(d) ==
  /\ Admitting
  /\ Claimable(d)
  /\ status' = [status EXCEPT ![d] = "building"]
  /\ lease' = [lease EXCEPT ![d] = "held"]
  /\ session' = [session EXCEPT ![d] = "building"]
  /\ UNCHANGED <<commit, version, decision, previous, duration, projectVars>>

(* Session and row together: a row that is no longer queued rolls back. *)
CancelUnclaimedBuild(d) ==
  /\ lease[d] = "unclaimed"
  /\ status[d] = "queued"
  /\ status' = [status EXCEPT ![d] = "cancelled"]
  /\ lease' = [lease EXCEPT ![d] = "closed"]
  /\ session' = [session EXCEPT ![d] = "cancelled"]
  /\ UNCHANGED <<commit, version, decision, previous, duration, projectVars>>

(* recordCancellation: the outcome and its clock, in one transaction. *)
RecordCancellation(d) ==
  /\ status' = [status EXCEPT ![d] = "cancelled"]
  /\ session' = [session EXCEPT ![d] = IF lease[d] = "none" THEN @ ELSE "cancelled"]
  /\ duration' = [duration EXCEPT ![d] =
                     IF lease[d] # "none" /\ @ = "none" THEN "cancellation" ELSE @]
  /\ UNCHANGED <<commit, version, decision, previous, lease, projectVars>>

(* Mutant of Writable: no outcome is pinned. *)
WritableAlways(d) == status[d] \notin {"unborn", "deleted"}

(* The WHERE clause of updateStatus: cancelled is the one pinned outcome. *)
Writable(d) == status[d] \notin {"cancelled", "unborn", "deleted"}

SetStatus(d, s) == [status EXCEPT ![d] = IF Writable(d) THEN s ELSE @]

(* updateStatus without any other column, for a status but cancelled. *)
UpdateStatus(d, s) ==
  /\ status' = SetStatus(d, s)
  /\ UNCHANGED <<commit, version, decision, previous, sessionVars, projectVars>>

(* updateStatus together with the compose decision in meta. *)
UpdateStatusAndDecision(d, s, choice) ==
  /\ status' = SetStatus(d, s)
  /\ decision' = [decision EXCEPT ![d] = IF Writable(d) THEN choice ELSE @]
  /\ UNCHANGED <<commit, version, previous, sessionVars, projectVars>>

(* The "ready" write of onSuccess: outcome, number and meta in one update. *)
RecordReady(d, number, choice) ==
  /\ status' = SetStatus(d, "ready")
  /\ version' = [version EXCEPT ![d] = IF Writable(d) /\ number # 0 THEN number ELSE @]
  /\ decision' = [decision EXCEPT ![d] = IF Writable(d) THEN choice ELSE @]
  /\ UNCHANGED <<commit, previous, sessionVars, projectVars>>

(* Every other release of the project still awaiting keep or reject. *)
AwaitingDecision(e, d) == e # d /\ RowExists(e) /\ decision[e] = "pending"

(* Mutant of SupersedePendingDecisions: older decisions stay open. *)
SupersedeNoDecision(d) == d \in Deployments /\ UNCHANGED storeVars

SupersedePendingDecisions(d) ==
  /\ status' = [e \in Deployments |-> IF AwaitingDecision(e, d) THEN "cancelled" ELSE status[e]]
  /\ decision' = [e \in Deployments |-> IF AwaitingDecision(e, d) THEN "superseded" ELSE decision[e]]
  /\ UNCHANGED <<commit, version, previous, sessionVars, projectVars>>

(* Mutant of SupersedeReconciling: older reconciling rows stay open. *)
SupersedeNoReconciling(d) == d \in Deployments /\ UNCHANGED storeVars

SupersedeReconciling(d) ==
  /\ status' = [e \in Deployments |->
                   IF e # d /\ status[e] = "reconciling" THEN "failed" ELSE status[e]]
  /\ UNCHANGED <<commit, version, decision, previous, sessionVars, projectVars>>

(* updateBuildSession with a status: an unconditional UPDATE. *)
UpdateBuildSession(d, s) ==
  /\ session' = [session EXCEPT ![d] = IF lease[d] = "none" THEN @ ELSE s]
  /\ UNCHANGED <<lease, duration, rowVars, projectVars>>

(* finishBuildSession: a session pinned as cancelled keeps status and clock. *)
FinishBuildSession(d, s) ==
  /\ session' = [session EXCEPT ![d] = IF lease[d] = "none" THEN @ ELSE
                                       IF @ = "cancelled" THEN @ ELSE s]
  /\ duration' = [duration EXCEPT ![d] = IF lease[d] = "none" THEN @ ELSE
                                         IF session[d] = "cancelled" THEN @ ELSE "worker"]
  /\ UNCHANGED <<lease, rowVars, projectVars>>

AcknowledgeBuildExecutionFinished(d) ==
  /\ lease' = [lease EXCEPT ![d] = IF @ = "held" THEN "finished" ELSE @]
  /\ UNCHANGED <<session, duration, rowVars, projectVars>>

AcknowledgeUnstartedBuildSession(d) ==
  /\ lease' = [lease EXCEPT ![d] = IF @ = "unclaimed" THEN "closed" ELSE @]
  /\ UNCHANGED <<session, duration, rowVars, projectVars>>

(* deleteDeployment refuses a live lease, under the session's row lock. *)
DeleteDeployment(d) ==
  /\ ConfigurationWritable
  /\ ~LeaseHeld(d)
  /\ status' = [status EXCEPT ![d] = "deleted"]
  /\ lease' = [lease EXCEPT ![d] = "none"]
  /\ session' = [session EXCEPT ![d] = "none"]
  /\ duration' = [duration EXCEPT ![d] = "none"]
  /\ UNCHANGED <<commit, version, decision, previous, projectVars>>

-----------------------------------------------------------------------------
(* The three statements of sweepStaleInFlight, which share no transaction. *)

(* Mutant of SweepDeployments: the deploy phase is not swept. *)
SweepBuilds ==
  /\ status' = [d \in Deployments |->
                   IF status[d] \in {"queued", "building"} THEN "cancelled" ELSE status[d]]
  /\ UNCHANGED <<commit, version, decision, previous, sessionVars, projectVars>>

SweepDeployments ==
  /\ status' = [d \in Deployments |-> IF InFlight(d) THEN "cancelled" ELSE status[d]]
  /\ UNCHANGED <<commit, version, decision, previous, sessionVars, projectVars>>

SweepSessions(swept) ==
  LET open(d) == d \in swept /\ lease[d] \in {"unclaimed", "held"} IN
  /\ session' = [d \in Deployments |-> IF open(d) THEN "cancelled" ELSE session[d]]
  /\ lease' = [d \in Deployments |->
                  IF ~open(d) THEN lease[d] ELSE
                  IF LeaseHeld(d) THEN "finished" ELSE "closed"]
  /\ UNCHANGED <<duration, rowVars, projectVars>>

(* Mutant of SweepLeases: only the sessions of swept rows are closed. *)
SweepNoLease == UNCHANGED storeVars

SweepLeases ==
  /\ lease' = [d \in Deployments |-> IF LeaseHeld(d) THEN "finished" ELSE lease[d]]
  /\ UNCHANGED <<session, duration, rowVars, projectVars>>

-----------------------------------------------------------------------------
(* Transactions on the project row. *)

(* setActiveDeployment; it throws unless ConfigurationWritable. *)
SetActiveDeployment(d) ==
  /\ ConfigurationWritable
  /\ active' = IF exists THEN d ELSE active
  /\ UNCHANGED <<exists, deleting, cleanup, rowVars, sessionVars>>

ClaimDeletion ==
  /\ exists
  /\ deleting' = TRUE
  /\ UNCHANGED <<exists, cleanup, active, rowVars, sessionVars>>

ClearDeletionInProgress ==
  /\ deleting' = IF exists THEN FALSE ELSE deleting
  /\ cleanup' = IF exists THEN "none" ELSE cleanup
  /\ UNCHANGED <<exists, active, rowVars, sessionVars>>

BeginDeletionCleanup ==
  /\ exists
  /\ deleting
  /\ cleanup' = "running"
  /\ UNCHANGED <<exists, deleting, active, rowVars, sessionVars>>

MarkDeletionFailed ==
  /\ deleting' = (exists \/ deleting)
  /\ cleanup' = IF exists THEN "failed" ELSE cleanup
  /\ UNCHANGED <<exists, active, rowVars, sessionVars>>

(* deleteHard: the foreign keys cascade to deployment and build_session. *)
DeleteHard ==
  /\ exists' = FALSE
  /\ status' = [d \in Deployments |-> IF RowExists(d) THEN "deleted" ELSE status[d]]
  /\ lease' = [d \in Deployments |-> "none"]
  /\ session' = [d \in Deployments |-> "none"]
  /\ duration' = [d \in Deployments |-> "none"]
  /\ UNCHANGED <<commit, version, decision, previous, deleting, cleanup, active>>

=============================================================================
