--------------------------- MODULE CloudBuildStore ---------------------------
(***************************************************************************)
(* The rows by which one managed server is shared between Cloud builds,   *)
(* and the transactions on them: the deployment and its build session, the *)
(* cloud_build_activity row that reserves capacity and fences host work,   *)
(* and the activity, the operation and the resources of the workspace.     *)
(* Every operator that primes a variable is one transaction; the workers,  *)
(* sweeps and operators that call them are in CloudBuilds.                 *)
(*                                                                         *)
(* A build is its position in the queue: b < c says that b was submitted   *)
(* first (meta.cloudBuildRequestedAt, which a deferral keeps). CPU and     *)
(* memory obey the same arithmetic and are one number here, what is left   *)
(* of the host after its fixed headroom.                                   *)
(***************************************************************************)
EXTENDS Integers, FiniteSets, FiniteSetsExt

CONSTANTS
  Builds,       \* the deployments of the workspace, in submission order
  Projects,
  Project,      \* the project of each build
  Demand,       \* what each source build reserves; 0 is an uncapped build
  Prebuilt,     \* the builds that deploy an image and reserve no resources
  Backed,       \* the builds whose project has a pre-deploy backup policy
  Capacities,   \* the sizes the server may have
  Limit         \* the concurrent source builds the plan allows

ASSUME BuildsAssumption == Builds \subseteq Nat /\ IsFiniteSet(Builds)
ASSUME ProjectAssumption == Project \in [Builds -> Projects]
ASSUME DemandAssumption == Demand \in [Builds -> Nat]
ASSUME PoliciesAssumption == Prebuilt \subseteq Builds /\ Backed \subseteq Builds
ASSUME CapacitiesAssumption == Capacities \subseteq Nat
ASSUME LimitAssumption == Limit \in Nat \ {0}

(* "building" stands for building and deploying; "draft" was not submitted. *)
Statuses == {"draft", "queued", "building", "ready", "failed", "cancelled"}

Leases == {"unclaimed", "held", "closed"}

(***************************************************************************)
(* (owner_token, finished_at) of the activity row: no row, a reservation   *)
(* nobody activated, the token of the worker or of its latest recovery,    *)
(* and the tombstone of a finished activity.                               *)
(***************************************************************************)
Owners == {"absent", "reserved", "worker", "recovery", "finished"}

(* cloud_workspace.activity: the barrier of the builds, or a lifecycle claim. *)
Claims == {"none", "builds", "lifecycle"}

(* cloud_workspace.operation of kind "resize"; "none" once it succeeded. *)
Operations == {"none", "queued", "running", "failed"}

VARIABLES
  status,      \* deployment.status
  lease,       \* build_session.started_at / finished_at
  owner,       \* cloud_build_activity.owner_token / finished_at
  released,    \* cloud_build_activity.slot_released_at
  ledger,      \* cloud_build_activity.commands holds an unacknowledged command
  fenced,      \* project.deletion_in_progress
  claim,       \* cloud_workspace.activity
  operation,   \* cloud_workspace.operation
  target,      \* the resources the operation asks for
  capacity     \* cloud_docker_workspace.resources

buildVars == <<status, lease>>
activityVars == <<owner, released, ledger>>
workspaceVars == <<claim, operation, target, capacity>>
storeVars == <<buildVars, activityVars, fenced, workspaceVars>>

StoreTypeOK ==
  /\ status \in [Builds -> Statuses]
  /\ lease \in [Builds -> Leases]
  /\ owner \in [Builds -> Owners]
  /\ released \in [Builds -> BOOLEAN]
  /\ ledger \in [Builds -> BOOLEAN]
  /\ fenced \in [Projects -> BOOLEAN]
  /\ claim \in Claims
  /\ operation \in Operations
  /\ target \in Capacities
  /\ capacity \in Capacities

StoreInit ==
  /\ status = [b \in Builds |-> "draft"]
  /\ lease = [b \in Builds |-> "unclaimed"]
  /\ owner = [b \in Builds |-> "absent"]
  /\ released = [b \in Builds |-> FALSE]
  /\ ledger = [b \in Builds |-> FALSE]
  /\ fenced = [p \in Projects |-> FALSE]
  /\ claim = "none"
  /\ operation = "none"
  /\ capacity \in Capacities
  /\ target = capacity

-----------------------------------------------------------------------------
(* What the queries read. *)

InFlight(b) == status[b] \in {"queued", "building"}

Owned(b) == owner[b] \in {"worker", "recovery"}

Unfinished(b) == owner[b] = "reserved" \/ Owned(b)

Owning == {b \in Builds : Owned(b)}

(* A source build reserves resources, an image deployment only a row. *)
Sized(b) == b \notin Prebuilt

(* The rows of listReservations that carry resources. *)
Slots == {b \in Builds : Sized(b) /\ Unfinished(b) /\ ~released[b]}

(* The allocations a new activation has to fit beside. *)
Allocated == {b \in Owning : Sized(b) /\ ~released[b]}

Load(S) == MapThenSumSet(LAMBDA b : Demand[b], S)

(* cloudBuildQueueCondition *)
Waiting(b) ==
  status[b] = "queued" /\ lease[b] = "unclaimed" /\ ~fenced[Project[b]]

(* Mutant of Unobstructed: a pending server operation is not waited for. *)
UnobstructedByActivity == claim # "lifecycle"

(* The workspace row admits builds: CLOUD_WORKSPACE_ACTIVITY_BUSY otherwise. *)
Unobstructed == claim # "lifecycle" /\ operation = "none"

-----------------------------------------------------------------------------
(* The transactions of the deployment repository. *)

(* createDeployment and requestCloudBuild: the draft joins the queue. *)
RequestCloudBuild(b) ==
  /\ status[b] = "draft"
  /\ status' = [status EXCEPT ![b] = "queued"]
  /\ UNCHANGED <<lease, activityVars, fenced, workspaceVars>>

(* Mutant of Claimable: the lease of another worker is not looked at. *)
ClaimableRegardless(b) == status[b] \in {"queued", "building"}

Claimable(b) == lease[b] = "unclaimed" /\ status[b] \in {"queued", "building"}

(***************************************************************************)
(* claimBuildExecution with reserveCloudBuildActivity: lease, status and   *)
(* reservation in one transaction. An unfinished row of the same build is  *)
(* taken as it is, a finished one rolls everything back.                   *)
(***************************************************************************)
ClaimBuildExecution(b) ==
  /\ ~fenced[Project[b]]
  /\ Claimable(b)
  /\ Unobstructed
  /\ owner[b] # "finished"
  /\ status' = [status EXCEPT ![b] = "building"]
  /\ lease' = [lease EXCEPT ![b] = "held"]
  /\ owner' = [owner EXCEPT ![b] = IF @ = "absent" THEN "reserved" ELSE @]
  /\ UNCHANGED <<released, ledger, fenced, workspaceVars>>

(* Mutant of Deferrable: an activated row is put back as well. *)
DeferrableRegardless(b) ==
  ~fenced[Project[b]] /\ lease[b] = "held" /\ status[b] = "building"

Deferrable(b) ==
  /\ ~fenced[Project[b]]
  /\ lease[b] = "held"
  /\ status[b] = "building"
  /\ owner[b] = "reserved"

DeferUnactivatedCloudBuild(b) ==
  /\ Deferrable(b)
  /\ status' = [status EXCEPT ![b] = "queued"]
  /\ lease' = [lease EXCEPT ![b] = "unclaimed"]
  /\ owner' = [owner EXCEPT ![b] = "absent"]
  /\ UNCHANGED <<released, ledger, fenced, workspaceVars>>

(* Mutant of Refusable: the session is not locked and looked at first. *)
RefusableByAnyone(b) == InFlight(b)

Refusable(b) == lease[b] = "unclaimed" /\ status[b] = "queued"

(* failUnclaimedCloudBuild and cancelUnclaimedBuild *)
CloseUnclaimed(b, outcome) ==
  /\ status' = [status EXCEPT ![b] = IF Refusable(b) THEN outcome ELSE @]
  /\ lease' = [lease EXCEPT ![b] = IF Refusable(b) THEN "closed" ELSE @]
  /\ UNCHANGED <<activityVars, fenced, workspaceVars>>

(* recordCancellation; the lease stays with the worker that holds it. *)
RecordCancellation(b) ==
  /\ InFlight(b)
  /\ status' = [status EXCEPT ![b] = "cancelled"]
  /\ UNCHANGED <<lease, activityVars, fenced, workspaceVars>>

(* acknowledgeUnstartedBuildSession, which every cancellation calls next. *)
AcknowledgeUnstarted(b) ==
  /\ status[b] = "cancelled"
  /\ lease[b] = "unclaimed"
  /\ lease' = [lease EXCEPT ![b] = "closed"]
  /\ UNCHANGED <<status, activityVars, fenced, workspaceVars>>

(* Mutant of FailInFlight: whatever the row says, it is failed. *)
FailAnyway(b) == status' = [status EXCEPT ![b] = "failed"]

(* updateStatus to "failed" by a caller that found the row in flight. *)
FailInFlight(b) ==
  status' = [status EXCEPT ![b] = IF InFlight(b) THEN "failed" ELSE @]

(* updateStatus by the worker: a cancelled row is the only one it pins. *)
RecordOutcome(b, outcome) ==
  /\ status' = [status EXCEPT ![b] = IF @ = "cancelled" THEN @ ELSE outcome]
  /\ UNCHANGED <<lease, activityVars, fenced, workspaceVars>>

(* acknowledgeBuildExecutionFinished *)
AcknowledgeFinished(b) ==
  /\ lease' = [lease EXCEPT ![b] = IF @ = "held" THEN "closed" ELSE @]
  /\ UNCHANGED <<status, activityVars, fenced, workspaceVars>>

-----------------------------------------------------------------------------
(* The transactions of the activity repository. *)

(* Mutant of ProjectIdle: a live lock is taken for the absence of host work. *)
ProjectIdleAlways(b) == b \in Builds

(* No other unfinished activity of the project: CLOUD_BUILD_PROJECT_BUSY. *)
ProjectIdle(b) == \A c \in Owning \ {b} : Project[c] # Project[b]

(* Mutant of Fits: the reservation of admission is trusted. *)
FitsAsReserved(b) == b \in Builds

(* Mutant of Fits: the build itself is not counted. *)
FitsBeside(b) == Sized(b) => Load(Allocated) <= capacity

(* CLOUD_WORKSPACE_BUILD_CAPACITY otherwise: the server may have shrunk. *)
Fits(b) == Sized(b) => Load(Allocated \cup {b}) <= capacity

(* The codes that withCloudBuildActivity turns into a deferral. *)
Deferring(b) ==
  \/ ~Unobstructed
  \/ ~fenced[Project[b]] /\ ~ProjectIdle(b)
  \/ ~fenced[Project[b]] /\ owner[b] = "reserved" /\ ~Fits(b)

(* claim: the reservation becomes an activity with an owner token. *)
ClaimActivity(b) ==
  /\ Unobstructed
  /\ ~fenced[Project[b]]
  /\ ProjectIdle(b)
  /\ owner[b] = "reserved"
  /\ Fits(b)
  /\ owner' = [owner EXCEPT ![b] = "worker"]
  /\ claim' = "builds"
  /\ UNCHANGED <<buildVars, released, ledger, fenced, operation, target, capacity>>

TakeRecoveryOwnership(b) ==
  /\ Owned(b)
  /\ owner' = [owner EXCEPT ![b] = "recovery"]
  /\ UNCHANGED <<buildVars, released, ledger, fenced, workspaceVars>>

(* Mutant of Token: the row is matched by its identity only. *)
TokenOfAnyone(b, token) == Owned(b) /\ token \in Owners

(* owner(): the row is unfinished and this execution still owns it. *)
Token(b, token) == owner[b] = token

RecordCommand(b, token) ==
  /\ Token(b, token)
  /\ ledger' = [ledger EXCEPT ![b] = TRUE]
  /\ UNCHANGED <<buildVars, owner, released, fenced, workspaceVars>>

CompleteCommand(b, token) ==
  /\ Token(b, token)
  /\ ledger' = [ledger EXCEPT ![b] = FALSE]
  /\ UNCHANGED <<buildVars, owner, released, fenced, workspaceVars>>

ReleaseSlot(b, token) ==
  /\ Token(b, token)
  /\ ~ledger[b]
  /\ released' = [released EXCEPT ![b] = TRUE]
  /\ UNCHANGED <<buildVars, owner, ledger, fenced, workspaceVars>>

(* Mutant of Finishable: the command ledger is not looked at. *)
FinishableRegardless(b, token) == Token(b, token)

Finishable(b, token) == Token(b, token) /\ ~ledger[b]

(* finish: the last activity to end takes the barrier of the builds down. *)
FinishActivity(b, token) ==
  /\ Finishable(b, token)
  /\ owner' = [owner EXCEPT ![b] = "finished"]
  /\ claim' = IF Owning = {b} /\ claim = "builds" THEN "none" ELSE claim
  /\ UNCHANGED <<buildVars, released, ledger, fenced, operation, target, capacity>>

(* cancelReservation: only a row nobody has activated. *)
CancelReservation(b) ==
  /\ owner' = [owner EXCEPT ![b] = IF @ = "reserved" THEN "finished" ELSE @]
  /\ released' = [released EXCEPT ![b] = @ \/ owner[b] = "reserved"]
  /\ UNCHANGED <<buildVars, ledger, fenced, workspaceVars>>

-----------------------------------------------------------------------------
(* The transactions of the workspace repository. *)

(***************************************************************************)
(* requestOperation: a new resize, or the retry of a failed one (which a   *)
(* different resize may replace while no workload has been stopped for it, *)
(* a request like the one after a success).                                *)
(***************************************************************************)
RequestResize(size) ==
  /\ \/ operation = "none" /\ size # capacity
     \/ operation = "failed" /\ size = target
  /\ operation' = "queued"
  /\ target' = size
  /\ UNCHANGED <<buildVars, activityVars, fenced, claim, capacity>>

UpdateOperation(next) ==
  /\ operation' = next
  /\ UNCHANGED <<buildVars, activityVars, fenced, claim, target, capacity>>

(* updateResources *)
UpdateResources ==
  /\ capacity' = target
  /\ UNCHANGED <<buildVars, activityVars, fenced, claim, operation, target>>

(* Mutant of NoBuildActive: the singleton activity alone is looked at. *)
BarrierDown == claim # "builds"

(* assertNoCloudBuildActivities *)
NoBuildActive == Owning = {}

(* claimActivity for lifecycle work, which may resume its own claim. *)
ClaimLifecycle ==
  /\ NoBuildActive
  /\ claim # "builds"
  /\ claim' = "lifecycle"
  /\ UNCHANGED <<buildVars, activityVars, fenced, operation, target, capacity>>

ReleaseActivity ==
  /\ claim' = "none"
  /\ UNCHANGED <<buildVars, activityVars, fenced, operation, target, capacity>>

(* claimDeletion and clearDeletionInProgress of a project's teardown. *)
SetDeletionInProgress(p, deleting) ==
  /\ fenced' = [fenced EXCEPT ![p] = deleting]
  /\ UNCHANGED <<buildVars, activityVars, workspaceVars>>

=============================================================================
