----------------------------- MODULE CloudBuilds -----------------------------
(***************************************************************************)
(* The processes that share one managed server between Cloud builds, on    *)
(* the rows of CloudBuildStore:                                             *)
(*   - the admission of a queued build (admitCloudBuild), by a request or   *)
(*     by the sweep of any replica, under the admission lock of the         *)
(*     workspace;                                                           *)
(*   - the worker of a build (kickoffBuildNow), under its execution lock    *)
(*     and, for its host work, the build lock of its project;               *)
(*   - the recovery sweep (recoverCloudBuildQueue), which must win both     *)
(*     locks before it touches an execution somebody left behind;           *)
(*   - the operator that resizes the server (processWorkspaceOperation).    *)
(*                                                                          *)
(* A step ends where the code awaits something another process can see. A  *)
(* process that dies gives up its locks and nothing else: rows, claims and *)
(* the commands it has already sent to the host live on. Of an execution's *)
(* commands one at a time is modelled, any number one after the other.     *)
(***************************************************************************)
EXTENDS CloudBuildStore

CONSTANTS
  Cancellable,    \* the builds a user may cancel
  TornDown,       \* the projects whose deletion may be attempted and refused
  MaxFaults,      \* bound on processes that die, give up or lose their locks
  LocksMayBreak   \* a worker may outlive the session that holds its locks

ASSUME RequestsAssumption == Cancellable \subseteq Builds /\ TornDown \subseteq Projects
ASSUME FaultsAssumption == MaxFaults \in Nat /\ LocksMayBreak \in BOOLEAN

AdmissionSteps == {"idle", "reading", "admitting", "unavailable"}

WorkerSteps == {"none", "waiting", "preparing", "locking", "claiming", "claimed",
  "running", "verifying", "deferring", "settling", "acking", "leaving"}

RecoverySteps == {"none", "locked", "unowned", "draining", "cleaning", "acking"}

OperatorSteps == {"idle", "claimed", "resizing", "resized", "recorded", "releasing"}

(* A command: not asked of the host, asked and not created yet, running. *)
Commands == {"none", "sent", "running"}

VARIABLES
  admission,   \* where the admission of each build is
  rejecting,   \* builds whose admission failed for good, not recorded yet
  worker,      \* where the worker of each build is
  stale,       \* the worker lives, its lock session does not
  unwinding,   \* a deferred worker that still holds the execution lock
  recovery,    \* where the recovery of each build is
  operator,    \* where the lifecycle operator of the workspace is
  command,     \* the command of each build on the host
  host,        \* the size the server really has
  faults

processVars == <<admission, rejecting, worker, stale, unwinding, recovery, operator>>
hostVars == <<command, host>>
vars == <<storeVars, processVars, hostVars, faults>>

TypeOK ==
  /\ StoreTypeOK
  /\ admission \in [Builds -> AdmissionSteps]
  /\ rejecting \in SUBSET Builds
  /\ worker \in [Builds -> WorkerSteps]
  /\ stale \in [Builds -> BOOLEAN]
  /\ unwinding \in [Builds -> BOOLEAN]
  /\ recovery \in [Builds -> RecoverySteps]
  /\ operator \in OperatorSteps
  /\ command \in [Builds -> Commands]
  /\ host \in Capacities
  /\ faults \in 0 .. MaxFaults

Init ==
  /\ StoreInit
  /\ admission = [b \in Builds |-> "idle"]
  /\ rejecting = {}
  /\ worker = [b \in Builds |-> "none"]
  /\ stale = [b \in Builds |-> FALSE]
  /\ unwinding = [b \in Builds |-> FALSE]
  /\ recovery = [b \in Builds |-> "none"]
  /\ operator = "idle"
  /\ command = [b \in Builds |-> "none"]
  /\ host = capacity
  /\ faults = 0

-----------------------------------------------------------------------------
(* Locks. *)

Admitting == {b \in Builds : admission[b] # "idle"}

(* Mutant of AdmissionFree: two replicas admit at the same time. *)
AdmissionFreeFor(b) == admission[b] = "idle"

(* cloud:build-admission of the workspace *)
AdmissionFree(b) == Admitting = {} /\ admission[b] = "idle"

Recovering(b) == recovery[b] \in {"locked", "unowned", "draining", "cleaning"}

HoldsExecution(b) == worker[b] \notin {"none", "waiting"} /\ ~stale[b]

(* The execution lock of one deployment. *)
ExecutionFree(b) == ~unwinding[b] /\ ~HoldsExecution(b) /\ ~Recovering(b)

InProjectSection(b) ==
  \/ worker[b] \in {"claiming", "claimed", "running", "verifying"} /\ ~stale[b]
  \/ Recovering(b)

(* cloud:build-project *)
ProjectFree(p) == \A b \in Builds : Project[b] = p => ~InProjectSection(b)

WorkerAt(b, from, to) ==
  /\ worker[b] = from
  /\ worker' = [worker EXCEPT ![b] = to]

RecoveryAt(b, from, to) ==
  /\ recovery[b] = from
  /\ recovery' = [recovery EXCEPT ![b] = to]

AdmissionAt(b, from, to) ==
  /\ admission[b] = from
  /\ admission' = [admission EXCEPT ![b] = to]

WorkerOnly == UNCHANGED <<admission, rejecting, stale, unwinding, recovery, operator,
                          hostVars, faults>>

RecoveryOnly == UNCHANGED <<admission, rejecting, worker, stale, unwinding, operator,
                            hostVars, faults>>

AdmissionOnly == UNCHANGED <<worker, stale, unwinding, recovery, operator, hostVars, faults>>

-----------------------------------------------------------------------------
(* Requests: submitting a draft, cancelling, a deletion that is refused. *)

Submit(b) ==
  /\ \A c \in Builds : c < b => status[c] # "draft"
  /\ RequestCloudBuild(b)
  /\ UNCHANGED <<processVars, hostVars, faults>>

Cancel(b) ==
  /\ b \in Cancellable
  /\ RecordCancellation(b)
  /\ UNCHANGED <<processVars, hostVars, faults>>

CloseCancelled(b) ==
  /\ AcknowledgeUnstarted(b)
  /\ UNCHANGED <<processVars, hostVars, faults>>

(***************************************************************************)
(* A graceful teardown fences its project and, when it finds work in       *)
(* flight, clears the fence again. A deletion that goes through is left to *)
(* DeploymentLifecycle.                                                    *)
(***************************************************************************)
AttemptDeletion(p) ==
  /\ p \in TornDown
  /\ SetDeletionInProgress(p, ~fenced[p])
  /\ UNCHANGED <<processVars, hostVars, faults>>

-----------------------------------------------------------------------------
(* Admission. *)

EnterAdmission(b) ==
  /\ AdmissionFree(b)
  /\ status[b] = "queued"
  /\ admission' = [admission EXCEPT ![b] = "reading"]
  /\ UNCHANGED rejecting
  /\ AdmissionOnly
  /\ UNCHANGED storeVars

(* Mutant of PreparationIsolated: only this build's own backups are asked for. *)
OwnPreparationIsolated(b) ==
  b \in Backed => \A c \in Builds : ~Unfinished(c)

(* Pre-deploy backups want the server alone until their build is done. *)
PreparationIsolated(b) ==
  \A c \in Builds : Unfinished(c) => b \notin Backed /\ c \notin Backed

(* Mutant of SlotFree: the limit is compared the wrong way round. *)
SlotFreeInclusive(b) == Sized(b) => Cardinality(Slots) <= Limit

SlotFree(b) == Sized(b) => Cardinality(Slots) < Limit

(* listRequestedCloudBuilds(workspace, 1) returned this build or nothing. *)
FirstWaiting(b) ==
  Sized(b) => \A c \in Builds : Waiting(c) => c = b \/ (Waiting(b) /\ b < c)

NoLegacyLease == \A c \in Builds : ~(lease[c] = "held" /\ owner[c] = "absent")

InTurn(b) == PreparationIsolated(b) /\ NoLegacyLease /\ SlotFree(b) /\ FirstWaiting(b)

(* decideCloudBuildResources: "impossible", whatever else is going on. *)
Impossible(b) == Sized(b) /\ Demand[b] > capacity

(* decideCloudBuildResources: no pressure from what is reserved already. *)
Admissible(b) ==
  Sized(b) /\ Demand[b] > 0 => Demand[b] + Load(Slots) <= capacity

(***************************************************************************)
(* The reads of one admission. Under its lock nobody else reserves, so the *)
(* slots it counts one after the other can only be given back meanwhile;   *)
(* the capacity can change before Dispatch.                                *)
(***************************************************************************)
FindRoom(b) ==
  /\ InTurn(b) /\ ~Impossible(b) /\ Admissible(b)
  /\ AdmissionAt(b, "reading", "admitting")
  /\ UNCHANGED rejecting
  /\ AdmissionOnly
  /\ UNCHANGED storeVars

(* Any wait: a turn, a slot, live pressure on the host, an unready server. *)
KeepWaiting(b) ==
  /\ AdmissionAt(b, "reading", "idle")
  /\ UNCHANGED rejecting
  /\ AdmissionOnly
  /\ UNCHANGED storeVars

(* A permanent error leaves the lock before the sweep records it. *)
Refuse(b) ==
  /\ InTurn(b) /\ Impossible(b)
  /\ AdmissionAt(b, "reading", "idle")
  /\ rejecting' = rejecting \cup {b}
  /\ AdmissionOnly
  /\ UNCHANGED storeVars

RecordRejection(b) ==
  /\ b \in rejecting
  /\ rejecting' = rejecting \ {b}
  /\ CloseUnclaimed(b, "failed")
  /\ UNCHANGED admission
  /\ AdmissionOnly

(* claimBuildExecution said "claimed": a detached worker starts. *)
Dispatch(b) ==
  /\ AdmissionAt(b, "admitting", "idle")
  /\ ClaimBuildExecution(b)
  /\ worker' = [worker EXCEPT ![b] = "waiting"]
  /\ stale' = [stale EXCEPT ![b] = FALSE]
  /\ UNCHANGED <<rejecting, unwinding, recovery, operator, hostVars, faults>>

(* "project_unavailable" *)
FindProjectClosing(b) ==
  /\ fenced[Project[b]]
  /\ AdmissionAt(b, "admitting", "unavailable")
  /\ UNCHANGED rejecting
  /\ AdmissionOnly
  /\ UNCHANGED storeVars

(* "state_changed", or a server operation that came first. *)
LoseDispatch(b) ==
  /\ ~fenced[Project[b]]
  /\ ~(Claimable(b) /\ Unobstructed /\ owner[b] # "finished")
  /\ AdmissionAt(b, "admitting", "idle")
  /\ UNCHANGED rejecting
  /\ AdmissionOnly
  /\ UNCHANGED storeVars

CancelUnavailable(b) ==
  /\ AdmissionAt(b, "unavailable", "idle")
  /\ CloseUnclaimed(b, "cancelled")
  /\ UNCHANGED rejecting
  /\ AdmissionOnly

-----------------------------------------------------------------------------
(* The worker of a build. *)

(* The execution lock comes first, then the row is read again. *)
AcquireExecution(b) ==
  /\ ExecutionFree(b)
  /\ WorkerAt(b, "waiting", IF status[b] = "building" THEN "preparing" ELSE "acking")
  /\ WorkerOnly
  /\ UNCHANGED storeVars

(* firePreDeployBackups needs the server alone, for a moment or for hours. *)
Prepare(b) ==
  /\ b \in Backed =>
       operator = "idle" /\ NoBuildActive /\ claim = "none" /\ operation = "none"
  /\ WorkerAt(b, "preparing", "locking")
  /\ WorkerOnly
  /\ UNCHANGED storeVars

(* A refused or failed backup, a cancelled signal, no session to log to. *)
FailPreparation(b) ==
  /\ WorkerAt(b, "preparing", "settling")
  /\ WorkerOnly
  /\ UNCHANGED storeVars

LockProject(b) ==
  /\ ProjectFree(Project[b])
  /\ WorkerAt(b, "locking", "claiming")
  /\ WorkerOnly
  /\ UNCHANGED storeVars

Activate(b) ==
  /\ WorkerAt(b, "claiming", "claimed")
  /\ ClaimActivity(b)
  /\ WorkerOnly

(* A refusal for load; both refusals leave the project lock. *)
RefuseForNow(b) ==
  /\ Deferring(b)
  /\ WorkerAt(b, "claiming", "deferring")
  /\ WorkerOnly
  /\ UNCHANGED storeVars

(* BUILD_OWNERSHIP_MISMATCH or CLOUD_BUILD_ACTIVITY_CHANGED *)
RefuseForGood(b) ==
  /\ Unobstructed /\ ~Deferring(b)
  /\ fenced[Project[b]] \/ owner[b] # "reserved"
  /\ WorkerAt(b, "claiming", "settling")
  /\ WorkerOnly
  /\ UNCHANGED storeVars

(* The old worker keeps the execution lock until it has unregistered. *)
Defer(b) ==
  /\ WorkerAt(b, "deferring", "none")
  /\ DeferUnactivatedCloudBuild(b)
  /\ unwinding' = [unwinding EXCEPT ![b] = ~stale[b]]
  /\ stale' = [stale EXCEPT ![b] = FALSE]
  /\ UNCHANGED <<admission, rejecting, recovery, operator, hostVars, faults>>

(* deferred = false: acknowledge as if cancellation had won. *)
CannotDefer(b) ==
  /\ ~Deferrable(b)
  /\ WorkerAt(b, "deferring", "acking")
  /\ WorkerOnly
  /\ UNCHANGED storeVars

Unwound(b) ==
  /\ unwinding[b]
  /\ unwinding' = [unwinding EXCEPT ![b] = FALSE]
  /\ UNCHANGED <<storeVars, admission, rejecting, worker, stale, recovery, operator,
                 hostVars, faults>>

(* Mutant of WorkFor: the row is not read again after the activation. *)
WorkForAll(b) == IF b \in Builds THEN "running" ELSE "verifying"

(* A row that cancellation or recovery settled meanwhile has no work left. *)
WorkFor(b) == IF status[b] = "building" THEN "running" ELSE "verifying"

Recheck(b) ==
  /\ WorkerAt(b, "claimed", WorkFor(b))
  /\ WorkerOnly
  /\ UNCHANGED storeVars

(* onSuccess or onFailure, or an error before either is armed. *)
EndWork(b) ==
  /\ WorkerAt(b, "running", "verifying")
  /\ \/ ~ledger[b] /\ RecordOutcome(b, "ready")
     \/ RecordOutcome(b, "failed")
     \/ UNCHANGED storeVars
  /\ WorkerOnly

GiveSlotBack(b) ==
  /\ worker[b] = "running"
  /\ ReleaseSlot(b, "worker")
  /\ UNCHANGED <<processVars, hostVars, faults>>

(* verifyCloudBuildWorkerStopped, then finish. *)
FinishWork(b) ==
  /\ WorkerAt(b, "verifying", "settling")
  /\ FinishActivity(b, "worker")
  /\ WorkerOnly

(* An unconfirmed command or a lost token: the activity is left to recovery. *)
CannotFinish(b) ==
  /\ ~Finishable(b, "worker")
  /\ WorkerAt(b, "verifying", "settling")
  /\ WorkerOnly
  /\ UNCHANGED storeVars

(* markDeploymentFailedFromOutside, which a settled row passes through. *)
SettleOutside(b) ==
  /\ WorkerAt(b, "settling", "acking")
  /\ FailInFlight(b)
  /\ WorkerOnly
  /\ UNCHANGED <<lease, activityVars, fenced, workspaceVars>>

(* completeDeploymentExecution *)
AcknowledgeExecution(b) ==
  /\ WorkerAt(b, "acking", "leaving")
  /\ AcknowledgeFinished(b)
  /\ WorkerOnly

(* The reservation of a worker that never activated it, then the lock. *)
Leave(b) ==
  /\ WorkerAt(b, "leaving", "none")
  /\ CancelReservation(b)
  /\ stale' = [stale EXCEPT ![b] = FALSE]
  /\ UNCHANGED <<admission, rejecting, unwinding, recovery, operator, hostVars, faults>>

-----------------------------------------------------------------------------
(* Commands on the host, of a worker or of the recovery that replaced it. *)

(* Who may use the managed-command tracking of the activity, and as whom. *)
Acting(b, token) ==
  \/ token = "worker" /\ worker[b] = "running"
  \/ token = "recovery" /\ recovery[b] \in {"draining", "cleaning"}

Tokens == {"worker", "recovery"}

(* The identity is durable before the host is asked to create the command. *)
SendCommand(b, token) ==
  /\ Acting(b, token) /\ recovery[b] # "draining"
  /\ ~ledger[b] /\ command[b] = "none"
  /\ RecordCommand(b, token)
  /\ command' = [command EXCEPT ![b] = "sent"]
  /\ UNCHANGED <<processVars, host, faults>>

(* The request may reach the host after its sender is gone. *)
CommandStarts(b) ==
  /\ command[b] = "sent"
  /\ command' = [command EXCEPT ![b] = "running"]
  /\ UNCHANGED <<storeVars, processVars, host, faults>>

CommandEnds(b) ==
  /\ command[b] = "running"
  /\ command' = [command EXCEPT ![b] = "none"]
  /\ UNCHANGED <<storeVars, processVars, host, faults>>

(* Mutant of Stopped: no tombstone is left for a late creation request. *)
StoppedIfRunning(b) == IF command[b] = "sent" THEN "sent" ELSE "none"

(* CLOUD_EXEC_CANCEL: no process group is left and none can be created. *)
Stopped(b) == "none"

(***************************************************************************)
(* stopCommand then complete, on an exit, an abort or a recovery. The row   *)
(* loses the command only after the host confirmed that it stopped.        *)
(***************************************************************************)
StopCommand(b, token) ==
  /\ Acting(b, token)
  /\ ledger[b]
  /\ command' = [command EXCEPT ![b] = Stopped(b)]
  /\ CompleteCommand(b, token)
  /\ UNCHANGED <<processVars, host, faults>>

(* The host confirmed the stop, the process died before it said so. *)
StopUnrecorded(b, token) ==
  /\ Acting(b, token)
  /\ command[b] # "none"
  /\ command' = [command EXCEPT ![b] = Stopped(b)]
  /\ UNCHANGED <<storeVars, processVars, host, faults>>

-----------------------------------------------------------------------------
(* The recovery sweep. *)

(* Mutant of Abandoned: a live worker is not asked for its lock. *)
AbandonedByRow(b) == ~Recovering(b) /\ b \in Builds

(* Both try-locks: an execution that still has an owner is left alone. *)
Abandoned(b) == ExecutionFree(b) /\ ProjectFree(Project[b])

(* Mutant of BeginRecovery: a held lease of a finished activity is not listed. *)
BeginRecoveryOfUnfinished(b) ==
  /\ Unfinished(b)
  /\ Abandoned(b)
  /\ RecoveryAt(b, "none", "locked")
  /\ RecoveryOnly
  /\ UNCHANGED storeVars

(* listUnfinished; the 30 seconds of grace only postpone a candidate. *)
BeginRecovery(b) ==
  /\ owner[b] # "absent"
  /\ owner[b] # "finished" \/ lease[b] = "held"
  /\ Abandoned(b)
  /\ RecoveryAt(b, "none", "locked")
  /\ RecoveryOnly
  /\ UNCHANGED storeVars

(* The host work had ended: only the row and the session are missing. *)
RecoverFinished(b) ==
  /\ owner[b] = "finished"
  /\ RecoveryAt(b, "locked", "acking")
  /\ FailInFlight(b)
  /\ RecoveryOnly
  /\ UNCHANGED <<lease, activityVars, fenced, workspaceVars>>

RecoverReservation(b) ==
  /\ owner[b] = "reserved" /\ ~ledger[b]
  /\ RecoveryAt(b, "locked", "unowned")
  /\ FailInFlight(b)
  /\ RecoveryOnly
  /\ UNCHANGED <<lease, activityVars, fenced, workspaceVars>>

(* A deferral deleted the row between the listing and the locks. *)
RecoverNothing(b) ==
  /\ owner[b] = "absent"
  /\ RecoveryAt(b, "locked", "none")
  /\ RecoveryOnly
  /\ UNCHANGED storeVars

RecoverUnowned(b) ==
  /\ RecoveryAt(b, "unowned",
       IF owner[b] \in {"reserved", "finished"} THEN "acking" ELSE "none")
  /\ CancelReservation(b)
  /\ RecoveryOnly

RecoverOwned(b) ==
  /\ RecoveryAt(b, "locked", "draining")
  /\ TakeRecoveryOwnership(b)
  /\ RecoveryOnly

(* Every recorded command has been stopped: settle, then clean up. *)
BeginCleanup(b) ==
  /\ Token(b, "recovery") /\ ~ledger[b]
  /\ RecoveryAt(b, "draining", "cleaning")
  /\ FailInFlight(b)
  /\ RecoveryOnly
  /\ UNCHANGED <<lease, activityVars, fenced, workspaceVars>>

FinishRecovery(b) ==
  /\ RecoveryAt(b, "cleaning", "acking")
  /\ FinishActivity(b, "recovery")
  /\ RecoveryOnly

(* The locks are free again; the session is acknowledged last. *)
AcknowledgeRecovery(b) ==
  /\ RecoveryAt(b, "acking", "none")
  /\ AcknowledgeFinished(b)
  /\ RecoveryOnly

-----------------------------------------------------------------------------
(* The lifecycle operator: a resize of the server. *)

OperatorAt(from, to) == operator = from /\ operator' = to

OperatorOnly == UNCHANGED <<admission, rejecting, worker, stale, unwinding, recovery,
                            command, faults>>

RequestServerResize(size) ==
  /\ RequestResize(size)
  /\ UNCHANGED <<processVars, hostVars, faults>>

(* A pending operation is dispatched at once and by every sweep. *)
BeginLifecycle ==
  /\ operation \in {"queued", "running"}
  /\ OperatorAt("idle", "claimed")
  /\ ClaimLifecycle
  /\ OperatorOnly
  /\ UNCHANGED host

BeginResize ==
  /\ OperatorAt("claimed", "resizing")
  /\ UpdateOperation("running")
  /\ OperatorOnly
  /\ UNCHANGED host

(* Stop the host, change it, start it and its workloads again. *)
ResizeHost ==
  /\ OperatorAt("resizing", "resized")
  /\ host' = target
  /\ OperatorOnly
  /\ UNCHANGED storeVars

RecordResources ==
  /\ OperatorAt("resized", "recorded")
  /\ UpdateResources
  /\ OperatorOnly
  /\ UNCHANGED host

CompleteOperation ==
  /\ OperatorAt("recorded", "releasing")
  /\ UpdateOperation("none")
  /\ OperatorOnly
  /\ UNCHANGED host

(* A failed attempt is queued again, or is terminal until the user retries. *)
FailOperation ==
  /\ operator \in {"resizing", "resized", "recorded"}
  /\ operator' = "releasing"
  /\ \E next \in {"queued", "failed"} : UpdateOperation(next)
  /\ OperatorOnly
  /\ UNCHANGED host

ReleaseLifecycle ==
  /\ OperatorAt("releasing", "idle")
  /\ ReleaseActivity
  /\ OperatorOnly
  /\ UNCHANGED host

-----------------------------------------------------------------------------
(* Processes that stop. *)

CountFault == faults < MaxFaults /\ faults' = faults + 1

AdmissionCrashes(b) ==
  /\ admission[b] # "idle"
  /\ CountFault
  /\ admission' = [admission EXCEPT ![b] = "idle"]
  /\ UNCHANGED <<storeVars, rejecting, worker, stale, unwinding, recovery, operator, hostVars>>

RejectionIsLost(b) ==
  /\ b \in rejecting
  /\ CountFault
  /\ rejecting' = rejecting \ {b}
  /\ UNCHANGED <<storeVars, admission, worker, stale, unwinding, recovery, operator, hostVars>>

WorkerCrashes(b) ==
  /\ worker[b] # "none"
  /\ CountFault
  /\ worker' = [worker EXCEPT ![b] = "none"]
  /\ stale' = [stale EXCEPT ![b] = FALSE]
  /\ UNCHANGED <<storeVars, admission, rejecting, unwinding, recovery, operator, hostVars>>

(* The sweep's replica dies, or the host refuses and the locks are let go. *)
RecoveryStops(b) ==
  /\ recovery[b] # "none"
  /\ CountFault
  /\ recovery' = [recovery EXCEPT ![b] = "none"]
  /\ UNCHANGED <<storeVars, admission, rejecting, worker, stale, unwinding, operator, hostVars>>

(* The claim of the operator, and whatever it did to the host, stay. *)
OperatorStops ==
  /\ operator # "idle"
  /\ CountFault
  /\ operator' = "idle"
  /\ UNCHANGED <<storeVars, admission, rejecting, worker, stale, unwinding, recovery, hostVars>>

(* The lock session breaks; the callback it guards is not interrupted. *)
WorkerLosesLocks(b) ==
  /\ HoldsExecution(b)
  /\ LocksMayBreak
  /\ CountFault
  /\ stale' = [stale EXCEPT ![b] = TRUE]
  /\ UNCHANGED <<storeVars, admission, rejecting, worker, unwinding, recovery, operator,
                 hostVars>>

-----------------------------------------------------------------------------

Request(b) == Submit(b) \/ Cancel(b)

AdmissionStep(b) ==
  \/ FindRoom(b) \/ Refuse(b) \/ RecordRejection(b)
  \/ Dispatch(b) \/ FindProjectClosing(b) \/ LoseDispatch(b) \/ CancelUnavailable(b)

WorkerStep(b) ==
  \/ AcquireExecution(b) \/ Prepare(b) \/ LockProject(b)
  \/ Activate(b) \/ RefuseForNow(b) \/ RefuseForGood(b)
  \/ Defer(b) \/ CannotDefer(b) \/ Unwound(b)
  \/ Recheck(b) \/ EndWork(b) \/ FinishWork(b) \/ CannotFinish(b)
  \/ SettleOutside(b) \/ AcknowledgeExecution(b) \/ Leave(b)

HostStep(b) ==
  \/ CommandStarts(b) \/ CommandEnds(b)
  \/ \E token \in Tokens :
       SendCommand(b, token) \/ StopCommand(b, token) \/ StopUnrecorded(b, token)

RecoveryStep(b) ==
  \/ RecoverFinished(b) \/ RecoverReservation(b) \/ RecoverNothing(b) \/ RecoverUnowned(b)
  \/ RecoverOwned(b) \/ BeginCleanup(b) \/ FinishRecovery(b) \/ AcknowledgeRecovery(b)

OperatorStep ==
  \/ BeginLifecycle \/ BeginResize \/ ResizeHost \/ RecordResources
  \/ CompleteOperation \/ ReleaseLifecycle

Fault(b) ==
  \/ AdmissionCrashes(b) \/ RejectionIsLost(b) \/ WorkerCrashes(b) \/ RecoveryStops(b)
  \/ WorkerLosesLocks(b)

Next ==
  \/ \E b \in Builds :
       \/ Request(b) \/ CloseCancelled(b)
       \/ EnterAdmission(b) \/ AdmissionStep(b) \/ KeepWaiting(b)
       \/ WorkerStep(b) \/ FailPreparation(b) \/ GiveSlotBack(b) \/ HostStep(b)
       \/ BeginRecovery(b) \/ RecoveryStep(b)
       \/ Fault(b)
  \/ \E p \in TornDown : AttemptDeletion(p)
  \/ \E size \in Capacities : RequestServerResize(size)
  \/ OperatorStep \/ FailOperation \/ OperatorStops

Spec == Init /\ [][Next]_vars

(***************************************************************************)
(* Advisory locks queue their callers and the sweeps run every minute, so  *)
(* a process that asks for a lock again and again gets it; live pressure   *)
(* on the host does not win against a build for ever; a worker ends its    *)
(* work and a recovery its cleanup, neither sends commands for ever. Nothing *)
(* is assumed of users, of teardowns, of crashes or of retries by hand.    *)
(***************************************************************************)
Fairness ==
  /\ \A b \in Builds :
       /\ SF_vars(EnterAdmission(b))
       /\ SF_vars(FindRoom(b))
       /\ WF_vars(AdmissionStep(b) \/ KeepWaiting(b))
       /\ WF_vars(RecordRejection(b))
       /\ WF_vars(WorkerStep(b))
       /\ SF_vars(BeginRecovery(b))
       /\ WF_vars(RecoveryStep(b) \/ StopCommand(b, "recovery"))
       /\ SF_vars(FinishRecovery(b))
       /\ WF_vars(CloseCancelled(b))
  /\ WF_vars(OperatorStep)

FairSpec == Spec /\ Fairness

=============================================================================
