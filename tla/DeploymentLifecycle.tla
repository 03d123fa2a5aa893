------------------------- MODULE DeploymentLifecycle -------------------------
(***************************************************************************)
(* One project of a self-hosted Openship: its API requests, its detached  *)
(* build workers and the restarts of the process that runs them all, over *)
(* the rows of DeploymentStore.                                            *)
(*                                                                         *)
(* A client is one API request in progress; its record says where in its  *)
(* handler it is and what it has read so far, so a value read before an   *)
(* await can be stale when it is used. Requests that hold the project     *)
(* runtime lock do so through `holder`. A worker is the detached          *)
(* build-and-deploy of one deployment; it holds no project lock, only the *)
(* durable lease on its build session. The deployment runs a stack of     *)
(* services, so it may end partially failed; containers, images and       *)
(* routes are not part of this module.                                     *)
(***************************************************************************)
EXTENDS DeploymentStore

CONSTANTS
  Clients,            \* API requests that may be in progress at once
  NoClient,           \* nobody holds the project runtime lock
  Requests,           \* the kinds of request the clients make
  Outcomes,           \* what a deploy phase that does not fail may end in
  MaxWriteFailures,   \* bound on database writes that fail
  MaxCrashes          \* bound on process restarts

ASSUME ClientsAssumption == NoClient \notin Clients
ASSUME BoundsAssumption == MaxWriteFailures \in Nat /\ MaxCrashes \in Nat

RequestKinds == {"deploy", "rollback", "start", "cancel", "keep", "reject", "delete",
                 "reconcile", "teardown", "forced teardown"}

ASSUME RequestsAssumption == Requests \subseteq RequestKinds

DeployOutcomes == {"ready", "partial", "reconciling", "no_changes"}

ASSUME OutcomesAssumption == Outcomes \subseteq DeployOutcomes

VARIABLES
  worker,         \* where the worker of a deployment is
  result,         \* what the worker has decided to report
  number,         \* the release version the worker has read
  aborted,        \* deployments whose AbortController has been aborted
  client,         \* what each API request is doing
  holder,         \* the client that holds the project runtime lock
  reported,       \* deployments a cancel request has reported as cancelled
  api,            \* "up", or the statement of the boot sweep that runs next
  swept,          \* the rows the boot sweep's first statement returned
  writeFailures,  \* how many writes have failed
  crashes         \* how often the process has been restarted

workerVars == <<worker, result, number, aborted>>
clientVars == <<client, holder, reported>>
hostVars == <<api, swept, writeFailures, crashes>>
vars == <<storeVars, workerVars, clientVars, hostVars>>

WorkerSteps == {"off", "start", "session", "row", "build", "promote", "deploy", "version",
                "outcome", "point", "supersede", "finish", "rollup", "archive",
                "fallback", "fallbackRow", "fallbackSession", "finally"}

Results == {"none", "ready", "partial", "failed", "cancelled", "reconciling", "no_changes",
            "refused"}

CreateSteps == {"session", "undo", "reconciling", "decisions"}

DeleteSteps == {"detach", "erase"}

ReconcileSteps == {"verdict", "forward", "advance"}

TeardownSteps == {"gate", "drain", "poll", "begin", "destroy", "drop", "release", "condemn"}

CancelSteps == {"signal", "settle", "quiesce"}

ClientSteps == {"idle", "insert", "kickoff", "unclaim", "keep", "keepPointer",
                "rejectDetach", "rejectMark"}
  \cup CreateSteps \cup DeleteSteps \cup ReconcileSteps \cup TeardownSteps \cup CancelSteps

(***************************************************************************)
(* target: the deployment the current step is about; subject: the one a   *)
(* reject is about; seen: the live release this request has read; wanted  *)
(* and carried: the commit and the compose decision of the snapshot a new *)
(* deployment is created from; back: where a cancel or a restore returns; *)
(* resumed: the deletion fence was already up when a teardown read it.    *)
(***************************************************************************)
ClientRecords ==
  [step : ClientSteps, target : DeploymentOrNone, subject : DeploymentOrNone,
   seen : DeploymentOrNone, wanted : Revisions, carried : Decisions,
   back : {"idle", "rejectDetach", "poll"}, resumed : BOOLEAN]

(* The steps that are about a deployment. *)
TargetSteps == {"kickoff", "unclaim", "keep", "keepPointer"}
  \cup CreateSteps \cup DeleteSteps \cup ReconcileSteps \cup CancelSteps

ClientStates == {r \in ClientRecords : r.step \in TargetSteps => r.target \in Deployments}

IdleClient ==
  [step |-> "idle", target |-> NoDeployment, subject |-> NoDeployment,
   seen |-> NoDeployment, wanted |-> NoCommit, carried |-> "none",
   back |-> "idle", resumed |-> FALSE]

WorkerTypeOK ==
  /\ worker \in [Deployments -> WorkerSteps]
  /\ result \in [Deployments -> Results]
  /\ number \in [Deployments -> Nat]
  /\ aborted \subseteq Deployments

ClientTypeOK ==
  /\ client \in [Clients -> ClientStates]
  /\ holder \in Clients \cup {NoClient}
  /\ reported \subseteq Deployments

HostTypeOK ==
  /\ api \in {"up", "sweepDeployments", "sweepSessions", "sweepLeases"}
  /\ swept \subseteq Deployments
  /\ writeFailures \in Nat
  /\ crashes \in Nat

TypeOK == StoreTypeOK /\ WorkerTypeOK /\ ClientTypeOK /\ HostTypeOK

Init ==
  /\ StoreInit
  /\ worker = [d \in Deployments |-> "off"]
  /\ result = [d \in Deployments |-> "none"]
  /\ number = [d \in Deployments |-> 0]
  /\ aborted = {}
  /\ client = [c \in Clients |-> IdleClient]
  /\ holder = NoClient
  /\ reported = {}
  /\ api = "up"
  /\ swept = {}
  /\ writeFailures = 0
  /\ crashes = 0

-----------------------------------------------------------------------------
(* Shorthands. *)

Up == api = "up"

(* A write the database refuses: the caller's catch block runs instead. *)
WriteFails ==
  /\ writeFailures < MaxWriteFailures
  /\ writeFailures' = writeFailures + 1
  /\ UNCHANGED <<storeVars, api, swept, crashes>>

Working(d) == worker[d] # "off"

WorkerAt(d, step) == Up /\ worker[d] = step

WorkerGoes(d, step) == worker' = [worker EXCEPT ![d] = step]

WorkerDecides(d, verdict, step) ==
  /\ result' = [result EXCEPT ![d] = verdict]
  /\ WorkerGoes(d, step)

ClientAt(c, step) == Up /\ client[c].step = step

ClientTakes(c, state) == client' = [client EXCEPT ![c] = state]

ClientGoes(c, step) == ClientTakes(c, [client[c] EXCEPT !.step = step])

ClientDone(c) == ClientTakes(c, IdleClient)

(* Back to the request that called, or done when there is none. *)
ClientReturns(c) ==
  IF client[c].back = "idle"
    THEN ClientDone(c)
    ELSE ClientTakes(c, [client[c] EXCEPT !.step = client[c].back, !.back = "idle"])

MayStart(c, kind) == ClientAt(c, "idle") /\ kind \in Requests

Acquire(c) == holder = NoClient /\ holder' = c

Unlock == holder' = NoClient

-----------------------------------------------------------------------------
(* The worker: executeBuildAndDeploy, the lifecycle hooks, and the wrapper *)
(* around them in kickoffBuildNow.                                         *)

(* Setup before the try block: a throw there reaches the outer handler. *)
StartWork(d) ==
  /\ WorkerAt(d, "start")
  /\ \/ d \notin aborted /\ WorkerGoes(d, "session")
     \/ WorkerGoes(d, "fallback")
  /\ UNCHANGED <<storeVars, result, number, aborted, clientVars, hostVars>>

MarkSessionBuilding(d) ==
  /\ WorkerAt(d, "session")
  /\ WorkerGoes(d, "row")
  /\ UpdateBuildSession(d, "building")
  /\ UNCHANGED <<result, number, aborted, clientVars, hostVars>>

(* The refusal of a cancelled row is ignored here. *)
MarkRowBuilding(d) ==
  /\ WorkerAt(d, "row")
  /\ WorkerGoes(d, "build")
  /\ UpdateStatus(d, "building")
  /\ UNCHANGED <<result, number, aborted, clientVars, hostVars>>

(* The build method returns; its signal is looked at before its result. *)
Build(d) ==
  /\ WorkerAt(d, "build")
  /\ d \notin aborted
  /\ WorkerGoes(d, "promote")
  /\ UNCHANGED <<storeVars, result, number, aborted, clientVars, hostVars>>

(* Admission to the deploy phase races cancellation on the row. *)
Promote(d) ==
  /\ WorkerAt(d, "promote")
  /\ UpdateStatus(d, "deploying")
  /\ IF Writable(d)
       THEN WorkerGoes(d, "deploy") /\ UNCHANGED result
       ELSE WorkerDecides(d, "cancelled", "outcome")
  /\ UNCHANGED <<number, aborted, clientVars, hostVars>>

Deploy(d) ==
  /\ WorkerAt(d, "deploy")
  /\ d \notin aborted
  /\ \E r \in Outcomes :
       WorkerDecides(d, r, IF r \in {"ready", "partial"} THEN "version" ELSE "outcome")
  /\ UNCHANGED <<storeVars, number, aborted, clientVars, hostVars>>

(* Mutant of StopWork: the deploy phase does not watch the signal. *)
StopBuild(d) ==
  /\ \E step \in {"session", "row", "build"} : WorkerAt(d, step)
  /\ WorkerDecides(d, IF d \in aborted THEN "cancelled" ELSE "failed", "outcome")
  /\ UNCHANGED <<storeVars, number, aborted, clientVars, hostVars>>

(* A step fails or notices its signal: onCancelled if aborted, else onFailure. *)
StopWork(d) ==
  /\ \E step \in {"session", "row", "build", "deploy"} : WorkerAt(d, step)
  /\ WorkerDecides(d, IF d \in aborted THEN "cancelled" ELSE "failed", "outcome")
  /\ UNCHANGED <<storeVars, number, aborted, clientVars, hostVars>>

(* A failed lookup leaves the release unnumbered. *)
ReadVersion(d) ==
  /\ WorkerAt(d, "version")
  /\ WorkerGoes(d, "outcome")
  /\ \/ number' = [number EXCEPT ![d] = ReleaseVersion(d)] /\ UNCHANGED hostVars
     \/ UNCHANGED number /\ WriteFails
  /\ UNCHANGED <<storeVars, result, aborted, clientVars>>

(* Mutant of RecordSuccess: the refusal of the outcome is not looked at. *)
RecordSuccessRegardless(d) ==
  /\ WorkerAt(d, "outcome")
  /\ result[d] \in {"ready", "partial"}
  /\ RecordReady(d, number[d], IF result[d] = "partial" THEN "pending" ELSE "none")
  /\ WorkerGoes(d, "point")
  /\ UNCHANGED <<result, number, aborted, clientVars, hostVars>>

(* onSuccess, up to the settlement: applied, refused, or failed outright. *)
RecordSuccess(d) ==
  /\ WorkerAt(d, "outcome")
  /\ result[d] \in {"ready", "partial"}
  /\ \/ /\ RecordReady(d, number[d], IF result[d] = "partial" THEN "pending" ELSE "none")
        /\ IF Writable(d)
             THEN WorkerGoes(d, "point") /\ UNCHANGED result
             ELSE WorkerDecides(d, "refused", "finish")
        /\ UNCHANGED hostVars
     \/ WriteFails /\ WorkerGoes(d, "point") /\ UNCHANGED result
  /\ UNCHANGED <<number, aborted, clientVars>>

(* onFailure, onReconciling and onNoChanges write the deployment row only. *)
RecordOther(d) ==
  /\ WorkerAt(d, "outcome")
  /\ result[d] \in {"failed", "reconciling", "no_changes"}
  /\ \/ /\ UpdateStatus(d, result[d])
        /\ IF result[d] = "failed" /\ ~Writable(d)
             THEN WorkerDecides(d, "cancelled", "finish")
             ELSE WorkerGoes(d, "finish") /\ UNCHANGED result
        /\ UNCHANGED hostVars
     \/ WriteFails /\ WorkerGoes(d, "finish") /\ UNCHANGED result
  /\ UNCHANGED <<number, aborted, clientVars>>

(* onCancelled: recordCancellation leaves an already cancelled row alone. *)
RecordCancelled(d) ==
  /\ WorkerAt(d, "outcome")
  /\ result[d] = "cancelled"
  /\ WorkerGoes(d, "finish")
  /\ \/ /\ IF Writable(d) THEN RecordCancellation(d) ELSE UNCHANGED storeVars
        /\ UNCHANGED hostVars
     \/ WriteFails
  /\ UNCHANGED <<result, number, aborted, clientVars>>

(* Best effort: a refused or failed pointer write is logged, not raised. *)
PublishRelease(d) ==
  /\ WorkerAt(d, "point")
  /\ WorkerGoes(d, "supersede")
  /\ \/ SetActiveDeployment(d) /\ UNCHANGED hostVars
     \/ ~ConfigurationWritable /\ UNCHANGED <<storeVars, hostVars>>
     \/ WriteFails
  /\ UNCHANGED <<result, number, aborted, clientVars>>

SupersedeDecisions(d) ==
  /\ WorkerAt(d, "supersede")
  /\ WorkerGoes(d, "finish")
  /\ \/ SupersedePendingDecisions(d) /\ UNCHANGED hostVars
     \/ WriteFails
  /\ UNCHANGED <<result, number, aborted, clientVars>>

(* Mutant of SessionOutcome: the worker's own word is stored. *)
SessionOutcomeVerbatim(r) == r

SessionOutcome(r) ==
  CASE r = "failed" -> "failed"
    [] r \in {"cancelled", "refused"} -> "cancelled"
    [] OTHER -> "ready"

FinishSession(d) ==
  /\ WorkerAt(d, "finish")
  /\ FinishBuildSession(d, SessionOutcome(result[d]))
  /\ WorkerGoes(d, IF result[d] \in {"ready", "partial"} THEN "rollup" ELSE "finally")
  /\ UNCHANGED <<result, number, aborted, clientVars, hostVars>>

(* finalizeComposeDeploy: hold a partial release for keep or reject. *)
RollUp(d) ==
  /\ WorkerAt(d, "rollup")
  /\ WorkerGoes(d, IF status[d] \in ShippedStatuses THEN "archive" ELSE "finally")
  /\ IF status[d] = "ready" /\ result[d] = "partial"
       THEN UpdateStatusAndDecision(d, "partial_failure", "pending")
       ELSE UNCHANGED storeVars
  /\ UNCHANGED <<result, number, aborted, clientVars, hostVars>>

(* onDeploymentReady waits for the project runtime lock. *)
ArchivePrevious(d) ==
  /\ WorkerAt(d, "archive")
  /\ holder = NoClient
  /\ WorkerGoes(d, "finally")
  /\ UNCHANGED <<storeVars, result, number, aborted, clientVars, hostVars>>

(* markDeploymentFailedFromOutside: a settled row is left alone. *)
FallBack(d) ==
  /\ WorkerAt(d, "fallback")
  /\ WorkerGoes(d, IF status[d] \in {"failed", "ready", "cancelled", "no_changes"} \/ ~RowExists(d)
                     THEN "finally" ELSE "fallbackRow")
  /\ UNCHANGED <<storeVars, result, number, aborted, clientVars, hostVars>>

FallBackRow(d) ==
  /\ WorkerAt(d, "fallbackRow")
  /\ WorkerGoes(d, "fallbackSession")
  /\ UpdateStatus(d, "failed")
  /\ UNCHANGED <<result, number, aborted, clientVars, hostVars>>

FallBackSession(d) ==
  /\ WorkerAt(d, "fallbackSession")
  /\ WorkerGoes(d, "finally")
  /\ UpdateBuildSession(d, "failed")
  /\ UNCHANGED <<result, number, aborted, clientVars, hostVars>>

(* completeDeploymentExecution: the lease closes, then the worker is gone. *)
CompleteExecution(d) ==
  /\ WorkerAt(d, "finally")
  /\ AcknowledgeBuildExecutionFinished(d)
  /\ WorkerDecides(d, "none", "off")
  /\ number' = [number EXCEPT ![d] = 0]
  /\ aborted' = aborted \ {d}
  /\ UNCHANGED <<clientVars, hostVars>>

(* The registry's timer: the row is the durable source of cancellation. *)
PollCancellation(d) ==
  /\ Up
  /\ worker[d] \notin {"off", "finally"}
  /\ status[d] = "cancelled"
  /\ d \notin aborted
  /\ aborted' = aborted \cup {d}
  /\ UNCHANGED <<storeVars, worker, result, number, clientVars, hostVars>>

WorkerNext(d) ==
  \/ StartWork(d) \/ MarkSessionBuilding(d) \/ MarkRowBuilding(d) \/ Build(d) \/ Promote(d)
  \/ Deploy(d) \/ StopWork(d) \/ ReadVersion(d)
  \/ RecordSuccess(d) \/ RecordOther(d) \/ RecordCancelled(d)
  \/ PublishRelease(d) \/ SupersedeDecisions(d) \/ FinishSession(d) \/ RollUp(d)
  \/ ArchivePrevious(d) \/ FallBack(d) \/ FallBackRow(d) \/ FallBackSession(d)
  \/ CompleteExecution(d) \/ PollCancellation(d)

-----------------------------------------------------------------------------
(* Creating a deployment: a deploy or redeploy, or the restore of an       *)
(* earlier release, which replays its frozen snapshot as a new deployment. *)

ReadyToInsert(revision, held, subject, back) ==
  [IdleClient EXCEPT !.step = "insert", !.seen = ActiveRow, !.wanted = revision,
                     !.carried = held, !.subject = subject, !.back = back]

(* checkNoActiveBuild and the snapshot, both before the lock. *)
RequestDeploy(c) ==
  /\ MayStart(c, "deploy")
  /\ exists
  /\ Quiescent
  /\ \E revision \in Revisions :
       ClientTakes(c, ReadyToInsert(revision, "none", NoDeployment, "idle"))
  /\ UNCHANGED <<storeVars, workerVars, holder, reported, hostVars>>

Restorable(d) == exists /\ status[d] \in ShippedStatuses /\ active # d

RequestRollback(c) ==
  /\ MayStart(c, "rollback")
  /\ Quiescent
  /\ \E d \in Deployments :
       /\ Restorable(d)
       /\ ClientTakes(c, ReadyToInsert(commit[d], decision[d], NoDeployment, "idle"))
  /\ UNCHANGED <<storeVars, workerVars, holder, reported, hostVars>>

(* Mutant of RefuseInsert: a reject goes on without its restore. *)
SwallowRefusal(c) == ClientReturns(c)

(* A refusal throws, which also ends a reject that asked for the restore. *)
RefuseInsert(c) == ClientDone(c)

(* Out of row ids (MaxDeployments) counts as a refusal. *)
InsertDeployment(c) ==
  /\ ClientAt(c, "insert")
  /\ holder = NoClient
  /\ \/ \E d \in Deployments :
          /\ CreateDeployment(d, client[c].wanted, client[c].seen, client[c].carried)
          /\ holder' = c
          /\ ClientTakes(c, [client[c] EXCEPT !.step = "session", !.target = d])
     \/ /\ \A d \in Deployments : ~(MayCreate /\ NextRow(d))
        /\ RefuseInsert(c)
        /\ UNCHANGED <<storeVars, holder>>
  /\ UNCHANGED <<workerVars, reported, hostVars>>

InsertSession(c) ==
  /\ ClientAt(c, "session")
  /\ \/ CreateBuildSession(client[c].target) /\ ClientGoes(c, "reconciling") /\ UNCHANGED hostVars
     \/ WriteFails /\ ClientGoes(c, "undo")
  /\ UNCHANGED <<workerVars, holder, reported>>

(* Best effort; the error of the session insert is what the caller sees. *)
UndoInsert(c) ==
  /\ ClientAt(c, "undo")
  /\ \/ DeleteDeployment(client[c].target) /\ UNCHANGED hostVars
     \/ WriteFails
  /\ ClientDone(c)
  /\ Unlock
  /\ UNCHANGED <<workerVars, reported>>

RetireReconciling(c) ==
  /\ ClientAt(c, "reconciling")
  /\ \/ SupersedeReconciling(client[c].target) /\ UNCHANGED hostVars
     \/ WriteFails
  /\ ClientGoes(c, "decisions")
  /\ UNCHANGED <<workerVars, holder, reported>>

RetireDecisions(c) ==
  /\ ClientAt(c, "decisions")
  /\ \/ SupersedePendingDecisions(client[c].target) /\ UNCHANGED hostVars
     \/ WriteFails
  /\ ClientGoes(c, "kickoff")
  /\ Unlock
  /\ UNCHANGED <<workerVars, reported>>

(* startBuild, which the dashboard also calls after every redeploy. *)
StartBuild(c) ==
  /\ MayStart(c, "start")
  /\ \E d \in Deployments :
       /\ status[d] = "queued"
       /\ ClientTakes(c, [IdleClient EXCEPT !.step = "kickoff", !.target = d])
  /\ UNCHANGED <<storeVars, workerVars, holder, reported, hostVars>>

(* kickoffBuildNow: only the caller whose claim succeeds launches a worker. *)
Kickoff(c) ==
  LET d == client[c].target IN
  /\ ClientAt(c, "kickoff")
  /\ \/ /\ ClaimBuildExecution(d)
        /\ worker' = [worker EXCEPT ![d] = "start"]
        /\ ClientReturns(c)
     \/ /\ lease[d] = "none"
        /\ ClientDone(c)
        /\ UNCHANGED <<storeVars, worker>>
     \/ /\ lease[d] # "none" /\ Admitting /\ ~Claimable(d)
        /\ ClientReturns(c)
        /\ UNCHANGED <<storeVars, worker>>
     \/ /\ lease[d] # "none" /\ ~Admitting
        /\ ClientGoes(c, "unclaim")
        /\ UNCHANGED <<storeVars, worker>>
  /\ UNCHANGED <<result, number, aborted, holder, reported, hostVars>>

(* The deletion fence won: cancel what no worker has claimed, and throw. *)
DropUnclaimed(c) ==
  /\ ClientAt(c, "unclaim")
  /\ \/ CancelUnclaimedBuild(client[c].target)
     \/ ~(lease[client[c].target] = "unclaimed" /\ status[client[c].target] = "queued")
        /\ UNCHANGED storeVars
  /\ ClientDone(c)
  /\ UNCHANGED <<workerVars, holder, reported, hostVars>>

-----------------------------------------------------------------------------
(* cancelBuildSession *)

(* The outcome is won in the database before anything else happens. *)
WinCancellation(d) ==
  \/ InFlight(d) /\ RecordCancellation(d)
  \/ status[d] = "cancelled" /\ LeaseHeld(d) /\ UNCHANGED storeVars

RequestCancel(c) ==
  /\ MayStart(c, "cancel")
  /\ \E d \in Deployments :
       /\ WinCancellation(d)
       /\ ClientTakes(c, [IdleClient EXCEPT !.step = "signal", !.target = d])
  /\ UNCHANGED <<workerVars, holder, reported, hostVars>>

SignalWorker(c) ==
  LET d == client[c].target IN
  /\ ClientAt(c, "signal")
  /\ aborted' = IF Working(d) THEN aborted \cup {d} ELSE aborted
  /\ ClientGoes(c, "settle")
  /\ UNCHANGED <<storeVars, worker, result, number, holder, reported, hostVars>>

(* After the cleanup of a deployment that no worker owns. *)
SettleSession(c) ==
  /\ ClientAt(c, "settle")
  /\ AcknowledgeUnstartedBuildSession(client[c].target)
  /\ ClientGoes(c, "quiesce")
  /\ UNCHANGED <<workerVars, holder, reported, hostVars>>

(* waitForDeploymentQuiescence: cancelled, or still cancelling on timeout. *)
AwaitQuiescence(c) ==
  LET d == client[c].target IN
  /\ ClientAt(c, "quiesce")
  /\ \/ ~LeaseHeld(d) /\ reported' = reported \cup {d}
     \/ LeaseHeld(d) /\ UNCHANGED reported
  /\ ClientReturns(c)
  /\ UNCHANGED <<storeVars, workerVars, holder, hostVars>>

-----------------------------------------------------------------------------
(* Keep and reject: neither takes the project lock. *)

RequestKeep(c) ==
  /\ MayStart(c, "keep")
  /\ \E d \in Deployments :
       /\ status[d] = "partial_failure"
       /\ ClientTakes(c, [IdleClient EXCEPT !.target = d, !.carried = decision[d],
                         !.step = IF decision[d] = "pending" THEN "keep" ELSE "keepPointer"])
  /\ UNCHANGED <<storeVars, workerVars, holder, reported, hostVars>>

KeepRelease(c) ==
  /\ ClientAt(c, "keep")
  /\ UpdateStatusAndDecision(client[c].target, "partial_failure", "kept")
  /\ ClientGoes(c, "keepPointer")
  /\ UNCHANGED <<workerVars, holder, reported, hostVars>>

KeepPointer(c) ==
  LET d == client[c].target IN
  /\ ClientAt(c, "keepPointer")
  /\ \/ exists /\ active # d /\ SetActiveDeployment(d)
     \/ ~(exists /\ active # d /\ ConfigurationWritable) /\ UNCHANGED storeVars
  /\ ClientDone(c)
  /\ UNCHANGED <<workerVars, holder, reported, hostVars>>

(***************************************************************************)
(* Reject restores the release the rejected one replaced, if it recorded  *)
(* one, through a new deployment; an ineligible predecessor ends it.      *)
(***************************************************************************)
RequestReject(c) ==
  /\ MayStart(c, "reject")
  /\ exists
  /\ Quiescent
  /\ \E d \in Deployments : LET p == previous[d] IN
       /\ status[d] \in ShippedStatuses
       /\ \/ /\ p = NoDeployment
             /\ ClientTakes(c, [IdleClient EXCEPT !.step = "rejectDetach", !.subject = d,
                                                  !.seen = active])
          \/ /\ p \in Deployments /\ p # d
             /\ Restorable(p)
             /\ ClientTakes(c, ReadyToInsert(commit[p], decision[p], d, "rejectDetach"))
  /\ UNCHANGED <<storeVars, workerVars, holder, reported, hostVars>>

(* After the cleanup; the project row was read before it. *)
RejectDetach(c) ==
  LET d == client[c].subject
      detaches == previous[d] = NoDeployment /\ client[c].seen = d
  IN
  /\ ClientAt(c, "rejectDetach")
  /\ \/ detaches /\ SetActiveDeployment(NoDeployment) /\ ClientGoes(c, "rejectMark")
     \/ detaches /\ ~ConfigurationWritable /\ ClientDone(c) /\ UNCHANGED storeVars
     \/ ~detaches /\ ClientGoes(c, "rejectMark") /\ UNCHANGED storeVars
  /\ UNCHANGED <<workerVars, holder, reported, hostVars>>

RejectMark(c) ==
  /\ ClientAt(c, "rejectMark")
  /\ UpdateStatusAndDecision(client[c].subject, "rejected", "rejected")
  /\ ClientDone(c)
  /\ UNCHANGED <<workerVars, holder, reported, hostVars>>

-----------------------------------------------------------------------------
(* deleteDeployment, under the project runtime lock. *)

(* Mutant of RequestDelete: the project runtime lock is not taken. *)
RequestDeleteUnlocked(c) ==
  /\ MayStart(c, "delete")
  /\ \E d \in Deployments :
       /\ RowExists(d)
       /\ ~Listed(d)
       /\ ClientTakes(c, [IdleClient EXCEPT !.step = "detach", !.target = d, !.seen = active])
  /\ UNCHANGED <<storeVars, workerVars, holder, reported, hostVars>>

RequestDelete(c) ==
  /\ MayStart(c, "delete")
  /\ Acquire(c)
  /\ \E d \in Deployments :
       /\ RowExists(d)
       /\ ~Listed(d)
       /\ ClientTakes(c, [IdleClient EXCEPT !.step = "detach", !.target = d, !.seen = active])
  /\ UNCHANGED <<storeVars, workerVars, reported, hostVars>>

(* After the cleanup; the project row was read before it. *)
Detach(c) ==
  LET d == client[c].target IN
  /\ ClientAt(c, "detach")
  /\ \/ client[c].seen # d /\ ClientGoes(c, "erase") /\ UNCHANGED <<storeVars, holder>>
     \/ /\ client[c].seen = d
        /\ SetActiveDeployment(NoDeployment)
        /\ ClientGoes(c, "erase")
        /\ UNCHANGED holder
     \/ /\ client[c].seen = d
        /\ ~ConfigurationWritable
        /\ ClientDone(c)
        /\ Unlock
        /\ UNCHANGED storeVars
  /\ UNCHANGED <<workerVars, reported, hostVars>>

Erase(c) ==
  LET d == client[c].target IN
  /\ ClientAt(c, "erase")
  /\ \/ DeleteDeployment(d)
     \/ ~(ConfigurationWritable /\ ~LeaseHeld(d)) /\ UNCHANGED storeVars
  /\ ClientDone(c)
  /\ Unlock
  /\ UNCHANGED <<workerVars, reported, hostVars>>

-----------------------------------------------------------------------------
(* reconcileDeployment: settle a deploy whose connection was lost.         *)

RequestReconcile(c) ==
  /\ MayStart(c, "reconcile")
  /\ Admitting
  /\ Acquire(c)
  /\ \E d \in Deployments :
       /\ status[d] = "reconciling"
       /\ ClientTakes(c, [IdleClient EXCEPT !.step = "verdict", !.target = d])
  /\ UNCHANGED <<storeVars, workerVars, reported, hostVars>>

(* What the containers on the host say; an unreachable host says nothing. *)
Verdict(c) ==
  LET d == client[c].target IN
  /\ ClientAt(c, "verdict")
  /\ \/ UNCHANGED storeVars /\ ClientDone(c) /\ Unlock
     \/ UpdateStatus(d, "failed") /\ ClientDone(c) /\ Unlock
     \/ UpdateStatus(d, "ready") /\ ClientGoes(c, "forward") /\ UNCHANGED holder
     \/ UpdateStatusAndDecision(d, "partial_failure", "pending")
        /\ ClientGoes(c, "forward") /\ UNCHANGED holder
  /\ UNCHANGED <<workerVars, reported, hostVars>>

(* isSuperseded: the live release is not older than this one. *)
Superseded(d) ==
  /\ active # d
  /\ ActiveRow # NoDeployment
  /\ ActiveRow >= d

Forward(c) ==
  LET d == client[c].target IN
  /\ ClientAt(c, "forward")
  /\ IF exists /\ ~Superseded(d)
       THEN ClientGoes(c, "advance") /\ UNCHANGED holder
       ELSE ClientDone(c) /\ Unlock
  /\ UNCHANGED <<storeVars, workerVars, reported, hostVars>>

Advance(c) ==
  /\ ClientAt(c, "advance")
  /\ \/ SetActiveDeployment(client[c].target)
     \/ ~ConfigurationWritable /\ UNCHANGED storeVars
  /\ ClientDone(c)
  /\ Unlock
  /\ UNCHANGED <<workerVars, reported, hostVars>>

-----------------------------------------------------------------------------
(* teardownProject, under the project runtime lock from claim to release.  *)

ClaimTeardown(c, kind, step) ==
  /\ MayStart(c, kind)
  /\ Acquire(c)
  /\ ClaimDeletion
  /\ ClientTakes(c, [IdleClient EXCEPT !.step = step, !.resumed = deleting])
  /\ UNCHANGED <<workerVars, reported, hostVars>>

RequestTeardown(c) ==
  \/ ClaimTeardown(c, "teardown", "gate")
  \/ ClaimTeardown(c, "forced teardown", "drain")

(***************************************************************************)
(* Nothing is destroyed when the project still shares services, when a    *)
(* lookup fails, or when the gate finds an active backup or migration.    *)
(***************************************************************************)
RefuseTeardown(c) ==
  /\ ClientAt(c, "gate") \/ ClientAt(c, "drain")
  /\ ClientGoes(c, "release")
  /\ UNCHANGED <<storeVars, workerVars, holder, reported, hostVars>>

(* The graceful gate: active work refuses the deletion. *)
Gate(c) ==
  /\ ClientAt(c, "gate")
  /\ ClientGoes(c, IF Quiescent THEN "begin" ELSE "release")
  /\ UNCHANGED <<storeVars, workerVars, holder, reported, hostVars>>

(* stepCancelInFlight: list the active work and cancel it, then poll. *)
Drain(c) ==
  /\ ClientAt(c, "drain")
  /\ \/ Quiescent /\ ClientGoes(c, "begin") /\ UNCHANGED storeVars
     \/ \E d \in Deployments :
          /\ Listed(d)
          /\ WinCancellation(d)
          /\ ClientTakes(c, [client[c] EXCEPT !.step = "signal", !.target = d, !.back = "poll"])
     \/ \E d \in Deployments :
          /\ Listed(d)
          /\ ~InFlight(d) /\ status[d] # "cancelled"
          /\ ClientGoes(c, "poll")
          /\ UNCHANGED storeVars
  /\ UNCHANGED <<workerVars, holder, reported, hostVars>>

(* Mutant of Poll: the quiescence window never closes. *)
PollForever(c) ==
  /\ ClientAt(c, "poll")
  /\ Quiescent
  /\ ClientGoes(c, "begin")
  /\ UNCHANGED <<storeVars, workerVars, holder, reported, hostVars>>

(* The quiescence window, which backups and migrations keep open too; when it *)
(* ends first, nothing has been destroyed.                                    *)
Poll(c) ==
  /\ ClientAt(c, "poll")
  /\ \/ Quiescent /\ ClientGoes(c, "begin")
     \/ ClientGoes(c, "release")
  /\ UNCHANGED <<storeVars, workerVars, holder, reported, hostVars>>

BeginCleanup(c) ==
  /\ ClientAt(c, "begin")
  /\ \/ BeginDeletionCleanup /\ ClientGoes(c, "destroy") /\ UNCHANGED hostVars
     \/ WriteFails /\ ClientGoes(c, "release")
  /\ UNCHANGED <<workerVars, holder, reported>>

(* Containers, images, volumes and routes: all of it, or some of it failed. *)
Destroy(c) ==
  /\ ClientAt(c, "destroy")
  /\ \E step \in {"drop", "condemn"} : ClientGoes(c, step)
  /\ UNCHANGED <<storeVars, workerVars, holder, reported, hostVars>>

DropProject(c) ==
  /\ ClientAt(c, "drop")
  /\ \/ DeleteHard /\ ClientDone(c) /\ Unlock /\ UNCHANGED hostVars
     \/ WriteFails /\ ClientGoes(c, "condemn") /\ UNCHANGED holder
  /\ UNCHANGED <<workerVars, reported>>

(* Mutant of ReleaseFence: who raised the fence is forgotten. *)
ReleaseAnyFence(c) ==
  /\ ClientAt(c, "release")
  /\ ClearDeletionInProgress
  /\ ClientDone(c)
  /\ Unlock
  /\ UNCHANGED <<workerVars, reported, hostVars>>

(* The finally block, when this request destroyed nothing. *)
ReleaseFence(c) ==
  /\ ClientAt(c, "release")
  /\ \/ /\ IF client[c].resumed THEN MarkDeletionFailed ELSE ClearDeletionInProgress
        /\ UNCHANGED hostVars
     \/ WriteFails
  /\ ClientDone(c)
  /\ Unlock
  /\ UNCHANGED <<workerVars, reported>>

(* The finally block, once resources may be gone. *)
RetainFence(c) ==
  /\ ClientAt(c, "condemn")
  /\ \/ MarkDeletionFailed /\ UNCHANGED hostVars
     \/ WriteFails
  /\ ClientDone(c)
  /\ Unlock
  /\ UNCHANGED <<workerVars, reported>>

-----------------------------------------------------------------------------
(* The process stops: every handler, worker and in-process lock is gone.   *)

Crash ==
  /\ crashes < MaxCrashes
  /\ crashes' = crashes + 1
  /\ api' = "sweepDeployments"
  /\ swept' = {}
  /\ worker' = [d \in Deployments |-> "off"]
  /\ result' = [d \in Deployments |-> "none"]
  /\ number' = [d \in Deployments |-> 0]
  /\ aborted' = {}
  /\ client' = [c \in Clients |-> IdleClient]
  /\ holder' = NoClient
  /\ UNCHANGED <<storeVars, reported, writeFailures>>

(* The boot sweep completes before the API serves its first request. *)
BootDeployments ==
  /\ api = "sweepDeployments"
  /\ api' = "sweepSessions"
  /\ swept' = {d \in Deployments : InFlight(d)}
  /\ SweepDeployments
  /\ UNCHANGED <<workerVars, clientVars, writeFailures, crashes>>

BootSessions ==
  /\ api = "sweepSessions"
  /\ api' = "sweepLeases"
  /\ swept' = {}
  /\ SweepSessions(swept)
  /\ UNCHANGED <<workerVars, clientVars, writeFailures, crashes>>

BootLeases ==
  /\ api = "sweepLeases"
  /\ api' = "up"
  /\ SweepLeases
  /\ UNCHANGED <<swept, workerVars, clientVars, writeFailures, crashes>>

BootNext == BootDeployments \/ BootSessions \/ BootLeases

CreateNext(c) ==
  \/ InsertDeployment(c) \/ InsertSession(c) \/ UndoInsert(c) \/ RetireReconciling(c)
  \/ RetireDecisions(c) \/ Kickoff(c) \/ DropUnclaimed(c)

CancelNext(c) == SignalWorker(c) \/ SettleSession(c) \/ AwaitQuiescence(c)

DecideNext(c) == KeepRelease(c) \/ KeepPointer(c) \/ RejectDetach(c) \/ RejectMark(c)

DeleteNext(c) == Detach(c) \/ Erase(c)

ReconcileNext(c) == Verdict(c) \/ Forward(c) \/ Advance(c)

TeardownNext(c) ==
  \/ RefuseTeardown(c) \/ Gate(c) \/ Drain(c) \/ Poll(c) \/ BeginCleanup(c) \/ Destroy(c)
  \/ DropProject(c) \/ ReleaseFence(c) \/ RetainFence(c)

(* A step of a request that has been received. *)
ClientNext(c) ==
  \/ CreateNext(c) \/ CancelNext(c) \/ DecideNext(c) \/ DeleteNext(c) \/ ReconcileNext(c)
  \/ TeardownNext(c)

Request(c) ==
  \/ RequestDeploy(c) \/ RequestRollback(c) \/ StartBuild(c) \/ RequestCancel(c)
  \/ RequestKeep(c) \/ RequestReject(c) \/ RequestDelete(c) \/ RequestReconcile(c)
  \/ RequestTeardown(c)

Next ==
  \/ \E d \in Deployments : WorkerNext(d)
  \/ \E c \in Clients : Request(c) \/ ClientNext(c)
  \/ BootNext
  \/ Crash

Spec == Init /\ [][Next]_vars

(***************************************************************************)
(* The event loop runs every continuation that is ready: a received       *)
(* request, the boot sweep and a worker keep going, and the cancellation  *)
(* timer fires. A build or deploy phase may take for ever (Build and      *)
(* Deploy are not fair) but it ends once its signal is aborted. The       *)
(* runtime lock is a queue (each caller waits for the tail of the one     *)
(* before), so a caller that waits is not overtaken for ever: strong      *)
(* fairness of the two steps that take it inside a running handler.       *)
(* Requests, crashes and write failures are never forced.                 *)
(***************************************************************************)
WorkerGoesOn(d) ==
  \/ StartWork(d) \/ MarkSessionBuilding(d) \/ MarkRowBuilding(d) \/ Promote(d)
  \/ ReadVersion(d) \/ RecordSuccess(d) \/ RecordOther(d) \/ RecordCancelled(d)
  \/ PublishRelease(d) \/ SupersedeDecisions(d) \/ FinishSession(d) \/ RollUp(d)
  \/ FallBack(d) \/ FallBackRow(d) \/ FallBackSession(d) \/ CompleteExecution(d)

WorkerHeeds(d) == d \in aborted /\ StopWork(d)

Fairness ==
  /\ \A d \in Deployments :
       /\ WF_vars(WorkerGoesOn(d))
       /\ WF_vars(PollCancellation(d))
       /\ WF_vars(WorkerHeeds(d))
       /\ SF_vars(ArchivePrevious(d))
  /\ \A c \in Clients : WF_vars(ClientNext(c)) /\ SF_vars(InsertDeployment(c))
  /\ WF_vars(BootNext)

FairSpec == Spec /\ Fairness

=============================================================================
