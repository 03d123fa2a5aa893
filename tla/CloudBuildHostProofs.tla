------------------------- MODULE CloudBuildHostProofs -------------------------
(***************************************************************************)
(* The types of CloudBuilds, and what the builds and the operator do on    *)
(* the host, proved for every value of the constants: commands are tracked,*)
(* a resize has the server alone, and rows, tokens, ledgers and recoveries *)
(* implement HostAccess.                                                   *)
(***************************************************************************)
EXTENDS CloudBuildProperties, TLAPS


(***************************************************************************)
(* Every transaction keeps the rows in their domains; one whose WHERE      *)
(* clause matches no row leaves them as they are.                          *)
(***************************************************************************)
LEMMA TransactionTypes ==
  ASSUME StoreTypeOK
  PROVE  /\ UNCHANGED storeVars => StoreTypeOK'
         /\ \A b \in Builds :
              \/ RequestCloudBuild(b) \/ ClaimBuildExecution(b) \/ DeferUnactivatedCloudBuild(b)
              \/ CloseUnclaimed(b, "failed") \/ CloseUnclaimed(b, "cancelled")
              \/ RecordCancellation(b) \/ AcknowledgeUnstarted(b) \/ AcknowledgeFinished(b)
              \/ RecordOutcome(b, "ready") \/ RecordOutcome(b, "failed")
              \/ FailInFlight(b) /\ UNCHANGED <<lease, activityVars, fenced, workspaceVars>>
              \/ ClaimActivity(b) \/ TakeRecoveryOwnership(b) \/ CancelReservation(b)
              => StoreTypeOK'
         /\ \A b \in Builds : \A token \in Tokens :
              \/ RecordCommand(b, token) \/ CompleteCommand(b, token)
              \/ ReleaseSlot(b, token) \/ FinishActivity(b, token)
              => StoreTypeOK'
         /\ \A size \in Capacities : RequestResize(size) => StoreTypeOK'
         /\ \A next \in Operations : UpdateOperation(next) => StoreTypeOK'
         /\ UpdateResources \/ ClaimLifecycle \/ ReleaseActivity => StoreTypeOK'
         /\ \A p \in Projects : SetDeletionInProgress(p, ~fenced[p]) => StoreTypeOK'
<1> USE DEF StoreTypeOK, buildVars, activityVars, workspaceVars, storeVars
<1> USE DEF Statuses, Leases, Owners, Claims, Operations
<1>1. UNCHANGED storeVars => StoreTypeOK'
  OBVIOUS
<1>2. ASSUME NEW b \in Builds,
             \/ RequestCloudBuild(b) \/ ClaimBuildExecution(b) \/ DeferUnactivatedCloudBuild(b)
             \/ CloseUnclaimed(b, "failed") \/ CloseUnclaimed(b, "cancelled")
             \/ RecordCancellation(b) \/ AcknowledgeUnstarted(b) \/ AcknowledgeFinished(b)
             \/ RecordOutcome(b, "ready") \/ RecordOutcome(b, "failed")
             \/ FailInFlight(b) /\ UNCHANGED <<lease, activityVars, fenced, workspaceVars>>
             \/ ClaimActivity(b) \/ TakeRecoveryOwnership(b) \/ CancelReservation(b)
      PROVE  StoreTypeOK'
  BY <1>2 DEF RequestCloudBuild, ClaimBuildExecution, DeferUnactivatedCloudBuild, CloseUnclaimed,
              RecordCancellation, AcknowledgeUnstarted, AcknowledgeFinished, RecordOutcome,
              FailInFlight, ClaimActivity, TakeRecoveryOwnership, CancelReservation
<1>3. ASSUME NEW b \in Builds, NEW token \in Tokens,
             \/ RecordCommand(b, token) \/ CompleteCommand(b, token)
             \/ ReleaseSlot(b, token) \/ FinishActivity(b, token)
      PROVE  StoreTypeOK'
  BY <1>3 DEF RecordCommand, CompleteCommand, ReleaseSlot, FinishActivity
<1>4. ASSUME NEW size \in Capacities, RequestResize(size) PROVE StoreTypeOK'
  BY <1>4 DEF RequestResize
<1>5. ASSUME NEW next \in Operations, UpdateOperation(next) PROVE StoreTypeOK'
  BY <1>5 DEF UpdateOperation
<1>6. ASSUME UpdateResources \/ ClaimLifecycle \/ ReleaseActivity PROVE StoreTypeOK'
  BY <1>6 DEF UpdateResources, ClaimLifecycle, ReleaseActivity
<1>7. ASSUME NEW p \in Projects, SetDeletionInProgress(p, ~fenced[p]) PROVE StoreTypeOK'
  BY <1>7 DEF SetDeletionInProgress
<1> QED
  BY <1>1, <1>2, <1>3, <1>4, <1>5, <1>6, <1>7

(* A user's requests. *)
LEMMA RequestTypes ==
  ASSUME TypeOK, NEW b \in Builds,
         \/ Submit(b) \/ Cancel(b) \/ CloseCancelled(b)
  PROVE  TypeOK'
<1> USE TransactionTypes, FaultsAssumption DEF TypeOK, processVars, hostVars
<1> USE DEF AdmissionSteps, WorkerSteps, RecoverySteps, OperatorSteps, Commands, Operations
<1> USE DEF WorkerAt, RecoveryAt, AdmissionAt, OperatorAt, WorkerOnly, RecoveryOnly,
            AdmissionOnly, OperatorOnly, CountFault
<1>1. CASE Submit(b)
  BY <1>1 DEF Submit
<1>2. CASE Cancel(b)
  BY <1>2 DEF Cancel
<1>3. CASE CloseCancelled(b)
  BY <1>3 DEF CloseCancelled
<1> QED
  BY <1>1, <1>2, <1>3

(* The steps of an admission. *)
LEMMA AdmissionTypes ==
  ASSUME TypeOK, NEW b \in Builds,
         \/ EnterAdmission(b) \/ FindRoom(b) \/ KeepWaiting(b) \/ Refuse(b)
         \/ RecordRejection(b) \/ Dispatch(b) \/ FindProjectClosing(b)
         \/ LoseDispatch(b) \/ CancelUnavailable(b)
  PROVE  TypeOK'
<1> USE TransactionTypes, FaultsAssumption DEF TypeOK, processVars, hostVars
<1> USE DEF AdmissionSteps, WorkerSteps, RecoverySteps, OperatorSteps, Commands, Operations
<1> USE DEF WorkerAt, RecoveryAt, AdmissionAt, OperatorAt, WorkerOnly, RecoveryOnly,
            AdmissionOnly, OperatorOnly, CountFault
<1>1. CASE EnterAdmission(b)
  BY <1>1 DEF EnterAdmission
<1>2. CASE FindRoom(b)
  BY <1>2 DEF FindRoom
<1>3. CASE KeepWaiting(b)
  BY <1>3 DEF KeepWaiting
<1>4. CASE Refuse(b)
  BY <1>4 DEF Refuse
<1>5. CASE RecordRejection(b)
  BY <1>5 DEF RecordRejection
<1>6. CASE Dispatch(b)
  BY <1>6 DEF Dispatch
<1>7. CASE FindProjectClosing(b)
  BY <1>7 DEF FindProjectClosing
<1>8. CASE LoseDispatch(b)
  BY <1>8 DEF LoseDispatch
<1>9. CASE CancelUnavailable(b)
  BY <1>9 DEF CancelUnavailable
<1> QED
  BY <1>1, <1>2, <1>3, <1>4, <1>5, <1>6, <1>7, <1>8, <1>9

(* The steps of a worker. *)
LEMMA WorkerTypes ==
  ASSUME TypeOK, NEW b \in Builds,
         \/ AcquireExecution(b) \/ Prepare(b) \/ FailPreparation(b) \/ LockProject(b)
         \/ Activate(b) \/ RefuseForNow(b) \/ RefuseForGood(b) \/ Defer(b)
         \/ CannotDefer(b) \/ Unwound(b) \/ Recheck(b) \/ EndWork(b)
         \/ GiveSlotBack(b) \/ FinishWork(b) \/ CannotFinish(b) \/ SettleOutside(b)
         \/ AcknowledgeExecution(b) \/ Leave(b)
  PROVE  TypeOK'
<1> USE TransactionTypes, FaultsAssumption DEF TypeOK, processVars, hostVars
<1> USE DEF AdmissionSteps, WorkerSteps, RecoverySteps, OperatorSteps, Commands, Operations
<1> USE DEF WorkerAt, RecoveryAt, AdmissionAt, OperatorAt, WorkerOnly, RecoveryOnly,
            AdmissionOnly, OperatorOnly, CountFault
<1>1. CASE AcquireExecution(b)
  BY <1>1 DEF AcquireExecution
<1>2. CASE Prepare(b)
  BY <1>2 DEF Prepare
<1>3. CASE FailPreparation(b)
  BY <1>3 DEF FailPreparation
<1>4. CASE LockProject(b)
  BY <1>4 DEF LockProject
<1>5. CASE Activate(b)
  BY <1>5 DEF Activate
<1>6. CASE RefuseForNow(b)
  BY <1>6 DEF RefuseForNow
<1>7. CASE RefuseForGood(b)
  BY <1>7 DEF RefuseForGood
<1>8. CASE Defer(b)
  BY <1>8 DEF Defer
<1>9. CASE CannotDefer(b)
  BY <1>9 DEF CannotDefer
<1>10. CASE Unwound(b)
  BY <1>10 DEF Unwound
<1>11. CASE Recheck(b)
  BY <1>11 DEF Recheck, WorkFor
<1>12. CASE EndWork(b)
  BY <1>12 DEF EndWork
<1>13. CASE GiveSlotBack(b)
  BY <1>13 DEF GiveSlotBack, Tokens
<1>14. CASE FinishWork(b)
  BY <1>14 DEF FinishWork, Tokens
<1>15. CASE CannotFinish(b)
  BY <1>15 DEF CannotFinish
<1>16. CASE SettleOutside(b)
  BY <1>16 DEF SettleOutside
<1>17. CASE AcknowledgeExecution(b)
  BY <1>17 DEF AcknowledgeExecution
<1>18. CASE Leave(b)
  BY <1>18 DEF Leave
<1> QED
  BY <1>1, <1>2, <1>3, <1>4, <1>5, <1>6, <1>7, <1>8, <1>9, <1>10, <1>11, <1>12, <1>13, <1>14, <1>15, <1>16, <1>17, <1>18

(* The commands on the host. *)
LEMMA CommandTypes ==
  ASSUME TypeOK, NEW b \in Builds, NEW token \in Tokens,
         \/ CommandStarts(b) \/ CommandEnds(b) \/ SendCommand(b, token)
         \/ StopCommand(b, token) \/ StopUnrecorded(b, token)
  PROVE  TypeOK'
<1> USE TransactionTypes, FaultsAssumption DEF TypeOK, processVars, hostVars
<1> USE DEF AdmissionSteps, WorkerSteps, RecoverySteps, OperatorSteps, Commands, Operations
<1> USE DEF WorkerAt, RecoveryAt, AdmissionAt, OperatorAt, WorkerOnly, RecoveryOnly,
            AdmissionOnly, OperatorOnly, CountFault
<1>1. CASE CommandStarts(b)
  BY <1>1 DEF CommandStarts
<1>2. CASE CommandEnds(b)
  BY <1>2 DEF CommandEnds
<1>3. CASE SendCommand(b, token)
  BY <1>3 DEF SendCommand
<1>4. CASE StopCommand(b, token)
  BY <1>4 DEF StopCommand, Stopped
<1>5. CASE StopUnrecorded(b, token)
  BY <1>5 DEF StopUnrecorded, Stopped
<1> QED
  BY <1>1, <1>2, <1>3, <1>4, <1>5

(* The steps of a recovery. *)
LEMMA RecoveryTypes ==
  ASSUME TypeOK, NEW b \in Builds,
         \/ BeginRecovery(b) \/ RecoverFinished(b) \/ RecoverReservation(b)
         \/ RecoverNothing(b) \/ RecoverUnowned(b) \/ RecoverOwned(b)
         \/ BeginCleanup(b) \/ FinishRecovery(b) \/ AcknowledgeRecovery(b)
  PROVE  TypeOK'
<1> USE TransactionTypes, FaultsAssumption DEF TypeOK, processVars, hostVars
<1> USE DEF AdmissionSteps, WorkerSteps, RecoverySteps, OperatorSteps, Commands, Operations
<1> USE DEF WorkerAt, RecoveryAt, AdmissionAt, OperatorAt, WorkerOnly, RecoveryOnly,
            AdmissionOnly, OperatorOnly, CountFault
<1>1. CASE BeginRecovery(b)
  BY <1>1 DEF BeginRecovery
<1>2. CASE RecoverFinished(b)
  BY <1>2 DEF RecoverFinished
<1>3. CASE RecoverReservation(b)
  BY <1>3 DEF RecoverReservation
<1>4. CASE RecoverNothing(b)
  BY <1>4 DEF RecoverNothing
<1>5. CASE RecoverUnowned(b)
  BY <1>5 DEF RecoverUnowned
<1>6. CASE RecoverOwned(b)
  BY <1>6 DEF RecoverOwned
<1>7. CASE BeginCleanup(b)
  BY <1>7 DEF BeginCleanup
<1>8. CASE FinishRecovery(b)
  BY <1>8 DEF FinishRecovery, Tokens
<1>9. CASE AcknowledgeRecovery(b)
  BY <1>9 DEF AcknowledgeRecovery
<1> QED
  BY <1>1, <1>2, <1>3, <1>4, <1>5, <1>6, <1>7, <1>8, <1>9

(* The operator of the server, and what it is asked for. *)
LEMMA OperatorTypes ==
  ASSUME TypeOK, 
         \/ BeginLifecycle \/ BeginResize \/ ResizeHost \/ RecordResources
         \/ CompleteOperation \/ FailOperation \/ ReleaseLifecycle \/ OperatorStops
  PROVE  TypeOK'
<1> USE TransactionTypes, FaultsAssumption DEF TypeOK, processVars, hostVars
<1> USE DEF AdmissionSteps, WorkerSteps, RecoverySteps, OperatorSteps, Commands, Operations
<1> USE DEF WorkerAt, RecoveryAt, AdmissionAt, OperatorAt, WorkerOnly, RecoveryOnly,
            AdmissionOnly, OperatorOnly, CountFault
<1>1. CASE BeginLifecycle
  BY <1>1 DEF BeginLifecycle
<1>2. CASE BeginResize
  BY <1>2 DEF BeginResize
<1>3. CASE ResizeHost
  BY <1>3 DEF ResizeHost, StoreTypeOK
<1>4. CASE RecordResources
  BY <1>4 DEF RecordResources
<1>5. CASE CompleteOperation
  BY <1>5 DEF CompleteOperation
<1>6. CASE FailOperation
  BY <1>6 DEF FailOperation
<1>7. CASE ReleaseLifecycle
  BY <1>7 DEF ReleaseLifecycle
<1>8. CASE OperatorStops
  BY <1>8 DEF OperatorStops
<1> QED
  BY <1>1, <1>2, <1>3, <1>4, <1>5, <1>6, <1>7, <1>8

(* Processes that stop. *)
LEMMA FaultTypes ==
  ASSUME TypeOK, NEW b \in Builds,
         \/ AdmissionCrashes(b) \/ RejectionIsLost(b) \/ WorkerCrashes(b)
         \/ RecoveryStops(b) \/ WorkerLosesLocks(b)
  PROVE  TypeOK'
<1> USE TransactionTypes, FaultsAssumption DEF TypeOK, processVars, hostVars
<1> USE DEF AdmissionSteps, WorkerSteps, RecoverySteps, OperatorSteps, Commands, Operations
<1> USE DEF WorkerAt, RecoveryAt, AdmissionAt, OperatorAt, WorkerOnly, RecoveryOnly,
            AdmissionOnly, OperatorOnly, CountFault
<1>1. CASE AdmissionCrashes(b)
  BY <1>1 DEF AdmissionCrashes
<1>2. CASE RejectionIsLost(b)
  BY <1>2 DEF RejectionIsLost
<1>3. CASE WorkerCrashes(b)
  BY <1>3 DEF WorkerCrashes
<1>4. CASE RecoveryStops(b)
  BY <1>4 DEF RecoveryStops
<1>5. CASE WorkerLosesLocks(b)
  BY <1>5 DEF WorkerLosesLocks
<1> QED
  BY <1>1, <1>2, <1>3, <1>4, <1>5

(***************************************************************************)
(* Rows, processes, commands and the server keep to their domains, for any *)
(* number of builds and projects, any sizes, limits and demands, and any   *)
(* number of faults.                                                       *)
(***************************************************************************)
THEOREM CloudTypeCorrect == Spec => []TypeOK
<1>1. Init => TypeOK
  BY FaultsAssumption, CapacitiesAssumption
     DEF Init, StoreInit, TypeOK, StoreTypeOK, Statuses, Leases, Owners, Claims, Operations,
         AdmissionSteps, WorkerSteps, RecoverySteps, OperatorSteps, Commands
<1>2. ASSUME TypeOK, [Next]_vars PROVE TypeOK'
  <2>1. ASSUME NEW b \in Builds, Request(b) \/ CloseCancelled(b) PROVE TypeOK'
    BY <1>2, <2>1, RequestTypes DEF Request
  <2>2. ASSUME NEW b \in Builds, EnterAdmission(b) \/ AdmissionStep(b) \/ KeepWaiting(b)
        PROVE  TypeOK'
    BY <1>2, <2>2, AdmissionTypes DEF AdmissionStep
  <2>3. ASSUME NEW b \in Builds, WorkerStep(b) \/ FailPreparation(b) \/ GiveSlotBack(b)
        PROVE  TypeOK'
    BY <1>2, <2>3, WorkerTypes DEF WorkerStep
  <2>4. ASSUME NEW b \in Builds, HostStep(b) PROVE TypeOK'
    <3>1. "worker" \in Tokens
      BY DEF Tokens
    <3> QED
      BY <1>2, <2>4, <3>1, CommandTypes DEF HostStep
  <2>5. ASSUME NEW b \in Builds, BeginRecovery(b) \/ RecoveryStep(b) PROVE TypeOK'
    BY <1>2, <2>5, RecoveryTypes DEF RecoveryStep
  <2>6. ASSUME NEW b \in Builds, Fault(b) PROVE TypeOK'
    BY <1>2, <2>6, FaultTypes DEF Fault
  <2>7. ASSUME NEW p \in TornDown, AttemptDeletion(p) PROVE TypeOK'
    BY <1>2, <2>7, TransactionTypes, RequestsAssumption
       DEF AttemptDeletion, TypeOK, processVars, hostVars
  <2>8. ASSUME NEW size \in Capacities, RequestServerResize(size) PROVE TypeOK'
    BY <1>2, <2>8, TransactionTypes DEF RequestServerResize, TypeOK, processVars, hostVars
  <2>9. CASE OperatorStep \/ FailOperation \/ OperatorStops
    BY <1>2, <2>9, OperatorTypes DEF OperatorStep
  <2>10. CASE UNCHANGED vars
    BY <1>2, <2>10, TransactionTypes DEF vars, TypeOK, processVars, hostVars
  <2> QED
    BY <1>2, <2>1, <2>2, <2>3, <2>4, <2>5, <2>6, <2>7, <2>8, <2>9, <2>10 DEF Next
<1> QED
  BY <1>1, <1>2, PTL DEF Spec

-----------------------------------------------------------------------------

(***************************************************************************)
(* While the operator is at work it holds the lifecycle claim, also over   *)
(* an attempt that failed and has not given the claim back yet.            *)
(***************************************************************************)
LifecycleClaimed == operator # "idle" => claim = "lifecycle"

HostInv == CommandsTracked /\ BarrierMatches /\ LifecycleClaimed

(* What the host sees of a step. *)
hostView == <<owner, ledger, claim, command, operator>>

(***************************************************************************)
(* Steps that only queue, wait for locks, change the deployment's row or   *)
(* stop a process are not seen on the host.                                *)
(***************************************************************************)
LEMMA UnseenSteps ==
  ASSUME NEW b \in Builds,
         \/ Request(b) \/ CloseCancelled(b)
         \/ EnterAdmission(b) \/ FindRoom(b) \/ KeepWaiting(b) \/ Refuse(b)
         \/ RecordRejection(b) \/ FindProjectClosing(b) \/ LoseDispatch(b)
         \/ CancelUnavailable(b)
         \/ AcquireExecution(b) \/ Prepare(b) \/ FailPreparation(b) \/ LockProject(b)
         \/ RefuseForNow(b) \/ RefuseForGood(b) \/ CannotDefer(b) \/ Unwound(b) \/ Recheck(b)
         \/ EndWork(b) \/ GiveSlotBack(b) \/ CannotFinish(b) \/ SettleOutside(b)
         \/ AcknowledgeExecution(b)
         \/ BeginRecovery(b) \/ RecoverFinished(b) \/ RecoverReservation(b)
         \/ RecoverNothing(b) \/ BeginCleanup(b) \/ AcknowledgeRecovery(b)
         \/ Fault(b)
  PROVE  UNCHANGED hostView
<1> USE DEF hostView, buildVars, activityVars, workspaceVars, storeVars, processVars, hostVars
<1>1. CASE Request(b) \/ CloseCancelled(b)
  BY <1>1 DEF Request, Submit, Cancel, CloseCancelled, RequestCloudBuild, RecordCancellation,
              AcknowledgeUnstarted
<1>2. CASE \/ EnterAdmission(b) \/ FindRoom(b) \/ KeepWaiting(b) \/ Refuse(b)
           \/ RecordRejection(b) \/ FindProjectClosing(b) \/ LoseDispatch(b)
           \/ CancelUnavailable(b)
  BY <1>2 DEF EnterAdmission, FindRoom, KeepWaiting, Refuse, RecordRejection, FindProjectClosing,
              LoseDispatch, CancelUnavailable, CloseUnclaimed, AdmissionOnly
<1>3. CASE \/ AcquireExecution(b) \/ Prepare(b) \/ FailPreparation(b) \/ LockProject(b)
           \/ RefuseForNow(b) \/ RefuseForGood(b) \/ CannotDefer(b) \/ Unwound(b) \/ Recheck(b)
  BY <1>3 DEF AcquireExecution, Prepare, FailPreparation, LockProject, RefuseForNow,
              RefuseForGood, CannotDefer, Unwound, Recheck, WorkerOnly
<1>4. CASE \/ EndWork(b) \/ GiveSlotBack(b) \/ CannotFinish(b) \/ SettleOutside(b)
           \/ AcknowledgeExecution(b)
  BY <1>4 DEF EndWork, GiveSlotBack, CannotFinish, SettleOutside, AcknowledgeExecution,
              RecordOutcome, ReleaseSlot, AcknowledgeFinished, WorkerOnly
<1>5. CASE \/ BeginRecovery(b) \/ RecoverFinished(b) \/ RecoverReservation(b)
           \/ RecoverNothing(b) \/ BeginCleanup(b) \/ AcknowledgeRecovery(b)
  BY <1>5 DEF BeginRecovery, RecoverFinished, RecoverReservation, RecoverNothing, BeginCleanup,
              AcknowledgeRecovery, AcknowledgeFinished, RecoveryOnly
<1>6. CASE Fault(b)
  BY <1>6 DEF Fault, AdmissionCrashes, RejectionIsLost, WorkerCrashes, RecoveryStops,
              WorkerLosesLocks
<1> QED
  BY <1>1, <1>2, <1>3, <1>4, <1>5, <1>6

(***************************************************************************)
(* A reservation is taken, cancelled or deferred only while nobody owns    *)
(* the activity: the set of active builds stays.                           *)
(***************************************************************************)
LEMMA ReservationSteps ==
  ASSUME TypeOK, HostInv, NEW b \in Builds,
         Dispatch(b) \/ Defer(b) \/ Leave(b) \/ RecoverUnowned(b)
  PROVE  /\ HostInv'
         /\ Owning' = Owning
         /\ UNCHANGED <<ledger, claim, command, operator>>
         /\ \A c \in Builds \ {b} : owner'[c] = owner[c]
         /\ owner[b] = "reserved" \/ owner[b] = "absent" \/ owner'[b] = owner[b]
         /\ owner'[b] # owner[b] => owner'[b] \in {"reserved", "absent", "finished"}
         /\ owner[b] = "finished" => owner'[b] = "finished"
<1> USE DEF TypeOK, StoreTypeOK, activityVars, workspaceVars, hostVars
<1>1. /\ \A c \in Builds \ {b} : owner'[c] = owner[c]
      /\ owner[b] = "reserved" \/ owner[b] = "absent" \/ owner'[b] = owner[b]
      /\ owner'[b] # owner[b] => owner'[b] \in {"reserved", "absent", "finished"}
      /\ owner[b] = "finished" => owner'[b] = "finished"
      /\ UNCHANGED <<ledger, claim, command, operator>>
  BY DEF Dispatch, Defer, Leave, RecoverUnowned, ClaimBuildExecution, CancelReservation,
         DeferUnactivatedCloudBuild, Deferrable, WorkerOnly, RecoveryOnly
<1>2. \A c \in Builds : Owned(c)' <=> Owned(c)
  BY <1>1 DEF Owned
<1>3. Owning' = Owning
  BY <1>2 DEF Owning
<1> QED
  BY <1>1, <1>2, <1>3 DEF HostInv, CommandsTracked, BarrierMatches, LifecycleClaimed

(***************************************************************************)
(* The activation of a reservation raises the barrier; nothing else on the *)
(* host moves, and lifecycle work is not in progress.                      *)
(***************************************************************************)
LEMMA ActivationSteps ==
  ASSUME TypeOK, HostInv, NEW b \in Builds, Activate(b)
  PROVE  /\ HostInv'
         /\ owner[b] = "reserved" /\ Owning' = Owning \cup {b}
         /\ owner' = [owner EXCEPT ![b] = "worker"]
         /\ claim # "lifecycle" /\ claim' = "builds" /\ ProjectIdle(b)
         /\ UNCHANGED <<ledger, command, operator>>
<1> USE DEF TypeOK, StoreTypeOK
<1>1. /\ owner[b] = "reserved"
      /\ owner' = [owner EXCEPT ![b] = "worker"]
      /\ claim # "lifecycle" /\ claim' = "builds" /\ ProjectIdle(b)
      /\ UNCHANGED <<ledger, command, operator>>
  BY DEF Activate, ClaimActivity, Unobstructed, WorkerOnly, hostVars
<1>2. Owning' = Owning \cup {b}
  BY <1>1 DEF Owning, Owned
<1> QED
  BY <1>1, <1>2 DEF HostInv, CommandsTracked, BarrierMatches, LifecycleClaimed, Owned

(***************************************************************************)
(* A recovery takes over an activity that stays active.                    *)
(***************************************************************************)
LEMMA TakeoverSteps ==
  ASSUME TypeOK, HostInv, NEW b \in Builds, RecoverOwned(b)
  PROVE  /\ HostInv'
         /\ Owned(b) /\ Owning' = Owning
         /\ owner' = [owner EXCEPT ![b] = "recovery"]
         /\ UNCHANGED <<ledger, claim, command, operator>>
<1> USE DEF TypeOK, StoreTypeOK
<1>1. /\ Owned(b)
      /\ owner' = [owner EXCEPT ![b] = "recovery"]
      /\ UNCHANGED <<ledger, claim, command, operator>>
  BY DEF RecoverOwned, TakeRecoveryOwnership, RecoveryOnly, hostVars, workspaceVars
<1>2. \A c \in Builds : Owned(c)' <=> Owned(c)
  BY <1>1 DEF Owned
<1>3. Owning' = Owning
  BY <1>2 DEF Owning
<1> QED
  BY <1>1, <1>2, <1>3 DEF HostInv, CommandsTracked, BarrierMatches, LifecycleClaimed

(***************************************************************************)
(* An activity ends with its ledger empty, so nothing of it is left on the *)
(* host, and the last one takes the barrier down.                          *)
(***************************************************************************)
LEMMA FinishSteps ==
  ASSUME TypeOK, HostInv, NEW b \in Builds, FinishWork(b) \/ FinishRecovery(b)
  PROVE  /\ HostInv'
         /\ Owned(b) /\ command[b] = "none" /\ Owning' = Owning \ {b}
         /\ owner' = [owner EXCEPT ![b] = "finished"]
         /\ claim' = "lifecycle" <=> claim = "lifecycle"
         /\ UNCHANGED <<ledger, command, operator>>
<1> USE DEF TypeOK, StoreTypeOK
<1>1. PICK token \in {"worker", "recovery"} : FinishActivity(b, token)
  BY DEF FinishWork, FinishRecovery
<1>2. UNCHANGED <<ledger, command, operator>>
  BY DEF FinishWork, FinishRecovery, FinishActivity, WorkerOnly, RecoveryOnly, hostVars
<1>3. /\ owner[b] = token /\ ~ledger[b]
      /\ owner' = [owner EXCEPT ![b] = "finished"]
      /\ claim' = IF Owning = {b} /\ claim = "builds" THEN "none" ELSE claim
  BY <1>1 DEF FinishActivity, Finishable, Token
<1>4. Owned(b) /\ command[b] = "none" /\ Owning' = Owning \ {b}
  BY <1>3 DEF Owned, Owning, HostInv, CommandsTracked
<1>5. BarrierMatches'
  <2>1. claim = "builds" /\ b \in Owning
    BY <1>4 DEF HostInv, BarrierMatches, Owning
  <2> QED
    BY <1>3, <1>4, <2>1 DEF BarrierMatches
<1>6. CommandsTracked' /\ LifecycleClaimed'
  BY <1>2, <1>3, <1>4 DEF HostInv, CommandsTracked, LifecycleClaimed, Owned, Owning
<1> QED
  BY <1>2, <1>3, <1>4, <1>5, <1>6 DEF HostInv

(***************************************************************************)
(* Commands are sent only by whoever owns the activity, after the ledger   *)
(* has them, and leave the ledger only once the host has stopped them.     *)
(***************************************************************************)
LEMMA CommandSteps ==
  ASSUME TypeOK, HostInv, NEW b \in Builds, HostStep(b)
  PROVE  /\ HostInv'
         /\ UNCHANGED <<owner, claim, operator>>
         /\ \A c \in Builds \ {b} : command'[c] = command[c]
         /\ command'[b] # "none" => Owned(b)
<1> USE DEF TypeOK, StoreTypeOK, hostVars, storeVars, activityVars, workspaceVars, processVars
<1>1. CASE CommandStarts(b) \/ CommandEnds(b)
  BY <1>1 DEF CommandStarts, CommandEnds, HostInv, CommandsTracked, BarrierMatches,
              LifecycleClaimed, Owned, Owning
<1>2. ASSUME NEW token \in Tokens, SendCommand(b, token)
      PROVE  /\ HostInv'
             /\ UNCHANGED <<owner, claim, operator>>
             /\ \A c \in Builds \ {b} : command'[c] = command[c]
             /\ command'[b] # "none" => Owned(b)
  BY <1>2 DEF Tokens, SendCommand, RecordCommand, Token, HostInv, CommandsTracked,
              BarrierMatches, LifecycleClaimed, Owned, Owning
<1>3. ASSUME NEW token \in Tokens, StopCommand(b, token) \/ StopUnrecorded(b, token)
      PROVE  /\ HostInv'
             /\ UNCHANGED <<owner, claim, operator>>
             /\ \A c \in Builds \ {b} : command'[c] = command[c]
             /\ command'[b] # "none" => Owned(b)
  BY <1>3 DEF StopCommand, StopUnrecorded, Stopped, CompleteCommand, HostInv, CommandsTracked,
              BarrierMatches, LifecycleClaimed, Owned, Owning
<1> QED
  BY <1>1, <1>2, <1>3 DEF HostStep

(***************************************************************************)
(* The operator claims an idle host and works only under its claim.        *)
(***************************************************************************)
LEMMA LifecycleSteps ==
  ASSUME TypeOK, HostInv, OperatorStep \/ FailOperation \/ OperatorStops
  PROVE  /\ HostInv'
         /\ UNCHANGED <<owner, ledger, command>>
         /\ claim' # claim =>
              \/ Owning = {} /\ claim' = "lifecycle"
              \/ claim = "lifecycle" /\ claim' = "none"
<1> USE DEF HostInv, CommandsTracked, BarrierMatches, LifecycleClaimed, Owned, Owning
<1> USE DEF buildVars, activityVars, workspaceVars, storeVars, processVars, hostVars,
            OperatorAt, OperatorOnly
<1>1. CASE BeginLifecycle
  BY <1>1 DEF BeginLifecycle, ClaimLifecycle, NoBuildActive
<1>2. CASE BeginResize \/ ResizeHost \/ RecordResources \/ CompleteOperation \/ FailOperation
  BY <1>2 DEF BeginResize, ResizeHost, RecordResources, CompleteOperation, FailOperation,
              UpdateOperation, UpdateResources
<1>3. CASE ReleaseLifecycle
  BY <1>3 DEF ReleaseLifecycle, ReleaseActivity
<1>4. CASE OperatorStops
  BY <1>4 DEF OperatorStops
<1> QED
  BY <1>1, <1>2, <1>3, <1>4 DEF OperatorStep

(***************************************************************************)
(* A step that moves nothing the host sees keeps the invariant.            *)
(***************************************************************************)
LEMMA HostUnmoved ==
  ASSUME HostInv, UNCHANGED hostView
  PROVE  HostInv' /\ UNCHANGED Host!access
<1>1. \A b \in Builds : Owned(b)' <=> Owned(b)
  BY DEF hostView, Owned
<1>2. Owning' = Owning
  BY <1>1 DEF Owning
<1> QED
  BY <1>1, <1>2 DEF hostView, HostInv, CommandsTracked, BarrierMatches, LifecycleClaimed,
                    Host!access

(***************************************************************************)
(* Every step keeps the invariant and is, seen through the mapping, a step *)
(* of HostAccess or none.                                                  *)
(***************************************************************************)
LEMMA HostStepSimulates ==
  ASSUME TypeOK, HostInv, [Next]_vars
  PROVE  HostInv' /\ [Host!AccessNext]_(Host!access)
<1> USE DEF Host!access
<1>1. ASSUME NEW b \in Builds,
             Dispatch(b) \/ Defer(b) \/ Leave(b) \/ RecoverUnowned(b)
      PROVE  HostInv' /\ [Host!AccessNext]_(Host!access)
  <2>1. owner'[b] = "finished" \/ UNCHANGED Host!access
    BY <1>1, ReservationSteps
  <2>2. ASSUME owner'[b] = "finished", owner[b] # "finished" PROVE Host!GoOut(b)
    BY <1>1, <2>2, ReservationSteps DEF Host!GoOut, HostInv, CommandsTracked, Owning, Owned
  <2> QED
    BY <1>1, <2>1, <2>2, ReservationSteps DEF Host!AccessNext
<1>2. ASSUME NEW b \in Builds, Activate(b)
      PROVE  HostInv' /\ [Host!AccessNext]_(Host!access)
  <2>1. Host!Enter(b)
    <3>1. b \notin Owning \cup {c \in Builds : owner[c] = "finished"}
      BY <1>2, ActivationSteps DEF Owning, Owned
    <3>2. \A c \in Owning : Project[c] # Project[b]
      BY <1>2, <3>1, ActivationSteps DEF ProjectIdle
    <3>3. {c \in Builds : owner[c] = "finished"}' = {c \in Builds : owner[c] = "finished"}
      BY <1>2, ActivationSteps DEF TypeOK, StoreTypeOK
    <3> QED
      BY <1>2, <3>1, <3>2, <3>3, ActivationSteps DEF Host!Enter
  <2> QED
    BY <1>2, <2>1, ActivationSteps DEF Host!AccessNext
<1>3. ASSUME NEW b \in Builds, RecoverOwned(b)
      PROVE  HostInv' /\ [Host!AccessNext]_(Host!access)
  BY <1>3, TakeoverSteps DEF Owned, TypeOK, StoreTypeOK
<1>4. ASSUME NEW b \in Builds, FinishWork(b) \/ FinishRecovery(b)
      PROVE  HostInv' /\ [Host!AccessNext]_(Host!access)
  <2>1. Host!GoOut(b)
    BY <1>4, FinishSteps DEF Host!GoOut, TypeOK, StoreTypeOK
  <2> QED
    BY <1>4, <2>1, FinishSteps DEF Host!AccessNext
<1>5. ASSUME NEW b \in Builds, HostStep(b)
      PROVE  HostInv' /\ [Host!AccessNext]_(Host!access)
  <2> DEFINE Same == Owning' = Owning /\ UNCHANGED <<owner, claim>>
  <2>1. Same
    BY <1>5, CommandSteps DEF Owning, Owned
  <2>2. CASE command[b] = "none" /\ command'[b] # "none"
    <3>1. Host!Start(b)
      BY <1>5, <2>1, <2>2, CommandSteps DEF Host!Start, Owning
    <3> QED
      BY <1>5, <3>1, CommandSteps DEF Host!AccessNext
  <2>3. CASE command[b] # "none" /\ command'[b] = "none"
    <3>1. Host!Stop(b)
      BY <1>5, <2>1, <2>3, CommandSteps DEF Host!Stop, Owning
    <3> QED
      BY <1>5, <3>1, CommandSteps DEF Host!AccessNext
  <2>4. CASE command[b] = "none" <=> command'[b] = "none"
    BY <1>5, <2>1, <2>4, CommandSteps
  <2> QED
    BY <2>2, <2>3, <2>4
<1>6. ASSUME OperatorStep \/ FailOperation \/ OperatorStops
      PROVE  HostInv' /\ [Host!AccessNext]_(Host!access)
  <2>1. Owning' = Owning /\ UNCHANGED <<owner, command>>
    BY <1>6, LifecycleSteps DEF Owning, Owned
  <2>2. CASE claim' = claim
    BY <1>6, <2>1, <2>2, LifecycleSteps
  <2>3. CASE claim' # claim
    <3>1. Host!TakeAlone \/ Host!GiveBack
      BY <1>6, <2>1, <2>3, LifecycleSteps DEF Host!TakeAlone, Host!GiveBack
    <3> QED
      BY <1>6, <3>1, LifecycleSteps DEF Host!AccessNext
  <2> QED
    BY <2>2, <2>3
<1>7. CASE UNCHANGED hostView
  BY <1>7, HostUnmoved
<1>8. (\E p \in TornDown : AttemptDeletion(p))
      \/ (\E size \in Capacities : RequestServerResize(size)) \/ UNCHANGED vars
        => UNCHANGED hostView
  BY DEF AttemptDeletion, SetDeletionInProgress, RequestServerResize, RequestResize, vars,
         hostView, storeVars, activityVars, workspaceVars, processVars, hostVars
<1>9. ASSUME NEW b \in Builds,
             \/ Request(b) \/ CloseCancelled(b)
             \/ EnterAdmission(b) \/ AdmissionStep(b) \/ KeepWaiting(b)
             \/ WorkerStep(b) \/ FailPreparation(b) \/ GiveSlotBack(b) \/ HostStep(b)
             \/ BeginRecovery(b) \/ RecoveryStep(b)
             \/ Fault(b)
      PROVE  HostInv' /\ [Host!AccessNext]_(Host!access)
  BY <1>1, <1>2, <1>3, <1>4, <1>5, <1>7, <1>9, UnseenSteps
     DEF AdmissionStep, WorkerStep, RecoveryStep
<1> QED
  BY <1>6, <1>7, <1>8, <1>9 DEF Next

(***************************************************************************)
(* The invariant of the host, from which its four properties follow.       *)
(***************************************************************************)
LEMMA HostInductive == Spec => []HostInv
<1>1. Init => HostInv
  BY DEF Init, StoreInit, HostInv, CommandsTracked, BarrierMatches, LifecycleClaimed, Owning,
         Owned
<1> QED
  BY <1>1, HostStepSimulates, CloudTypeCorrect, PTL DEF Spec

(***************************************************************************)
(* No command reaches or stays on the host outside an unfinished activity  *)
(* whose ledger names it, whatever dies and whoever recovers.              *)
(***************************************************************************)
THEOREM CommandsAreTracked == Spec => []CommandsTracked
BY HostInductive, PTL DEF HostInv

(***************************************************************************)
(* The singleton that older controllers look at stands for the builds      *)
(* exactly while one is active.                                            *)
(***************************************************************************)
THEOREM BarrierIsExact == Spec => []BarrierMatches
BY HostInductive, PTL DEF HostInv

(***************************************************************************)
(* No command of a build is on the server while it is stopped, changed and *)
(* started again.                                                          *)
(***************************************************************************)
THEOREM ResizesAlone == Spec => []ResizeAlone
<1>1. TypeOK /\ HostInv => ResizeAlone
  BY DEF HostInv, CommandsTracked, BarrierMatches, LifecycleClaimed, ResizeAlone, Owning
<1> QED
  BY <1>1, HostInductive, CloudTypeCorrect, PTL

(***************************************************************************)
(* Rows, tokens, ledgers and recoveries implement HostAccess.              *)
(***************************************************************************)
THEOREM CloudBuildsImplementHostAccess == Spec => ImplementsHostAccess
<1>1. Init => Host!AccessInit
  BY DEF Init, StoreInit, Host!AccessInit, Owning, Owned
<1> QED
  BY <1>1, HostStepSimulates, HostInductive, CloudTypeCorrect, PTL
     DEF Spec, ImplementsHostAccess, Host!AccessSpec

=============================================================================
