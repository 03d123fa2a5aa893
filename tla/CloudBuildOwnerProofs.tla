------------------------ MODULE CloudBuildOwnerProofs ------------------------
(***************************************************************************)
(* Who owns an execution and how it ends, and what the queue admits,       *)
(* proved for every value of the constants. The first part is about one    *)
(* build at a time: only its own steps touch its row, its lease, its       *)
(* activity and its processes. The second is about the plan's limit of     *)
(* concurrent builds and the isolation of builds that take a backup first. *)
(* The third shows that the server is never overcommitted: the demands of  *)
(* the active builds are a sum over a finite set, a recursion of the       *)
(* library, and what it computes is shown first, each induction taking a   *)
(* smallest counterexample.                                                *)
(***************************************************************************)
EXTENDS CloudBuildHostProofs, FiniteSetTheorems, WellFoundedInduction


Final == {"ready", "failed", "cancelled"}

(***************************************************************************)
(* A worker lives inside a lease that was claimed, an activity is reserved *)
(* with the lease, and a draft has neither.                                *)
(***************************************************************************)
LeasedFirst(b) ==
  /\ worker[b] # "none" => lease[b] # "unclaimed"
  /\ lease[b] = "unclaimed" => owner[b] = "absent"
  /\ status[b] = "draft" => lease[b] = "unclaimed"

(* A worker with its lock session and a recovery exclude each other. *)
Excluded(b) == HoldsExecution(b) => ~Recovering(b)

(***************************************************************************)
(* Until it activates it, the worker of a build that nobody settled finds  *)
(* the reservation it was dispatched with.                                 *)
(***************************************************************************)
Reserved(b) ==
  /\ worker[b] \in {"waiting", "preparing", "locking", "claiming", "deferring"}
     /\ status[b] = "building" => owner[b] = "reserved"
  /\ Live(b) /\ worker[b] \in {"preparing", "locking", "claiming"} => owner[b] = "reserved"

(* The build's part of OwnerUndisturbed. *)
Undisturbed(b) ==
  /\ Live(b) /\ worker[b] \in {"claimed", "running", "verifying"} => owner[b] = "worker"
  /\ Live(b) /\ worker[b] \in {"preparing", "locking", "claiming", "claimed", "running"} =>
       status[b] \in {"building", "cancelled"}
  /\ recovery[b] \in {"draining", "cleaning"} => owner[b] = "recovery"

(* A recovery settles the row before it gives anything back. *)
Settled(b) == recovery[b] \in {"unowned", "cleaning", "acking"} => status[b] \in Final

OwnerInvOf(b) == LeasedFirst(b) /\ Excluded(b) /\ Reserved(b) /\ Undisturbed(b) /\ Settled(b)

OwnerInv == \A b \in Builds : OwnerInvOf(b)

(* All that OwnerInvOf reads of a build. *)
Own(b) == <<status[b], lease[b], owner[b], worker[b], stale[b], recovery[b]>>

StepOf(b) ==
  \/ Request(b) \/ CloseCancelled(b)
  \/ EnterAdmission(b) \/ AdmissionStep(b) \/ KeepWaiting(b)
  \/ WorkerStep(b) \/ FailPreparation(b) \/ GiveSlotBack(b) \/ HostStep(b)
  \/ BeginRecovery(b) \/ RecoveryStep(b)
  \/ Fault(b)

(***************************************************************************)
(* The steps of another build leave the build alone.                       *)
(***************************************************************************)
LEMMA OthersKeepOut ==
  ASSUME TypeOK, NEW b \in Builds, NEW c \in Builds \ {b}, StepOf(c)
  PROVE  UNCHANGED Own(b)
<1> USE DEF TypeOK, StoreTypeOK, Own, buildVars, activityVars, workspaceVars, storeVars,
            processVars, hostVars
<1> USE DEF WorkerAt, RecoveryAt, AdmissionAt, WorkerOnly, RecoveryOnly, AdmissionOnly
<1>1. CASE Request(c) \/ CloseCancelled(c)
  BY <1>1 DEF Request, Submit, Cancel, CloseCancelled, RequestCloudBuild, RecordCancellation,
              AcknowledgeUnstarted
<1>2. CASE EnterAdmission(c) \/ AdmissionStep(c) \/ KeepWaiting(c)
  BY <1>2 DEF AdmissionStep, EnterAdmission, FindRoom, KeepWaiting, Refuse, RecordRejection,
              Dispatch, FindProjectClosing, LoseDispatch, CancelUnavailable, CloseUnclaimed,
              ClaimBuildExecution
<1>3. CASE WorkerStep(c) \/ FailPreparation(c) \/ GiveSlotBack(c)
  <2>1. CASE \/ AcquireExecution(c) \/ Prepare(c) \/ FailPreparation(c) \/ LockProject(c)
             \/ Activate(c) \/ RefuseForNow(c) \/ RefuseForGood(c)
    BY <2>1 DEF AcquireExecution, Prepare, FailPreparation, LockProject, Activate, RefuseForNow,
                RefuseForGood, ClaimActivity
  <2>2. CASE Defer(c) \/ CannotDefer(c) \/ Unwound(c) \/ Recheck(c) \/ EndWork(c)
    BY <2>2 DEF Defer, CannotDefer, Unwound, Recheck, EndWork, DeferUnactivatedCloudBuild,
                RecordOutcome
  <2>3. CASE \/ GiveSlotBack(c) \/ FinishWork(c) \/ CannotFinish(c) \/ SettleOutside(c)
             \/ AcknowledgeExecution(c) \/ Leave(c)
    BY <2>3 DEF GiveSlotBack, FinishWork, CannotFinish, SettleOutside, AcknowledgeExecution,
                Leave, ReleaseSlot, FinishActivity, FailInFlight, AcknowledgeFinished,
                CancelReservation
  <2> QED
    BY <1>3, <2>1, <2>2, <2>3 DEF WorkerStep
<1>4. CASE HostStep(c)
  BY <1>4 DEF HostStep, CommandStarts, CommandEnds, SendCommand, StopCommand, StopUnrecorded,
              RecordCommand, CompleteCommand
<1>5. CASE BeginRecovery(c) \/ RecoveryStep(c)
  BY <1>5 DEF RecoveryStep, BeginRecovery, RecoverFinished, RecoverReservation, RecoverNothing,
              RecoverUnowned, RecoverOwned, BeginCleanup, FinishRecovery, AcknowledgeRecovery,
              FailInFlight, CancelReservation, TakeRecoveryOwnership, FinishActivity,
              AcknowledgeFinished
<1>6. CASE Fault(c)
  BY <1>6 DEF Fault, AdmissionCrashes, RejectionIsLost, WorkerCrashes, RecoveryStops,
              WorkerLosesLocks
<1> QED
  BY <1>1, <1>2, <1>3, <1>4, <1>5, <1>6 DEF StepOf

(***************************************************************************)
(* Deletions, resizes and the operator leave every execution alone.        *)
(***************************************************************************)
LEMMA ServerKeepsOut ==
  ASSUME NEW b \in Builds,
         \/ \E p \in TornDown : AttemptDeletion(p)
         \/ \E size \in Capacities : RequestServerResize(size)
         \/ OperatorStep \/ FailOperation \/ OperatorStops
         \/ UNCHANGED vars
  PROVE  UNCHANGED Own(b)
<1> USE DEF Own, buildVars, activityVars, workspaceVars, storeVars, processVars, hostVars
<1>1. CASE \/ \E p \in TornDown : AttemptDeletion(p)
           \/ \E size \in Capacities : RequestServerResize(size)
           \/ UNCHANGED vars
  BY <1>1 DEF AttemptDeletion, SetDeletionInProgress, RequestServerResize, RequestResize, vars
<1>2. CASE OperatorStep \/ FailOperation \/ OperatorStops
  BY <1>2 DEF OperatorStep, BeginLifecycle, BeginResize, ResizeHost, RecordResources,
              CompleteOperation, ReleaseLifecycle, FailOperation, OperatorStops, ClaimLifecycle,
              UpdateOperation, UpdateResources, ReleaseActivity, OperatorOnly
<1> QED
  BY <1>1, <1>2

(***************************************************************************)
(* A cancellation leaves the lease to its worker, a draft has nothing to lose.*)
(***************************************************************************)
LEMMA OwnRequests ==
  ASSUME TypeOK, NEW b \in Builds, OwnerInvOf(b),
         \/ Submit(b) \/ Cancel(b) \/ CloseCancelled(b)
  PROVE  OwnerInvOf(b)'
<1> USE DEF TypeOK, StoreTypeOK, Statuses, Leases, Owners, WorkerSteps, RecoverySteps
<1> USE DEF OwnerInvOf, LeasedFirst, Excluded, Reserved, Undisturbed, Settled, Final, Live,
            HoldsExecution, Recovering
<1> USE DEF buildVars, activityVars, workspaceVars, storeVars, processVars, hostVars
<1> USE DEF WorkerAt, RecoveryAt, AdmissionAt, WorkerOnly, RecoveryOnly, AdmissionOnly
<1>1. CASE Submit(b)
  BY <1>1 DEF Submit, RequestCloudBuild
<1>2. CASE Cancel(b)
  BY <1>2 DEF Cancel, RecordCancellation, InFlight
<1>3. CASE CloseCancelled(b)
  BY <1>3 DEF CloseCancelled, AcknowledgeUnstarted
<1> QED
  BY <1>1, <1>2, <1>3

(***************************************************************************)
(* A dispatch starts from an open session, whose activity does not exist; a*)
(* rejection settles only a session that is still open.                    *)
(***************************************************************************)
LEMMA OwnAdmission ==
  ASSUME TypeOK, NEW b \in Builds, OwnerInvOf(b),
         \/ EnterAdmission(b) \/ FindRoom(b) \/ KeepWaiting(b) \/ Refuse(b)
         \/ RecordRejection(b) \/ Dispatch(b) \/ FindProjectClosing(b) \/ LoseDispatch(b)
         \/ CancelUnavailable(b)
  PROVE  OwnerInvOf(b)'
<1> USE DEF TypeOK, StoreTypeOK, Statuses, Leases, Owners, WorkerSteps, RecoverySteps
<1> USE DEF OwnerInvOf, LeasedFirst, Excluded, Reserved, Undisturbed, Settled, Final, Live,
            HoldsExecution, Recovering
<1> USE DEF buildVars, activityVars, workspaceVars, storeVars, processVars, hostVars
<1> USE DEF WorkerAt, RecoveryAt, AdmissionAt, WorkerOnly, RecoveryOnly, AdmissionOnly
<1>1. CASE EnterAdmission(b)
  BY <1>1 DEF EnterAdmission
<1>2. CASE FindRoom(b)
  BY <1>2 DEF FindRoom
<1>3. CASE KeepWaiting(b)
  BY <1>3 DEF KeepWaiting
<1>4. CASE Refuse(b)
  BY <1>4 DEF Refuse
<1>5. CASE RecordRejection(b)
  BY <1>5 DEF RecordRejection, CloseUnclaimed, Refusable
<1>6. CASE Dispatch(b)
  BY <1>6 DEF Dispatch, ClaimBuildExecution, Claimable
<1>7. CASE FindProjectClosing(b)
  BY <1>7 DEF FindProjectClosing
<1>8. CASE LoseDispatch(b)
  BY <1>8 DEF LoseDispatch
<1>9. CASE CancelUnavailable(b)
  BY <1>9 DEF CancelUnavailable, CloseUnclaimed, Refusable
<1> QED
  BY <1>1, <1>2, <1>3, <1>4, <1>5, <1>6, <1>7, <1>8, <1>9

(***************************************************************************)
(* The worker takes the lock when no recovery is under way, and gives up its*)
(* reservation, its activity and its lease in that order.                  *)
(***************************************************************************)
LEMMA OwnWork ==
  ASSUME TypeOK, NEW b \in Builds, OwnerInvOf(b),
         \/ AcquireExecution(b) \/ Prepare(b) \/ FailPreparation(b) \/ LockProject(b)
         \/ Activate(b) \/ RefuseForNow(b) \/ RefuseForGood(b) \/ Defer(b) \/ CannotDefer(b)
         \/ Unwound(b) \/ Recheck(b) \/ EndWork(b) \/ GiveSlotBack(b) \/ FinishWork(b)
         \/ CannotFinish(b) \/ SettleOutside(b) \/ AcknowledgeExecution(b) \/ Leave(b)
  PROVE  OwnerInvOf(b)'
<1> USE DEF TypeOK, StoreTypeOK, Statuses, Leases, Owners, WorkerSteps, RecoverySteps
<1> USE DEF OwnerInvOf, LeasedFirst, Excluded, Reserved, Undisturbed, Settled, Final, Live,
            HoldsExecution, Recovering
<1> USE DEF buildVars, activityVars, workspaceVars, storeVars, processVars, hostVars
<1> USE DEF WorkerAt, RecoveryAt, AdmissionAt, WorkerOnly, RecoveryOnly, AdmissionOnly
<1>1. CASE AcquireExecution(b)
  BY <1>1 DEF AcquireExecution, ExecutionFree
<1>2. CASE Prepare(b)
  BY <1>2 DEF Prepare
<1>3. CASE FailPreparation(b)
  BY <1>3 DEF FailPreparation
<1>4. CASE LockProject(b)
  BY <1>4 DEF LockProject
<1>5. CASE Activate(b)
  BY <1>5 DEF Activate, ClaimActivity
<1>6. CASE RefuseForNow(b)
  BY <1>6 DEF RefuseForNow
<1>7. CASE RefuseForGood(b)
  BY <1>7 DEF RefuseForGood
<1>8. CASE Defer(b)
  BY <1>8 DEF Defer, DeferUnactivatedCloudBuild, Deferrable
<1>9. CASE CannotDefer(b)
  BY <1>9 DEF CannotDefer
<1>10. CASE Unwound(b)
  BY <1>10 DEF Unwound
<1>11. CASE Recheck(b)
  BY <1>11 DEF Recheck, WorkFor
<1>12. CASE EndWork(b)
  BY <1>12 DEF EndWork, RecordOutcome
<1>13. CASE GiveSlotBack(b)
  BY <1>13 DEF GiveSlotBack, ReleaseSlot
<1>14. CASE FinishWork(b)
  BY <1>14 DEF FinishWork, FinishActivity, Finishable, Token
<1>15. CASE CannotFinish(b)
  BY <1>15 DEF CannotFinish
<1>16. CASE SettleOutside(b)
  BY <1>16 DEF SettleOutside, FailInFlight, InFlight
<1>17. CASE AcknowledgeExecution(b)
  BY <1>17 DEF AcknowledgeExecution, AcknowledgeFinished
<1>18. CASE Leave(b)
  BY <1>18 DEF Leave, CancelReservation
<1> QED
  BY <1>1, <1>2, <1>3, <1>4, <1>5, <1>6, <1>7, <1>8, <1>9, <1>10, <1>11, <1>12, <1>13, <1>14,
     <1>15, <1>16, <1>17, <1>18

(***************************************************************************)
(* A recovery starts only without a live worker, and settles the row before it*)
(* ends the activity.                                                      *)
(***************************************************************************)
LEMMA OwnRecovery ==
  ASSUME TypeOK, NEW b \in Builds, OwnerInvOf(b),
         \/ BeginRecovery(b) \/ RecoverFinished(b) \/ RecoverReservation(b)
         \/ RecoverNothing(b) \/ RecoverUnowned(b) \/ RecoverOwned(b) \/ BeginCleanup(b)
         \/ FinishRecovery(b) \/ AcknowledgeRecovery(b)
  PROVE  OwnerInvOf(b)'
<1> USE DEF TypeOK, StoreTypeOK, Statuses, Leases, Owners, WorkerSteps, RecoverySteps
<1> USE DEF OwnerInvOf, LeasedFirst, Excluded, Reserved, Undisturbed, Settled, Final, Live,
            HoldsExecution, Recovering
<1> USE DEF buildVars, activityVars, workspaceVars, storeVars, processVars, hostVars
<1> USE DEF WorkerAt, RecoveryAt, AdmissionAt, WorkerOnly, RecoveryOnly, AdmissionOnly
<1>1. CASE BeginRecovery(b)
  BY <1>1 DEF BeginRecovery, Abandoned, ExecutionFree
<1>2. CASE RecoverFinished(b)
  BY <1>2 DEF RecoverFinished, FailInFlight, InFlight
<1>3. CASE RecoverReservation(b)
  BY <1>3 DEF RecoverReservation, FailInFlight, InFlight
<1>4. CASE RecoverNothing(b)
  BY <1>4 DEF RecoverNothing
<1>5. CASE RecoverUnowned(b)
  BY <1>5 DEF RecoverUnowned, CancelReservation
<1>6. CASE RecoverOwned(b)
  BY <1>6 DEF RecoverOwned, TakeRecoveryOwnership, Owned
<1>7. CASE BeginCleanup(b)
  BY <1>7 DEF BeginCleanup, FailInFlight, InFlight, Token
<1>8. CASE FinishRecovery(b)
  BY <1>8 DEF FinishRecovery, FinishActivity, Finishable, Token
<1>9. CASE AcknowledgeRecovery(b)
  BY <1>9 DEF AcknowledgeRecovery, AcknowledgeFinished
<1> QED
  BY <1>1, <1>2, <1>3, <1>4, <1>5, <1>6, <1>7, <1>8, <1>9

(***************************************************************************)
(* A process that stops changes no row; a worker without its session is not*)
(* live any more.                                                          *)
(***************************************************************************)
LEMMA OwnFaults ==
  ASSUME TypeOK, NEW b \in Builds, OwnerInvOf(b),
         \/ AdmissionCrashes(b) \/ RejectionIsLost(b) \/ WorkerCrashes(b)
         \/ RecoveryStops(b) \/ WorkerLosesLocks(b)
  PROVE  OwnerInvOf(b)'
<1> USE DEF TypeOK, StoreTypeOK, Statuses, Leases, Owners, WorkerSteps, RecoverySteps
<1> USE DEF OwnerInvOf, LeasedFirst, Excluded, Reserved, Undisturbed, Settled, Final, Live,
            HoldsExecution, Recovering
<1> USE DEF buildVars, activityVars, workspaceVars, storeVars, processVars, hostVars
<1> USE DEF WorkerAt, RecoveryAt, AdmissionAt, WorkerOnly, RecoveryOnly, AdmissionOnly
<1>1. CASE AdmissionCrashes(b)
  BY <1>1 DEF AdmissionCrashes
<1>2. CASE RejectionIsLost(b)
  BY <1>2 DEF RejectionIsLost
<1>3. CASE WorkerCrashes(b)
  BY <1>3 DEF WorkerCrashes
<1>4. CASE RecoveryStops(b)
  BY <1>4 DEF RecoveryStops
<1>5. CASE WorkerLosesLocks(b)
  BY <1>5 DEF WorkerLosesLocks
<1> QED
  BY <1>1, <1>2, <1>3, <1>4, <1>5

(***************************************************************************)
(* The invariant of ownership.                                             *)
(***************************************************************************)
LEMMA OwnerInductive == Spec => []OwnerInv
<1>1. Init => OwnerInv
  BY DEF Init, StoreInit, OwnerInv, OwnerInvOf, LeasedFirst, Excluded, Reserved, Undisturbed,
         Settled, HoldsExecution, Recovering, Live
<1>2. ASSUME TypeOK, OwnerInv, [Next]_vars PROVE OwnerInv'
  <2>1. ASSUME NEW b \in Builds, UNCHANGED Own(b) PROVE OwnerInvOf(b)'
    BY <1>2, <2>1 DEF OwnerInv, OwnerInvOf, Own, LeasedFirst, Excluded, Reserved, Undisturbed,
                      Settled, HoldsExecution, Recovering, Live
  <2>2. ASSUME NEW b \in Builds, StepOf(b) PROVE OwnerInvOf(b)'
    <3>1. HostStep(b) => UNCHANGED Own(b)
      BY DEF HostStep, CommandStarts, CommandEnds, SendCommand, StopCommand, StopUnrecorded,
             RecordCommand, CompleteCommand, Own, buildVars, activityVars, workspaceVars,
             storeVars, processVars
    <3> QED
      BY <1>2, <2>1, <2>2, <3>1, OwnRequests, OwnAdmission, OwnWork, OwnRecovery, OwnFaults
         DEF OwnerInv, StepOf, Request, AdmissionStep, WorkerStep, RecoveryStep, Fault
  <2>3. ASSUME NEW b \in Builds PROVE OwnerInvOf(b)'
    <3>1. CASE \E c \in Builds : StepOf(c)
      BY <1>2, <2>1, <2>2, <3>1, OthersKeepOut
    <3>2. CASE ~ \E c \in Builds : StepOf(c)
      BY <1>2, <2>1, <3>2, ServerKeepsOut DEF Next, StepOf
    <3> QED
      BY <3>1, <3>2
  <2> QED
    BY <2>3 DEF OwnerInv
<1> QED
  BY <1>1, <1>2, CloudTypeCorrect, PTL DEF Spec

(***************************************************************************)
(* No recovery, rejection or other worker takes the activity or settles    *)
(* the row of a worker that still has its lock session.                    *)
(***************************************************************************)
THEOREM OwnersAreUndisturbed == Spec => []OwnerUndisturbed
<1>1. OwnerInv => OwnerUndisturbed
  BY DEF OwnerInv, OwnerInvOf, Undisturbed, OwnerUndisturbed
<1> QED
  BY <1>1, OwnerInductive, PTL

-----------------------------------------------------------------------------
(* Outcomes. *)

(***************************************************************************)
(* What a step of a build may not undo: a settled row, unless a stale      *)
(* worker writes, a closed session, a finished or an active activity.      *)
(***************************************************************************)
Kept(b) ==
  /\ status[b] \in Final => status'[b] = status[b] \/ stale[b]
  /\ lease[b] = "closed" => lease'[b] = "closed"
  /\ owner[b] = "finished" => owner'[b] = "finished"
  /\ Owned(b) => owner'[b] # "absent"

(* A step about a build keeps what is final of it. *)
LEMMA StepsKeep ==
  ASSUME TypeOK, NEW b \in Builds, OwnerInvOf(b), StepOf(b)
  PROVE  Kept(b)
<1> USE DEF TypeOK, StoreTypeOK, Kept, Final, Owned
<1> USE DEF buildVars, activityVars, workspaceVars, storeVars, processVars, hostVars
<1> USE DEF WorkerAt, RecoveryAt, AdmissionAt, WorkerOnly, RecoveryOnly, AdmissionOnly
<1>1. CASE Request(b) \/ CloseCancelled(b)
  BY <1>1 DEF Request, Submit, Cancel, CloseCancelled, RequestCloudBuild, RecordCancellation,
              InFlight, AcknowledgeUnstarted
<1>2. CASE EnterAdmission(b) \/ AdmissionStep(b) \/ KeepWaiting(b)
  BY <1>2 DEF AdmissionStep, EnterAdmission, FindRoom, KeepWaiting, Refuse, RecordRejection,
              Dispatch, FindProjectClosing, LoseDispatch, CancelUnavailable, CloseUnclaimed,
              Refusable, ClaimBuildExecution, Claimable
<1>3. CASE EndWork(b)
  BY <1>3 DEF EndWork, RecordOutcome, OwnerInvOf, Undisturbed, Live, HoldsExecution
<1>4. CASE Defer(b)
  BY <1>4 DEF Defer, DeferUnactivatedCloudBuild, Deferrable
<1>5. CASE \/ AcquireExecution(b) \/ Prepare(b) \/ FailPreparation(b) \/ LockProject(b)
           \/ Activate(b) \/ RefuseForNow(b) \/ RefuseForGood(b) \/ CannotDefer(b) \/ Unwound(b)
           \/ Recheck(b) \/ GiveSlotBack(b)
  BY <1>5 DEF AcquireExecution, Prepare, FailPreparation, LockProject, Activate, RefuseForNow,
              RefuseForGood, CannotDefer, Unwound, Recheck, GiveSlotBack, ClaimActivity,
              ReleaseSlot
<1>6. CASE \/ FinishWork(b) \/ CannotFinish(b) \/ SettleOutside(b) \/ AcknowledgeExecution(b)
           \/ Leave(b)
  BY <1>6 DEF FinishWork, CannotFinish, SettleOutside, AcknowledgeExecution, Leave,
              FinishActivity, FailInFlight, InFlight, AcknowledgeFinished, CancelReservation
<1>7. CASE HostStep(b)
  BY <1>7 DEF HostStep, CommandStarts, CommandEnds, SendCommand, StopCommand, StopUnrecorded,
              RecordCommand, CompleteCommand
<1>8. CASE BeginRecovery(b) \/ RecoveryStep(b)
  BY <1>8 DEF RecoveryStep, BeginRecovery, RecoverFinished, RecoverReservation, RecoverNothing,
              RecoverUnowned, RecoverOwned, BeginCleanup, FinishRecovery, AcknowledgeRecovery,
              FailInFlight, InFlight, CancelReservation, TakeRecoveryOwnership, FinishActivity,
              AcknowledgeFinished
<1>9. CASE Fault(b)
  BY <1>9 DEF Fault, AdmissionCrashes, RejectionIsLost, WorkerCrashes, RecoveryStops,
              WorkerLosesLocks
<1> QED
  BY <1>1, <1>2, <1>3, <1>4, <1>5, <1>6, <1>7, <1>8, <1>9 DEF StepOf, WorkerStep

(* So does any other step, which leaves all of it alone. *)
LEMMA EveryStepKeeps ==
  ASSUME TypeOK, OwnerInv, [Next]_vars, NEW b \in Builds
  PROVE  Kept(b)
<1>1. UNCHANGED Own(b) => Kept(b)
  BY DEF Own, Kept, Owned
<1>2. CASE StepOf(b)
  BY <1>2, StepsKeep DEF OwnerInv
<1>3. CASE \E c \in Builds \ {b} : StepOf(c)
  BY <1>1, <1>3, OthersKeepOut
<1>4. CASE ~ \E c \in Builds : StepOf(c)
  BY <1>1, <1>4, ServerKeepsOut DEF Next, StepOf
<1> QED
  BY <1>2, <1>3, <1>4

(***************************************************************************)
(* A cancelled, failed or recovered build never comes back and never       *)
(* becomes a release, except by a worker that lost its lock session.       *)
(***************************************************************************)
THEOREM OutcomesAreFinal == Spec => OutcomeFinal
<1>1. ASSUME TypeOK, OwnerInv, [Next]_vars
      PROVE  \A b \in Builds :
               status[b] \in {"ready", "failed", "cancelled"}
                 => status'[b] = status[b] \/ stale[b]
  BY <1>1, EveryStepKeeps DEF Kept, Final
<1> QED
  BY <1>1, OwnerInductive, CloudTypeCorrect, PTL DEF Spec, OutcomeFinal

(***************************************************************************)
(* A closed session never reopens, and an activity is never reused.        *)
(***************************************************************************)
THEOREM ClosedStaysClosed == Spec => ClosedForGood
<1>1. ASSUME TypeOK, OwnerInv, [Next]_vars
      PROVE  \A b \in Builds :
               /\ lease[b] = "closed" => lease'[b] = "closed"
               /\ owner[b] = "finished" => owner'[b] = "finished"
               /\ Owned(b) => owner'[b] # "absent"
  BY <1>1, EveryStepKeeps DEF Kept
<1> QED
  BY <1>1, OwnerInductive, CloudTypeCorrect, PTL DEF Spec, ClosedForGood

-----------------------------------------------------------------------------
(* Leases, where no deletion of a project is attempted. *)

(***************************************************************************)
(* A row that says "building" is leased, and the worker that closes the    *)
(* lease knows that the row says something else.                           *)
(***************************************************************************)
LeaseInvOf(b) ==
  /\ status[b] = "building" => lease[b] = "held"
  /\ worker[b] \in {"acking", "leaving"} => status[b] # "building"

NoneFenced == \A p \in Projects : ~fenced[p]

(* Where no project is fenced, a building row keeps its held lease. *)
LEMMA LeaseKept ==
  ASSUME TypeOK, NoneFenced, NEW b \in Builds, OwnerInvOf(b), LeaseInvOf(b), StepOf(b)
  PROVE  LeaseInvOf(b)'
<1> USE ProjectAssumption
<1> USE DEF TypeOK, StoreTypeOK, LeaseInvOf, buildVars, activityVars, workspaceVars, storeVars,
            processVars, hostVars
<1> USE DEF WorkerAt, RecoveryAt, AdmissionAt, WorkerOnly, RecoveryOnly, AdmissionOnly
<1>1. CASE Request(b) \/ CloseCancelled(b)
  BY <1>1 DEF Request, Submit, Cancel, CloseCancelled, RequestCloudBuild, RecordCancellation,
              AcknowledgeUnstarted
<1>2. CASE EnterAdmission(b) \/ AdmissionStep(b) \/ KeepWaiting(b)
  BY <1>2 DEF AdmissionStep, EnterAdmission, FindRoom, KeepWaiting, Refuse, RecordRejection,
              Dispatch, FindProjectClosing, LoseDispatch, CancelUnavailable, CloseUnclaimed,
              Refusable, ClaimBuildExecution, Claimable
<1>3. CASE CannotDefer(b)
  BY <1>3 DEF CannotDefer, Deferrable, NoneFenced, OwnerInvOf, Reserved
<1>4. CASE \/ AcquireExecution(b) \/ Prepare(b) \/ FailPreparation(b) \/ LockProject(b)
           \/ Activate(b) \/ RefuseForNow(b) \/ RefuseForGood(b) \/ Defer(b) \/ Unwound(b)
           \/ Recheck(b) \/ EndWork(b) \/ GiveSlotBack(b)
  BY <1>4 DEF AcquireExecution, Prepare, FailPreparation, LockProject, Activate, RefuseForNow,
              RefuseForGood, Defer, Unwound, Recheck, WorkFor, EndWork, GiveSlotBack,
              ClaimActivity, DeferUnactivatedCloudBuild, RecordOutcome, ReleaseSlot
<1>5. CASE \/ FinishWork(b) \/ CannotFinish(b) \/ SettleOutside(b) \/ AcknowledgeExecution(b)
           \/ Leave(b)
  BY <1>5 DEF FinishWork, CannotFinish, SettleOutside, AcknowledgeExecution, Leave,
              FinishActivity, FailInFlight, InFlight, AcknowledgeFinished, CancelReservation
<1>6. CASE HostStep(b)
  BY <1>6 DEF HostStep, CommandStarts, CommandEnds, SendCommand, StopCommand, StopUnrecorded,
              RecordCommand, CompleteCommand
<1>7. CASE BeginRecovery(b) \/ RecoveryStep(b)
  BY <1>7 DEF RecoveryStep, BeginRecovery, RecoverFinished, RecoverReservation, RecoverNothing,
              RecoverUnowned, RecoverOwned, BeginCleanup, FinishRecovery, AcknowledgeRecovery,
              FailInFlight, InFlight, CancelReservation, TakeRecoveryOwnership, FinishActivity,
              AcknowledgeFinished, OwnerInvOf, Settled, Final
<1>8. CASE Fault(b)
  BY <1>8 DEF Fault, AdmissionCrashes, RejectionIsLost, WorkerCrashes, RecoveryStops,
              WorkerLosesLocks
<1> QED
  BY <1>1, <1>2, <1>3, <1>4, <1>5, <1>6, <1>7, <1>8 DEF StepOf, WorkerStep

(***************************************************************************)
(* The fence of a project moves only with a deletion.                      *)
(***************************************************************************)
LEMMA FencesStand ==
  ASSUME TypeOK, TornDown = {}, [Next]_vars
  PROVE  UNCHANGED fenced
<1> USE DEF buildVars, activityVars, workspaceVars, storeVars, processVars, hostVars
<1> USE DEF WorkerOnly, RecoveryOnly, AdmissionOnly, OperatorOnly
<1>1. ASSUME NEW b \in Builds,
             \/ Request(b) \/ CloseCancelled(b)
             \/ EnterAdmission(b) \/ AdmissionStep(b) \/ KeepWaiting(b)
      PROVE  UNCHANGED fenced
  BY <1>1 DEF Request, Submit, Cancel, CloseCancelled, RequestCloudBuild, RecordCancellation,
              AcknowledgeUnstarted, AdmissionStep, EnterAdmission, FindRoom, KeepWaiting, Refuse,
              RecordRejection, Dispatch, FindProjectClosing, LoseDispatch, CancelUnavailable,
              CloseUnclaimed, ClaimBuildExecution
<1>2. ASSUME NEW b \in Builds, WorkerStep(b) \/ FailPreparation(b) \/ GiveSlotBack(b)
      PROVE  UNCHANGED fenced
  BY <1>2 DEF WorkerStep, AcquireExecution, Prepare, FailPreparation, LockProject, Activate,
              RefuseForNow, RefuseForGood, Defer, CannotDefer, Unwound, Recheck, EndWork,
              GiveSlotBack, FinishWork, CannotFinish, SettleOutside, AcknowledgeExecution, Leave,
              ClaimActivity, DeferUnactivatedCloudBuild, RecordOutcome, ReleaseSlot,
              FinishActivity, AcknowledgeFinished, CancelReservation
<1>3. ASSUME NEW b \in Builds, HostStep(b) PROVE UNCHANGED fenced
  BY <1>3 DEF HostStep, CommandStarts, CommandEnds, SendCommand, StopCommand, StopUnrecorded,
              RecordCommand, CompleteCommand
<1>4. ASSUME NEW b \in Builds, BeginRecovery(b) \/ RecoveryStep(b) \/ Fault(b)
      PROVE  UNCHANGED fenced
  BY <1>4 DEF RecoveryStep, BeginRecovery, RecoverFinished, RecoverReservation, RecoverNothing,
              RecoverUnowned, RecoverOwned, BeginCleanup, FinishRecovery, AcknowledgeRecovery,
              CancelReservation, TakeRecoveryOwnership, FinishActivity, AcknowledgeFinished,
              Fault, AdmissionCrashes, RejectionIsLost, WorkerCrashes, RecoveryStops,
              WorkerLosesLocks
<1>5. CASE OperatorStep \/ FailOperation \/ OperatorStops
  BY <1>5 DEF OperatorStep, BeginLifecycle, BeginResize, ResizeHost, RecordResources,
              CompleteOperation, ReleaseLifecycle, FailOperation, OperatorStops, ClaimLifecycle,
              UpdateOperation, UpdateResources, ReleaseActivity
<1>6. (\E size \in Capacities : RequestServerResize(size)) \/ UNCHANGED vars
        => UNCHANGED fenced
  BY DEF RequestServerResize, RequestResize, vars
<1> QED
  BY <1>1, <1>2, <1>3, <1>4, <1>5, <1>6 DEF Next

(***************************************************************************)
(* Where no deletion is attempted, every build that says it is building    *)
(* has a lease that a worker or a sweep will close. The run LostDeferral   *)
(* shows that the condition is needed.                                     *)
(***************************************************************************)
THEOREM BuildingsAreLeased ==
  ASSUME TornDown = {}
  PROVE  Spec => []BuildingIsLeased
<1> DEFINE LeaseInv == NoneFenced /\ \A b \in Builds : LeaseInvOf(b)
<1>1. Init => LeaseInv
  BY DEF Init, StoreInit, NoneFenced, LeaseInvOf
<1>2. ASSUME TypeOK, OwnerInv, LeaseInv, [Next]_vars PROVE LeaseInv'
  <2>1. NoneFenced'
    BY <1>2, FencesStand DEF NoneFenced
  <2>2. ASSUME NEW b \in Builds, UNCHANGED Own(b) PROVE LeaseInvOf(b)'
    BY <1>2, <2>2 DEF Own, LeaseInvOf
  <2>3. ASSUME NEW b \in Builds PROVE LeaseInvOf(b)'
    <3>1. CASE StepOf(b)
      BY <1>2, <3>1, LeaseKept DEF OwnerInv
    <3>2. CASE \E c \in Builds \ {b} : StepOf(c)
      BY <1>2, <2>2, <3>2, OthersKeepOut
    <3>3. CASE ~ \E c \in Builds : StepOf(c)
      BY <1>2, <2>2, <3>3, ServerKeepsOut DEF Next, StepOf
    <3> QED
      BY <3>1, <3>2, <3>3
  <2> QED
    BY <2>1, <2>3
<1>3. LeaseInv => BuildingIsLeased
  BY DEF LeaseInvOf, BuildingIsLeased
<1> HIDE DEF LeaseInv
<1> QED
  BY <1>1, <1>2, <1>3, OwnerInductive, CloudTypeCorrect, PTL DEF Spec

-----------------------------------------------------------------------------

(* The admission lock of the workspace has one holder. *)
OneAdmission ==
  \A b, c \in Builds : admission[b] # "idle" /\ admission[c] # "idle" => b = c

(* What an admission has found stays true until it reserves. *)
RoomKept ==
  \A b \in Builds :
    admission[b] = "admitting" =>
      PreparationIsolated(b) /\ (Sized(b) => Cardinality(Slots) < Limit)

(* A build that takes a backup first shares the server with no other. *)
Apart ==
  \A b, c \in Builds : Unfinished(b) /\ Unfinished(c) /\ b # c => b \notin Backed

QueueInv == OneAdmission /\ RoomKept /\ PlanHonoured /\ Apart

-----------------------------------------------------------------------------

(* No activity begins, and no slot that was given back is taken again. *)
GivesBack ==
  \A c \in Builds : /\ Unfinished(c)' => Unfinished(c)
                    /\ released[c] => released'[c]

(* Admissions begin under a free lock; none has found room by this step. *)
QueuesUp ==
  \A b \in Builds :
    /\ admission'[b] = "admitting" => admission[b] = "admitting"
    /\ admission[b] = "idle" /\ admission'[b] # "idle" =>
         \A c \in Builds \ {b} : admission[c] = "idle" /\ admission'[c] = "idle"

(***************************************************************************)
(* Only a dispatch makes a reservation, and only FindRoom lets one happen. *)
(***************************************************************************)
LEMMA MostStepsGiveBack ==
  ASSUME TypeOK, NEW b \in Builds, StepOf(b), ~Dispatch(b), ~FindRoom(b)
  PROVE  GivesBack /\ QueuesUp
<1> USE DEF TypeOK, StoreTypeOK, GivesBack, QueuesUp, Unfinished, Owned
<1> USE DEF buildVars, activityVars, workspaceVars, storeVars, processVars, hostVars
<1> USE DEF WorkerOnly, RecoveryOnly, AdmissionOnly, AdmissionAt
<1>1. CASE Request(b) \/ CloseCancelled(b)
  BY <1>1 DEF Request, Submit, Cancel, CloseCancelled, RequestCloudBuild, RecordCancellation,
              AcknowledgeUnstarted
<1>2. CASE EnterAdmission(b)
  BY <1>2 DEF EnterAdmission, AdmissionFree, Admitting
<1>3. CASE KeepWaiting(b) \/ AdmissionStep(b)
  BY <1>3 DEF AdmissionStep, KeepWaiting, Refuse, RecordRejection, FindProjectClosing,
              LoseDispatch, CancelUnavailable, CloseUnclaimed
<1>4. CASE \/ AcquireExecution(b) \/ Prepare(b) \/ FailPreparation(b) \/ LockProject(b)
           \/ Activate(b) \/ RefuseForNow(b) \/ RefuseForGood(b) \/ Defer(b) \/ CannotDefer(b)
           \/ Unwound(b) \/ Recheck(b)
  BY <1>4 DEF AcquireExecution, Prepare, FailPreparation, LockProject, Activate, RefuseForNow,
              RefuseForGood, Defer, CannotDefer, Unwound, Recheck, ClaimActivity,
              DeferUnactivatedCloudBuild
<1>5. CASE \/ EndWork(b) \/ GiveSlotBack(b) \/ FinishWork(b) \/ CannotFinish(b)
           \/ SettleOutside(b) \/ AcknowledgeExecution(b) \/ Leave(b)
  BY <1>5 DEF EndWork, GiveSlotBack, FinishWork, CannotFinish, SettleOutside,
              AcknowledgeExecution, Leave, RecordOutcome, ReleaseSlot, FinishActivity,
              AcknowledgeFinished, CancelReservation
<1>6. CASE HostStep(b)
  BY <1>6 DEF HostStep, CommandStarts, CommandEnds, SendCommand, StopCommand, StopUnrecorded,
              RecordCommand, CompleteCommand
<1>7. CASE BeginRecovery(b) \/ RecoveryStep(b)
  BY <1>7 DEF RecoveryStep, BeginRecovery, RecoverFinished, RecoverReservation, RecoverNothing,
              RecoverUnowned, RecoverOwned, BeginCleanup, FinishRecovery, AcknowledgeRecovery,
              CancelReservation, TakeRecoveryOwnership, FinishActivity, AcknowledgeFinished
<1>8. CASE Fault(b)
  BY <1>8 DEF Fault, AdmissionCrashes, RejectionIsLost, WorkerCrashes, RecoveryStops,
              WorkerLosesLocks
<1> QED
  BY <1>1, <1>2, <1>3, <1>4, <1>5, <1>6, <1>7, <1>8 DEF StepOf, WorkerStep

(***************************************************************************)
(* Neither do deletions, resizes and the operator.                         *)
(***************************************************************************)
LEMMA ServerGivesBack ==
  ASSUME \/ \E p \in TornDown : AttemptDeletion(p)
         \/ \E size \in Capacities : RequestServerResize(size)
         \/ OperatorStep \/ FailOperation \/ OperatorStops
         \/ UNCHANGED vars
  PROVE  GivesBack /\ QueuesUp
<1> USE DEF GivesBack, QueuesUp, Unfinished, Owned
<1> USE DEF buildVars, activityVars, workspaceVars, storeVars, processVars, hostVars
<1>1. CASE \/ \E p \in TornDown : AttemptDeletion(p)
           \/ \E size \in Capacities : RequestServerResize(size)
           \/ UNCHANGED vars
  BY <1>1 DEF AttemptDeletion, SetDeletionInProgress, RequestServerResize, RequestResize, vars
<1>2. CASE OperatorStep \/ FailOperation \/ OperatorStops
  BY <1>2 DEF OperatorStep, BeginLifecycle, BeginResize, ResizeHost, RecordResources,
              CompleteOperation, ReleaseLifecycle, FailOperation, OperatorStops, ClaimLifecycle,
              UpdateOperation, UpdateResources, ReleaseActivity, OperatorOnly
<1> QED
  BY <1>1, <1>2

(* Counting slots. *)
LEMMA SlotsCounted ==
  /\ IsFiniteSet(Slots) /\ Cardinality(Slots) \in Nat
  /\ \A S : S \subseteq Slots => Cardinality(S) \in Nat /\ Cardinality(S) <= Cardinality(Slots)
  /\ \A b : Cardinality(Slots \cup {b}) \in Nat
            /\ Cardinality(Slots \cup {b}) <= Cardinality(Slots) + 1
<1>1. IsFiniteSet(Slots)
  BY BuildsAssumption, FS_Subset DEF Slots
<1>2. Cardinality(Slots) \in Nat
  BY <1>1, FS_CardinalityType
<1>3. ASSUME NEW S, S \subseteq Slots
      PROVE  Cardinality(S) \in Nat /\ Cardinality(S) <= Cardinality(Slots)
  BY <1>1, <1>3, FS_Subset, FS_CardinalityType
<1>4. ASSUME NEW b
      PROVE  /\ Cardinality(Slots \cup {b}) \in Nat
             /\ Cardinality(Slots \cup {b}) <= Cardinality(Slots) + 1
  BY <1>1, <1>2, FS_AddElement
<1> QED
  BY <1>1, <1>2, <1>3, <1>4

(***************************************************************************)
(* A step that gives back keeps what the queue relies on.                  *)
(***************************************************************************)
LEMMA GivingBackKeepsQueue ==
  ASSUME TypeOK, QueueInv, GivesBack, QueuesUp
  PROVE  QueueInv'
<1> USE DEF TypeOK, StoreTypeOK
<1>1. Slots' \subseteq Slots
  BY DEF GivesBack, Slots, Sized
<1>2. Cardinality(Slots)' \in Nat /\ Cardinality(Slots)' <= Cardinality(Slots)
  BY <1>1, SlotsCounted
<1>3. OneAdmission'
  BY DEF QueueInv, OneAdmission, QueuesUp
<1>4. RoomKept'
  BY <1>2, SlotsCounted, LimitAssumption
     DEF QueueInv, RoomKept, QueuesUp, GivesBack, PreparationIsolated, Sized
<1>5. PlanHonoured'
  BY <1>2, SlotsCounted, LimitAssumption DEF QueueInv, PlanHonoured
<1>6. Apart'
  BY DEF QueueInv, Apart, GivesBack
<1> QED
  BY <1>3, <1>4, <1>5, <1>6 DEF QueueInv

(***************************************************************************)
(* An admission looks for room under the lock that nobody else holds.      *)
(***************************************************************************)
LEMMA FindingRoomKeepsQueue ==
  ASSUME TypeOK, QueueInv, NEW b \in Builds, FindRoom(b)
  PROVE  QueueInv'
<1> USE DEF TypeOK, StoreTypeOK
<1>1. /\ InTurn(b)
      /\ admission[b] = "reading" /\ admission' = [admission EXCEPT ![b] = "admitting"]
      /\ UNCHANGED <<owner, released>>
  BY DEF FindRoom, AdmissionAt, storeVars, activityVars
<1>2. Slots' = Slots /\ \A c \in Builds : Unfinished(c)' <=> Unfinished(c)
  BY <1>1 DEF Slots, Unfinished, Owned
<1>3. OneAdmission' /\ PlanHonoured' /\ Apart'
  BY <1>1, <1>2 DEF QueueInv, OneAdmission, PlanHonoured, Apart
<1>4. RoomKept'
  BY <1>1, <1>2 DEF QueueInv, OneAdmission, RoomKept, InTurn, PreparationIsolated, SlotFree,
                    Sized
<1> QED
  BY <1>3, <1>4 DEF QueueInv

(***************************************************************************)
(* The reservation of a dispatch fits, since its admission still holds the *)
(* lock under which it counted.                                            *)
(***************************************************************************)
LEMMA DispatchKeepsQueue ==
  ASSUME TypeOK, OwnerInv, QueueInv, NEW b \in Builds, Dispatch(b)
  PROVE  QueueInv'
<1> USE DEF TypeOK, StoreTypeOK
<1>1. /\ admission[b] = "admitting" /\ admission' = [admission EXCEPT ![b] = "idle"]
      /\ owner[b] = "absent" /\ owner' = [owner EXCEPT ![b] = "reserved"]
      /\ released' = released
  BY DEF Dispatch, AdmissionAt, ClaimBuildExecution, Claimable, OwnerInv, OwnerInvOf, LeasedFirst
<1>2. OneAdmission' /\ RoomKept'
  BY <1>1 DEF QueueInv, OneAdmission, RoomKept
<1>3. PlanHonoured'
  <2>1. CASE Sized(b)
    <3>1. Slots' \subseteq Slots \cup {b}
      BY <1>1 DEF Slots, Sized, Unfinished, Owned
    <3>2. IsFiniteSet(Slots \cup {b})
      BY SlotsCounted, FS_AddElement
    <3>3. /\ Cardinality(Slots)' \in Nat
          /\ Cardinality(Slots)' <= Cardinality(Slots \cup {b})
      BY <3>1, <3>2, FS_Subset, FS_CardinalityType
    <3>4. Cardinality(Slots) < Limit
      BY <1>1, <2>1 DEF QueueInv, RoomKept
    <3>5. /\ Cardinality(Slots) \in Nat
          /\ Cardinality(Slots \cup {b}) \in Nat
          /\ Cardinality(Slots \cup {b}) <= Cardinality(Slots) + 1
      BY SlotsCounted
    <3> QED
      BY <3>3, <3>4, <3>5, LimitAssumption DEF PlanHonoured
  <2>2. CASE ~Sized(b)
    <3>1. Slots' = Slots
      BY <1>1, <2>2 DEF Slots, Sized, Unfinished, Owned
    <3> QED
      BY <3>1 DEF QueueInv, PlanHonoured
  <2> QED
    BY <2>1, <2>2
<1>4. Apart'
  <2>1. PreparationIsolated(b)
    BY <1>1 DEF QueueInv, RoomKept
  <2>2. \A c \in Builds : Unfinished(c)' => Unfinished(c) \/ c = b
    BY <1>1 DEF Unfinished, Owned
  <2> QED
    BY <2>1, <2>2 DEF QueueInv, Apart, PreparationIsolated
<1> QED
  BY <1>2, <1>3, <1>4 DEF QueueInv

(***************************************************************************)
(* The invariant of the queue.                                             *)
(***************************************************************************)
LEMMA QueueInductive == Spec => []QueueInv
<1>1. Init => QueueInv
  <2>1. ASSUME Init PROVE Slots = {}
    BY <2>1 DEF Init, StoreInit, Slots, Unfinished, Owned
  <2> QED
    BY <2>1, FS_EmptySet, LimitAssumption
       DEF Init, StoreInit, QueueInv, OneAdmission, RoomKept, PlanHonoured, Apart, Unfinished,
           Owned
<1>2. ASSUME TypeOK, OwnerInv, QueueInv, [Next]_vars PROVE QueueInv'
  <2>1. CASE \E b \in Builds : StepOf(b)
    BY <1>2, <2>1, MostStepsGiveBack, GivingBackKeepsQueue, FindingRoomKeepsQueue,
       DispatchKeepsQueue
  <2>2. CASE ~ \E b \in Builds : StepOf(b)
    BY <1>2, <2>2, ServerGivesBack, GivingBackKeepsQueue DEF Next, StepOf
  <2> QED
    BY <2>1, <2>2
<1> QED
  BY <1>1, <1>2, OwnerInductive, CloudTypeCorrect, PTL DEF Spec

(***************************************************************************)
(* The reservations that carry resources never exceed the plan's limit,    *)
(* for any number of replicas, builds and faults.                          *)
(***************************************************************************)
THEOREM PlanIsHonoured == Spec => []PlanHonoured
BY QueueInductive, PTL DEF QueueInv

(***************************************************************************)
(* A worker that is about to take its backup finds no build active.        *)
(***************************************************************************)
THEOREM BackupsAreUndisturbed == Spec => []BackupUndisturbed
<1>1. OwnerInv /\ QueueInv => BackupUndisturbed
  <2> SUFFICES ASSUME OwnerInv, QueueInv, NEW b \in Backed, Live(b), worker[b] = "preparing"
               PROVE  Owning = {}
    BY DEF BackupUndisturbed
  <2>1. b \in Builds /\ owner[b] = "reserved"
    BY PoliciesAssumption DEF OwnerInv, OwnerInvOf, Reserved
  <2> QED
    BY <2>1 DEF QueueInv, Apart, Unfinished, Owned, Owning
<1> QED
  BY <1>1, QueueInductive, OwnerInductive, PTL

-----------------------------------------------------------------------------
(* Sums of demands. *)

(* A non-empty family of sets of builds has a smallest member. *)
LEMMA SmallestMember ==
  ASSUME NEW F, F \subseteq SUBSET Builds, F # {}
  PROVE  \E T \in F : \A U \in SUBSET T : U \in F => U = T
<1>1. IsWellFoundedOn(StrictSubsetOrdering(Builds), FiniteSubsetsOf(Builds))
  BY BuildsAssumption, FS_StrictSubsetOrderingWellFounded
<1>2. FiniteSubsetsOf(Builds) = SUBSET Builds
  BY BuildsAssumption, FS_FiniteSubsetsOfFinite
<1>3. PICK T \in F : \A U \in F : <<U, T>> \notin StrictSubsetOrdering(Builds)
  BY <1>1, <1>2, WFMin
<1> QED
  BY <1>3 DEF StrictSubsetOrdering

Pick(S) == CHOOSE b \in S : TRUE

(* One unfolding of the library's fold. *)
Unfold(g, S) == IF S = {} THEN 0 ELSE Demand[Pick(S)] + g[S \ {Pick(S)}]

Sums(S) == CHOOSE g : g = [T \in SUBSET S |-> Unfold(g, T)]

(* The library's fold is the solution that CHOOSE picks. *)
LEMMA LoadIsSum == \A S : Load(S) = Sums(S)[S]
BY DEF Load, MapThenSumSet, MapThenFoldSet, Sums, Unfold, Pick

Sound(g, S) == g = [T \in SUBSET S |-> Unfold(g, T)]

(* Two solutions of the recursion agree where both are defined. *)
LEMMA SolutionsAgree ==
  ASSUME NEW S \in SUBSET Builds, NEW R \in SUBSET S, NEW g, NEW h, Sound(g, S), Sound(h, R)
  PROVE  \A T \in SUBSET R : g[T] = h[T]
<1> DEFINE Bad == {T \in SUBSET R : g[T] # h[T]}
<1>1. SUFFICES ASSUME Bad # {} PROVE FALSE
  OBVIOUS
<1>2. PICK T \in Bad : \A U \in SUBSET T : U \in Bad => U = T
  <2>1. Bad \subseteq SUBSET Builds
    OBVIOUS
  <2> HIDE DEF Bad
  <2> QED
    BY <1>1, <2>1, SmallestMember
<1>3. T \in SUBSET R /\ T \in SUBSET S /\ g[T] = Unfold(g, T) /\ h[T] = Unfold(h, T)
  BY DEF Sound
<1>4. T # {}
  BY <1>3 DEF Unfold
<1>5. Pick(T) \in T
  BY <1>4 DEF Pick
<1>6. g[T \ {Pick(T)}] = h[T \ {Pick(T)}]
  BY <1>2, <1>3, <1>5
<1> QED
  BY <1>3, <1>6 DEF Unfold

(* The recursion has a solution on every set of builds. *)
LEMMA SumsAreSound == \A S \in SUBSET Builds : Sound(Sums(S), S)
<1> DEFINE Bad == {S \in SUBSET Builds : ~Sound(Sums(S), S)}
<1>1. SUFFICES ASSUME Bad # {} PROVE FALSE
  OBVIOUS
<1>2. PICK S \in Bad : \A U \in SUBSET S : U \in Bad => U = S
  <2>1. Bad \subseteq SUBSET Builds
    OBVIOUS
  <2> HIDE DEF Bad
  <2> QED
    BY <1>1, <2>1, SmallestMember
<1>3. \A T \in SUBSET S : T # S => Sound(Sums(T), T)
  BY <1>2
<1> DEFINE below == [T \in SUBSET S |-> Sums(T)[T]]
           G == [T \in SUBSET S |-> Unfold(below, T)]
<1>4. ASSUME NEW T \in SUBSET S, T # S PROVE G[T] = below[T]
  <2>1. Sums(T)[T] = Unfold(Sums(T), T)
    BY <1>3, <1>4 DEF Sound
  <2>2. CASE T = {}
    BY <2>1, <2>2 DEF Unfold
  <2>3. CASE T # {}
    <3>1. Pick(T) \in T
      BY <2>3 DEF Pick
    <3> DEFINE U == T \ {Pick(T)}
    <3>2. U \in SUBSET T /\ U \in SUBSET S /\ U # S
      BY <3>1
    <3>3. Sums(T)[U] = Sums(U)[U]
      <4>1. T \in SUBSET Builds
        OBVIOUS
      <4> QED
        BY <1>3, <1>4, <3>2, <4>1, SolutionsAgree
    <3> QED
      BY <2>1, <2>3, <3>2, <3>3 DEF Unfold
  <2> QED
    BY <2>2, <2>3
<1>5. Sound(G, S)
  <2>1. ASSUME NEW T \in SUBSET S PROVE Unfold(below, T) = Unfold(G, T)
    <3>1. CASE T = {}
      BY <3>1 DEF Unfold
    <3>2. CASE T # {}
      <4>1. Pick(T) \in T
        BY <3>2 DEF Pick
      <4>2. T \ {Pick(T)} \in SUBSET S /\ T \ {Pick(T)} # S
        BY <4>1
      <4>3. G[T \ {Pick(T)}] = below[T \ {Pick(T)}]
        BY <1>4, <4>2
      <4> HIDE DEF G, below
      <4> QED
        BY <3>2, <4>3 DEF Unfold
    <3> QED
      BY <3>1, <3>2
  <2> QED
    BY <2>1 DEF Sound
<1>6. Sound(Sums(S), S)
  <2> HIDE DEF G
  <2>1. \E g : g = [T \in SUBSET S |-> Unfold(g, T)]
    BY <1>5 DEF Sound
  <2> QED
    BY <2>1 DEF Sums, Sound
<1> QED
  BY <1>6

(* A load is that of any one of its builds and of the others. *)
LEMMA LoadUnfolds ==
  /\ Load({}) = 0
  /\ \A S \in SUBSET Builds :
       S # {} => Pick(S) \in S /\ Load(S) = Demand[Pick(S)] + Load(S \ {Pick(S)})
<1>1. \A S \in SUBSET Builds : Load(S) = Unfold(Sums(S), S)
  BY LoadIsSum, SumsAreSound DEF Sound
<1>2. Load({}) = 0
  BY <1>1 DEF Unfold
<1>3. ASSUME NEW S \in SUBSET Builds, S # {}
      PROVE  Pick(S) \in S /\ Load(S) = Demand[Pick(S)] + Load(S \ {Pick(S)})
  <2>1. Pick(S) \in S
    BY <1>3 DEF Pick
  <2>2. Sums(S)[S \ {Pick(S)}] = Sums(S \ {Pick(S)})[S \ {Pick(S)}]
    BY SumsAreSound, SolutionsAgree
  <2> QED
    BY <1>1, <1>3, <2>1, <2>2, LoadIsSum DEF Unfold
<1> QED
  BY <1>2, <1>3

(* Demands are natural numbers, and so are their sums. *)
LEMMA LoadIsNatural == \A S \in SUBSET Builds : Load(S) \in Nat
<1> DEFINE Bad == {S \in SUBSET Builds : Load(S) \notin Nat}
<1>1. SUFFICES ASSUME Bad # {} PROVE FALSE
  OBVIOUS
<1>2. PICK S \in Bad : \A U \in SUBSET S : U \in Bad => U = S
  <2>1. Bad \subseteq SUBSET Builds
    OBVIOUS
  <2> HIDE DEF Bad
  <2> QED
    BY <1>1, <2>1, SmallestMember
<1>3. S # {}
  BY LoadUnfolds
<1>4. Pick(S) \in S /\ Load(S) = Demand[Pick(S)] + Load(S \ {Pick(S)})
  BY <1>3, LoadUnfolds
<1>5. Load(S \ {Pick(S)}) \in Nat
  BY <1>2, <1>4
<1>6. Demand[Pick(S)] \in Nat
  BY <1>4, DemandAssumption
<1> QED
  BY <1>4, <1>5, <1>6

(* The order in which the builds are added up does not matter. *)
LEMMA LoadSplits ==
  \A S \in SUBSET Builds : \A b \in S : Load(S) = Demand[b] + Load(S \ {b})
<1> DEFINE Bad == {S \in SUBSET Builds : \E b \in S : Load(S) # Demand[b] + Load(S \ {b})}
<1>1. SUFFICES ASSUME Bad # {} PROVE FALSE
  OBVIOUS
<1>2. PICK S \in Bad : \A U \in SUBSET S : U \in Bad => U = S
  <2>1. Bad \subseteq SUBSET Builds
    OBVIOUS
  <2> HIDE DEF Bad
  <2> QED
    BY <1>1, <2>1, SmallestMember
<1>3. PICK b \in S : Load(S) # Demand[b] + Load(S \ {b})
  OBVIOUS
<1> DEFINE c == Pick(S)
<1>4. c \in S /\ Load(S) = Demand[c] + Load(S \ {c})
  BY <1>3, LoadUnfolds
<1>5. b # c
  BY <1>3, <1>4
<1>6. Load(S \ {c}) = Demand[b] + Load((S \ {c}) \ {b})
  <2>1. S \ {c} \in SUBSET S /\ S \ {c} # S /\ b \in S \ {c}
    BY <1>4, <1>5
  <2>2. S \ {c} \in SUBSET Builds /\ S \ {c} \notin Bad
    BY <1>2, <2>1
  <2> HIDE DEF c
  <2> QED
    BY <2>1, <2>2
<1>7. Load(S \ {b}) = Demand[c] + Load((S \ {b}) \ {c})
  <2>1. S \ {b} \in SUBSET S /\ S \ {b} # S /\ c \in S \ {b}
    BY <1>4, <1>5
  <2>2. S \ {b} \in SUBSET Builds /\ S \ {b} \notin Bad
    BY <1>2, <2>1
  <2> HIDE DEF c
  <2> QED
    BY <2>1, <2>2
<1>8. (S \ {b}) \ {c} = (S \ {c}) \ {b}
  OBVIOUS
<1>9. Load((S \ {c}) \ {b}) \in Nat /\ Demand[b] \in Nat /\ Demand[c] \in Nat
  BY <1>4, DemandAssumption, LoadIsNatural
<1> HIDE DEF c
<1> QED
  BY <1>3, <1>4, <1>6, <1>7, <1>8, <1>9

(***************************************************************************)
(* Fewer builds make no larger load.                                       *)
(***************************************************************************)
LEMMA LoadIsMonotone ==
  \A T \in SUBSET Builds : \A S \in SUBSET T : Load(S) <= Load(T)
<1> DEFINE Bad == {T \in SUBSET Builds : \E S \in SUBSET T : ~(Load(S) <= Load(T))}
<1>1. SUFFICES ASSUME Bad # {} PROVE FALSE
  OBVIOUS
<1>2. PICK T \in Bad : \A U \in SUBSET T : U \in Bad => U = T
  <2>1. Bad \subseteq SUBSET Builds
    OBVIOUS
  <2> HIDE DEF Bad
  <2> QED
    BY <1>1, <2>1, SmallestMember
<1>3. PICK S \in SUBSET T : ~(Load(S) <= Load(T))
  OBVIOUS
<1>4. Load(S) \in Nat /\ Load(T) \in Nat
  BY LoadIsNatural
<1>5. PICK b \in T : b \notin S
  BY <1>3, <1>4
<1>6. Load(S) <= Load(T \ {b})
  BY <1>2, <1>5
<1>7. Load(T) = Demand[b] + Load(T \ {b})
  BY LoadSplits
<1>8. Demand[b] \in Nat /\ Load(T \ {b}) \in Nat
  BY DemandAssumption, LoadIsNatural
<1> QED
  BY <1>3, <1>4, <1>6, <1>7, <1>8

-----------------------------------------------------------------------------
(* The size of the server. *)

(***************************************************************************)
(* The rows know the size of the server while no operation is pending, and *)
(* the operator writes down the size that it gave the server.              *)
(***************************************************************************)
SizeKnown ==
  /\ operation = "none" => host = capacity
  /\ operator = "claimed" => operation \in {"queued", "running"}
  /\ operator \in {"resizing", "resized", "recorded"} => operation = "running"
  /\ operator \in {"resized", "recorded"} => host = target
  /\ operator = "recorded" => host = capacity

ServerInv == SizeKnown /\ CapacityHonoured

sizes == <<operation, target, capacity, operator, host>>

(* Only builds are allocated. *)
LEMMA AllocatedIsBuilds ==
  Allocated \in SUBSET Builds /\ Allocated' \in SUBSET Builds
BY DEF Allocated, Owning

(* The load after a step is the load of what is allocated then. *)
LEMMA LoadAfter == Load(Allocated)' = Load(Allocated')
BY DEF Load, MapThenSumSet, MapThenFoldSet

(***************************************************************************)
(* Only an activation allocates, and no step of a build resizes.           *)
(***************************************************************************)
LEMMA MostStepsAllocateNothing ==
  ASSUME TypeOK, NEW b \in Builds, StepOf(b), ~Activate(b)
  PROVE  /\ \A c \in Builds : (Owned(c)' => Owned(c)) /\ (released[c] => released'[c])
         /\ UNCHANGED sizes
<1> USE DEF TypeOK, StoreTypeOK, Owned, sizes
<1> USE DEF buildVars, activityVars, workspaceVars, storeVars, processVars, hostVars
<1> USE DEF WorkerOnly, RecoveryOnly, AdmissionOnly
<1>1. CASE Request(b) \/ CloseCancelled(b)
  BY <1>1 DEF Request, Submit, Cancel, CloseCancelled, RequestCloudBuild, RecordCancellation,
              AcknowledgeUnstarted
<1>2. CASE EnterAdmission(b) \/ AdmissionStep(b) \/ KeepWaiting(b)
  BY <1>2 DEF AdmissionStep, EnterAdmission, FindRoom, KeepWaiting, Refuse, RecordRejection,
              Dispatch, FindProjectClosing, LoseDispatch, CancelUnavailable, CloseUnclaimed,
              ClaimBuildExecution
<1>3. CASE \/ AcquireExecution(b) \/ Prepare(b) \/ FailPreparation(b) \/ LockProject(b)
           \/ RefuseForNow(b) \/ RefuseForGood(b) \/ Defer(b) \/ CannotDefer(b)
           \/ Unwound(b) \/ Recheck(b)
  BY <1>3 DEF AcquireExecution, Prepare, FailPreparation, LockProject, RefuseForNow,
              RefuseForGood, Defer, CannotDefer, Unwound, Recheck, DeferUnactivatedCloudBuild
<1>4. CASE \/ EndWork(b) \/ GiveSlotBack(b) \/ FinishWork(b) \/ CannotFinish(b)
           \/ SettleOutside(b) \/ AcknowledgeExecution(b) \/ Leave(b)
  BY <1>4 DEF EndWork, GiveSlotBack, FinishWork, CannotFinish, SettleOutside,
              AcknowledgeExecution, Leave, RecordOutcome, ReleaseSlot, FinishActivity,
              AcknowledgeFinished, CancelReservation
<1>5. CASE HostStep(b)
  BY <1>5 DEF HostStep, CommandStarts, CommandEnds, SendCommand, StopCommand, StopUnrecorded,
              RecordCommand, CompleteCommand
<1>6. CASE BeginRecovery(b) \/ RecoveryStep(b)
  BY <1>6 DEF RecoveryStep, BeginRecovery, RecoverFinished, RecoverReservation, RecoverNothing,
              RecoverUnowned, RecoverOwned, BeginCleanup, FinishRecovery, AcknowledgeRecovery,
              CancelReservation, TakeRecoveryOwnership, FinishActivity, AcknowledgeFinished
<1>7. CASE Fault(b)
  BY <1>7 DEF Fault, AdmissionCrashes, RejectionIsLost, WorkerCrashes, RecoveryStops,
              WorkerLosesLocks
<1> QED
  BY <1>1, <1>2, <1>3, <1>4, <1>5, <1>6, <1>7 DEF StepOf, WorkerStep

(***************************************************************************)
(* An activation fits beside what is allocated; every other step of a      *)
(* build allocates no more.                                                *)
(***************************************************************************)
LEMMA StepsOfBuildsFit ==
  ASSUME TypeOK, ServerInv, NEW b \in Builds, StepOf(b)
  PROVE  ServerInv'
<1>1. CASE ~Activate(b)
  <2>1. Allocated' \subseteq Allocated
    BY <1>1, MostStepsAllocateNothing DEF Allocated, Owning, Sized
  <2>2. Load(Allocated') <= Load(Allocated) /\ Load(Allocated') \in Nat /\ Load(Allocated) \in Nat
    BY <2>1, AllocatedIsBuilds, LoadIsMonotone, LoadIsNatural
  <2>3. host \in Nat /\ UNCHANGED sizes
    BY <1>1, MostStepsAllocateNothing, CapacitiesAssumption DEF TypeOK
  <2>4. Load(Allocated') <= host'
    BY <2>2, <2>3 DEF ServerInv, CapacityHonoured, sizes
  <2> QED
    BY <2>3, <2>4, LoadAfter DEF ServerInv, SizeKnown, CapacityHonoured, sizes
<1>2. CASE Activate(b)
  <2>1. /\ UNCHANGED <<operation, target, capacity, operator, host, released>>
        /\ owner' = [owner EXCEPT ![b] = "worker"]
        /\ operation = "none" /\ Fits(b)
    BY <1>2 DEF Activate, ClaimActivity, Unobstructed, WorkerOnly, hostVars
  <2>2. host = capacity /\ host \in Nat
    BY <2>1, CapacitiesAssumption DEF ServerInv, SizeKnown, TypeOK
  <2>3. CASE Sized(b)
    <3>1. Allocated' \subseteq Allocated \cup {b} /\ Allocated \cup {b} \in SUBSET Builds
      BY <2>1, AllocatedIsBuilds DEF Allocated, Owning, Owned, Sized, TypeOK, StoreTypeOK
    <3>2. /\ Load(Allocated') <= Load(Allocated \cup {b})
          /\ Load(Allocated') \in Nat /\ Load(Allocated \cup {b}) \in Nat
      BY <3>1, AllocatedIsBuilds, LoadIsMonotone, LoadIsNatural
    <3>3. Load(Allocated \cup {b}) <= host
      BY <2>1, <2>2, <2>3 DEF Fits
    <3>4. Load(Allocated') <= host
      BY <2>2, <3>2, <3>3
    <3> QED
      BY <2>1, <3>4, LoadAfter DEF ServerInv, SizeKnown, CapacityHonoured
  <2>4. CASE ~Sized(b)
    <3>1. Allocated' = Allocated
      BY <2>1, <2>4 DEF Allocated, Owning, Owned, Sized, TypeOK, StoreTypeOK
    <3> QED
      BY <2>1, <3>1, LoadAfter DEF ServerInv, SizeKnown, CapacityHonoured
  <2> QED
    BY <2>3, <2>4
<1> QED
  BY <1>1, <1>2

(***************************************************************************)
(* The server changes its size only while no build is active.              *)
(***************************************************************************)
LEMMA ServerStepsFit ==
  ASSUME TypeOK, HostInv, ServerInv,
         \/ \E p \in TornDown : AttemptDeletion(p)
         \/ \E size \in Capacities : RequestServerResize(size)
         \/ OperatorStep \/ FailOperation \/ OperatorStops
         \/ UNCHANGED vars
  PROVE  ServerInv'
<1>1. UNCHANGED <<owner, released>>
  <2> USE DEF buildVars, activityVars, workspaceVars, storeVars, processVars, hostVars
  <2>1. CASE \/ \E p \in TornDown : AttemptDeletion(p)
             \/ \E size \in Capacities : RequestServerResize(size)
             \/ UNCHANGED vars
    BY <2>1 DEF AttemptDeletion, SetDeletionInProgress, RequestServerResize, RequestResize, vars
  <2>2. CASE OperatorStep \/ FailOperation \/ OperatorStops
    BY <2>2 DEF OperatorStep, BeginLifecycle, BeginResize, ResizeHost, RecordResources,
                CompleteOperation, ReleaseLifecycle, FailOperation, OperatorStops,
                ClaimLifecycle, UpdateOperation, UpdateResources, ReleaseActivity, OperatorOnly
  <2> QED
    BY <2>1, <2>2
<1>2. Allocated' = Allocated
  BY <1>1 DEF Allocated, Owning, Owned, Sized
<1>3. SizeKnown'
  <2> USE DEF ServerInv, SizeKnown, buildVars, activityVars, workspaceVars, storeVars,
              processVars, hostVars, OperatorAt, OperatorOnly
  <2>1. CASE \/ \E p \in TornDown : AttemptDeletion(p)
             \/ UNCHANGED vars
    BY <2>1 DEF AttemptDeletion, SetDeletionInProgress, vars
  <2>2. CASE \E size \in Capacities : RequestServerResize(size)
    BY <2>2 DEF RequestServerResize, RequestResize
  <2>3. CASE BeginLifecycle \/ ReleaseLifecycle \/ OperatorStops
    BY <2>3 DEF BeginLifecycle, ReleaseLifecycle, OperatorStops, ClaimLifecycle, ReleaseActivity
  <2>4. CASE BeginResize \/ ResizeHost \/ RecordResources
    BY <2>4 DEF BeginResize, ResizeHost, RecordResources, UpdateOperation, UpdateResources
  <2>5. CASE CompleteOperation \/ FailOperation
    BY <2>5 DEF CompleteOperation, FailOperation, UpdateOperation
  <2> QED
    BY <2>1, <2>2, <2>3, <2>4, <2>5 DEF OperatorStep
<1>4. CASE ResizeHost
  <2>1. Owning = {} /\ host' \in Nat
    BY <1>4, CapacitiesAssumption
       DEF HostInv, LifecycleClaimed, BarrierMatches, ResizeHost, OperatorAt, TypeOK, StoreTypeOK
  <2>2. Allocated' = {}
    BY <1>2, <2>1 DEF Allocated
  <2>3. Load(Allocated') <= host'
    BY <2>1, <2>2, LoadUnfolds
  <2> QED
    BY <1>3, <2>3, LoadAfter DEF ServerInv, CapacityHonoured
<1>5. CASE ~ResizeHost
  <2>1. host' = host
    BY <1>5 DEF AttemptDeletion, RequestServerResize, OperatorStep, BeginLifecycle, BeginResize,
                RecordResources, CompleteOperation, ReleaseLifecycle, FailOperation,
                OperatorStops, vars, hostVars
  <2> QED
    BY <1>2, <1>3, <2>1, LoadAfter DEF ServerInv, CapacityHonoured
<1> QED
  BY <1>4, <1>5

(***************************************************************************)
(* What the active builds were promised always fits the size that the      *)
(* server really has, whatever was reserved before it was resized.         *)
(***************************************************************************)
THEOREM CapacityIsHonoured == Spec => []CapacityHonoured
<1>1. Init => ServerInv
  <2>1. ASSUME Init PROVE Allocated = {} /\ host \in Nat
    BY <2>1, CapacitiesAssumption DEF Init, StoreInit, Allocated, Owning, Owned
  <2>2. ASSUME Init PROVE CapacityHonoured
    BY <2>1, <2>2, LoadUnfolds DEF CapacityHonoured
  <2> QED
    BY <2>2 DEF Init, StoreInit, ServerInv, SizeKnown
<1>2. ASSUME TypeOK, HostInv, ServerInv, [Next]_vars PROVE ServerInv'
  <2>1. CASE \E b \in Builds : StepOf(b)
    BY <1>2, <2>1, StepsOfBuildsFit
  <2>2. CASE ~ \E b \in Builds : StepOf(b)
    BY <1>2, <2>2, ServerStepsFit DEF Next, StepOf
  <2> QED
    BY <2>1, <2>2
<1>3. ServerInv => CapacityHonoured
  BY DEF ServerInv
<1> QED
  BY <1>1, <1>2, <1>3, HostInductive, CloudTypeCorrect, PTL DEF Spec

=============================================================================
