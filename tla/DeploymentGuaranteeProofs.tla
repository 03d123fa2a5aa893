---------------------- MODULE DeploymentGuaranteeProofs ----------------------
(***************************************************************************)
(* What a project's owner can rely on, proved on top of the inductive     *)
(* invariant of DeploymentProofs: the fence of a deletion that has begun  *)
(* stays up, the project as a whole behaves as ProjectWork says, a lease  *)
(* has its worker, a reported cancellation is true, no row is left        *)
(* unattended, and a rejected release has had its predecessor restored.   *)
(***************************************************************************)
EXTENDS DeploymentProofs

-----------------------------------------------------------------------------
(* The deletion fence and its ledger. *)

(* The steps of a teardown after its cleanup has begun. *)
CleanupSteps == {"destroy", "drop", "condemn"}

CleanupFenced == cleanup # "none" => deleting

(***************************************************************************)
(* A teardown that raised the fence itself finds no cleanup on the row     *)
(* until it begins its own; from then on the row carries one.              *)
(***************************************************************************)
LedgerFor(c) ==
  InTeardown(c) =>
    /\ ~client[c].resumed /\ client[c].step \notin CleanupSteps => cleanup = "none"
    /\ client[c].step \in CleanupSteps => cleanup # "none"

FenceInv == CleanupFenced /\ \A c \in Clients : LedgerFor(c)

ProjectKept == UNCHANGED <<exists, deleting, cleanup>>

(* The steps of a request that are not about the fence. *)
FenceBlind(c) ==
  \/ RequestDeploy(c) \/ RequestRollback(c) \/ StartBuild(c) \/ RequestCancel(c)
  \/ RequestKeep(c) \/ RequestReject(c) \/ RequestDelete(c) \/ RequestReconcile(c)
  \/ CreateNext(c) \/ CancelNext(c) \/ DecideNext(c) \/ DeleteNext(c) \/ ReconcileNext(c)

(***************************************************************************)
(* No transaction but those of a deletion writes the fence or the cleanup. *)
(***************************************************************************)
LEMMA RowTransactionsKeepFence ==
  /\ UNCHANGED storeVars => ProjectKept
  /\ \A d, k, w, h : CreateDeployment(d, k, w, h) => ProjectKept
  /\ \A d, s :
       \/ CreateBuildSession(d) \/ ClaimBuildExecution(d) \/ CancelUnclaimedBuild(d)
       \/ RecordCancellation(d) \/ SupersedePendingDecisions(d) \/ SupersedeReconciling(d)
       \/ AcknowledgeBuildExecutionFinished(d) \/ AcknowledgeUnstartedBuildSession(d)
       \/ DeleteDeployment(d) \/ UpdateStatus(d, s) \/ UpdateBuildSession(d, s)
       \/ FinishBuildSession(d, s) \/ SetActiveDeployment(d)
       => ProjectKept
  /\ \A d, s, choice :
       UpdateStatusAndDecision(d, s, choice) \/ RecordReady(d, s, choice) => ProjectKept
  /\ SweepDeployments \/ (\E S : SweepSessions(S)) \/ SweepLeases => ProjectKept
BY DEF ProjectKept, projectVars, storeVars, CreateDeployment, CreateBuildSession,
       ClaimBuildExecution, CancelUnclaimedBuild, RecordCancellation,
       SupersedePendingDecisions, SupersedeReconciling, AcknowledgeBuildExecutionFinished,
       AcknowledgeUnstartedBuildSession, DeleteDeployment, UpdateStatus, UpdateBuildSession,
       FinishBuildSession, SetActiveDeployment, UpdateStatusAndDecision, RecordReady,
       SweepDeployments, SweepSessions, SweepLeases

(* Nor does a worker, the boot sweep or a crash. *)
LEMMA OthersKeepFence ==
  /\ \A d \in Deployments : WorkerNext(d) => ProjectKept
  /\ BootNext \/ Crash => ProjectKept
<1> USE RowTransactionsKeepFence DEF WriteFails
<1>1. ASSUME NEW d \in Deployments, WorkerNext(d) PROVE ProjectKept
  BY <1>1
     DEF WorkerNext, StartWork, MarkSessionBuilding, MarkRowBuilding, Build, Promote, Deploy,
         StopWork, ReadVersion, RecordSuccess, RecordOther, RecordCancelled, PublishRelease,
         SupersedeDecisions, FinishSession, RollUp, ArchivePrevious, FallBack, FallBackRow,
         FallBackSession, CompleteExecution, PollCancellation
<1>2. BootNext \/ Crash => ProjectKept
  BY DEF BootNext, BootDeployments, BootSessions, BootLeases, Crash
<1> QED BY <1>1, <1>2

(***************************************************************************)
(* Nor does a request that is not a teardown; and its steps neither enter  *)
(* nor leave a teardown, but for the cancel a teardown makes, which comes  *)
(* back to it.                                                             *)
(***************************************************************************)
LEMMA FenceBlindSteps ==
  ASSUME TypeOK, NEW c \in Clients, LockFor(c), FenceBlind(c)
  PROVE  /\ ProjectKept
         /\ client[c].step \notin TeardownSteps
         /\ InTeardown(c)' =>
              /\ InTeardown(c) /\ client'[c].resumed = client[c].resumed
              /\ client'[c].step \notin CleanupSteps
         /\ client'[c].step \notin {"destroy", "drop"}
<1>1. ProjectKept
  BY RowTransactionsKeepFence
     DEF FenceBlind, CreateNext, CancelNext, DecideNext, DeleteNext, ReconcileNext,
         RequestDeploy, RequestRollback, StartBuild, RequestCancel, WinCancellation, RequestKeep,
         RequestReject, RequestDelete, RequestReconcile, InsertDeployment, InsertSession,
         UndoInsert, RetireReconciling, RetireDecisions, Kickoff, DropUnclaimed, SignalWorker,
         SettleSession, AwaitQuiescence, KeepRelease, KeepPointer, RejectDetach, RejectMark,
         Detach, Erase, Verdict, Forward, Advance, WriteFails
<1>2. client[c] \in ClientRecords /\ client \in [Clients -> ClientStates]
  BY DEF TypeOK, ClientTypeOK, ClientStates
<1>3. client[c].step \notin TeardownSteps
  BY DEF FenceBlind, CreateNext, CancelNext, DecideNext, DeleteNext, ReconcileNext,
         RequestDeploy, RequestRollback, StartBuild, RequestCancel, RequestKeep,
         RequestReject, RequestDelete, RequestReconcile, InsertDeployment, InsertSession,
         UndoInsert, RetireReconciling, RetireDecisions, Kickoff, DropUnclaimed, SignalWorker,
         SettleSession, AwaitQuiescence, KeepRelease, KeepPointer, RejectDetach, RejectMark,
         Detach, Erase, Verdict, Forward, Advance, MayStart, ClientAt, TeardownSteps

<1>4. client'[c].back = "poll" \/ client'[c].step \in TeardownSteps =>
        /\ InTeardown(c) /\ client'[c].resumed = client[c].resumed
        /\ client'[c].step \notin CleanupSteps
  <2>1. client[c] \in ClientRecords
    BY <1>2
  <2>2. client \in [Clients -> ClientStates]
    BY <1>2
  <2> USE <2>1, <2>2
      DEF ClientRecords, ClientTakes, ClientGoes, ClientDone, ClientReturns, IdleClient,
          ReadyToInsert, TeardownSteps, CleanupSteps, InTeardown, LockFor, CancelSteps, ClientAt
  <2>3. CASE RequestDeploy(c)
    BY <2>3 DEF RequestDeploy
  <2>4. CASE RequestRollback(c)
    BY <2>4 DEF RequestRollback
  <2>5. CASE StartBuild(c)
    BY <2>5 DEF StartBuild
  <2>6. CASE RequestCancel(c)
    BY <2>6 DEF RequestCancel
  <2>7. CASE RequestKeep(c)
    BY <2>7 DEF RequestKeep
  <2>8. CASE RequestReject(c)
    <3>1. PICK d \in Deployments :
            \/ ClientTakes(c, [IdleClient EXCEPT !.step = "rejectDetach", !.subject = d,
                                                 !.seen = active])
            \/ ClientTakes(c, ReadyToInsert(commit[previous[d]], decision[previous[d]], d,
                                            "rejectDetach"))
      <4> HIDE DEF ClientTakes, IdleClient, ReadyToInsert
      <4> QED BY <2>8 DEF RequestReject
    <3>2. CASE ClientTakes(c, [IdleClient EXCEPT !.step = "rejectDetach", !.subject = d,
                                                 !.seen = active])
      BY <3>2
    <3>3. CASE ClientTakes(c, ReadyToInsert(commit[previous[d]], decision[previous[d]], d,
                                            "rejectDetach"))
      BY <3>3
    <3> QED BY <3>1, <3>2, <3>3
  <2>9. CASE RequestDelete(c)
    BY <2>9 DEF RequestDelete
  <2>10. CASE RequestReconcile(c)
    BY <2>10 DEF RequestReconcile
  <2>11. CASE InsertDeployment(c)
    <3>1. CASE ClientDone(c)
      BY <3>1
    <3>2. ASSUME NEW d \in Deployments,
                 ClientTakes(c, [client[c] EXCEPT !.step = "session", !.target = d])
          PROVE  client'[c].step \notin TeardownSteps /\ client'[c].back = client[c].back
      BY <3>2
    <3> HIDE DEF ClientTakes, ClientDone
    <3> QED BY <2>11, <3>1, <3>2 DEF InsertDeployment, RefuseInsert
  <2>12. CASE InsertSession(c)
    BY <2>12 DEF InsertSession
  <2>13. CASE UndoInsert(c)
    BY <2>13 DEF UndoInsert
  <2>14. CASE RetireReconciling(c)
    BY <2>14 DEF RetireReconciling
  <2>15. CASE RetireDecisions(c)
    BY <2>15 DEF RetireDecisions
  <2>16. CASE Kickoff(c)
    <3>1. client[c].back \in {"idle", "rejectDetach"}
      BY <2>16 DEF Kickoff
    <3>2. CASE client[c].back = "idle" /\ ClientReturns(c)
      BY <3>2
    <3>3. CASE client[c].back = "rejectDetach" /\ ClientReturns(c)
      BY <3>3
    <3>4. CASE ClientDone(c)
      BY <3>4
    <3>5. CASE ClientGoes(c, "unclaim")
      BY <3>1, <3>5
    <3> HIDE DEF ClientReturns, ClientDone, ClientGoes
    <3> QED BY <2>16, <3>1, <3>2, <3>3, <3>4, <3>5 DEF Kickoff
  <2>17. CASE DropUnclaimed(c)
    BY <2>17 DEF DropUnclaimed
  <2>18. CASE SignalWorker(c)
    BY <2>18 DEF SignalWorker
  <2>19. CASE SettleSession(c)
    BY <2>19 DEF SettleSession
  <2>20. CASE AwaitQuiescence(c)
    <3>1. CASE client[c].back = "poll"
      BY <2>20, <3>1 DEF AwaitQuiescence
    <3>2. CASE client[c].back = "idle"
      BY <2>20, <3>2 DEF AwaitQuiescence
    <3>3. CASE client[c].back = "rejectDetach"
      BY <2>20, <3>3 DEF AwaitQuiescence
    <3> QED BY <3>1, <3>2, <3>3
  <2>21. CASE KeepRelease(c)
    BY <2>21 DEF KeepRelease
  <2>22. CASE KeepPointer(c)
    BY <2>22 DEF KeepPointer
  <2>23. CASE RejectDetach(c)
    BY <2>23 DEF RejectDetach
  <2>24. CASE RejectMark(c)
    BY <2>24 DEF RejectMark
  <2>25. CASE Detach(c)
    BY <2>25 DEF Detach
  <2>26. CASE Erase(c)
    BY <2>26 DEF Erase
  <2>27. CASE Verdict(c)
    BY <2>27 DEF Verdict
  <2>28. CASE Forward(c)
    BY <2>28 DEF Forward
  <2>29. CASE Advance(c)
    BY <2>29 DEF Advance
  <2> QED
    BY <2>3, <2>4, <2>5, <2>6, <2>7, <2>8, <2>9, <2>10, <2>11, <2>12, <2>13, <2>14, <2>15,
       <2>16, <2>17, <2>18, <2>19, <2>20, <2>21, <2>22, <2>23, <2>24, <2>25, <2>26, <2>27,
       <2>28, <2>29
       DEF FenceBlind, CreateNext, CancelNext, DecideNext, DeleteNext, ReconcileNext
<1> QED BY <1>1, <1>3, <1>4 DEF InTeardown, TeardownSteps, CleanupSteps

(***************************************************************************)
(* Of a teardown, its steps between claim and cleanup leave the fence and  *)
(* the row's ledger alone.                                                 *)
(***************************************************************************)
LEMMA BeforeCleanup ==
  ASSUME TypeOK, NEW c \in Clients, RefuseTeardown(c) \/ Gate(c) \/ Drain(c) \/ Poll(c)
  PROVE  /\ ProjectKept
         /\ client[c].step \in {"gate", "drain", "poll"}
         /\ client'[c].resumed = client[c].resumed
         /\ client'[c].step \in {"signal", "poll", "begin", "release"}
<1>1. client[c] \in ClientRecords
  BY DEF TypeOK, ClientTypeOK, ClientStates
<1>2. client \in [Clients -> ClientStates]
  BY DEF TypeOK, ClientTypeOK
<1>3. ProjectKept /\ client[c].step \in {"gate", "drain", "poll"}
  BY RowTransactionsKeepFence DEF RefuseTeardown, Gate, Drain, Poll, WinCancellation, ClientAt
<1>4. \/ \E step \in {"poll", "begin", "release"} : ClientGoes(c, step)
      \/ \E d : ClientTakes(c, [client[c] EXCEPT !.step = "signal", !.target = d,
                                                 !.back = "poll"])
  BY DEF RefuseTeardown, Gate, Drain, Poll
<1>5. ASSUME NEW step \in {"poll", "begin", "release"}, ClientGoes(c, step)
      PROVE  client'[c].resumed = client[c].resumed /\ client'[c].step = step
  BY <1>1, <1>2, <1>5 DEF ClientGoes, ClientTakes, ClientRecords
<1>6. ASSUME NEW d, ClientTakes(c, [client[c] EXCEPT !.step = "signal", !.target = d,
                                                     !.back = "poll"])
      PROVE  client'[c].resumed = client[c].resumed /\ client'[c].step = "signal"
  BY <1>1, <1>2, <1>6 DEF ClientTakes, ClientRecords
<1> QED BY <1>3, <1>4, <1>5, <1>6

(* How a step of a teardown moves its request on. *)
LEMMA TeardownMoves ==
  ASSUME TypeOK, NEW c \in Clients, NEW step, client[c].back # "poll",
         ClientGoes(c, step)
  PROVE  /\ client'[c].resumed = client[c].resumed
         /\ client'[c].step = step
         /\ client'[c].back # "poll"
BY DEF TypeOK, ClientTypeOK, ClientStates, ClientGoes, ClientTakes, ClientRecords

(* Or ends it. *)
LEMMA TeardownEnds ==
  ASSUME TypeOK, NEW c \in Clients, ClientDone(c)
  PROVE  client'[c] = IdleClient
BY DEF TypeOK, ClientTypeOK, ClientDone, ClientTakes

(* What is left of the fence's invariant once the teardown's own step is done. *)
FenceStepOK == FenceInv' /\ (cleanup # "none" /\ exists' => deleting' /\ cleanup' # "none")

(***************************************************************************)
(* Inside a teardown nobody else is, so its step settles the invariant by  *)
(* what it does to its own record and to the row.                          *)
(***************************************************************************)
LEMMA TeardownAlone ==
  ASSUME IInv, NEW c \in Clients, ControlEffect(c), holder \in {NoClient, c},
         CleanupFenced', LedgerFor(c)'
  PROVE  FenceInv'
<1>1. ASSUME NEW b \in Clients, b # c PROVE ~InTeardown(b)'
  BY <1>1, ClientsAssumption DEF IInv, LockFor, Locked, InTeardown, ControlEffect
<1> QED BY <1>1 DEF FenceInv, LedgerFor

(* A request that is not a teardown leaves the fence's invariant alone. *)
LEMMA BlindFence ==
  ASSUME IInv, FenceInv, NEW c \in Clients, ControlEffect(c), FenceBlind(c)
  PROVE  FenceStepOK
<1>1. /\ ProjectKept /\ client[c].step \notin CleanupSteps
      /\ InTeardown(c)' =>
           /\ InTeardown(c) /\ client'[c].resumed = client[c].resumed
           /\ client'[c].step \notin CleanupSteps
  BY FenceBlindSteps DEF IInv, CleanupSteps, TeardownSteps
<1>2. ASSUME NEW b \in Clients PROVE LedgerFor(b)'
  BY <1>1 DEF FenceInv, LedgerFor, ControlEffect, ProjectKept, InTeardown
<1> QED BY <1>1, <1>2 DEF FenceInv, CleanupFenced, ProjectKept, FenceStepOK

(***************************************************************************)
(* Every step of a teardown leaves a fence that a begun cleanup needs: the *)
(* fence is taken down only by the request that raised it, and only while  *)
(* the row shows no cleanup.                                               *)
(***************************************************************************)
LEMMA TeardownFence ==
  ASSUME IInv, FenceInv, NEW c \in Clients, ControlEffect(c),
         RequestTeardown(c) \/ TeardownNext(c)
  PROVE  FenceStepOK
<1> USE DEF FenceStepOK, CleanupFenced
<1>1. TypeOK /\ LedgerFor(c) /\ CleanupFenced
  BY DEF IInv, FenceInv
<1>2. CASE RequestTeardown(c)
  <2>1. PICK step \in {"gate", "drain"} :
          /\ holder = NoClient /\ ClaimDeletion
          /\ ClientTakes(c, [IdleClient EXCEPT !.step = step, !.resumed = deleting])
    BY <1>2 DEF RequestTeardown, ClaimTeardown, Acquire
  <2>2. /\ client'[c].step = step /\ client'[c].resumed = deleting
    BY <1>1, <2>1 DEF ClientTakes, IdleClient, TypeOK, ClientTypeOK
  <2>3. deleting' /\ cleanup' = cleanup
    BY <2>1 DEF ClaimDeletion
  <2>4. LedgerFor(c)'
    BY <1>1, <2>1, <2>2, <2>3 DEF LedgerFor, CleanupSteps
  <2> QED BY <2>1, <2>3, <2>4, TeardownAlone
<1>3. ASSUME TeardownNext(c)
      PROVE  /\ holder = c /\ InTeardown(c) /\ exists /\ deleting
             /\ client[c].step \in TeardownSteps /\ client[c].back # "poll"
  <2>1. client[c].step \in TeardownSteps
    BY <1>3
       DEF TeardownNext, RefuseTeardown, Gate, Drain, Poll, BeginCleanup, Destroy, DropProject,
           ReleaseFence, RetainFence, ClientAt, TeardownSteps
  <2> QED BY <2>1 DEF IInv, LockFor, FenceFor, Locked, InTeardown, TeardownSteps, CancelSteps
<1>4. CASE RefuseTeardown(c) \/ Gate(c) \/ Drain(c) \/ Poll(c)
  <2>1. TeardownNext(c)
    BY <1>4 DEF TeardownNext
  <2>2. LedgerFor(c)'
    BY <1>1, <1>3, <1>4, <2>1, BeforeCleanup DEF LedgerFor, CleanupSteps, ProjectKept
  <2> QED BY <1>1, <1>3, <1>4, <2>1, <2>2, BeforeCleanup, TeardownAlone DEF ProjectKept
<1>5. CASE BeginCleanup(c)
  <2>1. holder = c /\ client[c].back # "poll" /\ deleting /\ client[c].step = "begin"
    BY <1>3, <1>5 DEF TeardownNext, BeginCleanup, ClientAt
  <2>2. CASE BeginDeletionCleanup /\ ClientGoes(c, "destroy")
    <3>1. client'[c].step = "destroy" /\ cleanup' = "running" /\ deleting'
      BY <1>1, <2>1, <2>2, TeardownMoves DEF BeginDeletionCleanup
    <3> QED BY <2>1, <3>1, TeardownAlone DEF LedgerFor, CleanupSteps
  <2>3. CASE WriteFails /\ ClientGoes(c, "release")
    <3>1. /\ client'[c].step = "release" /\ client'[c].resumed = client[c].resumed
          /\ ProjectKept
      BY <1>1, <2>1, <2>3, TeardownMoves, RowTransactionsKeepFence DEF WriteFails
    <3> QED
      BY <1>1, <1>3, <1>5, <2>1, <3>1, TeardownAlone
         DEF TeardownNext, LedgerFor, CleanupSteps, ProjectKept
  <2> QED BY <1>5, <2>2, <2>3 DEF BeginCleanup
<1>6. CASE Destroy(c)
  <2>1. /\ holder = c /\ client[c].back # "poll" /\ client[c].step = "destroy"
        /\ InTeardown(c) /\ ProjectKept
    BY <1>3, <1>6, RowTransactionsKeepFence DEF TeardownNext, Destroy, ClientAt
  <2>2. client'[c].step \in {"drop", "condemn"}
    BY <1>1, <1>6, <2>1, TeardownMoves DEF Destroy
  <2> QED
    BY <1>1, <2>1, <2>2, TeardownAlone DEF LedgerFor, CleanupSteps, ProjectKept
<1>7. CASE DropProject(c)
  <2>1. /\ holder = c /\ client[c].back # "poll" /\ client[c].step = "drop"
        /\ InTeardown(c)
    BY <1>3, <1>7 DEF TeardownNext, DropProject, ClientAt
  <2>2. CASE DeleteHard /\ ClientDone(c)
    <3>1. client'[c] = IdleClient /\ ~exists' /\ UNCHANGED <<deleting, cleanup>>
      BY <1>1, <2>2, TeardownEnds DEF DeleteHard
    <3> QED
      BY <1>1, <2>1, <3>1, TeardownAlone
         DEF LedgerFor, InTeardown, IdleClient, TeardownSteps
  <2>3. CASE WriteFails /\ ClientGoes(c, "condemn")
    <3>1. client'[c].step = "condemn" /\ ProjectKept
      BY <1>1, <2>1, <2>3, TeardownMoves, RowTransactionsKeepFence DEF WriteFails
    <3> QED
      BY <1>1, <2>1, <3>1, TeardownAlone DEF LedgerFor, CleanupSteps, ProjectKept
  <2> QED BY <1>7, <2>2, <2>3 DEF DropProject
<1>8. CASE ReleaseFence(c) \/ RetainFence(c)
  <2>1. /\ holder = c /\ InTeardown(c) /\ exists /\ deleting
        /\ client'[c] = IdleClient
    BY <1>1, <1>3, <1>8, TeardownEnds DEF TeardownNext, ReleaseFence, RetainFence
  <2>2. LedgerFor(c)'
    BY <2>1 DEF LedgerFor, InTeardown, IdleClient, TeardownSteps
  <2>3. \/ ProjectKept
        \/ deleting' /\ cleanup' = "failed"
        \/ cleanup = "none" /\ cleanup' = "none"
    <3>1. CASE RetainFence(c)
      BY <2>1, <3>1, RowTransactionsKeepFence DEF RetainFence, WriteFails, MarkDeletionFailed
    <3>2. CASE ReleaseFence(c)
      BY <1>1, <2>1, <3>2, RowTransactionsKeepFence
         DEF ReleaseFence, WriteFails, MarkDeletionFailed, ClearDeletionInProgress, LedgerFor,
             ClientAt, CleanupSteps
    <3> QED BY <1>8, <3>1, <3>2
  <2> QED BY <1>1, <2>1, <2>2, <2>3, TeardownAlone DEF ProjectKept
<1> QED BY <1>2, <1>4, <1>5, <1>6, <1>7, <1>8 DEF TeardownNext

(* A request's step is about the fence or blind to it. *)
LEMMA RequestsSplit ==
  ASSUME NEW c \in Clients, Request(c) \/ ClientNext(c)
  PROVE  FenceBlind(c) \/ RequestTeardown(c) \/ TeardownNext(c)
BY DEF Request, ClientNext, FenceBlind

(* No step takes down a fence that a begun cleanup needs. *)
LEMMA FenceStep ==
  ASSUME IInv, FenceInv, [Next]_vars
  PROVE  FenceStepOK
<1>1. ASSUME NEW d \in Deployments, WorkerNext(d) PROVE FenceStepOK
  <2>1. ProjectKept /\ client' = client
    BY <1>1, OthersKeepFence, WorkerEffects DEF IInv, WorkerEffect
  <2> QED
    BY <2>1 DEF FenceStepOK, FenceInv, CleanupFenced, LedgerFor, InTeardown, ProjectKept
<1>2. ASSUME NEW c \in Clients, Request(c) \/ ClientNext(c) PROVE FenceStepOK
  <2>1. ControlEffect(c)
    BY <1>2, ControlEffects DEF IInv
  <2> QED BY <1>2, <2>1, RequestsSplit, BlindFence, TeardownFence
<1>3. CASE BootNext
  <2>1. ProjectKept /\ client' = client
    BY <1>3, OthersKeepFence
       DEF BootNext, BootDeployments, BootSessions, BootLeases, clientVars
  <2> QED
    BY <2>1 DEF FenceStepOK, FenceInv, CleanupFenced, LedgerFor, InTeardown, ProjectKept
<1>4. CASE Crash
  <2>1. ProjectKept /\ \A c \in Clients : client'[c] = IdleClient
    BY <1>4, OthersKeepFence DEF Crash
  <2> QED
    BY <2>1
       DEF FenceStepOK, FenceInv, CleanupFenced, LedgerFor, InTeardown, ProjectKept, IdleClient,
           TeardownSteps
<1>5. CASE UNCHANGED vars
  BY <1>5
     DEF FenceStepOK, FenceInv, CleanupFenced, LedgerFor, InTeardown, vars, storeVars,
         projectVars, clientVars
<1> QED BY <1>1, <1>2, <1>3, <1>4, <1>5 DEF Next

(* The ledger agrees with the row in every state. *)
LEMMA FenceHolds == Spec => [](IInv /\ FenceInv)
<1>1. Init => FenceInv
  BY DEF Init, StoreInit, FenceInv, CleanupFenced, LedgerFor, InTeardown, IdleClient,
         TeardownSteps
<1>2. IInv /\ FenceInv /\ [Next]_vars => FenceInv'
  BY FenceStep DEF FenceStepOK
<1> QED BY <1>1, <1>2, Inductive, PTL DEF Spec

(***************************************************************************)
(* Once a cleanup has begun, no failed retry, no restart and no refused    *)
(* request takes the deletion fence down again.                            *)
(***************************************************************************)
THEOREM FenceIsRetained == Spec => FenceRetained
<1>1. IInv /\ FenceInv /\ [Next]_vars
        => [cleanup # "none" /\ exists' => deleting' /\ cleanup' # "none"]_vars
  BY FenceStep DEF FenceStepOK
<1> QED BY <1>1, FenceHolds, PTL DEF Spec, FenceRetained

-----------------------------------------------------------------------------
(* The project as ProjectWork. *)

Running == {d \in Deployments : Working(d)}

Destruction == \E c \in Clients : client[c].step \in {"destroy", "drop"}

(* A step ProjectWork allows, or none of its business. *)
WorkStep == Work!WorkNext \/ UNCHANGED <<Phase, Running>>

(***************************************************************************)
(* A step that moves neither fence nor destruction, and starts no worker,  *)
(* ends the one that runs or does nothing: there is only one.              *)
(***************************************************************************)
LEMMA PhaseKept ==
  ASSUME IInv, ProjectKept, Destruction' <=> Destruction,
         \A e \in Deployments : Working(e)' => Working(e)
  PROVE  WorkStep
<1>1. Phase' = Phase
  BY DEF ProjectKept, Phase, Destruction
<1>2. Running' = Running \/ (Running # {} /\ Running' = {})
  BY DEF Running, IInv, WorkerLeased, OneListed, Listed
<1> QED BY <1>1, <1>2 DEF WorkStep, Work!WorkNext, Work!End, Running

(* During destruction, as from the gate on, no worker runs. *)
LEMMA DestructionIsAlone ==
  ASSUME IInv, NEW c \in Clients, client[c].step \in {"begin", "destroy", "drop"}
  PROVE  Running = {} /\ exists /\ deleting
BY DEF IInv, FenceFor, InTeardown, Destroying, TeardownSteps, Quiescent, WorkerLeased, Running,
       Listed

(* The holder of the project lock is the only one to destroy. *)
LEMMA DestructionByHolder ==
  ASSUME IInv, NEW c \in Clients, ControlEffect(c), holder \in {NoClient, c}
  PROVE  /\ Destruction <=> client[c].step \in {"destroy", "drop"}
         /\ Destruction' <=> client'[c].step \in {"destroy", "drop"}
<1>1. ASSUME NEW b \in Clients, b # c
      PROVE  /\ client[b].step \notin {"destroy", "drop"}
             /\ client'[b].step \notin {"destroy", "drop"}
  BY <1>1, ClientsAssumption
     DEF IInv, LockFor, Locked, InTeardown, TeardownSteps, ControlEffect
<1> QED BY <1>1 DEF Destruction

(***************************************************************************)
(* The claim of an execution starts the only worker, in an open project.   *)
(***************************************************************************)
LEMMA KickoffWork ==
  ASSUME IInv, FenceInv, NEW c \in Clients, ControlEffect(c), Kickoff(c)
  PROVE  WorkStep
<1> DEFINE d == client[c].target
<1>1. d \in Deployments /\ client[c].step = "kickoff"
  BY DEF Kickoff, ClientAt, IInv, TypeOK, ClientTypeOK, ClientStates, TargetSteps
<1>2. ProjectKept /\ (Destruction' <=> Destruction)
  <2>1. ProjectKept /\ client'[c].step \notin {"destroy", "drop"}
    BY FenceBlindSteps DEF FenceBlind, CreateNext, IInv
  <2> QED BY <1>1, <2>1 DEF ControlEffect, Destruction
<1>3. CASE ClaimBuildExecution(d) /\ worker' = [worker EXCEPT ![d] = "start"]
  <2>1. lease[d] = "unclaimed" /\ status[d] \in {"queued", "building"} /\ exists /\ ~deleting
    BY <1>3 DEF ClaimBuildExecution, Claimable, Admitting
  <2> HIDE DEF d
  <2>2. Running = {}
    BY <1>1, <2>1
       DEF Running, IInv, WorkerLeased, OneListed, Listed, InFlight, InFlightStatuses, LeaseHeld
  <2>3. Running' = {d}
    BY <1>1, <1>3, <2>2 DEF Running, Working, IInv, TypeOK, WorkerTypeOK
  <2>4. ~Destruction /\ cleanup = "none"
    BY <2>1, DestructionIsAlone DEF Destruction, FenceInv, CleanupFenced
  <2>5. Phase = "open" /\ Phase' = "open"
    BY <1>2, <2>1, <2>4 DEF Phase, Destruction, ProjectKept
  <2> QED BY <1>1, <2>2, <2>3, <2>5 DEF WorkStep, Work!WorkNext, Work!Begin, Running
<1>4. CASE worker' = worker
  BY <1>2, <1>4, PhaseKept DEF Working
<1> QED BY <1>3, <1>4 DEF Kickoff

(* Whatever else a request does that is not a teardown starts nothing. *)
LEMMA BlindWork ==
  ASSUME IInv, FenceInv, NEW c \in Clients, ControlEffect(c), FenceBlind(c),
         Request(c) \/ ClientNext(c)
  PROVE  WorkStep
<1>1. CASE Kickoff(c)
  BY <1>1, KickoffWork
<1>2. CASE ~Kickoff(c)
  <2>1. /\ ProjectKept /\ client[c].step \notin TeardownSteps
        /\ client'[c].step \notin {"destroy", "drop"}
    BY FenceBlindSteps DEF IInv
  <2>2. Destruction' <=> Destruction
    BY <2>1 DEF ControlEffect, Destruction, TeardownSteps
  <2>3. worker' = worker
    BY <1>2
       DEF FenceBlind, CreateNext, CancelNext, DecideNext, DeleteNext, ReconcileNext,
           RequestDeploy, RequestRollback, StartBuild, RequestCancel, RequestKeep,
           RequestReject, RequestDelete, RequestReconcile, InsertDeployment, InsertSession,
           UndoInsert, RetireReconciling, RetireDecisions, DropUnclaimed, SignalWorker,
           SettleSession, AwaitQuiescence, KeepRelease, KeepPointer, RejectDetach, RejectMark,
           Detach, Erase, Verdict, Forward, Advance, workerVars
  <2> QED BY <2>1, <2>2, <2>3, PhaseKept DEF Working
<1> QED BY <1>1, <1>2

(***************************************************************************)
(* A teardown fences an open project or finds it fenced, destroys only     *)
(* when no worker runs, and reopens only what it has not begun to destroy. *)
(***************************************************************************)
LEMMA TeardownWork ==
  ASSUME IInv, FenceInv, NEW c \in Clients, ControlEffect(c),
         RequestTeardown(c) \/ TeardownNext(c)
  PROVE  WorkStep
<1> USE DEF WorkStep, Work!WorkNext
<1>1. TypeOK /\ LedgerFor(c) /\ CleanupFenced
  BY DEF IInv, FenceInv
<1>2. Running' = Running
  <2>1. worker' = worker
    BY DEF RequestTeardown, ClaimTeardown, TeardownNext, RefuseTeardown, Gate, Drain, Poll,
           BeginCleanup, Destroy, DropProject, ReleaseFence, RetainFence, workerVars
  <2> QED BY <2>1 DEF Running, Working
<1>3. ASSUME TeardownNext(c)
      PROVE  /\ holder = c /\ InTeardown(c) /\ exists /\ deleting
             /\ client[c].step \in TeardownSteps /\ client[c].back # "poll"
  <2>1. client[c].step \in TeardownSteps
    BY <1>3
       DEF TeardownNext, RefuseTeardown, Gate, Drain, Poll, BeginCleanup, Destroy, DropProject,
           ReleaseFence, RetainFence, ClientAt, TeardownSteps
  <2> QED BY <2>1 DEF IInv, LockFor, FenceFor, Locked, InTeardown, TeardownSteps, CancelSteps
<1>4. CASE RequestTeardown(c)
  <2>1. PICK step \in {"gate", "drain"} :
          /\ holder = NoClient /\ ClaimDeletion /\ client[c].step = "idle"
          /\ ClientTakes(c, [IdleClient EXCEPT !.step = step, !.resumed = deleting])
    BY <1>4 DEF RequestTeardown, ClaimTeardown, Acquire, MayStart, ClientAt
  <2>2. client'[c].step = step
    BY <1>1, <2>1 DEF ClientTakes, IdleClient, TypeOK, ClientTypeOK
  <2>3. ~Destruction /\ ~Destruction'
    BY <2>1, <2>2, DestructionByHolder
  <2> QED
    BY <1>1, <1>2, <2>1, <2>3
       DEF ClaimDeletion, Phase, Destruction, CleanupFenced, Work!Fence, Running
<1>5. CASE RefuseTeardown(c) \/ Gate(c) \/ Drain(c) \/ Poll(c)
  <2>1. TeardownNext(c)
    BY <1>5 DEF TeardownNext
  <2>2. Destruction' <=> Destruction
    BY <1>1, <1>3, <1>5, <2>1, BeforeCleanup, DestructionByHolder
  <2> QED
    BY <1>1, <1>2, <1>5, <2>2, BeforeCleanup DEF Phase, Destruction, ProjectKept
<1>6. CASE BeginCleanup(c)
  <2>1. /\ holder = c /\ client[c].back # "poll" /\ client[c].step = "begin" /\ Running = {}
        /\ exists /\ deleting
    BY <1>3, <1>6, DestructionIsAlone DEF TeardownNext, BeginCleanup, ClientAt
  <2>2. CASE BeginDeletionCleanup /\ ClientGoes(c, "destroy")
    <3>1. client'[c].step = "destroy" /\ exists'
      BY <1>1, <2>1, <2>2, TeardownMoves DEF BeginDeletionCleanup
    <3>2. ~Destruction /\ Destruction'
      BY <2>1, <3>1, DestructionByHolder
    <3> QED
      BY <1>2, <2>1, <3>1, <3>2 DEF Phase, Destruction, Work!DestroyResources, Running
  <2>3. CASE WriteFails /\ ClientGoes(c, "release")
    <3>1. client'[c].step = "release" /\ ProjectKept
      BY <1>1, <2>1, <2>3, TeardownMoves, RowTransactionsKeepFence DEF WriteFails
    <3>2. ~Destruction /\ ~Destruction'
      BY <2>1, <3>1, DestructionByHolder
    <3> QED BY <1>2, <3>1, <3>2 DEF Phase, Destruction, ProjectKept
  <2> QED BY <1>6, <2>2, <2>3 DEF BeginCleanup
<1>7. CASE Destroy(c)
  <2>1. /\ holder = c /\ client[c].back # "poll" /\ client[c].step = "destroy"
        /\ InTeardown(c) /\ ProjectKept /\ exists /\ cleanup # "none"
    BY <1>1, <1>3, <1>7, RowTransactionsKeepFence
       DEF TeardownNext, Destroy, ClientAt, LedgerFor, CleanupSteps
  <2>2. client'[c].step \in {"drop", "condemn"}
    BY <1>1, <1>7, <2>1, TeardownMoves DEF Destroy
  <2>3. Destruction /\ (Destruction' <=> client'[c].step = "drop")
    BY <2>1, <2>2, DestructionByHolder
  <2> QED
    BY <1>2, <2>1, <2>2, <2>3 DEF Phase, Destruction, ProjectKept, Work!Condemn, Running
<1>8. CASE DropProject(c)
  <2>1. /\ holder = c /\ client[c].back # "poll" /\ client[c].step = "drop"
        /\ InTeardown(c) /\ exists /\ cleanup # "none"
    BY <1>1, <1>3, <1>8 DEF TeardownNext, DropProject, ClientAt, LedgerFor, CleanupSteps
  <2>2. Phase = "destroying"
    BY <2>1 DEF Phase
  <2>3. CASE DeleteHard /\ ClientDone(c)
    BY <1>2, <2>2, <2>3 DEF DeleteHard, Phase, Work!Vanish, Running
  <2>4. CASE WriteFails /\ ClientGoes(c, "condemn")
    <3>1. client'[c].step = "condemn" /\ ProjectKept
      BY <1>1, <2>1, <2>4, TeardownMoves, RowTransactionsKeepFence DEF WriteFails
    <3>2. ~Destruction'
      BY <2>1, <3>1, DestructionByHolder
    <3> QED
      BY <1>2, <2>1, <2>2, <3>1, <3>2
         DEF Phase, Destruction, ProjectKept, Work!Condemn, Running
  <2> QED BY <1>8, <2>3, <2>4 DEF DropProject
<1>9. CASE ReleaseFence(c) \/ RetainFence(c)
  <2>1. /\ holder = c /\ InTeardown(c) /\ exists /\ deleting
        /\ client[c].step \in {"release", "condemn"} /\ client'[c] = IdleClient
    BY <1>1, <1>3, <1>9, TeardownEnds DEF TeardownNext, ReleaseFence, RetainFence, ClientAt
  <2>2. ~Destruction /\ ~Destruction'
    BY <2>1, DestructionByHolder DEF IdleClient
  <2>3. \/ ProjectKept
        \/ exists' /\ deleting' /\ cleanup' = "failed"
        \/ exists' /\ cleanup = "none" /\ cleanup' = "none" /\ ~deleting'
    <3>1. CASE RetainFence(c)
      BY <2>1, <3>1, RowTransactionsKeepFence DEF RetainFence, WriteFails, MarkDeletionFailed
    <3>2. CASE ReleaseFence(c)
      BY <1>1, <2>1, <3>2, RowTransactionsKeepFence
         DEF ReleaseFence, WriteFails, MarkDeletionFailed, ClearDeletionInProgress, LedgerFor,
             ClientAt, CleanupSteps
    <3> QED BY <1>9, <3>1, <3>2
  <2> QED
    BY <1>2, <2>1, <2>2, <2>3
       DEF Phase, Destruction, ProjectKept, Work!Condemn, Work!Reopen, Running
<1> QED BY <1>4, <1>5, <1>6, <1>7, <1>8, <1>9 DEF TeardownNext

(* Every step is a step of ProjectWork, or none of its business. *)
LEMMA WorkSteps ==
  ASSUME IInv, FenceInv, [Next]_vars
  PROVE  WorkStep
<1>1. ASSUME NEW d \in Deployments, WorkerNext(d) PROVE WorkStep
  <2>1. /\ ProjectKept /\ client' = client
        /\ \A e \in Deployments : Working(e)' => Working(e)
    BY <1>1, OthersKeepFence, WorkerEffects DEF IInv, WorkerEffect
  <2> QED BY <2>1, PhaseKept DEF Destruction
<1>2. ASSUME NEW c \in Clients, Request(c) \/ ClientNext(c) PROVE WorkStep
  <2>1. ControlEffect(c)
    BY <1>2, ControlEffects DEF IInv
  <2> QED BY <1>2, <2>1, RequestsSplit, BlindWork, TeardownWork
<1>3. CASE BootNext
  <2>1. ProjectKept /\ client' = client /\ worker' = worker
    BY <1>3, OthersKeepFence
       DEF BootNext, BootDeployments, BootSessions, BootLeases, clientVars, workerVars
  <2> QED BY <2>1, PhaseKept DEF Destruction, Working
<1>4. CASE Crash
  <2>1. /\ ProjectKept /\ \A c \in Clients : client'[c] = IdleClient
        /\ \A e \in Deployments : ~Working(e)'
    BY <1>4, OthersKeepFence DEF Crash, Working
  <2>2. ~Destruction'
    BY <2>1 DEF Destruction, IdleClient
  <2>3. CASE Destruction
    <3>1. PICK c \in Clients : client[c].step \in {"destroy", "drop"}
      BY <2>3 DEF Destruction
    <3>2. Running = {} /\ exists /\ deleting /\ cleanup # "none"
      BY <3>1, DestructionIsAlone
         DEF FenceInv, LedgerFor, InTeardown, TeardownSteps, CleanupSteps
    <3> QED
      BY <2>1, <2>2, <2>3, <3>2
         DEF WorkStep, Work!WorkNext, Work!Condemn, Phase, Destruction, ProjectKept, Running
  <2>4. CASE ~Destruction
    BY <2>1, <2>2, <2>4, PhaseKept
  <2> QED BY <2>3, <2>4
<1>5. CASE UNCHANGED vars
  BY <1>5
     DEF WorkStep, vars, storeVars, projectVars, clientVars, workerVars, Phase, Running, Working
<1> QED BY <1>1, <1>2, <1>3, <1>4, <1>5 DEF Next

(***************************************************************************)
(* Rows, lease, lock and fence together implement ProjectWork: a worker    *)
(* starts only alone and in an open project, and what a deletion destroys, *)
(* it destroys behind the fence, after the last worker.                    *)
(***************************************************************************)
THEOREM LifecycleImplementsProjectWork == Spec => ImplementsProjectWork
<1>1. Init => Work!WorkInit
  BY DEF Init, StoreInit, Work!WorkInit, Phase, Working, IdleClient
<1>2. IInv /\ FenceInv /\ [Next]_vars => [Work!WorkNext]_(Work!work)
  BY WorkSteps DEF WorkStep, Work!work, Running
<1> QED BY <1>1, <1>2, FenceHolds, PTL DEF Spec, ImplementsProjectWork, Work!WorkSpec

-----------------------------------------------------------------------------
(* What becomes of rows: transactions, steps, and the outcomes they leave. *)

Born(d) == status[d] # "unborn"

(* Rows keep their identity, and a deleted row stays deleted. *)
HistoryKept ==
  \A e \in Deployments :
    /\ Born(e) => Born(e)' /\ commit'[e] = commit[e] /\ previous'[e] = previous[e]
    /\ status[e] = "deleted" => status'[e] = "deleted"

(* No lease opens. *)
Lapsing == \A e \in Deployments : LeaseHeld(e)' => LeaseHeld(e)

(* No row enters the statuses of a build or a deploy phase. *)
Settling ==
  \A e \in Deployments : status'[e] \in {"building", "deploying"} => status'[e] = status[e]

Unrejected == \A e \in Deployments : status'[e] = "rejected" => status[e] = "rejected"

BirthsKept == \A e \in Deployments : Born(e)' => Born(e)

Uneventful == HistoryKept /\ Lapsing /\ Settling /\ Unrejected /\ BirthsKept

(***************************************************************************)
(* What a transaction can do to the rows: only the insert gives birth, the *)
(* claim alone opens a lease, and a status is what its writer says.        *)
(***************************************************************************)
LEMMA UneventfulTransactions ==
  ASSUME StoreTypeOK
  PROVE  /\ UNCHANGED storeVars => Uneventful
         /\ \A d, k, w, h : CreateDeployment(d, k, w, h) =>
              HistoryKept /\ Lapsing /\ Settling /\ Unrejected
         /\ \A d \in Deployments : ClaimBuildExecution(d) => HistoryKept /\ Unrejected /\ BirthsKept
         /\ \A d \in Deployments :
              \/ CreateBuildSession(d) \/ CancelUnclaimedBuild(d)
              \/ SupersedePendingDecisions(d) \/ SupersedeReconciling(d)
              \/ AcknowledgeBuildExecutionFinished(d) \/ AcknowledgeUnstartedBuildSession(d)
              => Uneventful
         /\ \A d \in Deployments : RecordCancellation(d) /\ RowExists(d) => Uneventful
         /\ \A d \in Deployments : DeleteDeployment(d) /\ Born(d) => Uneventful
         /\ \A d : \A s \in Statuses \ {"unborn"} : UpdateStatus(d, s) =>
              /\ HistoryKept /\ Lapsing /\ BirthsKept
              /\ s # "rejected" => Unrejected
              /\ s \notin {"building", "deploying"} => Settling
              /\ \A e \in Deployments : e # d => status'[e] = status[e]
         /\ \A d, choice : \A s \in {"partial_failure", "rejected"} :
              UpdateStatusAndDecision(d, s, choice) =>
                /\ HistoryKept /\ Lapsing /\ BirthsKept /\ Settling
                /\ s # "rejected" => Unrejected
                /\ \A e \in Deployments : e # d => status'[e] = status[e]
         /\ \A d, n, choice : RecordReady(d, n, choice) => Uneventful
         /\ \A d, s : UpdateBuildSession(d, s) \/ FinishBuildSession(d, s) => Uneventful
         /\ \A d : SetActiveDeployment(d) => Uneventful
         /\ SweepDeployments \/ (\E S : SweepSessions(S)) \/ SweepLeases => Uneventful
         /\ ClaimDeletion \/ ClearDeletionInProgress \/ BeginDeletionCleanup => Uneventful
         /\ MarkDeletionFailed \/ DeleteHard => Uneventful
<1> USE DEF StoreTypeOK, rowVars, sessionVars, projectVars, storeVars, Uneventful, HistoryKept,
            Lapsing, Settling, Unrejected, BirthsKept, Born, LeaseHeld, RowExists, Writable
<1>1. UNCHANGED storeVars => Uneventful
  OBVIOUS
<1>2. ASSUME NEW d, NEW k, NEW w, NEW h, CreateDeployment(d, k, w, h)
      PROVE  HistoryKept /\ Lapsing /\ Settling /\ Unrejected
  BY <1>2 DEF CreateDeployment, NextRow
<1>3. ASSUME NEW d \in Deployments, ClaimBuildExecution(d)
      PROVE  HistoryKept /\ Unrejected /\ BirthsKept
  BY <1>3 DEF ClaimBuildExecution, Claimable
<1>4. ASSUME NEW d \in Deployments, CreateBuildSession(d) \/ CancelUnclaimedBuild(d)
      PROVE  Uneventful
  BY <1>4 DEF CreateBuildSession, CancelUnclaimedBuild
<1>5. ASSUME NEW d \in Deployments, SupersedePendingDecisions(d) \/ SupersedeReconciling(d)
      PROVE Uneventful
  BY <1>5 DEF SupersedePendingDecisions, SupersedeReconciling, AwaitingDecision
<1>6. ASSUME NEW d \in Deployments,
             AcknowledgeBuildExecutionFinished(d) \/ AcknowledgeUnstartedBuildSession(d)
      PROVE Uneventful
  BY <1>6 DEF AcknowledgeBuildExecutionFinished, AcknowledgeUnstartedBuildSession
<1>7. ASSUME NEW d \in Deployments,
             \/ RecordCancellation(d) /\ RowExists(d)
             \/ DeleteDeployment(d) /\ Born(d)
      PROVE  Uneventful
  BY <1>7 DEF RecordCancellation, DeleteDeployment
<1>8. ASSUME NEW d, NEW s \in Statuses \ {"unborn"}, UpdateStatus(d, s)
      PROVE  /\ HistoryKept /\ Lapsing /\ BirthsKept
             /\ s # "rejected" => Unrejected
             /\ s \notin {"building", "deploying"} => Settling
             /\ \A e \in Deployments : e # d => status'[e] = status[e]
  BY <1>8 DEF UpdateStatus, SetStatus
<1>9. ASSUME NEW d, NEW choice, NEW s \in {"partial_failure", "rejected"},
             UpdateStatusAndDecision(d, s, choice)
      PROVE  /\ HistoryKept /\ Lapsing /\ BirthsKept /\ Settling
             /\ s # "rejected" => Unrejected
             /\ \A e \in Deployments : e # d => status'[e] = status[e]
  BY <1>9 DEF UpdateStatusAndDecision, SetStatus
<1>10. ASSUME NEW d, NEW n, NEW choice, RecordReady(d, n, choice) PROVE Uneventful
  BY <1>10 DEF RecordReady, SetStatus
<1>11. ASSUME NEW d, NEW s, UpdateBuildSession(d, s) \/ FinishBuildSession(d, s)
       PROVE Uneventful
  BY <1>11 DEF UpdateBuildSession, FinishBuildSession
<1>12. ASSUME NEW d, SetActiveDeployment(d) PROVE Uneventful
  BY <1>12 DEF SetActiveDeployment
<1>13. SweepDeployments => Uneventful
  BY DEF SweepDeployments, InFlight, InFlightStatuses
<1>14. ASSUME NEW S, SweepSessions(S) PROVE Uneventful
  BY <1>14 DEF SweepSessions
<1>15. SweepLeases => Uneventful
  BY DEF SweepLeases
<1>16. ClaimDeletion \/ ClearDeletionInProgress \/ BeginDeletionCleanup \/ MarkDeletionFailed
         => Uneventful
  BY DEF ClaimDeletion, ClearDeletionInProgress, BeginDeletionCleanup, MarkDeletionFailed
<1>17. DeleteHard => Uneventful
  BY DEF DeleteHard
<1> HIDE DEF StoreTypeOK, storeVars, Uneventful, HistoryKept, Lapsing, Settling, Unrejected,
             BirthsKept, RowExists, Born, LeaseHeld, Writable
<1> QED
  BY <1>1, <1>2, <1>3, <1>4, <1>5, <1>6, <1>7, <1>8, <1>9, <1>10, <1>11, <1>12, <1>13, <1>14,
     <1>15, <1>16, <1>17

(* The steps at which a worker's row shows neither a build nor a deploy phase. *)
DoneSteps == {"off", "point", "supersede", "finish", "rollup", "archive", "finally",
              "fallbackSession"}

Attended(d) == worker[d] \in DoneSteps => status[d] \notin {"building", "deploying"}

(* What a worker does to the rows, its own and the others. *)
WorkerHistory(d) ==
  /\ HistoryKept /\ Lapsing /\ Unrejected /\ BirthsKept
  /\ \A e \in Deployments \ {d} :
       /\ worker'[e] = worker[e]
       /\ status'[e] \in {"building", "deploying"} => status'[e] = status[e]
  /\ writeFailures' = 0 => writeFailures = 0 /\ (Attended(d) => Attended(d)')
  /\ Working(d) /\ LeaseHeld(d)' => Working(d)'
  /\ UNCHANGED <<client, reported, api>>

(***************************************************************************)
(* With no write lost, a worker leaves the build and deploy phases only    *)
(* with an outcome on its row, and goes only with its lease closed.        *)
(***************************************************************************)
LEMMA WorkerHistories ==
  ASSUME TypeOK, NEW d \in Deployments, WorkerNext(d)
  PROVE  WorkerHistory(d)
<1>1. /\ writeFailures \in Nat /\ status \in [Deployments -> Statuses]
      /\ worker \in [Deployments -> WorkerSteps] /\ StoreTypeOK
  BY DEF TypeOK, HostTypeOK, WorkerTypeOK, StoreTypeOK
<1> USE <1>1, UneventfulTransactions
    DEF WorkerHistory, Uneventful, Attended, DoneSteps, WorkerAt, WorkerGoes, WorkerDecides,
        Working, clientVars, hostVars, WriteFails
<1> USE DEF Settling
<1>2. CASE StartWork(d)
  BY <1>2 DEF StartWork
<1>3. CASE MarkSessionBuilding(d)
  BY <1>3 DEF MarkSessionBuilding
<1>4. CASE MarkRowBuilding(d)
  BY <1>4 DEF MarkRowBuilding, Statuses, InFlightStatuses
<1>5. CASE Build(d)
  BY <1>5 DEF Build
<1>6. CASE Promote(d)
  BY <1>6 DEF Promote, Statuses, InFlightStatuses
<1>7. CASE Deploy(d)
  BY <1>7 DEF Deploy
<1>8. CASE StopWork(d)
  BY <1>8 DEF StopWork
<1>9. CASE ReadVersion(d)
  BY <1>9 DEF ReadVersion
<1>10. CASE RecordSuccess(d)
  <2>1. writeFailures' = 0 => (Attended(d) => Attended(d)')
    <3> HIDE UneventfulTransactions
    <3> QED BY <1>10 DEF RecordSuccess, RecordReady, SetStatus, Writable, StoreTypeOK
  <2> HIDE DEF Attended
  <2> QED BY <1>10, <2>1 DEF RecordSuccess, Statuses
<1>11. CASE RecordOther(d)
  <2>1. writeFailures' = 0 => (Attended(d) => Attended(d)')
    <3> HIDE UneventfulTransactions
    <3> QED BY <1>11 DEF RecordOther, UpdateStatus, SetStatus, Writable, StoreTypeOK
  <2> HIDE DEF Attended
  <2> QED BY <1>11, <2>1 DEF RecordOther, Statuses
<1>12. CASE RecordCancelled(d)
  BY <1>12 DEF RecordCancelled, RecordCancellation, Writable, RowExists
<1>13. CASE PublishRelease(d)
  BY <1>13 DEF PublishRelease
<1>14. CASE SupersedeDecisions(d)
  BY <1>14 DEF SupersedeDecisions
<1>15. CASE FinishSession(d)
  BY <1>15 DEF FinishSession
<1>16. CASE RollUp(d)
  BY <1>16 DEF RollUp
<1>17. CASE ArchivePrevious(d)
  BY <1>17 DEF ArchivePrevious
<1>18. CASE FallBack(d)
  BY <1>18 DEF FallBack, RowExists
<1>19. CASE FallBackRow(d)
  <2>1. writeFailures' = 0 => (Attended(d) => Attended(d)')
    <3> HIDE UneventfulTransactions
    <3> QED BY <1>19 DEF FallBackRow, UpdateStatus, SetStatus, Writable, StoreTypeOK
  <2> HIDE DEF Attended
  <2> QED BY <1>19, <2>1 DEF FallBackRow, Statuses
<1>20. CASE FallBackSession(d)
  BY <1>20 DEF FallBackSession
<1>21. CASE CompleteExecution(d)
  BY <1>21 DEF CompleteExecution, AcknowledgeBuildExecutionFinished, LeaseHeld, StoreTypeOK
<1>22. CASE PollCancellation(d)
  BY <1>22 DEF PollCancellation
<1> QED
  BY <1>2, <1>3, <1>4, <1>5, <1>6, <1>7, <1>8, <1>9, <1>10, <1>11, <1>12, <1>13, <1>14,
     <1>15, <1>16, <1>17, <1>18, <1>19, <1>20, <1>21, <1>22
     DEF WorkerNext

(* The row a request's current step is about has been inserted. *)
TargetBorn(c) == client[c].step \in TargetSteps => Born(client[c].target)

(* What a request does to the rows and the workers. *)
RequestHistory(c) ==
  /\ HistoryKept
  /\ Unrejected \/ RejectMark(c)
  /\ BirthsKept \/ InsertDeployment(c)
  /\ \/ Lapsing /\ Settling /\ worker' = worker
     \/ /\ client[c].target \in Deployments /\ ClaimBuildExecution(client[c].target)
        /\ worker' = [worker EXCEPT ![client[c].target] = "start"]
  /\ writeFailures' = 0 => writeFailures = 0
  /\ reported' = reported \/ AwaitQuiescence(c)

(***************************************************************************)
(* Of all requests only a create gives birth to a row, only a kickoff      *)
(* opens a lease and starts a worker, and only a reject rejects.           *)
(***************************************************************************)
LEMMA RequestHistories ==
  ASSUME TypeOK, NEW c \in Clients, TargetBorn(c), Request(c) \/ ClientNext(c)
  PROVE  RequestHistory(c)
<1>1. /\ writeFailures \in Nat /\ StoreTypeOK
      /\ client[c].step \in TargetSteps => client[c].target \in Deployments
  BY DEF TypeOK, HostTypeOK, ClientTypeOK, ClientStates
<1> USE <1>1, UneventfulTransactions
    DEF RequestHistory, Uneventful, ClientAt, TargetSteps, CreateSteps, DeleteSteps,
        ReconcileSteps, CancelSteps, workerVars, hostVars, WriteFails, TargetBorn
<1>2. CASE RequestDeploy(c)
  BY <1>2 DEF RequestDeploy
<1>3. CASE RequestRollback(c)
  BY <1>3 DEF RequestRollback
<1>4. CASE StartBuild(c)
  BY <1>4 DEF StartBuild
<1>5. CASE RequestCancel(c)
  BY <1>5 DEF RequestCancel, WinCancellation, InFlight, InFlightStatuses, RowExists
<1>6. CASE RequestKeep(c)
  BY <1>6 DEF RequestKeep
<1>7. CASE RequestReject(c)
  BY <1>7 DEF RequestReject
<1>8. CASE RequestDelete(c)
  BY <1>8 DEF RequestDelete
<1>9. CASE RequestReconcile(c)
  BY <1>9 DEF RequestReconcile
<1>10. CASE RequestTeardown(c)
  BY <1>10 DEF RequestTeardown, ClaimTeardown
<1>11. CASE InsertDeployment(c)
  BY <1>11 DEF InsertDeployment
<1>12. CASE InsertSession(c)
  BY <1>12 DEF InsertSession
<1>13. CASE UndoInsert(c)
  BY <1>13 DEF UndoInsert
<1>14. CASE RetireReconciling(c)
  BY <1>14 DEF RetireReconciling
<1>15. CASE RetireDecisions(c)
  BY <1>15 DEF RetireDecisions
<1>16. CASE Kickoff(c)
  BY <1>16 DEF Kickoff
<1>17. CASE DropUnclaimed(c)
  BY <1>17 DEF DropUnclaimed
<1>18. CASE SignalWorker(c)
  BY <1>18 DEF SignalWorker
<1>19. CASE SettleSession(c)
  BY <1>19 DEF SettleSession
<1>20. CASE AwaitQuiescence(c)
  BY <1>20 DEF AwaitQuiescence
<1>21. CASE KeepRelease(c)
  BY <1>21 DEF KeepRelease
<1>22. CASE KeepPointer(c)
  BY <1>22 DEF KeepPointer
<1>23. CASE RejectDetach(c)
  BY <1>23 DEF RejectDetach
<1>24. CASE RejectMark(c)
  BY <1>24 DEF RejectMark
<1>25. CASE Detach(c)
  BY <1>25 DEF Detach
<1>26. CASE Erase(c)
  BY <1>26 DEF Erase
<1>27. CASE Verdict(c)
  BY <1>27 DEF Verdict, Statuses, ShippedStatuses
<1>28. CASE Forward(c)
  BY <1>28 DEF Forward
<1>29. CASE Advance(c)
  BY <1>29 DEF Advance
<1>30. CASE RefuseTeardown(c)
  BY <1>30 DEF RefuseTeardown
<1>31. CASE Gate(c)
  BY <1>31 DEF Gate
<1>32. CASE Drain(c)
  BY <1>32 DEF Drain, WinCancellation, InFlight, InFlightStatuses, RowExists
<1>33. CASE Poll(c)
  BY <1>33 DEF Poll
<1>34. CASE BeginCleanup(c)
  BY <1>34 DEF BeginCleanup
<1>35. CASE Destroy(c)
  BY <1>35 DEF Destroy
<1>36. CASE DropProject(c)
  BY <1>36 DEF DropProject
<1>37. CASE ReleaseFence(c)
  BY <1>37 DEF ReleaseFence
<1>38. CASE RetainFence(c)
  BY <1>38 DEF RetainFence
<1> QED
  BY <1>2, <1>3, <1>4, <1>5, <1>6, <1>7, <1>8, <1>9, <1>10, <1>11, <1>12, <1>13, <1>14,
     <1>15, <1>16, <1>17, <1>18, <1>19, <1>20, <1>21, <1>22, <1>23, <1>24, <1>25, <1>26,
     <1>27, <1>28, <1>29, <1>30, <1>31, <1>32, <1>33, <1>34, <1>35, <1>36, <1>37, <1>38
     DEF Request, ClientNext, CreateNext, CancelNext, DecideNext, DeleteNext, ReconcileNext,
         TeardownNext

(* Who cancels a deployment has won it in the database. *)
Ended(d) == status[d] \in {"cancelled", "deleted"}

Cancelling(c) == client[c].step \in CancelSteps => Ended(client[c].target)

(***************************************************************************)
(* The release that s replaced, if any, has been deployed again: a later   *)
(* deployment ships its commit.                                            *)
(***************************************************************************)
Restored(s) ==
  /\ s \in Deployments /\ Born(s)
  /\ previous[s] # NoDeployment =>
       /\ previous[s] \in Deployments /\ Born(previous[s])
       /\ \E e \in Deployments : e > s /\ Born(e) /\ commit[e] = commit[previous[s]]

(***************************************************************************)
(* A reject that restores first carries the commit to restore; from the    *)
(* insert on, and before it detaches or marks, the restore has been made.  *)
(***************************************************************************)
RestoreFor(c) ==
  LET s == client[c].subject IN
  /\ client[c].back = "rejectDetach" /\ client[c].step = "insert" =>
       /\ s \in Deployments /\ Born(s)
       /\ previous[s] \in Deployments /\ Born(previous[s])
       /\ client[c].wanted = commit[previous[s]]
  /\ (client[c].back = "rejectDetach" /\ client[c].step # "insert")
     \/ client[c].step \in {"rejectDetach", "rejectMark"} => Restored(s)

RequestInv(c) == TargetBorn(c) /\ Cancelling(c) /\ RestoreFor(c)

(* Rows are born in the order of their ids. *)
BornInOrder == \A d, e \in Deployments : e < d /\ Born(d) => Born(e)

(* What a request's own record says stays true of rows that keep their history. *)
LEMMA RequestInvKept ==
  ASSUME TypeOK, NEW c \in Clients, RequestInv(c), client'[c] = client[c],
         HistoryKept, Pinned
  PROVE  RequestInv(c)'
<1>1. client[c].step \in TargetSteps => client[c].target \in Deployments
  BY DEF TypeOK, ClientTypeOK, ClientStates
<1>2. TargetBorn(c)' /\ Cancelling(c)'
  BY <1>1
     DEF RequestInv, TargetBorn, Cancelling, Ended, HistoryKept, Pinned, TargetSteps, Born
<1>3. ASSUME NEW s, Restored(s) PROVE Restored(s)'
  BY <1>3 DEF Restored, HistoryKept
<1>4. RestoreFor(c)'
  BY <1>3 DEF RequestInv, RestoreFor, HistoryKept
<1> QED BY <1>2, <1>4 DEF RequestInv

(* How a handler's own record can change, with the row it says it is about. *)
RecordKept(c) ==
  \/ client'[c] = IdleClient
  \/ /\ client'[c].target = client[c].target /\ client'[c].subject = client[c].subject
     /\ client'[c].step \in TargetSteps => client[c].step \in TargetSteps
     /\ client'[c].step \in CancelSteps => client[c].step \in CancelSteps
     /\ client'[c].step # "insert" /\ client[c].step # "insert"
     /\ client'[c].back = "rejectDetach" => client[c].back = "rejectDetach"
     /\ client'[c].step = "rejectDetach" => client[c].back = "rejectDetach"
     /\ client'[c].step = "rejectMark" => client[c].step = "rejectDetach"

(* A record that goes on about the same rows goes on being true of them. *)
LEMMA RecordInvKept ==
  ASSUME TypeOK, NEW c \in Clients, RequestInv(c), RecordKept(c), HistoryKept, Pinned
  PROVE  RequestInv(c)'
<1>1. client[c].step \in TargetSteps => client[c].target \in Deployments
  BY DEF TypeOK, ClientTypeOK, ClientStates
<1>2. ASSUME NEW s, Restored(s) PROVE Restored(s)'
  BY <1>2 DEF Restored, HistoryKept
<1>3. CASE client'[c] = IdleClient
  BY <1>3
     DEF RequestInv, TargetBorn, Cancelling, RestoreFor, IdleClient, TargetSteps, CancelSteps,
         CreateSteps, DeleteSteps, ReconcileSteps
<1>4. CASE client'[c] # IdleClient
  <2>1. TargetBorn(c)' /\ Cancelling(c)'
    BY <1>1, <1>4
       DEF RequestInv, RecordKept, TargetBorn, Cancelling, Ended, HistoryKept, Pinned,
           TargetSteps, Born
  <2>2. RestoreFor(c)'
    BY <1>2, <1>4 DEF RequestInv, RecordKept, RestoreFor
  <2> QED BY <2>1, <2>2 DEF RequestInv
<1> QED BY <1>3, <1>4

(* The steps that end, or go on with the deployment they were about. *)
GoesOn(c) ==
  \/ InsertSession(c) \/ UndoInsert(c) \/ RetireReconciling(c) \/ RetireDecisions(c)
  \/ Kickoff(c) \/ DropUnclaimed(c) \/ CancelNext(c) \/ DecideNext(c) \/ DeleteNext(c)
  \/ ReconcileNext(c) \/ RefuseTeardown(c) \/ Gate(c) \/ Poll(c) \/ BeginCleanup(c)
  \/ Destroy(c) \/ DropProject(c) \/ ReleaseFence(c) \/ RetainFence(c)

(* They do go on about the rows they were about. *)
LEMMA GoingOn ==
  ASSUME TypeOK, NEW c \in Clients, LockFor(c), GoesOn(c)
  PROVE  RecordKept(c)
<1>1. client[c] \in ClientRecords
  BY DEF TypeOK, ClientTypeOK, ClientStates
<1>2. client \in [Clients -> ClientStates]
  BY DEF TypeOK, ClientTypeOK
<1> USE <1>1, <1>2
    DEF ClientRecords, RecordKept, ClientAt, ClientTakes, ClientGoes, ClientDone,
        ClientReturns, IdleClient, TargetSteps, CancelSteps, CreateSteps, DeleteSteps,
        ReconcileSteps
<1>3. CASE InsertSession(c)
  BY <1>3 DEF InsertSession
<1>4. CASE UndoInsert(c)
  BY <1>4 DEF UndoInsert
<1>5. CASE RetireReconciling(c)
  BY <1>5 DEF RetireReconciling
<1>6. CASE RetireDecisions(c)
  BY <1>6 DEF RetireDecisions
<1>7. CASE Kickoff(c)
  <2>1. client[c].back \in {"idle", "rejectDetach"} /\ client[c].step = "kickoff"
    BY <1>7 DEF Kickoff, LockFor
  <2>2. CASE client[c].back = "idle" /\ ClientReturns(c)
    BY <2>2
  <2>3. CASE client[c].back = "rejectDetach" /\ ClientReturns(c)
    BY <2>1, <2>3
  <2>4. CASE ClientDone(c)
    BY <2>4
  <2>5. CASE ClientGoes(c, "unclaim")
    BY <2>1, <2>5
  <2> HIDE DEF ClientReturns, ClientDone, ClientGoes
  <2> QED BY <1>7, <2>1, <2>2, <2>3, <2>4, <2>5 DEF Kickoff
<1>8. CASE DropUnclaimed(c)
  BY <1>8 DEF DropUnclaimed
<1>9. CASE SignalWorker(c)
  BY <1>9 DEF SignalWorker
<1>10. CASE SettleSession(c)
  BY <1>10 DEF SettleSession
<1>11. CASE AwaitQuiescence(c)
  <2>1. client[c].step = "quiesce" /\ ClientReturns(c)
    <3> HIDE DEF ClientReturns
    <3> QED BY <1>11 DEF AwaitQuiescence
  <2>2. CASE client[c].back = "poll"
    BY <2>1, <2>2
  <2>3. CASE client[c].back = "idle"
    BY <2>1, <2>3
  <2>4. CASE client[c].back = "rejectDetach"
    BY <2>1, <2>4
  <2> QED BY <2>2, <2>3, <2>4
<1>12. CASE KeepRelease(c)
  BY <1>12 DEF KeepRelease
<1>13. CASE KeepPointer(c)
  BY <1>13 DEF KeepPointer
<1>14. CASE RejectDetach(c)
  <2>1. client[c].step = "rejectDetach" /\ (ClientGoes(c, "rejectMark") \/ ClientDone(c))
    <3> HIDE DEF ClientGoes, ClientDone
    <3> QED BY <1>14 DEF RejectDetach
  <2>2. CASE ClientGoes(c, "rejectMark")
    BY <2>1, <2>2
  <2>3. CASE ClientDone(c)
    BY <2>3
  <2> HIDE DEF ClientGoes, ClientDone
  <2> QED BY <2>1, <2>2, <2>3
<1>15. CASE RejectMark(c)
  BY <1>15 DEF RejectMark
<1>16. CASE Detach(c)
  BY <1>16 DEF Detach
<1>17. CASE Erase(c)
  BY <1>17 DEF Erase
<1>18. CASE Verdict(c)
  BY <1>18 DEF Verdict
<1>19. CASE Forward(c)
  BY <1>19 DEF Forward
<1>20. CASE Advance(c)
  BY <1>20 DEF Advance
<1>21. CASE RefuseTeardown(c)
  BY <1>21 DEF RefuseTeardown
<1>22. CASE Gate(c)
  BY <1>22 DEF Gate
<1>23. CASE Poll(c)
  BY <1>23 DEF Poll
<1>24. CASE BeginCleanup(c)
  BY <1>24 DEF BeginCleanup
<1>25. CASE Destroy(c)
  <2>1. client[c].step = "destroy" /\ (ClientGoes(c, "drop") \/ ClientGoes(c, "condemn"))
    <3> HIDE DEF ClientGoes
    <3> QED BY <1>25 DEF Destroy
  <2>2. CASE ClientGoes(c, "drop")
    BY <2>1, <2>2
  <2>3. CASE ClientGoes(c, "condemn")
    BY <2>1, <2>3
  <2> HIDE DEF ClientGoes
  <2> QED BY <2>1, <2>2, <2>3
<1>26. CASE DropProject(c)
  <2>1. client[c].step = "drop" /\ (ClientDone(c) \/ ClientGoes(c, "condemn"))
    <3> HIDE DEF ClientGoes, ClientDone
    <3> QED BY <1>26 DEF DropProject
  <2>2. CASE ClientDone(c)
    BY <2>2
  <2>3. CASE ClientGoes(c, "condemn")
    BY <2>1, <2>3
  <2> HIDE DEF ClientGoes, ClientDone
  <2> QED BY <2>1, <2>2, <2>3
<1>27. CASE ReleaseFence(c)
  BY <1>27 DEF ReleaseFence
<1>28. CASE RetainFence(c)
  BY <1>28 DEF RetainFence
<1> QED
  BY <1>3, <1>4, <1>5, <1>6, <1>7, <1>8, <1>9, <1>10, <1>11, <1>12, <1>13, <1>14, <1>15,
     <1>16, <1>17, <1>18, <1>19, <1>20, <1>21, <1>22, <1>23, <1>24, <1>25, <1>26, <1>27,
     <1>28
     DEF GoesOn, CancelNext, DecideNext, DeleteNext, ReconcileNext

(* A request that takes up a row takes up one that is there. *)
LEMMA Beginning ==
  ASSUME TypeOK, NEW c \in Clients, Request(c), HistoryKept, Pinned
  PROVE  RequestInv(c)'
<1>1. client \in [Clients -> ClientStates] /\ StoreTypeOK
  BY DEF TypeOK, ClientTypeOK
<1>2. ASSUME NEW r, ClientTakes(c, r) PROVE client'[c] = r
  BY <1>1, <1>2 DEF ClientTakes
<1>3. ASSUME NEW revision, NEW held, NEW s, NEW back, s \in Deployments => Born(s),
             ClientTakes(c, ReadyToInsert(revision, held, s, back)),
             back = "rejectDetach" =>
               /\ s \in Deployments /\ Born(s)
               /\ previous[s] \in Deployments /\ Born(previous[s])
               /\ revision = commit[previous[s]]
      PROVE  RequestInv(c)'
  <2>1. client'[c] = ReadyToInsert(revision, held, s, back)
    BY <1>2, <1>3
  <2>2. /\ client'[c].step = "insert" /\ client'[c].subject = s
        /\ client'[c].back = back /\ client'[c].wanted = revision
    BY <2>1 DEF ReadyToInsert, IdleClient
  <2>3. TargetBorn(c)' /\ Cancelling(c)'
    BY <2>2
       DEF TargetBorn, Cancelling, TargetSteps, CreateSteps, DeleteSteps, ReconcileSteps,
           CancelSteps
  <2>4. RestoreFor(c)'
    BY <1>3, <2>2 DEF RestoreFor, HistoryKept
  <2> QED BY <2>3, <2>4 DEF RequestInv
<1>4. ASSUME NEW r, ClientTakes(c, r), r.back # "rejectDetach",
             r.step \notin {"rejectDetach", "rejectMark"},
             r.step \in TargetSteps => Born(r.target)',
             r.step \in CancelSteps => Ended(r.target)'
      PROVE  RequestInv(c)'
  BY <1>2, <1>4 DEF RequestInv, TargetBorn, Cancelling, RestoreFor, Ended, Born
<1>5. CASE RequestDeploy(c)
  <2>1. PICK revision \in Revisions :
          ClientTakes(c, ReadyToInsert(revision, "none", NoDeployment, "idle"))
    BY <1>5 DEF RequestDeploy
  <2>2. NoDeployment \notin Deployments
    BY DeploymentsAssumption DEF NoDeployment, Deployments
  <2> QED BY <1>3, <2>1, <2>2
<1>6. CASE RequestRollback(c)
  <2>1. PICK d \in Deployments :
          ClientTakes(c, ReadyToInsert(commit[d], decision[d], NoDeployment, "idle"))
    BY <1>6 DEF RequestRollback
  <2>2. NoDeployment \notin Deployments
    BY DeploymentsAssumption DEF NoDeployment, Deployments
  <2> QED BY <1>3, <2>1, <2>2
<1>7. CASE StartBuild(c)
  <2>1. PICK d \in Deployments :
          /\ status[d] = "queued"
          /\ ClientTakes(c, [IdleClient EXCEPT !.step = "kickoff", !.target = d])
    BY <1>7 DEF StartBuild
  <2>2. Born(d)'
    BY <2>1 DEF HistoryKept, Born
  <2>3. client'[c] = [IdleClient EXCEPT !.step = "kickoff", !.target = d]
    BY <1>2, <2>1
  <2> QED
    BY <2>2, <2>3
       DEF IdleClient, RequestInv, TargetBorn, Cancelling, RestoreFor, CancelSteps
<1>8. CASE RequestCancel(c)
  <2>1. PICK d \in Deployments :
          /\ WinCancellation(d)
          /\ ClientTakes(c, [IdleClient EXCEPT !.step = "signal", !.target = d])
    BY <1>8 DEF RequestCancel
  <2>2. Ended(d)' /\ Born(d)'
    BY <1>1, <2>1
       DEF WinCancellation, RecordCancellation, StoreTypeOK, Ended, Born, storeVars, rowVars
  <2>3. client'[c] = [IdleClient EXCEPT !.step = "signal", !.target = d]
    BY <1>2, <2>1
  <2> QED BY <2>2, <2>3 DEF IdleClient, RequestInv, TargetBorn, Cancelling, RestoreFor
<1>9. CASE RequestKeep(c)
  <2>1. PICK d \in Deployments :
          /\ status[d] = "partial_failure"
          /\ client'[c] = [IdleClient EXCEPT !.target = d, !.carried = decision[d],
                              !.step = IF decision[d] = "pending" THEN "keep" ELSE "keepPointer"]
    BY <1>2, <1>9 DEF RequestKeep
  <2>2. Born(d)'
    BY <2>1 DEF HistoryKept, Born
  <2> QED
    BY <2>1, <2>2
       DEF IdleClient, RequestInv, TargetBorn, Cancelling, RestoreFor, CancelSteps
<1>10. CASE RequestReject(c)
  <2>1. PICK d \in Deployments :
          /\ status[d] \in ShippedStatuses
          /\ \/ /\ previous[d] = NoDeployment
                /\ ClientTakes(c, [IdleClient EXCEPT !.step = "rejectDetach", !.subject = d,
                                                     !.seen = active])
             \/ /\ previous[d] \in Deployments
                /\ Restorable(previous[d])
                /\ ClientTakes(c, ReadyToInsert(commit[previous[d]], decision[previous[d]], d,
                                                "rejectDetach"))
    BY <1>10 DEF RequestReject
  <2>2. Born(d) /\ Born(d)' /\ previous'[d] = previous[d]
    BY <2>1 DEF HistoryKept, Born, ShippedStatuses
  <2>3. CASE /\ previous[d] = NoDeployment
             /\ ClientTakes(c, [IdleClient EXCEPT !.step = "rejectDetach", !.subject = d,
                                                  !.seen = active])
    <3>1. client'[c] = [IdleClient EXCEPT !.step = "rejectDetach", !.subject = d,
                                          !.seen = active]
      BY <1>2, <2>3
    <3>2. Restored(d)'
      BY <2>2, <2>3 DEF Restored
    <3> QED
      BY <3>1, <3>2
         DEF IdleClient, RequestInv, TargetBorn, Cancelling, RestoreFor, CancelSteps,
             TargetSteps, CreateSteps, DeleteSteps, ReconcileSteps
  <2>4. CASE /\ previous[d] \in Deployments
             /\ Restorable(previous[d])
             /\ ClientTakes(c, ReadyToInsert(commit[previous[d]], decision[previous[d]], d,
                                             "rejectDetach"))
    <3>1. Born(previous[d])
      BY <2>4 DEF Restorable, ShippedStatuses, Born
    <3> QED BY <1>3, <2>2, <2>4, <3>1
  <2> QED BY <2>1, <2>3, <2>4
<1>11. CASE RequestDelete(c)
  <2>1. PICK d \in Deployments :
          /\ RowExists(d)
          /\ client'[c] = [IdleClient EXCEPT !.step = "detach", !.target = d, !.seen = active]
    BY <1>2, <1>11 DEF RequestDelete
  <2>2. Born(d)'
    BY <2>1 DEF HistoryKept, Born, RowExists
  <2> QED
    BY <2>1, <2>2
       DEF IdleClient, RequestInv, TargetBorn, Cancelling, RestoreFor, CancelSteps
<1>12. CASE RequestReconcile(c)
  <2>1. PICK d \in Deployments :
          /\ status[d] = "reconciling"
          /\ client'[c] = [IdleClient EXCEPT !.step = "verdict", !.target = d]
    BY <1>2, <1>12 DEF RequestReconcile
  <2>2. Born(d)'
    BY <2>1 DEF HistoryKept, Born
  <2> QED
    BY <2>1, <2>2
       DEF IdleClient, RequestInv, TargetBorn, Cancelling, RestoreFor, CancelSteps
<1>13. CASE RequestTeardown(c)
  <2>1. PICK step \in {"gate", "drain"} :
          client'[c] = [IdleClient EXCEPT !.step = step, !.resumed = deleting]
    BY <1>2, <1>13 DEF RequestTeardown, ClaimTeardown
  <2> QED
    BY <2>1
       DEF IdleClient, RequestInv, TargetBorn, Cancelling, RestoreFor, CancelSteps,
           TargetSteps, CreateSteps, DeleteSteps, ReconcileSteps
<1> QED
  BY <1>5, <1>6, <1>7, <1>8, <1>9, <1>10, <1>11, <1>12, <1>13 DEF Request

(***************************************************************************)
(* A create gives its request a row, the next one; a reject's restore      *)
(* thereby ships the commit of the release that the rejected one replaced, *)
(* later than it.                                                          *)
(***************************************************************************)
LEMMA Inserting ==
  ASSUME TypeOK, NEW c \in Clients, RequestInv(c), BornInOrder, HistoryKept, Pinned,
         InsertDeployment(c)
  PROVE  RequestInv(c)' /\ BornInOrder'
<1>1. client[c] \in ClientRecords /\ client \in [Clients -> ClientStates] /\ StoreTypeOK
  BY DEF TypeOK, ClientTypeOK, ClientStates
<1>2. ASSUME NEW d \in Deployments,
             CreateDeployment(d, client[c].wanted, client[c].seen, client[c].carried),
             ClientTakes(c, [client[c] EXCEPT !.step = "session", !.target = d])
      PROVE  RequestInv(c)' /\ BornInOrder'
  <2>1. /\ client'[c].step = "session" /\ client'[c].target = d
        /\ client'[c].subject = client[c].subject /\ client'[c].back = client[c].back
    BY <1>1, <1>2 DEF ClientTakes, ClientRecords
  <2>2. /\ ~Born(d) /\ Born(d)' /\ commit'[d] = client[c].wanted
        /\ \A e \in Deployments : e < d => Born(e)
        /\ \A e \in Deployments : Born(e)' => Born(e) \/ e = d
    BY <1>1, <1>2 DEF CreateDeployment, NextRow, Born, StoreTypeOK
  <2>3. BornInOrder'
    BY <2>2 DEF BornInOrder, HistoryKept
  <2>4. TargetBorn(c)' /\ Cancelling(c)'
    BY <2>1, <2>2 DEF TargetBorn, Cancelling, CancelSteps
  <2>5. ASSUME NEW s, s = client[c].subject, client[c].back = "rejectDetach"
        PROVE  Restored(s)'
    <3>1. /\ s \in Deployments /\ Born(s)
          /\ previous[s] \in Deployments /\ Born(previous[s])
          /\ client[c].wanted = commit[previous[s]]
      BY <1>1, <1>2, <2>5 DEF RequestInv, RestoreFor, InsertDeployment, ClientAt
    <3>2. d > s
      <4>1. s # d /\ ~(d < s)
        BY <2>2, <3>1 DEF BornInOrder
      <4> QED BY <3>1, <4>1, DeploymentsAssumption DEF Deployments
    <3>3. /\ commit'[d] = commit'[previous[s]] /\ previous'[s] = previous[s]
          /\ status'[s] # "unborn" /\ status'[previous[s]] # "unborn"
      BY <2>2, <3>1 DEF HistoryKept, Born
    <3> QED BY <2>2, <3>1, <3>2, <3>3 DEF Restored, Born
  <2>6. RestoreFor(c)'
    BY <2>1, <2>5 DEF RestoreFor
  <2> QED BY <2>3, <2>4, <2>6 DEF RequestInv
<1>3. CASE RefuseInsert(c) /\ UNCHANGED storeVars
  <2>1. client'[c] = IdleClient
    BY <1>1, <1>3 DEF RefuseInsert, ClientDone, ClientTakes
  <2>2. BornInOrder'
    BY <1>3 DEF BornInOrder, Born, storeVars, rowVars
  <2> QED BY <2>1, <2>2, RecordInvKept DEF RecordKept
<1> QED BY <1>2, <1>3 DEF InsertDeployment

(* The cancel of a forced teardown has won the deployment it waits for. *)
LEMMA Draining ==
  ASSUME TypeOK, NEW c \in Clients, RequestInv(c), LockFor(c), HistoryKept, Pinned, Drain(c)
  PROVE  RequestInv(c)'
<1>1. client[c] \in ClientRecords /\ client \in [Clients -> ClientStates] /\ StoreTypeOK
  BY DEF TypeOK, ClientTypeOK, ClientStates
<1>2. client[c].step = "drain"
  BY DEF Drain, ClientAt
<1>3. ASSUME NEW d \in Deployments, WinCancellation(d),
             ClientTakes(c, [client[c] EXCEPT !.step = "signal", !.target = d, !.back = "poll"])
      PROVE  RequestInv(c)'
  <2>1. client'[c].step = "signal" /\ client'[c].target = d /\ client'[c].back = "poll"
    BY <1>1, <1>3 DEF ClientTakes, ClientRecords
  <2>2. Ended(d)' /\ Born(d)'
    BY <1>1, <1>3
       DEF WinCancellation, RecordCancellation, StoreTypeOK, Ended, Born, storeVars, rowVars
  <2> QED BY <2>1, <2>2 DEF RequestInv, TargetBorn, Cancelling, RestoreFor
<1>4. ASSUME NEW step \in {"begin", "poll"}, ClientGoes(c, step) PROVE RequestInv(c)'
  <2>1. RecordKept(c)
    BY <1>1, <1>2, <1>4
       DEF ClientGoes, ClientTakes, ClientRecords, RecordKept, TargetSteps, CancelSteps,
           CreateSteps, DeleteSteps, ReconcileSteps
  <2> QED BY <2>1, RecordInvKept
<1> QED BY <1>3, <1>4 DEF Drain

(***************************************************************************)
(* Leases are worked off, reported cancellations have ended, rows in a     *)
(* build or deploy phase are attended to, and every request knows its row. *)
(***************************************************************************)
LeasesWorked == Up => \A d \in Deployments : LeaseHeld(d) => Working(d)

ReportsTrue == \A d \in reported : Ended(d) /\ ~LeaseHeld(d)

RowsAttended ==
  writeFailures = 0 /\ api # "sweepDeployments" => \A d \in Deployments : Attended(d)

OutcomeInv ==
  /\ BornInOrder
  /\ LeasesWorked
  /\ ReportsTrue
  /\ RowsAttended
  /\ \A c \in Clients : RequestInv(c)

(* The rejection of a row whose predecessor, if any, has been deployed again. *)
RejectionsRestore ==
  \A d \in Deployments : status'[d] = "rejected" /\ status[d] # "rejected" => Restored(d)

(* Without a birth the order of births stands. *)
LEMMA OrderKept == BornInOrder /\ HistoryKept /\ BirthsKept => BornInOrder'
BY DEF BornInOrder, HistoryKept, BirthsKept

(* A row that has ended is not revived, so a report about it stays true. *)
LEMMA ReportsKept ==
  ASSUME TypeOK, ReportsTrue, reported' = reported, HistoryKept, Pinned, Lapsing
  PROVE  ReportsTrue'
BY DEF ReportsTrue, Ended, HistoryKept, Pinned, Lapsing, TypeOK, ClientTypeOK

(* A worker keeps the invariant: it leaves its row attended or with an outcome. *)
LEMMA WorkerOutcomes ==
  ASSUME IInv, OutcomeInv, NEW d \in Deployments, WorkerNext(d)
  PROVE  OutcomeInv' /\ RejectionsRestore
<1>1. WorkerHistory(d) /\ Pinned
  BY WorkerHistories, WorkerStep DEF IInv
<1>2. BornInOrder'
  BY <1>1, OrderKept DEF OutcomeInv, WorkerHistory
<1>3. LeasesWorked'
  BY <1>1 DEF OutcomeInv, LeasesWorked, WorkerHistory, Lapsing, Up, Working
<1>4. ReportsTrue'
  BY <1>1, ReportsKept DEF OutcomeInv, WorkerHistory, IInv
<1>5. RowsAttended'
  BY <1>1 DEF OutcomeInv, RowsAttended, WorkerHistory, Attended
<1>6. \A c \in Clients : RequestInv(c)'
  BY <1>1, RequestInvKept DEF OutcomeInv, WorkerHistory, IInv
<1> QED BY <1>1, <1>2, <1>3, <1>4, <1>5, <1>6
        DEF OutcomeInv, RejectionsRestore, WorkerHistory, Unrejected

(* So does a request: only a kickoff opens a lease, with the worker it starts. *)
LEMMA RequestOutcomes ==
  ASSUME IInv, OutcomeInv, NEW c \in Clients, Request(c) \/ ClientNext(c)
  PROVE  OutcomeInv' /\ RejectionsRestore
<1>1. /\ RequestHistory(c) /\ Pinned /\ ControlEffect(c) /\ IInv'
      /\ TypeOK /\ RequestInv(c) /\ LockFor(c)
  BY RequestHistories, ClientStep, ControlEffects DEF IInv, OutcomeInv, RequestInv
<1>2. RequestInv(c)' /\ BornInOrder'
  <2>1. CASE Request(c)
    <3>1. ~InsertDeployment(c)
      BY <2>1
         DEF InsertDeployment, Request, RequestDeploy, RequestRollback, StartBuild,
             RequestCancel, RequestKeep, RequestReject, RequestDelete, RequestReconcile,
             RequestTeardown, ClaimTeardown, MayStart, ClientAt
    <3> QED BY <1>1, <2>1, <3>1, Beginning, OrderKept DEF RequestHistory, OutcomeInv
  <2>2. CASE InsertDeployment(c)
    BY <1>1, <2>2, Inserting DEF RequestHistory, OutcomeInv
  <2>3. CASE GoesOn(c) /\ ~InsertDeployment(c)
    BY <1>1, <2>3, GoingOn, RecordInvKept, OrderKept DEF RequestHistory, OutcomeInv
  <2>4. CASE Drain(c) /\ ~InsertDeployment(c)
    BY <1>1, <2>4, Draining, OrderKept DEF RequestHistory, OutcomeInv
  <2> QED
    BY <2>1, <2>2, <2>3, <2>4 DEF GoesOn, ClientNext, CreateNext, TeardownNext
<1>3. ASSUME NEW b \in Clients PROVE RequestInv(b)'
  BY <1>1, <1>2, RequestInvKept DEF RequestHistory, ControlEffect, OutcomeInv
<1>4. ASSUME Lapsing, Settling, worker' = worker PROVE OutcomeInv'
  <2>1. LeasesWorked'
    BY <1>1, <1>4 DEF OutcomeInv, LeasesWorked, Lapsing, ControlEffect, Up, Working
  <2>2. RowsAttended'
    BY <1>1, <1>4
       DEF OutcomeInv, RowsAttended, RequestHistory, ControlEffect, Attended, Settling
  <2>3. ReportsTrue'
    <3>1. CASE reported' = reported
      BY <1>1, <1>4, <3>1, ReportsKept DEF RequestHistory, OutcomeInv
    <3>2. CASE AwaitQuiescence(c)
      <4>1. /\ UNCHANGED <<status, lease>>
            /\ \A d \in reported' : d \in reported \/ (d = client[c].target /\ ~LeaseHeld(d))
            /\ Ended(client[c].target)
        BY <1>1, <3>2
           DEF AwaitQuiescence, ClientAt, RequestInv, Cancelling, CancelSteps, storeVars,
               rowVars, sessionVars
      <4> QED BY <4>1 DEF OutcomeInv, ReportsTrue, Ended, LeaseHeld
    <3> QED BY <1>1, <3>1, <3>2 DEF RequestHistory
  <2> QED BY <1>2, <1>3, <2>1, <2>2, <2>3 DEF OutcomeInv
<1>5. ASSUME NEW d \in Deployments, d = client[c].target, ClaimBuildExecution(d),
             worker' = [worker EXCEPT ![d] = "start"]
      PROVE  OutcomeInv'
  <2>1. /\ lease' = [lease EXCEPT ![d] = "held"] /\ status' = [status EXCEPT ![d] = "building"]
        /\ status[d] \in {"queued", "building"} /\ lease[d] = "unclaimed"
    BY <1>5 DEF ClaimBuildExecution, Claimable
  <2>2. /\ worker \in [Deployments -> WorkerSteps] /\ status \in [Deployments -> Statuses]
        /\ lease \in [Deployments -> Leases] /\ reported \subseteq Deployments
    BY <1>1 DEF TypeOK, WorkerTypeOK, StoreTypeOK, ClientTypeOK
  <2>3. LeasesWorked'
    BY <1>1, <1>5, <2>1, <2>2
       DEF OutcomeInv, LeasesWorked, LeaseHeld, ControlEffect, Up, Working
  <2>4. RowsAttended'
    BY <1>1, <1>5, <2>1, <2>2
       DEF OutcomeInv, RowsAttended, RequestHistory, ControlEffect, Attended, DoneSteps
  <2>5. ReportsTrue'
    <3>1. ~AwaitQuiescence(c)
      BY <2>1, <2>2 DEF AwaitQuiescence, storeVars, sessionVars, rowVars, workerVars
    <3> QED
      BY <1>1, <2>1, <2>2, <3>1 DEF OutcomeInv, ReportsTrue, RequestHistory, Ended, LeaseHeld
  <2> QED BY <1>2, <1>3, <2>3, <2>4, <2>5 DEF OutcomeInv
<1>6. RejectionsRestore
  <2>1. CASE Unrejected
    BY <2>1 DEF RejectionsRestore, Unrejected
  <2>2. CASE RejectMark(c)
    <3>1. /\ Restored(client[c].subject)
          /\ \A d \in Deployments : d # client[c].subject => status'[d] = status[d]
      BY <1>1, <2>2, UneventfulTransactions
         DEF RejectMark, ClientAt, RequestInv, RestoreFor, TypeOK
    <3> QED BY <3>1 DEF RejectionsRestore
  <2> QED BY <1>1, <2>1, <2>2 DEF RequestHistory
<1> QED BY <1>1, <1>4, <1>5, <1>6 DEF RequestHistory

(* The boot sweep and a crash leave nobody behind. *)
LEMMA HostOutcomes ==
  ASSUME IInv, OutcomeInv, BootNext \/ Crash
  PROVE  OutcomeInv' /\ RejectionsRestore
<1>1. Pinned /\ TypeOK /\ StoreTypeOK /\ Uneventful
  <2>1. StoreTypeOK
    BY DEF IInv, TypeOK
  <2> QED
    BY <2>1, HostStep, UneventfulTransactions
       DEF IInv, BootNext, BootDeployments, BootSessions, BootLeases, Crash
<1>2. BornInOrder' /\ RejectionsRestore
  BY <1>1, OrderKept DEF OutcomeInv, Uneventful, RejectionsRestore, Unrejected
<1>3. ReportsTrue'
  <2>1. reported' = reported
    BY DEF BootNext, BootDeployments, BootSessions, BootLeases, Crash, clientVars
  <2> QED BY <1>1, <2>1, ReportsKept DEF OutcomeInv, Uneventful
<1>4. \A c \in Clients : RequestInv(c)'
  <2>1. ASSUME NEW c \in Clients PROVE client'[c] = client[c] \/ client'[c] = IdleClient
    BY DEF BootNext, BootDeployments, BootSessions, BootLeases, Crash, clientVars
  <2> QED
    BY <1>1, <2>1, RequestInvKept, RecordInvKept DEF OutcomeInv, Uneventful, RecordKept
<1>5. LeasesWorked'
  <2>1. ~Up' \/ SweepLeases
    BY DEF BootNext, BootDeployments, BootSessions, BootLeases, Crash, Up
  <2>2. SweepLeases => \A d \in Deployments : ~LeaseHeld(d)'
    BY <1>1 DEF SweepLeases, LeaseHeld, StoreTypeOK
  <2> QED BY <2>1, <2>2 DEF LeasesWorked
<1>6. RowsAttended'
  <2>1. CASE Crash
    BY <2>1 DEF Crash, RowsAttended
  <2>2. CASE BootDeployments
    <3>1. \A d \in Deployments : status'[d] \notin {"building", "deploying"}
      BY <2>2 DEF BootDeployments, SweepDeployments, InFlight, InFlightStatuses
    <3> QED BY <3>1 DEF RowsAttended, Attended
  <2>3. CASE BootSessions \/ BootLeases
    <3>1. /\ api # "sweepDeployments" /\ writeFailures' = writeFailures /\ worker' = worker
      BY <2>3 DEF BootSessions, BootLeases, workerVars
    <3> QED
      BY <1>1, <3>1 DEF OutcomeInv, RowsAttended, Attended, Uneventful, Settling
  <2> QED BY <2>1, <2>2, <2>3 DEF BootNext
<1> QED BY <1>2, <1>3, <1>4, <1>5, <1>6 DEF OutcomeInv

(* Every step keeps the invariant, and rejects only what has been restored. *)
LEMMA OutcomeStep ==
  ASSUME IInv, OutcomeInv, [Next]_vars
  PROVE  OutcomeInv' /\ RejectionsRestore
<1>1. CASE UNCHANGED vars
  <2>1. /\ UNCHANGED <<status, commit, previous, lease, worker, client, reported, api,
                       writeFailures>>
    BY <1>1
       DEF vars, storeVars, rowVars, sessionVars, workerVars, clientVars, hostVars
  <2>2. HistoryKept /\ Pinned /\ BirthsKept /\ Lapsing
    BY <2>1 DEF HistoryKept, Pinned, BirthsKept, Lapsing, Born, LeaseHeld, IInv, TypeOK,
                StoreTypeOK
  <2>3. BornInOrder' /\ ReportsTrue' /\ \A c \in Clients : RequestInv(c)'
    BY <2>1, <2>2, OrderKept, ReportsKept, RequestInvKept DEF OutcomeInv, IInv
  <2>4. LeasesWorked' /\ RowsAttended' /\ RejectionsRestore
    BY <2>1
       DEF OutcomeInv, LeasesWorked, RowsAttended, RejectionsRestore, Attended, Up, LeaseHeld,
           Working
  <2> QED BY <2>3, <2>4 DEF OutcomeInv
<1> QED BY <1>1, WorkerOutcomes, RequestOutcomes, HostOutcomes DEF Next

(* The invariant of outcomes holds in every state. *)
LEMMA OutcomesHold == Spec => [](IInv /\ OutcomeInv)
<1>1. Init => OutcomeInv
  BY DEF Init, StoreInit, OutcomeInv, BornInOrder, LeasesWorked, ReportsTrue, RowsAttended,
         Attended, Born, LeaseHeld, RequestInv, TargetBorn, Cancelling, RestoreFor, IdleClient,
         TargetSteps, CreateSteps, DeleteSteps, ReconcileSteps, CancelSteps
<1>2. IInv /\ OutcomeInv /\ [Next]_vars => OutcomeInv'
  BY OutcomeStep
<1> QED BY <1>1, <1>2, Inductive, PTL DEF Spec

(***************************************************************************)
(* While the API serves requests, a held lease always has its worker: no   *)
(* restart, race or failed write leaves one that would block the project   *)
(* for ever.                                                               *)
(***************************************************************************)
THEOREM LeasesHaveWorkers == Spec => []LeaseHasWorker
<1>1. IInv /\ OutcomeInv => LeaseHasWorker
  BY DEF OutcomeInv, LeasesWorked, LeaseHasWorker
<1> QED BY <1>1, OutcomesHold, PTL

(***************************************************************************)
(* What a cancel request has reported as cancelled never runs again: its   *)
(* row has ended, and only a queued or building row can be claimed.        *)
(***************************************************************************)
THEOREM CancelReportsAreTrue == Spec => []CancelReportTrue
<1>1. IInv /\ OutcomeInv => CancelReportTrue
  BY DEF IInv, OutcomeInv, ReportsTrue, CancelReportTrue, WorkerLeased, TypeOK, ClientTypeOK
<1> QED BY <1>1, OutcomesHold, PTL

(***************************************************************************)
(* With no write lost, a row in a build or deploy phase has a worker: each *)
(* worker leaves those phases with an outcome, and the boot sweep settles  *)
(* what a restart interrupts.                                              *)
(***************************************************************************)
THEOREM NoRowIsOrphaned == Spec => []NoOrphans
<1>1. IInv /\ OutcomeInv => NoOrphans
  BY DEF OutcomeInv, RowsAttended, Attended, DoneSteps, NoOrphans, Up, Working
<1> QED BY <1>1, OutcomesHold, PTL

(***************************************************************************)
(* A reject first deploys what the rejected release had replaced: the row  *)
(* is marked only after a later one ships that commit.                     *)
(***************************************************************************)
THEOREM RejectsRestore == Spec => RejectRestores
<1>1. IInv /\ OutcomeInv /\ [Next]_vars =>
        [\A d \in Deployments :
           status'[d] = "rejected" /\ status[d] # "rejected" /\ previous[d] # NoDeployment
             => \E e \in Deployments : e > d /\ status[e] # "unborn"
                                         /\ commit[e] = commit[previous[d]]]_vars
  BY OutcomeStep DEF RejectionsRestore, Restored, Born
<1> QED BY <1>1, OutcomesHold, PTL DEF Spec, RejectRestores
=============================================================================
