---------------------------- MODULE ReleaseProofs ----------------------------
(***************************************************************************)
(* The numbers of releases, the live pointer and the decisions on partial *)
(* releases, proved on top of the invariants of DeploymentProofs and       *)
(* DeploymentGuaranteeProofs. Keep takes no lock and reads nothing again   *)
(* before it writes, so what is said of numbers and of the pointer is said *)
(* of the other requests: each theorem names what it leaves out.           *)
(***************************************************************************)
EXTENDS DeploymentGuaranteeProofs

Shipped(d) == status[d] \in ShippedStatuses

(* The steps of a worker up to the one that records its outcome. *)
EarlySteps == {"start", "session", "row", "build", "promote", "deploy", "version", "outcome"}

Early(d) == worker[d] \in EarlySteps

(* What a worker does to the rows: how its own changes, and which others. *)
WorkerRows(d) ==
  /\ \A e \in Deployments \ {d} :
       \/ status'[e] = status[e]
       \/ worker[d] = "supersede" /\ RowExists(e) /\ status'[e] = "cancelled"
  /\ \/ status'[d] = status[d]
     \/ RowExists(d) /\ status'[d] = "building" /\ worker[d] = "row"
     \/ RowExists(d) /\ status'[d] = "deploying" /\ worker[d] = "promote"
     \/ RowExists(d) /\ RowExists(d)' /\ worker[d] = "outcome" /\ worker'[d] \in {"point", "finish"}
     \/ RowExists(d) /\ status'[d] = "failed" /\ worker[d] = "fallbackRow"
     \/ status[d] = "ready" /\ status'[d] = "partial_failure" /\ worker[d] = "rollup"
  /\ \A e \in Deployments : lease'[e] # "none" => lease[e] # "none"
  /\ worker'[d] = "point" /\ writeFailures' = 0 =>
       status'[d] = "ready" \/ (worker[d] = "point" /\ status' = status)

(* What it does to numbers and to the live pointer. *)
WorkerNumbers(d) ==
  /\ \A e \in Deployments \ {d} : version'[e] = version[e] /\ number'[e] = number[e] /\ worker'[e] = worker[e]
  /\ Early(d)' => Early(d)
  /\ worker'[d] \in EarlySteps \ {"outcome"} =>
       worker[d] \in EarlySteps \ {"outcome"} /\ number'[d] = number[d]
  /\ worker'[d] = "off" => number'[d] = 0
  /\ worker'[d] = "outcome" =>
       \/ worker[d] = "version" /\ number'[d] = ReleaseVersion(d) /\ UNCHANGED storeVars
       \/ number'[d] = number[d] /\ (worker[d] = "outcome" => UNCHANGED storeVars)
  /\ Working(d)
  /\ \/ version'[d] = version[d]
     \/ /\ version'[d] = number[d] /\ status'[d] = "ready"
        /\ worker[d] = "outcome" /\ worker'[d] = "point"
  /\ active' = active \/ (worker[d] = "point" /\ exists /\ active' = d)

(* Every step of a worker does that to the rows. *)
LEMMA WorkersMoveRows ==
  ASSUME TypeOK, NEW d \in Deployments, WorkerNext(d)
  PROVE  WorkerRows(d)
<1>1. /\ writeFailures \in Nat /\ status \in [Deployments -> Statuses]
      /\ lease \in [Deployments -> Leases] /\ worker \in [Deployments -> WorkerSteps]
  BY DEF TypeOK, HostTypeOK, WorkerTypeOK, StoreTypeOK
<1> USE <1>1 DEF WorkerRows, WorkerAt, WorkerGoes, WorkerDecides, RowExists, Writable,
        hostVars, WriteFails, storeVars, rowVars, sessionVars
<1>2. CASE StartWork(d)
  BY <1>2 DEF StartWork
<1>3. CASE MarkSessionBuilding(d)
  BY <1>3 DEF MarkSessionBuilding, UpdateBuildSession
<1>4. CASE MarkRowBuilding(d)
  BY <1>4 DEF MarkRowBuilding, UpdateStatus, SetStatus
<1>5. CASE Build(d)
  BY <1>5 DEF Build
<1>6. CASE Promote(d)
  BY <1>6 DEF Promote, UpdateStatus, SetStatus
<1>7. CASE Deploy(d)
  BY <1>7 DEF Deploy
<1>8. CASE StopWork(d)
  BY <1>8 DEF StopWork
<1>9. CASE ReadVersion(d)
  BY <1>9 DEF ReadVersion
<1>10. CASE RecordSuccess(d)
  BY <1>10 DEF RecordSuccess, RecordReady, SetStatus
<1>11. CASE RecordOther(d)
  BY <1>11 DEF RecordOther, UpdateStatus, SetStatus
<1>12. CASE RecordCancelled(d)
  BY <1>12 DEF RecordCancelled, RecordCancellation
<1>13. CASE PublishRelease(d)
  BY <1>13 DEF PublishRelease, SetActiveDeployment
<1>14. CASE SupersedeDecisions(d)
  BY <1>14 DEF SupersedeDecisions, SupersedePendingDecisions, AwaitingDecision
<1>15. CASE FinishSession(d)
  BY <1>15 DEF FinishSession, FinishBuildSession
<1>16. CASE RollUp(d)
  BY <1>16 DEF RollUp, UpdateStatusAndDecision, SetStatus
<1>17. CASE ArchivePrevious(d)
  BY <1>17 DEF ArchivePrevious
<1>18. CASE FallBack(d)
  BY <1>18 DEF FallBack
<1>19. CASE FallBackRow(d)
  BY <1>19 DEF FallBackRow, UpdateStatus, SetStatus
<1>20. CASE FallBackSession(d)
  BY <1>20 DEF FallBackSession, UpdateBuildSession
<1>21. CASE CompleteExecution(d)
  BY <1>21 DEF CompleteExecution, AcknowledgeBuildExecutionFinished
<1>22. CASE PollCancellation(d)
  BY <1>22 DEF PollCancellation
<1> QED
  BY <1>2, <1>3, <1>4, <1>5, <1>6, <1>7, <1>8, <1>9, <1>10, <1>11, <1>12, <1>13, <1>14,
     <1>15, <1>16, <1>17, <1>18, <1>19, <1>20, <1>21, <1>22
     DEF WorkerNext

(* And that to the numbers. *)
LEMMA WorkersMoveNumbers ==
  ASSUME TypeOK, NEW d \in Deployments, WorkerNext(d)
  PROVE  WorkerNumbers(d)
<1>1. /\ version \in [Deployments -> Nat] /\ number \in [Deployments -> Nat]
      /\ worker \in [Deployments -> WorkerSteps] /\ status \in [Deployments -> Statuses]
  BY DEF TypeOK, WorkerTypeOK, StoreTypeOK
<1> USE <1>1 DEF WorkerNumbers, Early, EarlySteps, Working, WorkerAt, WorkerGoes, WorkerDecides,
        hostVars, WriteFails, storeVars, rowVars, projectVars
<1>2. CASE StartWork(d)
  BY <1>2 DEF StartWork
<1>3. CASE MarkSessionBuilding(d)
  BY <1>3 DEF MarkSessionBuilding, UpdateBuildSession
<1>4. CASE MarkRowBuilding(d)
  BY <1>4 DEF MarkRowBuilding, UpdateStatus
<1>5. CASE Build(d)
  BY <1>5 DEF Build
<1>6. CASE Promote(d)
  BY <1>6 DEF Promote, UpdateStatus
<1>7. CASE Deploy(d)
  BY <1>7 DEF Deploy
<1>8. CASE StopWork(d)
  BY <1>8 DEF StopWork
<1>9. CASE ReadVersion(d)
  BY <1>9 DEF ReadVersion
<1>10. CASE RecordSuccess(d)
  BY <1>10 DEF RecordSuccess, RecordReady, SetStatus
<1>11. CASE RecordOther(d)
  BY <1>11 DEF RecordOther, UpdateStatus
<1>12. CASE RecordCancelled(d)
  BY <1>12 DEF RecordCancelled, RecordCancellation
<1>13. CASE PublishRelease(d)
  BY <1>13 DEF PublishRelease, SetActiveDeployment
<1>14. CASE SupersedeDecisions(d)
  BY <1>14 DEF SupersedeDecisions, SupersedePendingDecisions
<1>15. CASE FinishSession(d)
  BY <1>15 DEF FinishSession, FinishBuildSession
<1>16. CASE RollUp(d)
  BY <1>16 DEF RollUp, UpdateStatusAndDecision
<1>17. CASE ArchivePrevious(d)
  BY <1>17 DEF ArchivePrevious
<1>18. CASE FallBack(d)
  BY <1>18 DEF FallBack
<1>19. CASE FallBackRow(d)
  BY <1>19 DEF FallBackRow, UpdateStatus
<1>20. CASE FallBackSession(d)
  BY <1>20 DEF FallBackSession, UpdateBuildSession
<1>21. CASE CompleteExecution(d)
  BY <1>21 DEF CompleteExecution, AcknowledgeBuildExecutionFinished
<1>22. CASE PollCancellation(d)
  BY <1>22 DEF PollCancellation
<1> QED
  BY <1>2, <1>3, <1>4, <1>5, <1>6, <1>7, <1>8, <1>9, <1>10, <1>11, <1>12, <1>13, <1>14,
     <1>15, <1>16, <1>17, <1>18, <1>19, <1>20, <1>21, <1>22
     DEF WorkerNext

(* How a request changes a row, and at which of its steps. *)
RequestMoves(c, e) ==
  LET step == client[c].step
      own == e = client[c].target
  IN
  \/ status'[e] = status[e]
  \/ InsertDeployment(c) /\ status[e] = "unborn" /\ status'[e] = "queued"
  \/ Kickoff(c) /\ own /\ ClaimBuildExecution(e) /\ status'[e] = "building"
  \/ InFlight(e) /\ status'[e] = "cancelled"
  \/ step = "reconciling" /\ ~own /\ status[e] = "reconciling" /\ status'[e] = "failed"
  \/ step = "decisions" /\ ~own /\ RowExists(e) /\ status'[e] = "cancelled"
  \/ step = "keep" /\ own /\ RowExists(e) /\ status'[e] = "partial_failure"
  \/ step = "rejectMark" /\ RowExists(e) /\ status'[e] = "rejected"
  \/ step = "verdict" /\ own /\ RowExists(e)
     /\ status'[e] \in {"failed", "ready", "partial_failure"}
  \/ step \in {"undo", "erase"} /\ own /\ status'[e] = "deleted" /\ lease'[e] = "none"
  \/ step = "drop" /\ ~exists' /\ RowExists(e) /\ status'[e] = "deleted" /\ lease'[e] = "none"

(* What a request does to rows, numbers, leases and the live pointer. *)
RequestRows(c) ==
  /\ \A e \in Deployments :
       /\ RequestMoves(c, e)
       /\ lease'[e] # "none" =>
            lease[e] # "none" \/ (client[c].step = "session" /\ e = client[c].target)
  /\ version' = version /\ number' = number
  /\ exists' => exists
  /\ \/ active' = active
     \/ client[c].step \in {"detach", "rejectDetach"} /\ active' = NoDeployment
     \/ /\ exists /\ active' = client[c].target
        /\ client[c].step = "advance" \/ client[c].step = "keepPointer"

(* Every step of a request does that. *)
LEMMA RequestsMoveRows ==
  ASSUME TypeOK, NEW c \in Clients, Request(c) \/ ClientNext(c)
  PROVE  RequestRows(c)
<1>1. /\ status \in [Deployments -> Statuses] /\ lease \in [Deployments -> Leases]
      /\ client[c].step \in TargetSteps => client[c].target \in Deployments
  BY DEF TypeOK, StoreTypeOK, ClientTypeOK, ClientStates
<1> USE <1>1 DEF RequestRows, RequestMoves, ClientAt, RowExists, Writable, WriteFails,
        storeVars, rowVars, sessionVars, projectVars, workerVars, WinCancellation,
        RecordCancellation
<1>2. CASE RequestDeploy(c)
  BY <1>2 DEF RequestDeploy
<1>3. CASE RequestRollback(c)
  BY <1>3 DEF RequestRollback
<1>4. CASE StartBuild(c)
  BY <1>4 DEF StartBuild
<1>5. CASE RequestCancel(c)
  BY <1>5 DEF RequestCancel
<1>6. CASE RequestKeep(c)
  BY <1>6 DEF RequestKeep
<1>7. CASE RequestReject(c)
  BY <1>7 DEF RequestReject
<1>8. CASE RequestDelete(c)
  BY <1>8 DEF RequestDelete
<1>9. CASE RequestReconcile(c)
  BY <1>9 DEF RequestReconcile
<1>10. CASE RequestTeardown(c)
  BY <1>10 DEF RequestTeardown, ClaimTeardown, ClaimDeletion
<1>11. CASE InsertDeployment(c)
  <2> HIDE DEF ClientTakes, RefuseInsert
  <2>1. number' = number
    BY <1>11 DEF InsertDeployment
  <2>2. ASSUME NEW d \in Deployments, NEW k, NEW was, NEW held, CreateDeployment(d, k, was, held)
        PROVE  /\ status[d] = "unborn" /\ status' = [status EXCEPT ![d] = "queued"]
               /\ UNCHANGED <<lease, version, exists, active>>
    BY <2>2 DEF CreateDeployment, NextRow
  <2>3. \/ UNCHANGED storeVars
        \/ \E d \in Deployments :
             /\ status[d] = "unborn" /\ status' = [status EXCEPT ![d] = "queued"]
             /\ UNCHANGED <<lease, version, exists, active>>
    BY <1>11, <2>2 DEF InsertDeployment
  <2> QED BY <1>11, <2>1, <2>3
<1>12. CASE InsertSession(c)
  BY <1>12 DEF InsertSession, CreateBuildSession
<1>13. CASE UndoInsert(c)
  BY <1>13 DEF UndoInsert, DeleteDeployment
<1>14. CASE RetireReconciling(c)
  BY <1>14 DEF RetireReconciling, SupersedeReconciling
<1>15. CASE RetireDecisions(c)
  BY <1>15 DEF RetireDecisions, SupersedePendingDecisions, AwaitingDecision
<1>16. CASE Kickoff(c)
  BY <1>16 DEF Kickoff, ClaimBuildExecution, Claimable
<1>17. CASE DropUnclaimed(c)
  BY <1>17 DEF DropUnclaimed, CancelUnclaimedBuild, InFlight, InFlightStatuses
<1>18. CASE SignalWorker(c)
  BY <1>18 DEF SignalWorker
<1>19. CASE SettleSession(c)
  BY <1>19 DEF SettleSession, AcknowledgeUnstartedBuildSession
<1>20. CASE AwaitQuiescence(c)
  BY <1>20 DEF AwaitQuiescence
<1>21. CASE KeepRelease(c)
  BY <1>21 DEF KeepRelease, UpdateStatusAndDecision, SetStatus
<1>22. CASE KeepPointer(c)
  BY <1>22 DEF KeepPointer, SetActiveDeployment
<1>23. CASE RejectDetach(c)
  BY <1>23 DEF RejectDetach, SetActiveDeployment
<1>24. CASE RejectMark(c)
  BY <1>24 DEF RejectMark, UpdateStatusAndDecision, SetStatus
<1>25. CASE Detach(c)
  BY <1>25 DEF Detach, SetActiveDeployment
<1>26. CASE Erase(c)
  BY <1>26 DEF Erase, DeleteDeployment
<1>27. CASE Verdict(c)
  BY <1>27 DEF Verdict, UpdateStatus, UpdateStatusAndDecision, SetStatus
<1>28. CASE Forward(c)
  BY <1>28 DEF Forward
<1>29. CASE Advance(c)
  BY <1>29 DEF Advance, SetActiveDeployment
<1>30. CASE RefuseTeardown(c)
  BY <1>30 DEF RefuseTeardown
<1>31. CASE Gate(c)
  BY <1>31 DEF Gate
<1>32. CASE Drain(c)
  <2> HIDE DEF ClientTakes, RecordCancellation
  <2>1. number' = number
    BY <1>32 DEF Drain
  <2>2. UNCHANGED storeVars \/ \E d \in Deployments : InFlight(d) /\ RecordCancellation(d)
    BY <1>32 DEF Drain
  <2> USE DEF RecordCancellation
  <2> QED BY <1>32, <2>1, <2>2
<1>33. CASE Poll(c)
  BY <1>33 DEF Poll
<1>34. CASE BeginCleanup(c)
  BY <1>34 DEF BeginCleanup, BeginDeletionCleanup
<1>35. CASE Destroy(c)
  BY <1>35 DEF Destroy
<1>36. CASE DropProject(c)
  BY <1>36 DEF DropProject, DeleteHard
<1>37. CASE ReleaseFence(c)
  <2>1. \/ MarkDeletionFailed \/ ClearDeletionInProgress \/ WriteFails
    <3> HIDE DEF WriteFails, RequestRows
    <3> QED BY <1>37 DEF ReleaseFence
  <2>2. number' = number
    BY <1>37 DEF ReleaseFence
  <2>3. UNCHANGED <<status, lease, version, exists, active>>
    <3> HIDE DEF RequestRows
    <3>1. CASE WriteFails
      BY <3>1
    <3>2. CASE MarkDeletionFailed
      BY <3>2 DEF MarkDeletionFailed
    <3>3. CASE ClearDeletionInProgress
      BY <3>3 DEF ClearDeletionInProgress
    <3> QED BY <2>1, <3>1, <3>2, <3>3
  <2> QED BY <2>2, <2>3
<1>38. CASE RetainFence(c)
  BY <1>38 DEF RetainFence, MarkDeletionFailed
<1> QED
  BY <1>2, <1>3, <1>4, <1>5, <1>6, <1>7, <1>8, <1>9, <1>10, <1>11, <1>12, <1>13, <1>14,
     <1>15, <1>16, <1>17, <1>18, <1>19, <1>20, <1>21, <1>22, <1>23, <1>24, <1>25, <1>26,
     <1>27, <1>28, <1>29, <1>30, <1>31, <1>32, <1>33, <1>34, <1>35, <1>36, <1>37, <1>38
     DEF Request, ClientNext, CreateNext, CancelNext, DecideNext, DeleteNext, ReconcileNext,
         TeardownNext

(***************************************************************************)
(* How a request comes to the steps of a create, a delete, a reconcile or  *)
(* a keep, and with which record.                                          *)
(***************************************************************************)
ReleasePath(c) ==
  LET was == client[c].step
      is == client'[c].step
      same == client'[c].target = client[c].target
  IN
  /\ is \in CreateSteps =>
       \/ InsertDeployment(c)
       \/ /\ was \in CreateSteps /\ same /\ is # "session"
          /\ is = "undo" => was = "session" /\ UNCHANGED storeVars
          /\ is = "reconciling" => was = "session"
          /\ is = "decisions" =>
               was = "reconciling" /\ (SupersedeReconciling(client[c].target) \/ writeFailures' # 0)
  /\ is \in DeleteSteps =>
       \/ /\ holder = NoClient /\ is = "detach" /\ client'[c].seen = active
          /\ ~Listed(client'[c].target) /\ UNCHANGED storeVars
       \/ /\ was = "detach" /\ is = "erase" /\ same
          /\ client[c].seen # client[c].target \/ active' = NoDeployment \/ ~exists
  /\ is \in ReconcileSteps =>
       \/ /\ holder = NoClient /\ is = "verdict" /\ "reconcile" \in Requests
          /\ status[client'[c].target] = "reconciling" /\ UNCHANGED storeVars
       \/ was = "verdict" /\ is = "forward" /\ same
       \/ /\ was = "forward" /\ is = "advance" /\ same
          /\ exists /\ ~Superseded(client[c].target) /\ UNCHANGED storeVars
  /\ is \in {"keep", "keepPointer"} => was = "keep" \/ "keep" \in Requests

(* There are no other ways to those steps. *)
LEMMA ReleasePaths ==
  ASSUME TypeOK, NEW c \in Clients, LockFor(c), Request(c) \/ ClientNext(c)
  PROVE  ReleasePath(c)
<1>1. /\ client[c] \in ClientRecords /\ client \in [Clients -> ClientStates]
      /\ writeFailures \in Nat
  BY DEF TypeOK, ClientTypeOK, ClientStates, HostTypeOK
<1> DEFINE Elsewhere == client'[c].step \notin CreateSteps \cup DeleteSteps \cup ReconcileSteps
                                               \cup {"keep", "keepPointer"}
<1>a. ASSUME Elsewhere PROVE ReleasePath(c)
  BY <1>a DEF ReleasePath
<1>b. /\ ClientDone(c) => Elsewhere
      /\ \A step : ClientGoes(c, step) => client'[c] = [client[c] EXCEPT !.step = step]
      /\ \A step \in {"kickoff", "unclaim", "signal", "settle", "quiesce", "rejectDetach",
                      "rejectMark"} \cup TeardownSteps : ClientGoes(c, step) => Elsewhere
      /\ \A state : ClientTakes(c, state) => client'[c] = state
  BY <1>1 DEF ClientDone, ClientGoes, ClientTakes, IdleClient, CreateSteps, DeleteSteps,
              ReconcileSteps, TeardownSteps, ClientRecords
<1>f. ASSUME NEW step, ClientGoes(c, step)
      PROVE  client'[c].step = step /\ client'[c].target = client[c].target
  <2>1. client'[c] = [client[c] EXCEPT !.step = step]
    BY <1>b, <1>f
  <2>2. {"step", "target"} \subseteq DOMAIN client[c]
    BY <1>1 DEF ClientRecords
  <2> QED BY <2>1, <2>2
<1>c. ClientReturns(c) => Elsewhere
  BY <1>1, <1>b DEF ClientReturns, ClientRecords, CreateSteps, DeleteSteps, ReconcileSteps
<1>d. ASSUME NEW k, NEW held, NEW s, NEW back PROVE ReadyToInsert(k, held, s, back).step = "insert"
  BY DEF ReadyToInsert, IdleClient
<1>e. "insert" \notin CreateSteps \cup DeleteSteps \cup ReconcileSteps \cup {"keep", "keepPointer"}
  BY DEF CreateSteps, DeleteSteps, ReconcileSteps
<1>2. CASE RequestDeploy(c)
  BY <1>2, <1>a, <1>b, <1>d, <1>e DEF RequestDeploy
<1>3. CASE RequestRollback(c)
  BY <1>3, <1>a, <1>b, <1>d, <1>e DEF RequestRollback
<1>4. ASSUME NEW d \in Deployments, NEW step \in {"kickoff", "signal"},
             ClientTakes(c, [IdleClient EXCEPT !.step = step, !.target = d])
      PROVE  ReleasePath(c)
  BY <1>4, <1>a, <1>b DEF IdleClient, CreateSteps, DeleteSteps, ReconcileSteps
<1>5. CASE StartBuild(c) \/ RequestCancel(c)
  BY <1>4, <1>5 DEF StartBuild, RequestCancel
<1>6. CASE RequestKeep(c)
  <2>1. PICK d \in Deployments :
          client'[c] = [IdleClient EXCEPT !.target = d, !.carried = decision[d],
                         !.step = IF decision[d] = "pending" THEN "keep" ELSE "keepPointer"]
    BY <1>6, <1>b DEF RequestKeep
  <2>2. client'[c].step \in {"keep", "keepPointer"}
    BY <2>1 DEF IdleClient
  <2>3. "keep" \in Requests
    BY <1>6 DEF RequestKeep, MayStart
  <2> QED BY <2>2, <2>3 DEF ReleasePath, CreateSteps, DeleteSteps, ReconcileSteps
<1>7. CASE RequestReject(c)
  <2>1. PICK d \in Deployments :
          \/ client'[c] = [IdleClient EXCEPT !.step = "rejectDetach", !.subject = d,
                                             !.seen = active]
          \/ client'[c] = ReadyToInsert(commit[previous[d]], decision[previous[d]], d,
                                        "rejectDetach")
    BY <1>7, <1>b DEF RequestReject
  <2>2. CASE client'[c] = [IdleClient EXCEPT !.step = "rejectDetach", !.subject = d,
                                             !.seen = active]
    BY <2>2, <1>a DEF IdleClient, CreateSteps, DeleteSteps, ReconcileSteps
  <2> QED BY <2>1, <2>2, <1>a, <1>d, <1>e
<1>8. CASE RequestDelete(c)
  <2>1. PICK d \in Deployments :
          /\ ~Listed(d)
          /\ client'[c] = [IdleClient EXCEPT !.step = "detach", !.target = d, !.seen = active]
    BY <1>8, <1>b DEF RequestDelete
  <2>2. client'[c].step = "detach" /\ client'[c].target = d /\ client'[c].seen = active
    BY <2>1 DEF IdleClient
  <2>3. holder = NoClient /\ UNCHANGED storeVars
    BY <1>8 DEF RequestDelete, Acquire
  <2> QED BY <2>1, <2>2, <2>3 DEF ReleasePath, CreateSteps, DeleteSteps, ReconcileSteps
<1>9. CASE RequestReconcile(c)
  <2>1. PICK d \in Deployments :
          /\ status[d] = "reconciling"
          /\ client'[c] = [IdleClient EXCEPT !.step = "verdict", !.target = d]
    BY <1>9, <1>b DEF RequestReconcile
  <2>2. client'[c].step = "verdict" /\ client'[c].target = d
    BY <2>1 DEF IdleClient
  <2>3. holder = NoClient /\ UNCHANGED storeVars /\ "reconcile" \in Requests
    BY <1>9 DEF RequestReconcile, Acquire, MayStart
  <2> QED BY <2>1, <2>2, <2>3 DEF ReleasePath, CreateSteps, DeleteSteps, ReconcileSteps
<1>10. CASE RequestTeardown(c)
  <2>1. ASSUME NEW kind, NEW step \in {"gate", "drain"}, ClaimTeardown(c, kind, step)
        PROVE  Elsewhere
    <3>1. client'[c] = [IdleClient EXCEPT !.step = step, !.resumed = deleting]
      BY <2>1, <1>b DEF ClaimTeardown
    <3> QED BY <3>1 DEF IdleClient, CreateSteps, DeleteSteps, ReconcileSteps
  <2> QED BY <1>10, <1>a, <2>1 DEF RequestTeardown
<1>11. CASE InsertDeployment(c)
  <2>1. CASE RefuseInsert(c)
    BY <2>1, <1>a, <1>b DEF RefuseInsert
  <2>2. CASE \E d \in Deployments :
               ClientTakes(c, [client[c] EXCEPT !.step = "session", !.target = d])
    <3>1. client'[c].step = "session"
      BY <1>1, <1>b, <2>2 DEF ClientRecords
    <3> QED BY <1>11, <3>1 DEF ReleasePath, CreateSteps, DeleteSteps, ReconcileSteps
  <2> QED BY <1>11, <2>1, <2>2 DEF InsertDeployment
<1>12. CASE InsertSession(c)
  <2>1. client[c].step = "session"
    BY <1>12 DEF InsertSession, ClientAt
  <2>2. ASSUME NEW step \in {"reconciling", "undo"}, ClientGoes(c, step)
        PROVE  client'[c].step = step /\ client'[c].target = client[c].target
    BY <2>2, <1>f
  <2>3. ClientGoes(c, "reconciling") \/ (UNCHANGED storeVars /\ ClientGoes(c, "undo"))
    BY <1>12 DEF InsertSession, WriteFails
  <2> QED BY <2>1, <2>2, <2>3 DEF ReleasePath, CreateSteps, DeleteSteps, ReconcileSteps
<1>13. CASE UndoInsert(c) \/ DropUnclaimed(c) \/ KeepPointer(c) \/ RejectMark(c) \/ Erase(c)
            \/ Advance(c) \/ ReleaseFence(c) \/ RetainFence(c)
  BY <1>13, <1>a, <1>b
     DEF UndoInsert, DropUnclaimed, KeepPointer, RejectMark, Erase, Advance, ReleaseFence,
         RetainFence
<1>14. CASE RetireReconciling(c)
  <2>1. client[c].step = "reconciling"
    BY <1>14 DEF RetireReconciling, ClientAt
  <2>2. client'[c].step = "decisions" /\ client'[c].target = client[c].target
    BY <1>14, <1>f DEF RetireReconciling
  <2>3. SupersedeReconciling(client[c].target) \/ writeFailures' # 0
    BY <1>14, <1>1 DEF RetireReconciling, WriteFails
  <2> QED BY <2>1, <2>2, <2>3 DEF ReleasePath, CreateSteps, DeleteSteps, ReconcileSteps
<1>15. CASE RetireDecisions(c) \/ SignalWorker(c) \/ SettleSession(c)
  BY <1>15, <1>a, <1>b DEF RetireDecisions, SignalWorker, SettleSession
<1>16. CASE Kickoff(c)
  BY <1>16, <1>a, <1>b, <1>c DEF Kickoff
<1>17. CASE AwaitQuiescence(c)
  BY <1>17, <1>a, <1>c DEF AwaitQuiescence
<1>18. CASE KeepRelease(c)
  <2>1. client[c].step = "keep"
    BY <1>18 DEF KeepRelease, ClientAt
  <2>2. client'[c].step = "keepPointer"
    BY <1>18, <1>f DEF KeepRelease
  <2> QED BY <2>1, <2>2 DEF ReleasePath, CreateSteps, DeleteSteps, ReconcileSteps
<1>19. CASE RejectDetach(c)
  BY <1>19, <1>a, <1>b DEF RejectDetach
<1>20. CASE Detach(c)
  <2>1. client[c].step = "detach"
    BY <1>20 DEF Detach, ClientAt
  <2>2. ClientGoes(c, "erase") => client'[c].step = "erase" /\ client'[c].target = client[c].target
    BY <1>f
  <2>3. CASE ClientDone(c)
    BY <2>3, <1>a, <1>b
  <2>4. CASE /\ ClientGoes(c, "erase")
             /\ client[c].seen # client[c].target \/ SetActiveDeployment(NoDeployment)
    <3>1. SetActiveDeployment(NoDeployment) => active' = NoDeployment \/ ~exists
      BY DEF SetActiveDeployment
    <3> QED BY <2>1, <2>2, <2>4, <3>1 DEF ReleasePath, CreateSteps, DeleteSteps, ReconcileSteps
  <2> QED BY <1>20, <2>3, <2>4 DEF Detach
<1>21. CASE Verdict(c)
  <2>1. client[c].step = "verdict"
    BY <1>21 DEF Verdict, ClientAt
  <2>2. ClientGoes(c, "forward") =>
          client'[c].step = "forward" /\ client'[c].target = client[c].target
    BY <1>f
  <2>3. CASE ClientDone(c)
    BY <2>3, <1>a, <1>b
  <2>4. CASE ClientGoes(c, "forward")
    BY <2>1, <2>2, <2>4 DEF ReleasePath, CreateSteps, DeleteSteps, ReconcileSteps
  <2> QED BY <1>21, <2>3, <2>4 DEF Verdict
<1>22. CASE Forward(c)
  <2>1. client[c].step = "forward" /\ UNCHANGED storeVars
    BY <1>22 DEF Forward, ClientAt
  <2>2. ClientGoes(c, "advance") =>
          client'[c].step = "advance" /\ client'[c].target = client[c].target
    BY <1>f
  <2>3. CASE ClientDone(c)
    BY <2>3, <1>a, <1>b
  <2>4. CASE exists /\ ~Superseded(client[c].target) /\ ClientGoes(c, "advance")
    BY <2>1, <2>2, <2>4 DEF ReleasePath, CreateSteps, DeleteSteps, ReconcileSteps
  <2> QED BY <1>22, <2>3, <2>4 DEF Forward
<1>23. CASE \/ RefuseTeardown(c) \/ Gate(c) \/ Poll(c) \/ BeginCleanup(c) \/ Destroy(c)
            \/ DropProject(c)
  BY <1>23, <1>a, <1>b
     DEF RefuseTeardown, Gate, Poll, BeginCleanup, Destroy, DropProject, TeardownSteps
<1>24. CASE Drain(c)
  <2>1. ASSUME NEW d \in Deployments,
               ClientTakes(c, [client[c] EXCEPT !.step = "signal", !.target = d, !.back = "poll"])
        PROVE  Elsewhere
    BY <2>1, <1>1, <1>b DEF ClientRecords, CreateSteps, DeleteSteps, ReconcileSteps
  <2> QED BY <1>24, <1>a, <1>b, <2>1 DEF Drain, TeardownSteps
<1> HIDE DEF Elsewhere
<1> QED
  BY <1>2, <1>3, <1>5, <1>6, <1>7, <1>8, <1>9, <1>10, <1>11, <1>12, <1>13, <1>14, <1>15,
     <1>16, <1>17, <1>18, <1>19, <1>20, <1>21, <1>22, <1>23, <1>24
     DEF Request, ClientNext, CreateNext, CancelNext, DecideNext, DeleteNext, ReconcileNext,
         TeardownNext

-----------------------------------------------------------------------------
(* What is always true of releases. *)

(* Only the newest deployment is listed. *)
ListedLast == \A d, e \in Deployments : Listed(d) /\ Born(e) => e <= d

(* A build session has its row. *)
LeasedRows == \A d \in Deployments : lease[d] # "none" => RowExists(d)

PointerSound ==
  /\ active # NoDeployment => Born(active)
  /\ PointerResolves

(***************************************************************************)
(* With no write lost, a deployment waits for the verdict on its lost      *)
(* connection beside a newer one only until the create of the newer one    *)
(* has settled it.                                                         *)
(***************************************************************************)
ReconcilingAlone ==
  Up /\ writeFailures = 0 =>
    \A d, e \in Deployments :
      Listed(e) /\ status[d] = "reconciling" /\ d # e =>
        \E c \in Clients : client[c].step \in {"session", "reconciling"} /\ client[c].target = e

(* The boot sweep leaves no row in flight. *)
Swept == api \in {"sweepSessions", "sweepLeases"} => \A d \in Deployments : ~InFlight(d)

NoKeep == \A c \in Clients : client[c].step \notin {"keep", "keepPointer"}

(* A create that holds the lock is about the only listed deployment. *)
CreateFor(c) ==
  client[c].step \in CreateSteps =>
    /\ \A d \in Deployments : Listed(d) => d = client[c].target
    /\ client[c].step \in {"session", "undo"} =>
         lease[client[c].target] = "none" /\ active # client[c].target
    /\ client[c].step # "undo" => RowExists(client[c].target)

(* What is being deleted is not at work, and once detached stays so. *)
DeleteFor(c) ==
  client[c].step \in DeleteSteps =>
    /\ ~Listed(client[c].target)
    /\ (client[c].step = "erase" \/ client[c].seen # client[c].target) /\ exists =>
         active # client[c].target

(* A reconciled release has no number yet and is newer than the live one. *)
ReconcileFor(c) ==
  LET d == client[c].target IN
  client[c].step \in ReconcileSteps =>
    /\ ~Early(d) /\ RowExists(d) /\ ~InFlight(d)
    /\ client[c].step = "verdict" => version[d] = 0
    /\ writeFailures = 0 =>
         /\ \A e \in Deployments : Listed(e) => e = d
         /\ status[d] # "cancelled"
         /\ client[c].step = "advance" /\ exists => active <= d

(* No shipped release but one of the same commit carries the number n. *)
Fits(d, n) ==
  \A e \in Deployments \ {d} :
    Shipped(e) /\ version[e] = n => commit[e] = commit[d] /\ commit[d] # NoCommit

(* From the queue to its outcome a deployment is unnumbered. *)
NumberFor(d) ==
  /\ version[d] # 0 => status[d] \notin InFlightStatuses \cup {"unborn", "reconciling"}
  /\ Early(d) => version[d] = 0 /\ status[d] # "reconciling"
  /\ worker[d] \in (EarlySteps \ {"outcome"}) \cup {"off"} => number[d] = 0
  /\ worker[d] = "outcome" /\ number[d] # 0 => Fits(d, number[d])
  /\ worker[d] = "point" /\ writeFailures = 0 => status[d] \notin InFlightStatuses \cup {"cancelled"}

ReleaseInv ==
  /\ ListedLast
  /\ LeasedRows
  /\ PointerSound
  /\ ReconcilingAlone
  /\ Swept
  /\ NoKeep
  /\ ShippedVersionsDistinct
  /\ \A d \in Deployments : NumberFor(d)
  /\ \A c \in Clients : CreateFor(c) /\ DeleteFor(c) /\ ReconcileFor(c)

(* The invariants proved above, on which the one of releases builds. *)
GroundInv == IInv /\ OutcomeInv

(* The deployment a request works on is one. *)
LEMMA Targets ==
  ASSUME TypeOK
  PROVE  /\ \A c \in Clients : client[c].step \in TargetSteps => client[c].target \in Deployments
         /\ CreateSteps \subseteq TargetSteps /\ DeleteSteps \subseteq TargetSteps
         /\ ReconcileSteps \subseteq TargetSteps
         /\ NoDeployment \notin Deployments /\ Deployments \subseteq Nat
         /\ active \in Deployments \cup {NoDeployment}
<1>1. /\ NoDeployment \notin Deployments /\ Deployments \subseteq Nat
      /\ DeploymentOrNone = Deployments \cup {NoDeployment}
  BY DeploymentsAssumption DEF NoDeployment, Deployments, DeploymentOrNone
<1>2. \A c \in Clients : client[c].step \in TargetSteps => client[c].target \in Deployments
  BY DEF TypeOK, ClientTypeOK, ClientStates
<1>3. active \in DeploymentOrNone
  BY DEF TypeOK, StoreTypeOK
<1> QED BY <1>1, <1>2, <1>3 DEF TargetSteps, CreateSteps, DeleteSteps, ReconcileSteps

(* A worker that acts has its row, and it is the only one to. *)
LEMMA WorkerAlone ==
  ASSUME IInv, LeasedRows, NEW d \in Deployments, Working(d)
  PROVE  /\ Listed(d) /\ RowExists(d) /\ Born(d)
         /\ \A e \in Deployments : Listed(e) => e = d
         /\ \A e \in Deployments : Working(e) => e = d
<1>1. LeaseHeld(d)
  BY DEF IInv, WorkerLeased
<1>2. RowExists(d) /\ Born(d)
  BY <1>1 DEF LeasedRows, LeaseHeld, RowExists, Born
<1>3. \A e \in Deployments : Listed(e) => e = d
  BY <1>1 DEF IInv, OneListed, Listed
<1> QED BY <1>1, <1>2, <1>3 DEF IInv, WorkerLeased, Listed

(* All that is known of a worker's step. *)
WorkerFacts(d) ==
  /\ WorkerRows(d) /\ WorkerNumbers(d) /\ WorkerHistory(d) /\ WorkerEffect
  /\ IInv' /\ Listed(d) /\ RowExists(d) /\ Born(d)
  /\ \A e \in Deployments : (Listed(e) => e = d) /\ (Working(e) => e = d)
  /\ \A e \in Deployments :
       /\ Listed(e)' => Listed(e)
       /\ RowExists(e) => RowExists(e)'
       /\ Born(e)' <=> Born(e)
  /\ UNCHANGED <<client, holder, api, exists>>

(* It follows from the invariants. *)
LEMMA WorkersFacts ==
  ASSUME IInv, LeasedRows, NEW d \in Deployments, WorkerNext(d)
  PROVE  WorkerFacts(d)
<1>1. WorkerRows(d) /\ WorkerNumbers(d) /\ WorkerHistory(d) /\ WorkerEffect /\ IInv'
  BY WorkersMoveRows, WorkersMoveNumbers, WorkerHistories, WorkerEffects, WorkerStep DEF IInv
<1>2. Working(d)
  BY <1>1 DEF WorkerNumbers
<1>3. \A e \in Deployments :
        /\ Listed(e)' => Listed(e)
        /\ RowExists(e) => RowExists(e)'
        /\ Born(e)' <=> Born(e)
  <2>1. \A e \in Deployments : RowExists(e) => RowExists(e)'
    BY <1>1 DEF WorkerRows, RowExists
  <2> QED BY <1>1, <2>1 DEF WorkerEffect, Calm, WorkerHistory, HistoryKept, BirthsKept
<1> QED
  BY <1>1, <1>2, <1>3, WorkerAlone DEF WorkerFacts, WorkerEffect, FenceKept

(* A worker keeps what is said of the rows and of the pointer. *)
LEMMA WorkerReleases ==
  ASSUME GroundInv, ReleaseInv, NEW d \in Deployments, WorkerNext(d)
  PROVE  ListedLast' /\ LeasedRows' /\ PointerSound' /\ ReconcilingAlone' /\ Swept' /\ NoKeep'
<1>1. WorkerFacts(d) /\ TypeOK /\ TypeOK' /\ ReleaseInv
  BY WorkersFacts DEF GroundInv, ReleaseInv, WorkerFacts, IInv
<1>2. ListedLast'
  BY <1>1 DEF WorkerFacts, ReleaseInv, ListedLast
<1>3. LeasedRows'
  BY <1>1 DEF WorkerFacts, ReleaseInv, LeasedRows, WorkerRows
<1>4. PointerSound'
  <2>1. active \in Deployments \cup {NoDeployment} /\ NoDeployment \notin Deployments
    BY <1>1, Targets
  <2>2. active' = active \/ active' = d
    BY <1>1 DEF WorkerFacts, WorkerNumbers
  <2>3. CASE active' = active
    BY <1>1, <2>1, <2>3 DEF WorkerFacts, ReleaseInv, PointerSound, PointerResolves, Born, RowExists
  <2>4. CASE active' = d
    BY <1>1, <2>4 DEF WorkerFacts, PointerSound, PointerResolves, Born, RowExists
  <2> QED BY <2>2, <2>3, <2>4
<1>5. ReconcilingAlone'
  <2> SUFFICES ASSUME Up, writeFailures' = 0, NEW f \in Deployments, NEW e \in Deployments,
                      Listed(e)', status'[f] = "reconciling", f # e
               PROVE  \E c \in Clients : /\ client[c].step \in {"session", "reconciling"}
                                         /\ client[c].target = e
    BY <1>1 DEF ReconcilingAlone, WorkerFacts, Up
  <2>1. e = d /\ Listed(e)
    BY <1>1 DEF WorkerFacts
  <2>2. status[f] = "reconciling"
    BY <1>1, <2>1 DEF WorkerFacts, WorkerRows
  <2>3. writeFailures = 0
    BY <1>1 DEF WorkerFacts, WorkerHistory
  <2> QED BY <1>1, <2>1, <2>2, <2>3 DEF ReleaseInv, ReconcilingAlone
<1>6. Swept' /\ NoKeep'
  BY <1>1 DEF WorkerFacts, ReleaseInv, Swept, NoKeep, WorkerEffect, Up
<1> QED BY <1>2, <1>3, <1>4, <1>5, <1>6

(* The greatest number of a set of rows, as the release queries read it. *)
LEMMA GreatestNumber ==
  ASSUME StoreTypeOK, NEW S \in SUBSET Deployments
  PROVE  LET taken == Versions(S) \cup {0}
             m == CHOOSE n \in taken : \A v \in taken : v <= n
         IN  m \in Nat /\ m \in taken /\ \A e \in S : version[e] <= m
<1> DEFINE taken == Versions(S) \cup {0}
<1>1. IsFiniteSet(taken)
  <2> DEFINE f == [e \in S |-> version[e]]
  <2>1. IsFiniteSet(S)
    <3>1. IsFiniteSet(Deployments)
      BY FS_Interval, DeploymentsAssumption DEF Deployments
    <3> QED BY <3>1, FS_Subset
  <2>2. f \in Surjection(S, Versions(S))
    BY DEF Versions, Surjection
  <2>3. IsFiniteSet(Versions(S))
    BY <2>1, <2>2, FS_Surjection
  <2> QED BY <2>3, FS_AddElement
<1>2. taken \subseteq Nat /\ \A e \in S : version[e] \in taken
  BY DEF StoreTypeOK, Versions
<1>3. taken # {}
  OBVIOUS
<1> HIDE DEF taken
<1>4. \E m \in taken : \A v \in taken : v <= m
  BY <1>1, <1>2, <1>3, FiniteNatsHaveMaximum
<1>5. LET m == CHOOSE n \in taken : \A v \in taken : v <= n
      IN  m \in taken /\ \A v \in taken : v <= m
  BY <1>4
<1> QED BY <1>2, <1>5 DEF taken

(* The number a worker reads is free, or the one of its own commit. *)
LEMMA ReadNumberFits ==
  ASSUME StoreTypeOK, ShippedVersionsDistinct, NEW d \in Deployments
  PROVE  Fits(d, ReleaseVersion(d))
<1> DEFINE S == {e \in Deployments : status[e] \in ShippedStatuses}
           C == {e \in Deployments : /\ commit[d] # NoCommit
                                     /\ commit[e] = commit[d]
                                     /\ status[e] \in ShippedStatuses}
<1>1. \A e \in S : version[e] < NextReadyVersion
  <2> DEFINE m == CHOOSE n \in Versions(S) \cup {0} : \A v \in Versions(S) \cup {0} : v <= n
  <2>1. m \in Nat /\ \A e \in S : version[e] <= m
    BY GreatestNumber
  <2>2. NextReadyVersion = 1 + m
    BY DEF NextReadyVersion
  <2>3. \A e \in S : version[e] \in Nat
    BY DEF StoreTypeOK
  <2> HIDE DEF m, S
  <2> QED BY <2>1, <2>2, <2>3
<1>2. \/ ReadyVersionOfCommit(commit[d]) = 0
      \/ \E e \in C : version[e] = ReadyVersionOfCommit(commit[d])
  <2> DEFINE m == CHOOSE n \in Versions(C) \cup {0} : \A v \in Versions(C) \cup {0} : v <= n
  <2>1. m \in Versions(C) \cup {0}
    BY GreatestNumber
  <2>2. ReadyVersionOfCommit(commit[d]) = m
    BY DEF ReadyVersionOfCommit
  <2> HIDE DEF m
  <2> QED BY <2>1, <2>2 DEF Versions
<1>3. CASE ReadyVersionOfCommit(commit[d]) = 0
  <2>1. ReleaseVersion(d) = NextReadyVersion
    BY <1>3 DEF ReleaseVersion
  <2>2. \A e \in S : version[e] \in Nat /\ version[e] # NextReadyVersion
    BY <1>1 DEF StoreTypeOK
  <2> QED BY <2>1, <2>2 DEF Fits, Shipped
<1>4. CASE ReadyVersionOfCommit(commit[d]) # 0
  <2>1. PICK f \in C : version[f] = ReadyVersionOfCommit(commit[d])
    BY <1>2, <1>4
  <2>2. ReleaseVersion(d) = version[f] /\ version[f] # 0
    BY <1>4, <2>1 DEF ReleaseVersion
  <2>3. ASSUME NEW e \in Deployments, Shipped(e), version[e] = version[f]
        PROVE  commit[e] = commit[d] /\ commit[d] # NoCommit
    BY <2>1, <2>2, <2>3 DEF ShippedVersionsDistinct, Shipped
  <2> QED BY <2>2, <2>3 DEF Fits
<1> QED BY <1>3, <1>4

(* A worker numbers its release with a number that fits. *)
LEMMA WorkerNumbered ==
  ASSUME GroundInv, ReleaseInv, NEW d \in Deployments, WorkerNext(d)
  PROVE  ShippedVersionsDistinct' /\ \A e \in Deployments : NumberFor(e)'
<1>1. /\ WorkerFacts(d) /\ StoreTypeOK /\ NumberFor(d) /\ ShippedVersionsDistinct
      /\ WorkerRows(d) /\ WorkerNumbers(d) /\ WorkerHistory(d) /\ HistoryKept
  BY WorkersFacts DEF GroundInv, ReleaseInv, WorkerFacts, IInv, TypeOK, WorkerHistory
<1>2. writeFailures' = 0 => writeFailures = 0
  BY <1>1 DEF WorkerHistory
<1>3. \A e \in Deployments : Shipped(e)' => Shipped(e) \/ (e = d /\ worker[d] = "outcome")
  <2> SUFFICES ASSUME NEW e \in Deployments, Shipped(e)'
               PROVE  Shipped(e) \/ (e = d /\ worker[d] = "outcome")
    OBVIOUS
  <2>1. CASE e # d
    BY <1>1, <2>1 DEF WorkerRows, Shipped, ShippedStatuses
  <2>2. CASE e = d
    BY <1>1, <2>2 DEF WorkerRows, Shipped, ShippedStatuses
  <2> QED BY <2>1, <2>2
<1>4. \A e \in Deployments : Shipped(e) => Born(e)
  BY DEF Shipped, ShippedStatuses, Born
<1>5. \A e \in Deployments : Born(e) => commit'[e] = commit[e]
  BY <1>1 DEF HistoryKept
<1>6. ASSUME NEW e \in Deployments, e # d PROVE NumberFor(e)'
  <2>1. /\ version'[e] = version[e] /\ number'[e] = number[e] /\ worker'[e] = worker[e]
        /\ worker[e] = "off" /\ NumberFor(e)
        /\ status'[e] = status[e] \/ status'[e] = "cancelled"
    BY <1>1, <1>6 DEF WorkerFacts, WorkerRows, WorkerNumbers, Working, ReleaseInv
  <2> QED BY <2>1 DEF NumberFor, Early, EarlySteps, InFlightStatuses
<1>7. NumberFor(d)'
  <2>1. (version[d] # 0 => status[d] \notin InFlightStatuses \cup {"unborn", "reconciling"})'
    <3>1. CASE version'[d] = version[d]
      BY <1>1, <3>1 DEF WorkerRows, NumberFor, Early, EarlySteps, InFlightStatuses
    <3>2. CASE status'[d] = "ready"
      BY <3>2 DEF InFlightStatuses
    <3> QED BY <1>1, <3>1, <3>2 DEF WorkerNumbers
  <2>2. (Early(d) => version[d] = 0 /\ status[d] # "reconciling")'
    <3> SUFFICES ASSUME Early(d)' PROVE version'[d] = 0 /\ status'[d] # "reconciling"
      OBVIOUS
    <3>1. Early(d)
      BY <1>1 DEF WorkerNumbers
    <3>2. worker'[d] \notin {"point", "finish"}
      BY DEF Early, EarlySteps
    <3> QED BY <1>1, <3>1, <3>2 DEF WorkerRows, WorkerNumbers, NumberFor
  <2>3. (worker[d] \in (EarlySteps \ {"outcome"}) \cup {"off"} => number[d] = 0)'
    BY <1>1 DEF WorkerNumbers, NumberFor
  <2>4. (worker[d] = "outcome" /\ number[d] # 0 => Fits(d, number[d]))'
    <3> SUFFICES ASSUME worker'[d] = "outcome", number'[d] # 0 PROVE Fits(d, number[d])'
      OBVIOUS
    <3>1. UNCHANGED storeVars /\ Fits(d, number'[d])
      <4>1. CASE number'[d] = ReleaseVersion(d) /\ UNCHANGED storeVars
        BY <1>1, <4>1, ReadNumberFits
      <4>2. CASE number'[d] = number[d] /\ (worker[d] = "outcome" => UNCHANGED storeVars)
        <5>1. Early(d)'
          BY DEF Early, EarlySteps
        <5>2. worker[d] = "outcome"
          BY <1>1, <4>2, <5>1 DEF WorkerNumbers, NumberFor, Early
        <5> QED BY <1>1, <4>2, <5>2 DEF NumberFor
      <4> QED BY <1>1, <4>1, <4>2 DEF WorkerNumbers
    <3> QED BY <3>1 DEF Fits, Shipped, storeVars, rowVars
  <2>5. (worker[d] = "point" /\ writeFailures = 0
           => status[d] \notin InFlightStatuses \cup {"cancelled"})'
    BY <1>1, <1>2 DEF WorkerRows, NumberFor, InFlightStatuses
  <2> QED BY <2>1, <2>2, <2>3, <2>4, <2>5 DEF NumberFor
<1>8. ShippedVersionsDistinct'
  <2> DEFINE Same(e, f) == commit'[e] = commit'[f] /\ commit'[e] # NoCommit
  <2>1. ASSUME NEW e \in Deployments, Shipped(d)', Shipped(e)', e # d,
               version'[d] # 0, version'[d] = version'[e]
        PROVE  Same(d, e)
    <3>1. Shipped(e) /\ version'[e] = version[e]
      BY <1>1, <1>3, <2>1 DEF WorkerNumbers
    <3>2. CASE version'[d] = version[d]
      <4>1. worker[d] # "outcome"
        BY <1>1, <2>1, <3>2 DEF NumberFor, Early, EarlySteps
      <4>2. Shipped(d)
        BY <1>3, <2>1, <4>1
      <4> QED
        BY <1>1, <1>4, <1>5, <2>1, <3>1, <3>2, <4>2 DEF ShippedVersionsDistinct, Shipped
    <3>3. CASE version'[d] = number[d] /\ worker[d] = "outcome"
      <4>1. Fits(d, number[d])
        BY <1>1, <2>1, <3>3 DEF NumberFor
      <4> QED BY <1>1, <1>4, <1>5, <2>1, <3>1, <3>3, <4>1 DEF Fits, WorkerFacts
    <3> QED BY <1>1, <3>2, <3>3 DEF WorkerNumbers
  <2>2. ASSUME NEW e \in Deployments, NEW f \in Deployments, Shipped(e)', Shipped(f)',
               e # d, f # d, e # f, version'[e] # 0, version'[e] = version'[f]
        PROVE  Same(e, f)
    <3>1. /\ Shipped(e) /\ Shipped(f)
          /\ version'[e] = version[e] /\ version'[f] = version[f]
      BY <1>1, <1>3, <2>2 DEF WorkerNumbers
    <3> QED BY <1>1, <1>4, <1>5, <2>2, <3>1 DEF ShippedVersionsDistinct, Shipped
  <2> QED BY <2>1, <2>2 DEF ShippedVersionsDistinct, Shipped
<1> QED BY <1>6, <1>7, <1>8

(* A worker leaves the requests that hold the lock to their rows. *)
LEMMA WorkerBystands ==
  ASSUME GroundInv, ReleaseInv, NEW d \in Deployments, WorkerNext(d), NEW c \in Clients
  PROVE  CreateFor(c)' /\ DeleteFor(c)' /\ ReconcileFor(c)'
<1>1. /\ WorkerFacts(d) /\ TypeOK /\ CreateFor(c) /\ DeleteFor(c) /\ ReconcileFor(c)
      /\ WorkerRows(d) /\ WorkerNumbers(d) /\ client' = client /\ exists' = exists
      /\ writeFailures' = 0 => writeFailures = 0
  BY WorkersFacts DEF GroundInv, ReleaseInv, WorkerFacts, IInv, WorkerHistory
<1> DEFINE t == client[c].target
<1>2. client[c].step \in CreateSteps \cup DeleteSteps \cup ReconcileSteps => t \in Deployments
  BY <1>1, Targets
<1>3. active' = active \/ (active' = d /\ Listed(d) /\ LeaseHeld(d))
  BY <1>1 DEF WorkerFacts, WorkerNumbers, GroundInv, IInv, WorkerLeased
<1>4. CreateFor(c)'
  <2> SUFFICES ASSUME client[c].step \in CreateSteps
               PROVE  /\ \A e \in Deployments : Listed(e)' => e = t
                      /\ client[c].step \in {"session", "undo"} => lease'[t] = "none" /\ active' # t
                      /\ client[c].step # "undo" => RowExists(t)'
    BY <1>1 DEF CreateFor
  <2>1. lease[t] = "none" => lease'[t] = "none" /\ ~LeaseHeld(t)
    BY <1>1, <1>2 DEF WorkerRows, LeaseHeld
  <2> QED BY <1>1, <1>2, <1>3, <2>1 DEF CreateFor, WorkerFacts
<1>5. DeleteFor(c)'
  <2> SUFFICES ASSUME client[c].step \in DeleteSteps
               PROVE  /\ ~Listed(t)'
                      /\ (client[c].step = "erase" \/ client[c].seen # t) /\ exists => active' # t
    BY <1>1 DEF DeleteFor
  <2> QED BY <1>1, <1>2, <1>3 DEF DeleteFor, WorkerFacts
<1>6. ReconcileFor(c)'
  <2> SUFFICES ASSUME client[c].step \in ReconcileSteps
               PROVE  /\ ~Early(t)' /\ RowExists(t)' /\ ~InFlight(t)'
                      /\ client[c].step = "verdict" => version'[t] = 0
                      /\ writeFailures' = 0 =>
                           /\ \A e \in Deployments : Listed(e)' => e = t
                           /\ status'[t] # "cancelled"
                           /\ client[c].step = "advance" /\ exists => active' <= t
    BY <1>1 DEF ReconcileFor
  <2>1. t \in Deployments /\ ~Early(t) /\ RowExists(t) /\ ~InFlight(t)
    BY <1>1, <1>2 DEF ReconcileFor
  <2>2. /\ ~Early(t)' /\ version'[t] = version[t]
        /\ status'[t] \in {status[t], "failed", "partial_failure"} \/ (d # t /\ status'[t] = "cancelled")
    <3>1. CASE t = d
      BY <1>1, <2>1, <3>1 DEF WorkerNumbers, WorkerRows, Early, EarlySteps
    <3>2. CASE t # d
      BY <1>1, <2>1, <3>2 DEF WorkerNumbers, WorkerRows, Early
    <3> QED BY <3>1, <3>2
  <2>3. RowExists(t)' /\ ~InFlight(t)'
    BY <1>1, <2>1, <2>2 DEF WorkerFacts, InFlight, InFlightStatuses
  <2>4. ASSUME writeFailures' = 0 PROVE d = t
    BY <1>1, <2>4 DEF ReconcileFor, WorkerFacts
  <2>5. t <= t
    BY <2>1, <1>1, Targets
  <2> QED BY <1>1, <1>3, <2>1, <2>2, <2>3, <2>4, <2>5 DEF ReconcileFor, WorkerFacts
<1> QED BY <1>4, <1>5, <1>6

(* The first step of a create after its insert is that of its session. *)
LEMMA AtCreate ==
  ASSUME NEW c \in Clients, Request(c) \/ ClientNext(c)
  PROVE  /\ client[c].step = "session" => InsertSession(c)
         /\ client[c].step = "reconciling" => RetireReconciling(c)
<1>1. ASSUME client[c].step \in {"session", "reconciling"}
      PROVE  InsertSession(c) \/ RetireReconciling(c)
  <2>1. ~Request(c)
    BY <1>1
       DEF Request, RequestDeploy, RequestRollback, StartBuild, RequestCancel, RequestKeep,
           RequestReject, RequestDelete, RequestReconcile, RequestTeardown, ClaimTeardown,
           MayStart, ClientAt
  <2>2. ~CancelNext(c) /\ ~DecideNext(c) /\ ~DeleteNext(c) /\ ~ReconcileNext(c)
    BY <1>1
       DEF CancelNext, SignalWorker, SettleSession, AwaitQuiescence, DecideNext, KeepRelease,
           KeepPointer, RejectDetach, RejectMark, DeleteNext, Detach, Erase, ReconcileNext,
           Verdict, Forward, Advance, ClientAt
  <2>3. ~TeardownNext(c)
    BY <1>1
       DEF TeardownNext, RefuseTeardown, Gate, Drain, Poll, BeginCleanup, Destroy, DropProject,
           ReleaseFence, RetainFence, ClientAt
  <2>4. CreateNext(c) => InsertSession(c) \/ RetireReconciling(c)
    BY <1>1
       DEF CreateNext, InsertDeployment, UndoInsert, RetireDecisions, Kickoff, DropUnclaimed,
           ClientAt
  <2> QED BY <2>1, <2>2, <2>3, <2>4 DEF ClientNext
<1> QED BY <1>1 DEF InsertSession, RetireReconciling, ClientAt

(* All that is known of a request's step. *)
RequestFacts(c) ==
  /\ RequestRows(c) /\ ReleasePath(c) /\ RequestHistory(c) /\ ControlEffect(c) /\ IInv'
  /\ writeFailures' = 0 => writeFailures = 0
  /\ \A e \in Deployments :
       /\ Listed(e)' => Listed(e) \/ InsertDeployment(c)
       /\ worker'[e] = worker[e]
            \/ (ClaimBuildExecution(e) /\ worker'[e] = "start" /\ e = client[c].target)

(* It follows from the invariants, too. *)
LEMMA RequestsFacts ==
  ASSUME GroundInv, NEW c \in Clients, Request(c) \/ ClientNext(c)
  PROVE  RequestFacts(c)
<1>1. /\ RequestRows(c) /\ ReleasePath(c) /\ RequestHistory(c) /\ ControlEffect(c) /\ IInv'
      /\ writeFailures' = 0 => writeFailures = 0
  BY RequestsMoveRows, ReleasePaths, RequestHistories, ControlEffects, ClientStep
     DEF GroundInv, IInv, OutcomeInv, RequestInv, RequestHistory
<1>2. ASSUME NEW e \in Deployments PROVE Listed(e)' => Listed(e) \/ InsertDeployment(c)
  <2>1. LeaseHeld(e)' => LeaseHeld(e) \/ ClaimBuildExecution(e)
    <3>1. CASE Lapsing
      BY <3>1 DEF Lapsing
    <3>2. CASE /\ client[c].target \in Deployments /\ ClaimBuildExecution(client[c].target)
      BY <3>2 DEF ClaimBuildExecution, LeaseHeld, GroundInv, IInv, TypeOK, StoreTypeOK
    <3> QED BY <1>1, <3>1, <3>2 DEF RequestHistory
  <2>2. ClaimBuildExecution(e) => InFlight(e)
    BY DEF ClaimBuildExecution, Claimable, InFlight, InFlightStatuses
  <2>3. InFlight(e)' => InFlight(e) \/ InsertDeployment(c) \/ ClaimBuildExecution(e)
    BY <1>1 DEF RequestRows, RequestMoves, InFlight, InFlightStatuses
  <2> QED BY <2>1, <2>2, <2>3 DEF Listed
<1>3. ASSUME NEW e \in Deployments
      PROVE  worker'[e] = worker[e]
               \/ (ClaimBuildExecution(e) /\ worker'[e] = "start" /\ e = client[c].target)
  BY <1>1 DEF RequestHistory, GroundInv, IInv, TypeOK, WorkerTypeOK
<1> QED BY <1>1, <1>2, <1>3 DEF RequestFacts

(* What is inserted: the next row, with nothing listed beside it. *)
LEMMA Insertion ==
  ASSUME TypeOK, NEW c \in Clients, InsertDeployment(c), client'[c].step # "idle"
  PROVE  LET d == client'[c].target IN
         /\ d \in Deployments /\ client'[c].step = "session"
         /\ status[d] = "unborn" /\ status' = [status EXCEPT ![d] = "queued"]
         /\ lease' = lease /\ active' = active /\ Quiescent /\ holder = NoClient
         /\ \A e \in Deployments : e < d => status[e] # "unborn"
<1>1. client[c] \in ClientRecords /\ client \in [Clients -> ClientStates]
  BY DEF TypeOK, ClientTypeOK, ClientStates
<1>2. ~RefuseInsert(c)
  BY <1>1 DEF RefuseInsert, ClientDone, ClientTakes, IdleClient
<1>3. PICK d \in Deployments :
        /\ CreateDeployment(d, client[c].wanted, client[c].seen, client[c].carried)
        /\ ClientTakes(c, [client[c] EXCEPT !.step = "session", !.target = d])
  BY <1>2 DEF InsertDeployment
<1>4. client'[c].step = "session" /\ client'[c].target = d
  BY <1>1, <1>3 DEF ClientTakes, ClientRecords
<1>5. holder = NoClient
  BY DEF InsertDeployment
<1>6. /\ status[d] = "unborn" /\ status' = [status EXCEPT ![d] = "queued"]
      /\ lease' = lease /\ active' = active /\ Quiescent
      /\ \A e \in Deployments : e < d => status[e] # "unborn"
  BY <1>3
     DEF CreateDeployment, NextRow, MayCreate, sessionVars, projectVars, Quiescent, Listed
<1> QED BY <1>4, <1>5, <1>6

(* A row that a request ends loses its session, and at these steps only. *)
LEMMA RowsGoOn ==
  ASSUME NEW c \in Clients, RequestRows(c), NEW e \in Deployments, RowExists(e), ~RowExists(e)'
  PROVE  /\ lease'[e] = "none"
         /\ \/ client[c].step \in {"undo", "erase"} /\ e = client[c].target
            \/ client[c].step = "drop" /\ ~exists'
BY DEF RequestRows, RequestMoves, RowExists

(* A request that does not hold the lock leaves the rows in place. *)
LEMMA Bystanders ==
  ASSUME GroundInv, NoKeep, NEW c \in Clients, Locked(c), NEW b \in Clients, b # c,
         Request(b) \/ ClientNext(b)
  PROVE  /\ RequestFacts(b) /\ client'[c] = client[c]
         /\ active' \in {active, NoDeployment} /\ version' = version
         /\ exists' => exists
         /\ \A e \in Deployments :
              /\ Listed(e)' => Listed(e)
              /\ RowExists(e) => RowExists(e)'
              /\ lease'[e] # "none" => lease[e] # "none"
              /\ \/ status'[e] = status[e]
                 \/ InFlight(e) /\ status'[e] \in {"building", "cancelled"}
                 \/ RowExists(e) /\ status'[e] = "rejected"
              /\ ~InFlight(e) => worker'[e] = worker[e]
<1>1. RequestFacts(b) /\ RequestRows(b) /\ client'[c] = client[c]
  BY RequestsFacts DEF RequestFacts, ControlEffect
<1>2. holder = c /\ holder # NoClient /\ ~Locked(b)
  BY ClientsAssumption DEF GroundInv, IInv, LockFor
<1>3. ~InsertDeployment(b)
  BY <1>2 DEF InsertDeployment
<1>4. client[b].step \notin {"session", "undo", "reconciling", "decisions", "detach", "erase",
                             "verdict", "forward", "advance", "drop", "keep", "keepPointer"}
  BY <1>2
     DEF Locked, InTeardown, CreateSteps, DeleteSteps, ReconcileSteps, TeardownSteps, NoKeep
<1>5. \A e \in Deployments : ClaimBuildExecution(e) => InFlight(e)
  BY DEF ClaimBuildExecution, Claimable, InFlight, InFlightStatuses
<1>6. /\ active' \in {active, NoDeployment} /\ version' = version
      /\ exists' => exists
  BY <1>1, <1>4 DEF RequestRows
<1>7. ASSUME NEW e \in Deployments
      PROVE  /\ Listed(e)' => Listed(e)
             /\ RowExists(e) => RowExists(e)'
             /\ lease'[e] # "none" => lease[e] # "none"
             /\ ~InFlight(e) => worker'[e] = worker[e]
  BY <1>1, <1>3, <1>4, <1>5, RowsGoOn DEF RequestFacts, RequestRows
<1>8. ASSUME NEW e \in Deployments
      PROVE  \/ status'[e] = status[e]
             \/ InFlight(e) /\ status'[e] \in {"building", "cancelled"}
             \/ RowExists(e) /\ status'[e] = "rejected"
  BY <1>1, <1>3, <1>4, <1>5 DEF RequestRows, RequestMoves
<1> QED BY <1>1, <1>6, <1>7, <1>8

(* Requests leave the requests that hold the lock to their rows, too. *)
LEMMA RequestBystands ==
  ASSUME GroundInv, ReleaseInv, NEW c \in Clients, NEW b \in Clients, b # c,
         Request(b) \/ ClientNext(b)
  PROVE  CreateFor(c)' /\ DeleteFor(c)' /\ ReconcileFor(c)'
<1>1. client'[c] = client[c] /\ CreateFor(c) /\ DeleteFor(c) /\ ReconcileFor(c) /\ NoKeep /\ TypeOK
  BY RequestsFacts DEF RequestFacts, ControlEffect, ReleaseInv, GroundInv, IInv
<1>2. CASE client[c].step \notin CreateSteps \cup DeleteSteps \cup ReconcileSteps
  BY <1>1, <1>2 DEF CreateFor, DeleteFor, ReconcileFor
<1>3. CASE client[c].step \in CreateSteps \cup DeleteSteps \cup ReconcileSteps
  <2>0. SUFFICES ASSUME NEW t \in Deployments, t = client[c].target, t = client'[c].target
                 PROVE  CreateFor(c)' /\ DeleteFor(c)' /\ ReconcileFor(c)'
    BY <1>1, <1>3, Targets
  <2>1. t \in Deployments /\ t # NoDeployment /\ t \in Nat
    BY <1>1, Targets
  <2>2. Locked(c)
    BY <1>3 DEF Locked
  <2>3. /\ active' \in {active, NoDeployment} /\ version' = version
        /\ exists' => exists
        /\ writeFailures' = 0 => writeFailures = 0
        /\ \A e \in Deployments :
             /\ Listed(e)' => Listed(e)
             /\ RowExists(e) => RowExists(e)'
             /\ lease'[e] # "none" => lease[e] # "none"
             /\ \/ status'[e] = status[e]
                \/ InFlight(e) /\ status'[e] \in {"building", "cancelled"}
                \/ RowExists(e) /\ status'[e] = "rejected"
             /\ ~InFlight(e) => worker'[e] = worker[e]
    BY <1>1, <2>2, Bystanders DEF RequestFacts
  <2>4. CreateFor(c)'
    <3> SUFFICES ASSUME client[c].step \in CreateSteps
                 PROVE  /\ \A e \in Deployments : Listed(e)' => e = t
                        /\ client[c].step \in {"session", "undo"} => lease'[t] = "none" /\ active' # t
                        /\ client[c].step # "undo" => RowExists(t)'
      BY <1>1, <2>0 DEF CreateFor
    <3>1. /\ \A e \in Deployments : Listed(e) => e = t
          /\ client[c].step \in {"session", "undo"} => lease[t] = "none" /\ active # t
          /\ client[c].step # "undo" => RowExists(t)
      BY <1>1, <2>0 DEF CreateFor
    <3> QED BY <2>1, <2>3, <3>1
  <2>5. DeleteFor(c)'
    <3> SUFFICES ASSUME client[c].step \in DeleteSteps
                 PROVE  /\ ~Listed(t)'
                        /\ (client[c].step = "erase" \/ client[c].seen # t) /\ exists' => active' # t
      BY <1>1, <2>0 DEF DeleteFor
    <3>1. /\ ~Listed(t)
          /\ (client[c].step = "erase" \/ client[c].seen # t) /\ exists => active # t
      BY <1>1, <2>0 DEF DeleteFor
    <3> QED BY <2>1, <2>3, <3>1
  <2>6. ReconcileFor(c)'
    <3> SUFFICES ASSUME client[c].step \in ReconcileSteps
                 PROVE  /\ ~Early(t)' /\ RowExists(t)' /\ ~InFlight(t)'
                        /\ client[c].step = "verdict" => version'[t] = 0
                        /\ writeFailures' = 0 =>
                             /\ \A e \in Deployments : Listed(e)' => e = t
                             /\ status'[t] # "cancelled"
                             /\ client[c].step = "advance" /\ exists' => active' <= t
      BY <1>1, <2>0 DEF ReconcileFor
    <3>1. ~Early(t) /\ RowExists(t) /\ ~InFlight(t)
      BY <1>1, <2>0 DEF ReconcileFor
    <3>2. ~InFlight(t)' /\ ~Early(t)' /\ status'[t] \in {status[t], "rejected"}
      BY <2>1, <2>3, <3>1 DEF InFlight, InFlightStatuses, Early
    <3>3. NoDeployment <= t
      BY <2>1 DEF NoDeployment
    <3>4. /\ client[c].step = "verdict" => version[t] = 0
          /\ writeFailures = 0 =>
               /\ \A e \in Deployments : Listed(e) => e = t
               /\ status[t] # "cancelled"
               /\ client[c].step = "advance" /\ exists => active <= t
      BY <1>1, <2>0 DEF ReconcileFor
    <3> QED BY <2>1, <2>3, <3>1, <3>2, <3>3, <3>4
  <2> QED BY <2>4, <2>5, <2>6
<1> QED BY <1>2, <1>3

(* A create that goes on keeps to its row. *)
LEMMA CreateGoesOn ==
  ASSUME GroundInv, ReleaseInv, NEW c \in Clients, Request(c) \/ ClientNext(c)
  PROVE  CreateFor(c)'
<1>1. /\ RequestFacts(c) /\ RequestRows(c) /\ ReleasePath(c) /\ TypeOK /\ CreateFor(c) /\ PointerSound
      /\ active \in Deployments \cup {NoDeployment} /\ NoDeployment \notin Deployments
  BY RequestsFacts, Targets DEF RequestFacts, ReleaseInv, GroundInv, IInv
<1>0. SUFFICES ASSUME NEW t, t = client'[c].target, client'[c].step \in CreateSteps
             PROVE  /\ \A e \in Deployments : Listed(e)' => e = t
                    /\ client'[c].step \in {"session", "undo"} => lease'[t] = "none" /\ active' # t
                    /\ client'[c].step # "undo" => RowExists(t)'
  BY DEF CreateFor
<1>2. CASE InsertDeployment(c)
  <2>1. client'[c].step # "idle"
    BY <1>0 DEF CreateSteps
  <2>2. /\ t \in Deployments /\ client'[c].step = "session"
        /\ status[t] = "unborn" /\ status' = [status EXCEPT ![t] = "queued"]
        /\ lease' = lease /\ active' = active /\ Quiescent
    BY <1>0, <1>1, <1>2, <2>1, Insertion
  <2>3. status \in [Deployments -> Statuses]
    BY <1>0, <1>1 DEF TypeOK, StoreTypeOK
  <2>4. \A e \in Deployments : Listed(e)' => e = t
    BY <2>2, <2>3 DEF Quiescent, Listed, InFlight, LeaseHeld
  <2>5. lease[t] = "none" /\ active # t
    BY <1>0, <1>1, <2>2 DEF GroundInv, IInv, UnbornUnleased, PointerSound, Born
  <2>6. RowExists(t)'
    BY <2>2, <2>3 DEF RowExists
  <2> QED BY <2>2, <2>4, <2>5, <2>6
<1>3. CASE ~InsertDeployment(c)
  <2>1. /\ client[c].step \in CreateSteps /\ t = client[c].target /\ client'[c].step # "session"
        /\ client'[c].step = "undo" => client[c].step = "session" /\ UNCHANGED storeVars
        /\ client'[c].step = "reconciling" => client[c].step = "session"
        /\ client'[c].step = "decisions" => client[c].step = "reconciling"
    BY <1>0, <1>1, <1>3 DEF ReleasePath
  <2>2. t \in Deployments
    BY <1>0, <1>1, <2>1, Targets
  <2>3. \A e \in Deployments : Listed(e)' => e = t
    BY <1>0, <1>1, <1>3, <2>1 DEF RequestFacts, CreateFor
  <2>4. client'[c].step = "undo" => lease'[t] = "none" /\ active' # t
    BY <1>0, <1>1, <2>1 DEF CreateFor, storeVars, sessionVars, projectVars
  <2>5. client'[c].step # "undo" => RowExists(t)'
    BY <1>0, <1>1, <2>1, <2>2, RowsGoOn DEF CreateFor, CreateSteps
  <2> QED BY <2>1, <2>3, <2>4, <2>5
<1> QED BY <1>0, <1>2, <1>3

(* A delete finds its row settled and leaves it detached. *)
LEMMA DeleteGoesOn ==
  ASSUME GroundInv, ReleaseInv, NEW c \in Clients, Request(c) \/ ClientNext(c)
  PROVE  DeleteFor(c)'
<1>1. /\ RequestFacts(c) /\ RequestRows(c) /\ ReleasePath(c) /\ TypeOK /\ TypeOK' /\ DeleteFor(c)
      /\ NoDeployment \notin Deployments
  BY RequestsFacts, Targets DEF RequestFacts, ReleaseInv, GroundInv, IInv
<1>0. SUFFICES ASSUME NEW t, t = client'[c].target, client'[c].step \in DeleteSteps
             PROVE  /\ ~Listed(t)'
                    /\ (client'[c].step = "erase" \/ client'[c].seen # t) /\ exists' => active' # t
  BY DEF DeleteFor
<1>2. t \in Deployments
  <2>1. \A b \in Clients : client'[b].step \in TargetSteps => client'[b].target \in Deployments
    BY <1>1 DEF TypeOK, ClientTypeOK, ClientStates
  <2> QED BY <1>0, <2>1 DEF TargetSteps
<1>3. CASE client'[c].step = "detach" /\ client'[c].seen = active /\ ~Listed(t) /\ UNCHANGED storeVars
  <2>1. ~Listed(t)' /\ active' = active
    BY <1>3 DEF Listed, InFlight, LeaseHeld, storeVars, rowVars, sessionVars, projectVars
  <2> QED BY <1>0, <1>3, <2>1
<1>4. CASE /\ client[c].step = "detach" /\ client'[c].step = "erase" /\ t = client[c].target
           /\ client[c].seen # client[c].target \/ active' = NoDeployment \/ ~exists
  <2>1. ~InsertDeployment(c)
    BY <1>4 DEF InsertDeployment, ClientAt
  <2>2. ~Listed(t)'
    BY <1>0, <1>1, <1>2, <1>4, <2>1 DEF DeleteFor, DeleteSteps, RequestFacts
  <2>3. /\ active' \in {active, NoDeployment}
        /\ exists' => exists
    BY <1>0, <1>1, <1>4 DEF RequestRows
  <2>4. client[c].seen # t /\ exists => active # t
    BY <1>0, <1>1, <1>4 DEF DeleteFor, DeleteSteps
  <2>5. t # NoDeployment
    BY <1>1, <1>2
  <2> QED BY <1>0, <1>4, <2>2, <2>3, <2>4, <2>5
<1> QED BY <1>0, <1>1, <1>3, <1>4 DEF ReleasePath

(***************************************************************************)
(* A reconcile takes up a row that nothing works on, and is beside no      *)
(* newer deployment until it is over.                                      *)
(***************************************************************************)
LEMMA ReconcileGoesOn ==
  ASSUME GroundInv, ReleaseInv, NEW c \in Clients, Request(c) \/ ClientNext(c)
  PROVE  ReconcileFor(c)'
<1>1. /\ RequestFacts(c) /\ RequestRows(c) /\ ReleasePath(c) /\ TypeOK /\ TypeOK'
      /\ ReconcileFor(c) /\ ReconcilingAlone /\ PointerSound
      /\ Up
      /\ writeFailures' = 0 => writeFailures = 0
      /\ active \in Deployments \cup {NoDeployment} /\ NoDeployment \notin Deployments
      /\ Deployments \subseteq Nat
  BY RequestsFacts, Targets DEF RequestFacts, ReleaseInv, GroundInv, IInv, ControlEffect
<1>0. SUFFICES ASSUME NEW t, t = client'[c].target, client'[c].step \in ReconcileSteps
             PROVE  /\ ~Early(t)' /\ RowExists(t)' /\ ~InFlight(t)'
                    /\ client'[c].step = "verdict" => version'[t] = 0
                    /\ writeFailures' = 0 =>
                         /\ \A e \in Deployments : Listed(e)' => e = t
                         /\ status'[t] # "cancelled"
                         /\ client'[c].step = "advance" /\ exists' => active' <= t
  BY DEF ReconcileFor
<1>2. t \in Deployments
  <2>1. \A b \in Clients : client'[b].step \in TargetSteps => client'[b].target \in Deployments
    BY <1>1 DEF TypeOK, ClientTypeOK, ClientStates
  <2> QED BY <1>0, <2>1 DEF TargetSteps
<1>3. ASSUME ~InFlight(t), ~Early(t) PROVE ~Early(t)'
  <2>1. ~ClaimBuildExecution(t)
    BY <1>3 DEF ClaimBuildExecution, Claimable, InFlight, InFlightStatuses
  <2> QED BY <1>0, <1>1, <1>2, <1>3, <2>1 DEF RequestFacts, Early
<1>4. ~InsertDeployment(c)
  <2>1. InsertDeployment(c) => client'[c].step \in {"session", "idle"}
    BY <1>0, <1>1, Insertion
  <2> QED BY <1>0, <2>1 DEF ReconcileSteps
<1>5. CASE /\ holder = NoClient /\ client'[c].step = "verdict"
           /\ status[t] = "reconciling" /\ UNCHANGED storeVars
  <2>1. status' = status /\ version' = version /\ NumberFor(t)
    BY <1>0, <1>2, <1>5 DEF storeVars, rowVars, ReleaseInv
  <2>2. ~InFlight(t) /\ RowExists(t) /\ ~Early(t) /\ version[t] = 0
    BY <1>0, <1>5, <2>1 DEF NumberFor, InFlight, RowExists, InFlightStatuses
  <2>3. ASSUME writeFailures' = 0, NEW e \in Deployments, Listed(e)' PROVE e = t
    <3>1. Listed(e)
      BY <1>0, <1>1, <1>4, <2>3 DEF RequestFacts
    <3>2. ASSUME e # t PROVE FALSE
      <4>1. PICK b \in Clients : client[b].step \in {"session", "reconciling"}
        BY <1>0, <1>1, <1>2, <1>5, <2>3, <3>1, <3>2 DEF ReconcilingAlone
      <4>2. holder = b
        BY <4>1 DEF GroundInv, IInv, LockFor, Locked, CreateSteps
      <4> QED BY <1>0, <1>5, <4>2, ClientsAssumption
    <3> QED BY <3>2
  <2>4. ~InFlight(t)' /\ RowExists(t)' /\ status'[t] # "cancelled"
    BY <1>0, <1>5, <2>1, <2>2 DEF InFlight, RowExists
  <2> QED BY <1>0, <1>3, <1>5, <2>1, <2>2, <2>3, <2>4
<1>6. CASE client[c].step \in {"verdict", "forward"} /\ t = client[c].target
  <2>1. /\ ~Early(t) /\ RowExists(t) /\ ~InFlight(t)
        /\ writeFailures = 0 =>
             (\A e \in Deployments : Listed(e) => e = t) /\ status[t] # "cancelled"
    BY <1>0, <1>1, <1>6 DEF ReconcileFor, ReconcileSteps
  <2>2. status'[t] = status[t] \/ status'[t] \in {"failed", "ready", "partial_failure"}
    <3>1. status[t] # "unborn" /\ ~ClaimBuildExecution(t)
      BY <2>1 DEF RowExists, ClaimBuildExecution, Claimable, InFlight, InFlightStatuses
    <3> QED BY <1>0, <1>1, <1>2, <1>6, <2>1, <3>1 DEF RequestRows, RequestMoves
  <2>3. /\ RowExists(t)' /\ ~InFlight(t)'
        /\ status'[t] = "cancelled" => status[t] = "cancelled"
    BY <2>1, <2>2 DEF RowExists, InFlight, InFlightStatuses
  <2>4. \A e \in Deployments : Listed(e)' => Listed(e)
    BY <1>0, <1>1, <1>4 DEF RequestFacts
  <2>5. client'[c].step # "verdict"
    <3>1. holder # NoClient
      BY <1>6, ClientsAssumption DEF GroundInv, IInv, LockFor, Locked, ReconcileSteps
    <3> QED BY <1>0, <1>1, <1>6, <3>1 DEF ReleasePath
  <2>6. client'[c].step = "advance" /\ exists' => active' <= t
    <3> SUFFICES ASSUME client'[c].step = "advance" PROVE active' <= t
      OBVIOUS
    <3>1. exists /\ ~Superseded(t) /\ active' = active
      BY <1>0, <1>1, <1>6 DEF ReleasePath, storeVars, projectVars
    <3>2. CASE active = NoDeployment
      <4>1. t \in Nat
        BY <1>1, <1>2
      <4> QED BY <3>1, <3>2, <4>1 DEF NoDeployment
    <3>3. CASE active # NoDeployment
      <4>1. ActiveRow = active
        BY <1>0, <1>1, <3>1, <3>3 DEF ActiveRow, PointerSound, PointerResolves
      <4> QED BY <1>0, <1>1, <1>2, <3>1, <3>3, <4>1 DEF Superseded
    <3> QED BY <3>2, <3>3
  <2> QED BY <1>0, <1>1, <1>3, <2>1, <2>3, <2>4, <2>5, <2>6
<1> QED BY <1>0, <1>1, <1>5, <1>6 DEF ReleasePath

(* A create that is refused leaves the rows alone. *)
LEMMA RefusedInsertion ==
  ASSUME TypeOK, NEW c \in Clients, InsertDeployment(c), client'[c].step = "idle"
  PROVE  UNCHANGED storeVars
<1>1. client[c] \in ClientRecords /\ client \in [Clients -> ClientStates]
  BY DEF TypeOK, ClientTypeOK, ClientStates
<1>2. ~ \E d \in Deployments : ClientTakes(c, [client[c] EXCEPT !.step = "session", !.target = d])
  BY <1>1 DEF ClientTakes, ClientRecords
<1> QED BY <1>2 DEF InsertDeployment

(* Births come in order, so a new row is younger than every other. *)
LEMMA RequestLists ==
  ASSUME GroundInv, ReleaseInv, NEW c \in Clients, Request(c) \/ ClientNext(c)
  PROVE  ListedLast'
<1>1. /\ RequestFacts(c) /\ TypeOK /\ BornInOrder /\ Deployments \subseteq Nat
      /\ BirthsKept \/ InsertDeployment(c)
  BY RequestsFacts, Targets DEF RequestFacts, RequestHistory, GroundInv, IInv, OutcomeInv
<1>2. CASE InsertDeployment(c) /\ client'[c].step # "idle"
  <2>1. PICK t \in Deployments :
          /\ status[t] = "unborn" /\ status' = [status EXCEPT ![t] = "queued"]
          /\ lease' = lease /\ Quiescent
    BY <1>1, <1>2, Insertion
  <2>2. \A d \in Deployments : Listed(d)' => d = t
    BY <1>1, <2>1 DEF TypeOK, StoreTypeOK, Quiescent, Listed, InFlight, LeaseHeld
  <2>3. \A e \in Deployments : Born(e)' => e = t \/ Born(e)
    BY <1>1, <2>1 DEF TypeOK, StoreTypeOK, Born
  <2>4. \A e \in Deployments : Born(e) => ~(t < e)
    BY <1>1, <2>1 DEF BornInOrder, Born
  <2> QED BY <1>1, <2>2, <2>3, <2>4 DEF ListedLast
<1>3. CASE ~(InsertDeployment(c) /\ client'[c].step # "idle")
  <2>1. \A d \in Deployments : (Listed(d)' => Listed(d)) /\ (Born(d)' => Born(d))
    <3>1. CASE InsertDeployment(c)
      <4>1. UNCHANGED storeVars
        BY <1>1, <1>3, <3>1, RefusedInsertion
      <4> QED BY <4>1 DEF storeVars, rowVars, sessionVars, Listed, InFlight, LeaseHeld, Born
    <3>2. CASE ~InsertDeployment(c)
      BY <1>1, <3>2 DEF RequestFacts, BirthsKept
    <3> QED BY <3>1, <3>2
  <2> QED BY <2>1 DEF ListedLast, ReleaseInv
<1> QED BY <1>2, <1>3

(* A request never leaves a session without its row, nor the pointer without its release. *)
LEMMA RequestPoints ==
  ASSUME GroundInv, ReleaseInv, NEW c \in Clients, Request(c) \/ ClientNext(c)
  PROVE  LeasedRows' /\ PointerSound'
<1>1. /\ RequestFacts(c) /\ RequestRows(c) /\ HistoryKept /\ TypeOK
      /\ LeasedRows /\ PointerSound /\ NoKeep
      /\ CreateFor(c) /\ DeleteFor(c) /\ ReconcileFor(c)
  BY RequestsFacts DEF RequestFacts, RequestHistory, ReleaseInv, GroundInv, IInv
<1>2. /\ active \in Deployments \cup {NoDeployment} /\ NoDeployment \notin Deployments
      /\ client[c].step = "advance" => client[c].target \in Deployments
      /\ exists' => exists
  BY <1>1, Targets DEF TargetSteps, ReconcileSteps, RequestRows
<1>3. LeasedRows'
  <2> SUFFICES ASSUME NEW d \in Deployments, lease'[d] # "none" PROVE RowExists(d)'
    BY DEF LeasedRows
  <2>1. RowExists(d)
    BY <1>1 DEF RequestRows, LeasedRows, CreateFor, CreateSteps
  <2> QED BY <1>1, <2>1, RowsGoOn
<1>4. PointerSound'
  <2>1. CASE active' = active
    <3>1. ASSUME NEW d \in Deployments, d = active PROVE Born(d)' /\ (exists' => RowExists(d)')
      <4>1. Born(d) /\ (exists => RowExists(d)) /\ d # NoDeployment
        BY <1>1, <1>2, <3>1 DEF PointerSound, PointerResolves
      <4>2. client[c].step \in {"undo", "erase"} /\ exists => d # client[c].target
        BY <1>1, <3>1 DEF CreateFor, CreateSteps, DeleteFor, DeleteSteps
      <4>3. exists' => RowExists(d)'
        BY <1>1, <1>2, <4>1, <4>2, RowsGoOn
      <4> QED BY <1>1, <4>1, <4>3 DEF HistoryKept
    <3> QED BY <1>2, <2>1, <3>1 DEF PointerSound, PointerResolves, Born, RowExists
  <2>2. CASE active' = NoDeployment
    BY <2>2 DEF PointerSound, PointerResolves
  <2>3. CASE active' = client[c].target /\ client[c].step = "advance"
    <3>1. ASSUME NEW d \in Deployments, d = client[c].target PROVE RowExists(d)'
      <4>1. RowExists(d)
        BY <1>1, <2>3, <3>1 DEF ReconcileFor, ReconcileSteps
      <4> QED BY <1>1, <2>3, <4>1, RowsGoOn
    <3> QED BY <1>2, <2>3, <3>1 DEF PointerSound, PointerResolves, Born, RowExists
  <2> QED BY <1>1, <2>1, <2>2, <2>3 DEF RequestRows, NoKeep
<1> QED BY <1>3, <1>4

(* A create settles the lost connections of older releases before it goes on. *)
LEMMA RequestSettles ==
  ASSUME GroundInv, ReleaseInv, NEW c \in Clients, Request(c) \/ ClientNext(c)
  PROVE  ReconcilingAlone'
<1>1. /\ RequestFacts(c) /\ RequestRows(c) /\ ControlEffect(c) /\ TypeOK /\ ReconcilingAlone
      /\ writeFailures' = 0 => writeFailures = 0
  BY RequestsFacts DEF RequestFacts, ReleaseInv, GroundInv, IInv
<1>2. SUFFICES ASSUME writeFailures' = 0, NEW f \in Deployments, NEW e \in Deployments,
                      Listed(e)', status'[f] = "reconciling", f # e
               PROVE  \E b \in Clients : /\ client'[b].step \in {"session", "reconciling"}
                                         /\ client'[b].target = e
  BY DEF ReconcilingAlone
<1>3. status[f] = "reconciling"
  BY <1>1, <1>2 DEF RequestRows, RequestMoves
<1>4. CASE InsertDeployment(c) /\ client'[c].step # "idle"
  <2>1. PICK t \in Deployments :
          /\ t = client'[c].target /\ client'[c].step = "session"
          /\ status' = [status EXCEPT ![t] = "queued"] /\ lease' = lease /\ Quiescent
    BY <1>1, <1>4, Insertion
  <2>2. e = t
    BY <1>1, <1>2, <2>1 DEF TypeOK, StoreTypeOK, Quiescent, Listed, InFlight, LeaseHeld
  <2> QED BY <2>1, <2>2
<1>5. CASE ~(InsertDeployment(c) /\ client'[c].step # "idle")
  <2>1. Listed(e)
    <3>1. CASE InsertDeployment(c)
      <4>1. UNCHANGED storeVars
        BY <1>1, <1>5, <3>1, RefusedInsertion
      <4> QED BY <1>2, <4>1 DEF storeVars, rowVars, sessionVars, Listed, InFlight, LeaseHeld
    <3>2. CASE ~InsertDeployment(c)
      BY <1>1, <1>2, <3>2 DEF RequestFacts
    <3> QED BY <3>1, <3>2
  <2>2. PICK b \in Clients : client[b].step \in {"session", "reconciling"} /\ client[b].target = e
    BY <1>1, <1>2, <1>3, <2>1 DEF ReconcilingAlone, ControlEffect
  <2>3. CASE b # c
    BY <1>1, <2>2, <2>3 DEF ControlEffect
  <2>4. CASE b = c
    <3>1. ~WriteFails
      BY <1>1, <1>2 DEF WriteFails
    <3>2. CASE client[c].step = "session"
      <4>1. ClientGoes(c, "reconciling")
        BY <3>1, <3>2, AtCreate DEF InsertSession
      <4>2. {"step", "target"} \subseteq DOMAIN client[c] /\ client \in [Clients -> ClientStates]
        BY <1>1 DEF TypeOK, ClientTypeOK, ClientStates, ClientRecords
      <4>3. client'[c].step = "reconciling" /\ client'[c].target = client[c].target
        BY <4>1, <4>2 DEF ClientGoes, ClientTakes
      <4> QED BY <2>2, <2>4, <4>3
    <3>3. CASE client[c].step = "reconciling"
      <4>1. SupersedeReconciling(e)
        BY <2>2, <2>4, <3>1, <3>3, AtCreate DEF RetireReconciling
      <4> QED BY <1>2, <1>3, <4>1 DEF SupersedeReconciling
    <3> QED BY <2>2, <2>4, <3>2, <3>3
  <2> QED BY <2>3, <2>4
<1> QED BY <1>4, <1>5

(* A request keeps what is said of the rows and of the pointer. *)
LEMMA RequestReleases ==
  ASSUME "keep" \notin Requests, GroundInv, ReleaseInv, NEW c \in Clients,
         Request(c) \/ ClientNext(c)
  PROVE  ListedLast' /\ LeasedRows' /\ PointerSound' /\ ReconcilingAlone' /\ Swept' /\ NoKeep'
<1>1. RequestFacts(c) /\ ControlEffect(c) /\ ReleasePath(c) /\ NoKeep
  BY RequestsFacts DEF RequestFacts, ReleaseInv
<1>2. Swept'
  BY <1>1 DEF ControlEffect, Swept, Up
<1>3. NoKeep'
  BY <1>1 DEF ReleasePath, NoKeep, ControlEffect
<1> QED BY <1>2, <1>3, RequestLists, RequestPoints, RequestSettles

(* A request ships a release only unnumbered, and numbers none. *)
LEMMA RequestNumbered ==
  ASSUME GroundInv, ReleaseInv, NEW c \in Clients, Request(c) \/ ClientNext(c)
  PROVE  ShippedVersionsDistinct' /\ \A e \in Deployments : NumberFor(e)'
<1>1. /\ RequestFacts(c) /\ RequestRows(c) /\ HistoryKept /\ TypeOK /\ NoKeep
      /\ ShippedVersionsDistinct /\ CreateFor(c) /\ ReconcileFor(c)
      /\ writeFailures' = 0 => writeFailures = 0
      /\ version' = version /\ number' = number
  BY RequestsFacts DEF RequestFacts, RequestRows, RequestHistory, ReleaseInv, GroundInv, IInv
<1>2. ASSUME NEW e \in Deployments, Shipped(e)', version'[e] # 0 PROVE Shipped(e)
  BY <1>1, <1>2
     DEF RequestRows, RequestMoves, Shipped, ShippedStatuses, NoKeep, ReconcileFor, ReconcileSteps
<1>3. \A e \in Deployments : Born(e) => commit'[e] = commit[e]
  BY <1>1 DEF HistoryKept
<1>4. \A e \in Deployments : Shipped(e) => Born(e)
  BY DEF Shipped, ShippedStatuses, Born
<1>5. ShippedVersionsDistinct'
  <2> SUFFICES ASSUME NEW e \in Deployments, NEW f \in Deployments, Shipped(e)', Shipped(f)',
                      version'[e] # 0, version'[e] = version'[f]
               PROVE  e = f \/ (commit'[e] = commit'[f] /\ commit'[e] # NoCommit)
    BY DEF ShippedVersionsDistinct, Shipped
  <2>1. Shipped(e) /\ Shipped(f)
    BY <1>2
  <2> QED BY <1>1, <1>3, <1>4, <2>1 DEF ShippedVersionsDistinct, Shipped
<1>6. ASSUME NEW e \in Deployments PROVE NumberFor(e)'
  <2>1. NumberFor(e) /\ RequestMoves(c, e)
    BY <1>1 DEF ReleaseInv, RequestRows
  <2>2. ClaimBuildExecution(e) => InFlight(e) /\ worker[e] = "off"
    BY DEF ClaimBuildExecution, Claimable, InFlight, InFlightStatuses, GroundInv, IInv,
           WorkerLeased, Working, LeaseHeld
  <2>3. /\ worker'[e] = worker[e] \/ (ClaimBuildExecution(e) /\ worker'[e] = "start")
    BY <1>1 DEF RequestFacts
  <2>4. status'[e] = "reconciling" => status[e] = "reconciling"
    BY <2>1 DEF RequestMoves
  <2>5. (version[e] # 0 => status[e] \notin InFlightStatuses \cup {"unborn", "reconciling"})'
    BY <1>1, <2>1, <2>2 DEF RequestMoves, NumberFor, InFlight, InFlightStatuses, RowExists
  <2>6. (Early(e) => version[e] = 0 /\ status[e] # "reconciling")'
    <3>1. CASE worker'[e] = worker[e]
      BY <1>1, <2>1, <2>4, <3>1 DEF NumberFor, Early
    <3>2. CASE ClaimBuildExecution(e)
      BY <1>1, <2>1, <2>2, <2>4, <3>2 DEF NumberFor, InFlight, InFlightStatuses
    <3> QED BY <2>3, <3>1, <3>2
  <2>7. (worker[e] \in (EarlySteps \ {"outcome"}) \cup {"off"} => number[e] = 0)'
    BY <1>1, <2>1, <2>2, <2>3 DEF NumberFor
  <2>8. (worker[e] = "outcome" /\ number[e] # 0 => Fits(e, number[e]))'
    <3> SUFFICES ASSUME worker'[e] = "outcome", number'[e] # 0 PROVE Fits(e, number[e])'
      OBVIOUS
    <3>1. worker[e] = "outcome" /\ Fits(e, number[e])
      BY <1>1, <2>1, <2>3 DEF NumberFor
    <3>2. Born(e)
      BY <3>1, WorkerAlone DEF Working, GroundInv, ReleaseInv
    <3>3. \A f \in Deployments \ {e} :
            Shipped(f)' /\ version'[f] = number[e] => commit'[f] = commit'[e] /\ commit'[e] # NoCommit
      BY <1>1, <1>2, <1>3, <1>4, <3>1, <3>2 DEF Fits
    <3> QED BY <1>1, <3>3 DEF Fits
  <2>9. (worker[e] = "point" /\ writeFailures = 0
           => status[e] \notin InFlightStatuses \cup {"cancelled"})'
    <3> SUFFICES ASSUME worker'[e] = "point", writeFailures' = 0
                 PROVE  status'[e] \notin InFlightStatuses \cup {"cancelled"}
      OBVIOUS
    <3>1. worker[e] = "point" /\ status[e] \notin InFlightStatuses \cup {"cancelled"}
      BY <1>1, <2>1, <2>3 DEF NumberFor
    <3>2. Listed(e) /\ Born(e)
      BY <3>1, WorkerAlone DEF Working, GroundInv, ReleaseInv
    <3>3. client[c].step = "decisions" => e = client[c].target
      BY <1>1, <3>2 DEF CreateFor, CreateSteps
    <3> QED
      BY <2>1, <2>2, <3>1, <3>2, <3>3 DEF RequestMoves, InFlight, InFlightStatuses, Born
  <2> QED BY <2>5, <2>6, <2>7, <2>8, <2>9 DEF NumberFor
<1> QED BY <1>5, <1>6

(* The boot sweep and a crash find or leave nothing at work. *)
LEMMA HostReleases ==
  ASSUME GroundInv, ReleaseInv, BootNext \/ Crash
  PROVE  ReleaseInv'
<1>1. /\ \A d \in Deployments : worker'[d] = "off" /\ number'[d] = 0
      /\ \A c \in Clients : client'[c] = IdleClient
  <2>1. CASE Crash
    BY <2>1 DEF Crash
  <2>2. CASE BootNext
    <3>1. ~Up /\ UNCHANGED <<workerVars, clientVars>>
      BY <2>2 DEF BootNext, BootDeployments, BootSessions, BootLeases, Up
    <3> QED
      BY <3>1 DEF workerVars, clientVars, GroundInv, IInv, AllStopped, Working, ReleaseInv, NumberFor
  <2> QED BY <2>1, <2>2
<1>2. /\ UNCHANGED <<version, commit, active, exists>>
      /\ \A d \in Deployments : \/ status'[d] = status[d]
                                \/ InFlight(d) /\ status'[d] = "cancelled"
      /\ \A d \in Deployments : lease'[d] = lease[d] \/ (lease[d] # "none" /\ ~LeaseHeld(d)')
  <2>1. CASE Crash
    BY <2>1 DEF Crash, storeVars, rowVars, sessionVars, projectVars
  <2>2. CASE BootDeployments
    BY <2>2 DEF BootDeployments, SweepDeployments, sessionVars, projectVars
  <2>3. CASE BootSessions
    BY <2>3 DEF BootSessions, SweepSessions, rowVars, projectVars, LeaseHeld
  <2>4. CASE BootLeases
    BY <2>4 DEF BootLeases, SweepLeases, rowVars, projectVars, LeaseHeld
  <2> QED BY <2>1, <2>2, <2>3, <2>4 DEF BootNext
<1>3. \A d \in Deployments :
        /\ Listed(d)' => Listed(d)
        /\ Born(d)' <=> Born(d)
        /\ RowExists(d)' <=> RowExists(d)
        /\ Shipped(d)' <=> Shipped(d)
  BY <1>2 DEF Listed, InFlight, InFlightStatuses, LeaseHeld, Born, RowExists, Shipped, ShippedStatuses
<1>4. ListedLast' /\ LeasedRows'
  BY <1>2, <1>3 DEF ReleaseInv, ListedLast, LeasedRows
<1>5. PointerSound'
  <2>1. active \in Deployments \cup {NoDeployment}
    BY Targets DEF GroundInv, IInv
  <2> QED BY <1>2, <1>3, <2>1 DEF ReleaseInv, PointerSound, PointerResolves, Born, RowExists
<1>6. Swept'
  <2>1. CASE BootDeployments
    BY <2>1 DEF BootDeployments, SweepDeployments, Swept, InFlight, InFlightStatuses
  <2>2. CASE BootSessions
    BY <2>2 DEF BootSessions, SweepSessions, ReleaseInv, Swept, InFlight, rowVars
  <2>3. CASE BootLeases \/ Crash
    BY <2>3 DEF BootLeases, Crash, Swept
  <2> QED BY <2>1, <2>2, <2>3 DEF BootNext
<1>7. ReconcilingAlone'
  <2>1. Up' => BootLeases
    BY DEF BootNext, BootDeployments, BootSessions, Crash, Up
  <2>2. BootLeases => \A d \in Deployments : ~Listed(d)'
    BY DEF BootLeases, SweepLeases, ReleaseInv, Swept, Listed, InFlight, LeaseHeld, rowVars
  <2> QED BY <2>1, <2>2 DEF ReconcilingAlone
<1>8. NoKeep' /\ \A c \in Clients : CreateFor(c)' /\ DeleteFor(c)' /\ ReconcileFor(c)'
  BY <1>1 DEF NoKeep, CreateFor, DeleteFor, ReconcileFor, IdleClient, CreateSteps, DeleteSteps,
              ReconcileSteps
<1>9. ShippedVersionsDistinct'
  <2> SUFFICES ASSUME NEW e \in Deployments, NEW f \in Deployments, Shipped(e)', Shipped(f)',
                      version'[e] # 0, version'[e] = version'[f]
               PROVE  e = f \/ (commit'[e] = commit'[f] /\ commit'[e] # NoCommit)
    BY DEF ShippedVersionsDistinct, Shipped
  <2> QED BY <1>2, <1>3 DEF ReleaseInv, ShippedVersionsDistinct, Shipped
<1>10. \A d \in Deployments : NumberFor(d)'
  BY <1>1, <1>2 DEF ReleaseInv, NumberFor, Early, EarlySteps, InFlight, InFlightStatuses
<1> QED BY <1>4, <1>5, <1>6, <1>7, <1>8, <1>9, <1>10 DEF ReleaseInv

(* Every step keeps the invariant of releases. *)
LEMMA ReleaseStep ==
  ASSUME "keep" \notin Requests, GroundInv, ReleaseInv, [Next]_vars
  PROVE  ReleaseInv'
<1>1. ASSUME NEW d \in Deployments, WorkerNext(d) PROVE ReleaseInv'
  BY <1>1, WorkerReleases, WorkerNumbered, WorkerBystands DEF ReleaseInv
<1>2. ASSUME NEW c \in Clients, Request(c) \/ ClientNext(c) PROVE ReleaseInv'
  <2>1. \A b \in Clients : CreateFor(b)' /\ DeleteFor(b)' /\ ReconcileFor(b)'
    BY <1>2, RequestBystands, CreateGoesOn, DeleteGoesOn, ReconcileGoesOn
  <2> QED BY <1>2, <2>1, RequestReleases, RequestNumbered DEF ReleaseInv
<1>3. CASE BootNext \/ Crash
  BY <1>3, HostReleases
<1>4. CASE UNCHANGED vars
  <2>1. /\ UNCHANGED <<status, commit, version, lease, exists, active, worker, number, client,
                       api, writeFailures>>
    BY <1>4 DEF vars, storeVars, rowVars, sessionVars, projectVars, workerVars, clientVars, hostVars
  <2>2. ListedLast' /\ LeasedRows' /\ PointerSound' /\ ReconcilingAlone' /\ Swept' /\ NoKeep'
    BY <2>1
       DEF ReleaseInv, ListedLast, LeasedRows, PointerSound, PointerResolves, ReconcilingAlone,
           Swept, NoKeep, Listed, InFlight, LeaseHeld, Born, RowExists, Up
  <2>3. ShippedVersionsDistinct' /\ \A d \in Deployments : NumberFor(d)'
    BY <2>1 DEF ReleaseInv, ShippedVersionsDistinct, NumberFor, Early, Fits, Shipped
  <2>4. \A c \in Clients : CreateFor(c)' /\ DeleteFor(c)' /\ ReconcileFor(c)'
    BY <2>1
       DEF ReleaseInv, CreateFor, DeleteFor, ReconcileFor, Listed, InFlight, LeaseHeld, RowExists,
           Early
  <2> QED BY <2>2, <2>3, <2>4 DEF ReleaseInv
<1> QED BY <1>1, <1>2, <1>3, <1>4 DEF Next

(* Before the first deployment there is nothing to hold. *)
LEMMA ReleasesStart == Init => ReleaseInv
<1> SUFFICES ASSUME Init PROVE ReleaseInv
  OBVIOUS
<1>1. /\ \A d \in Deployments : /\ status[d] = "unborn" /\ lease[d] = "none" /\ version[d] = 0
                                /\ worker[d] = "off" /\ number[d] = 0
      /\ \A c \in Clients : client[c] = IdleClient
      /\ api = "up" /\ active = NoDeployment
  BY DEF Init, StoreInit
<1>2. ListedLast /\ LeasedRows /\ PointerSound /\ ReconcilingAlone /\ Swept /\ NoKeep
  BY <1>1
     DEF ListedLast, LeasedRows, PointerSound, PointerResolves, ReconcilingAlone, Swept, NoKeep,
         Listed, InFlight, InFlightStatuses, LeaseHeld, IdleClient
<1>3. ShippedVersionsDistinct /\ \A d \in Deployments : NumberFor(d)
  BY <1>1 DEF ShippedVersionsDistinct, NumberFor, Early, EarlySteps
<1>4. \A c \in Clients : CreateFor(c) /\ DeleteFor(c) /\ ReconcileFor(c)
  BY <1>1
     DEF CreateFor, DeleteFor, ReconcileFor, IdleClient, CreateSteps, DeleteSteps, ReconcileSteps
<1> QED BY <1>2, <1>3, <1>4 DEF ReleaseInv

(* The invariant of releases, for projects that never keep a partial one. *)
LEMMA ReleasesHold ==
  ASSUME "keep" \notin Requests
  PROVE  Spec => [](GroundInv /\ ReleaseInv)
<1>1. Init => ReleaseInv
  BY ReleasesStart
<1>2. GroundInv /\ ReleaseInv /\ [Next]_vars => ReleaseInv'
  BY ReleaseStep
<1>3. Spec => []GroundInv
  BY OutcomesHold, PTL DEF GroundInv
<1> QED BY <1>1, <1>2, <1>3, PTL DEF Spec

(***************************************************************************)
(* Without keep, the live pointer always names a row that exists: every    *)
(* path that deletes a row has detached it first or never made it live.    *)
(***************************************************************************)
THEOREM PointerAlwaysResolves ==
  ASSUME "keep" \notin Requests
  PROVE  Spec => []PointerResolves
<1>1. ReleaseInv => PointerResolves
  BY DEF ReleaseInv, PointerSound
<1> QED BY <1>1, ReleasesHold, PTL

(***************************************************************************)
(* Without keep, two shipped releases carry one number only when they ship *)
(* the same commit, although the worker reads the number in one step and   *)
(* writes it in another: nothing else is shipped with a number between.    *)
(***************************************************************************)
THEOREM ShippedVersionsAreDistinct ==
  ASSUME "keep" \notin Requests
  PROVE  Spec => []ShippedVersionsDistinct
<1>1. ReleaseInv => ShippedVersionsDistinct
  BY DEF ReleaseInv
<1> QED BY <1>1, ReleasesHold, PTL

(* What moves the live pointer, and where to. *)
LEMMA PointerMoves ==
  ASSUME GroundInv, ReleaseInv, [Next]_vars, active' # active, active' # NoDeployment
  PROVE  \/ \E d \in Deployments : worker[d] = "point" /\ WorkerFacts(d) /\ active' = d
         \/ \E c \in Clients : /\ client[c].step = "advance" /\ exists /\ ReconcileFor(c)
                               /\ RequestFacts(c) /\ active' = client[c].target
<1>1. ASSUME NEW d \in Deployments, WorkerNext(d)
      PROVE  worker[d] = "point" /\ WorkerFacts(d) /\ active' = d
  BY <1>1, WorkersFacts DEF GroundInv, ReleaseInv, WorkerFacts, WorkerNumbers
<1>2. ASSUME NEW c \in Clients, Request(c) \/ ClientNext(c)
      PROVE  /\ client[c].step = "advance" /\ exists /\ ReconcileFor(c)
             /\ RequestFacts(c) /\ active' = client[c].target
  BY <1>2, RequestsFacts DEF RequestFacts, RequestRows, ReleaseInv, NoKeep
<1>3. ~(BootNext \/ Crash \/ UNCHANGED vars)
  BY DEF BootNext, BootDeployments, BootSessions, BootLeases, Crash, SweepDeployments,
         SweepSessions, SweepLeases, vars, storeVars, projectVars
<1> QED BY <1>1, <1>2, <1>3 DEF Next

(***************************************************************************)
(* Without keep, and with no write lost, a release that was cancelled is   *)
(* never made the live one, by a worker or by a reconcile.                 *)
(***************************************************************************)
THEOREM CancelledNeverPublished ==
  ASSUME "keep" \notin Requests
  PROVE  Spec => NeverPublishesCancelled
<1>1. ASSUME GroundInv, ReleaseInv, [Next]_vars, writeFailures' = 0, active' # active,
             active' # NoDeployment
      PROVE  status[active'] # "cancelled"
  <2>1. CASE \E d \in Deployments : worker[d] = "point" /\ WorkerFacts(d) /\ active' = d
    BY <1>1, <2>1 DEF ReleaseInv, NumberFor, WorkerFacts, WorkerHistory
  <2>2. CASE \E c \in Clients : /\ client[c].step = "advance" /\ exists /\ ReconcileFor(c)
                                /\ RequestFacts(c) /\ active' = client[c].target
    BY <1>1, <2>2 DEF ReconcileFor, ReconcileSteps, RequestFacts
  <2> QED BY <1>1, <2>1, <2>2, PointerMoves
<1>2. GroundInv /\ ReleaseInv /\ [Next]_vars
        => [writeFailures' = 0 /\ active' # active /\ active' # NoDeployment
              => status[active'] # "cancelled"]_vars
  BY <1>1
<1> QED BY <1>2, ReleasesHold, PTL DEF Spec, NeverPublishesCancelled

(***************************************************************************)
(* Without keep, and with no write lost, the live pointer never goes back  *)
(* to an older release: a worker that publishes owns the newest row, and a *)
(* reconcile is compared with a pointer that its lock keeps in place.      *)
(***************************************************************************)
THEOREM PointerMovesForward ==
  ASSUME "keep" \notin Requests
  PROVE  Spec => ForwardOnly
<1>1. ASSUME GroundInv, ReleaseInv, [Next]_vars, writeFailures' = 0, active' # NoDeployment
      PROVE  active' >= active
  <2>1. /\ active \in Deployments \cup {NoDeployment} /\ Deployments \subseteq Nat
    BY <1>1, Targets DEF GroundInv, IInv
  <2>2. active \in Nat
    BY <2>1 DEF NoDeployment
  <2>3. CASE active' = active
    BY <2>2, <2>3
  <2>4. CASE \E d \in Deployments : worker[d] = "point" /\ WorkerFacts(d) /\ active' = d
    <3>1. PICK d \in Deployments : Listed(d) /\ active' = d
      BY <2>4 DEF WorkerFacts
    <3>2. active # NoDeployment => active <= d
      BY <1>1, <2>1, <3>1 DEF ReleaseInv, PointerSound, ListedLast
    <3> QED BY <2>1, <2>2, <3>1, <3>2 DEF NoDeployment
  <2>5. CASE \E c \in Clients : /\ client[c].step = "advance" /\ exists /\ ReconcileFor(c)
                                /\ RequestFacts(c) /\ active' = client[c].target
    <3>1. PICK c \in Clients : /\ client[c].step = "advance" /\ exists /\ ReconcileFor(c)
                               /\ RequestFacts(c) /\ active' = client[c].target
      BY <2>5
    <3>2. writeFailures = 0
      BY <1>1, <3>1 DEF RequestFacts
    <3>3. active <= client[c].target
      BY <3>1, <3>2 DEF ReconcileFor, ReconcileSteps
    <3>4. client[c].target \in Deployments
      BY <1>1, <3>1, Targets DEF GroundInv, IInv, ReconcileSteps, TargetSteps
    <3> QED BY <2>1, <2>2, <3>1, <3>3, <3>4
  <2> QED BY <1>1, <2>3, <2>4, <2>5, PointerMoves
<1>2. GroundInv /\ ReleaseInv /\ [Next]_vars
        => [writeFailures' = 0 /\ active' # NoDeployment => active' >= active]_vars
  BY <1>1
<1> QED BY <1>2, ReleasesHold, PTL DEF Spec, ForwardOnly

-----------------------------------------------------------------------------
(* Decisions that are open. *)

OpenAlone ==
  writeFailures = 0 => \A d, e \in Deployments : AwaitsChoice(d) /\ AwaitsChoice(e) => d = e

(***************************************************************************)
(* A worker that is about to hold its release for keep or reject has       *)
(* resolved every other one.                                               *)
(***************************************************************************)
ResolvedFor(d) ==
  writeFailures = 0 /\ worker[d] \in {"finish", "rollup"} /\ result[d] \in {"ready", "partial"} =>
    \A e \in Deployments \ {d} : ~AwaitsChoice(e)

NoReconcile == \A c \in Clients : client[c].step \notin ReconcileSteps

DecisionInv == OpenAlone /\ NoReconcile /\ \A d \in Deployments : ResolvedFor(d)

(* Which decisions a worker opens, and when it has resolved the others. *)
WorkerDecisions(d) ==
  /\ \A e \in Deployments :
       AwaitsChoice(e)' =>
         AwaitsChoice(e) \/ (e = d /\ worker[d] = "rollup" /\ result[d] = "partial")
  /\ \A e \in Deployments \ {d} : worker'[e] = worker[e] /\ result'[e] = result[e]
  /\ /\ writeFailures' = 0
     /\ worker'[d] \in {"finish", "rollup"} /\ result'[d] \in {"ready", "partial"}
     => \/ \A e \in Deployments \ {d} : ~AwaitsChoice(e)'
        \/ worker[d] \in {"finish", "rollup"} /\ result[d] = result'[d]
  /\ writeFailures' = 0 => writeFailures = 0
  /\ Working(d) /\ client' = client

(* Only the roll-up opens one, and the supersession before it has resolved the rest. *)
LEMMA WorkersDecide ==
  ASSUME TypeOK, NEW d \in Deployments, WorkerNext(d)
  PROVE  WorkerDecisions(d)
<1>1. /\ writeFailures \in Nat /\ status \in [Deployments -> Statuses]
      /\ decision \in [Deployments -> Decisions]
      /\ worker \in [Deployments -> WorkerSteps] /\ result \in [Deployments -> Results]
  BY DEF TypeOK, HostTypeOK, WorkerTypeOK, StoreTypeOK
<1> USE <1>1 DEF WorkerDecisions, AwaitsChoice, Working, WorkerAt, WorkerGoes, WorkerDecides, Writable,
        hostVars, WriteFails, storeVars, rowVars, clientVars
<1>2. CASE StartWork(d)
  BY <1>2 DEF StartWork
<1>3. CASE MarkSessionBuilding(d)
  BY <1>3 DEF MarkSessionBuilding, UpdateBuildSession
<1>4. CASE MarkRowBuilding(d)
  BY <1>4 DEF MarkRowBuilding, UpdateStatus, SetStatus
<1>5. CASE Build(d)
  BY <1>5 DEF Build
<1>6. CASE Promote(d)
  BY <1>6 DEF Promote, UpdateStatus, SetStatus
<1>7. CASE Deploy(d)
  BY <1>7 DEF Deploy
<1>8. CASE StopWork(d)
  BY <1>8 DEF StopWork
<1>9. CASE ReadVersion(d)
  BY <1>9 DEF ReadVersion
<1>10. CASE RecordSuccess(d)
  BY <1>10 DEF RecordSuccess, RecordReady, SetStatus
<1>11. CASE RecordOther(d)
  BY <1>11 DEF RecordOther, UpdateStatus, SetStatus
<1>12. CASE RecordCancelled(d)
  BY <1>12 DEF RecordCancelled, RecordCancellation
<1>13. CASE PublishRelease(d)
  BY <1>13 DEF PublishRelease, SetActiveDeployment
<1>14. CASE SupersedeDecisions(d)
  BY <1>14 DEF SupersedeDecisions, SupersedePendingDecisions, AwaitingDecision, RowExists
<1>15. CASE FinishSession(d)
  BY <1>15 DEF FinishSession, FinishBuildSession
<1>16. CASE RollUp(d)
  BY <1>16 DEF RollUp, UpdateStatusAndDecision, SetStatus
<1>17. CASE ArchivePrevious(d)
  BY <1>17 DEF ArchivePrevious
<1>18. CASE FallBack(d)
  BY <1>18 DEF FallBack
<1>19. CASE FallBackRow(d)
  BY <1>19 DEF FallBackRow, UpdateStatus, SetStatus
<1>20. CASE FallBackSession(d)
  BY <1>20 DEF FallBackSession, UpdateBuildSession
<1>21. CASE CompleteExecution(d)
  BY <1>21 DEF CompleteExecution, AcknowledgeBuildExecutionFinished
<1>22. CASE PollCancellation(d)
  BY <1>22 DEF PollCancellation
<1> QED
  BY <1>2, <1>3, <1>4, <1>5, <1>6, <1>7, <1>8, <1>9, <1>10, <1>11, <1>12, <1>13, <1>14,
     <1>15, <1>16, <1>17, <1>18, <1>19, <1>20, <1>21, <1>22
     DEF WorkerNext

(* No decision is opened. *)
NothingOpened == \A e \in Deployments : AwaitsChoice(e)' => AwaitsChoice(e)

(* Of the transactions of requests only the verdict of a reconcile opens one. *)
LEMMA TransactionsOpenNothing ==
  ASSUME StoreTypeOK
  PROVE  /\ UNCHANGED storeVars => NothingOpened
         /\ UNCHANGED rowVars => NothingOpened
         /\ \A d \in Deployments :
              /\ \A k, was, held : CreateDeployment(d, k, was, held) => NothingOpened
              /\ \/ ClaimBuildExecution(d) \/ CancelUnclaimedBuild(d) \/ RecordCancellation(d)
                 \/ SupersedePendingDecisions(d) \/ SupersedeReconciling(d) \/ DeleteDeployment(d)
                 => NothingOpened
         /\ \A d : /\ UpdateStatusAndDecision(d, "partial_failure", "kept") => NothingOpened
                   /\ UpdateStatusAndDecision(d, "rejected", "rejected") => NothingOpened
         /\ DeleteHard => NothingOpened
<1> USE DEF StoreTypeOK, NothingOpened, AwaitsChoice
<1>1. UNCHANGED storeVars \/ UNCHANGED rowVars => NothingOpened
  BY DEF storeVars, rowVars
<1>2. ASSUME NEW d \in Deployments, NEW k, NEW was, NEW held, CreateDeployment(d, k, was, held)
      PROVE  NothingOpened
  BY <1>2 DEF CreateDeployment, NextRow
<1>3. ASSUME NEW d \in Deployments, ClaimBuildExecution(d) \/ CancelUnclaimedBuild(d)
                                    \/ RecordCancellation(d)
      PROVE  NothingOpened
  BY <1>3 DEF ClaimBuildExecution, Claimable, CancelUnclaimedBuild, RecordCancellation
<1>4. ASSUME NEW d \in Deployments, SupersedePendingDecisions(d) \/ SupersedeReconciling(d)
                                    \/ DeleteDeployment(d)
      PROVE  NothingOpened
  BY <1>4 DEF SupersedePendingDecisions, SupersedeReconciling, DeleteDeployment
<1>5. ASSUME NEW d, \/ UpdateStatusAndDecision(d, "partial_failure", "kept")
                    \/ UpdateStatusAndDecision(d, "rejected", "rejected")
      PROVE  NothingOpened
  BY <1>5 DEF UpdateStatusAndDecision, SetStatus
<1>6. DeleteHard => NothingOpened
  BY DEF DeleteHard
<1> HIDE DEF NothingOpened
<1> QED BY <1>1, <1>2, <1>3, <1>4, <1>5, <1>6

(* A request that does not reconcile opens none. *)
LEMMA RequestsOpenNothing ==
  ASSUME TypeOK, NEW c \in Clients, client[c].step \notin ReconcileSteps,
         Request(c) \/ ClientNext(c)
  PROVE  NothingOpened /\ result' = result
<1>1. /\ StoreTypeOK
      /\ client[c].step \in TargetSteps => client[c].target \in Deployments
  BY DEF TypeOK, ClientTypeOK, ClientStates
<1> USE <1>1, TransactionsOpenNothing
    DEF ClientAt, WriteFails, workerVars, TargetSteps, CreateSteps, DeleteSteps, CancelSteps
<1>2. CASE RequestDeploy(c) \/ RequestRollback(c) \/ StartBuild(c) \/ RequestKeep(c)
           \/ RequestReject(c) \/ RequestDelete(c) \/ RequestReconcile(c)
  BY <1>2 DEF RequestDeploy, RequestRollback, StartBuild, RequestKeep, RequestReject,
              RequestDelete, RequestReconcile
<1>3. CASE RequestCancel(c)
  BY <1>3 DEF RequestCancel, WinCancellation
<1>4. CASE RequestTeardown(c)
  BY <1>4 DEF RequestTeardown, ClaimTeardown, ClaimDeletion
<1>5. CASE InsertDeployment(c)
  BY <1>5 DEF InsertDeployment
<1>6. CASE InsertSession(c)
  BY <1>6 DEF InsertSession, CreateBuildSession
<1>7. CASE UndoInsert(c)
  BY <1>7 DEF UndoInsert
<1>8. CASE RetireReconciling(c)
  BY <1>8 DEF RetireReconciling
<1>9. CASE RetireDecisions(c)
  BY <1>9 DEF RetireDecisions
<1>10. CASE Kickoff(c)
  BY <1>10 DEF Kickoff
<1>11. CASE DropUnclaimed(c)
  BY <1>11 DEF DropUnclaimed
<1>12. CASE SignalWorker(c) \/ AwaitQuiescence(c)
  BY <1>12 DEF SignalWorker, AwaitQuiescence
<1>13. CASE SettleSession(c)
  BY <1>13 DEF SettleSession, AcknowledgeUnstartedBuildSession
<1>14. CASE KeepRelease(c)
  BY <1>14 DEF KeepRelease
<1>15. CASE KeepPointer(c) \/ RejectDetach(c) \/ Detach(c)
  BY <1>15 DEF KeepPointer, RejectDetach, Detach, SetActiveDeployment
<1>16. CASE RejectMark(c)
  BY <1>16 DEF RejectMark
<1>17. CASE Erase(c)
  BY <1>17 DEF Erase
<1>18. ~ReconcileNext(c)
  BY DEF ReconcileNext, Verdict, Forward, Advance, ReconcileSteps
<1>19. CASE RefuseTeardown(c) \/ Gate(c) \/ Poll(c) \/ Destroy(c)
  BY <1>19 DEF RefuseTeardown, Gate, Poll, Destroy
<1>20. CASE Drain(c)
  BY <1>20 DEF Drain, WinCancellation
<1>21. CASE BeginCleanup(c)
  BY <1>21 DEF BeginCleanup, BeginDeletionCleanup
<1>22. CASE DropProject(c)
  BY <1>22 DEF DropProject
<1>23. CASE ReleaseFence(c) \/ RetainFence(c)
  BY <1>23 DEF ReleaseFence, RetainFence, MarkDeletionFailed, ClearDeletionInProgress
<1> QED
  BY <1>2, <1>3, <1>4, <1>5, <1>6, <1>7, <1>8, <1>9, <1>10, <1>11, <1>12, <1>13, <1>14,
     <1>15, <1>16, <1>17, <1>18, <1>19, <1>20, <1>21, <1>22, <1>23
     DEF Request, ClientNext, CreateNext, CancelNext, DecideNext, DeleteNext, TeardownNext

(* Every step leaves at most one open. *)
LEMMA DecisionStep ==
  ASSUME "reconcile" \notin Requests, GroundInv, DecisionInv, [Next]_vars
  PROVE  DecisionInv'
<1>1. ASSUME NEW d \in Deployments, WorkerNext(d) PROVE DecisionInv'
  <2>1. WorkerDecisions(d) /\ ResolvedFor(d) /\ OpenAlone /\ NoReconcile
    BY <1>1, WorkersDecide DEF GroundInv, IInv, DecisionInv
  <2>2. \A e \in Deployments \ {d} : worker'[e] = "off"
    BY <2>1 DEF WorkerDecisions, GroundInv, IInv, WorkerLeased, OneListed, Listed, Working
  <2>3. OpenAlone'
    BY <2>1 DEF WorkerDecisions, OpenAlone, ResolvedFor
  <2>4. ResolvedFor(d)'
    BY <2>1 DEF WorkerDecisions, ResolvedFor
  <2>5. \A e \in Deployments \ {d} : ResolvedFor(e)'
    BY <2>2 DEF ResolvedFor
  <2>6. NoReconcile'
    BY <2>1 DEF WorkerDecisions, NoReconcile
  <2> QED BY <2>3, <2>4, <2>5, <2>6 DEF DecisionInv
<1>2. ASSUME NEW c \in Clients, Request(c) \/ ClientNext(c) PROVE DecisionInv'
  <2>1. /\ RequestFacts(c) /\ ControlEffect(c) /\ ReleasePath(c)
        /\ NoReconcile /\ OpenAlone /\ \A d \in Deployments : ResolvedFor(d)
    BY <1>2, RequestsFacts DEF RequestFacts, DecisionInv
  <2>2. NothingOpened /\ result' = result
    BY <1>2, <2>1, RequestsOpenNothing DEF NoReconcile, GroundInv, IInv
  <2>3. OpenAlone'
    BY <2>1, <2>2 DEF OpenAlone, NothingOpened, RequestFacts
  <2>4. \A d \in Deployments : ResolvedFor(d)'
    BY <2>1, <2>2 DEF ResolvedFor, NothingOpened, RequestFacts
  <2>5. NoReconcile'
    BY <2>1 DEF NoReconcile, ReleasePath, ControlEffect, ReconcileSteps
  <2> QED BY <2>3, <2>4, <2>5 DEF DecisionInv
<1>3. CASE BootNext \/ Crash
  <2>1. /\ \A d \in Deployments : worker'[d] = "off"
        /\ \A c \in Clients : client'[c] = IdleClient
        /\ writeFailures' = writeFailures
    BY <1>3
       DEF BootNext, BootDeployments, BootSessions, BootLeases, Crash, workerVars, clientVars,
           GroundInv, IInv, AllStopped, Working, Up
  <2>2. NothingOpened
    BY <1>3
       DEF BootNext, BootDeployments, BootSessions, BootLeases, Crash, SweepDeployments,
           SweepSessions, SweepLeases, storeVars, rowVars, NothingOpened, AwaitsChoice
  <2>3. OpenAlone'
    BY <2>1, <2>2 DEF DecisionInv, OpenAlone, NothingOpened
  <2>4. NoReconcile' /\ \A d \in Deployments : ResolvedFor(d)'
    BY <2>1 DEF NoReconcile, ResolvedFor, IdleClient, ReconcileSteps
  <2> QED BY <2>3, <2>4 DEF DecisionInv
<1>4. CASE UNCHANGED vars
  BY <1>4
     DEF DecisionInv, OpenAlone, NoReconcile, ResolvedFor, AwaitsChoice, vars, storeVars, rowVars,
         workerVars, clientVars, hostVars
<1> QED BY <1>1, <1>2, <1>3, <1>4 DEF Next

(***************************************************************************)
(* Without reconcile, and with no write lost, at most one release waits    *)
(* for keep or reject: a worker resolves the older ones before it holds    *)
(* its own. (With reconcile, a restart can leave two lost connections      *)
(* behind, each of which may then turn out a partial failure.)             *)
(***************************************************************************)
THEOREM OneDecisionIsOpen ==
  ASSUME "reconcile" \notin Requests
  PROVE  Spec => []OneOpenDecision
<1>1. Init => DecisionInv
  BY DEF Init, StoreInit, DecisionInv, OpenAlone, NoReconcile, ResolvedFor, AwaitsChoice,
         IdleClient, ReconcileSteps
<1>2. GroundInv /\ DecisionInv /\ [Next]_vars => DecisionInv'
  BY DecisionStep
<1>3. Spec => []GroundInv
  BY OutcomesHold, PTL DEF GroundInv
<1>4. DecisionInv => OneOpenDecision
  BY DEF DecisionInv, OpenAlone, OneOpenDecision
<1> QED BY <1>1, <1>2, <1>3, <1>4, PTL DEF Spec

=============================================================================
