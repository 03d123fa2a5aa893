-------------------------- MODULE DeploymentProofs --------------------------
(***************************************************************************)
(* Why the project runtime lock, the execution lease and the deletion     *)
(* fence exclude each other: the types of DeploymentLifecycle, an          *)
(* inductive invariant, and the safety properties that follow from it,    *)
(* proved for every value of the constants.                                *)
(***************************************************************************)
EXTENDS DeploymentProperties, FiniteSetTheorems, FunctionTheorems, WellFoundedInduction, TLAPS

(***************************************************************************)
(* Types. The proof goes by layers, as the code does: the store's          *)
(* transactions, the moves handlers are built from, then one step at a    *)
(* time of workers, requests, boot and crash.                             *)
(***************************************************************************)

(***************************************************************************)
(* Every deployment id is a legal value of a reference to a deployment,    *)
(* and so is the null reference.                                           *)
(***************************************************************************)
LEMMA DeploymentIds ==
  Deployments \subseteq DeploymentOrNone /\ NoDeployment \in DeploymentOrNone
BY DeploymentsAssumption DEF Deployments, DeploymentOrNone, NoDeployment

(***************************************************************************)
(* Every transaction of the store keeps the columns in their domains,      *)
(* given arguments in theirs; WHERE clauses that match no row leave the    *)
(* tables as they are.                                                     *)
(***************************************************************************)
LEMMA TransactionTypes ==
  ASSUME StoreTypeOK
  PROVE  /\ UNCHANGED storeVars => StoreTypeOK'
         /\ \A d : \A k \in Revisions, was \in DeploymentOrNone, held \in Decisions :
              CreateDeployment(d, k, was, held) => StoreTypeOK'
         /\ \A d :
              \/ CreateBuildSession(d) \/ ClaimBuildExecution(d) \/ CancelUnclaimedBuild(d)
              \/ RecordCancellation(d) \/ SupersedePendingDecisions(d)
              \/ SupersedeReconciling(d) \/ AcknowledgeBuildExecutionFinished(d)
              \/ AcknowledgeUnstartedBuildSession(d) \/ DeleteDeployment(d)
              => StoreTypeOK'
         /\ \A d : \A s \in Statuses : UpdateStatus(d, s) => StoreTypeOK'
         /\ \A d : \A s \in Statuses, choice \in Decisions :
              UpdateStatusAndDecision(d, s, choice) => StoreTypeOK'
         /\ \A d : \A n \in Nat, choice \in Decisions :
              RecordReady(d, n, choice) => StoreTypeOK'
         /\ \A d : \A s \in Sessions :
              UpdateBuildSession(d, s) \/ FinishBuildSession(d, s) => StoreTypeOK'
         /\ SweepDeployments \/ (\E S : SweepSessions(S)) \/ SweepLeases => StoreTypeOK'
         /\ \A d \in DeploymentOrNone : SetActiveDeployment(d) => StoreTypeOK'
         /\ ClaimDeletion \/ ClearDeletionInProgress \/ BeginDeletionCleanup
            \/ MarkDeletionFailed \/ DeleteHard => StoreTypeOK'
<1> USE DEF StoreTypeOK, rowVars, sessionVars, projectVars, storeVars
<1> USE DEF Statuses, InFlightStatuses, ShippedStatuses, Decisions, Leases, Sessions,
            Durations, Cleanups
<1>1. UNCHANGED storeVars => StoreTypeOK'
  OBVIOUS
<1>2. ASSUME NEW d, NEW k \in Revisions, NEW was \in DeploymentOrNone,
             NEW held \in Decisions, CreateDeployment(d, k, was, held)
      PROVE  StoreTypeOK'
  BY <1>2 DEF CreateDeployment
<1>3. ASSUME NEW d, CreateBuildSession(d) PROVE StoreTypeOK'
  BY <1>3 DEF CreateBuildSession
<1>4. ASSUME NEW d, ClaimBuildExecution(d) PROVE StoreTypeOK'
  BY <1>4 DEF ClaimBuildExecution
<1>5. ASSUME NEW d, CancelUnclaimedBuild(d) PROVE StoreTypeOK'
  BY <1>5 DEF CancelUnclaimedBuild
<1>6. ASSUME NEW d, RecordCancellation(d) PROVE StoreTypeOK'
  BY <1>6 DEF RecordCancellation
<1>7. ASSUME NEW d, SupersedePendingDecisions(d) PROVE StoreTypeOK'
  BY <1>7 DEF SupersedePendingDecisions
<1>8. ASSUME NEW d, SupersedeReconciling(d) PROVE StoreTypeOK'
  BY <1>8 DEF SupersedeReconciling
<1>9. ASSUME NEW d, AcknowledgeBuildExecutionFinished(d) PROVE StoreTypeOK'
  BY <1>9 DEF AcknowledgeBuildExecutionFinished
<1>10. ASSUME NEW d, AcknowledgeUnstartedBuildSession(d) PROVE StoreTypeOK'
  BY <1>10 DEF AcknowledgeUnstartedBuildSession
<1>11. ASSUME NEW d, DeleteDeployment(d) PROVE StoreTypeOK'
  BY <1>11 DEF DeleteDeployment
<1>12. ASSUME NEW d, NEW s \in Statuses, UpdateStatus(d, s) PROVE StoreTypeOK'
  BY <1>12 DEF UpdateStatus, SetStatus
<1>13. ASSUME NEW d, NEW s \in Statuses, NEW choice \in Decisions,
              UpdateStatusAndDecision(d, s, choice)
       PROVE  StoreTypeOK'
  BY <1>13 DEF UpdateStatusAndDecision, SetStatus
<1>14. ASSUME NEW d, NEW n \in Nat, NEW choice \in Decisions,
              RecordReady(d, n, choice)
       PROVE  StoreTypeOK'
  BY <1>14 DEF RecordReady, SetStatus
<1>15. ASSUME NEW d, NEW s \in Sessions, UpdateBuildSession(d, s)
       PROVE  StoreTypeOK'
  BY <1>15 DEF UpdateBuildSession
<1>16. ASSUME NEW d, NEW s \in Sessions, FinishBuildSession(d, s)
       PROVE  StoreTypeOK'
  BY <1>16 DEF FinishBuildSession
<1>17. SweepDeployments => StoreTypeOK'
  BY DEF SweepDeployments
<1>18. ASSUME NEW S, SweepSessions(S) PROVE StoreTypeOK'
  BY <1>18 DEF SweepSessions
<1>19. SweepLeases => StoreTypeOK'
  BY DEF SweepLeases
<1>20. ASSUME NEW d \in DeploymentOrNone, SetActiveDeployment(d) PROVE StoreTypeOK'
  BY <1>20 DEF SetActiveDeployment
<1>21. ClaimDeletion \/ ClearDeletionInProgress \/ BeginDeletionCleanup
       \/ MarkDeletionFailed => StoreTypeOK'
  BY DEF ClaimDeletion, ClearDeletionInProgress, BeginDeletionCleanup, MarkDeletionFailed
<1>22. DeleteHard => StoreTypeOK'
  <2> SUFFICES ASSUME DeleteHard PROVE StoreTypeOK'
    OBVIOUS
  <2>1. status' \in [Deployments -> Statuses]
    BY DEF DeleteHard
  <2>2. /\ lease' \in [Deployments -> Leases]
        /\ session' \in [Deployments -> Sessions]
        /\ duration' \in [Deployments -> Durations]
    BY DEF DeleteHard
  <2> QED BY <2>1, <2>2 DEF DeleteHard
<1> HIDE DEF StoreTypeOK, storeVars, Statuses, Decisions, Sessions
<1> QED
  BY <1>1, <1>2, <1>3, <1>4, <1>5, <1>6, <1>7, <1>8, <1>9, <1>10, <1>11, <1>12, <1>13,
     <1>14, <1>15, <1>16, <1>17, <1>18, <1>19, <1>20, <1>21, <1>22

(***************************************************************************)
(* A finite set of version numbers that is not empty has a greatest        *)
(* element, so that MAX(version) of the release queries is defined.        *)
(***************************************************************************)
LEMMA FiniteNatsHaveMaximum ==
  ASSUME NEW S, IsFiniteSet(S), S \subseteq Nat, S # {}
  PROVE  \E m \in S : \A v \in S : v <= m
<1> DEFINE Unbounded == {T \in SUBSET S : T # {} /\ ~ \E m \in T : \A v \in T : v <= m}
<1>1. SUFFICES ASSUME Unbounded # {} PROVE FALSE
  OBVIOUS
<1>2. IsWellFoundedOn(StrictSubsetOrdering(S), FiniteSubsetsOf(S))
  BY FS_StrictSubsetOrderingWellFounded
<1>3. FiniteSubsetsOf(S) = SUBSET S
  BY FS_FiniteSubsetsOfFinite
<1>4. PICK T \in Unbounded : \A U \in Unbounded : <<U, T>> \notin StrictSubsetOrdering(S)
  <2>1. Unbounded \subseteq FiniteSubsetsOf(S)
    BY <1>3
  <2> HIDE DEF Unbounded
  <2> QED BY <1>1, <1>2, <2>1, WFMin
<1>5. PICK x \in T : TRUE
  OBVIOUS
<1>6. T \ {x} \notin Unbounded
  BY <1>4 DEF StrictSubsetOrdering
<1>7. CASE T \ {x} = {}
  BY <1>7
<1>8. CASE T \ {x} # {}
  <2>1. PICK m \in T \ {x} : \A v \in T \ {x} : v <= m
    BY <1>6, <1>8
  <2>2. m \in Nat /\ x \in Nat
    OBVIOUS
  <2>3. CASE x <= m
    BY <2>1, <2>2, <2>3
  <2>4. CASE m < x
    <3>1. \A v \in T : v <= x
      BY <2>1, <2>2, <2>4
    <3> QED BY <3>1
  <2> QED BY <2>2, <2>3, <2>4
<1> QED BY <1>7, <1>8

(* The version a worker reads for its release is a natural number. *)
LEMMA VersionTypes ==
  ASSUME StoreTypeOK, NEW d \in Deployments
  PROVE  ReleaseVersion(d) \in Nat
<1> DEFINE taken(S) == Versions(S) \cup {0}
<1>1. ASSUME NEW S, S \subseteq Deployments
      PROVE  (CHOOSE m \in taken(S) : \A v \in taken(S) : v <= m) \in Nat
  <2> DEFINE f == [e \in S |-> version[e]]
  <2>1. IsFiniteSet(Deployments)
    BY FS_Interval, DeploymentsAssumption DEF Deployments
  <2>2. IsFiniteSet(S)
    BY <1>1, <2>1, FS_Subset
  <2>3. f \in Surjection(S, Versions(S))
    BY DEF Versions, Surjection
  <2>4. IsFiniteSet(Versions(S))
    BY <2>2, <2>3, FS_Surjection
  <2>5. IsFiniteSet(taken(S))
    BY <2>4, FS_AddElement
  <2>6. taken(S) \subseteq Nat
    BY <1>1 DEF StoreTypeOK, Versions
  <2>7. \E m \in taken(S) : \A v \in taken(S) : v <= m
    <3> HIDE DEF taken
    <3>1. taken(S) # {}
      BY DEF taken
    <3> QED BY <2>5, <2>6, <3>1, FiniteNatsHaveMaximum
  <2> QED BY <2>6, <2>7
<1>2. NextReadyVersion \in Nat
  <2> DEFINE S == {e \in Deployments : status[e] \in ShippedStatuses}
  <2>1. S \subseteq Deployments
    OBVIOUS
  <2>2. (CHOOSE m \in taken(S) : \A v \in taken(S) : v <= m) \in Nat
    BY <1>1, <2>1
  <2>3. NextReadyVersion = 1 + (CHOOSE m \in taken(S) : \A v \in taken(S) : v <= m)
    BY DEF NextReadyVersion
  <2> HIDE DEF taken
  <2> QED BY <2>2, <2>3
<1>3. ReadyVersionOfCommit(commit[d]) \in Nat
  <2> DEFINE S == {e \in Deployments : /\ commit[d] # NoCommit
                                       /\ commit[e] = commit[d]
                                       /\ status[e] \in ShippedStatuses}
  <2>1. S \subseteq Deployments
    OBVIOUS
  <2> QED BY <1>1, <2>1 DEF ReadyVersionOfCommit
<1> QED BY <1>2, <1>3 DEF ReleaseVersion

(* A request slot with no request in it is a legal record. *)
LEMMA IdleClientType == IdleClient \in ClientStates
BY DeploymentIds DEF IdleClient, ClientStates, ClientRecords, ClientSteps, TargetSteps,
   CreateSteps, DeleteSteps, ReconcileSteps, CancelSteps, Revisions, Decisions

(***************************************************************************)
(* The moves that workers and requests are built from, taken one at a      *)
(* time, keep the control state in its domains, and a step that works on a *)
(* deployment has one.                                                     *)
(***************************************************************************)
LEMMA HandlerTypes ==
  ASSUME TypeOK
  PROVE  /\ WriteFails => StoreTypeOK' /\ HostTypeOK'
         /\ UNCHANGED hostVars => HostTypeOK'
         /\ UNCHANGED workerVars => WorkerTypeOK'
         /\ UNCHANGED clientVars => ClientTypeOK'
         /\ \A d \in Deployments, step \in WorkerSteps :
              WorkerGoes(d, step) => worker' \in [Deployments -> WorkerSteps]
         /\ \A d \in Deployments, verdict \in Results, step \in WorkerSteps :
              WorkerDecides(d, verdict, step) =>
                worker' \in [Deployments -> WorkerSteps] /\ result' \in [Deployments -> Results]
         /\ \A c \in Clients, state \in ClientStates :
              ClientTakes(c, state) => client' \in [Clients -> ClientStates]
         /\ \A c \in Clients, step \in ClientSteps :
              ClientGoes(c, step) /\ (step \in TargetSteps => client[c].target \in Deployments)
                => client' \in [Clients -> ClientStates]
         /\ \A c \in Clients :
              ClientDone(c) \/ ClientReturns(c) => client' \in [Clients -> ClientStates]
         /\ \A c \in Clients, step \in TargetSteps :
              ClientAt(c, step) => client[c].target \in Deployments
<1> USE DEF TypeOK
<1>1. WriteFails => StoreTypeOK' /\ HostTypeOK'
  BY TransactionTypes DEF WriteFails, HostTypeOK
<1>2. UNCHANGED hostVars => HostTypeOK'
  BY DEF hostVars, HostTypeOK
<1>3. UNCHANGED workerVars => WorkerTypeOK'
  BY DEF workerVars, WorkerTypeOK
<1>4. UNCHANGED clientVars => ClientTypeOK'
  BY DEF clientVars, ClientTypeOK
<1>5. ASSUME NEW d \in Deployments, NEW step \in WorkerSteps, WorkerGoes(d, step)
      PROVE  worker' \in [Deployments -> WorkerSteps]
  BY <1>5 DEF WorkerGoes, WorkerTypeOK
<1>6. ASSUME NEW d \in Deployments, NEW verdict \in Results, NEW step \in WorkerSteps,
             WorkerDecides(d, verdict, step)
      PROVE  worker' \in [Deployments -> WorkerSteps] /\ result' \in [Deployments -> Results]
  BY <1>5, <1>6 DEF WorkerDecides, WorkerTypeOK
<1>7. ASSUME NEW c \in Clients, NEW state \in ClientStates, ClientTakes(c, state)
      PROVE  client' \in [Clients -> ClientStates]
  BY <1>7 DEF ClientTakes, ClientTypeOK
<1>8. ASSUME NEW c \in Clients, NEW step \in ClientSteps,
             step \in TargetSteps => client[c].target \in Deployments, ClientGoes(c, step)
      PROVE  client' \in [Clients -> ClientStates]
  <2>1. [client[c] EXCEPT !.step = step] \in ClientStates
    BY <1>8 DEF ClientTypeOK, ClientStates, ClientRecords
  <2> QED BY <1>7, <1>8, <2>1 DEF ClientGoes
<1>10. ASSUME NEW c \in Clients, ClientDone(c)
       PROVE  client' \in [Clients -> ClientStates]
  BY <1>7, <1>10, IdleClientType DEF ClientDone
<1>11. ASSUME NEW c \in Clients, ClientReturns(c)
       PROVE  client' \in [Clients -> ClientStates]
  <2>1. client[c] \in ClientRecords
    BY DEF ClientTypeOK, ClientStates
  <2>2. client[c].back \in ClientSteps \ TargetSteps
    BY <2>1 DEF ClientRecords, ClientSteps, TeardownSteps, TargetSteps, CreateSteps,
       DeleteSteps, ReconcileSteps, CancelSteps
  <2>3. [client[c] EXCEPT !.step = client[c].back, !.back = "idle"] \in ClientStates
    BY <2>1, <2>2 DEF ClientRecords, ClientStates
  <2> QED BY <1>7, <1>10, <1>11, <2>3 DEF ClientReturns
<1>12. ASSUME NEW c \in Clients, NEW step \in TargetSteps, ClientAt(c, step)
       PROVE  client[c].target \in Deployments
  BY <1>12 DEF ClientAt, ClientTypeOK, ClientStates
<1> HIDE DEF TypeOK
<1> QED BY <1>1, <1>2, <1>3, <1>4, <1>5, <1>6, <1>7, <1>8, <1>10, <1>11, <1>12

(* Every step of a detached worker keeps the types. *)
LEMMA WorkerStepTypes ==
  ASSUME TypeOK, NEW d \in Deployments, WorkerNext(d)
  PROVE  TypeOK'
<1> USE TransactionTypes, HandlerTypes DEF TypeOK, WorkerTypeOK, WorkerSteps, Results
<1>1. CASE StartWork(d)
  BY <1>1 DEF StartWork
<1>2. CASE MarkSessionBuilding(d)
  BY <1>2 DEF MarkSessionBuilding, Sessions
<1>3. CASE MarkRowBuilding(d)
  BY <1>3 DEF MarkRowBuilding, Statuses, InFlightStatuses
<1>4. CASE Build(d)
  BY <1>4 DEF Build
<1>5. CASE Promote(d)
  BY <1>5 DEF Promote, Statuses, InFlightStatuses
<1>6. CASE Deploy(d)
  BY <1>6, OutcomesAssumption DEF Deploy, DeployOutcomes
<1>7. CASE StopWork(d)
  BY <1>7 DEF StopWork
<1>8. CASE ReadVersion(d)
  BY <1>8, VersionTypes DEF ReadVersion
<1>9. CASE RecordSuccess(d)
  BY <1>9 DEF RecordSuccess, Decisions
<1>10. CASE RecordOther(d)
  BY <1>10 DEF RecordOther, Statuses
<1>11. CASE RecordCancelled(d)
  BY <1>11 DEF RecordCancelled
<1>12. CASE PublishRelease(d)
  BY <1>12, DeploymentIds DEF PublishRelease
<1>13. CASE SupersedeDecisions(d)
  BY <1>13 DEF SupersedeDecisions
<1>14. CASE FinishSession(d)
  BY <1>14 DEF FinishSession, SessionOutcome, Sessions
<1>15. CASE RollUp(d)
  BY <1>15 DEF RollUp, Decisions, Statuses, ShippedStatuses
<1>16. CASE ArchivePrevious(d)
  BY <1>16 DEF ArchivePrevious
<1>17. CASE FallBack(d)
  BY <1>17 DEF FallBack
<1>18. CASE FallBackRow(d)
  BY <1>18 DEF FallBackRow, Statuses
<1>19. CASE FallBackSession(d)
  BY <1>19 DEF FallBackSession, Sessions
<1>20. CASE CompleteExecution(d)
  BY <1>20 DEF CompleteExecution
<1>21. CASE PollCancellation(d)
  BY <1>21 DEF PollCancellation
<1> QED
  BY <1>1, <1>2, <1>3, <1>4, <1>5, <1>6, <1>7, <1>8, <1>9, <1>10, <1>11, <1>12, <1>13, <1>14,
     <1>15, <1>16, <1>17, <1>18, <1>19, <1>20, <1>21
     DEF WorkerNext

(* A step that changes nothing keeps the types. *)
LEMMA StutterTypes == TypeOK /\ UNCHANGED vars => TypeOK'
BY TransactionTypes, HandlerTypes DEF TypeOK, vars, storeVars

(***************************************************************************)
(* The record with which a deploy, a rollback or a reject waits for the    *)
(* project lock is legal, whatever snapshot it carries.                    *)
(***************************************************************************)
LEMMA ReadyToInsertTypes ==
  ASSUME TypeOK, NEW k \in Revisions, NEW held \in Decisions, NEW d \in DeploymentOrNone,
         NEW back \in {"idle", "rejectDetach"}
  PROVE  ReadyToInsert(k, held, d, back) \in ClientStates
<1>1. ActiveRow \in DeploymentOrNone
  BY DeploymentIds DEF ActiveRow, TypeOK, StoreTypeOK
<1> QED
  BY <1>1, DeploymentIds
     DEF ReadyToInsert, IdleClient, ClientStates, ClientRecords, ClientSteps, TargetSteps,
         CreateSteps, DeleteSteps, ReconcileSteps, CancelSteps, TeardownSteps

(* The records with which requests about one deployment begin are legal. *)
LEMMA StartTypes ==
  ASSUME TypeOK, NEW d \in Deployments
  PROVE  /\ \A step \in {"kickoff", "signal", "verdict"} :
              [IdleClient EXCEPT !.step = step, !.target = d] \in ClientStates
         /\ \A step \in {"keep", "keepPointer"} :
              [IdleClient EXCEPT !.target = d, !.carried = decision[d], !.step = step]
                \in ClientStates
         /\ [IdleClient EXCEPT !.step = "rejectDetach", !.subject = d, !.seen = active]
              \in ClientStates
         /\ [IdleClient EXCEPT !.step = "detach", !.target = d, !.seen = active] \in ClientStates
<1> USE DeploymentIds, IdleClientType
    DEF TypeOK, StoreTypeOK, ClientStates, ClientRecords, ClientSteps, TargetSteps, CreateSteps,
        DeleteSteps, ReconcileSteps, CancelSteps, TeardownSteps, IdleClient
<1>1. ASSUME NEW step \in {"kickoff", "signal", "verdict"}
      PROVE  [IdleClient EXCEPT !.step = step, !.target = d] \in ClientStates
  OBVIOUS
<1>2. ASSUME NEW step \in {"keep", "keepPointer"}
      PROVE  [IdleClient EXCEPT !.target = d, !.carried = decision[d], !.step = step]
               \in ClientStates
  OBVIOUS
<1>3. [IdleClient EXCEPT !.step = "rejectDetach", !.subject = d, !.seen = active] \in ClientStates
  OBVIOUS
<1>4. [IdleClient EXCEPT !.step = "detach", !.target = d, !.seen = active] \in ClientStates
  OBVIOUS
<1> QED BY <1>1, <1>2, <1>3, <1>4

(* The record with which a teardown begins is legal. *)
LEMMA TeardownStartTypes ==
  ASSUME TypeOK, NEW step \in {"gate", "drain"}
  PROVE  [IdleClient EXCEPT !.step = step, !.resumed = deleting] \in ClientStates
BY IdleClientType
   DEF TypeOK, StoreTypeOK, ClientStates, ClientRecords, ClientSteps, TargetSteps, CreateSteps,
       DeleteSteps, ReconcileSteps, CancelSteps, TeardownSteps, IdleClient

(***************************************************************************)
(* A request that gets a new deployment, and a teardown that turns to      *)
(* cancelling one, keep legal records.                                     *)
(***************************************************************************)
LEMMA MovedTypes ==
  ASSUME ClientTypeOK, NEW c \in Clients, NEW d \in Deployments
  PROVE  /\ [client[c] EXCEPT !.step = "session", !.target = d] \in ClientStates
         /\ [client[c] EXCEPT !.step = "signal", !.target = d, !.back = "poll"] \in ClientStates
<1>1. client[c] \in ClientRecords
  BY DEF ClientTypeOK, ClientStates
<1>2. {"session", "signal"} \subseteq ClientSteps
  BY DEF ClientSteps, CreateSteps, CancelSteps
<1> QED BY <1>1, <1>2, DeploymentIds DEF ClientStates, ClientRecords

(* Receiving a request keeps the types. *)
LEMMA RequestTypes ==
  ASSUME TypeOK, NEW c \in Clients, Request(c)
  PROVE  TypeOK'
<1> USE DeploymentIds, TransactionTypes, HandlerTypes, ReadyToInsertTypes, StartTypes
    DEF TypeOK, ClientTypeOK
<1>1. CASE RequestDeploy(c)
  BY <1>1 DEF RequestDeploy, Decisions
<1>2. CASE RequestRollback(c)
  BY <1>2 DEF RequestRollback, StoreTypeOK
<1>3. CASE StartBuild(c)
  BY <1>3 DEF StartBuild
<1>4. CASE RequestCancel(c)
  BY <1>4 DEF RequestCancel, WinCancellation
<1>5. CASE RequestKeep(c)
  BY <1>5 DEF RequestKeep
<1>6. CASE RequestReject(c)
  BY <1>6 DEF RequestReject, StoreTypeOK
<1>7. CASE RequestDelete(c)
  BY <1>7 DEF RequestDelete, Acquire
<1>8. CASE RequestReconcile(c)
  BY <1>8 DEF RequestReconcile, Acquire
<1>9. CASE RequestTeardown(c)
  BY <1>9, TeardownStartTypes DEF RequestTeardown, ClaimTeardown, Acquire
<1> QED BY <1>1, <1>2, <1>3, <1>4, <1>5, <1>6, <1>7, <1>8, <1>9 DEF Request

(* Every later step of a request handler keeps the types. *)
LEMMA ClientStepTypes ==
  ASSUME TypeOK, NEW c \in Clients, ClientNext(c)
  PROVE  TypeOK'
<1> USE DeploymentIds, TransactionTypes, HandlerTypes
    DEF TypeOK, ClientTypeOK, ClientSteps, TargetSteps, CreateSteps, DeleteSteps,
    ReconcileSteps, CancelSteps, TeardownSteps
<1>1. CASE InsertDeployment(c)
  <2>1. /\ client[c].wanted \in Revisions
        /\ client[c].seen \in DeploymentOrNone
        /\ client[c].carried \in Decisions
    BY DEF ClientStates, ClientRecords
  <2> QED BY <1>1, <2>1, MovedTypes DEF InsertDeployment, RefuseInsert
<1>2. CASE InsertSession(c)
  BY <1>2 DEF InsertSession
<1>3. CASE UndoInsert(c)
  BY <1>3 DEF UndoInsert, Unlock
<1>4. CASE RetireReconciling(c)
  BY <1>4 DEF RetireReconciling
<1>5. CASE RetireDecisions(c)
  BY <1>5 DEF RetireDecisions, Unlock
<1>6. CASE Kickoff(c)
  BY <1>6 DEF Kickoff, WorkerTypeOK, WorkerSteps
<1>7. CASE DropUnclaimed(c)
  BY <1>7 DEF DropUnclaimed
<1>8. CASE SignalWorker(c)
  BY <1>8 DEF SignalWorker, WorkerTypeOK
<1>9. CASE SettleSession(c)
  BY <1>9 DEF SettleSession
<1>10. CASE AwaitQuiescence(c)
  BY <1>10 DEF AwaitQuiescence
<1>11. CASE KeepRelease(c)
  BY <1>11 DEF KeepRelease, Statuses, ShippedStatuses, Decisions
<1>12. CASE KeepPointer(c)
  BY <1>12 DEF KeepPointer
<1>13. CASE RejectDetach(c)
  BY <1>13 DEF RejectDetach
<1>14. CASE RejectMark(c)
  BY <1>14 DEF RejectMark, Statuses, Decisions
<1>15. CASE Detach(c)
  BY <1>15 DEF Detach, Unlock
<1>16. CASE Erase(c)
  BY <1>16 DEF Erase, Unlock
<1>17. CASE Verdict(c)
  BY <1>17 DEF Verdict, Statuses, ShippedStatuses, Decisions, Unlock
<1>18. CASE Forward(c)
  BY <1>18 DEF Forward, Unlock
<1>19. CASE Advance(c)
  BY <1>19 DEF Advance, Unlock
<1>20. CASE Gate(c)
  BY <1>20 DEF Gate
<1>21. CASE Drain(c)
  BY <1>21, MovedTypes DEF Drain, WinCancellation
<1>22. CASE Poll(c)
  BY <1>22 DEF Poll
<1>23. CASE BeginCleanup(c)
  BY <1>23 DEF BeginCleanup
<1>24. CASE Destroy(c)
  BY <1>24 DEF Destroy
<1>25. CASE DropProject(c)
  BY <1>25 DEF DropProject, Unlock
<1>26. CASE ReleaseFence(c)
  BY <1>26 DEF ReleaseFence, Unlock
<1>27. CASE RetainFence(c)
  BY <1>27 DEF RetainFence, Unlock
<1>28. CASE RefuseTeardown(c)
  BY <1>28 DEF RefuseTeardown
<1> QED
  BY <1>1, <1>2, <1>3, <1>4, <1>5, <1>6, <1>7, <1>8, <1>9, <1>10, <1>11, <1>12, <1>13, <1>14,
     <1>15, <1>16, <1>17, <1>18, <1>19, <1>20, <1>21, <1>22, <1>23, <1>24, <1>25, <1>26,
     <1>27, <1>28
     DEF ClientNext, CreateNext, CancelNext, DecideNext, DeleteNext, ReconcileNext,
         TeardownNext

(***************************************************************************)
(* The statements of the boot sweep and the loss of the process keep the   *)
(* types.                                                                  *)
(***************************************************************************)
LEMMA HostStepTypes ==
  ASSUME TypeOK, BootNext \/ Crash
  PROVE  TypeOK'
<1> USE TransactionTypes, HandlerTypes DEF TypeOK, HostTypeOK
<1>1. CASE BootDeployments
  BY <1>1 DEF BootDeployments
<1>2. CASE BootSessions
  BY <1>2 DEF BootSessions
<1>3. CASE BootLeases
  BY <1>3 DEF BootLeases
<1>4. CASE Crash
  BY <1>4, IdleClientType DEF Crash, WorkerTypeOK, WorkerSteps, Results, ClientTypeOK
<1> QED BY <1>1, <1>2, <1>3, <1>4 DEF BootNext

(* A new project, with no deployment and no request, satisfies the types. *)
LEMMA InitialTypes == Init => TypeOK
<1> SUFFICES ASSUME Init PROVE TypeOK
  OBVIOUS
<1>1. StoreTypeOK
  BY DeploymentIds
     DEF Init, StoreInit, StoreTypeOK, Statuses, InFlightStatuses, ShippedStatuses, Revisions,
         Decisions, Leases, Sessions, Durations, Cleanups
<1>2. WorkerTypeOK /\ ClientTypeOK /\ HostTypeOK
  BY IdleClientType
     DEF Init, WorkerTypeOK, ClientTypeOK, HostTypeOK, WorkerSteps, Results
<1> QED BY <1>1, <1>2 DEF TypeOK

(***************************************************************************)
(* Type correctness for every number of deployments and requests: each    *)
(* row, worker and request record keeps to its domain, and a request step *)
(* that works on a deployment names one.                                   *)
(***************************************************************************)
THEOREM TypeCorrect == Spec => []TypeOK
<1>1. TypeOK /\ [Next]_vars => TypeOK'
  BY WorkerStepTypes, RequestTypes, ClientStepTypes, HostStepTypes, StutterTypes DEF Next
<1> QED BY <1>1, InitialTypes, PTL DEF Spec

-----------------------------------------------------------------------------
(* Exclusion. *)

(* A request inside a teardown: one of its own steps, or a cancel it makes. *)
InTeardown(c) == client[c].step \in TeardownSteps \/ client[c].back = "poll"

(* The steps that run under the project runtime lock. *)
Locked(c) ==
  \/ client[c].step \in CreateSteps \cup DeleteSteps \cup ReconcileSteps
  \/ InTeardown(c)

(***************************************************************************)
(* Before the boot sweep has finished, no worker runs and no request is    *)
(* served.                                                                 *)
(***************************************************************************)
AllStopped ==
  ~Up => /\ \A d \in Deployments : ~Working(d)
         /\ \A c \in Clients : client[c] = IdleClient

(* A request at a locked step is the holder of the lock. *)
LockFor(c) ==
  /\ Locked(c) => holder = c
  /\ client[c].back = "poll" => client[c].step \in CancelSteps

(* A worker lives inside its lease. *)
WorkerLeased == \A d \in Deployments : Working(d) => LeaseHeld(d)

(* At most one row is in flight or leased. *)
OneListed == \A d, e \in Deployments : Listed(d) /\ Listed(e) => d = e

(* No session without a row. *)
UnbornUnleased == \A d \in Deployments : status[d] = "unborn" => lease[d] = "none"

(* Between the two inserts of a create, the row has no session. *)
FreshFor(c) ==
  client[c].step = "session" =>
    lease[client[c].target] = "none" /\ status[client[c].target] # "unborn"

(***************************************************************************)
(* From its claim to its end a teardown keeps the fence up, and from its   *)
(* gate on nothing is listed.                                              *)
(***************************************************************************)
FenceFor(c) ==
  InTeardown(c) =>
    /\ exists /\ deleting
    /\ Destroying(c) => Quiescent

(***************************************************************************)
(* The inductive invariant. OneWorker and CleanupQuiescent alone are not   *)
(* inductive: that a claim starts the only worker rests on at most one row *)
(* being listed, that nothing starts behind the gate of a teardown on the  *)
(* fence being up and moved only by the holder of the lock, and that a     *)
(* create does not reopen a lease on the lock it holds between its two     *)
(* inserts.                                                                *)
(***************************************************************************)
IInv ==
  /\ TypeOK
  /\ AllStopped
  /\ \A c \in Clients : LockFor(c) /\ FreshFor(c) /\ FenceFor(c)
  /\ WorkerLeased
  /\ OneListed
  /\ UnbornUnleased

(* A cancelled row stays cancelled until it is deleted. *)
Pinned ==
  \A e \in Deployments : status[e] = "cancelled" => status'[e] \in {"cancelled", "deleted"}

(* What a step that starts nothing leaves true of the rows. *)
Calm ==
  /\ Pinned
  /\ \A e \in Deployments :
       /\ Listed(e)' => Listed(e)
       /\ status'[e] = "unborn" => status[e] = "unborn"
       /\ lease[e] = "none" => lease'[e] = "none"

FenceKept == UNCHANGED <<exists, deleting>>

LeasesKept == \A e \in Deployments : LeaseHeld(e) => LeaseHeld(e)'

Quiet == Calm /\ LeasesKept /\ FenceKept

(***************************************************************************)
(* All transactions but four (the insert of a row, the insert of its       *)
(* session, the claim of its execution and the hard delete) are calm: they *)
(* list no deployment that was not listed, revive no row and open no       *)
(* lease; and, but for the acknowledgement of a finished execution and the *)
(* boot sweep, they leave held leases held.                                *)
(***************************************************************************)
LEMMA CalmTransactions ==
  ASSUME StoreTypeOK
  PROVE  /\ UNCHANGED storeVars => Quiet
         /\ \A d \in Deployments, s \in Statuses :
              UpdateStatus(d, s) /\ s # "unborn" /\ (s \in InFlightStatuses => Listed(d))
                => Quiet
         /\ \A d, choice : \A s \in Statuses :
              UpdateStatusAndDecision(d, s, choice) /\ s # "unborn" /\ s \notin InFlightStatuses
                => Quiet
         /\ \A d \in Deployments : \A n, choice : RecordReady(d, n, choice) => Quiet
         /\ \A d \in Deployments :
              /\ RecordCancellation(d) => Quiet
              /\ SupersedePendingDecisions(d) \/ SupersedeReconciling(d) => Quiet
              /\ AcknowledgeUnstartedBuildSession(d) \/ CancelUnclaimedBuild(d) => Quiet
              /\ DeleteDeployment(d) => Quiet
              /\ AcknowledgeBuildExecutionFinished(d) => Calm /\ FenceKept
         /\ \A d, s : UpdateBuildSession(d, s) \/ FinishBuildSession(d, s) => Quiet
         /\ \A d : SetActiveDeployment(d) => Quiet
         /\ SweepDeployments \/ (\E S : SweepSessions(S)) \/ SweepLeases => Calm /\ FenceKept
<1> USE DEF StoreTypeOK, rowVars, sessionVars, projectVars, storeVars, Quiet, Calm, Pinned,
            FenceKept, LeasesKept, Listed, InFlight, LeaseHeld,
        InFlightStatuses
<1>1. UNCHANGED storeVars => Quiet
  OBVIOUS
<1>2. ASSUME NEW d \in Deployments, NEW s \in Statuses, UpdateStatus(d, s), s # "unborn",
             s \in InFlightStatuses => Listed(d)
      PROVE  Quiet
  BY <1>2 DEF UpdateStatus, SetStatus, Writable
<1>3. ASSUME NEW d, NEW s \in Statuses, NEW choice, UpdateStatusAndDecision(d, s, choice),
             s # "unborn", s \notin InFlightStatuses
      PROVE  Quiet
  BY <1>3 DEF UpdateStatusAndDecision, SetStatus, Writable
<1>4. ASSUME NEW d \in Deployments, NEW n, NEW choice, RecordReady(d, n, choice)
      PROVE  Quiet
  BY <1>4 DEF RecordReady, SetStatus, Writable
<1>5. ASSUME NEW d \in Deployments, RecordCancellation(d) PROVE Quiet
  BY <1>5 DEF RecordCancellation
<1>6. ASSUME NEW d \in Deployments, SupersedePendingDecisions(d) PROVE Quiet
  BY <1>6 DEF SupersedePendingDecisions, AwaitingDecision, RowExists
<1>7. ASSUME NEW d \in Deployments, SupersedeReconciling(d) PROVE Quiet
  BY <1>7 DEF SupersedeReconciling
<1>8. ASSUME NEW d \in Deployments, AcknowledgeUnstartedBuildSession(d) PROVE Quiet
  BY <1>8 DEF AcknowledgeUnstartedBuildSession
<1>9. ASSUME NEW d \in Deployments, CancelUnclaimedBuild(d) PROVE Quiet
  BY <1>9 DEF CancelUnclaimedBuild
<1>10. ASSUME NEW d \in Deployments, DeleteDeployment(d) PROVE Quiet
  BY <1>10 DEF DeleteDeployment
<1>11. ASSUME NEW d \in Deployments, AcknowledgeBuildExecutionFinished(d) PROVE Calm /\ FenceKept
  BY <1>11 DEF AcknowledgeBuildExecutionFinished
<1>12. ASSUME NEW d, NEW s, UpdateBuildSession(d, s) PROVE Quiet
  BY <1>12 DEF UpdateBuildSession
<1>13. ASSUME NEW d, NEW s, FinishBuildSession(d, s) PROVE Quiet
  BY <1>13 DEF FinishBuildSession
<1>14. ASSUME NEW d, SetActiveDeployment(d) PROVE Quiet
  BY <1>14 DEF SetActiveDeployment
<1>15. SweepDeployments => Calm /\ FenceKept
  BY DEF SweepDeployments
<1>16. ASSUME NEW S, SweepSessions(S) PROVE Calm /\ FenceKept
  BY <1>16 DEF SweepSessions
<1>17. SweepLeases => Calm /\ FenceKept
  BY DEF SweepLeases
<1> HIDE DEF StoreTypeOK, storeVars, Quiet, Calm, FenceKept, LeasesKept, Listed, InFlightStatuses
<1> QED BY <1>1, <1>2, <1>3, <1>4, <1>5, <1>6, <1>7, <1>8, <1>9, <1>10, <1>11, <1>12, <1>13,
     <1>14, <1>15, <1>16, <1>17

(* What a worker step leaves alone. *)
WorkerEffect ==
  /\ Up /\ Calm /\ FenceKept
  /\ UNCHANGED <<client, holder, api>>
  /\ \A e \in Deployments : Working(e)' => Working(e) /\ (LeaseHeld(e) => LeaseHeld(e)')

(***************************************************************************)
(* Whatever a worker does, it only ever makes its project quieter: it      *)
(* takes no lock, leaves the fence and the requests alone, and closes its  *)
(* lease only as it goes.                                                  *)
(***************************************************************************)
LEMMA WorkerEffects ==
  ASSUME TypeOK, WorkerLeased, NEW d \in Deployments, WorkerNext(d)
  PROVE  WorkerEffect
<1> USE CalmTransactions
    DEF Quiet, TypeOK, WorkerTypeOK, WorkerAt, WorkerGoes, WorkerDecides, Working, WorkerEffect,
        clientVars, hostVars, WriteFails, LeasesKept
<1>1. CASE StartWork(d)
  BY <1>1 DEF StartWork
<1>2. CASE MarkSessionBuilding(d)
  BY <1>2 DEF MarkSessionBuilding
<1>3. CASE MarkRowBuilding(d)
  BY <1>3 DEF MarkRowBuilding, WorkerLeased, Listed, Statuses, InFlightStatuses
<1>4. CASE Build(d)
  BY <1>4 DEF Build
<1>5. CASE Promote(d)
  BY <1>5 DEF Promote, WorkerLeased, Listed, Statuses, InFlightStatuses
<1>6. CASE Deploy(d)
  BY <1>6 DEF Deploy
<1>7. CASE StopWork(d)
  BY <1>7 DEF StopWork
<1>8. CASE ReadVersion(d)
  BY <1>8 DEF ReadVersion
<1>9. CASE RecordSuccess(d)
  BY <1>9 DEF RecordSuccess
<1>10. CASE RecordOther(d)
  BY <1>10 DEF RecordOther, Statuses, InFlightStatuses
<1>11. CASE RecordCancelled(d)
  BY <1>11 DEF RecordCancelled
<1>12. CASE PublishRelease(d)
  BY <1>12 DEF PublishRelease
<1>13. CASE SupersedeDecisions(d)
  BY <1>13 DEF SupersedeDecisions
<1>14. CASE FinishSession(d)
  BY <1>14 DEF FinishSession
<1>15. CASE RollUp(d)
  BY <1>15 DEF RollUp, Statuses, ShippedStatuses, InFlightStatuses
<1>16. CASE ArchivePrevious(d)
  BY <1>16 DEF ArchivePrevious
<1>17. CASE FallBack(d)
  BY <1>17 DEF FallBack
<1>18. CASE FallBackRow(d)
  BY <1>18 DEF FallBackRow, Statuses, InFlightStatuses
<1>19. CASE FallBackSession(d)
  BY <1>19 DEF FallBackSession
<1>20. CASE CompleteExecution(d)
  BY <1>20 DEF CompleteExecution, AcknowledgeBuildExecutionFinished, LeaseHeld, StoreTypeOK
<1>21. CASE PollCancellation(d)
  BY <1>21 DEF PollCancellation
<1> QED
  BY <1>1, <1>2, <1>3, <1>4, <1>5, <1>6, <1>7, <1>8, <1>9, <1>10, <1>11, <1>12, <1>13, <1>14,
     <1>15, <1>16, <1>17, <1>18, <1>19, <1>20, <1>21
     DEF WorkerNext

(* A worker step preserves the inductive invariant and every cancellation. *)
LEMMA WorkerStep ==
  ASSUME IInv, NEW d \in Deployments, WorkerNext(d)
  PROVE  IInv' /\ Pinned
<1>1. TypeOK'
  BY WorkerStepTypes DEF IInv
<1>2. WorkerEffect
  BY WorkerEffects DEF IInv
<1>3. AllStopped'
  BY <1>2 DEF AllStopped, WorkerEffect, Up
<1>4. ASSUME NEW c \in Clients PROVE (LockFor(c) /\ FreshFor(c) /\ FenceFor(c))'
  <2>1. LockFor(c)'
    BY <1>2 DEF IInv, WorkerEffect, LockFor, Locked, InTeardown
  <2>2. FreshFor(c)'
    <3>1. client[c].step = "session" => client[c].target \in Deployments
      BY DEF IInv, TypeOK, ClientTypeOK, ClientStates, TargetSteps, CreateSteps
    <3> QED BY <1>2, <3>1 DEF IInv, WorkerEffect, Calm, FreshFor
  <2>3. FenceFor(c)'
    BY <1>2 DEF IInv, WorkerEffect, Calm, FenceKept, FenceFor, InTeardown, Destroying, Quiescent
  <2> QED BY <2>1, <2>2, <2>3
<1>5. WorkerLeased'
  BY <1>2 DEF IInv, WorkerEffect, WorkerLeased
<1>6. OneListed'
  BY <1>2 DEF IInv, WorkerEffect, Calm, OneListed
<1>7. UnbornUnleased'
  BY <1>2 DEF IInv, WorkerEffect, Calm, UnbornUnleased
<1> QED BY <1>1, <1>2, <1>3, <1>4, <1>5, <1>6, <1>7 DEF IInv, WorkerEffect, Calm

(* What a request step does to the control state. *)
ControlEffect(c) ==
  /\ Up /\ UNCHANGED api
  /\ \A b \in Clients : b # c => client'[b] = client[b]
  /\ holder' # holder => holder \in {NoClient, c}
  /\ LockFor(c)'
  /\ InTeardown(c)' => InTeardown(c) \/ (exists /\ deleting)'
  /\ Destroying(c)' => Destroying(c) \/ Quiescent
  /\ client'[c].step = "session" => InsertDeployment(c)

(***************************************************************************)
(* What one request handler may do to the control state of the others:     *)
(* nothing but give up, or take, a project lock that is its own or free. A *)
(* handler that is inside a teardown got there through the fence, and one  *)
(* that reaches the destructive steps saw the project quiescent.           *)
(***************************************************************************)
LEMMA ControlEffects ==
  ASSUME TypeOK, NEW c \in Clients, LockFor(c), Request(c) \/ ClientNext(c)
  PROVE  ControlEffect(c)
<1>1. client[c] \in ClientRecords
  BY DEF TypeOK, ClientTypeOK, ClientStates
<1>2. client \in [Clients -> ClientStates]
  BY DEF TypeOK, ClientTypeOK
<1> USE <1>1, <1>2
    DEF ClientRecords, LockFor, Locked, InTeardown, Destroying, ControlEffect, ClientAt,
        ClientTakes, ClientGoes, ClientDone,
        ClientReturns, IdleClient, ReadyToInsert, MayStart, Acquire, Unlock, hostVars,
        WriteFails, CreateSteps, DeleteSteps,
        ReconcileSteps, CancelSteps, TeardownSteps
<1>3. CASE RequestDeploy(c)
  BY <1>3 DEF RequestDeploy
<1>4. CASE RequestRollback(c)
  BY <1>4 DEF RequestRollback
<1>5. CASE StartBuild(c)
  BY <1>5 DEF StartBuild
<1>6. CASE RequestCancel(c)
  BY <1>6 DEF RequestCancel
<1>7. CASE RequestKeep(c)
  BY <1>7 DEF RequestKeep
<1>8. CASE RequestReject(c)
  <2>1. PICK d \in Deployments :
          \/ ClientTakes(c, [IdleClient EXCEPT !.step = "rejectDetach", !.subject = d,
                                               !.seen = active])
          \/ ClientTakes(c, ReadyToInsert(commit[previous[d]], decision[previous[d]], d,
                                          "rejectDetach"))
    <3> HIDE DEF ClientTakes, IdleClient, ReadyToInsert
    <3> QED BY <1>8 DEF RequestReject
  <2>2. CASE ClientTakes(c, [IdleClient EXCEPT !.step = "rejectDetach", !.subject = d,
                                               !.seen = active])
    BY <1>8, <2>2 DEF RequestReject
  <2>3. CASE ClientTakes(c, ReadyToInsert(commit[previous[d]], decision[previous[d]], d,
                                          "rejectDetach"))
    BY <1>8, <2>3 DEF RequestReject
  <2> QED BY <2>1, <2>2, <2>3
<1>9. CASE RequestDelete(c)
  BY <1>9 DEF RequestDelete
<1>10. CASE RequestReconcile(c)
  BY <1>10 DEF RequestReconcile
<1>11. CASE RequestTeardown(c)
  <2>1. ASSUME NEW kind, NEW step \in {"gate", "drain"}, ClaimTeardown(c, kind, step)
        PROVE  ControlEffect(c)
    BY <2>1 DEF ClaimTeardown, ClaimDeletion
  <2> QED BY <1>11, <2>1 DEF RequestTeardown
<1>12. CASE InsertDeployment(c)
  <2>1. CASE RefuseInsert(c) /\ UNCHANGED holder
    BY <1>12, <2>1 DEF InsertDeployment, RefuseInsert
  <2>2. ASSUME NEW d \in Deployments, holder' = c,
               ClientTakes(c, [client[c] EXCEPT !.step = "session", !.target = d])
        PROVE  ControlEffect(c)
    BY <1>12, <2>2 DEF InsertDeployment
  <2> HIDE DEF ClientTakes, RefuseInsert
  <2> QED BY <1>12, <2>1, <2>2 DEF InsertDeployment
<1>13. CASE InsertSession(c)
  BY <1>13 DEF InsertSession
<1>14. CASE UndoInsert(c)
  BY <1>14 DEF UndoInsert
<1>15. CASE RetireReconciling(c)
  BY <1>15 DEF RetireReconciling
<1>16. CASE RetireDecisions(c)
  BY <1>16 DEF RetireDecisions
<1>17. CASE Kickoff(c)
  <2>1. /\ client[c].back # "poll" /\ client[c].step = "kickoff"
        /\ Up /\ UNCHANGED <<holder, api>>
    BY <1>17 DEF Kickoff
  <2>2. ClientReturns(c) \/ ClientDone(c) \/ ClientGoes(c, "unclaim")
    <3> HIDE DEF ClientReturns, ClientDone, ClientGoes
    <3> QED BY <1>17 DEF Kickoff
  <2>3. CASE client[c].back = "idle" /\ ClientReturns(c)
    BY <2>1, <2>3
  <2>4. CASE client[c].back = "rejectDetach" /\ ClientReturns(c)
    BY <2>1, <2>4
  <2>5. CASE ClientDone(c) \/ ClientGoes(c, "unclaim")
    BY <2>1, <2>5
  <2> HIDE DEF ClientReturns, ClientDone, ClientGoes
  <2> QED BY <2>1, <2>2, <2>3, <2>4, <2>5
<1>18. CASE DropUnclaimed(c)
  BY <1>18 DEF DropUnclaimed
<1>19. CASE SignalWorker(c)
  BY <1>19 DEF SignalWorker
<1>20. CASE SettleSession(c)
  BY <1>20 DEF SettleSession
<1>21. CASE AwaitQuiescence(c)
  <2>1. CASE client[c].back = "poll"
    BY <1>21, <2>1 DEF AwaitQuiescence
  <2>2. CASE client[c].back = "idle"
    BY <1>21, <2>2 DEF AwaitQuiescence
  <2>3. CASE client[c].back = "rejectDetach"
    BY <1>21, <2>3 DEF AwaitQuiescence
  <2> QED BY <2>1, <2>2, <2>3
<1>22. CASE KeepRelease(c)
  BY <1>22 DEF KeepRelease
<1>23. CASE KeepPointer(c)
  BY <1>23 DEF KeepPointer
<1>24. CASE RejectDetach(c)
  BY <1>24 DEF RejectDetach
<1>25. CASE RejectMark(c)
  BY <1>25 DEF RejectMark
<1>26. CASE Detach(c)
  BY <1>26 DEF Detach
<1>27. CASE Erase(c)
  BY <1>27 DEF Erase
<1>28. CASE Verdict(c)
  BY <1>28 DEF Verdict
<1>29. CASE Forward(c)
  BY <1>29 DEF Forward
<1>30. CASE Advance(c)
  BY <1>30 DEF Advance
<1>31. CASE Gate(c)
  BY <1>31 DEF Gate
<1>32. CASE Drain(c)
  <2>1. client[c].step = "drain" /\ Up /\ UNCHANGED <<holder, api>>
    BY <1>32 DEF Drain
  <2>2. CASE Quiescent /\ ClientGoes(c, "begin")
    BY <2>1, <2>2
  <2>3. ASSUME NEW d \in Deployments,
               ClientTakes(c, [client[c] EXCEPT !.step = "signal", !.target = d, !.back = "poll"])
        PROVE  ControlEffect(c)
    BY <2>1, <2>3
  <2>4. CASE ClientGoes(c, "poll")
    BY <2>1, <2>4
  <2> HIDE DEF ClientTakes, ClientGoes
  <2> QED BY <1>32, <2>2, <2>3, <2>4 DEF Drain
<1>33. CASE Poll(c)
  BY <1>33 DEF Poll
<1>34. CASE BeginCleanup(c)
  BY <1>34 DEF BeginCleanup
<1>35. CASE Destroy(c)
  BY <1>35 DEF Destroy
<1>36. CASE DropProject(c)
  BY <1>36 DEF DropProject
<1>37. CASE ReleaseFence(c)
  BY <1>37 DEF ReleaseFence
<1>38. CASE RetainFence(c)
  BY <1>38 DEF RetainFence
<1>39. CASE RefuseTeardown(c)
  BY <1>39 DEF RefuseTeardown
<1> QED
  BY <1>3, <1>4, <1>5, <1>6, <1>7, <1>8, <1>9, <1>10, <1>11, <1>12, <1>13, <1>14, <1>15,
     <1>16, <1>17, <1>18, <1>19, <1>20, <1>21, <1>22, <1>23, <1>24, <1>25, <1>26, <1>27,
     <1>28, <1>29, <1>30, <1>31, <1>32, <1>33, <1>34, <1>35, <1>36, <1>37, <1>38, <1>39
     DEF Request, ClientNext, CreateNext, CancelNext, DecideNext, DeleteNext, ReconcileNext,
         TeardownNext

(* What a calm request step does to rows and workers. *)
RowEffect == Calm /\ LeasesKept /\ worker' = worker

(* What a request step may do to the deletion fence. *)
FenceEffect(c) ==
  \/ FenceKept
  \/ holder \in {NoClient, c} /\ (client'[c] = IdleClient \/ (exists' /\ deleting'))

(***************************************************************************)
(* Of the steps of request handlers only the insert of a row, the insert   *)
(* of its session, the claim and the hard delete are more than calm; and   *)
(* the fence is moved only under the project lock, by a handler that       *)
(* leaves it up or ends.                                                   *)
(***************************************************************************)
LEMMA RowEffects ==
  ASSUME TypeOK, NEW c \in Clients, LockFor(c), Request(c) \/ ClientNext(c),
         ~InsertDeployment(c), ~InsertSession(c), ~Kickoff(c), ~DropProject(c)
  PROVE  RowEffect /\ FenceEffect(c)
<1> USE CalmTransactions, HandlerTypes
    DEF Quiet, TypeOK, RowEffect, FenceEffect, workerVars, WriteFails, LeasesKept,
        WinCancellation
<1>1. CASE RequestDeploy(c)
  BY <1>1 DEF RequestDeploy
<1>2. CASE RequestRollback(c)
  BY <1>2 DEF RequestRollback
<1>3. CASE StartBuild(c)
  BY <1>3 DEF StartBuild
<1>4. CASE RequestCancel(c)
  BY <1>4 DEF RequestCancel
<1>5. CASE RequestKeep(c)
  BY <1>5 DEF RequestKeep
<1>6. CASE RequestReject(c)
  BY <1>6 DEF RequestReject
<1>7. CASE RequestDelete(c)
  BY <1>7 DEF RequestDelete
<1>8. CASE RequestReconcile(c)
  BY <1>8 DEF RequestReconcile
<1>9. CASE RequestTeardown(c)
  BY <1>9
     DEF RequestTeardown, ClaimTeardown, ClaimDeletion, Acquire, Calm, Pinned, rowVars,
         sessionVars, StoreTypeOK, Listed, InFlight, LeaseHeld
<1>10. CASE UndoInsert(c)
  BY <1>10, "session" \in TargetSteps DEF UndoInsert, TargetSteps, CreateSteps
<1>11. CASE RetireReconciling(c)
  BY <1>11 DEF RetireReconciling, TargetSteps, CreateSteps
<1>12. CASE RetireDecisions(c)
  BY <1>12 DEF RetireDecisions, TargetSteps, CreateSteps
<1>13. CASE DropUnclaimed(c)
  BY <1>13 DEF DropUnclaimed, TargetSteps
<1>14. CASE SignalWorker(c)
  BY <1>14 DEF SignalWorker
<1>15. CASE SettleSession(c)
  BY <1>15 DEF SettleSession, TargetSteps, CancelSteps
<1>16. CASE AwaitQuiescence(c)
  BY <1>16 DEF AwaitQuiescence
<1>17. CASE KeepRelease(c)
  BY <1>17 DEF KeepRelease, TargetSteps, Statuses, ShippedStatuses, InFlightStatuses
<1>18. CASE KeepPointer(c)
  BY <1>18 DEF KeepPointer
<1>19. CASE RejectDetach(c)
  BY <1>19 DEF RejectDetach
<1>20. CASE RejectMark(c)
  BY <1>20 DEF RejectMark, Statuses, ShippedStatuses, InFlightStatuses
<1>21. CASE Detach(c)
  BY <1>21 DEF Detach
<1>22. CASE Erase(c)
  BY <1>22 DEF Erase, TargetSteps, DeleteSteps
<1>23. CASE Verdict(c)
  BY <1>23 DEF Verdict, TargetSteps, ReconcileSteps, Statuses, ShippedStatuses, InFlightStatuses
<1>24. CASE Forward(c)
  BY <1>24 DEF Forward
<1>25. CASE Advance(c)
  BY <1>25 DEF Advance
<1>26. CASE Gate(c)
  BY <1>26 DEF Gate
<1>27. CASE Drain(c)
  BY <1>27 DEF Drain
<1>28. CASE Poll(c)
  BY <1>28 DEF Poll
<1>29. CASE BeginCleanup(c)
  BY <1>29
     DEF BeginCleanup, BeginDeletionCleanup, FenceKept, Calm, Pinned, rowVars, sessionVars,
         Listed, InFlight, LeaseHeld
<1>30. CASE Destroy(c)
  BY <1>30 DEF Destroy
<1>31. CASE ReleaseFence(c) \/ RetainFence(c)
  <2>1. client[c].step \in TeardownSteps /\ ClientDone(c) /\ worker' = worker
    BY <1>31 DEF ReleaseFence, RetainFence, ClientAt, TeardownSteps
  <2>2. holder = c
    BY <2>1 DEF LockFor, Locked, InTeardown
  <2>3. client'[c] = IdleClient
    BY <2>1 DEF ClientDone, ClientTakes, ClientTypeOK
  <2>4. UNCHANGED <<rowVars, sessionVars>>
    BY <1>31
       DEF ReleaseFence, RetainFence, ClearDeletionInProgress, MarkDeletionFailed, storeVars
  <2>5. Calm /\ LeasesKept
    BY <2>4 DEF Calm, Pinned, rowVars, sessionVars, Listed, InFlight, LeaseHeld
  <2> QED BY <2>1, <2>2, <2>3, <2>5
<1>32. CASE RefuseTeardown(c)
  BY <1>32 DEF RefuseTeardown
<1> QED
  BY <1>1, <1>2, <1>3, <1>4, <1>5, <1>6, <1>7, <1>8, <1>9, <1>10, <1>11, <1>12, <1>13, <1>14,
     <1>15, <1>16, <1>17, <1>18, <1>19, <1>20, <1>21, <1>22, <1>23, <1>24, <1>25, <1>26,
     <1>27, <1>28, <1>29, <1>30, <1>31, <1>32
     DEF Request, ClientNext, CreateNext, CancelNext, DecideNext, DeleteNext, ReconcileNext,
         TeardownNext

(***************************************************************************)
(* What is left to show of a request step once its control state is        *)
(* settled.                                                                *)
(***************************************************************************)
StoreEffect ==
  /\ Pinned /\ WorkerLeased' /\ OneListed' /\ UnbornUnleased'
  /\ \A b \in Clients : FreshFor(b)' /\ FenceFor(b)'

(***************************************************************************)
(* A handler about to insert a build session has a deployment to insert it *)
(* for.                                                                    *)
(***************************************************************************)
LEMMA SessionTargets ==
  ASSUME TypeOK, NEW b \in Clients, client[b].step = "session"
  PROVE  client[b].target \in Deployments
BY DEF TypeOK, ClientTypeOK, ClientStates, TargetSteps, CreateSteps

(***************************************************************************)
(* A calm step of a request preserves what the invariant says of rows,     *)
(* leases and fences.                                                      *)
(***************************************************************************)
LEMMA CalmSteps ==
  ASSUME IInv, NEW c \in Clients, ControlEffect(c), RowEffect, FenceEffect(c),
         ~InsertDeployment(c)
  PROVE  StoreEffect
<1>1. WorkerLeased'
  BY DEF IInv, WorkerLeased, RowEffect, LeasesKept, Working
<1>2. OneListed' /\ UnbornUnleased'
  BY DEF IInv, OneListed, UnbornUnleased, RowEffect, Calm
<1>3. Quiescent => Quiescent'
  BY DEF Quiescent, RowEffect, Calm
<1>4. ASSUME NEW b \in Clients PROVE FreshFor(b)'
  BY SessionTargets DEF IInv, FreshFor, ControlEffect, RowEffect, Calm
<1>5. ASSUME NEW b \in Clients PROVE FenceFor(b)'
  <2>1. CASE b # c
    <3>1. client'[b] = client[b] /\ FenceFor(b) /\ (InTeardown(b) => holder = b)
      BY <2>1 DEF IInv, LockFor, Locked, ControlEffect
    <3>2. InTeardown(b) => FenceKept
      BY <2>1, <3>1, ClientsAssumption DEF FenceEffect
    <3> QED BY <1>3, <3>1, <3>2 DEF FenceFor, InTeardown, Destroying, FenceKept
  <2>2. CASE b = c
    <3>1. InTeardown(c)' => exists' /\ deleting'
      <4>1. CASE client'[c] = IdleClient
        BY <4>1 DEF InTeardown, IdleClient, TeardownSteps
      <4>2. CASE client'[c] # IdleClient
        BY <4>2 DEF IInv, FenceFor, FenceEffect, FenceKept, ControlEffect
      <4> QED BY <4>1, <4>2
    <3>2. Destroying(c)' => Quiescent'
      BY <1>3 DEF IInv, FenceFor, ControlEffect, Destroying, InTeardown, TeardownSteps
    <3> QED BY <2>2, <3>1, <3>2 DEF FenceFor
  <2> QED BY <2>1, <2>2
<1> QED BY <1>1, <1>2, <1>4, <1>5 DEF StoreEffect, RowEffect, Calm

(***************************************************************************)
(* The insert of a deployment row: it needs an open project with nothing   *)
(* listed, so the new row is the only one listed and no teardown is past   *)
(* its claim.                                                              *)
(***************************************************************************)
LEMMA InsertSteps ==
  ASSUME IInv, NEW c \in Clients, ControlEffect(c), InsertDeployment(c)
  PROVE  StoreEffect
<1>1. holder = NoClient /\ worker' = worker
  BY DEF InsertDeployment, workerVars
<1>2. \A b \in Clients : ~InTeardown(b)
  BY <1>1, ClientsAssumption DEF IInv, LockFor, Locked
<1>3. UNCHANGED <<exists, deleting, lease>>
  BY DEF InsertDeployment, CreateDeployment, storeVars, projectVars, sessionVars
<1>4. \A b \in Clients : FenceFor(b)'
  <2>1. ASSUME NEW b \in Clients PROVE ~InTeardown(b)'
    <3>1. CASE b # c
      BY <1>2, <3>1 DEF ControlEffect, InTeardown
    <3>2. CASE b = c
      <4>1. client[c] \in ClientRecords /\ client[c].back # "poll"
        BY <1>2 DEF InTeardown, IInv, TypeOK, ClientTypeOK, ClientStates
      <4>2. CASE ClientDone(c)
        BY <3>2, <4>2
           DEF ClientDone, ClientTakes, IdleClient, InTeardown, TeardownSteps, IInv, TypeOK,
               ClientTypeOK
      <4>3. ASSUME NEW d \in Deployments,
                   ClientTakes(c, [client[c] EXCEPT !.step = "session", !.target = d])
            PROVE  ~InTeardown(b)'
        BY <3>2, <4>1, <4>3
           DEF ClientTakes, InTeardown, TeardownSteps, ClientRecords, IInv, TypeOK, ClientTypeOK
      <4> QED BY <4>2, <4>3 DEF InsertDeployment, RefuseInsert
    <3> QED BY <3>1, <3>2
  <2> QED BY <2>1 DEF FenceFor
<1>5. WorkerLeased'
  BY <1>1, <1>3 DEF IInv, WorkerLeased, Working, LeaseHeld
<1>6. ASSUME NEW d \in Deployments,
             CreateDeployment(d, client[c].wanted, client[c].seen, client[c].carried),
             ClientTakes(c, [client[c] EXCEPT !.step = "session", !.target = d])
      PROVE  StoreEffect
  <2>1. status[d] = "unborn" /\ status' = [status EXCEPT ![d] = "queued"]
    BY <1>6 DEF CreateDeployment, NextRow
  <2>2. OneListed' /\ UnbornUnleased'
    BY <1>3, <1>6, <2>1 
       DEF IInv, TypeOK, StoreTypeOK, OneListed, UnbornUnleased, CreateDeployment, MayCreate,
           Listed, InFlight, LeaseHeld
  <2>3. \A b \in Clients : FreshFor(b)'
    BY <1>3, <1>6, <2>1, SessionTargets
       DEF IInv, FreshFor, UnbornUnleased, ControlEffect, ClientTakes, TypeOK, StoreTypeOK,
           ClientTypeOK,
           ClientStates, ClientRecords
  <2>4. Pinned
    BY <2>1 DEF Pinned, IInv, TypeOK, StoreTypeOK
  <2> QED BY <1>4, <1>5, <2>2, <2>3, <2>4 DEF StoreEffect
<1>7. CASE UNCHANGED storeVars /\ RefuseInsert(c)
  <2>1. Calm
    BY <1>7, CalmTransactions DEF Quiet, IInv, TypeOK
  <2>2. OneListed' /\ UnbornUnleased'
    BY <2>1 DEF IInv, OneListed, UnbornUnleased, Calm
  <2>3. client'[c].step # "session"
    BY <1>7 DEF RefuseInsert, ClientDone, ClientTakes, IdleClient, IInv, TypeOK, ClientTypeOK
  <2>4. \A b \in Clients : FreshFor(b)'
    BY <2>1, <2>3, SessionTargets DEF IInv, FreshFor, ControlEffect, Calm
  <2> QED BY <1>4, <1>5, <2>1, <2>2, <2>4 DEF StoreEffect, Calm
<1> QED BY <1>6, <1>7 DEF InsertDeployment

(***************************************************************************)
(* The insert of a build session happens under the lock of the request     *)
(* that inserted the row, on a row that has no lease yet.                  *)
(***************************************************************************)
LEMMA SessionSteps ==
  ASSUME IInv, NEW c \in Clients, ControlEffect(c), InsertSession(c)
  PROVE  StoreEffect
<1>1. /\ client[c].step = "session" /\ client[c].target \in Deployments
      /\ worker' = worker /\ ~InsertDeployment(c)
  BY SessionTargets DEF IInv, InsertSession, InsertDeployment, ClientAt, workerVars
<1>2. FreshFor(c) /\ FenceFor(c)
  BY DEF IInv
<1>3. CASE CreateBuildSession(client[c].target)
  <2>1. /\ lease' = [lease EXCEPT ![client[c].target] = "unclaimed"]
        /\ UNCHANGED <<status, exists, deleting>>
    BY <1>3 DEF CreateBuildSession, rowVars, projectVars
  <2>2. \A e \in Deployments : Listed(e)' <=> Listed(e)
    BY <1>1, <1>2, <2>1 DEF Listed, InFlight, LeaseHeld, FreshFor, IInv, TypeOK, StoreTypeOK
  <2>3. WorkerLeased' /\ OneListed' /\ UnbornUnleased'
    BY <1>1, <1>2, <2>1, <2>2
       DEF IInv, TypeOK, StoreTypeOK, WorkerLeased, Working, LeaseHeld, OneListed,
           UnbornUnleased, FreshFor
  <2>4. ASSUME NEW b \in Clients, b # c PROVE client[b].step # "session" /\ ~InTeardown(b)
    BY <1>1, <2>4 DEF IInv, LockFor, Locked, CreateSteps
  <2>5. \A b \in Clients : FreshFor(b)'
    BY <1>1, <2>4 DEF FreshFor, ControlEffect
  <2>6. \A b \in Clients : FenceFor(b)'
    <3>1. ~InTeardown(c)
      BY <1>1 DEF IInv, LockFor, InTeardown, CancelSteps, TeardownSteps
    <3>2. ~InTeardown(c)'
      BY <1>1, <3>1
         DEF InsertSession, ClientGoes, ClientTakes, InTeardown, TeardownSteps, IInv, TypeOK,
             ClientTypeOK,
             ClientStates, ClientRecords
    <3>3. ASSUME NEW b \in Clients, b # c PROVE ~InTeardown(b)'
      BY <2>4, <3>3 DEF ControlEffect, InTeardown
    <3> QED BY <3>2, <3>3 DEF FenceFor
  <2> QED BY <2>1, <2>3, <2>5, <2>6 DEF StoreEffect, Pinned
<1>4. CASE WriteFails
  <2>1. RowEffect /\ FenceEffect(c)
    BY <1>1, <1>4, CalmTransactions DEF Quiet, IInv, TypeOK, WriteFails, RowEffect, FenceEffect
  <2> QED BY <1>1, <2>1, CalmSteps
<1> QED BY <1>3, <1>4 DEF InsertSession

(***************************************************************************)
(* The claim of an execution needs an open project and a deployment        *)
(* already listed, so the new worker is alone and no teardown is past its  *)
(* claim.                                                                  *)
(***************************************************************************)
LEMMA KickoffSteps ==
  ASSUME IInv, NEW c \in Clients, ControlEffect(c), Kickoff(c)
  PROVE  StoreEffect
<1> DEFINE d == client[c].target
<1>1. d \in Deployments /\ ~InsertDeployment(c)
  BY DEF Kickoff, InsertDeployment, ClientAt, IInv, TypeOK, ClientTypeOK, ClientStates,
         TargetSteps
<1>2. CASE ClaimBuildExecution(d) /\ worker' = [worker EXCEPT ![d] = "start"]
  <2>1. /\ lease[d] = "unclaimed" /\ status[d] \in {"queued", "building"}
        /\ status' = [status EXCEPT ![d] = "building"]
        /\ lease' = [lease EXCEPT ![d] = "held"]
        /\ ~deleting /\ deleting' = deleting
    BY <1>2 DEF ClaimBuildExecution, Claimable, Admitting, projectVars
  <2> HIDE DEF d
  <2>2. \A e \in Deployments : Listed(e)' => Listed(e)
    BY <2>1 DEF Listed, InFlight, LeaseHeld, InFlightStatuses, IInv, TypeOK, StoreTypeOK
  <2>3. OneListed' /\ UnbornUnleased'
    BY <2>1, <2>2 DEF IInv, TypeOK, StoreTypeOK, OneListed, UnbornUnleased
  <2>4. WorkerLeased'
    BY <1>2, <2>1 DEF IInv, TypeOK, StoreTypeOK, WorkerTypeOK, WorkerLeased, Working, LeaseHeld
  <2>5. ASSUME NEW b \in Clients PROVE FreshFor(b)'
    <3>1. client'[b].step = "session" =>
            b # c /\ client'[b] = client[b] /\ client[b].target \in Deployments
      BY <1>1, SessionTargets DEF IInv, ControlEffect
    <3> QED BY <2>1, <3>1 DEF IInv, FreshFor, TypeOK, StoreTypeOK
  <2>6. ASSUME NEW b \in Clients PROVE FenceFor(b)'
    BY <2>1 DEF IInv, FenceFor, ControlEffect, InTeardown
  <2>7. Pinned
    BY <2>1 DEF Pinned, IInv, TypeOK, StoreTypeOK
  <2> QED BY <2>3, <2>4, <2>5, <2>6, <2>7 DEF StoreEffect
<1>3. CASE UNCHANGED <<storeVars, worker>>
  <2>1. RowEffect /\ FenceEffect(c)
    BY <1>3, CalmTransactions DEF Quiet, IInv, TypeOK, RowEffect, FenceEffect
  <2> QED BY <1>1, <2>1, CalmSteps
<1> QED BY <1>2, <1>3 DEF Kickoff

(***************************************************************************)
(* The hard delete comes after the quiescence gate, so no worker loses its *)
(* lease to it.                                                            *)
(***************************************************************************)
LEMMA DropSteps ==
  ASSUME IInv, NEW c \in Clients, ControlEffect(c), DropProject(c)
  PROVE  StoreEffect
<1>1. client[c].step = "drop" /\ worker' = worker /\ ~InsertDeployment(c)
  BY DEF DropProject, InsertDeployment, ClientAt, workerVars
<1>2. holder = c /\ Quiescent
  BY <1>1 DEF IInv, LockFor, FenceFor, Locked, InTeardown, Destroying, TeardownSteps
<1>3. CASE DeleteHard /\ ClientDone(c)
  <2>1. \A e \in Deployments : lease'[e] = "none" /\ status'[e] \in {"unborn", "deleted"}
    BY <1>3 DEF DeleteHard, RowExists
  <2>2. \A e \in Deployments : ~Working(e)
    BY <1>2 DEF IInv, WorkerLeased, Quiescent, Listed
  <2>3. WorkerLeased' /\ OneListed' /\ UnbornUnleased'
    BY <1>1, <2>1, <2>2
       DEF WorkerLeased, Working, OneListed, UnbornUnleased, Listed, InFlight, LeaseHeld,
           InFlightStatuses
  <2>4. ASSUME NEW b \in Clients PROVE client'[b].step # "session" /\ ~InTeardown(b)'
    <3>1. CASE b = c
      BY <1>3, <3>1
         DEF ClientDone, ClientTakes, IdleClient, InTeardown, TeardownSteps, IInv, TypeOK,
             ClientTypeOK
    <3>2. CASE b # c
      BY <1>2, <3>2 DEF IInv, LockFor, Locked, CreateSteps, ControlEffect, InTeardown
    <3> QED BY <3>1, <3>2
  <2>5. Pinned
    BY <1>3 DEF Pinned, DeleteHard, RowExists
  <2> QED BY <2>3, <2>4, <2>5 DEF StoreEffect, FreshFor, FenceFor
<1>4. CASE WriteFails
  <2>1. RowEffect /\ FenceEffect(c)
    BY <1>1, <1>4, CalmTransactions DEF Quiet, IInv, TypeOK, WriteFails, RowEffect, FenceEffect
  <2> QED BY <1>1, <2>1, CalmSteps
<1> QED BY <1>3, <1>4 DEF DropProject

(***************************************************************************)
(* A step of a request handler preserves the inductive invariant and every *)
(* cancellation.                                                           *)
(***************************************************************************)
LEMMA ClientStep ==
  ASSUME IInv, NEW c \in Clients, Request(c) \/ ClientNext(c)
  PROVE  IInv' /\ Pinned
<1>1. TypeOK'
  BY RequestTypes, ClientStepTypes DEF IInv
<1>2. ControlEffect(c)
  BY ControlEffects DEF IInv
<1>3. AllStopped'
  BY <1>2 DEF ControlEffect, AllStopped, Up
<1>4. ASSUME NEW b \in Clients PROVE LockFor(b)'
  BY <1>2, <1>4, ClientsAssumption DEF IInv, LockFor, Locked, InTeardown, ControlEffect
<1>5. StoreEffect
  <2>1. CASE InsertDeployment(c)
    BY <1>2, <2>1, InsertSteps
  <2>2. CASE InsertSession(c)
    BY <1>2, <2>2, SessionSteps
  <2>3. CASE Kickoff(c)
    BY <1>2, <2>3, KickoffSteps
  <2>4. CASE DropProject(c)
    BY <1>2, <2>4, DropSteps
  <2>5. CASE ~InsertDeployment(c) /\ ~InsertSession(c) /\ ~Kickoff(c) /\ ~DropProject(c)
    BY <1>2, <2>5, RowEffects, CalmSteps DEF IInv
  <2> QED BY <2>1, <2>2, <2>3, <2>4, <2>5
<1> QED BY <1>1, <1>3, <1>4, <1>5 DEF IInv, StoreEffect

(***************************************************************************)
(* The loss of the process, and each statement of the boot sweep after it, *)
(* preserve the inductive invariant and every cancellation.                *)
(***************************************************************************)
LEMMA HostStep ==
  ASSUME IInv, BootNext \/ Crash
  PROVE  IInv' /\ Pinned
<1>1. TypeOK'
  BY HostStepTypes DEF IInv
<1>2. CASE BootNext
  <2>1. ~Up /\ UNCHANGED <<worker, client, holder>>
    BY <1>2 DEF BootNext, BootDeployments, BootSessions, BootLeases, Up, workerVars, clientVars
  <2>2. Calm
    BY <1>2, CalmTransactions
       DEF Quiet, BootNext, BootDeployments, BootSessions, BootLeases, IInv, TypeOK
  <2>3. /\ \A d \in Deployments : ~Working(d)
        /\ \A c \in Clients : client[c] = IdleClient
    BY <2>1 DEF IInv, AllStopped
  <2>4. AllStopped' /\ WorkerLeased'
    BY <2>1, <2>3 DEF AllStopped, WorkerLeased, Working
  <2>5. \A c \in Clients : (LockFor(c) /\ FreshFor(c) /\ FenceFor(c))'
    BY <2>1, <2>3 
       DEF LockFor, Locked, InTeardown, FreshFor, FenceFor, IdleClient, CreateSteps,
           DeleteSteps,
           ReconcileSteps, TeardownSteps
  <2>6. OneListed' /\ UnbornUnleased'
    BY <2>2 DEF IInv, OneListed, UnbornUnleased, Calm
  <2> QED BY <1>1, <2>2, <2>4, <2>5, <2>6 DEF IInv, Calm
<1>3. CASE Crash
  <2>1. /\ UNCHANGED storeVars
        /\ worker' = [d \in Deployments |-> "off"]
        /\ client' = [c \in Clients |-> IdleClient]
    BY <1>3 DEF Crash
  <2>2. AllStopped' /\ WorkerLeased'
    BY <2>1 DEF AllStopped, WorkerLeased, Working
  <2>3. \A c \in Clients : (LockFor(c) /\ FreshFor(c) /\ FenceFor(c))'
    BY <2>1
       DEF LockFor, Locked, InTeardown, FreshFor, FenceFor, IdleClient, CreateSteps,
           DeleteSteps,
           ReconcileSteps, TeardownSteps
  <2>4. Calm
    BY <2>1, CalmTransactions DEF Quiet, IInv, TypeOK
  <2>5. OneListed' /\ UnbornUnleased'
    BY <2>4 DEF IInv, OneListed, UnbornUnleased, Calm
  <2> QED BY <1>1, <2>2, <2>3, <2>4, <2>5 DEF IInv, Calm
<1> QED BY <1>2, <1>3

(***************************************************************************)
(* Lock, lease and fence agree at every moment, for any number of          *)
(* deployments, requests, restarts and failed writes: the invariant the    *)
(* safety theorems below follow from.                                      *)
(***************************************************************************)
THEOREM Inductive == Spec => []IInv
<1>1. Init => IInv
  BY InitialTypes
  DEF Init, StoreInit, IInv, AllStopped, WorkerLeased, OneListed, UnbornUnleased, LockFor,
      FreshFor, FenceFor,
       Locked, InTeardown, IdleClient, CreateSteps, DeleteSteps, ReconcileSteps,
       TeardownSteps, Up, Working,
       Listed, InFlight, LeaseHeld, InFlightStatuses
<1>2. IInv /\ [Next]_vars => IInv'
  <2>1. ASSUME IInv, UNCHANGED vars PROVE IInv'
    <3>1. TypeOK'
      BY <2>1, StutterTypes DEF IInv
    <3>2. UNCHANGED <<status, lease, exists, deleting, worker, client, holder, api>>
      BY <2>1
         DEF vars, storeVars, rowVars, sessionVars, projectVars, workerVars, clientVars,
             hostVars
    <3> QED
      BY <2>1, <3>1, <3>2
         DEF IInv, AllStopped, WorkerLeased, OneListed, UnbornUnleased, LockFor, FreshFor,
             FenceFor, Locked,
             InTeardown, Up, Working, Listed, InFlight, LeaseHeld, Destroying, Quiescent
  <2> QED BY <2>1, WorkerStep, ClientStep, HostStep DEF Next
<1> QED BY <1>1, <1>2, PTL DEF Spec

(***************************************************************************)
(* At most one deployment of a project is in flight, leased or executing,  *)
(* however requests, cancellations and restarts interleave.                *)
(***************************************************************************)
THEOREM OneWorkerAtATime == Spec => []OneWorker
<1>1. IInv => OneWorker
  BY DEF IInv, WorkerLeased, OneListed, OneWorker, Busy, Listed
<1> QED BY <1>1, Inductive, PTL

(***************************************************************************)
(* A teardown that is past its gate destroys resources behind a fence,     *)
(* with no deployment in flight, leased or executing.                      *)
(***************************************************************************)
THEOREM CleanupExcludesWorkers == Spec => []CleanupQuiescent
<1>1. IInv => CleanupQuiescent
  BY DEF IInv, FenceFor, InTeardown, Destroying, TeardownSteps, Quiescent, WorkerLeased,
         CleanupQuiescent, Busy, Listed
<1> QED BY <1>1, Inductive, PTL

(***************************************************************************)
(* No late outcome of a worker, no reconcile, keep or reject and no boot   *)
(* sweep ever takes a cancelled deployment out of its status; only its     *)
(* deletion does.                                                          *)
(***************************************************************************)
THEOREM CancellationIsFinal == Spec => CancelledFinal
<1>1. IInv /\ [Next]_vars =>
        [\A d \in Deployments :
           status[d] = "cancelled" => status'[d] \in {"cancelled", "deleted"}]_vars
  BY WorkerStep, ClientStep, HostStep DEF Next, Pinned
<1> QED BY <1>1, Inductive, PTL DEF Spec, CancelledFinal

=============================================================================
