----------------------------- MODULE RoleHandover -----------------------------
(***************************************************************************)
(* The handover of worker and scheduler containers (roles) from one        *)
(* release of a project to the next:                                       *)
(*   - the rollout of the deploy worker (rolloutRoles and the part of      *)
(*     executeServerDeploy around it), which writes a durable journal      *)
(*     ahead of what it does to the host;                                  *)
(*   - the recovery of a journal left open (recoverProjectRoleHandovers),  *)
(*     by the worker itself, by the reconcile sweep or by a deletion;      *)
(*   - the user who deploys, cancels and deletes.                          *)
(*                                                                         *)
(* All of them hold the runtime lock of the project while they touch the   *)
(* host, so at most one rollout or recovery is under way; a cancellation   *)
(* takes no lock. A request to the host ends, or fails without telling     *)
(* what it did: then its effect may still come, until a later request on   *)
(* the same container has ended.                                           *)
(***************************************************************************)
EXTENDS Naturals, FiniteSets

CONSTANTS
  Deployments,   \* the releases of one project, in the order of their creation
  Declared,      \* [Deployments -> sets of roles]
  Overlapping,   \* releases whose web container starts beside the old one
  Serving,       \* the release that serves at the start
  None,
  MaxFaults      \* bound on failed requests and checks, crashes, lost writes

ASSUME DeploymentsAssumption ==
  /\ Deployments \subseteq Nat
  /\ Overlapping \subseteq Deployments
  /\ Serving \in Deployments
  /\ \A d \in Deployments : Serving <= d
  /\ None \notin Deployments
  /\ MaxFaults \in Nat

(* A role has a name of its own in its release; "web" names the web container. *)
ASSUME RolesAssumption ==
  \A d \in Deployments :
    /\ Declared[d] # {}
    /\ \A r \in Declared[d] : r.singleton \in BOOLEAN /\ r.name # "web"
    /\ \A r, s \in Declared[d] : r.name = s.name => r = s

(* One replica of each role, and the web container. *)
RoleContainers(d) == {<<d, r.name>> : r \in Declared[d]}
Web(d) == <<d, "web">>
Candidates(d) == RoleContainers(d) \cup {Web(d)}
AllRoles == UNION {RoleContainers(d) : d \in Deployments}
Containers == UNION {Candidates(d) : d \in Deployments}
RoleOf(c) == CHOOSE r \in Declared[c[1]] : r.name = c[2]

Statuses == {"none", "deploying", "ready", "failed", "cancelled", "reconciling", "deleted"}
Phases == {"none", "preparing", "committing", "kept", "complete"}
States == {"none", "created", "running", "stopped"}
Requests == {"start", "stop", "destroy"}

(* Where the deploy worker is: the stages of the rollout, the web pipeline, *)
(* the commit and the ways a rollout fails.                                 *)
Stages == <<"first", "outgoing", "later", "singletons", "web">>
InStage == {Stages[i] : i \in 1 .. 4}
Steps == {"none", "waiting"} \cup {Stages[i] : i \in 1 .. 5}
  \cup {"activating", "checking", "publishing", "retiring", "retired", "warned"}
  \cup {"reverting", "yielding", "reverted", "yielded"}
  \cup {"keeping", "unwinding", "restarting", "settling"}
  \cup {"recovering", "done"}

RecoverySteps == {"none", "undoing", "advancing", "finishing", "cleaning"}

VARIABLES
  row,         \* deployment rows: status, keep (cancelled, containers kept), roles
  live,        \* the active deployment of the project
  journal,     \* the journal of each deployment (roleHandover)
  container,   \* what the host runs
  late,        \* requests that failed and may still take effect
  worker,      \* the deployment whose worker holds an open lease
  step,        \* where that worker is
  started,     \* the containers its rollout has created
  retained,    \* the previous containers it has stopped
  signalled,   \* the worker knows that it is cancelled
  recovery,    \* where the recovery under way is
  target,      \* the deployment it is about
  discarding,  \* it is part of a deletion
  restored,    \* the previous containers it has started again
  cleaned,     \* deployments whose containers a deletion has removed
  faults

workerVars == <<worker, step, started, retained, signalled>>
recoveryVars == <<recovery, target, discarding, restored>>
hostVars == <<container, late, faults>>
vars == <<row, live, journal, hostVars, workerVars, recoveryVars, cleaned>>

Rows == [status : Statuses, keep : BOOLEAN, roles : SUBSET AllRoles]
Journals == [phase : Phases, previous : Deployments \cup {None},
             stopped : SUBSET AllRoles, stopsWeb : BOOLEAN, served : BOOLEAN]

TypeOK ==
  /\ row \in [Deployments -> Rows]
  /\ live \in Deployments \cup {None}
  /\ journal \in [Deployments -> Journals]
  /\ container \in [Containers -> States]
  /\ late \in [Containers -> SUBSET Requests]
  /\ worker \in Deployments \cup {None}
  /\ step \in Steps
  /\ started \in SUBSET AllRoles
  /\ retained \in SUBSET Containers
  /\ signalled \in BOOLEAN
  /\ recovery \in RecoverySteps
  /\ target \in Deployments \cup {None}
  /\ discarding \in BOOLEAN
  /\ restored \in SUBSET Containers
  /\ cleaned \in SUBSET Deployments
  /\ faults \in 0 .. MaxFaults

NoJournal == [phase |-> "none", previous |-> None, stopped |-> {},
              stopsWeb |-> FALSE, served |-> FALSE]

(* The first release serves; the others are not created yet. *)
Init ==
  /\ row = [d \in Deployments |->
       IF d = Serving
         THEN [status |-> "ready", keep |-> FALSE, roles |-> RoleContainers(d)]
         ELSE [status |-> "none", keep |-> FALSE, roles |-> {}]]
  /\ live = Serving
  /\ journal = [d \in Deployments |-> NoJournal]
  /\ container = [c \in Containers |-> IF c[1] = Serving THEN "running" ELSE "none"]
  /\ late = [c \in Containers |-> {}]
  /\ worker = None /\ step = "none" /\ started = {} /\ retained = {} /\ signalled = FALSE
  /\ recovery = "none" /\ target = None /\ discarding = FALSE /\ restored = {}
  /\ cleaned = {}
  /\ faults = 0

-----------------------------------------------------------------------------
(* The host. *)

(* What a request makes of a container. *)
After(request, state) ==
  CASE state = "none" -> "none"
    [] state # "none" /\ request = "destroy" -> "none"
    [] state # "none" /\ request = "start" -> "running"
    [] state # "none" /\ request = "stop" ->
         IF state = "running" THEN "stopped" ELSE state

CountFault == faults < MaxFaults /\ faults' = faults + 1

(* The request reaches every container asked, except that for those lost   *)
(* its caller gets an error or no answer, and its effect may come later.   *)
Ask(request, asked, lost) ==
  /\ lost \subseteq asked
  /\ IF lost = {} THEN UNCHANGED faults ELSE CountFault
  /\ container' = [c \in Containers |->
       IF c \in asked \ lost THEN After(request, container[c]) ELSE container[c]]
  /\ late' = [c \in Containers |->
       CASE c \in lost -> late[c] \cup {request}
         [] c \in asked \ lost -> {}
         [] OTHER -> late[c]]

LateEffect(c) ==
  \E request \in late[c] :
    /\ container' = [container EXCEPT ![c] = After(request, container[c])]
    /\ late' = [late EXCEPT ![c] = @ \ {request}]
    /\ UNCHANGED <<row, live, journal, faults, workerVars, recoveryVars, cleaned>>

-----------------------------------------------------------------------------
(* The journal and the plan of a rollout. *)

Pending(d) == journal[d].phase \notin {"none", "complete"}

(* The role containers the previous release of d has recorded. *)
PreviousRoles(d) ==
  IF journal[d].previous = None THEN {} ELSE row[journal[d].previous].roles

PreviousWeb(d) ==
  IF journal[d].previous = None THEN {} ELSE {Web(journal[d].previous)}

(* The roles of d that no role of the same name, kind and command precedes. *)
Changed(d) ==
  IF journal[d].previous = None THEN {} ELSE Declared[d] \ Declared[journal[d].previous]

(* Mutant of Outgoing: a name alone makes a continuation. *)
OutgoingByName(d) ==
  {c \in PreviousRoles(d) :
     Changed(d) # {} /\ RoleOf(c).singleton /\ c[2] \notin {r.name : r \in Declared[d]}}

(* Old singletons that a changed role may replace under another name. *)
Outgoing(d) ==
  {c \in PreviousRoles(d) : Changed(d) # {} /\ RoleOf(c).singleton /\ RoleOf(c) \notin Declared[d]}

SameName(c) == {o \in PreviousRoles(c[1]) : o[2] = c[2]}

(* What the rollout of d starts in each stage... *)
Starts(d) ==
  {c \in RoleContainers(d) :
     LET waits == Outgoing(d) # {} /\ RoleOf(c) \in Changed(d)
     IN CASE step = "first" -> ~RoleOf(c).singleton /\ ~waits
          [] step = "later" -> ~RoleOf(c).singleton /\ waits
          [] step = "singletons" -> RoleOf(c).singleton
          [] OTHER -> FALSE}

(* ... and what it has to stop there. *)
Stops(d) ==
  CASE step = "outgoing" -> Outgoing(d) \ retained
    [] step = "singletons" -> UNION {SameName(c) : c \in Starts(d)} \ retained
    [] OTHER -> {}

(* Created, but neither recorded nor started yet. *)
Unrecorded == started \ (IF worker = None THEN {} ELSE row[worker].roles)

(* Role containers up on the host that the live release does not own. *)
Unknown ==
  {c \in AllRoles : container[c] \in {"created", "running"}}
    \ (IF live = None THEN {} ELSE row[live].roles)

KeepSeen == signalled /\ row[worker].keep

SetPhase(d, phase) == journal' = [journal EXCEPT ![d].phase = phase]

GoTo(next) == step' = next /\ UNCHANGED <<worker, started, retained, signalled>>

-----------------------------------------------------------------------------
(* Users. *)

LockFree == step \in {"none", "waiting"} /\ recovery = "none"

(* create refuses while another deployment runs or a journal is pending. *)
Deploy(d) ==
  /\ row[d].status = "none"
  /\ \A e \in Deployments : e < d => row[e].status # "none"
  /\ worker = None
  /\ \A e \in Deployments : ~Pending(e) /\ row[e].status # "deploying"
  /\ row' = [row EXCEPT ![d].status = "deploying"]
  /\ worker' = d
  /\ step' = "waiting"
  /\ UNCHANGED <<live, journal, hostVars, started, retained, signalled, recoveryVars, cleaned>>

Cancellable(d) == row[d].status = "deploying" /\ journal[d].phase # "committing"

Cancel(d, keep) ==
  /\ Cancellable(d)
  /\ row' = [row EXCEPT ![d].status = "cancelled", ![d].keep = keep]
  /\ UNCHANGED <<live, journal, hostVars, workerVars, recoveryVars, cleaned>>

(* The abort signal reaches the worker: by the handler or by the poll. *)
Signal ==
  /\ worker # None /\ ~signalled
  /\ row[worker].status = "cancelled"
  /\ signalled' = TRUE
  /\ UNCHANGED <<row, live, journal, hostVars, worker, step, started, retained,
                 recoveryVars, cleaned>>

-----------------------------------------------------------------------------
(* The rollout. *)

(* Under the lock: nothing unknown may run before a journal is opened. *)
BeginHandover ==
  /\ step = "waiting" /\ LockFree
  /\ ~signalled /\ Unknown = {}
  /\ journal' = [journal EXCEPT ![worker] =
       [NoJournal EXCEPT !.phase = "preparing", !.previous = live]]
  /\ GoTo("first")
  /\ UNCHANGED <<row, live, hostVars, recoveryVars, cleaned>>

RefuseHandover ==
  /\ step = "waiting" /\ LockFree
  /\ signalled \/ Unknown # {}
  /\ row' = [row EXCEPT ![worker].status = IF @ = "deploying" THEN "failed" ELSE @]
  /\ GoTo("done")
  /\ UNCHANGED <<live, journal, hostVars, recoveryVars, cleaned>>

(* A stage fails: everything stays as it is, or is unwound. *)
FailRoles == step' = IF KeepSeen THEN "keeping" ELSE "unwinding"

(* throwIfDeploymentCancelled, before each start and each stop. *)
Rolling == step \in InStage /\ Unrecorded = {} /\ ~signalled

SeeCancellation ==
  /\ step \in InStage /\ Unrecorded = {} /\ signalled
  /\ FailRoles
  /\ UNCHANGED <<row, live, journal, hostVars, worker, started, retained, signalled,
                 recoveryVars, cleaned>>

CreateReplica(c) ==
  /\ Rolling
  /\ c \in Starts(worker) \ started
  /\ RoleOf(c).singleton => SameName(c) \subseteq retained
  /\ container' = [container EXCEPT ![c] = "created"]
  /\ started' = started \cup {c}
  /\ UNCHANGED <<row, live, journal, late, faults, worker, step, retained, signalled,
                 recoveryVars, cleaned>>

(* The answer is lost: nobody knows whether the container exists. *)
LoseCreate(c) ==
  /\ Rolling
  /\ c \in Starts(worker) \ started
  /\ RoleOf(c).singleton => SameName(c) \subseteq retained
  /\ CountFault
  /\ container' \in {container, [container EXCEPT ![c] = "created"]}
  /\ FailRoles
  /\ UNCHANGED <<row, live, journal, late, worker, started, retained, signalled,
                 recoveryVars, cleaned>>

(* The container is recorded before its process starts; if the start fails *)
(* it is removed at once, as far as that succeeds.                          *)
StartReplica(c) ==
  /\ step \in InStage /\ c \in Unrecorded
  /\ row' = [row EXCEPT ![worker].roles = @ \cup {c}]
  /\ \/ Ask("start", {c}, {}) /\ UNCHANGED step
     \/ Ask("start", {c}, {c}) /\ FailRoles
     \/ /\ CountFault /\ FailRoles
        /\ container' = [container EXCEPT ![c] = "none"]
        /\ UNCHANGED late
  /\ UNCHANGED <<live, journal, worker, started, retained, signalled, recoveryVars, cleaned>>

(* Mutant of RecordStopIntent: the stop is not written down. *)
RecordNothing(d, o) == UNCHANGED journal

RecordStopIntent(d, o) == journal' = [journal EXCEPT ![d].stopped = @ \cup {o}]

(* An old container is retained only once its stop is confirmed. *)
StopPrevious(o) ==
  /\ Rolling
  /\ o \in Stops(worker)
  /\ RecordStopIntent(worker, o)
  /\ \E lost \in SUBSET {o} :
       /\ Ask("stop", {o}, lost)
       /\ retained' = retained \cup ({o} \ lost)
       /\ IF lost = {} THEN UNCHANGED step ELSE FailRoles
  /\ UNCHANGED <<row, live, worker, started, signalled, recoveryVars, cleaned>>

StageOver ==
  /\ step \in InStage
  /\ Unrecorded = {} /\ Starts(worker) \subseteq started /\ Stops(worker) = {}

(* What the stage has started is up, and nobody has cancelled. *)
EndStage ==
  /\ StageOver /\ ~signalled
  /\ \E i \in 1 .. 4 : step = Stages[i] /\ GoTo(Stages[i + 1])
  /\ UNCHANGED <<row, live, journal, hostVars, recoveryVars, cleaned>>

FailCheck ==
  /\ StageOver /\ Starts(worker) # {}
  /\ CountFault
  /\ FailRoles
  /\ UNCHANGED <<row, live, journal, container, late, worker, started, retained, signalled,
                 recoveryVars, cleaned>>

-----------------------------------------------------------------------------
(* The web container (runDeployPipeline under roleHandoverEnvironment). *)

(* A stop-first pipeline reads only at its start whether a cancellation keeps *)
(* the containers: one that comes later has the old web container back first. *)
FailWeb ==
  IF worker \in Overlapping THEN FailRoles
  ELSE step' \in CASE ~KeepSeen -> {"reverting"}
                   [] KeepSeen /\ step = "web" -> {"yielding", "keeping"}
                   [] OTHER -> {"yielding"}

(* Stop-first, best effort: the web container holds a fixed port. *)
StopPreviousWeb ==
  /\ step = "web" /\ ~signalled /\ worker \notin Overlapping
  /\ journal' = [journal EXCEPT ![worker].stopsWeb = PreviousWeb(worker) # {}]
  /\ \E lost \in SUBSET PreviousWeb(worker) :
       /\ Ask("stop", PreviousWeb(worker), lost)
       /\ retained' = retained \cup (PreviousWeb(worker) \ lost)
  /\ step' = "activating"
  /\ UNCHANGED <<row, live, worker, started, signalled, recoveryVars, cleaned>>

OverlapPreviousWeb ==
  /\ step = "web" /\ ~signalled /\ worker \in Overlapping
  /\ GoTo("activating")
  /\ UNCHANGED <<row, live, journal, hostVars, recoveryVars, cleaned>>

ActivateWeb ==
  /\ step = "activating" /\ ~signalled
  /\ container' = [container EXCEPT ![Web(worker)] = "running"]
  /\ journal' = [journal EXCEPT ![worker].served = TRUE]
  /\ GoTo("checking")
  /\ UNCHANGED <<row, live, late, faults, recoveryVars, cleaned>>

LoseActivation ==
  /\ step = "activating" /\ ~signalled
  /\ CountFault
  /\ container' \in {container, [container EXCEPT ![Web(worker)] = "running"]}
  /\ FailWeb
  /\ UNCHANGED <<row, live, journal, late, worker, started, retained, signalled,
                 recoveryVars, cleaned>>

(* Healthy and routed. *)
PassWeb ==
  /\ step = "checking" /\ ~signalled
  /\ GoTo("publishing")
  /\ UNCHANGED <<row, live, journal, hostVars, recoveryVars, cleaned>>

CancelWeb ==
  /\ step \in {"web", "activating", "checking"} /\ signalled
  /\ FailWeb
  /\ UNCHANGED <<row, live, journal, hostVars, worker, started, retained, signalled,
                 recoveryVars, cleaned>>

FailHealth ==
  /\ step = "checking"
  /\ CountFault
  /\ FailWeb
  /\ UNCHANGED <<row, live, journal, container, late, worker, started, retained, signalled,
                 recoveryVars, cleaned>>

-----------------------------------------------------------------------------
(* The commit. *)

(* Mutant of CommitIntent: the old containers go without a written intent. *)
CommitSilently == UNCHANGED journal

CommitIntent == SetPhase(worker, "committing")

(* The publish boundary: a compare-and-set that a cancellation refuses. *)
Commit ==
  /\ step = "publishing"
  /\ row[worker].status # "cancelled"
  /\ CommitIntent
  /\ GoTo("retiring")
  /\ UNCHANGED <<row, live, hostVars, recoveryVars, cleaned>>

CommitRefused ==
  /\ step = "publishing"
  /\ row[worker].status = "cancelled"
  /\ GoTo(IF KeepSeen THEN "done" ELSE "recovering")
  /\ UNCHANGED <<row, live, journal, hostVars, recoveryVars, cleaned>>

(* The web container this deploy has stopped, or overlapped, goes with the *)
(* roles; only a role that stays is a warning.                             *)
RetirePrevious ==
  /\ step = "retiring"
  /\ LET webs == IF worker \in Overlapping THEN PreviousWeb(worker)
                 ELSE PreviousWeb(worker) \cap retained
         asked == PreviousRoles(worker) \cup webs
     IN \E lost \in SUBSET asked :
          /\ Ask("destroy", asked, lost)
          /\ GoTo(IF lost \subseteq webs THEN "retired" ELSE "warned")
  /\ UNCHANGED <<row, live, journal, recoveryVars, cleaned>>

(* onSuccess; the pointer is a second write that may fail. *)
Publish ==
  /\ step \in {"retired", "warned"}
  /\ row' = [row EXCEPT ![worker].status = "ready"]
  /\ \/ /\ live' = worker
        /\ IF step = "retired" THEN SetPhase(worker, "complete") ELSE UNCHANGED journal
        /\ UNCHANGED faults
     \/ CountFault /\ UNCHANGED <<live, journal>>
  /\ GoTo("done")
  /\ UNCHANGED <<container, late, recoveryVars, cleaned>>

(* Something throws between the commit and the outcome. *)
FailPublish ==
  /\ step \in {"retired", "warned"}
  /\ CountFault
  /\ GoTo("recovering")
  /\ UNCHANGED <<row, live, journal, container, late, recoveryVars, cleaned>>

-----------------------------------------------------------------------------
(* A failed rollout. *)

KeepContainers ==
  /\ step = "keeping"
  /\ SetPhase(worker, "kept")
  /\ GoTo("done")
  /\ UNCHANGED <<row, live, hostVars, recoveryVars, cleaned>>

(* The port is freed, then the old web container is started again. *)
StopActivated ==
  /\ step \in {"reverting", "yielding"}
  /\ LET asked == {c \in {Web(worker)} : container[c] # "none" /\ journal[worker].served}
     IN \E lost \in SUBSET asked : Ask("stop", asked, lost)
  /\ GoTo(IF step = "reverting" THEN "reverted" ELSE "yielded")
  /\ UNCHANGED <<row, live, journal, recoveryVars, cleaned>>

RevertWeb ==
  /\ step \in {"reverted", "yielded"}
  /\ \E lost \in SUBSET PreviousWeb(worker) : Ask("start", PreviousWeb(worker), lost)
  /\ GoTo(IF step = "reverted" THEN "unwinding" ELSE "keeping")
  /\ UNCHANGED <<row, live, journal, recoveryVars, cleaned>>

(* started keeps those whose removal is not confirmed. *)
Unwind ==
  /\ step = "unwinding"
  /\ \E lost \in SUBSET started :
       /\ Ask("destroy", started, lost)
       /\ started' = lost
  /\ step' = "restarting"
  /\ UNCHANGED <<row, live, journal, worker, retained, signalled, recoveryVars, cleaned>>

(* The names whose containers may run in the place of an old one. *)
ReplacedBy(o) ==
  {o[2]} \cup (IF o \in Outgoing(worker) THEN {r.name : r \in Changed(worker)} ELSE {})

Restorable == {o \in retained \ PreviousWeb(worker) : \A c \in started : c[2] \notin ReplacedBy(o)}

RestartRetained ==
  /\ step = "restarting"
  /\ \E lost \in SUBSET Restorable : Ask("start", Restorable, lost)
  /\ GoTo("settling")
  /\ UNCHANGED <<row, live, journal, recoveryVars, cleaned>>

(* The failed web container goes and the outcome is written. A cancellation *)
(* that keeps, seen only now, is journalled when the roles had failed; a    *)
(* failure of the web container leaves that to the sweep.                   *)
SettleFailure ==
  /\ step = "settling"
  /\ LET asked == {c \in {Web(worker)} : container[c] # "none" /\ journal[worker].served}
     IN \E lost \in SUBSET asked : Ask("destroy", asked, lost)
  /\ row' = [row EXCEPT ![worker].status = IF @ = "deploying" THEN "failed" ELSE @]
  /\ \/ KeepSeen /\ SetPhase(worker, "kept")
     \/ UNCHANGED journal
  /\ GoTo(IF KeepSeen THEN "done" ELSE "recovering")
  /\ UNCHANGED <<live, recoveryVars, cleaned>>

(* The lease closes; a commit that could not be finished is reconciling. *)
EndWorker ==
  /\ step = "done"
  /\ row' = [row EXCEPT ![worker].status = IF @ = "deploying" THEN "reconciling" ELSE @]
  /\ worker' = None /\ step' = "none"
  /\ started' = {} /\ retained' = {} /\ signalled' = FALSE
  /\ UNCHANGED <<live, journal, hostVars, recoveryVars, cleaned>>

-----------------------------------------------------------------------------
(* Recovery (recoverHandover). *)

PreviousMissing(d) ==
  journal[d].previous # None /\ row[journal[d].previous].status = "deleted"

(* Mutant of EntryOf: a release that was kept is undone like any other. *)
EntryOfAny(d, discard) ==
  IF PreviousMissing(d) THEN "none"
  ELSE IF journal[d].phase = "committing" THEN "advancing" ELSE "undoing"

(* Where the recovery of d goes, if anywhere. *)
EntryOf(d, discard) ==
  IF \/ PreviousMissing(d)
     \/ ~discard /\ journal[d].phase = "kept"
     \/ ~discard /\ journal[d].phase = "preparing" /\ row[d].keep
  THEN "none"
  ELSE IF journal[d].phase = "committing" THEN "advancing" ELSE "undoing"

(* A cancellation that keeps is honoured even if its worker died; a        *)
(* deletion takes the release that was kept back.                          *)
EntryPhase(d, discard) ==
  CASE ~discard /\ journal[d].phase = "preparing" /\ row[d].keep -> "kept"
    [] discard /\ journal[d].phase = "kept" -> "preparing"
    [] OTHER -> journal[d].phase

EnterRecovery(d, discard) ==
  /\ SetPhase(d, EntryPhase(d, discard))
  /\ recovery' = EntryOf(d, discard)
  /\ target' = IF EntryOf(d, discard) = "none" THEN None ELSE d
  /\ discarding' = (discard /\ EntryOf(d, discard) # "none")
  /\ restored' = {}
  /\ UNCHANGED <<row, live, hostVars, worker, started, retained, signalled, cleaned>>

(* By the finally of the worker. *)
WorkerRecovers ==
  /\ step = "recovering" /\ recovery = "none"
  /\ EnterRecovery(worker, FALSE)
  /\ step' = IF EntryOf(worker, FALSE) = "none" THEN "done" ELSE step

(* By the sweep, once the lease is closed. *)
SweepRecovers(d) ==
  /\ LockFree /\ Pending(d) /\ d # worker
  /\ EnterRecovery(d, FALSE)
  /\ UNCHANGED step

EndRecovery ==
  /\ recovery' = IF discarding THEN "cleaning" ELSE "none"
  /\ target' = IF discarding THEN target ELSE None
  /\ step' = IF step = "recovering" THEN "done" ELSE step
  /\ restored' = {}
  /\ UNCHANGED <<discarding, worker, started, retained, signalled>>

(* A failed request ends it; the journal stays pending. *)
AbandonRecovery ==
  /\ recovery' = "none" /\ target' = None /\ discarding' = FALSE /\ restored' = {}
  /\ step' = IF step = "recovering" THEN "done" ELSE step
  /\ UNCHANGED <<worker, started, retained, signalled>>

Gone(cs) == \A c \in cs : container[c] = "none"

(* Candidates are found by their planned names. *)
RemoveCandidate(c) ==
  /\ recovery = "undoing" /\ c \in Candidates(target) /\ container[c] # "none"
  /\ \E lost \in SUBSET {c} :
       /\ Ask("destroy", {c}, lost)
       /\ IF lost = {} THEN UNCHANGED <<recoveryVars, workerVars>> ELSE AbandonRecovery
  /\ UNCHANGED <<row, live, journal, cleaned>>

MayRestore(d) == Gone(Candidates(d))

ToRestore(d) ==
  IF journal[d].previous = None \/ live # journal[d].previous THEN {}
  ELSE journal[d].stopped \cup (IF journal[d].stopsWeb THEN PreviousWeb(d) ELSE {})

(* Stopped again, to fence a stop still on its way, then started. *)
RestorePrevious(o) ==
  /\ recovery = "undoing" /\ MayRestore(target)
  /\ o \in ToRestore(target) \ restored /\ container[o] # "none"
  /\ \/ /\ Ask("start", {o}, {})
        /\ restored' = restored \cup {o}
        /\ UNCHANGED <<recovery, target, discarding, workerVars>>
     \/ /\ \E request \in {"stop", "start"} : Ask(request, {o}, {o})
        /\ AbandonRecovery
  /\ UNCHANGED <<row, live, journal, cleaned>>

PreviousContainerMissing ==
  /\ recovery = "undoing" /\ MayRestore(target)
  /\ \E o \in ToRestore(target) \ restored : container[o] = "none"
  /\ AbandonRecovery
  /\ UNCHANGED <<row, live, journal, hostVars, cleaned>>

(* Mutant of CompleteUndo: the journal is left open. *)
UndoWithoutRecord ==
  /\ recovery = "undoing" /\ MayRestore(target)
  /\ ToRestore(target) \subseteq restored
  /\ row' = [row EXCEPT ![target].roles = {}]
  /\ EndRecovery
  /\ UNCHANGED <<live, journal, hostVars, cleaned>>

CompleteUndo ==
  /\ recovery = "undoing" /\ MayRestore(target)
  /\ ToRestore(target) \subseteq restored
  /\ SetPhase(target, "complete")
  /\ row' = [row EXCEPT ![target].roles = {}]
  /\ EndRecovery
  /\ UNCHANGED <<live, hostVars, cleaned>>

(* The commit intent stands: the release goes forward. *)
AdvanceRelease ==
  /\ recovery = "advancing"
  /\ container[Web(target)] # "none"
  /\ row' = [row EXCEPT ![target].status = "ready"]
  /\ live' = target
  /\ recovery' = "finishing"
  /\ UNCHANGED <<journal, hostVars, workerVars, target, discarding, restored, cleaned>>

ToRetire(d) == PreviousRoles(d) \cup PreviousWeb(d)

RemovePrevious(o) ==
  /\ recovery = "finishing" /\ o \in ToRetire(target) /\ container[o] # "none"
  /\ \E lost \in SUBSET {o} :
       /\ Ask("destroy", {o}, lost)
       /\ IF lost = {} THEN UNCHANGED <<recoveryVars, workerVars>> ELSE AbandonRecovery
  /\ UNCHANGED <<row, live, journal, cleaned>>

CompleteAdvance ==
  /\ recovery = "finishing" /\ Gone(ToRetire(target))
  /\ SetPhase(target, "complete")
  /\ EndRecovery
  /\ UNCHANGED <<row, live, hostVars, cleaned>>

-----------------------------------------------------------------------------
(* Deletion of one release (deleteDeploymentLocked). *)

Deletable(d) ==
  /\ LockFree /\ d # worker
  /\ row[d].status \notin {"none", "deploying", "deleted"}

DiscardPending(d) ==
  /\ Deletable(d) /\ Pending(d)
  /\ EnterRecovery(d, TRUE)
  /\ UNCHANGED step

DeleteSettled(d) ==
  /\ Deletable(d) /\ ~Pending(d)
  /\ recovery' = "cleaning" /\ target' = d /\ discarding' = TRUE
  /\ UNCHANGED <<row, live, journal, hostVars, workerVars, restored, cleaned>>

(* Best effort: what could not be removed is left behind. *)
CleanUp ==
  /\ recovery = "cleaning" /\ target \notin cleaned
  /\ LET asked == row[target].roles \cup {Web(target)}
     IN \E lost \in SUBSET {c \in asked : container[c] # "none"} : Ask("destroy", asked, lost)
  /\ cleaned' = cleaned \cup {target}
  /\ UNCHANGED <<row, live, journal, workerVars, recoveryVars>>

DropRow ==
  /\ recovery = "cleaning" /\ target \in cleaned
  /\ row' = [row EXCEPT ![target].status = "deleted", ![target].roles = {}]
  /\ live' = IF live = target THEN None ELSE live
  /\ journal' = [journal EXCEPT ![target] = NoJournal]
  /\ recovery' = "none" /\ target' = None /\ discarding' = FALSE
  /\ UNCHANGED <<hostVars, workerVars, restored, cleaned>>

-----------------------------------------------------------------------------
(* The process dies; the next boot closes leases and cancels every row in  *)
(* flight that had not crossed the publish boundary.                       *)
Crash ==
  /\ worker # None \/ recovery # "none"
  /\ CountFault
  /\ row' = [d \in Deployments |->
       IF Cancellable(d) THEN [row[d] EXCEPT !.status = "cancelled"] ELSE row[d]]
  /\ worker' = None /\ step' = "none"
  /\ started' = {} /\ retained' = {} /\ signalled' = FALSE
  /\ recovery' = "none" /\ target' = None /\ discarding' = FALSE /\ restored' = {}
  /\ UNCHANGED <<live, journal, container, late, cleaned>>

-----------------------------------------------------------------------------

Rollout(c) == CreateReplica(c) \/ StartReplica(c) \/ StopPrevious(c)

WorkerStep ==
  \/ BeginHandover \/ RefuseHandover
  \/ \E c \in AllRoles : Rollout(c)
  \/ EndStage \/ SeeCancellation
  \/ StopPreviousWeb \/ OverlapPreviousWeb \/ ActivateWeb \/ PassWeb \/ CancelWeb
  \/ Commit \/ CommitRefused \/ RetirePrevious \/ Publish
  \/ KeepContainers \/ StopActivated \/ RevertWeb \/ Unwind \/ RestartRetained \/ SettleFailure
  \/ WorkerRecovers \/ EndWorker

WorkerFails ==
  \/ \E c \in AllRoles : LoseCreate(c)
  \/ FailCheck \/ LoseActivation \/ FailHealth \/ FailPublish

RecoveryStep ==
  \/ \E c \in Containers : RemoveCandidate(c) \/ RestorePrevious(c) \/ RemovePrevious(c)
  \/ PreviousContainerMissing \/ CompleteUndo \/ AdvanceRelease \/ CompleteAdvance
  \/ CleanUp \/ DropRow

User(d) ==
  \/ Deploy(d) \/ DiscardPending(d) \/ DeleteSettled(d)
  \/ \E keep \in BOOLEAN : Cancel(d, keep)

Next ==
  \/ \E d \in Deployments : User(d) \/ SweepRecovers(d)
  \/ Signal \/ WorkerStep \/ WorkerFails \/ RecoveryStep \/ Crash
  \/ \E c \in Containers : LateEffect(c)

Spec == Init /\ [][Next]_vars

(***************************************************************************)
(* A worker and a recovery go on with what they do, a cancellation is      *)
(* polled for, and the sweep is a scheduled job. Nothing is assumed of     *)
(* users, of faults or of late effects.                                    *)
(***************************************************************************)
Fairness ==
  /\ WF_vars(Signal)
  /\ WF_vars(WorkerStep)
  /\ WF_vars(RecoveryStep)
  /\ WF_vars(\E d \in Deployments : SweepRecovers(d))

FairSpec == Spec /\ Fairness

=============================================================================
