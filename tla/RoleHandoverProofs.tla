-------------------------- MODULE RoleHandoverProofs --------------------------
(***************************************************************************)
(* What the handover of roles promises, proved for every number of         *)
(* releases, whatever roles they declare and however much goes wrong. The  *)
(* invariant has two parts: what worker, recovery and journals know of     *)
(* each other (JournalInv), and what each of them may rely on about the    *)
(* containers and the requests still on their way to them (HostInv).       *)
(***************************************************************************)
EXTENDS RoleHandoverProperties, TLAPS

(* A container runs, or will when a start that was lost takes effect.      *)
Starting(c) == container[c] # "none" /\ "start" \in late[c]
Alive(c) == Running(c) \/ Starting(c)

(* Up, and no request that would take it down is on its way.               *)
Intact(c) == Running(c) /\ late[c] \subseteq {"start"}

(* Up, and nothing is on its way.                                          *)
Steady(c) == Running(c) /\ late[c] = {}

(* Never asked for.                                                        *)
Untouched(d) == \A c \in Candidates(d) : container[c] = "none" /\ late[c] = {}

NonePending == \A d \in Deployments : ~Pending(d)

RolloutSteps == InStage \cup {"web", "activating", "checking", "publishing"}
FailSteps == {"reverting", "yielding", "reverted", "yielded", "keeping", "unwinding", "restarting",
              "settling"}
CommitSteps == {"retiring", "retired", "warned"}

(* Where the worker is, and what it knows of the rows.                     *)
WorkerKnows ==
  /\ worker = None <=> step = "none"
  /\ worker # None =>
       /\ row[worker].status \notin {"none", "deleted"}
       /\ \A e \in Deployments : e > worker => row[e].status = "none"
       /\ \A d \in Deployments : Pending(d) => d = worker
  /\ step = "waiting" => NonePending /\ live # worker /\ row[worker].roles = {}
  /\ step \in RolloutSteps \cup FailSteps =>
       journal[worker].phase = "preparing" /\ started \subseteq RoleContainers(worker)
  /\ step \in CommitSteps => journal[worker].phase = "committing"
  /\ step \in RolloutSteps \cup FailSteps \cup CommitSteps => live = journal[worker].previous
  /\ step = "recovering" => journal[worker].phase \in {"preparing", "committing"}
  /\ step \in {"none", "waiting"} => started = {} /\ retained = {}

(* Where a recovery is, and what it knows of them.                         *)
RecoveryKnows ==
  /\ recovery = "none" => target = None
  /\ recovery # "none" =>
       /\ target \in Deployments
       /\ step \in {"none", "waiting", "recovering"}
       /\ step = "recovering" => target = worker /\ recovery # "cleaning" /\ ~discarding
  /\ recovery \in {"undoing", "advancing", "finishing"} => ~PreviousMissing(target)
  /\ recovery = "undoing" => journal[target].phase = "preparing"
  /\ recovery \in {"advancing", "finishing"} => journal[target].phase = "committing"
  /\ recovery = "finishing" => live = target
  /\ recovery = "cleaning" =>
       ~Pending(target) /\ target # worker /\ row[target].status # "none"

(* At most one journal is open, of the newest release, and it names the    *)
(* live release as the previous one, until the newer one is live.          *)
PendingKnows(d) ==
  Pending(d) =>
    LET p == journal[d].previous IN
    /\ \A e \in Deployments : Pending(e) => e = d
    /\ \A e \in Deployments : e > d => row[e].status = "none"
    /\ row[d].status \notin {"none", "deleted"}
    /\ p # None =>
         /\ p < d
         /\ row[p].status # "none"
         /\ row[p].status # "deleted" => row[p].roles = RoleContainers(p)
    /\ journal[d].phase # "committing" => live = p \/ (live = None /\ PreviousMissing(d))
    /\ journal[d].phase = "committing" =>
         row[d].status # "cancelled" /\ row[d].roles = RoleContainers(d)
    /\ journal[d].stopped \subseteq IF p = None THEN {} ELSE RoleContainers(p)

RowKnows(d) ==
  /\ row[d].roles \subseteq RoleContainers(d)
  /\ row[d].status = "none" =>
       /\ row[d].roles = {} /\ ~Pending(d) /\ d \notin cleaned
       /\ \A e \in Deployments : e > d => row[e].status = "none"
  /\ d \in cleaned => ~Pending(d) /\ d # worker
  /\ live = d => row[d].status \notin {"none", "deleted"} /\ row[d].roles = RoleContainers(d)

JournalInv ==
  /\ WorkerKnows
  /\ RecoveryKnows
  /\ \A d \in Deployments : PendingKnows(d) /\ RowKnows(d)

-----------------------------------------------------------------------------
(* The containers. *)

Waits(d, c) == Outgoing(d) # {} /\ RoleOf(c) \in Changed(d)

(* The old singletons whose command c has.                                 *)
Replaced(d, c) == {o \in PreviousRoles(d) : SoleScheduler(o) /\ RoleOf(o).command = RoleOf(c).command}

(* While all goes well the worker knows each of its containers.            *)
RolloutFor(d) ==
  step \in RolloutSteps /\ worker = d =>
    /\ row[d].roles \subseteq started
    /\ step \notin InStage => started \subseteq row[d].roles
    /\ \A c \in RoleContainers(d) :
         /\ late[c] = {}
         /\ c \in row[d].roles => Running(c)
         /\ c \in started \ row[d].roles => container[c] = "created"
         /\ c \notin started => container[c] = "none"
    /\ late[Web(d)] = {}
    /\ container[Web(d)] = IF step \in {"checking", "publishing"} THEN "running" ELSE "none"
    /\ \A c \in RoleContainers(d) :
         /\ step # "first" /\ ~RoleOf(c).singleton /\ ~Waits(d, c) => c \in started
         /\ step \notin {"first", "outgoing", "later"} /\ ~RoleOf(c).singleton => c \in started
         /\ step \notin InStage => c \in started

(* The old schedulers it has stopped stay down until it fails.             *)
StoppedFor(d) ==
  step \in RolloutSteps /\ worker = d =>
    /\ \A o \in retained \cap AllRoles : ~Alive(o)
    /\ step \notin {"first", "outgoing"} => Outgoing(d) \subseteq retained
    /\ \A c \in started : Replaced(d, c) \subseteq retained

(* When it fails, what is not among its containers is not up.              *)
FailureFor(d) ==
  step \in FailSteps /\ worker = d =>
    \A c \in RoleContainers(d) \ started : ~Alive(c)

RetainedFor(d) ==
  step \in RolloutSteps \cup FailSteps /\ worker = d =>
    retained \subseteq PreviousWeb(d) \cup journal[d].stopped

CommittedFor(d) ==
  /\ journal[d].phase = "committing" => \A c \in Candidates(d) : Steady(c)
  /\ step = "retired" /\ worker = d => Gone(PreviousRoles(d))

Touched(d) == journal[d].stopped \cup (IF journal[d].stopsWeb THEN PreviousWeb(d) ELSE {})

(* Until the commit intent the previous release can be brought back.       *)
PreviousFor(d) ==
  LET p == journal[d].previous IN
  journal[d].phase \in {"preparing", "kept"} /\ p # None =>
    /\ p \notin cleaned =>
         \A c \in Candidates(p) :
           container[c] # "none" /\ "destroy" \notin late[c] /\ (Intact(c) \/ c \in Touched(d))
    /\ \A c \in RoleContainers(p) \ journal[d].stopped : ~Starting(c)

(* No role of another release is up or will be.                            *)
OthersFor(d) ==
  Pending(d) => \A c \in AllRoles : Alive(c) => c[1] \in {d, journal[d].previous}

FreshFor(d) ==
  row[d].status = "none" \/ (step = "waiting" /\ worker = d) => Untouched(d)

(* A command of an old singleton runs once, and will.                      *)
Alone ==
  \A o, c \in AllRoles :
    o[1] < c[1] /\ Alive(o) /\ Alive(c) /\ SoleScheduler(o) => RoleOf(o).command # RoleOf(c).command

Settled ==
  NonePending =>
    /\ \A c \in AllRoles : ~Starting(c)
    /\ live # None /\ live \notin cleaned => \A c \in Candidates(live) : Intact(c)

BroughtBack ==
  recovery = "undoing" =>
    /\ restored \subseteq Touched(target)
    /\ \A o \in restored : Steady(o)

HostInv ==
  /\ \A d \in Deployments :
       /\ RolloutFor(d) /\ StoppedFor(d) /\ FailureFor(d) /\ RetainedFor(d)
       /\ CommittedFor(d) /\ PreviousFor(d) /\ OthersFor(d) /\ FreshFor(d)
  /\ Alone
  /\ Settled
  /\ BroughtBack

-----------------------------------------------------------------------------
(* Types. *)

LEMMA RowWrites ==
  ASSUME row \in [Deployments -> Rows], NEW d \in Deployments
  PROVE  /\ \A s \in Statuses : [row EXCEPT ![d].status = s] \in [Deployments -> Rows]
         /\ \A s \in Statuses, k \in BOOLEAN :
              [row EXCEPT ![d].status = s, ![d].keep = k] \in [Deployments -> Rows]
         /\ \A s \in Statuses :
              [row EXCEPT ![d].status = s, ![d].roles = {}] \in [Deployments -> Rows]
         /\ \A s \in Statuses :
              [row EXCEPT ![d].status = IF @ = "deploying" THEN s ELSE @] \in [Deployments -> Rows]
         /\ \A c \in AllRoles : [row EXCEPT ![d].roles = @ \cup {c}] \in [Deployments -> Rows]
         /\ [row EXCEPT ![d].roles = {}] \in [Deployments -> Rows]
<1>1. \A s \in Statuses : [row EXCEPT ![d].status = s] \in [Deployments -> Rows]
  BY DEF Rows
<1>2. \A s \in Statuses, k \in BOOLEAN :
        [row EXCEPT ![d].status = s, ![d].keep = k] \in [Deployments -> Rows]
  BY DEF Rows
<1>3. \A s \in Statuses :
        [row EXCEPT ![d].status = s, ![d].roles = {}] \in [Deployments -> Rows]
  BY DEF Rows
<1>4. \A s \in Statuses :
        [row EXCEPT ![d].status = IF @ = "deploying" THEN s ELSE @] \in [Deployments -> Rows]
  BY DEF Rows
<1>5. \A c \in AllRoles : [row EXCEPT ![d].roles = @ \cup {c}] \in [Deployments -> Rows]
  BY DEF Rows
<1>6. [row EXCEPT ![d].roles = {}] \in [Deployments -> Rows]
  BY DEF Rows
<1> QED BY <1>1, <1>2, <1>3, <1>4, <1>5, <1>6

LEMMA JournalWrites ==
  ASSUME journal \in [Deployments -> Journals], NEW d \in Deployments
  PROVE  /\ \A p \in Phases : [journal EXCEPT ![d].phase = p] \in [Deployments -> Journals]
         /\ \A c \in AllRoles : [journal EXCEPT ![d].stopped = @ \cup {c}] \in [Deployments -> Journals]
         /\ \A b \in BOOLEAN : [journal EXCEPT ![d].stopsWeb = b] \in [Deployments -> Journals]
         /\ [journal EXCEPT ![d].served = TRUE] \in [Deployments -> Journals]
         /\ [journal EXCEPT ![d] = NoJournal] \in [Deployments -> Journals]
         /\ \A p \in Deployments \cup {None} :
              [journal EXCEPT ![d] = [NoJournal EXCEPT !.phase = "preparing", !.previous = p]]
                \in [Deployments -> Journals]
<1>1. \A p \in Phases : [journal EXCEPT ![d].phase = p] \in [Deployments -> Journals]
  BY DEF Journals
<1>2. \A c \in AllRoles : [journal EXCEPT ![d].stopped = @ \cup {c}] \in [Deployments -> Journals]
  BY DEF Journals
<1>3. \A b \in BOOLEAN : [journal EXCEPT ![d].stopsWeb = b] \in [Deployments -> Journals]
  BY DEF Journals
<1>4. [journal EXCEPT ![d].served = TRUE] \in [Deployments -> Journals]
  BY DEF Journals
<1>5. [journal EXCEPT ![d] = NoJournal] \in [Deployments -> Journals]
  BY DEF Journals, NoJournal, Phases
<1>6. \A p \in Deployments \cup {None} :
        [journal EXCEPT ![d] = [NoJournal EXCEPT !.phase = "preparing", !.previous = p]]
          \in [Deployments -> Journals]
  BY DEF Journals, NoJournal, Phases
<1> QED BY <1>1, <1>2, <1>3, <1>4, <1>5, <1>6

LEMMA ContainerFacts ==
  /\ \A d \in Deployments :
       /\ RoleContainers(d) \subseteq AllRoles /\ Candidates(d) \subseteq Containers
       /\ Candidates(d) = RoleContainers(d) \cup {Web(d)}
       /\ \A c \in Candidates(d) : c[1] = d
       /\ Web(d) \notin AllRoles
       /\ \A c \in RoleContainers(d) : RoleOf(c) \in Declared[d] /\ RoleOf(c).name = c[2]
  /\ AllRoles \subseteq Containers
  /\ \A c \in AllRoles : c[1] \in Deployments /\ c \in RoleContainers(c[1])
  /\ \A c \in Containers : c[1] \in Deployments /\ c \in Candidates(c[1])
<1>1. \A d \in Deployments : \A c \in RoleContainers(d) : c[1] = d /\ c[2] # "web" /\ \E r \in Declared[d] : c[2] = r.name
  BY RolesAssumption DEF RoleContainers
<1>2. \A d \in Deployments : Web(d)[1] = d /\ Web(d)[2] = "web"
  BY DEF Web
<1>3. \A d \in Deployments : \A c \in RoleContainers(d) : RoleOf(c) \in Declared[d] /\ RoleOf(c).name = c[2]
  BY <1>1 DEF RoleOf
<1> QED BY <1>1, <1>2, <1>3 DEF AllRoles, Containers, Candidates

LEMMA AfterTypes ==
  ASSUME NEW request \in Requests, NEW state \in States
  PROVE  After(request, state) \in States
BY DEF After, Requests, States

HostTypeOK ==
  /\ container \in [Containers -> States]
  /\ late \in [Containers -> SUBSET Requests]
  /\ faults \in 0 .. MaxFaults

LEMMA CountTypes ==
  ASSUME HostTypeOK, CountFault
  PROVE  faults' \in 0 .. MaxFaults
BY DeploymentsAssumption DEF HostTypeOK, CountFault

LEMMA AskTypes ==
  ASSUME HostTypeOK, NEW request \in Requests, NEW asked, NEW lost, Ask(request, asked, lost)
  PROVE  HostTypeOK'
<1>1. faults' \in 0 .. MaxFaults
  BY CountTypes DEF Ask, HostTypeOK
<1>2. container' \in [Containers -> States]
  BY AfterTypes DEF Ask, HostTypeOK
<1>3. late' \in [Containers -> SUBSET Requests]
  BY DEF Ask, HostTypeOK
<1> QED BY <1>1, <1>2, <1>3 DEF HostTypeOK

RowTypeOK ==
  /\ row \in [Deployments -> Rows]
  /\ live \in Deployments \cup {None}
  /\ journal \in [Deployments -> Journals]
  /\ cleaned \in SUBSET Deployments

RolloutTypeOK ==
  /\ worker \in Deployments \cup {None}
  /\ step \in Steps
  /\ started \in SUBSET AllRoles
  /\ retained \in SUBSET Containers
  /\ signalled \in BOOLEAN

RecoveryTypeOK ==
  /\ recovery \in RecoverySteps
  /\ target \in Deployments \cup {None}
  /\ discarding \in BOOLEAN
  /\ restored \in SUBSET Containers

LEMMA TypeParts == TypeOK <=> RowTypeOK /\ HostTypeOK /\ RolloutTypeOK /\ RecoveryTypeOK
BY DEF TypeOK, RowTypeOK, HostTypeOK, RolloutTypeOK, RecoveryTypeOK

(* A step that names the worker or the target has one.                     *)
Named ==
  /\ step # "none" => worker \in Deployments
  /\ recovery # "none" => target \in Deployments

TypeInv == TypeOK /\ Named

LEMMA PlanTypes ==
  ASSUME TypeInv, worker \in Deployments
  PROVE  /\ Starts(worker) \subseteq RoleContainers(worker)
         /\ Stops(worker) \subseteq PreviousRoles(worker)
         /\ PreviousRoles(worker) \subseteq AllRoles
         /\ PreviousWeb(worker) \subseteq Containers
<1>1. PreviousRoles(worker) \subseteq AllRoles
  BY DEF TypeInv, TypeOK, PreviousRoles, Journals, Rows
<1>2. PreviousWeb(worker) \subseteq Containers
  BY ContainerFacts DEF TypeInv, TypeOK, PreviousWeb, Journals
<1>3. Starts(worker) \subseteq RoleContainers(worker)
  BY DEF Starts
<1>4. Stops(worker) \subseteq PreviousRoles(worker)
  BY DEF Stops, Outgoing, SameName, Starts, RoleContainers
<1> QED BY <1>1, <1>2, <1>3, <1>4

LEMMA StageSteps ==
  /\ InStage = {"first", "outgoing", "later", "singletons"}
  /\ \A i \in 1 .. 4 :
       \/ Stages[i] = "first" /\ Stages[i + 1] = "outgoing"
       \/ Stages[i] = "outgoing" /\ Stages[i + 1] = "later"
       \/ Stages[i] = "later" /\ Stages[i + 1] = "singletons"
       \/ Stages[i] = "singletons" /\ Stages[i + 1] = "web"
  /\ Steps = {"none", "waiting", "first", "outgoing", "later", "singletons", "web",
              "activating", "checking", "publishing", "retiring", "retired", "warned",
              "reverting", "yielding", "reverted", "yielded",
              "keeping", "unwinding", "restarting", "settling", "recovering", "done"}
<1>1. InStage = {"first", "outgoing", "later", "singletons"}
  BY DEF InStage, Stages
<1>2. \A i \in 1 .. 4 :
       \/ Stages[i] = "first" /\ Stages[i + 1] = "outgoing"
       \/ Stages[i] = "outgoing" /\ Stages[i + 1] = "later"
       \/ Stages[i] = "later" /\ Stages[i + 1] = "singletons"
       \/ Stages[i] = "singletons" /\ Stages[i + 1] = "web"
  BY DEF Stages
<1>3. {Stages[i] : i \in 1 .. 5} = {"first", "outgoing", "later", "singletons", "web"}
  BY DEF Stages
<1> QED BY <1>1, <1>2, <1>3 DEF Steps

(* Nothing but the host changes in its own way; the rest is one variable   *)
(* at a time.                                                              *)
LEMMA UserTypes ==
  ASSUME TypeInv, NEW d \in Deployments, User(d) \/ SweepRecovers(d)
  PROVE  TypeInv'
<1> USE StageSteps DEF TypeInv, TypeOK, Named, RecoverySteps
<1>a. /\ "deploying" \in Statuses /\ "cancelled" \in Statuses
      /\ \A e \in BOOLEAN : EntryPhase(d, e) \in Phases
      /\ \A e \in BOOLEAN : EntryOf(d, e) \in RecoverySteps
  BY DEF Statuses, EntryPhase, EntryOf, Phases, Journals
<1>1. ASSUME Deploy(d) PROVE TypeInv'
  BY <1>1, <1>a, RowWrites DEF Deploy, hostVars, recoveryVars
<1>2. ASSUME NEW k \in BOOLEAN, Cancel(d, k) PROVE TypeInv'
  BY <1>2, <1>a, RowWrites DEF Cancel, hostVars, recoveryVars, workerVars
<1>3. ASSUME NEW e \in BOOLEAN, EnterRecovery(d, e), step' = step PROVE TypeInv'
  BY <1>3, <1>a, JournalWrites DEF EnterRecovery, SetPhase, hostVars
<1>4. ASSUME DeleteSettled(d) PROVE TypeInv'
  BY <1>4 DEF DeleteSettled, hostVars, workerVars
<1> QED BY <1>1, <1>2, <1>3, <1>4 DEF User, DiscardPending, SweepRecovers

LEMMA RollTypes ==
  ASSUME TypeInv, NEW c \in AllRoles, Rollout(c) \/ LoseCreate(c)
  PROVE  TypeInv'
<1> USE StageSteps DEF Named
<1>a. HostTypeOK /\ worker \in Deployments
  BY DEF TypeInv, TypeOK, HostTypeOK, Rollout, LoseCreate, CreateReplica, StartReplica, StopPrevious, Rolling
<1>b. c \in Containers
  BY ContainerFacts
<1>1. ASSUME CreateReplica(c) PROVE TypeInv'
  BY <1>1, <1>b DEF CreateReplica, recoveryVars, TypeInv, TypeOK, States
<1>2. ASSUME LoseCreate(c) PROVE TypeInv'
  <2>1. faults' \in 0 .. MaxFaults
    BY <1>2, <1>a, CountTypes DEF LoseCreate
  <2>2. step' \in Steps /\ step' # "none"
    BY <1>2 DEF LoseCreate, FailRoles
  <2>3. container' \in [Containers -> States]
    BY <1>2, <1>b DEF LoseCreate, TypeInv, TypeOK, States
  <2> QED BY <1>2, <1>a, <2>1, <2>2, <2>3 DEF LoseCreate, recoveryVars, TypeInv, TypeOK
<1>3. ASSUME StartReplica(c) PROVE TypeInv'
  <2>1. HostTypeOK'
    <3>1. ASSUME NEW lost, Ask("start", {c}, lost) PROVE HostTypeOK'
      BY <1>a, <3>1, AskTypes DEF Requests
    <3>2. ASSUME CountFault, container' = [container EXCEPT ![c] = "none"], UNCHANGED late PROVE HostTypeOK'
      BY <1>a, <3>2, CountTypes DEF HostTypeOK, States
    <3> QED BY <1>3, <3>1, <3>2 DEF StartReplica
  <2>2. step' \in Steps /\ (step' = step \/ step' # "none")
    BY <1>3 DEF StartReplica, FailRoles, TypeInv, TypeOK
  <2>3. row' \in [Deployments -> Rows]
    BY <1>3, <1>a, RowWrites DEF StartReplica, TypeInv, TypeOK
  <2> QED BY <1>3, <2>1, <2>2, <2>3 DEF StartReplica, recoveryVars, TypeInv, TypeOK, HostTypeOK
<1>4. ASSUME StopPrevious(c) PROVE TypeInv'
  <2>1. PICK lost \in SUBSET {c} : Ask("stop", {c}, lost) /\ retained' = retained \cup ({c} \ lost)
                                   /\ (step' = step \/ FailRoles)
    BY <1>4 DEF StopPrevious
  <2>2. HostTypeOK'
    BY <1>a, <2>1, AskTypes DEF Requests
  <2>3. journal' \in [Deployments -> Journals]
    BY <1>4, <1>a, JournalWrites DEF StopPrevious, RecordStopIntent, TypeInv, TypeOK
  <2>4. step' \in Steps /\ (step' = step \/ step' # "none")
    BY <2>1 DEF FailRoles, TypeInv, TypeOK
  <2>5. retained' \in SUBSET Containers
    BY <1>b, <2>1 DEF TypeInv, TypeOK
  <2> QED BY <1>4, <1>a, <2>2, <2>3, <2>4, <2>5 DEF StopPrevious, recoveryVars, TypeInv, TypeOK, HostTypeOK
<1> QED BY <1>1, <1>2, <1>3, <1>4 DEF Rollout

LEMMA FailWebTypes ==
  ASSUME FailWeb \/ FailRoles
  PROVE  step' \in {"keeping", "unwinding", "reverting", "yielding"}
BY DEF FailWeb, FailRoles

LEMMA WebTypes ==
  ASSUME TypeInv,
         \/ BeginHandover \/ RefuseHandover \/ EndStage \/ SeeCancellation \/ FailCheck
         \/ StopPreviousWeb \/ OverlapPreviousWeb \/ ActivateWeb \/ LoseActivation \/ PassWeb
         \/ CancelWeb \/ FailHealth
  PROVE  TypeInv'
<1> USE StageSteps DEF Named, GoTo
<1>a. HostTypeOK /\ worker \in Deployments
  BY DEF TypeInv, TypeOK, HostTypeOK, BeginHandover, RefuseHandover, EndStage, SeeCancellation, FailCheck,
     StopPreviousWeb, OverlapPreviousWeb, ActivateWeb, LoseActivation, PassWeb, CancelWeb, FailHealth,
     StageOver
<1>1. ASSUME BeginHandover PROVE TypeInv'
  BY <1>1, <1>a, JournalWrites DEF BeginHandover, hostVars, recoveryVars, TypeInv, TypeOK
<1>2. ASSUME RefuseHandover PROVE TypeInv'
  BY <1>2, <1>a, RowWrites DEF RefuseHandover, hostVars, recoveryVars, TypeInv, TypeOK, Statuses
<1>3. ASSUME EndStage \/ OverlapPreviousWeb \/ PassWeb PROVE TypeInv'
  BY <1>3 DEF EndStage, OverlapPreviousWeb, PassWeb, hostVars, recoveryVars, TypeInv, TypeOK
<1>4. ASSUME SeeCancellation \/ CancelWeb PROVE TypeInv'
  BY <1>4, FailWebTypes DEF SeeCancellation, CancelWeb, hostVars, recoveryVars, TypeInv, TypeOK
<1>5. ASSUME FailCheck \/ FailHealth PROVE TypeInv'
  BY <1>5, <1>a, CountTypes, FailWebTypes DEF FailCheck, FailHealth, recoveryVars, TypeInv, TypeOK
<1>6. ASSUME StopPreviousWeb PROVE TypeInv'
  <2>1. PICK lost \in SUBSET PreviousWeb(worker) :
          /\ Ask("stop", PreviousWeb(worker), lost)
          /\ retained' = retained \cup (PreviousWeb(worker) \ lost)
    BY <1>6 DEF StopPreviousWeb
  <2>2. HostTypeOK'
    BY <1>a, <2>1, AskTypes DEF Requests
  <2>3. journal' \in [Deployments -> Journals]
    BY <1>6, <1>a, JournalWrites DEF StopPreviousWeb, TypeInv, TypeOK
  <2> QED BY <1>6, <1>a, <2>1, <2>2, <2>3, PlanTypes DEF StopPreviousWeb, recoveryVars, TypeInv, TypeOK, HostTypeOK
<1>7. ASSUME ActivateWeb \/ LoseActivation PROVE TypeInv'
  <2>1. Web(worker) \in Containers
    BY <1>a, ContainerFacts
  <2>2. container' \in [Containers -> States]
    BY <1>7, <2>1 DEF ActivateWeb, LoseActivation, States, TypeInv, TypeOK
  <2>3. journal' \in [Deployments -> Journals]
    <3>1. journal \in [Deployments -> Journals]
      BY DEF TypeInv, TypeOK
    <3>2. [journal EXCEPT ![worker].served = TRUE] \in [Deployments -> Journals]
      BY <1>a, <3>1, JournalWrites
    <3> QED BY <1>7, <3>1, <3>2 DEF ActivateWeb, LoseActivation
  <2>4. faults' \in 0 .. MaxFaults
    BY <1>7, <1>a, CountTypes DEF ActivateWeb, LoseActivation, HostTypeOK
  <2> QED BY <1>7, <2>2, <2>3, <2>4, FailWebTypes DEF ActivateWeb, LoseActivation, recoveryVars, TypeInv, TypeOK
<1> QED BY <1>1, <1>2, <1>3, <1>4, <1>5, <1>6, <1>7

LEMMA EndTypes ==
  ASSUME TypeInv,
         \/ Commit \/ CommitRefused \/ RetirePrevious \/ Publish \/ FailPublish
         \/ KeepContainers \/ StopActivated \/ RevertWeb \/ Unwind \/ RestartRetained \/ SettleFailure
         \/ WorkerRecovers \/ EndWorker
  PROVE  TypeInv'
<1> USE StageSteps DEF Named, GoTo
<1>a. HostTypeOK /\ worker \in Deployments
  BY DEF TypeInv, TypeOK, HostTypeOK, Commit, CommitRefused, RetirePrevious, Publish, FailPublish,
     KeepContainers, StopActivated, RevertWeb, Unwind, RestartRetained, SettleFailure, WorkerRecovers,
     EndWorker
<1>b. row \in [Deployments -> Rows] /\ journal \in [Deployments -> Journals]
  BY DEF TypeInv, TypeOK
<1>c. "committing" \in Phases /\ "kept" \in Phases /\ "complete" \in Phases
      /\ "ready" \in Statuses /\ "failed" \in Statuses /\ "reconciling" \in Statuses
  BY DEF Phases, Statuses
<1>d. \A p \in Phases : [journal EXCEPT ![worker].phase = p] \in [Deployments -> Journals]
  BY <1>a, <1>b, JournalWrites
<1>e. /\ [row EXCEPT ![worker].status = "ready"] \in [Deployments -> Rows]
      /\ [row EXCEPT ![worker].status = IF @ = "deploying" THEN "failed" ELSE @]
           \in [Deployments -> Rows]
  BY <1>a, <1>b, <1>c, RowWrites
<1>1. ASSUME Commit \/ CommitRefused PROVE TypeInv'
  BY <1>1, <1>a, <1>c, <1>d
  DEF Commit, CommitRefused, CommitIntent, SetPhase, hostVars, recoveryVars, TypeInv, TypeOK
<1>2. ASSUME RetirePrevious \/ StopActivated \/ RevertWeb \/ RestartRetained PROVE TypeInv'
  <2>1. HostTypeOK'
    BY <1>2, <1>a, AskTypes DEF RetirePrevious, StopActivated, RevertWeb, RestartRetained, Requests
  <2> QED BY <1>2, <1>a, <2>1 DEF RetirePrevious, StopActivated, RevertWeb, RestartRetained, recoveryVars, TypeInv, TypeOK, HostTypeOK
<1>3. ASSUME Publish \/ FailPublish PROVE TypeInv'
  <2>1. faults' \in 0 .. MaxFaults
    BY <1>3, <1>a, CountTypes DEF Publish, FailPublish, HostTypeOK
  <2>2. row' \in [Deployments -> Rows] /\ journal' \in [Deployments -> Journals]
    BY <1>3, <1>b, <1>c, <1>d, <1>e DEF Publish, FailPublish, SetPhase
  <2> QED BY <1>3, <1>a, <2>1, <2>2 DEF Publish, FailPublish, recoveryVars, TypeInv, TypeOK
<1>4. ASSUME KeepContainers PROVE TypeInv'
  BY <1>4, <1>a, <1>b, <1>c, JournalWrites DEF KeepContainers, SetPhase, hostVars, recoveryVars, TypeInv, TypeOK
<1>5. ASSUME Unwind PROVE TypeInv'
  <2>1. HostTypeOK'
    BY <1>5, <1>a, AskTypes DEF Unwind, Requests
  <2> QED BY <1>5, <1>a, <2>1 DEF Unwind, recoveryVars, TypeInv, TypeOK, HostTypeOK
<1>6. ASSUME SettleFailure PROVE TypeInv'
  <2>1. HostTypeOK'
    BY <1>6, <1>a, AskTypes DEF SettleFailure, Requests
  <2>2. row' \in [Deployments -> Rows] /\ journal' \in [Deployments -> Journals]
    BY <1>6, <1>b, <1>c, <1>d, <1>e DEF SettleFailure, SetPhase
  <2> QED BY <1>6, <1>a, <2>1, <2>2 DEF SettleFailure, recoveryVars, TypeInv, TypeOK, HostTypeOK
<1>7. ASSUME WorkerRecovers PROVE TypeInv'
  <2>1. EntryPhase(worker, FALSE) \in Phases /\ EntryOf(worker, FALSE) \in RecoverySteps
    BY <1>a, <1>b DEF EntryPhase, EntryOf, Phases, Journals, RecoverySteps
  <2>2. journal' \in [Deployments -> Journals]
    BY <1>7, <1>a, <1>b, <2>1, JournalWrites DEF WorkerRecovers, EnterRecovery, SetPhase
  <2> QED BY <1>7, <1>a, <2>1, <2>2
      DEF WorkerRecovers, EnterRecovery, hostVars, TypeInv, TypeOK, RecoverySteps
<1>8. ASSUME EndWorker PROVE TypeInv'
  BY <1>8, <1>a, <1>b, <1>c, RowWrites DEF EndWorker, hostVars, recoveryVars, TypeInv, TypeOK
<1> QED BY <1>1, <1>2, <1>3, <1>4, <1>5, <1>6, <1>7, <1>8

LEMMA RecoveryTypes ==
  ASSUME TypeInv, RecoveryStep
  PROVE  TypeInv'
<1> USE StageSteps DEF Named
<1>a. HostTypeOK /\ row \in [Deployments -> Rows] /\ journal \in [Deployments -> Journals]
  BY DEF TypeInv, TypeOK, HostTypeOK
<1>c. "complete" \in Phases /\ "ready" \in Statuses /\ "deleted" \in Statuses
  BY DEF Phases, Statuses
<1>1. ASSUME recovery # "none", EndRecovery \/ AbandonRecovery \/ UNCHANGED <<recoveryVars, workerVars>>
      PROVE  RolloutTypeOK' /\ RecoveryTypeOK' /\ Named'
  <2>1. CASE EndRecovery
    BY <1>1, <2>1 DEF TypeInv, TypeOK, RolloutTypeOK, RecoveryTypeOK, EndRecovery, RecoverySteps
  <2>2. CASE AbandonRecovery
    BY <1>1, <2>2 DEF TypeInv, TypeOK, RolloutTypeOK, RecoveryTypeOK, AbandonRecovery, RecoverySteps
  <2>3. CASE UNCHANGED <<recoveryVars, workerVars>>
    BY <1>1, <2>3 DEF TypeInv, TypeOK, RolloutTypeOK, RecoveryTypeOK, recoveryVars, workerVars
  <2> QED BY <1>1, <2>1, <2>2, <2>3
<1>2. ASSUME NEW c \in Containers, RemoveCandidate(c) \/ RemovePrevious(c) PROVE TypeInv'
  <2>1. HostTypeOK'
    BY <1>2, <1>a, AskTypes DEF RemoveCandidate, RemovePrevious, Requests
  <2>2. RolloutTypeOK' /\ RecoveryTypeOK' /\ Named'
    BY <1>1, <1>2 DEF RemoveCandidate, RemovePrevious
  <2> QED BY <1>2, <2>1, <2>2, TypeParts DEF RemoveCandidate, RemovePrevious, TypeInv, RowTypeOK,
             TypeOK, HostTypeOK, RolloutTypeOK, RecoveryTypeOK
<1>3. ASSUME NEW c \in Containers, RestorePrevious(c) PROVE TypeInv'
  <2>1. HostTypeOK'
    BY <1>3, <1>a, AskTypes DEF RestorePrevious, Requests
  <2>2. RolloutTypeOK' /\ RecoveryTypeOK' /\ Named'
    <3>1. CASE AbandonRecovery
      BY <1>1, <1>3, <3>1 DEF RestorePrevious
    <3>2. CASE restored' = restored \cup {c} /\ UNCHANGED <<recovery, target, discarding, workerVars>>
      BY <3>2 DEF TypeInv, TypeOK, RolloutTypeOK, RecoveryTypeOK, workerVars
    <3> QED BY <1>3, <3>1, <3>2 DEF RestorePrevious
  <2> QED BY <1>3, <2>1, <2>2, TypeParts DEF RestorePrevious, TypeInv, RowTypeOK,
             TypeOK, HostTypeOK, RolloutTypeOK, RecoveryTypeOK
<1>4. ASSUME PreviousContainerMissing PROVE TypeInv'
  <2>1. RolloutTypeOK' /\ RecoveryTypeOK' /\ Named'
    BY <1>1, <1>4 DEF PreviousContainerMissing
  <2> QED BY <1>4, <2>1 DEF PreviousContainerMissing, TypeInv, hostVars,
             TypeOK, RolloutTypeOK, RecoveryTypeOK
<1>5. ASSUME CompleteUndo \/ CompleteAdvance PROVE TypeInv'
  <2>1. RolloutTypeOK' /\ RecoveryTypeOK' /\ Named'
    BY <1>1, <1>5 DEF CompleteUndo, CompleteAdvance
  <2>2. target \in Deployments
    BY <1>5 DEF CompleteUndo, CompleteAdvance, TypeInv
  <2>3. row' \in [Deployments -> Rows] /\ journal' \in [Deployments -> Journals]
    <3>1. /\ [journal EXCEPT ![target].phase = "complete"] \in [Deployments -> Journals]
          /\ [row EXCEPT ![target].roles = {}] \in [Deployments -> Rows]
      BY <1>a, <1>c, <2>2, RowWrites, JournalWrites
    <3> QED BY <1>5, <1>a, <3>1 DEF CompleteUndo, CompleteAdvance, SetPhase
  <2> QED BY <1>5, <2>1, <2>3 DEF CompleteUndo, CompleteAdvance, TypeInv, hostVars,
             TypeOK, RolloutTypeOK, RecoveryTypeOK
<1>6. ASSUME AdvanceRelease PROVE TypeInv'
  <2>1. target \in Deployments
    BY <1>6 DEF AdvanceRelease, TypeInv
  <2> QED BY <1>6, <1>a, <1>c, <2>1, RowWrites DEF AdvanceRelease, TypeInv, hostVars, workerVars, TypeOK, RecoverySteps
<1>7. ASSUME CleanUp PROVE TypeInv'
  <2>1. HostTypeOK' /\ target \in Deployments
    BY <1>7, <1>a, AskTypes DEF CleanUp, Requests, TypeInv
  <2> QED BY <1>7, <2>1 DEF CleanUp, TypeInv, TypeOK, HostTypeOK, workerVars, recoveryVars
<1>8. ASSUME DropRow PROVE TypeInv'
  <2>1. target \in Deployments
    BY <1>8 DEF DropRow, TypeInv
  <2>2. row' \in [Deployments -> Rows] /\ journal' \in [Deployments -> Journals]
    BY <1>8, <1>a, <1>c, <2>1, RowWrites, JournalWrites DEF DropRow
  <2> QED BY <1>8, <2>2 DEF DropRow, TypeInv, TypeOK, hostVars, workerVars, RecoverySteps
<1> QED BY <1>2, <1>3, <1>4, <1>5, <1>6, <1>7, <1>8 DEF RecoveryStep

LEMMA OtherTypes ==
  ASSUME TypeInv, Signal \/ Crash \/ \E c \in Containers : LateEffect(c)
  PROVE  TypeInv'
<1> USE StageSteps DEF Named
<1>1. ASSUME Signal PROVE TypeInv'
  BY <1>1 DEF Signal, TypeInv, TypeOK, hostVars, recoveryVars
<1>2. ASSUME Crash PROVE TypeInv'
  <2>1. faults' \in 0 .. MaxFaults
    BY <1>2, CountTypes DEF Crash, TypeInv, TypeOK, HostTypeOK
  <2>2. row' \in [Deployments -> Rows]
    <3>1. \A d \in Deployments : [row[d] EXCEPT !.status = "cancelled"] \in Rows
      BY DEF TypeInv, TypeOK, Rows, Statuses
    <3> QED BY <1>2, <3>1 DEF Crash, TypeInv, TypeOK
  <2> QED BY <1>2, <2>1, <2>2 DEF Crash, TypeInv, TypeOK, RecoverySteps
<1>3. ASSUME NEW c \in Containers, LateEffect(c) PROVE TypeInv'
  <2>1. PICK request \in late[c] :
          /\ container' = [container EXCEPT ![c] = After(request, container[c])]
          /\ late' = [late EXCEPT ![c] = @ \ {request}]
    BY <1>3 DEF LateEffect
  <2>2. HostTypeOK'
    <3>1. request \in Requests /\ container[c] \in States
      BY DEF TypeInv, TypeOK
    <3>2. After(request, container[c]) \in States
      BY <3>1, AfterTypes
    <3> QED BY <1>3, <2>1, <3>2 DEF LateEffect, TypeInv, TypeOK, HostTypeOK
  <2> QED BY <1>3, <2>2 DEF LateEffect, TypeInv, TypeOK, HostTypeOK, workerVars, recoveryVars
<1> QED BY <1>1, <1>2, <1>3

LEMMA TypeStep ==
  ASSUME TypeInv, [Next]_vars
  PROVE  TypeInv'
<1>1. CASE UNCHANGED vars
  BY <1>1 DEF vars, hostVars, workerVars, recoveryVars, TypeInv, TypeOK, Named
<1>2. CASE WorkerStep \/ WorkerFails
  BY <1>2, RollTypes, WebTypes, EndTypes DEF WorkerStep, WorkerFails
<1> QED BY <1>1, <1>2, UserTypes, RecoveryTypes, OtherTypes DEF Next

LEMMA TypeInit ==
  ASSUME Init
  PROVE  TypeInv
<1>1. row \in [Deployments -> Rows]
  <2>1. \A d \in Deployments : RoleContainers(d) \in SUBSET AllRoles
    BY ContainerFacts
  <2>2. \A S \in SUBSET AllRoles :
          /\ [status |-> "ready", keep |-> FALSE, roles |-> S] \in Rows
          /\ [status |-> "none", keep |-> FALSE, roles |-> {}] \in Rows
    BY DEF Rows, Statuses
  <2> QED BY <2>1, <2>2 DEF Init
<1>2. journal \in [Deployments -> Journals]
  BY DEF Init, Journals, NoJournal, Phases
<1>3. HostTypeOK /\ live \in Deployments
  BY DeploymentsAssumption DEF Init, HostTypeOK, States, Requests
<1>4. RolloutTypeOK /\ RecoveryTypeOK /\ Named
  BY StageSteps DEF Init, RolloutTypeOK, RecoveryTypeOK, RecoverySteps, Named
<1> QED BY <1>1, <1>2, <1>3, <1>4, TypeParts DEF TypeInv, RowTypeOK, Init

LEMMA TypeInvHolds == Spec => []TypeInv
BY TypeInit, TypeStep, PTL DEF Spec

(* Every row, journal, container and program counter stays of its type,    *)
(* whoever writes it (TypeOK).                                             *)
THEOREM HandoverTypeCorrect == Spec => []TypeOK
<1>1. TypeInv => TypeOK
  BY DEF TypeInv
<1> QED BY <1>1, TypeInvHolds, PTL

-----------------------------------------------------------------------------
(* The rows and the journals. *)

LEMMA Shapes ==
  ASSUME TypeInv
  PROVE  /\ DOMAIN row = Deployments /\ DOMAIN journal = Deployments
         /\ DOMAIN container = Containers /\ DOMAIN late = Containers
         /\ \A d \in Deployments :
              /\ DOMAIN row[d] = {"status", "keep", "roles"}
              /\ DOMAIN journal[d] = {"phase", "previous", "stopped", "stopsWeb", "served"}
              /\ journal[d].previous \in Deployments \cup {None}
              /\ journal[d].phase \in {"none", "preparing", "committing", "kept", "complete"}
              /\ d \in Nat
BY DeploymentsAssumption DEF TypeInv, TypeOK, Rows, Journals, Phases

LEMMA StepSets ==
  /\ RolloutSteps = {"first", "outgoing", "later", "singletons", "web", "activating", "checking", "publishing"}
  /\ \A s : s \in FailSteps => s \notin RolloutSteps
BY StageSteps DEF RolloutSteps, FailSteps

(* Most steps of a worker leave the rows and the journals what they are    *)
(* about: only what is written down of its own release grows.              *)
RollingSteps == RolloutSteps \cup FailSteps

Stand ==
  /\ UNCHANGED <<live, worker, recovery, target, discarding, cleaned>>
  /\ \A d \in Deployments :
       /\ row'[d].status = row[d].status
       /\ journal'[d].phase = journal[d].phase
       /\ journal'[d].previous = journal[d].previous
       /\ \/ row'[d].roles = row[d].roles
          \/ d = worker /\ step \in RolloutSteps /\ row'[d].roles \subseteq RoleContainers(d)
       /\ \/ journal'[d].stopped = journal[d].stopped
          \/ d = worker /\ journal'[d].stopped \subseteq journal[d].stopped \cup PreviousRoles(d)
  /\ step' \in RollingSteps => started' \subseteq RoleContainers(worker)
  /\ step \in {"none", "waiting"} => UNCHANGED <<started, retained>>
  /\ \/ step' = step
     \/ step \in RollingSteps /\ step' \in RollingSteps \cup {"recovering", "done"}
     \/ step \in CommitSteps /\ step' \in CommitSteps \cup {"recovering", "done"}

LEMMA StandKeeps ==
  ASSUME TypeInv, JournalInv, Stand
  PROVE  JournalInv'
<1> USE Shapes, StepSets DEF JournalInv, Stand, RollingSteps, CommitSteps, FailSteps
<1>p. \A d \in Deployments : Pending(d)' <=> Pending(d)
  BY DEF Pending
<1>m. \A d \in Deployments : PreviousMissing(d)' <=> PreviousMissing(d)
  <2>1. ASSUME NEW d \in Deployments
        PROVE  PreviousMissing(d)' <=> PreviousMissing(d)
    <3>1. journal'[d].previous = journal[d].previous /\ journal[d].previous \in Deployments \cup {None}
      OBVIOUS
    <3> QED BY <3>1 DEF PreviousMissing
  <2> QED BY <2>1
<1>n. NonePending' <=> NonePending
  BY <1>p DEF NonePending
<1>a. /\ \A d \in Deployments : Pending(d)' <=> Pending(d)
      /\ \A d \in Deployments : PreviousMissing(d)' <=> PreviousMissing(d)
      /\ NonePending' <=> NonePending
  BY <1>p, <1>m, <1>n
<1>b. ASSUME step \in RolloutSteps
      PROVE  worker \in Deployments /\ live # worker /\ Pending(worker)
  <2>1. worker \in Deployments /\ Pending(worker) /\ live = journal[worker].previous
    BY <1>b DEF TypeInv, Named, WorkerKnows, Pending
  <2>2. live # None => live < worker
    BY <2>1 DEF PendingKnows
  <2> QED BY <2>1, <2>2, DeploymentsAssumption
<1>c. WorkerKnows'
  <2>1. worker # None => worker \in Deployments
    BY DEF TypeInv, TypeOK
  <2>2. WorkerKnows!1' /\ WorkerKnows!2'
    BY <1>a, <2>1 DEF WorkerKnows
  <2>3. WorkerKnows!3'
    BY <1>a, <1>b, <2>1 DEF WorkerKnows
  <2>4. WorkerKnows!4' /\ WorkerKnows!5' /\ WorkerKnows!6' /\ WorkerKnows!7'
    BY <1>a, <1>b, <2>1 DEF WorkerKnows, TypeInv, Named
  <2>5. WorkerKnows!8'
    BY DEF WorkerKnows
  <2> QED BY <2>2, <2>3, <2>4, <2>5 DEF WorkerKnows
<1>d. RecoveryKnows'
  BY <1>a, <1>b DEF RecoveryKnows
<1>e. ASSUME NEW d \in Deployments PROVE PendingKnows(d)'
  <2>1. SUFFICES ASSUME Pending(d) PROVE PendingKnows(d)'
    BY <1>a DEF PendingKnows
  <2>2. PendingKnows(d)
    OBVIOUS
  <2> DEFINE p == journal[d].previous
  <2>3. journal'[d].previous = p /\ p \in Deployments \cup {None}
    OBVIOUS
  <2>4. step \in RolloutSteps => d = worker /\ p # worker
    BY <1>b, <2>1, DeploymentsAssumption DEF WorkerKnows, PendingKnows
  <2>5. /\ \A e \in Deployments : Pending(e)' => e = d
        /\ \A e \in Deployments : e > d => row'[e].status = "none"
        /\ row'[d].status \notin {"none", "deleted"}
        /\ journal'[d].phase # "committing" => live' = p \/ (live' = None /\ PreviousMissing(d)')
        /\ journal'[d].phase = "committing" => row'[d].status # "cancelled"
    BY <1>a, <2>1, <2>2 DEF PendingKnows
  <2>8. journal'[d].phase = "committing" => row'[d].roles = RoleContainers(d)
    BY <2>1, <2>2 DEF PendingKnows, WorkerKnows
  <2>6. p # None => /\ p < d
                    /\ row'[p].status # "none"
                    /\ row'[p].status # "deleted" => row'[p].roles = RoleContainers(p)
    BY <2>1, <2>2, <2>3, <2>4 DEF PendingKnows
  <2>7. journal'[d].stopped \subseteq IF p = None THEN {} ELSE RoleContainers(p)
    BY <2>1, <2>2, <2>3 DEF PendingKnows, PreviousRoles, RowKnows
  <2> QED BY <2>3, <2>5, <2>6, <2>7, <2>8 DEF PendingKnows
<1>f. ASSUME NEW d \in Deployments PROVE RowKnows(d)'
  BY <1>a, <1>b, <1>f DEF RowKnows
<1> QED BY <1>c, <1>d, <1>e, <1>f

LEMMA RollingStands ==
  ASSUME TypeInv, JournalInv, NEW c \in AllRoles, Rollout(c) \/ LoseCreate(c)
  PROVE  Stand
<1> USE DEF Stand, RollingSteps
<1>a. /\ worker \in Deployments /\ step \in InStage /\ InStage \subseteq RolloutSteps
      /\ step \notin {"none", "waiting"}
  BY StageSteps DEF TypeInv, Named, Rollout, LoseCreate, CreateReplica, StartReplica, StopPrevious, Rolling, RolloutSteps
<1>b. started \subseteq RoleContainers(worker) /\ row[worker].roles \subseteq RoleContainers(worker)
  BY <1>a DEF JournalInv, WorkerKnows, RowKnows
<1>c. FailRoles => step' \in FailSteps
  BY DEF FailRoles, FailSteps
<1>1. ASSUME CreateReplica(c) PROVE Stand
  BY <1>1, <1>a, <1>b, PlanTypes DEF CreateReplica, recoveryVars
<1>2. ASSUME LoseCreate(c) PROVE Stand
  BY <1>2, <1>a, <1>b, <1>c DEF LoseCreate, recoveryVars
<1>3. ASSUME StartReplica(c) PROVE Stand
  BY <1>3, <1>a, <1>b, <1>c, Shapes DEF StartReplica, Unrecorded, recoveryVars
<1>4. ASSUME StopPrevious(c) PROVE Stand
  <2>1. step' = step \/ FailRoles
    BY <1>4 DEF StopPrevious
  <2>2. c \in PreviousRoles(worker)
    BY <1>4, <1>a, PlanTypes DEF StopPrevious
  <2> QED BY <1>4, <1>a, <1>b, <1>c, <2>1, <2>2, Shapes DEF StopPrevious, RecordStopIntent, recoveryVars
<1> QED BY <1>1, <1>2, <1>3, <1>4 DEF Rollout

LEMMA WebStands ==
  ASSUME TypeInv, JournalInv,
         \/ EndStage \/ SeeCancellation \/ FailCheck
         \/ StopPreviousWeb \/ OverlapPreviousWeb \/ ActivateWeb \/ LoseActivation \/ PassWeb
         \/ CancelWeb \/ FailHealth
  PROVE  Stand
<1> USE StepSets, Shapes DEF Stand, RollingSteps, GoTo
<1>a. worker \in Deployments /\ step \in RolloutSteps /\ started \subseteq RoleContainers(worker)
  BY StageSteps DEF JournalInv, WorkerKnows, TypeInv, Named, EndStage, SeeCancellation, FailCheck,
     StopPreviousWeb, OverlapPreviousWeb, ActivateWeb, LoseActivation, PassWeb, CancelWeb, FailHealth,
     StageOver
<1>b. FailWeb \/ FailRoles => step' \in FailSteps
  BY FailWebTypes DEF FailSteps
<1>1. ASSUME EndStage PROVE Stand
  BY <1>1, <1>a, StageSteps DEF EndStage, hostVars, recoveryVars
<1>2. ASSUME SeeCancellation \/ FailCheck PROVE Stand
  BY <1>2, <1>a, <1>b DEF SeeCancellation, FailCheck, hostVars, recoveryVars
<1>3. ASSUME CancelWeb \/ FailHealth \/ LoseActivation PROVE Stand
  BY <1>3, <1>a, <1>b DEF CancelWeb, FailHealth, LoseActivation, hostVars, recoveryVars
<1>4. ASSUME StopPreviousWeb PROVE Stand
  BY <1>4, <1>a DEF StopPreviousWeb, recoveryVars
<1>5. ASSUME OverlapPreviousWeb \/ PassWeb PROVE Stand
  BY <1>5, <1>a DEF OverlapPreviousWeb, PassWeb, hostVars, recoveryVars
<1>6. ASSUME ActivateWeb PROVE Stand
  BY <1>6, <1>a DEF ActivateWeb, recoveryVars
<1> QED BY <1>1, <1>2, <1>3, <1>4, <1>5, <1>6

LEMMA EndStands ==
  ASSUME TypeInv, JournalInv,
         \/ CommitRefused \/ RetirePrevious \/ FailPublish
         \/ StopActivated \/ RevertWeb \/ Unwind \/ RestartRetained
  PROVE  Stand
<1> USE StepSets DEF Stand, RollingSteps, FailSteps, CommitSteps, GoTo
<1>1. ASSUME CommitRefused PROVE Stand
  BY <1>1 DEF CommitRefused, hostVars, recoveryVars
<1>2. ASSUME RetirePrevious \/ FailPublish PROVE Stand
  BY <1>2 DEF RetirePrevious, FailPublish, recoveryVars
<1>3. ASSUME StopActivated \/ RevertWeb \/ Unwind \/ RestartRetained PROVE Stand
  BY <1>3 DEF StopActivated, RevertWeb, Unwind, RestartRetained, recoveryVars, JournalInv, WorkerKnows
<1> QED BY <1>1, <1>2, <1>3

LEMMA OtherStands ==
  ASSUME TypeInv, JournalInv,
         \/ Signal
         \/ \E c \in Containers :
              \/ LateEffect(c)
              \/ (RemoveCandidate(c) \/ RemovePrevious(c) \/ RestorePrevious(c)) /\ ~AbandonRecovery
  PROVE  Stand
<1> USE DEF Stand
<1>1. ASSUME Signal PROVE Stand
  BY <1>1 DEF Signal, hostVars, recoveryVars, JournalInv, WorkerKnows, RollingSteps
<1>2. ASSUME NEW c \in Containers, LateEffect(c) PROVE Stand
  BY <1>2 DEF LateEffect, workerVars, recoveryVars, JournalInv, WorkerKnows, RollingSteps
<1>3. ASSUME NEW c \in Containers, RemoveCandidate(c) \/ RemovePrevious(c) \/ RestorePrevious(c),
             ~AbandonRecovery
      PROVE  Stand
  <2>1. UNCHANGED <<row, live, journal, cleaned, recovery, target, workerVars>>
    BY <1>3 DEF RemoveCandidate, RemovePrevious, RestorePrevious, recoveryVars
  <2>2. UNCHANGED discarding
    BY <1>3 DEF RemoveCandidate, RemovePrevious, RestorePrevious, recoveryVars
  <2> QED BY <2>1, <2>2 DEF workerVars, JournalInv, WorkerKnows, RollingSteps
<1> QED BY <1>1, <1>2, <1>3

LEMMA DeployKnows ==
  ASSUME TypeInv, JournalInv, NEW d \in Deployments, Deploy(d)
  PROVE  JournalInv'
<1> USE Shapes, StepSets, DeploymentsAssumption
    DEF JournalInv, RollingSteps, CommitSteps, FailSteps, Pending, PreviousMissing, NonePending, Deploy, hostVars, recoveryVars
<1>a. (worker # None => worker \in Deployments) /\ (recovery # "none" => target \in Deployments)
  BY DEF TypeInv, TypeOK, Named
<1>1. WorkerKnows'
  BY <1>a DEF WorkerKnows, RowKnows, PendingKnows
<1>2. RecoveryKnows'
  BY <1>a DEF RecoveryKnows, WorkerKnows, RowKnows, PendingKnows
<1>3. ASSUME NEW e \in Deployments PROVE PendingKnows(e)'
  BY <1>a, <1>3 DEF PendingKnows, WorkerKnows, RecoveryKnows, RowKnows
<1>4. ASSUME NEW e \in Deployments PROVE RowKnows(e)'
  BY <1>a, <1>4 DEF RowKnows, WorkerKnows, RecoveryKnows, PendingKnows
<1> QED BY <1>1, <1>2, <1>3, <1>4

LEMMA CancelKnows ==
  ASSUME TypeInv, JournalInv, NEW d \in Deployments, NEW k \in BOOLEAN, Cancel(d, k)
  PROVE  JournalInv'
<1> USE Shapes, StepSets, DeploymentsAssumption
    DEF JournalInv, RollingSteps, CommitSteps, FailSteps, Pending, PreviousMissing, NonePending, Cancel, Cancellable, hostVars, workerVars, recoveryVars
<1>a. (worker # None => worker \in Deployments) /\ (recovery # "none" => target \in Deployments)
  BY DEF TypeInv, TypeOK, Named
<1>1. WorkerKnows'
  BY <1>a DEF WorkerKnows, RowKnows, PendingKnows
<1>2. RecoveryKnows'
  BY <1>a DEF RecoveryKnows, WorkerKnows, RowKnows, PendingKnows
<1>3. ASSUME NEW e \in Deployments PROVE PendingKnows(e)'
  BY <1>a, <1>3 DEF PendingKnows, WorkerKnows, RecoveryKnows, RowKnows
<1>4. ASSUME NEW e \in Deployments PROVE RowKnows(e)'
  BY <1>a, <1>4 DEF RowKnows, WorkerKnows, RecoveryKnows, PendingKnows
<1> QED BY <1>1, <1>2, <1>3, <1>4

LEMMA BeginHandoverKnows ==
  ASSUME TypeInv, JournalInv, BeginHandover
  PROVE  JournalInv'
<1> USE Shapes, StepSets, DeploymentsAssumption
    DEF JournalInv, RollingSteps, CommitSteps, FailSteps, Pending, PreviousMissing, NonePending
<1>a. /\ worker \in Deployments /\ step = "waiting" /\ step' = "first" /\ recovery = "none"
      /\ UNCHANGED <<row, live, worker, started, retained, recovery, target, cleaned>>
  BY DEF BeginHandover, LockFree, GoTo, recoveryVars, TypeInv, Named
<1>b. /\ journal'[worker].phase = "preparing" /\ journal'[worker].previous = live
      /\ journal'[worker].stopped = {}
      /\ \A d \in Deployments \ {worker} : journal'[d] = journal[d]
  BY <1>a DEF BeginHandover, NoJournal
<1>c. live # None => live \in Deployments /\ live < worker
  BY <1>a DEF TypeInv, TypeOK, WorkerKnows, RowKnows
<1>1. WorkerKnows'
  BY <1>a, <1>b, <1>c DEF WorkerKnows
<1>2. RecoveryKnows'
  BY <1>a, <1>b DEF RecoveryKnows, WorkerKnows
<1>3. ASSUME NEW d \in Deployments PROVE PendingKnows(d)'
  <2>1. d # worker => ~Pending(d)'
    BY <1>a, <1>b, <1>3 DEF WorkerKnows
  <2>2. live # None => RowKnows(live)
    BY <1>c
  <2> QED BY <1>a, <1>b, <1>c, <1>3, <2>1, <2>2 DEF PendingKnows, WorkerKnows, RowKnows
<1>4. ASSUME NEW d \in Deployments PROVE RowKnows(d)'
  BY <1>a, <1>b, <1>4 DEF RowKnows, WorkerKnows
<1> QED BY <1>1, <1>2, <1>3, <1>4

LEMMA RefuseHandoverKnows ==
  ASSUME TypeInv, JournalInv, RefuseHandover
  PROVE  JournalInv'
<1> USE Shapes, StepSets, DeploymentsAssumption
    DEF JournalInv, RollingSteps, CommitSteps, FailSteps, Pending, PreviousMissing, NonePending, RefuseHandover, LockFree, GoTo, hostVars, recoveryVars
<1>a. (worker # None => worker \in Deployments) /\ (recovery # "none" => target \in Deployments)
  BY DEF TypeInv, TypeOK, Named
<1>1. WorkerKnows'
  BY <1>a DEF WorkerKnows, RowKnows, PendingKnows
<1>2. RecoveryKnows'
  BY <1>a DEF RecoveryKnows, WorkerKnows, RowKnows, PendingKnows
<1>3. ASSUME NEW d \in Deployments PROVE PendingKnows(d)'
  BY <1>a, <1>3 DEF PendingKnows, WorkerKnows, RecoveryKnows, RowKnows
<1>4. ASSUME NEW d \in Deployments PROVE RowKnows(d)'
  BY <1>a, <1>4 DEF RowKnows, WorkerKnows, RecoveryKnows, PendingKnows
<1> QED BY <1>1, <1>2, <1>3, <1>4

LEMMA CommitKnows ==
  ASSUME TypeInv, JournalInv, Commit, row[worker].roles = RoleContainers(worker)
  PROVE  JournalInv'
<1> USE Shapes, StepSets, DeploymentsAssumption
    DEF JournalInv, RollingSteps, CommitSteps, FailSteps, Pending, PreviousMissing, NonePending, Commit, CommitIntent, SetPhase, GoTo, hostVars, recoveryVars
<1>a. (worker # None => worker \in Deployments) /\ (recovery # "none" => target \in Deployments)
  BY DEF TypeInv, TypeOK, Named
<1>1. WorkerKnows'
  BY <1>a DEF WorkerKnows, RowKnows, PendingKnows
<1>2. RecoveryKnows'
  BY <1>a DEF RecoveryKnows, WorkerKnows, RowKnows, PendingKnows
<1>3. ASSUME NEW d \in Deployments PROVE PendingKnows(d)'
  BY <1>a, <1>3 DEF PendingKnows, WorkerKnows, RecoveryKnows, RowKnows
<1>4. ASSUME NEW d \in Deployments PROVE RowKnows(d)'
  BY <1>a, <1>4 DEF RowKnows, WorkerKnows, RecoveryKnows, PendingKnows
<1> QED BY <1>1, <1>2, <1>3, <1>4

LEMMA PublishKnows ==
  ASSUME TypeInv, JournalInv, Publish
  PROVE  JournalInv'
<1> USE Shapes, StepSets, DeploymentsAssumption
    DEF JournalInv, RollingSteps, CommitSteps, FailSteps, Pending, PreviousMissing, NonePending, Publish, SetPhase, GoTo, recoveryVars
<1>a. (worker # None => worker \in Deployments) /\ (recovery # "none" => target \in Deployments)
  BY DEF TypeInv, TypeOK, Named
<1>1. WorkerKnows'
  BY <1>a DEF WorkerKnows, RowKnows, PendingKnows
<1>2. RecoveryKnows'
  BY <1>a DEF RecoveryKnows, WorkerKnows, RowKnows, PendingKnows
<1>3. ASSUME NEW d \in Deployments PROVE PendingKnows(d)'
  BY <1>a, <1>3 DEF PendingKnows, WorkerKnows, RecoveryKnows, RowKnows
<1>4. ASSUME NEW d \in Deployments PROVE RowKnows(d)'
  BY <1>a, <1>4 DEF RowKnows, WorkerKnows, RecoveryKnows, PendingKnows
<1> QED BY <1>1, <1>2, <1>3, <1>4

LEMMA KeepContainersKnows ==
  ASSUME TypeInv, JournalInv, KeepContainers
  PROVE  JournalInv'
<1> USE Shapes, StepSets, DeploymentsAssumption
    DEF JournalInv, RollingSteps, CommitSteps, FailSteps, Pending, PreviousMissing, NonePending, KeepContainers, SetPhase, GoTo, hostVars, recoveryVars
<1>a. (worker # None => worker \in Deployments) /\ (recovery # "none" => target \in Deployments)
  BY DEF TypeInv, TypeOK, Named
<1>1. WorkerKnows'
  BY <1>a DEF WorkerKnows, RowKnows, PendingKnows
<1>2. RecoveryKnows'
  BY <1>a DEF RecoveryKnows, WorkerKnows, RowKnows, PendingKnows
<1>3. ASSUME NEW d \in Deployments PROVE PendingKnows(d)'
  BY <1>a, <1>3 DEF PendingKnows, WorkerKnows, RecoveryKnows, RowKnows
<1>4. ASSUME NEW d \in Deployments PROVE RowKnows(d)'
  BY <1>a, <1>4 DEF RowKnows, WorkerKnows, RecoveryKnows, PendingKnows
<1> QED BY <1>1, <1>2, <1>3, <1>4

LEMMA SettleFailureKnows ==
  ASSUME TypeInv, JournalInv, SettleFailure
  PROVE  JournalInv'
<1> USE Shapes, StepSets, DeploymentsAssumption
    DEF JournalInv, RollingSteps, CommitSteps, FailSteps, Pending, PreviousMissing, NonePending, SettleFailure, SetPhase, GoTo, recoveryVars
<1>a. (worker # None => worker \in Deployments) /\ (recovery # "none" => target \in Deployments)
  BY DEF TypeInv, TypeOK, Named
<1>1. WorkerKnows'
  BY <1>a DEF WorkerKnows, RowKnows, PendingKnows
<1>2. RecoveryKnows'
  BY <1>a DEF RecoveryKnows, WorkerKnows, RowKnows, PendingKnows
<1>3. ASSUME NEW d \in Deployments PROVE PendingKnows(d)'
  BY <1>a, <1>3 DEF PendingKnows, WorkerKnows, RecoveryKnows, RowKnows
<1>4. ASSUME NEW d \in Deployments PROVE RowKnows(d)'
  <2>1. /\ row'[d].roles = row[d].roles /\ (row'[d].status = "none" <=> row[d].status = "none")
        /\ row'[d].status = "deleted" <=> row[d].status = "deleted"
        /\ journal'[d].phase # journal[d].phase => d = worker
        /\ \A e \in Deployments : row[e].status = "none" => row'[e].status = "none"
        /\ UNCHANGED <<live, worker, cleaned>>
    BY <1>a, <1>4
  <2> QED BY <1>4, <2>1 DEF RowKnows, WorkerKnows
<1> QED BY <1>1, <1>2, <1>3, <1>4

LEMMA EndWorkerKnows ==
  ASSUME TypeInv, JournalInv, EndWorker
  PROVE  JournalInv'
<1> USE Shapes, StepSets, DeploymentsAssumption
    DEF JournalInv, RollingSteps, CommitSteps, FailSteps, Pending, PreviousMissing, NonePending, EndWorker, hostVars, recoveryVars
<1>a. (worker # None => worker \in Deployments) /\ (recovery # "none" => target \in Deployments)
  BY DEF TypeInv, TypeOK, Named
<1>1. WorkerKnows'
  BY <1>a DEF WorkerKnows, RowKnows, PendingKnows
<1>2. RecoveryKnows'
  BY <1>a DEF RecoveryKnows, WorkerKnows, RowKnows, PendingKnows
<1>3. ASSUME NEW d \in Deployments PROVE PendingKnows(d)'
  BY <1>a, <1>3 DEF PendingKnows, WorkerKnows, RecoveryKnows, RowKnows
<1>4. ASSUME NEW d \in Deployments PROVE RowKnows(d)'
  BY <1>a, <1>4 DEF RowKnows, WorkerKnows, RecoveryKnows, PendingKnows
<1> QED BY <1>1, <1>2, <1>3, <1>4

LEMMA CrashKnows ==
  ASSUME TypeInv, JournalInv, Crash
  PROVE  JournalInv'
<1> USE Shapes, StepSets, DeploymentsAssumption
    DEF JournalInv, RollingSteps, CommitSteps, FailSteps, Pending, PreviousMissing, NonePending, Crash, Cancellable, CountFault
<1>a. (worker # None => worker \in Deployments) /\ (recovery # "none" => target \in Deployments)
  BY DEF TypeInv, TypeOK, Named
<1>1. WorkerKnows'
  BY <1>a DEF WorkerKnows, RowKnows, PendingKnows
<1>2. RecoveryKnows'
  BY <1>a DEF RecoveryKnows, WorkerKnows, RowKnows, PendingKnows
<1>3. ASSUME NEW d \in Deployments PROVE PendingKnows(d)'
  BY <1>a, <1>3 DEF PendingKnows, WorkerKnows, RecoveryKnows, RowKnows
<1>4. ASSUME NEW d \in Deployments PROVE RowKnows(d)'
  BY <1>a, <1>4 DEF RowKnows, WorkerKnows, RecoveryKnows, PendingKnows
<1> QED BY <1>1, <1>2, <1>3, <1>4

LEMMA SweepKnows ==
  ASSUME TypeInv, JournalInv, NEW d \in Deployments, SweepRecovers(d)
  PROVE  JournalInv'
<1> USE Shapes, StepSets, DeploymentsAssumption
    DEF JournalInv, RollingSteps, CommitSteps, FailSteps, Pending, PreviousMissing, NonePending, SweepRecovers, LockFree, EnterRecovery, SetPhase, EntryOf, EntryPhase, hostVars
<1>a. (worker # None => worker \in Deployments) /\ (recovery # "none" => target \in Deployments)
  BY DEF TypeInv, TypeOK, Named
<1>1. WorkerKnows'
  BY <1>a DEF WorkerKnows, RowKnows, PendingKnows, RecoveryKnows
<1>2. RecoveryKnows'
  BY <1>a DEF RecoveryKnows, WorkerKnows, RowKnows, PendingKnows
<1>3. ASSUME NEW e \in Deployments PROVE PendingKnows(e)'
  BY <1>a, <1>3 DEF PendingKnows, WorkerKnows, RecoveryKnows, RowKnows
<1>4. ASSUME NEW e \in Deployments PROVE RowKnows(e)'
  BY <1>a, <1>4 DEF RowKnows, WorkerKnows, RecoveryKnows, PendingKnows
<1> QED BY <1>1, <1>2, <1>3, <1>4

LEMMA DiscardKnows ==
  ASSUME TypeInv, JournalInv, NEW d \in Deployments, DiscardPending(d)
  PROVE  JournalInv'
<1> USE Shapes, StepSets, DeploymentsAssumption
    DEF JournalInv, RollingSteps, CommitSteps, FailSteps, Pending, PreviousMissing, NonePending, DiscardPending, Deletable, LockFree, EnterRecovery, SetPhase, EntryOf, EntryPhase, hostVars
<1>a. (worker # None => worker \in Deployments) /\ (recovery # "none" => target \in Deployments)
  BY DEF TypeInv, TypeOK, Named
<1>1. WorkerKnows'
  BY <1>a DEF WorkerKnows, RowKnows, PendingKnows, RecoveryKnows
<1>2. RecoveryKnows'
  BY <1>a DEF RecoveryKnows, WorkerKnows, RowKnows, PendingKnows
<1>3. ASSUME NEW e \in Deployments PROVE PendingKnows(e)'
  BY <1>a, <1>3 DEF PendingKnows, WorkerKnows, RecoveryKnows, RowKnows
<1>4. ASSUME NEW e \in Deployments PROVE RowKnows(e)'
  BY <1>a, <1>4 DEF RowKnows, WorkerKnows, RecoveryKnows, PendingKnows
<1> QED BY <1>1, <1>2, <1>3, <1>4

LEMMA WorkerRecoversKnows ==
  ASSUME TypeInv, JournalInv, WorkerRecovers
  PROVE  JournalInv'
<1> USE Shapes, StepSets, DeploymentsAssumption
    DEF JournalInv, RollingSteps, CommitSteps, FailSteps, Pending, PreviousMissing, NonePending, WorkerRecovers, EnterRecovery, SetPhase, EntryOf, EntryPhase, hostVars
<1>a. (worker # None => worker \in Deployments) /\ (recovery # "none" => target \in Deployments)
  BY DEF TypeInv, TypeOK, Named
<1>1. WorkerKnows'
  BY <1>a DEF WorkerKnows, RowKnows, PendingKnows, RecoveryKnows
<1>2. RecoveryKnows'
  <2>1. /\ worker \in Deployments /\ step = "recovering"
        /\ UNCHANGED <<row, live, worker>>
        /\ journal[worker].phase \in {"preparing", "committing"}
    BY <1>a DEF WorkerKnows
  <2>2. CASE EntryOf(worker, FALSE) = "none"
    BY <2>1, <2>2 DEF RecoveryKnows
  <2>3. CASE EntryOf(worker, FALSE) # "none"
    <3>1. /\ recovery' = IF journal[worker].phase = "committing" THEN "advancing" ELSE "undoing"
          /\ target' = worker /\ step' = "recovering" /\ discarding' = FALSE
          /\ ~PreviousMissing(worker)
          /\ journal'[worker].phase = journal[worker].phase
          /\ journal'[worker].previous = journal[worker].previous
      BY <2>1, <2>3
    <3> QED BY <2>1, <3>1 DEF RecoveryKnows
  <2> QED BY <2>2, <2>3
<1>3. ASSUME NEW d \in Deployments PROVE PendingKnows(d)'
  BY <1>a, <1>3 DEF PendingKnows, WorkerKnows, RecoveryKnows, RowKnows
<1>4. ASSUME NEW d \in Deployments PROVE RowKnows(d)'
  BY <1>a, <1>4 DEF RowKnows, WorkerKnows, RecoveryKnows, PendingKnows
<1> QED BY <1>1, <1>2, <1>3, <1>4

LEMMA DeleteSettledKnows ==
  ASSUME TypeInv, JournalInv, NEW d \in Deployments, DeleteSettled(d)
  PROVE  JournalInv'
<1> USE Shapes, StepSets, DeploymentsAssumption
    DEF JournalInv, RollingSteps, CommitSteps, FailSteps, Pending, PreviousMissing, NonePending, DeleteSettled, Deletable, LockFree, hostVars, workerVars
<1>a. (worker # None => worker \in Deployments) /\ (recovery # "none" => target \in Deployments)
  BY DEF TypeInv, TypeOK, Named
<1>1. WorkerKnows'
  BY <1>a DEF WorkerKnows, RowKnows, PendingKnows, RecoveryKnows
<1>2. RecoveryKnows'
  BY <1>a DEF RecoveryKnows, WorkerKnows, RowKnows, PendingKnows
<1>3. ASSUME NEW e \in Deployments PROVE PendingKnows(e)'
  BY <1>a, <1>3 DEF PendingKnows, WorkerKnows, RecoveryKnows, RowKnows
<1>4. ASSUME NEW e \in Deployments PROVE RowKnows(e)'
  BY <1>4 DEF RowKnows
<1> QED BY <1>1, <1>2, <1>3, <1>4

LEMMA CompleteUndoKnows ==
  ASSUME TypeInv, JournalInv, CompleteUndo
  PROVE  JournalInv'
<1> USE Shapes, StepSets, DeploymentsAssumption
    DEF JournalInv, RollingSteps, CommitSteps, FailSteps, Pending, PreviousMissing, NonePending, CompleteUndo, SetPhase, EndRecovery, hostVars
<1>a. (worker # None => worker \in Deployments) /\ (recovery # "none" => target \in Deployments)
  BY DEF TypeInv, TypeOK, Named
<1>1. WorkerKnows'
  BY <1>a DEF WorkerKnows, RowKnows, PendingKnows, RecoveryKnows
<1>2. RecoveryKnows'
  BY <1>a DEF RecoveryKnows, WorkerKnows, RowKnows, PendingKnows
<1>3. ASSUME NEW d \in Deployments PROVE PendingKnows(d)'
  BY <1>a, <1>3 DEF PendingKnows, WorkerKnows, RecoveryKnows, RowKnows
<1>4. ASSUME NEW d \in Deployments PROVE RowKnows(d)'
  BY <1>a, <1>4 DEF RowKnows, WorkerKnows, RecoveryKnows, PendingKnows
<1> QED BY <1>1, <1>2, <1>3, <1>4

LEMMA CompleteAdvanceKnows ==
  ASSUME TypeInv, JournalInv, CompleteAdvance
  PROVE  JournalInv'
<1> USE Shapes, StepSets, DeploymentsAssumption
    DEF JournalInv, RollingSteps, CommitSteps, FailSteps, Pending, PreviousMissing, NonePending, CompleteAdvance, SetPhase, EndRecovery, hostVars
<1>a. (worker # None => worker \in Deployments) /\ (recovery # "none" => target \in Deployments)
  BY DEF TypeInv, TypeOK, Named
<1>1. WorkerKnows'
  BY <1>a DEF WorkerKnows, RowKnows, PendingKnows, RecoveryKnows
<1>2. RecoveryKnows'
  BY <1>a DEF RecoveryKnows, WorkerKnows, RowKnows, PendingKnows
<1>3. ASSUME NEW d \in Deployments PROVE PendingKnows(d)'
  BY <1>a, <1>3 DEF PendingKnows, WorkerKnows, RecoveryKnows, RowKnows
<1>4. ASSUME NEW d \in Deployments PROVE RowKnows(d)'
  BY <1>a, <1>4 DEF RowKnows, WorkerKnows, RecoveryKnows, PendingKnows
<1> QED BY <1>1, <1>2, <1>3, <1>4

LEMMA AdvanceReleaseKnows ==
  ASSUME TypeInv, JournalInv, AdvanceRelease
  PROVE  JournalInv'
<1> USE Shapes, StepSets, DeploymentsAssumption
    DEF JournalInv, RollingSteps, CommitSteps, FailSteps, Pending, PreviousMissing, NonePending, AdvanceRelease, hostVars, workerVars
<1>a. (worker # None => worker \in Deployments) /\ (recovery # "none" => target \in Deployments)
  BY DEF TypeInv, TypeOK, Named
<1>1. WorkerKnows'
  BY <1>a DEF WorkerKnows, RowKnows, PendingKnows, RecoveryKnows
<1>2. RecoveryKnows'
  BY <1>a DEF RecoveryKnows, WorkerKnows, RowKnows, PendingKnows
<1>3. ASSUME NEW d \in Deployments PROVE PendingKnows(d)'
  BY <1>a, <1>3 DEF PendingKnows, WorkerKnows, RecoveryKnows, RowKnows
<1>4. ASSUME NEW d \in Deployments PROVE RowKnows(d)'
  BY <1>a, <1>4 DEF RowKnows, WorkerKnows, RecoveryKnows, PendingKnows
<1> QED BY <1>1, <1>2, <1>3, <1>4

LEMMA CleanUpKnows ==
  ASSUME TypeInv, JournalInv, CleanUp
  PROVE  JournalInv'
<1> USE Shapes, StepSets, DeploymentsAssumption
    DEF JournalInv, RollingSteps, CommitSteps, FailSteps, Pending, PreviousMissing, NonePending, CleanUp, workerVars, recoveryVars
<1>a. (worker # None => worker \in Deployments) /\ (recovery # "none" => target \in Deployments)
  BY DEF TypeInv, TypeOK, Named
<1>1. WorkerKnows'
  BY <1>a DEF WorkerKnows, RowKnows, PendingKnows, RecoveryKnows
<1>2. RecoveryKnows'
  BY <1>a DEF RecoveryKnows, WorkerKnows, RowKnows, PendingKnows
<1>3. ASSUME NEW d \in Deployments PROVE PendingKnows(d)'
  BY <1>a, <1>3 DEF PendingKnows, WorkerKnows, RecoveryKnows, RowKnows
<1>4. ASSUME NEW d \in Deployments PROVE RowKnows(d)'
  <2>1. cleaned' = cleaned \cup {target} /\ recovery = "cleaning" /\ UNCHANGED <<row, live, journal, worker>>
    OBVIOUS
  <2> QED BY <1>4, <2>1 DEF RowKnows, RecoveryKnows
<1> QED BY <1>1, <1>2, <1>3, <1>4

LEMMA DropRowKnows ==
  ASSUME TypeInv, JournalInv, DropRow
  PROVE  JournalInv'
<1> USE Shapes, StepSets, DeploymentsAssumption
    DEF JournalInv, RollingSteps, CommitSteps, FailSteps, Pending, PreviousMissing, NonePending, DropRow, NoJournal, hostVars, workerVars
<1>a. (worker # None => worker \in Deployments) /\ (recovery # "none" => target \in Deployments)
  BY DEF TypeInv, TypeOK, Named
<1>1. WorkerKnows'
  BY <1>a DEF WorkerKnows, RowKnows, PendingKnows, RecoveryKnows
<1>2. RecoveryKnows'
  BY <1>a DEF RecoveryKnows, WorkerKnows, RowKnows, PendingKnows
<1>3. ASSUME NEW d \in Deployments PROVE PendingKnows(d)'
  BY <1>a, <1>3 DEF PendingKnows, WorkerKnows, RecoveryKnows, RowKnows
<1>4. ASSUME NEW d \in Deployments PROVE RowKnows(d)'
  BY <1>a, <1>4 DEF RowKnows, WorkerKnows, RecoveryKnows, PendingKnows
<1> QED BY <1>1, <1>2, <1>3, <1>4

LEMMA AbandonKnows ==
  ASSUME TypeInv, JournalInv, recovery # "none", AbandonRecovery, UNCHANGED <<row, live, journal, cleaned>>
  PROVE  JournalInv'
<1> USE Shapes, StepSets, DeploymentsAssumption
    DEF JournalInv, RollingSteps, CommitSteps, FailSteps, Pending, PreviousMissing, NonePending, AbandonRecovery
<1>1. WorkerKnows'
  BY DEF WorkerKnows, RecoveryKnows
<1>2. RecoveryKnows'
  BY DEF RecoveryKnows
<1>3. \A d \in Deployments : PendingKnows(d)'
  BY DEF PendingKnows
<1>4. \A d \in Deployments : RowKnows(d)'
  BY DEF RowKnows
<1> QED BY <1>1, <1>2, <1>3, <1>4
LEMMA CommitOwns ==
  ASSUME TypeInv, JournalInv, HostInv, Commit
  PROVE  row[worker].roles = RoleContainers(worker)
<1>1. worker \in Deployments /\ step \in RolloutSteps /\ step \notin InStage
  BY StepSets, StageSteps DEF TypeInv, Named, Commit
<1>2. RolloutFor(worker) /\ RowKnows(worker)
  BY <1>1 DEF HostInv, JournalInv
<1> QED BY <1>1, <1>2 DEF RolloutFor, RowKnows

LEMMA JournalStep ==
  ASSUME TypeInv, JournalInv, HostInv, [Next]_vars
  PROVE  JournalInv'
<1>1. CASE UNCHANGED vars
  BY <1>1 DEF vars, hostVars, workerVars, recoveryVars, JournalInv, WorkerKnows, RecoveryKnows,
     PendingKnows, RowKnows, Pending, PreviousMissing, NonePending
<1>2. ASSUME NEW d \in Deployments, User(d) \/ SweepRecovers(d) PROVE JournalInv'
  BY <1>2, DeployKnows, CancelKnows, SweepKnows, DiscardKnows, DeleteSettledKnows DEF User
<1>3. ASSUME Signal \/ (\E c \in Containers : LateEffect(c)) PROVE JournalInv'
  BY <1>3, OtherStands, StandKeeps
<1>4. ASSUME WorkerStep \/ WorkerFails PROVE JournalInv'
  <2>1. ASSUME \E c \in AllRoles : Rollout(c) \/ LoseCreate(c) PROVE JournalInv'
    BY <2>1, RollingStands, StandKeeps
  <2>2. ASSUME \/ EndStage \/ SeeCancellation \/ FailCheck
               \/ StopPreviousWeb \/ OverlapPreviousWeb \/ ActivateWeb \/ LoseActivation \/ PassWeb
               \/ CancelWeb \/ FailHealth
        PROVE  JournalInv'
    BY <2>2, WebStands, StandKeeps
  <2>3. ASSUME \/ CommitRefused \/ RetirePrevious \/ FailPublish
               \/ StopActivated \/ RevertWeb \/ Unwind \/ RestartRetained
        PROVE  JournalInv'
    BY <2>3, EndStands, StandKeeps
  <2>4. ASSUME \/ BeginHandover \/ RefuseHandover \/ Commit \/ Publish
               \/ KeepContainers \/ SettleFailure \/ WorkerRecovers \/ EndWorker
        PROVE  JournalInv'
    BY <2>4, BeginHandoverKnows, RefuseHandoverKnows, CommitOwns, CommitKnows, PublishKnows,
       KeepContainersKnows, SettleFailureKnows, WorkerRecoversKnows, EndWorkerKnows
  <2> QED BY <1>4, <2>1, <2>2, <2>3, <2>4 DEF WorkerStep, WorkerFails
<1>5. ASSUME RecoveryStep PROVE JournalInv'
  <2>1. ASSUME NEW c \in Containers, RemoveCandidate(c) \/ RestorePrevious(c) \/ RemovePrevious(c)
        PROVE  JournalInv'
    <3>1. CASE AbandonRecovery
      <4>1. recovery # "none" /\ UNCHANGED <<row, live, journal, cleaned>>
        BY <2>1 DEF RemoveCandidate, RestorePrevious, RemovePrevious
      <4> QED BY <3>1, <4>1, AbandonKnows
    <3>2. CASE ~AbandonRecovery
      BY <2>1, <3>2, OtherStands, StandKeeps
    <3> QED BY <3>1, <3>2
  <2>2. ASSUME PreviousContainerMissing PROVE JournalInv'
    <3>1. recovery # "none" /\ UNCHANGED <<row, live, journal, cleaned>> /\ AbandonRecovery
      BY <2>2 DEF PreviousContainerMissing
    <3> QED BY <3>1, AbandonKnows
  <2> QED BY <1>5, <2>1, <2>2, CompleteUndoKnows, AdvanceReleaseKnows, CompleteAdvanceKnows,
             CleanUpKnows, DropRowKnows DEF RecoveryStep
<1> QED BY <1>1, <1>2, <1>3, <1>4, <1>5, CrashKnows DEF Next

LEMMA JournalInit ==
  ASSUME Init
  PROVE  JournalInv
<1>1. WorkerKnows
  BY StepSets, StageSteps DEF Init, WorkerKnows, NoJournal, Pending, FailSteps, CommitSteps
<1>2. RecoveryKnows
  BY DEF Init, RecoveryKnows
<1>3. ASSUME NEW d \in Deployments PROVE PendingKnows(d) /\ RowKnows(d)
  BY <1>3, DeploymentsAssumption DEF Init, PendingKnows, RowKnows, Pending, NoJournal
<1> QED BY <1>1, <1>2, <1>3 DEF JournalInv
-----------------------------------------------------------------------------
(* What a request does to a container. *)

(* Nothing that matters happens to c: at most a late request takes effect. *)
Tame(c) ==
  /\ late[c] = {} => container'[c] = container[c] /\ late'[c] = {}
  /\ container[c] = "none" => container'[c] = "none"
  /\ container[c] # "none" /\ "destroy" \notin late[c] =>
       container'[c] # "none" /\ "destroy" \notin late'[c]
  /\ Intact(c) => Intact(c)'
  /\ Alive(c)' => Alive(c)
  /\ Starting(c)' => Starting(c)

LEMMA SameIsTame ==
  ASSUME NEW c, container'[c] = container[c], late'[c] = late[c]
  PROVE  Tame(c)
BY DEF Tame, Intact, Alive, Starting, Running

LEMMA LateIsTame ==
  ASSUME TypeInv, NEW d \in Containers, LateEffect(d), NEW c \in Containers
  PROVE  Tame(c)
<1>1. PICK request \in late[d] :
        /\ container' = [container EXCEPT ![d] = After(request, container[d])]
        /\ late' = [late EXCEPT ![d] = @ \ {request}]
  BY DEF LateEffect
<1>2. CASE c # d
  BY <1>1, <1>2, Shapes, SameIsTame
<1>3. CASE c = d
  <2>1. container'[c] = After(request, container[c]) /\ late'[c] = late[c] \ {request}
    BY <1>1, <1>3, Shapes
  <2>2. request \in Requests /\ container[c] \in States
    BY <1>1, <1>3 DEF TypeInv, TypeOK
  <2> QED BY <1>1, <1>3, <2>1, <2>2 DEF Tame, Intact, Alive, Starting, Running, After, Requests, States
<1> QED BY <1>2, <1>3

LEMMA AskEffect ==
  ASSUME TypeInv, NEW request, NEW asked, NEW lost, Ask(request, asked, lost), NEW c \in Containers
  PROVE  /\ c \notin asked => container'[c] = container[c] /\ late'[c] = late[c]
         /\ c \in lost => container'[c] = container[c] /\ late'[c] = late[c] \cup {request}
         /\ c \in asked \ lost => container'[c] = After(request, container[c]) /\ late'[c] = {}
         /\ lost \subseteq asked
BY Shapes DEF Ask

(* A stop or a removal raises nothing, and what answered it is down.       *)
LEMMA LowerEffect ==
  ASSUME TypeInv, NEW request \in {"stop", "destroy"}, NEW asked, NEW lost, Ask(request, asked, lost),
         NEW c \in Containers
  PROVE  /\ Alive(c)' => Alive(c)
         /\ Starting(c)' => Starting(c)
         /\ c \in asked \ lost => ~Alive(c)'
         /\ container[c] = "none" => container'[c] = "none"
<1>1. container[c] \in States
  BY DEF TypeInv, TypeOK
<1> QED BY <1>1, AskEffect DEF Alive, Starting, Running, After, States

LEMMA StopEffect ==
  ASSUME TypeInv, NEW asked, NEW lost, Ask("stop", asked, lost), NEW c \in Containers,
         container[c] # "none", "destroy" \notin late[c]
  PROVE  container'[c] # "none" /\ "destroy" \notin late'[c]
<1>1. container[c] \in States
  BY DEF TypeInv, TypeOK
<1> QED BY <1>1, AskEffect DEF After, States

LEMMA StartEffect ==
  ASSUME TypeInv, NEW asked, NEW lost, Ask("start", asked, lost), NEW c \in Containers
  PROVE  /\ container[c] # "none" /\ "destroy" \notin late[c] =>
              container'[c] # "none" /\ "destroy" \notin late'[c]
         /\ Intact(c) => Intact(c)'
         /\ c \in asked \ lost /\ container[c] # "none" => Steady(c)'
         /\ container[c] = "none" => container'[c] = "none"
<1>1. container[c] \in States
  BY DEF TypeInv, TypeOK
<1> QED BY <1>1, AskEffect DEF Intact, Steady, Running, After, States

LEMMA DestroyEffect ==
  ASSUME TypeInv, NEW asked, NEW lost, Ask("destroy", asked, lost), NEW c \in Containers,
         c \in asked \ lost
  PROVE  container'[c] = "none"
<1>1. container[c] \in States
  BY DEF TypeInv, TypeOK
<1> QED BY <1>1, AskEffect DEF After, States
-----------------------------------------------------------------------------
(* Steps that leave the containers to themselves.                          *)

Open(d) == journal[d].phase \in {"preparing", "kept"}
Fresh(d) == row[d].status = "none" \/ (step = "waiting" /\ worker = d)

(* The release before one that is pending.                                 *)
LEMMA PreviousFacts ==
  ASSUME TypeInv, JournalInv, NEW d \in Deployments, Pending(d)
  PROVE  LET p == journal[d].previous IN
         /\ ~Fresh(d)
         /\ \A e \in Deployments : Pending(e) => e = d
         /\ p \in Deployments \cup {None} /\ p # d
         /\ p # None => ~Fresh(p) /\ p < d
         /\ p = None => journal[d].stopped = {}
         /\ p # None => journal[d].stopped \subseteq RoleContainers(p)
<1> DEFINE p == journal[d].previous
<1>1. PendingKnows(d) /\ p \in Deployments \cup {None} /\ d \in Nat /\ d # None
  BY Shapes, DeploymentsAssumption DEF JournalInv
<1>2. step = "waiting" => NonePending
  BY DEF JournalInv, WorkerKnows
<1>3. step # "waiting"
  BY <1>2 DEF NonePending
<1>4. p # None => p < d /\ p # d /\ row[p].status # "none"
  BY <1>1, Shapes DEF PendingKnows
<1>5. /\ row[d].status # "none"
      /\ \A e \in Deployments : Pending(e) => e = d
      /\ p = None => journal[d].stopped = {}
      /\ p # None => journal[d].stopped \subseteq RoleContainers(p)
  BY <1>1 DEF PendingKnows
<1> QED BY <1>1, <1>3, <1>4, <1>5 DEF Fresh

(* The journals keep their meaning.                                        *)
SameJournals ==
  \A d \in Deployments :
    /\ Pending(d)' <=> Pending(d)
    /\ Open(d)' <=> Open(d)
    /\ Pending(d) =>
         /\ journal'[d].previous = journal[d].previous
         /\ journal'[d].stopped = journal[d].stopped
         /\ journal'[d].stopsWeb = journal[d].stopsWeb

(* Nothing is unmade that a release without containers relies on.          *)
FreshKept == \A d \in Deployments : Fresh(d)' => Fresh(d)

Idle ==
  /\ \A c \in Containers : Tame(c)
  /\ cleaned' = cleaned
  /\ SameJournals
  /\ FreshKept
  /\ NonePending => live' \in {live, None}
  /\ step' = "retired" =>
       step = "retired" /\ worker' = worker /\ \A d \in Deployments : row'[d].roles = row[d].roles
  /\ recovery' = "undoing" => restored' = {} \/ UNCHANGED <<recovery, target, restored>>

ReleasesInv ==
  /\ \A d \in Deployments : CommittedFor(d) /\ PreviousFor(d) /\ OthersFor(d) /\ FreshFor(d)
  /\ Alone
  /\ Settled
  /\ BroughtBack

LEMMA IdleHost ==
  ASSUME TypeInv, JournalInv, ReleasesInv, Idle
  PROVE  ReleasesInv'
<1> USE DEF Idle
<1>a. \A d \in Deployments : Candidates(d) \subseteq Containers /\ RoleContainers(d) \subseteq Candidates(d)
                             /\ RoleContainers(d) \subseteq AllRoles
  BY ContainerFacts
<1>b. AllRoles \subseteq Containers
  BY ContainerFacts
<1>1. ASSUME NEW d \in Deployments PROVE CommittedFor(d)'
  <2>1. journal'[d].phase = "committing" => journal[d].phase = "committing"
    BY Shapes DEF SameJournals, Pending, Open
  <2>2. \A c \in Candidates(d) : Steady(c) => Steady(c)'
    BY <1>a DEF Tame, Steady, Running
  <2>3. ASSUME step' = "retired", worker' = d PROVE Gone(PreviousRoles(d))'
    <3>1. step = "retired" /\ worker = d /\ \A e \in Deployments : row'[e].roles = row[e].roles
      BY <2>3
    <3>2. Pending(d)
      BY <3>1, StepSets DEF JournalInv, WorkerKnows, CommitSteps, Pending
    <3>3. PreviousRoles(d)' = PreviousRoles(d)
      BY <3>1, <3>2, Shapes DEF SameJournals, PreviousRoles
    <3>4. PreviousRoles(d) \subseteq Containers
      BY <1>b DEF PreviousRoles, TypeInv, TypeOK, Rows, Journals
    <3>5. Gone(PreviousRoles(d))
      BY <3>1 DEF ReleasesInv, CommittedFor
    <3> QED BY <3>3, <3>4, <3>5 DEF Gone, Tame
  <2> QED BY <2>1, <2>2, <2>3 DEF ReleasesInv, CommittedFor
<1>2. ASSUME NEW d \in Deployments PROVE PreviousFor(d)'
  <2>1. SUFFICES ASSUME Open(d)', journal'[d].previous # None PROVE PreviousFor(d)'
    BY DEF PreviousFor, Open
  <2>2. Open(d) /\ Pending(d)
    BY <2>1 DEF SameJournals, Open, Pending
  <2> DEFINE p == journal[d].previous
  <2>3. p \in Deployments /\ journal'[d].previous = p /\ journal'[d].stopped = journal[d].stopped
        /\ Touched(d)' = Touched(d)
    BY <2>1, <2>2, PreviousFacts DEF SameJournals, Touched, PreviousWeb
  <2>4. PreviousFor(d)
    BY DEF ReleasesInv
  <2>5. /\ p \notin cleaned =>
             \A c \in Candidates(p) :
               container[c] # "none" /\ "destroy" \notin late[c] /\ (Intact(c) \/ c \in Touched(d))
        /\ \A c \in RoleContainers(p) \ journal[d].stopped : ~Starting(c)
    BY <2>1, <2>2, <2>3, <2>4 DEF PreviousFor, Open
  <2>6. \A c \in Candidates(p) : Tame(c)
    BY <1>a, <2>3
  <2>7. p \notin cleaned' =>
          \A c \in Candidates(p) :
            container'[c] # "none" /\ "destroy" \notin late'[c] /\ (Intact(c)' \/ c \in Touched(d)')
    BY <2>3, <2>5, <2>6 DEF Tame
  <2>8. \A c \in RoleContainers(p) \ journal'[d].stopped : ~Starting(c)'
    BY <1>a, <2>3, <2>5, <2>6 DEF Tame
  <2> QED BY <2>3, <2>7, <2>8 DEF PreviousFor
<1>3. ASSUME NEW d \in Deployments PROVE OthersFor(d)'
  BY <1>b, <1>3 DEF SameJournals, ReleasesInv, OthersFor, Tame
<1>4. ASSUME NEW d \in Deployments PROVE FreshFor(d)'
  BY <1>a, <1>4 DEF FreshKept, Fresh, ReleasesInv, FreshFor, Untouched, Tame
<1>5. Alone'
  BY <1>b DEF ReleasesInv, Alone, Tame
<1>6. Settled'
  <2>1. NonePending' => NonePending
    BY DEF SameJournals, NonePending
  <2>2. live # None => live \in Deployments
    BY DEF TypeInv, TypeOK
  <2> QED BY <1>a, <1>b, <2>1, <2>2 DEF ReleasesInv, Settled, Tame
<1>7. BroughtBack'
  <2>1. ASSUME recovery' = "undoing", UNCHANGED <<recovery, target, restored>> PROVE BroughtBack'
    <3>1. target \in Deployments /\ Pending(target) /\ restored \subseteq Containers
      BY <2>1 DEF JournalInv, RecoveryKnows, Pending, TypeInv, TypeOK
    <3>2. Touched(target)' = Touched(target)
      BY <2>1, <3>1 DEF SameJournals, Touched, PreviousWeb
    <3> QED BY <2>1, <3>1, <3>2 DEF ReleasesInv, BroughtBack, Steady, Running, Tame
  <2> QED BY <2>1 DEF BroughtBack
<1> QED BY <1>1, <1>2, <1>3, <1>4, <1>5, <1>6, <1>7 DEF ReleasesInv

RolloutInv ==
  \A d \in Deployments : RolloutFor(d) /\ StoppedFor(d) /\ FailureFor(d) /\ RetainedFor(d)

(* The rollout stands where it is, or has failed.                          *)
SameRollout ==
  step' \in RollingSteps =>
    /\ UNCHANGED <<worker, started, retained>>
    /\ \A d \in Deployments : row'[d].roles = row[d].roles
    /\ step' = step \/ (step \in RolloutSteps /\ step' \in FailSteps)

(* What a worker in its rollout relies on.                                 *)
LEMMA RollingFacts ==
  ASSUME TypeInv, JournalInv, step \in RollingSteps
  PROVE  /\ worker \in Deployments /\ Pending(worker) /\ journal[worker].phase = "preparing"
         /\ recovery = "none"
         /\ started \subseteq RoleContainers(worker)
         /\ live = journal[worker].previous
         /\ journal[worker].previous # None =>
              PreviousRoles(worker) = RoleContainers(journal[worker].previous)
         /\ PreviousRoles(worker) \subseteq AllRoles
         /\ row[worker].roles \subseteq RoleContainers(worker)
<1>1. worker \in Deployments /\ journal[worker].phase = "preparing" /\ live = journal[worker].previous
      /\ started \subseteq RoleContainers(worker)
  BY StepSets DEF TypeInv, Named, JournalInv, WorkerKnows, RollingSteps, FailSteps
<1>2. Pending(worker)
  BY <1>1 DEF Pending
<1>3. recovery = "none"
  BY StepSets DEF JournalInv, RecoveryKnows, RollingSteps, FailSteps
<1>4. journal[worker].previous # None =>
        PreviousRoles(worker) = RoleContainers(journal[worker].previous)
  BY <1>1, Shapes DEF JournalInv, RowKnows, PreviousRoles
<1>5. PreviousRoles(worker) \subseteq AllRoles
  BY <1>1, PlanTypes
<1> QED BY <1>1, <1>2, <1>3, <1>4, <1>5 DEF JournalInv, RowKnows

LEMMA SamePlan ==
  ASSUME TypeInv, SameJournals, NEW d \in Deployments, Pending(d),
         \A e \in Deployments : row'[e].roles = row[e].roles
  PROVE  /\ PreviousRoles(d)' = PreviousRoles(d) /\ Outgoing(d)' = Outgoing(d)
         /\ PreviousWeb(d)' = PreviousWeb(d)
         /\ \A c \in RoleContainers(d) :
              Replaced(d, c)' = Replaced(d, c) /\ (Waits(d, c)' <=> Waits(d, c))
<1>1. journal'[d].previous = journal[d].previous
  BY DEF SameJournals
<1>2. journal[d].previous \in Deployments \cup {None}
  BY Shapes
<1>3. PreviousRoles(d)' = PreviousRoles(d) /\ PreviousWeb(d)' = PreviousWeb(d)
  BY <1>1, <1>2 DEF PreviousRoles, PreviousWeb
<1>4. Changed(d)' = Changed(d)
  BY <1>1 DEF Changed
<1>5. Outgoing(d)' = Outgoing(d)
  BY <1>3, <1>4 DEF Outgoing
<1> QED BY <1>3, <1>4, <1>5 DEF Replaced, Waits

LEMMA IdleRollout ==
  ASSUME TypeInv, JournalInv, RolloutInv, \A c \in Containers : Tame(c), SameJournals, SameRollout
  PROVE  RolloutInv'
<1>1. CASE step' \notin RollingSteps
  BY <1>1 DEF RolloutInv, RolloutFor, StoppedFor, FailureFor, RetainedFor, RollingSteps
<1>2. CASE step' \in RollingSteps
  <2>1. /\ UNCHANGED <<worker, started, retained>>
        /\ \A d \in Deployments : row'[d].roles = row[d].roles
        /\ step' = step \/ (step \in RolloutSteps /\ step' \in FailSteps)
        /\ step \in RollingSteps
    BY <1>2 DEF SameRollout, RollingSteps
  <2>2. worker \in Deployments /\ Pending(worker) /\ started \subseteq RoleContainers(worker)
    BY <2>1, RollingFacts
  <2> SUFFICES ASSUME NEW d \in Deployments, d = worker
               PROVE  (RolloutFor(d) /\ StoppedFor(d) /\ FailureFor(d) /\ RetainedFor(d))'
    BY <2>1, <2>2 DEF RolloutInv, RolloutFor, StoppedFor, FailureFor, RetainedFor
  <2>3. /\ PreviousRoles(d)' = PreviousRoles(d)
        /\ Outgoing(d)' = Outgoing(d) /\ PreviousWeb(d)' = PreviousWeb(d)
        /\ \A c \in RoleContainers(d) :
             Replaced(d, c)' = Replaced(d, c) /\ (Waits(d, c)' <=> Waits(d, c))
    BY <2>1, <2>2, SamePlan
  <2>4. /\ RoleContainers(d) \subseteq Containers /\ Web(d) \in Containers
        /\ AllRoles \subseteq Containers
    BY <2>2, ContainerFacts
  <2>5. RolloutFor(d) /\ StoppedFor(d) /\ FailureFor(d) /\ RetainedFor(d)
    BY <2>2 DEF RolloutInv
  <2>6. RolloutFor(d)'
    <3>1. SUFFICES ASSUME step' \in RolloutSteps PROVE RolloutFor(d)'
      BY DEF RolloutFor
    <3>2. step' = step
      BY <2>1, <3>1, StepSets
    <3> QED BY <2>1, <2>3, <2>4, <2>5, <3>1, <3>2 DEF RolloutFor, Running, Tame
  <2>7. StoppedFor(d)'
    <3>1. SUFFICES ASSUME step' \in RolloutSteps PROVE StoppedFor(d)'
      BY DEF StoppedFor
    <3>2. step' = step
      BY <2>1, <3>1, StepSets
    <3>3. \A c \in started : Replaced(d, c)' = Replaced(d, c)
      BY <2>2, <2>3
    <3> QED BY <2>1, <2>3, <2>4, <2>5, <3>1, <3>2, <3>3 DEF StoppedFor, Tame
  <2>8. FailureFor(d)'
    <3>1. SUFFICES ASSUME step' \in FailSteps, NEW c \in RoleContainers(d) \ started PROVE ~Alive(c)'
      BY <2>1 DEF FailureFor
    <3>2. ~Alive(c)
      <4>1. CASE step \in FailSteps
        BY <2>5, <4>1 DEF FailureFor
      <4>2. CASE step \in RolloutSteps
        BY <2>5, <4>2 DEF RolloutFor, Alive, Running, Starting
      <4> QED BY <2>1, <3>1, <4>1, <4>2
    <3> QED BY <2>4, <3>2 DEF Tame
  <2>9. RetainedFor(d)'
    BY <2>1, <2>2, <2>3, <2>5 DEF RetainedFor, RollingSteps, SameJournals
  <2> QED BY <2>6, <2>7, <2>8, <2>9
<1> QED BY <1>1, <1>2
LEMMA IdleKeeps ==
  ASSUME TypeInv, JournalInv, HostInv, Idle, SameRollout
  PROVE  HostInv'
BY IdleHost, IdleRollout DEF Idle, HostInv, RolloutInv, ReleasesInv

LEMMA HostSame ==
  ASSUME UNCHANGED <<container, late>>
  PROVE  \A c \in Containers : Tame(c)
BY SameIsTame

LEMMA JournalsSame ==
  ASSUME UNCHANGED journal
  PROVE  SameJournals
BY DEF SameJournals, Pending, Open

LEMMA UserIdle ==
  ASSUME TypeInv, JournalInv, NEW d \in Deployments, User(d) \/ SweepRecovers(d)
  PROVE  Idle /\ SameRollout
<1> USE HostSame, JournalsSame, Shapes, StepSets DEF Idle, SameRollout, RollingSteps, FreshKept, Fresh
<1>1. ASSUME Deploy(d) PROVE Idle /\ SameRollout
  BY <1>1 DEF Deploy, hostVars, recoveryVars, FailSteps
<1>2. ASSUME NEW k \in BOOLEAN, Cancel(d, k) PROVE Idle /\ SameRollout
  BY <1>2 DEF Cancel, Cancellable, hostVars, recoveryVars, workerVars
<1>3. ASSUME NEW x \in BOOLEAN, EnterRecovery(d, x), step' = step PROVE Idle /\ SameRollout
  <2>1. SameJournals
    BY <1>3 DEF EnterRecovery, SetPhase, EntryPhase, SameJournals, Pending, Open
  <2> QED BY <1>3, <2>1 DEF EnterRecovery, hostVars
<1>4. ASSUME DeleteSettled(d) PROVE Idle /\ SameRollout
  BY <1>4 DEF DeleteSettled, hostVars, workerVars
<1> QED BY <1>1, <1>2, <1>3, <1>4 DEF User, DiscardPending, SweepRecovers

LEMMA WorkerIdle ==
  ASSUME TypeInv, JournalInv,
         \/ Signal \/ RefuseHandover \/ SeeCancellation \/ CancelWeb \/ CommitRefused
         \/ KeepContainers \/ WorkerRecovers \/ EndWorker \/ FailCheck \/ FailHealth \/ FailPublish
  PROVE  Idle /\ SameRollout
<1> USE HostSame, JournalsSame, Shapes, StepSets
    DEF Idle, SameRollout, RollingSteps, FreshKept, Fresh, GoTo
<1>a. /\ step \notin FailSteps \cup RolloutSteps => step \notin RollingSteps
      /\ {"done", "recovering"} \cap RollingSteps = {}
      /\ "retired" \notin RollingSteps /\ "waiting" \notin RollingSteps
  BY DEF FailSteps
<1>b. FailWeb \/ FailRoles => step' \in FailSteps
  BY FailWebTypes DEF FailSteps
<1>1. ASSUME Signal PROVE Idle /\ SameRollout
  BY <1>1 DEF Signal, hostVars, recoveryVars
<1>2. ASSUME RefuseHandover \/ CommitRefused \/ EndWorker \/ FailPublish PROVE Idle /\ SameRollout
  <2>1. \A d \in Deployments : row'[d].status = "none" => row[d].status = "none"
    BY <1>2 DEF RefuseHandover, CommitRefused, EndWorker, FailPublish
  <2>2. step' \in {"none", "done", "recovering"}
    BY <1>2 DEF RefuseHandover, CommitRefused, EndWorker, FailPublish
  <2> QED BY <1>2, <1>a, <2>1, <2>2
      DEF RefuseHandover, CommitRefused, EndWorker, FailPublish, hostVars, recoveryVars, FailSteps
<1>3. ASSUME SeeCancellation \/ CancelWeb \/ FailCheck \/ FailHealth PROVE Idle /\ SameRollout
  <2>1. step \in RolloutSteps /\ step' \in FailSteps
    BY <1>3, <1>b, StageSteps DEF SeeCancellation, CancelWeb, FailCheck, FailHealth, StageOver
  <2> QED BY <1>3, <1>a, <2>1 DEF SeeCancellation, CancelWeb, FailCheck, FailHealth, hostVars, recoveryVars
<1>4. ASSUME KeepContainers PROVE Idle /\ SameRollout
  <2>1. SameJournals
    <3>1. worker \in Deployments /\ journal[worker].phase = "preparing"
      BY <1>4, RollingFacts DEF KeepContainers, FailSteps
    <3> QED BY <1>4, <3>1 DEF KeepContainers, SetPhase, SameJournals, Pending, Open
  <2> QED BY <1>4, <1>a, <2>1 DEF KeepContainers, hostVars, recoveryVars
<1>5. ASSUME WorkerRecovers PROVE Idle /\ SameRollout
  <2>1. SameJournals
    BY <1>5 DEF WorkerRecovers, EnterRecovery, SetPhase, EntryPhase, SameJournals, Pending, Open
  <2> QED BY <1>5, <1>a, <2>1 DEF WorkerRecovers, EnterRecovery, hostVars
<1> QED BY <1>1, <1>2, <1>3, <1>4, <1>5

LEMMA RecoveryIdle ==
  ASSUME TypeInv, JournalInv,
         PreviousContainerMissing \/ AdvanceRelease \/ DropRow
  PROVE  Idle /\ SameRollout
<1> USE HostSame, JournalsSame, Shapes, StepSets DEF Idle, SameRollout, RollingSteps, FreshKept, Fresh
<1>a. target \in Deployments /\ step \in {"none", "waiting", "recovering"}
  BY DEF JournalInv, RecoveryKnows, PreviousContainerMissing, AdvanceRelease, DropRow
<1>1. ASSUME PreviousContainerMissing PROVE Idle /\ SameRollout
  BY <1>1, <1>a DEF PreviousContainerMissing, AbandonRecovery, hostVars, FailSteps
<1>2. ASSUME AdvanceRelease PROVE Idle /\ SameRollout
  <2>1. ~NonePending
    BY <1>2, <1>a DEF AdvanceRelease, JournalInv, RecoveryKnows, NonePending, Pending
  <2> QED BY <1>2, <1>a, <2>1 DEF AdvanceRelease, hostVars, workerVars, FailSteps
<1>3. ASSUME DropRow PROVE Idle /\ SameRollout
  <2>1. SameJournals
    BY <1>3, <1>a DEF DropRow, NoJournal, SameJournals, Pending, Open, JournalInv, RecoveryKnows
  <2> QED BY <1>3, <1>a, <2>1 DEF DropRow, hostVars, workerVars, FailSteps
<1> QED BY <1>1, <1>2, <1>3

LEMMA OtherIdle ==
  ASSUME TypeInv, JournalInv, Crash \/ UNCHANGED vars \/ \E c \in Containers : LateEffect(c)
  PROVE  Idle /\ SameRollout
<1> USE HostSame, JournalsSame, Shapes, StepSets DEF Idle, SameRollout, RollingSteps, FreshKept, Fresh
<1>1. ASSUME Crash PROVE Idle /\ SameRollout
  BY <1>1 DEF Crash, Cancellable, FailSteps
<1>2. ASSUME UNCHANGED vars PROVE Idle /\ SameRollout
  BY <1>2 DEF vars, hostVars, workerVars, recoveryVars
<1>3. ASSUME NEW c \in Containers, LateEffect(c) PROVE Idle /\ SameRollout
  BY <1>3, LateIsTame DEF LateEffect, workerVars, recoveryVars
<1> QED BY <1>1, <1>2, <1>3
-----------------------------------------------------------------------------
(* Steps around a release whose journal is open: they touch its containers *)
(* and, without taking one away, those of the release before it.           *)

Grows(d) ==
  /\ cleaned' = cleaned
  /\ \A e \in Deployments : Pending(e)' <=> Pending(e)
  /\ Open(d)'
  /\ journal'[d].previous = journal[d].previous
  /\ journal[d].stopped \subseteq journal'[d].stopped
  /\ journal[d].stopsWeb /\ journal[d].previous # None => journal'[d].stopsWeb
  /\ FreshKept
  /\ step' # "retired"

Spares(d) ==
  LET p == journal[d].previous IN
  /\ \A c \in Containers : c[1] \notin {d, p} => Tame(c)
  /\ p # None =>
       /\ \A c \in Candidates(p) :
            /\ container[c] # "none" /\ "destroy" \notin late[c] =>
                 container'[c] # "none" /\ "destroy" \notin late'[c]
            /\ Intact(c) => Intact(c)' \/ c \in Touched(d)'
       /\ \A c \in RoleContainers(p) : Starting(c)' => Starting(c) \/ c \in journal'[d].stopped

LEMMA OpenHost ==
  ASSUME TypeInv, JournalInv, ReleasesInv, NEW d \in Deployments, Open(d), Grows(d), Spares(d)
  PROVE  /\ \A e \in Deployments : CommittedFor(e)' /\ PreviousFor(e)' /\ OthersFor(e)' /\ FreshFor(e)'
         /\ Settled'
<1> DEFINE p == journal[d].previous
<1>a. Pending(d)
  BY DEF Open, Pending
<1>b. /\ \A e \in Deployments : Pending(e) => e = d
      /\ p \in Deployments \cup {None} /\ p # d /\ ~Fresh(d)
      /\ p # None => ~Fresh(p)
  BY <1>a, PreviousFacts
<1>c. \A e \in Deployments : Pending(e)' => e = d
  BY <1>b DEF Grows, Spares
<1>d. /\ \A e \in Deployments : \A c \in Candidates(e) : c[1] = e /\ c \in Containers
      /\ \A e \in Deployments : RoleContainers(e) \subseteq Candidates(e)
      /\ AllRoles \subseteq Containers
  BY ContainerFacts
<1>1. ASSUME NEW e \in Deployments PROVE CommittedFor(e)'
  <2>1. journal'[e].phase # "committing"
    BY <1>c DEF Grows, Spares, Open, Pending
  <2> QED BY <2>1 DEF CommittedFor, Grows, Spares
<1>2. ASSUME NEW e \in Deployments PROVE PreviousFor(e)'
  <2>1. SUFFICES ASSUME e = d, p # None PROVE PreviousFor(d)'
    <3>1. Open(e)' => e = d
      BY <1>c DEF Open, Pending
    <3> QED BY <3>1 DEF PreviousFor, Open, Grows, Spares
  <2>2. /\ p \notin cleaned =>
             \A c \in Candidates(p) :
               container[c] # "none" /\ "destroy" \notin late[c] /\ (Intact(c) \/ c \in Touched(d))
        /\ \A c \in RoleContainers(p) \ journal[d].stopped : ~Starting(c)
    BY <2>1 DEF ReleasesInv, PreviousFor, Open
  <2>3. Touched(d) \subseteq Touched(d)'
    BY <2>1, <1>b DEF Grows, Spares, Touched, PreviousWeb
  <2>4. p \notin cleaned' =>
          \A c \in Candidates(p) :
            container'[c] # "none" /\ "destroy" \notin late'[c] /\ (Intact(c)' \/ c \in Touched(d)')
    BY <2>1, <2>2, <2>3 DEF Grows, Spares
  <2>5. \A c \in RoleContainers(p) \ journal'[d].stopped : ~Starting(c)'
    BY <2>1, <2>2 DEF Grows, Spares
  <2>6. journal'[d].previous = p
    BY DEF Grows, Spares
  <2> QED BY <2>4, <2>5, <2>6 DEF PreviousFor
<1>3. ASSUME NEW e \in Deployments PROVE OthersFor(e)'
  <2>1. SUFFICES ASSUME e = d, NEW c \in AllRoles, Alive(c)' PROVE c[1] \in {d, p}
    BY <1>c DEF OthersFor, Grows, Spares
  <2>2. OthersFor(d) /\ c \in Containers
    BY <1>d DEF ReleasesInv
  <2> QED BY <1>a, <2>1, <2>2 DEF Grows, Spares, OthersFor, Tame
<1>4. ASSUME NEW e \in Deployments PROVE FreshFor(e)'
  <2>1. SUFFICES ASSUME Fresh(e)' PROVE Untouched(e)'
    BY DEF FreshFor, Fresh
  <2>2. Fresh(e) /\ e \notin {d, p}
    <3>1. Fresh(e)
      BY <2>1 DEF Grows, Spares, FreshKept
    <3>2. e # p
      BY <1>b, <3>1, DeploymentsAssumption
    <3> QED BY <1>b, <3>1, <3>2
  <2>3. Untouched(e)
    BY <2>2 DEF ReleasesInv, FreshFor, Fresh
  <2>4. \A c \in Candidates(e) : Tame(c)
    BY <1>d, <2>2 DEF Grows, Spares
  <2> QED BY <2>3, <2>4 DEF Untouched, Tame
<1>5. Settled'
  BY <1>a DEF Grows, Spares, Settled, NonePending
<1> QED BY <1>1, <1>2, <1>3, <1>4, <1>5

(* As long as no role is raised the schedulers stay alone.                 *)
LEMMA AloneKeeps ==
  ASSUME Alone, \A c \in AllRoles : Alive(c)' => Alive(c)
  PROVE  Alone'
BY DEF Alone

(* Roles that are raised stay alone if their commands are up nowhere else. *)
LEMMA AloneRises ==
  ASSUME Alone, NEW R, \A o \in AllRoles : Alive(o)' => Alive(o) \/ o \in R,
         \A c \in R \cap AllRoles, o \in AllRoles :
           Alive(o)' /\ o[1] < c[1] /\ SoleScheduler(o) => RoleOf(o).command # RoleOf(c).command,
         \A c \in R \cap AllRoles, o \in AllRoles :
           Alive(o)' /\ c[1] < o[1] /\ SoleScheduler(c) => RoleOf(o).command # RoleOf(c).command
  PROVE  Alone'
<1> SUFFICES ASSUME NEW o \in AllRoles, NEW x \in AllRoles,
                    o[1] < x[1], Alive(o)', Alive(x)', SoleScheduler(o)
             PROVE  RoleOf(o).command # RoleOf(x).command
  BY DEF Alone
<1>1. CASE x \in R
  BY <1>1
<1>2. CASE o \in R
  BY <1>2
<1>3. CASE o \notin R /\ x \notin R
  BY <1>3 DEF Alone
<1> QED BY <1>1, <1>2, <1>3
-----------------------------------------------------------------------------
(* The rollout. *)

(* Only containers of its own release change.                              *)
LEMMA OwnSpares ==
  ASSUME TypeInv, JournalInv, NEW d \in Deployments, Pending(d),
         \A c \in Containers : c[1] # d => container'[c] = container[c] /\ late'[c] = late[c]
  PROVE  Spares(d)
<1> DEFINE p == journal[d].previous
<1>1. p # None => p \in Deployments /\ p # d
  BY PreviousFacts
<1>2. p # None => \A c \in Candidates(p) : c \in Containers /\ c[1] # d
  BY <1>1, ContainerFacts
<1>3. p # None => RoleContainers(p) \subseteq Candidates(p)
  BY <1>1, ContainerFacts
<1>4. \A c \in Containers : c[1] # d => Tame(c)
  BY SameIsTame
<1> QED BY <1>2, <1>3, <1>4 DEF Spares, Tame

LEMMA RollGrows ==
  ASSUME TypeInv, JournalInv, NEW d \in Deployments, d = worker, step \in RollingSteps,
         Stand, step' \in RollingSteps,
         journal[d].stopped \subseteq journal'[d].stopped,
         journal[d].stopsWeb /\ journal[d].previous # None => journal'[d].stopsWeb
  PROVE  Open(d) /\ Grows(d)
<1>1. journal[d].phase = "preparing"
  BY RollingFacts
<1>2. \A e \in Deployments : Pending(e)' <=> Pending(e)
  BY DEF Pending, Stand
<1>3. FreshKept
  BY StepSets DEF FreshKept, Fresh, Stand, RollingSteps, FailSteps
<1>4. step' # "retired"
  BY StepSets DEF RollingSteps, FailSteps
<1> QED BY <1>1, <1>2, <1>3, <1>4 DEF Open, Grows, Stand

(* The pair of facts that the steps of a rollout leave to be shown.        *)
LEMMA RollHost ==
  ASSUME TypeInv, JournalInv, HostInv, NEW d \in Deployments, d = worker, step \in RollingSteps,
         Stand, step' \in RollingSteps,
         journal[d].stopped \subseteq journal'[d].stopped,
         journal[d].stopsWeb /\ journal[d].previous # None => journal'[d].stopsWeb,
         Spares(d), Alone',
         RolloutFor(d)', StoppedFor(d)', FailureFor(d)', RetainedFor(d)'
  PROVE  HostInv'
<1>1. Open(d) /\ Grows(d)
  BY RollGrows
<1>2. /\ \A e \in Deployments : CommittedFor(e)' /\ PreviousFor(e)' /\ OthersFor(e)' /\ FreshFor(e)'
      /\ Settled'
  BY <1>1, OpenHost DEF HostInv, ReleasesInv
<1>3. recovery' = "none"
  BY RollingFacts DEF Stand
<1>4. worker' = d
  BY DEF Stand
<1>5. \A e \in Deployments : RolloutFor(e)' /\ StoppedFor(e)' /\ FailureFor(e)' /\ RetainedFor(e)'
  BY <1>4 DEF RolloutFor, StoppedFor, FailureFor, RetainedFor
<1> QED BY <1>2, <1>3, <1>5 DEF HostInv, BroughtBack
(* The name of a role is its own in its release.                           *)
LEMMA RoleFacts ==
  /\ \A d \in Deployments : \A c \in RoleContainers(d) : RoleOf(c) \in Declared[d] /\ RoleOf(c).name = c[2] /\ c[1] = d
  /\ \A d \in Deployments : \A r, s \in Declared[d] : r.name = s.name => r = s
BY RolesAssumption, ContainerFacts

(* A replica is created once all that its command replaces is stopped.     *)
LEMMA ReplacedStopped ==
  ASSUME TypeInv, JournalInv, HostInv, NEW d \in Deployments, d = worker, step \in InStage,
         NEW c \in Starts(d), RoleOf(c).singleton => SameName(c) \subseteq retained
  PROVE  Replaced(d, c) \subseteq retained
<1> DEFINE p == journal[d].previous
<1>a. step \in RollingSteps /\ step \in RolloutSteps
  BY DEF RollingSteps, RolloutSteps
<1>b. /\ c \in RoleContainers(d)
      /\ \/ step = "first" /\ ~RoleOf(c).singleton /\ ~Waits(d, c)
         \/ step = "later" /\ ~RoleOf(c).singleton /\ Waits(d, c)
         \/ step = "singletons" /\ RoleOf(c).singleton
  BY StageSteps DEF Starts, Waits
<1>c. p # None => p \in Deployments /\ PreviousRoles(d) = RoleContainers(p)
  BY <1>a, RollingFacts, PreviousFacts
<1> SUFFICES ASSUME NEW o \in Replaced(d, c) PROVE o \in retained
  OBVIOUS
<1>1. o \in PreviousRoles(d) /\ RoleOf(o).singleton /\ SoleScheduler(o) /\ RoleOf(o).command = RoleOf(c).command
  BY DEF Replaced, SoleScheduler
<1>2. p # None
  BY <1>1 DEF PreviousRoles
<1>3. RoleOf(o) \in Declared[p] /\ RoleOf(o).name = o[2] /\ RoleOf(c) \in Declared[d]
      /\ RoleOf(c).name = c[2] /\ c[1] = d
  BY <1>b, <1>c, <1>1, <1>2, RoleFacts
<1>4. CASE RoleOf(o) = RoleOf(c)
  <2>1. o \in SameName(c)
    BY <1>1, <1>3, <1>4 DEF SameName
  <2> QED BY <1>1, <1>4, <2>1
<1>5. CASE RoleOf(o) # RoleOf(c)
  <2>1. RoleOf(c) \notin Declared[p] /\ RoleOf(o) \notin Declared[d]
    BY <1>1, <1>2, <1>3, <1>c, <1>5 DEF SoleScheduler
  <2>2. RoleOf(c) \in Changed(d)
    BY <1>2, <1>3, <2>1 DEF Changed
  <2>3. o \in Outgoing(d)
    BY <1>1, <2>1, <2>2 DEF Outgoing
  <2>4. Waits(d, c)
    BY <2>2, <2>3 DEF Waits
  <2>5. step \notin {"first", "outgoing"}
    BY <1>b, <2>4
  <2> QED BY <1>a, <2>3, <2>5 DEF HostInv, StoppedFor
<1> QED BY <1>4, <1>5

LEMMA CreateHost ==
  ASSUME TypeInv, JournalInv, HostInv, NEW c \in AllRoles, CreateReplica(c)
  PROVE  HostInv'
<1>a. step \in InStage /\ step \in RollingSteps /\ step \in RolloutSteps /\ step \notin FailSteps
  BY StepSets DEF CreateReplica, Rolling, RollingSteps, RolloutSteps
<1>b. worker \in Deployments /\ Pending(worker) /\ started \subseteq RoleContainers(worker)
  BY <1>a, RollingFacts
<1> PICK d \in Deployments : d = worker
  BY <1>b
<1>c. Stand
  BY RollingStands DEF Rollout
<1>d. /\ UNCHANGED <<row, live, journal, late, worker, step, retained>>
      /\ started' = started \cup {c} /\ c \in Starts(d) \ started
      /\ container' = [container EXCEPT ![c] = "created"]
  BY DEF CreateReplica
<1>e. c \in RoleContainers(d) /\ c \in Containers /\ c[1] = d
  BY <1>d, PlanTypes, ContainerFacts
<1>f. \A x \in Containers : container'[x] = IF x = c THEN "created" ELSE container[x]
  BY <1>d, <1>e, Shapes
<1>g. RolloutFor(d) /\ StoppedFor(d) /\ RetainedFor(d)
  BY DEF HostInv
<1>h. late[c] = {}
  BY <1>a, <1>e, <1>g DEF RolloutFor
<1>1. Spares(d)
  BY <1>b, <1>d, <1>e, <1>f, OwnSpares
<1>2. \A x \in Containers : Alive(x)' => Alive(x)
  BY <1>d, <1>f, <1>h DEF Alive, Running, Starting
<1>3. Alone'
  BY <1>2, AloneKeeps, ContainerFacts DEF HostInv
<1>4. RolloutFor(d)'
  <2>1. \A x \in RoleContainers(d) : Waits(d, x)' <=> Waits(d, x)
    BY <1>d DEF Waits, Outgoing, PreviousRoles, Changed
  <2>2. RoleContainers(d) \subseteq Containers /\ Web(d) \in Containers /\ Web(d) # c
    BY <1>e, ContainerFacts
  <2> QED BY <1>a, <1>d, <1>e, <1>f, <1>g, <2>1, <2>2 DEF RolloutFor, Running
<1>5. StoppedFor(d)'
  <2>1. Replaced(d, c) \subseteq retained
    BY <1>a, <1>d, ReplacedStopped DEF CreateReplica
  <2>2. \A x : Replaced(d, x)' = Replaced(d, x)
    BY <1>d DEF Replaced, PreviousRoles
  <2>3. Outgoing(d)' = Outgoing(d)
    BY <1>d DEF Outgoing, PreviousRoles, Changed
  <2> QED BY <1>a, <1>d, <1>g, <1>2, <2>1, <2>2, <2>3, ContainerFacts DEF StoppedFor
<1>6. FailureFor(d)' /\ RetainedFor(d)'
  BY <1>a, <1>d, <1>g DEF FailureFor, RetainedFor, PreviousWeb
<1> QED BY <1>a, <1>c, <1>d, <1>1, <1>3, <1>4, <1>5, <1>6, RollHost
(* A rollout that fails leaves no role up that it has not created.         *)
LEMMA FailingRollout ==
  ASSUME TypeInv, JournalInv, HostInv, NEW d \in Deployments, d = worker, step \in RolloutSteps,
         step' \in FailSteps, started' = started, worker' = worker,
         \A x \in RoleContainers(d) \ started :
           (container'[x] = container[x] \/ container'[x] = "created") /\ late'[x] = late[x]
  PROVE  RolloutFor(d)' /\ StoppedFor(d)' /\ FailureFor(d)'
<1>1. step' \notin RolloutSteps
  BY StepSets
<1>2. \A x \in RoleContainers(d) \ started : container[x] = "none" /\ late[x] = {}
  BY DEF HostInv, RolloutFor
<1> QED BY <1>1, <1>2 DEF RolloutFor, StoppedFor, FailureFor, Alive, Running, Starting

LEMMA LoseCreateHost ==
  ASSUME TypeInv, JournalInv, HostInv, NEW c \in AllRoles, LoseCreate(c)
  PROVE  HostInv'
<1>a. step \in RollingSteps /\ step \in RolloutSteps
  BY DEF LoseCreate, Rolling, RollingSteps, RolloutSteps
<1>b. worker \in Deployments /\ Pending(worker) /\ started \subseteq RoleContainers(worker)
  BY <1>a, RollingFacts
<1> PICK d \in Deployments : d = worker
  BY <1>b
<1>c. Stand
  BY RollingStands
<1>d. /\ UNCHANGED <<row, live, journal, late, worker, started, retained>>
      /\ c \in Starts(d) \ started
      /\ container' = container \/ container' = [container EXCEPT ![c] = "created"]
      /\ step' \in FailSteps
  BY DEF LoseCreate, FailRoles, FailSteps
<1>e. c \in RoleContainers(d) /\ c \in Containers /\ c[1] = d /\ RoleContainers(d) \subseteq Containers
  BY <1>d, PlanTypes, ContainerFacts
<1>f. \A x \in Containers : container'[x] = container[x] \/ (x = c /\ container'[x] = "created")
  BY <1>d, <1>e, Shapes
<1>g. late[c] = {}
  BY <1>a, <1>e DEF HostInv, RolloutFor
<1>1. Spares(d)
  BY <1>b, <1>d, <1>e, <1>f, OwnSpares
<1>2. \A x \in Containers : Alive(x)' => Alive(x)
  BY <1>d, <1>f, <1>g DEF Alive, Running, Starting
<1>3. Alone'
  BY <1>2, AloneKeeps, ContainerFacts DEF HostInv
<1>4. RolloutFor(d)' /\ StoppedFor(d)' /\ FailureFor(d)'
  BY <1>a, <1>d, <1>e, <1>f, FailingRollout
<1>5. RetainedFor(d)'
  BY <1>a, <1>d DEF HostInv, RetainedFor, PreviousWeb, RollingSteps
<1> QED BY <1>a, <1>c, <1>d, <1>1, <1>3, <1>4, <1>5, RollHost DEF RollingSteps

LEMMA StartAlone ==
  ASSUME TypeInv, JournalInv, HostInv, NEW d \in Deployments, d = worker, step \in InStage,
         NEW c \in started, \A x \in Containers \ {c} : Alive(x)' => Alive(x)
  PROVE  Alone'
<1> DEFINE p == journal[d].previous
<1>a. step \in RollingSteps /\ step \in RolloutSteps
  BY DEF RollingSteps, RolloutSteps
<1>b. /\ Pending(d) /\ c \in RoleContainers(d) /\ c[1] = d /\ d \in Nat
      /\ p \in Deployments \cup {None} /\ p # None => p < d /\ p \in Nat /\ PreviousRoles(d) = RoleContainers(p)
  BY <1>a, RollingFacts, PreviousFacts, ContainerFacts, Shapes
<1>c. \A o \in AllRoles : Alive(o) => o[1] \in {d, p}
  BY <1>b DEF HostInv, OthersFor
<1>d. \A o \in AllRoles : o \in Containers /\ o[1] \in Deployments /\ o \in RoleContainers(o[1])
  BY ContainerFacts
<1>e. None \notin Deployments
  BY DeploymentsAssumption
<1>1. ASSUME NEW o \in AllRoles, Alive(o)', o[1] < d, SoleScheduler(o)
      PROVE  RoleOf(o).command # RoleOf(c).command
  <2>1. o # c /\ Alive(o) /\ o[1] = p /\ p # None
    BY <1>1, <1>b, <1>c, <1>d, <1>e
  <2>2. o \in PreviousRoles(d)
    BY <1>b, <1>d, <2>1
  <2>3. RoleOf(o).command = RoleOf(c).command => o \in Replaced(d, c)
    BY <1>1, <2>2 DEF Replaced
  <2>4. Replaced(d, c) \subseteq retained /\ \A x \in retained \cap AllRoles : ~Alive(x)
    BY <1>a DEF HostInv, StoppedFor
  <2> QED BY <2>1, <2>3, <2>4
<1>2. ASSUME NEW o \in AllRoles, Alive(o)', d < o[1]
      PROVE  FALSE
  <2>1. o # c /\ Alive(o)
    BY <1>2, <1>b, <1>d
  <2> QED BY <1>2, <1>b, <1>c, <1>d, <1>e, <2>1
<1>3. \A o \in AllRoles : Alive(o)' => Alive(o) \/ o \in {c}
  BY <1>d
<1>4. \A x \in {c} \cap AllRoles, o \in AllRoles :
        Alive(o)' /\ o[1] < x[1] /\ SoleScheduler(o) => RoleOf(o).command # RoleOf(x).command
  BY <1>b, <1>1
<1>5. \A x \in {c} \cap AllRoles, o \in AllRoles :
        Alive(o)' /\ x[1] < o[1] /\ SoleScheduler(x) => RoleOf(o).command # RoleOf(x).command
  BY <1>b, <1>2
<1>6. Alone
  BY DEF HostInv
<1> QED BY <1>3, <1>4, <1>5, <1>6, AloneRises
LEMMA StartHost ==
  ASSUME TypeInv, JournalInv, HostInv, NEW c \in AllRoles, StartReplica(c)
  PROVE  HostInv'
<1>a. step \in InStage /\ step \in RollingSteps /\ step \in RolloutSteps /\ step \notin FailSteps
  BY StepSets DEF StartReplica, RollingSteps, RolloutSteps
<1>b. worker \in Deployments /\ Pending(worker) /\ started \subseteq RoleContainers(worker)
  BY <1>a, RollingFacts
<1> PICK d \in Deployments : d = worker
  BY <1>b
<1>c. Stand
  BY RollingStands DEF Rollout
<1>d. /\ UNCHANGED <<live, journal, worker, started, retained>>
      /\ row' = [row EXCEPT ![d].roles = @ \cup {c}]
      /\ c \in started \ row[d].roles
  BY DeploymentsAssumption DEF StartReplica, Unrecorded
<1>e. /\ c \in RoleContainers(d) /\ c \in Containers /\ c[1] = d
      /\ RoleContainers(d) \subseteq Containers /\ Web(d) \in Containers /\ Web(d) # c
  BY <1>b, <1>d, ContainerFacts
<1>f. row'[d].roles = row[d].roles \cup {c} /\ \A e \in Deployments \ {d} : row'[e].roles = row[e].roles
  BY <1>d, Shapes
<1>g. RolloutFor(d) /\ StoppedFor(d) /\ RetainedFor(d) /\ container[c] = "created"
  BY <1>a, <1>d, <1>e DEF HostInv, RolloutFor
<1>h. \A x \in Containers \ {c} : container'[x] = container[x] /\ late'[x] = late[x]
  <2>1. ASSUME NEW lost, Ask("start", {c}, lost)
        PROVE  \A x \in Containers \ {c} : container'[x] = container[x] /\ late'[x] = late[x]
    BY <2>1, AskEffect
  <2> QED BY <1>e, <2>1, Shapes DEF StartReplica
<1>i. \/ step' = step /\ container'[c] = "running" /\ late'[c] = {}
      \/ step' \in FailSteps
  <2>1. ASSUME Ask("start", {c}, {}) PROVE container'[c] = "running" /\ late'[c] = {}
    BY <1>e, <1>g, <2>1, AskEffect DEF After
  <2>2. FailRoles => step' \in FailSteps
    BY DEF FailRoles, FailSteps
  <2> QED BY <2>1, <2>2 DEF StartReplica
<1>1. Spares(d)
  BY <1>b, <1>e, <1>h, OwnSpares
<1>2. \A x \in Containers \ {c} : Alive(x)' => Alive(x)
  BY <1>h DEF Alive, Running, Starting
<1>3. Alone'
  BY <1>a, <1>d, <1>2, StartAlone
<1>4. PreviousRoles(d)' = PreviousRoles(d)
  BY <1>b, <1>d, <1>f, PreviousFacts DEF PreviousRoles
<1>5. Outgoing(d)' = Outgoing(d)
  BY <1>4, <1>d DEF Outgoing, Changed
<1>6. RetainedFor(d)'
  BY <1>a, <1>d, <1>g DEF RetainedFor, PreviousWeb
<1>7. CASE step' = step /\ container'[c] = "running" /\ late'[c] = {}
  <2>1. RolloutFor(d)'
    <3>1. \A x \in RoleContainers(d) : Waits(d, x)' <=> Waits(d, x)
      BY <1>5, <1>d DEF Waits, Changed
    <3> QED BY <1>a, <1>d, <1>e, <1>f, <1>g, <1>h, <1>7, <3>1 DEF RolloutFor, Running
  <2>2. StoppedFor(d)'
    <3>1. c \notin retained
      <4>1. retained \subseteq PreviousWeb(d) \cup journal[d].stopped
        BY <1>a, <1>g DEF RetainedFor
      <4>2. c \notin PreviousWeb(d)
        BY <1>d, <1>e, Shapes, ContainerFacts DEF PreviousWeb
      <4>3. c \notin journal[d].stopped
        BY <1>b, <1>e, PreviousFacts, ContainerFacts
      <4> QED BY <4>1, <4>2, <4>3
    <3>2. \A x : Replaced(d, x)' = Replaced(d, x)
      BY <1>4 DEF Replaced
    <3> QED BY <1>a, <1>d, <1>g, <1>2, <1>5, <1>7, <3>1, <3>2, ContainerFacts DEF StoppedFor
  <2>3. FailureFor(d)'
    BY <1>a, <1>7 DEF FailureFor
  <2> QED BY <1>a, <1>c, <1>d, <1>1, <1>3, <1>6, <1>7, <2>1, <2>2, <2>3, RollHost
<1>8. CASE step' \in FailSteps
  <2>1. RolloutFor(d)' /\ StoppedFor(d)' /\ FailureFor(d)'
    BY <1>a, <1>d, <1>e, <1>h, <1>8, FailingRollout
  <2> QED BY <1>a, <1>c, <1>d, <1>1, <1>3, <1>6, <1>8, <2>1, RollHost DEF RollingSteps
<1> QED BY <1>i, <1>7, <1>8
(* A request to stop or to start containers of the previous release.       *)
LEMMA StopSpares ==
  ASSUME TypeInv, JournalInv, NEW d \in Deployments, Pending(d), NEW asked, NEW lost,
         Ask("stop", asked, lost),
         \A c \in asked : c[1] = journal[d].previous, asked \subseteq Touched(d)'
  PROVE  Spares(d)
<1> DEFINE p == journal[d].previous
<1>1. p # None => p \in Deployments
  BY PreviousFacts
<1>2. p # None => \A c \in Candidates(p) : c \in Containers
  BY <1>1, ContainerFacts
<1>3. p # None => RoleContainers(p) \subseteq Candidates(p)
  BY <1>1, ContainerFacts
<1>4. \A c \in Containers : c \notin asked => Tame(c)
  BY AskEffect, SameIsTame
<1>5. \A c \in Containers :
        /\ Starting(c)' => Starting(c)
        /\ container[c] # "none" /\ "destroy" \notin late[c] =>
             container'[c] # "none" /\ "destroy" \notin late'[c]
        /\ Intact(c) => Intact(c)' \/ c \in Touched(d)'
  BY <1>4, LowerEffect, StopEffect DEF Tame
<1> QED BY <1>2, <1>3, <1>4, <1>5 DEF Spares

LEMMA StartSpares ==
  ASSUME TypeInv, JournalInv, NEW d \in Deployments, Pending(d), NEW asked, NEW lost,
         Ask("start", asked, lost),
         \A c \in asked : c[1] = journal[d].previous,
         asked \cap AllRoles \subseteq journal'[d].stopped
  PROVE  Spares(d)
<1> DEFINE p == journal[d].previous
<1>1. p # None => p \in Deployments
  BY PreviousFacts
<1>2. p # None => \A c \in Candidates(p) : c \in Containers
  BY <1>1, ContainerFacts
<1>3. p # None => RoleContainers(p) \subseteq Candidates(p) /\ RoleContainers(p) \subseteq AllRoles
  BY <1>1, ContainerFacts
<1>4. \A c \in Containers : c \notin asked => Tame(c)
  BY AskEffect, SameIsTame
<1>5. \A c \in Containers :
        /\ c \notin asked => (Starting(c)' => Starting(c))
        /\ container[c] # "none" /\ "destroy" \notin late[c] =>
             container'[c] # "none" /\ "destroy" \notin late'[c]
        /\ Intact(c) => Intact(c)'
  BY <1>4, StartEffect DEF Tame
<1> QED BY <1>2, <1>3, <1>4, <1>5 DEF Spares

LEMMA StopHost ==
  ASSUME TypeInv, JournalInv, HostInv, NEW o \in AllRoles, StopPrevious(o)
  PROVE  HostInv'
<1>a. step \in InStage /\ step \in RollingSteps /\ step \in RolloutSteps /\ step \notin FailSteps
  BY StepSets DEF StopPrevious, Rolling, RollingSteps, RolloutSteps
<1>b. /\ worker \in Deployments /\ Pending(worker) /\ started \subseteq RoleContainers(worker)
      /\ journal[worker].previous # None =>
           PreviousRoles(worker) = RoleContainers(journal[worker].previous)
  BY <1>a, RollingFacts
<1> PICK d \in Deployments : d = worker
  BY <1>b
<1> DEFINE p == journal[d].previous
<1>c. Stand
  BY RollingStands DEF Rollout
<1>d. /\ UNCHANGED <<row, live, worker, started>>
      /\ journal' = [journal EXCEPT ![d].stopped = @ \cup {o}]
      /\ o \in PreviousRoles(d)
  BY <1>b, PlanTypes DEF StopPrevious, RecordStopIntent
<1>e. PICK lost \in SUBSET {o} :
        /\ Ask("stop", {o}, lost)
        /\ retained' = retained \cup ({o} \ lost)
        /\ IF lost = {} THEN UNCHANGED step ELSE FailRoles
  BY DEF StopPrevious
<1>f. p \in Deployments /\ p # d /\ o \in RoleContainers(p) /\ o[1] = p /\ o \in Containers
      /\ \A x \in Candidates(d) : x \in Containers /\ x # o
  BY <1>b, <1>d, PreviousFacts, ContainerFacts DEF PreviousRoles
<1>g. RolloutFor(d) /\ StoppedFor(d) /\ RetainedFor(d)
  BY DEF HostInv
<1>h. /\ journal'[d].stopped = journal[d].stopped \cup {o}
      /\ journal'[d].stopsWeb = journal[d].stopsWeb /\ journal'[d].previous = p
  BY <1>d, Shapes
<1>i. PreviousRoles(d)' = PreviousRoles(d) /\ PreviousWeb(d)' = PreviousWeb(d) /\ Changed(d)' = Changed(d)
  BY <1>d, <1>h DEF PreviousRoles, PreviousWeb, Changed
<1>j. \A x \in Candidates(d) : container'[x] = container[x] /\ late'[x] = late[x]
  BY <1>e, <1>f, AskEffect
<1>k. step' = step \/ (lost # {} /\ step' \in FailSteps)
  BY <1>e DEF FailRoles, FailSteps
<1>1. Spares(d)
  <2>1. {o} \subseteq Touched(d)'
    BY <1>h DEF Touched
  <2> QED BY <1>b, <1>e, <1>f, <2>1, StopSpares
<1>2. \A x \in Containers : Alive(x)' => Alive(x)
  BY <1>e, LowerEffect
<1>3. Alone'
  BY <1>2, AloneKeeps, ContainerFacts DEF HostInv
<1>4. RetainedFor(d)'
  BY <1>a, <1>d, <1>e, <1>g, <1>h, <1>i DEF RetainedFor
<1>5. CASE step' = step
  <2>1. RolloutFor(d)'
    <3>1. \A x \in RoleContainers(d) : Waits(d, x)' <=> Waits(d, x)
      BY <1>i DEF Waits, Outgoing
    <3>2. RoleContainers(d) \subseteq Candidates(d) /\ Web(d) \in Candidates(d)
      BY ContainerFacts
    <3> QED BY <1>a, <1>d, <1>g, <1>j, <1>5, <3>1, <3>2 DEF RolloutFor, Running
  <2>2. StoppedFor(d)'
    <3>1. \A x : Replaced(d, x)' = Replaced(d, x)
      BY <1>i DEF Replaced
    <3>2. Outgoing(d)' = Outgoing(d)
      BY <1>i DEF Outgoing
    <3>3. ASSUME o \in retained' PROVE o \in retained \/ ~Alive(o)'
      BY <1>e, <1>f, <3>3, LowerEffect
    <3>4. retained \subseteq retained' /\ retained' \subseteq retained \cup {o}
      BY <1>e
    <3>5. \A x \in retained' \cap AllRoles : ~Alive(x)'
      BY <1>a, <1>d, <1>g, <1>2, <3>3, <3>4, ContainerFacts DEF StoppedFor
    <3> QED BY <1>a, <1>d, <1>g, <1>5, <3>1, <3>2, <3>4, <3>5 DEF StoppedFor
  <2>3. FailureFor(d)'
    BY <1>a, <1>5 DEF FailureFor
  <2> QED BY <1>a, <1>c, <1>h, <1>1, <1>3, <1>4, <1>5, <2>1, <2>2, <2>3, RollHost
<1>6. CASE step' \in FailSteps
  <2>1. RolloutFor(d)' /\ StoppedFor(d)' /\ FailureFor(d)'
    BY <1>a, <1>d, <1>j, <1>6, FailingRollout, ContainerFacts
  <2> QED BY <1>a, <1>c, <1>h, <1>1, <1>3, <1>4, <1>6, <2>1, RollHost DEF RollingSteps
<1> QED BY <1>k, <1>5, <1>6
LEMMA ForwardHost ==
  ASSUME TypeInv, JournalInv, HostInv, EndStage \/ OverlapPreviousWeb \/ PassWeb
  PROVE  HostInv'
<1>a. step \in RolloutSteps /\ step' \in RolloutSteps /\ step' \notin FailSteps /\ step \in RollingSteps
  BY StepSets, StageSteps DEF EndStage, StageOver, OverlapPreviousWeb, PassWeb, GoTo, RollingSteps
<1>b. worker \in Deployments /\ Pending(worker) /\ started \subseteq RoleContainers(worker)
  BY <1>a, RollingFacts
<1> PICK d \in Deployments : d = worker
  BY <1>b
<1>d. UNCHANGED <<row, live, journal, container, late, worker, started, retained, recovery, target,
                  restored, cleaned>>
  BY DEF EndStage, OverlapPreviousWeb, PassWeb, GoTo, hostVars, recoveryVars
<1>e. Idle
  <2>1. step' \notin {"retired", "waiting"}
    BY <1>a, StepSets
  <2> QED BY <1>d, <2>1, HostSame, JournalsSame DEF Idle, FreshKept, Fresh
<1>f. RolloutFor(d) /\ StoppedFor(d) /\ RetainedFor(d)
  BY DEF HostInv
<1>g. Outgoing(d)' = Outgoing(d) /\ \A x : (Waits(d, x)' <=> Waits(d, x)) /\ Replaced(d, x)' = Replaced(d, x)
  BY <1>d DEF Waits, Replaced, Outgoing, Changed, PreviousRoles
<1>1. ReleasesInv'
  BY <1>e, IdleHost DEF HostInv, ReleasesInv
<1>2. ASSUME EndStage PROVE RolloutFor(d)' /\ StoppedFor(d)'
  <2>1. started \subseteq row[d].roles /\ Starts(d) \subseteq started /\ Stops(d) = {}
    BY <1>2, <1>b, DeploymentsAssumption DEF EndStage, StageOver, Unrecorded
  <2>2. \A c \in RoleContainers(d) :
          /\ step = "first" /\ ~RoleOf(c).singleton /\ ~Waits(d, c) => c \in started
          /\ step = "later" /\ ~RoleOf(c).singleton /\ Waits(d, c) => c \in started
          /\ step = "singletons" /\ RoleOf(c).singleton => c \in started
    BY <2>1 DEF Starts, Waits
  <2>3. step = "outgoing" => Outgoing(d) \subseteq retained
    BY <2>1 DEF Stops
  <2>4. \/ step = "first" /\ step' = "outgoing"
        \/ step = "outgoing" /\ step' = "later"
        \/ step = "later" /\ step' = "singletons"
        \/ step = "singletons" /\ step' = "web"
    BY <1>2, StageSteps DEF EndStage, GoTo
  <2>5. RolloutFor(d)'
    BY <1>a, <1>d, <1>f, <1>g, <2>1, <2>2, <2>4, StageSteps DEF RolloutFor, Running
  <2>6. StoppedFor(d)'
    BY <1>a, <1>d, <1>f, <1>g, <2>3, <2>4 DEF StoppedFor, Alive, Running, Starting
  <2> QED BY <2>5, <2>6
<1>3. ASSUME OverlapPreviousWeb \/ PassWeb PROVE RolloutFor(d)' /\ StoppedFor(d)'
  <2>1. \/ step = "web" /\ step' = "activating"
        \/ step = "checking" /\ step' = "publishing"
    BY <1>3 DEF OverlapPreviousWeb, PassWeb, GoTo
  <2>2. RolloutFor(d)'
    BY <1>a, <1>d, <1>f, <1>g, <2>1, StageSteps DEF RolloutFor, Running
  <2>3. StoppedFor(d)'
    BY <1>a, <1>d, <1>f, <1>g, <2>1 DEF StoppedFor, Alive, Running, Starting
  <2> QED BY <2>2, <2>3
<1>4. FailureFor(d)' /\ RetainedFor(d)'
  BY <1>a, <1>d, <1>f DEF FailureFor, RetainedFor, PreviousWeb
<1>5. RolloutInv'
  BY <1>d, <1>2, <1>3, <1>4 DEF RolloutInv, RolloutFor, StoppedFor, FailureFor, RetainedFor
<1> QED BY <1>1, <1>5 DEF HostInv, RolloutInv, ReleasesInv

(* The web pipeline touches no role.                                       *)
LEMMA WebHost ==
  ASSUME TypeInv, JournalInv, HostInv, NEW d \in Deployments, d = worker,
         step \in {"web", "activating"}, step' \in RollingSteps, Stand,
         UNCHANGED <<row, started>>,
         journal'[d].stopped = journal[d].stopped, journal[d].stopsWeb /\ journal[d].previous # None => journal'[d].stopsWeb,
         Spares(d),
         \A c \in AllRoles : container'[c] = container[c] /\ late'[c] = late[c],
         retained' \cap AllRoles = retained \cap AllRoles,
         retained' \subseteq retained \cup PreviousWeb(d), retained \subseteq retained',
         step' \in RolloutSteps => step' \in {"activating", "checking"},
         step' \in RolloutSteps =>
           /\ late'[Web(d)] = {}
           /\ container'[Web(d)] = IF step' = "checking" THEN "running" ELSE "none"
  PROVE  HostInv'
<1>a. step \in RollingSteps /\ step \in RolloutSteps /\ step \notin FailSteps /\ step \notin InStage
  BY StepSets, StageSteps DEF RollingSteps
<1>b. worker' = d /\ journal'[d].previous = journal[d].previous
  BY DEF Stand
<1>c. RolloutFor(d) /\ StoppedFor(d) /\ RetainedFor(d)
  BY DEF HostInv
<1>d. RoleContainers(d) \subseteq AllRoles
  BY ContainerFacts
<1>e. PreviousRoles(d)' = PreviousRoles(d) /\ PreviousWeb(d)' = PreviousWeb(d) /\ Changed(d)' = Changed(d)
  BY <1>b DEF PreviousRoles, PreviousWeb, Changed
<1>f. Outgoing(d)' = Outgoing(d) /\ \A x : (Waits(d, x)' <=> Waits(d, x)) /\ Replaced(d, x)' = Replaced(d, x)
  BY <1>e DEF Waits, Replaced, Outgoing
<1>1. Alone'
  BY DEF HostInv, Alone, Alive, Running, Starting
<1>2. RetainedFor(d)'
  BY <1>a, <1>b, <1>c, <1>e DEF RetainedFor
<1>3. CASE step' \in RolloutSteps
  <2>1. RolloutFor(d)'
    BY <1>a, <1>b, <1>c, <1>d, <1>f, <1>3 DEF RolloutFor, Running
  <2>2. StoppedFor(d)'
    <3>1. \A c \in AllRoles : Alive(c)' <=> Alive(c)
      BY DEF Alive, Running, Starting
    <3> QED BY <1>a, <1>b, <1>c, <1>d, <1>f, <1>3, <3>1 DEF StoppedFor
  <2>3. FailureFor(d)'
    BY <1>3, StepSets DEF FailureFor
  <2> QED BY <1>a, <1>1, <1>2, <2>1, <2>2, <2>3, RollHost
<1>4. CASE step' \in FailSteps
  <2>1. RolloutFor(d)' /\ StoppedFor(d)' /\ FailureFor(d)'
    BY <1>a, <1>b, <1>d, <1>4, FailingRollout
  <2> QED BY <1>a, <1>1, <1>2, <2>1, RollHost
<1> QED BY <1>3, <1>4 DEF RollingSteps
LEMMA StopPreviousWebHost ==
  ASSUME TypeInv, JournalInv, HostInv, StopPreviousWeb
  PROVE  HostInv'
<1>a. step = "web" /\ step \in RollingSteps /\ step \in RolloutSteps
  BY DEF StopPreviousWeb, RollingSteps, RolloutSteps
<1>b. worker \in Deployments /\ Pending(worker)
  BY <1>a, RollingFacts
<1> PICK d \in Deployments : d = worker
  BY <1>b
<1>c. Stand
  BY WebStands
<1>d. /\ UNCHANGED <<row, started>> /\ step' = "activating"
      /\ journal' = [journal EXCEPT ![d].stopsWeb = PreviousWeb(d) # {}]
  BY DEF StopPreviousWeb
<1>e. PICK lost \in SUBSET PreviousWeb(d) :
        /\ Ask("stop", PreviousWeb(d), lost)
        /\ retained' = retained \cup (PreviousWeb(d) \ lost)
  BY DEF StopPreviousWeb
<1>f. /\ journal'[d].stopsWeb = (PreviousWeb(d) # {})
      /\ journal'[d].stopped = journal[d].stopped /\ journal'[d].previous = journal[d].previous
  BY <1>d, Shapes
<1>g. /\ journal[d].previous \in Deployments \cup {None} /\ journal[d].previous # d
      /\ \A c \in PreviousWeb(d) : c[1] = journal[d].previous /\ c \notin AllRoles
  BY <1>b, PreviousFacts, ContainerFacts DEF PreviousWeb, Web
<1>1. Spares(d)
  <2>1. PreviousWeb(d) \subseteq Touched(d)'
    BY <1>f DEF Touched, PreviousWeb
  <2> QED BY <1>b, <1>e, <1>g, <2>1, StopSpares
<1>2. \A c \in Containers : c[1] = d \/ c \in AllRoles => container'[c] = container[c] /\ late'[c] = late[c]
  BY <1>e, <1>g, AskEffect
<1>3. Web(d) \in Containers /\ Web(d)[1] = d /\ AllRoles \subseteq Containers
  BY ContainerFacts
<1>4. late'[Web(d)] = {} /\ container'[Web(d)] = "none"
  BY <1>a, <1>2, <1>3 DEF HostInv, RolloutFor
<1>5. journal[d].stopsWeb /\ journal[d].previous # None => journal'[d].stopsWeb
  BY <1>f DEF PreviousWeb
<1>6. step' \in RollingSteps
  BY <1>d DEF RollingSteps, RolloutSteps
<1> QED BY <1>a, <1>c, <1>d, <1>e, <1>f, <1>g, <1>1, <1>2, <1>3, <1>4, <1>5, <1>6, WebHost
LEMMA ActivateHost ==
  ASSUME TypeInv, JournalInv, HostInv, ActivateWeb \/ LoseActivation
  PROVE  HostInv'
<1>a. step = "activating" /\ step \in RollingSteps /\ step \in RolloutSteps
  BY DEF ActivateWeb, LoseActivation, RollingSteps, RolloutSteps
<1>b. worker \in Deployments /\ Pending(worker)
  BY <1>a, RollingFacts
<1> PICK d \in Deployments : d = worker
  BY <1>b
<1>c. Stand
  BY WebStands
<1>d. /\ UNCHANGED <<row, started, retained, late>>
      /\ journal' = journal \/ journal' = [journal EXCEPT ![d].served = TRUE]
      /\ container' = container \/ container' = [container EXCEPT ![Web(d)] = "running"]
  BY DEF ActivateWeb, LoseActivation, GoTo
<1>e. \/ step' = "checking" /\ container' = [container EXCEPT ![Web(d)] = "running"]
      \/ step' \in FailSteps
  BY FailWebTypes DEF ActivateWeb, LoseActivation, GoTo, FailSteps
<1>f. /\ journal'[d].stopsWeb = journal[d].stopsWeb /\ journal'[d].stopped = journal[d].stopped
  BY <1>d, Shapes
<1>g. Web(d) \in Containers /\ Web(d)[1] = d /\ Web(d) \notin AllRoles /\ AllRoles \subseteq Containers
      /\ Web(d) \in Candidates(d)
  BY ContainerFacts
<1>h. \A c \in Containers : c # Web(d) => container'[c] = container[c] /\ late'[c] = late[c]
  BY <1>d, Shapes
<1>1. Spares(d)
  BY <1>b, <1>g, <1>h, OwnSpares
<1>2. late'[Web(d)] = {}
  BY <1>a, <1>d DEF HostInv, RolloutFor
<1>3. step' = "checking" => container'[Web(d)] = "running"
  BY <1>e, <1>g, Shapes DEF FailSteps
<1>4. step' \in RollingSteps /\ (step' \in RolloutSteps => step' = "checking")
  BY <1>e, StepSets DEF RollingSteps, RolloutSteps
<1>5. \A c \in AllRoles : container'[c] = container[c] /\ late'[c] = late[c]
  BY <1>g, <1>h
<1> QED BY <1>a, <1>c, <1>d, <1>f, <1>1, <1>2, <1>3, <1>4, <1>5, WebHost
-----------------------------------------------------------------------------
(* A failed rollout. *)

LEMMA FailHost ==
  ASSUME TypeInv, JournalInv, HostInv, NEW d \in Deployments, d = worker,
         step \in FailSteps, step' \in FailSteps, Stand, UNCHANGED <<journal, retained>>,
         Spares(d), Alone', FailureFor(d)'
  PROVE  HostInv'
<1>a. step \in RollingSteps /\ step' \in RollingSteps /\ step' \notin RolloutSteps
  BY StepSets DEF RollingSteps
<1>b. worker' = d
  BY DEF Stand
<1>1. RetainedFor(d)'
  BY <1>a, <1>b DEF HostInv, RetainedFor, PreviousWeb, RollingSteps
<1>2. RolloutFor(d)' /\ StoppedFor(d)'
  BY <1>a DEF RolloutFor, StoppedFor
<1> QED BY <1>a, <1>1, <1>2, RollHost

LEMMA StopActivatedHost ==
  ASSUME TypeInv, JournalInv, HostInv, StopActivated
  PROVE  HostInv'
<1>a. step \in FailSteps /\ step' \in FailSteps /\ step \in RollingSteps
  BY DEF StopActivated, GoTo, FailSteps, RollingSteps
<1>b. worker \in Deployments /\ Pending(worker)
  BY <1>a, RollingFacts
<1> PICK d \in Deployments : d = worker
  BY <1>b
<1>c. Stand /\ UNCHANGED <<journal, retained, started>> /\ worker' = d
  BY EndStands DEF StopActivated, GoTo
<1>d. PICK asked \in SUBSET {Web(d)} : \E lost \in SUBSET asked : Ask("stop", asked, lost)
  BY DEF StopActivated
<1>e. PICK lost \in SUBSET asked : Ask("stop", asked, lost)
  BY <1>d
<1>f. Web(d)[1] = d /\ RoleContainers(d) \subseteq Containers
  BY ContainerFacts
<1>1. Spares(d)
  BY <1>b, <1>d, <1>e, <1>f, AskEffect, OwnSpares
<1>2. \A x \in Containers : Alive(x)' => Alive(x)
  BY <1>e, LowerEffect
<1>3. Alone'
  BY <1>2, AloneKeeps, ContainerFacts DEF HostInv
<1>4. FailureFor(d)'
  BY <1>a, <1>c, <1>f, <1>2 DEF HostInv, FailureFor
<1> QED BY <1>a, <1>c, <1>1, <1>3, <1>4, FailHost

LEMMA RevertHost ==
  ASSUME TypeInv, JournalInv, HostInv, RevertWeb
  PROVE  HostInv'
<1>a. step \in FailSteps /\ step' \in FailSteps /\ step \in RollingSteps
  BY DEF RevertWeb, GoTo, FailSteps, RollingSteps
<1>b. worker \in Deployments /\ Pending(worker)
  BY <1>a, RollingFacts
<1> PICK d \in Deployments : d = worker
  BY <1>b
<1>c. Stand /\ UNCHANGED <<journal, retained, started>> /\ worker' = d
  BY EndStands DEF RevertWeb, GoTo
<1>d. PICK lost \in SUBSET PreviousWeb(d) : Ask("start", PreviousWeb(d), lost)
  BY DEF RevertWeb
<1>e. \A c \in PreviousWeb(d) : c[1] = journal[d].previous /\ c \notin AllRoles
  BY <1>b, PreviousFacts, ContainerFacts DEF PreviousWeb, Web
<1>1. Spares(d)
  BY <1>b, <1>d, <1>e, StartSpares
<1>2. \A x \in AllRoles : Alive(x)' => Alive(x)
  BY <1>d, <1>e, AskEffect, ContainerFacts DEF Alive, Running, Starting
<1>3. Alone'
  BY <1>2, AloneKeeps DEF HostInv
<1>4. FailureFor(d)'
  BY <1>a, <1>c, <1>2, ContainerFacts DEF HostInv, FailureFor
<1> QED BY <1>a, <1>c, <1>1, <1>3, <1>4, FailHost

LEMMA UnwindHost ==
  ASSUME TypeInv, JournalInv, HostInv, Unwind
  PROVE  HostInv'
<1>a. step \in FailSteps /\ step' \in FailSteps /\ step \in RollingSteps
  BY DEF Unwind, FailSteps, RollingSteps
<1>b. worker \in Deployments /\ Pending(worker) /\ started \subseteq RoleContainers(worker)
  BY <1>a, RollingFacts
<1> PICK d \in Deployments : d = worker
  BY <1>b
<1>c. Stand /\ UNCHANGED <<journal, retained>> /\ worker' = d
  BY EndStands DEF Unwind
<1>d. PICK lost \in SUBSET started : Ask("destroy", started, lost) /\ started' = lost
  BY DEF Unwind
<1>e. \A c \in RoleContainers(d) : c[1] = d /\ c \in Containers
  BY ContainerFacts
<1>1. Spares(d)
  BY <1>b, <1>d, <1>e, AskEffect, OwnSpares
<1>2. \A x \in Containers : (Alive(x)' => Alive(x)) /\ (x \in started \ lost => ~Alive(x)')
  BY <1>d, LowerEffect
<1>3. Alone'
  BY <1>2, AloneKeeps, ContainerFacts DEF HostInv
<1>4. FailureFor(d)'
  BY <1>a, <1>c, <1>d, <1>e, <1>2 DEF HostInv, FailureFor
<1> QED BY <1>a, <1>c, <1>1, <1>3, <1>4, FailHost
(* What may be started again has no successor that is up.                  *)
LEMMA RestartAlone ==
  ASSUME TypeInv, JournalInv, HostInv, NEW d \in Deployments, d = worker, step \in FailSteps,
         \A x \in AllRoles \ Restorable : Alive(x)' => Alive(x)
  PROVE  Alone'
<1> DEFINE p == journal[d].previous
<1>a. step \in RollingSteps
  BY DEF RollingSteps
<1>b. /\ Pending(d) /\ d \in Nat /\ p \in Deployments \cup {None} /\ None \notin Deployments
      /\ p # None => p < d /\ p \in Nat /\ PreviousRoles(d) = RoleContainers(p)
      /\ p = None => journal[d].stopped = {}
      /\ p # None => journal[d].stopped \subseteq RoleContainers(p)
  BY <1>a, RollingFacts, PreviousFacts, Shapes, DeploymentsAssumption
<1>c. \A o \in AllRoles : Alive(o) => o[1] \in {d, p}
  BY <1>b DEF HostInv, OthersFor
<1>d. \A o \in AllRoles : o \in Containers /\ o[1] \in Deployments /\ o \in RoleContainers(o[1])
  BY ContainerFacts
<1>e. retained \subseteq PreviousWeb(d) \cup journal[d].stopped
  BY <1>a DEF HostInv, RetainedFor, RollingSteps
<1>f. \A o \in Restorable : /\ o \in RoleContainers(p) /\ o[1] = p /\ p # None
                            /\ \A c \in started : c[2] \notin ReplacedBy(o)
  BY <1>b, <1>e, ContainerFacts DEF Restorable
<1>1. ASSUME NEW o \in Restorable, NEW x \in AllRoles, Alive(x)', p < x[1], SoleScheduler(o)
      PROVE  RoleOf(x).command # RoleOf(o).command
  <2>0. SUFFICES ASSUME RoleOf(x).command = RoleOf(o).command PROVE FALSE
    OBVIOUS
  <2>1. p \in Deployments /\ p # None /\ o \in RoleContainers(p) /\ PreviousRoles(d) = RoleContainers(p)
    BY <1>b, <1>f
  <2>2. x[1] = d /\ Alive(x)
    <3>1. x \notin Restorable
      BY <1>1, <1>f, <1>b
    <3> QED BY <1>1, <1>b, <1>c, <1>d, <3>1
  <2>3. x \in RoleContainers(d) /\ x \in started
    BY <1>d, <2>2 DEF HostInv, FailureFor
  <2>4. /\ RoleOf(o) \in Declared[p] /\ RoleOf(o).name = o[2]
        /\ RoleOf(x) \in Declared[d] /\ RoleOf(x).name = x[2]
    BY <2>1, <2>3, RoleFacts
  <2>5. x[2] \notin ReplacedBy(o)
    BY <1>f, <2>3
  <2>6. RoleOf(x) # RoleOf(o)
    BY <2>4, <2>5 DEF ReplacedBy
  <2>7. RoleOf(x) \notin Declared[p] /\ RoleOf(o) \notin Declared[d]
    BY <1>1, <2>0, <2>1, <2>4, <2>6 DEF SoleScheduler
  <2>8. RoleOf(x) \in Changed(d)
    BY <2>1, <2>4, <2>7 DEF Changed
  <2>9. o \in Outgoing(d)
    BY <1>1, <2>1, <2>7, <2>8 DEF Outgoing, SoleScheduler
  <2> QED BY <2>4, <2>5, <2>8, <2>9 DEF ReplacedBy
<1>2. ASSUME NEW o \in Restorable, NEW x \in AllRoles, Alive(x)', x[1] < p PROVE FALSE
  <2>1. p \in Deployments /\ p # None /\ p < d /\ p \in Nat
    BY <1>b, <1>f
  <2>2. x \notin Restorable /\ x[1] \in Nat
    BY <1>2, <1>d, <1>f, <2>1, Shapes
  <2> QED BY <1>2, <1>b, <1>c, <2>1, <2>2
<1>3. \A x \in AllRoles : Alive(x)' => Alive(x) \/ x \in Restorable
  OBVIOUS
<1>4. \A c \in Restorable \cap AllRoles, o \in AllRoles :
        Alive(o)' /\ o[1] < c[1] /\ SoleScheduler(o) => RoleOf(o).command # RoleOf(c).command
  BY <1>f, <1>2
<1>5. \A c \in Restorable \cap AllRoles, o \in AllRoles :
        Alive(o)' /\ c[1] < o[1] /\ SoleScheduler(c) => RoleOf(o).command # RoleOf(c).command
  BY <1>f, <1>1
<1>6. Alone
  BY DEF HostInv
<1> HIDE DEF Restorable
<1> QED BY <1>3, <1>4, <1>5, <1>6, AloneRises

LEMMA RestartHost ==
  ASSUME TypeInv, JournalInv, HostInv, RestartRetained
  PROVE  HostInv'
<1>a. step \in FailSteps /\ step' \in FailSteps /\ step \in RollingSteps
  BY DEF RestartRetained, GoTo, FailSteps, RollingSteps
<1>b. worker \in Deployments /\ Pending(worker)
  BY <1>a, RollingFacts
<1> PICK d \in Deployments : d = worker
  BY <1>b
<1>c. Stand /\ UNCHANGED <<journal, retained, started>> /\ worker' = d
  BY EndStands DEF RestartRetained, GoTo
<1>d. PICK lost \in SUBSET Restorable : Ask("start", Restorable, lost)
  BY DEF RestartRetained
<1>e. Restorable \subseteq journal[d].stopped
  BY <1>a DEF Restorable, HostInv, RetainedFor, RollingSteps
<1>f. \A c \in Restorable : c[1] = journal[d].previous /\ c[1] # d
  BY <1>b, <1>e, PreviousFacts, ContainerFacts
<1>1. Spares(d)
  BY <1>b, <1>c, <1>d, <1>e, <1>f, StartSpares
<1>2. \A x \in AllRoles \ Restorable : Alive(x)' => Alive(x)
  BY <1>d, AskEffect, ContainerFacts DEF Alive, Running, Starting
<1>3. Alone'
  BY <1>a, <1>2, RestartAlone
<1>4. FailureFor(d)'
  BY <1>a, <1>c, <1>f, <1>2, ContainerFacts DEF HostInv, FailureFor
<1> QED BY <1>a, <1>c, <1>1, <1>3, <1>4, FailHost

LEMMA SettleHost ==
  ASSUME TypeInv, JournalInv, HostInv, SettleFailure
  PROVE  HostInv'
<1>a. step \in FailSteps /\ step \in RollingSteps /\ step' \in {"done", "recovering"}
  BY DEF SettleFailure, GoTo, FailSteps, RollingSteps
<1>b. worker \in Deployments /\ Pending(worker) /\ journal[worker].phase = "preparing" /\ recovery = "none"
  BY <1>a, RollingFacts
<1> PICK d \in Deployments : d = worker
  BY <1>b
<1>c. /\ UNCHANGED <<live, worker, recovery, cleaned>>
      /\ journal' = journal \/ journal' = [journal EXCEPT ![d].phase = "kept"]
      /\ row' = [row EXCEPT ![d].status = IF @ = "deploying" THEN "failed" ELSE @]
  BY DEF SettleFailure, GoTo, recoveryVars, SetPhase
<1>d. PICK asked \in SUBSET {Web(d)} : \E lost \in SUBSET asked : Ask("destroy", asked, lost)
  BY DEF SettleFailure
<1>e. PICK lost \in SUBSET asked : Ask("destroy", asked, lost)
  BY <1>d
<1>f. Web(d)[1] = d
  BY ContainerFacts
<1>1. Spares(d)
  BY <1>b, <1>d, <1>e, <1>f, AskEffect, OwnSpares
<1>2. \A x \in Containers : Alive(x)' => Alive(x)
  BY <1>e, LowerEffect
<1>3. Alone'
  BY <1>2, AloneKeeps, ContainerFacts DEF HostInv
<1>4. Open(d) /\ Grows(d)
  <2>1. \A e \in Deployments : Pending(e)' <=> Pending(e)
    BY <1>b, <1>c, Shapes DEF Pending
  <2>2. /\ journal'[d].previous = journal[d].previous /\ journal'[d].stopped = journal[d].stopped
        /\ journal'[d].stopsWeb = journal[d].stopsWeb /\ journal'[d].phase \in {"preparing", "kept"}
    BY <1>b, <1>c, Shapes
  <2>3. FreshKept
    BY <1>a, <1>c, Shapes DEF FreshKept, Fresh
  <2> QED BY <1>a, <1>b, <1>c, <2>1, <2>2, <2>3 DEF Open, Grows
<1>5. /\ \A e \in Deployments : CommittedFor(e)' /\ PreviousFor(e)' /\ OthersFor(e)' /\ FreshFor(e)'
      /\ Settled'
  BY <1>1, <1>4, OpenHost DEF HostInv, ReleasesInv
<1>6. step' \notin RolloutSteps /\ step' \notin FailSteps
  BY <1>a, StepSets DEF FailSteps
<1>7. \A e \in Deployments : RolloutFor(e)' /\ StoppedFor(e)' /\ FailureFor(e)' /\ RetainedFor(e)'
  BY <1>6 DEF RolloutFor, StoppedFor, FailureFor, RetainedFor
<1> QED BY <1>b, <1>c, <1>3, <1>5, <1>7 DEF HostInv, BroughtBack
-----------------------------------------------------------------------------
(* The journal opens, is committed and closes. *)

LEMMA BeginHost ==
  ASSUME TypeInv, JournalInv, HostInv, BeginHandover
  PROVE  HostInv'
<1>a. worker \in Deployments /\ step = "waiting" /\ step' = "first"
  BY DEF BeginHandover, GoTo, TypeInv, Named
<1> PICK d \in Deployments : d = worker
  BY <1>a
<1>b. /\ UNCHANGED <<row, live, container, late, worker, started, retained, recovery, cleaned>>
      /\ recovery = "none" /\ Unknown = {}
      /\ journal' = [journal EXCEPT ![d] = [NoJournal EXCEPT !.phase = "preparing", !.previous = live]]
  BY DEF BeginHandover, LockFree, GoTo, hostVars, recoveryVars
<1>c. /\ journal'[d].phase = "preparing" /\ journal'[d].previous = live /\ journal'[d].stopped = {}
      /\ \A e \in Deployments \ {d} : journal'[e] = journal[e]
  BY <1>b, Shapes DEF NoJournal
<1>d. NonePending /\ live # d /\ row[d].roles = {} /\ started = {} /\ retained = {}
  BY <1>a DEF JournalInv, WorkerKnows
<1>e. \A e \in Deployments : Pending(e)' <=> e = d
  BY <1>c, <1>d DEF NonePending, Pending
<1>f. live # None => live \in Deployments /\ row[live].roles = RoleContainers(live)
  BY DEF TypeInv, TypeOK, JournalInv, RowKnows
<1>g. /\ \A c \in AllRoles : ~Starting(c)
      /\ live # None /\ live \notin cleaned => \A c \in Candidates(live) : Intact(c)
  BY <1>d DEF HostInv, Settled
<1>h. \A c \in Containers : (Alive(c)' <=> Alive(c)) /\ (Starting(c)' <=> Starting(c)) /\ (Intact(c)' <=> Intact(c))
  BY <1>b DEF Alive, Starting, Running, Intact
<1>i. step' \in RolloutSteps /\ step' \notin FailSteps /\ step' # "retired"
  BY <1>a, StepSets
<1>1. ASSUME NEW e \in Deployments PROVE CommittedFor(e)'
  BY <1>c, <1>e, <1>i DEF CommittedFor, Pending
<1>2. ASSUME NEW e \in Deployments PROVE PreviousFor(e)'
  <2>1. SUFFICES ASSUME e = d, live # None PROVE PreviousFor(d)'
    BY <1>c, <1>e DEF PreviousFor, Pending
  <2>2. Candidates(live) \subseteq Containers /\ RoleContainers(live) \subseteq AllRoles /\ AllRoles \subseteq Containers
    BY <1>f, <2>1, ContainerFacts
  <2>3. live \notin cleaned' => \A c \in Candidates(live) :
          container'[c] # "none" /\ "destroy" \notin late'[c] /\ (Intact(c)' \/ c \in Touched(d)')
    BY <1>b, <1>g, <1>h, <2>1, <2>2 DEF Intact, Running
  <2>4. \A c \in RoleContainers(live) \ journal'[d].stopped : ~Starting(c)'
    BY <1>g, <1>h, <2>1, <2>2
  <2> QED BY <1>c, <2>3, <2>4 DEF PreviousFor
<1>3. ASSUME NEW e \in Deployments PROVE OthersFor(e)'
  <2>1. ASSUME NEW c \in AllRoles, Alive(c) PROVE c[1] = live
    <3>1. container[c] = "running"
      BY <1>g, <2>1 DEF Alive, Running
    <3>2. live # None /\ c \in row[live].roles
      BY <1>b, <3>1 DEF Unknown
    <3> QED BY <1>f, <3>2, ContainerFacts
  <2> QED BY <1>c, <1>e, <1>h, <2>1, ContainerFacts DEF OthersFor
<1>4. ASSUME NEW e \in Deployments PROVE FreshFor(e)'
  BY <1>a, <1>b, <1>4 DEF HostInv, FreshFor, Untouched
<1>5. RolloutFor(d)'
  <2>1. Untouched(d)
    BY <1>a DEF HostInv, FreshFor
  <2>2. RoleContainers(d) \subseteq Candidates(d) /\ Web(d) \in Candidates(d)
    BY ContainerFacts
  <2> QED BY <1>a, <1>b, <1>d, <2>1, <2>2, StageSteps DEF RolloutFor, Untouched
<1>6. StoppedFor(d)' /\ RetainedFor(d)' /\ FailureFor(d)'
  BY <1>a, <1>b, <1>d, <1>i DEF StoppedFor, RetainedFor, FailureFor
<1>7. \A e \in Deployments : RolloutFor(e)' /\ StoppedFor(e)' /\ FailureFor(e)' /\ RetainedFor(e)'
  BY <1>b, <1>5, <1>6 DEF RolloutFor, StoppedFor, FailureFor, RetainedFor
<1>8. Alone' /\ Settled' /\ BroughtBack'
  <2>1. Alone'
    BY <1>h, ContainerFacts DEF HostInv, Alone
  <2>2. ~NonePending'
    BY <1>e DEF NonePending
  <2> QED BY <1>b, <2>1, <2>2 DEF Settled, BroughtBack
<1> QED BY <1>1, <1>2, <1>3, <1>4, <1>7, <1>8 DEF HostInv

LEMMA CommitHost ==
  ASSUME TypeInv, JournalInv, HostInv, Commit
  PROVE  HostInv'
<1>a. step = "publishing" /\ step' = "retiring" /\ step \in RollingSteps /\ step \in RolloutSteps /\ step \notin InStage
  BY StageSteps DEF Commit, GoTo, RollingSteps, RolloutSteps
<1>b. worker \in Deployments /\ Pending(worker) /\ recovery = "none"
  BY <1>a, RollingFacts
<1> PICK d \in Deployments : d = worker
  BY <1>b
<1>c. /\ UNCHANGED <<row, live, container, late, worker, recovery, cleaned>>
      /\ journal' = [journal EXCEPT ![d].phase = "committing"]
  BY DEF Commit, CommitIntent, SetPhase, GoTo, hostVars, recoveryVars
<1>d. /\ journal'[d].phase = "committing" /\ journal'[d].previous = journal[d].previous
      /\ \A e \in Deployments \ {d} : journal'[e] = journal[e] /\ ~Pending(e)
  BY <1>b, <1>c, Shapes, PreviousFacts
<1>e. \A c : (Alive(c)' <=> Alive(c)) /\ (Steady(c)' <=> Steady(c))
  BY <1>c DEF Alive, Starting, Running, Steady
<1>f. step' \notin RollingSteps /\ step' # "retired"
  BY <1>a, StepSets DEF RollingSteps, FailSteps
<1>1. ASSUME NEW e \in Deployments PROVE CommittedFor(e)'
  <2>1. \A c \in Candidates(d) : Steady(c)
    <3>1. RolloutFor(d)
      BY DEF HostInv
    <3>2. \A c \in RoleContainers(d) : Steady(c)
      BY <1>a, <3>1 DEF RolloutFor, Steady
    <3>3. Steady(Web(d))
      BY <1>a, <3>1 DEF RolloutFor, Steady, Running
    <3> QED BY <3>2, <3>3, ContainerFacts
  <2> QED BY <1>d, <1>e, <1>f, <2>1 DEF CommittedFor, Pending
<1>2. ASSUME NEW e \in Deployments PROVE PreviousFor(e)'
  BY <1>d DEF PreviousFor, Pending
<1>3. ASSUME NEW e \in Deployments PROVE OthersFor(e)'
  <2>1. Pending(e)' => e = d
    BY <1>d DEF Pending
  <2>2. OthersFor(d)
    BY DEF HostInv
  <2> QED BY <1>b, <1>d, <1>e, <2>1, <2>2 DEF OthersFor
<1>4. ASSUME NEW e \in Deployments PROVE FreshFor(e)'
  BY <1>a, <1>c, <1>4 DEF HostInv, FreshFor, Untouched
<1>5. \A e \in Deployments : RolloutFor(e)' /\ StoppedFor(e)' /\ FailureFor(e)' /\ RetainedFor(e)'
  BY <1>f DEF RolloutFor, StoppedFor, FailureFor, RetainedFor, RollingSteps
<1>6. Alone' /\ Settled' /\ BroughtBack'
  <2>1. Alone'
    BY <1>e DEF HostInv, Alone
  <2>2. ~NonePending'
    BY <1>d DEF NonePending, Pending
  <2> QED BY <1>b, <1>c, <2>1, <2>2 DEF Settled, BroughtBack
<1> QED BY <1>1, <1>2, <1>3, <1>4, <1>5, <1>6 DEF HostInv
(* The containers of the release before a committed one go.                *)
LEMMA RetireHost ==
  ASSUME TypeInv, JournalInv, HostInv, NEW d \in Deployments, journal[d].phase = "committing",
         NEW asked, NEW lost, Ask("destroy", asked, lost),
         \A c \in asked : c[1] = journal[d].previous,
         UNCHANGED <<row, live, journal, worker, cleaned>>,
         step' \notin RollingSteps, step' = "waiting" => step = "waiting",
         step' = "retired" => worker = d /\ Gone(PreviousRoles(d))',
         recovery' # "undoing"
  PROVE  HostInv'
<1> DEFINE p == journal[d].previous
<1>a. Pending(d)
  BY DEF Pending
<1>b. /\ \A e \in Deployments : Pending(e) => e = d
      /\ p \in Deployments \cup {None} /\ p # d /\ ~Fresh(d)
      /\ p # None => ~Fresh(p)
  BY <1>a, PreviousFacts
<1>c. \A x \in Containers : (Alive(x)' => Alive(x)) /\ (Starting(x)' => Starting(x))
  BY LowerEffect
<1>d. \A x \in Containers : x[1] # p => container'[x] = container[x] /\ late'[x] = late[x]
  BY AskEffect
<1>e. /\ \A e \in Deployments : \A c \in Candidates(e) : c[1] = e /\ c \in Containers
      /\ AllRoles \subseteq Containers
  BY ContainerFacts
<1>1. ASSUME NEW e \in Deployments PROVE CommittedFor(e)'
  <2>1. journal[e].phase = "committing" => e = d
    BY <1>b DEF Pending
  <2>2. \A c \in Candidates(d) : Steady(c)'
    BY <1>b, <1>d, <1>e DEF HostInv, CommittedFor, Steady, Running
  <2> QED BY <2>1, <2>2 DEF CommittedFor
<1>2. ASSUME NEW e \in Deployments PROVE PreviousFor(e)'
  <2>1. journal[e].phase \notin {"preparing", "kept"}
    BY <1>b DEF Pending
  <2> QED BY <2>1 DEF PreviousFor
<1>3. ASSUME NEW e \in Deployments PROVE OthersFor(e)'
  BY <1>c, <1>e, <1>3 DEF HostInv, OthersFor, Pending
<1>4. ASSUME NEW e \in Deployments PROVE FreshFor(e)'
  <2>1. SUFFICES ASSUME Fresh(e) PROVE Untouched(e)'
    BY DEF FreshFor, Fresh
  <2>2. e # p
    BY <1>b, <2>1, DeploymentsAssumption
  <2>3. Untouched(e)
    BY <2>1 DEF HostInv, FreshFor, Fresh
  <2> QED BY <1>d, <1>e, <2>2, <2>3 DEF Untouched
<1>5. Alone'
  BY <1>c, <1>e, AloneKeeps DEF HostInv
<1>6. Settled'
  BY <1>a DEF Settled, NonePending, Pending
<1>7. \A e \in Deployments : RolloutFor(e)' /\ StoppedFor(e)' /\ FailureFor(e)' /\ RetainedFor(e)'
  BY DEF RolloutFor, StoppedFor, FailureFor, RetainedFor, RollingSteps
<1> QED BY <1>1, <1>2, <1>3, <1>4, <1>5, <1>6, <1>7 DEF HostInv, BroughtBack

LEMMA RetirePreviousHost ==
  ASSUME TypeInv, JournalInv, HostInv, RetirePrevious
  PROVE  HostInv'
<1>a. /\ worker \in Deployments /\ journal[worker].phase = "committing" /\ step = "retiring"
      /\ live = journal[worker].previous /\ recovery \notin {"undoing", "finishing", "advancing", "cleaning"}
  BY DEF RetirePrevious, TypeInv, Named, JournalInv, WorkerKnows, RecoveryKnows, CommitSteps
<1> PICK d \in Deployments : d = worker
  BY <1>a
<1> DEFINE webs == IF d \in Overlapping THEN PreviousWeb(d) ELSE PreviousWeb(d) \cap retained
<1>b. PICK lost \in SUBSET (PreviousRoles(d) \cup webs) :
        /\ Ask("destroy", PreviousRoles(d) \cup webs, lost)
        /\ GoTo(IF lost \subseteq webs THEN "retired" ELSE "warned")
  BY DEF RetirePrevious
<1>c. Pending(d)
  BY <1>a DEF Pending
<1>d. /\ \A c \in PreviousRoles(d) : c[1] = journal[d].previous /\ c \in Containers
      /\ \A c \in PreviousWeb(d) : c[1] = journal[d].previous /\ c \notin AllRoles
      /\ PreviousRoles(d) \subseteq AllRoles
  <2>1. live # None => live \in Deployments /\ PreviousRoles(d) = RoleContainers(live)
    BY <1>a, Shapes DEF PreviousRoles, TypeInv, TypeOK, JournalInv, RowKnows
  <2>2. live = None => PreviousRoles(d) = {} /\ PreviousWeb(d) = {}
    BY <1>a DEF PreviousRoles, PreviousWeb
  <2>3. \A c \in PreviousWeb(d) : c = Web(live) /\ live # None
    BY <1>a DEF PreviousWeb
  <2>4. live # None => Web(live)[1] = live /\ Web(live) \notin AllRoles
    BY <2>1, ContainerFacts
  <2>5. \A c \in PreviousRoles(d) : c \in AllRoles /\ c[1] = live /\ c \in Containers
    BY <2>1, <2>2, ContainerFacts
  <2> QED BY <1>a, <2>3, <2>4, <2>5
<1>e. step' \in {"retired", "warned"} /\ step' \notin RollingSteps
      /\ UNCHANGED <<row, live, journal, worker, recovery, cleaned>>
  BY <1>b, StepSets DEF RetirePrevious, GoTo, recoveryVars, RollingSteps, FailSteps
<1>1. step' = "retired" => Gone(PreviousRoles(d))'
  <2>1. SUFFICES ASSUME step' = "retired" PROVE Gone(PreviousRoles(d))'
    OBVIOUS
  <2>2. lost \subseteq webs
    BY <1>b, <2>1 DEF GoTo
  <2>3. PreviousRoles(d)' = PreviousRoles(d)
    BY <1>e DEF PreviousRoles
  <2>4. \A c \in PreviousRoles(d) : container'[c] = "none"
    BY <1>b, <1>d, <2>2, DestroyEffect
  <2> QED BY <2>3, <2>4 DEF Gone
<1>2. \A c \in PreviousRoles(d) \cup webs : c[1] = journal[d].previous
  BY <1>d
<1> HIDE DEF webs
<1> QED BY <1>a, <1>b, <1>e, <1>1, <1>2, RetireHost

LEMMA RemovePreviousHost ==
  ASSUME TypeInv, JournalInv, HostInv, NEW o \in Containers, RemovePrevious(o)
  PROVE  HostInv'
<1>a. /\ target \in Deployments /\ journal[target].phase = "committing"
      /\ step \in {"none", "waiting", "recovering"} /\ ~PreviousMissing(target)
  BY DEF RemovePrevious, JournalInv, RecoveryKnows
<1> PICK d \in Deployments : d = target
  BY <1>a
<1>b. PICK lost \in SUBSET {o} :
        /\ Ask("destroy", {o}, lost)
        /\ UNCHANGED <<recoveryVars, workerVars>> \/ AbandonRecovery
  BY DEF RemovePrevious
<1>c. Pending(d)
  BY <1>a DEF Pending
<1>d. o[1] = journal[d].previous
  <2>1. journal[d].previous # None => journal[d].previous \in Deployments
    BY <1>c, PreviousFacts
  <2>2. o \in PreviousRoles(d) \/ o \in PreviousWeb(d)
    BY DEF RemovePrevious, ToRetire
  <2>3. journal[d].previous # None => PreviousRoles(d) \subseteq RoleContainers(journal[d].previous)
    BY <2>1 DEF JournalInv, RowKnows, PreviousRoles
  <2> QED BY <2>1, <2>2, <2>3, ContainerFacts DEF PreviousRoles, PreviousWeb, Web
<1>e. /\ UNCHANGED <<row, live, journal, worker, cleaned>>
      /\ step' \in {"none", "waiting", "recovering", "done"} /\ (step' = "waiting" => step = "waiting")
      /\ recovery' # "undoing"
  BY <1>a, <1>b DEF RemovePrevious, AbandonRecovery, recoveryVars, workerVars
<1>f. step' \notin RollingSteps
  BY <1>e, StepSets DEF RollingSteps, FailSteps
<1> QED BY <1>a, <1>b, <1>d, <1>e, <1>f, RetireHost
(* A journal is settled: what is left to show is that the live release     *)
(* runs in full.                                                           *)
LEMMA CloseHost ==
  ASSUME TypeInv, JournalInv, HostInv, NEW d \in Deployments, Pending(d),
         journal' = [journal EXCEPT ![d].phase = "complete"],
         UNCHANGED <<container, late, cleaned>>,
         step' \notin RollingSteps, step' # "retired", FreshKept, recovery' # "undoing",
         \A c \in AllRoles : ~Starting(c),
         live' # None /\ live' \notin cleaned => \A c \in Candidates(live') : Intact(c)
  PROVE  HostInv'
<1>1. \A e \in Deployments : ~Pending(e)'
  BY Shapes, PreviousFacts DEF Pending
<1>2. \A e \in Deployments : journal'[e].phase \notin {"preparing", "kept", "committing"}
  BY <1>1 DEF Pending
<1>3. \A e \in Deployments : CommittedFor(e)' /\ PreviousFor(e)' /\ OthersFor(e)'
  BY <1>1, <1>2 DEF CommittedFor, PreviousFor, OthersFor
<1>4. ASSUME NEW e \in Deployments PROVE FreshFor(e)'
  BY <1>4 DEF HostInv, FreshFor, Untouched, FreshKept, Fresh
<1>5. Alone'
  BY DEF HostInv, Alone, Alive, Running, Starting
<1>6. Settled'
  BY DEF Settled, Starting, Intact, Running
<1>7. \A e \in Deployments : RolloutFor(e)' /\ StoppedFor(e)' /\ FailureFor(e)' /\ RetainedFor(e)'
  BY DEF RolloutFor, StoppedFor, FailureFor, RetainedFor, RollingSteps
<1> QED BY <1>3, <1>4, <1>5, <1>6, <1>7 DEF HostInv, BroughtBack

(* What a release past its commit relies on, once the one before it is     *)
(* gone.                                                                   *)
LEMMA AdvancedServes ==
  ASSUME TypeInv, JournalInv, HostInv, NEW d \in Deployments, journal[d].phase = "committing",
         Gone(PreviousRoles(d)),
         journal[d].previous # None => PreviousRoles(d) = RoleContainers(journal[d].previous)
  PROVE  /\ \A c \in AllRoles : ~Starting(c)
         /\ \A c \in Candidates(d) : Intact(c)
<1> DEFINE p == journal[d].previous
<1>a. Pending(d)
  BY DEF Pending
<1>1. \A c \in Candidates(d) : Steady(c)
  BY DEF HostInv, CommittedFor
<1>2. ASSUME NEW c \in AllRoles, Starting(c) PROVE FALSE
  <2>1. c[1] \in {d, p} /\ c[1] \in Deployments /\ c \in RoleContainers(c[1])
    BY <1>a, <1>2, ContainerFacts DEF HostInv, OthersFor, Alive
  <2>2. CASE c[1] = d
    BY <1>1, <1>2, <2>1, <2>2, ContainerFacts DEF Steady, Starting
  <2>3. CASE c[1] = p
    <3>1. c \in PreviousRoles(d)
      BY <2>1, <2>3, DeploymentsAssumption
    <3> QED BY <1>2, <3>1 DEF Gone, Starting
  <2> QED BY <2>1, <2>2, <2>3
<1> QED BY <1>1, <1>2 DEF Steady, Intact

LEMMA PublishHost ==
  ASSUME TypeInv, JournalInv, HostInv, Publish
  PROVE  HostInv'
<1>a. /\ worker \in Deployments /\ journal[worker].phase = "committing"
      /\ live = journal[worker].previous /\ recovery = "none" /\ step' = "done"
  BY DEF Publish, GoTo, TypeInv, Named, JournalInv, WorkerKnows, RecoveryKnows, CommitSteps
<1> PICK d \in Deployments : d = worker
  BY <1>a
<1>b. Pending(d) /\ ~NonePending
  BY <1>a DEF Pending, NonePending
<1>c. step' \notin RollingSteps /\ step' # "retired" /\ step' # "waiting"
  BY <1>a, StepSets DEF RollingSteps, FailSteps
<1>d. UNCHANGED <<container, late, recovery, target, restored, cleaned>>
  BY DEF Publish, recoveryVars
<1>e. FreshKept
  BY <1>c, Shapes DEF FreshKept, Fresh, Publish
<1>1. CASE UNCHANGED journal
  <2>1. Idle
    BY <1>b, <1>c, <1>d, <1>e, <1>1, HostSame, JournalsSame DEF Idle
  <2>2. SameRollout
    BY <1>c DEF SameRollout
  <2> QED BY <2>1, <2>2, IdleKeeps
<1>2. CASE step = "retired" /\ live' = d /\ journal' = [journal EXCEPT ![d].phase = "complete"]
  <2>1. Gone(PreviousRoles(d))
    BY <1>2 DEF HostInv, CommittedFor
  <2>2. live # None => PreviousRoles(d) = RoleContainers(live)
    BY <1>a, Shapes DEF PreviousRoles, JournalInv, RowKnows
  <2>3. /\ \A c \in AllRoles : ~Starting(c)
        /\ \A c \in Candidates(d) : Intact(c)
    BY <1>a, <2>1, <2>2, AdvancedServes
  <2> QED BY <1>a, <1>b, <1>c, <1>d, <1>e, <1>2, <2>3, CloseHost
<1> QED BY <1>1, <1>2 DEF Publish, SetPhase
-----------------------------------------------------------------------------
(* Recovery. *)

LEMMA RecoveringFacts ==
  ASSUME TypeInv, JournalInv, recovery # "none"
  PROVE  /\ target \in Deployments
         /\ step \in {"none", "waiting", "recovering"} /\ step \notin RollingSteps
         /\ EndRecovery \/ AbandonRecovery \/ UNCHANGED <<recoveryVars, workerVars>> =>
              /\ step' \notin RollingSteps /\ step' # "retired"
              /\ worker' = worker /\ (step' = "waiting" => step = "waiting")
<1>1. target \in Deployments /\ step \in {"none", "waiting", "recovering"}
  BY DEF JournalInv, RecoveryKnows
<1>2. {"none", "waiting", "recovering", "done"} \cap RollingSteps = {}
  BY StepSets DEF RollingSteps, FailSteps
<1>3. EndRecovery \/ AbandonRecovery \/ UNCHANGED <<recoveryVars, workerVars>> =>
        /\ step' \in {"none", "waiting", "recovering", "done"}
        /\ worker' = worker /\ (step' = "waiting" => step = "waiting")
  BY <1>1 DEF EndRecovery, AbandonRecovery, workerVars
<1> QED BY <1>1, <1>2, <1>3

LEMMA CompleteAdvanceHost ==
  ASSUME TypeInv, JournalInv, HostInv, CompleteAdvance
  PROVE  HostInv'
<1>a. /\ recovery = "finishing" /\ target \in Deployments /\ journal[target].phase = "committing"
      /\ live = target /\ ~PreviousMissing(target)
  BY DEF CompleteAdvance, JournalInv, RecoveryKnows
<1> PICK d \in Deployments : d = target
  BY <1>a
<1>b. Pending(d) /\ PendingKnows(d)
  BY <1>a DEF Pending, JournalInv
<1>c. /\ journal' = [journal EXCEPT ![d].phase = "complete"]
      /\ UNCHANGED <<row, live, container, late, cleaned>> /\ EndRecovery
      /\ Gone(ToRetire(d))
  BY DEF CompleteAdvance, SetPhase, hostVars
<1>d. step' \notin RollingSteps /\ step' # "retired" /\ worker' = worker /\ (step' = "waiting" => step = "waiting")
  BY <1>a, <1>c, RecoveringFacts
<1>e. FreshKept /\ recovery' # "undoing"
  BY <1>c, <1>d DEF FreshKept, Fresh, EndRecovery
<1>1. journal[d].previous # None => PreviousRoles(d) = RoleContainers(journal[d].previous)
  BY <1>a, <1>b DEF PendingKnows, PreviousMissing, PreviousRoles
<1>2. Gone(PreviousRoles(d))
  BY <1>c DEF Gone, ToRetire
<1>3. /\ \A c \in AllRoles : ~Starting(c)
      /\ \A c \in Candidates(d) : Intact(c)
  BY <1>a, <1>1, <1>2, AdvancedServes
<1> QED BY <1>a, <1>b, <1>c, <1>d, <1>e, <1>3, CloseHost

LEMMA CompleteUndoHost ==
  ASSUME TypeInv, JournalInv, HostInv, CompleteUndo
  PROVE  HostInv'
<1>a. /\ recovery = "undoing" /\ target \in Deployments /\ journal[target].phase = "preparing"
      /\ ~PreviousMissing(target)
  BY DEF CompleteUndo, JournalInv, RecoveryKnows
<1> PICK d \in Deployments : d = target
  BY <1>a
<1> DEFINE p == journal[d].previous
<1>b. Pending(d) /\ PendingKnows(d) /\ OthersFor(d) /\ PreviousFor(d) /\ BroughtBack
  BY <1>a DEF Pending, JournalInv, HostInv
<1>c. /\ journal' = [journal EXCEPT ![d].phase = "complete"]
      /\ row' = [row EXCEPT ![d].roles = {}]
      /\ UNCHANGED <<live, container, late, cleaned>> /\ EndRecovery
      /\ Gone(Candidates(d)) /\ ToRestore(d) \subseteq restored
  BY DEF CompleteUndo, SetPhase, hostVars, MayRestore
<1>d. step' \notin RollingSteps /\ step' # "retired" /\ worker' = worker /\ (step' = "waiting" => step = "waiting")
  BY <1>a, <1>c, RecoveringFacts
<1>e. FreshKept /\ recovery' # "undoing"
  BY <1>c, <1>d, Shapes DEF FreshKept, Fresh, EndRecovery
<1>f. live = p /\ p \in Deployments \cup {None}
  BY <1>a, <1>b, Shapes DEF PendingKnows
<1>g. p # None => \A c \in Touched(d) : Steady(c)
  BY <1>a, <1>b, <1>c, <1>f DEF Touched, ToRestore, BroughtBack
<1>1. ASSUME NEW c \in AllRoles, Starting(c) PROVE FALSE
  <2>1. c[1] \in {d, p} /\ c[1] \in Deployments /\ c \in RoleContainers(c[1])
    BY <1>b, <1>1, ContainerFacts DEF OthersFor, Alive
  <2>2. CASE c[1] = d
    BY <1>c, <1>1, <2>1, <2>2, ContainerFacts DEF Gone, Starting
  <2>3. CASE c[1] = p
    <3>1. p # None /\ c \in RoleContainers(p)
      BY <2>1, <2>3, DeploymentsAssumption
    <3>2. c \in journal[d].stopped
      BY <1>a, <1>b, <1>1, <3>1 DEF PreviousFor
    <3>3. Steady(c)
      BY <1>g, <3>1, <3>2 DEF Touched
    <3> QED BY <1>1, <3>3 DEF Steady, Starting
  <2> QED BY <2>1, <2>2, <2>3
<1>2. live # None /\ live \notin cleaned => \A c \in Candidates(live) : Intact(c)
  BY <1>a, <1>b, <1>f, <1>g DEF PreviousFor, Steady, Intact
<1> QED BY <1>b, <1>c, <1>d, <1>e, <1>1, <1>2, CloseHost

LEMMA CleanUpHost ==
  ASSUME TypeInv, JournalInv, HostInv, CleanUp
  PROVE  HostInv'
<1>a. /\ recovery = "cleaning" /\ target \in Deployments /\ ~Pending(target) /\ target # worker
      /\ row[target].status # "none" /\ step \notin RollingSteps
      /\ step # "retired"
  BY RecoveringFacts DEF CleanUp, JournalInv, RecoveryKnows
<1> PICK t \in Deployments : t = target
  BY <1>a
<1> DEFINE asked == row[t].roles \cup {Web(t)}
<1>b. PICK lost \in SUBSET asked : Ask("destroy", asked, lost)
  BY DEF CleanUp
<1>c. cleaned' = cleaned \cup {t} /\ UNCHANGED <<row, live, journal, worker, step, started, retained, recovery>>
  BY DEF CleanUp, workerVars, recoveryVars
<1>d. \A c \in asked : c[1] = t
  BY ContainerFacts DEF JournalInv, RowKnows
<1> HIDE DEF asked
<1>e. \A c \in Containers : (Alive(c)' => Alive(c)) /\ (Starting(c)' => Starting(c))
  BY <1>b, LowerEffect
<1>f. \A c \in Containers : c[1] # t => container'[c] = container[c] /\ late'[c] = late[c]
  BY <1>b, <1>d, AskEffect
<1>g. /\ \A e \in Deployments : \A c \in Candidates(e) : c[1] = e /\ c \in Containers
      /\ \A e \in Deployments : RoleContainers(e) \subseteq Candidates(e)
      /\ AllRoles \subseteq Containers
  BY ContainerFacts
<1>1. ASSUME NEW e \in Deployments PROVE CommittedFor(e)'
  <2>1. journal[e].phase = "committing" => e # t
    BY <1>a DEF Pending
  <2> QED BY <1>a, <1>c, <1>f, <1>g, <2>1 DEF HostInv, CommittedFor, Steady, Running
<1>2. ASSUME NEW e \in Deployments PROVE PreviousFor(e)'
  <2> DEFINE p == journal[e].previous
  <2>1. SUFFICES ASSUME Open(e), p # None PROVE PreviousFor(e)'
    BY <1>c DEF PreviousFor, Open
  <2>2. PreviousFor(e) /\ p \in Deployments
    BY <2>1, Shapes DEF HostInv
  <2>3. p \notin cleaned' => \A c \in Candidates(p) :
          container'[c] # "none" /\ "destroy" \notin late'[c] /\ (Intact(c)' \/ c \in Touched(e)')
    <3>1. Touched(e)' = Touched(e)
      BY <1>c DEF Touched, PreviousWeb
    <3> QED BY <1>c, <1>f, <1>g, <2>1, <2>2, <3>1 DEF PreviousFor, Open, Intact, Running
  <2>4. \A c \in RoleContainers(p) \ journal'[e].stopped : ~Starting(c)'
    BY <1>c, <1>e, <1>g, <2>1, <2>2 DEF PreviousFor, Open
  <2> QED BY <1>c, <2>3, <2>4 DEF PreviousFor
<1>3. ASSUME NEW e \in Deployments PROVE OthersFor(e)'
  BY <1>c, <1>e, <1>g, <1>3 DEF HostInv, OthersFor, Pending
<1>4. ASSUME NEW e \in Deployments PROVE FreshFor(e)'
  BY <1>a, <1>c, <1>f, <1>g, <1>4 DEF HostInv, FreshFor, Untouched
<1>5. Alone'
  BY <1>e, <1>g, AloneKeeps DEF HostInv
<1>6. Settled'
  <2>1. SUFFICES ASSUME NonePending PROVE Settled'
    BY <1>c DEF Settled, NonePending, Pending
  <2>2. \A c \in AllRoles : ~Starting(c)'
    BY <1>e, <1>g, <2>1 DEF HostInv, Settled
  <2>3. live # None /\ live \notin cleaned' => \A c \in Candidates(live) : Intact(c)'
    <3>1. live # None => live \in Deployments
      BY DEF TypeInv, TypeOK
    <3> QED BY <1>c, <1>f, <1>g, <2>1, <3>1 DEF HostInv, Settled, Intact, Running
  <2> QED BY <1>c, <2>2, <2>3 DEF Settled
<1>7. \A e \in Deployments : RolloutFor(e)' /\ StoppedFor(e)' /\ FailureFor(e)' /\ RetainedFor(e)'
  BY <1>a, <1>c DEF RolloutFor, StoppedFor, FailureFor, RetainedFor, RollingSteps
<1> QED BY <1>a, <1>c, <1>1, <1>2, <1>3, <1>4, <1>5, <1>6, <1>7 DEF HostInv, BroughtBack
(* A step of an undo keeps what it has not touched.                        *)
LEMMA UndoHost ==
  ASSUME TypeInv, JournalInv, HostInv, NEW d \in Deployments, d = target, recovery = "undoing",
         UNCHANGED <<row, live, journal, cleaned>>,
         step' \notin RollingSteps, step' # "retired", worker' = worker,
         step' = "waiting" => step = "waiting",
         Spares(d), Alone', BroughtBack'
  PROVE  HostInv'
<1>1. Open(d)
  BY DEF Open, JournalInv, RecoveryKnows
<1>2. Grows(d)
  BY <1>1 DEF Grows, Open, Pending, FreshKept, Fresh
<1>3. /\ \A e \in Deployments : CommittedFor(e)' /\ PreviousFor(e)' /\ OthersFor(e)' /\ FreshFor(e)'
      /\ Settled'
  BY <1>1, <1>2, OpenHost DEF HostInv, ReleasesInv
<1>4. \A e \in Deployments : RolloutFor(e)' /\ StoppedFor(e)' /\ FailureFor(e)' /\ RetainedFor(e)'
  BY DEF RolloutFor, StoppedFor, FailureFor, RetainedFor, RollingSteps
<1> QED BY <1>3, <1>4 DEF HostInv

LEMMA UndoFacts ==
  ASSUME TypeInv, JournalInv, HostInv, recovery = "undoing", NEW d \in Deployments, d = target
  PROVE  LET p == journal[d].previous IN
         /\ journal[d].phase = "preparing" /\ Pending(d)
         /\ p \in Deployments \cup {None} /\ p # d
         /\ \A c \in Touched(d) : c[1] = p /\ c \in Containers /\ p # None
         /\ Touched(d) \cap AllRoles \subseteq journal[d].stopped
         /\ restored \subseteq Touched(d) /\ \A c \in restored : Steady(c)
<1> DEFINE p == journal[d].previous
<1>1. journal[d].phase = "preparing" /\ Pending(d)
  BY DEF JournalInv, RecoveryKnows, Pending
<1>2. /\ p \in Deployments \cup {None} /\ p # d
      /\ p = None => journal[d].stopped = {}
      /\ p # None => journal[d].stopped \subseteq RoleContainers(p)
  BY <1>1, PreviousFacts
<1>3. \A c \in Touched(d) : c \in journal[d].stopped \/ (c = Web(p) /\ p # None)
  BY DEF Touched, PreviousWeb
<1>4. p # None => /\ Web(p)[1] = p /\ Web(p) \in Containers /\ Web(p) \notin AllRoles
                  /\ \A c \in RoleContainers(p) : c[1] = p /\ c \in Containers
  BY <1>2, ContainerFacts
<1> QED BY <1>1, <1>2, <1>3, <1>4 DEF HostInv, BroughtBack

LEMMA RemoveCandidateHost ==
  ASSUME TypeInv, JournalInv, HostInv, NEW c \in Containers, RemoveCandidate(c)
  PROVE  HostInv'
<1>a. recovery = "undoing" /\ target \in Deployments
  BY RecoveringFacts DEF RemoveCandidate
<1> PICK d \in Deployments : d = target
  BY <1>a
<1>b. PICK lost \in SUBSET {c} :
        /\ Ask("destroy", {c}, lost)
        /\ UNCHANGED <<recoveryVars, workerVars>> \/ AbandonRecovery
  BY DEF RemoveCandidate
<1>c. UNCHANGED <<row, live, journal, cleaned>> /\ c[1] = d
  BY ContainerFacts DEF RemoveCandidate
<1>d. step' \notin RollingSteps /\ step' # "retired" /\ worker' = worker /\ (step' = "waiting" => step = "waiting")
  BY <1>a, <1>b, RecoveringFacts
<1>1. Spares(d)
  BY <1>a, <1>b, <1>c, AskEffect, UndoFacts, OwnSpares
<1>2. \A x \in Containers : Alive(x)' => Alive(x)
  BY <1>b, LowerEffect
<1>3. Alone'
  BY <1>2, AloneKeeps, ContainerFacts DEF HostInv
<1>4. BroughtBack'
  <2>1. SUFFICES ASSUME recovery' = "undoing" PROVE BroughtBack'
    BY DEF BroughtBack
  <2>2. UNCHANGED <<target, restored>>
    BY <1>b, <2>1 DEF recoveryVars, AbandonRecovery
  <2>3. Touched(d)' = Touched(d)
    BY <1>c DEF Touched, PreviousWeb
  <2>4. \A x \in restored : Steady(x)'
    BY <1>a, <1>b, <1>c, UndoFacts, AskEffect DEF Steady, Running
  <2>5. restored \subseteq Touched(d)
    BY <1>a, UndoFacts
  <2> QED BY <2>2, <2>3, <2>4, <2>5 DEF BroughtBack
<1> QED BY <1>a, <1>c, <1>d, <1>1, <1>3, <1>4, UndoHost

LEMMA RestorePreviousHost ==
  ASSUME TypeInv, JournalInv, HostInv, NEW o \in Containers, RestorePrevious(o)
  PROVE  HostInv'
<1>a. recovery = "undoing" /\ target \in Deployments
  BY RecoveringFacts DEF RestorePrevious
<1> PICK d \in Deployments : d = target
  BY <1>a
<1> DEFINE p == journal[d].previous
<1>b. \/ /\ Ask("start", {o}, {}) /\ restored' = restored \cup {o}
         /\ UNCHANGED <<recovery, target, discarding, workerVars>>
      \/ /\ \E request \in {"stop", "start"} : Ask(request, {o}, {o})
         /\ AbandonRecovery
  BY DEF RestorePrevious
<1>c. /\ UNCHANGED <<row, live, journal, cleaned>>
      /\ o \in Touched(d) /\ Gone(Candidates(d)) /\ container[o] # "none"
  BY DEF RestorePrevious, ToRestore, Touched, MayRestore
<1>d. step' \notin RollingSteps /\ step' # "retired" /\ worker' = worker /\ (step' = "waiting" => step = "waiting")
  BY <1>a, <1>b, RecoveringFacts DEF workerVars
<1>e. /\ Pending(d) /\ o[1] = p /\ p # None /\ p \in Deployments /\ p # d
      /\ {o} \cap AllRoles \subseteq journal[d].stopped
      /\ restored \subseteq Touched(d) /\ \A c \in restored : Steady(c)
  BY <1>a, <1>c, UndoFacts
<1>f. \A c \in Containers \ {o} : container'[c] = container[c] /\ late'[c] = late[c]
  BY <1>b, AskEffect
<1>g. Touched(d)' = Touched(d)
  BY <1>c DEF Touched, PreviousWeb
<1>1. Spares(d)
  <2>1. ASSUME NEW lost, Ask("start", {o}, lost) PROVE Spares(d)
    BY <1>c, <1>e, <2>1, StartSpares
  <2>2. ASSUME NEW lost, Ask("stop", {o}, lost) PROVE Spares(d)
    BY <1>c, <1>e, <1>g, <2>2, StopSpares
  <2> QED BY <1>b, <2>1, <2>2
<1>2. Alone'
  <2>1. \A x \in AllRoles : Alive(x) => x[1] = p
    <3>1. \A x \in AllRoles : Alive(x) => x[1] \in {d, p}
      BY <1>e DEF HostInv, OthersFor
    <3>2. \A x \in AllRoles : x[1] = d => container[x] = "none"
      BY <1>c, ContainerFacts DEF Gone
    <3> QED BY <3>1, <3>2 DEF Alive, Running, Starting
  <2>2. \A x \in AllRoles : Alive(x)' => x[1] = p
    BY <1>e, <1>f, <2>1, ContainerFacts DEF Alive, Running, Starting
  <2>3. p \in Nat
    BY <1>e, Shapes
  <2> QED BY <2>2, <2>3 DEF Alone
<1>3. BroughtBack'
  <2>1. SUFFICES ASSUME recovery' = "undoing" PROVE BroughtBack'
    BY DEF BroughtBack
  <2>2. Ask("start", {o}, {}) /\ restored' = restored \cup {o} /\ target' = target
    BY <1>b, <2>1 DEF AbandonRecovery
  <2>3. Steady(o)'
    BY <1>c, <2>2, StartEffect
  <2>4. \A x \in restored \ {o} : Steady(x)'
    BY <1>e, <1>f, RecoveringFacts DEF Steady, Running, TypeInv, TypeOK
  <2> QED BY <1>c, <1>e, <1>g, <2>2, <2>3, <2>4 DEF BroughtBack
<1> QED BY <1>a, <1>c, <1>d, <1>1, <1>2, <1>3, UndoHost
LEMMA HostStep ==
  ASSUME TypeInv, JournalInv, HostInv, [Next]_vars
  PROVE  HostInv'
<1>1. ASSUME NEW d \in Deployments, User(d) \/ SweepRecovers(d) PROVE HostInv'
  BY <1>1, UserIdle, IdleKeeps
<1>2. ASSUME Crash \/ UNCHANGED vars \/ (\E c \in Containers : LateEffect(c)) PROVE HostInv'
  BY <1>2, OtherIdle, IdleKeeps
<1>3. ASSUME WorkerStep \/ WorkerFails \/ Signal PROVE HostInv'
  <2>1. ASSUME \/ Signal \/ RefuseHandover \/ SeeCancellation \/ CancelWeb \/ CommitRefused
               \/ KeepContainers \/ WorkerRecovers \/ EndWorker \/ FailCheck \/ FailHealth \/ FailPublish
        PROVE  HostInv'
    BY <2>1, WorkerIdle, IdleKeeps
  <2>2. ASSUME NEW c \in AllRoles, Rollout(c) \/ LoseCreate(c) PROVE HostInv'
    BY <2>2, CreateHost, LoseCreateHost, StartHost, StopHost DEF Rollout
  <2>3. ASSUME \/ EndStage \/ OverlapPreviousWeb \/ PassWeb
               \/ StopPreviousWeb \/ ActivateWeb \/ LoseActivation
        PROVE  HostInv'
    BY <2>3, ForwardHost, StopPreviousWebHost, ActivateHost
  <2>4. ASSUME StopActivated \/ RevertWeb \/ Unwind \/ RestartRetained \/ SettleFailure PROVE HostInv'
    BY <2>4, StopActivatedHost, RevertHost, UnwindHost, RestartHost, SettleHost
  <2>5. ASSUME BeginHandover \/ Commit \/ RetirePrevious \/ Publish PROVE HostInv'
    BY <2>5, BeginHost, CommitHost, RetirePreviousHost, PublishHost
  <2> QED BY <1>3, <2>1, <2>2, <2>3, <2>4, <2>5 DEF WorkerStep, WorkerFails
<1>4. ASSUME RecoveryStep PROVE HostInv'
  <2>1. ASSUME NEW c \in Containers, RemoveCandidate(c) \/ RestorePrevious(c) \/ RemovePrevious(c)
        PROVE  HostInv'
    BY <2>1, RemoveCandidateHost, RestorePreviousHost, RemovePreviousHost
  <2>2. ASSUME PreviousContainerMissing \/ AdvanceRelease \/ DropRow PROVE HostInv'
    BY <2>2, RecoveryIdle, IdleKeeps
  <2>3. ASSUME CompleteUndo \/ CompleteAdvance \/ CleanUp PROVE HostInv'
    BY <2>3, CompleteUndoHost, CompleteAdvanceHost, CleanUpHost
  <2> QED BY <1>4, <2>1, <2>2, <2>3 DEF RecoveryStep
<1> QED BY <1>1, <1>2, <1>3, <1>4 DEF Next

LEMMA HostInit ==
  ASSUME Init
  PROVE  HostInv
<1>1. /\ \A c \in Containers : container[c] = (IF c[1] = Serving THEN "running" ELSE "none") /\ late[c] = {}
      /\ \A d \in Deployments : journal[d].phase = "none" /\ ~Pending(d)
      /\ step = "none" /\ worker = None /\ live = Serving /\ recovery = "none" /\ Serving \in Deployments
      /\ row[Serving].status = "ready"
  BY DeploymentsAssumption DEF Init, NoJournal, Pending
<1>2. /\ \A e \in Deployments : \A c \in Candidates(e) : c[1] = e /\ c \in Containers
      /\ AllRoles \subseteq Containers
  BY ContainerFacts
<1>3. ASSUME NEW d \in Deployments
      PROVE  /\ RolloutFor(d) /\ StoppedFor(d) /\ FailureFor(d) /\ RetainedFor(d)
             /\ CommittedFor(d) /\ PreviousFor(d) /\ OthersFor(d)
  BY <1>1, StepSets DEF RolloutFor, StoppedFor, FailureFor, RetainedFor, CommittedFor, PreviousFor,
     OthersFor, FailSteps
<1>4. ASSUME NEW d \in Deployments PROVE FreshFor(d)
  BY <1>1, <1>2 DEF FreshFor, Untouched
<1>5. \A c \in AllRoles : Alive(c) => c[1] = Serving
  BY <1>1, <1>2 DEF Alive, Running, Starting
<1>6. Alone
  BY <1>1, <1>5, DeploymentsAssumption DEF Alone
<1>7. Settled /\ BroughtBack
  BY <1>1, <1>2 DEF Settled, BroughtBack, Starting, Intact, Running
<1> QED BY <1>3, <1>4, <1>6, <1>7 DEF HostInv

HandoverInv == TypeInv /\ JournalInv /\ HostInv

LEMMA HandoverInvHolds == Spec => []HandoverInv
<1>1. Init => HandoverInv
  BY TypeInit, JournalInit, HostInit DEF HandoverInv
<1>2. HandoverInv /\ [Next]_vars => HandoverInv'
  BY TypeStep, JournalStep, HostStep DEF HandoverInv
<1> QED BY <1>1, <1>2, PTL DEF Spec

-----------------------------------------------------------------------------
(* What it comes to. *)

(* A new and an old scheduler never run together: the command of an old    *)
(* singleton runs in no container of a newer release, however many         *)
(* releases there are, whatever they declare and whatever fails, is        *)
(* cancelled, kept, recovered or deleted in between (rolloutRoles,         *)
(* recoverHandover, assertRoleInventorySettled).                           *)
THEOREM SchedulersStayAlone == Spec => []SingletonAlone
<1>1. HandoverInv => SingletonAlone
  BY DEF HandoverInv, HostInv, Alone, Alive, SingletonAlone
<1> QED BY <1>1, HandoverInvHolds, PTL

(* Until the commit intent is written the way back stays open: no          *)
(* container of the previous release is gone or on its way out             *)
(* (roleHandoverEnvironment, commit of rolloutRoles).                      *)
THEOREM WayBackStaysOpen == Spec => []PreviousRestorable
<1>1. ASSUME HandoverInv PROVE PreviousRestorable
  <2> USE <1>1 DEF HandoverInv
  <2>1. SUFFICES ASSUME NEW d \in Deployments, journal[d].phase \in {"preparing", "kept"},
                        journal[d].previous # None, journal[d].previous \notin cleaned,
                        NEW c \in PreviousRoles(d) \cup PreviousWeb(d)
                 PROVE  container[c] # "none" /\ "destroy" \notin late[c]
    BY DEF PreviousRestorable
  <2>2. journal[d].previous \in Deployments
    BY <2>1, Shapes
  <2>3. c \in Candidates(journal[d].previous)
    BY <2>1, <2>2, ContainerFacts DEF PreviousRoles, PreviousWeb, JournalInv, RowKnows
  <2> QED BY <2>1, <2>3 DEF HostInv, PreviousFor
<1> QED BY <1>1, HandoverInvHolds, PTL

(* Once no journal is open the live release runs in full: no failure path, *)
(* crash or late request leaves a scheduler down that nobody will start    *)
(* again (recoverHandover).                                                *)
THEOREM SettledReleaseServes == Spec => []SettledServes
<1>1. ASSUME HandoverInv PROVE SettledServes
  <2> USE <1>1 DEF HandoverInv
  <2>1. SUFFICES ASSUME NonePending, live # None, live \notin cleaned,
                        NEW c \in row[live].roles \cup {Web(live)}
                 PROVE  Running(c)
    BY DEF SettledServes, NonePending
  <2>2. live \in Deployments /\ row[live].roles = RoleContainers(live)
    BY <2>1 DEF TypeInv, TypeOK, JournalInv, RowKnows
  <2>3. c \in Candidates(live)
    BY <2>1, <2>2, ContainerFacts
  <2> QED BY <2>1, <2>3 DEF HostInv, Settled, Intact
<1> QED BY <1>1, HandoverInvHolds, PTL

(* A release past its commit, or kept, is nobody's to roll back.           *)
LEMMA HeldContainers ==
  ASSUME HandoverInv, [Next]_vars, NEW d \in Deployments, Held(d), NEW c \in Candidates(d)
  PROVE  container'[c] = container[c] \/ late[c] # {}
<1> USE DEF HandoverInv
<1>a. Pending(d) /\ ~(journal[d].phase = "preparing") /\ c[1] = d /\ c \in Containers
  BY ContainerFacts DEF Held, Pending
<1>b. \A e \in Deployments : Pending(e) => e = d
  BY <1>a, PreviousFacts
<1>c. step \notin RollingSteps
  BY <1>a, <1>b, RollingFacts
<1>d. c \notin PreviousRoles(d) \cup PreviousWeb(d)
  <2>1. SUFFICES ASSUME c \in PreviousRoles(d) \cup PreviousWeb(d) PROVE FALSE
    OBVIOUS
  <2>2. journal[d].previous \in Deployments /\ journal[d].previous # d
    BY <1>a, <2>1, PreviousFacts DEF PreviousRoles, PreviousWeb
  <2>3. row[journal[d].previous].roles \subseteq RoleContainers(journal[d].previous)
    BY <2>2 DEF JournalInv, RowKnows
  <2>4. c \in Candidates(journal[d].previous)
    BY <2>1, <2>2, <2>3, ContainerFacts DEF PreviousRoles, PreviousWeb
  <2>5. c[1] = journal[d].previous
    BY <2>2, <2>4, ContainerFacts
  <2> QED BY <1>a, <2>2, <2>5
<1>1. ASSUME UNCHANGED container PROVE container'[c] = container[c]
  BY <1>1
<1>2. ASSUME NEW e \in Containers, LateEffect(e) PROVE container'[c] = container[c] \/ late[c] # {}
  BY <1>a, <1>2, LateIsTame DEF Tame
<1>3. ASSUME WorkerStep \/ WorkerFails PROVE container'[c] = container[c]
  <2>1. CASE RetirePrevious
    <3>1. worker = d /\ live = journal[d].previous
      BY <1>b, <2>1 DEF RetirePrevious, TypeInv, Named, JournalInv, WorkerKnows, CommitSteps, Pending
    <3>2. PICK asked, lost :
            /\ asked \subseteq PreviousRoles(d) \cup PreviousWeb(d)
            /\ Ask("destroy", asked, lost)
      <4>1. PreviousRoles(d) \cup (IF d \in Overlapping THEN PreviousWeb(d) ELSE PreviousWeb(d) \cap retained)
              \subseteq PreviousRoles(d) \cup PreviousWeb(d)
        OBVIOUS
      <4> QED BY <2>1, <3>1, <4>1 DEF RetirePrevious
    <3> QED BY <1>a, <1>d, <3>2, AskEffect
  <2>2. CASE ~RetirePrevious
    <3>1. step \notin InStage \cup {"web", "activating", "checking"} \cup FailSteps
      BY <1>c DEF RollingSteps, RolloutSteps
    <3>2. \A x \in AllRoles : ~Rollout(x) /\ ~LoseCreate(x)
      BY <3>1 DEF Rollout, CreateReplica, StartReplica, StopPrevious, LoseCreate, Rolling
    <3>3. /\ ~StopPreviousWeb /\ ~ActivateWeb /\ ~LoseActivation
          /\ ~StopActivated /\ ~RevertWeb /\ ~Unwind /\ ~RestartRetained /\ ~SettleFailure
      BY <3>1 DEF FailSteps, StopPreviousWeb, ActivateWeb, LoseActivation,
         StopActivated, RevertWeb, Unwind, RestartRetained, SettleFailure
    <3>4. UNCHANGED container
      BY <1>3, <2>2, <3>2, <3>3 DEF WorkerStep, WorkerFails, BeginHandover, RefuseHandover, EndStage,
         SeeCancellation, OverlapPreviousWeb, PassWeb, CancelWeb, Commit, CommitRefused, Publish,
         KeepContainers, WorkerRecovers, EnterRecovery, EndWorker, FailCheck, FailHealth, FailPublish,
         hostVars
    <3> QED BY <3>4
  <2> QED BY <2>1, <2>2
<1>4. ASSUME RecoveryStep PROVE container'[c] = container[c]
  <2>0. recovery # "undoing"
    BY <1>a, <1>b DEF JournalInv, RecoveryKnows, Pending
  <2>1. ASSUME NEW o \in Containers, RemovePrevious(o) PROVE container'[c] = container[c]
    <3>1. target = d
      BY <1>b, <2>1 DEF RemovePrevious, JournalInv, RecoveryKnows, Pending
    <3>2. PICK lost : Ask("destroy", {o}, lost)
      BY <2>1 DEF RemovePrevious
    <3>3. c # o
      <4>1. o \in PreviousRoles(d) \cup PreviousWeb(d)
        BY <2>1, <3>1 DEF RemovePrevious, ToRetire
      <4> QED BY <1>d, <4>1
    <3> QED BY <1>a, <3>2, <3>3, AskEffect
  <2>2. ASSUME CleanUp PROVE container'[c] = container[c]
    <3>1. target # d /\ target \in Deployments
      BY <1>a, <2>2 DEF CleanUp, JournalInv, RecoveryKnows
    <3>2. PICK lost : Ask("destroy", row[target].roles \cup {Web(target)}, lost)
      BY <2>2 DEF CleanUp
    <3>3. c \notin row[target].roles \cup {Web(target)}
      BY <1>a, <3>1, ContainerFacts DEF JournalInv, RowKnows
    <3> QED BY <1>a, <3>2, <3>3, AskEffect
  <2>3. ASSUME \/ PreviousContainerMissing \/ CompleteUndo \/ AdvanceRelease \/ CompleteAdvance \/ DropRow
        PROVE  UNCHANGED container
    BY <2>3 DEF PreviousContainerMissing, CompleteUndo, AdvanceRelease, CompleteAdvance, DropRow, hostVars
  <2>4. \A o \in Containers : ~RemoveCandidate(o) /\ ~RestorePrevious(o)
    BY <2>0 DEF RemoveCandidate, RestorePrevious
  <2> QED BY <1>4, <2>1, <2>2, <2>3, <2>4 DEF RecoveryStep
<1>5. ASSUME NEW e \in Deployments, User(e) \/ SweepRecovers(e) PROVE UNCHANGED container
  BY <1>5 DEF User, Deploy, Cancel, DiscardPending, DeleteSettled, SweepRecovers, EnterRecovery, hostVars
<1>6. Signal \/ Crash \/ UNCHANGED vars => UNCHANGED container
  BY DEF Signal, Crash, vars, hostVars
<1> QED BY <1>1, <1>2, <1>3, <1>4, <1>5, <1>6 DEF Next

(* Nor can it be cancelled.                                                *)
LEMMA CommittedNotCancelled ==
  ASSUME HandoverInv, HandoverInv', [Next]_vars, NEW d \in Deployments, journal[d].phase = "committing"
  PROVE  row'[d].status # "cancelled"
<1> USE DEF HandoverInv
<1>a. row[d].status # "cancelled" /\ ~Cancellable(d)
  BY DEF JournalInv, PendingKnows, Pending, Cancellable
<1>1. ASSUME row' = row PROVE row'[d].status # "cancelled"
  BY <1>a, <1>1
<1>2. ASSUME NEW e \in Deployments, User(e) \/ SweepRecovers(e) PROVE row'[d].status # "cancelled"
  BY <1>2, <1>a, Shapes DEF User, Deploy, Cancel, DiscardPending, DeleteSettled, SweepRecovers, EnterRecovery
<1>3. ASSUME Crash PROVE row'[d].status # "cancelled"
  BY <1>3, <1>a DEF Crash
<1>4. ASSUME WorkerStep \/ WorkerFails PROVE row'[d].status # "cancelled"
  <2>1. ASSUME NEW c \in AllRoles, Rollout(c) \/ LoseCreate(c) PROVE row'[d].status # "cancelled"
    BY <2>1, <1>a, RollingStands DEF Stand
  <2>2. ASSUME \/ EndStage \/ SeeCancellation \/ FailCheck
               \/ StopPreviousWeb \/ OverlapPreviousWeb \/ ActivateWeb \/ LoseActivation \/ PassWeb
               \/ CancelWeb \/ FailHealth
        PROVE  row'[d].status # "cancelled"
    BY <2>2, <1>a, WebStands DEF Stand
  <2>3. ASSUME \/ CommitRefused \/ RetirePrevious \/ FailPublish
               \/ StopActivated \/ RevertWeb \/ Unwind \/ RestartRetained
        PROVE  row'[d].status # "cancelled"
    BY <2>3, <1>a, EndStands DEF Stand
  <2>4. ASSUME RefuseHandover \/ Publish \/ SettleFailure \/ EndWorker PROVE row'[d].status # "cancelled"
    BY <2>4, <1>a, Shapes DEF RefuseHandover, Publish, SettleFailure, EndWorker
  <2>5. ASSUME BeginHandover \/ Commit \/ KeepContainers \/ WorkerRecovers PROVE row' = row
    BY <2>5 DEF BeginHandover, Commit, KeepContainers, WorkerRecovers, EnterRecovery
  <2> QED BY <1>1, <1>4, <2>1, <2>2, <2>3, <2>4, <2>5 DEF WorkerStep, WorkerFails
<1>5. ASSUME RecoveryStep PROVE row'[d].status # "cancelled"
  <2>1. ASSUME NEW c \in Containers, RemoveCandidate(c) \/ RestorePrevious(c) \/ RemovePrevious(c)
        PROVE  row' = row
    BY <2>1 DEF RemoveCandidate, RestorePrevious, RemovePrevious
  <2>2. ASSUME PreviousContainerMissing \/ CompleteAdvance \/ CleanUp PROVE row' = row
    BY <2>2 DEF PreviousContainerMissing, CompleteAdvance, CleanUp
  <2>3. ASSUME CompleteUndo PROVE row'[d].status # "cancelled"
    BY <2>3, <1>a, Shapes DEF CompleteUndo
  <2>4. ASSUME AdvanceRelease PROVE row'[d].status # "cancelled"
    BY <2>4, <1>a, Shapes DEF AdvanceRelease
  <2>5. ASSUME DropRow PROVE row'[d].status # "cancelled"
    BY <2>5, <1>a, Shapes DEF DropRow
  <2> QED BY <1>1, <1>5, <2>1, <2>2, <2>3, <2>4, <2>5 DEF RecoveryStep
<1>6. Signal \/ UNCHANGED vars \/ (\E c \in Containers : LateEffect(c)) => row' = row
  BY DEF Signal, vars, LateEffect
<1> QED BY <1>1, <1>2, <1>3, <1>4, <1>5, <1>6 DEF Next

(* A release past its commit intent, or kept by its cancellation, loses no *)
(* container to the failure paths and recoveries around it, and no         *)
(* cancellation takes it back (protectRoleHandoverOutcome,                 *)
(* recoverHandover).                                                       *)
THEOREM HeldReleaseStandsAlways == Spec => HeldReleaseStands
<1>1. ASSUME HandoverInv, HandoverInv', [Next]_vars
      PROVE  \A d \in Deployments :
               /\ Held(d) /\ journal'[d].phase = journal[d].phase
                    => \A c \in Candidates(d) :
                         container'[c] = container[c] \/ late[c] # {} \/ (target = d /\ discarding)
               /\ journal[d].phase = "committing" => row'[d].status # "cancelled"
  BY <1>1, HeldContainers, CommittedNotCancelled
<1>2. HandoverInv /\ HandoverInv' /\ [Next]_vars
        => [\A d \in Deployments :
               /\ Held(d) /\ journal'[d].phase = journal[d].phase
                    => \A c \in Candidates(d) :
                         container'[c] = container[c] \/ late[c] # {} \/ (target = d /\ discarding)
               /\ journal[d].phase = "committing" => row'[d].status # "cancelled"]_vars
  BY <1>1
<1> QED BY <1>2, HandoverInvHolds, PTL DEF Spec, HeldReleaseStands

=============================================================================
