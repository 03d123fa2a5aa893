------------------------- MODULE CloudBuildProperties -------------------------
(***************************************************************************)
(* What the sharing of a managed server must guarantee.                    *)
(***************************************************************************)
EXTENDS CloudBuilds

Live(b) == HoldsExecution(b)

(***************************************************************************)
(* The plan is honoured: the reservations that carry resources never       *)
(* exceed its limit of concurrent builds, whatever replicas admit, defer,  *)
(* recover and give back (admitCloudBuild).                                *)
(***************************************************************************)
PlanHonoured == Cardinality(Slots) <= Limit

(***************************************************************************)
(* The server is not overcommitted: what the active builds were promised   *)
(* fits the size the host really has, although the size may change between *)
(* a reservation and its activation (claim, decideCloudBuildResources).    *)
(***************************************************************************)
CapacityHonoured == Load(Allocated) <= host

(***************************************************************************)
(* Every command that was asked of the host, or may still be created there *)
(* after its sender died, is in the ledger of an unfinished activity, so   *)
(* that a recovery will stop it (recordCommand, CLOUD_EXEC_CANCEL).        *)
(***************************************************************************)
CommandsTracked == \A b \in Builds : command[b] # "none" => ledger[b] /\ Owned(b)

(***************************************************************************)
(* While the server is stopped, changed and started again no build has a   *)
(* command on it, not even one whose creation is still in flight           *)
(* (assertNoCloudBuildActivities).                                         *)
(***************************************************************************)
ResizeAlone ==
  operator \in {"resizing", "resized", "recorded"} =>
    \A b \in Builds : command[b] = "none"

(***************************************************************************)
(* The singleton activity that older controllers look at stands for the    *)
(* builds exactly while one of them is active (sharedBarrier, finish).     *)
(***************************************************************************)
BarrierMatches == claim = "builds" <=> Owning # {}

(***************************************************************************)
(* Whoever works on the host still owns the execution: no recovery,        *)
(* rejection or other worker takes the token of a worker that holds its    *)
(* lock or fails its row, and nobody works beside a recovery.              *)
(***************************************************************************)
OwnerUndisturbed ==
  \A b \in Builds :
    /\ Live(b) /\ worker[b] \in {"claimed", "running", "verifying"} => owner[b] = "worker"
    /\ Live(b) /\ worker[b] \in {"preparing", "locking", "claiming", "claimed", "running"} =>
         status[b] \in {"building", "cancelled"}
    /\ recovery[b] \in {"draining", "cleaning"} => owner[b] = "recovery"

(***************************************************************************)
(* A pre-deploy backup is never refused because of another build: when one *)
(* is due, no build works on the server (exclusivePreparation).            *)
(***************************************************************************)
BackupUndisturbed ==
  \A b \in Backed : Live(b) /\ worker[b] = "preparing" => Owning = {}

(***************************************************************************)
(* A deployment that says it is building has an execution lease somebody   *)
(* will close: a worker, or the sweep that lists held leases               *)
(* (listUnfinished).                                                       *)
(***************************************************************************)
BuildingIsLeased == \A b \in Builds : status[b] = "building" => lease[b] = "held"

(***************************************************************************)
(* An outcome is final: a build that was cancelled, failed or recovered    *)
(* never comes back, and never becomes a release, except by the hand of a  *)
(* worker that lost the session of its locks and does not know it          *)
(* (updateStatus, recoverManagedDeploymentExecution).                      *)
(***************************************************************************)
OutcomeFinal ==
  [][\A b \in Builds :
       status[b] \in {"ready", "failed", "cancelled"}
         => status'[b] = status[b] \/ stale[b]]_vars

(***************************************************************************)
(* A closed session never reopens and a finished activity is never         *)
(* reused: a deferral resets only what nobody has used.                    *)
(***************************************************************************)
ClosedForGood ==
  [][\A b \in Builds :
       /\ lease[b] = "closed" => lease'[b] = "closed"
       /\ owner[b] = "finished" => owner'[b] = "finished"
       /\ Owned(b) => owner'[b] # "absent"]_vars

(* Nothing of the build is left: no lease, no activity, no open outcome. *)
Over(b) == lease[b] = "closed" /\ ~InFlight(b) /\ ~Unfinished(b)

(***************************************************************************)
(* Every submitted build is eventually over, with its lease closed and its *)
(* reservation given back: the queue, deferrals, crashes and recoveries    *)
(* never leave one behind (drainCloudBuildQueue, recoverCloudBuildQueue).  *)
(***************************************************************************)
BuildsEnd == \A b \in Builds : status[b] # "draft" ~> Over(b)

-----------------------------------------------------------------------------
(* The refinement. *)

Host == INSTANCE HostAccess WITH
  Guests <- Builds,
  Family <- Project,
  inside <- Owning,
  gone <- {b \in Builds : owner[b] = "finished"},
  alone <- claim = "lifecycle",
  busy <- {b \in Builds : command[b] # "none"}

(***************************************************************************)
(* The rows, tokens, ledgers and recoveries implement the promise of       *)
(* HostAccess: one build of a project at a time, exclusive work alone, no  *)
(* command outside an activity, no second activity of a build.             *)
(***************************************************************************)
ImplementsHostAccess == Host!AccessSpec

-----------------------------------------------------------------------------
(* What a comment says, and the code does not do. *)

(***************************************************************************)
(* A deferral that is refused "means cancellation/state change won": a    *)
(* worker that goes on to acknowledge its execution instead leaves a row   *)
(* that somebody else has settled (kickoffBuildNow).                       *)
(***************************************************************************)
RefusedDeferralIsSettled ==
  [][\A b \in Builds : CannotDefer(b) => status[b] # "building"]_vars

=============================================================================
