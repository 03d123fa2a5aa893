------------------------ MODULE DeploymentProperties ------------------------
(* What DeploymentLifecycle is checked against. *)
EXTENDS DeploymentLifecycle

(* A deployment that occupies the project: unsettled, leased or executing. *)
Busy(d) == InFlight(d) \/ LeaseHeld(d) \/ Working(d)

(***************************************************************************)
(* One deployment of a project is busy at a time, a cancelled one whose   *)
(* worker is still unwinding included: the unique index, the lease check  *)
(* of create and the claim's CAS together.                                 *)
(***************************************************************************)
OneWorker == \A d, e \in Deployments : Busy(d) /\ Busy(e) => d = e

(***************************************************************************)
(* While the API serves requests, a held lease has a live worker behind   *)
(* it: a lease orphaned by a restart would block every later create and   *)
(* every deletion of the project for ever.                                 *)
(***************************************************************************)
LeaseHasWorker == Up => \A d \in Deployments : LeaseHeld(d) => Working(d)

(***************************************************************************)
(* With no database write lost, a row shows "building" or "deploying" only*)
(* while something is working on it, also after a restart.                *)
(***************************************************************************)
NoOrphans ==
  Up /\ writeFailures = 0 =>
    \A d \in Deployments : status[d] \in {"building", "deploying"} => Working(d)

(***************************************************************************)
(* Once a cancel request has reported "cancelled", nothing of that        *)
(* deployment runs again, whoever still holds its id.                      *)
(***************************************************************************)
CancelReportTrue == \A d \in reported : ~Working(d) /\ ~LeaseHeld(d)

(***************************************************************************)
(* A cancellation is never overwritten by a late outcome of the worker, a *)
(* reconcile or a decision: the row leaves "cancelled" only by deletion.  *)
(***************************************************************************)
CancelledFinal ==
  [][\A d \in Deployments : status[d] = "cancelled" => status'[d] \in {"cancelled", "deleted"}]_vars

(***************************************************************************)
(* Resources are destroyed only with no deployment busy: from the moment  *)
(* the gate or the quiescence window lets a teardown pass until the       *)
(* project row is gone, no worker can start.                               *)
(***************************************************************************)
Destroying(c) == client[c].step \in {"begin", "destroy", "drop"}

CleanupQuiescent ==
  \A c \in Clients : Destroying(c) => exists /\ deleting /\ \A d \in Deployments : ~Busy(d)

(***************************************************************************)
(* Once a cleanup has begun, the deletion fence stays up until the project*)
(* row is gone, through failures, restarts and refused retries.           *)
(***************************************************************************)
FenceRetained == [][cleanup # "none" /\ exists' => deleting' /\ cleanup' # "none"]_vars

(* The abstract project: its phase, and the workers that run. *)
Phase ==
  IF ~exists THEN "gone" ELSE
  IF \E c \in Clients : client[c].step \in {"destroy", "drop"} THEN "destroying" ELSE
  IF cleanup # "none" THEN "condemned" ELSE
  IF deleting THEN "fenced" ELSE "open"

Work == INSTANCE ProjectWork WITH
  Workers <- Deployments,
  phase <- Phase,
  running <- {d \in Deployments : Working(d)}

(***************************************************************************)
(* Fence, lease and lock implement ProjectWork: workers start only in an  *)
(* open project, one at a time, and destruction excludes them.            *)
(***************************************************************************)
ImplementsProjectWork == Work!WorkSpec

-----------------------------------------------------------------------------
(* The live pointer. *)

(***************************************************************************)
(* Without keep, and with no write lost, the live pointer only moves to a *)
(* newer release, whatever the order in which workers, reconciles and     *)
(* restores settle, or is cleared by a delete or a reject.                *)
(***************************************************************************)
ForwardOnly ==
  [][writeFailures' = 0 /\ active' # NoDeployment => active' >= active]_vars

(***************************************************************************)
(* The live pointer never names a row that was deleted: it has no foreign *)
(* key, so every delete must detach it first.                              *)
(***************************************************************************)
PointerResolves == active # NoDeployment /\ exists => RowExists(active)

(***************************************************************************)
(* With no write lost, the pointer never moves to a release that was      *)
(* cancelled: a cancellation either beats the outcome write of the worker *)
(* or comes too late to be accepted at all.                                *)
(***************************************************************************)
NeverPublishesCancelled ==
  [][writeFailures' = 0 /\ active' # active /\ active' # NoDeployment
       => status[active'] # "cancelled"]_vars

(***************************************************************************)
(* Two shipped releases carry the same number only when they ship the     *)
(* same commit.                                                            *)
(***************************************************************************)
ShippedVersionsDistinct ==
  \A d, e \in Deployments :
    /\ status[d] \in ShippedStatuses /\ status[e] \in ShippedStatuses
    /\ version[d] # 0 /\ version[d] = version[e]
    => d = e \/ (commit[d] = commit[e] /\ commit[d] # NoCommit)

-----------------------------------------------------------------------------
(* Decisions about partially failed releases. *)

(***************************************************************************)
(* With no write lost and nothing in progress, at most one shipped release*)
(* waits for keep or reject: every newer release resolves the older ones. *)
(***************************************************************************)
AwaitsChoice(d) == status[d] = "partial_failure" /\ decision[d] = "pending"

OneOpenDecision ==
  /\ writeFailures = 0
  /\ holder = NoClient
  /\ \A d \in Deployments : ~Working(d)
  => \A d, e \in Deployments : AwaitsChoice(d) /\ AwaitsChoice(e) => d = e

(***************************************************************************)
(* A release that replaced another is marked rejected only once a later   *)
(* deployment that ships the replaced commit has been created.            *)
(***************************************************************************)
RejectRestores ==
  [][\A d \in Deployments :
       status'[d] = "rejected" /\ status[d] # "rejected" /\ previous[d] # NoDeployment
         => \E e \in Deployments : e > d /\ status[e] # "unborn"
                                     /\ commit[e] = commit[previous[d]]]_vars

-----------------------------------------------------------------------------
(* Liveness, under FairSpec. *)

(***************************************************************************)
(* A cancelled worker, even one in a build that would never end, closes   *)
(* its lease, so the project becomes deployable and deletable again.      *)
(***************************************************************************)
CancelFreesProject ==
  \A d \in Deployments : (status[d] = "cancelled" /\ LeaseHeld(d)) ~> ~LeaseHeld(d)

(***************************************************************************)
(* A request that waits for the project lock gets its turn, also behind a *)
(* forced teardown that waits for a worker that itself waits for the lock.*)
(***************************************************************************)
WaitersServed == \A c \in Clients : (client[c].step = "insert") ~> (client[c].step # "insert")

-----------------------------------------------------------------------------
(* What the code's comments say, and the code does not do. *)

(***************************************************************************)
(* "Idempotent - re-keeping an already-resolved deploy is a no-op": a keep*)
(* that found the decision already taken leaves the live pointer alone.   *)
(***************************************************************************)
RekeepIsNoOp ==
  [][\A c \in Clients : KeepPointer(c) /\ client[c].carried = "kept" => active' = active]_vars

(***************************************************************************)
(* A release whose decision a newer deployment superseded "is no longer   *)
(* the live one": while nothing is being deployed, the live pointer does  *)
(* not name a superseded release.                                          *)
(***************************************************************************)
SupersededNotLive ==
  Quiescent => \A d \in Deployments : decision[d] = "superseded" => active # d

(***************************************************************************)
(* The cancellation writes the outcome and its clock together, and neither*)
(* the cancel handler nor the worker "may replace this duration".         *)
(***************************************************************************)
CancellationClockPinned ==
  [][\A d \in Deployments :
       duration[d] = "cancellation" => duration'[d] \in {"cancellation", "none"}]_vars

=============================================================================
