-------------------------------- MODULE Backups --------------------------------
(***************************************************************************)
(* Backups and restores of one project together with what may cut across   *)
(* them: the deletion of the project, which holds the lock that captures   *)
(* and restores hold, and the death of a process, which the boot of a      *)
(* self-hosted installation recovers from.                                 *)
(***************************************************************************)
EXTENDS BackupRuns, RestoreRuns

CONSTANT Cloud     \* CLOUD_MODE: several replicas on one database

ASSUME CloudAssumption == Cloud \in BOOLEAN

VARIABLE teardown  \* what teardownProject is doing

(* pc    where it is                                                       *)
(* kept  the fence was up before it came                                   *)
(* todo  work it found and has still to ask to stop                        *)
TeardownPcs == {"none", "claimed", "cancelling", "window", "cleaning"}

NoTeardown == [pc |-> "none", kept |-> FALSE, todo |-> {}]

vars == <<store, job, restoreVars, teardown>>

Init == StoreInit /\ JobInit /\ RestoreInit /\ teardown = NoTeardown

TypeOK ==
  /\ StoreTypeOK /\ JobTypeOK /\ RestoreTypeOK
  /\ teardown \in [pc : TeardownPcs, kept : BOOLEAN, todo : SUBSET (Runs \cup Restores)]

TeardownAt(pc) == teardown.pc = pc

-----------------------------------------------------------------------------
(* teardownProject                                                         *)

(* An attempt counts as one of the rare events.                            *)
ClaimDeletion ==
  /\ TeardownAt("none")
  /\ projectLock = Nobody
  /\ phase # "gone"
  /\ Fault("deletion")
  /\ projectLock' = "teardown"
  /\ phase' = IF phase = "open" THEN "fenced" ELSE phase
  /\ teardown' = [NoTeardown EXCEPT !.pc = "claimed", !.kept = phase # "open"]
  /\ UNCHANGED <<run, restore, stored, incremental, policyLock, runLock, job, restoreVars>>

Blocking == {r \in Runs : RunBlocks(r)} \cup {s \in Restores : RestoreBlocks(s)}

(* Refused, the deletion takes its fence down, unless it found it up.      *)
GiveUp ==
  /\ teardown' = NoTeardown
  /\ projectLock' = Nobody
  /\ phase' = IF teardown.kept THEN phase ELSE "open"
  /\ UNCHANGED <<run, restore, stored, incremental, policyLock, runLock, faults, job,
                 restoreVars>>

RefuseGraceful ==
  /\ TeardownAt("claimed")
  /\ Blocking # {}
  /\ GiveUp

(* A forced deletion asks what is under way to stop, ...                   *)
StartCancelling ==
  /\ TeardownAt("claimed")
  /\ Blocking # {}
  /\ teardown' = [teardown EXCEPT !.pc = "cancelling", !.todo = Blocking]
  /\ UNCHANGED <<store, job, restoreVars>>

CancelRun(r) ==
  /\ TeardownAt("cancelling")
  /\ r \in teardown.todo
  /\ CancelQueued(r) \/ (~Claimable(r) /\ UNCHANGED run)
  /\ teardown' = [teardown EXCEPT !.todo = @ \ {r}]
  /\ UNCHANGED <<restore, stored, incremental, phase, locks, faults, job, restoreVars>>

CancelRestore(s) ==
  /\ TeardownAt("cancelling")
  /\ s \in teardown.todo
  /\ \/ AskCancel(s)
     \/ (restore[s].cancel \/ ~RestoreBlocks(s)) /\ UNCHANGED cancelling
  /\ teardown' = [teardown EXCEPT !.todo = @ \ {s}]
  /\ UNCHANGED <<store, job, kind, prep, answer, apply, target, service>>

(* ... each in turn, and then waits for it.                                *)
OpenWindow ==
  /\ TeardownAt("cancelling")
  /\ teardown.todo = {}
  /\ \A s \in Restores : cancelling[s] = "none"
  /\ teardown' = [teardown EXCEPT !.pc = "window"]
  /\ UNCHANGED <<store, job, restoreVars>>

QuiesceTimeout ==
  /\ TeardownAt("window")
  /\ Blocking # {}
  /\ GiveUp

(* beginDeletionCleanup, when nothing is under way.                        *)
BeginCleanup ==
  /\ TeardownAt("claimed") \/ TeardownAt("window")
  /\ Blocking = {}
  /\ phase' = "cleaning"
  /\ teardown' = [teardown EXCEPT !.pc = "cleaning"]
  /\ UNCHANGED <<run, restore, stored, incremental, locks, faults, job, restoreVars>>

(* The service and, when the deletion wipes them, its data are destroyed,  *)
(* and the row is dropped; when some step fails the row is kept and the    *)
(* deletion can only be tried again.                                       *)
Destroy ==
  /\ TeardownAt("cleaning")
  /\ phase' \in {"cleaning", "gone"}
  /\ service' \in {service, "down"}
  /\ target' \in (IF service' = "down" THEN {target, "gone"} ELSE {target})
  /\ teardown' = NoTeardown
  /\ projectLock' = Nobody
  /\ UNCHANGED <<run, restore, stored, incremental, policyLock, runLock, faults, job, kind,
                 prep, requests, apply>>

Teardown ==
  \/ RefuseGraceful \/ StartCancelling \/ OpenWindow \/ QuiesceTimeout \/ BeginCleanup \/ Destroy
  \/ \E r \in Runs : CancelRun(r)
  \/ \E s \in Restores : CancelRestore(s)

-----------------------------------------------------------------------------
(* Death of a process                                                      *)

Freed(lock, owners) == IF lock \in owners THEN Nobody ELSE lock

(* What the process was doing ends where it was, and its locks are free.   *)
Die(workers, restores, deletion) ==
  LET owners == workers \cup restores \cup (IF deletion THEN {"teardown"} ELSE {}) IN
  /\ job' = [w \in Workers |-> IF w \in workers THEN IdleJob ELSE job[w]]
  /\ prep' = [s \in Restores |-> IF s \in restores THEN "none" ELSE prep[s]]
  /\ apply' = [s \in Restores |-> IF s \in restores THEN NoApply ELSE apply[s]]
  /\ cancelling' = [s \in Restores |-> IF s \in restores THEN "none" ELSE cancelling[s]]
  /\ teardown' = IF deletion THEN NoTeardown ELSE teardown
  /\ policyLock' = Freed(policyLock, owners)
  /\ projectLock' = Freed(projectLock, owners)
  /\ runLock' = [r \in Runs |-> Freed(runLock[r], owners)]
  /\ UNCHANGED <<stored, incremental, phase, kind, answer, target, service>>

(* A self-hosted installation is one process: its boot sweeps the rows.    *)
Restart ==
  /\ ~Cloud /\ Fault("crash")
  /\ Die(Workers, Restores, TRUE)
  /\ run' = [r \in Runs |-> SweptAtBoot(run[r])]
  /\ restore' = [s \in Restores |-> RestoreSweptAtBoot(restore[s])]

(* One of several replicas dies, and no boot sweeps.                       *)
ReplicaDies ==
  /\ Cloud /\ Fault("death")
  /\ \/ \E w \in Workers : ~At(w, "idle") /\ Die({w}, {}, FALSE)
     \/ \E s \in Restores : apply[s].pc # "none" /\ Die({}, {s}, FALSE)
     \/ ~TeardownAt("none") /\ Die({}, {}, TRUE)
  /\ UNCHANGED <<run, restore>>

-----------------------------------------------------------------------------
Next ==
  \/ JobNext /\ UNCHANGED <<restoreVars, teardown>>
  \/ RestoreNext /\ UNCHANGED <<job, teardown>>
  \/ ClaimDeletion \/ Teardown
  \/ Restart \/ ReplicaDies

Spec == Init /\ [][Next]_vars

(* What is under way goes on; nobody has to ask for anything, and no       *)
(* failure has to happen.                                                  *)
Fairness ==
  /\ \A w \in Workers :
       WF_vars((Capture(w) \/ Prune(w)) /\ UNCHANGED <<restoreVars, teardown>>)
  /\ \A s \in Restores :
       /\ WF_vars((Prepare(s) \/ Apply(s)) /\ UNCHANGED <<job, teardown>>)
       /\ WF_vars(Cancel(s) /\ UNCHANGED <<job, teardown>>)
  /\ WF_vars(Teardown)

FairSpec == Spec /\ Fairness

=============================================================================
