----------------------------- MODULE RestoreRuns -----------------------------
(***************************************************************************)
(* The life of a restore (RestoreOrchestrator): it is prepared from a      *)
(* backup run without touching the service, waits for the operator, and is *)
(* then applied, which overwrites the data of the service. A cancellation  *)
(* may come at any time, from a request or from a deletion of the project. *)
(***************************************************************************)
EXTENDS BackupStore

CONSTANTS
  Kinds,  \* the kinds of payload the policy may have
  Parts   \* artifacts of a run, each written to the service in turn

VARIABLES
  kind,     \* the payload kind of the backups
  prep,     \* what runPrepare is doing, per restore
  cancelling, \* how far a request to cancel has come, per restore
  answer,   \* what the last request to cancel was told, per restore
  apply,    \* what runApply is doing, per restore
  target,   \* the data of the service: whole, or written in part
  service   \* whether the service runs

requests == <<cancelling, answer>>
restoreVars == <<kind, prep, requests, apply, target, service>>

(* backup-catalog.ts: a volume is restored while its service is stopped,   *)
(* the others through the running container; a failed pg_restore changes   *)
(* nothing; Redis loads what was written when it is restarted.             *)
PayloadKinds == {"volume", "pg_dump", "redis_rdb"}
Through == kind # "volume"
Atomic == kind = "pg_dump"
Bounced == kind = "redis_rdb"

ASSUME PayloadAssumption == Kinds \subseteq PayloadKinds /\ Parts \in Nat \ {0}

(* pc         where runApply is                                            *)
(* part       the artifact being applied                                   *)
(* running    wasRunning                                                   *)
(* stopped    stoppedByUs                                                  *)
(* wrote      wroteInto: the last write began                              *)
(* unfinished unfinishedTarget: a write began that has not been finished   *)
(* broken     a PartialWriteError is on its way                            *)
(* down       serviceDown                                                  *)
(* verdict    what the terminal transition will say                        *)
ApplyPcs == {"none", "queued", "starting", "stopping", "stopped", "opening", "writing",
             "loading", "restarting", "unwinding", "recording", "flagging",
             "leaving"}

NoApply == [pc |-> "none", part |-> 1, running |-> FALSE, stopped |-> FALSE, wrote |-> FALSE,
            unfinished |-> FALSE, broken |-> FALSE, down |-> FALSE, verdict |-> "succeeded"]

Applies ==
  [pc : ApplyPcs, part : 1..Parts, running : BOOLEAN, stopped : BOOLEAN, wrote : BOOLEAN,
   unfinished : BOOLEAN, broken : BOOLEAN, down : BOOLEAN,
   verdict : {"succeeded", "failed", "cancelled"}]

PrepPcs == {"none", "admitting", "queued", "reading", "verified", "unsound", "passing",
            "recording"}

RestoreTypeOK ==
  /\ kind \in PayloadKinds
  /\ prep \in [Restores -> PrepPcs]
  /\ cancelling \in [Restores -> {"none", "asked", "settling"}]
  /\ answer \in [Restores -> {"none", "cancelled", "applying"}]
  /\ apply \in [Restores -> Applies]
  /\ target \in {"whole", "partial", "gone"}
  /\ service \in {"up", "down"}

RestoreInit ==
  /\ kind \in Kinds
  /\ prep = [s \in Restores |-> "none"]
  /\ cancelling = [s \in Restores |-> "none"]
  /\ answer = [s \in Restores |-> "none"]
  /\ apply = [s \in Restores |-> NoApply]
  /\ target = "whole"
  /\ service \in {"up", "down"}

PrepGoto(s, pc) == prep' = [prep EXCEPT ![s] = pc]
ApplyGoto(s, pc) == apply' = [apply EXCEPT ![s].pc = pc]

(* transition on a restore row: a terminal status is final, and a refused  *)
(* write is ignored.                                                       *)
Settle(s, row) == restore' = IF Unsettled(s) THEN [restore EXCEPT ![s] = row] ELSE restore

(* What a worker leaves alone, besides the rows it writes.                 *)
rest == <<run, stored, incremental, phase, policyLock>>

-----------------------------------------------------------------------------
(* beginPrepare, under the lock of the run                                 *)

(* Mutant of CheckSource: the lock of the run is neither awaited nor held. *)
CheckSourceUnlocked(s, r) ==
  /\ restore[s].status = "absent" /\ prep[s] = "none"
  /\ r \in Restorable
  /\ ActiveRestores(r) = {}
  /\ restore' = [restore EXCEPT ![s] = [NoRestore EXCEPT !.status = "queued", !.run = r]]
  /\ PrepGoto(s, "queued")
  /\ UNCHANGED <<rest, runLock, projectLock, faults, kind, requests, apply, target, service>>

CheckSource(s, r) ==
  /\ restore[s].status = "absent" /\ prep[s] = "none"
  /\ runLock[r] = Nobody
  /\ r \in Restorable
  /\ ActiveRestores(r) = {}
  /\ runLock' = [runLock EXCEPT ![r] = s]
  /\ PrepGoto(s, "admitting")
  /\ UNCHANGED <<rest, restore, projectLock, faults, kind, requests, apply, target, service>>

(* The row is created through the admission of project work.               *)
AdmitRestore(s) ==
  /\ prep[s] = "admitting"
  /\ \E r \in Runs :
       /\ runLock[r] = s
       /\ runLock' = [runLock EXCEPT ![r] = Nobody]
       /\ IF Admitting
          THEN /\ restore' = [restore EXCEPT ![s] =
                                [NoRestore EXCEPT !.status = "queued", !.run = r]]
               /\ PrepGoto(s, "queued")
          ELSE PrepGoto(s, "none") /\ UNCHANGED restore
  /\ UNCHANGED <<rest, projectLock, faults, kind, requests, apply, target, service>>

-----------------------------------------------------------------------------
(* runPrepare                                                              *)

StartPrepare(s) ==
  /\ prep[s] = "queued"
  /\ Settle(s, [restore[s] EXCEPT !.status = "preparing"])
  /\ PrepGoto(s, "reading")
  /\ UNCHANGED <<rest, runLock, projectLock, faults, kind, requests, apply, target, service>>

(* verifyArtifacts: every recorded object is read back. The target, the    *)
(* destination or the manifest may also be found unusable.                 *)
Readable(s) == run[restore[s].run].artifacts \subseteq stored

VerifySource(s) ==
  /\ prep[s] = "reading"
  /\ \/ Readable(s) /\ PrepGoto(s, "verified")
     \/ PrepGoto(s, "unsound")
  /\ UNCHANGED <<rest, restore, runLock, projectLock, faults, kind, requests, apply, target,
                 service>>

(* The last check for a cancellation, then the verdict.                    *)
CheckPrepared(s) ==
  /\ \/ /\ prep[s] = "verified" /\ restore[s].cancel
        /\ Settle(s, [restore[s] EXCEPT !.status = "cancelled", !.destructive = FALSE])
        /\ PrepGoto(s, "none")
     \/ /\ prep[s] = "verified" /\ ~restore[s].cancel
        /\ PrepGoto(s, "passing")
        /\ UNCHANGED restore
     \/ /\ prep[s] = "unsound"
        /\ Settle(s, [restore[s] EXCEPT !.status = "failed"])
        /\ PrepGoto(s, "none")
  /\ UNCHANGED <<rest, runLock, projectLock, faults, kind, requests, apply, target, service>>

Pass(s) ==
  /\ prep[s] = "passing"
  /\ Settle(s, [restore[s] EXCEPT !.status = "prepared"])
  /\ PrepGoto(s, IF Unsettled(s) THEN "recording" ELSE "none")
  /\ UNCHANGED <<rest, runLock, projectLock, faults, kind, requests, apply, target, service>>

Unflagged(row) == [row EXCEPT !.destructive = FALSE, !.partial = FALSE, !.down = FALSE]

(* The columns that ride with the status, in a statement of their own that *)
(* looks at no status: meta is replaced by what prepare found.             *)
RecordPrepared(s) ==
  /\ prep[s] = "recording"
  /\ restore' = [restore EXCEPT ![s] = Unflagged(restore[s])]
  /\ PrepGoto(s, "none")
  /\ UNCHANGED <<rest, runLock, projectLock, faults, kind, requests, apply, target, service>>

-----------------------------------------------------------------------------
(* cancel                                                                  *)

(* A request finds a row that is not decided. At most one is under way.    *)
AskCancel(s) ==
  /\ restore[s].status \in RestoreActive
  /\ ~restore[s].cancel
  /\ cancelling[s] = "none"
  /\ cancelling' = [cancelling EXCEPT ![s] = "asked"]

(* requestCancel flags the row, whatever has become of it, and returns it; *)
(* only what is not applying is cancelled here.                            *)
CancelsItself(s) == restore[s].status # "applying"

FlagCancel(s) ==
  /\ cancelling[s] = "asked"
  /\ restore' = [restore EXCEPT ![s].cancel = TRUE]
  /\ cancelling' = [cancelling EXCEPT ![s] = IF CancelsItself(s) THEN "settling" ELSE "none"]
  /\ answer' = [answer EXCEPT ![s] = IF CancelsItself(s) THEN @ ELSE "applying"]
  /\ UNCHANGED <<rest, runLock, projectLock, faults, kind, prep, apply, target, service>>

(* The verdict may be refused; the answer is the same.                     *)
SettleCancel(s) ==
  /\ cancelling[s] = "settling"
  /\ cancelling' = [cancelling EXCEPT ![s] = "none"]
  /\ answer' = [answer EXCEPT ![s] = "cancelled"]
  /\ Settle(s, [restore[s] EXCEPT !.status = "cancelled", !.destructive = FALSE])
  /\ UNCHANGED <<rest, runLock, projectLock, faults, kind, prep, apply, target, service>>

-----------------------------------------------------------------------------
(* apply and runApply                                                      *)

EligibleCancelled(s) == restore[s].status = "prepared"

Eligible(s) == restore[s].status = "prepared" /\ ~restore[s].cancel

(* claimApply: one restore per project. The operator comes between the two *)
(* statements that follow a preparation when the second is slow only.      *)
ClaimApply(s) ==
  /\ prep[s] = "recording" => "slowWrite" \in FaultKinds
  /\ Admitting
  /\ Eligible(s)
  /\ \A x \in Restores \ {s} : restore[x].status # "applying"
  /\ restore' = [restore EXCEPT ![s].status = "applying"]
  /\ ApplyGoto(s, "queued")
  /\ UNCHANGED <<rest, runLock, projectLock, faults, kind, prep, requests, target, service>>

(* Mutant of StartApply: the runtime lock of the project is not taken.     *)
StartApplyUnlocked(s) ==
  /\ apply[s].pc = "queued"
  /\ ApplyGoto(s, "starting")
  /\ UNCHANGED <<rest, restore, runLock, projectLock, faults, kind, prep, requests, target,
                 service>>

StartApply(s) ==
  /\ apply[s].pc = "queued"
  /\ projectLock = Nobody
  /\ projectLock' = s
  /\ ApplyGoto(s, "starting")
  /\ UNCHANGED <<rest, restore, runLock, faults, kind, prep, requests, target, service>>

Verdict(s, v, pc) == apply' = [apply EXCEPT ![s].verdict = v, ![s].pc = pc]

(* A stale callback returns; otherwise the source and the target are       *)
(* resolved, and the first checkpoint is passed or not.                    *)
ResolveTarget(s) ==
  /\ apply[s].pc = "starting"
  /\ \/ /\ restore[s].status # "applying"
        /\ apply' = [apply EXCEPT ![s] = NoApply]
        /\ projectLock' = Nobody
     \/ /\ restore[s].status = "applying"
        /\ \/ restore[s].cancel /\ Verdict(s, "cancelled", "recording")
           \/ ~restore[s].cancel /\ ApplyGoto(s, "stopping")
           \/ Verdict(s, "failed", "recording")
        /\ UNCHANGED projectLock
  /\ UNCHANGED <<rest, restore, runLock, faults, kind, prep, requests, target, service>>

(* isRunning and stopService. A stop that fails leaves the service as it   *)
(* was; whether it did may also be unclear.                                *)
StopService(s) ==
  LET running == service = "up"
      stop == running /\ ~Through IN
  /\ apply[s].pc = "stopping"
  /\ \/ /\ apply' = [apply EXCEPT ![s].pc = "stopped", ![s].running = running,
                                  ![s].stopped = stop, ![s].down = ~running \/ stop]
        /\ service' = IF stop THEN "down" ELSE service
        /\ UNCHANGED faults
     \/ /\ stop
        /\ apply' = [apply EXCEPT ![s].pc = "recording", ![s].running = running,
                                  ![s].verdict = "failed"]
        /\ \/ UNCHANGED <<service, faults>>
           \/ Fault("unclearStop") /\ service' = "down"
  /\ UNCHANGED <<rest, restore, runLock, projectLock, kind, prep, requests, target>>

(* startService on the way out: best effort.                               *)
TryStart(s, pc, v) ==
  \/ /\ service' = "up"
     /\ apply' = [apply EXCEPT ![s].pc = pc, ![s].verdict = v, ![s].down = FALSE]
     /\ UNCHANGED faults
  \/ /\ Fault("start")
     /\ Verdict(s, v, pc)
     /\ UNCHANGED service

(* The second checkpoint: stopped, nothing written.                        *)
CheckStopped(s) ==
  /\ apply[s].pc = "stopped"
  /\ \/ ~restore[s].cancel /\ ApplyGoto(s, "opening") /\ UNCHANGED <<service, faults>>
     \/ restore[s].cancel /\ apply[s].stopped /\ TryStart(s, "recording", "cancelled")
     \/ /\ restore[s].cancel /\ ~apply[s].stopped
        /\ Verdict(s, "cancelled", "recording")
        /\ UNCHANGED <<service, faults>>
  /\ UNCHANGED <<rest, restore, runLock, projectLock, kind, prep, requests, target>>

MarkNothing(s) == restore[s]

(* markDestructive                                                         *)
MarkDestructive(s) == [restore[s] EXCEPT !.destructive = TRUE]

(* A producer opens its artifact when its own checks have passed. The row  *)
(* says that data is being written before the first byte is, unless that   *)
(* statement fails: the restore goes on. The mark and the beginning of the *)
(* write are one step, since open returns right after the statement.       *)
OpenArtifact(s) ==
  /\ apply[s].pc = "opening"
  /\ \/ /\ ~restore[s].cancel /\ Readable(s) /\ (Through => service = "up")
        /\ \/ restore' = [restore EXCEPT ![s] = MarkDestructive(s)] /\ UNCHANGED faults
           \/ Fault("lostMark") /\ UNCHANGED restore
        /\ apply' = [apply EXCEPT ![s].pc = "writing", ![s].wrote = TRUE,
                                  ![s].unfinished = @ \/ ~Atomic]
        /\ target' = IF Atomic THEN target ELSE "partial"
     \/ /\ Verdict(s, IF restore[s].cancel THEN "cancelled" ELSE "failed", "unwinding")
        /\ UNCHANGED <<restore, target, faults>>
  /\ UNCHANGED <<rest, runLock, projectLock, kind, prep, requests, service>>

ApplyArtifactAlone(s) ==
  LET last == apply[s].part = Parts IN
  /\ apply[s].pc = "writing"
  /\ apply' = [apply EXCEPT ![s].pc = IF last THEN "loading" ELSE "opening",
                            ![s].part = IF last THEN @ ELSE @ + 1,
                            ![s].unfinished = FALSE]
  /\ target' = IF last THEN "whole" ELSE "partial"
  /\ UNCHANGED <<rest, restore, runLock, projectLock, faults, kind, prep, requests, service>>

(* The artifact is applied in full. Until the last one is, the restore is  *)
(* not.                                                                    *)
ApplyArtifact(s) ==
  LET last == apply[s].part = Parts IN
  /\ apply[s].pc = "writing"
  /\ apply' = [apply EXCEPT ![s].pc = IF last THEN "loading" ELSE "opening",
                            ![s].part = IF last THEN @ ELSE @ + 1,
                            ![s].unfinished = ~last]
  /\ target' = IF last THEN "whole" ELSE "partial"
  /\ UNCHANGED <<rest, restore, runLock, projectLock, faults, kind, prep, requests, service>>

(* The producer fails or is aborted: a cancellation that was requested     *)
(* owns the failure. Or the digest of what was written is wrong.           *)
FailArtifact(s) ==
  /\ apply[s].pc = "writing"
  /\ \/ /\ Verdict(s, IF restore[s].cancel THEN "cancelled" ELSE "failed", "unwinding")
        /\ UNCHANGED target
     \/ /\ apply' = [apply EXCEPT ![s].pc = "unwinding", ![s].verdict = "failed",
                                  ![s].broken = TRUE]
        /\ target' = "partial"
  /\ UNCHANGED <<rest, restore, runLock, projectLock, faults, kind, prep, requests, service>>

(* Every byte is written: a cancellation is declined. The service is       *)
(* restarted when it has to load what was written. Which of the two        *)
(* requests failed decides what the worker believes, and either may have   *)
(* taken effect all the same.                                              *)
LoadService(s) ==
  /\ apply[s].pc = "loading"
  /\ \/ ApplyGoto(s, "restarting") /\ UNCHANGED <<service, faults>>
     \/ /\ Bounced /\ apply[s].running
        /\ Fault("start")
        /\ service' \in {"up", "down"}
        /\ \E down \in BOOLEAN :
             apply' = [apply EXCEPT ![s].pc = "unwinding", ![s].verdict = "failed",
                                    ![s].broken = TRUE, ![s].down = down]
  /\ UNCHANGED <<rest, restore, runLock, projectLock, kind, prep, requests, target>>

StartBack(s) ==
  /\ apply[s].pc = "restarting"
  /\ \/ /\ ~apply[s].stopped
        /\ Verdict(s, "succeeded", "recording")
        /\ UNCHANGED <<service, faults>>
     \/ /\ apply[s].stopped
        /\ service' = "up"
        /\ apply' = [apply EXCEPT ![s].pc = "recording", ![s].down = FALSE,
                                  ![s].verdict = "succeeded"]
        /\ UNCHANGED faults
     \/ apply[s].stopped /\ Fault("start") /\ Verdict(s, "failed", "unwinding")
                         /\ UNCHANGED service
  /\ UNCHANGED <<rest, restore, runLock, projectLock, kind, prep, requests, target>>

Partial(s) == apply[s].unfinished \/ apply[s].broken

Unwind(s) ==
  /\ apply[s].pc = "unwinding"
  /\ \/ /\ ~Partial(s) /\ apply[s].stopped
        /\ TryStart(s, "recording", apply[s].verdict)
     \/ /\ Partial(s) \/ ~apply[s].stopped
        /\ ApplyGoto(s, "recording")
        /\ UNCHANGED <<service, faults>>
  /\ UNCHANGED <<rest, restore, runLock, projectLock, kind, prep, requests, target>>

(* serviceLeftStopped is a fact of its own.                                *)
LeavesDown(s) == apply[s].down

(* The outer catch, or the verdict of success: the status first, unless    *)
(* the row is decided, then the flags, and the finally.                    *)
RecordVerdict(s) ==
  /\ apply[s].pc = "recording"
  /\ Settle(s, [restore[s] EXCEPT !.status = apply[s].verdict])
  /\ ApplyGoto(s, IF Unsettled(s) THEN "flagging" ELSE "leaving")
  /\ UNCHANGED <<rest, runLock, projectLock, faults, kind, prep, requests, target, service>>

(* What the verdict adds to the flags of a row.                            *)
Flagged(s, row) ==
  LET v == apply[s].verdict IN
  [row EXCEPT !.destructive = IF v = "failed" THEN @ ELSE apply[s].wrote,
              !.partial = @ \/ (v # "succeeded" /\ Partial(s)),
              !.down = @ \/ (v # "succeeded" /\ LeavesDown(s))]

(* mergedMeta: flags that cannot be read are replaced. The statement may   *)
(* also be rejected, which is logged.                                      *)
RecordFlags(s) ==
  /\ apply[s].pc = "flagging"
  /\ \/ restore' = [restore EXCEPT ![s] = Flagged(s, restore[s])] /\ UNCHANGED faults
     \/ /\ Fault("unmerged")
        /\ restore' = [restore EXCEPT ![s] = Flagged(s, Unflagged(restore[s]))]
     \/ Fault("lostColumns") /\ UNCHANGED restore
  /\ ApplyGoto(s, "leaving")
  /\ UNCHANGED <<rest, runLock, projectLock, kind, prep, requests, target, service>>

Leave(s) ==
  /\ apply[s].pc = "leaving"
  /\ apply' = [apply EXCEPT ![s] = NoApply]
  /\ projectLock' = Nobody
  /\ UNCHANGED <<rest, restore, runLock, faults, kind, prep, requests, target, service>>

-----------------------------------------------------------------------------
Prepare(s) ==
  \/ AdmitRestore(s) \/ StartPrepare(s) \/ VerifySource(s) \/ CheckPrepared(s) \/ Pass(s)
  \/ RecordPrepared(s)

Apply(s) ==
  \/ StartApply(s) \/ ResolveTarget(s) \/ StopService(s) \/ CheckStopped(s) \/ OpenArtifact(s)
  \/ ApplyArtifact(s) \/ FailArtifact(s) \/ LoadService(s) \/ StartBack(s) \/ Unwind(s)
  \/ RecordVerdict(s) \/ RecordFlags(s) \/ Leave(s)

RequestCancel(s) ==
  /\ AskCancel(s)
  /\ UNCHANGED <<rest, restore, runLock, projectLock, faults, kind, prep, answer, apply,
                 target, service>>

Cancel(s) == FlagCancel(s) \/ SettleCancel(s)

Operator(s) ==
  \/ RequestCancel(s) \/ ClaimApply(s)
  \/ \E r \in Runs : CheckSource(s, r)

RestoreNext ==
  \E s \in Restores : Prepare(s) \/ Apply(s) \/ Cancel(s) \/ Operator(s)

=============================================================================
