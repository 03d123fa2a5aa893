--------------------------- MODULE BackupTypeProofs ---------------------------
(***************************************************************************)
(* The types of the backups, proved for every value of the constants: no   *)
(* step of a capture, of retention, of a restore, of a deletion or of a    *)
(* crash writes what a row, a lock or a slot cannot hold.                  *)
(***************************************************************************)
EXTENDS BackupProperties, FiniteSetTheorems, WellFoundedInduction, TLAPS

(* Some member of a non-empty finite set has the highest rank.             *)
LEMMA HighestRank ==
  ASSUME NEW S, IsFiniteSet(S), S # {}, NEW f, \A x \in S : f[x] \in Nat
  PROVE  \E m \in S : \A x \in S : f[x] <= f[m]
<1> DEFINE Unbounded == {T \in SUBSET S : T # {} /\ ~ \E m \in T : \A x \in T : f[x] <= f[m]}
<1>1. SUFFICES ASSUME Unbounded # {} PROVE FALSE
  OBVIOUS
<1>2. PICK T \in Unbounded : \A U \in Unbounded : <<U, T>> \notin StrictSubsetOrdering(S)
  <2>1. IsWellFoundedOn(StrictSubsetOrdering(S), FiniteSubsetsOf(S))
    BY FS_StrictSubsetOrderingWellFounded
  <2>2. Unbounded \subseteq FiniteSubsetsOf(S)
    BY FS_FiniteSubsetsOfFinite
  <2> HIDE DEF Unbounded
  <2> QED BY <1>1, <2>1, <2>2, WFMin
<1>3. PICK y \in T : TRUE
  OBVIOUS
<1>4. T \ {y} \notin Unbounded
  BY <1>2 DEF StrictSubsetOrdering
<1>5. CASE T \ {y} = {}
  BY <1>5
<1>6. CASE T \ {y} # {}
  <2>1. PICK m \in T \ {y} : \A x \in T \ {y} : f[x] <= f[m]
    BY <1>4, <1>6
  <2>2. f[m] \in Nat /\ f[y] \in Nat /\ \A x \in T : f[x] \in Nat
    OBVIOUS
  <2>3. CASE f[y] <= f[m]
    BY <2>1, <2>2, <2>3
  <2>4. CASE f[m] < f[y]
    <3>1. \A x \in T : f[x] <= f[y]
      BY <2>1, <2>2, <2>4
    <3> QED BY <3>1
  <2> QED BY <2>2, <2>3, <2>4
<1> QED BY <1>5, <1>6

-----------------------------------------------------------------------------
(* Types. *)

USE DEF At, Goto

LEMMA FinishIsNatural == NextFinish \in Nat \ {0}
BY RunsAssumption, FS_Subset, FS_CardinalityType DEF NextFinish

LEMMA RowTypes ==
  ASSUME StoreTypeOK
  PROVE  /\ \A r \in Runs, s \in RunTerminal : Decide(r, s) \in RunRows
         /\ \A r \in Runs : Acknowledged(run[r]) \in RunRows /\ SweptAtBoot(run[r]) \in RunRows
         /\ \A r \in Runs : Keys(r) \subseteq Objects
         /\ LatestArtifacts \subseteq Objects
<1> USE DEF StoreTypeOK, RunRows
<1>1. \A r \in Runs, s \in RunTerminal : Decide(r, s) \in RunRows
  BY FinishIsNatural DEF Decide
<1>2. \A r \in Runs : Acknowledged(run[r]) \in RunRows /\ SweptAtBoot(run[r]) \in RunRows
  <2> TAKE r \in Runs
  <2>1. ASSUME NEW row \in RunRows PROVE Acknowledged(row) \in RunRows
    BY DEF Acknowledged
  <2>2. [run[r] EXCEPT !.status = "server_error", !.finished = NextFinish] \in RunRows
    BY FinishIsNatural DEF RunTerminal
  <2> QED BY <2>1, <2>2 DEF SweptAtBoot
<1>3. \A r \in Runs : Keys(r) \subseteq Objects
  BY DEF Keys, Own, Objects
<1>4. LatestArtifacts \subseteq Objects
  BY DEF LatestArtifacts, Restorable
<1> QED BY <1>1, <1>2, <1>3, <1>4

(* The victim retention turns to is one of those it has left.              *)
LEMMA VictimIsChosen ==
  ASSUME StoreTypeOK, JobTypeOK, NEW w \in Workers, job[w].victims # {}
  PROVE  NextVictim(w) \in job[w].victims /\ NextVictim(w) \in Runs
<1> DEFINE f == [r \in Runs |-> run[r].finished]
<1>1. job[w].victims \subseteq Runs
  BY DEF JobTypeOK, Jobs
<1>2. IsFiniteSet(job[w].victims)
  BY <1>1, RunsAssumption, FS_Subset
<1>3. \A r \in job[w].victims : f[r] \in Nat
  BY <1>1 DEF StoreTypeOK, RunRows
<1>4. \E m \in job[w].victims : \A x \in job[w].victims : f[x] <= f[m]
  <2> HIDE DEF f
  <2> QED BY <1>2, <1>3, HighestRank
<1>5. \E m \in job[w].victims : \A x \in job[w].victims : run[x].finished <= run[m].finished
  BY <1>1, <1>4
<1> QED BY <1>1, <1>5 DEF NextVictim

(* A slot that executes a run, or deletes one, names it.                   *)
Named ==
  \A w \in Workers :
    job[w].pc \in {"policy", "project", "claim", "erase", "drop"} \cup CapturePcs => job[w].run \in Runs

JobTypes == StoreTypeOK /\ JobTypeOK /\ Named

(* A row stays one, and a slot, whatever is written to it.                 *)
LEMMA RowWrites ==
  ASSUME run \in [Runs -> RunRows], NEW r \in Runs
  PROVE  /\ [run[r] EXCEPT !.status = "preparing", !.lease = "open"] \in RunRows
         /\ [run[r] EXCEPT !.status = "snapshotting"] \in RunRows
         /\ [run[r] EXCEPT !.status = "uploading"] \in RunRows
         /\ [run[r] EXCEPT !.status = "verifying"] \in RunRows
         /\ \A S \in SUBSET Objects :
              [run[r] EXCEPT !.status = "uploading", !.artifacts = S] \in RunRows
         /\ \A S \in SUBSET Objects, m \in BOOLEAN :
              [run[r] EXCEPT !.artifacts = S, !.manifest = m] \in RunRows
         /\ [run[r] EXCEPT !.protected = ~run[r].protected] \in RunRows
         /\ [run[r] EXCEPT !.deleted = TRUE] \in RunRows
<1>1. [run[r] EXCEPT !.status = "preparing", !.lease = "open"] \in RunRows
  BY ZenonT(30) DEF RunRows, RunInFlight
<1>2. [run[r] EXCEPT !.status = "snapshotting"] \in RunRows
  BY ZenonT(30) DEF RunRows, RunInFlight
<1>3. [run[r] EXCEPT !.status = "uploading"] \in RunRows
  BY ZenonT(30) DEF RunRows, RunInFlight
<1>4. [run[r] EXCEPT !.status = "verifying"] \in RunRows
  BY ZenonT(30) DEF RunRows, RunInFlight
<1>5. \A S \in SUBSET Objects :
        [run[r] EXCEPT !.status = "uploading", !.artifacts = S] \in RunRows
  BY ZenonT(30) DEF RunRows, RunInFlight
<1>6. \A S \in SUBSET Objects, m \in BOOLEAN :
        [run[r] EXCEPT !.artifacts = S, !.manifest = m] \in RunRows
  BY ZenonT(30) DEF RunRows, RunInFlight
<1>7. [run[r] EXCEPT !.protected = ~run[r].protected] \in RunRows
  BY ZenonT(30) DEF RunRows, RunInFlight
<1>8. [run[r] EXCEPT !.deleted = TRUE] \in RunRows
  BY ZenonT(30) DEF RunRows, RunInFlight
<1> QED BY <1>1, <1>2, <1>3, <1>4, <1>5, <1>6, <1>7, <1>8

LEMMA JobWrites ==
  ASSUME job \in [Workers -> Jobs], NEW w \in Workers
  PROVE  /\ \A pc \in JobPcs : [job[w] EXCEPT !.pc = pc] \in Jobs
         /\ \A pc \in JobPcs, r \in Runs : [job[w] EXCEPT !.pc = pc, !.run = r] \in Jobs
         /\ [job[w] EXCEPT !.pc = "reclaim", !.elsewhere = TRUE] \in Jobs
         /\ [job[w] EXCEPT !.pc = "finish", !.completed = TRUE] \in Jobs
         /\ \A C \in SUBSET Blocks, S \in SUBSET Objects :
              [job[w] EXCEPT !.pc = "blocks", !.content = C, !.old = S] \in Jobs
         /\ \A T \in SUBSET Objects : [job[w] EXCEPT !.pc = "succeed", !.uploaded = T] \in Jobs
         /\ \A S \in SUBSET Objects, T \in SUBSET Objects :
              [job[w] EXCEPT !.pc = "record", !.kept = S, !.uploaded = T] \in Jobs
         /\ \A V \in SUBSET Runs, p \in [Runs -> SUBSET Objects] :
              [job[w] EXCEPT !.pc = "victim", !.victims = V, !.plan = p] \in Jobs
         /\ \A p \in [Runs -> SUBSET Objects], V \in SUBSET Runs :
              [job[w] EXCEPT !.pc = "victim", !.run = Nobody, !.plan = p, !.victims = V] \in Jobs
         /\ \A S \in SUBSET Objects, T \in SUBSET Objects :
              [job[w] EXCEPT !.kept = S, !.uploaded = T] \in Jobs
         /\ \A V \in SUBSET Runs : [job[w] EXCEPT !.victims = V] \in Jobs
<1>1. \A pc \in JobPcs : [job[w] EXCEPT !.pc = pc] \in Jobs
  BY ZenonT(30) DEF Jobs, JobPcs, CapturePcs, PrunePcs
<1>2. \A pc \in JobPcs, r \in Runs : [job[w] EXCEPT !.pc = pc, !.run = r] \in Jobs
  BY ZenonT(30) DEF Jobs, JobPcs, CapturePcs, PrunePcs
<1>3. [job[w] EXCEPT !.pc = "reclaim", !.elsewhere = TRUE] \in Jobs
  BY ZenonT(30) DEF Jobs, JobPcs, CapturePcs, PrunePcs
<1>4. [job[w] EXCEPT !.pc = "finish", !.completed = TRUE] \in Jobs
  BY ZenonT(30) DEF Jobs, JobPcs, CapturePcs, PrunePcs
<1>5. \A C \in SUBSET Blocks, S \in SUBSET Objects :
        [job[w] EXCEPT !.pc = "blocks", !.content = C, !.old = S] \in Jobs
  BY ZenonT(30) DEF Jobs, JobPcs, CapturePcs, PrunePcs
<1>6. \A T \in SUBSET Objects : [job[w] EXCEPT !.pc = "succeed", !.uploaded = T] \in Jobs
  BY ZenonT(30) DEF Jobs, JobPcs, CapturePcs, PrunePcs
<1>7. \A S \in SUBSET Objects, T \in SUBSET Objects :
        [job[w] EXCEPT !.pc = "record", !.kept = S, !.uploaded = T] \in Jobs
  BY ZenonT(30) DEF Jobs, JobPcs, CapturePcs, PrunePcs
<1>8. \A V \in SUBSET Runs, p \in [Runs -> SUBSET Objects] :
        [job[w] EXCEPT !.pc = "victim", !.victims = V, !.plan = p] \in Jobs
  BY ZenonT(30) DEF Jobs, JobPcs, CapturePcs, PrunePcs
<1>9. \A p \in [Runs -> SUBSET Objects], V \in SUBSET Runs :
        [job[w] EXCEPT !.pc = "victim", !.run = Nobody, !.plan = p, !.victims = V] \in Jobs
  BY ZenonT(30) DEF Jobs, JobPcs, CapturePcs, PrunePcs
<1>10. \A S \in SUBSET Objects, T \in SUBSET Objects :
        [job[w] EXCEPT !.kept = S, !.uploaded = T] \in Jobs
  BY ZenonT(30) DEF Jobs, JobPcs, CapturePcs, PrunePcs
<1>11. \A V \in SUBSET Runs : [job[w] EXCEPT !.victims = V] \in Jobs
  BY ZenonT(30) DEF Jobs, JobPcs, CapturePcs, PrunePcs
<1> QED BY <1>1, <1>2, <1>3, <1>4, <1>5, <1>6, <1>7, <1>8, <1>9, <1>10, <1>11

(* What the steps of captures and retention write to the rows.             *)
LEMMA RunsTyped ==
  ASSUME JobTypes, JobNext
  PROVE  run' \in [Runs -> RunRows]
<1> DEFINE OK == run' \in [Runs -> RunRows]
<1> SUFFICES OK OBVIOUS
<1>a. run \in [Runs -> RunRows]
  BY DEF JobTypes, StoreTypeOK
<1>b. \A w \in Workers : job[w].pc \in CapturePcs \cup {"claim", "drop"} => job[w].run \in Runs
  BY DEF JobTypes, Named
<1>c. \A r \in Runs : /\ Decide(r, "succeeded") \in RunRows
                      /\ Decide(r, "server_error") \in RunRows
                      /\ [Decide(r, "failed") EXCEPT !.artifacts = {}] \in RunRows
                      /\ Acknowledged(run[r]) \in RunRows
  <2>1. ASSUME NEW row \in RunRows PROVE [row EXCEPT !.artifacts = {}] \in RunRows
    BY Zenon DEF RunRows
  <2> QED BY <2>1, RowTypes DEF JobTypes, RunTerminal
<1>1. ASSUME NEW r \in Runs, Enqueue(r) PROVE OK
  <2>1. [NoRun EXCEPT !.status = "queued"] \in RunRows
    BY DEF NoRun, RunRows, RunInFlight
  <2> QED BY <1>1, <1>a, <2>1 DEF Enqueue, CreateRun
<1>2. ASSUME NEW r \in Runs, ProtectRun(r) PROVE OK
  BY <1>2, <1>a, RowWrites DEF ProtectRun
<1>3. ASSUME NEW r \in Runs, SweepHeartbeat(r) PROVE OK
  BY <1>3, <1>a, <1>c DEF SweepHeartbeat
<1>4. ASSUME NEW w \in Workers, Claim(w) PROVE OK
  <2>1. job[w].run \in Runs
    BY <1>b, <1>4 DEF Claim, CapturePcs
  <2>2. \/ run' = run
        \/ run' = [run EXCEPT ![job[w].run].status = "preparing", ![job[w].run].lease = "open"]
    BY <1>4 DEF Claim, ClaimExecution
  <2> QED BY <2>1, <2>2, <1>a, RowWrites
<1>5. ASSUME NEW w \in Workers, Snapshot(w) PROVE OK
  <2>1. job[w].run \in Runs
    BY <1>b, <1>5 DEF Snapshot, CapturePcs
  <2>2. \/ run' = run
        \/ run' = [run EXCEPT ![job[w].run].status = "snapshotting"]
    BY <1>5 DEF Snapshot, Refused
  <2> QED BY <2>1, <2>2, <1>a, RowWrites
<1>6. ASSUME NEW w \in Workers, StartUpload(w) PROVE OK
  <2>1. job[w].run \in Runs
    BY <1>b, <1>6 DEF StartUpload, CapturePcs
  <2>2. \/ run' = run
        \/ run' = [run EXCEPT ![job[w].run].status = "uploading"]
    BY <1>6 DEF StartUpload, Refused
  <2> QED BY <2>1, <2>2, <1>a, RowWrites
<1>7. ASSUME NEW w \in Workers, RecordArtifacts(w) PROVE OK
  <2>1. job[w].run \in Runs /\ job[w].kept \in SUBSET Objects
    BY <1>b, <1>7 DEF RecordArtifacts, CapturePcs, JobTypes, JobTypeOK, Jobs
  <2>2. \/ run' = run
        \/ run' = [run EXCEPT ![job[w].run].status = "uploading"]
        \/ run' = [run EXCEPT ![job[w].run].status = "uploading", ![job[w].run].artifacts = job[w].kept]
    BY <1>7 DEF RecordArtifacts, Refused
  <2>3. /\ [run[job[w].run] EXCEPT !.status = "uploading", !.artifacts = job[w].kept] \in RunRows
        /\ [run[job[w].run] EXCEPT !.status = "uploading"] \in RunRows
    BY <2>1, <1>a, RowWrites
  <2> QED BY <2>1, <2>2, <2>3, <1>a
<1>8. ASSUME NEW w \in Workers, Verify(w) PROVE OK
  <2>1. job[w].run \in Runs
    BY <1>b, <1>8 DEF Verify, CapturePcs
  <2>2. \/ run' = run
        \/ run' = [run EXCEPT ![job[w].run].status = "verifying"]
    BY <1>8 DEF Verify, Refused
  <2> QED BY <2>1, <2>2, <1>a, RowWrites
<1>9. ASSUME NEW w \in Workers, Succeed(w) PROVE OK
  <2>1. job[w].run \in Runs
    BY <1>b, <1>9 DEF Succeed, CapturePcs
  <2>2. \/ run' = run
        \/ run' = [run EXCEPT ![job[w].run] = Decide(job[w].run, "succeeded")]
    BY <1>9 DEF Succeed, Refused
  <2> QED BY <2>1, <2>2, <1>a, <1>c
<1>10. ASSUME NEW w \in Workers, RecordSuccess(w) PROVE OK
  <2>1. job[w].run \in Runs /\ job[w].kept \in SUBSET Objects
    BY <1>b, <1>10 DEF RecordSuccess, CapturePcs, JobTypes, JobTypeOK, Jobs
  <2>2. run[job[w].run].artifacts \in SUBSET Objects
    BY <2>1, <1>a DEF RunRows
  <2>3. \E S \in SUBSET Objects, m \in BOOLEAN :
          run' = [run EXCEPT ![job[w].run].artifacts = S, ![job[w].run].manifest = m]
    BY <1>10, <2>1, <2>2 DEF RecordSuccess
  <2>4. PICK S \in SUBSET Objects, m \in BOOLEAN :
          run' = [run EXCEPT ![job[w].run].artifacts = S, ![job[w].run].manifest = m]
    BY <2>3
  <2>5. [run[job[w].run] EXCEPT !.artifacts = S, !.manifest = m] \in RunRows
    BY <2>1, <1>a, RowWrites
  <2> QED BY <2>1, <2>4, <2>5, <1>a
<1>11. ASSUME NEW w \in Workers, Fail(w) PROVE OK
  <2>1. job[w].run \in Runs
    BY <1>b, <1>11 DEF Fail, CapturePcs
  <2>2. \/ run' = run
        \/ run' = [run EXCEPT ![job[w].run] = [Decide(job[w].run, "failed") EXCEPT !.artifacts = {}]]
    BY <1>11 DEF Fail
  <2> QED BY <2>1, <2>2, <1>a, <1>c
<1>12. ASSUME NEW w \in Workers, Finish(w) PROVE OK
  <2>1. job[w].run \in Runs
    BY <1>b, <1>12 DEF Finish, CapturePcs
  <2>2. run' = [run EXCEPT ![job[w].run] = Acknowledged(run[job[w].run])]
    BY <1>12 DEF Finish
  <2> QED BY <2>1, <2>2, <1>a, <1>c
<1>13. ASSUME NEW w \in Workers, Drop(w) PROVE OK
  <2>1. job[w].run \in Runs
    BY <1>b, <1>13 DEF Drop, CapturePcs
  <2>2. run' = [run EXCEPT ![job[w].run].deleted = TRUE]
    BY <1>13 DEF Drop
  <2> QED BY <2>1, <2>2, <1>a, RowWrites
<1>14. ASSUME NEW w \in Workers,
              \/ TakePolicyLock(w) \/ TakeProjectLock(w) \/ UploadBlock(w) \/ FinishBlocks(w)
              \/ FailCapture(w) \/ Reclaim(w) \/ StartSweep(w) \/ Survey(w) \/ LockVictim(w)
              \/ Erase(w) \/ EndPrune(w)
       PROVE  OK
  <2>1. run' = run
    BY <1>14 DEF TakePolicyLock, TakeProjectLock, UploadBlock, FinishBlocks, FailCapture, Reclaim,
       StartSweep, Survey, LockVictim, Erase, EndPrune, store
  <2> QED BY <2>1, <1>a
<1>15. ASSUME EditPolicy \/ \E w \in Workers, r \in Runs : Deliver(w, r) PROVE OK
  BY <1>15, <1>a DEF EditPolicy, Deliver, store
<1> HIDE DEF OK
<1> QED
  BY <1>1, <1>2, <1>3, <1>4, <1>5, <1>6, <1>7, <1>8, <1>9, <1>10, <1>11, <1>12,
     <1>13, <1>14, <1>15
  DEF JobNext, Trigger, Capture, Prune

(* What they write to the slots.                                           *)
LEMMA JobsTyped ==
  ASSUME JobTypes, JobNext
  PROVE  job' \in [Workers -> Jobs]
<1> DEFINE OK == job' \in [Workers -> Jobs]
<1> SUFFICES OK OBVIOUS
<1>a. job \in [Workers -> Jobs]
  BY DEF JobTypes, JobTypeOK
<1>b. \A w \in Workers : /\ job[w].kept \in SUBSET Objects
                         /\ job[w].uploaded \in SUBSET Objects
                         /\ job[w].old \in SUBSET Objects
                         /\ job[w].content \in SUBSET Blocks
                         /\ job[w].victims \in SUBSET Runs
                         /\ job[w].plan \in [Runs -> SUBSET Objects]
  BY <1>a DEF Jobs
<1>c. IdleJob \in Jobs /\ [IdleJob EXCEPT !.pc = "prune"] \in Jobs
  BY DEF IdleJob, JobPcs, Jobs
<1>d. LatestArtifacts \subseteq Objects /\ \A r \in Runs : Keys(r) \subseteq Objects
  BY RowTypes DEF JobTypes
<1>e. \A w \in Workers : job[w].pc \in {"blocks", "verify", "erase", "drop"} => job[w].run \in Runs
  BY DEF JobTypes, Named, CapturePcs
<1>f. \A w \in Workers, pc \in {"project", "claim", "snapshot", "upload", "verify", "payload", "reclaim",
                               "fail", "finish", "prune", "survey", "erase", "drop"} :
        [job[w] EXCEPT !.pc = pc] \in Jobs
  <2>1. ASSUME NEW pc \in {"project", "claim", "snapshot", "upload", "verify", "payload", "reclaim",
                          "fail", "finish", "prune", "survey", "erase", "drop"}
        PROVE  pc \in JobPcs
    BY DEF JobPcs, CapturePcs, PrunePcs
  <2> QED BY <1>a, <2>1, JobWrites
<1>g. ASSUME NEW w \in Workers, Refused(w) PROVE OK
  <2>1. [job[w] EXCEPT !.pc = "reclaim", !.elsewhere = TRUE] \in Jobs
    BY <1>a, JobWrites
  <2>2. job' = [job EXCEPT ![w].pc = "reclaim", ![w].elsewhere = TRUE]
    BY <1>g DEF Refused
  <2> QED BY <1>a, <2>1, <2>2
<1>h. ASSUME NEW w \in Workers, NEW row \in Jobs, job' = [job EXCEPT ![w] = row] PROVE OK
  BY <1>a, <1>h
<1>1. ASSUME NEW w \in Workers, NEW r \in Runs, Deliver(w, r) PROVE OK
  <2>1. incremental \in BOOLEAN
    BY DEF JobTypes, StoreTypeOK
  <2>2. [IdleJob EXCEPT !.run = r, !.frozen = incremental,
                        !.pc = IF incremental THEN "policy" ELSE "project"] \in Jobs
    <3>1. CASE incremental
      <4>1. [IdleJob EXCEPT !.run = r, !.frozen = incremental, !.pc = "policy"] \in Jobs
        BY <1>c, <2>1, ZenonT(30) DEF Jobs, JobPcs
      <4> QED BY <3>1, <4>1
    <3>2. CASE ~incremental
      <4>1. [IdleJob EXCEPT !.run = r, !.frozen = incremental, !.pc = "project"] \in Jobs
        BY <1>c, <2>1, ZenonT(30) DEF Jobs, JobPcs
      <4> QED BY <3>2, <4>1
    <3> QED BY <3>1, <3>2
  <2> QED BY <1>1, <1>h, <2>2 DEF Deliver
<1>2. ASSUME NEW w \in Workers, NEW pc \in {"project", "claim", "snapshot", "upload", "verify", "payload",
                                            "reclaim", "fail", "finish", "prune", "survey", "drop"},
             Goto(w, pc)
      PROVE  OK
  BY <1>2, <1>a, <1>f DEF Goto
<1>3. ASSUME NEW w \in Workers,
             TakePolicyLock(w) \/ TakeProjectLock(w) \/ FailCapture(w) \/ StartSweep(w)
      PROVE  OK
  <2>1. \E pc \in {"project", "survey", "claim", "reclaim", "prune"} : Goto(w, pc)
    BY <1>3 DEF TakePolicyLock, TakeProjectLock, FailCapture, StartSweep
  <2> QED BY <1>2, <2>1
<1>4. ASSUME NEW w \in Workers, Claim(w) PROVE OK
  <2>1. Goto(w, "snapshot") \/ job' = [job EXCEPT ![w] = IdleJob]
    BY <1>4 DEF Claim
  <2> QED BY <1>2, <1>h, <1>c, <2>1
<1>5. ASSUME NEW w \in Workers, Snapshot(w) \/ RecordArtifacts(w) \/ Succeed(w) \/ Reclaim(w) \/ Fail(w)
      PROVE  OK
  <2>1. \/ Refused(w)
        \/ \E pc \in {"upload", "verify", "payload", "reclaim", "fail", "finish"} : Goto(w, pc)
    BY <1>5 DEF Snapshot, RecordArtifacts, Succeed, Reclaim, Fail
  <2> QED BY <1>2, <1>g, <2>1
<1>6. ASSUME NEW w \in Workers, StartUpload(w) PROVE OK
  <2>1. CASE ~Refused(w)
    <3>1. PICK content \in SUBSET Blocks :
            job' = [job EXCEPT ![w].pc = "blocks", ![w].content = content,
                      ![w].old = IF job[w].frozen THEN LatestArtifacts ELSE {}]
      BY <1>6, <2>1 DEF StartUpload
    <3> DEFINE old == IF job[w].frozen THEN LatestArtifacts ELSE {}
    <3>2. old \in SUBSET Objects
      BY <1>d
    <3> HIDE DEF old
    <3>3. [job[w] EXCEPT !.pc = "blocks", !.content = content, !.old = old] \in Jobs
      BY <1>a, <3>2, JobWrites
    <3>4. job' = [job EXCEPT ![w] = [job[w] EXCEPT !.pc = "blocks", !.content = content, !.old = old]]
      BY <1>a, <3>1 DEF old
    <3> QED BY <1>h, <3>3, <3>4
  <2> QED BY <1>g, <2>1
<1>7. ASSUME NEW w \in Workers, UploadBlock(w) PROVE OK
  <2>1. PICK b \in job[w].content :
          job' = [job EXCEPT ![w].kept = @ \cup {ObjectFor(w, b)},
                             ![w].uploaded = @ \cup ({ObjectFor(w, b)} \ job[w].old)]
    BY <1>7 DEF UploadBlock
  <2>2. ObjectFor(w, b) \in Objects
    <3>1. job[w].run \in Runs /\ b \in Blocks /\ job[w].old \subseteq Objects
      BY <1>7, <1>b, <1>e DEF UploadBlock
    <3>2. Own(job[w].run, b) \in Objects
      BY <3>1 DEF Own, Objects
    <3> QED BY <3>1, <3>2 DEF ObjectFor
  <2> DEFINE kept == job[w].kept \cup {ObjectFor(w, b)}
             uploaded == job[w].uploaded \cup ({ObjectFor(w, b)} \ job[w].old)
  <2>3. kept \in SUBSET Objects /\ uploaded \in SUBSET Objects
    BY <1>b, <2>2
  <2>4. job' = [job EXCEPT ![w].kept = kept, ![w].uploaded = uploaded]
    BY <2>1
  <2> HIDE DEF kept, uploaded
  <2>5. [job[w] EXCEPT !.kept = kept, !.uploaded = uploaded] \in Jobs
    BY <1>a, <2>3, JobWrites
  <2>6. job' = [job EXCEPT ![w] = [job[w] EXCEPT !.kept = kept, !.uploaded = uploaded]]
    BY <1>a, <2>4
  <2> QED BY <1>h, <2>5, <2>6
<1>8. ASSUME NEW w \in Workers, FinishBlocks(w) PROVE OK
  <2> DEFINE index == IF job[w].frozen THEN {Own(job[w].run, "index")} ELSE {}
             kept == job[w].kept \cup index
             uploaded == job[w].uploaded \cup index
  <2>1. index \subseteq Objects
    <3>1. job[w].run \in Runs
      BY <1>8, <1>e DEF FinishBlocks
    <3> QED BY <3>1 DEF Own, Objects
  <2>2. kept \in SUBSET Objects /\ uploaded \in SUBSET Objects
    BY <1>b, <2>1
  <2>3. job' = [job EXCEPT ![w].pc = "record", ![w].kept = kept, ![w].uploaded = uploaded]
    BY <1>8 DEF FinishBlocks
  <2> HIDE DEF kept, uploaded
  <2>4. [job[w] EXCEPT !.pc = "record", !.kept = kept, !.uploaded = uploaded] \in Jobs
    BY <1>a, <2>2, JobWrites
  <2>5. job' = [job EXCEPT ![w] = [job[w] EXCEPT !.pc = "record", !.kept = kept, !.uploaded = uploaded]]
    BY <1>a, <2>3
  <2> QED BY <1>h, <2>4, <2>5
<1>9. ASSUME NEW w \in Workers, Verify(w) PROVE OK
  <2> DEFINE uploaded == job[w].uploaded \cup {Own(job[w].run, "manifest")}
  <2>1. CASE ~Refused(w)
    <3>1. uploaded \in SUBSET Objects
      <4>1. job[w].run \in Runs
        BY <1>9, <1>e DEF Verify
      <4> QED BY <1>b, <4>1 DEF Own, Objects
    <3>2. job' = [job EXCEPT ![w].pc = "succeed", ![w].uploaded = uploaded]
      BY <1>9, <2>1 DEF Verify
    <3> HIDE DEF uploaded
    <3>3. [job[w] EXCEPT !.pc = "succeed", !.uploaded = uploaded] \in Jobs
      BY <1>a, <3>1, JobWrites
    <3> QED BY <1>a, <1>h, <3>2, <3>3
  <2> QED BY <1>g, <2>1
<1>10. ASSUME NEW w \in Workers, RecordSuccess(w) PROVE OK
  <2>1. [job[w] EXCEPT !.pc = "finish", !.completed = TRUE] \in Jobs
    BY <1>a, JobWrites
  <2>2. job' = [job EXCEPT ![w].pc = "finish", ![w].completed = TRUE]
    BY <1>10 DEF RecordSuccess
  <2> QED BY <1>a, <2>1, <2>2
<1>11. ASSUME NEW w \in Workers, Finish(w) PROVE OK
  <2>1. [IdleJob EXCEPT !.pc = IF job[w].completed THEN "prune" ELSE "idle"]
          \in {[IdleJob EXCEPT !.pc = "prune"], [IdleJob EXCEPT !.pc = "idle"]}
    BY Zenon
  <2>2. [IdleJob EXCEPT !.pc = "idle"] \in Jobs
    BY DEF IdleJob, JobPcs, Jobs
  <2> QED BY <1>11, <1>c, <1>h, <2>1, <2>2 DEF Finish
<1>12. ASSUME NEW w \in Workers, Survey(w) PROVE OK
  <2> DEFINE plan == [r \in Runs |-> IF r \in Restorable THEN Keys(r) ELSE {}]
  <2>1. Excess \in SUBSET Runs
    BY DEF Excess, Candidates, Restorable
  <2>2. plan \in [Runs -> SUBSET Objects]
    BY <1>d
  <2>3. job' = [job EXCEPT ![w].pc = "victim", ![w].victims = Excess, ![w].plan = plan]
    BY <1>12 DEF Survey
  <2> HIDE DEF plan
  <2>4. [job[w] EXCEPT !.pc = "victim", !.victims = Excess, !.plan = plan] \in Jobs
    BY <1>a, <2>1, <2>2, JobWrites
  <2> QED BY <1>a, <1>h, <2>3, <2>4
<1>13. ASSUME NEW w \in Workers, LockVictim(w) PROVE OK
  <2>1. NextVictim(w) \in Runs
    BY <1>13, VictimIsChosen DEF LockVictim, JobTypes
  <2>2. job[w].victims \ {NextVictim(w)} \in SUBSET Runs
    BY <1>b
  <2>3. /\ [job[w] EXCEPT !.pc = "erase", !.run = NextVictim(w)] \in Jobs
        /\ [job[w] EXCEPT !.victims = job[w].victims \ {NextVictim(w)}] \in Jobs
    <3>1. "erase" \in JobPcs
      BY DEF JobPcs, PrunePcs
    <3> QED BY <1>a, <2>1, <2>2, <3>1, JobWrites
  <2>4. \/ job' = [job EXCEPT ![w].pc = "erase", ![w].run = NextVictim(w)]
        \/ job' = [job EXCEPT ![w].victims = job[w].victims \ {NextVictim(w)}]
    BY <1>13 DEF LockVictim
  <2> QED BY <1>a, <2>3, <2>4
<1>14. ASSUME NEW w \in Workers, NEW p \in [Runs -> SUBSET Objects], LeaveVictim(w, p) PROVE OK
  <2> DEFINE left == job[w].victims \ {job[w].run}
  <2>1. left \in SUBSET Runs
    BY <1>b
  <2>2. job' = [job EXCEPT ![w].pc = "victim", ![w].run = Nobody, ![w].plan = p, ![w].victims = left]
    BY <1>14 DEF LeaveVictim
  <2> HIDE DEF left
  <2>3. [job[w] EXCEPT !.pc = "victim", !.run = Nobody, !.plan = p, !.victims = left] \in Jobs
    BY <1>a, <2>1, JobWrites
  <2> QED BY <1>a, <1>h, <2>2, <2>3
<1>15. ASSUME NEW w \in Workers, Erase(w) PROVE OK
  <2>1. Goto(w, "drop") \/ LeaveVictim(w, job[w].plan)
    BY <1>15 DEF Erase
  <2> QED BY <1>b, <1>2, <1>14, <2>1
<1>16. ASSUME NEW w \in Workers, Drop(w) PROVE OK
  <2>1. [job[w].plan EXCEPT ![job[w].run] = {}] \in [Runs -> SUBSET Objects]
    BY <1>b
  <2>2. LeaveVictim(w, [job[w].plan EXCEPT ![job[w].run] = {}])
    BY <1>16 DEF Drop
  <2> QED BY <1>14, <2>1, <2>2
<1>17. ASSUME NEW w \in Workers, EndPrune(w) PROVE OK
  BY <1>17, <1>c, <1>h DEF EndPrune
<1>18. ASSUME Trigger PROVE OK
  BY <1>18, <1>a DEF Trigger, Enqueue, ProtectRun, SweepHeartbeat, EditPolicy
<1> HIDE DEF OK
<1> QED
  BY <1>1, <1>3, <1>4, <1>5, <1>6, <1>7, <1>8, <1>9, <1>10, <1>11, <1>12, <1>13, <1>15, <1>16,
     <1>17, <1>18
  DEF JobNext, Capture, Prune

LEMMA JobsNamed ==
  ASSUME JobTypes, JobNext
  PROVE  Named'
<1> DEFINE Naming == {"policy", "project", "claim", "erase", "drop"} \cup CapturePcs
<1> DEFINE OK == \A w \in Workers : job'[w].pc \in Naming => job'[w].run \in Runs
<1> SUFFICES OK BY DEF Named
<1>a. job \in [Workers -> Jobs] /\ \A w \in Workers : job[w].pc \in Naming => job[w].run \in Runs
  BY DEF JobTypes, JobTypeOK, Named
<1>b. \A w \in Workers : DOMAIN job[w] = {"pc", "run", "frozen", "content", "old", "kept", "uploaded",
                                          "elsewhere", "completed", "plan", "victims"}
  BY <1>a DEF Jobs
<1>1. ASSUME NEW w \in Workers, NEW row, job' = [job EXCEPT ![w] = row],
             row.pc \notin Naming \/ row.run \in Runs
      PROVE  OK
  BY <1>1, <1>a
<1>2. ASSUME NEW w \in Workers, NEW pc, Goto(w, pc), pc \notin Naming \/ job[w].pc \in Naming
      PROVE  OK
  <2>1. /\ \A x \in Workers \ {w} : job'[x] = job[x]
        /\ job'[w].pc = pc /\ job'[w].run = job[w].run
    BY <1>2, <1>a, <1>b DEF Goto
  <2> QED BY <1>a, <1>2, <2>1
<1>3. ASSUME NEW w \in Workers, job[w].pc \in Naming, job'[w].run = job[w].run,
             \A x \in Workers \ {w} : job'[x] = job[x]
      PROVE  OK
  BY <1>3, <1>a
<1>4. "idle" \notin Naming /\ "prune" \notin Naming /\ "survey" \notin Naming /\ "victim" \notin Naming
  BY DEF CapturePcs
<1>5. CapturePcs \subseteq Naming
  OBVIOUS
<1>6. ASSUME NEW w \in Workers, NEW r \in Runs, Deliver(w, r) PROVE OK
  <2> DEFINE row == [IdleJob EXCEPT !.run = r, !.frozen = incremental,
                                    !.pc = IF incremental THEN "policy" ELSE "project"]
  <2>1. row.run = r
    BY DEF IdleJob
  <2>2. job' = [job EXCEPT ![w] = row]
    BY <1>6 DEF Deliver
  <2> HIDE DEF row
  <2> QED BY <1>1, <2>1, <2>2
<1>7. ASSUME NEW w \in Workers, TakePolicyLock(w) \/ TakeProjectLock(w) \/ StartSweep(w) PROVE OK
  <2>1. \/ Goto(w, "project") /\ job[w].pc \in Naming
        \/ Goto(w, "survey") \/ Goto(w, "prune")
        \/ Goto(w, "claim") /\ job[w].pc \in Naming
    BY <1>7 DEF TakePolicyLock, TakeProjectLock, StartSweep
  <2> QED BY <1>2, <1>4, <2>1
<1>8. ASSUME NEW w \in Workers,
             Snapshot(w) \/ RecordArtifacts(w) \/ Succeed(w) \/ FailCapture(w) \/ Reclaim(w) \/ Fail(w)
      PROVE  OK
  <2>1. job[w].pc \in Naming
    BY <1>8 DEF Snapshot, RecordArtifacts, Succeed, FailCapture, Reclaim, Fail, CapturePcs
  <2>2. Refused(w) \/ \E pc : Goto(w, pc)
    BY <1>8 DEF Snapshot, RecordArtifacts, Succeed, FailCapture, Reclaim, Fail
  <2>3. ASSUME Refused(w) PROVE OK
    <3>1. job' = [job EXCEPT ![w].pc = "reclaim", ![w].elsewhere = TRUE]
      BY <2>3 DEF Refused
    <3>2. job'[w].run = job[w].run /\ \A x \in Workers \ {w} : job'[x] = job[x]
      BY <3>1, <1>a
    <3> QED BY <1>3, <2>1, <3>2
  <2> QED BY <1>2, <2>1, <2>2, <2>3
<1>9. ASSUME NEW w \in Workers,
             StartUpload(w) \/ UploadBlock(w) \/ FinishBlocks(w) \/ Verify(w) \/ RecordSuccess(w)
      PROVE  OK
  <2> DEFINE Same == job'[w].run = job[w].run /\ \A x \in Workers \ {w} : job'[x] = job[x]
  <2>1. job[w].pc \in Naming
    BY <1>9 DEF StartUpload, UploadBlock, FinishBlocks, Verify, RecordSuccess, CapturePcs
  <2>2. ASSUME StartUpload(w) PROVE Same
    <3>1. CASE Refused(w)
      BY <3>1, <1>a DEF Refused
    <3>2. CASE ~Refused(w)
      <4>1. PICK content : job' = [job EXCEPT ![w].pc = "blocks", ![w].content = content,
                              ![w].old = IF job[w].frozen THEN LatestArtifacts ELSE {}]
        BY <2>2, <3>2 DEF StartUpload
      <4> QED BY <4>1, <1>a
    <3> QED BY <3>1, <3>2
  <2>3. ASSUME UploadBlock(w) PROVE Same
    <3>1. \E o, new : job' = [job EXCEPT ![w].kept = @ \cup {o}, ![w].uploaded = @ \cup new]
      BY <2>3 DEF UploadBlock
    <3> QED BY <3>1, <1>a
  <2>4. ASSUME FinishBlocks(w) PROVE Same
    BY <2>4, <1>a DEF FinishBlocks
  <2>5. ASSUME Verify(w) PROVE Same
    <3>1. CASE Refused(w)
      BY <3>1, <1>a DEF Refused
    <3>2. CASE ~Refused(w)
      <4>1. job' = [job EXCEPT ![w].pc = "succeed",
                               ![w].uploaded = @ \cup {Own(job[w].run, "manifest")}]
        BY <2>5, <3>2 DEF Verify
      <4> QED BY <4>1, <1>a
    <3> QED BY <3>1, <3>2
  <2>6. ASSUME RecordSuccess(w) PROVE Same
    BY <2>6, <1>a DEF RecordSuccess
  <2>7. Same
    BY <1>9, <2>2, <2>3, <2>4, <2>5, <2>6
  <2> QED BY <1>3, <2>1, <2>7
<1>10. ASSUME NEW w \in Workers, Claim(w) \/ Finish(w) \/ EndPrune(w) PROVE OK
  <2>1. IdleJob.pc = "idle" /\ \A pc : [IdleJob EXCEPT !.pc = pc].pc = pc
    BY DEF IdleJob
  <2>2. \/ Goto(w, "snapshot") /\ job[w].pc \in Naming
        \/ job' = [job EXCEPT ![w] = IdleJob]
        \/ job' = [job EXCEPT ![w] = [IdleJob EXCEPT !.pc = "prune"]]
        \/ job' = [job EXCEPT ![w] = [IdleJob EXCEPT !.pc = "idle"]]
    BY <1>10 DEF Claim, Finish, EndPrune, CapturePcs
  <2> QED BY <1>1, <1>2, <1>4, <2>1, <2>2
<1>11. ASSUME NEW w \in Workers, Survey(w) PROVE OK
  <2>1. /\ \A x \in Workers \ {w} : job'[x] = job[x]
        /\ job'[w].pc = "victim"
    BY <1>11, <1>a, <1>b DEF Survey
  <2> QED BY <1>4, <1>a, <2>1
<1>12. ASSUME NEW w \in Workers, LockVictim(w) PROVE OK
  <2>1. NextVictim(w) \in Runs
    BY <1>12, VictimIsChosen DEF LockVictim, JobTypes
  <2>2. \/ job' = [job EXCEPT ![w].pc = "erase", ![w].run = NextVictim(w)]
        \/ job' = [job EXCEPT ![w].victims = job[w].victims \ {NextVictim(w)}]
    BY <1>12 DEF LockVictim
  <2>3. job[w].pc = "victim"
    BY <1>12 DEF LockVictim
  <2>4. /\ \A x \in Workers \ {w} : job'[x] = job[x]
        /\ job'[w].run = NextVictim(w) \/ job'[w].pc = "victim"
    BY <1>a, <1>b, <2>2, <2>3
  <2> QED BY <1>4, <1>a, <2>1, <2>4
<1>13. ASSUME NEW w \in Workers, Erase(w) \/ Drop(w) PROVE OK
  <2>1. \/ Goto(w, "drop") /\ job[w].pc \in Naming
        \/ \E p : LeaveVictim(w, p)
    BY <1>13 DEF Erase, Drop
  <2>2. ASSUME NEW p, LeaveVictim(w, p) PROVE OK
    <3>1. /\ \A x \in Workers \ {w} : job'[x] = job[x]
          /\ job'[w].pc = "victim"
      BY <2>2, <1>a, <1>b DEF LeaveVictim
    <3> QED BY <1>4, <1>a, <3>1
  <2> QED BY <1>2, <2>1, <2>2
<1>14. ASSUME Trigger PROVE OK
  BY <1>14, <1>a DEF Trigger, Enqueue, ProtectRun, SweepHeartbeat, EditPolicy
<1> HIDE DEF OK
<1> QED
  BY <1>6, <1>7, <1>8, <1>9, <1>10, <1>11, <1>12, <1>13, <1>14
  DEF JobNext, Capture, Prune

(* A fault counts, and none is shown beyond the bound.                     *)
LEMMA FaultsBounded ==
  ASSUME faults \in 0..MaxFaults, NEW k, Fault(k)
  PROVE  faults' \in 0..MaxFaults
BY FaultsAssumption DEF Fault

(* The rest of what they write.                                            *)
LEMMA JobsKeepStore ==
  ASSUME JobTypes, JobNext
  PROVE  StoreTypeOK'
<1> DEFINE OK == /\ stored' \subseteq Objects
                 /\ incremental' \in BOOLEAN
                 /\ policyLock' \in Workers \cup {Nobody}
                 /\ projectLock' \in Workers \cup Restores \cup {Nobody, "teardown"}
                 /\ runLock' \in [Runs -> Workers \cup Restores \cup {Nobody}]
                 /\ faults' \in 0..MaxFaults
                 /\ restore' = restore /\ phase' = phase
<1> SUFFICES OK
  BY RunsTyped DEF JobTypes, StoreTypeOK
<1>a. /\ stored \subseteq Objects
      /\ incremental \in BOOLEAN
      /\ policyLock \in Workers \cup {Nobody}
      /\ projectLock \in Workers \cup Restores \cup {Nobody, "teardown"}
      /\ runLock \in [Runs -> Workers \cup Restores \cup {Nobody}]
      /\ faults \in 0..MaxFaults
  BY DEF JobTypes, StoreTypeOK
<1>b. \A w \in Workers : job[w].old \subseteq Objects /\ job[w].content \subseteq Blocks
  BY DEF JobTypes, JobTypeOK, Jobs
<1>c. \A w \in Workers : job[w].pc \in {"blocks", "verify"} => job[w].run \in Runs
  BY DEF JobTypes, Named, CapturePcs
<1>1. ASSUME NEW w \in Workers,
             \/ Claim(w) \/ StartUpload(w) \/ FailCapture(w) \/ Fail(w) \/ Finish(w)
             \/ EndPrune(w) \/ StartSweep(w) \/ Survey(w) \/ TakePolicyLock(w)
             \/ TakeProjectLock(w) \/ Snapshot(w)
      PROVE  OK
  BY <1>1, <1>a
  DEF Claim, StartUpload, FailCapture, Fail, Finish, EndPrune, StartSweep, Survey, Refused,
     TakePolicyLock, TakeProjectLock, Snapshot, ReleasePolicy, store, locks
<1>2. ASSUME NEW w \in Workers,
             Succeed(w) \/ Reclaim(w) \/ RecordArtifacts(w) \/ RecordSuccess(w)
      PROVE  OK
  <2>1. faults' = faults \/ \E k : Fault(k)
    BY <1>2 DEF Succeed, Reclaim, RecordArtifacts, RecordSuccess
  <2>2. stored' \subseteq stored
    BY <1>2 DEF Succeed, Reclaim, Refused, RecordArtifacts, RecordSuccess
  <2> QED BY <1>2, <1>a, <2>1, <2>2, FaultsBounded
    DEF Succeed, Reclaim, RecordArtifacts, RecordSuccess, Refused, locks
<1>3. ASSUME NEW w \in Workers, UploadBlock(w) PROVE OK
  <2>1. PICK b \in job[w].content : stored' = stored \cup ({ObjectFor(w, b)} \ job[w].old)
    BY <1>3 DEF UploadBlock
  <2>2. Own(job[w].run, b) \in Objects
    BY <1>3, <1>b, <1>c DEF UploadBlock, Own, Objects
  <2>3. ObjectFor(w, b) \in Objects
    BY <1>b, <2>2 DEF ObjectFor
  <2> QED BY <1>3, <1>a, <2>1, <2>3 DEF UploadBlock, locks
<1>4. ASSUME NEW w \in Workers, FinishBlocks(w) \/ Verify(w) PROVE OK
  <2>1. /\ Own(job[w].run, "index") \in Objects
        /\ Own(job[w].run, "manifest") \in Objects
    BY <1>4, <1>c DEF FinishBlocks, Verify, Own, Objects
  <2>2. \/ stored' = stored
        \/ stored' = stored \cup {Own(job[w].run, "index")}
        \/ stored' = stored \cup {Own(job[w].run, "manifest")}
    BY <1>4 DEF FinishBlocks, Verify, Refused
  <2> QED BY <1>4, <1>a, <2>1, <2>2 DEF FinishBlocks, Verify, locks
<1>5. ASSUME NEW w \in Workers, LockVictim(w) \/ Drop(w) PROVE OK
  <2>1. \E r, x : /\ x \in {w, Nobody}
                  /\ runLock' = [runLock EXCEPT ![r] = x] \/ runLock' = runLock
    BY <1>5 DEF LockVictim, Drop, LeaveVictim
  <2> QED BY <1>5, <1>a, <2>1 DEF LockVictim, Drop
<1>6. ASSUME NEW w \in Workers, Erase(w) PROVE OK
  <2>1. stored' \subseteq stored
    BY <1>6 DEF Erase
  <2>2. runLock' = runLock \/ \E r : runLock' = [runLock EXCEPT ![r] = Nobody]
    BY <1>6 DEF Erase, LeaveVictim
  <2>3. faults' = faults \/ \E k : Fault(k)
    BY <1>6 DEF Erase
  <2> QED BY <1>6, <1>a, <2>1, <2>2, <2>3, FaultsBounded DEF Erase
<1>7. ASSUME NEW w \in Workers, NEW r \in Runs, Deliver(w, r) PROVE OK
  BY <1>7, <1>a DEF Deliver, store, locks
<1>8. ASSUME Trigger PROVE OK
  <2>1. faults' = faults \/ \E k : Fault(k)
    BY <1>8 DEF Trigger, Enqueue, ProtectRun, SweepHeartbeat, EditPolicy
  <2> QED BY <1>8, <1>a, <2>1, FaultsBounded
    DEF Trigger, Enqueue, ProtectRun, SweepHeartbeat, EditPolicy, locks
<1> HIDE DEF OK
<1> QED
  BY <1>1, <1>2, <1>3, <1>4, <1>5, <1>6, <1>7, <1>8 DEF JobNext, Capture, Prune

LEMMA JobTypesKept ==
  ASSUME JobTypes, JobNext
  PROVE  JobTypes'
BY JobsTyped, JobsNamed, JobsKeepStore DEF JobTypes, JobTypeOK

-----------------------------------------------------------------------------
(* Restores.                                                               *)

LEMMA RestoreWrites ==
  ASSUME restore \in [Restores -> RestoreRows], NEW s \in Restores
  PROVE  /\ \A st \in RestoreActive \cup RestoreTerminal :
              [restore[s] EXCEPT !.status = st] \in RestoreRows
         /\ [restore[s] EXCEPT !.status = "cancelled", !.destructive = FALSE] \in RestoreRows
         /\ [restore[s] EXCEPT !.cancel = TRUE] \in RestoreRows
         /\ [restore[s] EXCEPT !.destructive = TRUE] \in RestoreRows
         /\ \A d, p, e \in BOOLEAN :
              [restore[s] EXCEPT !.destructive = d, !.partial = p, !.down = e] \in RestoreRows
         /\ \A r \in Runs : [NoRestore EXCEPT !.status = "queued", !.run = r] \in RestoreRows
<1>1. \A st \in RestoreActive \cup RestoreTerminal : [restore[s] EXCEPT !.status = st] \in RestoreRows
  BY ZenonT(30) DEF RestoreRows
<1>2. [restore[s] EXCEPT !.status = "cancelled", !.destructive = FALSE] \in RestoreRows
  BY ZenonT(30) DEF RestoreRows, RestoreTerminal
<1>3. [restore[s] EXCEPT !.cancel = TRUE] \in RestoreRows
  BY ZenonT(30) DEF RestoreRows
<1>4. [restore[s] EXCEPT !.destructive = TRUE] \in RestoreRows
  BY ZenonT(30) DEF RestoreRows
<1>5. \A d, p, e \in BOOLEAN :
        [restore[s] EXCEPT !.destructive = d, !.partial = p, !.down = e] \in RestoreRows
  BY ZenonT(30) DEF RestoreRows
<1>6. \A r \in Runs : [NoRestore EXCEPT !.status = "queued", !.run = r] \in RestoreRows
  BY DEF NoRestore, RestoreRows, RestoreActive, RestoreInFlight
<1> QED BY <1>1, <1>2, <1>3, <1>4, <1>5, <1>6

Verdicts == {"succeeded", "failed", "cancelled"}

LEMMA ApplyWrites ==
  ASSUME apply \in [Restores -> Applies], NEW s \in Restores
  PROVE  /\ NoApply \in Applies
         /\ \A pc \in ApplyPcs : [apply[s] EXCEPT !.pc = pc] \in Applies
         /\ \A pc \in ApplyPcs, v \in Verdicts : [apply[s] EXCEPT !.verdict = v, !.pc = pc] \in Applies
         /\ \A a, b, c \in BOOLEAN :
              [apply[s] EXCEPT !.pc = "stopped", !.running = a, !.stopped = b, !.down = c] \in Applies
         /\ \A a \in BOOLEAN :
              [apply[s] EXCEPT !.pc = "recording", !.running = a, !.verdict = "failed"] \in Applies
         /\ \A pc \in ApplyPcs, v \in Verdicts :
              [apply[s] EXCEPT !.pc = pc, !.verdict = v, !.down = FALSE] \in Applies
         /\ \A v \in Verdicts :
              [apply[s] EXCEPT !.pc = "recording", !.down = FALSE, !.verdict = v] \in Applies
         /\ \A u \in BOOLEAN :
              [apply[s] EXCEPT !.pc = "writing", !.wrote = TRUE, !.unfinished = u] \in Applies
         /\ \A pc \in ApplyPcs, p \in 1..Parts, u \in BOOLEAN :
              [apply[s] EXCEPT !.pc = pc, !.part = p, !.unfinished = u] \in Applies
         /\ [apply[s] EXCEPT !.pc = "unwinding", !.verdict = "failed", !.broken = TRUE] \in Applies
         /\ \A d \in BOOLEAN :
              [apply[s] EXCEPT !.pc = "unwinding", !.verdict = "failed", !.broken = TRUE, !.down = d]
                \in Applies
<1>1. NoApply \in Applies
  <2>1. 1 \in 1..Parts
    BY PayloadAssumption
  <2> QED BY <2>1, ZenonT(30) DEF NoApply, Applies, ApplyPcs
<1>2. \A pc \in ApplyPcs : [apply[s] EXCEPT !.pc = pc] \in Applies
  BY ZenonT(30) DEF Applies
<1>3. \A pc \in ApplyPcs, v \in Verdicts : [apply[s] EXCEPT !.verdict = v, !.pc = pc] \in Applies
  BY ZenonT(30) DEF Applies, Verdicts
<1>4. \A a, b, c \in BOOLEAN :
        [apply[s] EXCEPT !.pc = "stopped", !.running = a, !.stopped = b, !.down = c] \in Applies
  BY ZenonT(30) DEF Applies, ApplyPcs
<1>5. \A a \in BOOLEAN :
        [apply[s] EXCEPT !.pc = "recording", !.running = a, !.verdict = "failed"] \in Applies
  BY ZenonT(30) DEF Applies, ApplyPcs
<1>6. \A pc \in ApplyPcs, v \in Verdicts :
        [apply[s] EXCEPT !.pc = pc, !.verdict = v, !.down = FALSE] \in Applies
  BY ZenonT(30) DEF Applies, Verdicts
<1>7. \A v \in Verdicts :
        [apply[s] EXCEPT !.pc = "recording", !.down = FALSE, !.verdict = v] \in Applies
  BY ZenonT(30) DEF Applies, ApplyPcs, Verdicts
<1>8. \A u \in BOOLEAN :
        [apply[s] EXCEPT !.pc = "writing", !.wrote = TRUE, !.unfinished = u] \in Applies
  BY ZenonT(30) DEF Applies, ApplyPcs
<1>9. \A pc \in ApplyPcs, p \in 1..Parts, u \in BOOLEAN :
        [apply[s] EXCEPT !.pc = pc, !.part = p, !.unfinished = u] \in Applies
  BY ZenonT(30) DEF Applies
<1>10. [apply[s] EXCEPT !.pc = "unwinding", !.verdict = "failed", !.broken = TRUE] \in Applies
  BY ZenonT(30) DEF Applies, ApplyPcs
<1>11. \A d \in BOOLEAN :
         [apply[s] EXCEPT !.pc = "unwinding", !.verdict = "failed", !.broken = TRUE, !.down = d]
           \in Applies
  BY ZenonT(30) DEF Applies, ApplyPcs
<1> QED BY <1>1, <1>2, <1>3, <1>4, <1>5, <1>6, <1>7, <1>8, <1>9, <1>10, <1>11

(* What the steps of a restore write to its row.                           *)
LEMMA RestoreRowsTyped ==
  ASSUME StoreTypeOK, RestoreTypeOK, RestoreNext
  PROVE  restore' \in [Restores -> RestoreRows]
<1> DEFINE OK == restore' \in [Restores -> RestoreRows]
<1> SUFFICES OK OBVIOUS
<1>a. restore \in [Restores -> RestoreRows]
  BY DEF StoreTypeOK
<1>b. ASSUME NEW s \in Restores, NEW row \in RestoreRows,
             restore' = restore \/ restore' = [restore EXCEPT ![s] = row]
      PROVE  OK
  BY <1>a, <1>b
<1>c. \A s \in Restores, st \in {"preparing", "cancelled", "failed", "prepared", "applying", "succeeded"} :
        [restore[s] EXCEPT !.status = st] \in RestoreRows
  <2>1. {"preparing", "cancelled", "failed", "prepared", "applying", "succeeded"}
          \subseteq RestoreActive \cup RestoreTerminal
    BY DEF RestoreActive, RestoreInFlight, RestoreTerminal
  <2> QED BY <1>a, <2>1, RestoreWrites
<1>1. ASSUME NEW s \in Restores, AdmitRestore(s) PROVE OK
  <2>1. \/ restore' = restore
        \/ \E r \in Runs :
             restore' = [restore EXCEPT ![s] = [NoRestore EXCEPT !.status = "queued", !.run = r]]
    BY <1>1 DEF AdmitRestore
  <2> QED BY <1>a, <1>b, <2>1, RestoreWrites
<1>2. ASSUME NEW s \in Restores, StartPrepare(s) \/ Pass(s) PROVE OK
  <2>1. \/ restore' = restore
        \/ restore' = [restore EXCEPT ![s] = [restore[s] EXCEPT !.status = "preparing"]]
        \/ restore' = [restore EXCEPT ![s] = [restore[s] EXCEPT !.status = "prepared"]]
    BY <1>2 DEF StartPrepare, Pass, Settle
  <2> QED BY <1>b, <1>c, <2>1
<1>3. ASSUME NEW s \in Restores, CheckPrepared(s) \/ SettleCancel(s) PROVE OK
  <2>1. \/ restore' = restore
        \/ restore' = [restore EXCEPT ![s] = [restore[s] EXCEPT !.status = "cancelled", !.destructive = FALSE]]
        \/ restore' = [restore EXCEPT ![s] = [restore[s] EXCEPT !.status = "failed"]]
    BY <1>3 DEF CheckPrepared, SettleCancel, Settle
  <2> QED BY <1>a, <1>b, <1>c, <2>1, RestoreWrites
<1>4. ASSUME NEW s \in Restores, RecordPrepared(s) PROVE OK
  <2>1. Unflagged(restore[s]) \in RestoreRows
    BY <1>a, RestoreWrites DEF Unflagged
  <2> QED BY <1>b, <1>4, <2>1 DEF RecordPrepared
<1>5. ASSUME NEW s \in Restores, FlagCancel(s) PROVE OK
  <2>1. [restore[s] EXCEPT !.cancel = TRUE] \in RestoreRows
    BY <1>a, RestoreWrites
  <2> QED BY <1>a, <1>5, <2>1 DEF FlagCancel
<1>6. ASSUME NEW s \in Restores, ClaimApply(s) PROVE OK
  BY <1>a, <1>c, <1>6 DEF ClaimApply
<1>7. ASSUME NEW s \in Restores, OpenArtifact(s) PROVE OK
  <2>1. [restore[s] EXCEPT !.destructive = TRUE] \in RestoreRows
    BY <1>a, RestoreWrites
  <2> QED BY <1>a, <1>7, <2>1 DEF OpenArtifact, MarkDestructive
<1>8. ASSUME NEW s \in Restores, RecordVerdict(s) PROVE OK
  <2>1. apply[s].verdict \in Verdicts
    BY DEF RestoreTypeOK, Applies, Verdicts
  <2>2. [restore[s] EXCEPT !.status = apply[s].verdict] \in RestoreRows
    BY <1>c, <2>1 DEF Verdicts
  <2> QED BY <1>b, <1>8, <2>2 DEF RecordVerdict, Settle
<1>9. ASSUME NEW s \in Restores, RecordFlags(s) PROVE OK
  <2>1. restore' = restore \/ \E row \in {restore[s], Unflagged(restore[s])} :
                                restore' = [restore EXCEPT ![s] = Flagged(s, row)]
    BY <1>9 DEF RecordFlags
  <2>2. Unflagged(restore[s]) \in RestoreRows
    BY <1>a, RestoreWrites DEF Unflagged
  <2>3. ASSUME NEW row \in RestoreRows PROVE Flagged(s, row) \in RestoreRows
    <3> DEFINE v == apply[s].verdict
               d == IF v = "failed" THEN row.destructive ELSE apply[s].wrote
               p == row.partial \/ (v # "succeeded" /\ Partial(s))
               e == row.down \/ (v # "succeeded" /\ LeavesDown(s))
    <3>1. row.destructive \in BOOLEAN /\ apply[s].wrote \in BOOLEAN
      BY Zenon DEF RestoreTypeOK, Applies, RestoreRows
    <3>2. d \in BOOLEAN /\ p \in BOOLEAN /\ e \in BOOLEAN
      BY <3>1, Zenon
    <3>3. Flagged(s, row) = [row EXCEPT !.destructive = d, !.partial = p, !.down = e]
      BY DEF Flagged
    <3> HIDE DEF d, p, e
    <3>4. [row EXCEPT !.destructive = d, !.partial = p, !.down = e] \in RestoreRows
      BY <3>2, ZenonT(30) DEF RestoreRows
    <3> QED BY <3>3, <3>4
  <2> QED BY <1>a, <1>b, <2>1, <2>2, <2>3
<1>10. ASSUME NEW s \in Restores,
              \/ VerifySource(s) \/ StartApply(s) \/ ResolveTarget(s) \/ StopService(s)
              \/ CheckStopped(s) \/ ApplyArtifact(s) \/ FailArtifact(s) \/ LoadService(s)
              \/ StartBack(s) \/ Unwind(s) \/ Leave(s) \/ RequestCancel(s)
              \/ \E r \in Runs : CheckSource(s, r)
       PROVE  OK
  <2>1. restore' = restore
    BY <1>10 DEF VerifySource, StartApply, ResolveTarget, StopService, CheckStopped, ApplyArtifact,
       FailArtifact, LoadService, StartBack, Unwind, Leave, RequestCancel, CheckSource
  <2> QED BY <2>1, <1>a
<1> HIDE DEF OK
<1> QED
  BY <1>1, <1>2, <1>3, <1>4, <1>5, <1>6, <1>7, <1>8, <1>9, <1>10
  DEF RestoreNext, Prepare, Apply, Cancel, Operator

(* What they write to the state of the one that applies.                   *)
LEMMA AppliesTyped ==
  ASSUME StoreTypeOK, RestoreTypeOK, RestoreNext
  PROVE  apply' \in [Restores -> Applies]
<1> DEFINE OK == apply' \in [Restores -> Applies]
<1> SUFFICES OK OBVIOUS
<1>a. apply \in [Restores -> Applies]
  BY DEF RestoreTypeOK
<1>b. ASSUME NEW s \in Restores, NEW row \in Applies, apply' = [apply EXCEPT ![s] = row] PROVE OK
  BY <1>a, <1>b
<1>c. \A s \in Restores : /\ apply[s].verdict \in Verdicts
                          /\ apply[s].part \in 1..Parts
                          /\ apply[s].unfinished \in BOOLEAN
  BY <1>a DEF Applies, Verdicts
<1>d. \A s \in Restores :
        NoApply \in Applies /\ \A pc \in ApplyPcs : [apply[s] EXCEPT !.pc = pc] \in Applies
  BY <1>a, ApplyWrites
<1>e. ASSUME NEW s \in Restores, NEW pc \in ApplyPcs, NEW v \in Verdicts, Verdict(s, v, pc) PROVE OK
  <2>1. [apply[s] EXCEPT !.verdict = v, !.pc = pc] \in Applies
    BY <1>a, ApplyWrites
  <2> QED BY <1>a, <1>e, <2>1 DEF Verdict
<1>f. ASSUME NEW s \in Restores, NEW pc \in ApplyPcs, ApplyGoto(s, pc) PROVE OK
  BY <1>a, <1>d, <1>f DEF ApplyGoto
<1>g. ASSUME NEW s \in Restores, NEW pc \in ApplyPcs, NEW v \in Verdicts, TryStart(s, pc, v) PROVE OK
  <2>1. [apply[s] EXCEPT !.pc = pc, !.verdict = v, !.down = FALSE] \in Applies
    BY <1>a, ApplyWrites
  <2>2. \/ apply' = [apply EXCEPT ![s].pc = pc, ![s].verdict = v, ![s].down = FALSE]
        \/ Verdict(s, v, pc)
    BY <1>g DEF TryStart
  <2> QED BY <1>a, <1>e, <2>1, <2>2
<1>h. {"queued", "starting", "stopping", "stopped", "opening", "writing", "loading", "restarting",
       "unwinding", "recording", "flagging", "leaving"} \subseteq ApplyPcs
  BY DEF ApplyPcs
<1>i. "succeeded" \in Verdicts /\ "failed" \in Verdicts /\ "cancelled" \in Verdicts
  BY DEF Verdicts
<1>1. ASSUME NEW s \in Restores, ClaimApply(s) \/ StartApply(s) PROVE OK
  <2>1. ApplyGoto(s, "queued") \/ ApplyGoto(s, "starting")
    BY <1>1 DEF ClaimApply, StartApply
  <2> QED BY <1>f, <1>h, <2>1
<1>2. ASSUME NEW s \in Restores, ResolveTarget(s) PROVE OK
  <2>1. \/ apply' = [apply EXCEPT ![s] = NoApply]
        \/ \E v \in Verdicts : Verdict(s, v, "recording")
        \/ ApplyGoto(s, "stopping")
    BY <1>2, <1>i DEF ResolveTarget
  <2> QED BY <1>b, <1>d, <1>e, <1>f, <1>h, <2>1
<1>3. ASSUME NEW s \in Restores, StopService(s) PROVE OK
  <2> DEFINE running == service = "up"
             stop == running /\ ~Through
             down == ~running \/ stop
  <2>1. /\ [apply[s] EXCEPT !.pc = "stopped", !.running = running, !.stopped = stop, !.down = down]
             \in Applies
        /\ [apply[s] EXCEPT !.pc = "recording", !.running = running, !.verdict = "failed"] \in Applies
    <3>1. running \in BOOLEAN /\ stop \in BOOLEAN /\ down \in BOOLEAN
      BY Zenon
    <3> HIDE DEF running, stop, down
    <3> QED BY <1>a, <3>1, ApplyWrites
  <2>2. \/ apply' = [apply EXCEPT ![s].pc = "stopped", ![s].running = running,
                                  ![s].stopped = stop, ![s].down = down]
        \/ apply' = [apply EXCEPT ![s].pc = "recording", ![s].running = running,
                                  ![s].verdict = "failed"]
    BY <1>3 DEF StopService
  <2> HIDE DEF running, stop, down
  <2> QED BY <1>a, <2>1, <2>2
<1>4. ASSUME NEW s \in Restores, CheckStopped(s) PROVE OK
  <2>1. \/ ApplyGoto(s, "opening")
        \/ TryStart(s, "recording", "cancelled")
        \/ Verdict(s, "cancelled", "recording")
    BY <1>4 DEF CheckStopped
  <2> QED BY <1>e, <1>f, <1>g, <1>h, <1>i, <2>1
<1>5. ASSUME NEW s \in Restores, OpenArtifact(s) PROVE OK
  <2> DEFINE unfinished == apply[s].unfinished \/ ~Atomic
  <2>1. \/ apply' = [apply EXCEPT ![s].pc = "writing", ![s].wrote = TRUE, ![s].unfinished = unfinished]
        \/ \E v \in Verdicts : Verdict(s, v, "unwinding")
    <3>1. (IF restore[s].cancel THEN "cancelled" ELSE "failed") \in Verdicts
      BY <1>i
    <3> QED BY <1>5, <3>1 DEF OpenArtifact
  <2>2. unfinished \in BOOLEAN
    BY Zenon
  <2> HIDE DEF unfinished
  <2>3. [apply[s] EXCEPT !.pc = "writing", !.wrote = TRUE, !.unfinished = unfinished] \in Applies
    BY <1>a, <2>2, ApplyWrites
  <2> QED BY <1>a, <1>e, <1>h, <2>1, <2>3
<1>6. ASSUME NEW s \in Restores, ApplyArtifact(s) PROVE OK
  <2> DEFINE last == apply[s].part = Parts
             pc == IF last THEN "loading" ELSE "opening"
             part == IF last THEN apply[s].part ELSE apply[s].part + 1
             unfinished == ~last
  <2>1. apply' = [apply EXCEPT ![s].pc = pc, ![s].part = part, ![s].unfinished = unfinished]
    BY <1>6 DEF ApplyArtifact
  <2>2. part \in 1..Parts
    BY <1>c, PayloadAssumption
  <2>3. pc \in ApplyPcs /\ unfinished \in BOOLEAN
    BY DEF ApplyPcs
  <2> HIDE DEF pc, part, unfinished
  <2>4. [apply[s] EXCEPT !.pc = pc, !.part = part, !.unfinished = unfinished] \in Applies
    BY <1>a, <2>2, <2>3, ApplyWrites
  <2> QED BY <1>a, <2>1, <2>4
<1>7. ASSUME NEW s \in Restores, FailArtifact(s) PROVE OK
  <2>1. \/ apply' = [apply EXCEPT ![s].pc = "unwinding", ![s].verdict = "failed", ![s].broken = TRUE]
        \/ \E v \in Verdicts : Verdict(s, v, "unwinding")
    <3>1. (IF restore[s].cancel THEN "cancelled" ELSE "failed") \in Verdicts
      BY <1>i
    <3> QED BY <1>7, <3>1 DEF FailArtifact
  <2>2. [apply[s] EXCEPT !.pc = "unwinding", !.verdict = "failed", !.broken = TRUE] \in Applies
    BY <1>a, ApplyWrites
  <2> QED BY <1>a, <1>e, <1>h, <2>1, <2>2
<1>8. ASSUME NEW s \in Restores, LoadService(s) PROVE OK
  <2>1. \/ ApplyGoto(s, "restarting")
        \/ \E down \in BOOLEAN :
             apply' = [apply EXCEPT ![s].pc = "unwinding", ![s].verdict = "failed",
                                    ![s].broken = TRUE, ![s].down = down]
    BY <1>8 DEF LoadService
  <2>2. \A down \in BOOLEAN :
          [apply[s] EXCEPT !.pc = "unwinding", !.verdict = "failed", !.broken = TRUE, !.down = down]
            \in Applies
    BY <1>a, ApplyWrites
  <2> QED BY <1>a, <1>f, <1>h, <2>1, <2>2
<1>9. ASSUME NEW s \in Restores, StartBack(s) PROVE OK
  <2>1. \/ Verdict(s, "succeeded", "recording")
        \/ apply' = [apply EXCEPT ![s].pc = "recording", ![s].down = FALSE, ![s].verdict = "succeeded"]
        \/ Verdict(s, "failed", "unwinding")
    BY <1>9 DEF StartBack
  <2>2. [apply[s] EXCEPT !.pc = "recording", !.down = FALSE, !.verdict = "succeeded"] \in Applies
    BY <1>a, <1>i, ApplyWrites
  <2> QED BY <1>a, <1>e, <1>h, <1>i, <2>1, <2>2
<1>10. ASSUME NEW s \in Restores, Unwind(s) \/ RecordVerdict(s) \/ RecordFlags(s) PROVE OK
  <2>1. \/ TryStart(s, "recording", apply[s].verdict)
        \/ \E pc \in {"recording", "flagging", "leaving"} : ApplyGoto(s, pc)
    BY <1>10 DEF Unwind, RecordVerdict, RecordFlags
  <2> QED BY <1>c, <1>f, <1>g, <1>h, <2>1
<1>11. ASSUME NEW s \in Restores, Leave(s) PROVE OK
  BY <1>11, <1>b, <1>d DEF Leave
<1>12. ASSUME NEW s \in Restores,
              Prepare(s) \/ Cancel(s) \/ RequestCancel(s) \/ \E r \in Runs : CheckSource(s, r)
       PROVE  OK
  <2>1. apply' = apply
    BY <1>12 DEF Prepare, Cancel, RequestCancel, CheckSource, AdmitRestore, StartPrepare, VerifySource,
       CheckPrepared, Pass, RecordPrepared, FlagCancel, SettleCancel
  <2> QED BY <1>a, <2>1
<1> HIDE DEF OK
<1> QED
  BY <1>1, <1>2, <1>3, <1>4, <1>5, <1>6, <1>7, <1>8, <1>9, <1>10, <1>11, <1>12
  DEF RestoreNext, Apply, Operator

LEMMA RestoreTypesKept ==
  ASSUME StoreTypeOK, RestoreTypeOK, RestoreNext
  PROVE  StoreTypeOK' /\ RestoreTypeOK'
<1> DEFINE OK == /\ UNCHANGED <<run, stored, incremental, phase, policyLock, kind>>
                 /\ projectLock' \in Workers \cup Restores \cup {Nobody, "teardown"}
                 /\ runLock' \in [Runs -> Workers \cup Restores \cup {Nobody}]
                 /\ faults' \in 0..MaxFaults
                 /\ prep' \in [Restores -> PrepPcs]
                 /\ cancelling' \in [Restores -> {"none", "asked", "settling"}]
                 /\ answer' \in [Restores -> {"none", "cancelled", "applying"}]
                 /\ target' \in {"whole", "partial", "gone"}
                 /\ service' \in {"up", "down"}
<1> SUFFICES OK
  BY RestoreRowsTyped, AppliesTyped DEF StoreTypeOK, RestoreTypeOK
<1>a. /\ projectLock \in Workers \cup Restores \cup {Nobody, "teardown"}
      /\ runLock \in [Runs -> Workers \cup Restores \cup {Nobody}]
      /\ faults \in 0..MaxFaults
      /\ prep \in [Restores -> PrepPcs]
      /\ cancelling \in [Restores -> {"none", "asked", "settling"}]
      /\ answer \in [Restores -> {"none", "cancelled", "applying"}]
      /\ target \in {"whole", "partial", "gone"}
      /\ service \in {"up", "down"}
  BY DEF StoreTypeOK, RestoreTypeOK
<1>1. ASSUME NEW s \in Restores, Prepare(s) \/ \E r \in Runs : CheckSource(s, r) PROVE OK
  <2>1. /\ UNCHANGED <<run, stored, incremental, phase, policyLock, kind, projectLock, faults,
                       cancelling, answer, target, service>>
        /\ \E pc \in {"admitting", "none", "queued", "reading", "verified", "unsound", "passing",
                      "recording"} : PrepGoto(s, pc)
        /\ runLock' = runLock \/ \E r : \E x \in {s, Nobody} : runLock' = [runLock EXCEPT ![r] = x]
    <3>1. ASSUME AdmitRestore(s) \/ \E r \in Runs : CheckSource(s, r)
          PROVE  /\ UNCHANGED <<run, stored, incremental, phase, policyLock, kind, projectLock, faults,
                                cancelling, answer, target, service>>
                 /\ \E pc \in {"admitting", "none", "queued"} : PrepGoto(s, pc)
                 /\ \E r : \E x \in {s, Nobody} : runLock' = [runLock EXCEPT ![r] = x]
      BY <3>1 DEF AdmitRestore, CheckSource, rest, requests
    <3>2. ASSUME \/ StartPrepare(s) \/ VerifySource(s) \/ CheckPrepared(s) \/ Pass(s) \/ RecordPrepared(s)
          PROVE  /\ UNCHANGED <<run, stored, incremental, phase, policyLock, kind, projectLock, faults,
                                cancelling, answer, target, service, runLock>>
                 /\ \E pc \in {"none", "reading", "verified", "unsound", "passing", "recording"} :
                      PrepGoto(s, pc)
      BY <3>2 DEF StartPrepare, VerifySource, CheckPrepared, Pass, RecordPrepared, rest, requests
    <3> QED BY <1>1, <3>1, <3>2 DEF Prepare
  <2>2. prep' \in [Restores -> PrepPcs]
    BY <1>a, <2>1 DEF PrepGoto, PrepPcs
  <2>3. runLock' \in [Runs -> Workers \cup Restores \cup {Nobody}]
    BY <1>a, <2>1
  <2> QED BY <1>a, <2>1, <2>2, <2>3
<1>2. ASSUME NEW s \in Restores, Cancel(s) \/ RequestCancel(s) PROVE OK
  <2>1. /\ UNCHANGED <<run, stored, incremental, phase, policyLock, kind, projectLock, runLock, faults,
                       prep, target, service>>
        /\ \E x \in {"none", "asked", "settling"} : cancelling' = [cancelling EXCEPT ![s] = x]
        /\ \/ answer' = answer
           \/ \E x \in {"cancelled", "applying"} : answer' = [answer EXCEPT ![s] = x]
    <3>1. ASSUME FlagCancel(s)
          PROVE  /\ \E x \in {"none", "settling"} : cancelling' = [cancelling EXCEPT ![s] = x]
                 /\ \/ answer' = answer
                    \/ answer' = [answer EXCEPT ![s] = "applying"]
      BY <1>a, <3>1 DEF FlagCancel
    <3>2. ASSUME SettleCancel(s) \/ RequestCancel(s)
          PROVE  /\ \E x \in {"none", "asked"} : cancelling' = [cancelling EXCEPT ![s] = x]
                 /\ answer' = answer \/ answer' = [answer EXCEPT ![s] = "cancelled"]
      BY <3>2 DEF SettleCancel, RequestCancel, AskCancel
    <3>3. UNCHANGED <<run, stored, incremental, phase, policyLock, kind, projectLock, runLock, faults,
                      prep, target, service>>
      BY <1>2 DEF Cancel, FlagCancel, SettleCancel, RequestCancel, rest
    <3> QED BY <1>2, <3>1, <3>2, <3>3 DEF Cancel
  <2>2. cancelling' \in [Restores -> {"none", "asked", "settling"}]
    BY <1>a, <2>1
  <2>3. answer' \in [Restores -> {"none", "cancelled", "applying"}]
    BY <1>a, <2>1
  <2> QED BY <1>a, <2>1, <2>2, <2>3
<1>3. ASSUME NEW s \in Restores, Apply(s) \/ ClaimApply(s) PROVE OK
  <2>1. /\ UNCHANGED <<run, stored, incremental, phase, policyLock, kind, runLock, prep, cancelling, answer>>
        /\ projectLock' \in {projectLock, s, Nobody}
        /\ faults' = faults \/ \E k : Fault(k)
        /\ target' \in {target, "whole", "partial"}
        /\ service' \in {service, "up", "down"}
    <3>1. ASSUME StartApply(s) \/ ResolveTarget(s) \/ Leave(s) \/ ClaimApply(s)
          PROVE  /\ UNCHANGED <<run, stored, incremental, phase, policyLock, kind, runLock, prep,
                                cancelling, answer, faults, target, service>>
                 /\ projectLock' \in {projectLock, s, Nobody}
      BY <3>1 DEF StartApply, ResolveTarget, Leave, ClaimApply, rest, requests
    <3>2. ASSUME StopService(s) \/ CheckStopped(s) \/ LoadService(s) \/ StartBack(s) \/ Unwind(s)
          PROVE  /\ UNCHANGED <<run, stored, incremental, phase, policyLock, kind, runLock, prep,
                                cancelling, answer, projectLock, target>>
                 /\ faults' = faults \/ \E k : Fault(k)
                 /\ service' \in {service, "up", "down"}
      <4>1. faults' = faults \/ \E k : Fault(k)
        BY <3>2 DEF StopService, CheckStopped, LoadService, StartBack, Unwind, TryStart
      <4>2. service' \in {service, "up", "down"}
        BY <3>2 DEF StopService, CheckStopped, LoadService, StartBack, Unwind, TryStart
      <4> QED BY <3>2, <4>1, <4>2
        DEF StopService, CheckStopped, LoadService, StartBack, Unwind, rest, requests
    <3>3. ASSUME OpenArtifact(s) \/ ApplyArtifact(s) \/ FailArtifact(s) \/ RecordVerdict(s) \/ RecordFlags(s)
          PROVE  /\ UNCHANGED <<run, stored, incremental, phase, policyLock, kind, runLock, prep,
                                cancelling, answer, projectLock, service>>
                 /\ faults' = faults \/ \E k : Fault(k)
                 /\ target' \in {target, "whole", "partial"}
      <4>1. faults' = faults \/ \E k : Fault(k)
        BY <3>3 DEF OpenArtifact, ApplyArtifact, FailArtifact, RecordVerdict, RecordFlags
      <4> QED BY <3>3, <4>1
        DEF OpenArtifact, ApplyArtifact, FailArtifact, RecordVerdict, RecordFlags, rest, requests
    <3> QED BY <1>3, <3>1, <3>2, <3>3 DEF Apply
  <2>2. faults' \in 0..MaxFaults
    BY <1>a, <2>1, FaultsBounded
  <2> QED BY <1>a, <2>1, <2>2
<1> HIDE DEF OK
<1> QED
  BY <1>1, <1>2, <1>3 DEF RestoreNext, Operator

-----------------------------------------------------------------------------
(* Deletion, death and boot.                                               *)

TypeInv == TypeOK /\ Named

Teardowns == [pc : TeardownPcs, kept : BOOLEAN, todo : SUBSET (Runs \cup Restores)]

LEMMA DeletionTypesKept ==
  ASSUME TypeInv, ClaimDeletion \/ Teardown
  PROVE  TypeInv'
<1> USE DEF Teardowns
<1>a. /\ StoreTypeOK /\ JobTypeOK /\ RestoreTypeOK /\ Named
      /\ teardown \in Teardowns
  BY DEF TypeInv, TypeOK
<1>b. /\ projectLock \in Workers \cup Restores \cup {Nobody, "teardown"}
      /\ faults \in 0..MaxFaults
      /\ phase \in {"open", "fenced", "cleaning", "gone"}
      /\ run \in [Runs -> RunRows]
      /\ cancelling \in [Restores -> {"none", "asked", "settling"}]
      /\ target \in {"whole", "partial", "gone"}
      /\ service \in {"up", "down"}
  BY <1>a DEF StoreTypeOK, RestoreTypeOK
<1>c. job' = job => JobTypeOK' /\ Named'
  BY <1>a DEF JobTypeOK, Named
<1>d. \A pc \in TeardownPcs, k \in BOOLEAN : [NoTeardown EXCEPT !.pc = pc, !.kept = k] \in Teardowns
  BY DEF NoTeardown
<1>e. NoTeardown \in Teardowns
  BY DEF NoTeardown, TeardownPcs
<1>f. /\ \A pc \in TeardownPcs : [teardown EXCEPT !.pc = pc] \in Teardowns
      /\ \A pc \in TeardownPcs, S \in SUBSET (Runs \cup Restores) :
           [teardown EXCEPT !.pc = pc, !.todo = S] \in Teardowns
      /\ \A S \in SUBSET (Runs \cup Restores) : [teardown EXCEPT !.todo = S] \in Teardowns
  <2>1. \A pc \in TeardownPcs : [teardown EXCEPT !.pc = pc] \in Teardowns
    BY <1>a, ZenonT(30)
  <2>2. \A pc \in TeardownPcs, S \in SUBSET (Runs \cup Restores) :
          [teardown EXCEPT !.pc = pc, !.todo = S] \in Teardowns
    BY <1>a, ZenonT(30)
  <2>3. \A S \in SUBSET (Runs \cup Restores) : [teardown EXCEPT !.todo = S] \in Teardowns
    BY <1>a, ZenonT(30)
  <2> QED BY <2>1, <2>2, <2>3
<1>g. Blocking \in SUBSET (Runs \cup Restores) /\ teardown.todo \subseteq Runs \cup Restores
  BY <1>a DEF Blocking
<1> HIDE DEF Teardowns
<1> DEFINE OK == /\ projectLock' \in Workers \cup Restores \cup {Nobody, "teardown"}
                 /\ faults' \in 0..MaxFaults
                 /\ phase' \in {"open", "fenced", "cleaning", "gone"}
                 /\ run' \in [Runs -> RunRows]
                 /\ cancelling' \in [Restores -> {"none", "asked", "settling"}]
                 /\ target' \in {"whole", "partial", "gone"}
                 /\ service' \in {"up", "down"}
                 /\ teardown' \in Teardowns
                 /\ UNCHANGED <<restore, stored, incremental, policyLock, runLock, job, kind, prep,
                                answer, apply>>
<1> SUFFICES OK
  BY <1>a, <1>c DEF Teardowns, TypeInv, TypeOK, StoreTypeOK, RestoreTypeOK
<1>1. CASE ClaimDeletion
  <2>1. faults' \in 0..MaxFaults
    BY <1>1, <1>b, FaultsBounded DEF ClaimDeletion
  <2>2. teardown' \in Teardowns
    <3>1. "claimed" \in TeardownPcs /\ (phase # "open") \in BOOLEAN
      BY DEF TeardownPcs
    <3> QED BY <1>1, <1>d, <3>1 DEF ClaimDeletion
  <2> QED BY <1>1, <1>b, <2>1, <2>2 DEF ClaimDeletion, restoreVars, requests
<1>2. ASSUME GiveUp PROVE OK
  BY <1>2, <1>b, <1>e DEF GiveUp, restoreVars, requests
<1>3. CASE StartCancelling \/ OpenWindow
  <2>1. teardown' \in Teardowns
    <3>1. "cancelling" \in TeardownPcs /\ "window" \in TeardownPcs
      BY DEF TeardownPcs
    <3> QED BY <1>3, <1>f, <1>g, <3>1 DEF StartCancelling, OpenWindow
  <2> QED BY <1>3, <1>b, <2>1 DEF StartCancelling, OpenWindow, restoreVars, requests, store, locks
<1>4. ASSUME NEW r \in Runs, CancelRun(r) PROVE OK
  <2>1. teardown' \in Teardowns
    <3>1. teardown.todo \ {r} \in SUBSET (Runs \cup Restores)
      BY <1>g
    <3> QED BY <1>4, <1>f, <3>1 DEF CancelRun
  <2>2. [run[r] EXCEPT !.status = "cancelled", !.finished = NextFinish] \in RunRows
    BY <1>b, FinishIsNatural, Zenon DEF RunRows, RunTerminal
  <2>3. run' = run \/ run' = [run EXCEPT ![r].status = "cancelled", ![r].finished = NextFinish]
    BY <1>4 DEF CancelRun, CancelQueued
  <2>4. run' \in [Runs -> RunRows]
    BY <1>b, <2>2, <2>3
  <2> QED BY <1>4, <1>b, <2>1, <2>4 DEF CancelRun, restoreVars, requests, locks
<1>5. ASSUME NEW s \in Restores, CancelRestore(s) PROVE OK
  <2>1. teardown' \in Teardowns
    <3>1. teardown.todo \ {s} \in SUBSET (Runs \cup Restores)
      BY <1>g
    <3> QED BY <1>5, <1>f, <3>1 DEF CancelRestore
  <2>2. cancelling' \in [Restores -> {"none", "asked", "settling"}]
    BY <1>5, <1>b DEF CancelRestore, AskCancel
  <2> QED BY <1>5, <1>b, <2>1, <2>2 DEF CancelRestore, store, locks
<1>6. CASE BeginCleanup
  <2>1. teardown' \in Teardowns
    <3>1. "cleaning" \in TeardownPcs
      BY DEF TeardownPcs
    <3> QED BY <1>6, <1>f, <3>1 DEF BeginCleanup
  <2> QED BY <1>6, <1>b, <2>1 DEF BeginCleanup, restoreVars, requests, locks
<1>7. CASE Destroy
  <2>1. /\ UNCHANGED <<run, restore, stored, incremental, policyLock, runLock, faults, job, kind,
                       prep, requests, apply>>
        /\ phase' \in {"cleaning", "gone"}
        /\ service' \in {service, "down"}
        /\ target' \in {target, "gone"}
        /\ teardown' = NoTeardown /\ projectLock' = Nobody
    BY <1>7 DEF Destroy
  <2> QED BY <1>b, <1>e, <2>1 DEF requests
<1> HIDE DEF OK
<1> QED
  BY <1>1, <1>2, <1>3, <1>4, <1>5, <1>6, <1>7 DEF Teardown, RefuseGraceful, QuiesceTimeout

LEMMA DeathTypesKept ==
  ASSUME TypeInv, Restart \/ ReplicaDies
  PROVE  TypeInv'
<1>a. /\ StoreTypeOK /\ JobTypeOK /\ RestoreTypeOK /\ Named
      /\ teardown \in Teardowns
  BY DEF TypeInv, TypeOK, Teardowns
<1>b. /\ projectLock \in Workers \cup Restores \cup {Nobody, "teardown"}
      /\ policyLock \in Workers \cup {Nobody}
      /\ runLock \in [Runs -> Workers \cup Restores \cup {Nobody}]
      /\ faults \in 0..MaxFaults
      /\ run \in [Runs -> RunRows]
      /\ restore \in [Restores -> RestoreRows]
      /\ prep \in [Restores -> PrepPcs]
      /\ apply \in [Restores -> Applies]
      /\ cancelling \in [Restores -> {"none", "asked", "settling"}]
  BY <1>a DEF StoreTypeOK, RestoreTypeOK
<1>c. IdleJob \in Jobs /\ IdleJob.pc = "idle" /\ "idle" \notin CapturePcs
  BY DEF IdleJob, Jobs, JobPcs, CapturePcs
<1>d. NoTeardown \in Teardowns
  BY DEF NoTeardown, TeardownPcs, Teardowns
<1>e. \A s \in Restores : NoApply \in Applies
  BY <1>b, ApplyWrites
<1>1. PICK W \in SUBSET Workers, S \in SUBSET Restores, d \in BOOLEAN : Die(W, S, d)
  BY DEF Restart, ReplicaDies
<1>2. faults' \in 0..MaxFaults
  BY <1>b, FaultsBounded DEF Restart, ReplicaDies
<1>3. run' \in [Runs -> RunRows]
  <2>1. run' = run \/ run' = [r \in Runs |-> SweptAtBoot(run[r])]
    BY DEF Restart, ReplicaDies
  <2> QED BY <1>a, <1>b, <2>1, RowTypes
<1>4. restore' \in [Restores -> RestoreRows]
  <2>1. restore' = restore \/ restore' = [s \in Restores |-> RestoreSweptAtBoot(restore[s])]
    BY DEF Restart, ReplicaDies
  <2>2. \A s \in Restores : [restore[s] EXCEPT !.status = "server_error"] \in RestoreRows
    <3>1. "server_error" \in RestoreActive \cup RestoreTerminal
      BY DEF RestoreTerminal
    <3> QED BY <1>b, <3>1, RestoreWrites
  <2> QED BY <1>b, <2>1, <2>2 DEF RestoreSweptAtBoot
<1>5. job' \in [Workers -> Jobs] /\ Named'
  <2>1. job' = [w \in Workers |-> IF w \in W THEN IdleJob ELSE job[w]]
    BY <1>1 DEF Die
  <2>2. job' \in [Workers -> Jobs]
    BY <1>a, <1>c, <2>1 DEF JobTypeOK
  <2> QED BY <1>a, <1>c, <2>1, <2>2 DEF Named
<1>6. prep' \in [Restores -> PrepPcs] /\ cancelling' \in [Restores -> {"none", "asked", "settling"}]
  BY <1>1, <1>b DEF Die, PrepPcs
<1>7. apply' \in [Restores -> Applies]
  BY <1>1, <1>b, <1>e DEF Die
<1>8. teardown' \in Teardowns
  BY <1>1, <1>a, <1>d DEF Die
<1>9. /\ policyLock' \in Workers \cup {Nobody}
      /\ projectLock' \in Workers \cup Restores \cup {Nobody, "teardown"}
      /\ runLock' \in [Runs -> Workers \cup Restores \cup {Nobody}]
  BY <1>1, <1>b DEF Die, Freed
<1>10. UNCHANGED <<stored, incremental, phase, kind, answer, target, service>>
  BY <1>1 DEF Die
<1>11. StoreTypeOK'
  BY <1>a, <1>2, <1>3, <1>4, <1>9, <1>10 DEF StoreTypeOK
<1>12. RestoreTypeOK'
  BY <1>a, <1>6, <1>7, <1>10 DEF RestoreTypeOK
<1> QED
  BY <1>5, <1>8, <1>11, <1>12 DEF TypeInv, TypeOK, JobTypeOK, Teardowns

LEMMA TypesAtStart ==
  ASSUME Init
  PROVE  TypeInv
<1>1. StoreTypeOK
  <2>1. NoRun \in RunRows
    BY DEF NoRun, RunRows
  <2>2. NoRestore \in RestoreRows
    BY DEF NoRestore, RestoreRows
  <2> QED BY <2>1, <2>2, FaultsAssumption DEF Init, StoreInit, StoreTypeOK
<1>2. JobTypeOK /\ Named
  <2>1. IdleJob \in Jobs /\ IdleJob.pc = "idle" /\ "idle" \notin CapturePcs
    BY DEF IdleJob, Jobs, JobPcs, CapturePcs
  <2> QED BY <2>1 DEF Init, JobInit, JobTypeOK, Named
<1>3. RestoreTypeOK
  <2>1. NoApply \in Applies
    <3>1. 1 \in 1..Parts
      BY PayloadAssumption
    <3> QED BY <3>1, ZenonT(30) DEF NoApply, Applies, ApplyPcs
  <2>2. "none" \in PrepPcs
    BY DEF PrepPcs
  <2>3. kind \in PayloadKinds
    BY PayloadAssumption DEF Init, RestoreInit
  <2> QED BY <2>1, <2>2, <2>3 DEF Init, RestoreInit, RestoreTypeOK
<1>4. teardown \in [pc : TeardownPcs, kept : BOOLEAN, todo : SUBSET (Runs \cup Restores)]
  BY DEF Init, NoTeardown, TeardownPcs
<1> QED BY <1>1, <1>2, <1>3, <1>4 DEF TypeInv, TypeOK

LEMMA TypesStep ==
  ASSUME TypeInv, [Next]_vars
  PROVE  TypeInv'
<1>1. CASE JobNext /\ UNCHANGED <<restoreVars, teardown>>
  <2>1. JobTypes'
    BY <1>1, JobTypesKept DEF JobTypes, TypeInv, TypeOK
  <2> QED BY <1>1, <2>1
    DEF JobTypes, TypeInv, TypeOK, RestoreTypeOK, restoreVars, requests
<1>2. CASE RestoreNext /\ UNCHANGED <<job, teardown>>
  <2>1. StoreTypeOK' /\ RestoreTypeOK'
    BY <1>2, RestoreTypesKept DEF TypeInv, TypeOK
  <2> QED BY <1>2, <2>1 DEF TypeInv, TypeOK, JobTypeOK, Named
<1>3. CASE UNCHANGED vars
  BY <1>3
  DEF vars, store, locks, restoreVars, requests, TypeInv, TypeOK, StoreTypeOK, JobTypeOK, RestoreTypeOK, Named
<1> QED
  BY <1>1, <1>2, <1>3, DeletionTypesKept, DeathTypesKept DEF Next

(* The state of backups, restores, their locks and a deletion is always of *)
(* its type, and a slot that works on a run names it: no lock is ever held *)
(* by somebody who cannot hold it, and no write of a capture, of retention,*)
(* of a restore, of a deletion or of a boot leaves a row malformed.        *)
THEOREM BackupTypeCorrect == Spec => []TypeOK
<1>1. Init => TypeInv
  BY TypesAtStart
<1>2. TypeInv /\ [Next]_vars => TypeInv'
  BY TypesStep
<1>3. TypeInv => TypeOK
  BY DEF TypeInv
<1> QED BY <1>1, <1>2, <1>3, PTL DEF Spec

=============================================================================
