----------------------------- MODULE ProjectWork -----------------------------
(***************************************************************************)
(* What the deletion fence and the execution lease promise together, with *)
(* no rows, requests or locks: a project runs at most one worker, starts  *)
(* one only while it is open, and destroys its resources only after the   *)
(* fence is up and the last worker has gone. Once resources may be gone   *)
(* the project never opens again.                                          *)
(*                                                                         *)
(* DeploymentLifecycle implements this specification.                      *)
(***************************************************************************)
CONSTANT Workers      \* the deployments that may have a worker

VARIABLES
  phase,    \* "open", "fenced", "destroying", "condemned" or "gone"
  running   \* the deployments whose worker is executing

work == <<phase, running>>

Phases == {"open", "fenced", "destroying", "condemned", "gone"}

WorkTypeOK == phase \in Phases /\ running \subseteq Workers

WorkInit == phase = "open" /\ running = {}

Begin(w) ==
  /\ phase = "open"
  /\ running = {}
  /\ running' = {w}
  /\ UNCHANGED phase

(* A worker ends, or the process that hosts it stops. *)
End ==
  /\ running # {}
  /\ running' = {}
  /\ UNCHANGED phase

Fence ==
  /\ phase = "open"
  /\ phase' = "fenced"
  /\ UNCHANGED running

Reopen ==
  /\ phase = "fenced"
  /\ phase' = "open"
  /\ UNCHANGED running

DestroyResources ==
  /\ phase \in {"fenced", "condemned"}
  /\ running = {}
  /\ phase' = "destroying"
  /\ UNCHANGED running

(***************************************************************************)
(* The destruction stops half way, or an attempt that found the fence     *)
(* already up gives in and cannot tell what the one before it destroyed.  *)
(***************************************************************************)
Condemn ==
  /\ phase \in {"fenced", "destroying"}
  /\ phase' = "condemned"
  /\ UNCHANGED running

Vanish ==
  /\ phase = "destroying"
  /\ phase' = "gone"
  /\ UNCHANGED running

WorkNext ==
  \/ \E w \in Workers : Begin(w)
  \/ End \/ Fence \/ Reopen \/ DestroyResources \/ Condemn \/ Vanish

WorkSpec == WorkInit /\ [][WorkNext]_work

=============================================================================
