------------------------ MODULE RoleHandoverProperties ------------------------
(* What the handover of roles promises. *)
EXTENDS RoleHandover

Running(c) == container[c] = "running"

(* A singleton whose command no release gives to two of its roles: with two *)
(* of them that command runs twice by declaration.                          *)
SoleScheduler(o) ==
  /\ RoleOf(o).singleton
  /\ \A d \in Deployments : \A r, s \in Declared[d] :
       r.command = RoleOf(o).command /\ s.command = RoleOf(o).command => r = s

(***************************************************************************)
(* "A new and an old scheduler must never run together, or every cron tick *)
(* fires twice": the command of an old singleton runs in no container of a *)
(* newer release, under whatever name or kind, whatever failed, was        *)
(* cancelled, kept, recovered or deleted in between (rolloutRoles,         *)
(* recoverHandover, assertRoleInventorySettled).                           *)
(***************************************************************************)
SingletonAlone ==
  \A o, c \in AllRoles :
    o[1] < c[1] /\ Running(o) /\ Running(c) /\ SoleScheduler(o)
      => RoleOf(o).command # RoleOf(c).command

(***************************************************************************)
(* Until the commit intent is written the way back is open: every          *)
(* container of the previous release still exists, and no request that     *)
(* removes one is on its way, unless the user deletes that release         *)
(* (roleHandoverEnvironment, commit of rolloutRoles).                      *)
(***************************************************************************)
PreviousRestorable ==
  \A d \in Deployments :
    LET p == journal[d].previous
    IN journal[d].phase \in {"preparing", "kept"} /\ p # None /\ p \notin cleaned
         => \A c \in PreviousRoles(d) \cup PreviousWeb(d) :
              container[c] # "none" /\ "destroy" \notin late[c]

(***************************************************************************)
(* Once no journal is pending the live release runs in full, web container *)
(* and every role: no failure path, crash or late request leaves a         *)
(* scheduler stopped that nobody will start again (recoverHandover).       *)
(***************************************************************************)
SettledServes ==
  (\A d \in Deployments : ~Pending(d)) /\ live # None /\ live \notin cleaned
    => \A c \in row[live].roles \cup {Web(live)} : Running(c)

(***************************************************************************)
(* A release past its commit intent, or kept by its cancellation, loses no *)
(* container to the failure paths and the recoveries that are under way    *)
(* around it; only its own deletion, or a request that was already on its  *)
(* way, takes one (protectRoleHandoverOutcome, recoverHandover).           *)
(***************************************************************************)
Held(d) == journal[d].phase \in {"committing", "kept"}

HeldReleaseStands ==
  [][\A d \in Deployments :
       /\ Held(d) /\ journal'[d].phase = journal[d].phase
            => \A c \in Candidates(d) :
                 container'[c] = container[c] \/ late[c] # {} \/ (target = d /\ discarding)
       /\ journal[d].phase = "committing" => row'[d].status # "cancelled"]_vars

(***************************************************************************)
(* An open journal is settled in the end, by whoever is left to do it,     *)
(* unless the user asked to keep the release or has deleted the one before *)
(* it (runRoleHandoverRecovery).                                           *)
(***************************************************************************)
HandoverSettles ==
  []<>(\A d \in Deployments :
         \/ ~Pending(d)
         \/ journal[d].phase = "kept"
         \/ journal[d].previous \in cleaned)

=============================================================================
