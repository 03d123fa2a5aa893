---------------------------- MODULE MCRoleHandover ----------------------------
EXTENDS RoleHandoverProperties

Scheduler(name, command) == [name |-> name, command |-> command, singleton |-> TRUE]
Worker(name, command) == [name |-> name, command |-> command, singleton |-> FALSE]

(* The second release swaps the commands of the names: its worker takes    *)
(* over what was the scheduler's. The third is like the first again.       *)
MCDeclared == [d \in Deployments |->
  IF d = 2 THEN {Worker("work", "tick"), Scheduler("cron", "pull")}
  ELSE {Worker("work", "pull"), Scheduler("cron", "tick")}]

=============================================================================
