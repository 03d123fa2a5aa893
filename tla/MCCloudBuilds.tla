----------------------------- MODULE MCCloudBuilds -----------------------------
EXTENDS CloudBuildProperties

(* Two builds of one project around a build of another one. *)
MCProject == [b \in Builds |-> IF b = 2 THEN "q" ELSE "p"]

(* The first build needs a large server, the others are uncapped or small. *)
MCDemand == [b \in Builds |-> IF b = 1 THEN 2 ELSE 1]

=============================================================================
