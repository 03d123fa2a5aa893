------------------------ MODULE MCDeploymentLifecycle ------------------------
(* Instances of DeploymentLifecycle for TLC. *)
EXTENDS DeploymentProperties, TLC

ClientSymmetry == Permutations(Clients)

=============================================================================
