------------------------------- MODULE MCBackups -------------------------------
EXTENDS BackupProperties, TLC

Symmetry == Permutations(Runs) \cup Permutations(Workers) \cup Permutations(Restores)

=============================================================================
