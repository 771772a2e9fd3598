------------------------------- MODULE MCBackup -------------------------------
(* Runs of tspan-backup and a user who asks for backups of a file in two
   chunks. *)
EXTENDS BackupClient, TLC

MCSymmetry == Permutations(Runs) \cup Permutations(Reqs \ Runs)

=============================================================================
