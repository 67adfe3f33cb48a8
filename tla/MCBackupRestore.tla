-------------------------- MODULE MCBackupRestore --------------------------
(* BackupRestore on a small cluster.                                       *)
EXTENDS BackupRestore

CONSTANTS c1, c2

AllOps == {"setup", "take", "wait", "restore"}
=============================================================================
