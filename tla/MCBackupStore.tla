--------------------------- MODULE MCBackupStore ---------------------------
(* BackupStore for TLC: the calls are interchangeable.                     *)
EXTENDS BackupStore, TLC

CallsSymmetry == Permutations(Calls)
=============================================================================
