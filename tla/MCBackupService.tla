--------------------------- MODULE MCBackupService ---------------------------
(* The settings of schedules and the symmetry of the runs of BackupService.  *)
EXTENDS BackupService, TLC

\* Every database; only the newest backup, and none beyond some age.
KeepOne == {[db |-> NoName, count |-> 1, byAge |-> TRUE, enabled |-> TRUE]}

\* The newest backup of one database.
PerName == {[db |-> n, count |-> 1, byAge |-> FALSE, enabled |-> TRUE] : n \in Name}

Symmetry == Permutations(Admin) \cup Permutations(Data)
=============================================================================
