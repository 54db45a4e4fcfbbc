------------------------------- MODULE MCBackups -------------------------------
(***************************************************************************)
(* TLC instances of Backups.                                               *)
(***************************************************************************)
EXTENDS Backups, TLC

CONSTANTS i1, i2, j1, j2

TwoIds == {i1, i2}
OneId == {i1}
TwoJobs == {j1, j2}
Hourly == {[enabled |-> TRUE, interval |-> 1, retention |-> 0]}
OnAndOff == Hourly \union {[enabled |-> FALSE, interval |-> 1, retention |-> 1]}

BackupSymmetry == Permutations(TwoIds) \union Permutations(TwoJobs)
=============================================================================
