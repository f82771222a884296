-------------------------- MODULE MCCommitRecovery --------------------------
(* CommitRecovery for TLC: two statuses are interchangeable.               *)
EXTENDS CommitRecovery, TLC

Perms == Permutations(Status)

=============================================================================
