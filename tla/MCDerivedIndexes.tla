-------------------------- MODULE MCDerivedIndexes --------------------------
(* DerivedIndexes for TLC: two interchangeable urls.                       *)
EXTENDS DerivedIndexes, TLC

Perms == Permutations(Url)

=============================================================================
