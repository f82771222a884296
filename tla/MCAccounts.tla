----------------------------- MODULE MCAccounts -----------------------------
(* A small instance of Accounts: requests and the accounts there are at    *)
(* first are interchangeable.                                               *)
EXTENDS Accounts, TLC

Symmetry == Permutations(Request) \cup Permutations(Seed)

=============================================================================
