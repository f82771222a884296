---------------------------- MODULE MCSlugPaths ----------------------------
(* SlugPaths for TLC: every slug but "top" is interchangeable.             *)
EXTENDS SlugPaths, TLC

Perms == Permutations(Slug \ {Top})

=============================================================================
