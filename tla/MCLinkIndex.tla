----------------------------- MODULE MCLinkIndex -----------------------------
(* LinkIndex for TLC: three urls, two of which collide.                    *)
EXTENDS LinkIndex, TLC

CONSTANTS u1, u2, u3, h1, h2

MCHash == u1 :> h1 @@ u2 :> h1 @@ u3 :> h2

Perms == Permutations(Text)

=============================================================================
