--------------------------- MODULE MCOAuthGrants ---------------------------
(* A small instance of OAuthGrants: a native client, which listens on some *)
(* port of the user's machine, and one that registered all sites below a   *)
(* domain, with any port.                                                  *)
EXTENDS OAuthGrants, TLC

CONSTANTS native, hosted, home, site, below, port1, port2, None, star, cb, other

MCRedirect == [host : {home}, path : {cb}, port : {port1, port2}] \cup {[host |-> site, path |-> cb, port |-> None]}
MCPattern ==
    native :> {[host |-> home, path |-> cb, port |-> None], [host |-> home, path |-> other, port |-> port1]}
      @@ hosted :> {[host |-> below, path |-> star, port |-> star]}
MCHostsOf == home :> {home} @@ below :> {site}
MCPathsOf == cb :> {cb} @@ other :> {other} @@ star :> {cb, other}
MCLoopback == {home}

Symmetry == Permutations(Call) \cup Permutations(Request) \cup Permutations(Seed)

=============================================================================
