----------------------------- MODULE MCProxySlot -----------------------------
(* ProxySlot with a few connections; all users are alike, all tunnels too. *)
EXTENDS ProxySlot, TLC

CONSTANTS u1, u2, t1, t2

Symmetry == Permutations(Users) \cup Permutations(Tunnels)

=============================================================================
