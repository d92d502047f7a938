---------------------------- MODULE MCConsulGetter ----------------------------
(* ConsulGetter for TLC: one service, three addresses, Consul answering    *)
(* all three, two of them, or none.                                        *)
EXTENDS ConsulGetter

CONSTANTS s1, x, y, z, c1, c2

MCServices == {s1}
MCAddrs == {x, y, z}
MCConsulViews == {<<x, y, z>>, <<y, z>>, <<>>}
MCClients == {c1, c2}
MCSymmetry == Permutations(MCClients)

=============================================================================
