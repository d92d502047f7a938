-------------------------------- MODULE MCLocker -------------------------------
(* Locker for TLC: three goroutines contending for two ids.                *)
EXTENDS Locker

CONSTANTS a, b, c1, c2, c3

MCIDs == {a, b}
MCClients == {c1, c2, c3}

=============================================================================
