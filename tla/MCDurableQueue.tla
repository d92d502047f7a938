--------------------------- MODULE MCDurableQueue ---------------------------
(* Model-checking instance of DurableQueue: small sets of IDs, workers and *)
(* callers, given in the .cfg files.                                       *)
EXTENDS DurableQueue, TLC

MCValues == 1..MaxPush

\* Workers are interchangeable goroutines of the same loop, and so are callers.
MCSymmetry == Permutations(Workers) \cup Permutations(Clients)
=============================================================================
