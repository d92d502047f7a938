--------------------------- MODULE MCBrokerListener ---------------------------
(* BrokerListener for TLC: three messages, two workers.                    *)
EXTENDS BrokerListener, TLC

CONSTANTS m1, m2, m3, w1, w2

MCMsgs == {m1, m2, m3}
MCWorkers == {w1, w2}

=============================================================================
