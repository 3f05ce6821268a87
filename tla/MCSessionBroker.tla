--------------------------- MODULE MCSessionBroker ---------------------------
(* Two connection threads, two clients, a queue of two, a stream that      *)
(* keeps one of the two records published and a client table of two.       *)
EXTENDS SessionBroker

CONSTANTS c1, c2, k1, k2

MCConnections == {c1, c2}
MCClients == {k1, k2}
=============================================================================
