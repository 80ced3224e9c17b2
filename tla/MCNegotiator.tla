---------------------------- MODULE MCNegotiator ----------------------------
(* Two peers, their sockets and the negotiations of the one pair.          *)
EXTENDS NegotiatorImplements

\* A bound: peer 2 has one socket at a time, and only peer 1 reconnects before
\* the server has noticed that its old socket is gone.
OneReconnects == sockets'[2] <= 1

RunNext == Next /\ OneReconnects
RunSpec == Init /\ [][RunNext]_vars /\ Fairness
=============================================================================
