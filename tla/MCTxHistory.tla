------------------------------- MODULE MCTxHistory -------------------------------
(* Two coins of the daemon, one of which may be a ZHTLC coin that scans,   *)
(* and a token of the proxy.                                               *)
EXTENDS TxHistory

CONSTANTS ltc, arrr, eth, s1, s2

MCIds == 1 .. 2
MCInit == Init /\ scanning = {arrr} /\ ticker = ltc
MCSpec == MCInit /\ [][Next]_vars /\ Fairness
=============================================================================
