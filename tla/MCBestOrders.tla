---------------------------- MODULE MCBestOrders ----------------------------
(***************************************************************************)
(* Small instances of BestOrders: two coins on the left selector, and two  *)
(* callbacks at a time.                                                    *)
(***************************************************************************)
EXTENDS BestOrders

CONSTANTS lcc, ltc

TwoCoins == {lcc, ltc}
OneCoin == {lcc}
=============================================================================
