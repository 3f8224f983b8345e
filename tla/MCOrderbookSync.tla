-------------------------- MODULE MCOrderbookSync --------------------------
(***************************************************************************)
(* Small instances of OrderbookSync: the default pair, its reverse and a   *)
(* third pair with a coin that can be disabled.                            *)
(***************************************************************************)
EXTENDS OrderbookSync

CONSTANTS lcc, ltc, coin

TwoPairs == {<<lcc, ltc>>, <<ltc, lcc>>}
ThreePairs == TwoPairs \cup {<<coin, lcc>>}
FourPairs == ThreePairs \cup {<<lcc, coin>>}
=============================================================================
