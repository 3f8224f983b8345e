-------------------------- MODULE MCOrderbookRows --------------------------
(* Two orders, two prices and two right coins; an order of the best orders *)
(* may come for both coins, as one of a coin and its segwit form does.     *)
EXTENDS OrderbookRows

CONSTANTS o1, o2, k1, k2

O(id, coin, price) == [id |-> id, coin |-> coin, price |-> price]

TwoBids ==
  {<< >>, <<O(o1, k1, 1)>>, <<O(o2, k1, 2)>>}
    \cup {<<O(o1, k1, p), O(o2, k1, q)>> : p, q \in Prices}

TwinBests ==
  {<< >>, <<O(o2, k2, 2)>>, <<O(o1, k1, 1), O(o1, k2, 2)>>}
=============================================================================
