-------------------------- MODULE MCCoinActivation --------------------------
(***************************************************************************)
(* Small instances of CoinActivation: two UTXO coins, or a platform with   *)
(* its tokens.                                                             *)
(***************************************************************************)
EXTENDS CoinActivation

CONSTANTS u1, u2, eth, t1, t2

UtxoCoins == {u1, u2}
UtxoPlatform == [c \in UtxoCoins |-> NoCoin]

MixedCoins == {u1, eth, t1}
MixedPlatform == [c \in MixedCoins |-> IF c = u1 THEN NoCoin ELSE eth]

FamilyCoins == {eth, t1, t2}
FamilyPlatform == [c \in FamilyCoins |-> eth]

PairCoins == {eth, t1}
PairPlatform == [c \in PairCoins |-> eth]
=============================================================================
