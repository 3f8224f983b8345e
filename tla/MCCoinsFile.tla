----------------------------- MODULE MCCoinsFile -----------------------------
(***************************************************************************)
(* Small instances of CoinsFile: a default coin and two others, one of     *)
(* which the second version drops and one it adds.                         *)
(***************************************************************************)
EXTENDS CoinsFile

CONSTANTS lcc, ltc, arrr, main, pool1

AllCoins == {lcc, ltc, arrr}
OldCoins == {lcc, ltc}
NewCoins == {lcc, arrr}
ThreeVersions == [v \in 0 .. 2 |-> CASE v = 0 -> OldCoins [] v = 1 -> NewCoins [] v = 2 -> AllCoins]
OldVersions == [v \in 0 .. 2 |-> OldCoins]
OneVersion == [v \in 0 .. 0 |-> OldCoins]
=============================================================================
