-------------------------- MODULE MCZhtlcActivation --------------------------
(***************************************************************************)
(* Small instances of ZhtlcActivation.                                     *)
(***************************************************************************)
EXTENDS ZhtlcActivation

CONSTANT arrr
=============================================================================
