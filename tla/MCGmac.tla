------------------------------- MODULE MCGmac -------------------------------
(***************************************************************************)
(* Gmac for TLC.                                                            *)
(***************************************************************************)
EXTENDS Gmac
==============================================================================
