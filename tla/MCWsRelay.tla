----------------------------- MODULE MCWsRelay -----------------------------
(***************************************************************************)
(* WsStores for TLC.                                                       *)
(***************************************************************************)
EXTENDS WsStores
=============================================================================
