----------------------------- MODULE MCWsClient -----------------------------
(* WsClient on a small instance.                                           *)
EXTENDS WsClient
=============================================================================
