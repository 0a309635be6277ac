------------------------------- MODULE MCWsRelay -------------------------------
(***************************************************************************)
(* An instance of WsRelay for TLC: two sockets and a frame of one           *)
(* organization, a socket of another.                                       *)
(***************************************************************************)
EXTENDS WsRelay, TLC

CONSTANTS s1, s2, s3, f1, org1, org2

MCSockets == {s1, s2, s3}
MCFrames == {f1}
MCOrgOf == s1 :> org1 @@ s2 :> org1 @@ s3 :> org2 @@ f1 :> org1
=============================================================================
