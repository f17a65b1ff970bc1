---------------------------- MODULE MCJsonRpcComm ----------------------------
(* The instances of JsonRpcComm that the configurations give to TLC.         *)
EXTENDS JsonRpcComm

\* Requests of peer 1 and of peer 2.
OneAndNone == <<1, 0>>
TwoAndNone == <<2, 0>>
OneEach == <<1, 1>>

\* Junk is sent by peer 1, or by nobody.
JunkFrom1 == <<1, 0>>
NoJunk == <<0, 0>>
=============================================================================
