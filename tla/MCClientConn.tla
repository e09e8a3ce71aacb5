---------------------------- MODULE MCClientConn ----------------------------
(* Model-checking instance of ClientConn.                                   *)
EXTENDS ClientConn
=============================================================================
