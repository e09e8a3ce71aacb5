---------------------------- MODULE MCKeepAliver ----------------------------
(* Model-checking instance of KeepAliver.                                   *)
EXTENDS KeepAliver
=============================================================================
