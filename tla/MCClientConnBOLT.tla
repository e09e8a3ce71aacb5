--------------------------- MODULE MCClientConnBOLT ---------------------------
(* Model-checking instance of ClientConnBOLT.                               *)
EXTENDS ClientConnBOLT
=============================================================================
