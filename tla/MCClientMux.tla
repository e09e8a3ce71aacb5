---------------------------- MODULE MCClientMux ----------------------------
(* Model-checking instance of ClientMux.                                    *)
EXTENDS ClientMux, TLC

\* Callers are interchangeable goroutines (safety runs only).
CallerSymmetry == Permutations(Callers)

\* No more than MaxCalls request ids are taken per caller: with RidBits = 3
\* and 2 callers x 3 calls the counter cannot wrap in the safety run.
=============================================================================
