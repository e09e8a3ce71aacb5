-------------------------- MODULE InvokeCorrelation --------------------------
(***************************************************************************)
(* What sofabolt.Client promises each invocation of Do, DoTimeout and     *)
(* DoCallback (spec.md 3): an invocation is registered before its request *)
(* is written; while registered it may be answered with its own response, *)
(* fail together with every other registered invocation when the          *)
(* connection's read fails, or be withdrawn by its caller (timeout, write *)
(* error, one-way send).  An invocation is told at most one outcome, and  *)
(* only while registered; its caller then consumes it.                    *)
(*                                                                         *)
(* phase[i]: "new" (not yet registered), "live" (registered, no outcome), *)
(* "ok" (told its own response), "err" (told the read error), "gone"      *)
(* (returned to its caller, or rejected before registering).              *)
(***************************************************************************)

CONSTANTS Invocations

VARIABLES phase

Phases == {"new", "live", "ok", "err", "gone"}

Init == phase = [i \in Invocations |-> "new"]

\* The context of i is put in the table.
Register(i) ==
  /\ phase[i] = "new"
  /\ phase' = [phase EXCEPT ![i] = "live"]

\* i is rejected before it registers (client closed, stored read error).
Reject(i) ==
  /\ phase[i] = "new"
  /\ phase' = [phase EXCEPT ![i] = "gone"]

\* The response to i's own request reaches i.
Answer(i) ==
  /\ phase[i] = "live"
  /\ phase' = [phase EXCEPT ![i] = "ok"]

\* A read fails: every registered invocation is told the error, at once.
FailAll ==
  /\ \E i \in Invocations : phase[i] = "live"
  /\ phase' = [i \in Invocations |->
                 IF phase[i] = "live" THEN "err" ELSE phase[i]]

\* i's caller leaves without an outcome and takes i out of the table.
Withdraw(i) ==
  /\ phase[i] = "live"
  /\ phase' = [phase EXCEPT ![i] = "gone"]

\* i's caller returns after i was told its outcome.
Collect(i) ==
  /\ phase[i] \in {"ok", "err"}
  /\ phase' = [phase EXCEPT ![i] = "gone"]

Next ==
  \/ \E i \in Invocations :
       Register(i) \/ Reject(i) \/ Answer(i) \/ Withdraw(i) \/ Collect(i)
  \/ FailAll

Spec == Init /\ [][Next]_phase

TypeOK == phase \in [Invocations -> Phases]

=============================================================================
