----------------------------- MODULE CommandSpec -----------------------------
(***************************************************************************)
(* What the connection loop's request object promises its handler         *)
(* (spec.md 3, 4.1, 4.2): after a frame is read, the handler sees exactly *)
(* the command the peer wrote (round-trip law), with a header map in      *)
(* which Get returns the last value Set and "" after Del.  A frame that   *)
(* cannot be read ends the loop.  cmd is NoCmd between requests.          *)
(***************************************************************************)
EXTENDS Naturals

CONSTANTS Frames,     \* the commands the peer may send, headers as Keys -> value
          Keys,       \* the header keys the handler uses
          Values,     \* the header values the handler sets
          MaxReads,   \* bound on the frames read
          NoCmd

VARIABLES cmd, phase, reads

vars == <<cmd, phase, reads>>

Init == cmd = NoCmd /\ phase = "read" /\ reads = 0

Receive(f) ==
    /\ phase = "read" /\ reads < MaxReads
    /\ cmd' = f /\ phase' = "handling" /\ reads' = reads + 1

ReadFails ==
    /\ phase = "read" /\ reads < MaxReads
    /\ phase' = "closed" /\ reads' = reads + 1 /\ UNCHANGED cmd

SetHeader(k, v) ==
    /\ phase = "handling"
    /\ cmd' = [cmd EXCEPT !.hdr[k] = v] /\ UNCHANGED <<phase, reads>>

DelHeader(k) ==
    /\ phase = "handling"
    /\ cmd' = [cmd EXCEPT !.hdr[k] = <<>>] /\ UNCHANGED <<phase, reads>>

Done ==
    /\ phase = "handling"
    /\ cmd' = NoCmd /\ phase' = "read" /\ UNCHANGED reads

Next ==
    \/ \E f \in Frames : Receive(f)
    \/ ReadFails
    \/ \E k \in Keys, v \in Values : SetHeader(k, v)
    \/ \E k \in Keys : DelHeader(k)
    \/ Done

Spec == Init /\ [][Next]_vars

=============================================================================
