------------------------------ MODULE TimerPool ------------------------------
(***************************************************************************)
(* The pooled timers of an invoke's wait (sofabolt/syncpool.go:163-197,   *)
(* client.go:459-490, and the same code in protocol/bolt/clientx_bolt.go). *)
(*                                                                         *)
(* A caller with a non-zero timeout takes a *time.Timer from the global    *)
(* sync.Pool timerPool (AcquireTimer: a new timer, or a pooled one re-armed *)
(* by initTimer, which panics if Reset finds it still active), selects     *)
(* between its errCh and timer.C, and on return ReleaseTimer stops the     *)
(* timer, drains timer.C if Stop returned false, and puts it back.  A zero *)
(* timeout waits on the zero Timer, whose nil channel never fires.         *)
(*                                                                         *)
(* The Go runtime is the environment.  The repository pins no Go version, *)
(* so the build's timer semantics are a choice: before Go 1.23 a timer    *)
(* that expires leaves the heap first and sendTime does the non-blocking  *)
(* send on its 1-slot channel later, so Stop may return false while that *)
(* send is still to come; from Go 1.23 Stop and Reset discard any value   *)
(* not yet received.                                                      *)
(***************************************************************************)
EXTENDS Naturals

CONSTANTS
  Callers,     \* goroutines in invoke (Client or ClientConnBOLT)
  Timers,      \* the *time.Timer objects NewTimer may allocate (a bound)
  MaxCalls,    \* bound: invocations per caller
  Timeouts,    \* timeout arguments: "zero" or "finite"
  Runtimes,    \* timer semantics of the build: "pre1.23", "1.23"
  NoValue

ASSUME Timeouts # {} /\ Timeouts \subseteq {"zero", "finite"}
ASSUME Runtimes # {} /\ Runtimes \subseteq {"pre1.23", "1.23"}

Invocations == Callers \X (1 .. MaxCalls)

VARIABLES
  runtime,    \* the build's timer semantics (fixed)
  pool,       \* timers held by timerPool
  allocated,  \* timers NewTimer has created
  armed,      \* timer -> it is in the runtime's heap, waiting to expire
  sending,    \* timer -> the expiry sendTime has still to deliver (pre1.23)
  ch,         \* timer -> the value buffered in t.C (capacity 1), or NoValue
  armedBy,    \* ghost: timer -> the invocation whose AcquireTimer armed it
  pc,         \* caller -> "idle", "wait", "release", or "panic"
  tm,         \* caller -> the timer of its current wait (NoValue: zeroTimer)
  errCh,      \* caller -> its errCh holds the response
  calls       \* caller -> invocations started

vars == <<runtime, pool, allocated, armed, sending, ch, armedBy,
          pc, tm, errCh, calls>>
timerVars == <<pool, allocated, armed, sending, ch, armedBy>>

Invocation(c) == <<c, calls[c] + 1>>

Init ==
  /\ runtime \in Runtimes
  /\ pool = {} /\ allocated = {}
  /\ armed = [t \in Timers |-> FALSE]
  /\ sending = [t \in Timers |-> NoValue]
  /\ ch = [t \in Timers |-> NoValue]
  /\ armedBy = [t \in Timers |-> NoValue]
  /\ pc = [c \in Callers |-> "idle"]
  /\ tm = [c \in Callers |-> NoValue]
  /\ errCh = [c \in Callers |-> FALSE]
  /\ calls = [c \in Callers |-> 0]

\* The caller enters the wait of its next invocation on timer x.
StartWait(c, x) ==
  /\ pc' = [pc EXCEPT ![c] = "wait"]
  /\ tm' = [tm EXCEPT ![c] = x]
  /\ calls' = [calls EXCEPT ![c] = @ + 1]
  /\ UNCHANGED errCh

-----------------------------------------------------------------------------
(* Callers                                                                 *)

\* timeout == 0: the wait selects on the zero Timer.
AcquireZero(c) ==
  /\ pc[c] = "idle" /\ calls[c] < MaxCalls
  /\ "zero" \in Timeouts
  /\ StartWait(c, NoValue)
  /\ UNCHANGED <<runtime, timerVars>>

\* timerPool.Get returns nil (the pool is empty, or its items sit in
\* another P's cache or were dropped at a GC): time.NewTimer.
AcquireNew(c) ==
  /\ pc[c] = "idle" /\ calls[c] < MaxCalls
  /\ "finite" \in Timeouts
  /\ \E t \in Timers \ allocated :
       /\ allocated' = allocated \cup {t}
       /\ armed' = [armed EXCEPT ![t] = TRUE]
       /\ armedBy' = [armedBy EXCEPT ![t] = Invocation(c)]
       /\ StartWait(c, t)
  /\ UNCHANGED <<runtime, pool, sending, ch>>

\* Mutant: the pooled timer is handed out without Reset.
InitTimerNoReset(t, i) ==
  UNCHANGED <<armed, armedBy, ch>>

\* initTimer(t): Reset re-arms t; Reset returning TRUE (t was still
\* active) panics.  From Go 1.23 Reset also discards an unreceived value.
InitTimer(t, i) ==
  /\ armed' = [armed EXCEPT ![t] = TRUE]
  /\ armedBy' = [armedBy EXCEPT ![t] = i]
  /\ ch' = IF runtime = "1.23" THEN [ch EXCEPT ![t] = NoValue] ELSE ch

\* timerPool.Get returns a pooled timer, re-armed by initTimer.
AcquirePooled(c) ==
  /\ pc[c] = "idle" /\ calls[c] < MaxCalls
  /\ "finite" \in Timeouts
  /\ \E t \in pool :
       /\ pool' = pool \ {t}
       /\ InitTimer(t, Invocation(c))
       /\ IF armed[t] THEN /\ pc' = [pc EXCEPT ![c] = "panic"]
                           /\ UNCHANGED <<tm, errCh, calls>>
                      ELSE StartWait(c, t)
  /\ UNCHANGED <<runtime, allocated, sending>>

\* select: the response on errCh wins.
ReceiveResponse(c) ==
  /\ pc[c] = "wait" /\ errCh[c]
  /\ errCh' = [errCh EXCEPT ![c] = FALSE]
  /\ pc' = [pc EXCEPT ![c] = "release"]
  /\ UNCHANGED <<runtime, timerVars, tm, calls>>

\* select: <-timer.C wins; invoke returns ErrClientTimeout.
ReceiveTimeout(c) ==
  /\ pc[c] = "wait" /\ tm[c] # NoValue /\ ch[tm[c]] # NoValue
  /\ ch' = [ch EXCEPT ![tm[c]] = NoValue]
  /\ pc' = [pc EXCEPT ![c] = "release"]
  /\ UNCHANGED <<runtime, pool, allocated, armed, sending, armedBy,
                 tm, errCh, calls>>

\* stopTimer(t): Stop disarms t and returns whether it was armed (from Go
\* 1.23 it also discards an unreceived value); if it returned false, a
\* non-blocking receive drains t.C.
StopTimer(t) ==
  /\ armed' = [armed EXCEPT ![t] = FALSE]
  /\ ch' = IF runtime = "1.23" \/ ~armed[t] THEN [ch EXCEPT ![t] = NoValue]
                                           ELSE ch

\* The deferred ReleaseTimer: stopTimer, then timerPool.Put.
ReleaseTimer(c) ==
  /\ pc[c] = "release"
  /\ IF tm[c] = NoValue
       THEN UNCHANGED timerVars
       ELSE /\ StopTimer(tm[c])
            /\ pool' = pool \cup {tm[c]}
            /\ UNCHANGED <<allocated, sending, armedBy>>
  /\ pc' = [pc EXCEPT ![c] = "idle"]
  /\ tm' = [tm EXCEPT ![c] = NoValue]
  /\ UNCHANGED <<runtime, errCh, calls>>

-----------------------------------------------------------------------------
(* Environment: the read loop and the Go runtime                           *)

\* InvokeContext.Invoke sends the response on the waiting caller's errCh.
Respond(c) ==
  /\ pc[c] = "wait" /\ ~errCh[c]
  /\ errCh' = [errCh EXCEPT ![c] = TRUE]
  /\ UNCHANGED <<runtime, timerVars, pc, tm, calls>>

\* An armed timer expires.  From Go 1.23 the value is ready in t.C at
\* once; before, the timer leaves the heap and sendTime runs later.  (A
\* second expiry waits for the first send: the bound on in-flight sends.)
Fire(t) ==
  /\ armed[t] /\ sending[t] = NoValue
  /\ armed' = [armed EXCEPT ![t] = FALSE]
  /\ IF runtime = "1.23"
       THEN /\ ch' = [ch EXCEPT ![t] = IF @ = NoValue THEN armedBy[t] ELSE @]
            /\ UNCHANGED sending
       ELSE /\ sending' = [sending EXCEPT ![t] = armedBy[t]]
            /\ UNCHANGED ch
  /\ UNCHANGED <<runtime, pool, allocated, armedBy, pc, tm, errCh, calls>>

\* sendTime (before Go 1.23): the non-blocking send of the expiry into t.C,
\* dropped if the slot is full.
SendTime(t) ==
  /\ sending[t] # NoValue
  /\ ch' = [ch EXCEPT ![t] = IF @ = NoValue THEN sending[t] ELSE @]
  /\ sending' = [sending EXCEPT ![t] = NoValue]
  /\ UNCHANGED <<runtime, pool, allocated, armed, armedBy, pc, tm, errCh,
                 calls>>

-----------------------------------------------------------------------------

\* One step of caller c's invoke, from AcquireTimer to ReleaseTimer.
Invoke(c) ==
  \/ AcquireZero(c) \/ AcquireNew(c) \/ AcquirePooled(c)
  \/ ReceiveResponse(c) \/ ReceiveTimeout(c) \/ ReleaseTimer(c)

\* The part of invoke that runs once the wait has started.
WaitStep(c) == ReceiveResponse(c) \/ ReceiveTimeout(c) \/ ReleaseTimer(c)

Next ==
  \/ \E c \in Callers : Invoke(c) \/ Respond(c)
  \/ \E t \in Timers : Fire(t) \/ SendTime(t)

\* The runtime fires armed timers and runs sendTime; a caller in select
\* takes a ready case.  Starting calls and the peer's answers are not forced.
Fairness ==
  /\ \A t \in Timers : WF_vars(Fire(t)) /\ WF_vars(SendTime(t))
  /\ \A c \in Callers : WF_vars(WaitStep(c))

Spec == Init /\ [][Next]_vars /\ Fairness

-----------------------------------------------------------------------------
(* Properties                                                              *)

\* A call with a timeout returns (client.go:470-489): its pooled timer is
\* armed again, so the timer case of the select eventually becomes ready
\* even if no response ever comes.
TimeoutCallReturns ==
  \A c \in Callers : (pc[c] = "wait" /\ tm[c] # NoValue) ~> pc[c] = "release"

\* A waiting call's timer channel holds no expiry but its own: a timer
\* taken from timerPool never carries the fire of an earlier invocation,
\* which would end the new call at once with ErrClientTimeout.
NoStaleFire ==
  \A c \in Callers :
    pc[c] = "wait" /\ tm[c] # NoValue =>
      ch[tm[c]] \in {NoValue, <<c, calls[c]>>}

=============================================================================
