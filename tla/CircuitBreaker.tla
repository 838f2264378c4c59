---------------------------- MODULE CircuitBreaker ----------------------------
(***************************************************************************)
(* InternalHttpPolicy.execute and the CircuitBreaker it drives: concurrent *)
(* calls to one upstream share the circuit's state, its list of failures   *)
(* and the flag of the half-open probe.  A call holds what it was admitted *)
(* as (its budget) across the awaits of its attempts and back-offs, while  *)
(* other calls change the circuit.                                         *)
(*                                                                         *)
(* Times are kept as ages, capped where the code stops telling them apart: *)
(* a failure at Window, the opening at Cooldown.                           *)
(***************************************************************************)
EXTENDS Naturals, Sequences, FiniteSets

CONSTANTS
    Calls,         \* concurrent callers of the upstream, each calling for ever
    Threshold,     \* failureThreshold
    Window,        \* windowMs, in time units
    Cooldown,      \* cooldownMs
    MaxAttempts    \* maxAttempts

\* The ranges BOUNDS accepts.
ASSUME ConfigAssumption ==
    /\ Threshold \in Nat \ {0}
    /\ Window \in Nat \ {0}
    /\ Cooldown \in Nat \ {0}
    /\ MaxAttempts \in Nat \ {0}

VARIABLES
    state,           \* CircuitBreaker.current
    failures,        \* ages of the recorded failures
    openAge,         \* time since openedAt
    probeInFlight,
    call,            \* per caller: where it is, its attempt and its budget
    healed           \* the upstream has recovered for good

circuit == <<state, failures, openAge, probeInFlight>>
vars == <<circuit, call, healed>>

Idle == [phase |-> "idle", i |-> 0, budget |-> 0, probe |-> FALSE]

\* The type invariant.
TypeOK ==
    /\ state \in {"closed", "open", "half_open"}
    /\ failures \in Seq(0..Window)
    /\ openAge \in 0..Cooldown
    /\ probeInFlight \in BOOLEAN
    /\ call \in [Calls -> [phase : {"idle", "attempt", "sleep"},
                           i : 0..MaxAttempts, budget : 0..MaxAttempts,
                           probe : BOOLEAN]]
    /\ \A c \in Calls : call[c].i <= call[c].budget
    /\ healed \in BOOLEAN

Init ==
    /\ state = "closed"
    /\ failures = <<>>
    /\ openAge = 0
    /\ probeInFlight = FALSE
    /\ call = [c \in Calls |-> Idle]
    /\ healed = FALSE

InFlight(c) == call[c].phase # "idle"

-----------------------------------------------------------------------------
\* transitionIfCooldownElapsed
Current == IF state = "open" /\ openAge >= Cooldown THEN "half_open" ELSE state

\* prune: ts > now - windowMs
Young(age) == age < Window
Pruned == SelectSeq(failures, Young)

Rejects == Current = "open" \/ (Current = "half_open" /\ probeInFlight)

\* enter() throws CircuitOpenError; the look at the clock is kept.
Reject(c) ==
    /\ ~InFlight(c)
    /\ Rejects
    /\ state' = Current
    /\ UNCHANGED <<failures, openAge, probeInFlight, call, healed>>

\* enter() admits the call, as the probe when the circuit is half-open, and
\* execute fixes the budget and starts the first attempt.
Enter(c) ==
    /\ ~InFlight(c)
    /\ ~Rejects
    /\ state' = Current
    /\ probeInFlight' = (probeInFlight \/ Current = "half_open")
    /\ call' = [call EXCEPT ![c] =
                  [phase |-> "attempt", i |-> 1,
                   budget |-> IF Current = "half_open" THEN 1 ELSE MaxAttempts,
                   probe |-> Current = "half_open"]]
    /\ UNCHANGED <<failures, openAge, healed>>

RecordSuccess ==
    IF state \in {"half_open", "open"}
      THEN /\ state' = "closed"
           /\ failures' = <<>>
           /\ UNCHANGED openAge
      ELSE /\ failures' = Pruned
           /\ UNCHANGED <<state, openAge>>

Open ==
    /\ state' = "open"
    /\ openAge' = 0
    /\ failures' = <<>>

RecordFailure ==
    IF state = "half_open" \/ Len(Pruned) + 1 >= Threshold
      THEN Open
      ELSE /\ failures' = Append(Pruned, 0)
           /\ UNCHANGED <<state, openAge>>

\* Mutant: leave() is missing.
LeaveKeepsProbe(c) ==
    /\ call' = [call EXCEPT ![c] = Idle]
    /\ UNCHANGED <<probeInFlight, healed>>

\* The finally block: leave() clears the flag, whoever leaves.
Leave(c) ==
    /\ probeInFlight' = FALSE
    /\ call' = [call EXCEPT ![c] = Idle]
    /\ UNCHANGED healed

\* The attempt gets an answer below 500.
Succeed(c) ==
    /\ call[c].phase = "attempt"
    /\ RecordSuccess
    /\ Leave(c)

\* A 5xx that is not retried, an error that is not retried, or the last
\* attempt of the budget.
Fail(c) ==
    /\ call[c].phase = "attempt"
    /\ ~healed
    /\ RecordFailure
    /\ Leave(c)

\* A timeout, a transport error or 502-504 with budget left: back off.
BackOff(c) ==
    /\ call[c].phase = "attempt"
    /\ ~healed
    /\ call[c].i < call[c].budget
    /\ call' = [call EXCEPT ![c].phase = "sleep"]
    /\ UNCHANGED <<circuit, healed>>

\* The back-off is over: the next attempt.
Retry(c) ==
    /\ call[c].phase = "sleep"
    /\ call' = [call EXCEPT ![c].phase = "attempt", ![c].i = @ + 1]
    /\ UNCHANGED <<circuit, healed>>

\* A unit of time.
Tick ==
    /\ failures' = [k \in DOMAIN failures |->
                      IF failures[k] < Window THEN failures[k] + 1 ELSE Window]
    /\ openAge' = IF openAge < Cooldown THEN openAge + 1 ELSE Cooldown
    /\ UNCHANGED <<state, probeInFlight, call, healed>>

\* The upstream recovers: from here on every attempt succeeds.
Heal ==
    /\ ~healed
    /\ healed' = TRUE
    /\ UNCHANGED <<circuit, call>>

Next ==
    \/ Tick
    \/ Heal
    \/ \E c \in Calls :
          \/ Reject(c) \/ Enter(c)
          \/ Succeed(c) \/ Fail(c) \/ BackOff(c) \/ Retry(c)

Spec == Init /\ [][Next]_vars

\* Every attempt ends (AbortSignal.timeout), back-offs end, callers keep
\* calling and time passes.
Fairness ==
    /\ WF_vars(Tick)
    /\ \A c \in Calls :
          /\ WF_vars(Succeed(c) \/ Fail(c) \/ BackOff(c))
          /\ WF_vars(Retry(c))
          /\ WF_vars(Reject(c) \/ Enter(c))

LiveSpec == Spec /\ Fairness

-----------------------------------------------------------------------------
(***************************************************************************)
(* Properties                                                              *)
(***************************************************************************)
\* The flag of the probe is never left behind: while it is set the call that
\* set it is under way, so half-open cannot reject for ever.
ProbeFlagOwned ==
    probeInFlight => \E c \in Calls : InFlight(c) /\ call[c].probe

\* Once the upstream has recovered the circuit closes and stays closed.
ClosesAfterRecovery == healed ~> [](state = "closed")
=============================================================================
