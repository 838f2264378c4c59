------------------------- MODULE CircuitBreakerProofs -------------------------
(***************************************************************************)
(* CircuitBreaker for any set of callers and any configuration: the probe  *)
(* flag is never orphaned.                                                 *)
(***************************************************************************)
EXTENDS CircuitBreaker, TLAPS

CallRec == [phase : {"idle", "attempt", "sleep"},
            i : Nat, budget : Nat, probe : BOOLEAN]

\* The flag of the probe belongs to a call under way that was admitted as one.
ProbeInv ==
    /\ call \in [Calls -> CallRec]
    /\ probeInFlight \in BOOLEAN
    /\ ProbeFlagOwned

\* A caller that leaves is idle, and no flag is left.
LEMMA LeavePreserves ==
    ASSUME ProbeInv, NEW c \in Calls, Leave(c)
    PROVE  ProbeInv'
<1>1. call' = [call EXCEPT ![c] = Idle] /\ probeInFlight' = FALSE
  BY DEF Leave
<1>2. Idle \in CallRec /\ Idle.phase = "idle" /\ Idle.probe = FALSE
  BY DEF Idle, CallRec
<1> HIDE DEF Idle
<1>3. call' \in [Calls -> CallRec]
  BY <1>1, <1>2 DEF ProbeInv
<1>4. \A d \in Calls : call'[d] = IF d = c THEN Idle ELSE call[d]
  BY <1>1 DEF ProbeInv
<1> QED BY <1>1, <1>2, <1>3, <1>4 DEF ProbeInv, ProbeFlagOwned

\* The ownership of the probe's flag is kept by every step.
LEMMA ProbeStep ==
    ASSUME ProbeInv, [Next]_vars
    PROVE  ProbeInv'
<1> USE ConfigAssumption
<1>1. CASE Tick \/ Heal \/ UNCHANGED vars
  BY <1>1 DEF Tick, Heal, vars, circuit, ProbeInv, ProbeFlagOwned, InFlight
<1>2. ASSUME NEW c \in Calls, Reject(c) PROVE ProbeInv'
  BY <1>2 DEF Reject, ProbeInv, ProbeFlagOwned, InFlight
<1>3. ASSUME NEW c \in Calls, Enter(c) PROVE ProbeInv'
  <2> DEFINE r == [phase |-> "attempt", i |-> 1,
                   budget |-> IF Current = "half_open" THEN 1 ELSE MaxAttempts,
                   probe |-> Current = "half_open"]
  <2>1. call' = [call EXCEPT ![c] = r] /\ ~InFlight(c)
        /\ probeInFlight' = (probeInFlight \/ Current = "half_open")
    BY <1>3 DEF Enter
  <2>2. /\ r \in CallRec
        /\ r.phase = "attempt"
        /\ r.probe = (Current = "half_open")
    BY DEF CallRec
  <2> HIDE DEF r
  <2>3. call' \in [Calls -> CallRec]
    BY <2>1, <2>2 DEF ProbeInv
  <2>4. \A d \in Calls : call'[d] = IF d = c THEN r ELSE call[d]
    BY <2>1 DEF ProbeInv
  <2>5. ProbeFlagOwned'
    <3>1. CASE Current = "half_open"
      BY <2>2, <2>4, <3>1 DEF ProbeFlagOwned, InFlight
    <3>2. CASE Current # "half_open"
      BY <2>1, <2>4, <3>2 DEF ProbeInv, ProbeFlagOwned, InFlight
    <3> QED BY <3>1, <3>2
  <2> QED BY <2>1, <2>2, <2>3, <2>4, <2>5 DEF ProbeInv
<1>4. ASSUME NEW c \in Calls, Succeed(c) PROVE ProbeInv'
  BY <1>4, LeavePreserves DEF Succeed
<1>5. ASSUME NEW c \in Calls, Fail(c) PROVE ProbeInv'
  BY <1>5, LeavePreserves DEF Fail
<1>6. ASSUME NEW c \in Calls, BackOff(c) PROVE ProbeInv'
  <2>1. /\ call' = [call EXCEPT ![c].phase = "sleep"]
        /\ probeInFlight' = probeInFlight
        /\ call[c].phase = "attempt"
    BY <1>6 DEF BackOff, circuit
  <2>2. call' \in [Calls -> CallRec]
    BY <2>1 DEF ProbeInv, CallRec
  <2>3. /\ \A d \in Calls : call'[d].probe = call[d].probe
        /\ \A d \in Calls : call[d].phase # "idle" => call'[d].phase # "idle"
    BY <2>1 DEF ProbeInv, CallRec
  <2> QED BY <2>1, <2>2, <2>3 DEF ProbeInv, ProbeFlagOwned, InFlight
<1>7. ASSUME NEW c \in Calls, Retry(c) PROVE ProbeInv'
  <2>1. /\ call' = [call EXCEPT ![c].phase = "attempt", ![c].i = @ + 1]
        /\ probeInFlight' = probeInFlight
    BY <1>7 DEF Retry, circuit
  <2>2. call' \in [Calls -> CallRec]
    BY <2>1 DEF ProbeInv, CallRec
  <2>3. /\ \A d \in Calls : call'[d].probe = call[d].probe
        /\ \A d \in Calls : call[d].phase # "idle" => call'[d].phase # "idle"
    BY <2>1 DEF ProbeInv, CallRec
  <2> QED BY <2>1, <2>2, <2>3 DEF ProbeInv, ProbeFlagOwned, InFlight
<1> QED BY <1>1, <1>2, <1>3, <1>4, <1>5, <1>6, <1>7 DEF Next

\* The initial state satisfies the invariant.
LEMMA ProbeInit == Init => ProbeInv
<1> SUFFICES ASSUME Init PROVE ProbeInv
  OBVIOUS
<1>1. Idle \in CallRec /\ Idle.phase = "idle" /\ Idle.probe = FALSE
  BY DEF Idle, CallRec
<1> HIDE DEF Idle
<1> QED BY <1>1 DEF Init, ProbeInv, ProbeFlagOwned

\* While the flag of the half-open probe is set, a call admitted as a probe is
\* under way: the flag is never left behind by a call that ended.
THEOREM ProbeFlagOwnedHolds == Spec => []ProbeFlagOwned
<1>1. ProbeInv => ProbeFlagOwned
  BY DEF ProbeInv
<1>2. ProbeInv /\ [Next]_vars => ProbeInv'
  BY ProbeStep
<1> QED BY <1>1, <1>2, ProbeInit, PTL DEF Spec
=============================================================================
