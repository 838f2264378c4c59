------------------------------- MODULE SlaClock -------------------------------
(***************************************************************************)
(* The SLA of one finding.  Four writers share its row: findings-service's *)
(* ingest (reports, reopens, auto-resolves), users' triage, risk-service's *)
(* policy engine (sets slaDueAt for every finding event) and the sweep of  *)
(* SlaMonitorService, which claims slaNotifiedAt and then publishes        *)
(* ctem.policy.sla_breached.                                               *)
(*                                                                         *)
(* slaDueAt is kept as the time left, 0 once it has passed.                *)
(***************************************************************************)
EXTENDS Naturals, FiniteSets

CONSTANTS
    Sweepers,      \* sweeps of risk-service that may be under way at once
    Hours,         \* slaHours of the policy that matches
    MaxPending,    \* finding events that wait for the risk consumer
    Faults         \* {"publish"} when a publish may fail or its process die

NoDue == Hours + 1

ASSUME SlaAssumption ==
    /\ Hours \in Nat \ {0}
    /\ MaxPending \in Nat
    /\ Faults \subseteq {"publish"}

VARIABLES
    state,       \* open stands for open, triaged and in_progress; accepted for
                 \* risk_accepted, false_positive and suppressed
    due,         \* time left until slaDueAt, NoDue for null
    notified,    \* slaNotifiedAt is set
    pending,     \* finding events not yet handled by the risk consumer
    eval,        \* the policy engine's transactions: the due they have read
    hand,        \* where each sweep is; pubOld: claimed in an earlier window
    alerts,      \* sla_breached events of the present window
    lost         \* history: the present window's event was claimed and lost

vars == <<state, due, notified, pending, eval, hand, alerts, lost>>

States == {"open", "accepted", "resolved"}
\* The two consumers of finding events that call the policy engine.
Durables == {"created", "updated"}

\* The type invariant.
TypeOK ==
    /\ state \in States
    /\ due \in 0..NoDue
    /\ notified \in BOOLEAN
    /\ pending \in 0..MaxPending
    /\ eval \in [Durables -> [on : BOOLEAN, prior : 0..NoDue]]
    /\ hand \in [Sweepers -> {"idle", "listed", "pub", "pubOld"}]
    /\ alerts \in Nat
    /\ lost \in BOOLEAN

EvalOff == [on |-> FALSE, prior |-> NoDue]
Evaluating == {d \in Durables : eval[d].on}

\* A finding just created by ingest.
Init ==
    /\ state = "open"
    /\ due = NoDue
    /\ notified = FALSE
    /\ pending \in 0..MaxPending /\ pending <= 1
    /\ eval = [d \in Durables |-> EvalOff]
    /\ hand = [s \in Sweepers |-> "idle"]
    /\ alerts = 0
    /\ lost = FALSE

-----------------------------------------------------------------------------
\* slaNotifiedAt := null.  A claimed window ends; what its sweep has still to
\* publish belongs to the old window.
ReArm ==
    /\ notified' = FALSE
    /\ alerts' = 0
    /\ lost' = FALSE
    /\ hand' = [s \in Sweepers |-> IF hand[s] = "pub" THEN "pubOld" ELSE hand[s]]

KeepClaim == UNCHANGED <<notified, alerts, lost, hand>>

\* ingest: the upsert of a report that contains the finding, and its event.
\* A resolved finding is reopened with its old slaDueAt.
Reported ==
    /\ pending < MaxPending
    /\ pending' = pending + 1
    /\ IF state = "resolved"
         THEN state' = "open" /\ ReArm
         ELSE UNCHANGED state /\ KeepClaim
    /\ UNCHANGED <<due, eval>>

\* ingest: the scanner no longer reports the finding.
AutoResolve ==
    /\ state = "open"
    /\ state' = "resolved"
    /\ ReArm
    /\ UNCHANGED <<due, pending, eval>>

Triage(to) ==
    /\ state' = to
    /\ IF to = "resolved" THEN ReArm ELSE KeepClaim
    /\ UNCHANGED <<due, pending, eval>>

\* No policy matches, the match has no slaHours, or an exception is active.
EvalSkip ==
    /\ pending > Cardinality(Evaluating)
    /\ pending' = pending - 1
    /\ UNCHANGED <<state, due, notified, eval, hand, alerts, lost>>

\* evaluate: the transaction reads the present slaDueAt.
EvalRead(d) ==
    /\ pending > Cardinality(Evaluating)
    /\ ~eval[d].on
    /\ eval' = [eval EXCEPT ![d] = [on |-> TRUE, prior |-> due]]
    /\ UNCHANGED <<state, due, notified, pending, hand, alerts, lost>>

\* Mutant: a later due does not re-arm the alert.
EvalWriteKeeps(d) ==
    /\ eval[d].on
    /\ due' = Hours
    /\ KeepClaim
    /\ eval' = [eval EXCEPT ![d] = EvalOff]
    /\ pending' = pending - 1
    /\ UNCHANGED state

\* ... and writes slaDueAt = now + slaHours, whatever it was; the claim is
\* cleared when that is later than what was read.
EvalWrite(d) ==
    /\ eval[d].on
    /\ due' = Hours
    /\ IF eval[d].prior < Hours THEN ReArm ELSE KeepClaim
    /\ eval' = [eval EXCEPT ![d] = EvalOff]
    /\ pending' = pending - 1
    /\ UNCHANGED state

\* The transaction fails; the event is delivered again.
EvalAbort(d) ==
    /\ eval[d].on
    /\ eval' = [eval EXCEPT ![d] = EvalOff]
    /\ UNCHANGED <<state, due, notified, pending, hand, alerts, lost>>

-----------------------------------------------------------------------------
Breached == due = 0 /\ state = "open"

\* runSweep: findMany returns the finding.
SweepList(s) ==
    /\ hand[s] = "idle"
    /\ Breached
    /\ ~notified
    /\ hand' = [hand EXCEPT ![s] = "listed"]
    /\ UNCHANGED <<state, due, notified, pending, eval, alerts, lost>>

\* Mutant: the claim does not look at slaNotifiedAt.
ClaimAgain(s) ==
    /\ hand[s] = "listed"
    /\ hand' = [hand EXCEPT ![s] = IF Breached THEN "pub" ELSE "idle"]
    /\ notified' = (notified \/ Breached)
    /\ UNCHANGED <<state, due, pending, eval, alerts, lost>>

\* Mutant: the UPDATE claims whatever the state, which is looked at afterwards.
ClaimAnyState(s) ==
    /\ hand[s] = "listed"
    /\ hand' = [hand EXCEPT ![s] = IF Breached /\ ~notified THEN "pub" ELSE "idle"]
    /\ notified' = (notified \/ due = 0)
    /\ UNCHANGED <<state, due, pending, eval, alerts, lost>>

\* claimSlaBreachNotification: one UPDATE ... WHERE ... RETURNING.
Claim(s) ==
    /\ hand[s] = "listed"
    /\ hand' = [hand EXCEPT ![s] = IF Breached /\ ~notified THEN "pub" ELSE "idle"]
    /\ notified' = (notified \/ Breached)
    /\ UNCHANGED <<state, due, pending, eval, alerts, lost>>

Publish(s) ==
    /\ hand[s] \in {"pub", "pubOld"}
    /\ alerts' = IF hand[s] = "pub" THEN alerts + 1 ELSE alerts
    /\ hand' = [hand EXCEPT ![s] = "idle"]
    /\ UNCHANGED <<state, due, notified, pending, eval, lost>>

\* The publish throws and is only logged, or the process dies before it.
PublishFails(s) ==
    /\ "publish" \in Faults
    /\ hand[s] \in {"pub", "pubOld"}
    /\ hand' = [hand EXCEPT ![s] = "idle"]
    /\ lost' = (lost \/ hand[s] = "pub")
    /\ UNCHANGED <<state, due, notified, pending, eval, alerts>>

\* Time, in the unit of Hours: a transaction lasts seconds.
Tick ==
    /\ Evaluating = {}
    /\ due' = IF due \in 1..Hours THEN due - 1 ELSE due
    /\ UNCHANGED <<state, notified, pending, eval, hand, alerts, lost>>

Next ==
    \/ Reported \/ AutoResolve
    \/ \E to \in States : Triage(to)
    \/ EvalSkip
    \/ \E d \in Durables : EvalRead(d) \/ EvalWrite(d) \/ EvalAbort(d)
    \/ \E s \in Sweepers : SweepList(s) \/ Claim(s) \/ Publish(s) \/ PublishFails(s)
    \/ Tick

Spec == Init /\ [][Next]_vars

\* Sweeps recur every ten minutes and finish.
Fairness ==
    \A s \in Sweepers : WF_vars(SweepList(s)) /\ WF_vars(Claim(s)) /\ WF_vars(Publish(s))

LiveSpec == Spec /\ Fairness

-----------------------------------------------------------------------------
(***************************************************************************)
(* Properties                                                              *)
(***************************************************************************)
\* "SLA breach notify-once is a durable claim": one window has one alert,
\* with overlapping sweeps and any writes in between.
AlertOnce == alerts <= 1

\* A set claim belongs to a breach: a due that is moved later always re-arms,
\* so the next breach is not swallowed by the last one's claim.
ClaimedIsBreached == notified => due = 0

\* A claim stands for an alert that was published, is about to be or was lost
\* by a failed publish: no write of the others in between silences a breach.
ClaimMeansAlert == notified => alerts = 1 \/ lost \/ \E s \in Sweepers : hand[s] = "pub"

\* A breach is alerted unless its alert is lost by a failed publish, the
\* finding leaves the open states or its due is moved first.
BreachAlerted == Breached ~> (alerts = 1 \/ lost \/ ~Breached)

=============================================================================
