---------------------------- MODULE FindingsProofs ----------------------------
(***************************************************************************)
(* The rows of findings.  SlaClock for any set of sweeps, any slaHours and *)
(* every fault: one alert per window, and no claim survives a due that is  *)
(* moved later.  FindingBacklog for any fingerprints, reports, deliveries, *)
(* replicas and every fault: the rows follow the newest report unless an   *)
(* older one was applied beside or after it.                               *)
(***************************************************************************)
EXTENDS SlaClock, FindingBacklog, TLAPS

-----------------------------------------------------------------------------
(***************************************************************************)
(* SlaClock                                                                *)
(***************************************************************************)
\* A claim comes from a breach; a transaction that read a due it will not move
\* later keeps the row from becoming one, since no time passes while it runs.
ClaimInv ==
    /\ notified => due = 0
    /\ \A d \in Durables : eval[d].on /\ eval[d].prior >= Hours => due >= Hours

\* The sweep that owns the present window's alert is alone and has not
\* published it; a published alert keeps the claim.
AlertInv ==
    /\ \A s \in Sweepers : hand[s] = "pub" => notified /\ alerts = 0
    /\ \A s, t \in Sweepers : hand[s] = "pub" /\ hand[t] = "pub" => s = t
    /\ alerts > 0 => notified
    /\ alerts <= 1
    /\ ClaimMeansAlert

\* The parts of the type invariant the arguments below rest on.
RowType ==
    /\ state \in States
    /\ due \in 0..NoDue
    /\ notified \in BOOLEAN
    /\ eval \in [Durables -> [on : BOOLEAN, prior : 0..NoDue]]
    /\ hand \in [Sweepers -> {"idle", "listed", "pub", "pubOld"}]
    /\ alerts \in Nat
    /\ lost \in BOOLEAN

\* Re-arming leaves no sweep in the present window.
LEMMA ReArmFacts ==
    ASSUME RowType, ReArm
    PROVE  /\ hand' \in [Sweepers -> {"idle", "listed", "pub", "pubOld"}]
           /\ \A s \in Sweepers : hand'[s] # "pub"
           /\ notified' = FALSE
           /\ alerts' = 0
           /\ lost' = FALSE
  BY DEF ReArm, RowType

\* A claim is kept or cleared by every step that is not a sweep's.
LEMMA ReArmOrKeep ==
    ASSUME RowType, AlertInv, ReArm \/ KeepClaim
    PROVE  AlertInv' /\ hand' \in [Sweepers -> {"idle", "listed", "pub", "pubOld"}]
           /\ notified' \in BOOLEAN /\ alerts' \in Nat /\ lost' \in BOOLEAN /\ (notified' => notified)
<1>1. CASE ReArm
  BY <1>1, ReArmFacts DEF AlertInv, ClaimMeansAlert
<1>2. CASE KeepClaim
  BY <1>2 DEF KeepClaim, AlertInv, RowType, ClaimMeansAlert
<1> QED BY <1>1, <1>2

\* Reports, resolutions and triage.
LEMMA OthersStep ==
    ASSUME RowType, AlertInv, ClaimInv,
           Reported \/ AutoResolve \/ (\E to \in States : Triage(to)) \/ EvalSkip
    PROVE  RowType' /\ AlertInv' /\ ClaimInv'
<1> USE SlaAssumption
<1>1. (ReArm \/ KeepClaim) /\ due' = due /\ eval' = eval
  BY DEF Reported, AutoResolve, Triage, EvalSkip, KeepClaim
<1>2. state' \in States
  BY DEF Reported, AutoResolve, Triage, EvalSkip, RowType, States
<1>3. AlertInv' /\ hand' \in [Sweepers -> {"idle", "listed", "pub", "pubOld"}]
      /\ notified' \in BOOLEAN /\ alerts' \in Nat /\ lost' \in BOOLEAN /\ (notified' => notified)
  BY <1>1, ReArmOrKeep
<1>4. RowType'
  BY <1>1, <1>2, <1>3 DEF RowType
<1>5. ClaimInv'
  BY <1>1, <1>3 DEF ClaimInv
<1> QED BY <1>3, <1>4, <1>5

\* The policy engine's transactions.
LEMMA EvalStep ==
    ASSUME RowType, AlertInv, ClaimInv, NEW d \in Durables,
           EvalRead(d) \/ EvalWrite(d) \/ EvalAbort(d)
    PROVE  RowType' /\ AlertInv' /\ ClaimInv'
<1> USE SlaAssumption
<1>1. CASE EvalRead(d)
  <2>1. due' = due /\ notified' = notified /\ alerts' = alerts /\ lost' = lost /\ hand' = hand
        /\ state' = state
        /\ eval' = [eval EXCEPT ![d] = [on |-> TRUE, prior |-> due]]
    BY <1>1 DEF EvalRead
  <2>2. eval' \in [Durables -> [on : BOOLEAN, prior : 0..NoDue]]
    BY <2>1 DEF RowType
  <2>3. \A e \in Durables : eval'[e] = IF e = d THEN [on |-> TRUE, prior |-> due] ELSE eval[e]
    BY <2>1 DEF RowType
  <2>4. ClaimInv'
    BY <2>1, <2>3 DEF ClaimInv
  <2> QED BY <2>1, <2>2, <2>4 DEF RowType, AlertInv, ClaimMeansAlert
<1>2. CASE EvalWrite(d)
  <2>1. due' = Hours /\ state' = state /\ eval' = [eval EXCEPT ![d] = EvalOff]
        /\ (IF eval[d].prior < Hours THEN ReArm ELSE KeepClaim) /\ eval[d].on
    BY <1>2 DEF EvalWrite
  <2>2. eval' \in [Durables -> [on : BOOLEAN, prior : 0..NoDue]]
    BY <2>1 DEF RowType, EvalOff, NoDue
  <2>4. AlertInv' /\ hand' \in [Sweepers -> {"idle", "listed", "pub", "pubOld"}]
        /\ notified' \in BOOLEAN /\ alerts' \in Nat /\ lost' \in BOOLEAN
    BY <2>1, ReArmOrKeep
  <2>5. ~notified'
    <3>1. CASE eval[d].prior < Hours
      BY <2>1, <3>1 DEF ReArm
    <3>2. CASE ~(eval[d].prior < Hours)
      <4>1. eval[d].prior >= Hours
        BY <3>2 DEF RowType, NoDue
      <4>2. due >= Hours
        BY <2>1, <4>1 DEF ClaimInv
      <4> QED BY <2>1, <3>2, <4>2 DEF ClaimInv, KeepClaim
    <3> QED BY <3>1, <3>2
  <2>6. ClaimInv'
    BY <2>1, <2>5 DEF ClaimInv
  <2>7. due' \in 0..NoDue
    BY <2>1 DEF NoDue
  <2> QED BY <2>1, <2>2, <2>4, <2>6, <2>7 DEF RowType
<1>3. CASE EvalAbort(d)
  <2>1. due' = due /\ notified' = notified /\ alerts' = alerts /\ lost' = lost /\ hand' = hand
        /\ state' = state /\ eval' = [eval EXCEPT ![d] = EvalOff]
    BY <1>3 DEF EvalAbort
  <2>2. eval' \in [Durables -> [on : BOOLEAN, prior : 0..NoDue]]
    BY <2>1 DEF RowType, EvalOff, NoDue
  <2>3. \A e \in Durables : eval'[e].on => eval'[e] = eval[e]
    BY <2>1 DEF RowType, EvalOff
  <2>4. ClaimInv'
    BY <2>1, <2>3 DEF ClaimInv
  <2> QED BY <2>1, <2>2, <2>4 DEF RowType, AlertInv, ClaimMeansAlert
<1> QED BY <1>1, <1>2, <1>3

\* The sweeps.
LEMMA SweepStep ==
    ASSUME RowType, AlertInv, ClaimInv, NEW s \in Sweepers,
           SweepList(s) \/ Claim(s) \/ Publish(s) \/ PublishFails(s)
    PROVE  RowType' /\ AlertInv' /\ ClaimInv'
<1>1. state' = state /\ due' = due /\ eval' = eval
  BY DEF SweepList, Claim, Publish, PublishFails
<1>2. hand' \in [Sweepers -> {"idle", "listed", "pub", "pubOld"}]
  BY DEF SweepList, Claim, Publish, PublishFails, RowType
<1>3. \A t \in Sweepers : t # s => hand'[t] = hand[t]
  BY DEF SweepList, Claim, Publish, PublishFails, RowType
<1>4. CASE SweepList(s)
  <2>1. notified' = notified /\ alerts' = alerts /\ lost' = lost /\ hand'[s] # "pub" /\ hand[s] # "pub"
    BY <1>4 DEF SweepList, RowType
  <2> QED BY <1>1, <1>2, <1>3, <2>1 DEF RowType, AlertInv, ClaimInv, ClaimMeansAlert
<1>5. CASE PublishFails(s)
  <2>1. notified' = notified /\ alerts' = alerts /\ hand'[s] = "idle"
    BY <1>5 DEF PublishFails, RowType
  <2>2. lost' \in BOOLEAN /\ (lost' <=> (lost \/ hand[s] = "pub"))
    BY <1>5 DEF PublishFails, RowType
  <2> QED BY <1>1, <1>2, <1>3, <2>1, <2>2 DEF RowType, AlertInv, ClaimInv, ClaimMeansAlert
<1>6. CASE Claim(s)
  <2>1. /\ alerts' = alerts /\ lost' = lost
        /\ (notified' <=> (notified \/ Breached)) /\ notified' \in BOOLEAN
    BY <1>6 DEF Claim, Breached, RowType
  <2>2. hand[s] = "listed" /\ (hand'[s] = "pub" <=> Breached /\ ~notified)
    BY <1>6 DEF Claim, RowType
  <2>3. ClaimInv'
    BY <1>1, <2>1 DEF ClaimInv, Breached
  <2>4. AlertInv'
    BY <1>3, <2>1, <2>2 DEF AlertInv, RowType, ClaimMeansAlert
  <2> QED BY <1>1, <1>2, <2>1, <2>3, <2>4 DEF RowType
<1>7. CASE Publish(s)
  <2>1. notified' = notified /\ lost' = lost /\ hand'[s] = "idle"
    BY <1>7 DEF Publish, RowType
  <2>2. alerts' = IF hand[s] = "pub" THEN alerts + 1 ELSE alerts
    BY <1>7 DEF Publish
  <2>3. AlertInv'
    <3>1. CASE hand[s] = "pub"
      BY <1>3, <2>1, <2>2, <3>1 DEF AlertInv, RowType, ClaimMeansAlert
    <3>2. CASE hand[s] # "pub"
      BY <1>3, <2>1, <2>2, <3>2 DEF AlertInv, RowType, ClaimMeansAlert
    <3> QED BY <3>1, <3>2
  <2> QED BY <1>1, <1>2, <2>1, <2>2, <2>3 DEF RowType, ClaimInv
<1> QED BY <1>4, <1>5, <1>6, <1>7

\* Time.
LEMMA TickStep ==
    ASSUME RowType, AlertInv, ClaimInv, Tick
    PROVE  RowType' /\ AlertInv' /\ ClaimInv'
<1> USE SlaAssumption
<1>1. state' = state /\ notified' = notified /\ eval' = eval /\ hand' = hand /\ alerts' = alerts /\ lost' = lost
  BY DEF Tick
<1>2. due' \in 0..NoDue /\ (due = 0 => due' = 0)
  BY DEF Tick, RowType, NoDue
<1>3. \A d \in Durables : ~eval[d].on
  BY DEF Tick, Evaluating, RowType
<1>4. ClaimInv'
  BY <1>1, <1>2, <1>3 DEF ClaimInv
<1> QED BY <1>1, <1>2, <1>4 DEF RowType, AlertInv, ClaimMeansAlert

\* The three together are inductive.
LEMMA SlaInvHolds == Spec => [](RowType /\ AlertInv /\ ClaimInv)
<1>1. Init => RowType /\ AlertInv /\ ClaimInv
  <2> SUFFICES ASSUME Init PROVE RowType /\ AlertInv /\ ClaimInv
    OBVIOUS
  <2> USE SlaAssumption
  <2>1. EvalOff \in [on : BOOLEAN, prior : 0..NoDue] /\ EvalOff.on = FALSE
    BY DEF EvalOff, NoDue
  <2> HIDE DEF EvalOff
  <2>2. eval \in [Durables -> [on : BOOLEAN, prior : 0..NoDue]] /\ \A d \in Durables : ~eval[d].on
    BY <2>1 DEF Init
  <2>3. RowType
    <3>1. due \in 0..NoDue
      BY DEF Init, NoDue
    <3>2. hand \in [Sweepers -> {"idle", "listed", "pub", "pubOld"}]
      BY DEF Init
    <3>3. state \in States /\ notified \in BOOLEAN /\ alerts \in Nat /\ lost \in BOOLEAN
      BY DEF Init, States
    <3> QED BY <2>2, <3>1, <3>2, <3>3 DEF RowType
  <2> QED BY <2>2, <2>3 DEF Init, AlertInv, ClaimInv, ClaimMeansAlert
<1>2. RowType /\ AlertInv /\ ClaimInv /\ [Next]_vars => (RowType /\ AlertInv /\ ClaimInv)'
  <2> SUFFICES ASSUME RowType, AlertInv, ClaimInv, [Next]_vars
               PROVE  RowType' /\ AlertInv' /\ ClaimInv'
    OBVIOUS
  <2>1. CASE UNCHANGED vars
    BY <2>1 DEF vars, RowType, AlertInv, ClaimInv, ClaimMeansAlert
  <2> QED BY <2>1, OthersStep, EvalStep, SweepStep, TickStep DEF Next
<1> QED BY <1>1, <1>2, PTL DEF Spec

\* A window has at most one sla_breached event, however many sweeps overlap,
\* publishes fail and writers interleave.
THEOREM AlertOnceHolds == Spec => []AlertOnce
<1>1. AlertInv => AlertOnce
  BY DEF AlertInv, AlertOnce
<1> QED BY <1>1, SlaInvHolds, PTL

\* A claim always stands for an alert published, about to be published or
\* lost by a failed publish: no other writer can silence a breach.
THEOREM ClaimMeansAlertHolds == Spec => []ClaimMeansAlert
<1>1. AlertInv => ClaimMeansAlert
  BY DEF AlertInv
<1> QED BY <1>1, SlaInvHolds, PTL

\* A claim never outlives the breach it stands for: moving the due later
\* always clears it, also when two transactions and a sweep interleave.
THEOREM ClaimedIsBreachedHolds == Spec => []ClaimedIsBreached
<1>1. ClaimInv => ClaimedIsBreached
  BY DEF ClaimInv, ClaimedIsBreached
<1> QED BY <1>1, SlaInvHolds, PTL

-----------------------------------------------------------------------------
(***************************************************************************)
(* FindingBacklog                                                          *)
(***************************************************************************)
Handler == [at : {"waiting", "loop", "upsert", "publish", "rescore", "acked", "dead"},
            todo : SUBSET Prints, cur : SUBSET Prints, existing : RowStates \cup {"none"},
            tries : Nat]

\* Types, and that a report that was not sent has no handler.
BacklogType ==
    /\ row \in [Prints -> RowStates \cup {"none"}]
    /\ report \in Seq(SUBSET Prints) /\ Len(report) <= MaxReports
    /\ ingest \in [Reports -> Handler]
    /\ touched \in SUBSET Prints
    /\ mixed \in BOOLEAN
    /\ \A r \in Reports : r \notin Sent => ingest[r].at = "waiting"
    /\ \A r \in Reports : ingest[r].at = "waiting" => ingest[r].cur = {}

Newest == Len(report)
Kept(f) == row[f] \notin {"none", "resolved"}

\* Once the newest report is taken up with nothing else under way, only its own
\* handler writes, and what a user has not triaged since is as far as that
\* handler has come.
FollowInv ==
    report # <<>> /\ ~mixed /\ ingest[Newest].at # "waiting" =>
      LET h == ingest[Newest] IN
      /\ \A r \in Sent : Active(r) => r = Newest
      /\ h.at \in {"loop", "upsert", "publish"} =>
           \A f \in report[Newest] \ touched : f \notin h.todo => Kept(f)
      /\ \A f, g \in h.cur : f = g
      /\ h.at = "upsert" => \A f \in h.cur \ touched : h.existing = row[f]
      /\ h.at = "publish" => \A f \in h.cur \ touched : Kept(f)
      /\ h.at \in {"rescore", "acked"} => AsReported

LEMMA NewestType ==
    ASSUME BacklogType, report # <<>>
    PROVE  Newest \in Reports /\ Newest \in Sent /\ report[Newest] \subseteq Prints
  BY BacklogAssumption DEF BacklogType, Newest, Sent, Reports

LEMMA ActiveSent ==
    ASSUME BacklogType, NEW r \in Reports, ingest[r].at # "waiting"
    PROVE  r \in Sent /\ report # <<>>
  BY DEF BacklogType, Sent

LEMMA WaitingType == \A n \in Nat : Waiting(n) \in Handler /\ Waiting(n).cur = {}
  BY DEF Waiting, Handler, RowStates

\* A step of the handler of r changes its own entry of ingest.
LEMMA HandlerType ==
    ASSUME BacklogType, NEW r \in Reports, r \in Sent, NEW h \in Handler,
           h.at = "waiting" => h.cur = {},
           ingest' = [ingest EXCEPT ![r] = h], report' = report,
           row' \in [Prints -> RowStates \cup {"none"}], touched' = touched, mixed' \in BOOLEAN
    PROVE  BacklogType' /\ ingest'[r] = h /\ \A q \in Reports : q # r => ingest'[q] = ingest[q]
  BY DEF BacklogType, Sent

\* While FollowInv has something to say, only the newest report's handler acts.
LEMMA OtherHandler ==
    ASSUME BacklogType, FollowInv, NEW r \in Reports, Active(r), r # Newest,
           report' = report, mixed' = mixed,
           \A q \in Reports : q # r => ingest'[q] = ingest[q]
    PROVE  FollowInv'
<1>1. r \in Sent /\ report # <<>> /\ Newest \in Reports
  BY ActiveSent, NewestType DEF Active
<1>2. ~(~mixed /\ ingest[Newest].at # "waiting")
  BY <1>1 DEF FollowInv
<1> QED BY <1>1, <1>2 DEF FollowInv, Newest

\* What is left to show of a step of the newest report's own handler.
LEMMA OwnHandler ==
    ASSUME BacklogType, FollowInv, Active(Newest), report # <<>>, NEW h,
           report' = report, mixed' = mixed, touched' = touched,
           ingest'[Newest] = h, \A q \in Reports : q # Newest => ingest'[q] = ingest[q],
           ~mixed => /\ h.at \in {"loop", "upsert", "publish"} =>
                          \A f \in report[Newest] \ touched : f \notin h.todo => Kept(f)'
                     /\ \A f, g \in h.cur : f = g
                     /\ h.at = "upsert" => \A f \in h.cur \ touched : h.existing = row'[f]
                     /\ h.at = "publish" => \A f \in h.cur \ touched : Kept(f)'
                     /\ h.at \in {"rescore", "acked"} => AsReported'
    PROVE  FollowInv'
<1>1. Newest' = Newest /\ Sent' = Sent
  BY DEF Newest, Sent
<1>2. ~mixed => \A q \in Sent : Active(q) => q = Newest
  BY DEF FollowInv, Active
<1>3. Sent \subseteq Reports
  BY BacklogAssumption DEF BacklogType, Sent, Reports
<1>4. ~mixed => \A q \in Sent : Active(q)' => q = Newest
  BY <1>2, <1>3 DEF Active
<1> QED BY <1>1, <1>4 DEF FollowInv

\* Reports, deliveries and triage.
LEMMA ReportStep ==
    ASSUME BacklogType, FollowInv, NEW found \in SUBSET Prints, Report(found)
    PROVE  BacklogType' /\ FollowInv'
<1> USE BacklogAssumption
<1>1. report' = Append(report, found) /\ Len(report') = Len(report) + 1 /\ ingest' = ingest
      /\ row' = row /\ touched' = {} /\ mixed' = mixed /\ Len(report) < MaxReports
  BY DEF Report, BacklogType
<1>2. report' \in Seq(SUBSET Prints)
  BY <1>1 DEF BacklogType
<1>3. Len(report) \in Nat /\ Newest' \in Reports /\ Newest' \notin Sent /\ Sent \subseteq Sent'
  BY <1>1 DEF BacklogType, Newest, Sent, Reports
<1>4. ingest'[Newest'].at = "waiting"
  BY <1>1, <1>3 DEF BacklogType
<1>5. BacklogType'
  BY <1>1, <1>2, <1>3 DEF BacklogType
<1> QED BY <1>4, <1>5 DEF FollowInv

LEMMA DeliverStep ==
    ASSUME BacklogType, FollowInv, NEW r \in Reports, Deliver(r)
    PROVE  BacklogType' /\ FollowInv'
<1> DEFINE h == [ingest[r] EXCEPT !.at = "loop", !.todo = report[r], !.tries = ingest[r].tries + 1]
<1>1. r \in Sent /\ ingest[r].at = "waiting"
  BY DEF Deliver
<1>2. report[r] \in SUBSET Prints /\ report # <<>>
  <2>1. report \in Seq(SUBSET Prints)
    BY DEF BacklogType
  <2> QED BY <1>1, <2>1 DEF Sent
<1>3. h \in Handler /\ h.at = "loop" /\ h.todo = report[r] /\ h.cur = {}
  <2>1. ingest[r] \in Handler /\ ingest[r].cur = {}
    BY <1>1 DEF BacklogType
  <2>2. ingest[r].tries + 1 \in Nat /\ "loop" \in {"waiting", "loop", "upsert", "publish", "rescore", "acked", "dead"}
    BY <2>1 DEF Handler
  <2> QED BY <1>2, <2>1, <2>2 DEF Handler
<1>4. ingest' = [ingest EXCEPT ![r] = h] /\ report' = report /\ row' = row /\ touched' = touched
      /\ mixed' = (r # Newest \/ \E q \in Sent : Active(q))
  BY DEF Deliver, Newest
<1> HIDE DEF h
<1>5. BacklogType' /\ ingest'[r] = h /\ \A q \in Reports : q # r => ingest'[q] = ingest[q]
  <2>1. mixed' \in BOOLEAN /\ row' \in [Prints -> RowStates \cup {"none"}]
    BY <1>4 DEF BacklogType
  <2>2. h.at # "waiting"
    BY <1>3
  <2> QED BY <1>1, <1>3, <1>4, <2>1, <2>2, HandlerType
<1>6. Newest' = Newest /\ Sent' = Sent /\ Sent \subseteq Reports
  BY <1>4, BacklogAssumption DEF Newest, Sent, BacklogType, Reports
<1>7. CASE mixed'
  BY <1>5, <1>7 DEF FollowInv
<1>8. CASE r = Newest /\ \A q \in Sent : ~Active(q)
  <2>1. \A q \in Sent : Active(q)' => q = Newest
    BY <1>5, <1>6, <1>8 DEF Active
  <2> QED BY <1>3, <1>4, <1>5, <1>6, <1>8, <2>1 DEF FollowInv
<1>9. mixed' \/ (r = Newest /\ \A q \in Sent : ~Active(q))
  BY <1>4
<1> QED BY <1>5, <1>7, <1>8, <1>9

LEMMA TriageStep ==
    ASSUME BacklogType, FollowInv, NEW f \in Prints, NEW to \in RowStates, TriageRow(f, to)
    PROVE  BacklogType' /\ FollowInv'
<1>1. report' = report /\ ingest' = ingest /\ mixed' = mixed /\ touched' = touched \cup {f}
      /\ \A g \in Prints \ touched' : row'[g] = row[g]
  BY DEF TriageRow, BacklogType
<1>2. row' \in [Prints -> RowStates \cup {"none"}]
  BY DEF TriageRow, BacklogType
<1>3. BacklogType'
  BY <1>1, <1>2 DEF BacklogType, Sent
<1>4. AsReported => AsReported'
  BY <1>1 DEF AsReported
<1>5. \A g \in Prints \ touched' : Kept(g) => Kept(g)'
  BY <1>1 DEF Kept
<1>6. report # <<>> => Newest \in Reports /\ report[Newest] \subseteq Prints /\ ingest[Newest].cur \subseteq Prints
  BY NewestType DEF BacklogType, Handler
<1>7. Newest' = Newest /\ Sent' = Sent /\ \A r : Active(r)' <=> Active(r)
  BY <1>1 DEF Newest, Sent, Active
<1>8. FollowInv'
  BY <1>1, <1>4, <1>5, <1>6, <1>7 DEF FollowInv
<1> QED BY <1>3, <1>8

\* The transaction of one finding.
LEMMA ReadStep ==
    ASSUME BacklogType, FollowInv, NEW r \in Reports, NEW f \in Prints, Read(r, f)
    PROVE  BacklogType' /\ FollowInv'
<1> DEFINE h == [ingest[r] EXCEPT !.at = "upsert", !.cur = {f}, !.existing = row[f]]
<1>1. ingest[r] \in Handler /\ ingest[r].at = "loop" /\ Active(r) /\ r \in Sent /\ report # <<>>
  BY ActiveSent DEF Read, BacklogType, Active
<1>2. h \in Handler /\ h.at = "upsert" /\ h.cur = {f} /\ h.existing = row[f] /\ h.todo = ingest[r].todo
  BY <1>1 DEF Handler, BacklogType
<1>3. ingest' = [ingest EXCEPT ![r] = h] /\ report' = report /\ row' = row /\ touched' = touched
      /\ mixed' = mixed
  BY DEF Read
<1> HIDE DEF h
<1>4. mixed' \in BOOLEAN /\ row' \in [Prints -> RowStates \cup {"none"}] /\ h.at # "waiting"
  BY <1>2, <1>3 DEF BacklogType
<1>5. BacklogType' /\ ingest'[r] = h /\ \A q \in Reports : q # r => ingest'[q] = ingest[q]
  BY <1>1, <1>2, <1>3, <1>4, HandlerType
<1>6. CASE r # Newest
  BY <1>1, <1>3, <1>5, <1>6, OtherHandler
<1>7. CASE r = Newest
  <2>1. ~mixed => \A g \in report[Newest] \ touched : g \notin h.todo => Kept(g)'
    BY <1>1, <1>2, <1>3, <1>7 DEF FollowInv, Kept
  <2> QED BY <1>1, <1>2, <1>3, <1>5, <1>7, <2>1, OwnHandler
<1> QED BY <1>5, <1>6, <1>7

LEMMA UpsertStep ==
    ASSUME BacklogType, FollowInv, NEW r \in Reports, NEW f \in Prints, Upsert(r, f)
    PROVE  BacklogType' /\ FollowInv'
<1> DEFINE h == [ingest[r] EXCEPT !.at = "publish"]
<1>1. ingest[r] \in Handler /\ ingest[r].at = "upsert" /\ Active(r) /\ r \in Sent /\ report # <<>>
      /\ f \in ingest[r].cur
  BY ActiveSent DEF Upsert, BacklogType, Active
<1>2. h \in Handler /\ h.at = "publish" /\ h.cur = ingest[r].cur /\ h.todo = ingest[r].todo
  BY <1>1 DEF Handler
<1>3. ingest' = [ingest EXCEPT ![r] = h] /\ report' = report /\ touched' = touched /\ mixed' = mixed
  BY DEF Upsert
<1>4. \A g \in Prints : row'[g] = IF g = f /\ (row[f] = "none" \/ ingest[r].existing = "resolved")
                                    THEN "open" ELSE row[g]
  BY DEF Upsert, BacklogType
<1>5. mixed' \in BOOLEAN /\ row' \in [Prints -> RowStates \cup {"none"}]
  BY <1>3 DEF Upsert, BacklogType, RowStates
<1> HIDE DEF h
<1>6. BacklogType' /\ ingest'[r] = h /\ \A q \in Reports : q # r => ingest'[q] = ingest[q]
  <2>1. h.at # "waiting"
    BY <1>2
  <2> QED BY <1>1, <1>2, <1>3, <1>5, <2>1, HandlerType
<1>7. CASE r # Newest
  BY <1>1, <1>3, <1>6, <1>7, OtherHandler
<1>8. CASE r = Newest
  <2>1. \A g \in Prints : Kept(g) => Kept(g)'
    BY <1>4 DEF Kept
  <2>2. ~mixed => \A g \in report[Newest] \ touched : g \notin h.todo => Kept(g)'
    BY <1>1, <1>2, <1>8, <2>1, NewestType DEF FollowInv
  <2>3. ~mixed => \A g \in h.cur \ touched : Kept(g)'
    <3> SUFFICES ASSUME ~mixed, NEW g \in h.cur \ touched PROVE Kept(g)'
      OBVIOUS
    <3>1. g = f /\ ingest[r].existing = row[f]
      BY <1>1, <1>2, <1>8 DEF FollowInv
    <3> QED BY <1>4, <3>1 DEF Kept
  <2>4. ~mixed => \A g, k \in h.cur : g = k
    BY <1>1, <1>2, <1>8 DEF FollowInv
  <2> QED BY <1>1, <1>2, <1>3, <1>6, <1>8, <2>2, <2>3, <2>4, OwnHandler
<1> QED BY <1>6, <1>7, <1>8

LEMMA PublishStep ==
    ASSUME BacklogType, FollowInv, NEW r \in Reports, PublishFinding(r)
    PROVE  BacklogType' /\ FollowInv'
<1> DEFINE h == [ingest[r] EXCEPT !.at = "loop", !.cur = {}, !.existing = "none",
                                  !.todo = ingest[r].todo \ ingest[r].cur]
<1>1. ingest[r] \in Handler /\ ingest[r].at = "publish" /\ Active(r) /\ r \in Sent /\ report # <<>>
  BY ActiveSent DEF PublishFinding, BacklogType, Active
<1>2. h \in Handler /\ h.at = "loop" /\ h.cur = {} /\ h.todo = ingest[r].todo \ ingest[r].cur
  BY <1>1 DEF Handler
<1>3. ingest' = [ingest EXCEPT ![r] = h] /\ report' = report /\ row' = row /\ touched' = touched
      /\ mixed' = mixed
  BY DEF PublishFinding
<1> HIDE DEF h
<1>4. mixed' \in BOOLEAN /\ row' \in [Prints -> RowStates \cup {"none"}] /\ h.at # "waiting"
  BY <1>2, <1>3 DEF BacklogType
<1>5. BacklogType' /\ ingest'[r] = h /\ \A q \in Reports : q # r => ingest'[q] = ingest[q]
  BY <1>1, <1>2, <1>3, <1>4, HandlerType
<1>6. CASE r # Newest
  BY <1>1, <1>3, <1>5, <1>6, OtherHandler
<1>7. CASE r = Newest
  <2>1. ~mixed => \A g \in report[Newest] \ touched : g \notin h.todo => Kept(g)'
    BY <1>1, <1>2, <1>3, <1>7 DEF FollowInv, Kept
  <2> QED BY <1>1, <1>2, <1>3, <1>5, <1>7, <2>1, OwnHandler
<1> QED BY <1>5, <1>6, <1>7

\* The end of a report.
LEMMA CloseStep ==
    ASSUME BacklogType, FollowInv, NEW r \in Reports, Close(r)
    PROVE  BacklogType' /\ FollowInv'
<1> DEFINE h == [ingest[r] EXCEPT !.at = "rescore"]
<1>1. ingest[r] \in Handler /\ ingest[r].at = "loop" /\ ingest[r].todo = {} /\ Active(r) /\ r \in Sent
      /\ report # <<>>
  BY ActiveSent DEF Close, BacklogType, Active
<1>2. h \in Handler /\ h.at = "rescore" /\ h.cur = ingest[r].cur
  BY <1>1 DEF Handler
<1>3. ingest' = [ingest EXCEPT ![r] = h] /\ report' = report /\ touched' = touched /\ mixed' = mixed
      /\ row' = [f \in Prints |-> IF f \notin report[r] /\ row[f] \in Closable THEN "resolved" ELSE row[f]]
  BY DEF Close
<1>4. mixed' \in BOOLEAN /\ row' \in [Prints -> RowStates \cup {"none"}]
  BY <1>3 DEF BacklogType, RowStates
<1> HIDE DEF h
<1>5. BacklogType' /\ ingest'[r] = h /\ \A q \in Reports : q # r => ingest'[q] = ingest[q]
  <2>1. h.at # "waiting"
    BY <1>2
  <2> QED BY <1>1, <1>2, <1>3, <1>4, <2>1, HandlerType
<1>6. CASE r # Newest
  BY <1>1, <1>3, <1>5, <1>6, OtherHandler
<1>7. CASE r = Newest
  <2>1. ~mixed => \A g, k \in h.cur : g = k
    BY <1>1, <1>2, <1>7 DEF FollowInv
  <2>2. ~mixed => \A g \in report[Newest] \ touched : Kept(g)
    BY <1>1, <1>7 DEF FollowInv
  <2>3. ~mixed => AsReported'
    BY <1>3, <1>7, <2>2 DEF AsReported, Kept, Newest, Closable
  <2> QED BY <1>1, <1>2, <1>3, <1>5, <1>7, <2>1, <2>3, OwnHandler
<1> QED BY <1>5, <1>6, <1>7

LEMMA FinishStep ==
    ASSUME BacklogType, FollowInv, NEW r \in Reports, Finish(r)
    PROVE  BacklogType' /\ FollowInv'
<1> USE BacklogAssumption
<1> DEFINE h == [Waiting(MaxDeliver) EXCEPT !.at = "acked"]
<1>1. ingest[r].at = "rescore" /\ Active(r) /\ r \in Sent /\ report # <<>>
  BY ActiveSent DEF Finish, BacklogType, Active
<1>2. h \in Handler /\ h.at = "acked" /\ h.cur = {}
  BY DEF Waiting, Handler, RowStates
<1>3. ingest' = [ingest EXCEPT ![r] = h] /\ report' = report /\ row' = row /\ touched' = touched
      /\ mixed' = mixed
  BY DEF Finish
<1> HIDE DEF h
<1>4. mixed' \in BOOLEAN /\ row' \in [Prints -> RowStates \cup {"none"}] /\ h.at # "waiting"
  BY <1>2, <1>3 DEF BacklogType
<1>5. BacklogType' /\ ingest'[r] = h /\ \A q \in Reports : q # r => ingest'[q] = ingest[q]
  BY <1>1, <1>2, <1>3, <1>4, HandlerType
<1>6. CASE r # Newest
  BY <1>1, <1>3, <1>5, <1>6, OtherHandler
<1>7. CASE r = Newest
  <2>1. ~mixed => AsReported'
    BY <1>1, <1>3, <1>7 DEF FollowInv, AsReported
  <2> QED BY <1>1, <1>2, <1>3, <1>5, <1>7, <2>1, OwnHandler
<1> QED BY <1>5, <1>6, <1>7

\* A handler that throws starts over or is given up; either way FollowInv has
\* nothing left to say of it.
LEMMA FailStep ==
    ASSUME BacklogType, FollowInv, NEW r \in Reports, Fail(r)
    PROVE  BacklogType' /\ FollowInv'
<1> USE BacklogAssumption
<1> DEFINE h == IF ingest[r].tries < MaxDeliver THEN Waiting(ingest[r].tries)
                ELSE [Waiting(MaxDeliver) EXCEPT !.at = "dead"]
<1>1. ingest[r] \in Handler /\ Active(r) /\ r \in Sent /\ report # <<>>
  BY ActiveSent DEF Fail, BacklogType, Active
<1>2. h \in Handler /\ h.at \in {"waiting", "dead"} /\ h.cur = {}
  <2>1. ingest[r].tries \in Nat
    BY <1>1 DEF Handler
  <2> QED BY <2>1 DEF Waiting, Handler, RowStates
<1>3. ingest' = [ingest EXCEPT ![r] = h] /\ report' = report /\ row' = row /\ touched' = touched
      /\ mixed' = mixed
  BY DEF Fail
<1> HIDE DEF h
<1>4. mixed' \in BOOLEAN /\ row' \in [Prints -> RowStates \cup {"none"}]
  BY <1>3 DEF BacklogType
<1>5. BacklogType' /\ ingest'[r] = h /\ \A q \in Reports : q # r => ingest'[q] = ingest[q]
  BY <1>1, <1>2, <1>3, <1>4, HandlerType
<1>6. CASE r # Newest
  BY <1>1, <1>3, <1>5, <1>6, OtherHandler
<1>7. CASE r = Newest
  BY <1>1, <1>2, <1>3, <1>5, <1>7, OwnHandler
<1> QED BY <1>5, <1>6, <1>7

LEMMA BacklogInvHolds == BacklogSpec => [](BacklogType /\ FollowInv)
<1>1. BacklogInit => BacklogType /\ FollowInv
  <2> SUFFICES ASSUME BacklogInit PROVE BacklogType /\ FollowInv
    OBVIOUS
  <2> USE BacklogAssumption
  <2>1. Waiting(0) \in Handler /\ Waiting(0).at = "waiting" /\ Waiting(0).cur = {}
    BY DEF Waiting, Handler, RowStates
  <2>2. report = <<>> /\ report \in Seq(SUBSET Prints) /\ Len(report) <= MaxReports
    BY DEF BacklogInit
  <2> DEFINE w == Waiting(0)
  <2>3. w \in Handler /\ w.at = "waiting" /\ w.cur = {} /\ ingest = [r \in Reports |-> w]
    BY <2>1 DEF BacklogInit
  <2> HIDE DEF w
  <2>4. ingest \in [Reports -> Handler]
    BY <2>3
  <2>5. \A r \in Reports : ingest[r].at = "waiting" /\ ingest[r].cur = {}
    BY <2>3
  <2>6. row \in [Prints -> RowStates \cup {"none"}] /\ touched \in SUBSET Prints /\ mixed \in BOOLEAN
    BY DEF BacklogInit
  <2>7. BacklogType
    BY <2>2, <2>4, <2>5, <2>6 DEF BacklogType
  <2> QED BY <2>2, <2>7 DEF FollowInv
<1>2. BacklogType /\ FollowInv /\ [BacklogNext]_backlogVars => (BacklogType /\ FollowInv)'
  <2> SUFFICES ASSUME BacklogType, FollowInv, [BacklogNext]_backlogVars
               PROVE  BacklogType' /\ FollowInv'
    OBVIOUS
  <2>1. CASE UNCHANGED backlogVars
    BY <2>1 DEF backlogVars, BacklogType, FollowInv, Sent, Newest, Active, Kept, AsReported
  <2>2. CASE BacklogNext
    BY <2>2, ReportStep, DeliverStep, ReadStep, UpsertStep, PublishStep, CloseStep, FinishStep,
       FailStep, TriageStep DEF BacklogNext
  <2> QED BY <2>1, <2>2
<1> QED BY <1>1, <1>2, PTL DEF BacklogSpec

\* ingest leaves the rows as the newest report says, whatever failed half-way,
\* however many reports queued up and however users triaged meanwhile, unless
\* an older report was applied beside or after it.
THEOREM FollowsNewestHolds == BacklogSpec => []FollowsNewest
<1>1. BacklogType /\ FollowInv => FollowsNewest
  BY DEF FollowInv, FollowsNewest, Caught, Newest
<1> QED BY <1>1, BacklogInvHolds, PTL

=============================================================================
