-------------------------------- MODULE Gates --------------------------------
(***************************************************************************)
(* What policies make of findings: the actions the policy engine takes on  *)
(* one, and the two gates CI reads of a scan.  Both are to take the first  *)
(* enabled policy that matches, by priority, unless an exception covers    *)
(* the finding.                                                            *)
(*                                                                         *)
(* policy:    [id, enabled, priority, actions]                             *)
(* finding:   [id, state, matches: ids of the policies whose condition it  *)
(*             meets, seed: it is known to be exploited, or critical]      *)
(* exception: [scope: global or finding, target, active: approved, not     *)
(*             revoked and not expired]                                    *)
(***************************************************************************)
EXTENDS Naturals, Sequences, SequencesExt

OpenStates == {"open", "triaged", "in_progress"}

\* SELECT ... ORDER BY priority: policies of one priority come in any order, here
\* that of the table.
Enabled(policies) == SelectSeq(policies, LAMBDA p : p.enabled)
ByPriority(policies) == SortSeq(Enabled(policies), LAMBDA p, q : p.priority < q.priority)
FirstMatch(policies, f) == SelectSeq(ByPriority(policies), LAMBDA p : p.id \in f.matches)

\* hasActiveException.
Excepted(exceptions, f) ==
    \E e \in exceptions : e.active /\ (e.scope = "global" \/ e.target = f.id)

\* evaluate: the actions of the event that is published, none if there is none.
evaluate(policies, exceptions, f) ==
    LET first == FirstMatch(policies, f) IN
    IF Excepted(exceptions, f) THEN {}
    ELSE IF first # <<>> THEN Head(first).actions
    ELSE IF f.seed THEN {"notify"} ELSE {}

\* loadScanPolicyMatchInput: a global exception suppresses all that are open, else
\* those it names are.
Suppressed(exceptions, findings) ==
    LET active == {e \in exceptions : e.active} IN
    IF \E e \in active : e.scope = "global" THEN {f.id : f \in findings}
    ELSE {e.target : e \in active}

\* MUTANT: any policy that matches decides, not the first.
concludeByAnyMatch(scan, policies, exceptions, action, words) ==
    LET findings == {f \in scan.findings : f.state \in OpenStates}
        judged == {f \in findings : f.id \notin Suppressed(exceptions, findings)}
        hits(f) == \E i \in DOMAIN FirstMatch(policies, f) : action \in FirstMatch(policies, f)[i].actions
    IN IF scan.status \in {"queued", "running"} \/ (scan.expected > 0 /\ findings = {}) THEN "pending"
       ELSE IF \E f \in judged : hits(f) THEN words.matched ELSE words.unmatched

\* concludeByAction.  Nothing found yet of a scan that reported findings is no verdict.
concludeByAction(scan, policies, exceptions, action, words) ==
    LET findings == {f \in scan.findings : f.state \in OpenStates}
        judged == {f \in findings : f.id \notin Suppressed(exceptions, findings)}
        hits(f) == FirstMatch(policies, f) # <<>> /\ action \in Head(FirstMatch(policies, f)).actions
    IN IF scan.status \in {"queued", "running"} \/ (scan.expected > 0 /\ findings = {}) THEN "pending"
       ELSE IF \E f \in judged : hits(f) THEN words.matched ELSE words.unmatched

concludeScan(scan, policies, exceptions) ==
    concludeByAction(scan, policies, exceptions, "fail_build",
                     [matched |-> "failed", unmatched |-> "passed"])
concludeDeploy(scan, policies, exceptions) ==
    concludeByAction(scan, policies, exceptions, "block_deploy",
                     [matched |-> "blocked", unmatched |-> "allowed"])
=============================================================================
