------------------------------ MODULE GateTrials ------------------------------
(***************************************************************************)
(* Two findings, two policies and one exception, and what the engine and   *)
(* the gates say of them.                                                  *)
(***************************************************************************)
EXTENDS Gates, Trial

Policy == [enabled : BOOLEAN, priority : {1, 2},
           actions : {{"notify"}, {"fail_build"}, {"fail_build", "block_deploy"}}]
PolicyLists == {<<>>} \cup {<<p>> : p \in Policy}
                 \cup {<<p, q>> : p \in {x \in Policy : x.enabled}, q \in Policy}
Numbered(list) == [i \in DOMAIN list |-> [id |-> i, enabled |-> list[i].enabled,
                     priority |-> list[i].priority, actions |-> list[i].actions]]
Finding(i, s, m) == [id |-> i, state |-> s, matches |-> m, seed |-> m = {}]
Backlogs ==
    {{}} \cup {{Finding("f", s, m)} : s \in {"open", "resolved"}, m \in SUBSET {1, 2}}
         \cup {{Finding("f", "triaged", m), Finding("g", s, n)} :
                 s \in {"in_progress", "accepted_risk"}, m \in {{1}, {1, 2}}, n \in {{2}, {1, 2}}}
Exceptions == {{}} \cup {{[scope |-> s, target |-> "f", active |-> TRUE]} : s \in {"global", "finding"}}
                   \cup {{[scope |-> "finding", target |-> "f", active |-> FALSE]}}

GateInit ==
    \E list \in PolicyLists, findings \in Backlogs, e \in Exceptions, status \in {"running", "failed"},
       n \in 0..1 :
      Given([of |-> "gates", policies |-> Numbered(list), exceptions |-> e,
             scan |-> [status |-> status, findings |-> findings, expected |-> n]])

RunGates ==
    Call("gates", [build |-> concludeScan(input.scan, input.policies, input.exceptions),
                   deploy |-> concludeDeploy(input.scan, input.policies, input.exceptions)])

-----------------------------------------------------------------------------
\* "Shared with the risk-service engine so GET conclusion cannot drift": a gate of
\* a closed scan is shut exactly if the engine orders it for one of the findings
\* that are open, and is undecided only while none of those reported is.  Exempt
\* are two enabled policies of one priority that match one finding: which comes
\* first is then up to the database, in either place.
Tied(f) ==
    \E i, j \in DOMAIN input.policies :
      /\ i # j /\ {i, j} \subseteq f.matches
      /\ input.policies[i].enabled /\ input.policies[j].enabled
      /\ input.policies[i].priority = input.policies[j].priority
Orders(action) ==
    \E f \in input.scan.findings :
      f.state \in OpenStates /\ action \in evaluate(input.policies, input.exceptions, f)
GatesFollowEngine ==
    LET open == {f \in input.scan.findings : f.state \in OpenStates}
        undecided == input.scan.status \in {"queued", "running"} \/ (input.scan.expected > 0 /\ open = {})
    IN Returned("gates") /\ (\A f \in open : ~Tied(f)) =>
         Result = IF undecided THEN [build |-> "pending", deploy |-> "pending"]
                  ELSE [build |-> IF Orders("fail_build") THEN "failed" ELSE "passed",
                        deploy |-> IF Orders("block_deploy") THEN "blocked" ELSE "allowed"]
=============================================================================
