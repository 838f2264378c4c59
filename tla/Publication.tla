----------------------------- MODULE Publication -----------------------------
(***************************************************************************)
(* What CI is told of a closed scan.  createScan and every delivery of a   *)
(* result that finds the scan closed call the publisher of each forge: it  *)
(* reads the gate in a transaction, lists what the forge has of the scan,  *)
(* and writes.  Calls overlap, an answer can be lost after the forge has   *)
(* acted, and then the request is sent again; meanwhile findings are still *)
(* being ingested or triaged, and other scans publish for the same commit. *)
(* One scan and one of the five forges.                                    *)
(***************************************************************************)
EXTENDS Gates, FiniteSets

CONSTANTS
    Callers,        \* calls that may be under way at once
    MaxCalls,       \* bound on all calls
    MaxAttempts,    \* CTEM_CB_MAX_ATTEMPTS
    MaxChanges      \* bound on changes of the backlog and of the listing

ASSUME PublicationAssumption == MaxCalls \in Nat /\ MaxAttempts \in Nat /\ MaxChanges \in Nat

VARIABLES
    target,     \* [forge, options, refs, env, base, expected]: the row of the scan
    backlog,    \* findings of the scan, as they are ingested and triaged
    told,       \* the verdicts that the forge holds for the scan
    buried,     \* whether its listing shows none of them on the page that is read
    call,       \* Callers -> [at, verdict, row, attempt, blind]
    calls,      \* how many calls there were
    changes

publicationVars == <<target, backlog, told, buried, call, calls, changes>>

-----------------------------------------------------------------------------
(***************************************************************************)
(* Reading the scan                                                        *)
(***************************************************************************)
\* A field of scan.options, that of the forge's own section first: none, good or
\* bad.  A repository is one field or two.
Repository(o) == IF o.repository # "none" THEN o.repository = "good"
                 ELSE o.owner = "good" /\ o.repo = "good"
parseGithubChecksContext(o) == Repository(o) /\ o.sha = "good"
parseGithubDeploymentsContext(o) == Repository(o) /\ o.deploymentId = "good"
parseGitlabStatusesContext(o) == o.projectId = "good" /\ o.sha = "good"
parseGitlabDeploymentsContext(o) == o.projectId = "good" /\ o.deploymentId = "good"
parseBitbucketStatusesContext(o) == o.owner = "good" /\ o.repo = "good" /\ o.sha = "good"

\* The first credential reference of the forge's own names decides, set or not;
\* without one the default does.
FirstOwn(refs, env) == Head(SelectSeq(refs, LAMBDA r : r # "foreign") \o <<env>>) = "set"
resolveChecksGithubToken(refs, env) == FirstOwn(refs, env)
resolveStatusesGitlabToken(refs, env) == FirstOwn(refs, env)
resolveStatusesBitbucketToken(refs, env) == FirstOwn(refs, env)

\* gitLabOriginFromScanJobs throws on a baseUrl that is not plain https.
gitLabOrigin(base) == base # "odd"

Verdict(words, gate) == IF gate = "pending" THEN gate ELSE words[gate]
checkConclusionFromScan(gate) == Verdict([passed |-> "success", failed |-> "failure"], gate)
gitlabCommitStatusFromScan(gate) == Verdict([passed |-> "success", failed |-> "failed"], gate)
bitbucketBuildStateFromScan(gate) == Verdict([passed |-> "SUCCESSFUL", failed |-> "FAILED"], gate)
deploymentStatusFromDeploy(gate) == Verdict([allowed |-> "success", blocked |-> "failure"], gate)
gitlabDeploymentStatusFromDeploy(gate) == Verdict([allowed |-> "success", blocked |-> "failed"], gate)

\* One policy fails the build, one blocks the deployment; "pass" meets neither.
Policies == << [id |-> 1, enabled |-> TRUE, priority |-> 1, actions |-> {"fail_build"}],
               [id |-> 2, enabled |-> TRUE, priority |-> 2, actions |-> {"block_deploy"}] >>
Reported == {[id |-> 1, state |-> "open", matches |-> {}, seed |-> FALSE],
             [id |-> 2, state |-> "open", matches |-> {1}, seed |-> FALSE],
             [id |-> 3, state |-> "open", matches |-> {2}, seed |-> FALSE]}
Scan == [status |-> "succeeded", findings |-> backlog, expected |-> target.expected]

\* The transaction of publish, per forge: [ready: it has context, origin and
\* token; verdict].
prepareChecks(t) ==
    [ready |-> parseGithubChecksContext(t.options) /\ resolveChecksGithubToken(t.refs, t.env),
     verdict |-> checkConclusionFromScan(concludeScan(Scan, Policies, {}))]
prepareGithubDeployment(t) ==
    [ready |-> parseGithubDeploymentsContext(t.options) /\ resolveChecksGithubToken(t.refs, t.env),
     verdict |-> deploymentStatusFromDeploy(concludeDeploy(Scan, Policies, {}))]
prepareGitlabStatus(t) ==
    [ready |-> /\ parseGitlabStatusesContext(t.options) /\ gitLabOrigin(t.base)
               /\ resolveStatusesGitlabToken(t.refs, t.env),
     verdict |-> gitlabCommitStatusFromScan(concludeScan(Scan, Policies, {}))]
prepareGitlabDeployment(t) ==
    [ready |-> /\ parseGitlabDeploymentsContext(t.options) /\ gitLabOrigin(t.base)
               /\ resolveStatusesGitlabToken(t.refs, t.env),
     verdict |-> gitlabDeploymentStatusFromDeploy(concludeDeploy(Scan, Policies, {}))]
prepareBitbucket(t) ==
    [ready |-> parseBitbucketStatusesContext(t.options) /\ resolveStatusesBitbucketToken(t.refs, t.env),
     verdict |-> bitbucketBuildStateFromScan(concludeScan(Scan, Policies, {}))]
Prepared ==
    CASE target.forge = "checks" -> prepareChecks(target)
      [] target.forge = "githubDeployment" -> prepareGithubDeployment(target)
      [] target.forge = "gitlabStatus" -> prepareGitlabStatus(target)
      [] target.forge = "gitlabDeployment" -> prepareGitlabDeployment(target)
      [] target.forge = "bitbucket" -> prepareBitbucket(target)

-----------------------------------------------------------------------------
Resting == [at |-> "rest", verdict |-> "none", row |-> 0, attempt |-> 0, blind |-> FALSE]
AllGiven == [repository |-> "none", owner |-> "good", repo |-> "good", sha |-> "good",
             deploymentId |-> "good", projectId |-> "good"]
ScanOptions == {AllGiven, [AllGiven EXCEPT !.repository = "good", !.owner = "none"],
            [AllGiven EXCEPT !.repository = "bad"], [AllGiven EXCEPT !.sha = "bad"],
            [AllGiven EXCEPT !.deploymentId = "none"], [AllGiven EXCEPT !.projectId = "bad"]}
Known == [forge |-> "checks", options |-> AllGiven, refs |-> <<"foreign">>, env |-> "set",
          base |-> "plain", expected |-> 1]
ScansToTell == {[Known EXCEPT !.options = o] : o \in ScanOptions}
             \cup {[Known EXCEPT !.base = "odd"], [Known EXCEPT !.env = "unset"],
                   [Known EXCEPT !.refs = <<"unset", "set">>], [Known EXCEPT !.expected = 0],
                   [Known EXCEPT !.refs = <<"foreign", "set">>, !.env = "unset"]}
Forges == {"checks", "githubDeployment", "gitlabStatus", "gitlabDeployment", "bitbucket"}

PublicationInit ==
    /\ target \in {[t EXCEPT !.forge = f] : t \in ScansToTell, f \in Forges}
    /\ backlog \in {{}, Reported}
    \* A GitLab deployment exists before the scan, with a status of its own.
    /\ told = IF target.forge = "gitlabDeployment" THEN <<"running">> ELSE <<>>
    /\ buried = FALSE
    /\ call = [p \in Callers |-> Resting]
    /\ calls = 0
    /\ changes = 0

-----------------------------------------------------------------------------
(***************************************************************************)
(* publishForCompletedScan                                                 *)
(***************************************************************************)
GoTo(p, next) ==
    /\ call' = [call EXCEPT ![p] = next]
    /\ UNCHANGED <<target, backlog, told, buried, calls, changes>>

\* Every error ends in a warning, and with the call.
End(p) == GoTo(p, Resting)

Prepare(p) ==
    /\ call[p] = Resting /\ calls < MaxCalls
    /\ calls' = calls + 1
    /\ IF Prepared.ready /\ Prepared.verdict # "pending"
       THEN call' = [call EXCEPT ![p].verdict = Prepared.verdict,
                       ![p].at = IF target.forge = "bitbucket" THEN "write" ELSE "list"]
       ELSE UNCHANGED call
    /\ UNCHANGED <<target, backlog, told, buried, changes>>

\* What is listed: one page, newest first.
Shown == IF buried THEN 0 ELSE Len(told)

\* upsertCheckRun: a listing that the forge refuses counts as empty.
ListCheckRuns(p) ==
    /\ target.forge = "checks" /\ call[p].at = "list"
    /\ \E ok \in BOOLEAN :
         GoTo(p, [call[p] EXCEPT !.at = "write", !.row = IF ok THEN Shown ELSE 0,
                                 !.blind = ~ok \/ buried])

\* publishDeploymentStatus: what is there stays, whatever it says.
ListDeploymentStatuses(p) ==
    /\ target.forge = "githubDeployment" /\ call[p].at = "list"
    /\ IF Shown > 0 THEN End(p)
       ELSE GoTo(p, [call[p] EXCEPT !.at = "write", !.blind = buried])

\* Mutant: the statuses of the commit are not looked at.
ListNoStatuses(p) ==
    /\ target.forge = "gitlabStatus" /\ call[p].at = "list"
    /\ GoTo(p, [call[p] EXCEPT !.at = "write", !.blind = buried])

\* publishCommitStatus.
ListCommitStatuses(p) ==
    /\ target.forge = "gitlabStatus" /\ call[p].at = "list"
    /\ IF Shown > 0 THEN End(p)
       ELSE GoTo(p, [call[p] EXCEPT !.at = "write", !.blind = buried])

\* publishGitlabDeployment.
GetDeployment(p) ==
    /\ target.forge = "gitlabDeployment" /\ call[p].at = "list"
    /\ IF told[1] = call[p].verdict THEN End(p)
       ELSE GoTo(p, [call[p] EXCEPT !.at = "write", !.row = 1])

\* The listing fails, or the circuit is open.
Throw(p) == call[p].at # "rest" /\ End(p)

-----------------------------------------------------------------------------
(***************************************************************************)
(* The forge                                                               *)
(***************************************************************************)
RowWritten(p) ==
    LET c == call[p] IN
    IF target.forge = "bitbucket" THEN <<c.verdict>>     \* an upsert by key
    ELSE IF c.row > 0 THEN [told EXCEPT ![c.row] = c.verdict]
    ELSE Append(told, c.verdict)

\* The forge acts.  Those that have listed already do not know.
Act(p, next) ==
    /\ call[p].at = "write"
    /\ told' = RowWritten(p)
    /\ call' = [q \in Callers |-> IF q = p THEN next
                                  ELSE IF call[q].at = "write" THEN [call[q] EXCEPT !.blind = TRUE]
                                  ELSE call[q]]
    /\ buried' = (buried /\ Len(told') = Len(told))     \* a new row comes first
    /\ UNCHANGED <<target, backlog, calls, changes>>
Again(p) == [call[p] EXCEPT !.attempt = @ + 1, !.blind = TRUE]
More(p) == call[p].attempt + 1 < MaxAttempts

Answered(p) == Act(p, Resting)
\* It times out, or a gateway in between says 502 to 504: the policy tries again.
AnswerLost(p) == More(p) /\ Act(p, Again(p))
RequestLost(p) ==
    /\ call[p].at = "write" /\ More(p)
    /\ GoTo(p, [call[p] EXCEPT !.attempt = @ + 1])

-----------------------------------------------------------------------------
(***************************************************************************)
(* The rest of the world                                                   *)
(***************************************************************************)
Change == changes < MaxChanges /\ changes' = changes + 1
Ingest(f) ==
    /\ Change /\ f \notin backlog
    /\ backlog' = backlog \cup {f}
    /\ UNCHANGED <<target, told, buried, call, calls>>
Triage(f) ==
    /\ Change /\ f \in backlog
    /\ backlog' = backlog \ {f}
    /\ UNCHANGED <<target, told, buried, call, calls>>

\* Newer rows of others fill the page, or take the name of the check run.
Bury ==
    /\ Change /\ ~buried /\ target.forge \notin {"gitlabDeployment", "bitbucket"}
    /\ buried' = TRUE
    /\ UNCHANGED <<target, backlog, told, call, calls>>

PublicationNext ==
    \/ \E p \in Callers :
         \/ Prepare(p) \/ Throw(p)
         \/ ListCheckRuns(p) \/ ListDeploymentStatuses(p) \/ ListCommitStatuses(p) \/ GetDeployment(p)
         \/ Answered(p) \/ AnswerLost(p) \/ RequestLost(p)
    \/ \E f \in Reported : Ingest(f) \/ Triage(f)
    \/ Bury
PublicationSpec == PublicationInit /\ [][PublicationNext]_publicationVars

-----------------------------------------------------------------------------
(***************************************************************************)
(* Properties                                                              *)
(***************************************************************************)
\* "POSTs once": a second row for the scan is created next to the first only by a
\* call that could not know of it: its listing was refused (check runs) or did
\* not show it, another call wrote after it had listed, or its own earlier
\* attempt went through unanswered.  A build status and a GitLab deployment stay
\* one row even then.
OneRowPerScan ==
    [][Len(told') > Len(told) /\ told # <<>> =>
          /\ target.forge \notin {"gitlabDeployment", "bitbucket"}
          /\ \E p \in Callers : call[p].at = "write" /\ call[p].blind /\ call'[p] # call[p]]_publicationVars
=============================================================================
