---------------------------- MODULE ScanLifecycle ----------------------------
(***************************************************************************)
(* One scan from the accepted kick to its close-out: the orchestrator's    *)
(* dispatch loop and retry endpoint, the JetStream messages in both        *)
(* directions, the scanner workers, and the consumer that counts job       *)
(* results and closes the scan.                                            *)
(*                                                                         *)
(* Each withOrg(...) transaction is one action: it takes the scans row     *)
(* lock (the jobsCompleted increment) before it counts failed jobs, so     *)
(* concurrent close-outs of a scan are serialised by Postgres.  A publish  *)
(* that throws may or may not have stored the message (the PubAck can be   *)
(* lost), and a delivery that is not acknowledged comes back up to the     *)
(* consumer's maxDeliver.  Which of these failures a run injects is the    *)
(* constant Faults.                                                        *)
(***************************************************************************)
EXTENDS Integers, FiniteSets

CONSTANTS
    Scans,         \* scans.id
    Jobs,          \* scan_jobs.id, one per asset the planner may select
    ScanOf,        \* scan_jobs.scanId
    MaxAttempt,    \* bound on scan_jobs.attempt (1 + number of retries)
    MaxDispatch,   \* maxDeliver of scanJobDispatched (3 in the code)
    MaxResult,     \* maxDeliver of scanJobCompleted (5 in the code)
    Faults         \* failures the environment may inject

\* "dispatch": publish of a job throws; "pubAck": a publish that throws was
\* stored; "ack": an ack is lost or ackWait expires early; "handler": a
\* handler throws before its transaction or a worker before its result;
\* "crash": a process dies; "unsupported": scanner.supports(job) is false.
FaultKinds == {"dispatch", "pubAck", "ack", "handler", "crash", "unsupported"}

ASSUME FaultsAssumption == Faults \subseteq FaultKinds

ASSUME BoundsAssumption ==
    /\ MaxAttempt \in Nat \ {0}
    /\ MaxDispatch \in Nat \ {0}
    /\ MaxResult \in Nat \ {0}

ASSUME JobsAssumption == IsFiniteSet(Jobs) /\ ScanOf \in [Jobs -> Scans]

VARIABLES
    scan,        \* scans rows; status "none" before the kick is accepted
    job,         \* scan_jobs rows; status "none" where there is no row
    creating,    \* scans whose createScan call has not returned
    calls,       \* jobs an API call (createScan or retryJob) has yet to send
    dispatched,  \* ctem.scan.job.dispatched messages JetStream still holds
    runs,        \* ScannerWorker.runJob invocations in progress
    findings,    \* jobs with a ctem.finding.reported event on the stream
    results,     \* ctem.scan.job.completed messages JetStream still holds
    announced,   \* scans with a ctem.scan.completed event
    gated,       \* scans whose CI gate publishers have been called
    counted,     \* history: jobs counted into jobsCompleted at least once
    recounts     \* history: increments for a job that was counted before

rows == <<scan, job, counted, recounts>>
vars == <<scan, job, creating, calls, dispatched, runs, findings, results,
          announced, gated, counted, recounts>>

Closed == {"succeeded", "failed", "partial"}
ScanRow == [status : {"none", "running"} \cup Closed,
            jobsTotal : Nat, jobsCompleted : Nat]
JobRow == [status : {"none", "queued", "succeeded", "failed"}, attempt : Nat]
Call == [job : Jobs, attempt : Nat, by : {"create", "retry"},
         phase : {"publish", "fail"}]
DispatchMsg == [job : Jobs, attempt : Nat, tries : Nat, ready : BOOLEAN]
Run == [job : Jobs, attempt : Nat, try : Nat,
        phase : {"executing", "reported", "failed"}]
ResultMsg == [job : Jobs, attempt : Nat, try : Nat,
              status : {"succeeded", "failed"}, tries : Nat]

\* The type invariant of the rows, messages and in-memory work above.
TypeOK ==
    /\ scan \in [Scans -> ScanRow]
    /\ job \in [Jobs -> JobRow]
    /\ creating \in SUBSET Scans
    /\ calls \in SUBSET Call
    /\ dispatched \in SUBSET DispatchMsg
    /\ runs \in SUBSET Run
    /\ findings \in SUBSET Jobs
    /\ results \in SUBSET ResultMsg
    /\ announced \in SUBSET Scans
    /\ gated \in SUBSET Scans
    /\ counted \in SUBSET Jobs
    /\ recounts \in [Scans -> Nat]

\* The scan_jobs rows of a scan, and those of them in a given status.
JobsOf(s) == {j \in Jobs : ScanOf[j] = s /\ job[j].status # "none"}
InStatus(s, status) == {j \in JobsOf(s) : job[j].status = status}
IsClosed(s) == scan[s].status \in Closed

-----------------------------------------------------------------------------
Init ==
    /\ scan = [s \in Scans |->
                  [status |-> "none", jobsTotal |-> 0, jobsCompleted |-> 0]]
    /\ job = [j \in Jobs |-> [status |-> "none", attempt |-> 0]]
    /\ creating = {}
    /\ calls = {}
    /\ dispatched = {}
    /\ runs = {}
    /\ findings = {}
    /\ results = {}
    /\ announced = {}
    /\ gated = {}
    /\ counted = {}
    /\ recounts = [s \in Scans |-> 0]

(***************************************************************************)
(* createScan: the accept transaction.  The planner selected the assets of *)
(* the jobs in `plan`; a scan without assets is born succeeded.            *)
(***************************************************************************)
CreateScan(s, plan) ==
    /\ scan[s].status = "none"
    /\ \A j \in plan : ScanOf[j] = s
    /\ scan' = [scan EXCEPT ![s] =
                  [status |-> IF plan = {} THEN "succeeded" ELSE "running",
                   jobsTotal |-> Cardinality(plan), jobsCompleted |-> 0]]
    /\ job' = [j \in Jobs |->
                  IF j \in plan
                    THEN [status |-> "queued", attempt |-> 1] ELSE job[j]]
    /\ creating' = creating \cup {s}
    /\ calls' = calls \cup
          {[job |-> j, attempt |-> 1, by |-> "create", phase |-> "publish"] :
              j \in plan}
    /\ UNCHANGED <<dispatched, runs, findings, results, announced, gated,
                   counted, recounts>>

\* The createScan loop is sequential: while one job is being failed closed
\* the same call publishes no other.
LoopFree(c) ==
    c.by = "create" =>
        \A d \in calls : d.by = "create" /\ ScanOf[d.job] = ScanOf[c.job]
                            => d.phase = "publish"

Sent(c) == [job |-> c.job, attempt |-> c.attempt, tries |-> 0, ready |-> TRUE]

\* publishQueuedJob succeeds, inside createScan or retryJob.
PublishQueuedJob(c) ==
    /\ c.phase = "publish"
    /\ LoopFree(c)
    /\ dispatched' = dispatched \cup {Sent(c)}
    /\ calls' = calls \ {c}
    /\ UNCHANGED <<rows, creating, runs, findings, results, announced, gated>>

\* publishQueuedJob throws; the message may be on the stream all the same.
PublishThrows(c) ==
    /\ "dispatch" \in Faults
    /\ c.phase = "publish"
    /\ LoopFree(c)
    /\ \/ UNCHANGED dispatched
       \/ "pubAck" \in Faults /\ dispatched' = dispatched \cup {Sent(c)}
    /\ calls' = (calls \ {c}) \cup {[c EXCEPT !.phase = "fail"]}
    /\ UNCHANGED <<rows, creating, runs, findings, results, announced, gated>>

Verdict(failed, total) ==
    IF failed = 0 THEN "succeeded"
    ELSE IF failed = total THEN "failed" ELSE "partial"

\* Mutant: the scan is judged only by the increment that reaches jobsTotal.
CountJobCloseOnce(j, status) ==
    LET s == ScanOf[j]
        done == scan[s].jobsCompleted + 1
        total == scan[s].jobsTotal
    IN  /\ job' = [job EXCEPT ![j].status = status]
        /\ scan' = [scan EXCEPT
              ![s].jobsCompleted = done,
              ![s].status = IF done # total THEN @
                            ELSE Verdict(Cardinality(InStatus(s, "failed")'), total)]
        /\ counted' = counted \cup {j}
        /\ recounts' = IF j \in counted
                         THEN [recounts EXCEPT ![s] = @ + 1] ELSE recounts

\* Mutant: the scan closes one report early.
CountJobOffByOne(j, status) ==
    LET s == ScanOf[j]
        done == scan[s].jobsCompleted + 1
        total == scan[s].jobsTotal
    IN  /\ job' = [job EXCEPT ![j].status = status]
        /\ scan' = [scan EXCEPT
              ![s].jobsCompleted = done,
              ![s].status = IF done + 1 < total THEN @
                            ELSE Verdict(Cardinality(InStatus(s, "failed")'), total)]
        /\ counted' = counted \cup {j}
        /\ recounts' = IF j \in counted
                         THEN [recounts EXCEPT ![s] = @ + 1] ELSE recounts

\* Mutant: failed rows are counted before this job's own row is updated.
CountJobStaleFailed(j, status) ==
    LET s == ScanOf[j]
        done == scan[s].jobsCompleted + 1
        total == scan[s].jobsTotal
    IN  /\ job' = [job EXCEPT ![j].status = status]
        /\ scan' = [scan EXCEPT
              ![s].jobsCompleted = done,
              ![s].status = IF done < total THEN @
                            ELSE Verdict(Cardinality(InStatus(s, "failed")), total)]
        /\ counted' = counted \cup {j}
        /\ recounts' = IF j \in counted
                         THEN [recounts EXCEPT ![s] = @ + 1] ELSE recounts

\* The transaction shared by applyResult and failDispatch: set the job row,
\* count one more job and, once the counter reaches jobsTotal, close the scan
\* (again, if it was closed before) from the failed rows it sees.
CountJob(j, status) ==
    LET s == ScanOf[j]
        done == scan[s].jobsCompleted + 1
        total == scan[s].jobsTotal
        failed == InStatus(s, "failed")'
    IN  /\ job' = [job EXCEPT ![j].status = status]
        /\ scan' = [scan EXCEPT
              ![s].jobsCompleted = done,
              ![s].status = IF done < total THEN @
                            ELSE Verdict(Cardinality(failed), total)]
        /\ counted' = counted \cup {j}
        /\ recounts' = IF j \in counted
                         THEN [recounts EXCEPT ![s] = @ + 1] ELSE recounts

\* Mutant: the job row fails but the scan's counter is left alone.
FailDispatchUncounted(c) ==
    /\ c.phase = "fail"
    /\ job' = [job EXCEPT ![c.job].status = "failed"]
    /\ calls' = calls \ {c}
    /\ UNCHANGED <<scan, counted, recounts, creating, dispatched, runs, findings,
                   results, announced, gated>>

\* failDispatch: the dispatch error is persisted and the job is counted.
FailDispatch(c) ==
    /\ c.phase = "fail"
    /\ CountJob(c.job, "failed")
    /\ calls' = calls \ {c}
    /\ UNCHANGED <<creating, dispatched, runs, findings, results, announced,
                   gated>>

\* The failDispatch transaction throws: createScan logs it and goes on with
\* the next job, retryJob answers 500; the job stays queued.
FailDispatchThrows(c) ==
    /\ "handler" \in Faults
    /\ c.phase = "fail"
    /\ calls' = calls \ {c}
    /\ UNCHANGED <<rows, creating, dispatched, runs, findings, results,
                   announced, gated>>

\* The rest of createScan: re-read the scan and call the publishers when it
\* is already terminal.
FinishCreate(s) ==
    /\ s \in creating
    /\ \A c \in calls : c.by = "create" => ScanOf[c.job] # s
    /\ creating' = creating \ {s}
    /\ gated' = IF IsClosed(s) THEN gated \cup {s} ELSE gated
    /\ UNCHANGED <<rows, calls, dispatched, runs, findings, results, announced>>

\* The outer catch: the jobs or their credential references cannot be read,
\* before the first job is sent.  createScan goes on to its answer; the jobs stay
\* queued and nothing resumes them.
GiveUpDispatch(s) ==
    LET unsent == {c \in calls : c.by = "create" /\ ScanOf[c.job] = s}
    IN  /\ "handler" \in Faults
        /\ s \in creating
        /\ unsent # {} /\ Cardinality(unsent) = scan[s].jobsTotal
        /\ \A c \in unsent : c.phase = "publish"
        /\ calls' = calls \ unsent
        /\ UNCHANGED <<rows, creating, dispatched, runs, findings, results, announced, gated>>

\* The orchestrator dies inside createScan: the jobs not yet sent stay queued
\* and nothing resumes them.
AbandonCreate(s) ==
    /\ "crash" \in Faults
    /\ s \in creating
    /\ creating' = creating \ {s}
    /\ calls' = {c \in calls : c.by = "retry" \/ ScanOf[c.job] # s}
    /\ UNCHANGED <<rows, dispatched, runs, findings, results, announced, gated>>

\* retryJob: any job may be retried, whatever its status and its scan's.
RetryJob(j) ==
    /\ job[j].status # "none"
    /\ job[j].attempt < MaxAttempt
    /\ job' = [job EXCEPT ![j] = [status |-> "queued", attempt |-> @.attempt + 1]]
    /\ calls' = calls \cup {[job |-> j, attempt |-> job[j].attempt + 1,
                             by |-> "retry", phase |-> "publish"]}
    /\ UNCHANGED <<scan, creating, dispatched, runs, findings, results,
                   announced, gated, counted, recounts>>

\* retryJob throws after its transaction (asset lookup, failDispatch) or dies.
AbandonRetry(c) ==
    /\ "crash" \in Faults
    /\ c.by = "retry"
    /\ calls' = calls \ {c}
    /\ UNCHANGED <<rows, creating, dispatched, runs, findings, results,
                   announced, gated>>

-----------------------------------------------------------------------------
(***************************************************************************)
(* The scanner worker.                                                     *)
(***************************************************************************)
\* A delivery that failed goes back to the stream, or is set aside once
\* maxDeliver is reached.
Redeliver(queue, m, max) ==
    (queue \ {m}) \cup (IF m.tries < max THEN {[m EXCEPT !.ready = TRUE]} ELSE {})

MessageOf(r) == {m \in dispatched : m.job = r.job /\ m.attempt = r.attempt}

\* A worker of the queue group takes a dispatched job.
StartRun(m) ==
    /\ m.ready
    /\ dispatched' = (dispatched \ {m}) \cup
                        {[job |-> m.job, attempt |-> m.attempt,
                          tries |-> m.tries + 1, ready |-> FALSE]}
    /\ runs' = runs \cup {[job |-> m.job, attempt |-> m.attempt,
                           try |-> m.tries + 1, phase |-> "executing"]}
    /\ UNCHANGED <<rows, creating, calls, findings, results, announced, gated>>

\* scanner.supports(job) is false: the handler returns, the message is
\* acknowledged and no result is ever published.
IgnoreJob(m) ==
    /\ "unsupported" \in Faults
    /\ m.ready
    /\ dispatched' = dispatched \ {m}
    /\ UNCHANGED <<rows, creating, calls, runs, findings, results, announced,
                   gated>>

\* Mutant: a findings publish that throws is swallowed like the packages one.
ReportFindingsBestEffort(r) ==
    /\ r.phase = "executing"
    /\ runs' = (runs \ {r}) \cup {[r EXCEPT !.phase = "reported"]}
    /\ findings' \in {findings, findings \cup {r.job}}
    /\ UNCHANGED <<rows, creating, calls, dispatched, results, announced, gated>>

\* scanner.execute and the findings publish succeed.
ReportFindings(r) ==
    /\ r.phase = "executing"
    /\ runs' = (runs \ {r}) \cup {[r EXCEPT !.phase = "reported"]}
    /\ findings' = findings \cup {r.job}
    /\ UNCHANGED <<rows, creating, calls, dispatched, results, announced, gated>>

\* scanner.execute, the artifact upload or the findings publish throws.
ExecutionFails(r) ==
    /\ r.phase = "executing"
    /\ runs' = (runs \ {r}) \cup {[r EXCEPT !.phase = "failed"]}
    /\ \/ UNCHANGED findings
       \/ "pubAck" \in Faults /\ findings' = findings \cup {r.job}
    /\ UNCHANGED <<rows, creating, calls, dispatched, results, announced, gated>>

\* Mutant: the run's own phase is sent as the job status.
ResultOfPhase(r) ==
    [job |-> r.job, attempt |-> r.attempt, try |-> r.try,
     status |-> r.phase, tries |-> 0]

\* The ScanJobResult a finished run publishes.
ResultOf(r) ==
    [job |-> r.job, attempt |-> r.attempt, try |-> r.try,
     status |-> IF r.phase = "reported" THEN "succeeded" ELSE "failed",
     tries |-> 0]

\* The result is published and the dispatch message acknowledged; the ack may
\* be lost, and the publish may throw (nak) although the result was stored.
PublishResult(r) ==
    /\ r.phase # "executing"
    /\ results' = results \cup {ResultOf(r)}
    /\ runs' = runs \ {r}
    /\ \/ dispatched' = dispatched \ MessageOf(r)
       \/ "ack" \in Faults /\ UNCHANGED dispatched
       \/ /\ "pubAck" \in Faults
          /\ \E m \in MessageOf(r) :
                dispatched' = Redeliver(dispatched, m, MaxDispatch)
    /\ UNCHANGED <<rows, creating, calls, findings, announced, gated>>

\* mkdtemp or the result publish throws: the bus naks the message.
RunThrows(r) ==
    /\ "handler" \in Faults
    /\ runs' = runs \ {r}
    /\ \/ MessageOf(r) = {} /\ UNCHANGED dispatched
       \/ \E m \in MessageOf(r) :
             dispatched' = Redeliver(dispatched, m, MaxDispatch)
    /\ UNCHANGED <<rows, creating, calls, findings, results, announced, gated>>

\* The worker process dies; the message waits for ackWait.
WorkerCrash(r) ==
    /\ "crash" \in Faults
    /\ runs' = runs \ {r}
    /\ UNCHANGED <<rows, creating, calls, dispatched, findings, results,
                   announced, gated>>

\* ackWait runs out with no ack, whether or not the run is still going.
AckWaitExpires(m) ==
    /\ Faults \cap {"ack", "crash"} # {}
    /\ ~m.ready
    /\ dispatched' = Redeliver(dispatched, m, MaxDispatch)
    /\ UNCHANGED <<rows, creating, calls, runs, findings, results, announced,
                   gated>>

-----------------------------------------------------------------------------
(***************************************************************************)
(* The lifecycle consumer.                                                 *)
(***************************************************************************)
\* A result the handler did not acknowledge comes back until maxDeliver.
RedeliverResult(m) ==
    (results \ {m}) \cup
        (IF m.tries + 1 < MaxResult THEN {[m EXCEPT !.tries = @ + 1]} ELSE {})

\* applyResult up to the ack: the transaction and, when it closed the scan,
\* the scan.completed event and the publishers.
ApplyResult(m) ==
    /\ CountJob(m.job, m.status)
    /\ results' = results \ {m}
    /\ announced' = IF IsClosed(ScanOf[m.job])' THEN announced \cup {ScanOf[m.job]} ELSE announced
    /\ gated' = IF IsClosed(ScanOf[m.job])' THEN gated \cup {ScanOf[m.job]} ELSE gated
    /\ UNCHANGED <<creating, calls, dispatched, runs, findings>>

\* The transaction commits but the delivery is not acknowledged: the ack is
\* lost, the scan.completed publish throws, or the process dies on the way.
ApplyResultNoAck(m) ==
    /\ Faults \cap {"ack", "pubAck", "handler", "crash"} # {}
    /\ CountJob(m.job, m.status)
    /\ results' = RedeliverResult(m)
    /\ \/ UNCHANGED <<announced, gated>>
       \/ /\ IsClosed(ScanOf[m.job])'
          /\ announced' = announced \cup {ScanOf[m.job]}
          /\ gated' \in {gated, gated \cup {ScanOf[m.job]}}
    /\ UNCHANGED <<creating, calls, dispatched, runs, findings>>

\* The handler throws before its transaction commits.
ResultHandlerThrows(m) ==
    /\ "handler" \in Faults
    /\ results' = RedeliverResult(m)
    /\ UNCHANGED <<rows, creating, calls, dispatched, runs, findings,
                   announced, gated>>

-----------------------------------------------------------------------------
DispatchStep ==
    \/ \E c \in calls : PublishQueuedJob(c) \/ PublishThrows(c) \/ FailDispatch(c)
    \/ \E s \in Scans : FinishCreate(s)

WorkerStep ==
    \/ \E m \in dispatched : StartRun(m) \/ IgnoreJob(m)
    \/ \E r \in runs : ReportFindings(r) \/ ExecutionFails(r) \/ PublishResult(r)

LifecycleStep == \E m \in results : ApplyResult(m) \/ ApplyResultNoAck(m)

Fault ==
    \/ \E s \in Scans : GiveUpDispatch(s) \/ AbandonCreate(s)
    \/ \E c \in calls : AbandonRetry(c) \/ FailDispatchThrows(c)
    \/ \E r \in runs : RunThrows(r) \/ WorkerCrash(r)
    \/ \E m \in dispatched : AckWaitExpires(m)
    \/ \E m \in results : ResultHandlerThrows(m)

Next ==
    \/ \E s \in Scans, plan \in SUBSET Jobs : CreateScan(s, plan)
    \/ \E j \in Jobs : RetryJob(j)
    \/ DispatchStep
    \/ WorkerStep
    \/ LifecycleStep
    \/ Fault

Spec == Init /\ [][Next]_vars

\* Live processes keep going and JetStream keeps delivering: the loops of the
\* orchestrator, the workers and the consumer are not starved.
Fairness ==
    /\ WF_vars(DispatchStep)
    /\ WF_vars(WorkerStep)
    /\ WF_vars(LifecycleStep)

FairSpec == Spec /\ Fairness

-----------------------------------------------------------------------------
(***************************************************************************)
(* Properties                                                              *)
(***************************************************************************)
\* ScanLifecycleConsumer's promise that a failed job is never silently
\* dropped: a scan marked succeeded has no failed job and a scan marked failed
\* has no succeeded one, however results, retries and dispatch failures
\* interleave and however often a result is delivered again.
VerdictNeverHides ==
    \A j \in Jobs :
        /\ scan[ScanOf[j]].status = "succeeded" => job[j].status # "failed"
        /\ scan[ScanOf[j]].status = "failed" => job[j].status # "succeeded"

\* Once every job row holds a result (nothing queued, nothing being retried)
\* the scan is closed and its status is the verdict on exactly those rows: no
\* order of the last counts leaves a stale verdict or an open scan behind.
SettledVerdict ==
    \A s \in Scans :
        (/\ scan[s].status # "none"
         /\ \A j \in JobsOf(s) : job[j].status \in {"succeeded", "failed"})
        => scan[s].status =
              Verdict(Cardinality(InStatus(s, "failed")), scan[s].jobsTotal)

\* The close-out counts increments of jobsCompleted, not jobs.  A scan closes
\* with a job that never reported only if some job was counted twice (a
\* redelivered result, a retry, or a dispatch failure whose message got out).
EarlyCloseNeedsRecount ==
    \A s \in Scans :
        IsClosed(s) /\ recounts[s] = 0 => JobsOf(s) \subseteq counted

\* A job row says succeeded only when its findings are on the stream: the
\* worker publishes them before the result, in every run and redelivery.
SuccessHasFindings ==
    \A j \in Jobs : job[j].status = "succeeded" => j \in findings

\* The rows a scan and its counter refer to: jobsTotal is the number of job
\* rows, a scan that was not accepted has none.
RowsMatch ==
    \A s \in Scans :
        /\ scan[s].jobsTotal = Cardinality(JobsOf(s))
        /\ scan[s].status = "none" => JobsOf(s) = {} /\ recounts[s] = 0

CountedOf(s) == {j \in counted : ScanOf[j] = s}

\* jobsCompleted is the number of jobs that reported plus the double counts,
\* every row with a result has been counted, and a scan is open exactly while
\* the counter is short of jobsTotal.
CounterExact ==
    /\ \A j \in Jobs :
          /\ j \in counted => job[j].status # "none"
          /\ job[j].status \in {"succeeded", "failed"} => j \in counted
    /\ \A s \in Scans :
          /\ scan[s].jobsCompleted = Cardinality(CountedOf(s)) + recounts[s]
          /\ scan[s].status = "running" => scan[s].jobsCompleted < scan[s].jobsTotal
          /\ IsClosed(s) => scan[s].jobsCompleted >= scan[s].jobsTotal

\* Nothing in flight names a job without a row.
InFlightHasRow ==
    \A x \in calls \cup dispatched \cup runs \cup results :
        job[x.job].status # "none"

\* A run or a result that claims success has its findings on the stream.
FindingsFirst ==
    /\ \A r \in runs : r.phase = "reported" => r.job \in findings
    /\ \A m \in results : m.status = "succeeded" => m.job \in findings
    /\ SuccessHasFindings

\* What the README's pipeline promises ("orchestrator closes the scan when all
\* jobs report"): no scan is closed while one of its jobs has not reported.
ClosedMeansAllReported ==
    \A s \in Scans : IsClosed(s) => JobsOf(s) \subseteq counted

\* Every accepted scan is eventually closed, although publishing a job may
\* fail and acknowledgements may get lost.
EveryScanCloses == \A s \in Scans : scan[s].status = "running" ~> IsClosed(s)
=============================================================================
