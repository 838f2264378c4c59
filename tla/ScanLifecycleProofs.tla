------------------------- MODULE ScanLifecycleProofs -------------------------
(***************************************************************************)
(* ScanLifecycle for any number of scans, jobs, retries and redeliveries   *)
(* and any set of faults.  The invariants of the runs are not inductive by *)
(* themselves: the verdict on a settled scan needs the exact value of      *)
(* jobsCompleted, which needs to know that every job named by a message    *)
(* has a row.  IInv collects these parts.                                  *)
(***************************************************************************)
EXTENDS ScanLifecycle, FiniteSetTheorems, TLAPS

RowInv == RowsMatch /\ CounterExact /\ VerdictNeverHides /\ SettledVerdict

IInv == TypeOK /\ RowInv /\ InFlightHasRow /\ FindingsFirst

TypeRows ==
    /\ scan \in [Scans -> ScanRow]
    /\ job \in [Jobs -> JobRow]
    /\ counted \in SUBSET Jobs
    /\ recounts \in [Scans -> Nat]

\* Every set of job rows is finite.
LEMMA FiniteJobs ==
    ASSUME NEW S \in SUBSET Jobs
    PROVE  IsFiniteSet(S) /\ Cardinality(S) \in Nat
BY JobsAssumption, FS_Subset, FS_CardinalityType

\* CountJob changes only the given job's status and its own scan's row.
LEMMA CountJobType ==
    ASSUME TypeRows, NEW j \in Jobs, NEW status \in {"succeeded", "failed"},
           CountJob(j, status)
    PROVE  TypeRows'
<1> DEFINE s == ScanOf[j]
           failed == InStatus(s, "failed")'
<1>1. s \in Scans
  BY JobsAssumption
<1>2. Verdict(Cardinality(failed), scan[s].jobsTotal) \in Closed
  BY DEF Verdict, Closed
<1>3. QED
  BY <1>1, <1>2 DEF CountJob, TypeRows, ScanRow, JobRow, Closed

\* Counting a result keeps the row invariants, whether it is the job's first
\* result or a repeated one and whether or not it closes the scan.
LEMMA CountJobRows ==
    ASSUME TypeRows, RowInv,
           NEW j \in Jobs, NEW status \in {"succeeded", "failed"},
           job[j].status # "none", CountJob(j, status)
    PROVE  RowInv'
<1> DEFINE s == ScanOf[j]
           done == scan[s].jobsCompleted + 1
           total == scan[s].jobsTotal
           failed == InStatus(s, "failed")'
           verdict == Verdict(Cardinality(failed), total)
<1>1. s \in Scans /\ total \in Nat /\ done \in Nat
  BY JobsAssumption DEF TypeRows, ScanRow
<1>2. /\ job' \in [Jobs -> JobRow]
      /\ job'[j].status = status
      /\ \A k \in Jobs \ {j} : job'[k] = job[k]
  BY CountJobType DEF CountJob, TypeRows, JobRow
<1>3. \A t \in Scans : JobsOf(t)' = JobsOf(t)
  BY <1>2 DEF JobsOf
<1>4. /\ scan'[s].jobsTotal = total
      /\ scan'[s].jobsCompleted = done
      /\ scan'[s].status = IF done < total THEN scan[s].status ELSE verdict
      /\ \A t \in Scans \ {s} : scan'[t] = scan[t]
  BY <1>1 DEF CountJob, TypeRows, ScanRow
<1>5. counted' = counted \cup {j} /\ counted' \in SUBSET Jobs
  BY DEF CountJob, TypeRows
<1>6. /\ recounts'[s] = IF j \in counted THEN recounts[s] + 1 ELSE recounts[s]
      /\ \A t \in Scans \ {s} : recounts'[t] = recounts[t]
  BY <1>1 DEF CountJob, TypeRows
<1>7. j \in JobsOf(s) /\ scan[s].status # "none"
  BY <1>1 DEF JobsOf, RowInv, RowsMatch
<1>8. total = Cardinality(JobsOf(s)) /\ JobsOf(s) \in SUBSET Jobs
  BY <1>1 DEF RowInv, RowsMatch, JobsOf
<1>9. verdict \in Closed
  BY DEF Verdict, Closed
<1>10. RowsMatch'
  BY <1>1, <1>3, <1>4, <1>6, <1>7, <1>9 DEF RowInv, RowsMatch, Closed
<1>11. CounterExact'
  <2>1. \A k \in Jobs :
          /\ k \in counted' => job'[k].status # "none"
          /\ job'[k].status \in {"succeeded", "failed"} => k \in counted'
    BY <1>2, <1>5 DEF RowInv, CounterExact
  <2>2. ASSUME NEW t \in Scans
        PROVE  scan'[t].jobsCompleted = Cardinality(CountedOf(t)') + recounts'[t]
    <3>1. scan[t].jobsCompleted = Cardinality(CountedOf(t)) + recounts[t]
      BY DEF RowInv, CounterExact
    <3>2. CASE t # s
      <4>1. CountedOf(t)' = CountedOf(t)
        BY <1>5, <3>2 DEF CountedOf
      <4>2. QED
        BY <1>4, <1>6, <3>1, <3>2, <4>1
    <3>3. CASE t = s
      <4>1. CountedOf(s)' = CountedOf(s) \cup {j}
        BY <1>5 DEF CountedOf
      <4>2. IsFiniteSet(CountedOf(s)) /\ Cardinality(CountedOf(s)) \in Nat
        BY FiniteJobs DEF CountedOf, TypeRows
      <4>3. Cardinality(CountedOf(s)') =
              IF j \in CountedOf(s) THEN Cardinality(CountedOf(s))
              ELSE Cardinality(CountedOf(s)) + 1
        BY <4>1, <4>2, FS_AddElement
      <4>4. j \in CountedOf(s) <=> j \in counted
        BY DEF CountedOf
      <4>5. recounts[s] \in Nat
        BY <1>1 DEF TypeRows
      <4>6. QED
        BY <1>4, <1>6, <3>1, <3>3, <4>2, <4>3, <4>4, <4>5
    <3>4. QED
      BY <3>2, <3>3
  <2>3. ASSUME NEW t \in Scans
        PROVE  /\ scan'[t].status = "running"
                      => scan'[t].jobsCompleted < scan'[t].jobsTotal
               /\ IsClosed(t)' => scan'[t].jobsCompleted >= scan'[t].jobsTotal
    <3>1. /\ scan[t].status = "running"
                => scan[t].jobsCompleted < scan[t].jobsTotal
          /\ scan[t].status \in Closed
                => scan[t].jobsCompleted >= scan[t].jobsTotal
          /\ scan[t].jobsCompleted \in Nat /\ scan[t].jobsTotal \in Nat
      BY DEF RowInv, CounterExact, IsClosed, TypeRows, ScanRow
    <3>2. CASE t # s
      BY <1>4, <3>1, <3>2 DEF IsClosed
    <3>3. CASE t = s
      BY <1>1, <1>4, <1>9, <3>1, <3>3 DEF IsClosed, Closed
    <3>4. QED
      BY <3>2, <3>3
  <2>4. QED
    BY <2>1, <2>2, <2>3 DEF CounterExact
<1>12. failed \in SUBSET JobsOf(s) /\ IsFiniteSet(failed) /\ IsFiniteSet(JobsOf(s))
  BY <1>1, <1>3, <1>8, FiniteJobs DEF InStatus
<1>13. VerdictNeverHides'
  <2>1. ASSUME NEW k \in Jobs
        PROVE  /\ scan'[ScanOf[k]].status = "succeeded" => job'[k].status # "failed"
               /\ scan'[ScanOf[k]].status = "failed" => job'[k].status # "succeeded"
    <3>1. CASE ScanOf[k] # s
      <4>1. k # j /\ ScanOf[k] \in Scans
        BY <3>1, JobsAssumption
      <4>2. QED
        BY <1>2, <1>4, <3>1, <4>1 DEF RowInv, VerdictNeverHides
    <3>2. CASE ScanOf[k] = s /\ done < total
      <4>1. scan[s].status = "running"
        BY <1>1, <1>7, <3>2 DEF RowInv, CounterExact, IsClosed, TypeRows, ScanRow, Closed
      <4>2. QED
        BY <1>4, <3>2, <4>1
    <3>3. CASE ScanOf[k] = s /\ ~(done < total)
      <4>1. scan'[s].status = verdict
        BY <1>4, <3>3
      <4>2. ASSUME verdict = "succeeded", job'[k].status = "failed"
            PROVE  FALSE
        <5>1. Cardinality(failed) = 0
          BY <4>2 DEF Verdict
        <5>2. failed = {}
          BY <5>1, <1>12, FS_EmptySet
        <5>3. k \in failed
          BY <4>2, <3>3 DEF InStatus, JobsOf
        <5>4. QED
          BY <5>2, <5>3
      <4>3. ASSUME verdict = "failed", job'[k].status = "succeeded"
            PROVE  FALSE
        <5>1. Cardinality(failed) = Cardinality(JobsOf(s))
          BY <4>3, <1>8 DEF Verdict
        <5>2. failed = JobsOf(s)
          BY <5>1, <1>12, FS_Subset
        <5>3. k \in JobsOf(s)
          BY <1>1, <1>3, <3>3, <4>3 DEF JobsOf
        <5>4. job'[k].status = "failed"
          BY <5>2, <5>3 DEF InStatus
        <5>5. QED
          BY <5>4, <4>3
      <4>4. QED
        BY <3>3, <4>1, <4>2, <4>3
    <3>4. QED
      BY <3>1, <3>2, <3>3
  <2>2. QED
    BY <2>1 DEF VerdictNeverHides
<1>14. SettledVerdict'
  <2>1. ASSUME NEW t \in Scans, scan'[t].status # "none",
               \A k \in JobsOf(t)' : job'[k].status \in {"succeeded", "failed"}
        PROVE  scan'[t].status =
                  Verdict(Cardinality(InStatus(t, "failed")'), scan'[t].jobsTotal)
    <3>1. CASE t # s
      <4>1. \A k \in JobsOf(t) : k \in Jobs /\ k # j /\ job'[k] = job[k]
        BY <1>2, <3>1 DEF JobsOf
      <4>2. InStatus(t, "failed")' = InStatus(t, "failed")
        BY <1>3, <4>1 DEF InStatus
      <4>3. \A k \in JobsOf(t) : job[k].status \in {"succeeded", "failed"}
        BY <1>3, <2>1, <4>1
      <4>4. QED
        BY <1>4, <2>1, <3>1, <4>2, <4>3 DEF RowInv, SettledVerdict
    <3>2. CASE t = s
      <4>1. JobsOf(s) \subseteq CountedOf(s)'
        <5> SUFFICES ASSUME NEW k \in JobsOf(s)
                     PROVE  k \in CountedOf(s)'
          OBVIOUS
        <5>1. k \in Jobs /\ ScanOf[k] = s
          BY DEF JobsOf
        <5>2. job'[k].status \in {"succeeded", "failed"}
          BY <1>3, <2>1, <3>2
        <5>3. QED
          BY <1>11, <5>1, <5>2 DEF CounterExact, CountedOf
      <4>2. CountedOf(s)' \in SUBSET Jobs
        BY <1>5 DEF CountedOf
      <4>3. Cardinality(JobsOf(s)) <= Cardinality(CountedOf(s)')
        BY <4>1, <4>2, FiniteJobs, FS_Subset
      <4>4. done = Cardinality(CountedOf(s)') + recounts'[s]
        BY <1>1, <1>4, <1>11 DEF CounterExact
      <4>5. Cardinality(CountedOf(s)') \in Nat /\ recounts'[s] \in Nat
        BY <1>1, <4>2, FiniteJobs, CountJobType DEF TypeRows
      <4>6. ~(done < total)
        BY <1>1, <1>8, <4>3, <4>4, <4>5
      <4>7. QED
        BY <1>4, <3>2, <4>6
    <3>3. QED
      BY <3>1, <3>2
  <2>2. QED
    BY <2>1 DEF SettledVerdict
<1>15. QED
  BY <1>10, <1>11, <1>13, <1>14 DEF RowInv

\* The rows are the only state RowInv reads.
LEMMA RowInvUnchanged ==
    ASSUME RowInv, UNCHANGED rows
    PROVE  RowInv'
<1>1. scan' = scan /\ job' = job /\ counted' = counted /\ recounts' = recounts
  BY DEF rows
<1>2. \A s : /\ JobsOf(s)' = JobsOf(s) /\ CountedOf(s)' = CountedOf(s)
             /\ InStatus(s, "failed")' = InStatus(s, "failed")
             /\ IsClosed(s)' <=> IsClosed(s)
  BY <1>1 DEF JobsOf, CountedOf, InStatus, IsClosed
<1>3. RowsMatch' /\ CounterExact'
  BY <1>1, <1>2 DEF RowInv, RowsMatch, CounterExact
<1>4. VerdictNeverHides' /\ SettledVerdict'
  BY <1>1, <1>2 DEF RowInv, VerdictNeverHides, SettledVerdict
<1>5. QED
  BY <1>3, <1>4 DEF RowInv

\* The accept transaction creates the rows of a scan that had none.
LEMMA CreateScanRows ==
    ASSUME TypeOK, RowInv, NEW s \in Scans, NEW plan \in SUBSET Jobs,
           CreateScan(s, plan)
    PROVE  TypeRows' /\ RowInv'
<1>1. /\ job' \in [Jobs -> JobRow]
      /\ \A j \in plan : job'[j].status = "queued" /\ ScanOf[j] = s
      /\ \A j \in Jobs \ plan : job'[j] = job[j]
      /\ counted' = counted /\ recounts' = recounts
  BY DEF CreateScan, TypeOK, JobRow
<1>2. Cardinality(plan) \in Nat /\ IsFiniteSet(plan)
  BY FiniteJobs
<1>3. /\ scan' \in [Scans -> ScanRow]
      /\ scan'[s].status = IF plan = {} THEN "succeeded" ELSE "running"
      /\ scan'[s].jobsTotal = Cardinality(plan)
      /\ scan'[s].jobsCompleted = 0
      /\ \A t \in Scans \ {s} : scan'[t] = scan[t]
  BY <1>2 DEF CreateScan, TypeOK, ScanRow, Closed
<1>4. scan[s].status = "none" /\ JobsOf(s) = {} /\ recounts[s] = 0
  BY DEF CreateScan, RowInv, RowsMatch
<1>5. JobsOf(s)' = plan
  BY <1>1, <1>4 DEF JobsOf
<1>6. \A t \in Scans \ {s} :
        JobsOf(t)' = JobsOf(t) /\ InStatus(t, "failed")' = InStatus(t, "failed")
  BY <1>1 DEF JobsOf, InStatus
<1>7. CountedOf(s)' = {} /\ Cardinality(CountedOf(s)') = 0
  <2>1. \A j \in counted : j \in Jobs /\ ScanOf[j] # s
    BY <1>4 DEF RowInv, CounterExact, JobsOf, TypeOK
  <2>2. QED
    BY <1>1, <2>1, FS_EmptySet DEF CountedOf
<1>8. \A t \in Scans \ {s} : CountedOf(t)' = CountedOf(t)
  BY <1>1 DEF CountedOf
<1>9. plan # {} => Cardinality(plan) > 0
  BY <1>2, FS_EmptySet
<1>10. plan = {} => Cardinality(plan) = 0
  BY FS_EmptySet
<1>11. TypeRows'
  BY <1>1, <1>3 DEF TypeRows, TypeOK
<1>12. RowsMatch'
  BY <1>1, <1>3, <1>5, <1>6 DEF RowInv, RowsMatch
<1>13. CounterExact'
  <2>1. \A j \in Jobs :
          /\ j \in counted' => job'[j].status # "none"
          /\ job'[j].status \in {"succeeded", "failed"} => j \in counted'
    BY <1>1 DEF RowInv, CounterExact
  <2>2. ASSUME NEW t \in Scans
        PROVE  /\ scan'[t].jobsCompleted = Cardinality(CountedOf(t)') + recounts'[t]
               /\ scan'[t].status = "running"
                     => scan'[t].jobsCompleted < scan'[t].jobsTotal
               /\ IsClosed(t)' => scan'[t].jobsCompleted >= scan'[t].jobsTotal
    <3>1. CASE t = s
      <4>1. Cardinality(CountedOf(t)') = 0
        BY <1>7, <3>1
      <4>2. scan'[t].jobsCompleted = 0 /\ recounts'[t] = 0
        BY <1>1, <1>3, <1>4, <3>1
      <4>3. scan'[t].status = "running" => 0 < scan'[t].jobsTotal
        BY <1>2, <1>3, <1>9, <3>1
      <4>4. IsClosed(t)' => scan'[t].jobsTotal = 0
        BY <1>3, <1>10, <3>1 DEF IsClosed, Closed
      <4>5. QED
        BY <4>1, <4>2, <4>3, <4>4
    <3>2. CASE t # s
      BY <1>1, <1>3, <1>8, <3>2 DEF RowInv, CounterExact, IsClosed
    <3>3. QED
      BY <3>1, <3>2
  <2>3. QED
    BY <2>1, <2>2 DEF CounterExact
<1>14. VerdictNeverHides'
  <2>1. ASSUME NEW j \in Jobs
        PROVE  /\ scan'[ScanOf[j]].status = "succeeded" => job'[j].status # "failed"
               /\ scan'[ScanOf[j]].status = "failed" => job'[j].status # "succeeded"
    <3>1. CASE ScanOf[j] = s
      <4>1. j \in plan \/ job'[j].status = "none"
        BY <1>1, <1>4, <3>1 DEF JobsOf
      <4>2. QED
        BY <1>1, <4>1
    <3>2. CASE ScanOf[j] # s
      BY <1>1, <1>3, <3>2, JobsAssumption DEF RowInv, VerdictNeverHides
    <3>3. QED
      BY <3>1, <3>2
  <2>2. QED
    BY <2>1 DEF VerdictNeverHides
<1>15. SettledVerdict'
  <2>1. ASSUME NEW t \in Scans, scan'[t].status # "none",
               \A k \in JobsOf(t)' : job'[k].status \in {"succeeded", "failed"}
        PROVE  scan'[t].status =
                  Verdict(Cardinality(InStatus(t, "failed")'), scan'[t].jobsTotal)
    <3>1. CASE t = s
      <4>1. plan = {}
        BY <1>1, <1>5, <2>1, <3>1
      <4>2. InStatus(s, "failed")' = {}
        BY <1>5, <4>1 DEF InStatus
      <4>3. QED
        BY <1>3, <3>1, <4>1, <4>2, FS_EmptySet DEF Verdict
    <3>2. CASE t # s
      <4>1. \A k \in JobsOf(t) : job[k].status \in {"succeeded", "failed"}
        BY <1>1, <1>6, <2>1, <3>2 DEF JobsOf
      <4>2. QED
        BY <1>3, <1>6, <2>1, <3>2, <4>1 DEF RowInv, SettledVerdict
    <3>3. QED
      BY <3>1, <3>2
  <2>2. QED
    BY <2>1 DEF SettledVerdict
<1>16. QED
  BY <1>11, <1>12, <1>13, <1>14, <1>15 DEF RowInv

\* A retry only takes a row back to queued: it never reopens or re-judges.
LEMMA RetryJobRows ==
    ASSUME TypeOK, RowInv, NEW j \in Jobs, RetryJob(j)
    PROVE  TypeRows' /\ RowInv'
<1>1. /\ job' \in [Jobs -> JobRow]
      /\ job'[j].status = "queued" /\ job[j].status # "none"
      /\ \A k \in Jobs \ {j} : job'[k] = job[k]
      /\ scan' = scan /\ counted' = counted /\ recounts' = recounts
  BY DEF RetryJob, TypeOK, JobRow
<1>2. \A t \in Scans : JobsOf(t)' = JobsOf(t) /\ CountedOf(t)' = CountedOf(t)
  BY <1>1 DEF JobsOf, CountedOf
<1>3. TypeRows'
  BY <1>1 DEF TypeRows, TypeOK
<1>4. RowsMatch' /\ CounterExact' /\ VerdictNeverHides'
  BY <1>1, <1>2 DEF RowInv, RowsMatch, CounterExact, VerdictNeverHides, IsClosed
<1>5. SettledVerdict'
  <2>1. ASSUME NEW t \in Scans, scan'[t].status # "none",
               \A k \in JobsOf(t)' : job'[k].status \in {"succeeded", "failed"}
        PROVE  scan'[t].status =
                  Verdict(Cardinality(InStatus(t, "failed")'), scan'[t].jobsTotal)
    <3>1. j \notin JobsOf(t)
      BY <1>1, <1>2, <2>1
    <3>2. \A k \in JobsOf(t) : job'[k] = job[k]
      BY <1>1, <3>1 DEF JobsOf
    <3>3. InStatus(t, "failed")' = InStatus(t, "failed")
      BY <1>2, <3>2 DEF InStatus
    <3>4. QED
      BY <1>1, <1>2, <2>1, <3>2, <3>3 DEF RowInv, SettledVerdict
  <2>2. QED
    BY <2>1 DEF SettledVerdict
<1>6. QED
  BY <1>3, <1>4, <1>5 DEF RowInv

\* TypeOK types the rows.
LEMMA TypeRowsOfTypeOK ==
    ASSUME TypeOK
    PROVE  TypeRows
BY DEF TypeOK, TypeRows

\* No scan is accepted and nothing is in flight at first.
LEMMA InitIInv == Init => IInv
<1> SUFFICES ASSUME Init
             PROVE  IInv
  OBVIOUS
<1>1. TypeOK
  BY DEF Init, TypeOK, ScanRow, JobRow
<1>2. /\ \A s \in Scans : JobsOf(s) = {} /\ CountedOf(s) = {}
      /\ \A s \in Scans : scan[s].status = "none"
      /\ \A j \in Jobs : job[j].status = "none"
  BY DEF Init, JobsOf, CountedOf
<1>3. RowsMatch
  BY <1>2, FS_EmptySet DEF RowsMatch, Init
<1>4. CounterExact
  BY <1>2, FS_EmptySet DEF CounterExact, Init, IsClosed, Closed
<1>5. VerdictNeverHides /\ SettledVerdict
  BY <1>2, JobsAssumption DEF VerdictNeverHides, SettledVerdict
<1>6. InFlightHasRow /\ FindingsFirst
  BY <1>2 DEF InFlightHasRow, FindingsFirst, SuccessHasFindings, Init
<1>7. QED
  BY <1>1, <1>3, <1>4, <1>5, <1>6 DEF IInv, RowInv

\* A step that leaves the rows alone keeps IInv when what it puts in flight
\* stays typed, names rows that exist and claims no findings it lacks.
LEMMA RowsUnchangedStep ==
    ASSUME IInv, UNCHANGED rows, TypeOK', InFlightHasRow', FindingsFirst'
    PROVE  IInv'
BY RowInvUnchanged DEF IInv

\* A count of a job in flight keeps IInv when its success has findings.
LEMMA CountStep ==
    ASSUME IInv, NEW j \in Jobs, NEW status \in {"succeeded", "failed"},
           CountJob(j, status), job[j].status # "none",
           status = "succeeded" => j \in findings,
           UNCHANGED <<creating, dispatched, runs, findings>>,
           calls' \in SUBSET Call, results' \in SUBSET ResultMsg,
           announced' \in SUBSET Scans, gated' \in SUBSET Scans,
           \A x \in calls' \cup results' : job[x.job].status # "none",
           \A m \in results' : m.status = "succeeded" => m.job \in findings
    PROVE  IInv'
<1>1. TypeRows /\ RowInv
  BY TypeRowsOfTypeOK DEF IInv
<1>2. TypeRows' /\ RowInv'
  BY <1>1, CountJobType, CountJobRows
<1>3. TypeOK'
  BY <1>2 DEF IInv, TypeOK, TypeRows
<1>4. \A k \in Jobs : job'[k].status =
         IF k = j THEN status ELSE job[k].status
  BY <1>1 DEF CountJob, TypeRows, JobRow
<1>5. \A x \in calls' \cup dispatched \cup runs \cup results' : x.job \in Jobs
  BY DEF IInv, TypeOK, Call, DispatchMsg, Run, ResultMsg
<1>6. InFlightHasRow'
  BY <1>4, <1>5 DEF IInv, InFlightHasRow
<1>7. FindingsFirst'
  BY <1>4 DEF IInv, FindingsFirst, SuccessHasFindings
<1>8. QED
  BY <1>2, <1>3, <1>6, <1>7 DEF IInv

\* Messages keep their type when they go back to the stream.
LEMMA RedeliverType ==
    ASSUME dispatched \in SUBSET DispatchMsg, NEW m \in dispatched, NEW max
    PROVE  /\ Redeliver(dispatched, m, max) \in SUBSET DispatchMsg
           /\ \A x \in Redeliver(dispatched, m, max) :
                 \E y \in dispatched : x.job = y.job
BY DEF Redeliver, DispatchMsg

\* So do results.
LEMMA RedeliverResultType ==
    ASSUME results \in SUBSET ResultMsg, NEW m \in results
    PROVE  /\ RedeliverResult(m) \in SUBSET ResultMsg
           /\ \A x \in RedeliverResult(m) :
                 \E y \in results : x.job = y.job /\ x.status = y.status
BY DEF RedeliverResult, ResultMsg

\* Every step keeps the invariant.
LEMMA NextIInv == IInv /\ [Next]_vars => IInv'
<1> SUFFICES ASSUME IInv, [Next]_vars
             PROVE  IInv'
  OBVIOUS
<1> USE DEF IInv
<1>1. ASSUME NEW s \in Scans, NEW plan \in SUBSET Jobs, CreateScan(s, plan)
      PROVE  IInv'
  <2>1. TypeRows' /\ RowInv'
    BY <1>1, CreateScanRows
  <2>2. calls' \in SUBSET Call
    BY <1>1 DEF CreateScan, TypeOK, Call
  <2>3. TypeOK'
    BY <1>1, <2>1, <2>2 DEF CreateScan, TypeOK, TypeRows
  <2>4. \A j \in Jobs : /\ job'[j].status = IF j \in plan THEN "queued"
                                             ELSE job[j].status
    BY <1>1 DEF CreateScan, TypeOK
  <2>5. \A x \in calls' : x.job \in plan \/ x \in calls
    BY <1>1 DEF CreateScan
  <2>6. \A x \in calls \cup dispatched \cup runs \cup results : x.job \in Jobs
    BY DEF TypeOK, Call, DispatchMsg, Run, ResultMsg
  <2>7. InFlightHasRow'
    BY <1>1, <2>4, <2>5, <2>6 DEF CreateScan, InFlightHasRow
  <2>8. FindingsFirst'
    BY <1>1, <2>4 DEF CreateScan, FindingsFirst, SuccessHasFindings
  <2>9. QED
    BY <2>1, <2>3, <2>7, <2>8
<1>2. ASSUME NEW j \in Jobs, RetryJob(j)
      PROVE  IInv'
  <2>1. TypeRows' /\ RowInv'
    BY <1>2, RetryJobRows
  <2>2. calls' \in SUBSET Call
    BY <1>2 DEF RetryJob, TypeOK, Call, JobRow
  <2>3. TypeOK'
    BY <1>2, <2>1, <2>2 DEF RetryJob, TypeOK, TypeRows
  <2>4. \A k \in Jobs : job'[k].status = IF k = j THEN "queued" ELSE job[k].status
    BY <1>2 DEF RetryJob, TypeOK, JobRow
  <2>5. \A x \in calls' : x.job = j \/ x \in calls
    BY <1>2 DEF RetryJob
  <2>6. \A x \in calls \cup dispatched \cup runs \cup results : x.job \in Jobs
    BY DEF TypeOK, Call, DispatchMsg, Run, ResultMsg
  <2>7. InFlightHasRow'
    BY <1>2, <2>4, <2>5, <2>6 DEF RetryJob, InFlightHasRow
  <2>8. FindingsFirst'
    BY <1>2, <2>4 DEF RetryJob, FindingsFirst, SuccessHasFindings
  <2>9. QED
    BY <2>1, <2>3, <2>7, <2>8
<1>3. ASSUME DispatchStep
      PROVE  IInv'
  <2>1. ASSUME NEW c \in calls, PublishQueuedJob(c) \/ PublishThrows(c)
        PROVE  IInv'
    <3>1. UNCHANGED rows
      BY <2>1 DEF PublishQueuedJob, PublishThrows
    <3>2. dispatched' = dispatched \/ dispatched' = dispatched \cup {Sent(c)}
      BY <2>1 DEF PublishQueuedJob, PublishThrows
    <3>3. Sent(c) \in DispatchMsg /\ Sent(c).job = c.job
      BY DEF TypeOK, Call, DispatchMsg, Sent
    <3>4. calls' \in SUBSET Call /\ \A x \in calls' : \E y \in calls : x.job = y.job
      BY <2>1 DEF PublishQueuedJob, PublishThrows, TypeOK, Call
    <3>5. TypeOK'
      BY <2>1, <3>1, <3>2, <3>3, <3>4
      DEF PublishQueuedJob, PublishThrows, TypeOK, rows
    <3>6. InFlightHasRow'
      BY <2>1, <3>1, <3>2, <3>3, <3>4
      DEF PublishQueuedJob, PublishThrows, InFlightHasRow, rows
    <3>7. FindingsFirst'
      BY <2>1, <3>1
      DEF PublishQueuedJob, PublishThrows, FindingsFirst, SuccessHasFindings, rows
    <3>8. QED
      BY <3>1, <3>5, <3>6, <3>7, RowsUnchangedStep
  <2>2. ASSUME NEW c \in calls, FailDispatch(c)
        PROVE  IInv'
    <3>1. c.job \in Jobs /\ job[c.job].status # "none"
      BY DEF TypeOK, Call, InFlightHasRow
    <3>2. CountJob(c.job, "failed")
      BY <2>2 DEF FailDispatch
    <3>3. calls' \in SUBSET Call /\ results' = results
      BY <2>2 DEF FailDispatch, TypeOK
    <3>4. \A x \in calls' \cup results' : job[x.job].status # "none"
      BY <2>2 DEF FailDispatch, InFlightHasRow
    <3>5. \A m \in results' : m.status = "succeeded" => m.job \in findings
      BY <3>3 DEF FindingsFirst
    <3>6. /\ UNCHANGED <<creating, dispatched, runs, findings>>
          /\ results' \in SUBSET ResultMsg
          /\ announced' \in SUBSET Scans /\ gated' \in SUBSET Scans
      BY <2>2 DEF FailDispatch, TypeOK
    <3>7. QED
      BY <3>1, <3>2, <3>3, <3>4, <3>5, <3>6, CountStep
  <2>3. ASSUME NEW s \in Scans, FinishCreate(s)
        PROVE  IInv'
    BY <2>3, RowsUnchangedStep
    DEF FinishCreate, TypeOK, InFlightHasRow, FindingsFirst, SuccessHasFindings, rows
  <2>4. QED
    BY <1>3, <2>1, <2>2, <2>3 DEF DispatchStep
<1>4. ASSUME WorkerStep
      PROVE  IInv'
  <2>1. ASSUME NEW m \in dispatched, StartRun(m) \/ IgnoreJob(m)
        PROVE  IInv'
    <3>1. UNCHANGED rows
      BY <2>1 DEF StartRun, IgnoreJob
    <3>2. /\ dispatched' \in SUBSET DispatchMsg
          /\ \A x \in dispatched' : \E y \in dispatched : x.job = y.job
      <4> DEFINE taken == [job |-> m.job, attempt |-> m.attempt,
                           tries |-> m.tries + 1, ready |-> FALSE]
      <4>1. m.job \in Jobs /\ m.attempt \in Nat /\ m.tries + 1 \in Nat
        BY DEF TypeOK, DispatchMsg
      <4>2. taken \in DispatchMsg /\ taken.job = m.job
        BY <4>1 DEF DispatchMsg
      <4>3. dispatched' \subseteq dispatched \cup {taken}
        BY <2>1 DEF StartRun, IgnoreJob
      <4> HIDE DEF taken
      <4>4. QED
        BY <4>2, <4>3 DEF TypeOK
    <3>3. /\ runs' \in SUBSET Run
          /\ \A x \in runs' : x \in runs \/ (x.job = m.job /\ x.phase = "executing")
      BY <2>1 DEF StartRun, IgnoreJob, TypeOK, DispatchMsg, Run
    <3>4. TypeOK'
      BY <2>1, <3>1, <3>2, <3>3 DEF StartRun, IgnoreJob, TypeOK, rows
    <3>5. InFlightHasRow'
      BY <2>1, <3>1, <3>2, <3>3 DEF StartRun, IgnoreJob, InFlightHasRow, rows
    <3>6. FindingsFirst'
      BY <2>1, <3>1, <3>3
      DEF StartRun, IgnoreJob, FindingsFirst, SuccessHasFindings, rows
    <3>7. QED
      BY <3>1, <3>4, <3>5, <3>6, RowsUnchangedStep
  <2>2. ASSUME NEW r \in runs, ReportFindings(r) \/ ExecutionFails(r)
        PROVE  IInv'
    <3>1. UNCHANGED rows
      BY <2>2 DEF ReportFindings, ExecutionFails
    <3>2. /\ runs' \in SUBSET Run
          /\ \A x \in runs' : \E y \in runs : x.job = y.job
          /\ \A x \in runs' : x.phase = "reported" => x.job \in findings'
      BY <2>2 DEF ReportFindings, ExecutionFails, TypeOK, Run, FindingsFirst
    <3>3. findings \subseteq findings' /\ findings' \in SUBSET Jobs
      BY <2>2 DEF ReportFindings, ExecutionFails, TypeOK, Run
    <3>4. TypeOK'
      BY <2>2, <3>1, <3>2, <3>3 DEF ReportFindings, ExecutionFails, TypeOK, rows
    <3>5. InFlightHasRow'
      BY <2>2, <3>1, <3>2 DEF ReportFindings, ExecutionFails, InFlightHasRow, rows
    <3>6. FindingsFirst'
      BY <2>2, <3>1, <3>2, <3>3
      DEF ReportFindings, ExecutionFails, FindingsFirst, SuccessHasFindings, rows
    <3>7. QED
      BY <3>1, <3>4, <3>5, <3>6, RowsUnchangedStep
  <2>3. ASSUME NEW r \in runs, PublishResult(r)
        PROVE  IInv'
    <3>1. UNCHANGED rows
      BY <2>3 DEF PublishResult
    <3>2. /\ dispatched' \in SUBSET DispatchMsg
          /\ \A x \in dispatched' : \E y \in dispatched : x.job = y.job
      BY <2>3, RedeliverType DEF PublishResult, TypeOK, MessageOf
    <3>3. /\ ResultOf(r) \in ResultMsg
          /\ ResultOf(r).job = r.job
          /\ ResultOf(r).status = "succeeded" => r.phase = "reported"
      BY DEF TypeOK, Run, ResultMsg, ResultOf
    <3>4. results' = results \cup {ResultOf(r)} /\ runs' = runs \ {r}
      BY <2>3 DEF PublishResult
    <3>5. TypeOK'
      BY <2>3, <3>1, <3>2, <3>3, <3>4 DEF PublishResult, TypeOK, rows
    <3>6. InFlightHasRow'
      BY <2>3, <3>1, <3>2, <3>3, <3>4 DEF PublishResult, InFlightHasRow, rows
    <3>7. FindingsFirst'
      BY <2>3, <3>1, <3>3, <3>4
      DEF PublishResult, FindingsFirst, SuccessHasFindings, rows
    <3>8. QED
      BY <3>1, <3>5, <3>6, <3>7, RowsUnchangedStep
  <2>4. QED
    BY <1>4, <2>1, <2>2, <2>3 DEF WorkerStep
<1>5. ASSUME LifecycleStep
      PROVE  IInv'
  <2>1. PICK m \in results : ApplyResult(m) \/ ApplyResultNoAck(m)
    BY <1>5 DEF LifecycleStep
  <2>2. /\ m.job \in Jobs /\ ScanOf[m.job] \in Scans
        /\ m.status \in {"succeeded", "failed"}
        /\ job[m.job].status # "none"
        /\ m.status = "succeeded" => m.job \in findings
    BY JobsAssumption DEF TypeOK, ResultMsg, InFlightHasRow, FindingsFirst
  <2>3. CountJob(m.job, m.status)
    BY <2>1 DEF ApplyResult, ApplyResultNoAck
  <2>4. results' = results \ {m} \/ results' = RedeliverResult(m)
    BY <2>1 DEF ApplyResult, ApplyResultNoAck
  <2>5. /\ results' \in SUBSET ResultMsg
        /\ \A x \in results' : \E y \in results : x.job = y.job /\ x.status = y.status
    BY <2>4, RedeliverResultType DEF TypeOK
  <2>6. /\ UNCHANGED <<creating, dispatched, runs, findings>>
        /\ calls' = calls
        /\ announced' \in SUBSET Scans /\ gated' \in SUBSET Scans
    BY <2>1, <2>2 DEF ApplyResult, ApplyResultNoAck, TypeOK
  <2>7. \A x \in calls' \cup results' : job[x.job].status # "none"
    BY <2>5, <2>6 DEF InFlightHasRow
  <2>8. \A x \in results' : x.status = "succeeded" => x.job \in findings
    BY <2>5 DEF FindingsFirst
  <2>9. calls' \in SUBSET Call
    BY <2>6 DEF TypeOK
  <2>10. QED
    BY <2>2, <2>3, <2>5, <2>6, <2>7, <2>8, <2>9, CountStep
<1>6. ASSUME Fault
      PROVE  IInv'
  <2>1. ASSUME NEW s \in Scans, GiveUpDispatch(s) \/ AbandonCreate(s)
        PROVE  IInv'
    BY <2>1, RowsUnchangedStep
    DEF GiveUpDispatch, AbandonCreate, TypeOK, InFlightHasRow, FindingsFirst, SuccessHasFindings, rows
  <2>2. ASSUME NEW c \in calls, AbandonRetry(c) \/ FailDispatchThrows(c)
        PROVE  IInv'
    BY <2>2, RowsUnchangedStep
    DEF AbandonRetry, FailDispatchThrows, TypeOK, InFlightHasRow, FindingsFirst,
        SuccessHasFindings, rows
  <2>3. ASSUME NEW r \in runs, RunThrows(r) \/ WorkerCrash(r)
        PROVE  IInv'
    <3>1. UNCHANGED rows /\ runs' = runs \ {r}
      BY <2>3 DEF RunThrows, WorkerCrash
    <3>2. /\ dispatched' \in SUBSET DispatchMsg
          /\ \A x \in dispatched' : \E y \in dispatched : x.job = y.job
      BY <2>3, RedeliverType DEF RunThrows, WorkerCrash, TypeOK, MessageOf
    <3>3. TypeOK' /\ InFlightHasRow' /\ FindingsFirst'
      BY <2>3, <3>1, <3>2
      DEF RunThrows, WorkerCrash, TypeOK, InFlightHasRow, FindingsFirst,
          SuccessHasFindings, rows
    <3>4. QED
      BY <3>1, <3>3, RowsUnchangedStep
  <2>4. ASSUME NEW m \in dispatched, AckWaitExpires(m)
        PROVE  IInv'
    <3>1. UNCHANGED rows
      BY <2>4 DEF AckWaitExpires
    <3>2. /\ dispatched' \in SUBSET DispatchMsg
          /\ \A x \in dispatched' : \E y \in dispatched : x.job = y.job
      BY <2>4, RedeliverType DEF AckWaitExpires, TypeOK
    <3>3. TypeOK' /\ InFlightHasRow' /\ FindingsFirst'
      BY <2>4, <3>1, <3>2
      DEF AckWaitExpires, TypeOK, InFlightHasRow, FindingsFirst,
          SuccessHasFindings, rows
    <3>4. QED
      BY <3>1, <3>3, RowsUnchangedStep
  <2>5. ASSUME NEW m \in results, ResultHandlerThrows(m)
        PROVE  IInv'
    <3>1. UNCHANGED rows /\ results' = RedeliverResult(m)
      BY <2>5 DEF ResultHandlerThrows
    <3>2. /\ results' \in SUBSET ResultMsg
          /\ \A x \in results' : \E y \in results : x.job = y.job /\ x.status = y.status
      BY <3>1, RedeliverResultType DEF TypeOK
    <3>3. TypeOK' /\ InFlightHasRow' /\ FindingsFirst'
      BY <2>5, <3>1, <3>2
      DEF ResultHandlerThrows, TypeOK, InFlightHasRow, FindingsFirst,
          SuccessHasFindings, rows
    <3>4. QED
      BY <3>1, <3>3, RowsUnchangedStep
  <2>6. QED
    BY <1>6, <2>1, <2>2, <2>3, <2>4, <2>5 DEF Fault
<1>7. CASE UNCHANGED vars
  BY <1>7, RowsUnchangedStep
  DEF vars, TypeOK, InFlightHasRow, FindingsFirst, SuccessHasFindings, rows
<1>8. QED
  BY <1>1, <1>2, <1>3, <1>4, <1>5, <1>6, <1>7 DEF Next

\* IInv holds in every reachable state.
THEOREM Invariance == Spec => []IInv
BY InitIInv, NextIInv, PTL DEF Spec

\* The type invariant, for every number of scans, jobs and deliveries.
THEOREM TypeCorrect == Spec => []TypeOK
BY Invariance, PTL DEF IInv

\* ScanLifecycleConsumer never hides a failed job behind a succeeded scan.
THEOREM VerdictNeverHidesHolds == Spec => []VerdictNeverHides
BY Invariance, PTL DEF IInv, RowInv

\* Once no job is queued, the scan carries the verdict on exactly its rows.
THEOREM SettledVerdictHolds == Spec => []SettledVerdict
BY Invariance, PTL DEF IInv, RowInv

\* A job is marked succeeded only with its findings on the stream.
THEOREM SuccessHasFindingsHolds == Spec => []SuccessHasFindings
BY Invariance, PTL DEF IInv, FindingsFirst

\* Without a double count a closed scan has heard from every job: the counter
\* is then the number of reporting jobs, which cannot reach jobsTotal early.
THEOREM EarlyCloseNeedsRecountHolds == Spec => []EarlyCloseNeedsRecount
<1>1. IInv => EarlyCloseNeedsRecount
  <2> SUFFICES ASSUME IInv, NEW s \in Scans, IsClosed(s), recounts[s] = 0
               PROVE  JobsOf(s) \subseteq counted
    BY DEF EarlyCloseNeedsRecount
  <2>1. CountedOf(s) \in SUBSET JobsOf(s) /\ JobsOf(s) \in SUBSET Jobs
    BY DEF IInv, RowInv, CounterExact, CountedOf, JobsOf, TypeOK
  <2>2. /\ IsFiniteSet(JobsOf(s)) /\ Cardinality(JobsOf(s)) \in Nat
        /\ IsFiniteSet(CountedOf(s)) /\ Cardinality(CountedOf(s)) \in Nat
    BY <2>1, FiniteJobs
  <2>3. Cardinality(CountedOf(s)) >= Cardinality(JobsOf(s))
    BY <2>2 DEF IInv, RowInv, RowsMatch, CounterExact
  <2>4. Cardinality(CountedOf(s)) <= Cardinality(JobsOf(s))
    BY <2>1, <2>2, FS_Subset
  <2>5. CountedOf(s) = JobsOf(s)
    BY <2>1, <2>2, <2>3, <2>4, FS_Subset
  <2>6. QED
    BY <2>5 DEF CountedOf
<1>2. QED
  BY <1>1, Invariance, PTL

=============================================================================
