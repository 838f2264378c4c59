---------------------------- MODULE FindingBacklog ----------------------------
(***************************************************************************)
(* findings-service on one (asset, scanner) pair: the ingest consumer      *)
(* applies the reports of successive scans to the finding rows, one        *)
(* transaction per finding and a last one that resolves what the report    *)
(* does not contain, while users triage the rows.                          *)
(*                                                                         *)
(* A report is delivered in stream order the first time; one whose handler *)
(* failed is delivered again after a back-off, when later reports may have *)
(* been handled.  In one process the handlers run one after another.       *)
(***************************************************************************)
EXTENDS Naturals, Sequences, FiniteSets

CONSTANTS
    Prints,        \* fingerprints
    MaxReports,    \* scans that report, bound of the model
    MaxDeliver,    \* maxDeliver
    Replicas,      \* processes of findings-service
    BacklogFaults  \* which of AllFaults may happen

AllFaults == {"fail",     \* a query or a publish throws, or the process dies
              "queue",    \* a scan reports before the last report is settled
              "race"}     \* a triage commits inside an ingest transaction

ASSUME BacklogAssumption ==
    /\ MaxReports \in Nat
    /\ MaxDeliver \in Nat \ {0}
    /\ Replicas \in Nat \ {0}
    /\ BacklogFaults \subseteq AllFaults

VARIABLES
    row,        \* Finding.state of each fingerprint, "none" without a row
    report,     \* the reports so far: the fingerprints each contains
    ingest,     \* the handler of each report
    touched,    \* fingerprints a user has triaged since the last report
    mixed       \* history: an older report's handler has been under way since
                \* the newest report was last delivered

backlogVars == <<row, report, ingest, touched, mixed>>

\* accepted stands for risk_accepted, false_positive and suppressed; triaged
\* for triaged and in_progress.
RowStates == {"open", "triaged", "accepted", "resolved"}
Closable == {"open", "triaged"}
Reports == 1..MaxReports

Waiting(n) == [at |-> "waiting", todo |-> {}, cur |-> {}, existing |-> "none", tries |-> n]

BacklogInit ==
    /\ row = [f \in Prints |-> "none"]
    /\ report = <<>>
    /\ ingest = [r \in Reports |-> Waiting(0)]
    /\ touched = {}
    /\ mixed = FALSE

Sent == 1..Len(report)
Settled(r) == ingest[r].at \in {"acked", "dead"}
Active(r) == ingest[r].at \in {"loop", "upsert", "publish", "rescore"}
AllSettled == \A r \in Sent : Settled(r)

-----------------------------------------------------------------------------
\* A scan of the pair ends and reports what it has found.
Report(found) ==
    /\ Len(report) < MaxReports
    /\ AllSettled \/ "queue" \in BacklogFaults
    /\ report' = Append(report, found)
    /\ touched' = {}
    /\ UNCHANGED <<row, ingest, mixed>>

\* The consumer takes a report: the first time in order, again at any time.
Deliver(r) ==
    /\ r \in Sent
    /\ ingest[r].at = "waiting"
    /\ ingest[r].tries = 0 => \A q \in 1..(r - 1) : ingest[q].tries > 0
    /\ Cardinality({q \in Sent : Active(q)}) < Replicas
    /\ ingest' = [ingest EXCEPT ![r] = [@ EXCEPT !.at = "loop", !.todo = report[r],
                                                 !.tries = ingest[r].tries + 1]]
    /\ mixed' = (r # Len(report) \/ \E q \in Sent : Active(q))
    /\ UNCHANGED <<row, report, touched>>

\* The transaction of one finding: findUnique ...
Read(r, f) ==
    /\ ingest[r].at = "loop"
    /\ f \in ingest[r].todo
    /\ ingest' = [ingest EXCEPT ![r] = [@ EXCEPT !.at = "upsert", !.cur = {f},
                                                 !.existing = row[f]]]
    /\ UNCHANGED <<row, report, touched, mixed>>

\* Mutant: an update leaves a resolved finding resolved.
UpsertNoReopen(r, f) ==
    /\ ingest[r].at = "upsert"
    /\ f \in ingest[r].cur
    /\ row' = [row EXCEPT ![f] = IF @ = "none" THEN "open" ELSE @]
    /\ ingest' = [ingest EXCEPT ![r].at = "publish"]
    /\ UNCHANGED <<report, touched, mixed>>

\* ... and upsert: created open, reopened if it was read as resolved.
Upsert(r, f) ==
    /\ ingest[r].at = "upsert"
    /\ f \in ingest[r].cur
    /\ row' = [row EXCEPT ![f] =
                   IF @ = "none" \/ ingest[r].existing = "resolved" THEN "open" ELSE @]
    /\ ingest' = [ingest EXCEPT ![r].at = "publish"]
    /\ UNCHANGED <<report, touched, mixed>>

\* finding.created or finding.updated is published; on to the next finding.
PublishFinding(r) ==
    /\ ingest[r].at = "publish"
    /\ ingest' = [ingest EXCEPT ![r] = [@ EXCEPT !.at = "loop", !.cur = {}, !.existing = "none",
                                                 !.todo = ingest[r].todo \ ingest[r].cur]]
    /\ UNCHANGED <<row, report, touched, mixed>>

\* updateMany: what the report does not contain is resolved.
Close(r) ==
    /\ ingest[r].at = "loop"
    /\ ingest[r].todo = {}
    /\ row' = [f \in Prints |->
                   IF f \notin report[r] /\ row[f] \in Closable THEN "resolved" ELSE row[f]]
    /\ ingest' = [ingest EXCEPT ![r].at = "rescore"]
    /\ UNCHANGED <<report, touched, mixed>>

\* risk.rescore_requested is published and the report acked.
Finish(r) ==
    /\ ingest[r].at = "rescore"
    /\ ingest' = [ingest EXCEPT ![r] = [Waiting(MaxDeliver) EXCEPT !.at = "acked"]]
    /\ UNCHANGED <<row, report, touched, mixed>>

\* The handler throws and the report is nak'ed, or the process dies.  What is
\* committed stays; after maxDeliver deliveries the report is given up.
Fail(r) ==
    /\ "fail" \in BacklogFaults
    /\ Active(r)
    /\ ingest' = [ingest EXCEPT ![r] =
                    IF ingest[r].tries < MaxDeliver
                      THEN Waiting(ingest[r].tries)
                      ELSE [Waiting(MaxDeliver) EXCEPT !.at = "dead"]]
    /\ UNCHANGED <<row, report, touched, mixed>>

\* triage: any state to any, with its findingEvent in the same transaction.
TriageRow(f, to) ==
    /\ row[f] # "none"
    /\ (\E r \in Sent : ingest[r].at = "upsert") => "race" \in BacklogFaults
    /\ row' = [row EXCEPT ![f] = to]
    /\ touched' = touched \cup {f}
    /\ UNCHANGED <<report, ingest, mixed>>

BacklogNext ==
    \/ \E found \in SUBSET Prints : Report(found)
    \/ \E r \in Reports :
          \/ Deliver(r)
          \/ \E f \in Prints : Read(r, f) \/ Upsert(r, f)
          \/ PublishFinding(r) \/ Close(r) \/ Finish(r) \/ Fail(r)
    \/ \E f \in Prints, to \in RowStates : TriageRow(f, to)

BacklogSpec == BacklogInit /\ [][BacklogNext]_backlogVars

-----------------------------------------------------------------------------
(***************************************************************************)
(* Properties                                                              *)
(***************************************************************************)
\* The newest report was handled, by however many deliveries, and nothing else
\* is under way.
Caught == report # <<>> /\ AllSettled /\ ingest[Len(report)].at = "acked"

\* Every finding of the newest report has a row that is not resolved and no
\* other finding is open, but for what a user has decided since.
AsReported ==
    \A f \in Prints \ touched :
        IF f \in report[Len(report)]
          THEN row[f] \notin {"none", "resolved"}
          ELSE row[f] \notin Closable

\* Handlers that fail half-way and start over, reports that queue up and a
\* triage inside a transaction of ingest leave the rows as the newest report
\* says, unless an older one was applied beside or after it.
FollowsNewest == Caught /\ ~mixed => AsReported

\* ingest "closes anything it no longer reports ... Auto-resolution is what
\* keeps the backlog honest": the rows always end as the newest report says.
BacklogHonest == Caught => AsReported
=============================================================================
