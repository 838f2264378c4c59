------------------------------- MODULE ScanKick -------------------------------
(***************************************************************************)
(* createScan up to the answer: validation of the idempotency key and of   *)
(* the principal, the accept transaction that writes the scan and its      *)
(* scan.kick row, the unique-index conflict of concurrent accepts, the     *)
(* replay, and the dispatch that only the accepting call performs.         *)
(*                                                                         *)
(* A transaction runs READ COMMITTED: its findFirst sees what is committed *)
(* at that moment, and its insert waits for a competing insert of the same *)
(* (orgId, idempotencyKey) and then fails, so insert and commit are one    *)
(* action here and the read before them another.                           *)
(***************************************************************************)
EXTENDS Naturals, FiniteSets

CONSTANTS
    Requests,   \* createScan calls; the scan a call creates has its name
    Orgs,
    Keys,       \* acceptable key texts
    None,       \* absent header, field, key or answer
    Blank,      \* a header or field of white space only
    TooLong     \* a key longer than SCAN_KICK_IDEMPOTENCY_KEY_MAX

ASSUME TokensDiffer ==
    /\ None \notin Keys \cup Requests \cup {Blank, TooLong}
    /\ TooLong \notin Keys
    /\ None \notin Orgs \X Keys
    /\ Requests \cap (Orgs \X Keys) = {}

VARIABLES
    req,        \* per call: its inputs, what it resolved, where it is
    kicks,      \* scan_kicks rows (each inserted with its scans row)
    scans,      \* scans rows
    sends       \* how often each scan's jobs were fanned out

vars == <<req, kicks, scans, sends>>

Raw == Keys \cup {None, Blank, TooLong}
Principals == {"none", "uuid", "idpMapped", "idpUnmapped"}
Stages == {"idle", "read", "insert", "conflict", "dispatch", "replay",
           "rejected", "error", "done"}
Req == [org : Orgs, key : Keys \cup {None}, stage : Stages,
        scan : Requests \cup {None}]
Kick == [scan : Requests, org : Orgs, key : Keys \cup {None}]

\* The type invariant.
TypeOK ==
    /\ req \in [Requests -> Req]
    /\ kicks \in SUBSET Kick
    /\ scans \in SUBSET Requests
    /\ sends \in [Requests -> Nat]

Init ==
    /\ req \in [Requests -> [org : Orgs, key : {None}, stage : {"idle"},
                             scan : {None}]]
    /\ kicks = {}
    /\ scans = {}
    /\ sends = [r \in Requests |-> 0]

Step(r, stage, s) == req' = [req EXCEPT ![r].stage = stage, ![r].scan = s]

-----------------------------------------------------------------------------
Clean(raw) == IF raw = Blank THEN None ELSE raw

Disagree(header, externalId) ==
    /\ Clean(header) # None
    /\ Clean(externalId) # None
    /\ Clean(header) # Clean(externalId)

\* header ?? externalId
ResolvedKey(header, externalId) ==
    IF Clean(header) # None THEN Clean(header) ELSE Clean(externalId)

\* The 400s of resolveScanKickIdempotencyKey and resolveRequestedBy: all of
\* them come before any row is written.
Reject(r) ==
    /\ req[r].stage = "idle"
    /\ \E header, externalId \in Raw, who \in Principals :
          \/ Disagree(header, externalId)
          \/ ResolvedKey(header, externalId) = TooLong
          \/ who = "idpUnmapped"
    /\ Step(r, "rejected", None)
    /\ UNCHANGED <<kicks, scans, sends>>

\* A valid request resolves its key and opens the accept transaction.
Begin(r) ==
    /\ req[r].stage = "idle"
    /\ \E header, externalId \in Raw :
          /\ ~Disagree(header, externalId)
          /\ ResolvedKey(header, externalId) # TooLong
          /\ req' = [req EXCEPT ![r].stage = "read",
                                ![r].key = ResolvedKey(header, externalId)]
    /\ UNCHANGED <<kicks, scans, sends>>

\* Mutant: the lookup forgets the org.
MatchingAnyOrg(r) == {k \in kicks : req[r].key # None /\ k.key = req[r].key}

\* findIdempotentScan: the committed kicks of this org and key.
Matching(r) ==
    {k \in kicks : /\ req[r].key # None
                   /\ k.org = req[r].org
                   /\ k.key = req[r].key}

\* The transaction's lookup finds a prior accept: the call is a replay.
FindPrior(r) ==
    /\ req[r].stage = "read"
    /\ \E k \in Matching(r) : Step(r, "replay", k.scan)
    /\ UNCHANGED <<kicks, scans, sends>>

\* The lookup finds nothing and the transaction goes on to insert.
FindNothing(r) ==
    /\ req[r].stage = "read"
    /\ Matching(r) = {}
    /\ Step(r, "insert", None)
    /\ UNCHANGED <<kicks, scans, sends>>

\* Mutant: no unique index on (orgId, idempotencyKey).
InsertWithoutIndex(r) ==
    /\ req[r].stage = "insert"
    /\ scans' = scans \cup {r}
    /\ kicks' = kicks \cup {[scan |-> r, org |-> req[r].org, key |-> req[r].key]}
    /\ Step(r, "dispatch", r)
    /\ UNCHANGED sends

\* Mutant: the scan row is committed before the kick row is tried.
InsertScanFirst(r) ==
    /\ req[r].stage = "insert"
    /\ scans' = scans \cup {r}
    /\ IF Matching(r) = {}
         THEN /\ kicks' = kicks \cup
                    {[scan |-> r, org |-> req[r].org, key |-> req[r].key]}
              /\ Step(r, "dispatch", r)
         ELSE /\ UNCHANGED kicks
              /\ Step(r, "conflict", None)
    /\ UNCHANGED sends

\* scan.create, scanJob.createMany and scanKick.create commit together.  A
\* NULL key never collides.
Insert(r) ==
    /\ req[r].stage = "insert"
    /\ Matching(r) = {}
    /\ scans' = scans \cup {r}
    /\ kicks' = kicks \cup {[scan |-> r, org |-> req[r].org, key |-> req[r].key]}
    /\ Step(r, "dispatch", r)
    /\ UNCHANGED sends

\* The insert hits the unique index (P2002): the whole transaction, scan row
\* included, rolls back.
Conflict(r) ==
    /\ req[r].stage = "insert"
    /\ Matching(r) # {}
    /\ Step(r, "conflict", None)
    /\ UNCHANGED <<kicks, scans, sends>>

\* The second lookup after a conflict returns the winner.
ReadWinner(r) ==
    /\ req[r].stage = "conflict"
    /\ \E k \in Matching(r) : Step(r, "replay", k.scan)
    /\ UNCHANGED <<kicks, scans, sends>>

\* Mutant: a replay fans the jobs out again.
AnswerReplayAndSend(r) ==
    /\ req[r].stage = "replay"
    /\ Step(r, "done", req[r].scan)
    /\ sends' = [sends EXCEPT ![req[r].scan] = @ + 1]
    /\ UNCHANGED <<kicks, scans>>

\* A replay answers with the existing scan and sends nothing.
AnswerReplay(r) ==
    /\ req[r].stage = "replay"
    /\ Step(r, "done", req[r].scan)
    /\ UNCHANGED <<kicks, scans, sends>>

\* The accepting call fans out the jobs and answers.
DispatchAndAnswer(r) ==
    /\ req[r].stage = "dispatch"
    /\ Step(r, "done", r)
    /\ sends' = [sends EXCEPT ![r] = @ + 1]
    /\ UNCHANGED <<kicks, scans>>

\* The call dies or the database fails; the caller gets no answer (500) and
\* may come back as another request with the same key.
Fail(r) ==
    /\ req[r].stage \in {"read", "insert", "conflict", "dispatch", "replay"}
    /\ Step(r, "error", None)
    /\ UNCHANGED <<kicks, scans, sends>>

Next ==
    \E r \in Requests :
        \/ Reject(r) \/ Begin(r)
        \/ FindPrior(r) \/ FindNothing(r)
        \/ Insert(r) \/ Conflict(r) \/ ReadWinner(r)
        \/ AnswerReplay(r) \/ DispatchAndAnswer(r)
        \/ Fail(r)

Spec == Init /\ [][Next]_vars

-----------------------------------------------------------------------------
(***************************************************************************)
(* Properties                                                              *)
(***************************************************************************)
\* The meter is exact: every scans row has exactly one scan.kick row and every
\* kick its scan, whatever conflicts, replays and failures did in between.
MeterExact ==
    /\ scans = {k.scan : k \in kicks}
    /\ \A k, l \in kicks : k.scan = l.scan => k = l

\* Two requests of one org with one key are never answered with different
\* scans, and nobody is answered with another org's scan.
SameKeySameScan ==
    \A p, q \in Requests :
        /\ req[p].stage = "done" => \E k \in kicks :
              k.scan = req[p].scan /\ k.org = req[p].org
        /\ (/\ req[p].stage = "done" /\ req[q].stage = "done"
            /\ req[p].org = req[q].org
            /\ req[p].key = req[q].key /\ req[p].key # None)
           => req[p].scan = req[q].scan

\* A scan's jobs are fanned out at most once, and only by the call that
\* created it: JetStream replays and idempotent replays send nothing.
SentOnce == \A s \in Requests : sends[s] <= 1 /\ (sends[s] = 1 => s \in scans)

SlotOf(org, key, r) == IF key = None THEN r ELSE <<org, key>>
Slots == (Orgs \X Keys) \cup Requests
Asked ==
    [r \in Requests |->
        IF req[r].stage \in {"idle", "rejected"} THEN None
        ELSE SlotOf(req[r].org, req[r].key, r)]
KicksOf(slot) == {k \in kicks : SlotOf(k.org, k.key, k.scan) = slot}
Ledger ==
    [slot \in Slots |->
        IF KicksOf(slot) = {} THEN None ELSE (CHOOSE k \in KicksOf(slot) : TRUE).scan]
Answers == [r \in Requests |-> IF req[r].stage = "done" THEN req[r].scan ELSE None]

\* createScan implements the ledger: one scan per key for good, and every
\* caller of the key is told that scan.
L == INSTANCE KickLedger WITH asked <- Asked, ledger <- Ledger, answer <- Answers
ImplementsLedger == L!Spec
=============================================================================
