---------------------------- MODULE ScanKickProofs ----------------------------
(***************************************************************************)
(* ScanKick for any number of calls, orgs and keys: the meter is exact,    *)
(* one key means one scan, one dispatch per scan, and createScan           *)
(* implements the KickLedger.                                              *)
(***************************************************************************)
EXTENDS ScanKick, TLAPS

\* The unique indexes of scan_kicks hold on the committed rows.
IndexInv ==
    /\ MeterExact
    /\ \A k, l \in kicks :
          k.key # None /\ k.key = l.key /\ k.org = l.org => k = l

\* What each stage of a call knows about the rows.
StageInv ==
    \A r \in Requests :
        /\ req[r].stage \in {"idle", "read", "insert", "conflict", "replay", "rejected"}
              => r \notin scans /\ sends[r] = 0
        /\ req[r].stage = "dispatch" => req[r].scan = r /\ sends[r] = 0
        /\ req[r].stage \in {"dispatch", "replay", "done"}
              => \E k \in kicks : /\ k.scan = req[r].scan
                                  /\ k.org = req[r].org
                                  /\ k.key = req[r].key
                                  /\ req[r].key = None => k.scan = r

IInv == TypeOK /\ IndexInv /\ StageInv /\ SentOnce

\* Step writes one call's stage and scan.
LEMMA StepEffect ==
    ASSUME TypeOK, NEW r \in Requests, NEW stage \in Stages,
           NEW s \in Requests \cup {None}, Step(r, stage, s)
    PROVE  /\ req' \in [Requests -> Req]
           /\ req'[r].stage = stage /\ req'[r].scan = s
           /\ req'[r].org = req[r].org /\ req'[r].key = req[r].key
           /\ \A q \in Requests \ {r} : req'[q] = req[q]
BY DEF Step, TypeOK, Req

\* No call has started and no row is written.
LEMMA InitIInv == Init => IInv
BY DEF Init, IInv, TypeOK, Req, Stages, IndexInv, MeterExact, StageInv, SentOnce

\* A step of one call that leaves the rows alone keeps the invariant when the
\* call's new stage is entitled to what StageInv says of it.
LEMMA QuietStep ==
    ASSUME IInv, NEW r \in Requests, NEW stage \in Stages,
           NEW s \in Requests \cup {None}, Step(r, stage, s),
           UNCHANGED <<kicks, scans, sends>>,
           stage \in {"idle", "read", "insert", "conflict", "replay", "rejected"}
              => r \notin scans /\ sends[r] = 0,
           stage # "dispatch",
           stage \in {"replay", "done"} =>
              \E k \in kicks : /\ k.scan = s
                               /\ k.org = req[r].org
                               /\ k.key = req[r].key
                               /\ req[r].key = None => k.scan = r
    PROVE  IInv'
<1>1. /\ req' \in [Requests -> Req]
      /\ req'[r].stage = stage /\ req'[r].scan = s
      /\ req'[r].org = req[r].org /\ req'[r].key = req[r].key
      /\ \A q \in Requests \ {r} : req'[q] = req[q]
  BY StepEffect DEF IInv
<1>2. TypeOK'
  BY <1>1 DEF IInv, TypeOK
<1>3. IndexInv' /\ SentOnce'
  BY DEF IInv, IndexInv, MeterExact, SentOnce
<1>4. StageInv'
  BY <1>1 DEF IInv, StageInv
<1>5. QED
  BY <1>2, <1>3, <1>4 DEF IInv

\* The accept transaction adds one kick for a scan and a slot that had none.
LEMMA InsertStep ==
    ASSUME IInv, NEW r \in Requests, Insert(r)
    PROVE  IInv'
<1> DEFINE kick == [scan |-> r, org |-> req[r].org, key |-> req[r].key]
<1>1. /\ req[r].stage = "insert" /\ Matching(r) = {}
      /\ scans' = scans \cup {r} /\ kicks' = kicks \cup {kick}
      /\ sends' = sends
  BY DEF Insert
<1>2. /\ req' \in [Requests -> Req]
      /\ req'[r].stage = "dispatch" /\ req'[r].scan = r
      /\ req'[r].org = req[r].org /\ req'[r].key = req[r].key
      /\ \A q \in Requests \ {r} : req'[q] = req[q]
  BY StepEffect DEF Insert, IInv, Stages
<1>3. kick \in Kick /\ kick.scan = r /\ kick.org = req[r].org /\ kick.key = req[r].key
  BY DEF IInv, TypeOK, Req, Kick
<1>4. r \notin scans /\ sends[r] = 0
  BY <1>1 DEF IInv, StageInv
<1>5. \A k \in kicks : k.scan # r
  BY <1>4 DEF IInv, IndexInv, MeterExact
<1>6. \A k \in kicks : req[r].key # None => ~(k.org = req[r].org /\ k.key = req[r].key)
  BY <1>1 DEF Matching
<1>7. TypeOK'
  BY <1>1, <1>2, <1>3 DEF IInv, TypeOK
<1> HIDE DEF kick
<1>8. IndexInv'
  <2>1. scans' = {k.scan : k \in kicks'}
    BY <1>1, <1>3 DEF IInv, IndexInv, MeterExact
  <2>2. \A k, l \in kicks' : k.scan = l.scan => k = l
    BY <1>1, <1>3, <1>5 DEF IInv, IndexInv, MeterExact
  <2>3. \A k, l \in kicks' :
          k.key # None /\ k.key = l.key /\ k.org = l.org => k = l
    BY <1>1, <1>3, <1>6 DEF IInv, IndexInv
  <2>4. QED
    BY <2>1, <2>2, <2>3 DEF IndexInv, MeterExact
<1>9. StageInv'
  <2> SUFFICES ASSUME NEW q \in Requests
               PROVE  /\ req'[q].stage \in {"idle", "read", "insert", "conflict",
                                            "replay", "rejected"}
                            => q \notin scans' /\ sends'[q] = 0
                      /\ req'[q].stage = "dispatch" => req'[q].scan = q /\ sends'[q] = 0
                      /\ req'[q].stage \in {"dispatch", "replay", "done"}
                            => \E k \in kicks' : /\ k.scan = req'[q].scan
                                                 /\ k.org = req'[q].org
                                                 /\ k.key = req'[q].key
                                                 /\ req'[q].key = None => k.scan = q
    BY DEF StageInv
  <2>1. CASE q = r
    BY <1>1, <1>2, <1>3, <1>4, <2>1
  <2>2. CASE q # r
    BY <1>1, <1>2, <2>2 DEF IInv, StageInv
  <2>3. QED
    BY <2>1, <2>2
<1>10. SentOnce'
  BY <1>1 DEF IInv, SentOnce
<1>11. QED
  BY <1>7, <1>8, <1>9, <1>10 DEF IInv

\* The accepting call sends its jobs once.
LEMMA DispatchStep ==
    ASSUME IInv, NEW r \in Requests, DispatchAndAnswer(r)
    PROVE  IInv'
<1>1. /\ req[r].stage = "dispatch" /\ req[r].scan = r /\ sends[r] = 0
      /\ kicks' = kicks /\ scans' = scans
  BY DEF DispatchAndAnswer, IInv, StageInv
<1>2. /\ req' \in [Requests -> Req]
      /\ req'[r].stage = "done" /\ req'[r].scan = r
      /\ req'[r].org = req[r].org /\ req'[r].key = req[r].key
      /\ \A q \in Requests \ {r} : req'[q] = req[q]
  BY StepEffect DEF DispatchAndAnswer, IInv, Stages
<1>3. /\ sends' \in [Requests -> Nat] /\ sends'[r] = 1
      /\ \A q \in Requests \ {r} : sends'[q] = sends[q]
  BY <1>1 DEF DispatchAndAnswer, IInv, TypeOK
<1>4. r \in scans
  BY <1>1 DEF IInv, StageInv, IndexInv, MeterExact
<1>5. TypeOK' /\ IndexInv'
  BY <1>1, <1>2, <1>3 DEF IInv, TypeOK, IndexInv, MeterExact
<1>6. StageInv'
  BY <1>1, <1>2, <1>3 DEF IInv, StageInv
<1>7. SentOnce'
  BY <1>1, <1>3, <1>4 DEF IInv, SentOnce
<1>8. QED
  BY <1>5, <1>6, <1>7 DEF IInv

\* Opening the transaction records the resolved key.
LEMMA BeginEffect ==
    ASSUME TypeOK, NEW r \in Requests, Begin(r)
    PROVE  /\ req' \in [Requests -> Req]
           /\ req[r].stage = "idle" /\ req'[r].stage = "read"
           /\ req'[r].org = req[r].org
           /\ \A q \in Requests \ {r} : req'[q] = req[q]
           /\ UNCHANGED <<kicks, scans, sends>>
<1>1. PICK key \in Keys \cup {None} :
        req' = [req EXCEPT ![r].stage = "read", ![r].key = key]
  <2>1. PICK header \in Raw, externalId \in Raw :
          /\ ResolvedKey(header, externalId) # TooLong
          /\ req' = [req EXCEPT ![r].stage = "read",
                                ![r].key = ResolvedKey(header, externalId)]
    BY DEF Begin
  <2>2. ResolvedKey(header, externalId) \in Keys \cup {None}
    BY <2>1 DEF ResolvedKey, Clean, Raw
  <2>3. QED
    BY <2>1, <2>2
<1>2. req[r] \in Req /\ "read" \in Stages
  BY DEF TypeOK, Stages
<1>3. req[r].stage = "idle" /\ UNCHANGED <<kicks, scans, sends>>
  BY DEF Begin
<1>4. /\ req' \in [Requests -> Req]
      /\ req'[r].stage = "read" /\ req'[r].org = req[r].org
      /\ req'[r].key = key
      /\ \A q \in Requests \ {r} : req'[q] = req[q]
  BY <1>1, <1>2 DEF TypeOK, Req
<1>5. QED
  BY <1>3, <1>4

\* Every step keeps the invariant.
LEMMA NextIInv == IInv /\ [Next]_vars => IInv'
<1> SUFFICES ASSUME IInv, [Next]_vars
             PROVE  IInv'
  OBVIOUS
<1>1. CASE UNCHANGED vars
  BY <1>1 DEF vars, IInv, TypeOK, IndexInv, MeterExact, StageInv, SentOnce
<1>2. ASSUME NEW r \in Requests, Begin(r)
      PROVE  IInv'
  BY <1>2, BeginEffect
  DEF IInv, TypeOK, IndexInv, MeterExact, StageInv, SentOnce
<1>3. ASSUME NEW r \in Requests, Reject(r) \/ FindNothing(r) \/ Conflict(r)
      PROVE  IInv'
  <2>1. r \notin scans /\ sends[r] = 0
    BY <1>3 DEF Reject, FindNothing, Conflict, IInv, StageInv
  <2>2. QED
    BY <1>3, <2>1, QuietStep DEF Reject, FindNothing, Conflict, Stages
<1>4. ASSUME NEW r \in Requests, FindPrior(r) \/ ReadWinner(r)
      PROVE  IInv'
  <2>1. r \notin scans /\ sends[r] = 0
    BY <1>4 DEF FindPrior, ReadWinner, IInv, StageInv
  <2>2. PICK k \in Matching(r) : Step(r, "replay", k.scan)
    BY <1>4 DEF FindPrior, ReadWinner
  <2>3. /\ k \in kicks /\ k.scan \in Requests
        /\ k.org = req[r].org /\ k.key = req[r].key /\ req[r].key # None
    BY DEF Matching, IInv, TypeOK, Kick
  <2>4. UNCHANGED <<kicks, scans, sends>>
    BY <1>4 DEF FindPrior, ReadWinner
  <2>5. QED
    BY <2>1, <2>2, <2>3, <2>4, QuietStep DEF Stages
<1>5. ASSUME NEW r \in Requests, AnswerReplay(r)
      PROVE  IInv'
  <2>1. \E k \in kicks : /\ k.scan = req[r].scan
                         /\ k.org = req[r].org
                         /\ k.key = req[r].key
                         /\ req[r].key = None => k.scan = r
    BY <1>5 DEF AnswerReplay, IInv, StageInv
  <2>2. req[r].scan \in Requests \cup {None}
    BY DEF IInv, TypeOK, Req
  <2>3. QED
    BY <1>5, <2>1, <2>2, QuietStep DEF AnswerReplay, Stages
<1>6. ASSUME NEW r \in Requests, Fail(r)
      PROVE  IInv'
  BY <1>6, QuietStep DEF Fail, Stages
<1>7. QED
  BY <1>1, <1>2, <1>3, <1>4, <1>5, <1>6, InsertStep, DispatchStep DEF Next

\* IInv holds in every reachable state.
THEOREM Invariance == Spec => []IInv
BY InitIInv, NextIInv, PTL DEF Spec

\* Every accepted scan is metered exactly once, for any number of concurrent
\* calls: persistKick commits the scan and its kick together or not at all.
THEOREM MeterExactHolds == Spec => []MeterExact
BY Invariance, PTL DEF IInv, IndexInv

\* One org and one key mean one scan, whoever won the insert.
THEOREM SameKeySameScanHolds == Spec => []SameKeySameScan
<1>1. IInv => SameKeySameScan
  <2> SUFFICES ASSUME IInv, NEW p \in Requests, NEW q \in Requests
               PROVE  /\ req[p].stage = "done" => \E k \in kicks :
                            k.scan = req[p].scan /\ k.org = req[p].org
                      /\ (/\ req[p].stage = "done" /\ req[q].stage = "done"
                          /\ req[p].org = req[q].org
                          /\ req[p].key = req[q].key /\ req[p].key # None)
                         => req[p].scan = req[q].scan
    BY DEF SameKeySameScan
  <2>1. QED
    BY DEF IInv, StageInv, IndexInv
<1>2. QED
  BY <1>1, Invariance, PTL

\* A scan's jobs are fanned out at most once.
THEOREM SentOnceHolds == Spec => []SentOnce
BY Invariance, PTL DEF IInv

-----------------------------------------------------------------------------
(***************************************************************************)
(* The refinement.                                                         *)
(***************************************************************************)
\* At most one committed kick sits in a slot.
LEMMA SlotUnique ==
    ASSUME IInv, NEW slot, NEW k \in KicksOf(slot), NEW l \in KicksOf(slot)
    PROVE  k = l
<1>1. /\ k \in kicks /\ l \in kicks
      /\ SlotOf(k.org, k.key, k.scan) = slot
      /\ SlotOf(l.org, l.key, l.scan) = slot
  BY DEF KicksOf
<1>2. /\ k.scan \in Requests /\ k.org \in Orgs /\ k.key \in Keys \cup {None}
      /\ l.scan \in Requests /\ l.org \in Orgs /\ l.key \in Keys \cup {None}
  BY <1>1 DEF IInv, TypeOK, Kick
<1>3. k.key = None => <<l.org, l.key>> # k.scan \/ l.key = None
  BY <1>2, TokensDiffer
<1>4. l.key = None => <<k.org, k.key>> # l.scan \/ k.key = None
  BY <1>2, TokensDiffer
<1>5. CASE k.key = None
  BY <1>1, <1>3, <1>5 DEF SlotOf, IInv, IndexInv, MeterExact
<1>6. CASE k.key # None
  <2>1. l.key # None
    BY <1>1, <1>4, <1>6 DEF SlotOf
  <2>2. <<k.org, k.key>> = <<l.org, l.key>>
    BY <1>1, <1>6, <2>1 DEF SlotOf
  <2>3. QED
    BY <1>1, <1>6, <2>2 DEF IInv, IndexInv
<1>7. QED
  BY <1>5, <1>6

\* The ledger reads off the scan of the slot's kick.
LEMMA LedgerAt ==
    ASSUME IInv, NEW slot \in Slots, NEW k \in KicksOf(slot)
    PROVE  Ledger[slot] = k.scan
<1>1. (CHOOSE l \in KicksOf(slot) : TRUE) = k
  BY SlotUnique
<1>2. KicksOf(slot) # {}
  OBVIOUS
<1>3. QED
  BY <1>1, <1>2 DEF Ledger

\* What a call asks for is a slot and not None.
LEMMA SlotTyped ==
    ASSUME TypeOK, NEW r \in Requests
    PROVE  SlotOf(req[r].org, req[r].key, r) \in Slots
           /\ SlotOf(req[r].org, req[r].key, r) # None
<1>1. req[r].org \in Orgs /\ req[r].key \in Keys \cup {None}
  BY DEF TypeOK, Req
<1>2. CASE req[r].key = None
  BY <1>2, TokensDiffer DEF SlotOf, Slots
<1>3. CASE req[r].key # None
  BY <1>1, <1>3, TokensDiffer DEF SlotOf, Slots
<1>4. QED
  BY <1>2, <1>3

\* No call has asked, nothing is accepted, nobody is answered.
LEMMA InitLedger == Init => L!Init
<1> SUFFICES ASSUME Init PROVE L!Init
  OBVIOUS
<1>1. \A r \in Requests : req[r].stage = "idle"
  BY DEF Init
<1>2. kicks = {}
  BY DEF Init
<1>3. Asked = [r \in Requests |-> None]
  BY <1>1 DEF Asked
<1>4. Ledger = [slot \in Slots |-> None]
  BY <1>2 DEF Ledger, KicksOf
<1>5. Answers = [r \in Requests |-> None]
  BY <1>1 DEF Answers
<1>6. QED
  BY <1>3, <1>4, <1>5 DEF L!Init

\* A step that writes no row leaves the ledger alone.
LEMMA LedgerUnchanged == ASSUME kicks' = kicks PROVE Ledger' = Ledger
BY DEF Ledger, KicksOf

\* Resolving the key is asking for a slot.
LEMMA BeginAsks ==
    ASSUME IInv, NEW r \in Requests, Begin(r)
    PROVE  L!Ask(r)
<1> DEFINE slot == SlotOf(req'[r].org, req'[r].key, r)
<1>1. /\ req' \in [Requests -> Req]
      /\ req[r].stage = "idle" /\ req'[r].stage = "read"
      /\ \A q \in Requests \ {r} : req'[q] = req[q]
      /\ kicks' = kicks
  BY BeginEffect DEF IInv
<1>2. slot \in Slots
  <2>1. req'[r].org \in Orgs /\ req'[r].key \in Keys \cup {None}
    BY <1>1 DEF Req
  <2>2. QED
    BY <2>1 DEF SlotOf, Slots
<1>3. Asked[r] = None
  BY <1>1 DEF Asked
<1>4. Asked' = [Asked EXCEPT ![r] = slot]
  BY <1>1 DEF Asked
<1>5. Answers' = Answers
  BY <1>1 DEF Answers
<1>6. Ledger' = Ledger
  BY <1>1, LedgerUnchanged
<1> HIDE DEF slot
<1>7. QED
  BY <1>2, <1>3, <1>4, <1>5, <1>6 DEF L!Ask

\* The stages in which a call has asked and is not yet answered.
Open == {"read", "insert", "conflict", "dispatch", "replay", "error"}

\* A step between two open stages that writes no row is a stutter.
LEMMA QuietStutters ==
    ASSUME IInv, NEW r \in Requests, NEW stage \in Open,
           NEW s \in Requests \cup {None}, Step(r, stage, s),
           req[r].stage \in Open, kicks' = kicks
    PROVE  UNCHANGED <<Asked, Ledger, Answers>>
<1>1. /\ req'[r].stage = stage
      /\ req'[r].org = req[r].org /\ req'[r].key = req[r].key
      /\ \A q \in Requests \ {r} : req'[q] = req[q]
  BY StepEffect DEF IInv, Open, Stages
<1>2. Asked' = Asked
  BY <1>1 DEF Asked, Open
<1>3. Answers' = Answers
  BY <1>1 DEF Answers, Open
<1>4. QED
  BY <1>2, <1>3, LedgerUnchanged

\* A rejected call never asked.
LEMMA RejectStutters ==
    ASSUME IInv, NEW r \in Requests, Reject(r)
    PROVE  UNCHANGED <<Asked, Ledger, Answers>>
<1>1. Step(r, "rejected", None) /\ kicks' = kicks /\ req[r].stage = "idle"
  BY DEF Reject
<1>2. /\ req'[r].stage = "rejected"
      /\ \A q \in Requests \ {r} : req'[q] = req[q]
  BY <1>1, StepEffect DEF IInv, Stages
<1>3. Asked' = Asked
  BY <1>1, <1>2 DEF Asked
<1>4. Answers' = Answers
  BY <1>1, <1>2 DEF Answers
<1>5. QED
  BY <1>1, <1>3, <1>4, LedgerUnchanged

\* The accept transaction takes the empty slot.
LEMMA InsertAccepts ==
    ASSUME IInv, NEW r \in Requests, Insert(r)
    PROVE  L!Accept(r)
<1> DEFINE kick == [scan |-> r, org |-> req[r].org, key |-> req[r].key]
           slot == SlotOf(req[r].org, req[r].key, r)
<1>1. /\ req[r].stage = "insert" /\ Matching(r) = {}
      /\ kicks' = kicks \cup {kick}
  BY DEF Insert
<1>2. /\ req'[r].stage = "dispatch" /\ req'[r].scan = r
      /\ req'[r].org = req[r].org /\ req'[r].key = req[r].key
      /\ \A q \in Requests \ {r} : req'[q] = req[q]
  BY StepEffect DEF Insert, IInv, Stages
<1>3. kick.scan = r /\ kick.org = req[r].org /\ kick.key = req[r].key
  OBVIOUS
<1>4. \A k \in kicks : k.scan # r
  BY <1>1 DEF IInv, StageInv, IndexInv, MeterExact
<1>5. slot \in Slots /\ slot # None
  BY SlotTyped DEF IInv
<1>6. req[r].org \in Orgs /\ req[r].key \in Keys \cup {None}
  BY DEF IInv, TypeOK, Req
<1> HIDE DEF kick
<1>7. KicksOf(slot) = {}
  <2> SUFFICES ASSUME NEW k \in kicks, SlotOf(k.org, k.key, k.scan) = slot
               PROVE  FALSE
    BY DEF KicksOf
  <2>1. k.scan \in Requests /\ k.org \in Orgs /\ k.key \in Keys \cup {None}
    BY DEF IInv, TypeOK, Kick
  <2>2. CASE req[r].key = None
    <3>1. k.key # None
      BY <1>4, <2>2 DEF SlotOf
    <3>2. <<k.org, k.key>> = r
      BY <2>2, <3>1 DEF SlotOf
    <3>3. QED
      BY <2>1, <3>1, <3>2, TokensDiffer
  <2>3. CASE req[r].key # None
    <3>1. slot = <<req[r].org, req[r].key>>
      BY <2>3 DEF SlotOf
    <3>2. k.key # None
      BY <2>1, <1>6, <2>3, <3>1, TokensDiffer DEF SlotOf
    <3>3. <<k.org, k.key>> = <<req[r].org, req[r].key>>
      BY <3>1, <3>2 DEF SlotOf
    <3>4. k \in Matching(r)
      BY <2>3, <3>3 DEF Matching
    <3>5. QED
      BY <1>1, <3>4
  <2>4. QED
    BY <2>2, <2>3
<1>8. \A t \in Slots : KicksOf(t)' = IF t = slot THEN {kick} ELSE KicksOf(t)
  <2>1. SlotOf(kick.org, kick.key, kick.scan) = slot
    BY <1>3
  <2> HIDE DEF slot
  <2>2. QED
    BY <1>1, <1>7, <2>1 DEF KicksOf
<1>9. Asked[r] = slot
  BY <1>1 DEF Asked
<1> HIDE DEF slot
<1>10. Ledger[slot] = None
  BY <1>5, <1>7 DEF Ledger
<1>11. Ledger' = [Ledger EXCEPT ![slot] = r]
  <2>1. (CHOOSE k \in {kick} : TRUE).scan = r
    BY <1>3
  <2>2. Ledger' = [t \in Slots |-> IF KicksOf(t)' = {} THEN None
                                   ELSE (CHOOSE k \in KicksOf(t)' : TRUE).scan]
    BY DEF Ledger
  <2>3. ASSUME NEW t \in Slots
        PROVE  Ledger'[t] = IF t = slot THEN r ELSE Ledger[t]
    <3>1. CASE t = slot
      <4>1. KicksOf(t)' = {kick}
        BY <1>8, <3>1
      <4>2. QED
        BY <2>1, <2>2, <3>1, <4>1
    <3>2. CASE t # slot
      <4>1. KicksOf(t)' = KicksOf(t)
        BY <1>8, <3>2
      <4>2. QED
        BY <2>2, <3>2, <4>1 DEF Ledger
    <3>3. QED
      BY <3>1, <3>2
  <2>4. QED
    BY <2>2, <2>3, <1>5 DEF Ledger
<1>12. Asked' = Asked
  BY <1>1, <1>2 DEF Asked
<1>13. Answers' = Answers
  BY <1>1, <1>2 DEF Answers
<1>14. QED
  BY <1>5, <1>9, <1>10, <1>11, <1>12, <1>13 DEF L!Accept

\* Replay or accept, the answer is the scan of the slot.
LEMMA AnswerTellsLedger ==
    ASSUME IInv, NEW r \in Requests, AnswerReplay(r) \/ DispatchAndAnswer(r)
    PROVE  L!Answer(r)
<1> DEFINE slot == SlotOf(req[r].org, req[r].key, r)
<1>1. /\ req[r].stage \in {"dispatch", "replay"} /\ kicks' = kicks
      /\ Step(r, "done", req[r].scan)
  BY DEF AnswerReplay, DispatchAndAnswer, IInv, StageInv
<1>2. PICK k \in kicks : /\ k.scan = req[r].scan
                         /\ k.org = req[r].org
                         /\ k.key = req[r].key
                         /\ req[r].key = None => k.scan = r
  BY <1>1 DEF IInv, StageInv
<1>3. k.scan \in Requests /\ k.scan # None
  BY TokensDiffer DEF IInv, TypeOK, Kick
<1>4. slot \in Slots /\ slot # None
  BY SlotTyped DEF IInv
<1>5. k \in KicksOf(slot)
  BY <1>2 DEF KicksOf, SlotOf
<1>6. Asked[r] = slot
  BY <1>1 DEF Asked
<1> HIDE DEF slot
<1>7. Ledger[slot] = req[r].scan
  BY <1>2, <1>4, <1>5, LedgerAt
<1>8. /\ req'[r].stage = "done" /\ req'[r].scan = req[r].scan
      /\ req'[r].org = req[r].org /\ req'[r].key = req[r].key
      /\ \A q \in Requests \ {r} : req'[q] = req[q]
  BY <1>1, <1>2, <1>3, StepEffect DEF IInv, Stages
<1>9. Asked' = Asked
  BY <1>1, <1>8 DEF Asked
<1>10. Answers[r] = None
  BY <1>1 DEF Answers
<1>11. Answers' = [Answers EXCEPT ![r] = req[r].scan]
  BY <1>8 DEF Answers
<1>12. Ledger' = Ledger
  BY <1>1, LedgerUnchanged
<1>13. QED
  BY <1>2, <1>3, <1>4, <1>6, <1>7, <1>9, <1>10, <1>11, <1>12 DEF L!Answer

\* Every step of createScan is a ledger step or a stutter.
LEMMA NextLedger ==
    IInv /\ [Next]_vars => [L!Next]_<<Asked, Ledger, Answers>>
<1> SUFFICES ASSUME IInv, [Next]_vars
             PROVE  [L!Next]_<<Asked, Ledger, Answers>>
  OBVIOUS
<1>1. CASE UNCHANGED vars
  BY <1>1 DEF vars, Asked, Ledger, KicksOf, Answers
<1>2. ASSUME NEW r \in Requests,
             FindPrior(r) \/ FindNothing(r) \/ Conflict(r) \/ ReadWinner(r) \/ Fail(r)
      PROVE  UNCHANGED <<Asked, Ledger, Answers>>
  <2>1. /\ req[r].stage \in Open /\ kicks' = kicks
        /\ \E stage \in Open, s \in Requests \cup {None} : Step(r, stage, s)
    <3>1. \A k \in Matching(r) : k.scan \in Requests
      BY DEF Matching, IInv, TypeOK, Kick
    <3>2. QED
      BY <1>2, <3>1
      DEF FindPrior, FindNothing, Conflict, ReadWinner, Fail, Open
  <2>2. QED
    BY <2>1, QuietStutters
<1>3. ASSUME NEW r \in Requests, Begin(r) \/ Insert(r) \/ AnswerReplay(r) \/ DispatchAndAnswer(r)
      PROVE  L!Next
  BY <1>3, BeginAsks, InsertAccepts, AnswerTellsLedger DEF L!Next
<1>4. QED
  BY <1>1, <1>2, <1>3, RejectStutters DEF Next

\* createScan implements the ledger: for any number of concurrent calls, one
\* key is accepted as one scan for good and every answer is that scan.
THEOREM ImplementsLedgerHolds == Spec => ImplementsLedger
BY InitLedger, NextLedger, Invariance, PTL DEF Spec, ImplementsLedger, L!Spec

=============================================================================
