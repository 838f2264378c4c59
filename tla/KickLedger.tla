------------------------------ MODULE KickLedger ------------------------------
(***************************************************************************)
(* What createScan promises its callers about acceptance, without the      *)
(* database: a ledger that gives every slot (an org-scoped idempotency     *)
(* key, or a single request when it carries no key) one scan, for good,    *)
(* and answers every request of the slot with that scan.                   *)
(***************************************************************************)
CONSTANTS Requests, Slots, None

VARIABLES
    asked,    \* the slot each request asks for
    ledger,   \* the scan a slot was accepted as; scans are named after the
              \* request that created them
    answer    \* what each request was answered

Init ==
    /\ asked = [r \in Requests |-> None]
    /\ ledger = [k \in Slots |-> None]
    /\ answer = [r \in Requests |-> None]

\* A request names its slot.
Ask(r) ==
    /\ asked[r] = None
    /\ \E k \in Slots : asked' = [asked EXCEPT ![r] = k]
    /\ UNCHANGED <<ledger, answer>>

\* A request takes its slot, which is empty.
Accept(r) ==
    /\ asked[r] # None
    /\ ledger[asked[r]] = None
    /\ ledger' = [ledger EXCEPT ![asked[r]] = r]
    /\ UNCHANGED <<asked, answer>>

\* A request is told the scan of its slot.
Answer(r) ==
    /\ asked[r] # None
    /\ ledger[asked[r]] # None
    /\ answer[r] = None
    /\ answer' = [answer EXCEPT ![r] = ledger[asked[r]]]
    /\ UNCHANGED <<asked, ledger>>

Next == \E r \in Requests : Ask(r) \/ Accept(r) \/ Answer(r)

Spec == Init /\ [][Next]_<<asked, ledger, answer>>
=============================================================================
