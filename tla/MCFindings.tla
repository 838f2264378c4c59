------------------------------ MODULE MCFindings ------------------------------
(* What findings-service and risk-service do to the rows of findings: the     *)
(* states that reports and users give them, and the SLA clock of one.  A      *)
(* behaviour is of one of the two; the other's variables are at rest in it.   *)
EXTENDS SlaClock, MCFindingBacklog

VARIABLE part   \* "rows" or "clock"

RowsAtRest ==
    /\ row = [f \in Prints |-> "none"] /\ report = <<>>
    /\ ingest = [r \in Reports |-> Waiting(0)]
    /\ touched = {} /\ mixed = FALSE
ClockAtRest ==
    /\ state = "resolved" /\ due = NoDue /\ notified = FALSE /\ pending = 0
    /\ eval = [d \in Durables |-> EvalOff] /\ hand = [s \in Sweepers |-> "idle"]
    /\ alerts = 0 /\ lost = FALSE

MCInit == \/ part = "rows" /\ BacklogInit /\ ClockAtRest
          \/ part = "clock" /\ Init /\ RowsAtRest
MCNext == /\ UNCHANGED part
          /\ \/ part = "rows" /\ BacklogNext /\ UNCHANGED vars
             \/ part = "clock" /\ Next /\ UNCHANGED backlogVars
MCSpec == MCInit /\ [][MCNext]_<<part, vars, backlogVars>> /\ Fairness
=============================================================================
