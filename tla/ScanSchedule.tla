----------------------------- MODULE ScanSchedule -----------------------------
(***************************************************************************)
(* ScanScheduleService on top of the leader lease: the work of a granted   *)
(* tick sweeps every (org, scanner type), looks up the last scheduled scan *)
(* and creates a new one when the cadence has passed.  The lookup and the  *)
(* insert are separate transactions and the rows carry no key that could   *)
(* make a second insert collide: the lease alone keeps sweeps apart, and   *)
(* it cannot keep apart two ticks of one process, which both hold it.      *)
(***************************************************************************)
EXTENDS LeaderLease, FiniteSets

CONSTANTS
    Targets,   \* (org, scanner type) pairs
    Cadence,   \* DEFAULT_CADENCE_MS per target, in time units
    MaxTime,   \* bound on the clock
    MaxTicks   \* bound on the ticks under way in all processes together

ASSUME CadenceAssumption == Cadence \in [Targets -> Nat]
ASSUME MaxTimeAssumption == MaxTime \in Nat

VARIABLES
    now,       \* the clock
    scans,     \* scans rows with trigger 'scheduled' of each target, oldest first
    sweep      \* where each tick's sweep is

schedVars == <<now, scans, sweep>>
vars == <<leaseVars, schedVars>>

\* A row: when it was created, by which replica, and two facts of history: how
\* many rows the sweep saw when it found the target due, and whether its tick
\* had lost the lease since.
Scan == [at : 0..MaxTime, by : Replicas, saw : Nat, lapsed : BOOLEAN]

SweepState == [phase : {"none", "loop", "create"}, todo : SUBSET Targets, saw : Nat]
NoSweep == [phase |-> "none", todo |-> {}, saw |-> 0]

\* The type invariant.
TypeOK ==
    /\ LeaseTypeOK
    /\ now \in 0..MaxTime
    /\ scans \in [Targets -> Seq(Scan)]
    /\ sweep \in [Ticks -> [Replicas -> SweepState]]
    /\ \A k \in Ticks, r \in Replicas : sweep[k][r].phase = "create" => sweep[k][r].todo # {}

Init ==
    /\ LeaseInit
    /\ now = 0
    /\ scans = [t \in Targets |-> <<>>]
    /\ sweep = [k \in Ticks |-> [r \in Replicas |-> NoSweep]]

Working(k, r) == Alive(r) /\ call[k][r] = "work"

Sweep(k, r, phase, todo, saw) ==
    sweep' = [sweep EXCEPT ![k][r] = [phase |-> phase, todo |-> todo, saw |-> saw]]

\* for (const org of orgs) for (... of Object.entries(DEFAULT_CADENCE_MS)): the
\* sweep takes its targets one by one, in the order of the two lists.
First(todo) == CHOOSE t \in todo : TRUE
Turned(k, r) == First(sweep[k][r].todo)

\* The sweep goes on to its next target.
Skip(k, r) == Sweep(k, r, "loop", sweep[k][r].todo \ {Turned(k, r)}, 0)

\* now - last.createdAt < cadence, for the latest scheduled scan.
Fresh(t) ==
    /\ scans[t] # <<>>
    /\ now - scans[t][Len(scans[t])].at < Cadence[t]

\* tick() lists the orgs.
ListOrgs(k, r) ==
    /\ Working(k, r)
    /\ sweep[k][r].phase = "none"
    /\ Sweep(k, r, "loop", Targets, 0)
    /\ UNCHANGED <<leaseVars, now, scans>>

\* Mutant: every target is due.
ReadLastIgnored(k, r) ==
    /\ Working(k, r)
    /\ sweep[k][r].phase = "loop"
    /\ sweep[k][r].todo # {}
    /\ Sweep(k, r, "create", sweep[k][r].todo, Len(scans[Turned(k, r)]))
    /\ UNCHANGED <<leaseVars, now, scans>>

\* The lookup of the last scheduled scan: skip the target, or go on to create.
ReadLast(k, r) ==
    /\ Working(k, r)
    /\ sweep[k][r].phase = "loop"
    /\ sweep[k][r].todo # {}
    /\ IF Fresh(Turned(k, r))
         THEN Skip(k, r)
         ELSE Sweep(k, r, "create", sweep[k][r].todo, Len(scans[Turned(k, r)]))
    /\ UNCHANGED <<leaseVars, now, scans>>

\* dispatcher.createScan commits the scan; an error after that is swallowed.
CreateScheduled(k, r) ==
    /\ Working(k, r)
    /\ sweep[k][r].phase = "create"
    /\ scans' = [scans EXCEPT ![Turned(k, r)] =
                    Append(@, [at |-> now, by |-> r, saw |-> sweep[k][r].saw,
                               lapsed |-> <<k, r>> \in lapsed])]
    /\ Skip(k, r)
    /\ UNCHANGED <<leaseVars, now>>

\* createScan throws before its commit: logged, and the sweep goes on.
CreateThrows(k, r) ==
    /\ Working(k, r)
    /\ sweep[k][r].phase = "create"
    /\ Skip(k, r)
    /\ UNCHANGED <<leaseVars, now, scans>>

\* The sweep is over, or one of its reads throws, and runIfLeader returns.
EndSweep(k, r) ==
    /\ sweep[k][r].phase \in {"none", "loop"}
    /\ EndWork(k, r)
    /\ Sweep(k, r, "none", {}, 0)
    /\ UNCHANGED <<now, scans>>

\* Time passes for the lease and for the cadence alike.
ClockTicks ==
    /\ now < MaxTime
    /\ now' = now + 1
    /\ Elapse
    /\ UNCHANGED <<scans, sweep>>

UnderWay == {w \in Ticks \X Replicas : call[w[1]][w[2]] # "idle"}

Next ==
    \/ LeaseStep /\ Cardinality(UnderWay)' <= MaxTicks /\ UNCHANGED schedVars
    \/ ClockTicks
    \/ \E k \in Ticks, r \in Replicas :
          \/ ListOrgs(k, r) \/ ReadLast(k, r)
          \/ CreateScheduled(k, r) \/ CreateThrows(k, r)
          \/ EndSweep(k, r)

Spec == Init /\ [][Next]_vars

-----------------------------------------------------------------------------
(***************************************************************************)
(* Properties                                                              *)
(***************************************************************************)
\* Two sweeps may both find a target due only if they overlap and belong to one
\* process, or one of them had lost the lease.
Collided(s, t, i) == i > t.saw /\ (s.by = t.by \/ s.lapsed \/ t.lapsed)

\* createScan "emits scan.kick in the scan-insert transaction.  A second tick
\* inside this cadence sees the row above and does not emit again": scheduled
\* scans of one target are a cadence apart, whichever replicas created them,
\* unless the later sweep had looked before the earlier scan was there, and the
\* two sweeps ran in one process or without the lease.
Spaced ==
    \A t \in Targets : \A j \in 1..Len(scans[t]) : \A i \in 1..(j - 1) :
        \/ scans[t][j].at - scans[t][i].at >= Cadence[t]
        \/ Collided(scans[t][i], scans[t][j], i)
=============================================================================
