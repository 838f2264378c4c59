------------------------------ MODULE LeaderLease ------------------------------
(***************************************************************************)
(* LeaderLease of libs/coordination: replicas compete for one Redis key    *)
(* with SET NX PX, renew it from a timer, ask for it again at every        *)
(* scheduler tick (runIfLeader), and delete it on stop.  Neither interval  *)
(* waits for its previous call, so several renewals and several ticks of   *)
(* one process may be under way at once.  They share the flag held, which  *)
(* each of them reads before a Redis round trip and writes after it.       *)
(*                                                                         *)
(* A round trip is two steps, Exec at the store and Apply in the process,  *)
(* on one connection that keeps the order of a replica's commands.  Time   *)
(* advances in units of the renew interval (the code's TTL has three).  A  *)
(* replica is one process: after a restart it has another holderId.        *)
(***************************************************************************)
EXTENDS Naturals, Sequences

CONSTANTS
    Replicas,
    None,
    Timers,   \* the renewals one process may have under way at once
    Ticks,    \* the ticks one process may have under way at once
    TTL,      \* the TTL in renew intervals
    Faults    \* which of AllFaults may happen

AllFaults == {"stall",     \* a round trip or a due timer is late
              "down",      \* a store call throws, before or after its effect
              "die",       \* a process ends
              "stop"}      \* onModuleDestroy

ASSUME TTLAssumption == TTL \in Nat \ {0}
ASSUME FaultsAssumption == Faults \subseteq AllFaults
ASSUME NoneAssumption == None \notin Replicas
ASSUME CallersAssumption == Timers \cap Ticks = {} /\ "stop" \notin Timers \cup Ticks

VARIABLES
    holder,   \* value of the key, None when absent
    left,     \* remaining TTL, 0 when the key is absent
    status,   \* of each process
    held,     \* LeaderLease.held
    due,      \* the renew interval has elapsed and has not called tryHold yet
    call,     \* what each caller of the lease is awaiting
    wire,     \* the callers with a command under way, in the order sent
    lapsed    \* history: the ticks whose process lost the key under them

leaseVars == <<holder, left, status, held, due, call, wire, lapsed>>

Callers == Timers \cup Ticks \cup {"stop"}
Sent == {"renew", "set", "del"}
Answered == {"renewYes", "renewNo", "setYes", "setNo", "delDone"}
Phases == {"idle", "work"} \cup Sent \cup Answered

Alive(r) == status[r] # "gone"

\* From the store's yes to the end of the work the tick relies on the lease.
Engaged(k, r) == Alive(r) /\ call[k][r] \in {"renewYes", "setYes", "work"}

\* Only a tick works and only stop deletes.
Fits(c, phase) ==
    /\ phase = "work" => c \in Ticks
    /\ phase \in {"del", "delDone"} => c = "stop"
    /\ c = "stop" => phase \in {"idle", "del", "delDone"}

\* The type invariant: the key exists exactly while it has time left, and only a
\* tick that relies on the lease can have lapsed.
LeaseTypeOK ==
    /\ holder \in Replicas \cup {None}
    /\ left \in 0..TTL
    /\ (left = 0) <=> (holder = None)
    /\ status \in [Replicas -> {"new", "up", "stopping", "gone"}]
    /\ held \in [Replicas -> BOOLEAN]
    /\ due \in [Replicas -> BOOLEAN]
    /\ wire \in [Replicas -> Seq(Callers)]
    /\ call \in [Callers -> [Replicas -> Phases]]
    /\ \A c \in Callers, r \in Replicas : Fits(c, call[c][r])
    /\ lapsed \subseteq Ticks \X Replicas
    /\ \A k \in Ticks, r \in Replicas : <<k, r>> \in lapsed => Engaged(k, r)

LeaseInit ==
    /\ holder = None
    /\ left = 0
    /\ status = [r \in Replicas |-> "new"]
    /\ held = [r \in Replicas |-> FALSE]
    /\ due = [r \in Replicas |-> FALSE]
    /\ wire = [r \in Replicas |-> <<>>]
    /\ call = [c \in Callers |-> [r \in Replicas |-> "idle"]]
    /\ lapsed = {}

Goto(c, r, phase) == call' = [call EXCEPT ![c][r] = phase]

\* A command goes out behind the replica's earlier ones.
Send(c, r, cmd) ==
    /\ Goto(c, r, cmd)
    /\ wire' = [wire EXCEPT ![r] = Append(@, c)]

\* The store takes a replica's commands in the order sent.
Turn(c, r) ==
    \E i \in 1..Len(wire[r]) :
        /\ wire[r][i] = c
        /\ \A j \in 1..(i - 1) : call[wire[r][j]][r] \notin Sent

\* The next answer to resume is c's.
Resumes(c, r) == wire[r] # <<>> /\ Head(wire[r]) = c

\* r loses the key: every tick of r that relies on it has lapsed.
Lapse(r) == lapsed' = lapsed \cup {<<k, r>> : k \in {x \in Ticks : Engaged(x, r)}}

-----------------------------------------------------------------------------
\* tryHold up to its first await.
FirstCall(r) == IF held[r] THEN "renew" ELSE "set"

\* lease.start(): arms the interval and calls tryHold at once.
Start(r) ==
    /\ status[r] = "new"
    /\ status' = [status EXCEPT ![r] = "up"]
    /\ \E m \in Timers : Send(m, r, FirstCall(r))
    /\ UNCHANGED <<holder, left, held, due, lapsed>>

\* An interval fires: the lease's own renewal, or the scheduler's tick (at any
\* time), whose runIfLeader begins with tryHold.  Earlier calls of the same
\* interval may still be under way.
Fire(c, r) ==
    /\ status[r] = "up"
    /\ c \in Timers => due[r]
    /\ call[c][r] = "idle"
    /\ due' = [due EXCEPT ![r] = @ /\ c \notin Timers]
    /\ Send(c, r, FirstCall(r))
    /\ UNCHANGED <<holder, left, status, held, lapsed>>

\* expireIfValue at the store.
ExecRenew(c, r) ==
    /\ call[c][r] = "renew"
    /\ Turn(c, r)
    /\ Goto(c, r, IF holder = r THEN "renewYes" ELSE "renewNo")
    /\ left' = IF holder = r THEN TTL ELSE left
    /\ UNCHANGED <<holder, status, held, due, wire, lapsed>>

\* SET NX PX at the store.
ExecSet(c, r) ==
    /\ call[c][r] = "set"
    /\ Turn(c, r)
    /\ \/ /\ holder = None
          /\ holder' = r
          /\ left' = TTL
          /\ Goto(c, r, "setYes")
       \/ /\ holder # None
          /\ Goto(c, r, "setNo")
          /\ UNCHANGED <<holder, left>>
    /\ UNCHANGED <<status, held, due, wire, lapsed>>

\* Mutant: DEL whoever holds the key.
ExecDelAny(c, r) ==
    /\ call[c][r] = "del"
    /\ Turn(c, r)
    /\ holder' = None
    /\ left' = 0
    /\ Goto(c, r, "delDone")
    /\ IF holder = r THEN Lapse(r) ELSE UNCHANGED lapsed
    /\ UNCHANGED <<status, held, due, wire>>

\* delIfValue at the store.
ExecDel(c, r) ==
    /\ call[c][r] = "del"
    /\ Turn(c, r)
    /\ IF holder = r
         THEN holder' = None /\ left' = 0 /\ Lapse(r)
         ELSE UNCHANGED <<holder, left, lapsed>>
    /\ Goto(c, r, "delDone")
    /\ UNCHANGED <<status, held, due, wire>>

\* The caller is done, with or without the lease: a tick that holds it works.
Return(c, r, hold) ==
    /\ Goto(c, r, IF hold /\ c \in Ticks THEN "work" ELSE "idle")
    /\ wire' = [wire EXCEPT ![r] = Tail(@)]
    /\ lapsed' = IF hold THEN lapsed ELSE lapsed \ {<<c, r>>}

\* tryHold after the renewal: true, or on to the acquire.
ApplyRenew(c, r) ==
    /\ Alive(r)
    /\ Resumes(c, r)
    /\ \/ /\ call[c][r] = "renewYes"
          /\ Return(c, r, TRUE)
          /\ UNCHANGED held
       \/ /\ call[c][r] = "renewNo"
          /\ held' = [held EXCEPT ![r] = FALSE]
          /\ Goto(c, r, "set")
          /\ wire' = [wire EXCEPT ![r] = Append(Tail(@), c)]
          /\ UNCHANGED lapsed
    /\ UNCHANGED <<holder, left, status, due>>

\* Mutant: a refused tryHold runs the work all the same.
ApplySetAnyway(c, r) ==
    /\ Alive(r)
    /\ Resumes(c, r)
    /\ call[c][r] \in {"setYes", "setNo"}
    /\ held' = [held EXCEPT ![r] = call[c][r] = "setYes"]
    /\ Return(c, r, TRUE)
    /\ UNCHANGED <<holder, left, status, due>>

\* tryHold after the acquire.
ApplySet(c, r) ==
    /\ Alive(r)
    /\ Resumes(c, r)
    /\ call[c][r] \in {"setYes", "setNo"}
    /\ held' = [held EXCEPT ![r] = call[c][r] = "setYes"]
    /\ Return(c, r, call[c][r] = "setYes")
    /\ UNCHANGED <<holder, left, status, due>>

\* release has cleared held already and ignores the answer to its delete.
ApplyDel(c, r) ==
    /\ Alive(r)
    /\ Resumes(c, r)
    /\ call[c][r] = "delDone"
    /\ Return(c, r, FALSE)
    /\ UNCHANGED <<holder, left, status, held, due>>

\* The store is unreachable, or an answer is lost that would have made a
\* difference; the catch blocks: not the leader.
Throw(c, r) ==
    /\ "down" \in Faults
    /\ Alive(r)
    /\ Resumes(c, r)
    /\ call[c][r] \in Sent \cup {"renewYes", "renewNo", "setYes"}
    /\ call[c][r] = "renewYes" => held[r] \/ c \in Ticks
    /\ held' = [held EXCEPT ![r] = @ /\ c = "stop"]
    /\ Return(c, r, FALSE)
    /\ UNCHANGED <<holder, left, status, due>>

\* runIfLeader returns.
EndWork(k, r) ==
    /\ Alive(r)
    /\ call[k][r] = "work"
    /\ Goto(k, r, "idle")
    /\ lapsed' = lapsed \ {<<k, r>>}
    /\ UNCHANGED <<holder, left, status, held, due, wire>>

\* onModuleDestroy: the intervals are cleared and the lease is released; a
\* tryHold or a tick that is under way is not waited for.
Stop(r) ==
    /\ "stop" \in Faults
    /\ status[r] = "up"
    /\ status' = [status EXCEPT ![r] = "stopping"]
    /\ due' = [due EXCEPT ![r] = FALSE]
    /\ held' = [held EXCEPT ![r] = FALSE]
    /\ IF held[r] THEN Send("stop", r, "del") ELSE UNCHANGED <<call, wire>>
    /\ UNCHANGED <<holder, left, lapsed>>

\* The process ends and its memory is gone.  What it sent to the store may still
\* arrive there.
Die(r) ==
    /\ status[r] = "stopping" \/ ("die" \in Faults /\ status[r] = "up")
    /\ status' = [status EXCEPT ![r] = "gone"]
    /\ due' = [due EXCEPT ![r] = FALSE]
    /\ held' = [held EXCEPT ![r] = FALSE]
    /\ call' = [c \in Callers |-> [call[c] EXCEPT ![r] = IF @ \in Sent THEN @ ELSE "idle"]]
    /\ lapsed' = lapsed \ (Ticks \X {r})
    /\ UNCHANGED <<holder, left, wire>>

InFlight(r) ==
    \E c \in Callers : call[c][r] \in Sent \/ (Alive(r) /\ call[c][r] \in Answered)

\* No timer and no round trip is late.
OnTime == \A r \in Replicas : ~due[r] /\ ~InFlight(r)

\* A unit of time passes when no round trip is late, or late ones are allowed.
\* A tick's work may take any time.
MayElapse == "stall" \in Faults \/ OnTime

\* Mutant: the key has no TTL.
ElapseNoExpiry ==
    /\ MayElapse
    /\ due' = [r \in Replicas |-> status[r] = "up"]
    /\ UNCHANGED <<holder, left, status, held, call, wire, lapsed>>

\* A renew interval goes by; the store drops the key at the end of its TTL.
Elapse ==
    /\ MayElapse
    /\ left' = IF left = 0 THEN 0 ELSE left - 1
    /\ holder' = IF left <= 1 THEN None ELSE holder
    /\ IF left = 1 THEN Lapse(holder) ELSE UNCHANGED lapsed
    /\ due' = [r \in Replicas |-> status[r] = "up"]
    /\ UNCHANGED <<status, held, call, wire>>

Exec(c, r) == ExecRenew(c, r) \/ ExecSet(c, r) \/ ExecDel(c, r)
Apply(c, r) == ApplyRenew(c, r) \/ ApplySet(c, r) \/ ApplyDel(c, r)

\* Every step of the lease but the end of the work, which belongs to the user.
LeaseStep ==
    \/ \E r \in Replicas : Start(r) \/ Stop(r) \/ Die(r)
    \/ \E c \in Timers \cup Ticks, r \in Replicas : Fire(c, r)
    \/ \E c \in Callers, r \in Replicas : Exec(c, r) \/ Throw(c, r) \/ Apply(c, r)

LeaseNext ==
    \/ LeaseStep
    \/ Elapse
    \/ \E k \in Ticks, r \in Replicas : EndWork(k, r)

LeaseSpec == LeaseInit /\ [][LeaseNext]_leaseVars

\* Intervals fire, Redis answers, promises resume and time passes.  Commands
\* and answers of a replica keep their order, so one of its callers is next.
LeaseFairness ==
    /\ WF_leaseVars(Elapse)
    /\ \A r \in Replicas :
          /\ WF_leaseVars(\E m \in Timers : Fire(m, r))
          /\ WF_leaseVars(\E c \in Callers : Exec(c, r))
          /\ WF_leaseVars(\/ \E k \in Ticks : EndWork(k, r)
                          \/ \E c \in Callers : Apply(c, r))

LiveLeaseSpec == LeaseSpec /\ LeaseFairness

-----------------------------------------------------------------------------
(***************************************************************************)
(* Properties                                                              *)
(***************************************************************************)
\* runIfLeader: "Run `work` only while this replica holds the lease."  A
\* working tick's replica owns the key, or has lost it to its own TTL or its
\* own stop since the store said yes, whatever late answers, store errors,
\* crashes, other replicas and the other callers of tryHold do.  A tick that
\* has lapsed works on: runIfLeader asks once.
WorkOnlyWhileHolding ==
    \A k \in Ticks, r \in Replicas :
        Alive(r) /\ call[k][r] = "work" => holder = r \/ <<k, r>> \in lapsed

\* A key changes hands only through its own TTL or its owner's delete: a late
\* release or renewal of a past leader never touches its successor's lease.
NoTheft ==
    [][holder # None /\ holder' # holder
         => /\ holder' = None
            /\ left = 1 \/ call["stop"][holder] = "del"]_leaseVars

\* A replica leads when it knows that it holds the key.
Leads(r) == status[r] = "up" /\ held[r] /\ holder = r

\* A step in which neither the store nor the scheduling fails.
Calm ==
    /\ \A c \in Callers, r \in Replicas : ~Throw(c, r)
    /\ OnTime \/ ~Elapse

\* Once the store and the timers have stopped failing, leadership comes back
\* as long as some replica stays up, whatever lost answers, expired keys,
\* crashes, stops and the two callers of one process left behind.
LeadershipReturns ==
    <>[][Calm]_leaseVars /\ <>[](\E r \in Replicas : status[r] = "up")
        => []<>(\E q \in Replicas : Leads(q))
=============================================================================
