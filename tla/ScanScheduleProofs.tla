-------------------------- MODULE ScanScheduleProofs --------------------------
(***************************************************************************)
(* The lease, and the schedule on top of it, for any replicas, targets,    *)
(* TTL and cadences, any number of overlapping renewals and ticks of one   *)
(* process and every fault: types, no theft of a lease, work only with the *)
(* lease or after losing it under way, and scheduled scans a cadence apart *)
(* unless two sweeps collide.                                              *)
(***************************************************************************)
EXTENDS ScanSchedule, TLAPS

(***************************************************************************)
(* LeaderLease                                                             *)
(***************************************************************************)
\* A tick that relies on the lease owns the key or has lost it under way.
FitInv ==
    \A k \in Ticks, r \in Replicas :
        Engaged(k, r) => holder = r \/ <<k, r>> \in lapsed

\* The callers are what their names say.
LEMMA CallerKinds ==
    /\ \A m \in Timers : m \in Callers /\ m \notin Ticks /\ m # "stop"
    /\ \A k \in Ticks : k \in Callers /\ k \notin Timers /\ k # "stop"
    /\ "stop" \in Callers
BY CallersAssumption DEF Callers

\* Goto moves one caller of one replica.
LEMMA GotoEffect ==
    ASSUME LeaseTypeOK, NEW c \in Callers, NEW r \in Replicas,
           NEW phase \in Phases, Goto(c, r, phase)
    PROVE  /\ call' \in [Callers -> [Replicas -> Phases]]
           /\ call'[c][r] = phase
           /\ \A d \in Callers, q \in Replicas :
                 d # c \/ q # r => call'[d][q] = call[d][q]
BY DEF Goto, LeaseTypeOK

\* Nothing is started.
LEMMA InitTypes == LeaseInit => LeaseTypeOK /\ FitInv
BY TTLAssumption, NoneAssumption
DEF LeaseInit, LeaseTypeOK, Fits, FitInv, Engaged, Alive, Callers, Phases

\* The part of the types that a caller's move can disturb.
CallsOK ==
    /\ call \in [Callers -> [Replicas -> Phases]]
    /\ \A c \in Callers, r \in Replicas : Fits(c, call[c][r])
    /\ lapsed \subseteq Ticks \X Replicas
    /\ \A k \in Ticks, r \in Replicas : <<k, r>> \in lapsed => Engaged(k, r)

\* The rest of it.
StoreOK ==
    /\ holder \in Replicas \cup {None}
    /\ left \in 0..TTL
    /\ (left = 0) <=> (holder = None)
    /\ status \in [Replicas -> {"new", "up", "stopping", "gone"}]
    /\ held \in [Replicas -> BOOLEAN]
    /\ due \in [Replicas -> BOOLEAN]
    /\ wire \in [Replicas -> Seq(Callers)]

LEMMA TwoParts ==
    /\ LeaseTypeOK <=> StoreOK /\ CallsOK
    /\ LeaseTypeOK' <=> StoreOK' /\ CallsOK'
BY DEF LeaseTypeOK, StoreOK, CallsOK

\* A caller's move keeps the callers' types when the new phase fits the caller
\* and no tick is marked that does not rely on the lease.
LEMMA GotoTypes ==
    ASSUME LeaseTypeOK, NEW c \in Callers, NEW r \in Replicas,
           NEW phase \in Phases, Goto(c, r, phase), Fits(c, phase),
           \A q \in Replicas : status[q] # "gone" => status'[q] # "gone",
           lapsed' \subseteq lapsed,
           <<c, r>> \in lapsed' => phase \in {"renewYes", "setYes", "work"}
    PROVE  CallsOK'
<1>1. /\ call' \in [Callers -> [Replicas -> Phases]]
      /\ call'[c][r] = phase
      /\ \A d \in Callers, q \in Replicas :
            d # c \/ q # r => call'[d][q] = call[d][q]
  BY GotoEffect
<1>2. \A d \in Callers, q \in Replicas : Fits(d, call'[d][q])
  BY <1>1 DEF LeaseTypeOK
<1>3. lapsed' \subseteq Ticks \X Replicas
  BY DEF LeaseTypeOK
<1>4. ASSUME NEW k \in Ticks, NEW q \in Replicas, <<k, q>> \in lapsed'
      PROVE  Engaged(k, q)'
  <2>1. Engaged(k, q) /\ k \in Callers
    BY <1>4, CallerKinds DEF LeaseTypeOK
  <2>2. status'[q] # "gone"
    BY <2>1 DEF Engaged, Alive
  <2>3. CASE k = c /\ q = r
    BY <1>1, <1>4, <2>2, <2>3 DEF Engaged, Alive
  <2>4. CASE k # c \/ q # r
    BY <1>1, <2>1, <2>2, <2>4 DEF Engaged, Alive
  <2>5. QED
    BY <2>3, <2>4
<1>5. QED
  BY <1>1, <1>2, <1>3, <1>4 DEF CallsOK

\* Only a tick's phase past the store's yes carries a mark.
LEMMA Unmarked ==
    ASSUME LeaseTypeOK, NEW c \in Callers, NEW r \in Replicas,
           call[c][r] \notin {"renewYes", "setYes", "work"} \/ c \notin Ticks
    PROVE  <<c, r>> \notin lapsed
BY DEF LeaseTypeOK, Engaged

\* The queue of commands after a command is sent or an answer taken.
LEMMA SendTypes ==
    ASSUME LeaseTypeOK, NEW c \in Callers, NEW r \in Replicas
    PROVE  /\ Append(wire[r], c) \in Seq(Callers)
           /\ Resumes(c, r) => /\ Tail(wire[r]) \in Seq(Callers)
                               /\ Append(Tail(wire[r]), c) \in Seq(Callers)
BY DEF LeaseTypeOK, Resumes

\* A process that dies keeps at most what it has sent.
LEMMA DyingCalls ==
    ASSUME LeaseTypeOK, NEW r \in Replicas, Die(r)
    PROVE  /\ call' \in [Callers -> [Replicas -> Phases]]
           /\ \A c \in Callers, q \in Replicas :
                 /\ call'[c][q] = call[c][q] \/ call'[c][q] = "idle"
                 /\ q # r => call'[c][q] = call[c][q]
<1>1. \A c \in Callers :
        call'[c] = [call[c] EXCEPT ![r] = IF @ \in Sent THEN @ ELSE "idle"]
  BY DEF Die
<1>2. DOMAIN call' = Callers /\ call' = [c \in Callers |-> call'[c]]
  BY DEF Die
<1>3. "idle" \in Phases /\ \A c \in Callers : call[c] \in [Replicas -> Phases]
  BY DEF Phases, LeaseTypeOK
<1>4. ASSUME NEW c \in Callers
      PROVE  call'[c] \in [Replicas -> Phases]
  <2>1. PICK p \in Phases : call'[c] = [call[c] EXCEPT ![r] = p]
    BY <1>1, <1>3
  <2>2. QED
    BY <1>3, <2>1
<1>5. QED
  BY <1>1, <1>2, <1>3, <1>4

\* A step of time, or a delete, that takes the key from its owner marks only
\* ticks that rely on it.
LEMMA LapseTypes ==
    ASSUME LeaseTypeOK, NEW r \in Replicas, Lapse(r)
    PROVE  /\ lapsed' \subseteq Ticks \X Replicas
           /\ \A k \in Ticks, q \in Replicas :
                 <<k, q>> \in lapsed' <=> <<k, q>> \in lapsed \/ (q = r /\ Engaged(k, q))
BY DEF LeaseTypeOK, Lapse

\* Every step keeps the types.
LEMMA StepTypes == LeaseTypeOK /\ [LeaseNext]_leaseVars => LeaseTypeOK'
<1> SUFFICES ASSUME LeaseTypeOK, [LeaseNext]_leaseVars
             PROVE  StoreOK' /\ CallsOK'
  BY TwoParts
<1> USE TTLAssumption, NoneAssumption
<1>1. CASE UNCHANGED leaseVars
  BY <1>1 DEF leaseVars, LeaseTypeOK, StoreOK, CallsOK, Engaged, Alive
<1>2. ASSUME NEW m \in Timers, NEW r \in Replicas, Start(r), Send(m, r, FirstCall(r))
      PROVE  StoreOK' /\ CallsOK'
  <2>1. FirstCall(r) \in Phases /\ Fits(m, FirstCall(r)) /\ m \in Callers /\ m \notin Ticks
    BY CallerKinds DEF FirstCall, Phases, Sent, Fits
  <2>2. /\ status' = [status EXCEPT ![r] = "up"]
        /\ Goto(m, r, FirstCall(r))
        /\ wire' = [wire EXCEPT ![r] = Append(@, m)]
        /\ UNCHANGED <<holder, left, held, due, lapsed>>
    BY <1>2 DEF Start, Send
  <2>3. CallsOK'
    BY <2>1, <2>2, GotoTypes, Unmarked DEF LeaseTypeOK
  <2>4. wire' \in [Replicas -> Seq(Callers)]
    BY <2>1, <2>2, SendTypes DEF LeaseTypeOK
  <2>5. QED
    BY <2>2, <2>3, <2>4 DEF LeaseTypeOK, StoreOK
<1>3. ASSUME NEW c \in Timers \cup Ticks, NEW r \in Replicas, Fire(c, r)
      PROVE  StoreOK' /\ CallsOK'
  <2>1. FirstCall(r) \in Phases /\ Fits(c, FirstCall(r)) /\ c \in Callers
    BY CallerKinds DEF FirstCall, Phases, Sent, Fits
  <2>2. /\ due' = [due EXCEPT ![r] = @ /\ c \notin Timers]
        /\ Goto(c, r, FirstCall(r)) /\ call[c][r] = "idle"
        /\ wire' = [wire EXCEPT ![r] = Append(@, c)]
        /\ UNCHANGED <<holder, left, status, held, lapsed>>
    BY <1>3 DEF Fire, Send
  <2>3. CallsOK'
    BY <2>1, <2>2, GotoTypes, Unmarked
  <2>4. wire' \in [Replicas -> Seq(Callers)]
    BY <2>1, <2>2, SendTypes DEF LeaseTypeOK
  <2>5. due' \in [Replicas -> BOOLEAN]
    BY <2>2 DEF LeaseTypeOK
  <2>6. QED
    BY <2>2, <2>3, <2>4, <2>5 DEF LeaseTypeOK, StoreOK
<1>4. ASSUME NEW c \in Callers, NEW r \in Replicas, ExecRenew(c, r) \/ ExecSet(c, r)
      PROVE  StoreOK' /\ CallsOK'
  <2>1. PICK phase \in Phases : Goto(c, r, phase) /\ Fits(c, phase)
    <3>1. CASE ExecRenew(c, r)
      BY <3>1 DEF ExecRenew, LeaseTypeOK, Fits, Phases, Answered
    <3>2. CASE ExecSet(c, r)
      BY <3>2 DEF ExecSet, LeaseTypeOK, Fits, Phases, Answered
    <3>3. QED
      BY <1>4, <3>1, <3>2
  <2>2. UNCHANGED <<status, held, due, wire, lapsed>> /\ call[c][r] \in {"renew", "set"}
    BY <1>4 DEF ExecRenew, ExecSet
  <2>3. CallsOK'
    BY <2>1, <2>2, GotoTypes, Unmarked
  <2>4. /\ holder' \in Replicas \cup {None}
        /\ left' \in 0..TTL
        /\ (left' = 0) <=> (holder' = None)
    BY <1>4 DEF ExecRenew, ExecSet, LeaseTypeOK
  <2>5. QED
    BY <2>2, <2>3, <2>4 DEF LeaseTypeOK, StoreOK
<1>5. ASSUME NEW c \in Callers, NEW r \in Replicas, ExecDel(c, r)
      PROVE  StoreOK' /\ CallsOK'
  <2>1. /\ "delDone" \in Phases /\ Goto(c, r, "delDone") /\ c = "stop" /\ c \notin Ticks
        /\ Fits(c, "delDone")
        /\ UNCHANGED <<status, held, due, wire>>
    BY <1>5, CallerKinds DEF ExecDel, LeaseTypeOK, Fits, Phases, Answered
  <2>2. /\ call' \in [Callers -> [Replicas -> Phases]]
        /\ \A d \in Callers, q \in Replicas : d # c \/ q # r => call'[d][q] = call[d][q]
        /\ call'[c][r] = "delDone"
    BY <2>1, GotoEffect
  <2>3. \A d \in Callers, q \in Replicas : Fits(d, call'[d][q])
    BY <2>1, <2>2 DEF LeaseTypeOK
  <2>4. \A k \in Ticks, q \in Replicas : Engaged(k, q)' <=> Engaged(k, q)
    BY <2>1, <2>2, CallerKinds DEF Engaged, Alive
  <2>5. /\ lapsed' \subseteq Ticks \X Replicas
        /\ \A k \in Ticks, q \in Replicas : <<k, q>> \in lapsed' => Engaged(k, q)
    BY <1>5, LapseTypes DEF ExecDel, LeaseTypeOK
  <2>6. /\ holder' \in Replicas \cup {None}
        /\ left' \in 0..TTL
        /\ (left' = 0) <=> (holder' = None)
    BY <1>5 DEF ExecDel, LeaseTypeOK
  <2>7. QED
    BY <2>1, <2>2, <2>3, <2>4, <2>5, <2>6 DEF LeaseTypeOK, StoreOK, CallsOK
<1>6. ASSUME NEW c \in Callers, NEW r \in Replicas, Apply(c, r) \/ Throw(c, r)
      PROVE  StoreOK' /\ CallsOK'
  <2>1. PICK phase \in Phases :
          /\ Goto(c, r, phase) /\ Fits(c, phase)
          /\ lapsed' \subseteq lapsed
          /\ <<c, r>> \in lapsed' => phase \in {"renewYes", "setYes", "work"}
    <3>1. CASE ApplyRenew(c, r)
      <4>1. CASE call[c][r] = "renewYes"
        BY <3>1, <4>1, Unmarked
        DEF ApplyRenew, Return, LeaseTypeOK, Fits, Phases, Sent
      <4>2. CASE call[c][r] = "renewNo"
        BY <3>1, <4>2, Unmarked
        DEF ApplyRenew, Return, LeaseTypeOK, Fits, Phases, Sent
      <4>3. QED
        BY <3>1, <4>1, <4>2 DEF ApplyRenew
    <3>2. CASE ApplySet(c, r)
      <4>1. CASE call[c][r] = "setYes"
        BY <3>2, <4>1, Unmarked DEF ApplySet, Return, LeaseTypeOK, Fits, Phases
      <4>2. CASE call[c][r] = "setNo"
        BY <3>2, <4>2, Unmarked DEF ApplySet, Return, LeaseTypeOK, Fits, Phases
      <4>3. QED
        BY <3>2, <4>1, <4>2 DEF ApplySet
    <3>3. CASE ApplyDel(c, r)
      BY <3>3 DEF ApplyDel, Return, LeaseTypeOK, Fits, Phases
    <3>4. CASE Throw(c, r)
      BY <3>4 DEF Throw, Return, LeaseTypeOK, Fits, Phases
    <3>5. QED
      BY <1>6, <3>1, <3>2, <3>3, <3>4 DEF Apply
  <2>2. UNCHANGED <<holder, left, status, due>>
    BY <1>6 DEF Apply, ApplyRenew, ApplySet, ApplyDel, Throw
  <2>3. CallsOK'
    BY <2>1, <2>2, GotoTypes
  <2>4. \E w \in Seq(Callers) : wire' = [wire EXCEPT ![r] = w]
    BY <1>6, SendTypes DEF Apply, ApplyRenew, ApplySet, ApplyDel, Throw, Return
  <2>5. wire' \in [Replicas -> Seq(Callers)]
    BY <2>4 DEF LeaseTypeOK
  <2>6. \/ held' = held
        \/ \E b \in BOOLEAN : held' = [held EXCEPT ![r] = b]
    <3>1. CASE ApplyRenew(c, r)
      BY <3>1 DEF ApplyRenew
    <3>2. CASE ApplySet(c, r)
      BY <3>2 DEF ApplySet
    <3>3. CASE ApplyDel(c, r)
      BY <3>3 DEF ApplyDel
    <3>4. CASE Throw(c, r)
      <4>1. held' = [held EXCEPT ![r] = held[r] /\ c = "stop"]
        BY <3>4 DEF Throw
      <4>2. (held[r] /\ c = "stop") \in BOOLEAN
        OBVIOUS
      <4>3. QED
        BY <4>1, <4>2
    <3>5. QED
      BY <1>6, <3>1, <3>2, <3>3, <3>4 DEF Apply
  <2>7. held' \in [Replicas -> BOOLEAN]
    BY <2>6 DEF LeaseTypeOK
  <2>8. QED
    BY <2>2, <2>3, <2>5, <2>7 DEF LeaseTypeOK, StoreOK
<1>7. ASSUME NEW k \in Ticks, NEW r \in Replicas, EndWork(k, r)
      PROVE  StoreOK' /\ CallsOK'
  <2>1. /\ "idle" \in Phases /\ Fits(k, "idle") /\ k \in Callers
        /\ Goto(k, r, "idle") /\ lapsed' = lapsed \ {<<k, r>>}
        /\ UNCHANGED <<holder, left, status, held, due, wire>>
    BY <1>7, CallerKinds DEF EndWork, Phases, Fits
  <2>2. CallsOK'
    BY <2>1, GotoTypes
  <2>3. QED
    BY <2>1, <2>2 DEF LeaseTypeOK, StoreOK
<1>8. ASSUME NEW r \in Replicas, Stop(r)
      PROVE  StoreOK' /\ CallsOK'
  <2>1. "del" \in Phases /\ Fits("stop", "del") /\ "stop" \in Callers /\ "stop" \notin Ticks
    BY CallerKinds DEF Phases, Sent, Fits
  <2>2. /\ status' = [status EXCEPT ![r] = "stopping"]
        /\ due' \in [Replicas -> BOOLEAN]
        /\ held' \in [Replicas -> BOOLEAN]
        /\ UNCHANGED <<holder, left, lapsed>>
    BY <1>8 DEF Stop, LeaseTypeOK
  <2>3. \/ UNCHANGED <<call, wire>>
        \/ Goto("stop", r, "del") /\ wire' = [wire EXCEPT ![r] = Append(@, "stop")]
    BY <1>8 DEF Stop, Send
  <2>4. \A q \in Replicas : status[q] # "gone" => status'[q] # "gone"
    BY <2>2 DEF LeaseTypeOK
  <2>5. CallsOK'
    <3>1. CASE UNCHANGED call
      BY <2>2, <2>4, <3>1 DEF LeaseTypeOK, CallsOK, Engaged, Alive
    <3>2. CASE Goto("stop", r, "del")
      BY <2>1, <2>2, <2>4, <3>2, GotoTypes, Unmarked
    <3>3. QED
      BY <2>3, <3>1, <3>2
  <2>6. wire' \in [Replicas -> Seq(Callers)]
    <3>1. Append(wire[r], "stop") \in Seq(Callers)
      BY <2>1, SendTypes
    <3>2. QED
      BY <2>3, <3>1 DEF LeaseTypeOK
  <2>7. QED
    BY <2>2, <2>5, <2>6 DEF LeaseTypeOK, StoreOK
<1>9. ASSUME NEW r \in Replicas, Die(r)
      PROVE  StoreOK' /\ CallsOK'
  <2>1. /\ status' = [status EXCEPT ![r] = "gone"]
        /\ due' \in [Replicas -> BOOLEAN]
        /\ held' \in [Replicas -> BOOLEAN]
        /\ lapsed' = lapsed \ (Ticks \X {r})
        /\ UNCHANGED <<holder, left, wire>>
    BY <1>9 DEF Die, LeaseTypeOK
  <2>2. /\ call' \in [Callers -> [Replicas -> Phases]]
        /\ \A c \in Callers, q \in Replicas :
              /\ call'[c][q] = call[c][q] \/ call'[c][q] = "idle"
              /\ q # r => call'[c][q] = call[c][q]
    BY <1>9, DyingCalls
  <2>3. \A c \in Callers, q \in Replicas : Fits(c, call'[c][q])
    BY <2>2 DEF LeaseTypeOK, Fits
  <2>4. ASSUME NEW k \in Ticks, NEW q \in Replicas, <<k, q>> \in lapsed'
        PROVE  Engaged(k, q)'
    <3>1. q # r /\ Engaged(k, q) /\ k \in Callers
      BY <2>1, <2>4, CallerKinds DEF LeaseTypeOK
    <3>2. QED
      BY <2>1, <2>2, <3>1 DEF Engaged, Alive, LeaseTypeOK
  <2>5. lapsed' \subseteq Ticks \X Replicas
    BY <2>1 DEF LeaseTypeOK
  <2>6. QED
    BY <2>1, <2>2, <2>3, <2>4, <2>5 DEF LeaseTypeOK, StoreOK, CallsOK
<1>10. CASE Elapse
  <2>1. /\ due' \in [Replicas -> BOOLEAN]
        /\ UNCHANGED <<status, held, call, wire>>
    BY <1>10 DEF Elapse, LeaseTypeOK
  <2>2. /\ holder' \in Replicas \cup {None}
        /\ left' \in 0..TTL
        /\ (left' = 0) <=> (holder' = None)
    BY <1>10 DEF Elapse, LeaseTypeOK
  <2>3. \A k \in Ticks, q \in Replicas : Engaged(k, q)' <=> Engaged(k, q)
    BY <2>1 DEF Engaged, Alive
  <2>4. /\ lapsed' \subseteq Ticks \X Replicas
        /\ \A k \in Ticks, q \in Replicas : <<k, q>> \in lapsed' => Engaged(k, q)
    <3>1. CASE left = 1
      <4>1. holder \in Replicas /\ Lapse(holder)
        BY <1>10, <3>1 DEF Elapse, LeaseTypeOK
      <4>2. QED
        BY <4>1, LapseTypes DEF LeaseTypeOK
    <3>2. CASE left # 1
      BY <1>10, <3>2 DEF Elapse, LeaseTypeOK
    <3>3. QED
      BY <3>1, <3>2
  <2>5. QED
    BY <2>1, <2>2, <2>3, <2>4 DEF LeaseTypeOK, StoreOK, CallsOK
<1>11. QED
  BY <1>1, <1>2, <1>3, <1>4, <1>5, <1>6, <1>7, <1>8, <1>9, <1>10
  DEF LeaseNext, LeaseStep, Exec, Start

\* Types hold in every reachable state.
THEOREM LeaseTypes == LeaseSpec => []LeaseTypeOK
BY InitTypes, StepTypes, PTL DEF LeaseSpec

\* A key changes hands only through its TTL or its owner's delete, for any
\* number of replicas and under every fault.
THEOREM NoTheftHolds == LeaseSpec => NoTheft
<1>1. ASSUME LeaseTypeOK, [LeaseNext]_leaseVars, holder # None, holder' # holder
      PROVE  holder' = None /\ (left = 1 \/ call["stop"][holder] = "del")
  <2> USE <1>1
  <2>1. ASSUME NEW c \in Callers, NEW r \in Replicas, ExecDel(c, r)
        PROVE  holder' = None /\ call["stop"][holder] = "del"
    <3>1. c = "stop"
      BY <2>1 DEF ExecDel, LeaseTypeOK, Fits
    <3>2. QED
      BY <2>1, <3>1 DEF ExecDel
  <2>2. CASE Elapse
    BY <2>2 DEF Elapse, LeaseTypeOK
  <2>3. ASSUME NEW c \in Callers, NEW r \in Replicas,
               ExecRenew(c, r) \/ ExecSet(c, r) \/ Throw(c, r) \/ Apply(c, r)
        PROVE  FALSE
    BY <2>3 DEF ExecRenew, ExecSet, Throw, Apply, ApplyRenew, ApplySet, ApplyDel
  <2>4. ASSUME NEW r \in Replicas, Start(r) \/ Stop(r) \/ Die(r) \/ \E k \in Ticks : EndWork(k, r)
        PROVE  FALSE
    BY <2>4 DEF Start, Stop, Die, EndWork
  <2>5. ASSUME NEW c \in Timers \cup Ticks, NEW r \in Replicas, Fire(c, r)
        PROVE  FALSE
    BY <2>5 DEF Fire
  <2>6. QED
    BY <2>1, <2>2, <2>3, <2>4, <2>5 DEF LeaseNext, LeaseStep, Exec, leaseVars
<1>2. LeaseTypeOK /\ [LeaseNext]_leaseVars
        => [holder # None /\ holder' # holder
              => /\ holder' = None
                 /\ left = 1 \/ call["stop"][holder] = "del"]_leaseVars
  BY <1>1
<1>3. QED
  BY <1>2, LeaseTypes, PTL DEF LeaseSpec, NoTheft

\* What a caller's move does to another caller: nothing.
LEMMA TickFrame ==
    ASSUME LeaseTypeOK, NEW c \in Callers, NEW r \in Replicas, NEW phase \in Phases,
           Goto(c, r, phase), NEW k \in Ticks, NEW q \in Replicas, c # k \/ q # r
    PROVE  call'[k][q] = call[k][q]
BY CallerKinds, GotoEffect

\* A move to a phase that does not rely on the lease, with the key where it was
\* or lost by its owner with all its ticks marked.
LEMMA FitsOn ==
    ASSUME LeaseTypeOK, FitInv, NEW c \in Callers, NEW r \in Replicas,
           NEW phase \in Phases, Goto(c, r, phase),
           \A q \in Replicas : status'[q] # "gone" => status[q] # "gone",
           \A q \in Replicas : holder = q => holder' = q,
           phase \in {"renewYes", "setYes", "work"} /\ c \in Ticks /\ status'[r] # "gone"
              => holder' = r \/ <<c, r>> \in lapsed',
           lapsed \ {<<c, r>>} \subseteq lapsed'
    PROVE  FitInv'
<1> SUFFICES ASSUME NEW k \in Ticks, NEW q \in Replicas, Engaged(k, q)'
             PROVE  holder' = q \/ <<k, q>> \in lapsed'
  BY DEF FitInv
<1>1. status'[q] # "gone" /\ call'[k][q] \in {"renewYes", "setYes", "work"} /\ status[q] # "gone"
  BY DEF Engaged, Alive
<1>2. CASE k = c /\ q = r
  BY <1>1, <1>2, GotoEffect
<1>3. CASE c # k \/ q # r
  <2>1. Engaged(k, q)
    BY <1>1, <1>3, TickFrame DEF Engaged, Alive
  <2>2. holder = q \/ <<k, q>> \in lapsed
    BY <2>1 DEF FitInv
  <2>3. QED
    BY <1>3, <2>2
<1>4. QED
  BY <1>2, <1>3

\* Every step of the lease keeps FitInv.
LEMMA StepFit ==
    ASSUME LeaseTypeOK, FitInv,
           LeaseStep \/ Elapse \/ \E k \in Ticks, r \in Replicas : EndWork(k, r)
    PROVE  FitInv'
<1>0. holder # None => holder \in Replicas
  BY DEF LeaseTypeOK
<1>1. ASSUME NEW m \in Timers, NEW r \in Replicas, Start(r), Send(m, r, FirstCall(r))
      PROVE  FitInv'
  <2>1. FirstCall(r) \in Phases /\ m \in Callers /\ m \notin Ticks
    BY CallerKinds DEF FirstCall, Phases, Sent
  <2>2. \A q \in Replicas : status'[q] # "gone" => status[q] # "gone"
    BY <1>1 DEF Start, LeaseTypeOK
  <2>3. Goto(m, r, FirstCall(r)) /\ UNCHANGED <<holder, lapsed>>
    BY <1>1 DEF Start, Send
  <2>4. QED
    BY <2>1, <2>2, <2>3, FitsOn
<1>2. ASSUME NEW c \in Timers \cup Ticks, NEW r \in Replicas, Fire(c, r)
      PROVE  FitInv'
  <2>1. FirstCall(r) \in Phases \ {"renewYes", "setYes", "work"} /\ c \in Callers
    BY CallerKinds DEF FirstCall, Phases, Sent
  <2>2. Goto(c, r, FirstCall(r)) /\ UNCHANGED <<holder, status, lapsed>>
    BY <1>2 DEF Fire, Send
  <2>3. QED
    BY <2>1, <2>2, FitsOn
<1>3. ASSUME NEW c \in Callers, NEW r \in Replicas, ExecRenew(c, r)
      PROVE  FitInv'
  <2>1. PICK phase \in {"renewYes", "renewNo"} :
          Goto(c, r, phase) /\ (phase = "renewYes" => holder = r)
    BY <1>3 DEF ExecRenew
  <2>2. phase \in Phases /\ UNCHANGED <<holder, status, lapsed>>
    BY <1>3 DEF ExecRenew, Phases, Answered
  <2>3. QED
    BY <2>1, <2>2, FitsOn
<1>4. ASSUME NEW c \in Callers, NEW r \in Replicas, ExecSet(c, r)
      PROVE  FitInv'
  <2>1. PICK phase \in {"setYes", "setNo"} :
          /\ Goto(c, r, phase)
          /\ phase = "setYes" => holder' = r /\ holder = None
          /\ phase = "setNo" => holder' = holder
    BY <1>4 DEF ExecSet
  <2>2. phase \in Phases /\ UNCHANGED <<status, lapsed>>
    BY <1>4 DEF ExecSet, Phases, Answered
  <2>3. \A q \in Replicas : holder = q => holder' = q
    BY <2>1, NoneAssumption
  <2>4. QED
    BY <2>1, <2>2, <2>3, FitsOn
<1>5. ASSUME NEW c \in Callers, NEW r \in Replicas, ExecDel(c, r)
      PROVE  FitInv'
  <2>1. Goto(c, r, "delDone") /\ "delDone" \in Phases /\ status' = status /\ c \notin Ticks
    BY <1>5, CallerKinds DEF ExecDel, LeaseTypeOK, Fits, Phases, Answered
  <2>2. CASE holder # r
    <3>1. UNCHANGED <<holder, lapsed>>
      BY <1>5, <2>2 DEF ExecDel
    <3>2. QED
      BY <2>1, <3>1, FitsOn
  <2>3. CASE holder = r
    <3>1. Lapse(r)
      BY <1>5, <2>3 DEF ExecDel
    <3>2. ASSUME NEW k \in Ticks, NEW q \in Replicas, Engaged(k, q)'
          PROVE  <<k, q>> \in lapsed'
      <4>1. call'[k][q] = call[k][q]
        BY <2>1, TickFrame
      <4>2. Engaged(k, q)
        BY <2>1, <3>2, <4>1 DEF Engaged, Alive
      <4>3. q = r \/ <<k, q>> \in lapsed
        BY <2>3, <4>2 DEF FitInv
      <4>4. QED
        BY <3>1, <4>2, <4>3, LapseTypes
    <3>3. QED
      BY <3>2 DEF FitInv
  <2>4. QED
    BY <2>2, <2>3
<1>6. ASSUME NEW c \in Callers, NEW r \in Replicas, Throw(c, r) \/ ApplyDel(c, r)
      PROVE  FitInv'
  <2>1. /\ Goto(c, r, "idle") /\ "idle" \in Phases /\ UNCHANGED <<holder, status>>
        /\ lapsed' = lapsed \ {<<c, r>>}
    BY <1>6 DEF Throw, ApplyDel, Return, Phases
  <2>2. QED
    BY <2>1, FitsOn
<1>7. ASSUME NEW c \in Callers, NEW r \in Replicas, ApplyRenew(c, r) \/ ApplySet(c, r)
      PROVE  FitInv'
  <2>1. UNCHANGED <<holder, status>> /\ Alive(r)
    BY <1>7 DEF ApplyRenew, ApplySet
  <2>2. CASE call[c][r] \in {"renewYes", "setYes"}
    <3>1. PICK phase \in {"work", "idle"} :
            Goto(c, r, phase) /\ (phase = "work" => c \in Ticks) /\ lapsed' = lapsed
      BY <1>7, <2>2 DEF ApplyRenew, ApplySet, Return
    <3>2. phase \in Phases
      BY DEF Phases
    <3>3. c \in Ticks => holder = r \/ <<c, r>> \in lapsed
      BY <2>1, <2>2 DEF FitInv, Engaged
    <3>4. QED
      BY <2>1, <3>1, <3>2, <3>3, FitsOn
  <2>3. CASE call[c][r] \notin {"renewYes", "setYes"}
    <3>1. PICK phase \in {"set", "idle"} :
            Goto(c, r, phase) /\ lapsed \ {<<c, r>>} \subseteq lapsed'
      BY <1>7, <2>3 DEF ApplyRenew, ApplySet, Return
    <3>2. phase \in Phases
      BY DEF Phases, Sent
    <3>3. QED
      BY <2>1, <3>1, <3>2, FitsOn
  <2>4. QED
    BY <2>2, <2>3
<1>8. ASSUME NEW k \in Ticks, NEW r \in Replicas, EndWork(k, r)
      PROVE  FitInv'
  <2>1. /\ Goto(k, r, "idle") /\ "idle" \in Phases /\ k \in Callers
        /\ UNCHANGED <<holder, status>> /\ lapsed' = lapsed \ {<<k, r>>}
    BY <1>8, CallerKinds DEF EndWork, Phases
  <2>2. QED
    BY <2>1, FitsOn
<1>9. ASSUME NEW r \in Replicas, Stop(r)
      PROVE  FitInv'
  <2>1. /\ status' = [status EXCEPT ![r] = "stopping"] /\ status[r] = "up"
        /\ UNCHANGED <<holder, lapsed>>
    BY <1>9 DEF Stop
  <2>2. \A q \in Replicas : status'[q] # "gone" => status[q] # "gone"
    BY <2>1 DEF LeaseTypeOK
  <2>3. CASE UNCHANGED call
    BY <2>1, <2>2, <2>3 DEF FitInv, Engaged, Alive
  <2>4. CASE Goto("stop", r, "del")
    <3>1. "del" \in Phases /\ "stop" \in Callers /\ "stop" \notin Ticks
      BY CallerKinds DEF Phases, Sent
    <3>2. QED
      BY <2>1, <2>2, <2>4, <3>1, FitsOn
  <2>5. QED
    BY <1>9, <2>3, <2>4 DEF Stop, Send
<1>10. ASSUME NEW r \in Replicas, Die(r)
      PROVE  FitInv'
  <2>1. /\ status' = [status EXCEPT ![r] = "gone"] /\ holder' = holder
        /\ lapsed' = lapsed \ (Ticks \X {r})
    BY <1>10 DEF Die
  <2>2. ASSUME NEW k \in Ticks, NEW q \in Replicas, Engaged(k, q)'
        PROVE  holder' = q \/ <<k, q>> \in lapsed'
    <3>1. q # r /\ status'[q] = status[q]
      BY <2>1, <2>2 DEF Engaged, Alive, LeaseTypeOK
    <3>2. call'[k][q] = call[k][q]
      BY <1>10, <3>1, CallerKinds, DyingCalls
    <3>3. Engaged(k, q)
      BY <2>2, <3>1, <3>2 DEF Engaged, Alive
    <3>4. QED
      BY <2>1, <3>1, <3>3 DEF FitInv
  <2>3. QED
    BY <2>2 DEF FitInv
<1>11. ASSUME Elapse
      PROVE  FitInv'
  <2>1. ASSUME NEW k \in Ticks, NEW q \in Replicas, Engaged(k, q)'
        PROVE  holder' = q \/ <<k, q>> \in lapsed'
    <3>1. Engaged(k, q)
      BY <1>11, <2>1 DEF Elapse, Engaged, Alive
    <3>2. holder = q \/ <<k, q>> \in lapsed
      BY <3>1 DEF FitInv
    <3>3. CASE left = 1
      <4>1. holder \in Replicas /\ Lapse(holder)
        BY <1>11, <3>3 DEF Elapse, LeaseTypeOK
      <4>2. QED
        BY <3>1, <3>2, <4>1, LapseTypes
    <3>4. CASE left = 0
      BY <1>11, <3>2, <3>4, NoneAssumption DEF Elapse, LeaseTypeOK
    <3>5. CASE left \notin {0, 1}
      BY <1>11, <3>2, <3>5, TTLAssumption DEF Elapse, LeaseTypeOK
    <3>6. QED
      BY <3>3, <3>4, <3>5
  <2>2. QED
    BY <2>1 DEF FitInv
<1>12. QED
  BY <1>1, <1>2, <1>3, <1>4, <1>5, <1>6, <1>7, <1>8, <1>9, <1>10, <1>11
  DEF LeaseStep, Exec, Apply, Start

\* Under every fault and with any number of replicas, renewals and ticks under
\* way: a working tick's replica owns the key or lost it after the store's yes,
\* to its own TTL or its own stop.
THEOREM WorkOnlyWhileHoldingHolds == LeaseSpec => []WorkOnlyWhileHolding
<1>1. LeaseTypeOK /\ FitInv /\ [LeaseNext]_leaseVars => FitInv'
  <2> SUFFICES ASSUME LeaseTypeOK, FitInv, [LeaseNext]_leaseVars
               PROVE  FitInv'
    OBVIOUS
  <2>1. CASE UNCHANGED leaseVars
    BY <2>1 DEF leaseVars, FitInv, Engaged, Alive
  <2>2. CASE LeaseNext
    BY <2>2, StepFit DEF LeaseNext
  <2>3. QED
    BY <2>1, <2>2
<1>2. FitInv => WorkOnlyWhileHolding
  BY DEF FitInv, WorkOnlyWhileHolding, Engaged
<1>3. QED
  BY <1>1, <1>2, InitTypes, LeaseTypes, PTL DEF LeaseSpec

-----------------------------------------------------------------------------
(***************************************************************************)
(* ScanSchedule                                                            *)
(***************************************************************************)
\* The rows a sweep about to create saw are a cadence old.  Those that came
\* later are its own process's, or one of the two sweeps had lost the lease.
Apart(k, r, t) ==
    /\ sweep[k][r].saw <= Len(scans[t])
    /\ \A i \in 1..Len(scans[t]) :
           IF i <= sweep[k][r].saw
             THEN now - scans[t][i].at >= Cadence[t]
             ELSE scans[t][i].by = r \/ scans[t][i].lapsed \/ <<k, r>> \in lapsed

\* Rows carry past times, the last one the latest; a sweep exists only inside a
\* tick's work; a sweep about to create is apart from the rows of its target.
SweepInv ==
    /\ \A t \in Targets : \A i \in 1..Len(scans[t]) :
          scans[t][i].at <= scans[t][Len(scans[t])].at /\ scans[t][i].at <= now
    /\ \A k \in Ticks, r \in Replicas :
          /\ Alive(r) /\ call[k][r] # "work" => sweep[k][r].phase = "none"
          /\ Working(k, r) /\ sweep[k][r].phase = "create"
                => Apart(k, r, Turned(k, r))

SInv == TypeOK /\ FitInv /\ Spaced /\ SweepInv

\* Nothing is scheduled.
LEMMA InitSInv == Init => SInv
<1> SUFFICES ASSUME Init PROVE SInv
  OBVIOUS
<1>1. LeaseTypeOK /\ FitInv
  BY InitTypes DEF Init
<1>2. TypeOK
  BY <1>1, MaxTimeAssumption DEF Init, TypeOK, NoSweep, SweepState
<1>3. \A t \in Targets : scans[t] = <<>> /\ Len(scans[t]) = 0
  BY DEF Init
<1>4. \A k \in Ticks, r \in Replicas : sweep[k][r].phase = "none"
  BY DEF Init, NoSweep
<1>5. Spaced /\ SweepInv
  BY <1>3, <1>4 DEF Spaced, SweepInv
<1>6. QED
  BY <1>1, <1>2, <1>5 DEF SInv

\* The working tick of a process that lives on goes on working, keeps the mark
\* of a lost lease, and nobody comes back to life.
LEMMA WorkGoesOn ==
    ASSUME LeaseTypeOK, LeaseStep \/ Elapse, NEW k \in Ticks, NEW q \in Replicas,
           status'[q] # "gone"
    PROVE  /\ call[k][q] = "work"
                => call'[k][q] = "work" /\ (<<k, q>> \in lapsed => <<k, q>> \in lapsed')
           /\ status[q] # "gone"
<1>1. ASSUME NEW c \in Callers, NEW r \in Replicas, NEW phase \in Phases,
             Goto(c, r, phase), call[c][r] # "work", lapsed \ {<<c, r>>} \subseteq lapsed'
      PROVE  call[k][q] = "work"
                => call'[k][q] = "work" /\ (<<k, q>> \in lapsed => <<k, q>> \in lapsed')
  <2>1. call[k][q] = "work" => k # c \/ q # r
    BY <1>1
  <2>2. QED
    BY <1>1, <2>1, TickFrame
<1>2. ASSUME NEW m \in Timers, NEW r \in Replicas, Start(r), Send(m, r, FirstCall(r))
      PROVE  /\ call[k][q] = "work"
                   => call'[k][q] = "work" /\ (<<k, q>> \in lapsed => <<k, q>> \in lapsed')
             /\ status[q] # "gone"
  <2>1. /\ FirstCall(r) \in Phases /\ m \in Callers /\ call[m][r] # "work"
        /\ Goto(m, r, FirstCall(r)) /\ lapsed' = lapsed
    BY <1>2, CallerKinds DEF FirstCall, Phases, Sent, LeaseTypeOK, Fits, Start, Send
  <2>2. status[q] # "gone"
    BY <1>2 DEF Start, LeaseTypeOK
  <2>3. QED
    BY <1>1, <2>1, <2>2
<1>3. ASSUME NEW c \in Timers \cup Ticks, NEW r \in Replicas, Fire(c, r)
      PROVE  /\ call[k][q] = "work"
                   => call'[k][q] = "work" /\ (<<k, q>> \in lapsed => <<k, q>> \in lapsed')
             /\ status[q] # "gone"
  <2>1. /\ FirstCall(r) \in Phases /\ c \in Callers /\ call[c][r] # "work"
        /\ Goto(c, r, FirstCall(r)) /\ lapsed' = lapsed /\ status' = status
    BY <1>3, CallerKinds DEF FirstCall, Phases, Sent, Fire, Send
  <2>2. QED
    BY <1>1, <2>1
<1>4. ASSUME NEW c \in Callers, NEW r \in Replicas,
             Exec(c, r) \/ Throw(c, r) \/ Apply(c, r)
      PROVE  /\ call[k][q] = "work"
                   => call'[k][q] = "work" /\ (<<k, q>> \in lapsed => <<k, q>> \in lapsed')
             /\ status[q] # "gone"
  <2>1. \E phase \in Phases : Goto(c, r, phase)
    BY <1>4 DEF Exec, ExecRenew, ExecSet, ExecDel, Throw, Apply, ApplyRenew, ApplySet,
       ApplyDel, Return, Phases, Sent, Answered
  <2>2. call[c][r] # "work" /\ status' = status
    BY <1>4 DEF Exec, ExecRenew, ExecSet, ExecDel, Throw, Apply, ApplyRenew, ApplySet,
       ApplyDel, Sent, Answered
  <2>3. lapsed \ {<<c, r>>} \subseteq lapsed'
    BY <1>4 DEF Exec, ExecRenew, ExecSet, ExecDel, Lapse, Throw, Apply, ApplyRenew,
       ApplySet, ApplyDel, Return
  <2>4. QED
    BY <1>1, <2>1, <2>2, <2>3
<1>5. ASSUME NEW r \in Replicas, Stop(r)
      PROVE  /\ call[k][q] = "work"
                   => call'[k][q] = "work" /\ (<<k, q>> \in lapsed => <<k, q>> \in lapsed')
             /\ status[q] # "gone"
  <2>1. status[q] # "gone" /\ lapsed' = lapsed
    BY <1>5 DEF Stop, LeaseTypeOK
  <2>2. CASE call' = call
    BY <2>1, <2>2
  <2>3. CASE Goto("stop", r, "del")
    <3>1. "del" \in Phases /\ "stop" \in Callers /\ call["stop"][r] # "work"
      BY CallerKinds DEF Phases, Sent, LeaseTypeOK, Fits
    <3>2. QED
      BY <1>1, <2>1, <2>3, <3>1
  <2>4. QED
    BY <1>5, <2>2, <2>3 DEF Stop, Send
<1>6. ASSUME NEW r \in Replicas, Die(r)
      PROVE  /\ call[k][q] = "work"
                   => call'[k][q] = "work" /\ (<<k, q>> \in lapsed => <<k, q>> \in lapsed')
             /\ status[q] # "gone"
  <2>1. q # r /\ status[q] # "gone"
    BY <1>6 DEF Die, LeaseTypeOK
  <2>2. call'[k][q] = call[k][q]
    BY <1>6, <2>1, CallerKinds, DyingCalls
  <2>3. QED
    BY <1>6, <2>1, <2>2 DEF Die
<1>7. ASSUME Elapse
      PROVE  /\ call[k][q] = "work"
                   => call'[k][q] = "work" /\ (<<k, q>> \in lapsed => <<k, q>> \in lapsed')
             /\ status[q] # "gone"
  BY <1>7 DEF Elapse, Lapse
<1>8. QED
  BY <1>2, <1>3, <1>4, <1>5, <1>6, <1>7 DEF LeaseStep, Start

\* What the schedule's types give of one target's rows and of one sweep.
LEMMA RowTypes ==
    ASSUME TypeOK, NEW t \in Targets
    PROVE  /\ scans[t] \in Seq(Scan) /\ Len(scans[t]) \in Nat /\ Cadence[t] \in Nat
           /\ now \in Nat
           /\ \A i \in 1..Len(scans[t]) : scans[t][i] \in Scan /\ scans[t][i].at \in Nat
<1>1. scans[t] \in Seq(Scan) /\ now \in Nat /\ Cadence[t] \in Nat
  BY CadenceAssumption, MaxTimeAssumption DEF TypeOK
<1>2. \A i \in 1..Len(scans[t]) : scans[t][i] \in Scan
  BY <1>1
<1>3. \A s \in Scan : s.at \in Nat
  BY MaxTimeAssumption DEF Scan
<1>4. QED
  BY <1>1, <1>2, <1>3

LEMMA SweepTypes ==
    ASSUME TypeOK, NEW k \in Ticks, NEW r \in Replicas
    PROVE  /\ sweep[k][r] \in SweepState /\ sweep[k][r].saw \in Nat
           /\ sweep[k][r].todo \subseteq Targets
           /\ sweep[k][r].todo # {} => Turned(k, r) \in sweep[k][r].todo
<1>1. sweep[k][r] \in SweepState
  BY DEF TypeOK
<1>2. sweep[k][r].todo # {} => First(sweep[k][r].todo) \in sweep[k][r].todo
  BY DEF First
<1>3. Turned(k, r) = First(sweep[k][r].todo)
  BY DEF Turned
<1>4. QED
  BY <1>1, <1>2, <1>3 DEF SweepState

\* A step of the lease, or of time, leaves the sweeps' invariant alone.
LEMMA LeaseKeepsSweeps ==
    ASSUME TypeOK, SweepInv, LeaseStep \/ Elapse, UNCHANGED <<scans, sweep>>,
           now' \in 0..MaxTime, now' >= now
    PROVE  SweepInv'
<1>1. now \in Nat /\ now' \in Nat
  BY MaxTimeAssumption DEF TypeOK
<1>2. ASSUME NEW t \in Targets, NEW i \in 1..Len(scans'[t])
      PROVE  scans'[t][i].at <= scans'[t][Len(scans'[t])].at /\ scans'[t][i].at <= now'
  BY <1>1, RowTypes DEF SweepInv
<1>3. ASSUME NEW k \in Ticks, NEW r \in Replicas
      PROVE  /\ status'[r] # "gone" /\ call'[k][r] # "work" => sweep'[k][r].phase = "none"
             /\ status'[r] # "gone" /\ call'[k][r] = "work" /\ sweep'[k][r].phase = "create"
                   => Apart(k, r, Turned(k, r))'
  <2>1. status'[r] # "gone" =>
          /\ call[k][r] = "work" =>
                call'[k][r] = "work" /\ (<<k, r>> \in lapsed => <<k, r>> \in lapsed')
          /\ status[r] # "gone"
    BY WorkGoesOn DEF TypeOK
  <2>2. status'[r] # "gone" /\ call'[k][r] # "work" => sweep'[k][r].phase = "none"
    BY <2>1 DEF SweepInv, Alive
  <2>3. ASSUME status'[r] # "gone", sweep'[k][r].phase = "create"
        PROVE  Apart(k, r, Turned(k, r))'
    <3>1. call[k][r] = "work" /\ Alive(r) /\ sweep[k][r].phase = "create"
      BY <2>1, <2>3 DEF SweepInv, Alive
    <3>2. Apart(k, r, Turned(k, r))
      BY <3>1 DEF SweepInv, Working
    <3>3. Turned(k, r)' = Turned(k, r) /\ Turned(k, r) \in Targets
      BY <3>1, SweepTypes DEF Turned, First, TypeOK
    <3>4. PICK t \in Targets : t = Turned(k, r)
      BY <3>3
    <3>5. <<k, r>> \in lapsed => <<k, r>> \in lapsed'
      BY <2>1, <2>3, <3>1
    <3>6. ASSUME NEW i \in 1..Len(scans[t])
          PROVE  IF i <= sweep[k][r].saw
                   THEN now' - scans[t][i].at >= Cadence[t]
                   ELSE scans[t][i].by = r \/ scans[t][i].lapsed \/ <<k, r>> \in lapsed'
      <4>1. scans[t][i].at \in Nat /\ Cadence[t] \in Nat
        BY RowTypes
      <4>2. IF i <= sweep[k][r].saw
              THEN now - scans[t][i].at >= Cadence[t]
              ELSE scans[t][i].by = r \/ scans[t][i].lapsed \/ <<k, r>> \in lapsed
        BY <3>2, <3>4 DEF Apart
      <4>3. CASE i <= sweep[k][r].saw
        BY <1>1, <4>1, <4>2, <4>3
      <4>4. CASE ~(i <= sweep[k][r].saw)
        BY <3>5, <4>2, <4>4
      <4>5. QED
        BY <4>3, <4>4
    <3>7. QED
      BY <3>2, <3>3, <3>4, <3>6 DEF Apart
  <2>4. QED
    BY <2>2, <2>3
<1>4. QED
  BY <1>2, <1>3 DEF SweepInv, Working, Alive

\* The lease's variables do not move in a sweep's own steps.
LEMMA LeaseStill ==
    ASSUME UNCHANGED leaseVars
    PROVE  /\ LeaseTypeOK => LeaseTypeOK'
           /\ FitInv => FitInv'
           /\ \A k \in Ticks, r \in Replicas :
                 (Working(k, r)' <=> Working(k, r)) /\ (Alive(r)' <=> Alive(r))
           /\ call' = call /\ lapsed' = lapsed /\ holder' = holder
BY DEF leaseVars, LeaseTypeOK, FitInv, Engaged, Working, Alive

\* A tick's sweep record after a step that writes it.
LEMMA SweepEffect ==
    ASSUME TypeOK, NEW k \in Ticks, NEW r \in Replicas,
           NEW phase \in {"none", "loop", "create"},
           NEW todo \in SUBSET Targets, NEW saw \in Nat, Sweep(k, r, phase, todo, saw)
    PROVE  /\ sweep' \in [Ticks -> [Replicas -> SweepState]]
           /\ sweep'[k][r].phase = phase /\ sweep'[k][r].todo = todo
           /\ sweep'[k][r].saw = saw
           /\ \A j \in Ticks, q \in Replicas : j # k \/ q # r => sweep'[j][q] = sweep[j][q]
<1>1. [phase |-> phase, todo |-> todo, saw |-> saw] \in SweepState
  BY DEF SweepState
<1>2. sweep \in [Ticks -> [Replicas -> SweepState]]
  BY DEF TypeOK
<1>3. sweep' = [sweep EXCEPT ![k][r] = [phase |-> phase, todo |-> todo, saw |-> saw]]
  BY DEF Sweep
<1>4. QED
  BY <1>1, <1>2, <1>3

\* A sweep step that creates nothing.
LEMMA QuietSweep ==
    ASSUME SInv, NEW k \in Ticks, NEW r \in Replicas,
           NEW phase \in {"none", "loop", "create"},
           NEW todo \in SUBSET Targets, NEW saw \in Nat, Sweep(k, r, phase, todo, saw),
           UNCHANGED <<leaseVars, now, scans>>, Working(k, r),
           phase = "create" => /\ todo # {}
                               /\ saw = Len(scans[First(todo)])
                               /\ ~Fresh(First(todo))
    PROVE  SInv'
<1>1. TypeOK /\ LeaseTypeOK /\ FitInv /\ Spaced /\ SweepInv
  BY DEF SInv, TypeOK
<1>2. /\ sweep' \in [Ticks -> [Replicas -> SweepState]]
      /\ sweep'[k][r].phase = phase /\ sweep'[k][r].todo = todo
      /\ sweep'[k][r].saw = saw
      /\ \A j \in Ticks, q \in Replicas : j # k \/ q # r => sweep'[j][q] = sweep[j][q]
  <2>1. sweep \in [Ticks -> [Replicas -> SweepState]]
    BY <1>1 DEF TypeOK
  <2>2. PICK s \in SweepState : s = [phase |-> phase, todo |-> todo, saw |-> saw]
    BY DEF SweepState
  <2>3. s.phase = phase /\ s.todo = todo /\ s.saw = saw
    BY <2>2
  <2>4. sweep' = [sweep EXCEPT ![k][r] = s]
    BY <2>2 DEF Sweep
  <2>5. QED
    BY <2>1, <2>3, <2>4
<1>3. /\ LeaseTypeOK' /\ FitInv'
      /\ \A j \in Ticks, q \in Replicas :
            (Working(j, q)' <=> Working(j, q)) /\ (Alive(q)' <=> Alive(q))
      /\ call' = call /\ lapsed' = lapsed
  BY <1>1, LeaseStill
<1>4. TypeOK'
  <2>1. now' \in 0..MaxTime /\ scans' \in [Targets -> Seq(Scan)]
    BY <1>1 DEF TypeOK
  <2>2. \A j \in Ticks, q \in Replicas : sweep'[j][q].phase = "create" => sweep'[j][q].todo # {}
    BY <1>1, <1>2 DEF TypeOK
  <2>3. QED
    BY <1>2, <1>3, <2>1, <2>2 DEF TypeOK
<1>5. Spaced'
  BY <1>1 DEF Spaced, Collided
<1>6. SweepInv'
  <2>1. \A t \in Targets : \A i \in 1..Len(scans'[t]) :
          scans'[t][i].at <= scans'[t][Len(scans'[t])].at /\ scans'[t][i].at <= now'
    BY <1>1 DEF SweepInv
  <2>2. ASSUME NEW j \in Ticks, NEW q \in Replicas
        PROVE  /\ Alive(q)' /\ call'[j][q] # "work" => sweep'[j][q].phase = "none"
               /\ Working(j, q)' /\ sweep'[j][q].phase = "create"
                     => Apart(j, q, Turned(j, q))'
    <3>1. CASE j = k /\ q = r
      <4>1. call'[k][r] = "work"
        BY <1>3 DEF Working
      <4>2. ASSUME phase = "create"
            PROVE  Apart(k, r, Turned(k, r))'
        <5>1. First(todo) \in todo
          BY <4>2 DEF First
        <5>2. PICK t \in Targets : t = First(todo)
          BY <5>1
        <5>3. Turned(k, r)' = t /\ sweep'[k][r].saw = Len(scans[t])
          BY <1>2, <4>2, <5>2 DEF Turned, First
        <5>4. ASSUME NEW i \in 1..Len(scans[t])
              PROVE  now - scans[t][i].at >= Cadence[t]
          <6>1. scans[t] # <<>> /\ Len(scans[t]) \in 1..Len(scans[t])
            BY <1>1, <5>4, RowTypes
          <6>2. /\ scans[t][i].at \in Nat /\ scans[t][Len(scans[t])].at \in Nat
                /\ now \in Nat /\ Cadence[t] \in Nat
            BY <1>1, <5>4, <6>1, RowTypes
          <6>3. ~(now - scans[t][Len(scans[t])].at < Cadence[t])
            BY <4>2, <5>2, <6>1 DEF Fresh
          <6>4. scans[t][i].at <= scans[t][Len(scans[t])].at
            BY <1>1 DEF SweepInv
          <6>5. QED
            BY <6>2, <6>3, <6>4
        <5>5. QED
          BY <1>1, <5>3, <5>4, RowTypes DEF Apart
      <4>3. QED
        BY <1>2, <3>1, <4>1, <4>2
    <3>2. CASE j # k \/ q # r
      <4>1. sweep'[j][q] = sweep[j][q]
        BY <1>2, <3>2
      <4>2. Turned(j, q)' = Turned(j, q)
        BY <4>1 DEF Turned, First
      <4>3. Apart(j, q, Turned(j, q)) => Apart(j, q, Turned(j, q))'
        BY <1>3, <4>1, <4>2 DEF Apart
      <4>4. QED
        BY <1>1, <1>3, <4>1, <4>3 DEF SweepInv
    <3>3. QED
      BY <3>1, <3>2
  <2>3. QED
    BY <2>1, <2>2 DEF SweepInv
<1>7. QED
  BY <1>3, <1>4, <1>5, <1>6 DEF SInv

\* Two sweeps of different processes that work at once: one has lost the lease.
LEMMA OneHolds ==
    ASSUME FitInv, NEW j \in Ticks, NEW k \in Ticks, NEW q \in Replicas, NEW r \in Replicas,
           Working(j, q), Working(k, r), q # r
    PROVE  <<j, q>> \in lapsed \/ <<k, r>> \in lapsed
BY DEF FitInv, Engaged, Working

\* Creating the scan of a target that was due when the sweep looked.
LEMMA CreateSweep ==
    ASSUME SInv, NEW k \in Ticks, NEW r \in Replicas, CreateScheduled(k, r)
    PROVE  SInv'
<1> DEFINE t == Turned(k, r)
           row == [at |-> now, by |-> r, saw |-> sweep[k][r].saw, lapsed |-> <<k, r>> \in lapsed]
           rest == sweep[k][r].todo \ {t}
           n == Len(scans[t])
<1>1. TypeOK /\ LeaseTypeOK /\ FitInv /\ Spaced /\ SweepInv
  BY DEF SInv, TypeOK
<1>2. /\ Working(k, r) /\ sweep[k][r].phase = "create"
      /\ scans' = [scans EXCEPT ![t] = Append(@, row)]
      /\ Sweep(k, r, "loop", rest, 0)
      /\ UNCHANGED <<leaseVars, now>>
  BY DEF CreateScheduled, Skip, Turned
<1>3. t \in Targets /\ rest \in SUBSET Targets /\ now \in 0..MaxTime
  <2>1. sweep[k][r].todo # {}
    BY <1>1, <1>2 DEF TypeOK
  <2>2. QED
    BY <1>1, <2>1, SweepTypes DEF TypeOK
<1>4. Apart(k, r, t)
  BY <1>1, <1>2 DEF SweepInv
<1>5. row \in Scan /\ row.at = now /\ row.by = r /\ row.saw = sweep[k][r].saw
      /\ row.lapsed = (<<k, r>> \in lapsed)
  <2>1. sweep[k][r].saw \in Nat
    BY <1>1, SweepTypes
  <2>2. QED
    BY <1>3, <2>1 DEF Scan
<1>6. /\ sweep' \in [Ticks -> [Replicas -> SweepState]]
      /\ sweep'[k][r].phase = "loop"
      /\ \A j \in Ticks, q \in Replicas : j # k \/ q # r => sweep'[j][q] = sweep[j][q]
  BY <1>1, <1>2, <1>3, SweepEffect
<1>7. /\ LeaseTypeOK' /\ FitInv'
      /\ \A j \in Ticks, q \in Replicas :
            (Working(j, q)' <=> Working(j, q)) /\ (Alive(q)' <=> Alive(q))
      /\ call' = call /\ lapsed' = lapsed
  BY <1>1, <1>2, LeaseStill
<1> HIDE DEF row, rest, t
<1>8. /\ scans[t] \in Seq(Scan) /\ n \in Nat /\ Cadence[t] \in Nat /\ now \in Nat
      /\ \A i \in 1..n : scans[t][i].at \in Nat
  BY <1>1, <1>3, RowTypes
<1>9. /\ scans'[t] = Append(scans[t], row) /\ Len(scans'[t]) = n + 1
      /\ scans'[t][n + 1] = row
      /\ \A i \in 1..n : scans'[t][i] = scans[t][i]
      /\ \A u \in Targets \ {t} : scans'[u] = scans[u]
      /\ scans' \in [Targets -> Seq(Scan)]
  <2>1. scans \in [Targets -> Seq(Scan)]
    BY <1>1 DEF TypeOK
  <2>2. scans'[t] = Append(scans[t], row) /\ \A u \in Targets \ {t} : scans'[u] = scans[u]
    BY <1>2, <1>3, <2>1
  <2>3. Append(scans[t], row) \in Seq(Scan)
    BY <1>5, <1>8
  <2>4. QED
    BY <1>2, <1>3, <1>5, <1>8, <2>1, <2>2, <2>3
<1>10. TypeOK'
  <2>1. \A j \in Ticks, q \in Replicas : sweep'[j][q].phase = "create" => sweep'[j][q].todo # {}
    BY <1>1, <1>6 DEF TypeOK
  <2>2. QED
    BY <1>1, <1>2, <1>6, <1>7, <1>9, <2>1 DEF TypeOK
<1>11. Spaced'
  <2>1. ASSUME NEW u \in Targets, NEW j \in 1..Len(scans'[u]), NEW i \in 1..(j - 1)
        PROVE  \/ scans'[u][j].at - scans'[u][i].at >= Cadence[u]
               \/ Collided(scans'[u][i], scans'[u][j], i)
    <3>1. CASE u # t
      BY <1>1, <1>9, <2>1, <3>1 DEF Spaced
    <3>2. CASE u = t /\ j <= n
      <4>1. j \in 1..n /\ i \in 1..n
        BY <1>8, <3>2
      <4>2. QED
        BY <1>1, <1>3, <1>9, <3>2, <4>1 DEF Spaced
    <3>3. CASE u = t /\ j = n + 1
      <4>1. i \in 1..n
        BY <1>8, <3>3
      <4>2. scans'[u][j] = row /\ scans'[u][i] = scans[t][i]
        BY <1>9, <3>3, <4>1
      <4>3. IF i <= row.saw
              THEN now - scans[t][i].at >= Cadence[t]
              ELSE scans[t][i].by = row.by \/ scans[t][i].lapsed \/ row.lapsed
        BY <1>4, <1>5, <4>1 DEF Apart
      <4>4. i <= row.saw \/ i > row.saw
        BY <1>1, <1>5, <4>1, SweepTypes
      <4>5. QED
        BY <1>5, <3>3, <4>2, <4>3, <4>4 DEF Collided
    <3>4. QED
      BY <1>8, <1>9, <2>1, <3>1, <3>2, <3>3
  <2>2. QED
    BY <2>1 DEF Spaced
<1>12. SweepInv'
  <2>1. ASSUME NEW u \in Targets, NEW i \in 1..Len(scans'[u])
        PROVE  scans'[u][i].at <= scans'[u][Len(scans'[u])].at /\ scans'[u][i].at <= now'
    <3>1. CASE u # t
      BY <1>1, <1>2, <1>9, <3>1 DEF SweepInv
    <3>2. CASE u = t /\ i = n + 1
      BY <1>2, <1>5, <1>8, <1>9, <3>2
    <3>3. CASE u = t /\ i \in 1..n
      <4>1. scans[t][i].at <= now
        BY <1>1, <1>3, <3>3 DEF SweepInv
      <4>2. QED
        BY <1>2, <1>5, <1>9, <3>3, <4>1
    <3>4. QED
      BY <1>8, <1>9, <2>1, <3>1, <3>2, <3>3
  <2>2. ASSUME NEW j \in Ticks, NEW q \in Replicas
        PROVE  /\ Alive(q)' /\ call'[j][q] # "work" => sweep'[j][q].phase = "none"
               /\ Working(j, q)' /\ sweep'[j][q].phase = "create"
                     => Apart(j, q, Turned(j, q))'
    <3>1. CASE j = k /\ q = r
      BY <1>2, <1>6, <1>7, <3>1 DEF Working
    <3>2. CASE j # k \/ q # r
      <4>1. sweep'[j][q] = sweep[j][q]
        BY <1>6, <3>2
      <4>2. ASSUME Working(j, q), sweep[j][q].phase = "create"
            PROVE  Apart(j, q, Turned(j, q))'
        <5>1. PICK u \in Targets : u = Turned(j, q)
          BY <1>1, <4>2, SweepTypes DEF TypeOK
        <5>2. Turned(j, q)' = u /\ sweep'[j][q].saw = sweep[j][q].saw
          BY <4>1, <5>1 DEF Turned, First
        <5>3. Apart(j, q, u)
          BY <1>1, <4>2, <5>1 DEF SweepInv
        <5>4. ASSUME NEW i \in 1..Len(scans'[u])
              PROVE  IF i <= sweep[j][q].saw
                       THEN now - scans'[u][i].at >= Cadence[u]
                       ELSE scans'[u][i].by = q \/ scans'[u][i].lapsed \/ <<j, q>> \in lapsed
          <6>1. CASE u # t
            BY <1>9, <5>3, <5>4, <6>1 DEF Apart
          <6>2. CASE u = t /\ i \in 1..n
            BY <1>9, <5>3, <6>2 DEF Apart
          <6>3. CASE u = t /\ i = n + 1
            <7>1. scans'[u][i] = row
              BY <1>9, <6>3
            <7>2. CASE i > sweep[j][q].saw
              <8>1. q = r \/ <<j, q>> \in lapsed \/ <<k, r>> \in lapsed
                BY <1>1, <1>2, <4>2, OneHolds
              <8>2. sweep[j][q].saw \in Nat
                BY <1>1, SweepTypes
              <8>3. scans'[u][i].by = q \/ scans'[u][i].lapsed \/ <<j, q>> \in lapsed
                BY <1>5, <7>1, <8>1
              <8>4. ~(i <= sweep[j][q].saw)
                BY <1>8, <6>3, <7>2, <8>2
              <8>5. QED
                BY <8>3, <8>4
            <7>3. CASE i <= sweep[j][q].saw
              <8>1. sweep[j][q].saw <= n
                BY <5>3, <6>3 DEF Apart
              <8>2. QED
                BY <1>1, <1>8, <6>3, <7>3, <8>1, SweepTypes
            <7>4. QED
              BY <1>1, <1>8, <6>3, <7>2, <7>3, SweepTypes
          <6>4. QED
            BY <1>8, <1>9, <5>4, <6>1, <6>2, <6>3
        <5>5. sweep[j][q].saw <= Len(scans'[u])
          <6>1. sweep[j][q].saw \in Nat
            BY <1>1, SweepTypes
          <6>2. CASE u = t
            BY <1>8, <1>9, <5>3, <6>1, <6>2 DEF Apart
          <6>3. CASE u # t
            BY <1>9, <5>3, <6>3 DEF Apart
          <6>4. QED
            BY <6>2, <6>3
        <5>6. QED
          BY <1>2, <1>7, <4>1, <5>2, <5>4, <5>5 DEF Apart
      <4>3. QED
        BY <1>1, <1>7, <4>1, <4>2 DEF SweepInv
    <3>3. QED
      BY <3>1, <3>2
  <2>3. QED
    BY <2>1, <2>2 DEF SweepInv
<1>13. QED
  BY <1>7, <1>10, <1>11, <1>12 DEF SInv

\* The end of the sweep is the end of the tick's work.
LEMMA EndSweepStep ==
    ASSUME SInv, NEW k \in Ticks, NEW r \in Replicas, EndSweep(k, r)
    PROVE  SInv'
<1>1. TypeOK /\ LeaseTypeOK /\ FitInv /\ Spaced /\ SweepInv
  BY DEF SInv, TypeOK
<1>2. EndWork(k, r) /\ Sweep(k, r, "none", {}, 0) /\ UNCHANGED <<now, scans>>
  BY DEF EndSweep
<1>3. LeaseTypeOK' /\ FitInv'
  BY <1>1, <1>2, StepTypes, StepFit DEF LeaseNext
<1>4. /\ sweep' \in [Ticks -> [Replicas -> SweepState]]
      /\ sweep'[k][r].phase = "none"
      /\ \A j \in Ticks, q \in Replicas : j # k \/ q # r => sweep'[j][q] = sweep[j][q]
  BY <1>1, <1>2, SweepEffect
<1>5. /\ status' = status
      /\ \A j \in Ticks, q \in Replicas : j # k \/ q # r =>
            call'[j][q] = call[j][q] /\ (<<j, q>> \in lapsed => <<j, q>> \in lapsed')
  <2>1. k \in Callers /\ "idle" \in Phases /\ Goto(k, r, "idle") /\ status' = status
        /\ lapsed' = lapsed \ {<<k, r>>}
    BY <1>2, CallerKinds DEF EndWork, Phases
  <2>2. QED
    BY <1>1, <2>1, TickFrame
<1>6. TypeOK'
  <2>1. \A j \in Ticks, q \in Replicas : sweep'[j][q].phase = "create" => sweep'[j][q].todo # {}
    BY <1>1, <1>4 DEF TypeOK
  <2>2. QED
    BY <1>1, <1>2, <1>3, <1>4, <2>1 DEF TypeOK
<1>7. Spaced'
  BY <1>1, <1>2 DEF Spaced, Collided
<1>8. SweepInv'
  <2>1. \A t \in Targets : \A i \in 1..Len(scans'[t]) :
          scans'[t][i].at <= scans'[t][Len(scans'[t])].at /\ scans'[t][i].at <= now'
    BY <1>1, <1>2 DEF SweepInv
  <2>2. ASSUME NEW j \in Ticks, NEW q \in Replicas
        PROVE  /\ Alive(q)' /\ call'[j][q] # "work" => sweep'[j][q].phase = "none"
               /\ Working(j, q)' /\ sweep'[j][q].phase = "create"
                     => Apart(j, q, Turned(j, q))'
    <3>1. CASE j = k /\ q = r
      BY <1>4, <3>1
    <3>2. CASE j # k \/ q # r
      <4>1. sweep'[j][q] = sweep[j][q] /\ call'[j][q] = call[j][q]
            /\ (<<j, q>> \in lapsed => <<j, q>> \in lapsed')
        BY <1>4, <1>5, <3>2
      <4>2. (Working(j, q)' <=> Working(j, q)) /\ (Alive(q)' <=> Alive(q))
        BY <1>5, <4>1 DEF Working, Alive
      <4>3. Turned(j, q)' = Turned(j, q)
        BY <4>1 DEF Turned, First
      <4>4. Apart(j, q, Turned(j, q)) => Apart(j, q, Turned(j, q))'
        BY <1>2, <4>1, <4>3 DEF Apart
      <4>5. QED
        BY <1>1, <4>1, <4>2, <4>4 DEF SweepInv
    <3>3. QED
      BY <3>1, <3>2
  <2>3. QED
    BY <2>1, <2>2 DEF SweepInv
<1>9. QED
  BY <1>3, <1>6, <1>7, <1>8 DEF SInv

\* Every step keeps the invariant.
LEMMA NextSInv == SInv /\ [Next]_vars => SInv'
<1> SUFFICES ASSUME SInv, [Next]_vars
             PROVE  SInv'
  OBVIOUS
<1>0. TypeOK /\ LeaseTypeOK /\ FitInv /\ Spaced /\ SweepInv
  BY DEF SInv, TypeOK
<1>1. CASE UNCHANGED vars
  <2>1. /\ LeaseTypeOK' /\ FitInv' /\ call' = call /\ lapsed' = lapsed
        /\ UNCHANGED <<now, scans, sweep>> /\ status' = status
    BY <1>0, <1>1, LeaseStill DEF vars, schedVars, leaseVars
  <2>2. TypeOK' /\ Spaced'
    BY <1>0, <2>1 DEF TypeOK, Spaced, Collided
  <2>3. SweepInv'
    BY <1>0, <2>1 DEF SweepInv, Working, Alive, Apart, Turned, First
  <2>4. QED
    BY <2>1, <2>2, <2>3 DEF SInv
<1>2. CASE (LeaseStep /\ UNCHANGED schedVars) \/ ClockTicks
  <2>1. /\ LeaseStep \/ Elapse
        /\ UNCHANGED <<scans, sweep>>
        /\ now' \in 0..MaxTime /\ now' >= now
    BY <1>0, <1>2, MaxTimeAssumption DEF schedVars, ClockTicks, TypeOK
  <2>2. LeaseTypeOK' /\ FitInv'
    BY <1>0, <2>1, StepTypes, StepFit DEF LeaseNext
  <2>3. SweepInv'
    BY <1>0, <2>1, LeaseKeepsSweeps
  <2>4. TypeOK' /\ Spaced'
    BY <1>0, <2>1, <2>2 DEF TypeOK, Spaced, Collided
  <2>5. QED
    BY <2>2, <2>3, <2>4 DEF SInv
<1>3. ASSUME NEW k \in Ticks, NEW r \in Replicas,
             ListOrgs(k, r) \/ ReadLast(k, r) \/ CreateThrows(k, r)
      PROVE  SInv'
  <2>1. /\ sweep[k][r].todo \in SUBSET Targets
        /\ sweep[k][r].todo \ {Turned(k, r)} \in SUBSET Targets
        /\ Turned(k, r) = First(sweep[k][r].todo)
    BY <1>0, SweepTypes DEF Turned
  <2>2. CASE ListOrgs(k, r)
    BY <2>2, QuietSweep DEF ListOrgs
  <2>3. CASE CreateThrows(k, r)
    BY <2>1, <2>3, QuietSweep DEF CreateThrows, Skip
  <2>4. CASE ReadLast(k, r)
    <3>1. CASE Fresh(Turned(k, r))
      BY <2>1, <2>4, <3>1, QuietSweep DEF ReadLast, Skip
    <3>2. CASE ~Fresh(Turned(k, r))
      <4>1. Len(scans[Turned(k, r)]) \in Nat
        BY <1>0, <2>4, SweepTypes, RowTypes DEF ReadLast
      <4>2. QED
        BY <2>1, <2>4, <3>2, <4>1, QuietSweep DEF ReadLast
    <3>3. QED
      BY <3>1, <3>2
  <2>5. QED
    BY <1>3, <2>2, <2>3, <2>4
<1>4. QED
  BY <1>1, <1>2, <1>3, CreateSweep, EndSweepStep DEF Next

\* Scheduled scans of a target are at least its cadence apart unless two sweeps
\* of one process, or one without the lease, collide, for any number of
\* replicas, ticks under way, orgs and scanner types and under every fault.
THEOREM SpacedHolds == Spec => []Spaced
<1>1. SInv /\ [Next]_vars => SInv'
  BY NextSInv
<1>2. SInv => Spaced
  BY DEF SInv
<1>3. QED
  BY <1>1, <1>2, InitSInv, PTL DEF Spec

=============================================================================
