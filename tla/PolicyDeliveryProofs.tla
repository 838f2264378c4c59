------------------------- MODULE PolicyDeliveryProofs -------------------------
(***************************************************************************)
(* PolicyDelivery for any number of deliveries and every fault: types, at  *)
(* most one notification per channel that no send was in doubt about, and  *)
(* no claim without a handler that answers for it.                         *)
(***************************************************************************)
EXTENDS PolicyDelivery, TLAPS

Holders == {"send", "release"}

\* A handler between its claim and its outcome owns the row, alone, and nothing
\* was sent yet; what was sent keeps its row for ever.  A send in doubt breaks
\* the two statements about sent for its channel, and only those.
ClaimInv ==
    /\ \A m \in Msgs, n \in 1..MaxDeliver :
          run[<<m, n>>] \in Holders =>
             /\ ChannelOf(m) \in claim
             /\ ChannelOf(m) \notin doubted => sent[ChannelOf(m)] = 0
    /\ \A m1, m2 \in Msgs, n1, n2 \in 1..MaxDeliver :
          /\ run[<<m1, n1>>] \in Holders
          /\ run[<<m2, n2>>] \in Holders
          /\ ChannelOf(m1) = ChannelOf(m2)
          => m1 = m2 /\ n1 = n2
    /\ \A c \in Channels \ doubted : sent[c] <= 1 /\ (sent[c] > 0 => c \in claim)

\* The channel of a message is a channel.
LEMMA ChannelType == \A m \in Msgs : ChannelOf(m) \in Channels
  BY DEF Msgs, ChannelOf

\* The type invariant holds, for any number of deliveries and every fault.
THEOREM TypesHold == Spec => []TypeOK
<1>1. Init => TypeOK
  BY DeliveryAssumption DEF Init, TypeOK, Runs, Phases
<1>2. TypeOK /\ [Next]_vars => TypeOK'
  <2> SUFFICES ASSUME TypeOK, [Next]_vars PROVE TypeOK'
    OBVIOUS
  <2> USE DeliveryAssumption, ChannelType
  <2>1. CASE PolicyStart
    BY <2>1 DEF PolicyStart, dispatchVars, TypeOK
  <2>2. CASE PolicyPublish
    <3>1. policy'.tries = policy.tries /\ policy' \in [tries : 0..PolicyDeliver,
                   at : {"waiting", "slack", "jira", "ack", "acked", "dead"}]
      BY <2>2 DEF PolicyPublish, TypeOK, Channels
    <3>2. given' \in [Msgs -> (0..MaxDeliver) \cup {-1}]
      <4>1. ASSUME NEW k PROVE [given EXCEPT ![k] = 0] \in [Msgs -> (0..MaxDeliver) \cup {-1}]
        <5> DEFINE T == (0..MaxDeliver) \cup {-1}
        <5>1. 0 \in T /\ given \in [Msgs -> T]
          BY DEF TypeOK
        <5> HIDE DEF T
        <5>2. [given EXCEPT ![k] = 0] \in [Msgs -> T]
          BY <5>1
        <5> QED BY <5>2 DEF T
      <4>2. given' = given \/ given' = [given EXCEPT ![<<policy.tries, policy.at>>] = 0]
        BY <2>2 DEF PolicyPublish
      <4> QED BY <4>1, <4>2 DEF TypeOK
    <3> QED BY <2>2, <3>1, <3>2 DEF PolicyPublish, dispatchVars, TypeOK
  <2>3. CASE PolicyNak
    BY <2>3 DEF PolicyNak, dispatchVars, TypeOK
  <2>4. CASE PolicyAck
    BY <2>4 DEF PolicyAck, dispatchVars, TypeOK
  <2>5. ASSUME NEW m \in Msgs, Deliver(m) PROVE TypeOK'
    BY <2>5 DEF Deliver, Goto, TypeOK, Runs, Phases
  <2>6. ASSUME NEW m \in Msgs, NEW n \in 1..MaxDeliver,
               \/ TryClaim(m, n) \/ StoreThrows(m, n)
               \/ SendOk(m, n) \/ SendThrows(m, n) \/ Release(m, n)
               \/ Settle(m, n) \/ Crash(m, n)
        PROVE TypeOK'
    <3>1. run' \in [Runs -> Phases]
      BY <2>6 DEF TryClaim, StoreThrows, SendOk, SendThrows, Release, Settle, Crash, Goto,
                  TypeOK, Runs, Phases
    <3>2. claim' \in SUBSET Channels
      BY <2>6 DEF TryClaim, StoreThrows, SendOk, SendThrows, Release, Settle, Crash, TypeOK
    <3>3. sent' \in [Channels -> Nat]
      BY <2>6 DEF TryClaim, StoreThrows, SendOk, SendThrows, Release, Settle, Crash, Count, TypeOK
    <3>4. doubted' \in SUBSET Channels
      BY <2>6 DEF TryClaim, StoreThrows, SendOk, SendThrows, Release, Settle, Crash, TypeOK
    <3>5. acked' \in SUBSET Msgs /\ skipped' \in SUBSET Msgs
      BY <2>6 DEF TryClaim, StoreThrows, SendOk, SendThrows, Release, Settle, Crash, TypeOK
    <3> QED BY <2>6, <3>1, <3>2, <3>3, <3>4, <3>5
            DEF TryClaim, StoreThrows, SendOk, SendThrows, Release, Settle, Crash, TypeOK
  <2>7. CASE UNCHANGED vars
    BY <2>7 DEF vars, TypeOK
  <2> QED BY <2>1, <2>2, <2>3, <2>4, <2>5, <2>6, <2>7 DEF Next
<1> QED BY <1>1, <1>2, PTL DEF Spec

\* Only handlers that had claimed before go on holding a claim, when run
\* changes at <<m, n>> alone and not to a holder.
LEMMA HoldersShrink ==
    ASSUME TypeOK, NEW m \in Msgs, NEW n \in 1..MaxDeliver, NEW phase \in Phases \ Holders,
           Goto(m, n, phase)
    PROVE  \A x \in Msgs, k \in 1..MaxDeliver :
              run'[<<x, k>>] \in Holders => run[<<x, k>>] \in Holders /\ <<x, k>> # <<m, n>>
  BY DEF Goto, TypeOK, Runs

\* The claim row is owned as ClaimInv says, after every step.
LEMMA ClaimStep ==
    ASSUME TypeOK, ClaimInv, [Next]_vars
    PROVE  ClaimInv'
<1> USE DeliveryAssumption, ChannelType
<1>1. CASE UNCHANGED <<run, claim, sent, doubted>>
  BY <1>1 DEF ClaimInv
<1>2. CASE PolicyStart \/ PolicyPublish \/ PolicyNak \/ PolicyAck \/ UNCHANGED vars
  BY <1>1, <1>2 DEF PolicyStart, PolicyPublish, PolicyNak, PolicyAck, dispatchVars, vars
<1>3. ASSUME NEW m \in Msgs, Deliver(m) PROVE ClaimInv'
  <2>1. \A x \in Msgs, k \in 1..MaxDeliver :
          run'[<<x, k>>] \in Holders => run[<<x, k>>] \in Holders
    BY <1>3 DEF Deliver, Goto, TypeOK, Runs, Holders
  <2> QED BY <1>3, <2>1 DEF Deliver, ClaimInv
<1>4. ASSUME NEW m \in Msgs, NEW n \in 1..MaxDeliver, TryClaim(m, n) PROVE ClaimInv'
  <2>1. \A x \in Msgs, k \in 1..MaxDeliver :
          run'[<<x, k>>] \in Holders => run[<<x, k>>] \in Holders \/ (x = m /\ k = n /\ ChannelOf(m) \notin claim)
    BY <1>4 DEF TryClaim, Goto, TypeOK, Runs, Holders
  <2>2. sent' = sent /\ doubted' = doubted /\ claim \subseteq claim' /\ ChannelOf(m) \in claim'
    BY <1>4 DEF TryClaim
  <2>3. sent \in [Channels -> Nat]
    BY DEF TypeOK
  <2> QED BY <2>1, <2>2, <2>3 DEF ClaimInv
<1>5. ASSUME NEW m \in Msgs, NEW n \in 1..MaxDeliver, StoreThrows(m, n) PROVE ClaimInv'
  <2>1. \A x \in Msgs, k \in 1..MaxDeliver :
          run'[<<x, k>>] \in Holders => run[<<x, k>>] \in Holders /\ <<x, k>> # <<m, n>>
    BY <1>5, HoldersShrink DEF StoreThrows, Phases, Holders
  <2>2. sent' = sent /\ doubted' = doubted /\ sent \in [Channels -> Nat]
    BY <1>5 DEF StoreThrows, TypeOK
  <2>3. CASE run[<<m, n>>] = "claim"
    <3>1. claim \subseteq claim'
      BY <1>5, <2>3 DEF StoreThrows
    <3> QED BY <2>1, <2>2, <3>1 DEF ClaimInv
  <2>4. CASE run[<<m, n>>] = "release"
    <3>1. claim \ {ChannelOf(m)} \subseteq claim'
          /\ (ChannelOf(m) \notin doubted => sent[ChannelOf(m)] = 0)
      BY <1>5, <2>4 DEF StoreThrows, ClaimInv, Holders
    <3> QED BY <2>1, <2>2, <2>4, <3>1 DEF ClaimInv, Holders
  <2> QED BY <1>5, <2>3, <2>4 DEF StoreThrows
<1>6. ASSUME NEW m \in Msgs, NEW n \in 1..MaxDeliver, NEW k \in Nat,
             run[<<m, n>>] = "send", claim' = claim,
             \A x \in Msgs, j \in 1..MaxDeliver :
                run'[<<x, j>>] \in Holders => run[<<x, j>>] \in Holders,
             Count(ChannelOf(m), k),
             \/ doubted' = doubted /\ k = 1 /\ run'[<<m, n>>] \notin Holders
             \/ doubted' = doubted \cup {ChannelOf(m)}
      PROVE  ClaimInv'
  <2>1. ChannelOf(m) \in claim /\ (ChannelOf(m) \notin doubted => sent[ChannelOf(m)] = 0)
    BY <1>6 DEF ClaimInv, Holders
  <2>2. \A c \in Channels : c # ChannelOf(m) => sent'[c] = sent[c]
    BY <1>6 DEF Count, TypeOK
  <2>3. sent \in [Channels -> Nat] /\ sent'[ChannelOf(m)] = sent[ChannelOf(m)] + k
    BY <1>6 DEF Count, TypeOK
  <2>4. \A x \in Msgs, j \in 1..MaxDeliver :
          run'[<<x, j>>] \in Holders /\ ChannelOf(x) = ChannelOf(m) => x = m /\ j = n
    BY <1>6 DEF ClaimInv, Holders
  <2>5. CASE doubted' = doubted /\ k = 1 /\ run'[<<m, n>>] \notin Holders
    BY <1>6, <2>1, <2>2, <2>3, <2>4, <2>5 DEF ClaimInv
  <2>6. CASE doubted' = doubted \cup {ChannelOf(m)}
    BY <1>6, <2>1, <2>2, <2>4, <2>6 DEF ClaimInv
  <2> QED BY <1>6, <2>5, <2>6
<1>7. ASSUME NEW m \in Msgs, NEW n \in 1..MaxDeliver, SendOk(m, n) PROVE ClaimInv'
  <2>1. \A x \in Msgs, k \in 1..MaxDeliver :
          run'[<<x, k>>] \in Holders => run[<<x, k>>] \in Holders /\ <<x, k>> # <<m, n>>
    BY <1>7, HoldersShrink DEF SendOk, Phases, Holders
  <2>2. run[<<m, n>>] = "send" /\ claim' = claim
    BY <1>7 DEF SendOk
  <2>3. CASE Count(ChannelOf(m), 1) /\ doubted' = doubted
    BY <2>1, <2>2, <2>3, <1>6
  <2>4. CASE Count(ChannelOf(m), 2) /\ doubted' = doubted \cup {ChannelOf(m)}
    BY <2>1, <2>2, <2>4, <1>6
  <2> QED BY <1>7, <2>3, <2>4 DEF SendOk
<1>8. ASSUME NEW m \in Msgs, NEW n \in 1..MaxDeliver, SendThrows(m, n) PROVE ClaimInv'
  <2>1. \A x \in Msgs, k \in 1..MaxDeliver :
          run'[<<x, k>>] \in Holders => run[<<x, k>>] \in Holders
    BY <1>8 DEF SendThrows, Goto, TypeOK, Runs, Holders
  <2>2. run[<<m, n>>] = "send" /\ claim' = claim
    BY <1>8 DEF SendThrows
  <2>3. CASE UNCHANGED <<sent, doubted>>
    BY <2>1, <2>2, <2>3 DEF ClaimInv
  <2>4. CASE Count(ChannelOf(m), 1) /\ doubted' = doubted \cup {ChannelOf(m)}
    BY <2>1, <2>2, <2>4, <1>6
  <2> QED BY <1>8, <2>3, <2>4 DEF SendThrows
<1>9. ASSUME NEW m \in Msgs, NEW n \in 1..MaxDeliver, Release(m, n) PROVE ClaimInv'
  <2>1. \A x \in Msgs, k \in 1..MaxDeliver :
          run'[<<x, k>>] \in Holders => run[<<x, k>>] \in Holders /\ <<x, k>> # <<m, n>>
    BY <1>9, HoldersShrink DEF Release, Phases, Holders
  <2>2. /\ sent' = sent /\ doubted' = doubted /\ claim' = claim \ {ChannelOf(m)}
        /\ ChannelOf(m) \notin doubted => sent[ChannelOf(m)] = 0
        /\ run[<<m, n>>] \in Holders
    BY <1>9 DEF Release, ClaimInv, Holders
  <2> QED BY <2>1, <2>2 DEF ClaimInv
<1>10. ASSUME NEW m \in Msgs, NEW n \in 1..MaxDeliver, Settle(m, n) PROVE ClaimInv'
  <2>1. \A x \in Msgs, k \in 1..MaxDeliver :
          run'[<<x, k>>] \in Holders => run[<<x, k>>] \in Holders
    BY <1>10, HoldersShrink DEF Settle, Phases, Holders
  <2> QED BY <1>10, <2>1 DEF Settle, ClaimInv
<1>11. ASSUME NEW m \in Msgs, NEW n \in 1..MaxDeliver, Crash(m, n) PROVE ClaimInv'
  <2>1. \A x \in Msgs, k \in 1..MaxDeliver :
          run'[<<x, k>>] \in Holders => run[<<x, k>>] \in Holders /\ <<x, k>> # <<m, n>>
    BY <1>11, HoldersShrink DEF Crash, Phases, Holders
  <2>2. claim' = claim /\ doubted' = doubted
    BY <1>11 DEF Crash
  <2>3. CASE UNCHANGED sent
    BY <2>1, <2>2, <2>3 DEF ClaimInv
  <2>4. CASE run[<<m, n>>] = "send" /\ Count(ChannelOf(m), 1)
    BY <2>1, <2>2, <2>4, <1>6
  <2> QED BY <1>11, <2>3, <2>4 DEF Crash
<1> QED BY <1>2, <1>3, <1>4, <1>5, <1>7, <1>8, <1>9, <1>10, <1>11 DEF Next

\* A channel is notified at most once, however often the policy event and the
\* messages are delivered, with overlapping handlers, crashes and a failing
\* store, unless a send that arrived was taken for a failure.
THEOREM AtMostOnceHolds == Spec => []AtMostOnce
<1>1. Init => ClaimInv
  BY DEF Init, ClaimInv, Holders, Runs
<1>2. TypeOK /\ ClaimInv /\ [Next]_vars => ClaimInv'
  BY ClaimStep
<1>3. ClaimInv => AtMostOnce
  BY DEF ClaimInv, AtMostOnce
<1> QED BY <1>1, <1>2, <1>3, TypesHold, PTL DEF Spec

\* A message is published once, by its delivery of the policy event, and a
\* delivery that was not given has no handler.
GivenInv ==
    /\ \A m \in Msgs : given[m] # -1 =>
          \/ m[1] < policy.tries
          \/ m[1] = policy.tries /\ policy.at # "slack" /\ (m[2] = "jira" => policy.at # "jira")
    /\ \A m \in Msgs, n \in 1..MaxDeliver : n > given[m] => run[<<m, n>>] = "none"

Answerable == {"send", "release", "broke", "died"}

\* A step of a handler that stays answerable, or notifies, or had no claim to
\* answer for.
LEMMA AnswerStep ==
    ASSUME TypeOK, NoOrphanClaim, NEW m \in Msgs, NEW n \in 1..MaxDeliver, NEW phase \in Phases,
           Goto(m, n, phase),
           claim' \subseteq claim \cup {ChannelOf(m)},
           \A c \in Channels : sent'[c] \in Nat /\ sent'[c] >= sent[c],
           \/ phase \in Answerable
           \/ sent'[ChannelOf(m)] > 0
           \/ ChannelOf(m) \notin claim'
           \/ run[<<m, n>>] \notin Answerable /\ claim' = claim
    PROVE  NoOrphanClaim'
<1> SUFFICES ASSUME NEW c \in claim', sent'[c] = 0
             PROVE  \E x \in Msgs, k \in 1..MaxDeliver :
                      ChannelOf(x) = c /\ run'[<<x, k>>] \in Answerable
  <2>1. claim' \subseteq Channels
    BY ChannelType DEF TypeOK
  <2> QED BY <2>1, Z3 DEF NoOrphanClaim, Answerable
<1>1. run'[<<m, n>>] = phase
  BY DEF Goto, TypeOK, Runs
<1>2. \A x \in Msgs, k \in 1..MaxDeliver : <<x, k>> # <<m, n>> => run'[<<x, k>>] = run[<<x, k>>]
  BY DEF Goto, TypeOK, Runs
<1>3. CASE c = ChannelOf(m) /\ phase \in Answerable
  BY <1>1, <1>3
<1>4. CASE c # ChannelOf(m) \/ (run[<<m, n>>] \notin Answerable /\ claim' = claim)
  <2>1. c \in claim /\ c \in Channels /\ ~(sent[c] > 0)
    BY <1>4, ChannelType DEF TypeOK
  <2>2. PICK x \in Msgs, k \in 1..MaxDeliver : ChannelOf(x) = c /\ run[<<x, k>>] \in Answerable
    BY <2>1 DEF NoOrphanClaim, Answerable
  <2>3. <<x, k>> # <<m, n>>
    BY <1>4, <2>2
  <2> QED BY <1>2, <2>2, <2>3
<1> QED BY <1>3, <1>4

\* Messages and handlers come into being as GivenInv says.
LEMMA GivenStep ==
    ASSUME TypeOK, GivenInv, [Next]_vars
    PROVE  GivenInv'
<1> USE DeliveryAssumption
<1>1. CASE UNCHANGED <<given, run>> /\ (PolicyStart \/ PolicyPublish \/ PolicyNak \/ PolicyAck)
  BY <1>1 DEF PolicyStart, PolicyPublish, PolicyNak, PolicyAck, GivenInv, TypeOK, Channels, Msgs
<1>2. CASE PolicyStart \/ PolicyNak \/ PolicyAck
  BY <1>1, <1>2 DEF PolicyStart, PolicyNak, PolicyAck, dispatchVars
<1>3. CASE PolicyPublish
  <2>1. CASE policy.at \in Wanted
    <3> DEFINE p == <<policy.tries, policy.at>>
    <3>1. given' = [given EXCEPT ![p] = 0] /\ run' = run
          /\ policy' = [policy EXCEPT !.at = IF @ = "slack" THEN "jira" ELSE "ack"]
      BY <1>3, <2>1 DEF PolicyPublish, dispatchVars
    <3>2. p \in Msgs => \A n \in 1..MaxDeliver : run[<<p, n>>] = "none"
      <4>1. p \in Msgs => given[p] = -1
        BY <1>3 DEF PolicyPublish, GivenInv, TypeOK, Channels, Msgs
      <4> QED BY <4>1 DEF GivenInv
    <3>3. \A m \in Msgs : given'[m] = IF m = p THEN 0 ELSE given[m]
      BY <3>1 DEF TypeOK
    <3>4. policy.at \in Channels /\ policy \in [tries : 0..PolicyDeliver,
                   at : {"waiting", "slack", "jira", "ack", "acked", "dead"}]
      BY <1>3 DEF PolicyPublish, TypeOK
    <3>5. \A m \in Msgs, n \in 1..MaxDeliver : n > given'[m] => run'[<<m, n>>] = "none"
      BY <3>1, <3>2, <3>3 DEF GivenInv
    <3>6. \A m \in Msgs : given'[m] # -1 =>
             \/ m[1] < policy'.tries
             \/ m[1] = policy'.tries /\ policy'.at # "slack" /\ (m[2] = "jira" => policy'.at # "jira")
      BY <3>1, <3>3, <3>4 DEF GivenInv, Channels
    <3> QED BY <3>5, <3>6 DEF GivenInv
  <2>2. CASE policy.at \notin Wanted
    BY <1>1, <1>3, <2>2 DEF PolicyPublish, dispatchVars
  <2> QED BY <2>1, <2>2
<1>4. ASSUME NEW m \in Msgs, Deliver(m) PROVE GivenInv'
  <2>1. /\ policy' = policy /\ given[m] \in Nat
        /\ \A x \in Msgs : given'[x] = IF x = m THEN given[m] + 1 ELSE given[x]
    BY <1>4 DEF Deliver, TypeOK
  <2>2. \A x \in Msgs, n \in 1..MaxDeliver :
          <<x, n>> # <<m, given[m] + 1>> => run'[<<x, n>>] = run[<<x, n>>]
    BY <1>4 DEF Deliver, Goto, TypeOK, Runs
  <2>3. \A x \in Msgs, n \in 1..MaxDeliver : n > given'[x] => run'[<<x, n>>] = "none"
    BY <2>1, <2>2 DEF GivenInv, TypeOK
  <2> QED BY <2>1, <2>3 DEF GivenInv
<1>5. ASSUME NEW m \in Msgs, NEW n \in 1..MaxDeliver,
             \/ TryClaim(m, n) \/ StoreThrows(m, n)
             \/ SendOk(m, n) \/ SendThrows(m, n) \/ Release(m, n)
             \/ Settle(m, n) \/ Crash(m, n)
      PROVE GivenInv'
  <2>1. policy' = policy /\ given' = given /\ run[<<m, n>>] # "none"
    BY <1>5 DEF TryClaim, StoreThrows, SendOk, SendThrows, Release, Settle, Crash, Active
  <2>2. \A x \in Msgs, k \in 1..MaxDeliver : <<x, k>> # <<m, n>> => run'[<<x, k>>] = run[<<x, k>>]
    BY <1>5 DEF TryClaim, StoreThrows, SendOk, SendThrows, Release, Settle, Crash, Goto, TypeOK, Runs
  <2> QED BY <2>1, <2>2 DEF GivenInv
<1>6. CASE UNCHANGED vars
  BY <1>6 DEF vars, GivenInv
<1> QED BY <1>2, <1>3, <1>4, <1>5, <1>6 DEF Next

\* No claim loses the handler that answers for it.
LEMMA OrphanStep ==
    ASSUME TypeOK, GivenInv, NoOrphanClaim, [Next]_vars
    PROVE  NoOrphanClaim'
<1> USE DeliveryAssumption, ChannelType
<1>1. sent \in [Channels -> Nat] /\ claim \subseteq Channels
  BY DEF TypeOK
<1>2. CASE PolicyStart \/ PolicyPublish \/ PolicyNak \/ PolicyAck \/ UNCHANGED vars
  BY <1>2 DEF PolicyStart, PolicyPublish, PolicyNak, PolicyAck, dispatchVars, vars, NoOrphanClaim
<1>3. ASSUME NEW m \in Msgs, Deliver(m) PROVE NoOrphanClaim'
  <2>1. given[m] + 1 \in 1..MaxDeliver /\ run[<<m, given[m] + 1>>] = "none"
    BY <1>3 DEF Deliver, TypeOK, GivenInv
  <2>2. Goto(m, given[m] + 1, "claim") /\ claim' = claim /\ sent' = sent
    BY <1>3 DEF Deliver
  <2> QED BY <1>1, <2>1, <2>2, AnswerStep DEF Answerable, Phases
<1>4. ASSUME NEW m \in Msgs, NEW n \in 1..MaxDeliver, TryClaim(m, n) PROVE NoOrphanClaim'
  <2>1. CASE claim' = claim \cup {ChannelOf(m)} /\ Goto(m, n, "send")
    BY <1>1, <1>4, <2>1, AnswerStep DEF TryClaim, Answerable, Phases
  <2>2. CASE claim' = claim /\ Goto(m, n, "ack")
    BY <1>1, <1>4, <2>2, AnswerStep DEF TryClaim, Answerable, Phases
  <2> QED BY <1>4, <2>1, <2>2 DEF TryClaim
<1>5. ASSUME NEW m \in Msgs, NEW n \in 1..MaxDeliver, StoreThrows(m, n) PROVE NoOrphanClaim'
  BY <1>1, <1>5, AnswerStep DEF StoreThrows, Answerable, Phases
<1>6. ASSUME NEW m \in Msgs, NEW n \in 1..MaxDeliver, SendOk(m, n) PROVE NoOrphanClaim'
  <2>1. ChannelOf(m) \in Channels /\ claim' = claim /\ Goto(m, n, "ack")
        /\ (Count(ChannelOf(m), 1) \/ Count(ChannelOf(m), 2))
    BY <1>6 DEF SendOk
  <2>2. /\ \A c \in Channels : sent'[c] \in Nat /\ sent'[c] >= sent[c]
        /\ sent'[ChannelOf(m)] > 0
    BY <1>1, <2>1 DEF Count
  <2> QED BY <2>1, <2>2, AnswerStep DEF Phases
<1>7. ASSUME NEW m \in Msgs, NEW n \in 1..MaxDeliver, SendThrows(m, n) PROVE NoOrphanClaim'
  <2>1. ChannelOf(m) \in Channels /\ claim' = claim /\ Goto(m, n, "release")
        /\ (sent' = sent \/ Count(ChannelOf(m), 1))
    BY <1>7 DEF SendThrows
  <2>2. \A c \in Channels : sent'[c] \in Nat /\ sent'[c] >= sent[c]
    BY <1>1, <2>1 DEF Count
  <2> QED BY <2>1, <2>2, AnswerStep DEF Answerable, Phases
<1>8. ASSUME NEW m \in Msgs, NEW n \in 1..MaxDeliver, Release(m, n) PROVE NoOrphanClaim'
  BY <1>1, <1>8, AnswerStep DEF Release, Phases
<1>9. ASSUME NEW m \in Msgs, NEW n \in 1..MaxDeliver, Settle(m, n) PROVE NoOrphanClaim'
  BY <1>1, <1>9, AnswerStep DEF Settle, Answerable, Phases
<1>10. ASSUME NEW m \in Msgs, NEW n \in 1..MaxDeliver, Crash(m, n) PROVE NoOrphanClaim'
  <2>1. ChannelOf(m) \in Channels /\ claim' = claim /\ Goto(m, n, "died")
        /\ (sent' = sent \/ Count(ChannelOf(m), 1))
    BY <1>10 DEF Crash
  <2>2. \A c \in Channels : sent'[c] \in Nat /\ sent'[c] >= sent[c]
    BY <1>1, <2>1 DEF Count
  <2> QED BY <2>1, <2>2, AnswerStep DEF Answerable, Phases
<1> QED BY <1>2, <1>3, <1>4, <1>5, <1>6, <1>7, <1>8, <1>9, <1>10 DEF Next

\* A claim without a send always has a handler that will send or release it, or
\* one that died or was failed by the store: redeliveries and failed sends of
\* sendWithDeliveryClaim leave none behind.
THEOREM NoOrphanClaimHolds == Spec => []NoOrphanClaim
<1>1. Init => GivenInv /\ NoOrphanClaim
  BY DEF Init, GivenInv, NoOrphanClaim, Runs
<1>2. TypeOK /\ GivenInv /\ NoOrphanClaim /\ [Next]_vars => GivenInv' /\ NoOrphanClaim'
  BY GivenStep, OrphanStep
<1> QED BY <1>1, <1>2, TypesHold, PTL DEF Spec
=============================================================================
