---------------------------- MODULE PolicyDelivery ----------------------------
(***************************************************************************)
(* notification-service on one policy violation (one finding, one policy): *)
(* the policy consumer turns the ctem.policy.violated event into one       *)
(* ctem.notification.requested message per wanted channel, and the         *)
(* dispatch consumer sends each message behind a claim row that is         *)
(* inserted before the send and deleted when the send fails.               *)
(*                                                                         *)
(* Both consumers are JetStream durables: a handler that throws is         *)
(* delivered again, one whose process dies or is slower than ackWait too,  *)
(* up to a number of deliveries.  A redelivered policy event publishes its *)
(* messages again under fresh ids.                                         *)
(***************************************************************************)
EXTENDS Integers, FiniteSets

CONSTANTS
    Wanted,          \* the channels the violation's actions ask for
    MaxDeliver,      \* deliveries of one message
    PolicyDeliver,   \* deliveries of the policy event
    Faults           \* which of AllFaults may happen

Channels == {"slack", "jira"}
AllFaults == {"crash",    \* a handler's process dies
              "late",     \* a handler is slower than ackWait
              "db",       \* the claim store throws
              "unsure"}   \* a send that reached the channel reports a failure

ASSUME DeliveryAssumption ==
    /\ Wanted \subseteq Channels
    /\ MaxDeliver \in Nat
    /\ PolicyDeliver \in Nat
    /\ Faults \subseteq AllFaults

VARIABLES
    policy,    \* the policy event: deliveries so far, what the handler is at
    run,       \* the handler of each delivery of each message
    given,     \* deliveries of each message so far, -1 before it exists
    acked,     \* messages that are done
    claim,     \* channels with a row in notification_delivery_claims
    sent,      \* how often each channel really got the notification
    doubted,   \* history: channels that took a send which was not counted as one
    skipped    \* messages that were answered `duplicate`

vars == <<policy, run, given, acked, claim, sent, doubted, skipped>>

\* A message is known by the delivery of the policy event that published it.
Msgs == (1..PolicyDeliver) \X Channels
ChannelOf(m) == m[2]
Runs == Msgs \X (1..MaxDeliver)
\* broke: ended by an error of the store; died: with its process.
Phases == {"none", "claim", "send", "release", "nak", "ack", "over", "broke", "died"}

\* The type invariant.
TypeOK ==
    /\ policy \in [tries : 0..PolicyDeliver,
                   at : {"waiting", "slack", "jira", "ack", "acked", "dead"}]
    /\ run \in [Runs -> Phases]
    /\ given \in [Msgs -> (0..MaxDeliver) \cup {-1}]
    /\ acked \in SUBSET Msgs
    /\ claim \in SUBSET Channels
    /\ sent \in [Channels -> Nat]
    /\ doubted \in SUBSET Channels
    /\ skipped \in SUBSET Msgs

Init ==
    /\ policy = [tries |-> 0, at |-> "waiting"]
    /\ run = [x \in Runs |-> "none"]
    /\ given = [m \in Msgs |-> -1]
    /\ acked = {}
    /\ claim = {}
    /\ sent = [c \in Channels |-> 0]
    /\ doubted = {}
    /\ skipped = {}

dispatchVars == <<run, acked, claim, sent, doubted, skipped>>

-----------------------------------------------------------------------------
(***************************************************************************)
(* notification-policy: dispatchPolicyViolated                             *)
(***************************************************************************)
\* The event is delivered, for the first time or again.
PolicyStart ==
    /\ policy.at = "waiting"
    /\ policy.tries < PolicyDeliver
    /\ policy' = [tries |-> policy.tries + 1, at |-> "slack"]
    /\ UNCHANGED <<dispatchVars, given>>

\* Slack first, then Jira; a channel that is not wanted is passed over.
PolicyPublish ==
    /\ policy.at \in Channels
    /\ policy' = [policy EXCEPT !.at = IF @ = "slack" THEN "jira" ELSE "ack"]
    /\ given' = IF policy.at \in Wanted
                  THEN [given EXCEPT ![<<policy.tries, policy.at>>] = 0]
                  ELSE given
    /\ UNCHANGED dispatchVars

\* A publish throws, or the process dies before the ack: JetStream delivers
\* the event again until its deliveries are used up.
PolicyNak ==
    /\ policy.at \in {"slack", "jira"} \/ (policy.at = "ack" /\ "crash" \in Faults)
    /\ policy' = [policy EXCEPT !.at = IF policy.tries < PolicyDeliver THEN "waiting" ELSE "dead"]
    /\ UNCHANGED <<dispatchVars, given>>

PolicyAck ==
    /\ policy.at = "ack"
    /\ policy' = [policy EXCEPT !.at = "acked"]
    /\ UNCHANGED <<dispatchVars, given>>

-----------------------------------------------------------------------------
(***************************************************************************)
(* notification-dispatch: sendWithDeliveryClaim                            *)
(***************************************************************************)
Goto(m, n, phase) == run' = [run EXCEPT ![<<m, n>>] = phase]
Active(m, n) == run[<<m, n>>] \in {"claim", "send", "release", "nak", "ack"}
AnyActive(m) == \E n \in 1..MaxDeliver : Active(m, n)

\* Mutant: no bound on the deliveries.
DeliverForever(m) ==
    /\ m \notin acked
    /\ given[m] >= 0
    /\ AnyActive(m) => "late" \in Faults
    /\ given' = [given EXCEPT ![m] = @ + 1]
    /\ Goto(m, given[m] + 1, "claim")
    /\ UNCHANGED <<policy, acked, claim, sent, doubted, skipped>>

\* JetStream delivers a message: new, nak'ed, or past its ackWait.
Deliver(m) ==
    /\ m \notin acked
    /\ given[m] \in 0..(MaxDeliver - 1)
    /\ AnyActive(m) => "late" \in Faults
    /\ given' = [given EXCEPT ![m] = @ + 1]
    /\ Goto(m, given[m] + 1, "claim")
    /\ UNCHANGED <<policy, acked, claim, sent, doubted, skipped>>

\* Mutant: a taken claim does not stop the send.
TryClaimIgnored(m, n) ==
    /\ run[<<m, n>>] = "claim"
    /\ claim' = claim \cup {ChannelOf(m)}
    /\ Goto(m, n, "send")
    /\ UNCHANGED <<policy, given, acked, sent, doubted, skipped>>

\* tryClaim inserts the row, or meets the unique index: `duplicate`, skipped
\* and acked.
TryClaim(m, n) ==
    /\ run[<<m, n>>] = "claim"
    /\ \/ /\ ChannelOf(m) \notin claim
          /\ claim' = claim \cup {ChannelOf(m)}
          /\ Goto(m, n, "send")
          /\ UNCHANGED skipped
       \/ /\ ChannelOf(m) \in claim
          /\ skipped' = skipped \cup {m}
          /\ Goto(m, n, "ack")
          /\ UNCHANGED claim
    /\ UNCHANGED <<policy, given, acked, sent, doubted>>

\* The store throws on the insert or on the delete, which may have been done
\* when the answer is lost; the message is nak'ed.
StoreThrows(m, n) ==
    /\ "db" \in Faults
    /\ \/ run[<<m, n>>] \in {"claim", "release"} /\ UNCHANGED claim
       \/ run[<<m, n>>] = "claim" /\ claim' = claim \cup {ChannelOf(m)}
       \/ run[<<m, n>>] = "release" /\ claim' = claim \ {ChannelOf(m)}
    /\ Goto(m, n, "broke")
    /\ UNCHANGED <<policy, given, acked, sent, doubted, skipped>>

Count(c, k) == sent' = [sent EXCEPT ![c] = @ + k]

\* channel.send returns; (unsure) an attempt it retried had arrived too.
SendOk(m, n) ==
    /\ run[<<m, n>>] = "send"
    /\ \/ Count(ChannelOf(m), 1) /\ UNCHANGED doubted
       \/ /\ "unsure" \in Faults
          /\ Count(ChannelOf(m), 2)
          /\ doubted' = doubted \cup {ChannelOf(m)}
    /\ Goto(m, n, "ack")
    /\ UNCHANGED <<policy, given, acked, claim, skipped>>

\* channel.send throws: refused, circuit open, or (unsure) timed out after the
\* channel had taken it.
SendThrows(m, n) ==
    /\ run[<<m, n>>] = "send"
    /\ \/ UNCHANGED <<sent, doubted>>
       \/ /\ "unsure" \in Faults
          /\ Count(ChannelOf(m), 1)
          /\ doubted' = doubted \cup {ChannelOf(m)}
    /\ Goto(m, n, "release")
    /\ UNCHANGED <<policy, given, acked, claim, skipped>>

\* Mutant: the claim of a failed send is kept.
ReleaseKeeps(m, n) ==
    /\ run[<<m, n>>] = "release"
    /\ Goto(m, n, "nak")
    /\ UNCHANGED <<policy, given, acked, claim, sent, doubted, skipped>>

\* release deletes the row and the send's error is rethrown.
Release(m, n) ==
    /\ run[<<m, n>>] = "release"
    /\ claim' = claim \ {ChannelOf(m)}
    /\ Goto(m, n, "nak")
    /\ UNCHANGED <<policy, given, acked, sent, doubted, skipped>>

\* Mutant: a failed handler is acked too.
SettleAcksAll(m, n) ==
    /\ run[<<m, n>>] \in {"ack", "nak"}
    /\ acked' = acked \cup {m}
    /\ Goto(m, n, "over")
    /\ UNCHANGED <<policy, given, claim, sent, doubted, skipped>>

\* handleMessage acks the handled message or naks the failed one.
Settle(m, n) ==
    /\ run[<<m, n>>] \in {"ack", "nak"}
    /\ acked' = IF run[<<m, n>>] = "ack" THEN acked \cup {m} ELSE acked
    /\ Goto(m, n, "over")
    /\ UNCHANGED <<policy, given, claim, sent, doubted, skipped>>

\* The process dies; what it had written stays, and the send it was waiting for
\* may have arrived.
Crash(m, n) ==
    /\ "crash" \in Faults
    /\ Active(m, n)
    /\ UNCHANGED sent \/ (run[<<m, n>>] = "send" /\ Count(ChannelOf(m), 1))
    /\ Goto(m, n, "died")
    /\ UNCHANGED <<policy, given, acked, claim, doubted, skipped>>

Next ==
    \/ PolicyStart \/ PolicyPublish \/ PolicyNak \/ PolicyAck
    \/ \E m \in Msgs : Deliver(m)
    \/ \E m \in Msgs, n \in 1..MaxDeliver :
          \/ TryClaim(m, n) \/ StoreThrows(m, n)
          \/ SendOk(m, n) \/ SendThrows(m, n) \/ Release(m, n)
          \/ Settle(m, n) \/ Crash(m, n)

Spec == Init /\ [][Next]_vars

\* JetStream delivers what is pending and handlers run to their end.
Fairness ==
    /\ WF_vars(PolicyStart) /\ WF_vars(PolicyPublish) /\ WF_vars(PolicyAck)
    /\ \A m \in Msgs : WF_vars(Deliver(m))
    /\ \A m \in Msgs, n \in 1..MaxDeliver :
          WF_vars(TryClaim(m, n) \/ SendOk(m, n) \/ SendThrows(m, n) \/ Release(m, n)
                  \/ Settle(m, n))

LiveSpec == Spec /\ Fairness

-----------------------------------------------------------------------------
(***************************************************************************)
(* Properties                                                              *)
(***************************************************************************)
\* A channel hears of one violation at most once, whatever is redelivered or
\* published again, late, by a crashed handler or with a failing store, unless
\* a send that arrived was taken for a failure.
AtMostOnce == \A c \in Channels : c \notin doubted => sent[c] <= 1

\* A claim without a send has a handler that will send or release it, or one
\* that died or was failed by the store on the way: redeliveries that overlap
\* and sends that fail leave no claim behind to block the channel.
NoOrphanClaim ==
    \A c \in claim :
        sent[c] > 0 \/ \E m \in Msgs, n \in 1..MaxDeliver :
                          /\ ChannelOf(m) = c
                          /\ run[<<m, n>>] \in {"send", "release", "broke", "died"}

Exhausted(m) == given[m] = MaxDeliver /\ ~AnyActive(m)

\* A published message is sent, unless the send of every delivery failed or a
\* delivery was answered `duplicate`: no failed send ends with an ack.
Notified ==
    \A m \in Msgs :
        given[m] >= 0 ~> (sent[ChannelOf(m)] > 0 \/ Exhausted(m) \/ m \in skipped)
=============================================================================
