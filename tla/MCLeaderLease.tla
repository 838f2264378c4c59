---------------------------- MODULE MCLeaderLease ----------------------------
(* Two replicas under every fault.  The renewal and the tick of a process     *)
(* overlap and share its flag held; ticks overlap each other in               *)
(* MCScanSchedule.                                                            *)
EXTENDS LeaderLease

CONSTANTS r1, r2, m1, k1

MCReplicas == {r1, r2}
MCTimers == {m1}
MCTicks == {k1}
MCFaults == AllFaults
=============================================================================
