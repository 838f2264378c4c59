---------------------------- MODULE MCScanSchedule ----------------------------
(* Two replicas that may each have two ticks under way, a cadence and a TTL of *)
(* two time units and one unit more: a target falls due again, also after a    *)
(* crash of the leader or a lease that ran out under a sweep.                  *)
EXTENDS ScanSchedule, TLC

CONSTANTS r1, r2, m1, k1, k2, t1, t2

MCReplicas == {r1, r2}
MCTimers == {m1}
MCTicks == {k1, k2}
MCTargets == {t1}
MCCadence == [t \in MCTargets |-> 2]
Symmetry == Permutations(MCReplicas) \cup Permutations(MCTicks)
MCFaults == {"down"}
=============================================================================
