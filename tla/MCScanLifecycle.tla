--------------------------- MODULE MCScanLifecycle ---------------------------
(* Small instances of ScanLifecycle: one scan of at most two assets.  Scans  *)
(* share no row and no message, so one scan shows every interleaving of its  *)
(* own jobs; the kick itself, where requests do interact, is ScanKick.       *)
EXTENDS ScanLifecycle, TLC

MCScanOf == [j \in Jobs |-> CHOOSE s \in Scans : TRUE]
Symmetric == Permutations(Jobs)
=============================================================================
