--------------------------- MODULE MCFindingBacklog ---------------------------
(* Two fingerprints: one that a report contains and one that it does not.    *)
EXTENDS FindingBacklog, TLC

CONSTANTS f1, f2

MCPrints == {f1, f2}
Symmetry == Permutations(MCPrints)
=============================================================================
