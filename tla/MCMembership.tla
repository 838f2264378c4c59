----------------------------- MODULE MCMembership -----------------------------
(* Two users who can found two orgs, invite, demote and disable each other,   *)
(* by two requests at a time.                                                 *)
EXTENDS Membership, TLC
CONSTANTS u1, u2, o1, o2, r1, r2
MCUsers == {u1, u2}
MCOrgs == {o1, o2}
MCRequests == {r1, r2}
Symmetry == Permutations(MCUsers) \cup Permutations(MCOrgs) \cup Permutations(MCRequests)
=============================================================================
