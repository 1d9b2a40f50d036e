---------------------------- MODULE MC_KycEvents ----------------------------
(* Model-checking instance of KycEvents: one user, two request slots.     *)
EXTENDS KycEvents

CONSTANTS u1, p1, p2

MCUsers == {u1}
MCProcs == {p1, p2}
MCSymmetry == Permutations(MCProcs)
=============================================================================
