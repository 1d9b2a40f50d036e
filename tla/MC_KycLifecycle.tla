--------------------------- MODULE MC_KycLifecycle ---------------------------
(* Model-checking instance of KycLifecycle: one user, two request slots.  *)
EXTENDS KycLifecycle

CONSTANTS u1, p1, p2

MCUsers == {u1}
MCProcs == {p1, p2}
MCSymmetry == Permutations(MCProcs)
=============================================================================
