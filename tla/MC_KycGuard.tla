------------------------------ MODULE MC_KycGuard ------------------------------
(* Model-checking instance of KycGuard: one user, two lifecycle slots and *)
(* two guarded requests.                                                  *)
EXTENDS KycGuard

CONSTANTS u1, p1, p2, g1, g2

MCUsers == {u1}
MCProcs == {p1, p2}
MCGates == {g1, g2}
=============================================================================
