------------------------- MODULE MC_ContestFinalize -------------------------
(* ContestFinalize instantiated for TLC: three providers, two admins.      *)
EXTENDS ContestFinalize

CONSTANTS c1, c2, c3, a1, a2

MCProviders == {c1, c2, c3}
MCAdmins == {a1, a2}
MCRois == {-1, 2}
=============================================================================
