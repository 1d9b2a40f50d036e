--------------------------- MODULE MC_WebhookVerifier ---------------------------
(* Model-checking instance of WebhookVerifier: two bodies, one of them in  *)
(* the compact JSON form.                                                  *)
EXTENDS WebhookVerifier

CONSTANTS b1, b2

MCBodies  == {b1, b2}
MCCompact == {b1}
=============================================================================
