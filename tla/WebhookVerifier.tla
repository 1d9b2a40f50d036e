---------------------------- MODULE WebhookVerifier ----------------------------
(***************************************************************************)
(* Inbound webhook authentication: the two endpoints of KycController     *)
(* (src/src/kyc/kyc.controller.ts 93-124) hand the raw body and signature  *)
(* header to PersonaProvider.verifyWebhookSignature (HMAC-SHA256 over      *)
(* `${t}.${rawBody}` plus a 300 s age check) and                           *)
(* OnfidoProvider.verifyWebhookSignature (HMAC-SHA256 over the raw body,   *)
(* no timestamp), both in src/src/kyc/providers/onfido.provider.ts.        *)
(*                                                                         *)
(* HMAC is a symbolic value <<key, message>>: equal only for equal key and *)
(* message, and computable only by who holds the key.  The network may     *)
(* deliver a genuine webhook late or more than once, and an attacker, who  *)
(* holds no key, may send any body with any timestamp and any signature it *)
(* has seen.  Time is in units of 100 s, so the 300 s window is 3.         *)
(***************************************************************************)
EXTENDS Integers, FiniteSets

CONSTANTS
  Bodies,       \* raw request bodies the providers send (model values)
  Compact,      \* the bodies that JSON.stringify(JSON.parse(b)) reproduces
  RawBody,      \* is the Nest app created with rawBody: true
  Window,       \* the replay window, 300 s
  MaxClock,     \* bound on the clock
  MaxSends,     \* bound on webhooks the providers send
  MaxReceives   \* bound on requests reaching the endpoints

ASSUME Compact \subseteq Bodies /\ RawBody \in BOOLEAN

Providers == {"persona", "onfido"}
NotSet    == -1                 \* a header part that is missing
Times     == 0..MaxClock
NoSig     == <<>>               \* a missing v1 part or signature header
Garbage   == <<"garbage">>      \* a signature no key produced

\* The webhook secrets; only the provider and the server hold them.
Key == [persona |-> "persona_secret", onfido |-> "onfido_token"]

Hmac(k, m) == <<"hmac", k, m>>

VARIABLES
  now,       \* the server's clock
  sent,      \* webhooks the providers signed: [prov, body, t]
  accepted,  \* requests that passed verification: [prov, body, t, at]
  received,  \* requests handled so far
  last       \* the latest request: [prov, body, hdr, at, ok]

vars == <<now, sent, accepted, received, last>>

\* The header a provider attaches to a webhook signed at t: Persona signs
\* "<t>.<body>", Onfido the body.
GenuineHeader(p, b, t) ==
  IF p = "persona"
    THEN [t |-> t, v1 |-> Hmac(Key.persona, <<t, b>>)]
    ELSE [t |-> NotSet, v1 |-> Hmac(Key.onfido, b)]

\* Every signature that has crossed the network.
Seen == {GenuineHeader(w.prov, w.body, w.t).v1 : w \in sent}

\* JSON.stringify(payload) of a body Nest parsed: the same text only for a
\* body already in JSON.stringify's compact form.
Stringify(b) == IF b \in Compact THEN b ELSE <<"reformatted", b>>

\* `req.rawBody?.toString() ?? JSON.stringify(payload)`.
ReceivedBody(b) == IF RawBody THEN b ELSE Stringify(b)

\* Mutant of PersonaSignedPayload: the timestamp is left out.
PersonaSignedBodyOnly(t, raw) == raw

\* `${timestamp}.${rawBody}`: the timestamp string, a dot, the body.
PersonaSignedPayload(t, raw) == <<t, raw>>

\* Mutant of SignatureMatches: the expected digest is compared with itself.
SignatureMatchesSelf(expected, got) == expected = expected

\* crypto.timingSafeEqual(expected, received); unequal lengths throw and
\* the catch returns false, which this equality subsumes.
SignatureMatches(expected, got) == expected = got

\* Mutant of WebhookAge: the subtraction is swapped.
WebhookAgeSwapped(t) == t - now

\* `Date.now() / 1000 - parseInt(timestamp, 10)`.
WebhookAge(t) == now - t

\* PersonaProvider.verifyWebhookSignature.
PersonaVerify(raw, hdr) ==
  /\ hdr.t # NotSet /\ hdr.v1 # NoSig
  /\ ~(WebhookAge(hdr.t) > Window)
  /\ SignatureMatches(Hmac(Key.persona, PersonaSignedPayload(hdr.t, raw)), hdr.v1)

\* OnfidoProvider.verifyWebhookSignature.
OnfidoVerify(raw, hdr) == SignatureMatches(Hmac(Key.onfido, raw), hdr.v1)

Verify(p, raw, hdr) ==
  IF p = "persona" THEN PersonaVerify(raw, hdr) ELSE OnfidoVerify(raw, hdr)

-----------------------------------------------------------------------------
\* A provider signs and sends a webhook; the provider's clock is the server's.
ProviderSend(p, b) ==
  /\ Cardinality(sent) < MaxSends
  /\ sent' = sent \cup {[prov |-> p, body |-> b, t |-> now]}
  /\ UNCHANGED <<now, accepted, received, last>>

\* A request reaches endpoint p: the controller takes the raw body, the
\* provider checks the signature, and a request that fails is refused with
\* BadRequest before anything else happens.
Receive(p, b, hdr) ==
  /\ received < MaxReceives
  /\ received' = received + 1
  /\ LET ok == Verify(p, ReceivedBody(b), hdr) IN
       /\ accepted' = IF ok THEN accepted \cup {[prov |-> p, body |-> b,
                                                  t |-> hdr.t, at |-> now]}
                     ELSE accepted
       /\ last' = [prov |-> p, body |-> b, hdr |-> hdr, at |-> now, ok |-> ok]
  /\ UNCHANGED <<now, sent>>

\* The network delivers a genuine webhook, on time, late, or again.
Deliver ==
  \E w \in sent : Receive(w.prov, w.body, GenuineHeader(w.prov, w.body, w.t))

\* An attacker sends any body with a header built from what it has seen.
Forge ==
  \E p \in Providers, b \in Bodies, t \in Times \cup {NotSet},
     sig \in Seen \cup {Garbage, NoSig} :
       Receive(p, b, [t |-> IF p = "persona" THEN t ELSE NotSet, v1 |-> sig])

Tick == now < MaxClock /\ now' = now + 1 /\ UNCHANGED <<sent, accepted, received, last>>

Init ==
  /\ now = 0 /\ sent = {} /\ accepted = {} /\ received = 0
  /\ last = [prov |-> "none", body |-> CHOOSE b \in Bodies : TRUE,
             hdr |-> [t |-> NotSet, v1 |-> NoSig], at |-> 0, ok |-> FALSE]

Next ==
  \/ \E p \in Providers, b \in Bodies : ProviderSend(p, b)
  \/ Deliver \/ Forge \/ Tick
  \/ UNCHANGED vars /\ now = MaxClock /\ received = MaxReceives

Spec == Init /\ [][Next]_vars

-----------------------------------------------------------------------------
\* Only a provider can get a webhook accepted: every accepted request
\* carries a body (and, for Persona, a timestamp) that the provider signed,
\* whatever an attacker recombines from bodies, timestamps and signatures
\* it has seen.
AcceptedAuthentic ==
  \A a \in accepted :
    \E w \in sent : w.prov = a.prov /\ w.body = a.body
                    /\ (a.prov = "persona" => w.t = a.t)

\* Persona's replay window: a Persona webhook is accepted at most 300 s
\* after Persona signed it, however late it is delivered or replayed.
PersonaAcceptedFresh ==
  \A a \in accepted :
    a.prov = "persona" =>
      \E w \in sent : w.prov = "persona" /\ w.body = a.body /\ w.t = a.t
                      /\ a.at - w.t <= Window

\* Spec 4.3 (HMAC over the exact raw request body): a genuine webhook that
\* arrives within the window unaltered is accepted.
GenuineAccepted ==
  \A w \in sent :
    LET genuine == /\ last.prov = w.prov /\ last.body = w.body
                   /\ last.hdr = GenuineHeader(w.prov, w.body, w.t)
        inWindow == w.prov = "persona" => last.at - w.t <= Window
    IN  genuine /\ inWindow => last.ok
=============================================================================
