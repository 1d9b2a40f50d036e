--------------------------- MODULE ProviderAdapter ---------------------------
(***************************************************************************)
(* The provider-abstraction layer of src/src/kyc/providers/onfido.provider *)
(* .ts (OnfidoProvider, lines 1-204, and PersonaProvider, lines 205-450).  *)
(* Each provider owns a vocabulary of raw statuses that its webhook        *)
(* mapping folds onto the four canonical outcomes the lifecycle engine     *)
(* consumes; a raw status outside the table falls back to "pending".       *)
(* The HTTP calls themselves are outcomes (success or failure) chosen by   *)
(* the lifecycle model; only the translation tables are pure operators.    *)
(***************************************************************************)

\* The canonical outcomes of a provider webhook (the `status` union type).
Canonical == {"approved", "declined", "needs_review", "pending"}

\* A raw status no table knows (any string the provider may add later).
UnknownRaw == "unknown"

\* mapInquiryToResult: Persona's inquiry statuses.
PersonaRaw == {"approved", "declined", "failed", "needs_review", "pending",
               "created", "completed", UnknownRaw}

PersonaStatusMap ==
  [approved |-> "approved", declined |-> "declined", failed |-> "declined",
   needs_review |-> "needs_review", pending |-> "pending",
   created |-> "pending", completed |-> "approved"]

\* mapWorkflowRunToResult: Onfido's workflow-run statuses.
OnfidoRaw == {"approved", "declined", "review", "awaiting_input",
              "processing", "error", UnknownRaw}

OnfidoStatusMap ==
  [approved |-> "approved", declined |-> "declined", review |-> "needs_review",
   awaiting_input |-> "pending", processing |-> "pending",
   error |-> "declined"]

\* `statusMap[raw] ?? 'pending'`: look the raw status up, default pending.
MapStatus(table, raw) ==
  IF raw \in DOMAIN table THEN table[raw] ELSE "pending"

PersonaCanonical(raw) == MapStatus(PersonaStatusMap, raw)
OnfidoCanonical(raw)  == MapStatus(OnfidoStatusMap, raw)

\* The raw statuses a provider's webhook may carry, and their translation.
RawStatuses(provider) ==
  IF provider = "persona" THEN PersonaRaw ELSE OnfidoRaw

ToCanonical(provider, raw) ==
  IF provider = "persona" THEN PersonaCanonical(raw) ELSE OnfidoCanonical(raw)

\* The session-resume call of KycService.resumeKyc always goes to Persona,
\* whatever provider created the inquiry (kyc.service.ts line 181).
ResumeProvider == "persona"
=============================================================================
