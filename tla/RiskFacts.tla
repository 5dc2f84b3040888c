----------------------------- MODULE RiskFacts -----------------------------
(***************************************************************************)
(* The facts a piece of work is routed and reviewed by, and the two         *)
(* readings of them: the work router's (work_router.py) and the one of Plan *)
(* review (domain-runtime/risk_signals.py).                                 *)
(*                                                                          *)
(* A fact is "T", "F", "N" (null) or "-" (no such key).                     *)
(***************************************************************************)
EXTENDS FiniteSets

Values == {"T", "F", "N", "-"}

REQUIRED == {"existing_owner", "existing_capability", "bounded_writes", "deterministic_verification"}

RISKS == {"new_owner", "public_contract", "security_boundary", "schema_migration",
          "protocol_change", "external_dependency", "lifecycle_change",
          "cross_domain_ownership", "live_acceptance"}

SENSITIVE_TOUCH == {"security_sensitive_touch", "existing_lifecycle_wiring",
                    "cross_layer_existing_contract", "local_ui_acceptance",
                    "existing_public_contract_use", "existing_external_dependency_use"}

HARD_BOUNDARY == {"new_owner", "public_contract_change", "security_boundary_change",
                  "schema_migration", "protocol_change", "external_dependency_change",
                  "lifecycle_contract_change", "ownership_transfer",
                  "cross_domain_contract_change", "external_live_acceptance"}

V1_HARD_MAP == [public_contract |-> "public_contract_change",
                security_boundary |-> "security_boundary_change",
                external_dependency |-> "external_dependency_change",
                lifecycle_change |-> "lifecycle_contract_change",
                cross_domain_ownership |-> "cross_domain_contract_change",
                live_acceptance |-> "external_live_acceptance"]

AUTHORITY_FACTS == {"governed", "retained_production_change",
                    "production_write_requested", "durable_product_artifact_requested"}

ALL_FACTS == REQUIRED \cup RISKS \cup {"research_intent"} \cup AUTHORITY_FACTS
ALL_FACTS_V2 == ALL_FACTS \cup SENSITIVE_TOUCH \cup HARD_BOUNDARY
FactKeys == ALL_FACTS_V2 \cup {"research_only"}

HasV2Signals(f) == \E k \in SENSITIVE_TOUCH \cup (HARD_BOUNDARY \ RISKS) : f[k] # "-"

V1Of(k) == {v \in DOMAIN V1_HARD_MAP : V1_HARD_MAP[v] = k}

\* A key the v2 producer left out is read from its v1 name, but a sensitive
\* touch takes the v1 security boundary back.
HardBoundaryActive(f) ==
    IF ~HasV2Signals(f) THEN {k \in RISKS : f[k] # "F"}
    ELSE {k \in HARD_BOUNDARY :
            \/ f[k] = "T"
            \/ /\ f[k] = "-" /\ \E v \in V1Of(k) : f[v] = "T"
               /\ ~(k = "security_boundary_change" /\ f["security_sensitive_touch"] = "T")}

----------------------------------------------------------------------------
(* risk_signals.py *)

\* _effective_hard_keys: the value of a hard key, its v1 name's when it is left
\* out.  A v1 security boundary that is not true yields to a sensitive touch.
EffectiveHard(f, k) ==
    IF f[k] # "-" \/ V1Of(k) = {} THEN f[k]
    ELSE LET v == CHOOSE v \in V1Of(k) : TRUE
         IN  IF v = "security_boundary" /\ HasV2Signals(f)
                /\ f["security_sensitive_touch"] = "T" /\ f[v] \notin {"T", "-"}
             THEN "F" ELSE f[v]
=============================================================================
