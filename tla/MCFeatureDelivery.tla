-------------------------- MODULE MCFeatureDelivery --------------------------
(***************************************************************************)
(* FeatureDelivery on the feature the repository ships,                    *)
(* features/FEAT-SKILL-FIRST-001: one provider, one consumer, the items    *)
(* GRM-02, GRM-04 and GRM-05 of its roadmap.                               *)
(***************************************************************************)
EXTENDS FeatureDelivery

CONSTANTS
  c1, c2,
  FromStart, \* the revision to start from
  Delivered  \* whether every receipt is already complete

MCContractExit ==
  [GRM02 |-> {"RELEASED"}, GRM04 |-> {}, GRM05 |-> {}]
MCWorkExit ==
  [GRM02 |-> {}, GRM04 |-> {<<"copilot", "VERIFIED">>}, GRM05 |-> {}]

Claim(status, current, pinned, artifacts, commits, evidence) ==
  [form |-> "valid", status |-> status, current |-> current, pinned |-> pinned,
   artifacts |-> artifacts, commits |-> commits, evidence |-> evidence]

NoReceipt(form) ==
  [form |-> form, status |-> "BACKLOG", current |-> FALSE, pinned |-> FALSE,
   artifacts |-> FALSE, commits |-> {}, evidence |-> "none"]

ProviderDone == Claim("VERIFIED", TRUE, TRUE, FALSE, {c1}, "release")
ConsumerDone == Claim("DONE", TRUE, TRUE, TRUE, {c1}, "none")

MCReceipts ==
  IF Delivered
    THEN [nodeskclaw |-> {ProviderDone}, copilot |-> {ConsumerDone}]
    ELSE [nodeskclaw |-> {NoReceipt("missing"), ProviderDone},
          copilot    |-> {NoReceipt("unusable"), ConsumerDone,
                          Claim("VERIFIED", TRUE, FALSE, TRUE, {c2}, "none")}]

MCAttestations == {[commit |-> c1, current |-> TRUE], [commit |-> c2, current |-> FALSE]}

\* The revision the repository ships; history.yaml records the blocker.
Shipped ==
  [wp |-> [w \in WP |-> "IMPLEMENTING"], sync |-> [w \in WP |-> "MISSING_RECEIPT"],
   ledger |-> [w \in WP |-> Nothing], accept |-> [w \in WP |-> Nothing],
   contract |-> "CONFORMANCE_PASS", tagged |-> TRUE, pinned |-> TRUE,
   item |-> [GRM02 |-> "DONE", GRM04 |-> "ACTIVE", GRM05 |-> "BLOCKED"],
   feature |-> "IMPLEMENTING", scenario |-> "WAITING_CONSUMER", runs |-> <<>>,
   latest |-> 0,
   history |-> [empty |-> TRUE, state |-> "WAITING_CONSUMER", blocker |-> "IMPLEMENTING"]]

\* The same feature before its contract was released, after a first failed run of an
\* early integration, so that history.yaml is no longer empty.
Young ==
  [Shipped EXCEPT !.contract = "APPROVED",
                  !.item = [GRM02 |-> "ACTIVE", GRM04 |-> "PLANNED", GRM05 |-> "PLANNED"],
                  !.runs = <<"FAIL">>, !.latest = 1, !.scenario = "WAITING_PROVIDER",
                  !.history = [empty |-> FALSE, state |-> "FAIL", blocker |-> Nothing]]

Untagged == [Young EXCEPT !.tagged = FALSE, !.pinned = FALSE]

Released == [Young EXCEPT !.contract = "RELEASED", !.item["GRM02"] = "DONE"]

MCInitSot == CASE FromStart = "shipped"  -> {Shipped}
               [] FromStart = "young"    -> {Young}
               [] FromStart = "released" -> {Released}
               [] FromStart = "any"      -> {Shipped, Untagged, Released}
=============================================================================
