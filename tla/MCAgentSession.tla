--------------------------- MODULE MCAgentSession ---------------------------
(***************************************************************************)
(* The stages of one work item: its roadmap row, its route, the Plan that  *)
(* is seeded from the PRD under the domain policy, the review of the Plan,  *)
(* the agents that carry it out, the delivery record.  A behaviour is one   *)
(* of the stages, from every state it may begin in: what a stage leaves to  *)
(* the next one, the profile and the risk in the Plan's text, is among      *)
(* those.                                                                   *)
(***************************************************************************)
EXTENDS WorkRouting, PlanReview, Continuation, DeliveryRun, Roadmap, DomainPolicy

VARIABLE stage

sessionVars == <<stage, routingVars, reviewVars, continuationVars, runVars, roadmapVars,
                 domainVars>>

\* One fact of every kind that the routes tell apart; the others are known and
\* harmless.
Plain(k) == IF k \in REQUIRED THEN "T" ELSE IF k \in RISKS \cup AUTHORITY_FACTS THEN "F" ELSE "-"
With(f) == [k \in FactKeys |-> IF k \in DOMAIN f THEN f[k] ELSE Plain(k)]
MCFacts == {With(f) : f \in [existing_owner : {"T", "N"}, governed : {"T", "F", "N"},
    security_boundary : {"T", "F", "N"}, security_boundary_change : {"T", "-"},
    security_sensitive_touch : {"T", "-"}, production_write_requested : {"T", "F"},
    research_intent : {"T", "-"}]}
Silent == [k \in FactKeys |-> "-"]
MCCallerFacts == {Silent, [Silent EXCEPT !["security_boundary_change"] = "T"]}

Text(revision, governance, snapshot, contract) ==
    [revision |-> revision, profile |-> governance, snapshot |-> snapshot, contradicts |-> FALSE,
     contract |-> contract, cleared |-> snapshot = "LOW", reentry |-> FALSE]
MCTexts ==
    {Text(0, "LEAN", "LOW", "acceptance"), Text(1, "LEAN", "LOW", "acceptance"),
     Text(0, "LEAN", "HIGH", "acceptance"), Text(0, "LEAN", "ABSENT", "legacy"),
     [Text(0, "FULL", "LOW", "unknown") EXCEPT !.contradicts = TRUE],
     [Text(0, "LEAN", "LOW", "v3.7") EXCEPT !.reentry = TRUE]}

\* A PRD that concerns no domain.
OrdinaryPrd ==
    /\ prd.profile = "LEAN" /\ \A d \in Domains, c \in ChangeIds : prd.intent[d][c] = NoRow /\ prd.kind[c] = "api"
    /\ \A d \in Domains : policy.mode[d] = "absent" /\ policy.rules[d] = {}

MCInit ==
    /\ stage \in {"routing", "review", "execution", "delivery", "roadmap", "domains"}
    /\ RoutingInit /\ (stage # "routing" => facts = With([research_intent |-> "-"]))
    /\ ReviewInit /\ (stage # "review" => text = Text(0, "LEAN", "LOW", "acceptance"))
    /\ ContinuationInit /\ (open <=> stage = "execution")
    /\ RunInit /\ (stage # "delivery" => \A p \in Paths : tree.file[p] = 0)
    /\ RoadmapInit /\ (stage # "roadmap" => \A i \in Items : rows[i].needs = {})
    /\ DomainInit /\ (stage # "domains" => OrdinaryPrd)

Routing == stage = "routing" /\ RoutingNext
           /\ UNCHANGED <<stage, reviewVars, continuationVars, runVars, roadmapVars, domainVars>>
Review == stage = "review" /\ ReviewNext
          /\ UNCHANGED <<stage, routingVars, continuationVars, runVars, roadmapVars, domainVars>>
Executing(A) == stage = "execution" /\ A
                /\ UNCHANGED <<stage, routingVars, reviewVars, runVars, roadmapVars, domainVars>>
Delivery == stage = "delivery" /\ RunNext
            /\ UNCHANGED <<stage, routingVars, reviewVars, continuationVars, roadmapVars, domainVars>>
Planning(A) == stage = "roadmap" /\ A
               /\ UNCHANGED <<stage, routingVars, reviewVars, continuationVars, runVars, domainVars>>
Binding(A) == stage = "domains" /\ A
              /\ UNCHANGED <<stage, routingVars, reviewVars, continuationVars, runVars, roadmapVars>>

MCNext == Routing \/ Review \/ Executing(ContinuationNext) \/ Delivery \/ Planning(RoadmapNext) \/ Binding(DomainNext)

MCSpec ==
    /\ MCInit /\ [][MCNext]_sessionVars
    /\ \A a \in Agents :
          /\ WF_sessionVars(Executing(GateRead(a)))
          /\ WF_sessionVars(Executing(GateWrite(a)))
    /\ WF_sessionVars(Planning(Judge))
    /\ WF_sessionVars(Planning(Delivers))
    /\ WF_sessionVars(Planning(Proceeds))
    /\ WF_sessionVars(Binding(AnswersErrors))
    /\ WF_sessionVars(Binding(Validate))

\* These promises are each about the behaviours of one stage: the owner's
\* roadmap decisions come to an end, the Plan of a PRD that can be met gets valid,
\* agents that the continuation gate keeps at work are let go (roadmap_update.py,
\* create_plan_seed_v37.py, validate_plan_v37.py, execution_context.py).
StagesComplete ==
    /\ stage = "execution" => AgentsAreReleased
    /\ stage = "roadmap" => RoadmapCompletes
    /\ stage = "domains" => PlanGetsValid
=============================================================================
