---------------------------- MODULE WorkRouting ----------------------------
(***************************************************************************)
(* The routing of one work item (work_router.py): from facts, and from what *)
(* vouches for them, to a governance profile.  Production routes through    *)
(* route_bound, with a work-facts envelope whose keys all name a source     *)
(* (work_facts.py); a legacy work authority (work_authority.py) is still    *)
(* read.  The caller loads the profile the canonical artifact has got       *)
(* before and passes it as previous, as references/work-routing-contract.md *)
(* asks.                                                                    *)
(*                                                                          *)
(* Digests are kept as whether they still hold, and of a provenance the     *)
(* kinds of source it names: one for the authority facts, one for the rest. *)
(***************************************************************************)
EXTENDS RiskFacts, Naturals

CONSTANTS
    Facts,      \* the fact maps an envelope or a caller may carry
    CallerFacts \* the ones a caller adds to an envelope

ASSUME FactsAssumption == Facts \cup CallerFacts \subseteq [FactKeys -> Values]

VARIABLES
    facts,   \* what is known of the work
    profile, \* governance_profile of the canonical artifact, "-" before any
    routed   \* what the last route said of these facts

routingVars == <<facts, profile, routed>>

Rank == [p \in {"-", "NONE", "LEAN", "FULL"} |->
    CASE p = "-" -> 0 [] p = "NONE" -> 1 [] p = "LEAN" -> 2 [] p = "FULL" -> 3]

DocumentKinds == {"ROADMAP", "FEATURE", "PRD", "PLAN"}
FORBIDDEN_ALONE == {"WORKER_ASSERTION", "MODEL_GUESS", "PROMPT_TEXT_ONLY"}

\* governing: the kind of source behind the authority facts; other: behind the
\* other facts.  complete: every key has a fact and a full entry, no other key
\* has one, and the digest is that of both; same: the files named are as digested.
Envelopes == [v2 : BOOLEAN, governing : {"PLAN", "ORCHESTRATOR_REQUEST", "DERIVED", "MODEL_GUESS"},
              other : {"PLAN", "ORCHESTRATOR_REQUEST"}, complete : BOOLEAN, same : BOOLEAN]

\* hard: the caller or the facts say that a hard boundary changes.
Unrouted == [profile |-> "-", research |-> FALSE, eligible |-> FALSE, hard |-> FALSE]

RoutingInit == facts \in Facts /\ profile = "-" /\ routed = Unrouted

----------------------------------------------------------------------------
(* work_facts.py *)

\* build_envelope: a key nobody supplied is null; a v2 key promotes the schema.
KeysOf(v2) == IF v2 \/ \E k \in ALL_FACTS_V2 \ ALL_FACTS : facts[k] # "-" THEN ALL_FACTS_V2 ELSE ALL_FACTS
EnvelopeFacts(v2) ==
    [k \in FactKeys |-> IF k \notin KeysOf(v2) THEN "-" ELSE IF facts[k] = "-" THEN "N" ELSE facts[k]]

\* verify_envelope = VERIFIED, in the repository of the work.  A request names
\* no file.  Ungoverned work is vouched for by a request, never by a document.
VerifyEnvelope(e) ==
    /\ e.complete
    /\ {e.governing, e.other} \cap FORBIDDEN_ALONE = {}
    /\ facts["governed"] = "F" =>
          e.governing # "DERIVED" /\ {e.governing, e.other} \cap DocumentKinds = {}
    /\ e.same \/ {e.governing, e.other} = {"ORCHESTRATOR_REQUEST"}

RISK_OR_PRODUCTION == RISKS \cup HARD_BOUNDARY \cup AUTHORITY_FACTS

ConservativeMerge(base, overlay) ==
    [k \in FactKeys |->
        IF overlay[k] = "-" THEN base[k]
        ELSE IF k \notin RISK_OR_PRODUCTION THEN overlay[k]
        ELSE IF "T" \in {base[k], overlay[k]} THEN "T"
        ELSE IF base[k] \in {"N", "-"} \/ overlay[k] = "F" THEN overlay[k]
        ELSE base[k]]

----------------------------------------------------------------------------
(* work_authority.py: four facts with sources, whose files nobody looks at. *)

Authorities == [facts : [AUTHORITY_FACTS -> {"T", "F"}], valid : BOOLEAN]

MergeRouteFacts(f, a) ==
    [k \in FactKeys |-> IF k \notin AUTHORITY_FACTS THEN f[k] ELSE IF a.valid THEN a.facts[k] ELSE "-"]

----------------------------------------------------------------------------
(* work_router.py *)

ResearchIntent(f) == IF f["research_intent"] # "-" THEN f["research_intent"] = "T" ELSE f["research_only"] = "T"

EffectiveResearchOnly(f, previous) ==
    ResearchIntent(f) /\ previous \in {"-", "NONE"} /\ \A k \in AUTHORITY_FACTS : f[k] = "F"

BoundedForgets(f, previous) ==  \* mutant: the profile before is forgotten
    (\A k \in REQUIRED : f[k] = "T") /\ HardBoundaryActive(f) = {}

\* A hard boundary, or a FULL profile before, excludes bounded work.
Bounded(f, previous) ==
    (\A k \in REQUIRED : f[k] = "T") /\ HardBoundaryActive(f) = {} /\ previous # "FULL"

\* route, on merged facts.  Research that nobody vouches for, and research
\* whose authority facts deny it, is FULL.
Route(f, previous, verified) ==
    IF ResearchIntent(f) /\ previous \in {"-", "NONE"}
    THEN IF EffectiveResearchOnly(f, previous) /\ verified THEN "NONE" ELSE "FULL"
    ELSE IF ~Bounded(f, previous) THEN "FULL"
    ELSE IF f["governed"] = "T" \/ previous = "LEAN" \/ ~verified THEN "LEAN" ELSE "NONE"

\* derive_feature_complexity: an invalid scope leaves no LEAN permit.
Scoped(p, invalid) == IF invalid /\ p = "LEAN" THEN "FULL" ELSE p

Routes(f, told, p, eligible) ==
    /\ profile' = p
    /\ routed' = [profile |-> p, eligible |-> eligible,
                  research |-> p = "NONE" /\ EffectiveResearchOnly(f, profile),
                  hard |-> \E k \in HARD_BOUNDARY : "T" \in {told[k], facts[k]}]
    /\ UNCHANGED facts

\* An envelope that is not verified, or without its repository, is FULL.
RouteBound(e, caller, hasRepo, invalidScope) ==
    LET f == ConservativeMerge(caller, EnvelopeFacts(e.v2))
        verified == hasRepo /\ VerifyEnvelope(e)
        p == IF verified THEN Route(f, profile, TRUE) ELSE "FULL"
    IN  Routes(f, caller, Scoped(p, invalidScope), p = "NONE")

RouteByAuthority(a) ==
    LET f == MergeRouteFacts(facts, a) IN Routes(f, facts, Route(f, profile, a.valid), FALSE)

\* --unsafe-raw-facts, for tests: never NONE, never a receipt.
RouteRaw == Routes(facts, facts, Route(facts, profile, FALSE), FALSE)

FactsChange ==
    /\ facts' \in Facts /\ routed' = Unrouted
    /\ UNCHANGED profile

RoutingNext ==
    \/ \E e \in Envelopes, c \in CallerFacts, r, s \in BOOLEAN : RouteBound(e, c, r, s)
    \/ \E a \in Authorities : RouteByAuthority(a)
    \/ RouteRaw \/ FactsChange

RoutingSpec == RoutingInit /\ [][RoutingNext]_routingVars

----------------------------------------------------------------------------
\* However the facts of a work item change and whoever vouches for them, no
\* route takes its profile down, FULL to LEAN or LEAN to NONE; and work of which
\* its facts or its caller say that it changes a hard boundary is FULL, whichever
\* way it is routed and whatever the other side leaves unsaid, unless it is
\* research that retains nothing (route, conservative_merge, SKILL.md).
RoutesAreConservative ==
    [][/\ Rank[profile'] >= Rank[profile]
       /\ routed'.hard => routed'.profile \in {"-", "FULL"} \/ routed'.research]_routingVars
=============================================================================
