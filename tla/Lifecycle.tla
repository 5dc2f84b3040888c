------------------------------ MODULE Lifecycle ------------------------------
(***************************************************************************)
(* The lifecycle graphs of contracts/lifecycle/states.yaml, the maturity   *)
(* orders of tools/governance_lib.py, and what the breadth-first search of *)
(* the reconcilers finds in a graph.  A graph maps a state to the set of   *)
(* its successors; of several shortest paths the search may take any here, *)
(* because a walk is observed at its end.                                  *)
(***************************************************************************)
EXTENDS Integers, Sequences, FiniteSets

ContractNext ==
  [DRAFT            |-> {"CANDIDATE"},
   CANDIDATE        |-> {"DRAFT", "APPROVED"},
   APPROVED         |-> {"CANDIDATE", "RELEASED"},
   RELEASED         |-> {"CONSUMED", "DEPRECATED"},
   CONSUMED         |-> {"CONFORMANCE_PASS", "DEPRECATED"},
   CONFORMANCE_PASS |-> {"DEPRECATED"},
   DEPRECATED       |-> {"RETIRED"},
   RETIRED          |-> {}]

FeatureNext ==
  [PROPOSED     |-> {"ARCHITECTURE", "CANCELLED"},
   ARCHITECTURE |-> {"PLANNED", "BLOCKED", "CANCELLED"},
   PLANNED      |-> {"IMPLEMENTING", "BLOCKED", "CANCELLED"},
   IMPLEMENTING |-> {"INTEGRATING", "BLOCKED", "CANCELLED"},
   INTEGRATING  |-> {"VERIFYING", "BLOCKED"},
   VERIFYING    |-> {"DONE", "BLOCKED"},
   BLOCKED      |-> {"ARCHITECTURE", "PLANNED", "IMPLEMENTING", "INTEGRATING",
                     "VERIFYING", "CANCELLED"},
   DONE         |-> {},
   CANCELLED    |-> {}]

WorkPackageNext ==
  [BACKLOG      |-> {"READY", "BLOCKED", "SUPERSEDED"},
   READY        |-> {"IN_PRD", "BLOCKED", "SUPERSEDED"},
   IN_PRD       |-> {"PLANNED", "BLOCKED", "SUPERSEDED"},
   PLANNED      |-> {"IMPLEMENTING", "BLOCKED", "SUPERSEDED"},
   IMPLEMENTING |-> {"REVIEW", "BLOCKED", "SUPERSEDED"},
   REVIEW       |-> {"IMPLEMENTING", "VERIFIED", "BLOCKED"},
   VERIFIED     |-> {"DONE", "BLOCKED"},
   BLOCKED      |-> {"READY", "IN_PRD", "PLANNED", "IMPLEMENTING", "REVIEW",
                     "VERIFIED", "SUPERSEDED"},
   DONE         |-> {},
   SUPERSEDED   |-> {}]

IntegrationNext ==
  [WAITING_PROVIDER |-> {"WAITING_CONSUMER", "READY", "BLOCKED"},
   WAITING_CONSUMER |-> {"READY", "BLOCKED"},
   READY            |-> {"RUNNING", "BLOCKED"},
   RUNNING          |-> {"PASS", "FAIL", "BLOCKED"},
   FAIL             |-> {"READY", "RUNNING", "BLOCKED"},
   BLOCKED          |-> {"WAITING_PROVIDER", "WAITING_CONSUMER", "READY"},
   PASS             |-> {}]

RoadmapItemNext ==
  [PLANNED   |-> {"ACTIVE", "BLOCKED", "CANCELLED"},
   ACTIVE    |-> {"DONE", "BLOCKED", "CANCELLED"},
   BLOCKED   |-> {"ACTIVE", "CANCELLED"},
   DONE      |-> {},
   CANCELLED |-> {}]

RepositoryNext ==
  [REGISTERED   |-> {"BOOTSTRAPPED", "OUT_OF_SYNC", "PAUSED", "RETIRED"},
   BOOTSTRAPPED |-> {"SYNCED", "OUT_OF_SYNC", "PAUSED", "RETIRED"},
   SYNCED       |-> {"ENFORCED", "OUT_OF_SYNC", "PAUSED", "RETIRED"},
   ENFORCED     |-> {"OUT_OF_SYNC", "PAUSED", "RETIRED"},
   OUT_OF_SYNC  |-> {"BOOTSTRAPPED", "SYNCED", "ENFORCED", "PAUSED", "RETIRED"},
   PAUSED       |-> {"REGISTERED", "OUT_OF_SYNC", "RETIRED"},
   RETIRED      |-> {}]

(***************************************************************************)
(* A state is a state of `graph' when the graph has an entry for it; the   *)
(* successors of a state without an entry are none (transitions.get(s,[])).*)
(***************************************************************************)
StatesOf(graph) == DOMAIN graph

Successors(graph, s) == graph[s]

Allowed(graph, current, target) ==
  /\ current \in StatesOf(graph)
  /\ target \in Successors(graph, current)

-----------------------------------------------------------------------------
(***************************************************************************)
(* The states a breadth-first search from s visits: the least set that     *)
(* holds s and, with each state, its successors.  The search finds a path  *)
(* to t exactly when t is one of them.                                     *)
(***************************************************************************)
IsClosed(graph, states) == \A x \in states : Successors(graph, x) \subseteq states

Visited(graph, s) ==
  {t \in StatesOf(graph) :
     \A states \in SUBSET StatesOf(graph) : s \in states /\ IsClosed(graph, states) => t \in states}

HasPath(graph, s, t) == t \in Visited(graph, s)

Reach(graph) == [s \in StatesOf(graph) |-> Visited(graph, s)]

ContractReach == Reach(ContractNext)
FeatureReach == Reach(FeatureNext)
WorkPackageReach == Reach(WorkPackageNext)
IntegrationReach == Reach(IntegrationNext)
RoadmapItemReach == Reach(RoadmapItemNext)

-----------------------------------------------------------------------------
ContractOrder ==
  [DRAFT |-> 0, CANDIDATE |-> 1, APPROVED |-> 2, RELEASED |-> 3, CONSUMED |-> 4,
   CONFORMANCE_PASS |-> 5, DEPRECATED |-> 6, RETIRED |-> 7]

WorkPackageOrder ==
  [BACKLOG |-> 0, READY |-> 1, IN_PRD |-> 2, PLANNED |-> 3, IMPLEMENTING |-> 4,
   REVIEW |-> 5, VERIFIED |-> 6, DONE |-> 7, BLOCKED |-> -1, SUPERSEDED |-> -2]

(***************************************************************************)
(* Maturity comparison: the exits satisfy only themselves.                 *)
(***************************************************************************)
StateAtLeast(current, required, order) ==
  /\ current \in DOMAIN order
  /\ required \in DOMAIN order
  /\ IF current \in {"BLOCKED", "SUPERSEDED", "CANCELLED"}
       THEN current = required
       ELSE order[current] >= order[required]
=============================================================================
