---------------------------- MODULE FeatureState ----------------------------
(***************************************************************************)
(* The source of truth (SOT) of one cross-repository feature, and what the *)
(* tools of the control plane compute from one revision of it.             *)
(*                                                                         *)
(* A revision is a record: the lifecycle states of the work packages, the  *)
(* contract release, the roadmap items, the integration scenario and the   *)
(* feature; the observations they rest on (delivery ledger, acceptance     *)
(* evidence); and the IntegrationRun files with their latest.yaml pointer  *)
(* and history.yaml.  The operators below are functions from revisions to  *)
(* revisions, one for each function of the tools that writes.              *)
(*                                                                         *)
(* One contract release, of which every provider package is an output and  *)
(* every other package an input, and one work package for each repository. *)
(***************************************************************************)
EXTENDS Lifecycle

CONSTANTS
  WP,              \* work packages of the feature
  Provider,        \* those with role provider and contract outputs
  Commit,          \* implementation commits
  Nothing,         \* an absent ledger, acceptance or pointer
  Item,            \* roadmap items
  ContractExit,    \* item -> minimum contract states of its exit conditions
  WorkExit,        \* item -> pairs <<work package, minimum state>>
  IntegrationExit, \* items with an exit integration:...=PASS
  Waiting,         \* items with a blocked_by
  Staffed,         \* items that list work packages
  Exempt,          \* the item with the literal id GRM-05
  ScenarioContract,\* minimum contract state the scenario requires
  DocumentRelease, \* whether provider documents carry release evidence themselves
  Awaited          \* the work package history.yaml names in blocked_by

WorkPackageState == StatesOf(WorkPackageNext)
ContractState == StatesOf(ContractNext)
ItemState == StatesOf(RoadmapItemNext)
FeatureState == StatesOf(FeatureNext)
IntegrationState == StatesOf(IntegrationNext)

ASSUME PackagesAssumption ==
  /\ Provider \subseteq WP
  /\ Awaited \in WP
  /\ DocumentRelease \in BOOLEAN
  /\ ScenarioContract \in ContractState
ASSUME ItemsAssumption ==
  /\ ContractExit \in [Item -> SUBSET ContractState]
  /\ WorkExit \in [Item -> SUBSET (WP \X WorkPackageState)]
  /\ {IntegrationExit, Waiting, Staffed, Exempt} \subseteq SUBSET Item

Consumer == WP \ Provider
Proven == {"VERIFIED", "DONE"}
SyncState == {"MISSING_RECEIPT", "SYNCED", "STALE_FEATURE", "STALE_CONTRACT", "DIVERGED"}
RunStatus == {"RUNNING", "PASS", "FAIL"}

WorkPackageSequence ==
  <<"BACKLOG", "READY", "IN_PRD", "PLANNED", "IMPLEMENTING", "REVIEW", "VERIFIED", "DONE">>
FeatureSequence ==
  <<"PROPOSED", "ARCHITECTURE", "PLANNED", "IMPLEMENTING", "INTEGRATING", "VERIFYING", "DONE">>

(***************************************************************************)
(* A remote delivery receipt, or the reason there is none to use: no file, *)
(* a file that is no YAML or names another package, one that fails the     *)
(* schema or the check of its artifacts against GitHub.                    *)
(***************************************************************************)
Receipt ==
  [form : {"missing", "unusable", "invalid", "valid"},
   status : WorkPackageState,   \* claimed
   current : BOOLEAN,           \* of the source revision of feature and package
   pinned : BOOLEAN,            \* contract pins match the registry
   artifacts : BOOLEAN,         \* Stage PRD and Plan
   commits : SUBSET Commit,
   evidence : {"none", "other", "release"}]

Ledger ==
  [status : WorkPackageState, sync : SyncState, artifacts : BOOLEAN,
   commits : SUBSET Commit, evidence : {"none", "other", "release"}]

Acceptance == [commit : Commit, current : BOOLEAN]

ASSUME NothingAssumption == Nothing \notin Ledger \cup Acceptance

Sot ==
  [wp : [WP -> WorkPackageState],
   sync : [WP -> SyncState],
   ledger : [WP -> Ledger \cup {Nothing}],
   accept : [WP -> Acceptance \cup {Nothing}],
   contract : ContractState,
   tagged : BOOLEAN,             \* release tag and peeled commit in the registry
   pinned : BOOLEAN,             \* registry pins of the consumers
   item : [Item -> ItemState],
   feature : FeatureState,
   scenario : IntegrationState,
   runs : Seq(RunStatus),        \* IR-*.yaml files, oldest first
   latest : Nat,                 \* index latest.yaml points to; 0 without the file
   history : [empty : BOOLEAN, state : IntegrationState, blocker : WorkPackageState \cup {Nothing}]]

\* latest.yaml points to a run that exists.
Revision == {s \in Sot : s.latest \in 0 .. Len(s.runs)}

LatestResult(s) == IF s.latest = 0 THEN "OPEN" ELSE s.runs[s.latest]

AllProven(s, packages) == \A w \in packages : s.wp[w] \in Proven

-----------------------------------------------------------------------------
(* Receipts and acceptance evidence.                                       *)

(***************************************************************************)
(* sync_repo_state.py.  A later check overrides an earlier one, so DIVERGED*)
(* wins over STALE_CONTRACT and that over STALE_FEATURE.                   *)
(***************************************************************************)
SyncVerdict(w, r) ==
  IF w \in Provider /\ r.status \in Proven /\ ~(r.evidence = "release" /\ r.commits # {})
    THEN "DIVERGED"
  ELSE IF w \in Consumer /\ ~r.pinned THEN "STALE_CONTRACT"
  ELSE IF ~r.current THEN "STALE_FEATURE"
  ELSE "SYNCED"

Observed(w, r) ==
  [status |-> r.status, sync |-> SyncVerdict(w, r), artifacts |-> r.artifacts,
   commits |-> r.commits, evidence |-> r.evidence]

\* A missing receipt leaves the ledger of the last one; an unusable one leaves
\* the sync state too.
SyncedReceipts(s, fetched) ==
  [s EXCEPT
     !.sync = [w \in WP |-> CASE fetched[w].form = "missing"  -> "MISSING_RECEIPT"
                              [] fetched[w].form = "unusable" -> s.sync[w]
                              [] fetched[w].form = "invalid"  -> "DIVERGED"
                              [] fetched[w].form = "valid"    -> SyncVerdict(w, fetched[w])],
     !.ledger = [w \in WP |-> IF fetched[w].form = "valid" THEN Observed(w, fetched[w])
                              ELSE s.ledger[w]]]

\* sync_acceptance_attestation.py: the evidence of this dispatch becomes
\* latest.json, whatever was verified before; nobody compares the revisions.
Attested(s, w, acceptance) == [s EXCEPT !.accept[w] = acceptance]

-----------------------------------------------------------------------------
(* The gates of state_machine.py: the targets each of them refuses.        *)

ReleaseEvidenceUnreleased(s, w) == \* mutant: the contract is not looked up
  /\ s.ledger[w] # Nothing
  /\ \/ s.ledger[w].evidence = "release"
     \/ s.ledger[w].evidence = "none" /\ DocumentRelease
  /\ s.ledger[w].commits # {}

ReleaseEvidence(s, w) ==
  /\ s.ledger[w] # Nothing
  /\ \/ s.ledger[w].evidence = "release"
     \/ s.ledger[w].evidence = "none" /\ DocumentRelease
  /\ s.ledger[w].commits # {}
  /\ s.contract \in {"RELEASED", "CONSUMED", "CONFORMANCE_PASS"}

AcceptedOnReceipt(s, w) == \* mutant: the commits the receipt claims are enough
  s.ledger[w] # Nothing /\ s.ledger[w].commits # {}

AcceptedCommit(s, w) ==
  /\ s.accept[w] # Nothing
  /\ s.ledger[w] # Nothing
  /\ s.accept[w].commit \in s.ledger[w].commits
  /\ s.accept[w].current

WorkPackageGate(s, w, target) ==
  /\ target \in {"PLANNED", "IMPLEMENTING", "REVIEW", "VERIFIED", "DONE"} =>
       /\ s.sync[w] = "SYNCED"
       /\ w \in Consumer => s.ledger[w] # Nothing /\ s.ledger[w].artifacts
  /\ target \in {"REVIEW", "VERIFIED", "DONE"} =>
       s.ledger[w] # Nothing /\ s.ledger[w].commits # {}
  /\ target \in Proven =>
       IF w \in Provider THEN ReleaseEvidence(s, w) ELSE AcceptedCommit(s, w)

ContractGate(s, target) ==
  target \in {"RELEASED", "CONSUMED", "CONFORMANCE_PASS"} => s.tagged

ExitsMetByPackages(s, i) == \* mutant: contract exits are not parsed
  /\ \A e \in WorkExit[i] : StateAtLeast(s.wp[e[1]], e[2], WorkPackageOrder)
  /\ i \in IntegrationExit => LatestResult(s) = "PASS"

ExitsMet(s, i) ==
  /\ \A minimum \in ContractExit[i] : StateAtLeast(s.contract, minimum, ContractOrder)
  /\ \A e \in WorkExit[i] : StateAtLeast(s.wp[e[1]], e[2], WorkPackageOrder)
  /\ i \in IntegrationExit => LatestResult(s) = "PASS"

RoadmapItemGate(s, i, target) == target = "DONE" => ExitsMet(s, i)

FeatureGateForgetsRun(s, target) == \* mutant: the IntegrationRun is not asked for
  target \in {"INTEGRATING", "VERIFYING", "DONE"} =>
    /\ AllProven(s, WP)
    /\ \A i \in Item \ Exempt : s.item[i] \in {"DONE", "CANCELLED"}

FeatureGateForAll(s, target) == \* mutant: the final item is not exempt
  /\ target \in {"INTEGRATING", "VERIFYING", "DONE"} =>
       AllProven(s, WP) /\ \A i \in Item : s.item[i] \in {"DONE", "CANCELLED"}
  /\ target = "DONE" => LatestResult(s) = "PASS"

FeatureGate(s, target) ==
  /\ target \in {"INTEGRATING", "VERIFYING", "DONE"} =>
       /\ AllProven(s, WP)
       /\ \A i \in Item \ Exempt : s.item[i] \in {"DONE", "CANCELLED"}
  /\ target = "DONE" => LatestResult(s) = "PASS"

-----------------------------------------------------------------------------
(* The reconciler, reconcile_states.py, step by step.                      *)

(***************************************************************************)
(* The state a walk along `sequence' from `current' towards `target' ends  *)
(* in: it stops before the first state that is refused, and does not start *)
(* when either end is outside the sequence or the target is not ahead.     *)
(***************************************************************************)
Walk(sequence, current, target, refused) ==
  LET from  == {n \in DOMAIN sequence : sequence[n] = current}
      to    == {n \in DOMAIN sequence : sequence[n] = target}
      Open(i, n) == \A m \in i + 1 .. n : sequence[m] \notin refused
      stops == {n \in DOMAIN sequence : \E i \in from, j \in to : n \in i .. j /\ Open(i, n)}
  IN  IF stops = {} THEN current
      ELSE sequence[CHOOSE n \in stops : \A m \in stops : m <= n]

\* Each package follows the status its ledger claims, as far as its gate allows.
\* A blocked or superseded package is left alone, and so is one without a ledger.
PromotedPackage(s, w) ==
  IF s.ledger[w] = Nothing THEN s.wp[w]
  ELSE Walk(WorkPackageSequence, s.wp[w], s.ledger[w].status,
            {t \in WorkPackageState : ~WorkPackageGate(s, w, t)})

PromotedPackages(s) == [s EXCEPT !.wp = [w \in WP |-> PromotedPackage(s, w)]]

\* The pin is judged by the ledger of the last valid receipt, not by the sync state
\* of the package.
ConsumerPinOK(s, w) ==
  s.ledger[w] # Nothing /\ s.ledger[w].sync = "SYNCED" /\ s.pinned /\ s.tagged

DesiredContract(s) ==
  CASE s.contract = "APPROVED" /\ Provider # {} /\ AllProven(s, Provider) /\ s.tagged
         -> "RELEASED"
    [] s.contract = "RELEASED" /\ Consumer # {} /\ \A w \in Consumer : ConsumerPinOK(s, w)
         -> "CONSUMED"
    [] s.contract = "CONSUMED" /\ Provider # {} /\ Consumer # {} /\ AllProven(s, WP)
         -> "CONFORMANCE_PASS"
    [] OTHER -> s.contract

ReconciledContract(s) ==
  IF ContractGate(s, DesiredContract(s)) THEN [s EXCEPT !.contract = DesiredContract(s)] ELSE s

DerivedRoadmapStatus(s, i) ==
  IF ExitsMet(s, i) THEN "DONE"
  ELSE IF i \in Waiting THEN "BLOCKED"
  ELSE IF s.item[i] # "PLANNED" \/ i \in Staffed THEN "ACTIVE"
  ELSE "PLANNED"

\* One edge for each item and pass; an illegal one is reported and skipped, except
\* that PLANNED -> DONE becomes PLANNED -> ACTIVE.
ReconciledItem(s, i) ==
  LET desired == DerivedRoadmapStatus(s, i)
  IN  IF Allowed(RoadmapItemNext, s.item[i], desired) THEN desired
      ELSE IF s.item[i] = "PLANNED" /\ desired = "DONE" THEN "ACTIVE"
      ELSE s.item[i]

ReconciledRoadmap(s) == [s EXCEPT !.item = [i \in Item |-> ReconciledItem(s, i)]]

\* Attempts still RUNNING whose workflow has completed fail; latest.yaml and
\* history.yaml are not touched.  `completed' are those GitHub answers for.
FailedAbandoned(s, completed) ==
  [s EXCEPT !.runs = [n \in DOMAIN s.runs |->
                        IF n \in completed /\ s.runs[n] = "RUNNING" THEN "FAIL"
                        ELSE s.runs[n]]]

Behind(s, packages) ==
  \E w \in packages : ~StateAtLeast(s.wp[w], "VERIFIED", WorkPackageOrder)

ContractReady(s) == StateAtLeast(s.contract, ScenarioContract, ContractOrder)

DesiredIntegration(s) ==
  IF Behind(s, Provider) THEN "WAITING_PROVIDER"
  ELSE IF Behind(s, Consumer) THEN "WAITING_CONSUMER"
  ELSE IF ~ContractReady(s) THEN "BLOCKED"
  ELSE IF LatestResult(s) \in RunStatus THEN LatestResult(s)
  ELSE "READY"

\* The scenario walks the shortest path hop by hop and passes no gate: only the
\* existence of a path counts.
ReconciledIntegration(s) ==
  IF DesiredIntegration(s) \in IntegrationReach[s.scenario]
    THEN [s EXCEPT !.scenario = DesiredIntegration(s)]
    ELSE s

DesiredFeature(s) ==
  IF ~AllProven(s, WP) THEN s.feature
  ELSE IF LatestResult(s) = "PASS" THEN "DONE" ELSE "INTEGRATING"

PromotedFeature(s) ==
  [s EXCEPT !.feature = Walk(FeatureSequence, s.feature, DesiredFeature(s),
                             {t \in FeatureState : ~FeatureGate(s, t)})]

Reconciled(s, completed) ==
  LET packages == PromotedPackages(s)
      derived  == ReconciledRoadmap(ReconciledContract(packages))
      failed   == FailedAbandoned(derived, completed)
  IN  PromotedFeature(ReconciledIntegration(failed))

-----------------------------------------------------------------------------
(* Integration attempts, and the checks before a sync job commits.         *)

IntegrationGate(s) == ~Behind(s, WP) /\ ContractReady(s)

EffectiveCommit(s, w) ==
  \/ w \in Provider /\ DocumentRelease
  \/ s.ledger[w] # Nothing /\ s.ledger[w].commits # {}

MayRun(s) ==
  /\ IntegrationGate(s)
  /\ Provider # {} /\ Consumer # {}
  /\ \A w \in WP : EffectiveCommit(s, w)

\* integration_run.py writes the attempt, the result, latest.yaml and history.yaml one
\* after the other; `written' is the last of these writes that happened.
Attempted(s, status, written) ==
  [s EXCEPT
     !.runs = Append(s.runs, status),
     !.latest = IF written = "attempt" THEN s.latest ELSE Len(s.runs) + 1,
     !.history = IF written = "history"
                   THEN [empty |-> FALSE, state |-> status, blocker |-> Nothing]
                   ELSE s.history]

\* verify_state_invariants.py on the feature.  The recorded blocker is compared with
\* the package although no tool ever rewrites it.
HistoryAgrees(s) ==
  s.history.empty =>
    /\ s.runs = <<>>
    /\ s.scenario = s.history.state /\ s.scenario # "PASS"
    /\ s.history.blocker \in {Nothing, s.wp[Awaited]}

StateInvariantsHold(s) ==
  /\ HistoryAgrees(s)
  /\ s.feature = "DONE" => LatestResult(s) = "PASS"

\* validate_feature.py on the feature: whoever blocks a package writes the blocker.
FeatureValid(s) == \A i \in Item : s.item[i] = "BLOCKED" => i \in Waiting

\* git diff sees tracked files only: a first ledger, a first acceptance without a
\* ledger, a new run file or the first latest.yaml alone is no difference.  A sync that
\* finds a ledger rewrites its observation time as well; the times are left out.
TrackedChange(old, new) ==
  \/ <<old.wp, old.sync, old.contract, old.item, old.feature, old.scenario, old.history>>
       # <<new.wp, new.sync, new.contract, new.item, new.feature, new.scenario, new.history>>
  \/ \E w \in WP : \/ old.ledger[w] \notin {Nothing, new.ledger[w]}
                    \/ /\ old.accept[w] # new.accept[w]
                       /\ old.accept[w] # Nothing \/ old.ledger[w] # Nothing
  \/ \E n \in DOMAIN old.runs : new.runs[n] # old.runs[n]
  \/ old.latest \notin {0, new.latest}
=============================================================================
