--------------------------- MODULE AtomicDelivery ---------------------------
(***************************************************************************)
(* What the control plane promises about the default branch: its history   *)
(* is a sequence of whole transactions.  A transaction is one commit of a  *)
(* person, one complete sync (receipts, reconciler, checks) or one         *)
(* complete integration run (attempt, reconciler), each computed from the  *)
(* revision it follows.  There are no jobs, checkouts or pushes here:      *)
(* FeatureDelivery has them, and implements this specification.            *)
(***************************************************************************)
EXTENDS FeatureState

CONSTANTS
  Receipts,     \* what may be found in the repository of each work package
  Attestations, \* acceptance results that may be dispatched
  InitSot       \* the revisions the branch may start from

ASSUME InputsAssumption ==
  /\ Receipts \in [WP -> SUBSET Receipt]
  /\ Attestations \subseteq Acceptance
  /\ InitSot \subseteq Revision

VARIABLE main  \* the revision the default branch points to

-----------------------------------------------------------------------------
(* Commits of people.  transition_state.py applies the gate of the target  *)
(* and then the lifecycle graph; integration states have no gate.  Release *)
(* tags, consumer pins and history.yaml are edited by hand.                *)

HumanFeature(target) ==
  /\ Allowed(FeatureNext, main.feature, target)
  /\ FeatureGate(main, target)
  /\ main' = [main EXCEPT !.feature = target]

HumanWorkPackage(w, target) ==
  /\ Allowed(WorkPackageNext, main.wp[w], target)
  /\ WorkPackageGate(main, w, target)
  /\ main' = [main EXCEPT !.wp[w] = target]

HumanContract(target) ==
  /\ Allowed(ContractNext, main.contract, target)
  /\ ContractGate(main, target)
  /\ main' = [main EXCEPT !.contract = target]

HumanItem(i, target) ==
  /\ Allowed(RoadmapItemNext, main.item[i], target)
  /\ RoadmapItemGate(main, i, target)
  /\ main' = [main EXCEPT !.item[i] = target]

HumanIntegration(target) ==
  /\ Allowed(IntegrationNext, main.scenario, target)
  /\ main' = [main EXCEPT !.scenario = target]

TagRelease ==
  /\ ~main.tagged
  /\ main' = [main EXCEPT !.tagged = TRUE]

PinConsumer ==
  /\ ~main.pinned
  /\ main' = [main EXCEPT !.pinned = TRUE]

EditHistory ==
  /\ main.history.empty
  /\ \E blocker \in {Nothing, main.wp[Awaited]} :
       main' = [main EXCEPT !.history = [empty |-> TRUE, state |-> main.scenario,
                                         blocker |-> blocker]]

HumanCommit ==
  \/ \E target \in FeatureState : HumanFeature(target)
  \/ \E w \in WP, target \in WorkPackageState : HumanWorkPackage(w, target)
  \/ \E target \in ContractState : HumanContract(target)
  \/ \E i \in Item, target \in ItemState : HumanItem(i, target)
  \/ \E target \in IntegrationState : HumanIntegration(target)
  \/ TagRelease
  \/ PinConsumer
  \/ EditHistory

-----------------------------------------------------------------------------
(* Whole jobs, computed from a revision.                                   *)

\* The sync of a checkout whose evidence may have been extended by a dispatch.
SyncOf(s, fetched, completed) == Reconciled(SyncedReceipts(s, fetched), completed)

Fetched == {f \in [WP -> UNION {Receipts[w] : w \in WP}] : \A w \in WP : f[w] \in Receipts[w]}

Committed(s) == FeatureValid(s) /\ StateInvariantsHold(s) /\ main' = s

SyncTransaction ==
  \E fetched \in Fetched, completed \in SUBSET DOMAIN main.runs :
    Committed(SyncOf(main, fetched, completed))

AcceptanceTransaction(w, acceptance) ==
  \E fetched \in Fetched, completed \in SUBSET DOMAIN main.runs :
    Committed(SyncOf(Attested(main, w, acceptance), fetched, completed))

\* How an attempt may end: finished and written in full, killed while it ran, or
\* killed between the writes of its result.
Outcomes ==
  {<<"PASS", "history">>, <<"FAIL", "history">>, <<"RUNNING", "attempt">>,
   <<"PASS", "attempt">>, <<"FAIL", "attempt">>, <<"PASS", "pointer">>, <<"FAIL", "pointer">>}

\* The reconciler runs after a refused attempt as well, and nothing is checked.
IntegrationTransaction ==
  \E completed \in SUBSET DOMAIN main.runs :
    \/ main' = Reconciled(main, completed)
    \/ /\ MayRun(main)
       /\ \E o \in Outcomes : main' = Reconciled(Attempted(main, o[1], o[2]), completed)

Transaction ==
  \/ HumanCommit
  \/ SyncTransaction
  \/ \E w \in Consumer, acceptance \in Attestations : AcceptanceTransaction(w, acceptance)
  \/ IntegrationTransaction

AtomicSpec == main \in InitSot /\ [][Transaction]_main

-----------------------------------------------------------------------------
(* What every revision of the branch has earned, and what no transaction   *)
(* loses.                                                                  *)

ConsumersAttested(s) == \A w \in Consumer : s.wp[w] \in Proven => s.accept[w] # Nothing

Integrating == {"INTEGRATING", "VERIFYING", "DONE"}

ReleaseEarned(s) ==
  \/ \E w \in Provider : s.wp[w] \in Proven
  \/ Provider # {} /\ s.feature \in Integrating
  => StateAtLeast(s.contract, "RELEASED", ContractOrder) /\ s.tagged

PassEarned(s) == s.feature = "DONE" => \E n \in DOMAIN s.runs : s.runs[n] = "PASS"

ContractExitsHold(s) ==
  \A i \in Item : s.item[i] = "DONE" =>
    \A minimum \in ContractExit[i] : StateAtLeast(s.contract, minimum, ContractOrder)

TaggedIfReleased(s) ==
  s.contract \in {"RELEASED", "CONSUMED", "CONFORMANCE_PASS"} => s.tagged

ASSUME InitialRevisionsAssumption ==
  \A s \in InitSot : /\ ConsumersAttested(s) /\ ReleaseEarned(s) /\ PassEarned(s)
                     /\ ContractExitsHold(s) /\ TaggedIfReleased(s)

\* No consumer package is published VERIFIED or DONE without evidence that the
\* central acceptance gate verified for it: never on its receipt alone, and not
\* although evidence of a first dispatch may be lost before it is tracked.
VerifiedConsumerAttested == ConsumersAttested(main)

\* Neither a proven provider nor a feature under integration is ever published
\* before the contract it delivers has been released and tagged, and a later
\* deprecation does not count as unreleased.
ReleasedBeforeIntegration == ReleaseEarned(main)

\* A feature is DONE only if an IntegrationRun on the branch has passed.
DoneFeatureHadPass == PassEarned(main)

\* A roadmap item that is DONE keeps the contract maturity it was closed on.
DoneItemsStayEarned == ContractExitsHold(main)

\* No push loses evidence: runs are never removed, a run that ended keeps its
\* result, the pointer never goes back to an earlier run, and a ledger or an
\* acceptance on the branch is replaced but not removed.
EvidenceKept ==
  [][/\ Len(main.runs) <= Len(main'.runs)
     /\ \A n \in DOMAIN main.runs :
          main.runs[n] # "RUNNING" => main'.runs[n] = main.runs[n]
     /\ main.latest <= main'.latest
     /\ \A w \in WP : /\ main.ledger[w] # Nothing => main'.ledger[w] # Nothing
                      /\ main.accept[w] # Nothing => main'.accept[w] # Nothing]_main

\* Whatever job or person moves the branch, every published state is reached from
\* the one published before along its lifecycle graph; so what is final is final.
LegalMoves ==
  [][/\ \A w \in WP : main'.wp[w] \in WorkPackageReach[main.wp[w]]
     /\ \A i \in Item : main'.item[i] \in RoadmapItemReach[main.item[i]]
     /\ main'.contract \in ContractReach[main.contract]
     /\ main'.scenario \in IntegrationReach[main.scenario]
     /\ main'.feature \in FeatureReach[main.feature]]_main
=============================================================================
