------------------------ MODULE FeatureDelivery_proofs ------------------------
(***************************************************************************)
(* Proofs about AtomicDelivery and FeatureDelivery, for any feature: any   *)
(* packages, roadmap, receipts, attestations and initial revisions, any    *)
(* number of runs and of commits by people.                                *)
(*                                                                         *)
(* First the transactions: what each function of the tools keeps of a      *)
(* revision, and that every transaction keeps what a revision has earned.  *)
(* The reconciler moves a state only where its gate lets it, or where its  *)
(* own derivation is the gate; the gates look at evidence, and evidence is *)
(* only ever replaced.  What a gate asked for of the contract stays true   *)
(* because a contract that has been released never goes back.              *)
(*                                                                         *)
(* Then the jobs, which implement the transactions.  A job computes what   *)
(* it will push when it checks the branch out and pushes later, when other *)
(* jobs and people have had their turn; the invariant says that what it    *)
(* still holds is the outcome of one whole transaction from the branch as  *)
(* it is now, because whoever moves the branch takes the checkout of the   *)
(* others away.  What holds of the transactions holds of the jobs with it. *)
(***************************************************************************)
EXTENDS FeatureDelivery, TLAPS

\* In words: nothing a revision rests on is gone in the next one.
Keeps(s, t) ==
  /\ Len(s.runs) <= Len(t.runs)
  /\ \A n \in DOMAIN s.runs : s.runs[n] # "RUNNING" => t.runs[n] = s.runs[n]
  /\ s.latest <= t.latest
  /\ \A w \in WP : /\ s.ledger[w] # Nothing => t.ledger[w] # Nothing
                   /\ s.accept[w] # Nothing => t.accept[w] # Nothing

\* In words: the contract stays, is released once it is tagged, or goes on from there.
ContractAdvances(s, t) ==
  \/ t.contract = s.contract
  \/ s.contract = "APPROVED" /\ t.contract = "RELEASED" /\ s.tagged
  \/ s.contract = "RELEASED" /\ t.contract = "CONSUMED"
  \/ s.contract = "CONSUMED" /\ t.contract = "CONFORMANCE_PASS"

Released == {"RELEASED", "CONSUMED", "CONFORMANCE_PASS"}

\* In words: t follows s, and what it has entered it has earned.
Progress(s, t) ==
  /\ Keeps(s, t)
  /\ s.tagged => t.tagged
  /\ \/ t.contract = s.contract
     \/ /\ t.contract \in ContractNext[s.contract]
        /\ t.contract \in Released => s.tagged
  /\ \A w \in WP : t.wp[w] \in Proven =>
       \/ t.wp[w] = s.wp[w]
       \/ w \in Provider /\ s.contract \in Released
       \/ w \in Consumer /\ t.accept[w] # Nothing
  /\ \A i \in Item : t.item[i] = "DONE" =>
       \/ s.item[i] = "DONE"
       \/ \A minimum \in ContractExit[i] : StateAtLeast(t.contract, minimum, ContractOrder)
  /\ t.feature \in Integrating =>
       \/ t.feature = s.feature
       \/ AllProven(t, WP) /\ (t.feature = "DONE" => LatestResult(t) = "PASS")

\* In words: the exits of the roadmap ask for a contract that is at least released; a
\* person may take an approval back, and an item closed on it would stay closed.
ExitsAskForRelease == \A i \in Item : ContractExit[i] \subseteq Released

Earned(s) ==
  /\ ConsumersAttested(s) /\ ReleaseEarned(s) /\ PassEarned(s) /\ TaggedIfReleased(s)
  /\ ExitsAskForRelease => ContractExitsHold(s)

BranchIsSound == main \in Revision /\ Earned(main)

-----------------------------------------------------------------------------
(* The walk along a sequence.                                              *)

\* A set of up to eight positions that is not empty has a last one.
LEMMA LastPosition ==
  ASSUME NEW S, S \subseteq 1 .. 8, S # {}
  PROVE  \E n \in S : \A m \in S : m <= n
<1>1. CASE 8 \in S
  BY <1>1
<1>2. CASE S \subseteq 1 .. 7 /\ 7 \in S
  BY <1>2
<1>3. CASE S \subseteq 1 .. 6 /\ 6 \in S
  BY <1>3
<1>4. CASE S \subseteq 1 .. 5 /\ 5 \in S
  BY <1>4
<1>5. CASE S \subseteq 1 .. 4 /\ 4 \in S
  BY <1>5
<1>6. CASE S \subseteq 1 .. 3 /\ 3 \in S
  BY <1>6
<1>7. CASE S \subseteq 1 .. 2
  <2>1. PICK n \in S : n = 2 \/ 2 \notin S
    OBVIOUS
  <2>2. \A m \in S : m <= n
    BY <1>7, <2>1
  <2> QED
    BY <2>2
<1>8. S \subseteq 1 .. 4 \/ 5 \in S \/ 6 \in S \/ 7 \in S \/ 8 \in S
  OBVIOUS
<1> QED
  BY <1>1, <1>2, <1>3, <1>4, <1>5, <1>6, <1>7, <1>8

\* A walk stays where it is, or ends further on in the sequence, in a state that is
\* not refused.
LEMMA WalkFacts ==
  ASSUME NEW sequence, DOMAIN sequence \subseteq 1 .. 8, NEW current, NEW target, NEW refused
  PROVE  \/ Walk(sequence, current, target, refused) = current
         \/ /\ Walk(sequence, current, target, refused) \notin refused
            /\ \E i \in DOMAIN sequence, n \in DOMAIN sequence :
                 /\ i <= n /\ sequence[i] = current
                 /\ Walk(sequence, current, target, refused) = sequence[n]
<1> DEFINE from == {n \in DOMAIN sequence : sequence[n] = current}
           to == {n \in DOMAIN sequence : sequence[n] = target}
           Open(i, n) == \A m \in i + 1 .. n : sequence[m] \notin refused
           stops == {n \in DOMAIN sequence : \E i \in from, j \in to : n \in i .. j /\ Open(i, n)}
           last == CHOOSE n \in stops : \A m \in stops : m <= n
<1>1. Walk(sequence, current, target, refused)
        = IF stops = {} THEN current ELSE sequence[last]
  BY DEF Walk
<1>2. CASE stops # {}
  <2>1. last \in stops
    <3>1. stops \subseteq 1 .. 8
      OBVIOUS
    <3> HIDE DEF stops
    <3> QED
      BY <1>2, <3>1, LastPosition
  <2>2. PICK i \in from, j \in to : last \in i .. j /\ Open(i, last)
    BY <2>1
  <2>3. /\ last \in DOMAIN sequence /\ i \in 1 .. 8 /\ last \in 1 .. 8
        /\ i \in DOMAIN sequence /\ sequence[i] = current /\ i <= last
    BY <2>1, <2>2
  <2>4. sequence[last] = current \/ sequence[last] \notin refused
    <3>1. CASE last = i
      BY <3>1
    <3>2. CASE last # i
      <4>1. last \in i + 1 .. last
        BY <2>2, <2>3, <3>2
      <4> QED
        BY <2>2, <4>1
    <3> QED
      BY <3>1, <3>2
  <2> QED
    BY <1>1, <1>2, <2>3, <2>4
<1> QED
  BY <1>1, <1>2

\* What matters to the gates: a walk that goes on ends in a state that is not refused.
LEMMA WalkEnds ==
  ASSUME NEW sequence, DOMAIN sequence \subseteq 1 .. 8, NEW current, NEW target, NEW refused
  PROVE  \/ Walk(sequence, current, target, refused) = current
         \/ /\ Walk(sequence, current, target, refused) \notin refused
            /\ \E n \in DOMAIN sequence :
                 Walk(sequence, current, target, refused) = sequence[n]
<1> DEFINE end == Walk(sequence, current, target, refused)
<1>1. \/ end = current
      \/ /\ end \notin refused
         /\ \E i \in DOMAIN sequence, n \in DOMAIN sequence :
              i <= n /\ sequence[i] = current /\ end = sequence[n]
  BY WalkFacts
<1> HIDE DEF end
<1>2. end = current \/ (end \notin refused /\ \E n \in DOMAIN sequence : end = sequence[n])
  BY <1>1
<1> QED
  BY <1>2 DEF end

\* The states of the two sequences are states of the lifecycle.
LEMMA SequencesAreOfStates ==
  /\ DOMAIN WorkPackageSequence \subseteq 1 .. 8
  /\ \A n \in DOMAIN WorkPackageSequence : WorkPackageSequence[n] \in WorkPackageState
  /\ DOMAIN FeatureSequence \subseteq 1 .. 8
  /\ \A n \in DOMAIN FeatureSequence : FeatureSequence[n] \in FeatureState
BY DEF WorkPackageSequence, FeatureSequence, WorkPackageState, FeatureState, StatesOf,
   WorkPackageNext, FeatureNext

-----------------------------------------------------------------------------
(* What each function of the tools keeps of a revision.                    *)

\* Evidence that is kept twice is kept.
LEMMA KeepsIsTransitive ==
  ASSUME NEW s \in Revision, NEW t \in Revision, NEW u \in Revision, Keeps(s, t), Keeps(t, u)
  PROVE  Keeps(s, u)
<1>1. /\ s.latest \in Nat /\ t.latest \in Nat /\ u.latest \in Nat
      /\ s.runs \in Seq(RunStatus) /\ t.runs \in Seq(RunStatus) /\ u.runs \in Seq(RunStatus)
  BY DEF Revision, Sot
<1>2. DOMAIN s.runs \subseteq DOMAIN t.runs
  BY <1>1 DEF Keeps
<1> QED
  BY <1>1, <1>2 DEF Keeps

\* A sync replaces ledgers by observations and writes nothing but them and sync states.
LEMMA SyncedReceiptsFacts ==
  ASSUME NEW s \in Revision, NEW fetched \in Fetched
  PROVE  LET t == SyncedReceipts(s, fetched)
         IN  /\ t \in Revision /\ Keeps(s, t)
             /\ t.wp = s.wp /\ t.contract = s.contract /\ t.tagged = s.tagged
             /\ t.item = s.item /\ t.feature = s.feature /\ t.runs = s.runs
             /\ t.latest = s.latest /\ t.accept = s.accept
<1> DEFINE t == SyncedReceipts(s, fetched)
<1>1. \A w \in WP : fetched[w] \in Receipt
  BY InputsAssumption DEF Fetched
<1>2. \A w \in WP : SyncVerdict(w, fetched[w]) \in SyncState
  BY DEF SyncVerdict, SyncState
<1>3. \A w \in WP : Observed(w, fetched[w]) \in Ledger
  BY <1>1, <1>2 DEF Observed, Ledger, Receipt
<1>4. t.sync \in [WP -> SyncState]
  BY <1>1, <1>2 DEF SyncedReceipts, Receipt, SyncState, Revision, Sot
<1>5. /\ t.ledger \in [WP -> Ledger \cup {Nothing}]
      /\ \A w \in WP : s.ledger[w] # Nothing => t.ledger[w] # Nothing
  BY <1>3, NothingAssumption DEF SyncedReceipts, Revision, Sot
<1>6. /\ t \in Sot
      /\ t.wp = s.wp /\ t.contract = s.contract /\ t.tagged = s.tagged
      /\ t.item = s.item /\ t.feature = s.feature /\ t.runs = s.runs
      /\ t.latest = s.latest /\ t.accept = s.accept
  BY <1>4, <1>5 DEF SyncedReceipts, Revision, Sot
<1> HIDE DEF t
<1>7. t \in Revision /\ Keeps(s, t)
  BY <1>5, <1>6 DEF Revision, Keeps, Sot
<1> QED
  BY <1>6, <1>7 DEF t

\* A dispatch replaces the acceptance of one package.
LEMMA AttestedFacts ==
  ASSUME NEW s \in Revision, NEW w \in WP, NEW acceptance \in Attestations
  PROVE  LET t == Attested(s, w, acceptance)
         IN  /\ t \in Revision /\ Keeps(s, t)
             /\ t.wp = s.wp /\ t.contract = s.contract /\ t.tagged = s.tagged
             /\ t.item = s.item /\ t.feature = s.feature /\ t.runs = s.runs
             /\ t.latest = s.latest
<1> DEFINE t == Attested(s, w, acceptance)
<1>1. acceptance \in Acceptance /\ acceptance # Nothing
  BY InputsAssumption, NothingAssumption
<1>2. /\ t \in Sot
      /\ t.wp = s.wp /\ t.contract = s.contract /\ t.tagged = s.tagged
      /\ t.item = s.item /\ t.feature = s.feature /\ t.runs = s.runs
      /\ t.latest = s.latest /\ t.ledger = s.ledger
      /\ \A v \in WP : t.accept[v] = IF v = w THEN acceptance ELSE s.accept[v]
  BY <1>1 DEF Attested, Revision, Sot
<1> HIDE DEF t
<1>3. t \in Revision /\ Keeps(s, t)
  BY <1>1, <1>2 DEF Revision, Keeps, Sot
<1> QED
  BY <1>2, <1>3 DEF t

\* A package is moved only into states its gate lets it enter.
LEMMA PromotedPackagesFacts ==
  ASSUME NEW s \in Revision
  PROVE  LET t == PromotedPackages(s)
         IN  /\ t \in Revision
             /\ \A w \in WP : t.wp[w] = s.wp[w] \/ WorkPackageGate(s, w, t.wp[w])
             /\ t = [s EXCEPT !.wp = t.wp]
<1> DEFINE t == PromotedPackages(s)
<1>1. ASSUME NEW w \in WP
      PROVE  /\ PromotedPackage(s, w) \in WorkPackageState
             /\ PromotedPackage(s, w) = s.wp[w] \/ WorkPackageGate(s, w, PromotedPackage(s, w))
  <2>1. s.wp[w] \in WorkPackageState
    BY DEF Revision, Sot
  <2> DEFINE refused == {x \in WorkPackageState : ~WorkPackageGate(s, w, x)}
             end == Walk(WorkPackageSequence, s.wp[w], s.ledger[w].status, refused)
  <2>2. \/ end = s.wp[w]
        \/ end \notin refused /\ \E n \in DOMAIN WorkPackageSequence : end = WorkPackageSequence[n]
    BY WalkEnds, SequencesAreOfStates
  <2>3. end \in WorkPackageState /\ (end = s.wp[w] \/ end \notin refused)
    BY <2>1, <2>2, SequencesAreOfStates
  <2>4. PromotedPackage(s, w) \in {s.wp[w], end}
    BY DEF PromotedPackage
  <2> HIDE DEF end
  <2> QED
    BY <2>1, <2>3, <2>4
<1>2. t.wp = [w \in WP |-> PromotedPackage(s, w)] /\ t = [s EXCEPT !.wp = t.wp]
  BY DEF PromotedPackages, Revision, Sot
<1>3. t.wp \in [WP -> WorkPackageState]
  BY <1>1, <1>2
<1>4. t \in Revision
  BY <1>2, <1>3 DEF Revision, Sot
<1> QED
  BY <1>1, <1>2, <1>4

\* The contract stays or takes one of the three derived edges.
LEMMA ReconciledContractFacts ==
  ASSUME NEW s \in Revision
  PROVE  LET t == ReconciledContract(s)
         IN  /\ t \in Revision
             /\ ContractAdvances(s, t)
             /\ t = [s EXCEPT !.contract = t.contract]
<1>1. /\ DesiredContract(s) \in ContractState
      /\ \/ DesiredContract(s) = s.contract
         \/ s.contract = "APPROVED" /\ DesiredContract(s) = "RELEASED" /\ s.tagged
         \/ s.contract = "RELEASED" /\ DesiredContract(s) = "CONSUMED"
         \/ s.contract = "CONSUMED" /\ DesiredContract(s) = "CONFORMANCE_PASS"
  BY DEF DesiredContract, Revision, Sot, ContractState, StatesOf, ContractNext
<1>2. CASE ReconciledContract(s) = s
  BY <1>2 DEF ContractAdvances, Revision, Sot
<1>3. CASE ReconciledContract(s) = [s EXCEPT !.contract = DesiredContract(s)]
  BY <1>1, <1>3 DEF ContractAdvances, Revision, Sot
<1> QED
  BY <1>2, <1>3 DEF ReconciledContract

\* An item is closed only when its exits are met.
LEMMA ReconciledRoadmapFacts ==
  ASSUME NEW s \in Revision
  PROVE  LET t == ReconciledRoadmap(s)
         IN  /\ t \in Revision
             /\ \A i \in Item : t.item[i] = "DONE" => s.item[i] = "DONE" \/ ExitsMet(s, i)
             /\ t = [s EXCEPT !.item = t.item]
<1> DEFINE t == ReconciledRoadmap(s)
<1>1. ASSUME NEW i \in Item
      PROVE  /\ ReconciledItem(s, i) \in ItemState
             /\ ReconciledItem(s, i) = "DONE" => s.item[i] = "DONE" \/ ExitsMet(s, i)
  <2>1. s.item[i] \in ItemState
    BY DEF Revision, Sot
  <2>2. /\ DerivedRoadmapStatus(s, i) \in ItemState
        /\ DerivedRoadmapStatus(s, i) = "DONE" => ExitsMet(s, i)
    BY DEF DerivedRoadmapStatus, ItemState, StatesOf, RoadmapItemNext
  <2>3. "ACTIVE" \in ItemState
    BY DEF ItemState, StatesOf, RoadmapItemNext
  <2> QED
    BY <2>1, <2>2, <2>3 DEF ReconciledItem
<1>2. t.item = [i \in Item |-> ReconciledItem(s, i)] /\ t = [s EXCEPT !.item = t.item]
  BY DEF ReconciledRoadmap, Revision, Sot
<1>3. t.item \in [Item -> ItemState]
  BY <1>1, <1>2
<1>4. t \in Revision
  BY <1>2, <1>3 DEF Revision, Sot
<1> QED
  BY <1>1, <1>2, <1>4

\* Attempts that were running may fail; results stay.
LEMMA FailedAbandonedFacts ==
  ASSUME NEW s \in Revision, NEW completed
  PROVE  LET t == FailedAbandoned(s, completed)
         IN  /\ t \in Revision
             /\ Len(t.runs) = Len(s.runs)
             /\ \A n \in DOMAIN s.runs : s.runs[n] # "RUNNING" => t.runs[n] = s.runs[n]
             /\ t = [s EXCEPT !.runs = t.runs]
<1> DEFINE t == FailedAbandoned(s, completed)
<1>1. s.runs \in Seq(RunStatus)
  BY DEF Revision, Sot
<1>2. /\ t.runs = [n \in DOMAIN s.runs |-> IF n \in completed /\ s.runs[n] = "RUNNING"
                                            THEN "FAIL" ELSE s.runs[n]]
      /\ t = [s EXCEPT !.runs = t.runs]
  BY DEF FailedAbandoned, Revision, Sot
<1>3. t.runs \in [1 .. Len(s.runs) -> RunStatus]
  BY <1>1, <1>2 DEF RunStatus
<1>4. t.runs \in Seq(RunStatus) /\ Len(t.runs) = Len(s.runs)
  BY <1>1, <1>3
<1>5. t \in Revision
  BY <1>2, <1>4 DEF Revision, Sot
<1> QED
  BY <1>2, <1>4, <1>5

\* The scenario takes a derived state or stays.
LEMMA ReconciledIntegrationFacts ==
  ASSUME NEW s \in Revision
  PROVE  LET t == ReconciledIntegration(s)
         IN  t \in Revision /\ t = [s EXCEPT !.scenario = t.scenario]
<1>1. DesiredIntegration(s) \in IntegrationState
  BY DEF DesiredIntegration, RunStatus, IntegrationState, StatesOf, IntegrationNext
<1>2. CASE ReconciledIntegration(s) = s
  BY <1>2 DEF Revision, Sot
<1>3. CASE ReconciledIntegration(s) = [s EXCEPT !.scenario = DesiredIntegration(s)]
  BY <1>1, <1>3 DEF Revision, Sot
<1> QED
  BY <1>2, <1>3 DEF ReconciledIntegration

\* The feature is moved only into states its gate lets it enter.
LEMMA PromotedFeatureFacts ==
  ASSUME NEW s \in Revision
  PROVE  LET t == PromotedFeature(s)
         IN  /\ t \in Revision
             /\ t.feature = s.feature \/ FeatureGate(s, t.feature)
             /\ t = [s EXCEPT !.feature = t.feature]
<1>1. s.feature \in FeatureState
  BY DEF Revision, Sot
<1> DEFINE refused == {x \in FeatureState : ~FeatureGate(s, x)}
           end == Walk(FeatureSequence, s.feature, DesiredFeature(s), refused)
<1>2. \/ end = s.feature
      \/ end \notin refused /\ \E n \in DOMAIN FeatureSequence : end = FeatureSequence[n]
  BY WalkEnds, SequencesAreOfStates
<1>3. end \in FeatureState /\ (end = s.feature \/ FeatureGate(s, end))
  BY <1>1, <1>2, SequencesAreOfStates
<1>4. PromotedFeature(s) = [s EXCEPT !.feature = end]
  BY DEF PromotedFeature
<1> HIDE DEF end
<1> QED
  BY <1>3, <1>4 DEF Revision, Sot

\* An attempt is appended; the pointer stays or goes to it.
LEMMA AttemptedFacts ==
  ASSUME NEW s \in Revision, NEW o \in Outcomes
  PROVE  LET t == Attempted(s, o[1], o[2])
         IN  /\ t \in Revision /\ Keeps(s, t)
             /\ t.wp = s.wp /\ t.contract = s.contract /\ t.tagged = s.tagged
             /\ t.item = s.item /\ t.feature = s.feature /\ t.accept = s.accept
<1> DEFINE t == Attempted(s, o[1], o[2])
           runs == Append(s.runs, o[1])
           latest == IF o[2] = "attempt" THEN s.latest ELSE Len(s.runs) + 1
           history == IF o[2] = "history"
                        THEN [empty |-> FALSE, state |-> o[1], blocker |-> Nothing]
                        ELSE s.history
<1>1. /\ o[1] \in RunStatus
      /\ o[2] = "history" => o[1] \in {"PASS", "FAIL"}
  BY DEF Outcomes, RunStatus
<1>2. s.runs \in Seq(RunStatus) /\ s.latest \in 0 .. Len(s.runs)
  BY DEF Revision, Sot
<1>3. t = [s EXCEPT !.runs = runs, !.latest = latest, !.history = history]
  BY DEF Attempted
<1>4. /\ runs \in Seq(RunStatus) /\ Len(runs) = Len(s.runs) + 1
      /\ \A n \in DOMAIN s.runs : runs[n] = s.runs[n]
  BY <1>1, <1>2
<1>5. latest \in 0 .. Len(runs) /\ s.latest <= latest
  BY <1>2, <1>4
<1>6. history \in [empty : BOOLEAN, state : IntegrationState,
                   blocker : WorkPackageState \cup {Nothing}]
  <2>1. {"PASS", "FAIL"} \subseteq IntegrationState
    BY DEF IntegrationState, StatesOf, IntegrationNext
  <2>2. s.history \in [empty : BOOLEAN, state : IntegrationState,
                       blocker : WorkPackageState \cup {Nothing}]
    BY DEF Revision, Sot
  <2> QED
    BY <1>1, <2>1, <2>2
<1> HIDE DEF t, runs, latest, history
<1>7. /\ t \in Sot /\ t.runs = runs /\ t.latest = latest
      /\ t.wp = s.wp /\ t.contract = s.contract /\ t.tagged = s.tagged /\ t.ledger = s.ledger
      /\ t.item = s.item /\ t.feature = s.feature /\ t.accept = s.accept
  <2>1. latest \in Nat
    BY <1>4, <1>5
  <2> QED
    BY <1>3, <1>4, <1>6, <2>1 DEF Revision, Sot
<1>8. t \in Revision
  BY <1>5, <1>7 DEF Revision
<1>9. Keeps(s, t)
  BY <1>2, <1>4, <1>5, <1>7 DEF Keeps
<1> QED
  BY <1>7, <1>8, <1>9 DEF t

\* The reconciler as a whole.
LEMMA ReconciledFacts ==
  ASSUME NEW s \in Revision, NEW completed
  PROVE  LET t == Reconciled(s, completed)
         IN  /\ t \in Revision /\ Keeps(s, t)
             /\ t.accept = s.accept /\ t.tagged = s.tagged
             /\ ContractAdvances(s, t)
             /\ \A w \in WP : t.wp[w] = s.wp[w] \/ WorkPackageGate(s, w, t.wp[w])
             /\ \A i \in Item : t.item[i] = "DONE" =>
                  \/ s.item[i] = "DONE"
                  \/ \A minimum \in ContractExit[i] :
                       StateAtLeast(t.contract, minimum, ContractOrder)
             /\ \/ t.feature = s.feature
                \/ /\ t.feature \in Integrating => AllProven(t, WP)
                   /\ t.feature = "DONE" => LatestResult(t) = "PASS"
<1> DEFINE packages == PromotedPackages(s)
           contracted == ReconciledContract(packages)
           derived == ReconciledRoadmap(contracted)
           failed == FailedAbandoned(derived, completed)
           scenario == ReconciledIntegration(failed)
           t == PromotedFeature(scenario)
<1>0. Reconciled(s, completed) = t
  BY DEF Reconciled
<1>1. /\ packages \in Revision
      /\ \A w \in WP : packages.wp[w] = s.wp[w] \/ WorkPackageGate(s, w, packages.wp[w])
      /\ packages = [s EXCEPT !.wp = packages.wp]
  BY PromotedPackagesFacts
<1> HIDE DEF packages
<1>2. /\ contracted \in Revision
      /\ ContractAdvances(packages, contracted)
      /\ contracted = [packages EXCEPT !.contract = contracted.contract]
  BY <1>1, ReconciledContractFacts
<1> HIDE DEF contracted
<1>3. /\ derived \in Revision
      /\ \A i \in Item : derived.item[i] = "DONE" =>
           contracted.item[i] = "DONE" \/ ExitsMet(contracted, i)
      /\ derived = [contracted EXCEPT !.item = derived.item]
  BY <1>2, ReconciledRoadmapFacts
<1> HIDE DEF derived
<1>4. /\ failed \in Revision
      /\ Len(failed.runs) = Len(derived.runs)
      /\ \A n \in DOMAIN derived.runs :
           derived.runs[n] # "RUNNING" => failed.runs[n] = derived.runs[n]
      /\ failed = [derived EXCEPT !.runs = failed.runs]
  BY <1>3, FailedAbandonedFacts
<1> HIDE DEF failed
<1>5. scenario \in Revision /\ scenario = [failed EXCEPT !.scenario = scenario.scenario]
  BY <1>4, ReconciledIntegrationFacts
<1> HIDE DEF scenario
<1>6. /\ t \in Revision
      /\ t.feature = scenario.feature \/ FeatureGate(scenario, t.feature)
      /\ t = [scenario EXCEPT !.feature = t.feature]
  BY <1>5, PromotedFeatureFacts
<1> HIDE DEF t
<1>11. /\ packages.accept = s.accept /\ packages.tagged = s.tagged /\ packages.ledger = s.ledger
       /\ packages.contract = s.contract /\ packages.item = s.item
       /\ packages.feature = s.feature /\ packages.runs = s.runs /\ packages.latest = s.latest
  BY <1>1 DEF Revision, Sot
<1>12. /\ contracted.accept = s.accept /\ contracted.tagged = s.tagged
       /\ contracted.ledger = s.ledger /\ contracted.item = s.item /\ contracted.wp = packages.wp
       /\ contracted.feature = s.feature /\ contracted.runs = s.runs
       /\ contracted.latest = s.latest
  BY <1>1, <1>2, <1>11 DEF Revision, Sot
<1>13. /\ derived.accept = s.accept /\ derived.tagged = s.tagged /\ derived.ledger = s.ledger
       /\ derived.contract = contracted.contract /\ derived.wp = packages.wp
       /\ derived.feature = s.feature /\ derived.runs = s.runs /\ derived.latest = s.latest
  BY <1>2, <1>3, <1>12 DEF Revision, Sot
<1>14. /\ failed.accept = s.accept /\ failed.tagged = s.tagged /\ failed.ledger = s.ledger
       /\ failed.contract = contracted.contract /\ failed.wp = packages.wp
       /\ failed.item = derived.item
       /\ failed.feature = s.feature /\ failed.latest = s.latest
  BY <1>3, <1>4, <1>13 DEF Revision, Sot
<1>15. /\ scenario.accept = s.accept /\ scenario.tagged = s.tagged /\ scenario.ledger = s.ledger
       /\ scenario.contract = contracted.contract /\ scenario.wp = packages.wp
       /\ scenario.item = derived.item /\ scenario.runs = failed.runs
       /\ scenario.feature = s.feature /\ scenario.latest = s.latest
  BY <1>4, <1>5, <1>14 DEF Revision, Sot
<1>16. /\ t.accept = s.accept /\ t.tagged = s.tagged /\ t.ledger = s.ledger
       /\ t.contract = contracted.contract /\ t.wp = packages.wp /\ t.item = derived.item
       /\ t.runs = failed.runs /\ t.latest = s.latest
  BY <1>5, <1>6, <1>15 DEF Revision, Sot
<1>21. Keeps(s, t)
  <2>1. s.latest \in Nat /\ Len(s.runs) \in Nat
    BY DEF Revision, Sot
  <2> QED
    BY <1>4, <1>13, <1>16, <2>1 DEF Keeps
<1>22. ContractAdvances(s, t)
  BY <1>2, <1>11, <1>16 DEF ContractAdvances
<1>23. \A i \in Item : t.item[i] = "DONE" =>
         s.item[i] = "DONE"
         \/ \A minimum \in ContractExit[i] : StateAtLeast(t.contract, minimum, ContractOrder)
  BY <1>3, <1>12, <1>16 DEF ExitsMet
<1>24. \/ t.feature = s.feature
       \/ /\ t.feature \in Integrating => AllProven(t, WP)
          /\ t.feature = "DONE" => LatestResult(t) = "PASS"
  BY <1>6, <1>15, <1>16 DEF FeatureGate, Integrating, AllProven, LatestResult
<1> QED
  BY <1>0, <1>1, <1>6, <1>16, <1>21, <1>22, <1>23, <1>24

-----------------------------------------------------------------------------
(* Every transaction is progress.                                          *)

\* The reconciler makes progress from any revision that holds the states of s and all of
\* its evidence.
LEMMA ReconcilerProgresses ==
  ASSUME NEW s \in Revision, TaggedIfReleased(s), NEW r \in Revision, Keeps(s, r),
         r.wp = s.wp, r.contract = s.contract, r.tagged = s.tagged, r.item = s.item,
         r.feature = s.feature, NEW completed
  PROVE  Reconciled(r, completed) \in Revision /\ Progress(s, Reconciled(r, completed))
<1> DEFINE t == Reconciled(r, completed)
<1>1. /\ t \in Revision /\ Keeps(r, t)
      /\ t.accept = r.accept /\ t.tagged = r.tagged
      /\ ContractAdvances(r, t)
      /\ \A w \in WP : t.wp[w] = r.wp[w] \/ WorkPackageGate(r, w, t.wp[w])
      /\ \A i \in Item : t.item[i] = "DONE" =>
           \/ r.item[i] = "DONE"
           \/ \A minimum \in ContractExit[i] : StateAtLeast(t.contract, minimum, ContractOrder)
      /\ \/ t.feature = r.feature
         \/ /\ t.feature \in Integrating => AllProven(t, WP)
            /\ t.feature = "DONE" => LatestResult(t) = "PASS"
  BY ReconciledFacts
<1> HIDE DEF t
<1>2. Keeps(s, t)
  BY <1>1, KeepsIsTransitive
<1>3. \/ t.contract = s.contract
      \/ t.contract \in ContractNext[s.contract] /\ s.tagged
  BY <1>1 DEF ContractAdvances, ContractNext, TaggedIfReleased
<1>4. ASSUME NEW w \in WP, t.wp[w] \in Proven, t.wp[w] # s.wp[w]
      PROVE  \/ w \in Provider /\ s.contract \in Released
             \/ w \in Consumer /\ t.accept[w] # Nothing
  <2>1. WorkPackageGate(r, w, t.wp[w])
    BY <1>1, <1>4
  <2>2. IF w \in Provider THEN ReleaseEvidence(r, w) ELSE AcceptedCommit(r, w)
    BY <1>4, <2>1 DEF WorkPackageGate
  <2> QED
    BY <1>1, <2>2 DEF ReleaseEvidence, AcceptedCommit, Released, Consumer
<1>5. t.feature \in Integrating =>
        \/ t.feature = s.feature
        \/ AllProven(t, WP) /\ (t.feature = "DONE" => LatestResult(t) = "PASS")
  BY <1>1
<1>6. \A w \in WP : t.wp[w] \in Proven =>
        \/ t.wp[w] = s.wp[w]
        \/ w \in Provider /\ s.contract \in Released
        \/ w \in Consumer /\ t.accept[w] # Nothing
  BY <1>4
<1>7. Progress(s, t)
  BY <1>1, <1>2, <1>3, <1>5, <1>6 DEF Progress
<1> QED
  BY <1>1, <1>7 DEF t

\* A commit of a person passes the gate of its target.
LEMMA PeopleProgress ==
  ASSUME main \in Revision, HumanCommit
  PROVE  main' \in Revision /\ Progress(main, main')
<1>0. /\ main \in Sot /\ main.latest \in 0 .. Len(main.runs) /\ main.runs \in Seq(RunStatus)
      /\ main.latest \in Nat
  BY DEF Revision, Sot
<1>1. ASSUME NEW target \in FeatureState, HumanFeature(target)
      PROVE  main' \in Revision /\ Progress(main, main')
  <2>1. main' = [main EXCEPT !.feature = target] /\ FeatureGate(main, target)
    BY <1>1 DEF HumanFeature
  <2>2. /\ main' \in Sot /\ main'.feature = target
        /\ main'.wp = main.wp /\ main'.contract = main.contract /\ main'.tagged = main.tagged
        /\ main'.item = main.item /\ main'.runs = main.runs /\ main'.latest = main.latest
        /\ main'.ledger = main.ledger /\ main'.accept = main.accept
    BY <1>0, <2>1 DEF Sot
  <2>3. target \in Integrating =>
          AllProven(main', WP) /\ (target = "DONE" => LatestResult(main') = "PASS")
    BY <2>1, <2>2 DEF FeatureGate, Integrating, AllProven, LatestResult
  <2> QED
    BY <1>0, <2>2, <2>3 DEF Revision, Progress, Keeps
<1>2. ASSUME NEW w \in WP, NEW target \in WorkPackageState, HumanWorkPackage(w, target)
      PROVE  main' \in Revision /\ Progress(main, main')
  <2>1. main' = [main EXCEPT !.wp[w] = target] /\ WorkPackageGate(main, w, target)
    BY <1>2 DEF HumanWorkPackage
  <2>2. /\ main' \in Sot /\ \A v \in WP : main'.wp[v] = IF v = w THEN target ELSE main.wp[v]
        /\ main'.feature = main.feature
        /\ main'.contract = main.contract /\ main'.tagged = main.tagged
        /\ main'.item = main.item /\ main'.runs = main.runs /\ main'.latest = main.latest
        /\ main'.ledger = main.ledger /\ main'.accept = main.accept
    BY <1>0, <2>1 DEF Sot
  <2>3. target \in Proven =>
          \/ w \in Provider /\ main.contract \in Released
          \/ w \in Consumer /\ main'.accept[w] # Nothing
    BY <2>1, <2>2 DEF WorkPackageGate, ReleaseEvidence, AcceptedCommit, Released, Consumer
  <2> QED
    BY <1>0, <2>2, <2>3 DEF Revision, Progress, Keeps
<1>3. ASSUME NEW target \in ContractState, HumanContract(target)
      PROVE  main' \in Revision /\ Progress(main, main')
  <2>1. /\ main' = [main EXCEPT !.contract = target] /\ ContractGate(main, target)
        /\ target \in ContractNext[main.contract]
    BY <1>3 DEF HumanContract, Allowed, Successors
  <2>2. /\ main' \in Sot /\ main'.contract = target
        /\ main'.wp = main.wp /\ main'.feature = main.feature /\ main'.tagged = main.tagged
        /\ main'.item = main.item /\ main'.runs = main.runs /\ main'.latest = main.latest
        /\ main'.ledger = main.ledger /\ main'.accept = main.accept
    BY <1>0, <2>1 DEF Sot
  <2>3. target \in Released => main.tagged
    BY <2>1 DEF ContractGate, Released
  <2>4. main' \in Revision /\ Keeps(main, main')
    BY <1>0, <2>2 DEF Revision, Keeps
  <2> QED
    BY <2>1, <2>2, <2>3, <2>4, Zenon DEF Progress
<1>4. ASSUME NEW i \in Item, NEW target \in ItemState, HumanItem(i, target)
      PROVE  main' \in Revision /\ Progress(main, main')
  <2>1. main' = [main EXCEPT !.item[i] = target] /\ RoadmapItemGate(main, i, target)
    BY <1>4 DEF HumanItem
  <2>2. /\ main' \in Sot /\ \A k \in Item : main'.item[k] = IF k = i THEN target ELSE main.item[k]
        /\ main'.wp = main.wp /\ main'.contract = main.contract /\ main'.tagged = main.tagged
        /\ main'.feature = main.feature /\ main'.runs = main.runs /\ main'.latest = main.latest
        /\ main'.ledger = main.ledger /\ main'.accept = main.accept
    BY <1>0, <2>1 DEF Sot
  <2>3. target = "DONE" =>
          \A minimum \in ContractExit[i] : StateAtLeast(main'.contract, minimum, ContractOrder)
    BY <2>1, <2>2 DEF RoadmapItemGate, ExitsMet
  <2>4. \A k \in Item : main'.item[k] = "DONE" =>
          \/ main.item[k] = "DONE"
          \/ \A minimum \in ContractExit[k] :
               StateAtLeast(main'.contract, minimum, ContractOrder)
    BY <2>2, <2>3
  <2> QED
    BY <1>0, <2>2, <2>4 DEF Revision, Progress, Keeps
<1>5. ASSUME \/ \E target \in IntegrationState : HumanIntegration(target)
             \/ TagRelease \/ PinConsumer \/ EditHistory
      PROVE  main' \in Revision /\ Progress(main, main')
  <2>1. /\ main' \in Sot /\ (main.tagged => main'.tagged)
        /\ main'.wp = main.wp /\ main'.contract = main.contract
        /\ main'.item = main.item /\ main'.feature = main.feature
        /\ main'.runs = main.runs /\ main'.latest = main.latest
        /\ main'.ledger = main.ledger /\ main'.accept = main.accept
    <3>1. CASE \E target \in IntegrationState : HumanIntegration(target)
      BY <1>0, <3>1 DEF HumanIntegration, Sot
    <3>2. CASE TagRelease
      BY <1>0, <3>2 DEF TagRelease, Sot
    <3>3. CASE PinConsumer
      BY <1>0, <3>3 DEF PinConsumer, Sot
    <3>4. CASE EditHistory
      <4>1. main.wp[Awaited] \in WorkPackageState
        BY <1>0, PackagesAssumption DEF Sot
      <4>2. PICK blocker \in {Nothing, main.wp[Awaited]} :
              main' = [main EXCEPT !.history = [empty |-> TRUE, state |-> main.scenario,
                                                blocker |-> blocker]]
        BY <3>4 DEF EditHistory
      <4>3. [empty |-> TRUE, state |-> main.scenario, blocker |-> blocker]
              \in [empty : BOOLEAN, state : IntegrationState,
                   blocker : WorkPackageState \cup {Nothing}]
        BY <1>0, <4>1 DEF Sot
      <4> QED
        BY <1>0, <4>2, <4>3 DEF Sot
    <3> QED
      BY <1>5, <3>1, <3>2, <3>3, <3>4
  <2> QED
    BY <1>0, <2>1 DEF Revision, Progress, Keeps
<1> QED
  BY <1>1, <1>2, <1>3, <1>4, <1>5 DEF HumanCommit

\* Every transaction is progress.
LEMMA TransactionProgresses ==
  ASSUME main \in Revision, TaggedIfReleased(main), Transaction
  PROVE  main' \in Revision /\ Progress(main, main')
<1>1. CASE HumanCommit
  BY <1>1, PeopleProgress
<1>2. CASE SyncTransaction
  <2>1. PICK fetched \in Fetched, completed \in SUBSET DOMAIN main.runs :
          main' = Reconciled(SyncedReceipts(main, fetched), completed)
    BY <1>2 DEF SyncTransaction, Committed, SyncOf
  <2> QED
    BY <2>1, SyncedReceiptsFacts, ReconcilerProgresses
<1>3. ASSUME NEW w \in Consumer, NEW acceptance \in Attestations,
             AcceptanceTransaction(w, acceptance)
      PROVE  main' \in Revision /\ Progress(main, main')
  <2> DEFINE attested == Attested(main, w, acceptance)
  <2>1. PICK fetched \in Fetched, completed \in SUBSET DOMAIN main.runs :
          main' = Reconciled(SyncedReceipts(attested, fetched), completed)
    BY <1>3 DEF AcceptanceTransaction, Committed, SyncOf
  <2>2. /\ attested \in Revision /\ Keeps(main, attested)
        /\ attested.wp = main.wp /\ attested.contract = main.contract
        /\ attested.tagged = main.tagged
        /\ attested.item = main.item /\ attested.feature = main.feature
    BY AttestedFacts DEF Consumer
  <2> HIDE DEF attested
  <2> DEFINE synced == SyncedReceipts(attested, fetched)
  <2>3. /\ synced \in Revision /\ Keeps(attested, synced)
        /\ synced.wp = main.wp /\ synced.contract = main.contract
        /\ synced.tagged = main.tagged
        /\ synced.item = main.item /\ synced.feature = main.feature
    BY <2>2, SyncedReceiptsFacts
  <2>4. main' = Reconciled(synced, completed)
    BY <2>1
  <2> HIDE DEF synced
  <2>5. Keeps(main, synced)
    BY <2>2, <2>3, KeepsIsTransitive
  <2> QED
    BY <2>3, <2>4, <2>5, ReconcilerProgresses
<1>4. CASE IntegrationTransaction
  <2>1. PICK completed \in SUBSET DOMAIN main.runs :
          \/ main' = Reconciled(main, completed)
          \/ \E o \in Outcomes : main' = Reconciled(Attempted(main, o[1], o[2]), completed)
    BY <1>4 DEF IntegrationTransaction
  <2>2. CASE main' = Reconciled(main, completed)
    <3>1. Keeps(main, main)
      BY DEF Revision, Sot, Keeps
    <3> QED
      BY <2>2, <3>1, ReconcilerProgresses
  <2>3. ASSUME NEW o \in Outcomes, main' = Reconciled(Attempted(main, o[1], o[2]), completed)
        PROVE  main' \in Revision /\ Progress(main, main')
    BY <2>3, AttemptedFacts, ReconcilerProgresses
  <2> QED
    BY <2>1, <2>2, <2>3
<1> QED
  BY <1>1, <1>2, <1>3, <1>4 DEF Transaction

-----------------------------------------------------------------------------
(* Every transaction moves along the lifecycle graphs.                     *)

\* In words: graph leads from each of its states to states of its own.
IsGraph(graph) == \A x \in StatesOf(graph) : Successors(graph, x) \subseteq StatesOf(graph)

\* A state reaches itself and its successors; what those reach, it reaches too.
LEMMA ReachFacts ==
  ASSUME NEW graph, IsGraph(graph), NEW x \in StatesOf(graph)
  PROVE  /\ x \in Visited(graph, x)
         /\ Successors(graph, x) \subseteq Visited(graph, x)
         /\ Visited(graph, x) \subseteq StatesOf(graph)
         /\ \A y \in Visited(graph, x) : Visited(graph, y) \subseteq Visited(graph, x)
<1>1. x \in Visited(graph, x) /\ Visited(graph, x) \subseteq StatesOf(graph)
  BY DEF Visited
<1>2. Successors(graph, x) \subseteq Visited(graph, x)
  BY DEF Visited, IsClosed, IsGraph
<1>3. ASSUME NEW y \in Visited(graph, x), NEW z \in Visited(graph, y)
      PROVE  z \in Visited(graph, x)
  <2>1. z \in StatesOf(graph)
    BY DEF Visited
  <2>2. ASSUME NEW states \in SUBSET StatesOf(graph), x \in states, IsClosed(graph, states)
        PROVE  z \in states
    <3>1. y \in states
      BY <2>2 DEF Visited
    <3> QED
      BY <2>2, <3>1 DEF Visited
  <2> QED
    BY <2>1, <2>2 DEF Visited
<1> QED
  BY <1>1, <1>2, <1>3

\* In words: the sequence goes along the edges of graph.
IsPath(sequence, graph) ==
  /\ DOMAIN sequence \subseteq 1 .. 8
  /\ \A n \in DOMAIN sequence : sequence[n] \in StatesOf(graph)
  /\ \A n \in DOMAIN sequence : \A m \in 1 .. n : m \in DOMAIN sequence
  /\ \A n \in 1 .. 7 : n + 1 \in DOMAIN sequence => sequence[n + 1] \in Successors(graph, sequence[n])

\* The lifecycles are graphs, and the two sequences are paths in theirs.
LEMMA Lifecycles ==
  /\ IsGraph(WorkPackageNext) /\ IsGraph(RoadmapItemNext) /\ IsGraph(ContractNext)
  /\ IsGraph(IntegrationNext) /\ IsGraph(FeatureNext)
  /\ IsPath(WorkPackageSequence, WorkPackageNext) /\ IsPath(FeatureSequence, FeatureNext)
<1>1. IsGraph(WorkPackageNext)
  BY DEF IsGraph, StatesOf, Successors, WorkPackageNext
<1>2. IsGraph(RoadmapItemNext)
  BY DEF IsGraph, StatesOf, Successors, RoadmapItemNext
<1>3. IsGraph(ContractNext)
  BY DEF IsGraph, StatesOf, Successors, ContractNext
<1>4. IsGraph(IntegrationNext)
  BY DEF IsGraph, StatesOf, Successors, IntegrationNext
<1>5. IsGraph(FeatureNext)
  BY DEF IsGraph, StatesOf, Successors, FeatureNext
<1>6. IsPath(WorkPackageSequence, WorkPackageNext)
  BY DEF IsPath, WorkPackageSequence, StatesOf, Successors, WorkPackageNext
<1>7. IsPath(FeatureSequence, FeatureNext)
  BY DEF IsPath, FeatureSequence, StatesOf, Successors, FeatureNext
<1> QED
  BY <1>1, <1>2, <1>3, <1>4, <1>5, <1>6, <1>7

\* What is further on in a path can be reached.
LEMMA PathsReach ==
  ASSUME NEW sequence, NEW graph, IsPath(sequence, graph),
         NEW i \in DOMAIN sequence, NEW n \in DOMAIN sequence, i <= n
  PROVE  sequence[n] \in Visited(graph, sequence[i])
<1>1. sequence[n] \in StatesOf(graph)
  BY DEF IsPath
<1>2. ASSUME NEW states \in SUBSET StatesOf(graph), sequence[i] \in states, IsClosed(graph, states)
      PROVE  sequence[n] \in states
  <2> DEFINE In(m) == m \in DOMAIN sequence => sequence[m] \in states
  <2>1. \A m \in 1 .. 7 : m \in DOMAIN sequence /\ In(m) => In(m + 1)
    BY <1>2 DEF IsPath, IsClosed
  <2>2. i \in 1 .. 8 /\ n \in 1 .. 8 /\ In(i) /\ \A m \in 1 .. n : m \in DOMAIN sequence
    BY <1>2 DEF IsPath
  <2> HIDE DEF In
  <2>3. \A m \in 1 .. 7 : i <= m /\ m < n /\ In(m) => In(m + 1)
    BY <2>1, <2>2
  <2>4. In(n)
    BY <2>2, <2>3
  <2> QED
    BY <2>4 DEF In
<1> QED
  BY <1>1, <1>2 DEF Visited

\* A walk along a path goes where the path leads.
LEMMA WalksReach ==
  ASSUME NEW sequence, NEW graph, IsGraph(graph), IsPath(sequence, graph),
         NEW current \in StatesOf(graph), NEW target, NEW refused
  PROVE  Walk(sequence, current, target, refused) \in Visited(graph, current)
<1>1. DOMAIN sequence \subseteq 1 .. 8
  BY DEF IsPath
<1> DEFINE end == Walk(sequence, current, target, refused)
<1>2. \/ end = current
      \/ \E i \in DOMAIN sequence, n \in DOMAIN sequence :
           i <= n /\ sequence[i] = current /\ end = sequence[n]
  BY <1>1, WalkFacts
<1> HIDE DEF end
<1>3. end = current => end \in Visited(graph, current)
  BY ReachFacts
<1>4. ASSUME NEW i \in DOMAIN sequence, NEW n \in DOMAIN sequence,
             i <= n, sequence[i] = current, end = sequence[n]
      PROVE  end \in Visited(graph, current)
  BY <1>4, PathsReach
<1>5. end \in Visited(graph, current)
  BY <1>2, <1>3, <1>4
<1> QED
  BY <1>5 DEF end

\* In words: every state of t is reached from the one s has.
Legal(s, t) ==
  /\ \A w \in WP : t.wp[w] \in Visited(WorkPackageNext, s.wp[w])
  /\ \A i \in Item : t.item[i] \in Visited(RoadmapItemNext, s.item[i])
  /\ t.contract \in Visited(ContractNext, s.contract)
  /\ t.scenario \in Visited(IntegrationNext, s.scenario)
  /\ t.feature \in Visited(FeatureNext, s.feature)

\* The states of a revision are states of the lifecycles, and reach themselves.
LEMMA StatesReachThemselves ==
  ASSUME NEW s \in Revision
  PROVE  /\ \A w \in WP : /\ s.wp[w] \in StatesOf(WorkPackageNext)
                          /\ s.wp[w] \in Visited(WorkPackageNext, s.wp[w])
         /\ \A i \in Item : /\ s.item[i] \in StatesOf(RoadmapItemNext)
                            /\ s.item[i] \in Visited(RoadmapItemNext, s.item[i])
         /\ s.contract \in StatesOf(ContractNext) /\ s.contract \in Visited(ContractNext, s.contract)
         /\ s.scenario \in StatesOf(IntegrationNext)
         /\ s.scenario \in Visited(IntegrationNext, s.scenario)
         /\ s.feature \in StatesOf(FeatureNext) /\ s.feature \in Visited(FeatureNext, s.feature)
<1>1. /\ \A w \in WP : s.wp[w] \in StatesOf(WorkPackageNext)
      /\ \A i \in Item : s.item[i] \in StatesOf(RoadmapItemNext)
      /\ s.contract \in StatesOf(ContractNext) /\ s.scenario \in StatesOf(IntegrationNext)
      /\ s.feature \in StatesOf(FeatureNext)
  BY DEF Revision, Sot, WorkPackageState, ItemState, ContractState, IntegrationState, FeatureState
<1> QED
  BY <1>1, Lifecycles, ReachFacts

\* Two legal moves are one.
LEMMA LegalIsTransitive ==
  ASSUME NEW s \in Revision, NEW t \in Revision, NEW u \in Revision, Legal(s, t), Legal(t, u)
  PROVE  Legal(s, u)
<1>1. ASSUME NEW w \in WP
      PROVE  u.wp[w] \in Visited(WorkPackageNext, s.wp[w])
  <2>1. t.wp[w] \in Visited(WorkPackageNext, s.wp[w]) /\ u.wp[w] \in Visited(WorkPackageNext, t.wp[w])
    BY DEF Legal
  <2> QED
    BY <2>1, StatesReachThemselves, Lifecycles, ReachFacts
<1>2. ASSUME NEW i \in Item
      PROVE  u.item[i] \in Visited(RoadmapItemNext, s.item[i])
  <2>1. /\ t.item[i] \in Visited(RoadmapItemNext, s.item[i])
        /\ u.item[i] \in Visited(RoadmapItemNext, t.item[i])
    BY DEF Legal
  <2> QED
    BY <2>1, StatesReachThemselves, Lifecycles, ReachFacts
<1>3. u.contract \in Visited(ContractNext, s.contract)
  BY StatesReachThemselves, Lifecycles, ReachFacts DEF Legal
<1>4. u.scenario \in Visited(IntegrationNext, s.scenario)
  BY StatesReachThemselves, Lifecycles, ReachFacts DEF Legal
<1>5. u.feature \in Visited(FeatureNext, s.feature)
  BY StatesReachThemselves, Lifecycles, ReachFacts DEF Legal
<1> QED
  BY <1>1, <1>2, <1>3, <1>4, <1>5 DEF Legal

\* What moves nothing is legal.
LEMMA StayingIsLegal ==
  ASSUME NEW s \in Revision, NEW t,
         t.wp = s.wp, t.item = s.item, t.contract = s.contract, t.scenario = s.scenario,
         t.feature = s.feature
  PROVE  Legal(s, t)
BY StatesReachThemselves DEF Legal

\* Each function of the reconciler moves one kind of state, and legally: packages walk
\* along their sequence.
LEMMA PackagesMoveLegally ==
  ASSUME NEW s \in Revision
  PROVE  Legal(s, PromotedPackages(s))
<1> DEFINE t == PromotedPackages(s)
<1>1. t = [s EXCEPT !.wp = t.wp]
  BY PromotedPackagesFacts
<1>2. t.wp = [w \in WP |-> PromotedPackage(s, w)]
  BY DEF PromotedPackages, Revision, Sot
<1>3. ASSUME NEW w \in WP
      PROVE  PromotedPackage(s, w) \in Visited(WorkPackageNext, s.wp[w])
  BY StatesReachThemselves, Lifecycles, WalksReach DEF PromotedPackage
<1> HIDE DEF t
<1>4. Legal(s, t)
  BY <1>1, <1>2, <1>3, StatesReachThemselves DEF Legal, Revision, Sot
<1> QED
  BY <1>4 DEF t

\* The contract takes an edge.
LEMMA ContractMovesLegally ==
  ASSUME NEW s \in Revision
  PROVE  Legal(s, ReconciledContract(s))
<1> DEFINE t == ReconciledContract(s)
<1>1. ContractAdvances(s, t) /\ t = [s EXCEPT !.contract = t.contract]
  BY ReconciledContractFacts
<1> HIDE DEF t
<1>2. t.contract = s.contract \/ t.contract \in Successors(ContractNext, s.contract)
  BY <1>1 DEF ContractAdvances, Successors, ContractNext
<1>3. t.contract \in Visited(ContractNext, s.contract)
  BY <1>2, StatesReachThemselves, Lifecycles, ReachFacts
<1>4. Legal(s, t)
  BY <1>1, <1>3, StatesReachThemselves DEF Legal, Revision, Sot
<1> QED
  BY <1>4 DEF t

\* Items take an edge, or that from PLANNED to ACTIVE.
LEMMA ItemsMoveLegally ==
  ASSUME NEW s \in Revision
  PROVE  Legal(s, ReconciledRoadmap(s))
<1> DEFINE t == ReconciledRoadmap(s)
<1>1. t = [s EXCEPT !.item = t.item]
  BY ReconciledRoadmapFacts
<1>2. t.item = [i \in Item |-> ReconciledItem(s, i)]
  BY DEF ReconciledRoadmap, Revision, Sot
<1>3. ASSUME NEW i \in Item
      PROVE  ReconciledItem(s, i) \in Visited(RoadmapItemNext, s.item[i])
  <2>1. \/ ReconciledItem(s, i) = s.item[i]
        \/ ReconciledItem(s, i) \in Successors(RoadmapItemNext, s.item[i])
    BY DEF ReconciledItem, Allowed, Successors, RoadmapItemNext
  <2> QED
    BY <2>1, StatesReachThemselves, Lifecycles, ReachFacts
<1> HIDE DEF t
<1>4. Legal(s, t)
  BY <1>1, <1>2, <1>3, StatesReachThemselves DEF Legal, Revision, Sot
<1> QED
  BY <1>4 DEF t

\* The scenario goes where a path leads.
LEMMA ScenarioMovesLegally ==
  ASSUME NEW s \in Revision
  PROVE  Legal(s, ReconciledIntegration(s))
<1>1. CASE ReconciledIntegration(s) = s
  BY <1>1, StayingIsLegal
<1>2. CASE /\ DesiredIntegration(s) \in IntegrationReach[s.scenario]
           /\ ReconciledIntegration(s) = [s EXCEPT !.scenario = DesiredIntegration(s)]
  <2> DEFINE desired == DesiredIntegration(s)
  <2>1. desired \in Visited(IntegrationNext, s.scenario)
    BY <1>2, StatesReachThemselves DEF IntegrationReach, Reach
  <2> HIDE DEF desired
  <2>2. Legal(s, [s EXCEPT !.scenario = desired])
    BY <2>1, StatesReachThemselves DEF Legal, Revision, Sot
  <2> QED
    BY <1>2, <2>2 DEF desired
<1> QED
  BY <1>1, <1>2 DEF ReconciledIntegration

\* The feature walks along its sequence.
LEMMA FeatureMovesLegally ==
  ASSUME NEW s \in Revision
  PROVE  Legal(s, PromotedFeature(s))
<1> DEFINE end == Walk(FeatureSequence, s.feature, DesiredFeature(s),
                       {x \in FeatureState : ~FeatureGate(s, x)})
<1>1. end \in Visited(FeatureNext, s.feature)
  BY StatesReachThemselves, Lifecycles, WalksReach
<1>2. PromotedFeature(s) = [s EXCEPT !.feature = end]
  BY DEF PromotedFeature
<1> HIDE DEF end
<1>3. Legal(s, [s EXCEPT !.feature = end])
  BY <1>1, StatesReachThemselves DEF Legal, Revision, Sot
<1> QED
  BY <1>2, <1>3

\* The reconciler as a whole.
LEMMA ReconcilerMovesLegally ==
  ASSUME NEW s \in Revision, NEW completed
  PROVE  Legal(s, Reconciled(s, completed))
<1> DEFINE packages == PromotedPackages(s)
           contracted == ReconciledContract(packages)
           derived == ReconciledRoadmap(contracted)
           failed == FailedAbandoned(derived, completed)
           scenario == ReconciledIntegration(failed)
           t == PromotedFeature(scenario)
<1>0. Reconciled(s, completed) = t
  BY DEF Reconciled
<1>1. packages \in Revision /\ Legal(s, packages)
  BY PromotedPackagesFacts, PackagesMoveLegally
<1> HIDE DEF packages
<1>2. contracted \in Revision /\ Legal(packages, contracted)
  BY <1>1, ReconciledContractFacts, ContractMovesLegally
<1> HIDE DEF contracted
<1>3. derived \in Revision /\ Legal(contracted, derived)
  BY <1>2, ReconciledRoadmapFacts, ItemsMoveLegally
<1> HIDE DEF derived
<1>4. failed \in Revision /\ Legal(derived, failed)
  <2>1. failed \in Revision /\ failed = [derived EXCEPT !.runs = failed.runs]
    BY <1>3, FailedAbandonedFacts
  <2> HIDE DEF failed
  <2>2. /\ failed.wp = derived.wp /\ failed.item = derived.item
        /\ failed.contract = derived.contract /\ failed.scenario = derived.scenario
        /\ failed.feature = derived.feature
    BY <1>3, <2>1 DEF Revision, Sot
  <2> QED
    BY <1>3, <2>1, <2>2, StayingIsLegal
<1> HIDE DEF failed
<1>5. scenario \in Revision /\ Legal(failed, scenario)
  BY <1>4, ReconciledIntegrationFacts, ScenarioMovesLegally
<1> HIDE DEF scenario
<1>6. t \in Revision /\ Legal(scenario, t)
  BY <1>5, PromotedFeatureFacts, FeatureMovesLegally
<1> HIDE DEF t
<1>7. Legal(s, contracted)
  BY <1>1, <1>2, LegalIsTransitive
<1>8. Legal(s, failed)
  <2>1. Legal(s, derived)
    BY <1>2, <1>3, <1>7, LegalIsTransitive
  <2> QED
    BY <1>3, <1>4, <2>1, LegalIsTransitive
<1>9. Legal(s, t)
  <2>1. Legal(s, scenario)
    BY <1>4, <1>5, <1>8, LegalIsTransitive
  <2> QED
    BY <1>5, <1>6, <2>1, LegalIsTransitive
<1> QED
  BY <1>0, <1>9

\* A commit of a person takes one edge.
LEMMA PeopleMoveLegally ==
  ASSUME main \in Revision, HumanCommit
  PROVE  Legal(main, main')
<1>1. ASSUME NEW target \in FeatureState, HumanFeature(target)
      PROVE  Legal(main, main')
  <2>1. target \in Visited(FeatureNext, main.feature)
    BY <1>1, StatesReachThemselves, Lifecycles, ReachFacts DEF HumanFeature, Allowed
  <2>2. main' = [main EXCEPT !.feature = target]
    BY <1>1 DEF HumanFeature
  <2> QED
    BY <2>1, <2>2, StatesReachThemselves DEF Legal, Revision, Sot
<1>2. ASSUME NEW w \in WP, NEW target \in WorkPackageState, HumanWorkPackage(w, target)
      PROVE  Legal(main, main')
  <2>1. target \in Visited(WorkPackageNext, main.wp[w])
    BY <1>2, StatesReachThemselves, Lifecycles, ReachFacts DEF HumanWorkPackage, Allowed
  <2>2. main' = [main EXCEPT !.wp[w] = target]
    BY <1>2 DEF HumanWorkPackage
  <2>3. \A v \in WP : main'.wp[v] = IF v = w THEN target ELSE main.wp[v]
    BY <2>2 DEF Revision, Sot
  <2>4. /\ main'.item = main.item /\ main'.contract = main.contract
        /\ main'.scenario = main.scenario /\ main'.feature = main.feature
    BY <2>2 DEF Revision, Sot
  <2> QED
    BY <2>1, <2>3, <2>4, StatesReachThemselves DEF Legal
<1>3. ASSUME NEW target \in ContractState, HumanContract(target)
      PROVE  Legal(main, main')
  <2>1. target \in Visited(ContractNext, main.contract)
    BY <1>3, StatesReachThemselves, Lifecycles, ReachFacts DEF HumanContract, Allowed
  <2>2. main' = [main EXCEPT !.contract = target]
    BY <1>3 DEF HumanContract
  <2> QED
    BY <2>1, <2>2, StatesReachThemselves DEF Legal, Revision, Sot
<1>4. ASSUME NEW i \in Item, NEW target \in ItemState, HumanItem(i, target)
      PROVE  Legal(main, main')
  <2>1. target \in Visited(RoadmapItemNext, main.item[i])
    BY <1>4, StatesReachThemselves, Lifecycles, ReachFacts DEF HumanItem, Allowed
  <2>2. main' = [main EXCEPT !.item[i] = target]
    BY <1>4 DEF HumanItem
  <2>3. \A k \in Item : main'.item[k] = IF k = i THEN target ELSE main.item[k]
    BY <2>2 DEF Revision, Sot
  <2>4. /\ main'.wp = main.wp /\ main'.contract = main.contract
        /\ main'.scenario = main.scenario /\ main'.feature = main.feature
    BY <2>2 DEF Revision, Sot
  <2> QED
    BY <2>1, <2>3, <2>4, StatesReachThemselves DEF Legal
<1>5. ASSUME NEW target \in IntegrationState, HumanIntegration(target)
      PROVE  Legal(main, main')
  <2>1. target \in Visited(IntegrationNext, main.scenario)
    BY <1>5, StatesReachThemselves, Lifecycles, ReachFacts DEF HumanIntegration, Allowed
  <2>2. main' = [main EXCEPT !.scenario = target]
    BY <1>5 DEF HumanIntegration
  <2> QED
    BY <2>1, <2>2, StatesReachThemselves DEF Legal, Revision, Sot
<1>6. ASSUME TagRelease \/ PinConsumer \/ EditHistory
      PROVE  Legal(main, main')
  <2>1. /\ main'.wp = main.wp /\ main'.item = main.item /\ main'.contract = main.contract
        /\ main'.scenario = main.scenario /\ main'.feature = main.feature
    BY <1>6 DEF TagRelease, PinConsumer, EditHistory, Revision, Sot
  <2> QED
    BY <2>1, StayingIsLegal
<1> QED
  BY <1>1, <1>2, <1>3, <1>4, <1>5, <1>6 DEF HumanCommit

\* A reconciler that starts from the states of s moves legally from s.
LEMMA ReconciledFromTheSame ==
  ASSUME NEW s \in Revision, NEW r \in Revision,
         r.wp = s.wp, r.item = s.item, r.contract = s.contract, r.scenario = s.scenario,
         r.feature = s.feature, NEW completed
  PROVE  Legal(s, Reconciled(r, completed))
<1>1. Legal(r, Reconciled(r, completed))
  BY ReconcilerMovesLegally
<1> QED
  BY <1>1 DEF Legal

\* Every transaction moves legally.
LEMMA TransactionsMoveLegally ==
  ASSUME main \in Revision, Transaction
  PROVE  Legal(main, main')
<1>1. CASE HumanCommit
  BY <1>1, PeopleMoveLegally
<1>2. CASE SyncTransaction
  <2>1. PICK fetched \in Fetched, completed \in SUBSET DOMAIN main.runs :
          main' = Reconciled(SyncedReceipts(main, fetched), completed)
    BY <1>2 DEF SyncTransaction, Committed, SyncOf
  <2>2. SyncedReceipts(main, fetched).scenario = main.scenario
    BY DEF SyncedReceipts, Revision, Sot
  <2> QED
    BY <2>1, <2>2, SyncedReceiptsFacts, ReconciledFromTheSame
<1>3. ASSUME NEW w \in Consumer, NEW acceptance \in Attestations,
             AcceptanceTransaction(w, acceptance)
      PROVE  Legal(main, main')
  <2> DEFINE attested == Attested(main, w, acceptance)
  <2>1. PICK fetched \in Fetched, completed \in SUBSET DOMAIN main.runs :
          main' = Reconciled(SyncedReceipts(attested, fetched), completed)
    BY <1>3 DEF AcceptanceTransaction, Committed, SyncOf
  <2>2. /\ attested \in Revision
        /\ attested.wp = main.wp /\ attested.contract = main.contract
        /\ attested.item = main.item /\ attested.feature = main.feature
    BY AttestedFacts DEF Consumer
  <2>3. attested.scenario = main.scenario
    BY DEF Attested, Revision, Sot
  <2> HIDE DEF attested
  <2> DEFINE synced == SyncedReceipts(attested, fetched)
  <2>4. /\ synced \in Revision
        /\ synced.wp = main.wp /\ synced.contract = main.contract
        /\ synced.item = main.item /\ synced.feature = main.feature
    BY <2>2, SyncedReceiptsFacts
  <2>5. synced.scenario = main.scenario
    BY <2>2, <2>3 DEF SyncedReceipts, Revision, Sot
  <2>6. main' = Reconciled(synced, completed)
    BY <2>1
  <2> HIDE DEF synced
  <2> QED
    BY <2>4, <2>5, <2>6, ReconciledFromTheSame
<1>4. CASE IntegrationTransaction
  <2>1. PICK completed \in SUBSET DOMAIN main.runs :
          \/ main' = Reconciled(main, completed)
          \/ \E o \in Outcomes : main' = Reconciled(Attempted(main, o[1], o[2]), completed)
    BY <1>4 DEF IntegrationTransaction
  <2>2. CASE main' = Reconciled(main, completed)
    BY <2>2, ReconcilerMovesLegally
  <2>3. ASSUME NEW o \in Outcomes, main' = Reconciled(Attempted(main, o[1], o[2]), completed)
        PROVE  Legal(main, main')
    <3>1. Attempted(main, o[1], o[2]).scenario = main.scenario
      BY DEF Attempted, Revision, Sot
    <3> QED
      BY <2>3, <3>1, AttemptedFacts, ReconciledFromTheSame
  <2> QED
    BY <2>1, <2>2, <2>3
<1> QED
  BY <1>1, <1>2, <1>3, <1>4 DEF Transaction

-----------------------------------------------------------------------------
(* Progress keeps what has been earned.                                    *)

\* A contract that has been released never goes back.
LEMMA ContractMonotone ==
  ASSUME NEW c \in ContractState, NEW d, d = c \/ d \in ContractNext[c],
         NEW minimum \in Released, StateAtLeast(c, minimum, ContractOrder)
  PROVE  StateAtLeast(d, minimum, ContractOrder)
<1>1. c \in {"RELEASED", "CONSUMED", "CONFORMANCE_PASS", "DEPRECATED", "RETIRED"}
  BY DEF StateAtLeast, ContractOrder, Released, ContractState, StatesOf, ContractNext
<1>2. CASE c = "RELEASED"
  BY <1>2 DEF StateAtLeast, ContractOrder, Released, ContractNext
<1>3. CASE c = "CONSUMED"
  BY <1>3 DEF StateAtLeast, ContractOrder, Released, ContractNext
<1>4. CASE c = "CONFORMANCE_PASS"
  BY <1>4 DEF StateAtLeast, ContractOrder, Released, ContractNext
<1>5. CASE c = "DEPRECATED"
  BY <1>5 DEF StateAtLeast, ContractOrder, Released, ContractNext
<1>6. CASE c = "RETIRED"
  BY <1>6 DEF StateAtLeast, ContractOrder, Released, ContractNext
<1> QED
  BY <1>1, <1>2, <1>3, <1>4, <1>5, <1>6

\* What is released is at least released.
LEMMA ReleasedIsReleased ==
  ASSUME NEW c \in Released
  PROVE  StateAtLeast(c, "RELEASED", ContractOrder)
BY DEF Released, StateAtLeast, ContractOrder

\* Progress from a revision that has earned its states ends in one that has.
LEMMA ProgressKeepsEarned ==
  ASSUME NEW s \in Revision, NEW t \in Revision, Earned(s), Progress(s, t)
  PROVE  Earned(t)
<1>0. /\ s.contract \in ContractState /\ t.contract \in ContractState
      /\ t.contract = s.contract \/ t.contract \in ContractNext[s.contract]
      /\ s.tagged => t.tagged
  BY DEF Revision, Sot, Progress
<1>1. ConsumersAttested(t)
  <2>1. ASSUME NEW w \in Consumer, t.wp[w] \in Proven
        PROVE  t.accept[w] # Nothing
    <3>1. w \in WP /\ w \notin Provider
      BY DEF Consumer
    <3>2. t.wp[w] = s.wp[w] \/ t.accept[w] # Nothing
      BY <2>1, <3>1 DEF Progress
    <3>3. s.wp[w] \in Proven => s.accept[w] # Nothing
      BY DEF Earned, ConsumersAttested
    <3>4. s.accept[w] # Nothing => t.accept[w] # Nothing
      BY <3>1 DEF Progress, Keeps
    <3> QED
      BY <2>1, <3>2, <3>3, <3>4
  <2> QED
    BY <2>1 DEF ConsumersAttested
<1>2. TaggedIfReleased(t)
  BY <1>0 DEF Earned, TaggedIfReleased, Progress, Released
<1>3. ASSUME NEW w \in Provider, t.wp[w] \in Proven
      PROVE  StateAtLeast(t.contract, "RELEASED", ContractOrder) /\ t.tagged
  <2>1. \/ s.wp[w] \in Proven
        \/ s.contract \in Released
    BY <1>3, PackagesAssumption DEF Progress, Consumer
  <2>2. StateAtLeast(s.contract, "RELEASED", ContractOrder) /\ s.tagged
    BY <2>1, ReleasedIsReleased DEF Earned, ReleaseEarned, TaggedIfReleased, Released
  <2>3. "RELEASED" \in Released
    BY DEF Released
  <2> QED
    BY <1>0, <2>2, <2>3, ContractMonotone
<1>4. ASSUME Provider # {}, t.feature \in Integrating
      PROVE  StateAtLeast(t.contract, "RELEASED", ContractOrder) /\ t.tagged
  <2>1. CASE t.feature = s.feature
    <3>1. StateAtLeast(s.contract, "RELEASED", ContractOrder) /\ s.tagged
      BY <1>4, <2>1 DEF Earned, ReleaseEarned
    <3>2. "RELEASED" \in Released
      BY DEF Released
    <3> QED
      BY <1>0, <3>1, <3>2, ContractMonotone
  <2>2. CASE AllProven(t, WP)
    <3>1. PICK w \in Provider : t.wp[w] \in Proven
      BY <1>4, <2>2, PackagesAssumption DEF AllProven
    <3> QED
      BY <1>3, <3>1
  <2> QED
    BY <1>4, <2>1, <2>2 DEF Progress
<1>5. ReleaseEarned(t)
  BY <1>3, <1>4 DEF ReleaseEarned
<1>6. PassEarned(t)
  <2>1. SUFFICES ASSUME t.feature = "DONE"
                 PROVE  \E n \in DOMAIN t.runs : t.runs[n] = "PASS"
    BY DEF PassEarned
  <2>2. /\ s.runs \in Seq(RunStatus) /\ t.runs \in Seq(RunStatus)
        /\ t.latest \in 0 .. Len(t.runs)
        /\ Len(s.runs) <= Len(t.runs)
        /\ \A n \in DOMAIN s.runs : s.runs[n] # "RUNNING" => t.runs[n] = s.runs[n]
    BY DEF Revision, Sot, Progress, Keeps
  <2>3. CASE s.feature = "DONE"
    <3>1. PICK n \in DOMAIN s.runs : s.runs[n] = "PASS"
      BY <2>3 DEF Earned, PassEarned
    <3> QED
      BY <2>2, <3>1
  <2>4. CASE LatestResult(t) = "PASS"
    BY <2>2, <2>4 DEF LatestResult
  <2> QED
    BY <2>1, <2>3, <2>4 DEF Progress, Integrating
<1>7. ASSUME ExitsAskForRelease
      PROVE  ContractExitsHold(t)
  <2>1. ASSUME NEW i \in Item, t.item[i] = "DONE", NEW minimum \in ContractExit[i]
        PROVE  StateAtLeast(t.contract, minimum, ContractOrder)
    <3>1. minimum \in Released
      BY <1>7, <2>1 DEF ExitsAskForRelease
    <3>2. CASE s.item[i] = "DONE"
      <4>1. StateAtLeast(s.contract, minimum, ContractOrder)
        BY <1>7, <2>1, <3>2 DEF Earned, ContractExitsHold
      <4> QED
        BY <1>0, <3>1, <4>1, ContractMonotone
    <3> QED
      BY <2>1, <3>2 DEF Progress
  <2> QED
    BY <2>1 DEF ContractExitsHold
<1> QED
  BY <1>1, <1>2, <1>5, <1>6, <1>7 DEF Earned

-----------------------------------------------------------------------------
(* The theorems.                                                           *)

\* The revisions the branch may start from have earned their states.
LEMMA SoundFromTheStart == main \in InitSot => BranchIsSound
BY InputsAssumption, InitialRevisionsAssumption DEF BranchIsSound, Earned

\* A transaction takes a sound branch to a sound branch.
LEMMA TransactionsKeepSoundness ==
  BranchIsSound /\ [Transaction]_main => BranchIsSound' /\ [Keeps(main, main')]_main
<1> SUFFICES ASSUME BranchIsSound, [Transaction]_main
             PROVE  BranchIsSound' /\ [Keeps(main, main')]_main
  OBVIOUS
<1>1. CASE UNCHANGED main
  BY <1>1 DEF BranchIsSound
<1>2. CASE Transaction
  <2>1. main' \in Revision /\ Progress(main, main')
    BY <1>2, TransactionProgresses DEF BranchIsSound, Earned
  <2>2. Earned(main')
    BY <2>1, ProgressKeepsEarned DEF BranchIsSound
  <2> QED
    BY <2>1, <2>2 DEF BranchIsSound, Progress
<1> QED
  BY <1>1, <1>2

\* Every revision of the branch is well formed and has earned its states.
THEOREM BranchStaysSound == AtomicSpec => []BranchIsSound
BY SoundFromTheStart, TransactionsKeepSoundness, PTL DEF AtomicSpec

\* Consumers are VERIFIED or DONE only with evidence of the acceptance gate.
THEOREM ConsumersStayAttested == AtomicSpec => []VerifiedConsumerAttested
<1>1. BranchIsSound => VerifiedConsumerAttested
  BY DEF BranchIsSound, Earned, VerifiedConsumerAttested
<1> QED
  BY <1>1, BranchStaysSound, PTL

\* Providers are proven, and features integrated, only on a released contract.
THEOREM ReleaseComesFirst == AtomicSpec => []ReleasedBeforeIntegration
<1>1. BranchIsSound => ReleasedBeforeIntegration
  BY DEF BranchIsSound, Earned, ReleasedBeforeIntegration
<1> QED
  BY <1>1, BranchStaysSound, PTL

\* A finished feature has passed its integration.
THEOREM DoneFeaturesPassed == AtomicSpec => []DoneFeatureHadPass
<1>1. BranchIsSound => DoneFeatureHadPass
  BY DEF BranchIsSound, Earned, DoneFeatureHadPass
<1> QED
  BY <1>1, BranchStaysSound, PTL

\* Closed items keep their contract, when no exit is content with an approval.
THEOREM ClosedItemsStayEarned ==
  ASSUME ExitsAskForRelease
  PROVE  AtomicSpec => []DoneItemsStayEarned
<1>1. BranchIsSound => DoneItemsStayEarned
  BY DEF BranchIsSound, Earned, DoneItemsStayEarned
<1> QED
  BY <1>1, BranchStaysSound, PTL

\* No transaction loses evidence.
THEOREM EvidenceIsKept == AtomicSpec => EvidenceKept
<1>1. [Keeps(main, main')]_main =>
        [/\ Len(main.runs) <= Len(main'.runs)
         /\ \A n \in DOMAIN main.runs :
              main.runs[n] # "RUNNING" => main'.runs[n] = main.runs[n]
         /\ main.latest <= main'.latest
         /\ \A w \in WP : /\ main.ledger[w] # Nothing => main'.ledger[w] # Nothing
                          /\ main.accept[w] # Nothing => main'.accept[w] # Nothing]_main
  BY DEF Keeps
<1> QED
  BY <1>1, SoundFromTheStart, TransactionsKeepSoundness, PTL DEF AtomicSpec, EvidenceKept

\* Every transaction moves the states of the feature along their lifecycle graphs.
THEOREM MovesAreLegal == AtomicSpec => LegalMoves
<1>1. BranchIsSound /\ [Transaction]_main =>
        [/\ \A w \in WP : main'.wp[w] \in WorkPackageReach[main.wp[w]]
         /\ \A i \in Item : main'.item[i] \in RoadmapItemReach[main.item[i]]
         /\ main'.contract \in ContractReach[main.contract]
         /\ main'.scenario \in IntegrationReach[main.scenario]
         /\ main'.feature \in FeatureReach[main.feature]]_main
  <2> SUFFICES ASSUME BranchIsSound, Transaction
               PROVE  /\ \A w \in WP : main'.wp[w] \in WorkPackageReach[main.wp[w]]
                      /\ \A i \in Item : main'.item[i] \in RoadmapItemReach[main.item[i]]
                      /\ main'.contract \in ContractReach[main.contract]
                      /\ main'.scenario \in IntegrationReach[main.scenario]
                      /\ main'.feature \in FeatureReach[main.feature]
    OBVIOUS
  <2>1. main \in Revision /\ Legal(main, main')
    BY TransactionsMoveLegally DEF BranchIsSound
  <2> QED
    BY <2>1, StatesReachThemselves
       DEF Legal, Reach, WorkPackageReach, RoadmapItemReach, ContractReach, IntegrationReach,
           FeatureReach
<1> QED
  BY <1>1, SoundFromTheStart, TransactionsKeepSoundness, PTL DEF AtomicSpec, LegalMoves

-----------------------------------------------------------------------------
(* The jobs.                                                               *)

\* In words: t is what a complete sync arrives at from s, a checkout of branch m.
SyncArrives(m, s, t) ==
  \E fetched \in Fetched, completed \in SUBSET DOMAIN m.runs :
    /\ t = SyncOf(s, fetched, completed)
    /\ FeatureValid(t) /\ StateInvariantsHold(t)

\* In words: t is what a sync of branch m, perhaps with an attestation, arrives at.
SyncOutcome(m, t) ==
  \/ SyncArrives(m, m, t)
  \/ \E w \in Consumer, acceptance \in Attestations :
       SyncArrives(m, Attested(m, w, acceptance), t)

\* In words: t is what an integration job arrives at from branch m.
IntegrationOutcome(m, t) ==
  \E completed \in SUBSET DOMAIN m.runs :
    \/ t = Reconciled(m, completed)
    \/ /\ MayRun(m)
       /\ \E o \in Outcomes : t = Reconciled(Attempted(m, o[1], o[2]), completed)

\* In words: a job that is about to push holds a transaction from the present branch.
CheckoutsAreCurrent ==
  /\ job["sync"].pc = "push" => SyncOutcome(main, job["sync"].tree)
  /\ job["integration"].pc = "push" => IntegrationOutcome(main, job["integration"].tree)

IInv == DOMAIN job = Jobs /\ CheckoutsAreCurrent

-----------------------------------------------------------------------------
\* GitHub's answers are some of the attempts on the branch.
LEMMA LookupsAreAttempts == Lookups \subseteq SUBSET DOMAIN main.runs
BY DEF Lookups

\* A checkout that passes the checks is pushed as it is, one that fails them is lost.
LEMMA CheckedFacts ==
  ASSUME NEW s
  PROVE  Checked(s).pc = "push" =>
           Checked(s).tree = s /\ FeatureValid(s) /\ StateInvariantsHold(s)
BY DEF Checked, Ready, Lost

\* Whoever moves the branch leaves no job able to push.
LEMMA OvertakenFacts ==
  ASSUME NEW j \in Jobs
  PROVE  /\ Overtaken(job)[j].pc # "push"
         /\ DOMAIN Overtaken(job) = Jobs
BY DEF Overtaken, Idle, Lost

\* A step that gives one job something else and leaves the branch and the other job
\* alone keeps the invariant if what the job now holds is current.
LEMMA OneJobStep ==
  ASSUME IInv, UNCHANGED main, NEW j \in Jobs, NEW x, job' = [job EXCEPT ![j] = x],
         x.pc = "push" => IF j = "sync" THEN SyncOutcome(main, x.tree)
                          ELSE IntegrationOutcome(main, x.tree)
  PROVE  IInv'
<1>1. DOMAIN job' = Jobs /\ \A k \in Jobs : job'[k] = IF k = j THEN x ELSE job[k]
  BY DEF IInv
<1>2. "sync" \in Jobs /\ "integration" \in Jobs
  BY DEF Jobs
<1> QED
  BY <1>1, <1>2 DEF IInv, CheckoutsAreCurrent

\* A sync starts from the branch, whatever it attests first.
LEMMA RunSyncStep ==
  ASSUME IInv, NEW s, RunSync(s),
         \/ s = main
         \/ \E w \in Consumer, acceptance \in Attestations : s = Attested(main, w, acceptance)
  PROVE  IInv'
<1>1. PICK fetched \in Fetched, completed \in Lookups :
        job' = [job EXCEPT !["sync"] = Checked(SyncOf(s, fetched, completed))]
  BY DEF RunSync
<1> DEFINE t == SyncOf(s, fetched, completed)
<1>2. completed \in SUBSET DOMAIN main.runs
  BY LookupsAreAttempts
<1>3. FeatureValid(t) /\ StateInvariantsHold(t) => SyncOutcome(main, t)
  BY <1>2 DEF SyncArrives, SyncOutcome
<1> HIDE DEF t
<1>4. Checked(t).pc = "push" => SyncOutcome(main, Checked(t).tree)
  BY <1>3, CheckedFacts
<1>5. job' = [job EXCEPT !["sync"] = Checked(t)] /\ UNCHANGED main
  BY <1>1 DEF RunSync, t
<1> QED
  BY <1>4, <1>5, OneJobStep DEF Jobs

\* An integration job starts from the branch, and holds its attempt or only what the
\* reconciler made of the branch.
LEMMA IntegrationStep ==
  ASSUME IInv, RefusedIntegration \/ \E outcome \in Outcomes : RunIntegration(outcome)
  PROVE  IInv'
<1>1. PICK t : /\ job' = [job EXCEPT !["integration"] = Ready(t)]
               /\ UNCHANGED main
               /\ IntegrationOutcome(main, t)
  <2>1. CASE RefusedIntegration
    BY <2>1, LookupsAreAttempts DEF RefusedIntegration, IntegrationOutcome
  <2>2. ASSUME NEW outcome \in Outcomes, RunIntegration(outcome)
        PROVE  \E t : /\ job' = [job EXCEPT !["integration"] = Ready(t)]
                      /\ UNCHANGED main
                      /\ IntegrationOutcome(main, t)
    BY <2>2, LookupsAreAttempts DEF RunIntegration, IntegrationOutcome
  <2> QED
    BY <2>1, <2>2
<1>2. Ready(t).pc = "push" /\ Ready(t).tree = t
  BY DEF Ready
<1> QED
  BY <1>1, <1>2, OneJobStep DEF Jobs

\* A job that ends has nothing left to push.
LEMMA EndStep ==
  ASSUME IInv, NEW j \in Jobs, JobDies(j) \/ NothingToCommit(j) \/ Fail(j)
  PROVE  IInv'
<1>1. job' = [job EXCEPT ![j] = Idle] /\ UNCHANGED main
  BY DEF JobDies, NothingToCommit, Fail
<1>2. Idle.pc # "push"
  BY DEF Idle
<1> QED
  BY <1>1, <1>2, OneJobStep

\* When the branch moves, nobody can push any more.
LEMMA MoveStep ==
  ASSUME IInv, PersonCommits \/ \E j \in Jobs : Push(j)
  PROVE  IInv'
<1>1. CASE PersonCommits
  BY <1>1, OvertakenFacts DEF PersonCommits, IInv, CheckoutsAreCurrent, Jobs
<1>2. ASSUME NEW j \in Jobs, Push(j)
      PROVE  IInv'
  <2>1. job' = [Overtaken(job) EXCEPT ![j] = Idle] /\ Idle.pc # "push"
    BY <1>2 DEF Push, Idle
  <2>2. DOMAIN job' = Jobs /\ \A k \in Jobs : job'[k].pc # "push"
    BY <2>1, OvertakenFacts
  <2> QED
    BY <2>2 DEF IInv, CheckoutsAreCurrent, Jobs
<1> QED
  BY <1>1, <1>2

\* A push is a transaction: what the job holds was computed from the present branch.
LEMMA PushIsTransaction ==
  ASSUME IInv, NEW j \in Jobs, Push(j)
  PROVE  Transaction
<1>1. job[j].pc = "push" /\ main' = job[j].tree
  BY DEF Push
<1>2. CASE j = "sync"
  <2>1. SyncOutcome(main, main')
    BY <1>1, <1>2 DEF IInv, CheckoutsAreCurrent
  <2>2. CASE SyncArrives(main, main, main')
    BY <2>2 DEF SyncArrives, Transaction, SyncTransaction, Committed
  <2>3. ASSUME NEW w \in Consumer, NEW acceptance \in Attestations,
               SyncArrives(main, Attested(main, w, acceptance), main')
        PROVE  Transaction
    BY <2>3 DEF SyncArrives, Transaction, AcceptanceTransaction, Committed
  <2> QED
    BY <2>1, <2>2, <2>3 DEF SyncOutcome
<1>3. CASE j = "integration"
  <2>1. IntegrationOutcome(main, main')
    BY <1>1, <1>3 DEF IInv, CheckoutsAreCurrent
  <2> QED
    BY <2>1 DEF IntegrationOutcome, Transaction, IntegrationTransaction
<1> QED
  BY <1>2, <1>3 DEF Jobs

\* Every step of the jobs and of people keeps the invariant, and changes the branch by
\* a whole transaction or not at all.
LEMMA StepsImplement ==
  ASSUME IInv, [Next]_vars
  PROVE  IInv' /\ [Transaction]_main
<1>1. CASE UNCHANGED vars
  BY <1>1 DEF vars, IInv, CheckoutsAreCurrent
<1>2. CASE ScheduledSync
  BY <1>2, RunSyncStep DEF ScheduledSync, RunSync
<1>3. CASE \E w \in Consumer, acceptance \in Attestations : AcceptanceSync(w, acceptance)
  BY <1>3, RunSyncStep DEF AcceptanceSync, RunSync
<1>4. CASE RefusedIntegration \/ \E outcome \in Outcomes : RunIntegration(outcome)
  BY <1>4, IntegrationStep DEF RefusedIntegration, RunIntegration
<1>5. ASSUME NEW j \in Jobs, JobDies(j) \/ NothingToCommit(j) \/ Fail(j)
      PROVE  IInv' /\ [Transaction]_main
  BY <1>5, EndStep DEF JobDies, NothingToCommit, Fail
<1>6. CASE PersonCommits
  BY <1>6, MoveStep DEF PersonCommits, Transaction
<1>7. ASSUME NEW j \in Jobs, Push(j)
      PROVE  IInv' /\ [Transaction]_main
  BY <1>7, MoveStep, PushIsTransaction
<1> QED
  BY <1>1, <1>2, <1>3, <1>4, <1>5, <1>6, <1>7 DEF Next

\* What reaches the branch is computed, from the first step of a job to its last, from
\* the revision it replaces: overlapping jobs look like transactions in sequence.
THEOREM JobsImplementTransactions == Spec => ImplementsTransactions
<1>1. Init => IInv /\ main \in InitSot
  BY DEF Init, IInv, CheckoutsAreCurrent, Idle, Jobs
<1>2. IInv /\ [Next]_vars => IInv' /\ [Transaction]_main
  BY StepsImplement
<1> QED
  BY <1>1, <1>2, PTL DEF Spec, ImplementsTransactions, AtomicSpec

-----------------------------------------------------------------------------
(* What the transactions keep, the jobs keep.                              *)

\* The conditions of AtomicDelivery on the branch hold however the jobs interleave.
LEMMA BranchStaysSoundUnderJobs == Spec => []BranchIsSound
BY JobsImplementTransactions, BranchStaysSound, PTL DEF ImplementsTransactions

\* Consumers are published VERIFIED or DONE only with evidence of the acceptance gate.
THEOREM JobsKeepConsumersAttested == Spec => []VerifiedConsumerAttested
BY JobsImplementTransactions, ConsumersStayAttested, PTL DEF ImplementsTransactions

\* No proven provider and no integration is published before the release.
THEOREM JobsReleaseFirst == Spec => []ReleasedBeforeIntegration
BY JobsImplementTransactions, ReleaseComesFirst, PTL DEF ImplementsTransactions

\* A finished feature has passed its integration.
THEOREM JobsFinishPassedFeatures == Spec => []DoneFeatureHadPass
BY JobsImplementTransactions, DoneFeaturesPassed, PTL DEF ImplementsTransactions

\* Closed items keep their contract, when no exit is content with an approval.
THEOREM JobsKeepItemsEarned ==
  ASSUME ExitsAskForRelease
  PROVE  Spec => []DoneItemsStayEarned
BY JobsImplementTransactions, ClosedItemsStayEarned, PTL DEF ImplementsTransactions

\* No push loses evidence.
THEOREM JobsKeepEvidence == Spec => EvidenceKept
BY JobsImplementTransactions, EvidenceIsKept, PTL DEF ImplementsTransactions

\* However jobs and people interleave, what is published is reached along the lifecycle
\* graphs from what was published before; so what is final is final.
THEOREM JobsMoveLegally == Spec => LegalMoves
BY JobsImplementTransactions, MovesAreLegal, PTL DEF ImplementsTransactions

-----------------------------------------------------------------------------
(* The types.                                                              *)

JobRecord == [pc : {"idle", "push", "lost"}, tree : Revision]

\* In words: the variables hold values of their kind; without a branch to start from
\* there is no behaviour.
TypesHold == TypeOK /\ InitSot # {}

\* What a sync arrives at from a revision is a revision.
LEMMA SyncOfIsRevision ==
  ASSUME NEW s \in Revision, NEW fetched \in Fetched, NEW completed
  PROVE  SyncOf(s, fetched, completed) \in Revision
<1> DEFINE r == SyncedReceipts(s, fetched)
<1>1. r \in Revision
  BY SyncedReceiptsFacts
<1> HIDE DEF r
<1>2. Reconciled(r, completed) \in Revision
  BY <1>1, ReconciledFacts
<1> QED
  BY <1>2 DEF SyncOf, r

\* The values a job takes are job records.
LEMMA JobRecords ==
  ASSUME InitSot # {}
  PROVE  /\ Idle \in JobRecord /\ Lost \in JobRecord
         /\ \A s \in Revision : Ready(s) \in JobRecord /\ Checked(s) \in JobRecord
<1>1. Blank \in Revision
  BY InputsAssumption DEF Blank
<1> QED
  BY <1>1 DEF Idle, Lost, Ready, Checked, JobRecord

\* A step that gives one job another record, and leaves the branch, keeps the types.
LEMMA OneJobTypes ==
  ASSUME TypesHold, UNCHANGED main, outside' \in Nat, NEW j, NEW x \in JobRecord,
         job' = [job EXCEPT ![j] = x]
  PROVE  TypesHold'
BY DEF TypesHold, TypeOK, JobRecord

\* Every step of the jobs and of people keeps branch and checkouts well formed.
LEMMA StepsKeepTypes ==
  ASSUME TypesHold, [Next]_vars
  PROVE  TypesHold'
<1>0. /\ main \in Revision /\ outside \in Nat /\ InitSot # {}
      /\ job \in [Jobs -> JobRecord]
      /\ main' \in Revision /\ outside' \in Nat /\ job' \in [Jobs -> JobRecord]
           => TypesHold'
  BY DEF TypesHold, TypeOK, JobRecord
<1>1. CASE UNCHANGED vars
  BY <1>0, <1>1 DEF vars
<1>2. ASSUME NEW s \in Revision, RunSync(s)
      PROVE  TypesHold'
  <2>1. PICK fetched \in Fetched, completed \in Lookups :
          job' = [job EXCEPT !["sync"] = Checked(SyncOf(s, fetched, completed))]
    BY <1>2 DEF RunSync
  <2>2. Checked(SyncOf(s, fetched, completed)) \in JobRecord
    BY <1>0, SyncOfIsRevision, JobRecords
  <2> QED
    BY <1>0, <1>2, <2>1, <2>2, OneJobTypes DEF RunSync
<1>3. CASE ScheduledSync
  BY <1>0, <1>2, <1>3 DEF ScheduledSync
<1>4. ASSUME NEW w \in Consumer, NEW acceptance \in Attestations, AcceptanceSync(w, acceptance)
      PROVE  TypesHold'
  <2>1. Attested(main, w, acceptance) \in Revision
    BY <1>0, AttestedFacts DEF Consumer
  <2> QED
    BY <1>2, <1>4, <2>1 DEF AcceptanceSync
<1>5. ASSUME NEW outcome \in Outcomes, RunIntegration(outcome)
      PROVE  TypesHold'
  <2> DEFINE attempted == Attempted(main, outcome[1], outcome[2])
  <2>1. attempted \in Revision
    BY <1>0, AttemptedFacts
  <2>2. PICK completed \in Lookups :
          job' = [job EXCEPT !["integration"] = Ready(Reconciled(attempted, completed))]
    BY <1>5 DEF RunIntegration
  <2> HIDE DEF attempted
  <2>3. Ready(Reconciled(attempted, completed)) \in JobRecord
    BY <1>0, <2>1, ReconciledFacts, JobRecords
  <2>4. UNCHANGED main /\ outside' \in Nat
    BY <1>0, <1>5 DEF RunIntegration
  <2> QED
    BY <2>2, <2>3, <2>4, OneJobTypes
<1>6. CASE RefusedIntegration
  <2>1. PICK completed \in Lookups :
          job' = [job EXCEPT !["integration"] = Ready(Reconciled(main, completed))]
    BY <1>6 DEF RefusedIntegration
  <2>2. Ready(Reconciled(main, completed)) \in JobRecord
    BY <1>0, ReconciledFacts, JobRecords
  <2> QED
    BY <1>0, <1>6, <2>1, <2>2, OneJobTypes DEF RefusedIntegration
<1>7. ASSUME NEW j \in Jobs, JobDies(j) \/ NothingToCommit(j) \/ Fail(j)
      PROVE  TypesHold'
  <2>1. UNCHANGED main /\ outside' \in Nat /\ job' = [job EXCEPT ![j] = Idle]
    BY <1>0, <1>7 DEF JobDies, NothingToCommit, Fail
  <2> QED
    BY <1>0, <2>1, JobRecords, OneJobTypes
<1>8. Overtaken(job) \in [Jobs -> JobRecord]
  BY <1>0, JobRecords DEF Overtaken
<1>9. CASE PersonCommits
  <2>1. main' \in Revision
    BY <1>0, <1>9, PeopleProgress DEF PersonCommits
  <2> QED
    BY <1>0, <1>8, <1>9, <2>1 DEF PersonCommits
<1>10. ASSUME NEW j \in Jobs, Push(j)
       PROVE  TypesHold'
  <2>1. job[j].tree \in Revision
    BY <1>0 DEF JobRecord
  <2>2. [Overtaken(job) EXCEPT ![j] = Idle] \in [Jobs -> JobRecord]
    BY <1>0, <1>8, JobRecords
  <2> QED
    BY <1>0, <1>10, <2>1, <2>2 DEF Push
<1> QED
  BY <1>1, <1>3, <1>4, <1>5, <1>6, <1>7, <1>9, <1>10 DEF Next

\* Branch and jobs hold revisions that are well formed, latest.yaml included.
THEOREM TypesStayCorrect == Spec => []TypeOK
<1>1. Init => TypesHold
  <2> SUFFICES ASSUME Init PROVE TypesHold
    OBVIOUS
  <2>1. InitSot # {} /\ main \in Revision
    BY InputsAssumption DEF Init
  <2> QED
    BY <2>1, JobRecords DEF Init, TypesHold, TypeOK, JobRecord
<1>2. TypesHold /\ [Next]_vars => TypesHold'
  BY StepsKeepTypes
<1>3. TypesHold => TypeOK
  BY DEF TypesHold
<1> QED
  BY <1>1, <1>2, <1>3, PTL DEF Spec
=============================================================================
