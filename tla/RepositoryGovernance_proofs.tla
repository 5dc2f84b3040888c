--------------------- MODULE RepositoryGovernance_proofs ---------------------
(***************************************************************************)
(* Proofs about RepositoryGovernance, for any set of repositories, any set *)
(* of human targets and any number of outside pushes.                      *)
(*                                                                         *)
(* The invariant IInv says what the checkout of a job still knows of the   *)
(* branch: a checkout that reaches the push has passed the audit check,    *)
(* and, as long as the branch has not moved, a repository that is retired  *)
(* on it has in the checkout either a chain that still ends in RETIRED or  *)
(* a chain with a gap.  The audit check refuses the second, and lets the   *)
(* first through only when the materialized state is RETIRED as well.      *)
(* And as long as the branch has not moved, the checkout is what the steps *)
(* taken so far make of the branch as it is now.                           *)
(***************************************************************************)
EXTENDS RepositoryGovernance, TLAPS

\* In words: RETIRED is only ever reached by an audited transition.
RetiredIsAudited ==
  /\ \A r \in Repo : head[r].state = "RETIRED" => head[r].tail = "RETIRED"
  /\ \A r \in Repo : tree[r].state = "RETIRED" => tree[r].tail = "RETIRED"

\* In words: what is about to be pushed has passed the audit check.
PushIsVerified ==
  job.pc = "push" => \A r \in Repo : AuditConsistent(tree[r])

\* In words: the checkout of a branch that has not moved cannot forget a retirement.
RetirementIsRemembered ==
  job.pc # "idle" /\ ~job.moved =>
    \A r \in Repo :
      head[r].state = "RETIRED" => tree[r].gap \/ tree[r].tail = "RETIRED"

\* In words: the checkout of a branch that has not moved is what the steps taken so far
\* make of the branch as it is, for some report and some work packages.
TreeIsOfHead ==
  job.pc # "idle" /\ ~job.moved =>
    \A r \in Repo :
      \/ job.pc = "registry" /\ tree[r] = CheckedOut(head[r])
      \/ /\ job.pc = "status"
         /\ \E remote \in Report : tree[r] = SyncedRegistry(CheckedOut(head[r]), remote)
      \/ job.pc \in {"verify", "push"} /\ tree[r] \in WholeJob(head[r])

IInv ==
  /\ TypeOK
  /\ PublishedAuditConsistent
  /\ RetiredIsAudited
  /\ PushIsVerified
  /\ RetirementIsRemembered
  /\ TreeIsOfHead

-----------------------------------------------------------------------------
(* Lemmas about the operators of the model.                                *)

\* The lifecycle graph has no edge out of the set of its states
\* (state_machine.allowed only accepts targets the YAML lists).
LEMMA AllowedStaysInStates ==
  ASSUME NEW s, NEW t, Allowed(RepositoryNext, s, t)
  PROVE  t \in GovernanceState
BY DEF Allowed, Successors, StatesOf, RepositoryNext, GovernanceState

\* The states the two derived targets may name: never RETIRED, never PAUSED.
LEMMA TargetsAreStates ==
  ASSUME NEW entry, NEW packages \in WpSync, NEW remote
  PROVE  /\ StatusTarget(entry, packages) \in GovernanceState \ {"RETIRED", "PAUSED"}
         /\ RegistryTarget(remote) \in GovernanceState \ {"RETIRED", "PAUSED"}
BY DEF StatusTarget, RegistryTarget, WpSync, GovernanceState, StatesOf, RepositoryNext

\* The state project_onboard.py registers a repository in is a governance state.
LEMMA RegisteredIsState == "REGISTERED" \in GovernanceState /\ "REGISTERED" # "RETIRED"
BY DEF GovernanceState, StatesOf, RepositoryNext

\* No governance state is the mark of an empty chain.
LEMMA NoEventIsNoState == NoEvent \notin GovernanceState
BY DEF NoEvent, GovernanceState, StatesOf, RepositoryNext

\* The registry sync changes the materialized state only: chain and gap stay.
LEMMA SyncedRegistryKeepsChain ==
  ASSUME NEW entry \in Checkout, NEW remote
  PROVE  /\ SyncedRegistry(entry, remote) \in Checkout
         /\ SyncedRegistry(entry, remote).tail = entry.tail
         /\ SyncedRegistry(entry, remote).gap = entry.gap
         /\ \/ SyncedRegistry(entry, remote).state = entry.state
            \/ SyncedRegistry(entry, remote).state # "RETIRED"
<1>1. RegistryTarget(remote) \in GovernanceState \ {"RETIRED", "PAUSED"}
  BY TargetsAreStates DEF WpSync
<1> QED
  BY <1>1 DEF SyncedRegistry, Checkout

\* A walk that starts at a retired chain leaves a gap; the reconciler never
\* starts one at RETIRED and never ends one there.
LEMMA ReconciledStatusRemembers ==
  ASSUME NEW entry \in Checkout, NEW packages \in WpSync
  PROVE  /\ ReconciledStatus(entry, packages) \in Checkout
         /\ entry.gap \/ entry.tail = "RETIRED"
              => \/ ReconciledStatus(entry, packages).gap
                 \/ ReconciledStatus(entry, packages).tail = "RETIRED"
         /\ \/ ReconciledStatus(entry, packages) = entry
            \/ ReconciledStatus(entry, packages).state # "RETIRED"
<1> DEFINE stays == entry.state \in {"PAUSED", "RETIRED"}
                      \/ StatusTarget(entry, packages) = entry.state
<1>1. StatusTarget(entry, packages) \in GovernanceState \ {"RETIRED", "PAUSED"}
  BY TargetsAreStates
<1>2. CASE stays
  BY <1>2 DEF ReconciledStatus
<1>3. CASE ~stays
  <2>1. ReconciledStatus(entry, packages) = Walked(entry, StatusTarget(entry, packages))
    BY <1>3 DEF ReconciledStatus
  <2>2. entry.tail = "RETIRED" => entry.tail \notin {NoEvent, entry.state}
    BY <1>3 DEF NoEvent
  <2> DEFINE gap == entry.gap \/ entry.tail \notin {NoEvent, entry.state}
             t == StatusTarget(entry, packages)
             w == [state |-> t, tail |-> t, gap |-> gap]
  <2>3. ReconciledStatus(entry, packages) = w
    BY <2>1 DEF Walked
  <2>4. gap \in BOOLEAN
    OBVIOUS
  <2>5. w \in Checkout
    <3> HIDE DEF gap
    <3> QED
      BY <1>1, <2>4 DEF Checkout
  <2>6. entry.gap \/ entry.tail = "RETIRED" => w.gap
    BY <2>2
  <2>7. w.state # "RETIRED"
    BY <1>1
  <2> QED
    BY <2>3, <2>5, <2>6, <2>7
<1> QED
  BY <1>2, <1>3

-----------------------------------------------------------------------------
(* The inductive invariant.                                                *)

\* The checkout that stands for none is well formed and retires nothing.
LEMMA CleanTreeIsTyped ==
  /\ CleanTree \in [Repo -> Checkout]
  /\ \A r \in Repo : CleanTree[r].state # "RETIRED"
BY RegisteredIsState DEF CleanTree, Checkout, NoEvent

\* Repositories that have just been registered satisfy the invariant.
LEMMA InitIInv == Init => IInv
<1> SUFFICES ASSUME Init PROVE IInv
  OBVIOUS
<1>1. TypeOK
  BY RegisteredIsState, CleanTreeIsTyped DEF Init, TypeOK, Entry, NoEvent, Report, WpSync
<1>2. PublishedAuditConsistent /\ PushIsVerified /\ RetirementIsRemembered /\ TreeIsOfHead
  BY DEF Init, PublishedAuditConsistent, PushIsVerified, RetirementIsRemembered, TreeIsOfHead
<1>3. RetiredIsAudited
  BY RegisteredIsState, CleanTreeIsTyped DEF Init, RetiredIsAudited
<1> QED
  BY <1>1, <1>2, <1>3 DEF IInv

\* A push of someone else only raises the flag of a running job.
LEMMA BranchMovesIsTyped ==
  ASSUME TypeOK, BranchMoves
  PROVE  /\ job' \in [pc : {"idle", "registry", "status", "verify", "push"},
                       moved : BOOLEAN, result : {"none", "ok", "failed"}]
         /\ outside' \in Nat
<1> DEFINE running == job.pc # "idle"
<1>1. running \in BOOLEAN
  OBVIOUS
<1>2. job' = [job EXCEPT !.moved = running] /\ outside' \in Nat
  BY DEF BranchMoves, TypeOK
<1> HIDE DEF running
<1> QED
  BY <1>1, <1>2 DEF TypeOK

\* Steps that drop the checkout and leave the branch alone.
LEMMA DroppingTheCheckout ==
  ASSUME IInv, NEW result \in {"none", "ok", "failed"},
         job' = Idle(result), tree' = CleanTree, head' = head,
         report' = report, wpSync' = wpSync, outside' \in Nat
  PROVE  IInv'
BY CleanTreeIsTyped
DEF IInv, TypeOK, Idle, PublishedAuditConsistent, RetiredIsAudited, PushIsVerified,
    RetirementIsRemembered, TreeIsOfHead

\* Every step of the job, of people and of the surroundings keeps the invariant.
LEMMA NextIInv == IInv /\ [Next]_vars => IInv'
<1> SUFFICES ASSUME IInv, [Next]_vars PROVE IInv'
  OBVIOUS
<1> USE DEF IInv
<1>1. ASSUME NEW r \in Repo, RemoteReport(r) PROVE IInv'
  BY <1>1 DEF RemoteReport, TypeOK, PublishedAuditConsistent, RetiredIsAudited,
              PushIsVerified, RetirementIsRemembered, AuditConsistent, TreeIsOfHead
<1>2. ASSUME NEW r \in Repo, WorkPackagesChange(r) PROVE IInv'
  BY <1>2 DEF WorkPackagesChange, TypeOK, PublishedAuditConsistent, RetiredIsAudited,
              PushIsVerified, RetirementIsRemembered, AuditConsistent, TreeIsOfHead
<1>3. ASSUME NEW r \in Repo, NEW target \in HumanTarget, HumanTransition(r, target)
      PROVE IInv'
  <2>1. target \in GovernanceState
    BY <1>3, AllowedStaysInStates DEF HumanTransition
  <2>2. TypeOK'
    <3>1. head' \in [Repo -> Entry]
      BY <1>3, <2>1 DEF HumanTransition, TypeOK, Entry
    <3> QED
      BY <1>3, <3>1, BranchMovesIsTyped DEF HumanTransition, TypeOK
  <2>3. PublishedAuditConsistent' /\ RetiredIsAudited'
    BY <1>3 DEF HumanTransition, PublishedAuditConsistent, RetiredIsAudited, TypeOK, Entry
  <2>4. PushIsVerified' /\ RetirementIsRemembered' /\ TreeIsOfHead'
    BY <1>3 DEF HumanTransition, BranchMoves, PushIsVerified, RetirementIsRemembered,
                AuditConsistent, TypeOK, TreeIsOfHead
  <2> QED
    BY <2>2, <2>3, <2>4
<1>4. CASE OtherPush
  <2>1. TypeOK'
    BY <1>4, BranchMovesIsTyped DEF OtherPush, TypeOK
  <2>2. PublishedAuditConsistent' /\ RetiredIsAudited'
    BY <1>4 DEF OtherPush, PublishedAuditConsistent, RetiredIsAudited
  <2>3. PushIsVerified' /\ RetirementIsRemembered' /\ TreeIsOfHead'
    BY <1>4 DEF OtherPush, BranchMoves, PushIsVerified, RetirementIsRemembered,
                AuditConsistent, TypeOK, TreeIsOfHead
  <2> QED
    BY <2>1, <2>2, <2>3
<1>5. CASE StartJob
  <2>1. TypeOK'
    BY <1>5 DEF StartJob, TypeOK, Entry, Checkout, CheckedOut
  <2>2. PublishedAuditConsistent' /\ RetiredIsAudited' /\ PushIsVerified'
    BY <1>5 DEF StartJob, PublishedAuditConsistent, RetiredIsAudited, PushIsVerified,
                CheckedOut
  <2>3. RetirementIsRemembered' /\ TreeIsOfHead'
    BY <1>5 DEF StartJob, RetirementIsRemembered, RetiredIsAudited, TreeIsOfHead, CheckedOut
  <2> QED
    BY <2>1, <2>2, <2>3
<1>6. CASE SyncProjectRegistry
  <2>1. \A r \in Repo : tree'[r] = SyncedRegistry(tree[r], report[r])
    BY <1>6 DEF SyncProjectRegistry
  <2>2. TypeOK'
    BY <1>6, SyncedRegistryKeepsChain DEF SyncProjectRegistry, TypeOK
  <2>3. PublishedAuditConsistent' /\ PushIsVerified'
    BY <1>6 DEF SyncProjectRegistry, PublishedAuditConsistent, PushIsVerified, TypeOK
  <2>4. RetiredIsAudited' /\ RetirementIsRemembered'
    BY <1>6, <2>1, SyncedRegistryKeepsChain
    DEF SyncProjectRegistry, RetiredIsAudited, RetirementIsRemembered, TypeOK
  <2>5. TreeIsOfHead'
    BY <1>6, <2>1 DEF SyncProjectRegistry, TreeIsOfHead, TypeOK
  <2> QED
    BY <2>2, <2>3, <2>4, <2>5
<1>7. CASE ReconcileProjectStatus
  <2>1. \A r \in Repo : tree'[r] = ReconciledStatus(tree[r], wpSync[r])
    BY <1>7 DEF ReconcileProjectStatus
  <2>2. TypeOK'
    BY <1>7, ReconciledStatusRemembers DEF ReconcileProjectStatus, TypeOK
  <2>3. PublishedAuditConsistent' /\ PushIsVerified'
    BY <1>7 DEF ReconcileProjectStatus, PublishedAuditConsistent, PushIsVerified, TypeOK
  <2>4. RetiredIsAudited' /\ RetirementIsRemembered'
    BY <1>7, <2>1, ReconciledStatusRemembers
    DEF ReconcileProjectStatus, RetiredIsAudited, RetirementIsRemembered, TypeOK
  <2>5. TreeIsOfHead'
    BY <1>7, <2>1 DEF ReconcileProjectStatus, TreeIsOfHead, TypeOK, WholeJob
  <2> QED
    BY <2>2, <2>3, <2>4, <2>5
<1>8. CASE VerifyStateInvariants
  <2>1. CASE \A r \in Repo : AuditConsistent(tree[r])
    BY <1>8, <2>1
    DEF VerifyStateInvariants, TypeOK, PublishedAuditConsistent, RetiredIsAudited,
        PushIsVerified, RetirementIsRemembered, AuditConsistent, TreeIsOfHead
  <2>2. CASE ~ \A r \in Repo : AuditConsistent(tree[r])
    <3>1. /\ job' = Idle("failed") /\ tree' = CleanTree
          /\ UNCHANGED <<head, report, wpSync, outside>>
      BY <1>8, <2>2 DEF VerifyStateInvariants
    <3> QED
      BY <3>1, DroppingTheCheckout DEF TypeOK
  <2> QED
    BY <2>1, <2>2
<1>9. CASE PushAccepted
  <2>1. CASE head' = head
    BY <1>9, <2>1, DroppingTheCheckout DEF PushAccepted, TypeOK
  <2>2. CASE head' = Published
    <3>1. /\ \A r \in Repo : AuditConsistent(tree[r])
          /\ job' = Idle("ok") /\ tree' = CleanTree
          /\ UNCHANGED <<report, wpSync, outside>>
      BY <1>9 DEF PushAccepted, PushIsVerified
    <3>2. TypeOK'
      BY <2>2, <3>1, CleanTreeIsTyped
      DEF TypeOK, Published, AsPublished, Idle, Entry, Checkout
    <3>3. PublishedAuditConsistent'
      BY <2>2, <3>1 DEF PublishedAuditConsistent, Published, AsPublished, AuditConsistent
    <3>4. RetiredIsAudited'
      BY <2>2, <3>1, CleanTreeIsTyped DEF RetiredIsAudited, Published, AsPublished
    <3>5. PushIsVerified' /\ RetirementIsRemembered' /\ TreeIsOfHead'
      BY <3>1 DEF PushIsVerified, RetirementIsRemembered, Idle, TreeIsOfHead
    <3> QED
      BY <3>2, <3>3, <3>4, <3>5
  <2> QED
    BY <1>9, <2>1, <2>2 DEF PushAccepted
<1>10. CASE PushRejected
  BY <1>10, DroppingTheCheckout DEF PushRejected, TypeOK
<1>11. CASE JobFails
  BY <1>11, DroppingTheCheckout DEF JobFails, TypeOK
<1>12. CASE UNCHANGED vars
  BY <1>12 DEF vars, TypeOK, PublishedAuditConsistent, RetiredIsAudited, PushIsVerified,
               RetirementIsRemembered, AuditConsistent, TreeIsOfHead
<1> QED
  BY <1>1, <1>2, <1>3, <1>4, <1>5, <1>6, <1>7, <1>8, <1>9, <1>10, <1>11, <1>12
  DEF Next, JobStep

\* The invariant holds in every reachable state, for any repositories, targets and bound.
THEOREM Invariance == Spec => []IInv
<1>1. Init => IInv
  BY InitIInv
<1>2. IInv /\ [Next]_vars => IInv'
  BY NextIInv
<1> QED
  BY <1>1, <1>2, PTL DEF Spec

-----------------------------------------------------------------------------
(* What the invariant gives.                                               *)

\* Every reachable state is well typed: in particular the targets that the
\* registry sync and the reconciler compute are states of the lifecycle.
THEOREM TypeCorrect == Spec => []TypeOK
<1>1. IInv => TypeOK
  BY DEF IInv
<1> QED
  BY <1>1, Invariance, PTL

\* The published audit log ends in the published state of every repository,
\* whatever sync_project_registry.py wrote without an event in some checkout.
THEOREM PublishedAuditIsConsistent == Spec => []PublishedAuditConsistent
<1>1. IInv => PublishedAuditConsistent
  BY DEF IInv
<1> QED
  BY <1>1, Invariance, PTL

\* A step of a sound state takes no published repository out of RETIRED.
LEMMA StepKeepsRetired ==
  IInv /\ [Next]_vars
    => (\A r \in Repo : head[r].state = "RETIRED" => head'[r].state = "RETIRED")
<1> SUFFICES ASSUME IInv, [Next]_vars, NEW r \in Repo, head[r].state = "RETIRED"
             PROVE  head'[r].state = "RETIRED"
  OBVIOUS
<1>1. CASE head' = head
  BY <1>1
<1>2. CASE PushAccepted /\ head' = Published
  <2>1. AuditConsistent(tree[r])
    BY <1>2 DEF IInv, PushIsVerified, PushAccepted
  <2>2. tree[r].gap \/ tree[r].tail = "RETIRED"
    BY <1>2 DEF IInv, RetirementIsRemembered, PushAccepted
  <2>3. tree[r].state = "RETIRED"
    BY <2>1, <2>2 DEF AuditConsistent, NoEvent
  <2> QED
    BY <1>2, <2>3 DEF Published, AsPublished
<1>3. ASSUME NEW q \in Repo, NEW target \in HumanTarget, HumanTransition(q, target)
      PROVE  head'[r].state = "RETIRED"
  <2>1. head[q].state # "RETIRED"
    BY <1>3 DEF HumanTransition, Allowed, Successors, StatesOf, RepositoryNext
  <2> QED
    BY <1>3, <2>1 DEF HumanTransition, IInv, TypeOK
<1> QED
  BY <1>1, <1>2, <1>3
  DEF Next, JobStep, vars, RemoteReport, WorkPackagesChange, OtherPush, StartJob,
      SyncProjectRegistry, ReconcileProjectStatus, VerifyStateInvariants, PushAccepted,
      PushRejected, JobFails

\* A retired repository stays retired on the branch, for any number of
\* repositories, people and jobs.
THEOREM RetirementTheorem == Spec => RetirementIsFinal
<1>1. IInv /\ [Next]_vars
        => [\A r \in Repo : head[r].state = "RETIRED" => head'[r].state = "RETIRED"]_vars
  BY StepKeepsRetired
<1> QED
  BY <1>1, Invariance, PTL DEF Spec, RetirementIsFinal

\* A step of a sound state that moves the branch is one whole job or one transition.
LEMMA StepIsWhole ==
  IInv /\ [Next]_vars =>
    [head' # head =>
       \/ \A r \in Repo : \E made \in WholeJob(head[r]) :
            AuditConsistent(made) /\ head'[r] = AsPublished(made)
       \/ \E r \in Repo : \E target \in Successors(RepositoryNext, head[r].state) :
            head' = [head EXCEPT ![r] = [state |-> target, tail |-> target]]]_head
<1> SUFFICES ASSUME IInv, [Next]_vars, head' # head
             PROVE  \/ \A r \in Repo : \E made \in WholeJob(head[r]) :
                         AuditConsistent(made) /\ head'[r] = AsPublished(made)
                    \/ \E r \in Repo : \E target \in Successors(RepositoryNext, head[r].state) :
                         head' = [head EXCEPT ![r] = [state |-> target, tail |-> target]]
  OBVIOUS
<1>1. CASE PushAccepted
  <2>1. head' = Published
    BY <1>1 DEF PushAccepted
  <2>2. ASSUME NEW r \in Repo
        PROVE  \E made \in WholeJob(head[r]) :
                 AuditConsistent(made) /\ head'[r] = AsPublished(made)
    <3>1. tree[r] \in WholeJob(head[r])
      BY <1>1 DEF IInv, TreeIsOfHead, PushAccepted
    <3>2. AuditConsistent(tree[r])
      BY <1>1 DEF IInv, PushIsVerified, PushAccepted
    <3>3. head'[r] = AsPublished(tree[r])
      BY <2>1 DEF Published
    <3> QED
      BY <3>1, <3>2, <3>3
  <2> QED
    BY <2>2
<1>2. ASSUME NEW r \in Repo, NEW target \in HumanTarget, HumanTransition(r, target)
      PROVE  \E q \in Repo : \E t \in Successors(RepositoryNext, head[q].state) :
               head' = [head EXCEPT ![q] = [state |-> t, tail |-> t]]
  BY <1>2 DEF HumanTransition, Allowed
<1> QED
  BY <1>1, <1>2
  DEF Next, JobStep, vars, RemoteReport, WorkPackagesChange, OtherPush, StartJob,
      SyncProjectRegistry, ReconcileProjectStatus, VerifyStateInvariants, PushRejected,
      JobFails

\* Overlapping jobs and people have the effect of whole jobs and single transitions one
\* after the other, for any repositories, people, reports and work packages.
THEOREM JobsActAloneTheorem == Spec => JobsActAlone
<1>1. IInv /\ [Next]_vars =>
        [head' # head =>
           \/ \A r \in Repo : \E made \in WholeJob(head[r]) :
                AuditConsistent(made) /\ head'[r] = AsPublished(made)
           \/ \E r \in Repo : \E target \in Successors(RepositoryNext, head[r].state) :
                head' = [head EXCEPT ![r] = [state |-> target, tail |-> target]]]_head
  BY StepIsWhole
<1> QED
  BY <1>1, Invariance, PTL DEF Spec, JobsActAlone
=============================================================================
