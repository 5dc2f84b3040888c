------------------------ MODULE RepositoryGovernance ------------------------
(***************************************************************************)
(* The governance state of the registered repositories: the published      *)
(* registry and audit log of the default branch, the scheduled sync job    *)
(* that works on a checkout of it, and the people who commit transitions   *)
(* of their own.                                                           *)
(*                                                                         *)
(* A job (.github/workflows/sync-project-status.yml) checks the branch     *)
(* out, runs the steps of tools/run_scheduled_sync.py on the checkout and, *)
(* when none of them reports a system error, commits and pushes.  The push *)
(* is a plain git push: it is rejected when the branch has moved since the *)
(* checkout, and the work of the job is dropped.  The steps that matter to *)
(* a repository are sync_project_registry.py, reconcile_project_status.py  *)
(* and verify_state_invariants.py; sync_repo_state.py enters through       *)
(* wpSync, the summary of the sync states of a repository's work packages. *)
(***************************************************************************)
EXTENDS Lifecycle

CONSTANTS
  Repo,        \* the registered repositories
  HumanTarget, \* the states people move a repository to
  MaxOutside   \* bound: pushes of others and job failures in a behaviour

ASSUME HumanTargetAssumption == HumanTarget \subseteq StatesOf(RepositoryNext)
ASSUME MaxOutsideAssumption == MaxOutside \in Nat

VARIABLES
  head,    \* published: governance_state and last audited state, per repository
  report,  \* remote .agents/governance/project-status.yaml, per repository
  wpSync,  \* sync states of the repository's work packages, summarised
  job,     \* progress of the sync job, how the last one ended
  tree,    \* the job's checkout, with what the audit check would find in it
  outside  \* pushes of others and job failures so far

vars == <<head, report, wpSync, job, tree, outside>>

GovernanceState == StatesOf(RepositoryNext)

\* No audit event names the repository: the chain of its events is empty.
NoEvent == "NO_EVENT"

Entry == [state : GovernanceState, tail : GovernanceState \cup {NoEvent}]
Checkout == [state : GovernanceState, tail : GovernanceState \cup {NoEvent},
             gap : BOOLEAN]

\* sync_project_registry.py only writes repositories outside these states, and
\* never after they enter them.
Settled == {"OUT_OF_SYNC", "SYNCED", "ENFORCED"}

Report == {"missing", "invalid", "bootstrapped", "enforcing"}
WpSync == {"none", "synced", "unsynced"}

TypeOK ==
  /\ head \in [Repo -> Entry]
  /\ report \in [Repo -> Report]
  /\ wpSync \in [Repo -> WpSync]
  /\ job \in [pc : {"idle", "registry", "status", "verify", "push"},
              moved : BOOLEAN, result : {"none", "ok", "failed"}]
  /\ tree \in [Repo -> Checkout]
  /\ outside \in Nat

CleanTree == [r \in Repo |-> [state |-> "REGISTERED", tail |-> NoEvent, gap |-> FALSE]]

(***************************************************************************)
(* project_onboard.py registers a repository REGISTERED, with no event.    *)
(***************************************************************************)
Init ==
  /\ head = [r \in Repo |-> [state |-> "REGISTERED", tail |-> NoEvent]]
  /\ report \in [Repo -> {"missing", "bootstrapped", "enforcing"}]
  /\ wpSync \in [Repo -> {"none", "unsynced"}]
  /\ job = [pc |-> "idle", moved |-> FALSE, result |-> "none"]
  /\ tree = CleanTree
  /\ outside = 0

-----------------------------------------------------------------------------
(* The outside world: remote repositories, work packages, people.          *)

RemoteReport(r) ==
  /\ report' \in [Repo -> Report]
  /\ \A o \in Repo \ {r} : report'[o] = report[o]
  /\ UNCHANGED <<head, wpSync, job, tree, outside>>

WorkPackagesChange(r) ==
  /\ wpSync' \in [Repo -> WpSync]
  /\ \A o \in Repo \ {r} : wpSync'[o] = wpSync[o]
  /\ UNCHANGED <<head, report, job, tree, outside>>

\* A push of someone else moves the branch under a running job.
BranchMoves ==
  /\ outside < MaxOutside
  /\ outside' = outside + 1
  /\ job' = [job EXCEPT !.moved = job.pc # "idle"]

\* transition_state.py --entity repository: legal edges only, the registry and
\* the event in one transaction, committed and pushed by hand.
HumanTransition(r, target) ==
  /\ Allowed(RepositoryNext, head[r].state, target)
  /\ head' = [head EXCEPT ![r] = [state |-> target, tail |-> target]]
  /\ BranchMoves
  /\ UNCHANGED <<report, wpSync, tree>>

\* A commit that touches no repository: the integration workflow, a feature edit.
OtherPush ==
  /\ job.pc # "idle"
  /\ ~job.moved
  /\ BranchMoves
  /\ UNCHANGED <<head, report, wpSync, tree>>

-----------------------------------------------------------------------------
(* The scheduled job.                                                      *)

CheckedOut(entry) == [state |-> entry.state, tail |-> entry.tail, gap |-> FALSE]

StartJob ==
  /\ job.pc = "idle"
  /\ job' = [pc |-> "registry", moved |-> FALSE, result |-> "none"]
  /\ tree' = [r \in Repo |-> CheckedOut(head[r])]
  /\ UNCHANGED <<head, report, wpSync, outside>>

(***************************************************************************)
(* sync_project_registry.py: the remote report decides the target, and the *)
(* registry file is written in place.  No event is appended, and no edge   *)
(* of the lifecycle is asked for.                                          *)
(***************************************************************************)
RegistryTarget(remote) ==
  IF remote = "enforcing" THEN "ENFORCED" ELSE "BOOTSTRAPPED"

SyncedRegistry(entry, remote) ==
  IF remote \in {"bootstrapped", "enforcing"} /\ entry.state \notin Settled
    THEN [entry EXCEPT !.state = RegistryTarget(remote)]
    ELSE entry

SyncProjectRegistry ==
  /\ job.pc = "registry"
  /\ tree' = [r \in Repo |-> SyncedRegistry(tree[r], report[r])]
  /\ job' = [job EXCEPT !.pc = "status"]
  /\ UNCHANGED <<head, report, wpSync, outside>>

(***************************************************************************)
(* reconcile_project_status.py: the sync states of the work packages       *)
(* decide the target, and the state walks there along the lifecycle graph, *)
(* one audited commit for each hop.  Only the ends of the walk matter: its *)
(* first event says where it starts, its last one where it ends.           *)
(***************************************************************************)
StatusTargetSticky(entry, packages) == \* mutant: settled repositories are not looked at again
  IF packages = "none" THEN "REGISTERED"
  ELSE IF entry.state \in Settled THEN entry.state
  ELSE IF packages = "synced" THEN "SYNCED" ELSE "OUT_OF_SYNC"

StatusTarget(entry, packages) ==
  CASE packages = "none"     -> "REGISTERED"
    [] packages = "synced"   -> IF entry.state = "ENFORCED" THEN "ENFORCED" ELSE "SYNCED"
    [] packages = "unsynced" -> "OUT_OF_SYNC"

Walked(entry, target) ==
  [state |-> target,
   tail  |-> target,
   gap   |-> entry.gap \/ entry.tail \notin {NoEvent, entry.state}]

ReconciledStatus(entry, packages) ==
  IF entry.state \in {"PAUSED", "RETIRED"} \/ StatusTarget(entry, packages) = entry.state
    THEN entry
    ELSE Walked(entry, StatusTarget(entry, packages))

ReconcileProjectStatus ==
  /\ job.pc = "status"
  /\ tree' = [r \in Repo |-> ReconciledStatus(tree[r], wpSync[r])]
  /\ job' = [job EXCEPT !.pc = "verify"]
  /\ UNCHANGED <<head, report, wpSync, outside>>

(***************************************************************************)
(* verify_state_invariants.py on one repository: the events form a chain,  *)
(* and the chain ends in the materialized state.                           *)
(***************************************************************************)
AuditConsistentIgnoringGaps(entry) == \* mutant: only the end of the chain counts
  entry.tail \in {NoEvent, entry.state}

AuditConsistentIgnoringTail(entry) == \* mutant: the end of the chain does not count
  ~entry.gap

AuditConsistent(entry) == ~entry.gap /\ entry.tail \in {NoEvent, entry.state}

Idle(result) == [pc |-> "idle", moved |-> FALSE, result |-> result]

VerifyStateInvariants ==
  /\ job.pc = "verify"
  /\ IF \A r \in Repo : AuditConsistent(tree[r])
       THEN job' = [job EXCEPT !.pc = "push"] /\ tree' = tree
       ELSE job' = Idle("failed") /\ tree' = CleanTree
  /\ UNCHANGED <<head, report, wpSync, outside>>

AsPublished(entry) == [state |-> entry.state, tail |-> entry.tail]
Published == [r \in Repo |-> AsPublished(tree[r])]

\* git diff sees tracked files.  When only the events file has changed it may be
\* a new one, that of a new month: then the job ends without a commit.
OnlyEventsChanged == \A r \in Repo : tree[r].state = head[r].state

PushForced == \* mutant: git push --force
  /\ job.pc = "push"
  /\ head' = Published
  /\ job' = Idle("ok")
  /\ tree' = CleanTree
  /\ UNCHANGED <<report, wpSync, outside>>

PushAccepted ==
  /\ job.pc = "push"
  /\ ~job.moved
  /\ \/ head' = Published
     \/ OnlyEventsChanged /\ head' = head
  /\ job' = Idle("ok")
  /\ tree' = CleanTree
  /\ UNCHANGED <<report, wpSync, outside>>

PushRejected ==
  /\ job.pc = "push"
  /\ job.moved
  /\ job' = Idle("failed")
  /\ tree' = CleanTree
  /\ UNCHANGED <<head, report, wpSync, outside>>

\* A step dies or a GitHub call fails: exit code 1, nothing is committed.
JobFails ==
  /\ job.pc # "idle"
  /\ outside < MaxOutside
  /\ outside' = outside + 1
  /\ job' = Idle("failed")
  /\ tree' = CleanTree
  /\ UNCHANGED <<head, report, wpSync>>

JobStep ==
  \/ StartJob
  \/ SyncProjectRegistry
  \/ ReconcileProjectStatus
  \/ VerifyStateInvariants
  \/ PushAccepted
  \/ PushRejected

Next ==
  \/ \E r \in Repo : RemoteReport(r) \/ WorkPackagesChange(r)
  \/ \E r \in Repo, target \in HumanTarget : HumanTransition(r, target)
  \/ OtherPush
  \/ JobStep
  \/ JobFails

Spec == Init /\ [][Next]_vars

\* The workflow runs every hour, and a runner finishes the steps it started.
FairSpec == Spec /\ WF_vars(JobStep)

-----------------------------------------------------------------------------
(* Properties.                                                             *)

\* What is published is consistent: a repository that has audit events is in the
\* state its last event names, although sync_project_registry.py writes states
\* without events into every checkout.
PublishedAuditConsistent ==
  \A r \in Repo : head[r].tail \in {NoEvent, head[r].state}

\* RETIRED is final: no push ever takes a repository that an audited transition
\* retired out of RETIRED, although sync_project_registry.py writes BOOTSTRAPPED
\* or ENFORCED over it in the checkout of every job.
RetirementIsFinal ==
  [][\A r \in Repo : head[r].state = "RETIRED" => head'[r].state = "RETIRED"]_vars

\* What the two writers of a job make of an entry when nothing happens in between,
\* for some remote report and some work packages.
WholeJob(entry) ==
  {ReconciledStatus(SyncedRegistry(CheckedOut(entry), remote), packages) :
     remote \in Report, packages \in WpSync}

\* Jobs and people take effect one after the other: every change of the branch is one
\* audited transition of the lifecycle, or turns each repository from what it is at that
\* very moment into what a whole job that passes the audit check makes of it, although
\* the job looked at the branch, at the reports and at the work packages hours earlier
\* and at different moments, and although people move repositories meanwhile.
JobsActAlone ==
  [][head' # head =>
       \/ \A r \in Repo : \E made \in WholeJob(head[r]) :
            AuditConsistent(made) /\ head'[r] = AsPublished(made)
       \/ \E r \in Repo : \E target \in Successors(RepositoryNext, head[r].state) :
            head' = [head EXCEPT ![r] = [state |-> target, tail |-> target]]]_head

\* Nothing has been put under audit in a state the registry sync overwrites.
NothingParked ==
  \A r \in Repo : head[r].tail = NoEvent \/ head[r].state \in Settled

\* Convergence: if no repository with events is ever left in a state that the
\* registry sync overwrites, one whose work packages stay synced ends SYNCED or
\* ENFORCED, whatever single pushes collide with the job.
SyncedRepositoriesSettle ==
  []NothingParked =>
    \A r \in Repo :
      <>[](wpSync[r] = "synced") => <>[](head[r].state \in {"SYNCED", "ENFORCED"})
=============================================================================
