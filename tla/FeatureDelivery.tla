--------------------------- MODULE FeatureDelivery ---------------------------
(***************************************************************************)
(* The jobs that carry a feature to DONE, and the people beside them.      *)
(*                                                                         *)
(* The sync job (hourly, by dispatch, or for an acceptance dispatch) and   *)
(* the integration job run on checkouts of their own; their concurrency    *)
(* groups differ, so both may run at once.  Each ends with a plain git     *)
(* push, which is rejected when the branch has moved since the checkout.   *)
(* A job reads the branch once, when it checks it out, and shares nothing  *)
(* with the other until it pushes: the model computes what it will push in *)
(* the step of the checkout, and lets everything else happen before the    *)
(* push.                                                                   *)
(***************************************************************************)
EXTENDS AtomicDelivery

CONSTANTS
  MaxRuns,    \* bound: IntegrationRun files; the last one allowed does not fail
  MaxOutside  \* bound: commits of people and deaths of jobs in a behaviour

ASSUME BoundsAssumption == MaxRuns \in Nat /\ MaxOutside \in Nat

VARIABLES
  job,     \* the two jobs: what they are about to push, if anything
  outside  \* commits of people and deaths so far

vars == <<main, job, outside>>

Jobs == {"sync", "integration"}

\* Without anything to push a job has no checkout; an initial revision stands there.
Blank == CHOOSE s \in InitSot : TRUE

Idle == [pc |-> "idle", tree |-> Blank]
Lost == [pc |-> "lost", tree |-> Blank]
Ready(s) == [pc |-> "push", tree |-> s]

TypeOK ==
  /\ main \in Revision
  /\ job \in [Jobs -> [pc : {"idle", "push", "lost"}, tree : Revision]]
  /\ outside \in Nat

Init ==
  /\ main \in InitSot
  /\ job = [j \in Jobs |-> Idle]
  /\ outside = 0

Forced(jobs) == jobs \* mutant: git push --force, a checkout is never overtaken

\* The branch moves: no job that is running can push any more.
Overtaken(jobs) == [j \in Jobs |-> IF jobs[j].pc = "idle" THEN Idle ELSE Lost]

-----------------------------------------------------------------------------
(* The surroundings.                                                       *)

PersonCommits ==
  /\ outside < MaxOutside
  /\ outside' = outside + 1
  /\ HumanCommit
  /\ job' = Overtaken(job)

JobDies(j) ==
  /\ job[j].pc = "push"
  /\ outside < MaxOutside
  /\ outside' = outside + 1
  /\ job' = [job EXCEPT ![j] = Idle]
  /\ UNCHANGED main

-----------------------------------------------------------------------------
(* The sync job: run_scheduled_sync.py on a checkout.  A revision that     *)
(* fails the checks ends the job without a commit.                         *)

Checked(s) == IF FeatureValid(s) /\ StateInvariantsHold(s) THEN Ready(s) ELSE Lost

\* GitHub reports the attempts that are still RUNNING as completed, or its answer is lost.
Lookups == {{}, {n \in DOMAIN main.runs : main.runs[n] = "RUNNING"}}

RunSync(s) ==
  /\ job["sync"].pc = "idle"
  /\ \E fetched \in Fetched, completed \in Lookups :
       job' = [job EXCEPT !["sync"] = Checked(SyncOf(s, fetched, completed))]
  /\ UNCHANGED <<main, outside>>

ScheduledSync == RunSync(main)

\* The acceptance workflow verifies the evidence first, then runs the same sync.
AcceptanceSync(w, acceptance) == RunSync(Attested(main, w, acceptance))

-----------------------------------------------------------------------------
(* The integration job: the attempt, then the reconciler, and no checks.   *)

\* The bounds: a run that does not pass in full leaves room for one more, and a job
\* that is killed counts as a death.
WithinBounds(outcome) ==
  /\ Len(main.runs) + (IF outcome = <<"PASS", "history">> THEN 1 ELSE 2) <= MaxRuns
  /\ outcome[2] = "history" \/ outside < MaxOutside

RunIntegration(outcome) ==
  /\ job["integration"].pc = "idle"
  /\ MayRun(main)
  /\ WithinBounds(outcome)
  /\ outside' = IF outcome[2] = "history" THEN outside ELSE outside + 1
  /\ \E completed \in Lookups :
       job' = [job EXCEPT !["integration"] =
                 Ready(Reconciled(Attempted(main, outcome[1], outcome[2]), completed))]
  /\ UNCHANGED main

\* The attempt is refused, or the person asked too early; the reconciler still runs.
RefusedIntegration ==
  /\ job["integration"].pc = "idle"
  /\ ~MayRun(main)
  /\ \E completed \in Lookups :
       job' = [job EXCEPT !["integration"] = Ready(Reconciled(main, completed))]
  /\ UNCHANGED <<main, outside>>

-----------------------------------------------------------------------------
(* Both jobs: the commit step.                                             *)

Push(j) ==
  /\ job[j].pc = "push"
  /\ main' = job[j].tree
  /\ job' = [Overtaken(job) EXCEPT ![j] = Idle]
  /\ UNCHANGED outside

NothingToCommit(j) ==
  /\ job[j].pc = "push"
  /\ ~TrackedChange(main, job[j].tree)
  /\ job' = [job EXCEPT ![j] = Idle]
  /\ UNCHANGED <<main, outside>>

\* A check has failed, or the push is rejected because the branch has moved.
Fail(j) ==
  /\ job[j].pc = "lost"
  /\ job' = [job EXCEPT ![j] = Idle]
  /\ UNCHANGED <<main, outside>>

Next ==
  \/ ScheduledSync
  \/ \E w \in Consumer, acceptance \in Attestations : AcceptanceSync(w, acceptance)
  \/ \E outcome \in Outcomes : RunIntegration(outcome)
  \/ RefusedIntegration
  \/ \E j \in Jobs : Push(j) \/ NothingToCommit(j) \/ Fail(j) \/ JobDies(j)
  \/ PersonCommits

Spec == Init /\ [][Next]_vars

(***************************************************************************)
(* Fairness.  The sync is scheduled every hour, and a job that cannot push *)
(* ends; a job is not overtaken every time it is about to push; and people *)
(* dispatch the integration again until, once, the scenario passes.  The   *)
(* first and the last are stated on the condition under which a job can    *)
(* start instead of with ENABLED, which would compute the job.             *)
(***************************************************************************)
MayPass ==
  /\ job["integration"].pc = "idle"
  /\ MayRun(main)
  /\ WithinBounds(<<"PASS", "history">>)

FairSpec ==
  /\ Spec
  /\ []<>(job["sync"].pc # "idle")
  /\ WF_vars(Fail("sync")) /\ WF_vars(Fail("integration"))
  /\ SF_vars(Push("sync")) /\ SF_vars(Push("integration"))
  /\ []<>MayPass => []<><<RunIntegration(<<"PASS", "history">>)>>_vars

-----------------------------------------------------------------------------
(* Properties of the jobs.                                                 *)

\* Nobody has stopped the feature, one of its parts or its contract by hand.
Undisturbed ==
  /\ main.feature \notin {"BLOCKED", "CANCELLED"}
  /\ \A w \in WP : main.wp[w] \notin {"BLOCKED", "SUPERSEDED"}
  /\ \A i \in Item \ Exempt : main.item[i] \notin {"BLOCKED", "CANCELLED"}
  /\ main.contract \notin {"DEPRECATED", "RETIRED"}

\* Completion: once acceptance for the delivered commits stays on the branch, the
\* jobs take every package to its claim, run the integration and finish the feature,
\* although they overtake each other, attempts fail and a job may die.
FeatureCompletes ==
  []Undisturbed /\ <>[](\A w \in Consumer : AcceptedCommit(main, w))
    => <>(main.feature = "DONE")

\* The jobs implement the transactions: what reaches the branch is computed, from
\* the first step of a job to its last, from the revision it replaces.
ImplementsTransactions == AtomicSpec
=============================================================================
