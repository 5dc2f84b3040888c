# Formal verification of smc-delivery-governance

This directory holds TLA+ models of the parts of the repository that change
state, the TLC configurations that check them on small instances, and proofs
that TLAPS checks for every instance. `PROJECT.json` lists components, runs,
mutants, the map from definitions to source lines, findings, hazards and
theorems; this file explains them.

    tlc -workers 2 -config MCRepositoryGovernance.cfg MCRepositoryGovernance
    tlapm RepositoryGovernance_proofs.tla

Contents: 1 the system, 2 the modules and how they correspond to the code,
3 the runs, 4 the proofs, 5 what the checks found, 6 assumptions and
abstractions, 7 what is not modelled, 8 what could come next.

## 1. The system

The repository holds three programs that share no code, and data for them.

**A. The control plane** (`tools/`, `.github/workflows/`, about 3,600 lines of
Python). A Git repository is the database. YAML files on the default branch hold
the current state of features, work packages, contracts, roadmap items,
integration scenarios and registered repositories; `audit/transitions/` holds
an append-only log of transitions. Workflows check the branch out, observe
remote repositories through GitHub, derive states, and push. A governance kit,
published by tag, is synchronised into the governed repositories.

**B. `ges`** (`ges/`, about 10,000 lines). A command line tool that runs in a
consumer repository: it plans and applies generated files (the Composer),
manages capabilities, and keeps work items with merge and execution gates.

**C. Engineering skills** (`engineeing-skills/`, about 27,500 lines of Python,
several generations of them). What agents run in a consumer repository from a
roadmap item to a delivered commit: routing, seeding and binding a Plan, review,
the method of each Todo, model calls and their cost, acceptance, the commit
guard; and around it installers with rollback, the consumer's bootstrap and its
frontend context. Scripts that read and write JSON files under `.smc/`,
`.agents/` and `docs_agent/`, called by agents in whatever order.

**D. Data**: skills, templates, schemas, the shipped feature, docs.

### Inventory

| Component | State | Operations | Interacts with | What is hard | What makes it correct |
|---|---|---|---|---|---|
| Lifecycle vocabulary (`states.yaml`, `state_machine.py`, `governance_lib.py`) | none | `allowed`, shortest paths, `state_at_least` | every tool | maturity order against graph; shortest paths through states nobody asked for | moves along edges only, what is final is final |
| Repository registry and status sync | `governance_state` of each repository, its audit chain | registry sync without events, audited walks, check, push | people, the integration job, remote reports | two writers of one field, one without audit; push race | chain and state agree on the branch; jobs and people take effect one after the other; RETIRED is final |
| Feature delivery (sync, acceptance and integration jobs) | packages, contract, items, scenario, feature; ledgers, acceptance, run files, `latest.yaml`, `history.yaml` | receipts, gates, reconciler passes, attempts, checks | two jobs in different concurrency groups, people, receipts, dispatches | overtaking jobs, attempts killed between four writes, lost lookups, gates that wait for each other | nothing published without evidence; release before integration; evidence is kept; the feature completes |
| Audit transaction, verification of artifacts and acceptance reports | one YAML file and one JSONL line; none | replace, append, undo; checks | each audited tool | kill between replace and append | state and event together |
| Governance kit (build, release, fetch, sync, check, local validation) | tags, releases, `dist`, cache; kit files, binding, lock, receipts in a repository | build, publish, fetch, copy, compare | governed repositories, release and contract people | `dist` built again under a running sync, moved tags, kills, upgrades and revisions half-way | following the advice of `--check` ends in exactly the wanted kit |
| Composer (`ges/reconciler`, `init`, `apply`, `remove`, `check`) | generated files, `.ges/lock.json`, `install-receipt.json`, project files | plan, question, writes one by one, check, rollback, deletions | edits, `ges capability`, upgrades | failing writes and rollbacks, kills, edits during the question | content survives; a failed apply leaves T0; what is generated is accounted for; a killed apply can be run again |
| Work registry and gates (`ges/governance`) | `works/<id>.yaml`; the gates keep nothing | create, update, close, migrate, link; merge and execution gates | each other (no lock), Git, GitHub, host files | lost updates; a gate that reads eight things one after the other | a verdict rests on states that were there; heads stand |
| Capability overlay, providers, resolver, adapters, cache | overlay, policy, cache files | add, remove, probes, selection, rendering | Composer, gates | overlay below the directory the Composer rolls back | pure, or part of the Composer's tree |
| Work router | classification, facts, envelope, previous profile | route, merge, bind | canonical artifact, callers, legacy authority | two fact schemas merged and overlaid | a known risk never gets lost |
| Plan review | snapshot, review record, rounds, packet | assess, build, record, accept | Plan's author | snapshot, record and text move apart | a cheap review means low risk; a DELTA is a difference to what was reviewed |
| Domain runtime and Plan seed | profile, policy, PRD; the Plan's bindings | preplan, seed, bind, repair, validate | PRD's and policy's authors | all change between commands; kills between seed and binding | the author of a meetable PRD gets a valid Plan |
| Roadmap | a table in one file | update, validate, restore | deliveries and manifests | written before it is validated; kills | the owner's steps come to an end |
| Continuation of agents | one gate file, ledgers | read, count, answer | several agents, no lock | overwritten counts | somebody is let go in the end |
| Method of a Todo | method, test and debugging ledgers, profile | classify, run, record, check, complete, freeze | edits, Plan revisions | files change between run and row; order of rows | a completed Todo was tested and debugged as its method asks |
| Managed model calls and cost | telemetry, permits, cache, receipts, contract | prepare, call, report, closure | adapters, harness | a call paid for whose process died | a closed stage accounts for its calls |
| Plan delivery | baseline, records, candidate, manifest, guard, state file | freeze, verify, record, capture, verify guard, set commit | the person who edits and commits | fingerprints of different moments; resume after blocks | a FINAL commit was proven; a refresh blesses nothing |
| Acceptance and test assets | ledgers, candidate, environment; catalog | preflight, run, reuse, manifest, completion; sync | live environments | edits, redrafts, deployments between the steps | what is claimed was shown |
| Installers and rollback | installed files, lock, receipt, journal with backups | staged copy, validation, restore, rollback | consumer's edits | failures and kills anywhere; random transaction names | all or nothing; the consumer's bytes survive |
| Consumer bootstrap, frontend context | layers of files, plan; registry, baselines | audit, plan, apply, restore, validate; refresh | edits, installer | stale plans, torn files, kills between registry and baselines | only adds; fresh means current; the advice ends |
| Acceptance drivers, host adapters, former installers, authoring tools, reports | – | call the others, print | – | – | – |

The hazards in `PROJECT.json` are this table's sixth column with lines.

## 2. The modules

A *stage* below is a component of its own in a module that checks several
components by one run: an MC module extends them all, a behaviour is one stage
and leaves the variables of the others alone. The components share no state, so
nothing is lost by it, and properties named in such a run speak of one stage.

### Lifecycle
The six graphs of `contracts/lifecycle/states.yaml` as functions from states to
successor sets, the two maturity orders, `Allowed` (`state_machine.allowed`),
`StateAtLeast`, and `Visited`, what a breadth-first search reaches: the least set
of states closed under the edges. Assumptions of the `registry` run compare it,
state by state, with a search that goes level by level.

### RepositoryGovernance (extends Lifecycle)
| TLA+ | code |
|---|---|
| `head` | what the branch says of each repository: `governance_state`, and the state its last audit event names |
| `report`, `wpSync` | the remote `project-status.yaml`; the sync states of the repository's packages, summarised as `reconcile_project_status.py` does |
| `job`, `tree` | the running workflow, its checkout, and whether its audit chain has a gap |
| `SyncProjectRegistry` | `sync_project_registry.py`, which writes states without events |
| `ReconcileProjectStatus` | `reconcile_project_status.py`, audited walks; an unaudited state before the walk becomes a gap |
| `VerifyStateInvariants` | chain continuity and tail of `verify_state_invariants.py` |
| `PushAccepted`, `PushRejected` | the commit step: `git diff --quiet` sees tracked files only, and a push is refused when the branch has moved |
| `HumanTransition`, `OtherPush`, `RemoteReport`, `WorkPackagesChange` | people and the integration job; the surroundings |

### FeatureState, AtomicDelivery, FeatureDelivery
`FeatureState` is a revision of the branch as a record, and every writing
function of the tools as an operator from revisions to revisions:
`SyncedReceipts`, `Attested`, the four gates of `state_machine.py`,
`PromotedPackages`, `ReconciledContract`, `ReconciledRoadmap`,
`FailedAbandoned`, `ReconciledIntegration`, `PromotedFeature` composed in
`Reconciled` in the order of `reconcile_states.py`, `Attempted`
(`integration_run.py`, with its four writes and a kill between any two), and
the checks `HistoryAgrees`, `FeatureValid`, `TrackedChange`.

`AtomicDelivery` is the abstract specification: the branch is one variable and
every step is one whole transaction (a person's commit, a sync, an integration
run) computed from the revision it follows. It states the safety properties.

`FeatureDelivery` is the detailed one: two jobs with checkouts of their own that
start, overtake each other, fail, die, find nothing to commit, push or are
refused. A job reads the branch when it checks it out and shares nothing until
it pushes, so the model computes what it will push in the step of the checkout
and lets everything else happen between that step and the push. It implements
`AtomicDelivery`: checked by TLC (`ImplementsTransactions`) and proved.

### GovernanceKit
| TLA+ | code |
|---|---|
| `tags`, `released`, `PlaceTag`, `Publish` | annotated tags and releases; `release_governance_kit.py` and its workflow |
| `dist`, `StartBuild`, `FinishBuild` | `build_kit`, which empties the directory first |
| `Resolved`, `CacheAfter`, `KillFetch` | `resolve_kit`, `fetch_release_bundle`; the copy into the cache is not atomic |
| `Check`, `CheckPasses` | `governance_sync.py --check`: lock, binding, manifest, files, work package |
| `StartSync`, `TrySync`, `Sync`, `SyncStep`, `Fails` | `--apply` as `--check` advises or after it raised, one step for each group of files in the order of the code, the lock last |
| `KillSync` (`Written`) | a process that dies between two writes or in the middle of one; a torn lock makes `--check` raise |
| `LocalGovernanceValid` | `validate_local_governance.py` in the repository's CI |

### ComposerApply
| TLA+ | code |
|---|---|
| `tree` | artifacts, `lock.json` (whose pins), `install-receipt.json`, other files under `.ges`; `cut`: the state files that are cut off |
| `CutOff` | what `write_bytes` (`io.py`) leaves when it does not come to its end |
| `ver`, `Desired` | the installed package and what it generates |
| `cmd` | the running command with the writes it still has to do |
| `t0` | the snapshot of `snapshot_managed_scope` |
| `Plan`, `Confirm`, `ConfirmNoop`, `Abort` | `cli/init.py`; the plan is made before the question and not again |
| `Write` | one step of `_commit_stage` and `_apply_removes`, in their order |
| `Check`, `ApplyFails`, `RollbackFails`, `ApplyKilled` | the end of `apply_plan`: check, caught failure with `_rollback`, a rollback that fails, a kill |
| `StartRemove`, `Delete`, `Removed`, `RemoveStops` | `remove.py` |
| `Edit`, `Discard`, `OtherCommand`, `Upgrade` | people, `ges capability` and `ges governance`, another release |

`edited`, `broken` are history used by the properties only.

### BusinessGuard
| TLA+ | code |
|---|---|
| `work`, `dirs`, `index`, `commits`, `head`, `repo` | the consumer's working tree and what Git knows of it |
| `look`, `snap`, `todo` | the two calls of `capture_business_snapshot` around an apply, and what they have recorded |
| `AskHead`, `AskIndex`, `AskStatus` | the three questions of `build_git_file_index`, asked one after the other |
| `Read` | one record of `_git_overlay_snapshot` or of the fallback |
| `Walk` | `_full_fallback_snapshot`, without Git or in an unmerged state |
| `Apply`, `Compare`, `Verdict` | the apply between the snapshots, `compare_business_snapshots` |
| `EditSource`, `RemoveDirectory`, `Add`, `Commit`, `Reset`, `Merge` | people, at any moment |

`seen` (what a path was while a snapshot was taken) and `mixed` are history used
by the property only.

### WorkRegistry, WorkGates (the second extends the first)
`WorkRegistry` is one work file and the commands that load it, decide, and
replace it whole, with no lock: a command is two steps at least, and several
overlap. A migration captures bytes, writes, and writes the captured bytes back
when anything fails, the reread of `_atomic_replace` included.

`WorkGates` adds a gate that looks at things one after the other (`gate.pc`):

| TLA+ | code |
|---|---|
| `StartMerge`, `View`, `Evidence`, `RecheckLocal`, `RecheckPr` | `evaluate_merge`: local head and work; first `view_pr`; `collect_evidence`; the local head again; the pull request again, over the network, and the decision |
| `StartExecution`, `Policy`, `Installed`, `Provider`, `Binding`, `Digests`, `Again` | `evaluate_execution`: work, policy, overlay, provider, hooks, their digest, the binding once more |
| `Intake`, `CheckSpec`, `CheckPlan` | `evaluate_intake` and `artifact_status`, which both use |
| `ProviderFails` | `gh` fails: the gate ends in an error |

`seen` is the history of what everything looked like at each moment of the
evaluation; the properties ask it for witnesses. `returned` remembers that the
local head left the commit of the first look and came back, which two looks
cannot tell from standing still.

### RiskFacts, WorkRouting, PlanReview, Continuation
`RiskFacts` has the fact keys of both schemas and the two readings of them:
`HardBoundaryActive` of the router and `EffectiveHard` of `risk_signals.py`.

| TLA+ | code |
|---|---|
| `RouteRaw`, `RouteBound`, `RouteByAuthority` | the three authorities of `work_router.py`; `VerifyEnvelope` is what `work_facts.py` asks of an envelope |
| `Route`, `Bounded`, `MergeRouteFacts`, `ConservativeMerge` | the profile for facts and a previous profile; the merges |
| `Depth`, `FreshPass`, `RiskForcesFull` | `assess_plan_review.py` |
| `Build`, `RecordReview`, `Accept` | `build_review_packet.py` with its rounds, `review_record.py`, the snapshot of an accepted text |
| `GateRead`, `GateWrite` | `continuation_gate` of `execution_context.py`: what it reads and what it writes back, as two steps of each agent |

### DomainPolicy
`prd`, `policy`, `plan` are the approved PRD, the consumer's profile and rules,
and the Plan. `SeedBody` and `SeedBindings` are the two writes of
`create_plan_seed_v37.py` (`SeedKilled` in between), `RepairBinding` its
`--repair-binding`, `Validate` the validators (`DomainsVerify`, `IntentKept`,
`BindingsVerify`), `AnswersErrors` the author who follows their messages,
`Edits` everybody who changes PRD, policy or matrix.

### Roadmap
`rows` is the table in the file; `Write` puts the candidate there before it is
valid, `Judge` validates and keeps it or puts `undo` back, `Killed` is a process
that dies in between. `Valid` is `validate_roadmap_v11.py` over the whole table,
with the manifests the deliveries committed (`log`).

### EngineeringMethod, TodoExecution
`EngineeringMethod` has the rules of `engineering_method.py` as operators: which
method a text and overrides select, what a test cycle and a debugging ledger
must show. `TodoExecution` is their use: `Classify`, `Migrate`, `RunCommand` and
`RecordRun` (the row is written after the command has ended), `TddEvent`,
`DebugEvent`, `CreateEnvelope`, `SetStatus` (up to the write of the Plan), then
`Freeze` or `FreezeLost`, `ApplyProfile` (`classification_state.py`), beside
`Edit` and `RevisePlan`. `passed` and `failed` are the history of what commands
showed of which content, `frozen` of a freeze that came through.

### Workspace, PlanDelivery, DeliveryRun (each extends the one before)
`Workspace` is the working copy as `workspace.py` sees it: files of the Plan,
other files, the Plan, commits, head, and the frozen `baseline`
(`RefreshAllowed`, `Conflicts`, `ScopeFingerprint`, `AmbientFingerprint`).
`PlanDelivery` adds the records: `RecordPlanReview`, `RecordGate`,
`CaptureCandidate`, `StartVerification` and `FinishVerification`,
`BuildManifest`, `CaptureGuard`, `VerifyGuard` with `FinalChecks`
(`commit_guard.py`). `DeliveryRun` adds the state machine of
`delivery_state.py`: `Block`, `Advance`, `SetCommit`.

### ModelDispatch
`Prepare` (candidates, cache, budget, envelope, permit), `StartCall`,
`CallReturns`, `CallFails` (`model_dispatch.py`), `ReportDispatch` and
`ReportResult` (`runtime_metrics.py` on the command line), `InitContract`,
`RecordNoModelWork`, and `Closed`, the verdict of `stage_cost_closure.py`.

### Acceptance, TestAssets
`Acceptance`: `ContractValid` is what `acceptance.py` asks of a Plan's ledgers;
a verification is `Preflight`, `StartCommand`, `FinishCommand`; `Inherit` reuses
evidence; `WriteManifest` is `evidence.py`, `Complete`
`validate_delivery_completion.py`; `EditFiles`, `RedraftPlan`, `Deploy` are the
surroundings, at any moment. `ran` (in a record) and `steady` are history: which
files answered, and whether they were exchanged under the verification.
`TestAssets`: `LedgerValid` and `Sync` of `test_assets.py` over the catalog.

### AtomicInstall, Installer
`AtomicInstall` is the promise: outside a run the project changes by whole
installations and whole undos. `Installer` is `install_v430.py` with what
`install_v500.py` puts around it, and `rollback.py`, write by write:
`StartInstall`, `Write`, `WriteFails`, `BackupFails`, `Advance`, `Restore`,
`RolledBack`, `Kill`, `StartRollback`, `Rollback`, beside `Edit`. A backup is a
copy that may stop half-way (`HalfBackedUp`); restore and rollback copy back what
the backup holds, not what it was of (`PutsBack`).
`ImplementsAtomicInstall` is the refinement, with `journal` mapped to the images
of finished installations.

### FrontendContext, ConsumerBootstrap (the second extends the first)
`FrontendContext` is a run as the sequence of writes it has still to make:
`Apply` (`frontend_audit.py --apply`), `Refresh` (`ux_context_resolver.py`),
`FeatureScope`, and one action for each write (`WriteRegistry`, `WriteShared`,
`WriteStatuses`, `WriteBase`, `WriteProfile`, ...), `Killed` and `Torn` at any
of them. `ConsumerBootstrap` adds audit, plan (`WritePlan`), remediation (`Put`,
`Skip`, `PutFails`, `TakeBack`), validation (`Validated`) and the installer's
layer (`product`): what the audit sees of it (`Audited`), how people damage or
install it (`ProductBreaks`, `PersonInstalls`), and the installation the plan
advises, without `--profile` (`Reinstall`, `ReinstallKilled`), which refuses
(`Refuses`) or deletes the profile the old lock owns (`Installed`).

### Which module composes which

    Lifecycle <- RepositoryGovernance <- RepositoryGovernance_proofs
    Lifecycle <- FeatureState <- AtomicDelivery <- FeatureDelivery <- FeatureDelivery_proofs
    ComposerApply, BusinessGuard <- ComposerApply_proofs
    WorkRegistry <- WorkGates <- WorkGates_proofs
    Workspace <- PlanDelivery <- DeliveryRun
    RiskFacts <- WorkRouting
    DeliveryRun, WorkRouting, PlanReview, ModelDispatch, Acceptance <- AgentSession_proofs
    EngineeringMethod <- TodoExecution <- TodoExecution_proofs
    AtomicInstall <- Installer (INSTANCE) <- Installer_proofs
    FrontendContext <- ConsumerBootstrap <- ConsumerBootstrap_proofs

    MCAgentSession       stages: WorkRouting, PlanReview, Continuation, DeliveryRun, Roadmap, DomainPolicy
    MCPlanDelivery       stages: PlanDelivery, ModelDispatch, Acceptance
    MCConsumerBootstrap  stages: ConsumerBootstrap (files; installer's layer), GovernanceKit
    MCComposerApply      stages: ComposerApply, BusinessGuard

The other `MC*` modules give the constants of one component their values.

## 3. The runs

Numbers of distinct states are those of the runs as configured. Symmetry is used
only where no liveness is checked. Each property of a passing run has a mutant
in `PROJECT.json`: a plausible bug in the code, under which TLC finds the
property violated by the same run.

| Run | Question | Instance | States |
|---|---|---|---|
| `registry` | Do the checks before the push keep the branch consistent, and do synced repositories settle? | 2 repositories; people pause, retire or put out of sync; 2 outside pushes or failures | 1.80 M |
| `delivery_safety` | Is everything published earned, kept and legal, whatever jobs and people do? | 1 provider, 1 consumer, 3 roadmap items, 3 initial revisions, 2 runs, 2 outside events | 0.67 M |
| `delivery_completion` | Do the jobs finish the feature, and do they implement whole transactions? | the same feature from a released contract, complete receipts, 3 runs, 2 outside events | 26,617 |
| `composer_safety` | Do commands that fail, die or are overtaken keep people's content, roll back, account for their files, and stay re-runnable? Does an apply that passes the guard have found the source unchanged? | 3 artifacts, 3 releases, 1 edit, 2 faults; 2 files and a submodule, 3 contents, 2 commits, 2 changes by people | 7.59 M |
| `work_gates` | Do the verdicts of the gates rest on states that were there, and did both heads meet on the approved commit? | 2 commands at a time, 2 contents, 2 commits, 2 hook files, 3 changes | 5.29 M |
| `plan_delivery` | Does a baseline name what was there, does a FINAL commit rest on records of what is committed, does a closed stage account for its calls, was a delivered claim shown? | 1 file of the Plan and 1 other, 3 commits, 3 moves; 2 calls and 1 reported; 6 Plans of one claim, 2 changes | 3.22 M |
| `todo_execution` | Does a completed Todo have the test cycle and the debugging its method asks for, over the files as they are, and does a freeze hold? | 1 Todo, 2 contents, 2 revisions of its text; its ledgers or the profile | 0.51 M |
| `agent_session` | Do the stages of a work item keep known risks and reviewed texts, let agents go, and come to their end? | facts of every kind, 6 texts, 2 agents, 1 Todo, 2 roadmap items, 1 domain, 2 edits | 0.86 M |
| `installer` | Do two installations with failures, kills, edits and rollbacks change the project by wholes and keep the consumer's bytes? | 2 releases, 2 profiles, 6 files, 1 edit, 1 death, forced rollback or half-made backup | 4.92 M |
| `consumer_bootstrap` | Does the tools' advice come to an end where it can be followed, does fresh mean current, and does the bootstrap only add? | 2 applications, 2 edits, 1 kill, 1 free run; a layer damaged or installed twice; 2 kit versions, 2 contents, 2 revisions, 2 troubles | 1.31 M |
| `roadmap_close` (violation) | Can an item be closed with the manifest its delivery wrote? | 2 items, manifests of the present schema | small |
| `asset_sync` (violation) | Does a valid Plan stay valid when its assets are synchronised? | 1 asset, extended or added | small |

### Bounds, and why they are enough

* `registry`: two repositories, because the audit check joins all repositories
  of a checkout and one may decide about the push of the other; three would add
  no new pair. `HumanTarget` has PAUSED and RETIRED, which the job treats
  specially, and OUT_OF_SYNC, which is settled. `MaxOutside = 2` lets a person
  act before a job and once more while it runs. Remote reports and package
  states change without bound.
* `delivery_*`: the shipped feature `FEAT-SKILL-FIRST-001` cut to one provider
  and one consumer, since packages meet only in "all providers", "all
  consumers" and "all packages", and to the items GRM-02 (contract exit), GRM-04
  (package exit, staffed) and GRM-05 (the exempt item, waiting, integration
  exit), one of each kind of exit the code distinguishes. Initial revisions: the
  shipped one; an earlier one with an untagged, unpinned, approved contract; a
  later one with a released contract. Two commits and two attestations tell "for
  the delivered commit" from "for another one"; a receipt is missing, unusable,
  stale in its pins, or complete. `MaxRuns = 2` for safety is one attempt after
  the recorded one; `MaxRuns = 3` for completion lets one more fail first, and
  the last run allowed is one that passes in full: a bound that cut off the
  passing run would make completion false for no reason of the code.
  `MaxOutside = 2` counts commits of people, deaths of jobs and killed attempts.
* `composer_safety`: three artifacts, so that an apply may be interrupted
  between two writes of one kind and a deletion may come third. Release 2
  updates one artifact and drops another, release 3 differs in its pins only.
  Initially every artifact may be there by hand, so one edit, at any moment, is a
  second one. Two faults: one in an apply and one in its repetition or in its
  rollback; each may leave any file that is being written cut off. The guard: a
  source file, an ignored file outside the source directories and a submodule,
  the three kinds of path it treats differently; two changes by people put one
  inside a snapshot and one in the other, or both between two questions.
* `work_gates`: two of everything that one look can tell from the next. Three
  changes allow a change before each of the three looks at the pull request, or
  a command that overlaps another and an edit.
* `plan_delivery`: one file of the Plan and one other file with two versions
  each, two revisions of the Plan, three commits and three moves: edit, commit
  and take back, or a commit over a checkpoint. One judged gate stands for
  audit and implementation review, which are recorded alike; live verifications
  of records are in `agent_session`. Two prepared calls and one reported from
  outside, two stages of which rows can name one or none: duplicates, orphans,
  shared envelopes and misplaced rows all happen. Six Plans of one claim and
  one verification cover the evidence actions, live, declared and local, blocking
  or not; two changes put an edit and its opposite, a redraft or a deployment
  anywhere. (That stage alone was also explored with three: 3.49 M states.)
  No-model receipts are written only after the contract is declared: nothing
  reads them before, and a declared contract stays declared.
* `todo_execution`: one Todo, since ledgers are kept by Todo; the frozen profile
  is the only thing two Todos share and one Todo completes and is reclassified
  repeatedly, its freeze lost or not. Two contents and two revisions tell "as tested"
  from "as it is". No step of the ledgers reads the profile or its window, and none of
  the profile reads a ledger, but for the completion that starts a freeze: so each is
  a stage of the run, the other kept as it is or without revisions and bugs.
* `agent_session`: facts over every kind of key the routes tell apart, six texts
  that differ in what the depth of a review depends on, two agents with a cap of
  three, two roadmap items (a row and one it depends on), one domain with one
  change and two edits: one while the seed is made, one after.
* `installer`: a skill of both releases, one the second no longer ships, a
  consumer-owned one, and a copy of each; a profile with and one without
  mirrors; the consumer writes one content of his own once (`Edits`) or removes a
  file instead. Two installations and one death, forced rollback or half-made
  backup are the least with which an undo can meet a later installation. The refinement is checked
  on the same instance.
* `consumer_bootstrap`: two applications share the UI package; an edit before
  and one after a scan, one kill, one run nobody had to make. Kit: an upgrade of
  version, content or revision, and one more trouble in the middle of the sync
  that answers it. Applications are alike, so the first is there before the second, and
  at first both are there only beside files of the consumer's own; one can be added later. The installer's layer, which only the validation reads, is
  damaged in a stage of its own, where files and applications are left alone: two
  changes by people and a killed installation are the least with which the
  installer refuses, is helped, deletes the profile and writes it again.

`CHECK_DEADLOCK FALSE` stands where everybody may be done: commands refuse, a
work file or a Plan is finished, and the bounded changes are used up.

### Fairness

* `registry`: weak fairness of `JobStep`. The workflow has an hourly cron
  (`sync-project-status.yml`), and a runner takes the steps it has started.
* `delivery_completion`: the sync job starts again and again (the same cron); a
  job that has lost its race ends; a job is not overtaken every single time it
  is about to push (strong fairness of `Push`, a matter of minutes against an
  hour); and people dispatch the integration until, once, the scenario passes,
  which is the definition of the workflow (`workflow_dispatch`). Nothing is
  assumed of people's commits, of deaths, or of acceptance dispatches; that
  acceptance evidence for the delivered commit stays on the branch and that
  nobody stops the feature by hand are premises of the property itself.
* `agent_session`: an agent that has asked the continuation gate gets its answer
  and, while told to continue, asks again; an update of the roadmap that is not
  killed is judged, deliveries end, owners take the next step of an item; the
  Plan's author answers what the validators print and has the Plan validated
  again. The skills are instructions to do just that.
* `consumer_bootstrap`: processes that are not killed go on; the operator does
  what plan and validation advise (bootstrap, reinstall where the installer does
  not refuse, audit), repeats check
  and sync of the kit, and release, contract and delivery people answer the
  errors they are shown. Edits, kills, moved tags, builds and upgrades have no
  fairness and end with their bound: the properties say that the tools converge
  once the surroundings leave them alone.
* The other runs check safety and assume no fairness.

## 4. The proofs

Every theorem holds for every value of the constants that satisfies the named
assumptions of the modules; TLC evaluates those assumptions on every run. Eight
modules hold proofs, each of one component or of the stages of one run:
`RepositoryGovernance_proofs`, `FeatureDelivery_proofs` (with AtomicDelivery),
`ComposerApply_proofs` (with BusinessGuard), `WorkGates_proofs`,
`AgentSession_proofs`, `TodoExecution_proofs`, `Installer_proofs`,
`ConsumerBootstrap_proofs` (with FrontendContext).

**RepositoryGovernance** (any repositories, targets, bound).
`PublishedAuditConsistent` is not inductive: what is pushed comes from a
checkout. The invariant is TypeOK ∧ PublishedAuditConsistent ∧ RetiredIsAudited
∧ PushIsVerified ∧ RetirementIsRemembered ∧ TreeIsOfHead. `PushIsVerified` carries the audit
check from the step that made it to the push. `RetirementIsRemembered` is the
point of the second theorem: although the registry sync writes BOOTSTRAPPED over
RETIRED in the checkout, the chain either still ends in RETIRED, and the tail
check refuses, or has got a gap from a later walk, and the continuity check
refuses. `TreeIsOfHead` says that, as long as the branch has not moved, the
checkout is what the steps taken so far make of the branch as it is now. Proved:
types, `PublishedAuditConsistent`, `RetirementIsFinal`, `JobsActAlone`.

**FeatureDelivery implements AtomicDelivery** (any feature, receipts,
attestations, bounds). The invariant `CheckoutsAreCurrent` says that what a job
is about to push is the outcome of one whole transaction from the branch as it
is *now*; it holds because every step that moves the branch takes the checkout
of every other job away (`Overtaken`, the rejected `git push`). So a push is a
transaction and every other step a stutter (`JobsImplementTransactions`).

**AtomicDelivery**. One lemma for each function of the tools says what it leaves
alone and under which condition it enters a state (`WalkFacts`,
`PromotedPackagesFacts`, ..., `ReconciledFacts`). `Progress` joins them: a
transaction keeps evidence, and what it enters it has earned. `Earned` joins
the four safety properties with TaggedIfReleased, which they need: a released
contract stays released and tagged, so what a gate asked for stays true
(`ProgressKeepsEarned`). The results are carried to the jobs by the
refinement: `VerifiedConsumerAttested`, `ReleasedBeforeIntegration`,
`DoneFeatureHadPass`, `DoneItemsStayEarned`, `EvidenceKept`, and the types.
`DoneItemsStayEarned` needs a premise, `ExitsAskForRelease`: a person may move a
contract from APPROVED back to CANDIDATE, so an item closed on an exit that asks
for APPROVED only can lose what it was closed on. The exits of the shipped
roadmap ask for RELEASED.

`LegalMoves` is a property of single transactions, so it needs no invariant but
the types. `Visited` is closed under the edges and composes (`ReachFacts`); a
sequence of states that goes along edges ends in a state its first one reaches
(`PathsReach`), and the reconciler's walks are such sequences, cut short where
`allowed` refuses (`WalkFacts`, `WalksReach`). Each function of the tools then
moves what it touches legally, and a transaction composes them
(`LegalIsTransitive`, `TransactionsMoveLegally`).

**ComposerApply** (any artifacts, order of paths, releases, bounds). The
invariant has ten parts. PlanIsSafe and PlanIsCurrent: a plan never aims at
somebody's content that was there when it was made, and still describes what is
to be done while it is carried out. PlanIsComplete: what is generated and no
longer wanted is on its list. SnapshotCovers: during an apply the tree differs
from the snapshot only where the rollback will look. ApplyAccounts and
RemoveAccounts: the receipt, or the list of what is still to be written and
deleted, accounts for everything generated. SnapshotIsOurs: a rollback that is cut
off spoils nobody's work. StateIsReadable: a command that got as far as its plan
could read lock and receipt, so a kill leaves one unreadable file at most. Of
this one the last theorem says that without it the rest is a tree the next plan
accepts (`WithoutTheCutFile`): the receipt comes after all writes, so where it is
lost nothing differs from what is wanted. Proved: types, `GeneratedIsAccounted`, `UserContentKept`, `RollbackRestores`,
`KilledApplyCanRerun`.

**BusinessGuard** (any paths, roots, contents, commits, bounds). The property
relates two composites, each put together at several moments. The invariant says
of a snapshot, path by path, what it has to do with a moment at which it was
taken: `Shows` (a clean file was its blob, a listed one what its record says or
still waits to be read, any other was not there; a submodule likewise by its
commit), `MissingRootsSeen`, `OneRecord`. `PresentIsSeen` and `AnswersHold`
carry the present state from one question to the next. Records tell contents
apart (`RecordsTell`), so equal composites show a common content. Proved:
types, `PassedSourceWasThere`.

**WorkGates** (any commands, contents, commits, hook files, bound). The
invariant is TypeOK ∧ CommandsKnow ∧ GateIsOrderly ∧ GateKnows ∧ Witnessed
∧ HeadsFollowed ∧ ReadyHeadsMet.
`Knows` says for each position of the gate what a gate that has found nothing
against readiness must have seen; it is monotone in the history
(`KnowledgeGrows`), so no step of the surroundings disturbs it, and each step of
the gate adds the present state as the next witness. `HeadsFollowed`: a local head
found where it was first seen was there all along, or has come back; so the second
look carries over to the moment of the evidence. Proved: types,
`MergeReadyIsWitnessed`, `ReadyHeadsMet`, `ExecutionReadyIsWitnessed`.

**DeliveryRun** (any paths, Todos, gates, bounds). The invariant is TypeOK ∧
BaselineIsHead ∧ CommitsKeepRest ∧ FinalGuard ∧ FinalIsProven. `CommitsKeepRest`:
a commit has every file it does not touch as its parent has it. `FinalGuard`
says of a captured FINAL guard what it was captured on: every gate had passed on
its scope, and the planned files it does not allow are in that scope as the
commit below has them; with `CommitsKeepRest` a commit that differs only in
allowed files, each equal to the scope, *is* the proven scope. The state
machine's own invariant, that a delivery past IMPLEMENTING has a baseline and
one with a commit stays behind it, is proved beside it. Proved: types,
`BaselineIsHead`, `FinalIsProven`, `RefreshOnlyRebindsPlan`, `CommitOnBaseline`,
and that no step makes a delivery resume behind or beyond where it was.

**TodoExecution** (any Todos, texts, commands, contents, revisions, overrides).
The properties speak of the step that completes a Todo. Inductive is what is
known between steps: every fact a ledger still counts has a command behind it
(`CycleOK`, `DebugOK`), the command whose row is still to come has ended on the
content that is there (`RunOK`), a stored method asks for the debugging of a bug
(`MethodOK`), and a freeze that came through left the window other than
PROVISIONAL for good. Proved: types,
`CompletedWasTested`, `CompletedBugWasDebugged`, `CompletedKeepsProfile`.

**WorkRouting** (any facts, callers, authorities). `RoutesAreConservative` is an
action property that needs types only, but lemmas on each way to a profile: an
envelope, a merge and a bound route keep every hard fact (`EnvelopeKeepsHard`,
`MergeKeepsHard`), and a profile for a hard fact is never a cheaper one
(`HardIsActive`, `RouteFacts`).

**PlanReview** (any texts, any cap of rounds). The invariant adds to the types
and `CheapReviewMeansLowRisk` that a record bound to the text as it is was made
of that text (`BoundIsReviewed`); that a shallow depth is given to texts of low
risk only is `ShallowIsLow`. `DeltaIsToReviewedText` follows by
`PacketDepthFacts`.

**ModelDispatch** (any calls, stages, sources, limits, bounds). Inductive is
`CalledAreDispatched`: whatever was called, died or answered included, has its
row and its dispatch in the telemetry. `ClosedStageIsAnswered` then shows that a
closure without duplicates and orphans has a result for each of those calls.

**Acceptance** (any claims, verifications, Plans, contents, bounds). Two parts
connect a delivered claim with what once ran: `UnderwayIsBound` (a verification
that is still steady has the Plan and the probed environment of its preflight,
and its command runs what candidate or scope say) and `RecordsRan` (what
answered a record that was not inherited are the files its own Plan made the
command run, or nobody knows). Files, Plan and environment change at any moment:
the completion compares the fingerprint of the present with the one in the
record. Proved: types, `DeliveredClaimsWereShown`.

**Installer** (any files, releases, profiles, policies, orders of writing).
`WritesAreRecorded`: during a run a file is as the run found it, unless the
journal has it. `RestoreKnowsStart` and `UndoKnowsStart` say the same of a
restore and of an undo, with the backups they go back to, and `BackupsAreImages`
that a backup is what was there, but for a file whose backup is what failed; from
these the refinement follows (`StepImplements`: the end of a run is one update, or one
undo, every other step stutters). For the consumer's bytes the invariant must
know where contents come from (`ContentsHaveOrigins`): an undo overwrites without
a backup, and does no harm because it finds the file as the installation left it,
which is never what the consumer had put there. `LocksAreChained` orders the
installations in effect by the locks they found, since their names are random
and do not. Proved: types, `ConsumerBytesKept`, the chain, `RollbackUndoesLatest`,
`ImplementsAtomicInstall`.

**ConsumerBootstrap and FrontendContext** (any applications, edits, kills, runs).
A run is the sequence of writes it has still to make, and steps put further
writes in front of it; so the invariant is about sequences. `RunInOrder`: the
writes of a baseline are the first of the sequence, and the lock follows
immediately on the surfaces it goes with (`BaselineFirst`).
`BaselinesOK` needs this order: the next write knows what the one before left on
disk (`HeadKnowsDisk`), surfaces come from a scan of this run unless a change
came later (`ScansAreCurrent`), an application the run will report as answered
is sound or has the write to come that makes it so (`AnswersInSight`), and every
application without an unanswered change is sound. This holds between any
two writes, so a kill may end the sequence anywhere. `FilesOK`
says of the bootstrap that the files that are there are those before it and those
it made, that it made none of them over another, and that a restore still has
each of its files on its list. Proved: types, `FreshMeansCurrent`,
`DecisionsKept`, `BootstrapOnlyAdds`.

What stays with TLC, and why. The liveness properties
(`SyncedRepositoriesSettle`, `FeatureCompletes`, `StagesComplete`,
`AdviceConverges`) rest on fairness and ENABLED, which the prover does not
handle. The two violations are counterexamples of the runs. Every other property
of the passing runs is a theorem. That `Visited` is what a search computes is
compared by TLC on all six graphs and not proved: the search is a recursion.

## 5. What the checks found

Two runs end in a violation of what a document of the repository says. Each is
in `PROJECT.json` with the quoted lines.

1. `roadmap_close`: deliveries write evidence manifests of schema v3 with
   `scope_fingerprint`; the roadmap's validator accepts the schema but looks for
   its fingerprint under the name of v1. No item can be closed with the manifest
   of a present delivery.
2. `asset_sync`: `test_assets.py sync` writes the manifest of a new asset and
   then finds the Plan invalid because that manifest exists, and so do the
   evidence manifest and the completion after it. A Plan that adds a test asset
   cannot be delivered.

Other disagreements and narrow places, met while modelling. They are part of the
models (the properties are stated so as to hold beside them) or of the
abstractions; no run is kept for them.

*Control plane.* An audited PAUSED repository is overwritten by the registry
sync in every checkout, without an event, and every hourly job then fails its
own audit check. The blocker recorded in the shipped `history.yaml` is compared
with the package on every sync but rewritten by no tool: as soon as receipts
move the package the sync fails. A provider becomes VERIFIED only with a
RELEASED contract, and the reconciler releases only with VERIFIED providers:
therefore `delivery_completion` starts from a released contract. An integration
run dispatched after DONE may fail and becomes the latest result.

*Governance kit.* `release_governance_kit.py` builds from the working tree
whatever `--commit` says, so a kit built locally may hold other content than
the commit it names. A kit in `dist` is preferred and its commit never compared
with the tag. A moved tag blocks every sync until it is put back. Files of
earlier kits, or of an earlier `--with-ci`, are never removed. A receipt
skeleton keeps the kit of its creation. A missing contract release ends a sync
after files have been written. Local validation wants the workflow files also of
a repository synchronised without `--with-ci`, which `--check` calls in sync. A
`governance.lock` torn by a kill makes `--check` raise `JSONDecodeError`
(`governance_sync.py:224`): OUT_OF_SYNC, and with it the advice to sync, never
comes; `--apply` on one's own initiative repairs it. `RepositorySettles` asks for
the end only if no torn lock stays.

*Guard over the source.* A Git command between `ls-files` and `status` makes a
snapshot no one state of the repository has (`mixed`), and the guard may then
pass over a changed file. A submodule filled between `status` and its record
counts as clean at the commit of the index; a dirty one is compared by HEAD
only. One that is not checked out blocks every apply
(`SUBMODULE_SOURCE_STATE_UNRESOLVED`). Where no root directory exists the
fallback covers nothing.

*ges.* The rollback of a failed first apply deletes the capability overlay that
was under `.ges`. Files are written in place (`io.py:30`): an apply killed inside
a write leaves a torn artifact that every later plan refuses
(`UNMANAGED_PATH_CONFLICT`, `MANAGED_CONTENT_MODIFIED`), or an unreadable lock or
receipt on which every command fails, until somebody deletes it; a cut-off
`project.yaml` may still parse, and inside AGENTS.md the consumer's own text
behind the cut is lost. Killed just before the receipt, the rerun is a NOOP that
never writes it. `ges artifact link` changes a CLOSED work item; overlapping
commands can write OPEN back over a close, or v1 over a migration. The hook file
is read for its registration and once more for its digest.

*Plan delivery.* A commit verified as CHECKPOINT is accepted by `set-commit`
(GOVERNANCE.md:96 asks for the FINAL one), and after a CHECKPOINT commit FINAL
is out of reach without a `git reset`. A FINAL commit on another base than the
baseline's passes (`commit_guard.py:151`; workspace-contract.md:63). A Todo
reopened, or a FAIL recorded, after the FINAL capture is not seen by `verify`.

*Acceptance.* After the preflight nothing asks the environment again
(`acceptance.py:516-557`, then `evidence.py:142-161`): a deployment before the
command ends, or an edit under it that is taken back, lets other files answer
than the record names, and a token or receipt only declares a candidate. "This
prevents 'fixed A, tested old B'" (acceptance-governance-contract.md:181) holds
for the rest, which is what `DeliveredClaimsWereShown` says. A Plan redrafted in
that window from a live verification to a local one with the same command is
delivered on the live run, whatever that ran.

*Todos.* `tdd_run` takes the fingerprint again after comparing it; a repeated
reproduction unroots a cause; an escalation vanishes when the Todo is
reclassified. The profile is frozen after the completion is in the Plan, inside
`try: ... except Exception: pass` and by plan id (`plan_state.py:199-211`), and
read by work item id: a completed Todo does not keep it from going down, which
is why `CompletedKeepsProfile` starts from a freeze that came through.

*Router and review.* A v2 key that is null hides its v1 name
(`work_router.py:57`); an unknown fact of an envelope is overlaid by a caller's
false; the authority of a legacy document never checks its sources; exceeded
review rounds are never reset; a REVISE verdict gets the DELTA packet that the
skill's text promises only after an accepted one.

*Model calls.* A rerun of an answered call leaves no trace; a reported pair
without a permit counts; contract file and frontmatter can disagree; dispatches
of ROUTING and DELIVERY are never examined; `max_model_tier` is not enforced;
two envelopes of one stage keep its closure blocked for good.

*Domains.* A repaired binding keeps the old binding table, which the author has
to delete; repair does not repeat the preplan and profile checks; a domain that
is always on but concerned by no change can never pass; the policy digest does
not cover the packs' validators; `domain_activation_digest` is never compared;
the cell N/A agrees with any intent.

*Installers.* A backup that stops half-way, as on a full disk, raises, and the
automatic restore then copies the truncated backup over the file, which was still
intact: restore asks only whether the backup is there (`install_v430.py:97-99`,
`:154-160`), while install.md:15 promises the bytes from before. `RolledBack`
counts such a restore in `disturbed` and `BackupFails` gives the file up, so
`ConsumerBytesKept` and the refinement say what holds of all other failures. A
reinstallation without `--profile` deletes `profile.json`,
domain packs and mirrors (install.md:26 promises to keep them); a second
installation of one profile deletes unchanged mirror files as stale; a kill
before the manifest leaves nothing for `rollback.py`; the latest transaction is
the one with the greatest random name, of any status; an edited `profile.json`
makes reinstallation fail.

*Advice of the bootstrap.* The plan advises `install.py <project> --apply`
(`generate_remediation.py:129`). The first such installation deletes the profile
that the lock owns, the next one writes the generic profile in its place: two
rounds end in a whole layer, but not in the consumer's. It refuses for ever where a
required skill is missing (the advice names `--seed-consumer-skills` in its text,
not in its command), where the profile was edited and the old lock owns it, and
where a killed installation tore `profile.json`, which the audit counts as
present. What only validation looks for (`frontend-runtime`, `evidence.py`,
`engineering_method.py`) the audit does not see, so the plan never asks for it. A
handoff contract of another schema counts as existing and is never written.
`Converges` names these cases (`Advisable`); leaving out any of them gives TLC
a counterexample.

*Frontend.* An application in the root directory is never mapped
(`frontend_app_registry.py:453`); restoring unlinks a file that a person has
edited since the run wrote it.

## 6. Assumptions and abstractions

*Registry.* Events are reduced to the last state a chain names and whether it
has a gap; two registered repositories; packages are summarised. The commit step
may drop a change that only a new events file shows.

*Delivery of features.* One contract release with every provider package as an
output and every other as an input; one package per repository; a change of the
source revision of a feature is left out (receipts and attestations come as
current or not). Acceptance is attested for consumers only, as the workflow
does. Lookups of running attempts answer for all or for none. `blocked_by` of
the roadmap is written by whoever blocks an item. Timestamps are left out: a
sync that changes only an observation time may or may not count as a tracked
change. Initial revisions have earned the states they are in
(`InitialRevisionsAssumption`). The registry sync's effect on the same commit is
in `RepositoryGovernance` only.

*Governance kit.* A commit is identified with the content it has; kit files that
are treated alike are one; a file torn by a kill is none of its contents; contracts go with the work package; one operator at a
time works on the repository, with the same flags each time.

*Composer.* The selection of capabilities is fixed, so what is wanted is a
function of the installed release; the managed section of AGENTS.md is an
artifact, the consumer's text around it is left out (a write cut off there may
take the section or leave part of it); a cut-off file is not what it was and not
what it was to be; the package is upgraded between commands; people write one
kind of content or delete, and delete a state file that is unreadable; a partial
rollback restores the artifacts in order and the state files all or none; the
legacy receipt format is left out; `ges apply` is `ges init` without the
question.

*Guard.* A rename is a deletion and an addition, a symlink is like a file, the
content of a submodule is the commit it stands at and its files, `git reset`
leaves submodules, flags of the index such as assume-unchanged are left out.
What the guard skips (`BUSINESS_SOURCE_SKIP_PREFIXES`) is where the Composer
writes, so the two stages share no file.

*Work items and gates.* Title and owner are left out, MEDIUM risk counts as LOW,
each artifact kind has one path, RTK is the only capability of the catalog, the
policy of the gates is `DEFAULT_POLICY`, the host is fixed, and a command or
gate that refuses at once is no step. The existence check that counts for
`create` is the second one. Looks at things that change independently of each
other are one step: local head with the first load of the work, the dirty flag
with the first view of the pull request, the final local head with the last
view, the provider with the hooks in the binding. Open, not a draft and marked
are one flag of the pull request; the checks are the set of commits on which
they succeeded. An approval survives a push or is dismissed: that is a setting
of the repository on GitHub.

*Routing and review.* A digest is whether it still holds; of a provenance only
the kinds of sources count; a Plan's text is what the depth of its review
depends on. In the continuation only whether ledgers have outgrown what was
read.

*Plan delivery.* A single writer of the files (invariant 12 in
lat.md/ges/invariants.md): nobody edits while a script reads. A digest is what
it digests, a rebuilt manifest with the same prints is the same, and a gate's
record carries the fingerprints of the moment it was recorded. A verification is
two steps. Static validators, test asset ledger and cost closure only refuse
more and are left out there. `guard.proof` and `moves` are history and bound.

*Acceptance.* With LOCAL_WORKTREE the command starts the worktree, as the
contract requires (acceptance-governance-contract.md:92). Reviews and baseline only refuse more. `durable` stands for any
earlier manifest that can be reused, the Plan's own included; a known FAIL is
not consulted by `inherit`, as in the code. `TestAssets`: the digest of an
extended asset is not checked at completion.

*Model calls.* How tokens are counted and which capsules exist is left to two
sources and two limits.

*Roadmap.* One update at a time, a file written in one step; identifiers and
frontmatter are right; an update names one document or the delivery's
arguments; at most one disturbance, because two invalid rows block each other
and have no way out but an editor; the dependencies of Plans stay acyclic.

*Domains.* Everything else a validator looks at only refuses more. The author
answers errors, so that an intent is met unless PRD and policy cannot be.

*Installer.* One installer or rollback at a time and nobody edits meanwhile; of
a content it counts where it comes from. A process that dies, a rollback that
is forced and a restore from half a backup may leave anything (`disturbed`); what
they must not do is in `ConsumerBytesKept`. A record whose write failed has no
digest of what was installed, so that its rollback always needs force; in the code
it needs none where the file is absent.

*Bootstrap and frontend.* Of the installer's layer, the files that are treated
alike are one, and so are `profile.json` and the domain packs' registry; an
installation that fails leaves nothing, which is `Installer`'s business, and paths
and policies that a profile requires of the consumer count with the required skills;
schema versions of the registries are left out; one process at a time;
applications are added and never removed; to check for a file and to copy it is
one step; nobody edits what a run has just written, nor the installer's layer
while a bootstrap runs.

## 7. What is not modelled

* `state_transaction.py` by itself: the window between replace and append
  matters in a person's tree only, since a job that dies loses its checkout.
* Verification of artifacts, acceptance reports and receipts: pure; their
  verdict is an input of the models.
* One-off authoring tools, read-only reports: no state that two actors share.
* Of the governance kit: archive and checksum formats, reports on remote
  bootstrap and branch protection.
* Resolver, analyzer, adapters, cache, command line of `ges`: pure selection,
  rendering, parsing.
* Of the skills: what static validators find in a Plan's prose, the v1
  engineering method, recall and research, worker envelopes, what a frontend
  scan finds, reuse decisions, the packs' own row rules, migration of old
  profiles; the acceptance drivers (`acceptance/run_acceptance.py`), which call
  the other components in sequence; host adapters; the installers of former
  releases, which `install_v500.py` supersedes.
* Data, prose, templates.

## 8. What could come next

Models: several contract releases and source revisions in `FeatureState`; a
second work item whose id extends the first (the marker is searched as a
substring, `gates.py:155`); the overlay commands of `ges capability` with their
own writes; `StateTransaction` in a person's tree; a receipt observed by
`FeatureDelivery` that `GovernanceKit` has synchronised.

Proofs: a refinement of `WorkGates` to an atomic evaluation for a repository in
which nothing changes; a refinement of `BusinessGuard` to two instantaneous
snapshots when nobody writes meanwhile; safety of the stages of which
the runs state only that they finish or converge (Continuation, DomainPolicy,
GovernanceKit).
