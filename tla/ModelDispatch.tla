--------------------------- MODULE ModelDispatch ---------------------------
(***************************************************************************)
(* Managed model calls and the closure of their cost.  A call is prepared   *)
(* (model_dispatch.py: candidates, capsule cache, budget, envelope, permit) *)
(* and then run under its permit, with a dispatch row before it and a       *)
(* result row after it in an append-only telemetry file                     *)
(* (runtime_metrics.py).  Delivery asks stage_cost_closure.py whether the   *)
(* rows of every stage, or a receipt that the stage needed no model,        *)
(* account for the work (runtime_cost_contract.py).                         *)
(*                                                                          *)
(* Of an envelope only its digest matters: what it was built from and       *)
(* whether the cache had it.  Token counts are kept as "any" or "none".     *)
(***************************************************************************)
EXTENDS Naturals, FiniteSets

CONSTANTS
    Calls,     \* prepared calls
    Outside,   \* calls a harness makes itself and reports on the command line
    Sources,   \* candidate sets of context
    Load,      \* how much context each of them is
    Limit,     \* the smallest phase limit of each governance profile
    Stages,    \* PLANNING, IMPLEMENTATION, REVIEW
    MaxCalled, \* bound: calls asked of a model
    MaxResults,\* bound: different result rows of one id
    Tags       \* the stages that phase and cost bucket can put a row in

BudgetProfiles == {"NONE", "LEAN", "FULL"}
Ids == Calls \cup Outside

ASSUME DispatchAssumption ==
    /\ Calls \cap Outside = {} /\ Tags \subseteq SUBSET Stages
    /\ MaxCalled \in Nat /\ MaxResults \in Nat /\ Load \in [Sources -> Nat] /\ Limit \in [BudgetProfiles -> Nat]

CallEnvelopes == [stages : Tags, source : Sources, hit : BOOLEAN]
Modes == {"ENFORCED", "OBSERVABLE"}
Nothing == [row |-> FALSE]
\* A row is sound unless it says that its call was not managed or, as a
\* result, names no model.  envelope has at most one element: what is reported
\* from outside carries no digest.
DispatchRows == [row : {TRUE}, stages : Tags, envelope : SUBSET CallEnvelopes,
                 mode : Modes \cup {"-"}, sound : BOOLEAN]
ResultRows == [stages : Tags \cup {{}}, usage : BOOLEAN, mode : Modes \cup {"-"}, sound : BOOLEAN]

VARIABLES
    capsules,   \* sources whose capsules are fresh in the cache
    prepared,   \* envelope and permit of each prepared call
    calling,    \* the calls whose model is at work
    file,       \* the telemetry file exists
    dispatches, \* the last dispatch row of each id
    results,    \* the result rows of each id
    contract,   \* runtime-cost-contract.json exists
    declared,   \* the Plan's frontmatter declares the contract
    receipts,   \* stages with a no-model-work receipt
    called      \* history: the calls whose model has been asked

dispatchVars == <<capsules, prepared, calling, file, dispatches, results,
                  contract, declared, receipts, called>>
planSide == <<contract, declared, receipts>>
telemetry == <<file, dispatches, results>>

DispatchInit ==
    /\ capsules = {} /\ prepared = [c \in Calls |-> Nothing]
    /\ calling = {}
    /\ file = FALSE /\ dispatches = [i \in Ids |-> Nothing] /\ results = [i \in Ids |-> {}]
    /\ contract = FALSE /\ declared = FALSE /\ receipts = {} /\ called = {}

----------------------------------------------------------------------------
(* model_dispatch.py *)

\* Of what it was built from and found in the cache, everything enters the digest.
EnvelopeOf(stages, s) == [stages |-> stages, source |-> s, hit |-> s \in capsules]

\* decide_budget: LEAN is raised to FULL before anything is refused.
Effective(profile, load) == IF profile = "LEAN" /\ load > Limit["LEAN"] THEN "FULL" ELSE profile
Permitted(profile, load) == load <= Limit[Effective(profile, load)]

\* A refusal is told to the telemetry, if the Plan of the work can be found.
Prepare(c, stages, s, profile) ==
    /\ ~prepared[c].row
    /\ prepared' = [prepared EXCEPT ![c] =
            [row |-> TRUE, permit |-> Permitted(profile, Load[s]),
             envelope |-> EnvelopeOf(stages, s)]]
    /\ capsules' = capsules \cup {s}
    /\ file' \in IF Permitted(profile, Load[s]) THEN {file} ELSE {file, TRUE}
    /\ UNCHANGED <<calling, dispatches, results, planSide, called>>

\* issue_permit, require_permit: the permit names the envelope it is for.
MayCall(c) == prepared[c].row /\ prepared[c].permit /\ c \notin calling

\* The capsules live for a while, in a store other tasks of the work share.
CapsulesExpire ==
    /\ capsules' = {}
    /\ UNCHANGED <<prepared, calling, telemetry, planSide, called>>

StartCallUnlogged(c, mode) ==  \* mutant: the dispatch is reported with its result
    /\ MayCall(c)
    /\ Cardinality(called \cup {c}) <= MaxCalled
    /\ calling' = calling \cup {c}
    /\ called' = called \cup {c}
    /\ UNCHANGED <<capsules, prepared, telemetry, planSide>>

CallRow(c, mode) ==
    [row |-> TRUE, stages |-> prepared[c].envelope.stages,
     envelope |-> {prepared[c].envelope}, mode |-> mode, sound |-> TRUE]

\* run_managed_call up to the call.  The prepared call may be run again.
StartCall(c, mode) ==
    /\ MayCall(c)
    /\ Cardinality(called \cup {c}) <= MaxCalled
    /\ file' = TRUE
    /\ dispatches' = [dispatches EXCEPT ![c] = CallRow(c, mode)]
    /\ calling' = calling \cup {c}
    /\ called' = called \cup {c}
    /\ UNCHANGED <<capsules, prepared, results, planSide>>

\* An adapter without a call function, an exception or a kill: no result row.
CallFails(c) ==
    /\ c \in calling
    /\ calling' = calling \ {c}
    /\ UNCHANGED <<capsules, prepared, telemetry, planSide, called>>

CallReturns(c, usage) ==
    /\ c \in calling
    /\ calling' = calling \ {c}
    /\ results' = [results EXCEPT ![c] = @ \cup
            {[stages |-> {}, usage |-> usage, mode |-> dispatches[c].mode, sound |-> TRUE]}]
    /\ Cardinality(results'[c]) <= MaxResults
    /\ UNCHANGED <<capsules, prepared, file, dispatches, planSide, called>>

----------------------------------------------------------------------------
(* runtime_metrics.py and runtime_cost_contract.py on the command line *)

ReportDispatch(i, stages, sound) ==
    /\ Cardinality(called \cup {i}) <= MaxCalled
    /\ file' = TRUE
    /\ dispatches' = [dispatches EXCEPT ![i] =
            [row |-> TRUE, stages |-> stages, envelope |-> {}, mode |-> "-", sound |-> sound]]
    /\ called' = called \cup {i}
    /\ UNCHANGED <<capsules, prepared, calling, results, planSide>>

ReportResult(i, stages, usage, sound) ==
    /\ file' = TRUE
    /\ results' = [results EXCEPT ![i] = @ \cup
            {[stages |-> stages, usage |-> usage, mode |-> "-", sound |-> sound]}]
    /\ Cardinality(results'[i]) <= MaxResults
    /\ UNCHANGED <<capsules, prepared, calling, dispatches, planSide, called>>

\* init writes the file only; migrate and the Plan seed declare it as well.
InitContract(declare) ==
    /\ contract' = TRUE /\ declared' = (declared \/ declare)
    /\ UNCHANGED <<capsules, prepared, calling, telemetry, receipts, called>>

RecordNoModelWork(stage) ==
    /\ receipts' = receipts \cup {stage}
    /\ UNCHANGED <<capsules, prepared, calling, telemetry, contract, declared, called>>

----------------------------------------------------------------------------
(* stage_cost_closure.py *)

DispatchedIn(stage) == {i \in Ids : dispatches[i].row /\ stage \in dispatches[i].stages}
Orphans == {i \in Ids : ~dispatches[i].row /\ results[i] # {}}
OrphansIn(stage) == {i \in Orphans : \E r \in results[i] : stage \in r.stages}
ResultsIn(stage) == UNION {results[i] : i \in DispatchedIn(stage)}
EnvelopesIn(stage) == UNION {dispatches[i].envelope : i \in DispatchedIn(stage)}
ScopedIn(stage) == {dispatches[i] : i \in DispatchedIn(stage)} \cup ResultsIn(stage)

\* Calls without usage pass on the tokens their dispatches allocated.
UsageClosed(stage) ==
    (\A r \in ResultsIn(stage) : ~r.usage) =>
        \E e \in EnvelopesIn(stage) : Load[e.source] > 0

\* A stage with dispatches.
StageAccounted(stage) ==
    /\ \A i \in DispatchedIn(stage) : results[i] # {}
    /\ OrphansIn(stage) = {}
    /\ \A r \in ScopedIn(stage) : r.sound /\ r.mode # "OBSERVABLE"
    /\ Cardinality(EnvelopesIn(stage)) = 1
    /\ UsageClosed(stage)

\* evaluate_stage, strict.
StagePasses(stage) ==
    IF DispatchedIn(stage) # {} THEN StageAccounted(stage)
    ELSE OrphansIn(stage) = {} /\ (declared => stage \in receipts)

\* assert_managed_cost_closure: receipts alone do not close a contract
\* without any telemetry.
Closed ==
    /\ contract => file /\ \A stage \in Stages : StagePasses(stage)
    /\ Orphans = {}
    /\ \A stage \in Stages : DispatchedIn(stage) # {} => StageAccounted(stage)

----------------------------------------------------------------------------
DispatchNext ==
    \/ \E c \in Calls, t \in Tags, s \in Sources, p \in BudgetProfiles : Prepare(c, t, s, p)
    \/ CapsulesExpire
    \/ \E c \in Calls, m \in Modes : StartCall(c, m)
    \/ \E c \in Calls : CallFails(c) \/ \E u \in BOOLEAN : CallReturns(c, u)
    \/ \E i \in Outside, t \in Tags, ok \in BOOLEAN :
          ReportDispatch(i, t, ok) \/ \E u \in BOOLEAN : ReportResult(i, t, u, ok)
    \/ \E d \in BOOLEAN : InitContract(d)
    \/ \E stage \in Stages : RecordNoModelWork(stage)

DispatchSpec == DispatchInit /\ [][DispatchNext]_dispatchVars

----------------------------------------------------------------------------

\* When the closure passes, every call a model was asked for in a stage has an
\* answer: one whose process died or whose adapter failed stays visible until
\* the same prepared call has been run to its end (run_managed_call,
\* evaluate_stage).  A further run of an answered call does not show.
ClosedCallsAnswered ==
    Closed => \A i \in called :
        /\ dispatches[i].row
        /\ dispatches[i].stages # {} => results[i] # {}
=============================================================================
