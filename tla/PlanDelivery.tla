---------------------------- MODULE PlanDelivery ----------------------------
(***************************************************************************)
(* The delivery of one governed Plan: the records of its gates (Plan       *)
(* Review, Completion Audit, Implementation Review, the evidence of each   *)
(* blocking verification), the verification candidate, the evidence        *)
(* manifest, the commit guard and the delivery state machine.              *)
(*                                                                         *)
(* Every record is a file under .smc/ written by one call of a script; a   *)
(* record is worth something only while it is fresh, that is while the     *)
(* workspace still has the fingerprints the record carries.  The person    *)
(* may call any script at any time, in any order, and edit, commit and     *)
(* take commits back in between.  A verification command runs for a while: *)
(* it is two steps, and the record keeps the fingerprints of the first.    *)
(***************************************************************************)
EXTENDS Workspace

CONSTANTS
    Judged,         \* the gates a reviewer records: audit, implementation review
    Verifications,  \* the blocking verifications of the Plan
    Live            \* those of them that need a verification candidate

VARIABLES
    planReview,  \* the latest Plan Review, or None
    gates,       \* the latest record of each other gate, or None
    running,     \* fingerprints a verification command was started with, or None
    candidate,   \* verification-candidate.json: the scope it names, or None
    guard        \* the commit guard, or None

recordVars == <<planReview, gates, running, candidate, guard>>
vars == <<wsVars, recordVars>>

Gates == Judged \cup Verifications
Kinds == {"CHECKPOINT", "CANDIDATE", "FINAL"}

\* A record of a gate, and what capture of the commit guard writes; proof is
\* what the gates said then, which the file itself does not keep.
Records == [scope : Scopes, ambient : Snapshots, pass : BOOLEAN]

Guards == [kind : Kinds, pending : SUBSET Todos, scope : Scopes, ambient : Snapshots,
           allowed : SUBSET (Paths \cup {"plan", "manifest"}),
           required : SUBSET (Paths \cup {"plan", "manifest"}),
           headBefore : 1..MaxCommits, verified : 1..MaxCommits \cup {None}, final : BOOLEAN,
           proof : [Gates -> Records \cup {None}]]

ASSUME GatesAssumption ==
    /\ Judged \cap Verifications = {} /\ Live \subseteq Verifications
    /\ None \notin Scopes /\ None \notin Records /\ None \notin Guards

----------------------------------------------------------------------------
(* Freshness *)

Record(pass) == [scope |-> ScopeFingerprint, ambient |-> AmbientFingerprint, pass |-> pass]

FreshOnAmbient(r) == \* mutant: the scope a record names is not compared
    r # None /\ r.pass /\ r.ambient = AmbientFingerprint /\ Stable

Fresh(r) == /\ r # None /\ r.pass
            /\ r.scope = ScopeFingerprint
            /\ r.ambient = AmbientFingerprint
            /\ Stable

PlanReviewFresh == planReview # None /\ planReview = [sem |-> tree.sem, pass |-> TRUE]

CandidateFresh == candidate = ScopeFingerprint

\* A live verification counts only with the candidate it was run against.
GateFresh(g) == Fresh(gates[g]) /\ (g \in Live => CandidateFresh)

ManifestFresh == /\ tree.manifest # None
                 /\ tree.manifest.scope = ScopeFingerprint
                 /\ tree.manifest.ambient = AmbientFingerprint

\* validate() of validate_delivery_completion.py. The static validator, the
\* test asset ledger and the cost closure can only refuse more.
DeliveryReady == /\ Stable
                 /\ tree.done = Todos
                 /\ PlanReviewFresh
                 /\ \A g \in Gates : GateFresh(g)
                 /\ ManifestFresh

----------------------------------------------------------------------------
(* Records *)

\* plan_state.py set: the Plan file changes, its meaning does not.
SetTodo(t, completed) ==
    /\ (t \in tree.done) # completed
    /\ tree' = [tree EXCEPT !.done = IF completed THEN @ \cup {t} ELSE @ \ {t}]
    /\ UNCHANGED <<commits, head, baseline, moves, recordVars>>

RecordPlanReview(pass) ==
    /\ planReview' = [sem |-> tree.sem, pass |-> pass]
    /\ UNCHANGED <<wsVars, gates, running, candidate, guard>>

\* The verdict is the reviewer's; the fingerprints are those of the moment it
\* is recorded, not of the moment the reviewer read the files.
RecordGate(g, pass) ==
    /\ g \in Judged /\ Stable
    /\ gates' = [gates EXCEPT ![g] = Record(pass)]
    /\ UNCHANGED <<wsVars, planReview, running, candidate, guard>>

CaptureCandidate ==
    /\ Stable
    /\ candidate' = ScopeFingerprint
    /\ UNCHANGED <<wsVars, planReview, gates, running, guard>>

\* evidence.py run: the fingerprints are read, then the command starts ...
StartVerification(v) ==
    /\ running[v] = None
    /\ v \in Live => CandidateFresh
    /\ Stable
    /\ running' = [running EXCEPT ![v] = Record(FALSE)]
    /\ UNCHANGED <<wsVars, planReview, gates, candidate, guard>>

\* ... and whatever happened meanwhile, its result is recorded under them.
FinishVerification(v, pass) ==
    /\ running[v] # None
    /\ gates' = [gates EXCEPT ![v] = [running[v] EXCEPT !.pass = pass]]
    /\ running' = [running EXCEPT ![v] = None]
    /\ UNCHANGED <<wsVars, planReview, candidate, guard>>

BuildManifest ==
    /\ Stable
    /\ PlanReviewFresh
    /\ \A g \in Gates : Fresh(gates[g])
    /\ tree' = [tree EXCEPT !.manifest = [scope |-> ScopeFingerprint,
                                         ambient |-> AmbientFingerprint]]
    /\ UNCHANGED <<commits, head, baseline, moves, recordVars>>

----------------------------------------------------------------------------
(* The commit guard *)

AllowedPaths == ScopeChanged \cup {"plan", "manifest"}
RequiredPaths == ScopeChanged \cup {"manifest"} \cup (IF PlanDirty THEN {"plan"} ELSE {})

MayCapture(kind) ==
    CASE kind = "FINAL"      -> DeliveryReady
      [] kind = "CANDIDATE"  -> tree.done = Todos => DeliveryReady
      [] kind = "CHECKPOINT" -> TRUE

CaptureGuard(kind) ==
    /\ baseline # None
    /\ MayCapture(kind)
    /\ guard' = [kind |-> kind, pending |-> Todos \ tree.done,
                 scope |-> ScopeFingerprint, ambient |-> AmbientFingerprint,
                 allowed |-> AllowedPaths,
                 required |-> IF kind = "CHECKPOINT" THEN {} ELSE RequiredPaths,
                 headBefore |-> head, verified |-> None, final |-> FALSE,
                 proof |-> gates]
    /\ UNCHANGED <<wsVars, planReview, gates, running, candidate>>

\* The checks of verify() that only the kind FINAL asks for.
FinalChecks(c) ==
    /\ guard.scope = ScopeFingerprint
    /\ guard.ambient = AmbientFingerprint /\ AmbientStable
    /\ ~PlanSemanticChanged
    /\ UnexpectedDirty = {}
    /\ commits[c].paths \subseteq guard.allowed
    /\ guard.required \subseteq commits[c].paths
    /\ (DirtyPaths \cup (IF PlanDirty THEN {"plan"} ELSE {})) \cap guard.allowed = {}

\* commit_guard.py verify --commit HEAD [--kind]: the kind asked for
\* overrides the captured one. Any other commit than HEAD is refused.
VerifyGuard(kind) ==
    /\ guard # None
    /\ guard.headBefore \in commits[head].history
    /\ kind = "FINAL" => guard.pending = {} /\ FinalChecks(head)
    /\ guard' = [guard EXCEPT !.verified = head, !.final = (kind = "FINAL")]
    /\ UNCHANGED <<wsVars, planReview, gates, running, candidate>>

----------------------------------------------------------------------------
Init == /\ WsInit
        /\ planReview = None
        /\ gates = [g \in Gates |-> None]
        /\ running = [v \in Verifications |-> None]
        /\ candidate = None
        /\ guard = None

PersonNext ==
    /\ \/ \E p \in Paths, v \in Versions : Edit(p, v)
       \/ \E r \in 0..MaxRevision : RevisePlan(r)
       \/ \E S \in SUBSET Committable : Commit(S)
       \/ TakeBack
    /\ UNCHANGED recordVars

RecordNext ==
    \/ WorkspaceInit /\ UNCHANGED recordVars
    \/ \E t \in Todos, b \in BOOLEAN : SetTodo(t, b)
    \/ \E b \in BOOLEAN : RecordPlanReview(b)
    \/ \E g \in Judged, b \in BOOLEAN : RecordGate(g, b)
    \/ CaptureCandidate
    \/ \E v \in Verifications : StartVerification(v)
    \/ \E v \in Verifications, b \in BOOLEAN : FinishVerification(v, b)
    \/ BuildManifest

GuardNext == \E k \in Kinds : CaptureGuard(k) \/ VerifyGuard(k)

Next == PersonNext \/ RecordNext \/ GuardNext

Spec == Init /\ [][Next]_vars

----------------------------------------------------------------------------
TypeOK ==
    /\ WsTypeOK
    /\ planReview \in [sem : 0..MaxRevision, pass : BOOLEAN] \cup {None}
    /\ gates \in [Gates -> Records \cup {None}]
    /\ running \in [Verifications -> Records \cup {None}]
    /\ candidate \in Scopes \cup {None}
    /\ guard \in Guards \cup {None}
    \* a record, a run and a guard exist only once there is a baseline
    /\ baseline = None => /\ guard = None /\ candidate = None /\ tree.manifest = None
                          /\ \A g \in Gates : gates[g] = None
                          /\ \A v \in Verifications : running[v] = None

\* The baseline is what the commit it was frozen at says of the planned
\* files, and every ambient path was dirty when it was frozen: nothing the
\* Plan will be judged by was already changed.
BaselineIsHead ==
    baseline # None =>
        /\ baseline.base \in 1..Len(commits)
        /\ \A p \in Planned : baseline.planned[p] = commits[baseline.base].tree.file[p]
        /\ \A p \in AmbientPaths : baseline.ambient[p][2]

\* "Refresh is only a pre-implementation rebind after an intentional Plan
\* revision. It must never be usable to bless implementation/ambient
\* mutations": a second baseline differs from the first in the Plan alone.
RefreshOnlyRebindsPlan ==
    [][baseline # None => baseline' = [baseline EXCEPT !.sem = baseline'.sem]]_vars

\* A commit verified as FINAL under a guard captured as FINAL holds, for
\* every file the Plan changed and for the Plan's meaning, what every gate
\* passed on, and nothing the guard did not allow; made directly on the
\* commit the guard saw, it is exactly that commit plus what was proven.
FinalIsProven ==
    guard # None /\ guard.kind = "FINAL" /\ guard.final =>
        LET c == commits[guard.verified]
            b == commits[guard.headBefore]
        IN /\ \A g \in Gates : guard.proof[g] # None /\ guard.proof[g].pass
                               /\ guard.proof[g].scope = guard.scope
           /\ c.paths \subseteq guard.allowed
           /\ \A p \in guard.allowed \cap Planned : c.tree.file[p] = guard.scope.planned[p]
           /\ c.tree.sem = guard.scope.sem
           /\ c.parent = guard.headBefore =>
                \A p \in Paths : c.tree.file[p] = IF p \in Planned THEN guard.scope.planned[p]
                                                                   ELSE b.tree.file[p]
=============================================================================
