--------------------------- MODULE FrontendContext ---------------------------
(***************************************************************************)
(* The frontend context of a consumer: frontend_audit.py --apply, the        *)
(* registry of applications (frontend_app_registry.py) and the baselines of  *)
(* each application (ux_context_resolver.py) below .agents/ges/frontend,     *)
(* while people edit applications and the shared UI package and a process    *)
(* can be killed before, after or in the middle of any write.                *)
(*                                                                           *)
(* A run is the sequence of writes it has still to make.  One process writes *)
(* at a time.  Files are written in place, so a kill can leave one torn.     *)
(* Applications are added and never removed, each below its own directory;   *)
(* the shared package is always there.                                       *)
(***************************************************************************)
EXTENDS FiniteSets, Sequences, SequencesExt, Naturals

CONSTANTS
    Apps,                        \* applications the repository may come to hold
    MaxEdits, MaxKills, MaxRuns  \* bounds

Modes == {"OBSERVE", "GUIDED", "ENFORCED"}
Statuses == {"NOT_INITIALIZED", "INITIALIZED", "STALE"}
Unknown == [a \in Apps |-> "-"]

ASSUME FrontendAssumption ==
    /\ IsFiniteSet(Apps) /\ "ui" \notin Apps
    /\ MaxEdits \in Nat /\ MaxKills \in Nat /\ MaxRuns \in Nat

VARIABLES
    present,      \* the applications in the repository
    adoption,     \* adoption-mode.json
    marker,       \* the file ENFORCED
    calibration,  \* calibration-status.json
    registry,     \* apps-registry.json: the status of each application it names
    sharedUi,     \* shared-ui-registry.json
    base,         \* the baseline of each application
    run,          \* the process at work
    seen,         \* history: surface registries scanned from the present sources
    owed,         \* history: applications with a change that no refresh has answered
    edits, kills, runs  \* bounds: edits, kills, and runs nobody had to make

frontend == <<adoption, marker, calibration, registry, sharedUi, base>>
history == <<seen, owed>>
bounds == <<edits, kills, runs>>
vars == <<present, frontend, run, history, bounds>>

Idle == [kind |-> "none", todo |-> <<>>, scope |-> {}, mode |-> "-", scan |-> {}, answers |-> {},
         late |-> {}, made |-> {}, before |-> {}]
NoBaseline == [profile |-> "-", ui |-> "-", surfaces |-> "-", lock |-> "-"]
NoRegistry == [file |-> "-", status |-> Unknown]

Init ==
    /\ present \in SUBSET Apps
    /\ adoption = "-" /\ marker = FALSE /\ calibration = "-"
    /\ registry = NoRegistry /\ sharedUi = "-"
    /\ base = [a \in Apps |-> NoBaseline]
    /\ run = Idle
    /\ seen = {} /\ owed = {}
    /\ edits = 0 /\ kills = 0 /\ runs = 0

Op(what, arg) == [what |-> what, arg |-> arg]
Next1 == Head(run.todo)
Working == run.kind # "none" /\ run.todo # <<>>
Does(what) == Working /\ Next1.what = what
\* The step is done, and the run goes on with `more` before what it had to do.
GoesOn(more) == run' = [run EXCEPT !.todo = more \o Tail(@)]

----------------------------------------------------------------------------
(* What the files say *)

\* _adoption_mode: the marker wins, and a file that cannot be read is OBSERVE.
Mode == IF marker THEN "ENFORCED" ELSE IF adoption \in Modes THEN adoption ELSE "OBSERVE"

Readable(file) == file \notin {"-", "torn"}
Loaded == registry.file = "ok"
Known == {a \in Apps : registry.status[a] # "-"}

\* _detect_baseline_status: three files must exist; a lock that is missing or
\* cannot be read counts as fresh.
Detected(a) ==
    IF "-" \in {base[a].profile, base[a].ui, base[a].surfaces} THEN "NOT_INITIALIZED"
    ELSE IF base[a].lock = "DEPENDENCY_STALE" THEN "STALE" ELSE "INITIALIZED"

\* discover, which persists the registry and the shared one.
Discovered == [file |-> "ok", status |-> [a \in Apps |-> IF a \in present THEN Detected(a) ELSE "-"]]
Discover == <<Op("registry", "-"), Op("shared", "-")>>
\* load_registry(root) or discover(root)
LoadOrDiscover == IF Loaded THEN <<>> ELSE Discover

\* The registry that resolve_scope_identifiers reads; without one it looks for itself.
InScope == IF Loaded THEN Known ELSE present

----------------------------------------------------------------------------
(* Runs *)

Starts(kind, todo, scope, mode) ==
    /\ run = Idle
    /\ run' = [Idle EXCEPT !.kind = kind, !.todo = todo, !.scope = scope, !.mode = mode]
    /\ UNCHANGED <<present, frontend, history, edits, kills>>

\* frontend_audit.audit with --apply; an empty scope is a run without --app.
ApplyRun(mode, scope) ==
    /\ scope \subseteq InScope
    /\ Starts("apply",
              <<Op("adoption", "-"), Op("marker", "-"), Op("calibration", "-")>> \o Discover
                  \o <<Op("targets", "-"), Op("resolve", "-")>> \o Discover \o <<Op("statuses", "-")>>,
              scope, mode)

Apply(mode, scope) == runs < MaxRuns /\ runs' = runs + 1 /\ ApplyRun(mode, scope)

\* incremental_refresh of the changed paths, each below an application or the shared package.
Refresh(paths) ==
    /\ runs < MaxRuns /\ runs' = runs + 1
    /\ Starts("refresh", LoadOrDiscover \o <<Op("decide", "-")>>, paths, "-")

\* resolve_feature_scope: _load_surfaces writes a baseline where it can read none.
FeatureScope(a) ==
    /\ runs < MaxRuns /\ runs' = runs + 1
    /\ Starts("scope", LoadOrDiscover \o <<Op("serve", a)>>, {}, "-")

\* _write_adoption: the file first, the marker after it.
WriteAdoption ==
    /\ Does("adoption") /\ adoption' = run.mode /\ GoesOn(<<>>)
    /\ UNCHANGED <<present, marker, calibration, registry, sharedUi, base, history, bounds>>

WriteMarker ==
    /\ Does("marker") /\ marker' = (run.mode = "ENFORCED") /\ GoesOn(<<>>)
    /\ UNCHANGED <<present, adoption, calibration, registry, sharedUi, base, history, bounds>>

CalibrationReset(old) == "PENDING"  \* mutant: the status is written anew

\* _ensure_calibration_status: an accepted calibration stays accepted.
Calibration(old) == IF old = "ACCEPTED" THEN old ELSE "PENDING"

WriteCalibration ==
    /\ Does("calibration") /\ calibration' = Calibration(calibration) /\ GoesOn(<<>>)
    /\ UNCHANGED <<present, adoption, marker, registry, sharedUi, base, history, bounds>>

WriteRegistry ==
    /\ Does("registry") /\ registry' = Discovered /\ GoesOn(<<>>)
    /\ UNCHANGED <<present, adoption, marker, calibration, sharedUi, base, history, bounds>>

WriteShared ==
    /\ Does("shared") /\ sharedUi' = "ok" /\ GoesOn(<<>>)
    /\ UNCHANGED <<present, adoption, marker, calibration, registry, base, history, bounds>>

\* refresh_baseline_statuses: only the applications the registry already names.
WriteStatuses ==
    /\ Does("statuses") /\ GoesOn(<<>>)
    /\ registry' = [registry EXCEPT !.status = [a \in Apps |-> IF a \in Known THEN Detected(a) ELSE "-"]]
    /\ UNCHANGED <<present, adoption, marker, calibration, sharedUi, base, history, bounds>>

\* resolve_shared_components: what is there is taken as it is.
ResolveShared ==
    /\ Does("resolve") /\ GoesOn(IF Readable(sharedUi) THEN <<>> ELSE Discover)
    /\ UNCHANGED <<present, frontend, history, bounds>>

Each(what, apps) == [i \in 1 .. Cardinality(apps) |-> Op(what, SetToSeq(apps)[i])]

\* The applications of the scope, or all the ones discovered.
Targets ==
    /\ Does("targets")
    /\ GoesOn(Each("generate", IF run.scope = {} THEN Known ELSE Known \cap run.scope))
    /\ UNCHANGED <<present, frontend, history, bounds>>

Serve ==
    /\ Does("serve")
    /\ GoesOn(IF Next1.arg \in Known /\ ~Readable(base[Next1.arg].surfaces)
              THEN <<Op("generate", Next1.arg)>> ELSE <<>>)
    /\ UNCHANGED <<present, frontend, history, bounds>>

\* find_app_for_path finds only applications that the registry names.
DecideUnmarked ==  \* mutant: a change of the shared package refreshes what it names and no more
    /\ Does("decide")
    /\ LET affected == run.scope \cap Known
           others == IF "ui" \in run.scope THEN Known \ affected ELSE {}
       IN  run' = [run EXCEPT !.answers = affected \cup others,
                              !.todo = Each("generate", affected) \o Tail(@)]
    /\ UNCHANGED <<present, frontend, history, bounds>>

Decide ==
    /\ Does("decide")
    /\ LET affected == run.scope \cap Known
           others == IF "ui" \in run.scope THEN Known \ affected ELSE {}
       IN  run' = [run EXCEPT
                !.answers = affected \cup others,
                !.todo = Each("generate", affected)
                         \o (IF "ui" \in run.scope THEN <<Op("resolve", "-")>> \o Discover ELSE <<>>)
                         \o Each("mark", others) \o Tail(@)]
    /\ UNCHANGED <<present, frontend, history, bounds>>

\* generate_baseline scans first and writes the files one by one; the ones
\* between the surfaces and the lock are left out.
Generate ==
    /\ Does("generate")
    /\ LET a == Next1.arg
       IN  run' = [run EXCEPT
                !.scan = {a},
                !.todo = <<Op("profile", a), Op("baseline", a), Op("surfaces", a), Op("lock", a),
                           Op("statuses", "-")>> \o Tail(@)]
    /\ UNCHANGED <<present, frontend, history, bounds>>

WriteBase(what, field, content) ==
    /\ Does(what) /\ base' = [base EXCEPT ![Next1.arg][field] = content] /\ GoesOn(<<>>)
    /\ UNCHANGED <<present, adoption, marker, calibration, registry, sharedUi, owed, bounds>>

WriteProfile == WriteBase("profile", "profile", "ok") /\ UNCHANGED seen
WriteUi == WriteBase("baseline", "ui", "ok") /\ UNCHANGED seen
WriteSurfaces ==
    /\ WriteBase("surfaces", "surfaces", "FRESH")
    /\ seen' = IF Next1.arg \in run.scan THEN seen \cup {Next1.arg} ELSE seen \ {Next1.arg}
WriteLock == WriteBase("lock", "lock", "FRESH") /\ UNCHANGED seen

\* _mark_surfaces_stale: an unreadable surface registry is left as it is, a missing one is made first.
Mark ==
    /\ Does("mark")
    /\ LET a == Next1.arg
       IN  GoesOn(CASE base[a].surfaces = "-" -> <<Op("generate", a), Op("mark", a)>>
                    [] base[a].surfaces = "torn" -> <<>>
                    [] OTHER -> <<Op("staleSurfaces", a), Op("staleLock", a)>>)
    /\ UNCHANGED <<present, frontend, history, bounds>>

WriteStaleSurfaces == WriteBase("staleSurfaces", "surfaces", "DEPENDENCY_STALE") /\ UNCHANGED seen
WriteStaleLock == WriteBase("staleLock", "lock", "DEPENDENCY_STALE") /\ UNCHANGED seen

\* The run returns; what it reports as refreshed or marked counts as answered,
\* but for changes that came meanwhile.
Finish ==
    /\ run.kind \in {"apply", "refresh", "scope"} /\ run.todo = <<>>
    /\ run' = Idle /\ owed' = owed \ (run.answers \ run.late)
    /\ UNCHANGED <<present, frontend, seen, bounds>>

Step ==
    \/ WriteAdoption \/ WriteMarker \/ WriteCalibration \/ WriteRegistry \/ WriteShared
    \/ WriteStatuses \/ ResolveShared \/ Targets \/ Serve \/ Decide \/ Generate
    \/ WriteProfile \/ WriteUi \/ WriteSurfaces \/ WriteLock
    \/ Mark \/ WriteStaleSurfaces \/ WriteStaleLock \/ Finish

----------------------------------------------------------------------------
(* Kills and people *)

Dies == kills < MaxKills /\ kills' = kills + 1 /\ run' = Idle /\ UNCHANGED <<present, history, edits, runs>>

\* Between two writes.
Killed == run.kind # "none" /\ Dies /\ UNCHANGED frontend

\* In the middle of one.
Torn ==
    /\ Working /\ Dies
    /\ \/ Next1.what = "adoption" /\ adoption' = "torn"
          /\ UNCHANGED <<marker, calibration, registry, sharedUi, base>>
       \/ Next1.what = "calibration" /\ calibration' = "torn"
          /\ UNCHANGED <<adoption, marker, registry, sharedUi, base>>
       \/ Next1.what \in {"registry", "statuses"} /\ registry' = [NoRegistry EXCEPT !.file = "torn"]
          /\ UNCHANGED <<adoption, marker, calibration, sharedUi, base>>
       \/ Next1.what = "shared" /\ sharedUi' = "torn"
          /\ UNCHANGED <<adoption, marker, calibration, registry, base>>
       \/ \E f \in {<<"profile", "profile">>, <<"baseline", "ui">>, <<"surfaces", "surfaces">>,
                    <<"lock", "lock">>, <<"staleSurfaces", "surfaces">>, <<"staleLock", "lock">>} :
            /\ Next1.what = f[1] /\ base' = [base EXCEPT ![Next1.arg][f[2]] = "torn"]
            /\ UNCHANGED <<adoption, marker, calibration, registry, sharedUi>>

Edits(apps) ==
    /\ edits < MaxEdits /\ edits' = edits + 1
    /\ seen' = seen \ apps /\ owed' = owed \cup apps
    /\ run' = IF run = Idle THEN run ELSE [run EXCEPT !.scan = @ \ apps, !.late = @ \cup apps]
    /\ UNCHANGED <<present, frontend, kills, runs>>

EditApp(a) == a \in present /\ Edits({a})
EditShared == Edits(Apps)

AddApp(a) ==
    /\ edits < MaxEdits /\ edits' = edits + 1
    /\ present' = present \cup {a}
    /\ UNCHANGED <<frontend, run, history, kills, runs>>

\* A person accepts the calibration that was generated.
Accept ==
    /\ edits < MaxEdits /\ edits' = edits + 1
    /\ run = Idle /\ calibration = "PENDING" /\ calibration' = "ACCEPTED"
    /\ UNCHANGED <<present, adoption, marker, registry, sharedUi, base, run, history, kills, runs>>

\* A person removes .agents/ges/frontend.
Clear ==
    /\ edits < MaxEdits /\ edits' = edits + 1
    /\ run = Idle
    /\ adoption' = "-" /\ marker' = FALSE /\ calibration' = "-" /\ registry' = NoRegistry
    /\ sharedUi' = "-" /\ base' = [a \in Apps |-> NoBaseline]
    /\ UNCHANGED <<present, run, history, kills, runs>>

People == (\E a \in Apps : EditApp(a) \/ AddApp(a)) \/ EditShared \/ Accept \/ Clear

OptionalRuns ==
    \/ \E scope \in SUBSET Apps : \E mode \in Modes : Apply(mode, scope)
    \/ \E scope \in SUBSET Apps : Apply(Mode, scope)
    \/ \E paths \in SUBSET (Apps \cup {"ui"}) : Refresh(paths)
    \/ \E a \in Apps : FeatureScope(a)

----------------------------------------------------------------------------
(* Properties *)

\* Surfaces that are offered as fresh, by themselves or by the lock beside
\* them, were scanned from the sources as they are, unless a change is still
\* unanswered: what a refresh reports as refreshed or stale is so, whatever was
\* edited, killed or torn meanwhile.
FreshMeansCurrent ==
    \A a \in Apps \ owed :
        \/ base[a].surfaces = "FRESH"
        \/ base[a].surfaces = "DEPENDENCY_STALE" /\ base[a].lock \notin {"-", "torn", "DEPENDENCY_STALE"}
        => a \in seen

\* What people decided stays: only a run that was asked for another mode, or the
\* removal of the whole directory, ends ENFORCED, and no run takes an accepted
\* calibration back, unless it is killed in the middle of writing it.
DecisionsKept ==
    [][/\ Mode = "ENFORCED" /\ Mode' # "ENFORCED" =>
            \/ run.mode \in Modes \ {"ENFORCED"} \/ calibration' = "-"
            \/ ~marker /\ kills' # kills
       /\ calibration = "ACCEPTED" /\ calibration' # "ACCEPTED" =>
            calibration' = "-" \/ kills' # kills]_vars
=============================================================================
