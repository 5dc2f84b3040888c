---------------------------- MODULE TodoExecution ----------------------------
(***************************************************************************)
(* How the todos of one smc.plan.v3.7 Plan are worked on: each has a       *)
(* method, a test-driven and a debugging ledger bound to the content of    *)
(* the Plan's files, a worker envelope and a status in the Plan; when a    *)
(* completion is in the Plan, the governance profile of the work is to be  *)
(* frozen, which may come to nothing.                                      *)
(*                                                                         *)
(* A command ends before its row is written, and the Plan may be revised   *)
(* or a todo classified anew in between.  The files have a single writer   *)
(* (invariant 12 of the GES), who does not edit while a command of his     *)
(* runs.                                                                   *)
(***************************************************************************)
EXTENDS EngineeringMethod, FiniteSets

CONSTANTS
    Todos,
    Text,         \* what classify finds in the text of each todo, in each revision
    Controls,     \* the overrides a controller may pass to classify
    Revisions,    \* semantic revisions of the Plan
    Statuses      \* of a todo; no step reads one, so that any but "completed" are alike

ASSUME TodoAssumption ==
    /\ Text \in [Revisions -> [Todos -> Signals]]
    /\ NoOverride \in Controls /\ Controls \subseteq Overrides
    /\ {"pending", "completed"} \subseteq Statuses
    /\ None \notin Commands \cup Contents \cup Outputs \cup Revisions

VARIABLES
    content,   \* content of the Plan's files: one fingerprint covers them all
    revision,  \* semantic_plan_sha256
    method,    \* T-method.json of each todo, or None
    cycle,     \* T-tdd.jsonl, the rows of the current method epoch
    debug,     \* T-debug.jsonl, the rows of the current method epoch
    run,       \* the command that ended and has no row yet, or None
    envelope,  \* the todos with a worker context envelope
    status,    \* todos[].status in the Plan
    profile,   \* governance_profile in classification-state.json
    window,    \* its state
    freezing,  \* a completion is in the Plan and its freeze is still to come
    frozen,    \* history: the freeze of a completion has reached the work's state
    passed,    \* history: commands that ended with 0 on a content
    failed     \* history: commands that ended with another code

vars == <<content, revision, method, cycle, debug, run, envelope, status,
          profile, window, freezing, frozen, passed, failed>>
fileVars == <<content, revision>>
planVars == <<envelope, status, profile, window, freezing, frozen>>

Ranks == [NONE |-> 0, LEAN |-> 1, FULL |-> 2]
GovernanceProfiles == DOMAIN Ranks

\* A method is stored with the revision it was derived from.
Stored == [method : Methods, revision : Revisions]

Runs == [todo : Todos, ledger : {"tdd", "debug"}, kind : Phases \cup {"repro", "verified", "fix"},
         command : Commands, zero : BOOLEAN, output : Outputs]

ASSUME NoMethodAssumption == None \notin Stored /\ None \notin Runs

----------------------------------------------------------------------------
(* The method of a todo *)

\* A new seed is a new epoch: no earlier row counts again.
Store(t, m, fresh) ==
    /\ method' = [method EXCEPT ![t] = m]
    /\ cycle' = IF fresh THEN [cycle EXCEPT ![t] = NewCycle] ELSE cycle
    /\ debug' = IF fresh THEN [debug EXCEPT ![t] = NoDebug] ELSE debug

Classify(t, o) ==
    LET m == [method |-> Method(Text[revision][t], o), revision |-> revision]
    IN  /\ Accepted(Text[revision][t], o)
        /\ Store(t, m, method[t] # m)
        /\ UNCHANGED <<fileVars, run, planVars, passed, failed>>

\* migrate archives the method and classifies without overrides.
Migrate(t) ==
    /\ Store(t, [method |-> Method(Text[revision][t], NoOverride), revision |-> revision], TRUE)
    /\ UNCHANGED <<fileVars, run, planVars, passed, failed>>

\* load_method classifies what was never classified and refuses a stale method.
Loaded(t) == IF method[t] # None THEN method[t]
             ELSE [method |-> Method(Text[revision][t], NoOverride), revision |-> revision]
Loadable(t) == method[t] # None => method[t].revision = revision

----------------------------------------------------------------------------
(* The ledgers *)

\* Any row that loads a method it was first to need opens its epoch.
CycleOf(t) == IF method[t] = None THEN NewCycle ELSE cycle[t]
DebugOf(t) == IF method[t] = None THEN NoDebug ELSE debug[t]

TddRow(t, c) == /\ Loadable(t)
                /\ method' = [method EXCEPT ![t] = Loaded(t)]
                /\ cycle' = [cycle EXCEPT ![t] = c]
                /\ debug' = [debug EXCEPT ![t] = DebugOf(t)]

DebugRow(t, d) == /\ Loadable(t)
                  /\ method' = [method EXCEPT ![t] = Loaded(t)]
                  /\ debug' = [debug EXCEPT ![t] = d]
                  /\ cycle' = [cycle EXCEPT ![t] = CycleOf(t)]

\* tdd-event: a row that no command backs.
TddEvent(t) ==
    /\ TddRow(t, Blocked)
    /\ UNCHANGED <<fileVars, run, planVars, passed, failed>>

\* debug-event: a root cause, an attempt or another note; a reproduction or a
\* verification that no command backs counts as a note.
DebugEvent(t, kind, ref) ==
    /\ kind \in {"root", "fix", "fixfail", "other"}
    /\ DebugRow(t, DebugStep(DebugOf(t), [kind |-> kind, ref |-> ref, at |-> content]))
    /\ UNCHANGED <<fileVars, run, planVars, passed, failed>>

\* tdd_run and debug_run, up to the comparison of the scope before and after
\* the command: one that changed it leaves no row.  Nobody else writes while
\* the command runs.
RunCommand(t, ledger, kind, command, zero, after) ==
    /\ run = None
    /\ kind \in (IF ledger = "tdd" THEN Phases ELSE {"repro", "verified", "fix"})
    /\ content' = after
    /\ IF after # content THEN run' = None
       ELSE \E o \in Outputs : run' = [todo |-> t, ledger |-> ledger, kind |-> kind,
                                      command |-> command, zero |-> zero, output |-> o]
    /\ passed' = IF zero /\ after = content THEN passed \cup {<<command, content>>} ELSE passed
    /\ failed' = IF zero THEN failed ELSE failed \cup {command}
    /\ UNCHANGED <<revision, method, cycle, debug, planVars>>

\* A row that does not show what its phase must show counts as a note.  What
\* a caller's --expect makes of a fix attempt is among DebugEvent's rows too:
\* neither needs a receipt.
RunKind(r) == CASE r.kind = "repro"    -> IF r.zero THEN "other" ELSE "repro"
                [] r.kind = "verified" -> IF r.zero THEN "verified" ELSE "other"
                [] r.kind = "fix"      -> IF r.zero THEN "fix" ELSE "fixfail"

\* The row, with the content of the scope when it is written.
RecordRun ==
    /\ run # None
    /\ run' = None
    /\ IF ~Loadable(run.todo) THEN UNCHANGED <<method, cycle, debug>>
       ELSE IF run.ledger = "tdd"
       THEN TddRow(run.todo, TddStep(CycleOf(run.todo), run.kind, run.command, run.zero, content))
       ELSE DebugRow(run.todo, DebugStep(DebugOf(run.todo),
                        [kind |-> RunKind(run), ref |-> run.output, at |-> content]))
    /\ UNCHANGED <<fileVars, planVars, passed, failed>>

----------------------------------------------------------------------------
(* The Plan *)

CreateEnvelope(t) ==
    /\ envelope' = envelope \cup {t}
    /\ UNCHANGED <<fileVars, method, cycle, debug, run, status, profile, window, freezing, frozen,
                   passed, failed>>

CompletionCheckTdd(t) ==  \* mutant: the debugging ledger is not asked
    /\ t \in envelope
    /\ Loadable(t)
    /\ TddPasses(Loaded(t).method, CycleOf(t), content)

CompletionCheck(t) ==
    /\ t \in envelope
    /\ Loadable(t)
    /\ TddPasses(Loaded(t).method, CycleOf(t), content)
    /\ DebugPasses(Loaded(t).method, DebugOf(t), content)

\* plan_state.py set, up to the write of the Plan; a check that fails may still have
\* written the method, which Classify without overrides does as well.
SetStatus(t, s) ==
    /\ s = "completed" => CompletionCheck(t)
    /\ status' = [status EXCEPT ![t] = s]
    /\ freezing' = (s = "completed" \/ freezing)
    /\ IF s = "completed"
       THEN /\ method' = [method EXCEPT ![t] = Loaded(t)]
            /\ cycle' = [cycle EXCEPT ![t] = CycleOf(t)]
            /\ debug' = [debug EXCEPT ![t] = DebugOf(t)]
       ELSE UNCHANGED <<method, cycle, debug>>
    /\ UNCHANGED <<fileVars, run, envelope, profile, window, frozen, passed, failed>>

\* freeze, on the id of the Plan, which may be that of the work item.
Freeze ==
    /\ freezing
    /\ freezing' = FALSE
    /\ window' = "FROZEN"
    /\ frozen' = TRUE
    /\ UNCHANGED <<fileVars, method, cycle, debug, run, envelope, status, profile, passed, failed>>

\* It raises, which is passed over, or the process dies, or the id is another one.
FreezeLost ==
    /\ freezing
    /\ freezing' = FALSE
    /\ UNCHANGED <<fileVars, method, cycle, debug, run, envelope, status, profile, window, frozen,
                   passed, failed>>

\* classification_state.py set: up at any time, down only before the freeze.
Rank(p) == IF p = None THEN 0 ELSE Ranks[p]
CanTransitionUnlessFrozen(p) ==  \* mutant: an escalated work may be corrected down
    Rank(p) >= Rank(profile) \/ window # "FROZEN"
CanTransition(p) == Rank(p) >= Rank(profile) \/ window = "PROVISIONAL"

ApplyProfile(p) ==
    /\ CanTransition(p)
    /\ profile' = p
    /\ window' = IF profile # None /\ p = "FULL" /\ profile # "FULL" THEN "ESCALATED" ELSE window
    /\ UNCHANGED <<fileVars, method, cycle, debug, run, envelope, status, freezing, frozen,
                   passed, failed>>

----------------------------------------------------------------------------
(* The writer *)

Edit(c) ==
    /\ run = None /\ c # content
    /\ content' = c
    /\ UNCHANGED <<revision, method, cycle, debug, run, planVars, passed, failed>>

RevisePlan(r) ==
    /\ r # revision
    /\ revision' = r
    /\ UNCHANGED <<content, method, cycle, debug, run, planVars, passed, failed>>

----------------------------------------------------------------------------
Init ==
    /\ content \in Contents /\ revision \in Revisions
    /\ method = [t \in Todos |-> None]
    /\ cycle = [t \in Todos |-> NewCycle] /\ debug = [t \in Todos |-> NoDebug]
    /\ run = None /\ envelope = {} /\ status = [t \in Todos |-> "pending"]
    /\ profile = None /\ window = "PROVISIONAL" /\ freezing = FALSE /\ frozen = FALSE
    /\ passed = {} /\ failed = {}

Next ==
    \/ \E t \in Todos, o \in Controls : Classify(t, o)
    \/ \E t \in Todos : Migrate(t) \/ TddEvent(t) \/ CreateEnvelope(t)
    \/ \E t \in Todos, k \in RowKinds, o \in Outputs : DebugEvent(t, k, o)
    \/ \E t \in Todos, l \in {"tdd", "debug"}, k \in Phases \cup {"repro", "verified", "fix"},
          c \in Commands, z \in BOOLEAN, x \in Contents : RunCommand(t, l, k, c, z, x)
    \/ \E c \in Contents : Edit(c)
    \/ RecordRun
    \/ \E t \in Todos, s \in Statuses : SetStatus(t, s)
    \/ Freeze \/ FreezeLost
    \/ \E p \in GovernanceProfiles : ApplyProfile(p)
    \/ \E r \in Revisions : RevisePlan(r)

Spec == Init /\ [][Next]_vars

----------------------------------------------------------------------------
(* Properties *)

\* Types; and no row counts for a todo without a stored method.
ExecTypeOK ==
    /\ content \in Contents /\ revision \in Revisions
    /\ method \in [Todos -> Stored \cup {None}]
    /\ cycle \in [Todos -> Cycles] /\ debug \in [Todos -> Debugs]
    /\ run \in Runs \cup {None}
    /\ envelope \subseteq Todos /\ status \in [Todos -> Statuses]
    /\ profile \in GovernanceProfiles \cup {None}
    /\ window \in {"PROVISIONAL", "FROZEN", "ESCALATED"}
    /\ freezing \in BOOLEAN /\ frozen \in BOOLEAN
    /\ passed \subseteq Commands \X Contents /\ failed \subseteq Commands
    /\ \A t \in Todos : method[t] = None => cycle[t] = NewCycle /\ debug[t] = NoDebug

Completes(t) == status[t] # "completed" /\ status'[t] = "completed"

\* A todo whose method needs test-driven development completes only when some
\* command that failed before has passed on exactly the content that is there
\* at that moment, whatever was edited, revised, classified anew or migrated
\* between the rows (tdd_run, tdd_check, completion_check).
CompletedWasTested ==
    [][\A t \in Todos : Completes(t) /\ TddNeeded(method'[t].method)
          => \E c \in failed : <<c, content>> \in passed]_vars

\* A todo that fixes a bug completes only after some command failed, as its
\* reproduction, and one has passed on the present content, and while fewer
\* than three attempts of the present epoch failed; no override of classify
\* takes that away (classify, debug_check).
CompletedBugWasDebugged ==
    [][\A t \in Todos : Completes(t) /\ Text[revision][t].bug
          => /\ failed # {} /\ \E c \in Commands : <<c, content>> \in passed
             /\ debug'[t].fails < FixLimit]_vars

\* Once the freeze of a completion has come through, the governance profile of the work
\* never goes down, whatever is escalated, frozen again, completed, reopened or revised
\* after it.  A completion alone does not hold the profile: it is in the Plan before the
\* freeze, which may be lost (set_status, freeze, can_transition).
CompletedKeepsProfile ==
    [][frozen => Rank(profile') >= Rank(profile)]_vars
=============================================================================
