-------------------------- MODULE ConsumerBootstrap --------------------------
(***************************************************************************)
(* The bootstrap of a consumer beside its frontend context: audit, gap,      *)
(* remediation plan, apply, validation (consumer-bootstrap/*.py).  Apply     *)
(* writes the templates that are missing and takes back what it wrote when   *)
(* a write fails; the plan it works from may be an old one.  People write    *)
(* and delete files at any time.  The installer's own layer is repaired by   *)
(* install_v500.py, which plan and people run, and which may refuse.         *)
(*                                                                           *)
(* Files that are treated alike are one: "scaffold" is any of Spec Kit *)
(* or any method skill, "bridge" any contract below .agents/ges (one of      *)
(* which is parsed).  The stubs below apps/_template, which nothing reads,    *)
(* are left out.  People leave alone what a run has just written.             *)
(***************************************************************************)
EXTENDS FrontendContext

VARIABLES
    local,    \* the consumer's files: absent, their own, from a template, torn
    product,  \* the installer's layer
    plan      \* consumer-remediation-plan.json: what it wants written

allVars == <<vars, local, product, plan>>

\* managed: the files that the audit counts and the installer copies are there;
\* runtime: those that only validate looks for; required: the skills that the
\* consumer must have; profile: profile.json and domain-packs/registry.json, as
\* installed, edited or torn; lock: missing (or unreadable), or there, with the
\* profile among the files it owns ("full") or without ("bare").
Installation == [managed |-> TRUE, runtime |-> TRUE, required |-> TRUE, profile |-> "kept", lock |-> "full"]

Own == {"own", "other"}
Local == {"scaffold", "bridge"}
Writables == Local \cup {"registry", "shared"}

BootInit ==
    /\ Init
    /\ \E content \in {"-", "own"} : local = [p \in Local |-> content]
    /\ product = Installation /\ plan = {}

Exists(p) ==
    CASE p = "registry" -> registry.file # "-"
      [] p = "shared" -> sharedUi # "-"
      [] OTHER -> local[p] # "-"
There == {p \in Writables : Exists(p)}

----------------------------------------------------------------------------
(* audit, analyze, generate *)

\* generate: what is missing; the shared registry only together with the registry.
Needed ==
    {p \in {"scaffold", "bridge", "registry"} : ~Exists(p)}
    \cup (IF Exists("registry") THEN {} ELSE {"shared"} \ There)

\* The frontend rows of validate: without a registry only OBSERVE passes; what it
\* names as initialized or stale has files that can be read.
FrontendHealthy ==
    CASE registry.file = "-" -> Mode = "OBSERVE"
      [] registry.file = "torn" -> FALSE
      [] OTHER -> \A a \in Known : registry.status[a] # "NOT_INITIALIZED" =>
                     /\ Readable(base[a].profile) /\ Readable(base[a].surfaces)
                     /\ base[a].ui # "-"

\* _audit_ges: the first layer passes.  Of the profile only the presence counts.
Audited == product.managed /\ product.required /\ product.profile # "-" /\ product.lock # "-"

\* validate: every row passes.  The handoff contract must be readable, of its
\* schema and enabled; of the other files only the presence counts.
Validated ==
    /\ Audited /\ product.runtime
    /\ local["scaffold"] # "-" /\ local["bridge"] \in {"own", "template"}
    /\ FrontendHealthy

WritePlan ==
    /\ runs < MaxRuns /\ runs' = runs + 1
    /\ run = Idle /\ plan # Needed /\ plan' = Needed
    /\ UNCHANGED <<present, frontend, run, history, edits, kills, local, product>>

----------------------------------------------------------------------------
(* apply_plan *)

\* The actions of a plan in the order generate lists them.
InOrder(what, set) ==
    LET Due(p) == IF p \in set THEN <<Op(what, p)>> ELSE <<>>
    IN  Due("scaffold") \o Due("bridge") \o Due("registry") \o Due("shared")

Boot(wanted) ==
    /\ run = Idle
    /\ run' = [Idle EXCEPT !.kind = "boot", !.todo = InOrder("put", wanted), !.before = There]
    /\ UNCHANGED <<present, frontend, history, bounds, local, product>>

\* Without --plan the plan is made anew, and kept; with it any plan that was written will do.
Bootstrap == Needed # {} /\ Boot(Needed) /\ plan' = Needed
BootstrapOldPlan ==
    /\ runs < MaxRuns /\ plan # {}
    /\ run = Idle
    /\ run' = [Idle EXCEPT !.kind = "boot", !.todo = InOrder("put", plan), !.before = There]
    /\ runs' = runs + 1
    /\ UNCHANGED <<present, frontend, history, edits, kills, local, product, plan>>

\* A file and its new content: of the registry the template names no application.
Holds(p, content) ==
    CASE p = "registry" ->
            /\ registry' = [NoRegistry EXCEPT !.file = IF content = "template" THEN "ok" ELSE content]
            /\ UNCHANGED <<sharedUi, local>>
      [] p = "shared" ->
            sharedUi' = (IF content = "template" THEN "ok" ELSE content) /\ UNCHANGED <<registry, local>>
      [] OTHER -> local' = [local EXCEPT ![p] = content] /\ UNCHANGED <<registry, sharedUi>>
AndNoOther == UNCHANGED <<present, adoption, marker, calibration, base, history, product, plan>>

\* copy_new_file and write_new_file, of what does not exist.
PutOver ==  \* mutant: what exists is written as well
    /\ Does("put")
    /\ Holds(Next1.arg, "template")
    /\ run' = [run EXCEPT !.todo = Tail(@), !.made = @ \cup {Next1.arg}]
    /\ AndNoOther /\ UNCHANGED bounds

Put ==
    /\ Does("put") /\ ~Exists(Next1.arg)
    /\ Holds(Next1.arg, "template")
    /\ run' = [run EXCEPT !.todo = Tail(@), !.made = @ \cup {Next1.arg}]
    /\ AndNoOther /\ UNCHANGED bounds

Skip ==
    /\ Does("put") /\ Exists(Next1.arg) /\ GoesOn(<<>>)
    /\ UNCHANGED <<present, frontend, history, bounds, local, product, plan>>

\* A write fails, with nothing or half of the file on disk.  The file is
\* recorded before it is written, so restore takes it back with the others.
PutFails(content) ==
    /\ Does("put") /\ ~Exists(Next1.arg) /\ kills < MaxKills /\ kills' = kills + 1
    /\ Holds(Next1.arg, content)
    /\ LET made == run.made \cup {Next1.arg}
       IN  run' = [run EXCEPT !.kind = "restore", !.made = made, !.todo = Reverse(InOrder("takeBack", made))]
    /\ AndNoOther /\ UNCHANGED <<edits, runs>>

TakeBack ==
    /\ Does("takeBack") /\ Holds(Next1.arg, "-") /\ GoesOn(<<>>)
    /\ AndNoOther /\ UNCHANGED bounds

BootEnds ==
    /\ run.kind \in {"boot", "restore"} /\ run.todo = <<>> /\ run' = Idle
    /\ UNCHANGED <<present, frontend, history, bounds, local, product, plan>>

TornCopy ==
    /\ Does("put") /\ ~Exists(Next1.arg) /\ Dies
    /\ Holds(Next1.arg, "torn") /\ UNCHANGED <<adoption, marker, calibration, base, product, plan>>

----------------------------------------------------------------------------
(* People and the installer *)

\* A person writes a file of their own (one that is no handoff, "other"), or deletes one.
PersonWrites(p, content) ==
    /\ edits < MaxEdits /\ edits' = edits + 1
    /\ content = "other" => p = "bridge"
    /\ p \notin run.made /\ local[p] # content /\ local' = [local EXCEPT ![p] = content]
    /\ run' = IF run = Idle THEN run
              ELSE [run EXCEPT !.before = IF content = "-" THEN @ \ {p} ELSE @ \cup {p}]
    /\ UNCHANGED <<present, frontend, history, kills, runs, product, plan>>

\* preflight and resolve_profile refuse; a profile that the old lock owns and
\* that is not what it was stops the reconciliation, and the run is rolled back.
Refuses(selected) ==
    \/ ~product.required
    \/ ~selected /\ product.profile = "torn"
    \/ ~selected /\ product.profile = "edited" /\ product.lock = "full"

\* install_v500.py, with or without --profile.  Without it a profile that is
\* there is not written, so it is not among the files of the new lock: if the old
\* lock owns it, it is deleted as stale.  One that is not there becomes the generic one.
Installed(selected) ==
    LET writes == selected \/ product.profile = "-"
    IN  [product EXCEPT
            !.managed = TRUE, !.runtime = TRUE,
            !.profile = IF writes THEN "kept" ELSE IF product.lock = "full" THEN "-" ELSE @,
            !.lock = IF writes THEN "full" ELSE "bare"]

\* What a kill leaves: the lock is exchanged last and whole, the profile is
\* written in place after the other files or deleted.
HalfInstalled ==
    LET copied == [product EXCEPT !.managed = TRUE, !.runtime = TRUE]
        profiles == IF product.profile = "-"
                    THEN {"torn", "kept"} \cup (IF product.lock = "full" THEN {"edited"} ELSE {})
                    ELSE IF product.lock = "full" THEN {"-"} ELSE {}
    IN  {copied} \cup {[copied EXCEPT !.profile = q] : q \in profiles}

ProductTurns(layer) ==
    /\ run = Idle /\ product' = layer /\ product' # product
    /\ UNCHANGED <<present, frontend, run, history, runs, local, plan>>

\* A person loses or edits a part of the layer, puts a required skill back, or runs the installer.
PersonTurns(layer) == edits < MaxEdits /\ edits' = edits + 1 /\ ProductTurns(layer) /\ UNCHANGED kills
ProductBreaks ==
    \/ PersonTurns([product EXCEPT !.managed = FALSE]) \/ PersonTurns([product EXCEPT !.runtime = FALSE])
    \/ \E are \in BOOLEAN : PersonTurns([product EXCEPT !.required = are])
    \/ \E content \in {"-", "edited"} : PersonTurns([product EXCEPT !.profile = content])
    \/ PersonTurns([product EXCEPT !.lock = "-"])
PersonInstalls(selected) == ~Refuses(selected) /\ PersonTurns(Installed(selected))

\* What the plan advises when the first layer has gaps: install.py, without --profile.
Reinstall ==
    /\ ~Audited /\ ~Refuses(FALSE)
    /\ ProductTurns(Installed(FALSE)) /\ UNCHANGED <<edits, kills>>

ReinstallKilled ==
    /\ ~Audited /\ ~Refuses(FALSE)
    /\ kills < MaxKills /\ kills' = kills + 1
    /\ \E layer \in HalfInstalled : ProductTurns(layer)
    /\ UNCHANGED edits

\* What the plan advises with the registry, and what validation asks for later.
FrontendAudit ==
    /\ run = Idle /\ Needed = {} /\ ~FrontendHealthy
    /\ ApplyRun(Mode, {}) /\ UNCHANGED runs
    /\ UNCHANGED <<local, product, plan>>

BootStep == Put \/ Skip \/ TakeBack \/ BootEnds
FrontendNext ==
    /\ Step \/ Killed \/ Torn \/ People \/ OptionalRuns
    /\ UNCHANGED <<local, product, plan>>

ProductNext ==
    \/ ProductBreaks \/ (\E selected \in BOOLEAN : PersonInstalls(selected))
    \/ Reinstall \/ ReinstallKilled

FilesNext ==
    \/ FrontendNext
    \/ WritePlan \/ Bootstrap \/ BootstrapOldPlan \/ BootStep \/ TornCopy
    \/ \E content \in {"-", "torn"} : PutFails(content)
    \/ \E p \in Local, content \in {"-"} \cup Own : PersonWrites(p, content)
    \/ FrontendAudit

BootNext == ProductNext \/ FilesNext

\* A process that is not killed goes on, and the operator follows the advice of plan and validation.
Fairness ==
    /\ WF_allVars(Step /\ UNCHANGED <<local, product, plan>>)
    /\ WF_allVars(BootStep)
    /\ WF_allVars(Bootstrap) /\ WF_allVars(Reinstall) /\ WF_allVars(FrontendAudit)

Spec == BootInit /\ [][BootNext]_allVars /\ Fairness

----------------------------------------------------------------------------
(* Properties *)

\* Only people change or remove what people wrote, and a run of the bootstrap
\* that fails leaves exactly the files that were there before it, or that people
\* added meanwhile.
BootstrapOnlyAdds ==
    [][/\ \A p \in Local : local[p] \in Own /\ local'[p] # local[p] => edits' # edits
       /\ run.kind = "restore" /\ run' = Idle /\ kills' = kills => There = run.before]_allVars

\* The advice can be followed: the contract is a handoff or will be written, the
\* installer's layer is whole, or the audit sees that it is not and the
\* installer that the plan names does not refuse.
Advisable ==
    /\ local["bridge"] \notin {"torn", "other"}
    /\ Audited => product.runtime
    /\ ~Audited => ~Refuses(FALSE)

\* However it was left by edits, failures and kills, a consumer that follows the
\* advice of plan and validation comes to pass the validation, if what people
\* leave is such that the advice can be followed (Advisable): a contract that is
\* torn or no handoff is never written again, files that only validate looks
\* for are never asked for, and the installer may refuse for ever.
Converges == <>[]Advisable => <>[]Validated
=============================================================================
