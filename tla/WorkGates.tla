------------------------------ MODULE WorkGates ------------------------------
(***************************************************************************)
(* The gates of a work item: `ges gate merge' decides whether the head of  *)
(* a pull request may be merged, `ges gate execution' whether the declared *)
(* host may start to work.  A gate changes nothing.  It looks at the work  *)
(* file, the artifact files, the local tree, GitHub and the host one after *)
(* the other, and several times at some of them, while everything it looks *)
(* at goes on changing.                                                    *)
(*                                                                         *)
(* Looks at things that change independently of each other are one step,   *)
(* the policy of the gates is the default one, DEFAULT_POLICY, and a gate  *)
(* that refuses before it looks at anything else is no step.               *)
(***************************************************************************)
EXTENDS WorkRegistry

CONSTANTS
  Commit, \* heads of the local tree and of the pull request
  Hook    \* contents of the host's hook file that register RTK

VARIABLES
  tree, \* the local tree: its head, and whether tracked files are changed
  pr,   \* the pull request: its head, whether it is open, no draft and names the
        \* work item, the commits whose checks succeeded, the review decision
  gate, \* the gate that runs, what it has read and decided
  seen, \* history: the surroundings at every moment of the evaluation
  returned \* history: the local head has left the first look's commit and come back

vars == <<registryVars, tree, pr, host, gate, seen, returned>>

Unhooked == "unhooked"
ASSUME HookAssumption == Unhooked \notin Hook

Now == [work |-> work, file |-> file, tree |-> tree, pr |-> pr, host |-> host]

Surroundings ==
  [work : Work \cup {Nothing}, file : [Kind -> Digest \cup {Nothing}],
   tree : [head : Commit, dirty : BOOLEAN],
   pr   : [head : Commit, offered : BOOLEAN, green : SUBSET Commit, approved : BOOLEAN],
   host : [policy : {"none", "required", "prohibited"}, installed : BOOLEAN,
           ready : BOOLEAN, hooks : Hook \cup {Unhooked}]]

Verdict == {"none", "error", "FAIL", "BLOCKED", "MERGE_READY", "EXECUTION_READY"}

Gate ==
  [kind : {"merge", "execution"},
   pc : {"idle", "intake", "SPEC", "PLAN", "view", "evidence", "recheck", "recheckPr",
         "policy", "installed", "provider", "binding", "digest", "again"},
   reasons : SUBSET {"FAIL", "BLOCKED"}, \* what speaks against readiness
   local : Commit, sha : Commit,         \* the heads first seen
   rtk : BOOLEAN,                        \* RTK is effectively required
   art : [Kind -> Digest \cup {Nothing}],
   hooks : Hook \cup {Unhooked},
   result : Verdict]

TypeOK ==
  /\ RegistryTypeOK
  /\ Now \in Surroundings
  /\ gate \in Gate
  /\ seen \subseteq Surroundings
  /\ returned \in BOOLEAN

Ended(sha, result) ==
  [kind |-> "merge", pc |-> "idle", reasons |-> {}, local |-> sha, sha |-> sha,
   rtk |-> FALSE, art |-> Unbound, hooks |-> Unhooked, result |-> result]

\* A repository whose work item, pull request and host are all in order, or with no
\* work item yet: what follows may break it.
Init ==
  /\ \E d \in Digest :
       /\ file = [k \in Kind |-> d]
       /\ work \in {Nothing} \cup
            {[schema |-> s, status |-> "OPEN", risk |-> "LOW", art |-> file, rtk |-> FALSE] :
               s \in {"v1", "v2"}}
  /\ cmd = [p \in Command |-> Idle] /\ changes = 0
  /\ tree \in [head : Commit, dirty : {FALSE}]
  /\ pr \in [head : {tree.head}, offered : {TRUE}, green : {{}, {tree.head}}, approved : BOOLEAN]
  /\ host \in [policy : {"none", "required"}, installed : {TRUE}, ready : {TRUE}, hooks : Hook]
  /\ gate = Ended(tree.head, "none")
  /\ seen = {} /\ returned = FALSE

-----------------------------------------------------------------------------
(* What goes on meanwhile: people, CI, GitHub.                             *)

TreeChanges ==
  /\ Change
  /\ \/ \E c \in Commit : tree' = [tree EXCEPT !.head = c]
     \/ tree' = [tree EXCEPT !.dirty = ~@]
  /\ UNCHANGED <<work, file, cmd, pr, host>>

\* A push of anyone; whether it dismisses the review is a setting of the repository.
Push ==
  /\ \E c \in Commit \ {pr.head}, kept \in BOOLEAN :
       pr' = [pr EXCEPT !.head = c, !.approved = kept /\ @]

PullRequestChanges ==
  /\ Change
  /\ \/ Push
     \/ pr' = [pr EXCEPT !.offered = ~@]
     \/ pr' = [pr EXCEPT !.approved = ~@]
     \/ \E c \in Commit : pr' = [pr EXCEPT !.green = (@ \cup {c}) \ (@ \cap {c})]
  /\ UNCHANGED <<work, file, cmd, tree, host>>

\* Edits of the policy, `ges capability add|remove', (un)installing rtk, hooks.
HostChanges ==
  /\ Change
  /\ \/ \E p \in {"none", "required", "prohibited"} : host' = [host EXCEPT !.policy = p]
     \/ host' = [host EXCEPT !.installed = ~@]
     \/ host' = [host EXCEPT !.ready = ~@]
     \/ \E h \in Hook \cup {Unhooked} : host' = [host EXCEPT !.hooks = h]
  /\ UNCHANGED <<work, file, cmd, tree, pr>>

Meanwhile ==
  /\ \/ RegistryNext /\ UNCHANGED <<tree, pr>>
     \/ TreeChanges \/ PullRequestChanges \/ HostChanges
  /\ UNCHANGED gate

-----------------------------------------------------------------------------
(* Looking.                                                                *)

Against(bad, status) == IF bad THEN {status} ELSE {}

Ends(result) == gate' = Ended(gate.sha, result)

\* How a gate ends that has gone through: one BLOCKED reason outweighs every FAIL.
Decides(reasons, ready) ==
  Ends(IF reasons = {} THEN ready ELSE IF "BLOCKED" \in reasons THEN "BLOCKED" ELSE "FAIL")

Start(kind, pc, reasons, rtk) ==
  gate' = [Ended(tree.head, "none") EXCEPT !.kind = kind, !.pc = pc, !.reasons = reasons,
                                           !.rtk = rtk]

\* local_head, load_work, and the risk rule: no HIGH risk without approvals.
StartMerge ==
  /\ gate.pc = "idle" /\ work # Nothing
  /\ Start("merge", "intake", Against(work.risk = "HIGH", "BLOCKED"), FALSE)

\* A work item of schema v1 has no execution contract, and the gate ends here.
StartExecution ==
  /\ gate.pc = "idle" /\ work # Nothing /\ work.schema = "v2"
  /\ Start("execution", "intake", {}, work.rtk)

\* evaluate_intake: the work is loaded again, then the artifacts are hashed.
Intake ==
  /\ gate.pc = "intake"
  /\ gate' = [gate EXCEPT !.pc = "SPEC", !.art = work.art,
                          !.reasons = @ \cup Against(work.status # "OPEN", "FAIL")]

Stale(k) == gate.art[k] = Nothing \/ file[k] # gate.art[k]

CheckSpec ==
  /\ gate.pc = "SPEC"
  /\ gate' = [gate EXCEPT !.pc = "PLAN", !.reasons = @ \cup Against(Stale("SPEC"), "FAIL")]

CheckPlanOnly == \* mutant: the execution gate goes on whatever the intake says
  /\ gate.pc = "PLAN"
  /\ LET reasons == gate.reasons \cup Against(Stale("PLAN"), "FAIL")
     IN  gate' = [gate EXCEPT !.pc = IF gate.kind = "merge" THEN "view" ELSE "policy",
                              !.reasons = reasons]

\* The merge gate goes on whatever the intake says, the execution gate only if it passes.
CheckPlan ==
  /\ gate.pc = "PLAN"
  /\ LET reasons == gate.reasons \cup Against(Stale("PLAN"), "FAIL")
     IN  IF gate.kind = "merge"
           THEN gate' = [gate EXCEPT !.pc = "view", !.reasons = reasons]
           ELSE IF reasons = {}
             THEN gate' = [gate EXCEPT !.pc = "policy"]
             ELSE Ends("BLOCKED")

-----------------------------------------------------------------------------
(* evaluate_merge: three looks at the pull request, two at the local head. *)

\* The first: its head is the head the gate decides about.
View ==
  /\ gate.pc = "view"
  /\ gate' = [gate EXCEPT !.pc = "evidence", !.sha = pr.head,
                          !.reasons = @ \cup Against(tree.dirty \/ ~pr.offered
                                                       \/ gate.local # pr.head, "FAIL")]

NotProven == pr.head \notin pr.green \/ ~pr.approved

EvidenceOfAnyHead == \* mutant: the evidence is not compared with the first look
  /\ gate.pc = "evidence"
  /\ gate' = [gate EXCEPT !.pc = "recheck", !.reasons = @ \cup Against(NotProven, "FAIL")]

\* The second, collect_evidence: checks and review of the head it finds.
Evidence ==
  /\ gate.pc = "evidence"
  /\ gate' = [gate EXCEPT !.pc = "recheck",
                          !.reasons = @ \cup Against(pr.head # gate.sha \/ NotProven, "FAIL")]

RecheckNothing == \* mutant: the local head is not compared with the first look
  /\ gate.pc = "recheck"
  /\ gate' = [gate EXCEPT !.pc = "recheckPr"]

\* Another look at the local head, before the pull request is asked for.
RecheckLocal ==
  /\ gate.pc = "recheck"
  /\ gate' = [gate EXCEPT !.pc = "recheckPr",
                          !.reasons = @ \cup Against(tree.head # gate.local, "BLOCKED")]

\* The last look at the pull request: only the head is compared, and then decided.
RecheckPr ==
  /\ gate.pc = "recheckPr"
  /\ Decides(gate.reasons \cup Against(pr.head # gate.sha, "BLOCKED"), "MERGE_READY")

\* gh or the work file cannot be read.
ProviderFails == gate.pc \in {"view", "evidence", "recheck", "recheckPr"} /\ Ends("error")

-----------------------------------------------------------------------------
(* evaluate_execution: is the required capability there?                   *)

Policy ==
  /\ gate.pc = "policy"
  /\ LET rtk == gate.rtk \/ host.policy = "required"
     IN  IF ~rtk THEN Ends("EXECUTION_READY")
         ELSE IF host.policy = "prohibited" THEN Ends("FAIL")
         ELSE gate' = [gate EXCEPT !.pc = "installed", !.rtk = TRUE]

Installed ==
  /\ gate.pc = "installed"
  /\ IF host.installed THEN gate' = [gate EXCEPT !.pc = "provider"] ELSE Ends("BLOCKED")

Provider ==
  /\ gate.pc = "provider"
  /\ IF host.ready THEN gate' = [gate EXCEPT !.pc = "binding"] ELSE Ends("BLOCKED")

\* The binding counts as BOUND only if the provider is still READY.
Binding ==
  /\ gate.pc = "binding"
  /\ gate' = [gate EXCEPT !.pc = "digest",
                          !.reasons = Against(host.hooks = Unhooked \/ ~host.ready, "BLOCKED")]

\* The hook file is read once more for the digest that is the binding's identity.
Digests ==
  /\ gate.pc = "digest"
  /\ gate' = [gate EXCEPT !.pc = "again", !.hooks = host.hooks]

\* The binding is probed again, and only its identity is compared.
Again ==
  /\ gate.pc = "again"
  /\ Decides(gate.reasons \cup Against(host.hooks # gate.hooks, "BLOCKED"), "EXECUTION_READY")

GateStep ==
  /\ \/ StartMerge \/ StartExecution
     \/ Intake \/ CheckSpec \/ CheckPlan
     \/ View \/ Evidence \/ RecheckLocal \/ RecheckPr \/ ProviderFails
     \/ Policy \/ Installed \/ Provider \/ Binding \/ Digests \/ Again
  /\ UNCHANGED <<registryVars, tree, pr, host>>

\* The history begins with the evaluation and stops with its verdict, or as soon as
\* something speaks against readiness.
Forgets == gate'.reasons # {} \/ gate'.result \in {"error", "FAIL", "BLOCKED"}

ComesBack ==
  gate.kind = "merge" /\ tree.head # gate.local /\ tree'.head = gate.local

Remember ==
  IF gate.pc = "idle"
    THEN IF gate'.pc = "idle"
           THEN UNCHANGED <<seen, returned>>
           ELSE seen' = {Now'} /\ returned' = FALSE
    ELSE IF Forgets
           THEN seen' = {} /\ returned' = FALSE
           ELSE seen' = seen \cup {Now'} /\ returned' = (returned \/ ComesBack)

Next == (Meanwhile \/ GateStep) /\ Remember

Spec == Init /\ [][Next]_vars

-----------------------------------------------------------------------------
(* Properties.                                                             *)

\* One moment of the evaluation had the work open and bound to artifacts whose exact
\* bytes were in the tree at some moment of it.
IntakeWitnessed ==
  \E s \in seen :
    /\ s.work # Nothing /\ s.work.status = "OPEN"
    /\ \A k \in Kind : s.work.art[k] # Nothing /\ \E t \in seen : t.file[k] = s.work.art[k]

\* MERGE_READY is never put together from states that were not: each requirement held
\* while the gate ran, and checks and review held at one moment at which the approved
\* head was the head of the pull request, whatever was pushed, edited, reviewed or
\* written to the work file in between.
MergeReadyIsWitnessed ==
  gate.result = "MERGE_READY" =>
    /\ IntakeWitnessed
    /\ \E s \in seen : s.work # Nothing /\ s.work.risk # "HIGH"
    /\ \E s \in seen : s.tree.head = gate.sha
    /\ \E s \in seen : ~s.tree.dirty
    /\ \E s \in seen : s.pr.head = gate.sha /\ s.pr.offered
    /\ \E s \in seen : s.pr.head = gate.sha /\ gate.sha \in s.pr.green /\ s.pr.approved

\* MERGE_READY means that the commit it is given for was, at one moment of the evaluation,
\* the local head and the head of the pull request at once, with its checks green and its
\* review approved, although the gate looks at the one and the other at five different
\* moments while both go on moving: the two looks at the local head enclose the look at
\* the evidence. Unless the local head left the commit and came back in between, which
\* no look can tell.
ReadyHeadsMet ==
  gate.result = "MERGE_READY" =>
    \/ returned
    \/ \E s \in seen : /\ s.tree.head = gate.sha /\ s.pr.head = gate.sha
                      /\ gate.sha \in s.pr.green /\ s.pr.approved

\* EXECUTION_READY is never given for a work item that was not ready in a moment of the
\* evaluation; and unless there were moments at which neither the work nor the policy
\* asked for RTK, RTK was allowed, installed and READY, and its hooks registered.
ExecutionReadyIsWitnessed ==
  gate.result = "EXECUTION_READY" =>
    /\ IntakeWitnessed
    /\ \/ /\ \E s \in seen : s.work # Nothing /\ s.work.schema = "v2" /\ ~s.work.rtk
          /\ \E s \in seen : s.host.policy # "required"
       \/ /\ \E s \in seen : s.host.policy # "prohibited"
          /\ \E s \in seen : s.host.installed
          /\ \E s \in seen : s.host.ready
          /\ \E s \in seen : s.host.hooks \in Hook
=============================================================================
