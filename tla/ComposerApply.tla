---------------------------- MODULE ComposerApply ----------------------------
(***************************************************************************)
(* How the Composer of ges/ changes a consumer repository: `ges init' and  *)
(* `ges apply' plan against the working tree, ask, and then write file by  *)
(* file, with a rollback to a snapshot; `ges remove' deletes what the      *)
(* install receipt names.  People edit the same tree, other commands write *)
(* under .ges, packages are upgraded between commands, a write may fail    *)
(* and a command may be killed, inside a write too: files are written in   *)
(* place, and what is cut off stays.                                       *)
(*                                                                         *)
(* An artifact is a projected file, or the managed section of AGENTS.md.   *)
(* The requested capabilities are fixed, so what the installed package     *)
(* wants in the tree is a function of its version.                         *)
(***************************************************************************)
EXTENDS Naturals

CONSTANTS
  Artifact,   \* what any version of the package projects
  Section,    \* those that are a section of a file with other text
  Rank,       \* place of an artifact in the order of the paths
  Version,    \* releases of the ges package, each with its pinned sources
  Desired,    \* version -> artifact -> generated content
  Absent,     \* an artifact or state file that is not there
  User,       \* content somebody has written
  Torn,       \* what a write that was cut off leaves
  MaxEdits,   \* bound: edits of artifacts by people
  MaxFaults   \* bound: writes that fail and commands that are killed

Generated == (UNION {{Desired[v][a] : a \in Artifact} : v \in Version}) \ {Absent}
Content == Generated \cup {Absent, User, Torn}

ASSUME SectionAssumption == Section \subseteq Artifact
ASSUME RankAssumption ==
  /\ Rank \in [Artifact -> Nat]
  /\ \A a, b \in Artifact : Rank[a] = Rank[b] => a = b
ASSUME DesiredAssumption ==
  /\ Desired \in [Version -> [Artifact -> Generated \cup {Absent}]]
  /\ Absent # User /\ \A v \in Version : Desired[v] # Absent
  /\ User \notin Generated
  /\ Torn \notin Generated \cup {Absent, User}
ASSUME BoundsAssumption == MaxEdits \in Nat /\ MaxFaults \in Nat

\* Files under .ges: project.yaml, repo-profile.json, the files `ges capability'
\* writes, and those of `ges governance' and `ges work'.  lock.json and
\* install-receipt.json are kept apart because their content matters.
GesFile == {"project", "profile", "overlay", "works"}
StateFile == {"project", "profile", "lock", "receipt"}

Tree ==
  [art : [Artifact -> Content],
   lock : Version \cup {Absent},                                  \* whose pins it records
   receipt : [Artifact -> Generated \cup {Absent}] \cup {Absent}, \* last applied, if named
   ges : SUBSET GesFile,
   cut : SUBSET StateFile]   \* there, but cut off: unreadable

\* One write or deletion of a command.
Step ==
  ({"write", "unlink"} \X Artifact)
    \cup ((StateFile \cup {"overlay"}) \X {Absent})

VARIABLES
  tree,    \* the working tree of the consumer repository
  ver,     \* the installed package
  cmd,     \* the running command, what it still has to do, how the last one ended
  t0,      \* the tree when the running apply took its snapshot
  edited,  \* artifacts people have changed since the running command planned
  broken,  \* an apply was killed, or its rollback failed
  edits, faults

vars == <<tree, ver, cmd, t0, edited, broken, edits, faults>>

TypeOK ==
  /\ tree \in Tree /\ t0 \in Tree
  /\ ver \in Version
  /\ cmd \in [pc : {"idle", "confirm", "commit", "remove"},
              todo : SUBSET Step,
              result : {"none", "noop", "ok", "blocked", "aborted", "failed",
                        "rollback_failed", "removed", "killed"}]
  /\ edited \subseteq Artifact
  /\ broken \in BOOLEAN
  /\ edits \in 0 .. MaxEdits /\ faults \in 0 .. MaxFaults

\* A repository no command has touched, with files of its own in the way perhaps.
Fresh ==
  {[art |-> f, lock |-> Absent, receipt |-> Absent, ges |-> {}, cut |-> {}] :
     f \in [Artifact -> {Absent, User}]}

NoSnapshot ==
  [art |-> [a \in Artifact |-> Absent], lock |-> Absent, receipt |-> Absent,
   ges |-> {}, cut |-> {}]

Init ==
  /\ tree \in Fresh /\ t0 = NoSnapshot
  /\ ver \in Version
  /\ cmd = [pc |-> "idle", todo |-> {}, result |-> "none"]
  /\ edited = {}
  /\ broken = FALSE
  /\ edits = 0 /\ faults = 0

-----------------------------------------------------------------------------
(* The plan: build_plan on the tree and what version v wants.              *)

Wanted(v) == {a \in Artifact : Desired[v][a] # Absent}

Named(t) == {a \in Artifact : t.receipt # Absent /\ t.receipt[a] # Absent}

\* A file the receipt names that is neither as it was applied nor deleted.
Drifted(t) == {a \in Named(t) : t.art[a] \notin {Absent, t.receipt[a]}}

Missing(t, v) == {a \in Wanted(v) : t.art[a] = Absent}

\* Identical content is adopted, or preserved, without a write.
Differing(t, v) == {a \in Wanted(v) \ Missing(t, v) : t.art[a] # Desired[v][a]}

Obsolete(t, v) == {a \in Named(t) \ Wanted(v) : t.art[a] # Absent}

ConflictsOfOwned(t, v) == \* mutant: UNMANAGED_PATH_CONFLICT is not raised
  (Differing(t, v) \cup Obsolete(t, v)) \cap Drifted(t)

\* UNMANAGED_PATH_CONFLICT and MANAGED_CONTENT_MODIFIED: either ends the command.
Conflicts(t, v) ==
  (Differing(t, v) \ Named(t)) \cup ((Differing(t, v) \cup Obsolete(t, v)) \cap Drifted(t))

Changing(t, v) == Missing(t, v) \cup Differing(t, v)

Noop(t, v) == Changing(t, v) \cup Obsolete(t, v) = {}

-----------------------------------------------------------------------------
(* What a command does: the set of its writes, and their order.            *)

StateSteps == StateFile \X {Absent}

Steps(t, v) ==
  ({"write"} \X Changing(t, v)) \cup StateSteps \cup ({"unlink"} \X Obsolete(t, v))

Removal(t) == ({"unlink"} \X Named(t)) \cup StateSteps \cup {<<"overlay", Absent>>}

ReceiptFirst == \* mutant: the receipt claims what is not yet written
  [receipt |-> 1, write |-> 2, project |-> 3, profile |-> 4, lock |-> 5, unlink |-> 6]

\* _commit_stage, then _apply_removes.
ApplyOrder ==
  [write |-> 1, project |-> 2, profile |-> 3, lock |-> 4, receipt |-> 5, unlink |-> 6]

StateFirst == \* mutant: .ges is emptied before the artifacts are deleted
  [profile |-> 1, project |-> 2, lock |-> 3, receipt |-> 4, overlay |-> 5, unlink |-> 6]

\* run_remove: the artifacts, then .ges in reverse order of the paths.
RemoveOrder ==
  [unlink |-> 1, profile |-> 2, project |-> 3, lock |-> 4, receipt |-> 5, overlay |-> 6]

Precedes(s, o, order) ==
  \/ order[s[1]] < order[o[1]]
  \/ s[1] = o[1] /\ s[1] \in {"write", "unlink"} /\ Rank[s[2]] < Rank[o[2]]

IsNext(s, todo, order) == \A o \in todo \ {s} : Precedes(s, o, order)

\* One write of an apply with version v, what is left when it is cut off, and one
\* deletion of a remove.
Written(t, v, step) ==
  CASE step[1] = "write"   -> [t EXCEPT !.art[step[2]] = Desired[v][step[2]]]
    [] step[1] = "unlink"  -> [t EXCEPT !.art[step[2]] = Absent]
    [] step[1] = "lock"    -> [t EXCEPT !.lock = v, !.cut = @ \ {"lock"}]
    [] step[1] = "receipt" -> [t EXCEPT !.receipt = Desired[v], !.cut = @ \ {"receipt"}]
    [] OTHER               -> [t EXCEPT !.ges = @ \cup {step[1]}, !.cut = @ \ {step[1]}]

\* A section may be gone with the text behind the cut.
CutOff(t, step) ==
  CASE step[1] \in {"write", "unlink"} ->
         {[t EXCEPT !.art[step[2]] = c] : c \in {Torn} \cup (IF step[2] \in Section THEN {Absent} ELSE {})}
    [] step[1] = "lock"    -> {[t EXCEPT !.lock = Absent, !.cut = @ \cup {"lock"}]}
    [] step[1] = "receipt" -> {[t EXCEPT !.receipt = Absent, !.cut = @ \cup {"receipt"}]}
    [] OTHER               -> {[t EXCEPT !.ges = @ \ {step[1]}, !.cut = @ \cup {step[1]}]}

Deleted(t, step) ==
  CASE step[1] = "unlink"  -> [t EXCEPT !.art[step[2]] = Absent]
    [] step[1] = "lock"    -> [t EXCEPT !.lock = Absent, !.cut = @ \ {"lock"}]
    [] step[1] = "receipt" -> [t EXCEPT !.receipt = Absent, !.cut = @ \ {"receipt"}]
    [] OTHER               -> [t EXCEPT !.ges = @ \ {step[1]}, !.cut = @ \ {step[1]}]

\* run_check.
CheckPasses(t, v) ==
  /\ t.receipt # Absent /\ t.lock = v /\ {"project", "profile"} \subseteq t.ges
  /\ t.cut = {}
  /\ \A a \in Named(t) : t.art[a] = t.receipt[a]
  /\ Conflicts(t, v) = {} /\ Noop(t, v)

-----------------------------------------------------------------------------
(* The rollback.                                                           *)

ScopeOfDesired(s, v) == Wanted(v) \* mutant: what the plan removes is not saved

\* snapshot_managed_scope, taken of the tree s: what is wanted and what the receipt
\* names, the removals of the plan among it.
Scope(s, v) == Wanted(v) \cup Named(s)

Restored(t, s, artifacts) ==
  [t EXCEPT !.art = [a \in Artifact |-> IF a \in artifacts THEN s.art[a] ELSE t.art[a]]]

\* The state files return to the snapshot; every other file under .ges that is not
\* governance data is deleted.
RestoredGes(t, s) ==
  [t EXCEPT !.lock = s.lock, !.receipt = s.receipt, !.cut = s.cut,
            !.ges = (s.ges \cap {"project", "profile"}) \cup (@ \cap {"works"})]

HasGes(t) == t.lock # Absent \/ t.receipt # Absent \/ t.ges # {} \/ t.cut # {}

RolledBack(t, s, v) == RestoredGes(Restored(t, s, Scope(s, v)), s)

\* "pre-existing .ges disappeared during rollback"
RollbackResult(t, s, v) ==
  IF HasGes(s) /\ ~HasGes(RolledBack(t, s, v)) THEN "rollback_failed" ELSE "failed"

-----------------------------------------------------------------------------
(* People, other commands, package upgrades.                               *)

Edit(a) ==
  /\ edits < MaxEdits
  /\ edits' = edits + 1
  /\ \E c \in {User, Absent} \ {tree.art[a]} : tree' = [tree EXCEPT !.art[a] = c]
  /\ edited' = IF cmd.pc = "idle" THEN {} ELSE edited \cup {a}
  /\ UNCHANGED <<ver, cmd, t0, broken, faults>>

\* A state file that nobody can read is removed.
Discard(file) ==
  /\ file \in tree.cut
  /\ tree' = [tree EXCEPT !.cut = @ \ {file}]
  /\ UNCHANGED <<ver, cmd, t0, edited, broken, edits, faults>>

\* ges capability add; ges governance init and ges work create.
OtherCommand(file) ==
  /\ file \notin tree.ges
  /\ tree' = [tree EXCEPT !.ges = @ \cup {file}]
  /\ UNCHANGED <<ver, cmd, t0, edited, broken, edits, faults>>

Upgrade(v) ==
  /\ cmd.pc = "idle"
  /\ v # ver
  /\ ver' = v
  /\ UNCHANGED <<tree, cmd, t0, edited, broken, edits, faults>>

-----------------------------------------------------------------------------
(* ges init; ges apply is the same without the question.                   *)

Ended(result) == [pc |-> "idle", todo |-> {}, result |-> result]

Ends(result) == cmd' = Ended(result) /\ edited' = {} /\ t0' = NoSnapshot

\* A lock or receipt that is cut off ends the command; of a project file it depends on
\* where the cut is.
Plan ==
  /\ cmd.pc = "idle"
  /\ edited' = {}
  /\ \/ /\ Conflicts(tree, ver) # {} \/ tree.cut \cap {"project", "lock", "receipt"} # {}
        /\ cmd' = Ended("blocked")
     \/ /\ Conflicts(tree, ver) = {} /\ tree.cut \cap {"lock", "receipt"} = {}
        /\ cmd' = [pc |-> "confirm", result |-> "none",
                   todo |-> IF Noop(tree, ver) THEN {} ELSE Steps(tree, ver)]
  /\ UNCHANGED <<tree, ver, t0, broken, edits, faults>>

Abort ==
  /\ cmd.pc = "confirm"
  /\ Ends("aborted")
  /\ UNCHANGED <<tree, ver, broken, edits, faults>>

\* GES_RECONCILE_NOOP; init refreshes the version fields of lock and receipt, never
\* the pins.
ConfirmNoop ==
  /\ cmd.pc = "confirm" /\ cmd.todo = {}
  /\ Ends("noop")
  /\ UNCHANGED <<tree, ver, broken, edits, faults>>

\* The plan is not made again after the question: it is applied to whatever the tree
\* has become.
Confirm ==
  /\ cmd.pc = "confirm" /\ cmd.todo # {}
  /\ cmd' = [cmd EXCEPT !.pc = "commit"]
  /\ t0' = tree
  /\ UNCHANGED <<tree, ver, edited, broken, edits, faults>>

Write ==
  /\ cmd.pc = "commit"
  /\ \E s \in cmd.todo :
       /\ IsNext(s, cmd.todo, ApplyOrder)
       /\ tree' = Written(tree, ver, s)
       /\ cmd' = [cmd EXCEPT !.todo = @ \ {s}]
  /\ UNCHANGED <<ver, t0, edited, broken, edits, faults>>

Rollback ==
  /\ tree' = RolledBack(tree, t0, ver)
  /\ Ends(RollbackResult(tree, t0, ver))

Check ==
  /\ cmd.pc = "commit" /\ cmd.todo = {}
  /\ IF CheckPasses(tree, ver) THEN Ends("ok") /\ UNCHANGED tree ELSE Rollback
  /\ UNCHANGED <<ver, broken, edits, faults>>

Fault == faults < MaxFaults /\ faults' = faults + 1

\* A write, a deletion or the check raises; what the write leaves is in the scope.
ApplyFails ==
  /\ cmd.pc = "commit"
  /\ Fault
  /\ Rollback
  /\ UNCHANGED <<ver, broken, edits>>

\* The rollback raises too: in the order of the paths some artifacts are restored, the
\* state files all or none, and the file it was at may be cut off.
RollbackFails ==
  /\ cmd.pc = "commit"
  /\ Fault
  /\ \E artifacts \in SUBSET Scope(t0, ver) :
       LET partly == Restored(tree, t0, artifacts)
           rest == {"write"} \X (Scope(t0, ver) \ artifacts)
       IN  /\ \A a \in artifacts, b \in Scope(t0, ver) \ artifacts : Rank[a] < Rank[b]
           /\ \/ tree' \in {partly, RestoredGes(partly, t0)}
              \/ \E s \in rest : IsNext(s, rest, ApplyOrder) /\ tree' \in CutOff(partly, s)
              \/ \E s \in StateSteps : tree' \in CutOff(partly, s)
  /\ Ends("rollback_failed")
  /\ broken' = TRUE
  /\ UNCHANGED <<ver, edits>>

\* Killed or interrupted, between two writes or inside one: KeyboardInterrupt is no
\* Exception, so nothing is rolled back.
ApplyKilled ==
  /\ cmd.pc = "commit"
  /\ Fault
  /\ \/ UNCHANGED tree
     \/ \E s \in cmd.todo :
          /\ IsNext(s, cmd.todo, ApplyOrder) /\ s[1] # "unlink"
          /\ tree' \in CutOff(tree, s)
  /\ Ends("killed")
  /\ broken' = TRUE
  /\ UNCHANGED <<ver, edits>>

-----------------------------------------------------------------------------
(* ges remove.  It has a preflight but no rollback.                        *)

StartRemove ==
  /\ cmd.pc = "idle"
  /\ edited' = {}
  /\ cmd' = IF Drifted(tree) # {} \/ "receipt" \in tree.cut THEN Ended("blocked")
            ELSE [pc |-> "remove", todo |-> Removal(tree), result |-> "none"]
  /\ UNCHANGED <<tree, ver, t0, broken, edits, faults>>

Delete ==
  /\ cmd.pc = "remove"
  /\ \E s \in cmd.todo :
       /\ IsNext(s, cmd.todo, RemoveOrder)
       /\ tree' = Deleted(tree, s)
       /\ cmd' = [cmd EXCEPT !.todo = @ \ {s}]
  /\ UNCHANGED <<ver, t0, edited, broken, edits, faults>>

Removed ==
  /\ cmd.pc = "remove" /\ cmd.todo = {}
  /\ Ends("removed")
  /\ UNCHANGED <<tree, ver, broken, edits, faults>>

\* A deletion raises, or the command is killed.  The file around a section is written
\* again without it, and may be cut off.
RemoveStops ==
  /\ cmd.pc = "remove"
  /\ Fault
  /\ \/ UNCHANGED tree
     \/ \E s \in cmd.todo :
          /\ IsNext(s, cmd.todo, RemoveOrder)
          /\ s[1] = "unlink" /\ s[2] \in Section /\ tree.art[s[2]] # Absent
          /\ tree' \in CutOff(tree, s)
  /\ Ends("killed")
  /\ UNCHANGED <<ver, broken, edits>>

Next ==
  \/ \E a \in Artifact : Edit(a)
  \/ \E file \in StateFile : Discard(file)
  \/ \E file \in {"overlay", "works"} : OtherCommand(file)
  \/ \E v \in Version : Upgrade(v)
  \/ Plan \/ Abort \/ ConfirmNoop \/ Confirm \/ Write \/ Check
  \/ ApplyFails \/ RollbackFails \/ ApplyKilled
  \/ StartRemove \/ Delete \/ Removed \/ RemoveStops

Spec == Init /\ [][Next]_vars

-----------------------------------------------------------------------------
(* Properties.                                                             *)

\* No command, however it ends, destroys what somebody wrote into an artifact's path
\* before the command planned, and none ever deletes governance data.
UserContentKept ==
  [][/\ \A a \in Artifact \ edited :
          tree.art[a] = User /\ tree'.art[a] # User => edits' > edits
     /\ "works" \in tree.ges => "works" \in tree'.ges]_vars

ApplyEnds(result) == cmd.pc = "commit" /\ cmd' = Ended(result)

\* After a caught failure every artifact nobody edited meanwhile, and every state
\* file, is what it was when the apply started.
RollbackRestores ==
  [][ApplyEnds("failed") =>
       /\ \A a \in Artifact \ edited : tree'.art[a] = t0.art[a]
       /\ tree'.lock = t0.lock /\ tree'.receipt = t0.receipt
       /\ \A f \in {"project", "profile"} : f \in tree'.ges <=> f \in t0.ges]_vars

Accounted(t) ==
  \A a \in Artifact : t.art[a] \in Generated => a \in Named(t) /\ t.receipt[a] = t.art[a]

\* Unless an apply was killed, every generated file in the tree is named in the
\* receipt with the content it has, whatever commands and people did before: remove
\* takes all of it, and no plan mistakes it for somebody's work.  An interrupted
\* remove keeps this at every step.
GeneratedIsAccounted == cmd.pc # "commit" /\ ~broken => Accounted(tree)

\* What somebody has to delete by hand before the next plan can be made.
Spoilt(t) == ({"unlink"} \X {a \in Artifact : t.art[a] = Torn}) \cup (t.cut \X {Absent})

\* An apply that is killed, between two writes or inside one, can be run again once the
\* one file it was writing is out of the way: what it leaves conflicts with the next
\* plan nowhere but where people edited, and no state file is unreadable that was not.
KilledApplyCanRerun ==
  [][ApplyEnds("killed") =>
       \E t \in {tree'} \cup {Deleted(tree', s) : s \in Spoilt(tree')} :
         Conflicts(t, ver') \subseteq edited /\ t.cut \subseteq t0.cut \ {"lock", "receipt"}]_vars
=============================================================================
