------------------------- MODULE ComposerApply_proofs -------------------------
(***************************************************************************)
(* Proofs about ComposerApply, for any set of artifacts, any releases of   *)
(* the package and any number of edits and faults, and about the guard of  *)
(* an apply (BusinessGuard), for any paths, directories, contents and      *)
(* bounds.                                                                 *)
(*                                                                         *)
(* The properties of ComposerApply speak of the moments at which commands  *)
(* end; the inductive invariant says what the commands know in between.  A *)
(* plan never aims at somebody's content (PlanIsSafe), and still describes *)
(* what is to be done while it is carried out (PlanIsCurrent).  During an  *)
(* apply the tree differs from the snapshot only where the rollback looks  *)
(* (SnapshotCovers), and what is no longer wanted is still on the list of  *)
(* deletions (ApplyAccounts).  An interrupted remove has the receipt until *)
(* the last named artifact is gone (RemoveAccounts).  What a rollback or a *)
(* write can cut off is nobody's (SnapshotIsOurs), and a command that is   *)
(* under way has read the lock and the receipt (StateIsReadable).          *)
(*                                                                         *)
(* A snapshot of the guard is made at several moments, so its inductive    *)
(* invariant says of each snapshot and path what was seen at one of them,  *)
(* and that the snapshot shows it.                                         *)
(***************************************************************************)
EXTENDS ComposerApply, BusinessGuard, TLAPS

\* In words: a write or deletion hits content of a person only where that person
\* wrote it after the plan.
PlanIsSafe ==
  cmd.pc # "idle" => \A a \in Artifact :
    <<"write", a>> \in cmd.todo \/ <<"unlink", a>> \in cmd.todo =>
      tree.art[a] # User \/ a \in edited

\* In words: while a plan is carried out, what differs from the release is still to
\* be written, and only edits can make the tree conflict with it.
PlanIsCurrent ==
  cmd.pc \in {"confirm", "commit"} =>
    /\ Conflicts(tree, ver) \subseteq edited
    /\ \A a \in Changing(tree, ver) : <<"write", a>> \in cmd.todo \/ a \in edited
    /\ \A a \in Artifact : <<"write", a>> \in cmd.todo => a \in Wanted(ver)

\* In words: a plan that waits for its confirmation deletes what the receipt names and
\* the release does not want, all of it that was generated, and writes a receipt.
PlanIsComplete ==
  cmd.pc = "confirm" =>
    /\ \A a \in Artifact : <<"unlink", a>> \in cmd.todo => a \in Named(tree) \ Wanted(ver)
    /\ cmd.todo # {} =>
         /\ <<"receipt", Absent>> \in cmd.todo
         /\ \A a \in Named(tree) \ Wanted(ver) :
              tree.art[a] \in Generated => <<"unlink", a>> \in cmd.todo

\* In words: outside the scope of the snapshot only people change artifacts, and they
\* add nothing generated; inside it, what a person did not touch was theirs before.
SnapshotCovers ==
  cmd.pc = "commit" =>
    /\ \A a \in Artifact \ edited : tree.art[a] = User => t0.art[a] = User
    /\ \A a \in Artifact \ (Scope(t0, ver) \cup edited) : tree.art[a] = t0.art[a]
    /\ \A a \in Artifact \ Scope(t0, ver) :
         tree.art[a] \in Generated => tree.art[a] = t0.art[a]

\* In words: during an apply the snapshot accounts for what was generated before, the
\* new receipt is written or still to be written, and so are the deletions.
ApplyAccounts ==
  cmd.pc = "commit" =>
    /\ ~broken => Accounted(t0)
    /\ <<"receipt", Absent>> \in cmd.todo \/ tree.receipt = Desired[ver]
    /\ \A a \in Artifact : <<"unlink", a>> \in cmd.todo => a \in Named(t0) \ Wanted(ver)
    /\ \A a \in Named(t0) \ Wanted(ver) :
         tree.art[a] \in Generated => <<"unlink", a>> \in cmd.todo

\* In words: a remove still has to delete every generated artifact the receipt names.
RemoveAccounts ==
  cmd.pc = "remove" =>
    \A a \in Named(tree) : tree.art[a] \in Generated => <<"unlink", a>> \in cmd.todo

\* In words: what the rollback of an apply would write over is nobody's work.
SnapshotIsOurs ==
  cmd.pc = "commit" => \A a \in Scope(t0, ver) \ edited : t0.art[a] # User

\* In words: a plan could read the lock and the receipt, and an apply cuts no state file
\* off while it is under way.
StateIsReadable ==
  cmd.pc \in {"confirm", "commit"} =>
    /\ <<"overlay", Absent>> \notin cmd.todo
    /\ tree.cut \cap {"lock", "receipt"} = {}
    /\ cmd.pc = "commit" => tree.cut \subseteq t0.cut

IInv ==
  /\ TypeOK
  /\ GeneratedIsAccounted
  /\ PlanIsSafe
  /\ PlanIsCurrent
  /\ PlanIsComplete
  /\ SnapshotCovers
  /\ ApplyAccounts
  /\ RemoveAccounts
  /\ SnapshotIsOurs
  /\ StateIsReadable

-----------------------------------------------------------------------------
(* Lemmas about the operators of the model.                                *)

\* What a release wants is generated content or nothing.
LEMMA DesiredIsGenerated ==
  ASSUME NEW v \in Version
  PROVE  /\ Desired[v] \in [Artifact -> Generated \cup {Absent}]
         /\ \A a \in Artifact : Desired[v][a] # User
         /\ \A a \in Wanted(v) : Desired[v][a] \in Generated
         /\ Wanted(v) \subseteq Artifact
         /\ Desired[v] # Absent
BY DesiredAssumption DEF Wanted

\* Nothing, somebody's content, generated content and what is cut off are told apart.
LEMMA ContentsDiffer ==
  /\ Absent # User /\ Absent \notin Generated /\ User \notin Generated
  /\ Torn # Absent /\ Torn # User /\ Torn \notin Generated
BY DesiredAssumption DEF Generated

\* A write changes the artifact it names and nothing else, and the receipt it writes is
\* that of the release.
LEMMA WrittenFacts ==
  ASSUME NEW t \in Tree, NEW v \in Version, NEW s \in Step
  PROVE  /\ Written(t, v, s) \in Tree
         /\ \A a \in Artifact :
              Written(t, v, s).art[a] = IF s = <<"write", a>> THEN Desired[v][a]
                                        ELSE IF s = <<"unlink", a>> THEN Absent
                                        ELSE t.art[a]
         /\ Written(t, v, s).receipt = IF s = <<"receipt", Absent>> THEN Desired[v]
                                       ELSE t.receipt
         /\ t.ges \subseteq Written(t, v, s).ges
         /\ Written(t, v, s).cut \subseteq t.cut
<1>1. PICK k, x : s = <<k, x>> /\ \/ k \in {"write", "unlink"} /\ x \in Artifact
                                  \/ k \in {"project", "profile", "lock", "receipt", "overlay"}
                                     /\ x = Absent
  BY DEF Step, StateFile
<1>2. Desired[v] \in [Artifact -> Generated \cup {Absent}]
  BY DesiredIsGenerated
<1>3. CASE k = "write"
  BY <1>1, <1>2, <1>3 DEF Written, Tree, Content
<1>4. CASE k = "unlink"
  BY <1>1, <1>4 DEF Written, Tree, Content
<1>5. CASE k = "lock"
  BY <1>1, <1>5 DEF Written, Tree
<1>6. CASE k = "receipt"
  BY <1>1, <1>2, <1>6 DEF Written, Tree
<1>7. CASE k \in {"project", "profile", "overlay"}
  BY <1>1, <1>7 DEF Written, Tree, GesFile
<1> QED
  BY <1>1, <1>3, <1>4, <1>5, <1>6, <1>7

\* A deletion likewise; and it never takes governance data.
LEMMA DeletedFacts ==
  ASSUME NEW t \in Tree, NEW s \in Step
  PROVE  /\ Deleted(t, s) \in Tree
         /\ \A a \in Artifact :
              Deleted(t, s).art[a] = IF s = <<"unlink", a>> THEN Absent ELSE t.art[a]
         /\ Deleted(t, s).receipt = IF s = <<"receipt", Absent>> THEN Absent ELSE t.receipt
         /\ "works" \in t.ges => "works" \in Deleted(t, s).ges
         /\ \A f \in StateFile : f \in Deleted(t, s).cut <=> f \in t.cut /\ s # <<f, Absent>>
<1>1. PICK k, x : s = <<k, x>> /\ \/ k \in {"write", "unlink"} /\ x \in Artifact
                                  \/ k \in {"project", "profile", "lock", "receipt", "overlay"}
                                     /\ x = Absent
  BY DEF Step, StateFile
<1>2. CASE k = "unlink"
  BY <1>1, <1>2 DEF Deleted, Tree, Content, StateFile
<1>3. CASE k = "lock"
  BY <1>1, <1>3 DEF Deleted, Tree
<1>4. CASE k = "receipt"
  BY <1>1, <1>4 DEF Deleted, Tree
<1>5. CASE k \in {"write", "project", "profile", "overlay"}
  BY <1>1, <1>5 DEF Deleted, Tree, StateFile
<1> QED
  BY <1>1, <1>2, <1>3, <1>4, <1>5

\* A write that is cut off spoils the file it names and nothing else: an artifact is torn
\* or gone, a state file unreadable.
LEMMA CutOffFacts ==
  ASSUME NEW t \in Tree, NEW s \in Step, NEW c \in CutOff(t, s), s # <<"overlay", Absent>>
  PROVE  /\ c \in Tree
         /\ \A a \in Artifact : IF s = <<"write", a>> \/ s = <<"unlink", a>>
                              THEN c.art[a] \in {Torn, Absent}
                              ELSE c.art[a] = t.art[a]
         /\ c.receipt = IF s = <<"receipt", Absent>> THEN Absent ELSE t.receipt
         /\ "works" \in t.ges => "works" \in c.ges
         /\ \A f \in StateFile : f \in c.cut <=> f \in t.cut \/ s = <<f, Absent>>
<1>1. PICK k, x : s = <<k, x>> /\ \/ k \in {"write", "unlink"} /\ x \in Artifact
                                  \/ k \in {"project", "profile", "lock", "receipt"} /\ x = Absent
  BY DEF Step, StateFile
<1>2. CASE k \in {"write", "unlink"}
  <2>1. PICK d \in {Torn, Absent} : c = [t EXCEPT !.art[x] = d]
    BY <1>1, <1>2 DEF CutOff
  <2>2. d \in Content /\ x \in Artifact
    BY <1>1, <1>2 DEF Content, StateFile
  <2> QED
    BY <1>1, <1>2, <2>1, <2>2 DEF Tree, StateFile
<1>3. CASE k = "lock"
  <2>1. c = [t EXCEPT !.lock = Absent, !.cut = @ \cup {"lock"}]
    BY <1>1, <1>3 DEF CutOff
  <2> QED
    BY <1>1, <1>3, <2>1 DEF Tree, StateFile
<1>4. CASE k = "receipt"
  <2>1. c = [t EXCEPT !.receipt = Absent, !.cut = @ \cup {"receipt"}]
    BY <1>1, <1>4 DEF CutOff
  <2> QED
    BY <1>1, <1>4, <2>1 DEF Tree, StateFile
<1>5. CASE k \in {"project", "profile"}
  <2>1. c = [t EXCEPT !.ges = @ \ {k}, !.cut = @ \cup {k}]
    BY <1>1, <1>5 DEF CutOff
  <2> QED
    BY <1>1, <1>5, <2>1 DEF Tree, StateFile
<1> QED
  BY <1>1, <1>2, <1>3, <1>4, <1>5

\* A restored tree has the artifacts of the snapshot in the restored set and its own
\* outside of it, with or without the state files of the snapshot.
LEMMA RestoredFacts ==
  ASSUME NEW t \in Tree, NEW s \in Tree, NEW artifacts
  PROVE  /\ Restored(t, s, artifacts) \in Tree
         /\ RestoredGes(Restored(t, s, artifacts), s) \in Tree
         /\ \A a \in Artifact :
              /\ Restored(t, s, artifacts).art[a]
                   = IF a \in artifacts THEN s.art[a] ELSE t.art[a]
              /\ RestoredGes(Restored(t, s, artifacts), s).art[a]
                   = IF a \in artifacts THEN s.art[a] ELSE t.art[a]
         /\ RestoredGes(Restored(t, s, artifacts), s).receipt = s.receipt
         /\ RestoredGes(Restored(t, s, artifacts), s).lock = s.lock
         /\ RestoredGes(Restored(t, s, artifacts), s).ges
              = (s.ges \cap {"project", "profile"}) \cup (t.ges \cap {"works"})
         /\ Restored(t, s, artifacts).ges = t.ges
         /\ Restored(t, s, artifacts).receipt = t.receipt
<1> DEFINE p == Restored(t, s, artifacts)
<1>1. /\ p \in Tree
      /\ p.ges = t.ges
      /\ p.receipt = t.receipt
      /\ \A a \in Artifact : p.art[a] = IF a \in artifacts THEN s.art[a] ELSE t.art[a]
  BY DEF Restored, Tree
<1> HIDE DEF p
<1>2. /\ RestoredGes(p, s) \in Tree
      /\ RestoredGes(p, s).art = p.art
      /\ RestoredGes(p, s).receipt = s.receipt
      /\ RestoredGes(p, s).lock = s.lock
      /\ RestoredGes(p, s).ges = (s.ges \cap {"project", "profile"}) \cup (p.ges \cap {"works"})
  BY <1>1 DEF RestoredGes, Tree, GesFile
<1> QED
  BY <1>1, <1>2 DEF p

\* What a release wants changed is what it wants and the tree does not have.
LEMMA ChangingFacts ==
  ASSUME NEW t \in Tree, NEW v \in Version
  PROVE  Changing(t, v) = {a \in Wanted(v) : t.art[a] # Desired[v][a]}
BY DEF Changing, Missing, Differing, Wanted

\* An artifact is in conflict if it is there, is not as the release wants it, and is not
\* as the receipt has it either.
LEMMA ConflictFacts ==
  ASSUME NEW t \in Tree, NEW v \in Version, NEW a \in Artifact
  PROVE  a \in Conflicts(t, v) <=>
           /\ t.art[a] # Absent
           /\ \/ a \in Wanted(v) /\ t.art[a] # Desired[v][a] /\ a \notin Named(t)
              \/ a \in Named(t) /\ t.art[a] # t.receipt[a]
                   /\ (a \in Wanted(v) => t.art[a] # Desired[v][a])
BY DEF Conflicts, Differing, Missing, Obsolete, Drifted, Wanted, Named

\* The steps of a plan are writes of what changes, the state files, and deletions of
\* what is obsolete.
LEMMA StepsFacts ==
  ASSUME NEW t \in Tree, NEW v \in Version
  PROVE  /\ Steps(t, v) \subseteq Step
         /\ <<"overlay", Absent>> \notin Steps(t, v)
         /\ <<"receipt", Absent>> \in Steps(t, v)
         /\ \A a : <<"write", a>> \in Steps(t, v) <=> a \in Changing(t, v)
         /\ \A a : <<"unlink", a>> \in Steps(t, v) <=> a \in Obsolete(t, v)
<1>1. Changing(t, v) \subseteq Artifact /\ Obsolete(t, v) \subseteq Artifact
  BY DEF Changing, Missing, Differing, Wanted, Obsolete, Named
<1>2. Steps(t, v) \subseteq Step
  BY <1>1 DEF Steps, StateSteps, Step
<1> QED
  BY <1>2 DEF Steps, StateSteps, StateFile

-----------------------------------------------------------------------------
(* The invariant holds initially and is preserved by every action.         *)

\* A repository no command has touched satisfies the invariant.
LEMMA InitEstablishes == Init => IInv
<1> SUFFICES ASSUME Init PROVE IInv
  OBVIOUS
<1> USE DEF Init
<1>1. NoSnapshot \in Tree
  BY DEF NoSnapshot, Tree, Content, GesFile
<1>2. tree \in Tree /\ \A a \in Artifact : tree.art[a] \notin Generated
  BY ContentsDiffer DEF Fresh, Tree, Content, GesFile
<1>3. TypeOK
  <2>1. edits \in 0 .. MaxEdits /\ faults \in 0 .. MaxFaults
    BY BoundsAssumption, SMT
  <2>2. edited \subseteq Artifact /\ broken \in BOOLEAN
    BY Zenon
  <2>3. cmd \in [pc : {"idle", "confirm", "commit", "remove"},
                todo : SUBSET Step,
                result : {"none", "noop", "ok", "blocked", "aborted", "failed",
                          "rollback_failed", "removed", "killed"}]
    OBVIOUS
  <2> QED
    BY <1>1, <1>2, <2>1, <2>2, <2>3 DEF TypeOK
<1>4. GeneratedIsAccounted
  BY <1>2 DEF GeneratedIsAccounted, Accounted
<1> QED
  BY <1>3, <1>4 DEF IInv, PlanIsSafe, PlanIsCurrent, PlanIsComplete, SnapshotCovers,
     ApplyAccounts, RemoveAccounts, SnapshotIsOurs, StateIsReadable

\* A command that ends leaves nothing to do: what is left to show is the types, and that
\* the tree accounts for what was generated.
LEMMA EndIsEasy ==
  ASSUME TypeOK, tree' \in Tree, ver' = ver, edits' = edits, faults' \in 0 .. MaxFaults,
         broken' \in BOOLEAN,
         NEW r \in {"noop", "ok", "blocked", "aborted", "failed", "rollback_failed",
                    "removed", "killed"},
         Ends(r), ~broken' => Accounted(tree')
  PROVE  IInv'
<1>1. NoSnapshot \in Tree
  BY DEF NoSnapshot, Tree, Content, GesFile
<1>2. /\ cmd' = [pc |-> "idle", todo |-> {}, result |-> r]
      /\ edited' = {} /\ t0' = NoSnapshot
  BY DEF Ends, Ended
<1>3. TypeOK'
  BY <1>1, <1>2 DEF TypeOK
<1>4. GeneratedIsAccounted'
  BY <1>2 DEF GeneratedIsAccounted, Accounted, Named
<1> QED
  BY <1>2, <1>3, <1>4 DEF IInv, PlanIsSafe, PlanIsCurrent, PlanIsComplete, SnapshotCovers,
     ApplyAccounts, RemoveAccounts, SnapshotIsOurs, StateIsReadable

\* People: an edit can only add to what is edited.
LEMMA EditStep ==
  ASSUME IInv, NEW b \in Artifact, Edit(b)
  PROVE  IInv'
<1> USE DEF IInv, Edit
<1>1. PICK c \in {User, Absent} \ {tree.art[b]} : tree' = [tree EXCEPT !.art[b] = c]
  OBVIOUS
<1>2. /\ tree' \in Tree
      /\ \A a \in Artifact : tree'.art[a] = IF a = b THEN c ELSE tree.art[a]
      /\ tree'.receipt = tree.receipt /\ tree'.cut = tree.cut
  BY <1>1 DEF TypeOK, Tree, Content
<1>3. edits' \in 0 .. MaxEdits
  BY BoundsAssumption DEF TypeOK
<1>4. TypeOK'
  BY <1>2, <1>3 DEF TypeOK
<1>5. c \notin Generated
  BY ContentsDiffer
<1>6. Named(tree') = Named(tree) /\ Named(tree') \subseteq Artifact
  BY <1>2 DEF Named
<1>7. cmd.pc # "idle" => edited' = edited \cup {b}
  OBVIOUS
<1>8. GeneratedIsAccounted'
  BY <1>2, <1>5, <1>6 DEF GeneratedIsAccounted, Accounted, Named
<1>9. PlanIsSafe'
  BY <1>2, <1>7 DEF PlanIsSafe
<1>10. PlanIsCurrent'
  BY <1>2, <1>6, <1>7 DEF PlanIsCurrent, Conflicts, Changing, Differing, Missing, Obsolete,
     Drifted, Wanted
<1>11. PlanIsComplete'
  BY <1>2, <1>5, <1>6 DEF PlanIsComplete, Wanted
<1>12. SnapshotCovers'
  BY <1>2, <1>5, <1>7 DEF SnapshotCovers, Scope, Wanted, Named
<1>13. ApplyAccounts'
  BY <1>2, <1>5 DEF ApplyAccounts, Accounted, Named, Wanted
<1>14. RemoveAccounts'
  BY <1>2, <1>5, <1>6 DEF RemoveAccounts
<1>15. SnapshotIsOurs' /\ StateIsReadable'
  BY <1>2, <1>7 DEF SnapshotIsOurs, StateIsReadable, Scope, Wanted, Named
<1> QED
  BY <1>4, <1>8, <1>9, <1>10, <1>11, <1>12, <1>13, <1>14, <1>15

\* A state file that is removed because nobody can read it is in no property.
LEMMA DiscardStep ==
  ASSUME IInv, NEW file \in StateFile, Discard(file)
  PROVE  IInv'
<1> USE DEF IInv, Discard
<1>1. /\ tree' \in Tree /\ tree'.art = tree.art
      /\ tree'.receipt = tree.receipt /\ tree'.cut \subseteq tree.cut
  BY DEF TypeOK, Tree
<1>2. TypeOK'
  BY <1>1 DEF TypeOK
<1>3. Named(tree') = Named(tree)
  BY <1>1 DEF Named
<1>4. Conflicts(tree', ver) = Conflicts(tree, ver) /\ Changing(tree', ver) = Changing(tree, ver)
  BY <1>1, <1>3 DEF Conflicts, Changing, Differing, Missing, Obsolete, Drifted
<1>5. GeneratedIsAccounted'
  BY <1>1, <1>3 DEF GeneratedIsAccounted, Accounted
<1>6. PlanIsSafe' /\ PlanIsCurrent' /\ PlanIsComplete'
  BY <1>1, <1>3, <1>4 DEF PlanIsSafe, PlanIsCurrent, PlanIsComplete
<1>7. SnapshotCovers' /\ ApplyAccounts' /\ RemoveAccounts' /\ SnapshotIsOurs'
  BY <1>1, <1>3 DEF SnapshotCovers, ApplyAccounts, RemoveAccounts, SnapshotIsOurs
<1>8. StateIsReadable'
  BY <1>1 DEF StateIsReadable
<1> QED
  BY <1>2, <1>5, <1>6, <1>7, <1>8

\* Other commands touch no artifact and no receipt.
LEMMA OtherCommandStep ==
  ASSUME IInv, NEW file \in {"overlay", "works"}, OtherCommand(file)
  PROVE  IInv'
<1> USE DEF IInv, OtherCommand
<1>1. /\ tree' \in Tree /\ tree'.art = tree.art
      /\ tree'.receipt = tree.receipt /\ tree'.cut = tree.cut
  BY DEF TypeOK, Tree, GesFile
<1>2. TypeOK'
  BY <1>1 DEF TypeOK
<1>3. Named(tree') = Named(tree)
  BY <1>1 DEF Named
<1>4. Conflicts(tree', ver) = Conflicts(tree, ver) /\ Changing(tree', ver) = Changing(tree, ver)
  BY <1>1, <1>3 DEF Conflicts, Changing, Differing, Missing, Obsolete, Drifted
<1>5. GeneratedIsAccounted'
  BY <1>1, <1>3 DEF GeneratedIsAccounted, Accounted
<1>6. PlanIsSafe' /\ PlanIsCurrent' /\ PlanIsComplete'
  BY <1>1, <1>3, <1>4 DEF PlanIsSafe, PlanIsCurrent, PlanIsComplete
<1>7. SnapshotCovers' /\ ApplyAccounts' /\ RemoveAccounts'
  BY <1>1, <1>3 DEF SnapshotCovers, ApplyAccounts, RemoveAccounts
<1>8. SnapshotIsOurs' /\ StateIsReadable'
  BY <1>1 DEF SnapshotIsOurs, StateIsReadable
<1> QED
  BY <1>2, <1>5, <1>6, <1>7, <1>8

\* A package is upgraded while no command runs.
LEMMA UpgradeStep ==
  ASSUME IInv, NEW v \in Version, Upgrade(v)
  PROVE  IInv'
<1> USE DEF IInv, Upgrade
<1>1. TypeOK' /\ GeneratedIsAccounted'
  BY DEF TypeOK, GeneratedIsAccounted, Accounted, Named
<1> QED
  BY <1>1 DEF PlanIsSafe, PlanIsCurrent, PlanIsComplete, SnapshotCovers, ApplyAccounts,
     RemoveAccounts, SnapshotIsOurs, StateIsReadable

\* A plan that is not blocked has no conflict, so it aims at nothing a person wrote.
LEMMA PlanStep ==
  ASSUME IInv, Plan
  PROVE  IInv'
<1> USE DEF IInv, Plan
<1>0. tree \in Tree /\ ver \in Version /\ UNCHANGED <<tree, ver>>
  BY DEF TypeOK
<1>1. GeneratedIsAccounted'
  BY DEF GeneratedIsAccounted, Accounted, Named
<1>2. CASE cmd' = Ended("blocked")
  <2>1. cmd' = [pc |-> "idle", todo |-> {}, result |-> "blocked"]
    BY <1>2 DEF Ended
  <2>2. TypeOK'
    BY <2>1 DEF TypeOK
  <2> QED
    BY <1>1, <2>1, <2>2 DEF PlanIsSafe, PlanIsCurrent, PlanIsComplete, SnapshotCovers,
       ApplyAccounts, RemoveAccounts, SnapshotIsOurs, StateIsReadable
<1>3. CASE /\ Conflicts(tree, ver) = {} /\ tree.cut \cap {"lock", "receipt"} = {}
           /\ cmd' = [pc |-> "confirm", result |-> "none",
                      todo |-> IF Noop(tree, ver) THEN {} ELSE Steps(tree, ver)]
  <2> DEFINE steps == IF Noop(tree, ver) THEN {} ELSE Steps(tree, ver)
  <2>1. cmd' = [pc |-> "confirm", todo |-> steps, result |-> "none"] /\ edited' = {}
    BY <1>3
  <2>2. steps \subseteq Step
    BY <1>0, StepsFacts
  <2>3. /\ steps # {} => <<"receipt", Absent>> \in steps
        /\ <<"overlay", Absent>> \notin steps
        /\ \A a : <<"write", a>> \in steps <=> a \in Changing(tree, ver)
        /\ \A a : <<"unlink", a>> \in steps <=> a \in Obsolete(tree, ver)
    BY <1>0, StepsFacts DEF Noop
  <2> HIDE DEF steps
  <2>4. TypeOK'
    BY <2>1, <2>2 DEF TypeOK
  <2>5. PlanIsSafe'
    <3> SUFFICES ASSUME NEW a \in Artifact, a \in Changing(tree, ver) \cup Obsolete(tree, ver)
                 PROVE  tree.art[a] # User
      BY <1>0, <2>1, <2>3 DEF PlanIsSafe
    <3>1. a \notin Conflicts(tree, ver)
      BY <1>3
    <3>2. a \in Named(tree) => tree.receipt[a] # User
      BY <1>0, ContentsDiffer DEF Tree, Named
    <3> QED
      BY <1>0, <3>1, <3>2, ConflictFacts, ChangingFacts, ContentsDiffer DEF Obsolete
  <2>6. PlanIsCurrent'
    BY <1>0, <1>3, <2>1, <2>3, ChangingFacts DEF PlanIsCurrent
  <2>7. PlanIsComplete'
    BY <1>0, <2>1, <2>3, ContentsDiffer DEF PlanIsComplete, Obsolete
  <2> QED
    BY <1>0, <1>1, <1>3, <2>1, <2>3, <2>4, <2>5, <2>6, <2>7 DEF SnapshotCovers, ApplyAccounts,
       RemoveAccounts, SnapshotIsOurs, StateIsReadable
<1> QED
  BY <1>2, <1>3

\* The question answered: the snapshot is the tree the plan is applied to.
LEMMA ConfirmStep ==
  ASSUME IInv, Confirm
  PROVE  IInv'
<1> USE DEF IInv, Confirm
<1>1. /\ cmd'.pc = "commit" /\ cmd'.todo = cmd.todo /\ cmd.todo # {}
      /\ t0' = tree /\ tree' = tree /\ ver' = ver /\ edited' = edited
  BY DEF TypeOK
<1>2. TypeOK'
  BY DEF TypeOK
<1>3. GeneratedIsAccounted' /\ RemoveAccounts' /\ PlanIsComplete'
  BY <1>1 DEF GeneratedIsAccounted, RemoveAccounts, PlanIsComplete
<1>4. PlanIsSafe' /\ PlanIsCurrent'
  BY <1>1 DEF PlanIsSafe, PlanIsCurrent
<1>5. SnapshotCovers'
  BY <1>1 DEF SnapshotCovers
<1>6. ApplyAccounts'
  BY <1>1 DEF ApplyAccounts, PlanIsComplete, GeneratedIsAccounted
<1>7. SnapshotIsOurs'
  <2>1. tree \in Tree /\ ver \in Version /\ Conflicts(tree, ver) \subseteq edited
    BY DEF TypeOK, PlanIsCurrent
  <2>2. ASSUME NEW a \in Scope(tree, ver) \ edited, tree.art[a] = User
        PROVE  FALSE
    <3>1. a \in Artifact /\ a \notin Conflicts(tree, ver)
      BY <2>1, <2>2, DesiredIsGenerated DEF Scope, Named
    <3>2. /\ a \in Named(tree) => tree.receipt[a] # User
          /\ a \in Wanted(ver) => Desired[ver][a] # User
      BY <2>1, <3>1, ContentsDiffer, DesiredIsGenerated DEF Tree, Named
    <3> QED
      BY <2>1, <2>2, <3>1, <3>2, ConflictFacts, ContentsDiffer DEF Scope
  <2> QED
    BY <1>1, <2>2 DEF SnapshotIsOurs
<1>8. StateIsReadable'
  BY <1>1 DEF StateIsReadable
<1> QED
  BY <1>2, <1>3, <1>4, <1>5, <1>6, <1>7, <1>8

\* A write carries out one step of the plan.  The receipt comes after every write, so it
\* turns nothing that is still to be written into a conflict.
LEMMA WriteStep ==
  ASSUME IInv, Write
  PROVE  IInv'
<1> USE DEF IInv
<1>1. PICK s \in cmd.todo : /\ IsNext(s, cmd.todo, ApplyOrder)
                            /\ tree' = Written(tree, ver, s)
                            /\ cmd' = [cmd EXCEPT !.todo = @ \ {s}]
  BY DEF Write
<1>2. /\ s \in Step /\ tree \in Tree /\ t0 \in Tree /\ ver \in Version
      /\ cmd.pc = "commit" /\ cmd'.pc = "commit" /\ cmd'.todo = cmd.todo \ {s}
      /\ UNCHANGED <<ver, t0, edited, broken, edits, faults>>
  BY <1>1 DEF Write, TypeOK
<1>3. /\ tree' \in Tree
      /\ \A a \in Artifact : tree'.art[a] = IF s = <<"write", a>> THEN Desired[ver][a]
                                            ELSE IF s = <<"unlink", a>> THEN Absent
                                            ELSE tree.art[a]
      /\ tree'.receipt = IF s = <<"receipt", Absent>> THEN Desired[ver] ELSE tree.receipt
      /\ tree'.cut \subseteq tree.cut
  BY <1>1, <1>2, WrittenFacts
<1>4. /\ \A a \in Artifact : <<"write", a>> \in cmd.todo => a \in Wanted(ver)
      /\ \A a \in Artifact : <<"unlink", a>> \in cmd.todo => a \in Named(t0) \ Wanted(ver)
      /\ \A a \in Changing(tree, ver) : <<"write", a>> \in cmd.todo \/ a \in edited
      /\ Conflicts(tree, ver) \subseteq edited
  BY <1>2 DEF PlanIsCurrent, ApplyAccounts
<1>5. /\ Desired[ver] \in [Artifact -> Generated \cup {Absent}] /\ Desired[ver] # Absent
      /\ Wanted(ver) \subseteq Artifact /\ \A a \in Artifact : Desired[ver][a] # User
  BY <1>2, DesiredIsGenerated
<1>6. TypeOK'
  <2>1. cmd' \in [pc : {"idle", "confirm", "commit", "remove"}, todo : SUBSET Step,
                  result : {"none", "noop", "ok", "blocked", "aborted", "failed",
                            "rollback_failed", "removed", "killed"}]
    BY <1>1 DEF TypeOK
  <2> QED
    BY <1>2, <1>3, <2>1 DEF TypeOK
<1>7. PlanIsSafe'
  BY <1>2, <1>3, <1>5, ContentsDiffer DEF PlanIsSafe
<1>8. PlanIsCurrent'
  <2>1. \A a \in Changing(tree', ver) : <<"write", a>> \in cmd'.todo \/ a \in edited
    <3> SUFFICES ASSUME NEW a \in Changing(tree', ver), a \notin edited
                 PROVE  <<"write", a>> \in cmd'.todo
      OBVIOUS
    <3>1. a \in Wanted(ver) /\ a \in Artifact /\ tree'.art[a] # Desired[ver][a]
      BY <1>2, <1>3, <1>5, ChangingFacts
    <3>2. s # <<"write", a>> /\ s # <<"unlink", a>>
      BY <1>3, <1>4, <3>1
    <3>3. tree.art[a] = tree'.art[a]
      BY <1>3, <3>1, <3>2
    <3>4. a \in Changing(tree, ver)
      BY <1>2, <3>1, <3>3, ChangingFacts
    <3> QED
      BY <1>2, <1>4, <3>2, <3>4
  <2>2. ASSUME NEW a \in Artifact \ edited, a \in Conflicts(tree', ver)
        PROVE  FALSE
    <3>1. a \notin Conflicts(tree, ver)
      BY <1>4, <2>2
    <3>2. CASE s = <<"receipt", Absent>>
      <4>1. Named(tree') = Wanted(ver)
        BY <1>3, <1>5, <3>2, ContentsDiffer DEF Named, Wanted
      <4>2. a \in Wanted(ver) /\ tree.art[a] # Desired[ver][a]
        BY <1>2, <1>3, <2>2, <3>2, <4>1, ConflictFacts
      <4>3. <<"write", a>> \in cmd.todo
        BY <1>2, <1>4, <2>2, <4>2, ChangingFacts
      <4> QED
        BY <1>1, <3>2, <4>3 DEF IsNext, Precedes, ApplyOrder
    <3>3. CASE s # <<"receipt", Absent>>
      <4>1. Named(tree') = Named(tree) /\ tree'.receipt = tree.receipt
        BY <1>3, <3>3 DEF Named
      <4>2. tree'.art[a] # Absent
              /\ (a \in Wanted(ver) => tree'.art[a] # Desired[ver][a])
        BY <1>2, <1>3, <2>2, ConflictFacts
      <4>3. s # <<"write", a>> /\ s # <<"unlink", a>>
        BY <1>2, <1>3, <1>4, <4>2
      <4> QED
        BY <1>2, <1>3, <2>2, <3>1, <4>1, <4>3, ConflictFacts
    <3> QED
      BY <3>2, <3>3
  <2>3. Conflicts(tree', ver) \subseteq edited
    <3>1. Conflicts(tree', ver) \subseteq Artifact
      BY <1>5 DEF Conflicts, Differing, Obsolete, Missing, Named
    <3> QED
      BY <2>2, <3>1
  <2> QED
    BY <1>2, <1>4, <2>1, <2>3 DEF PlanIsCurrent
<1>9. SnapshotCovers'
  <2>1. \A a \in Artifact \ Scope(t0, ver) : tree'.art[a] = tree.art[a]
    BY <1>2, <1>3, <1>4 DEF Scope
  <2>2. \A a \in Artifact : tree'.art[a] = User => tree.art[a] = User
    BY <1>3, <1>5, ContentsDiffer
  <2> QED
    BY <1>2, <2>1, <2>2 DEF SnapshotCovers
<1>10. ApplyAccounts'
  <2>1. \A a \in Named(t0) \ Wanted(ver) :
          tree'.art[a] \in Generated => <<"unlink", a>> \in cmd'.todo
    BY <1>2, <1>3, <1>4, ContentsDiffer DEF ApplyAccounts, Named
  <2> QED
    BY <1>2, <1>3, <1>4, <2>1 DEF ApplyAccounts
<1>11. SnapshotIsOurs'
  BY <1>2 DEF SnapshotIsOurs
<1>12. StateIsReadable'
  BY <1>2, <1>3 DEF StateIsReadable
<1> QED
  BY <1>2, <1>6, <1>7, <1>8, <1>9, <1>10, <1>11, <1>12 DEF GeneratedIsAccounted, PlanIsComplete,
     RemoveAccounts

\* Every rollback accounts for what was generated: inside the scope the snapshot does,
\* and outside of it nothing was generated since.
LEMMA RollbackStep ==
  ASSUME IInv, cmd.pc = "commit", Rollback, UNCHANGED <<ver, broken, edits>>,
         faults' \in 0 .. MaxFaults
  PROVE  IInv'
<1> USE DEF IInv
<1>1. tree \in Tree /\ t0 \in Tree /\ broken \in BOOLEAN
  BY DEF TypeOK
<1>2. /\ tree' \in Tree /\ tree'.receipt = t0.receipt
      /\ \A a \in Artifact :
           tree'.art[a] = IF a \in Scope(t0, ver) THEN t0.art[a] ELSE tree.art[a]
  BY <1>1, RestoredFacts DEF Rollback, RolledBack
<1>3. ~broken => Accounted(tree')
  BY <1>2 DEF SnapshotCovers, ApplyAccounts, Accounted, Named
<1>4. \/ Ends("failed")
      \/ Ends("rollback_failed")
  BY DEF Rollback, RollbackResult
<1> QED
  BY <1>1, <1>2, <1>3, <1>4, EndIsEasy

\* An apply that passes its check has written all that is wanted and deleted the rest.
LEMMA CheckStep ==
  ASSUME IInv, Check
  PROVE  IInv'
<1> USE DEF IInv, Check
<1>1. CASE CheckPasses(tree, ver)
  <2>1. Ends("ok") /\ UNCHANGED <<tree, ver, broken, edits, faults>>
    BY <1>1
  <2>2. /\ tree \in Tree /\ ver \in Version /\ broken \in BOOLEAN
        /\ faults \in 0 .. MaxFaults
    BY DEF TypeOK
  <2>3. tree.receipt = Desired[ver]
    BY DEF ApplyAccounts
  <2>4. \A a \in Wanted(ver) : tree.art[a] = Desired[ver][a]
    BY <1>1, <2>2, ChangingFacts DEF CheckPasses, Noop
  <2>5. \A a \in Named(t0) \ Wanted(ver) : tree.art[a] \notin Generated
    BY DEF ApplyAccounts
  <2>6. ASSUME ~broken, NEW a \in Artifact, tree.art[a] \in Generated
        PROVE  a \in Named(tree) /\ tree.receipt[a] = tree.art[a]
    <3>1. a \in Wanted(ver)
      BY <2>5, <2>6 DEF SnapshotCovers, Scope, ApplyAccounts, Accounted
    <3>2. /\ tree.receipt[a] = Desired[ver][a] /\ tree.art[a] = Desired[ver][a]
          /\ Desired[ver][a] # Absent /\ tree.receipt # Absent
      BY <2>2, <2>3, <2>4, <3>1, DesiredIsGenerated DEF Wanted
    <3> QED
      BY <3>2 DEF Named
  <2>7. ~broken => Accounted(tree)
    BY <2>6 DEF Accounted
  <2>8. ~broken' => Accounted(tree')
    BY <2>1, <2>7 DEF Accounted, Named
  <2> QED
    BY <2>1, <2>2, <2>8, EndIsEasy
<1>2. CASE ~CheckPasses(tree, ver)
  BY <1>2, RollbackStep DEF TypeOK
<1> QED
  BY <1>1, <1>2

\* A rollback that fails has put back some artifacts, and the one it was at may be spoilt.
LEMMA RollbackOutcome ==
  ASSUME tree \in Tree, t0 \in Tree, RollbackFails
  PROVE  /\ tree' \in Tree
         /\ \A a \in Artifact : \/ tree'.art[a] \in {tree.art[a], t0.art[a]}
                              \/ a \in Scope(t0, ver)
         /\ \A a \in Artifact : tree'.art[a] \in {tree.art[a], t0.art[a], Torn, Absent}
         /\ "works" \in tree.ges => "works" \in tree'.ges
<1>1. PICK artifacts \in SUBSET Scope(t0, ver) :
        \/ tree' = Restored(tree, t0, artifacts)
        \/ tree' = RestoredGes(Restored(tree, t0, artifacts), t0)
        \/ \E s \in ({"write"} \X (Scope(t0, ver) \ artifacts)) \cup StateSteps :
             tree' \in CutOff(Restored(tree, t0, artifacts), s)
  BY DEF RollbackFails
<1> DEFINE p == Restored(tree, t0, artifacts)
<1>2. /\ p \in Tree /\ p.ges = tree.ges
      /\ \A a \in Artifact : p.art[a] \in {tree.art[a], t0.art[a]}
  BY RestoredFacts
<1>3. CASE tree' = p
  BY <1>2, <1>3
<1>4. CASE tree' = RestoredGes(p, t0)
  BY <1>4, RestoredFacts
<1>5. ASSUME NEW s \in ({"write"} \X (Scope(t0, ver) \ artifacts)) \cup StateSteps,
             tree' \in CutOff(p, s)
      PROVE  /\ tree' \in Tree
             /\ \A a \in Artifact : tree'.art[a] # p.art[a] =>
                  a \in Scope(t0, ver) /\ tree'.art[a] \in {Torn, Absent}
             /\ "works" \in p.ges => "works" \in tree'.ges
  <2>1. Scope(t0, ver) \subseteq Artifact
    BY DEF Scope, Wanted, Named
  <2>2. s \in Step /\ s # <<"overlay", Absent>> /\ \A a : s = <<"write", a>> => a \in Scope(t0, ver)
    BY <2>1 DEF Step, StateSteps, StateFile
  <2>3. \A a : s # <<"unlink", a>>
    BY DEF StateSteps, StateFile
  <2> HIDE DEF p
  <2> QED
    BY <1>2, <1>5, <2>2, <2>3, CutOffFacts
<1> HIDE DEF p
<1> QED
  BY <1>1, <1>2, <1>3, <1>4, <1>5 DEF p

\* An apply that is killed leaves the tree as it is, or spoils the file it was writing.
LEMMA KilledOutcome ==
  ASSUME IInv, ApplyKilled
  PROVE  /\ tree' \in Tree
         /\ \/ tree' = tree
            \/ \E s \in cmd.todo :
                 /\ s \in Step /\ s # <<"overlay", Absent>> /\ s[1] # "unlink"
                 /\ IsNext(s, cmd.todo, ApplyOrder)
                 /\ tree' \in CutOff(tree, s)
<1> USE DEF IInv
<1>1. tree \in Tree /\ cmd.todo \subseteq Step /\ <<"overlay", Absent>> \notin cmd.todo
  BY DEF TypeOK, ApplyKilled, StateIsReadable
<1>2. CASE tree' = tree
  BY <1>1, <1>2
<1>3. CASE \E s \in cmd.todo :
             /\ IsNext(s, cmd.todo, ApplyOrder) /\ s[1] # "unlink"
             /\ tree' \in CutOff(tree, s)
  <2>1. PICK s \in cmd.todo : /\ IsNext(s, cmd.todo, ApplyOrder) /\ s[1] # "unlink"
                              /\ tree' \in CutOff(tree, s)
    BY <1>3
  <2>2. s \in Step /\ s # <<"overlay", Absent>>
    BY <1>1, <2>1
  <2>3. tree' \in Tree
    BY <1>1, <2>1, <2>2, CutOffFacts
  <2> QED
    BY <2>1, <2>2, <2>3
<1> QED
  BY <1>2, <1>3 DEF ApplyKilled

\* A failed rollback and a killed apply leave a tree that need not be accounted for.
LEMMA BrokenStep ==
  ASSUME IInv, RollbackFails \/ ApplyKilled
  PROVE  IInv'
<1> USE DEF IInv
<1>1. tree \in Tree /\ t0 \in Tree
  BY DEF TypeOK
<1>2. faults' \in 0 .. MaxFaults
  BY BoundsAssumption DEF RollbackFails, ApplyKilled, Fault, TypeOK
<1>3. CASE RollbackFails
  <2>1. tree' \in Tree
    BY <1>1, <1>3, RollbackOutcome
  <2> QED
    BY <1>2, <1>3, <2>1, EndIsEasy DEF RollbackFails
<1>4. CASE ApplyKilled
  <2>1. tree' \in Tree
    BY <1>1, <1>4, KilledOutcome
  <2> QED
    BY <1>2, <1>4, <2>1, EndIsEasy DEF ApplyKilled
<1> QED
  BY <1>3, <1>4

\* Where nothing was written, ending a command keeps the tree accounted for.
LEMMA UntouchedStep ==
  ASSUME IInv, Abort \/ ConfirmNoop \/ Removed
  PROVE  IInv'
<1> USE DEF IInv
<1>1. /\ tree' \in Tree /\ broken' \in BOOLEAN /\ faults' \in 0 .. MaxFaults
      /\ UNCHANGED <<tree, ver, broken, edits>>
  BY BoundsAssumption DEF TypeOK, Abort, ConfirmNoop, Removed
<1>2. \/ Ends("aborted") \/ Ends("noop")
      \/ Ends("removed")
  BY DEF Abort, ConfirmNoop, Removed
<1>3. ~broken' => Accounted(tree')
  BY <1>1 DEF GeneratedIsAccounted, Accounted, Named, Abort, ConfirmNoop, Removed
<1> QED
  BY <1>1, <1>2, <1>3, EndIsEasy

\* A remove that stops has spoilt the file around a section at most, which is no longer
\* as it was generated.
LEMMA RemoveStopsStep ==
  ASSUME IInv, RemoveStops
  PROVE  IInv'
<1> USE DEF IInv
<1>1. tree \in Tree /\ cmd.pc = "remove" /\ cmd.todo \subseteq Step /\ broken \in BOOLEAN
  BY DEF TypeOK, RemoveStops
<1>2. faults' \in 0 .. MaxFaults
  BY BoundsAssumption DEF RemoveStops, Fault, TypeOK
<1>3. /\ tree' \in Tree /\ tree'.receipt = tree.receipt
      /\ \A a \in Artifact : tree'.art[a] \in {tree.art[a], Torn, Absent}
  <2>1. CASE tree' = tree
    BY <1>1, <2>1
  <2>2. ASSUME NEW s \in cmd.todo, s[1] = "unlink", tree' \in CutOff(tree, s)
        PROVE  /\ tree' \in Tree /\ tree'.receipt = tree.receipt
               /\ \A a \in Artifact : tree'.art[a] \in {tree.art[a], Torn, Absent}
    <3>1. /\ s \in Step /\ s # <<"overlay", Absent>> /\ s # <<"receipt", Absent>>
      BY <1>1, <2>2
    <3> QED
      BY <1>1, <2>2, <3>1, CutOffFacts
  <2> QED
    BY <2>1, <2>2 DEF RemoveStops
<1>4. ~broken' => Accounted(tree')
  BY <1>1, <1>3, ContentsDiffer DEF GeneratedIsAccounted, Accounted, Named, RemoveStops
<1> QED
  BY <1>1, <1>2, <1>3, <1>4, EndIsEasy DEF RemoveStops

\* A remove that is not blocked deletes only what is as it was applied.
LEMMA StartRemoveStep ==
  ASSUME IInv, StartRemove
  PROVE  IInv'
<1> USE DEF IInv, StartRemove
<1>1. GeneratedIsAccounted'
  BY DEF GeneratedIsAccounted, Accounted, Named
<1>2. CASE Drifted(tree) # {} \/ "receipt" \in tree.cut
  <2>1. cmd' = [pc |-> "idle", todo |-> {}, result |-> "blocked"]
    BY <1>2 DEF Ended
  <2>2. TypeOK'
    BY <2>1 DEF TypeOK
  <2> QED
    BY <1>1, <2>1, <2>2 DEF PlanIsSafe, PlanIsCurrent, PlanIsComplete, SnapshotCovers,
       ApplyAccounts, RemoveAccounts, SnapshotIsOurs, StateIsReadable
<1>3. CASE Drifted(tree) = {} /\ "receipt" \notin tree.cut
  <2>1. cmd' = [pc |-> "remove", todo |-> Removal(tree), result |-> "none"]
    BY <1>3
  <2>2. /\ Removal(tree) \subseteq Step
        /\ \A a : <<"write", a>> \notin Removal(tree)
        /\ \A a : <<"unlink", a>> \in Removal(tree) <=> a \in Named(tree)
    BY DEF Removal, StateSteps, StateFile, Step, Named
  <2>3. TypeOK'
    BY <2>1, <2>2 DEF TypeOK
  <2>4. PlanIsSafe'
    <3> SUFFICES ASSUME NEW a \in Named(tree) PROVE tree.art[a] # User
      BY <2>1, <2>2 DEF PlanIsSafe
    <3>1. tree.receipt[a] # User
      BY ContentsDiffer DEF TypeOK, Tree, Named
    <3> QED
      BY <1>3, <3>1, ContentsDiffer DEF Drifted
  <2>5. RemoveAccounts'
    BY <2>1, <2>2 DEF RemoveAccounts
  <2> QED
    BY <1>1, <2>1, <2>3, <2>4, <2>5 DEF PlanIsCurrent, PlanIsComplete, SnapshotCovers,
       ApplyAccounts, SnapshotIsOurs, StateIsReadable
<1> QED
  BY <1>2, <1>3

\* The receipt goes after every artifact, so it goes when nothing generated is left.
LEMMA DeleteStep ==
  ASSUME IInv, Delete
  PROVE  IInv'
<1> USE DEF IInv
<1>1. PICK s \in cmd.todo : /\ IsNext(s, cmd.todo, RemoveOrder)
                            /\ tree' = Deleted(tree, s)
                            /\ cmd' = [cmd EXCEPT !.todo = @ \ {s}]
  BY DEF Delete
<1>2. /\ s \in Step /\ tree \in Tree
      /\ cmd.pc = "remove" /\ cmd'.pc = "remove" /\ cmd'.todo = cmd.todo \ {s}
      /\ UNCHANGED <<ver, t0, edited, broken, edits, faults>>
  BY <1>1 DEF Delete, TypeOK
<1>3. /\ tree' \in Tree
      /\ \A a \in Artifact :
           tree'.art[a] = IF s = <<"unlink", a>> THEN Absent ELSE tree.art[a]
      /\ tree'.receipt = IF s = <<"receipt", Absent>> THEN Absent ELSE tree.receipt
  BY <1>1, <1>2, DeletedFacts
<1>4. TypeOK'
  <2>1. cmd' \in [pc : {"idle", "confirm", "commit", "remove"}, todo : SUBSET Step,
                  result : {"none", "noop", "ok", "blocked", "aborted", "failed",
                            "rollback_failed", "removed", "killed"}]
    BY <1>1 DEF TypeOK
  <2> QED
    BY <1>2, <1>3, <2>1 DEF TypeOK
<1>5. PlanIsSafe'
  BY <1>2, <1>3, ContentsDiffer DEF PlanIsSafe
<1>6. CASE s = <<"receipt", Absent>>
  <2>1. \A a \in Artifact : <<"unlink", a>> \notin cmd.todo
    BY <1>1, <1>6 DEF IsNext, Precedes, RemoveOrder
  <2>2. \A a \in Named(tree) : tree.art[a] \notin Generated
    BY <1>2, <2>1 DEF RemoveAccounts, Named
  <2>3. ~broken => Accounted(tree')
    BY <1>2, <1>3, <1>6, <2>2 DEF GeneratedIsAccounted, Accounted
  <2>4. Named(tree') = {}
    BY <1>3, <1>6 DEF Named
  <2>5. GeneratedIsAccounted' /\ RemoveAccounts'
    BY <1>2, <2>3, <2>4 DEF GeneratedIsAccounted, RemoveAccounts, Accounted
  <2> QED
    BY <1>2, <1>4, <1>5, <2>5 DEF PlanIsCurrent, PlanIsComplete, SnapshotCovers, ApplyAccounts,
       SnapshotIsOurs, StateIsReadable
<1>7. CASE s # <<"receipt", Absent>>
  <2>1. Named(tree') = Named(tree) /\ Named(tree) \subseteq Artifact
    BY <1>3, <1>7 DEF Named
  <2>2. GeneratedIsAccounted'
    BY <1>2, <1>3, <1>7, <2>1, ContentsDiffer DEF GeneratedIsAccounted, Accounted
  <2>3. RemoveAccounts'
    BY <1>2, <1>3, <2>1, ContentsDiffer DEF RemoveAccounts
  <2> QED
    BY <1>2, <1>4, <1>5, <2>2, <2>3 DEF PlanIsCurrent, PlanIsComplete, SnapshotCovers,
       ApplyAccounts, SnapshotIsOurs, StateIsReadable
<1> QED
  BY <1>6, <1>7

\* A failure that is caught rolls back.
LEMMA ApplyFailsStep ==
  ASSUME IInv, ApplyFails
  PROVE  IInv'
<1>1. faults' \in 0 .. MaxFaults
  BY BoundsAssumption DEF IInv, ApplyFails, Fault, TypeOK
<1> QED
  BY <1>1, RollbackStep DEF ApplyFails

\* Every step of a command, of people and of other commands keeps the invariant.
LEMMA Inductive ==
  ASSUME IInv, [Next]_vars
  PROVE  IInv'
<1>1. CASE UNCHANGED vars
  BY <1>1 DEF vars, IInv, TypeOK, GeneratedIsAccounted, Accounted, PlanIsSafe, PlanIsCurrent,
     PlanIsComplete, SnapshotCovers, ApplyAccounts, RemoveAccounts, Conflicts, Changing,
     Differing, Missing, Obsolete, Drifted, Named, Wanted, Scope, SnapshotIsOurs, StateIsReadable
<1>2. CASE \E a \in Artifact : Edit(a)
  BY <1>2, EditStep
<1>3. CASE \E file \in {"overlay", "works"} : OtherCommand(file)
  BY <1>3, OtherCommandStep
<1>4. CASE \E v \in Version : Upgrade(v)
  BY <1>4, UpgradeStep
<1>5. CASE Plan
  BY <1>5, PlanStep
<1>6. CASE Abort \/ ConfirmNoop \/ Removed
  BY <1>6, UntouchedStep
<1>7. CASE Confirm
  BY <1>7, ConfirmStep
<1>8. CASE Write
  BY <1>8, WriteStep
<1>9. CASE Check
  BY <1>9, CheckStep
<1>10. CASE ApplyFails
  BY <1>10, ApplyFailsStep
<1>11. CASE RollbackFails \/ ApplyKilled
  BY <1>11, BrokenStep
<1>12. CASE StartRemove
  BY <1>12, StartRemoveStep
<1>13. CASE Delete
  BY <1>13, DeleteStep
<1>14. CASE RemoveStops
  BY <1>14, RemoveStopsStep
<1>15. CASE \E file \in StateFile : Discard(file)
  BY <1>15, DiscardStep
<1> QED
  BY <1>1, <1>2, <1>3, <1>4, <1>5, <1>6, <1>7, <1>8, <1>9, <1>10, <1>11, <1>12, <1>13, <1>14,
     <1>15 DEF Next

\* The inductive invariant holds in every state of every run of the Composer.
THEOREM Invariance == Spec => []IInv
<1>1. Init => IInv
  BY InitEstablishes
<1>2. IInv /\ [Next]_vars => IInv'
  BY Inductive
<1> QED
  BY <1>1, <1>2, PTL DEF Spec

-----------------------------------------------------------------------------
(* The properties.                                                         *)

\* In every state the tree, the receipt, the snapshot and the command are of their types.
THEOREM TypeCorrect == Spec => []TypeOK
BY Invariance, PTL DEF IInv

\* Unless an apply was killed, what is generated is named in the receipt as it is.
THEOREM EverythingGeneratedIsAccounted == Spec => []GeneratedIsAccounted
BY Invariance, PTL DEF IInv

\* A running apply ends in one of four ways.
LEMMA EndingSteps ==
  ASSUME TypeOK, [Next]_vars, NEW r, ApplyEnds(r)
  PROVE  \/ Check /\ Ends(r)
         \/ ApplyFails /\ Ends(r)
         \/ RollbackFails /\ r = "rollback_failed"
         \/ ApplyKilled /\ r = "killed"
<1>1. cmd.pc = "commit" /\ cmd'.pc = "idle" /\ cmd'.result = r
  BY DEF ApplyEnds, Ended
<1>2. Check \/ ApplyFails \/ RollbackFails \/ ApplyKilled
  BY <1>1 DEF TypeOK, Next, vars, Edit, Discard, OtherCommand, Upgrade, Plan, Abort, ConfirmNoop, Confirm,
     Write, StartRemove, Delete, Removed, RemoveStops
<1>3. Ends(r) \/ ~(Check \/ ApplyFails)
  BY <1>1 DEF Check, ApplyFails, Rollback, Ends, Ended
<1>4. /\ RollbackFails => Ends("rollback_failed")
      /\ ApplyKilled => Ends("killed")
  BY DEF RollbackFails, ApplyKilled
<1> QED
  BY <1>1, <1>2, <1>3, <1>4 DEF Ends, Ended

\* A command only ever writes over what the plan found to be its own, and a rollback puts
\* back what a person had: so nothing a person wrote before the plan is lost.
LEMMA UserContentStep ==
  ASSUME IInv, [Next]_vars
  PROVE  /\ \A a \in Artifact \ edited :
              tree.art[a] = User /\ tree'.art[a] # User => edits' > edits
         /\ "works" \in tree.ges => "works" \in tree'.ges
<1> USE DEF IInv
<1> DEFINE Kept == /\ \A a \in Artifact \ edited : tree.art[a] = User => tree'.art[a] = User
                   /\ "works" \in tree.ges => "works" \in tree'.ges
<1>0. tree \in Tree /\ t0 \in Tree /\ ver \in Version /\ edits \in Nat
  BY BoundsAssumption DEF TypeOK
<1>1. CASE \E a \in Artifact : Edit(a)
  <2>1. PICK b \in Artifact : Edit(b)
    BY <1>1
  <2>2. edits' > edits /\ tree'.ges = tree.ges
    BY <1>0, <2>1 DEF Edit, Tree
  <2> QED
    BY <2>2
<1>2. CASE Write
  <2>1. PICK s \in cmd.todo : tree' = Written(tree, ver, s)
    BY <1>2 DEF Write
  <2>2. s \in Step /\ cmd.pc = "commit"
    BY <1>2, <2>1 DEF TypeOK, Write
  <2>3. /\ \A a \in Artifact : s # <<"write", a>> /\ s # <<"unlink", a>> =>
              tree'.art[a] = tree.art[a]
        /\ tree.ges \subseteq tree'.ges
    BY <1>0, <2>1, <2>2, WrittenFacts
  <2>4. Kept
    BY <2>1, <2>2, <2>3 DEF PlanIsSafe
  <2> QED
    BY <2>4
<1>3. CASE Delete
  <2>1. PICK s \in cmd.todo : tree' = Deleted(tree, s)
    BY <1>3 DEF Delete
  <2>2. s \in Step /\ cmd.pc = "remove"
    BY <1>3, <2>1 DEF TypeOK, Delete
  <2>3. /\ \A a \in Artifact : s # <<"unlink", a>> => tree'.art[a] = tree.art[a]
        /\ "works" \in tree.ges => "works" \in tree'.ges
    BY <1>0, <2>1, <2>2, DeletedFacts
  <2>4. Kept
    BY <2>1, <2>2, <2>3 DEF PlanIsSafe
  <2> QED
    BY <2>4
<1>4. CASE cmd.pc = "commit" /\ Rollback
  <2>1. PICK artifacts : tree' = RestoredGes(Restored(tree, t0, artifacts), t0)
    BY <1>4 DEF Rollback, RolledBack
  <2>2. /\ \A a \in Artifact : tree'.art[a] = IF a \in artifacts THEN t0.art[a] ELSE tree.art[a]
        /\ "works" \in tree.ges => "works" \in tree'.ges
    BY <1>0, <2>1, RestoredFacts
  <2>3. Kept
    BY <1>4, <2>2 DEF SnapshotCovers
  <2> QED
    BY <2>3
<1>5. CASE RollbackFails
  <2>1. /\ \A a \in Artifact \ Scope(t0, ver) : tree'.art[a] \in {tree.art[a], t0.art[a]}
        /\ "works" \in tree.ges => "works" \in tree'.ges
    BY <1>0, <1>5, RollbackOutcome
  <2>2. cmd.pc = "commit"
    BY <1>5 DEF RollbackFails
  <2>3. \A a \in Scope(t0, ver) \ edited : a \in Artifact => tree.art[a] # User
    BY <2>2 DEF SnapshotIsOurs, SnapshotCovers
  <2>4. Kept
    BY <2>1, <2>2, <2>3 DEF SnapshotCovers
  <2> QED
    BY <2>4
<1>6. CASE ApplyKilled
  <2>1. CASE tree' = tree
    BY <2>1
  <2>2. ASSUME NEW s \in cmd.todo, s \in Step, s # <<"overlay", Absent>>, tree' \in CutOff(tree, s)
        PROVE  Kept
    <3>1. cmd.pc = "commit"
      BY <1>6 DEF ApplyKilled
    <3>2. /\ \A a \in Artifact : s # <<"write", a>> /\ s # <<"unlink", a>> =>
                tree'.art[a] = tree.art[a]
          /\ "works" \in tree.ges => "works" \in tree'.ges
      BY <1>0, <2>2, CutOffFacts
    <3> QED
      BY <2>2, <3>1, <3>2 DEF PlanIsSafe
  <2> QED
    BY <1>6, <2>1, <2>2, KilledOutcome
<1>7. CASE RemoveStops
  <2>1. cmd.pc = "remove" /\ cmd.todo \subseteq Step
    BY <1>7 DEF TypeOK, RemoveStops
  <2>2. CASE tree' = tree
    BY <2>2
  <2>3. ASSUME NEW s \in cmd.todo, s[1] = "unlink", tree' \in CutOff(tree, s)
        PROVE  Kept
    <3>1. s \in Step /\ s # <<"overlay", Absent>>
      BY <2>1, <2>3
    <3>2. /\ \A a \in Artifact : s # <<"write", a>> /\ s # <<"unlink", a>> =>
                tree'.art[a] = tree.art[a]
          /\ "works" \in tree.ges => "works" \in tree'.ges
      BY <1>0, <2>3, <3>1, CutOffFacts
    <3> QED
      BY <2>1, <2>3, <3>2 DEF PlanIsSafe
  <2> QED
    BY <1>7, <2>2, <2>3 DEF RemoveStops
<1>8. CASE \E file \in {"overlay", "works"} : OtherCommand(file)
  BY <1>0, <1>8 DEF OtherCommand, Tree
<1>9. CASE \E file \in StateFile : Discard(file)
  BY <1>0, <1>9 DEF Discard, Tree
<1>10. CASE UNCHANGED tree
  BY <1>10
<1>11. Check \/ ApplyFails => \/ cmd.pc = "commit" /\ Rollback
                              \/ UNCHANGED tree
  BY DEF Check, ApplyFails
<1> QED
  BY <1>1, <1>2, <1>3, <1>4, <1>5, <1>6, <1>7, <1>8, <1>9, <1>10, <1>11 DEF Next, vars, Upgrade,
     Plan, Abort, ConfirmNoop, Confirm, StartRemove, Removed

\* No command destroys what a person wrote before it planned, however it ends.
THEOREM UserContentIsKept == Spec => UserContentKept
<1>1. IInv /\ [Next]_vars =>
        [/\ \A a \in Artifact \ edited :
              tree.art[a] = User /\ tree'.art[a] # User => edits' > edits
         /\ "works" \in tree.ges => "works" \in tree'.ges]_vars
  BY UserContentStep
<1> QED
  BY <1>1, Invariance, PTL DEF Spec, UserContentKept

\* Outside the scope of the snapshot the apply wrote nothing, inside it the rollback
\* restores: after a caught failure the tree is as the apply found it, but for edits.
THEOREM RollbackIsComplete == Spec => RollbackRestores
<1>1. ASSUME IInv, [Next]_vars, ApplyEnds("failed")
      PROVE  /\ \A a \in Artifact \ edited : tree'.art[a] = t0.art[a]
             /\ tree'.lock = t0.lock /\ tree'.receipt = t0.receipt
             /\ \A f \in {"project", "profile"} : f \in tree'.ges <=> f \in t0.ges
  <2>1. tree \in Tree /\ t0 \in Tree
    BY <1>1 DEF IInv, TypeOK
  <2>2. cmd.pc = "commit" /\ tree' = RolledBack(tree, t0, ver)
    BY <1>1, EndingSteps DEF IInv, Check, ApplyFails, Rollback, ApplyEnds, Ends, Ended
  <2> QED
    BY <1>1, <2>1, <2>2, RestoredFacts DEF IInv, SnapshotCovers, RolledBack
<1>2. IInv /\ [Next]_vars =>
        [ApplyEnds("failed") =>
           /\ \A a \in Artifact \ edited : tree'.art[a] = t0.art[a]
           /\ tree'.lock = t0.lock /\ tree'.receipt = t0.receipt
           /\ \A f \in {"project", "profile"} : f \in tree'.ges <=> f \in t0.ges]_vars
  BY <1>1
<1> QED
  BY <1>2, Invariance, PTL DEF Spec, RollbackRestores

\* Where an apply is killed inside a write, the tree without the file it was writing
\* conflicts with the next plan nowhere but where people edited: the receipt, which alone
\* could take an artifact out of the plan's hands, is written when nothing is to be written.
LEMMA WithoutTheCutFile ==
  ASSUME IInv, ApplyKilled, NEW s \in cmd.todo, s \in Step, s # <<"overlay", Absent>>,
         s[1] # "unlink", IsNext(s, cmd.todo, ApplyOrder), tree' \in CutOff(tree, s)
  PROVE  \E t \in {tree'} \cup {Deleted(tree', x) : x \in Spoilt(tree')} :
           Conflicts(t, ver) \subseteq edited /\ t.cut \subseteq t0.cut \ {"lock", "receipt"}
<1> USE DEF IInv
<1>1. /\ cmd.pc = "commit" /\ tree \in Tree /\ ver \in Version
      /\ Conflicts(tree, ver) \subseteq edited
      /\ tree.cut \subseteq t0.cut \ {"lock", "receipt"}
  BY DEF TypeOK, ApplyKilled, PlanIsCurrent, StateIsReadable
<1>2. /\ tree' \in Tree
      /\ \A a \in Artifact : IF s = <<"write", a>> THEN tree'.art[a] \in {Torn, Absent}
                           ELSE tree'.art[a] = tree.art[a]
      /\ tree'.receipt = IF s = <<"receipt", Absent>> THEN Absent ELSE tree.receipt
      /\ \A f \in StateFile : f \in tree'.cut <=> f \in tree.cut \/ s = <<f, Absent>>
  BY <1>1, CutOffFacts
<1>3. ASSUME NEW t \in Tree, t.receipt = tree.receipt,
             \A a \in Artifact : t.art[a] \in {tree.art[a], Absent}
      PROVE  Conflicts(t, ver) \subseteq Conflicts(tree, ver)
  <2>1. Conflicts(t, ver) \subseteq Artifact
    BY <1>1, DesiredIsGenerated DEF Conflicts, Differing, Obsolete, Missing, Named
  <2>2. Named(t) = Named(tree)
    BY <1>3 DEF Named
  <2> QED
    BY <1>1, <1>3, <2>1, <2>2, ConflictFacts
<1>4. CASE s[1] = "write"
  <2>1. PICK b \in Artifact : s = <<"write", b>>
    BY <1>4 DEF Step, StateFile
  <2>2. CASE tree'.art[b] = Absent
    <3>1. Conflicts(tree', ver) \subseteq edited
      BY <1>1, <1>2, <1>3, <2>1, <2>2
    <3>2. tree'.cut \subseteq t0.cut \ {"lock", "receipt"}
      BY <1>1, <1>2, <2>1 DEF Tree, StateFile
    <3> QED
      BY <3>1, <3>2
  <2>3. CASE tree'.art[b] = Torn
    <3> DEFINE t == Deleted(tree', <<"unlink", b>>)
    <3>1. <<"unlink", b>> \in Spoilt(tree') /\ <<"unlink", b>> \in Step
      BY <2>3 DEF Spoilt, Step
    <3>2. /\ t \in Tree /\ t.receipt = tree'.receipt
          /\ \A a \in Artifact : t.art[a] = IF a = b THEN Absent ELSE tree'.art[a]
          /\ \A f \in StateFile : f \in t.cut <=> f \in tree'.cut
      BY <1>2, <3>1, DeletedFacts DEF StateFile
    <3> HIDE DEF t
    <3>3. Conflicts(t, ver) \subseteq edited
      BY <1>1, <1>2, <1>3, <2>1, <3>2
    <3>4. t.cut \subseteq t0.cut \ {"lock", "receipt"}
      BY <1>1, <1>2, <2>1, <3>2 DEF Tree, StateFile
    <3> QED
      BY <3>1, <3>3, <3>4 DEF t
  <2> QED
    BY <1>2, <2>1, <2>2, <2>3
<1>5. CASE \E f \in StateFile : s = <<f, Absent>>
  <2>1. PICK f \in StateFile : s = <<f, Absent>>
    BY <1>5
  <2> DEFINE t == Deleted(tree', s)
  <2>2. s \in Spoilt(tree')
    BY <1>2, <2>1 DEF Spoilt
  <2>3. /\ t \in Tree
        /\ \A g \in StateFile : g \in t.cut <=> g \in tree'.cut /\ s # <<g, Absent>>
        /\ \A a \in Artifact : t.art[a] = tree'.art[a]
        /\ t.receipt = IF s = <<"receipt", Absent>> THEN Absent ELSE tree'.receipt
    BY <1>2, <2>1, DeletedFacts DEF StateFile
  <2> HIDE DEF t
  <2>4. \A a \in Artifact : t.art[a] = tree.art[a]
    BY <1>2, <2>1, <2>3 DEF StateFile
  <2>5. Conflicts(t, ver) \subseteq edited
    <3>1. CASE s = <<"receipt", Absent>>
      <4>1. \A a \in Artifact : <<"write", a>> \notin cmd.todo
        BY <3>1 DEF IsNext, Precedes, ApplyOrder
      <4>2. Named(t) = {} /\ Conflicts(t, ver) \subseteq Artifact
        BY <1>1, <2>3, <3>1, DesiredIsGenerated DEF Conflicts, Differing, Obsolete, Missing, Named
      <4>3. \A a \in Conflicts(t, ver) : a \in Changing(tree, ver)
        BY <1>1, <2>3, <2>4, <4>2, ConflictFacts, ChangingFacts
      <4> QED
        BY <1>1, <4>1, <4>2, <4>3 DEF PlanIsCurrent
    <3>2. CASE s # <<"receipt", Absent>>
      BY <1>1, <1>2, <1>3, <2>3, <2>4, <3>2
    <3> QED
      BY <3>1, <3>2
  <2>6. t.cut \subseteq t0.cut \ {"lock", "receipt"}
    BY <1>1, <1>2, <2>3 DEF Tree
  <2> QED
    BY <2>2, <2>5, <2>6 DEF t
<1> QED
  BY <1>4, <1>5 DEF Step, StateFile

\* A killed apply can be run again once the file it was writing is out of the way: only
\* people can have made the conflicts that are left, and no state file is unreadable that
\* was not.
THEOREM KilledApplyIsRerunnable == Spec => KilledApplyCanRerun
<1>1. ASSUME IInv, [Next]_vars, ApplyEnds("killed")
      PROVE  \E t \in {tree'} \cup {Deleted(tree', s) : s \in Spoilt(tree')} :
               Conflicts(t, ver') \subseteq edited /\ t.cut \subseteq t0.cut \ {"lock", "receipt"}
  <2>1. ApplyKilled
    BY <1>1, EndingSteps DEF IInv, Check, ApplyFails, Rollback, RollbackResult, Ends, Ended
  <2>2. ver' = ver
    BY <2>1 DEF ApplyKilled
  <2>3. CASE tree' = tree
    BY <1>1, <2>1, <2>2, <2>3 DEF IInv, PlanIsCurrent, StateIsReadable, ApplyEnds
  <2>4. CASE \E s \in cmd.todo :
               /\ s \in Step /\ s # <<"overlay", Absent>> /\ s[1] # "unlink"
               /\ IsNext(s, cmd.todo, ApplyOrder)
               /\ tree' \in CutOff(tree, s)
    BY <1>1, <2>1, <2>2, <2>4, WithoutTheCutFile
  <2> QED
    BY <1>1, <2>1, <2>3, <2>4, KilledOutcome
<1>2. IInv /\ [Next]_vars =>
        [ApplyEnds("killed") =>
           \E t \in {tree'} \cup {Deleted(tree', s) : s \in Spoilt(tree')} :
             Conflicts(t, ver') \subseteq edited /\ t.cut \subseteq t0.cut \ {"lock", "receipt"}]_vars
  BY <1>1
<1> QED
  BY <1>2, Invariance, PTL DEF Spec, KilledApplyCanRerun

-----------------------------------------------------------------------------
(* The guard: the invariant.                                               *)

RootsExist == \A p \in Path : work[p] # Nothing /\ RootOf[p] # Nothing => RootOf[p] \in dirs

PresentIsSeen == Running => \A p \in Path : work[p] \in seen[look.of][p]

\* Git had a commit when it was asked for HEAD, and the index is the one it listed.
AnswersHold ==
  /\ look.at \in {"index", "status"} => head # 0 /\ snap[look.of].head # 0
  /\ look.at = "status" /\ ~mixed => snap[look.of].index = index

\* Snapshot l has begun; it has been asked for everything but what is in todo.
Begun(l) == l < look.of \/ (l = look.of /\ look.at # "head")

Asked(l) == l < look.of \/ (l = look.of /\ look.at \in {"read", "unresolved"} \cup Verdicts)

Pending(l, p) == l = look.of /\ p \in todo

\* A path whose root directory was not there when the snapshot began was not there.
MissingRootsSeen(l) ==
  \A p \in Path : RootOf[p] # Nothing /\ RootOf[p] \notin snap[l].roots => Nothing \in seen[l][p]

\* A path has one record at most, and one that is still to be read has none.
OneRecord(l) ==
  /\ \A r, q \in snap[l].overlay : r[1] = q[1] => r = q
  /\ \A r \in snap[l].overlay : ~Pending(l, r[1])

Listed(l, p) == snap[l].index[p] # Nothing /\ IsDirty(snap[l].status[p])

Clean(l, p) == snap[l].index[p] # Nothing /\ ~IsDirty(snap[l].status[p])

\* A clean file was its blob, a listed one what its record says, any other not there.
FileShown(l, p) ==
  /\ Clean(l, p) => snap[l].index[p] \in seen[l][p]
  /\ (Listed(l, p) \/ snap[l].status[p].untracked) /\ Covers(snap[l], p) =>
       Pending(l, p) \/ \E c \in seen[l][p] : FileRecord(p, c) \in snap[l].overlay
  /\ snap[l].index[p] = Nothing /\ ~snap[l].status[p].untracked /\ p \notin Ignored =>
       Nothing \in seen[l][p]

ModuleShown(l, p) ==
  /\ Clean(l, p) => \/ Nothing \in seen[l][p]
                    \/ \E c \in seen[l][p] : c # Nothing /\ c[1] = snap[l].index[p]
  /\ Listed(l, p) /\ Covers(snap[l], p) =>
       \/ Pending(l, p)
       \/ \E c \in seen[l][p] :
            c # Nothing /\ <<p, "dirty", snap[l].index[p], c[1]>> \in snap[l].overlay

\* Only what is below the roots is recorded.
RecordsCovered(l) ==
  /\ \A r \in snap[l].overlay : Covers(snap[l], r[1])
  /\ \A p \in Path : Pending(l, p) => Covers(snap[l], p)

OverlayShows(l) ==
  /\ snap[l].head # 0
  /\ RecordsCovered(l)
  /\ \A p \in File : FileShown(l, p)
  /\ \A p \in Module : ModuleShown(l, p)

FullShown(l, p) ==
  \/ Pending(l, p)
  \/ \E c \in seen[l][p] : FullRecord(p, c) \in snap[l].overlay
  \/ Nothing \in seen[l][p] /\ \A r \in snap[l].overlay : r[1] # p

FullShows(l) ==
  /\ snap[l].head = 0
  /\ \A p \in Path : RootOf[p] # Nothing => FullShown(l, p)

Shows(l) ==
  /\ snap[l].strategy \in {"overlay", "full"}
  /\ OneRecord(l)
  /\ snap[l].strategy = "overlay" => OverlayShows(l)
  /\ snap[l].strategy = "full" => FullShows(l)

SnapshotsShow ==
  \A l \in 1 .. 2 :
    /\ Begun(l) => MissingRootsSeen(l)
    /\ Asked(l) /\ ~mixed => Shows(l)

\* The verdict is about two complete snapshots.
VerdictIsOfBoth ==
  look.at \in Verdicts => look.of = 2 /\ todo = {} /\ look.at = Verdict

GuardInv ==
  /\ GuardTypeOK /\ RootsExist /\ PresentIsSeen /\ AnswersHold /\ SnapshotsShow /\ VerdictIsOfBoth

-----------------------------------------------------------------------------
(* What the invariant means for an apply that passes.                      *)

\* A record names its path, and the records of a path tell its contents apart.
LEMMA RecordsName ==
  ASSUME NEW p, NEW c
  PROVE  FileRecord(p, c)[1] = p /\ FullRecord(p, c)[1] = p
BY DEF FileRecord, FullRecord

\* Equal records are records of equal contents, up to the files in a submodule.
LEMMA RecordsTell ==
  ASSUME NEW p, NEW c, NEW d
  PROVE  /\ FileRecord(p, c) = FileRecord(p, d) => c = d
         /\ FullRecord(p, c) = FullRecord(p, d) =>
              \/ c = d
              \/ p \in Module /\ c # Nothing /\ d # Nothing /\ c[2] = d[2]
BY DEF FileRecord, FullRecord

\* What a passing verdict compares is equal in both snapshots.
LEMMA PassMeansEqual ==
  ASSUME GuardInv, look.at = "pass", ~mixed
  PROVE  /\ Shows(1) /\ Shows(2) /\ MissingRootsSeen(1) /\ MissingRootsSeen(2)
         /\ \A l \in 1 .. 2, p \in Path : ~Pending(l, p)
         /\ snap[1].strategy = snap[2].strategy
         /\ snap[1].index = snap[2].index
         /\ snap[1].status = snap[2].status
         /\ snap[1].overlay = snap[2].overlay
<1>1. look.of = 2 /\ todo = {} /\ Verdict = "pass"
  BY DEF GuardInv, VerdictIsOfBoth, Verdicts
<1>2. /\ snap[1].head = snap[2].head
      /\ snap[1].index = snap[2].index
      /\ <<snap[1].status, snap[1].overlay>> = <<snap[2].status, snap[2].overlay>>
  BY <1>1 DEF Verdict
<1>3. Begun(1) /\ Begun(2) /\ Asked(1) /\ Asked(2)
  BY <1>1 DEF Begun, Asked, Verdicts
<1>4. Shows(1) /\ Shows(2) /\ MissingRootsSeen(1) /\ MissingRootsSeen(2)
  BY <1>3 DEF GuardInv, SnapshotsShow
<1>5. snap[1].strategy = snap[2].strategy
  BY <1>2, <1>4 DEF Shows, OverlayShows, FullShows
<1> QED
  BY <1>1, <1>2, <1>4, <1>5 DEF Pending

\* The step from the invariant to the property, for a file and for a submodule that
\* Git was asked about, and for a path the fallback has read.
LEMMA FileWasThere ==
  ASSUME GuardInv, look.at = "pass", ~mixed, snap[1].strategy = "overlay",
         NEW p \in File, Guarded(p)
  PROVE  \E c \in seen[1][p] : c \in seen[2][p]
<1> p \in Path
  BY DEF Path
<1>0. /\ FileShown(1, p) /\ FileShown(2, p)
      /\ RecordsCovered(1) /\ RecordsCovered(2) /\ OneRecord(1)
      /\ MissingRootsSeen(1) /\ MissingRootsSeen(2)
      /\ ~Pending(1, p) /\ ~Pending(2, p)
  BY PassMeansEqual DEF Shows, OverlayShows
<1>e. /\ snap[1].index = snap[2].index /\ snap[1].status = snap[2].status
      /\ snap[1].overlay = snap[2].overlay
  BY PassMeansEqual
<1>g. /\ Tracks(p) \/ p \notin Ignored
      /\ snap[1].roots = {} \/ RootOf[p] # Nothing
  BY DEF Guarded
<1>1. CASE Clean(1, p)
  <2> Clean(2, p)
    BY <1>1, <1>e DEF Clean
  <2> QED
    BY <1>1, <1>0, <1>e DEF FileShown
<1>2. CASE Listed(1, p) \/ snap[1].status[p].untracked
  <2>1. Listed(2, p) \/ snap[2].status[p].untracked
    BY <1>2, <1>e DEF Listed
  <2>2. ASSUME Covers(snap[1], p) PROVE Covers(snap[2], p)
    <3> PICK c \in seen[1][p] : FileRecord(p, c) \in snap[1].overlay
      BY <1>2, <1>0, <2>2 DEF FileShown
    <3> QED
      BY <1>0, <1>e, RecordsName DEF RecordsCovered
  <2>3. ASSUME Covers(snap[2], p) PROVE Covers(snap[1], p)
    <3> PICK c \in seen[2][p] : FileRecord(p, c) \in snap[2].overlay
      BY <2>1, <1>0, <2>3 DEF FileShown
    <3> QED
      BY <1>0, <1>e, RecordsName DEF RecordsCovered
  <2>4. CASE Covers(snap[1], p)
    <3>1. PICK c \in seen[1][p] : FileRecord(p, c) \in snap[1].overlay
      BY <1>2, <1>0, <2>4 DEF FileShown
    <3>2. PICK d \in seen[2][p] : FileRecord(p, d) \in snap[2].overlay
      BY <2>1, <1>0, <2>2, <2>4 DEF FileShown
    <3>3. FileRecord(p, c) = FileRecord(p, d)
      BY <3>1, <3>2, <1>0, <1>e, RecordsName DEF OneRecord
    <3> QED
      BY <3>3, RecordsTell
  <2>5. CASE ~Covers(snap[1], p)
    <3> ~Covers(snap[2], p)
      BY <2>5, <2>3
    <3> RootOf[p] # Nothing /\ RootOf[p] \notin snap[1].roots /\ RootOf[p] \notin snap[2].roots
      BY <2>5, <1>g DEF Covers
    <3> QED
      BY <1>0 DEF MissingRootsSeen
  <2> QED
    BY <2>4, <2>5
<1>3. CASE snap[1].index[p] = Nothing /\ ~snap[1].status[p].untracked
  <2> p \notin Ignored
    BY <1>3, <1>g DEF Tracks
  <2> QED
    BY <1>3, <1>0, <1>e DEF FileShown
<1> QED
  BY <1>1, <1>2, <1>3 DEF Clean, Listed

\* A submodule that passes stood at a common commit in both snapshots.
LEMMA ModuleWasThere ==
  ASSUME GuardInv, look.at = "pass", ~mixed, snap[1].strategy = "overlay",
         NEW p \in Module, Guarded(p)
  PROVE  \E c \in seen[1][p], d \in seen[2][p] : c # Nothing /\ d # Nothing /\ c[1] = d[1]
<1> p \in Path /\ p \notin File
  BY PathsAssumption DEF Path
<1>0. /\ ModuleShown(1, p) /\ ModuleShown(2, p)
      /\ RecordsCovered(1) /\ RecordsCovered(2) /\ OneRecord(1)
      /\ MissingRootsSeen(1) /\ MissingRootsSeen(2)
      /\ ~Pending(1, p) /\ ~Pending(2, p)
  BY PassMeansEqual DEF Shows, OverlayShows
<1>e. /\ snap[1].index = snap[2].index /\ snap[1].status = snap[2].status
      /\ snap[1].overlay = snap[2].overlay
  BY PassMeansEqual
<1>g. /\ Tracks(p) /\ Nothing \notin seen[1][p] /\ Nothing \notin seen[2][p]
      /\ snap[1].roots = {} \/ RootOf[p] # Nothing
  BY DEF Guarded
<1>1. CASE Clean(1, p)
  <2> Clean(2, p)
    BY <1>1, <1>e DEF Clean
  <2>1. PICK c \in seen[1][p] : c # Nothing /\ c[1] = snap[1].index[p]
    BY <1>1, <1>0, <1>g DEF ModuleShown
  <2>2. PICK d \in seen[2][p] : d # Nothing /\ d[1] = snap[2].index[p]
    BY <1>0, <1>g DEF ModuleShown
  <2> QED
    BY <2>1, <2>2, <1>e
<1>2. CASE Listed(1, p)
  <2> Listed(2, p)
    BY <1>2, <1>e DEF Listed
  <2>1. Covers(snap[1], p)
    BY <1>0, <1>g DEF Covers, MissingRootsSeen
  <2>2. PICK c \in seen[1][p] :
          c # Nothing /\ <<p, "dirty", snap[1].index[p], c[1]>> \in snap[1].overlay
    BY <1>2, <1>0, <2>1 DEF ModuleShown
  <2>3. Covers(snap[2], p)
    BY <2>2, <1>0, <1>e DEF RecordsCovered
  <2>4. PICK d \in seen[2][p] :
          d # Nothing /\ <<p, "dirty", snap[2].index[p], d[1]>> \in snap[2].overlay
    BY <1>0, <2>3 DEF ModuleShown
  <2>5. <<p, "dirty", snap[1].index[p], c[1]>> = <<p, "dirty", snap[2].index[p], d[1]>>
    BY <2>2, <2>4, <1>0, <1>e DEF OneRecord
  <2> QED
    BY <2>2, <2>4, <2>5
<1> QED
  BY <1>1, <1>2, <1>g DEF Clean, Listed, Tracks

\* A file that passes the full comparison had a common content in both snapshots.
LEMMA ReadWasThere ==
  ASSUME GuardInv, look.at = "pass", ~mixed, snap[1].strategy = "full",
         NEW p \in Path, RootOf[p] # Nothing
  PROVE  \E c \in seen[1][p], d \in seen[2][p] : Compared(p, c) = Compared(p, d)
<1>0. /\ FullShown(1, p) /\ FullShown(2, p) /\ OneRecord(1)
      /\ ~Pending(1, p) /\ ~Pending(2, p)
      /\ snap[1].overlay = snap[2].overlay
  BY PassMeansEqual DEF Shows, FullShows
<1>1. CASE \E c \in seen[1][p] : FullRecord(p, c) \in snap[1].overlay
  <2>1. PICK c \in seen[1][p] : FullRecord(p, c) \in snap[1].overlay
    BY <1>1
  <2>2. PICK d \in seen[2][p] : FullRecord(p, d) \in snap[2].overlay
    BY <2>1, <1>0, RecordsName DEF FullShown
  <2>3. FullRecord(p, c) = FullRecord(p, d)
    BY <2>1, <2>2, <1>0, RecordsName DEF OneRecord
  <2>4. CASE c = d
    BY <2>4
  <2>5. CASE p \in Module /\ c # Nothing /\ d # Nothing /\ c[2] = d[2]
    <3> Compared(p, c) = c[2] /\ Compared(p, d) = d[2]
      BY <2>5 DEF Compared
    <3> QED
      BY <2>5
  <2>6. c = d \/ (p \in Module /\ c # Nothing /\ d # Nothing /\ c[2] = d[2])
    BY <2>3, RecordsTell
  <2> QED
    BY <2>4, <2>5, <2>6
<1>2. CASE ~ \E c \in seen[1][p] : FullRecord(p, c) \in snap[1].overlay
  <2>1. Nothing \in seen[1][p] /\ \A r \in snap[1].overlay : r[1] # p
    BY <1>2, <1>0 DEF FullShown
  <2>2. Nothing \in seen[2][p]
    BY <2>1, <1>0, RecordsName DEF FullShown
  <2> QED
    BY <2>1, <2>2
<1> QED
  BY <1>1, <1>2

\* The property, from the invariant.
LEMMA PassingWasThere == GuardInv => PassedSourceWasThere
<1> SUFFICES ASSUME GuardInv, look.at = "pass", ~mixed, NEW p \in Path, Guarded(p)
             PROVE  \E c \in seen[1][p], d \in seen[2][p] : Compared(p, c) = Compared(p, d)
  BY DEF PassedSourceWasThere
<1>1. CASE snap[1].strategy = "overlay" /\ p \in File
  <2> PICK c \in seen[1][p] : c \in seen[2][p]
    BY <1>1, FileWasThere
  <2> QED
    OBVIOUS
<1>2. CASE snap[1].strategy = "overlay" /\ p \in Module
  <2> PICK c \in seen[1][p], d \in seen[2][p] : c # Nothing /\ d # Nothing /\ c[1] = d[1]
    BY <1>2, ModuleWasThere
  <2> QED
    BY <1>2 DEF Compared
<1>3. CASE snap[1].strategy = "full"
  <2> RootOf[p] # Nothing
    BY <1>3 DEF Guarded
  <2> QED
    BY <1>3, ReadWasThere
<1> QED
  BY <1>1, <1>2, <1>3, PassMeansEqual DEF Shows, Path

-----------------------------------------------------------------------------
(* Types.                                                                  *)

\* Types of what the snapshots are made of: a line of git status,
LEMMA StatusLineType ==
  ASSUME GuardTypeOK, head # 0, NEW p \in Path
  PROVE  StatusLine(p) \in Line
<1>1. commits[head] \in CommitTree
  BY DEF GuardTypeOK
<1>2. commits[head][p] \in Blob /\ index[p] \in Blob
  BY <1>1 DEF GuardTypeOK, CommitTree
<1>3. Differs(p) \in SUBSET {"deleted", "modified", "commit", "content"}
  BY DEF Differs
<1>4. Untracked(p) \in BOOLEAN
  BY DEF Untracked
<1> QED
  BY <1>2, <1>3, <1>4 DEF StatusLine, Line

\* a record,
LEMMA RecordType ==
  ASSUME GuardTypeOK, NEW p \in todo, ~Unresolved(p)
  PROVE  RecordOf(snap[look.of], p)
           \in Path \X {"T", "F", "D", "S", "clean", "dirty"} \X Blob \X Blob
<1> DEFINE s == snap[look.of]
<1>1. p \in Path /\ s \in Snapshot
  BY DEF GuardTypeOK
<1>2. s.index[p] \in Blob /\ work[p] \in Contents(p) /\ Nothing \in Blob
  BY <1>1 DEF GuardTypeOK, Snapshot, CommitTree, Blob
<1>3. p \in Module /\ work[p] # Nothing => work[p][1] \in Blob /\ work[p][2] \in Blob
  BY <1>2 DEF Contents, Blob
<1>4. CASE p \in Module /\ s.strategy = "overlay"
  <2>1. s.index[p] = Nothing \/ work[p] # Nothing
    BY <1>4 DEF Unresolved
  <2> QED
    BY <1>1, <1>2, <1>3, <1>4, <2>1 DEF RecordOf, GitlinkRecord
<1>5. CASE ~(p \in Module /\ s.strategy = "overlay")
  <2>1. p \in Module \/ work[p] \in Blob
    BY <1>2 DEF Contents
  <2> QED
    BY <1>1, <1>2, <1>3, <1>5, <2>1 DEF RecordOf, FullRecord, FileRecord
<1> QED
  BY <1>4, <1>5

\* the history of what was seen,
LEMMA SeenType ==
  ASSUME GuardTypeOK, NEW w \in [Path -> UNION {Contents(p) : p \in Path}], Watched, work' = w
  PROVE  seen' \in [1 .. 2 -> [Path -> SUBSET UNION {Contents(p) : p \in Path}]]
BY DEF GuardTypeOK, Watched

\* the count of changes,
LEMMA TouchType ==
  ASSUME GuardTypeOK, Touch
  PROVE  touches' \in 0 .. MaxTouches
BY TouchesAssumption DEF GuardTypeOK, Touch

\* and the roots that are there.
LEMMA OccupiedType ==
  ASSUME NEW w
  PROVE  Occupied(w) \subseteq Root
BY PathsAssumption DEF Occupied

\* Every step keeps the types.
LEMMA TypesHold ==
  ASSUME GuardTypeOK, AnswersHold, [GuardNext]_guardVars
  PROVE  GuardTypeOK'
<1> USE DEF GuardTypeOK, Goes, Takes, Surroundings
<1> DEFINE All == UNION {Contents(p) : p \in Path}
<1>1. CASE AskHead
  <2>1. snap' \in [1 .. 2 -> Snapshot]
    <3>1. head \in Nat
      OBVIOUS
    <3>2. [snap[look.of] EXCEPT !.roots = dirs, !.head = head] \in Snapshot
      BY <3>1 DEF Snapshot
    <3>3. snap' = [snap EXCEPT ![look.of] = [snap[look.of] EXCEPT !.roots = dirs, !.head = head]]
      BY <1>1 DEF AskHead
    <3> QED
      BY <3>2, <3>3
  <2>2. seen' \in [1 .. 2 -> [Path -> SUBSET All]]
    BY <1>1 DEF AskHead
  <2> QED
    BY <1>1, <2>1, <2>2 DEF AskHead
<1>2. CASE AskIndex
  <2>1. snap' \in [1 .. 2 -> Snapshot]
    BY <1>2 DEF AskIndex, Snapshot
  <2> QED
    BY <1>2, <2>1 DEF AskIndex
<1>3. CASE AskStatus
  <2>1. CASE repo = "unmerged"
    BY <1>3, <2>1 DEF AskStatus
  <2>2. CASE repo # "unmerged"
    <3> DEFINE s == snap[look.of]
               line == [p \in Path |-> StatusLine(p)]
               tracked == {p \in Path : Covers(s, p) /\ s.index[p] # Nothing}
               clean == {p \in tracked \cap File : ~IsDirty(line[p])}
               records == {<<p, "T", s.index[p], Nothing>> : p \in clean}
    <3>1. /\ snap' = [snap EXCEPT ![look.of].strategy = "overlay", ![look.of].status = line,
                         ![look.of].overlay = records]
          /\ todo' = (tracked \ clean) \cup {p \in Path : Covers(s, p) /\ line[p].untracked}
          /\ look' = [look EXCEPT !.at = "read"]
          /\ UNCHANGED <<seen, Surroundings>>
      BY <1>3, <2>2 DEF AskStatus
    <3>2. line \in [Path -> Line]
      <4> head # 0
        BY <1>3 DEF AnswersHold, AskStatus
      <4> QED
        BY StatusLineType
    <3>3. records \in SUBSET (Path \X {"T", "F", "D", "S", "clean", "dirty"} \X Blob \X Blob)
      <4> s.index \in CommitTree
        BY DEF Snapshot
      <4> \A p \in clean : p \in Path /\ s.index[p] \in Blob /\ Nothing \in Blob
        BY DEF CommitTree, Blob
      <4> HIDE DEF clean, s
      <4> QED
        OBVIOUS
    <3> HIDE DEF line, records
    <3>4. snap' \in [1 .. 2 -> Snapshot]
      <4> DEFINE r == [s EXCEPT !.strategy = "overlay", !.status = line, !.overlay = records]
      <4>1. s \in Snapshot
        OBVIOUS
      <4>2. r \in Snapshot
        BY <4>1, <3>2, <3>3 DEF Snapshot
      <4>3. snap' = [snap EXCEPT ![look.of] = r]
        BY <3>1
      <4> QED
        BY <4>2, <4>3
    <3>5. todo' \subseteq Path
      BY <3>1
    <3> QED
      BY <3>1, <3>4, <3>5
  <2> QED
    BY <2>1, <2>2
<1>4. CASE Walk
  <2>1. snap' \in [1 .. 2 -> Snapshot]
    <3> [p \in Path |-> Nothing] \in CommitTree
      BY DEF CommitTree, Blob
    <3> QED
      BY <1>4 DEF Walk, Snapshot, NoSnapshotYet
  <2> QED
    BY <1>4, <2>1 DEF Walk
<1>5. ASSUME NEW p \in Path, Read(p) PROVE GuardTypeOK'
  <2>1. CASE Unresolved(p)
    BY <1>5, <2>1 DEF Read
  <2>2. CASE ~Unresolved(p)
    <3>1. RecordOf(snap[look.of], p)
            \in Path \X {"T", "F", "D", "S", "clean", "dirty"} \X Blob \X Blob
      BY <1>5, <2>2, RecordType DEF Read
    <3>2. snap' \in [1 .. 2 -> Snapshot]
      BY <1>5, <2>2, <3>1 DEF Read, Snapshot
    <3> QED
      BY <1>5, <2>2, <3>2 DEF Read
  <2> QED
    BY <2>1, <2>2
<1>6. CASE Apply
  BY <1>6 DEF Apply
<1>7. CASE Compare
  BY <1>7 DEF Compare, Verdict, Verdicts
<1>8. CASE NextApply
  <2>1. snap' \in [1 .. 2 -> Snapshot]
    <3> [p \in Path |-> Nothing] \in CommitTree
      BY DEF CommitTree, Blob
    <3> QED
      BY <1>8 DEF NextApply, Begins, NoSnapshotYet, Snapshot
  <2>2. NothingSeen \in [1 .. 2 -> [Path -> SUBSET All]]
    BY DEF NothingSeen
  <2>3. /\ seen' = NothingSeen /\ mixed' = FALSE /\ todo' = {}
        /\ look' = [of |-> 1, at |-> "head"]
        /\ UNCHANGED <<work, dirs, index, commits, repo, head, touches>>
    BY <1>8 DEF NextApply, Begins
  <2>4. seen' \in [1 .. 2 -> [Path -> SUBSET All]]
    BY <2>2, <2>3
  <2>5. look' \in [of : 1 .. 2, at : {"head", "index", "status", "walk", "read", "unresolved"} \cup Verdicts]
    BY <2>3
  <2>6. mixed' \in BOOLEAN /\ todo' \subseteq Path
    BY <2>3
  <2> QED
    BY <2>1, <2>3, <2>4, <2>5, <2>6
<1>9. CASE EditSource
  <2>1. work' \in [Path -> All] /\ \A p \in Path : work'[p] \in Contents(p)
    BY <1>9 DEF EditSource
  <2>2. seen' \in [1 .. 2 -> [Path -> SUBSET All]]
    BY <1>9, <2>1, SeenType DEF EditSource
  <2>3. dirs' \subseteq Root
    BY <1>9, OccupiedType DEF EditSource
  <2> QED
    BY <1>9, <2>1, <2>2, <2>3, TouchType DEF EditSource
<1>10. CASE RemoveDirectory
  BY <1>10, TouchType DEF RemoveDirectory
<1>11. CASE Add
  <2>1. PICK p \in Path :
          /\ p \in Module => work[p] # Nothing
          /\ index' = [index EXCEPT ![p] = IF p \in Module THEN work[p][1] ELSE work[p]]
    BY <1>11 DEF Add
  <2>2. work[p] \in Contents(p)
    OBVIOUS
  <2>3. (IF p \in Module THEN work[p][1] ELSE work[p]) \in Blob
    BY <2>1, <2>2 DEF Contents, Blob
  <2>4. index' \in CommitTree
    BY <2>1, <2>3 DEF CommitTree
  <2> QED
    BY <1>11, <2>4, TouchType DEF Add, UsesGit
<1>12. CASE Commit
  <2>1. commits' \in Seq(CommitTree) /\ Len(commits') = Len(commits) + 1 /\ head' = Len(commits')
    BY <1>12 DEF Commit
  <2> QED
    BY <1>12, <2>1, TouchType DEF Commit, UsesGit
<1>13. CASE Reset
  <2>1. PICK c \in 1 .. Len(commits) :
          /\ head' = c /\ index' = commits[c]
          /\ work' = [p \in Path |->
                        IF p \in File /\ (Tracked(p) \/ commits[c][p] # Nothing)
                        THEN commits[c][p] ELSE work[p]]
    BY <1>13 DEF Reset
  <2>2. commits[c] \in CommitTree
    OBVIOUS
  <2>3. \A p \in Path : work'[p] \in Contents(p)
    BY <2>1, <2>2, PathsAssumption DEF CommitTree, Contents
  <2>4. work' \in [Path -> All]
    BY <2>1, <2>3
  <2>5. seen' \in [1 .. 2 -> [Path -> SUBSET All]]
    BY <1>13, <2>4, SeenType DEF Reset
  <2>6. dirs' \subseteq Root
    BY <1>13, OccupiedType DEF Reset
  <2> QED
    BY <1>13, <2>1, <2>2, <2>3, <2>4, <2>5, <2>6, TouchType DEF Reset, UsesGit
<1>14. CASE Merge
  <2>1. PICK p \in File, c \in Bytes : work' = [work EXCEPT ![p] = c]
    BY <1>14 DEF Merge
  <2>2. c \in Contents(p)
    BY PathsAssumption DEF Contents, Blob
  <2>3. work' \in [Path -> All] /\ \A q \in Path : work'[q] \in Contents(q)
    BY <2>1, <2>2 DEF Path
  <2>4. seen' \in [1 .. 2 -> [Path -> SUBSET All]]
    BY <1>14, <2>3, SeenType DEF Merge
  <2>5. dirs' \subseteq Root
    BY <1>14, OccupiedType DEF Merge
  <2> QED
    BY <1>14, <2>3, <2>4, <2>5, TouchType DEF Merge, UsesGit
<1>15. CASE UNCHANGED guardVars
  BY <1>15 DEF guardVars
<1> QED
  BY <1>1, <1>2, <1>3, <1>4, <1>5, <1>6, <1>7, <1>8, <1>9, <1>10, <1>11, <1>12, <1>13,
     <1>14, <1>15 DEF GuardNext

-----------------------------------------------------------------------------
(* What keeps a snapshot showing.                                          *)

\* What was seen of a path while a snapshot is taken is never forgotten.
LEMMA SeenGrows ==
  ASSUME GuardTypeOK, GuardTypeOK', Watched, UNCHANGED look
  PROVE  /\ \A l \in 1 .. 2, p \in Path : seen[l][p] \subseteq seen'[l][p]
         /\ Running => \A p \in Path : work'[p] \in seen'[look.of][p]
BY DEF GuardTypeOK, Watched

\* More may have been seen; nothing else matters.
LEMMA ShowsKept ==
  ASSUME NEW l \in 1 .. 2, Shows(l), snap'[l] = snap[l],
         \A p \in Path : seen[l][p] \subseteq seen'[l][p],
         \A p : Pending(l, p)' <=> Pending(l, p)
  PROVE  Shows(l)'
<1>1. OneRecord(l)'
  BY DEF Shows, OneRecord
<1>2. snap[l].strategy = "overlay" => OverlayShows(l)'
  <2> SUFFICES ASSUME snap[l].strategy = "overlay" PROVE OverlayShows(l)'
    OBVIOUS
  <2>0. OverlayShows(l)
    BY DEF Shows
  <2>1. RecordsCovered(l)' /\ (snap[l].head # 0)'
    BY <2>0 DEF OverlayShows, RecordsCovered
  <2>2. ASSUME NEW p \in File PROVE FileShown(l, p)'
    <3> FileShown(l, p) /\ seen[l][p] \subseteq seen'[l][p]
      BY <2>0 DEF OverlayShows, Path
    <3> QED
      BY DEF FileShown, Clean, Listed
  <2>3. ASSUME NEW p \in Module PROVE ModuleShown(l, p)'
    <3> ModuleShown(l, p) /\ seen[l][p] \subseteq seen'[l][p]
      BY <2>0 DEF OverlayShows, Path
    <3> QED
      BY DEF ModuleShown, Clean, Listed
  <2> QED
    BY <2>1, <2>2, <2>3 DEF OverlayShows
<1>3. snap[l].strategy = "full" => FullShows(l)'
  BY DEF Shows, FullShows, FullShown
<1> QED
  BY <1>1, <1>2, <1>3 DEF Shows

\* Whatever people do keeps what the snapshots show.
LEMMA PeopleKeep ==
  ASSUME GuardInv, UNCHANGED <<look, snap, todo>>, mixed => mixed',
         \A l \in 1 .. 2, p \in Path : seen[l][p] \subseteq seen'[l][p]
  PROVE  SnapshotsShow' /\ VerdictIsOfBoth'
<1>1. ASSUME NEW l \in 1 .. 2, Begun(l)' PROVE MissingRootsSeen(l)'
  <2> MissingRootsSeen(l)
    BY <1>1 DEF GuardInv, SnapshotsShow, Begun
  <2> QED
    BY DEF MissingRootsSeen
<1>2. ASSUME NEW l \in 1 .. 2, Asked(l)', ~mixed' PROVE Shows(l)'
  <2> Shows(l)
    BY <1>2 DEF GuardInv, SnapshotsShow, Asked
  <2> \A p : Pending(l, p)' <=> Pending(l, p)
    BY DEF Pending
  <2> QED
    BY ShowsKept
<1>3. VerdictIsOfBoth'
  BY DEF GuardInv, VerdictIsOfBoth, Verdict
<1> QED
  BY <1>1, <1>2, <1>3 DEF SnapshotsShow

\* A question of the running snapshot leaves a finished one alone.
LEMMA FinishedKept ==
  ASSUME GuardInv, NEW l \in 1 .. 2, l < look.of, look'.of = look.of,
         snap'[l] = snap[l], seen'[l] = seen[l], UNCHANGED mixed
  PROVE  MissingRootsSeen(l)' /\ (~mixed' => Shows(l)')
<1>1. MissingRootsSeen(l) /\ (~mixed => Shows(l))
  BY DEF GuardInv, SnapshotsShow, Begun, Asked
<1>2. \A p : Pending(l, p)' <=> Pending(l, p)
  BY DEF Pending, GuardInv, GuardTypeOK
<1>3. MissingRootsSeen(l)'
  BY <1>1 DEF MissingRootsSeen
<1> QED
  BY <1>1, <1>2, <1>3, ShowsKept

-----------------------------------------------------------------------------
(* What each question adds.                                                *)

\* What differs from the index in nothing is what the index says; an empty submodule
\* does not differ.
LEMMA CleanIsIndexed ==
  ASSUME NEW p \in Path, Tracked(p), Differs(p) = {}
  PROVE  /\ p \in File => work[p] = index[p]
         /\ p \in Module => work[p] = Nothing \/ work[p][1] = index[p]
<1>1. "deleted" \notin Differs(p) /\ "modified" \notin Differs(p) /\ "commit" \notin Differs(p)
  OBVIOUS
<1> QED
  BY <1>1 DEF Differs

\* The answer of git status shows of every path a moment of the snapshot.
LEMMA StatusShows ==
  ASSUME GuardInv, AskStatus, repo # "unmerged", ~mixed
  PROVE  Shows(look.of)'
<1> DEFINE l == look.of
           s == snap[l]
           line == [p \in Path |-> StatusLine(p)]
           tracked == {p \in Path : Covers(s, p) /\ s.index[p] # Nothing}
           clean == {p \in tracked \cap File : ~IsDirty(line[p])}
           records == {<<p, "T", s.index[p], Nothing>> : p \in clean}
<1>t. /\ l \in 1 .. 2 /\ s \in Snapshot /\ snap \in [1 .. 2 -> Snapshot]
      /\ look.at = "status" /\ look'.of = l /\ seen' = seen
  BY DEF GuardInv, GuardTypeOK, AskStatus, Goes
<1>1. /\ snap' = [snap EXCEPT ![l].strategy = "overlay", ![l].status = line,
                     ![l].overlay = records]
      /\ todo' = (tracked \ clean) \cup {p \in Path : Covers(s, p) /\ line[p].untracked}
  BY DEF AskStatus
<1>2. /\ snap'[l].strategy = "overlay" /\ snap'[l].status = line /\ snap'[l].overlay = records
      /\ snap'[l].head = s.head /\ snap'[l].index = s.index /\ snap'[l].roots = s.roots
  BY <1>1, <1>t DEF Snapshot
<1>3. s.index = index /\ s.head # 0
  BY <1>t DEF GuardInv, AnswersHold
<1>4. \A p \in Path : work[p] \in seen'[l][p]
  BY <1>t DEF GuardInv, PresentIsSeen, Running
<1>5. \A p \in Path : /\ line[p].untracked <=> Untracked(p)
                      /\ IsDirty(line[p]) <=> Differs(p) # {}
  BY DEF StatusLine, IsDirty
<1>6. \A p : Pending(l, p)' <=> p \in todo'
  BY <1>t DEF Pending
<1>7. \A p : Covers(s, p) <=> Covers(snap[l]', p)
  BY <1>t, <1>2 DEF Covers
<1> HIDE DEF line, s
<1>8. OneRecord(l)'
  <2>1. ASSUME NEW p \in clean PROVE p \notin todo'
    <3>1. p \in Path /\ s.index[p] # Nothing
      OBVIOUS
    <3>2. ~line[p].untracked
      BY <3>1, <1>3, <1>5 DEF Untracked, Tracked
    <3> QED
      BY <3>2, <1>1
  <2>2. \A r \in snap'[l].overlay :
          \E p \in clean : r = <<p, "T", s.index[p], Nothing>> /\ r[1] = p
    BY <1>2
  <2>3. \A r, q \in snap'[l].overlay : r[1] = q[1] => r = q
    BY <2>2
  <2>4. \A r \in snap'[l].overlay : ~Pending(l, r[1])'
    BY <2>1, <2>2, <1>6
  <2> QED
    BY <2>3, <2>4, <1>t DEF OneRecord
<1>9. RecordsCovered(l)'
  <2>1. \A r \in snap'[l].overlay : Covers(s, r[1])
    BY <1>2
  <2>2. \A p \in todo' : Covers(s, p)
    BY <1>1
  <2> HIDE DEF clean, tracked
  <2> QED
    BY <2>1, <2>2, <1>6, <1>7, <1>t DEF RecordsCovered
<1>10. ASSUME NEW p \in Path, Covers(s, p),
              (s.index[p] # Nothing /\ IsDirty(line[p])) \/ line[p].untracked
       PROVE  p \in todo'
  BY <1>1, <1>10
<1>11. ASSUME NEW p \in File PROVE FileShown(l, p)'
  <2>1. p \in Path
    BY DEF Path
  <2>2. Clean(l, p)' => index[p] \in seen'[l][p]
    BY <1>t, <2>1, <1>2, <1>3, <1>4, <1>5, CleanIsIndexed DEF Clean, Tracked
  <2>3. (Listed(l, p) \/ snap[l].status[p].untracked)' /\ Covers(snap[l]', p) => p \in todo'
    BY <1>t, <2>1, <1>2, <1>7, <1>10 DEF Listed
  <2>4. index[p] = Nothing /\ ~line[p].untracked /\ p \notin Ignored => Nothing \in seen'[l][p]
    BY <2>1, <1>4, <1>5 DEF Untracked, Tracked
  <2> QED
    BY <2>2, <2>3, <2>4, <1>2, <1>3, <1>6, <1>t DEF FileShown
<1>12. ASSUME NEW p \in Module PROVE ModuleShown(l, p)'
  <2>1. p \in Path
    BY DEF Path
  <2>2. Clean(l, p)' => work[p] = Nothing \/ (work[p] # Nothing /\ work[p][1] = index[p])
    BY <1>t, <2>1, <1>2, <1>3, <1>5, CleanIsIndexed DEF Clean, Tracked
  <2>3. Listed(l, p)' /\ Covers(snap[l]', p) => p \in todo'
    BY <1>t, <2>1, <1>2, <1>7, <1>10 DEF Listed
  <2> QED
    BY <2>1, <2>2, <2>3, <1>2, <1>3, <1>4, <1>6, <1>t DEF ModuleShown
<1> QED
  BY <1>2, <1>3, <1>8, <1>9, <1>11, <1>12, <1>t DEF Shows, OverlayShows

\* So does the list of a walk through the directories.
LEMMA WalkShows ==
  ASSUME GuardInv, Walk
  PROVE  Shows(look.of)'
<1> DEFINE l == look.of
<1>t. /\ l \in 1 .. 2 /\ snap \in [1 .. 2 -> Snapshot]
      /\ look.at = "walk" /\ look'.of = l /\ seen' = seen
  BY DEF GuardInv, GuardTypeOK, Walk, Goes
<1>1. /\ snap'[l].strategy = "full" /\ snap'[l].overlay = {} /\ snap'[l].head = 0
      /\ todo' = {p \in Path : RootOf[p] \in dirs /\ work[p] # Nothing}
  BY <1>t DEF Walk, NoSnapshotYet
<1>2. ASSUME NEW p \in Path, RootOf[p] # Nothing PROVE FullShown(l, p)'
  <2>1. work[p] \in seen'[l][p]
    BY <1>t DEF GuardInv, PresentIsSeen, Running
  <2>2. CASE work[p] = Nothing
    BY <2>1, <2>2, <1>1, <1>t DEF FullShown
  <2>3. CASE work[p] # Nothing
    <3> p \in todo'
      BY <2>3, <1>1, <1>2 DEF GuardInv, RootsExist
    <3> QED
      BY <1>t DEF FullShown, Pending
  <2> QED
    BY <2>2, <2>3
<1>3. OneRecord(l)'
  BY <1>1, <1>t DEF OneRecord
<1> QED
  BY <1>1, <1>2, <1>3, <1>t DEF Shows, FullShows

\* So does a record that is read.
LEMMA ReadShows ==
  ASSUME GuardInv, ~mixed, NEW p \in Path, Read(p), ~Unresolved(p)
  PROVE  Shows(look.of)'
<1> DEFINE l == look.of
           s == snap[l]
           rec == RecordOf(s, p)
<1>t. /\ l \in 1 .. 2 /\ s \in Snapshot /\ snap \in [1 .. 2 -> Snapshot]
      /\ look.at = "read" /\ look'.of = l /\ seen' = seen /\ p \in todo /\ todo' = todo \ {p}
  BY DEF GuardInv, GuardTypeOK, Read
<1>1. /\ snap'[l].overlay = s.overlay \cup {rec}
      /\ snap'[l].strategy = s.strategy /\ snap'[l].head = s.head /\ snap'[l].roots = s.roots
      /\ snap'[l].index = s.index /\ snap'[l].status = s.status
  BY <1>t DEF Read, Takes, Snapshot
<1>2. Shows(l) /\ work[p] \in seen[l][p]
  BY <1>t DEF GuardInv, SnapshotsShow, Asked, PresentIsSeen, Running
<1>3. rec[1] = p
  BY DEF RecordOf, GitlinkRecord, FullRecord, FileRecord
<1>4. \A q : Pending(l, q)' <=> Pending(l, q) /\ q # p
  BY <1>t DEF Pending
<1>5. OneRecord(l)'
  <2>1. \A r \in s.overlay : r[1] # p
    BY <1>2, <1>t DEF Shows, OneRecord, Pending
  <2> HIDE DEF rec, s
  <2> QED
    BY <2>1, <1>1, <1>2, <1>3, <1>4, <1>t DEF Shows, OneRecord, s
<1>6. CASE s.strategy = "overlay"
  <2>0. OverlayShows(l)
    BY <1>2, <1>6 DEF Shows
  <2>1. RecordsCovered(l)'
    <3>1. Covers(s, p)
      BY <2>0, <1>t DEF OverlayShows, RecordsCovered, Pending
    <3>2. \A q : Covers(s, q) <=> Covers(snap[l]', q)
      BY <1>1, <1>t DEF Covers
    <3> HIDE DEF rec
    <3> QED
      BY <3>1, <3>2, <2>0, <1>1, <1>3, <1>4, <1>t DEF OverlayShows, RecordsCovered
  <2>2. ASSUME NEW q \in File PROVE FileShown(l, q)'
    <3>1. FileShown(l, q) /\ FileShown(l, q)!1 /\ FileShown(l, q)!3
      BY <2>0 DEF OverlayShows, FileShown
    <3>2. q = p => rec = FileRecord(p, work[p])
      BY PathsAssumption DEF RecordOf, FullRecord
    <3> HIDE DEF rec
    <3> QED
      BY <3>1, <3>2, <1>1, <1>2, <1>4, <1>t DEF FileShown, Clean, Listed, Covers
  <2>3. ASSUME NEW q \in Module PROVE ModuleShown(l, q)'
    <3>1. ModuleShown(l, q)
      BY <2>0 DEF OverlayShows
    <3>2. q = p /\ Listed(l, p) =>
            work[p] # Nothing /\ rec = <<p, "dirty", s.index[p], work[p][1]>>
      BY <1>6 DEF RecordOf, GitlinkRecord, Listed, Unresolved
    <3> HIDE DEF rec
    <3> QED
      BY <3>1, <3>2, <1>1, <1>2, <1>4, <1>t DEF ModuleShown, Clean, Listed, Covers
  <2> HIDE DEF rec
  <2> QED
    BY <2>0, <2>1, <2>2, <2>3, <1>1, <1>5, <1>6, <1>t DEF Shows, OverlayShows
<1>7. CASE s.strategy = "full"
  <2>0. FullShows(l)
    BY <1>2, <1>7 DEF Shows
  <2>1. rec = FullRecord(p, work[p])
    BY <1>7 DEF RecordOf
  <2>2. ASSUME NEW q \in Path, RootOf[q] # Nothing PROVE FullShown(l, q)'
    <3>1. FullShown(l, q)
      BY <2>0, <2>2 DEF FullShows
    <3> HIDE DEF rec
    <3> QED
      BY <3>1, <2>1, <1>1, <1>2, <1>3, <1>4, <1>t DEF FullShown
  <2> HIDE DEF rec
  <2> QED
    BY <2>0, <2>2, <1>1, <1>5, <1>7, <1>t DEF Shows, FullShows
<1> QED
  BY <1>2, <1>6, <1>7 DEF Shows

-----------------------------------------------------------------------------
(* Every step keeps the invariant.                                         *)

\* Before the first snapshot the invariant holds.
LEMMA InitHolds == GuardInit => GuardInv
<1> SUFFICES ASSUME GuardInit PROVE GuardInv
  OBVIOUS
<1>1. GuardTypeOK
  <2>1. commits \in Seq(CommitTree) /\ head \in 0 .. Len(commits)
    <3>1. commits \in {<<>>} \cup {<<t>> : t \in CommitTree}
      BY Zenon DEF GuardInit
    <3>2. commits \in Seq(CommitTree)
      <4>1. commits = <<>> \/ \E t \in CommitTree : commits = <<t>>
        BY <3>1, Zenon
      <4>2. \A t \in CommitTree : <<t>> \in Seq(CommitTree)
        OBVIOUS
      <4>3. <<>> \in Seq(CommitTree)
        OBVIOUS
      <4>4. CASE commits = <<>>
        BY <4>3, <4>4
      <4>5. ASSUME NEW t \in CommitTree, commits = <<t>> PROVE commits \in Seq(CommitTree)
        BY <4>2, <4>5
      <4> QED
        BY <4>1, <4>4, <4>5
    <3>3. head = Len(commits)
      BY DEF GuardInit
    <3> QED
      BY <3>2, <3>3
  <2>2. [p \in Path |-> Nothing] \in CommitTree
    BY DEF CommitTree, Blob
  <2>3. index \in CommitTree
    BY <2>1, <2>2 DEF GuardInit
  <2>4. NoSnapshotYet \in Snapshot
    BY <2>2 DEF NoSnapshotYet, Snapshot
  <2>5. seen \in [1 .. 2 -> [Path -> SUBSET UNION {Contents(p) : p \in Path}]]
    BY DEF GuardInit, NothingSeen
  <2>6. /\ work \in [Path -> UNION {Contents(p) : p \in Path}]
        /\ \A p \in Path : work[p] \in Contents(p)
        /\ dirs \subseteq Root /\ repo \in {"none", "git", "unmerged"} /\ mixed \in BOOLEAN
        /\ touches \in 0 .. MaxTouches /\ todo \subseteq Path
        /\ look \in [of : 1 .. 2, at : {"head", "index", "status", "walk", "read", "unresolved"} \cup Verdicts]
    <3>1. /\ dirs \in SUBSET Root /\ repo \in {"none", "git"} /\ mixed = FALSE
          /\ touches = 0 /\ todo = {} /\ look = [of |-> 1, at |-> "head"]
          /\ work \in [Path -> UNION {Contents(p) : p \in Path}]
          /\ \A p \in Path : work[p] \in Contents(p)
      BY Zenon DEF GuardInit
    <3>2. look \in [of : 1 .. 2, at : {"head", "index", "status", "walk", "read", "unresolved"} \cup Verdicts]
      BY <3>1
    <3>3. touches \in 0 .. MaxTouches
      BY <3>1, TouchesAssumption
    <3> QED
      BY <3>1, <3>2, <3>3, Zenon
  <2>7. snap \in [1 .. 2 -> Snapshot]
    <3> snap = [l \in 1 .. 2 |-> NoSnapshotYet]
      BY Zenon DEF GuardInit
    <3> QED
      BY <2>4
  <2> QED
    BY <2>1, <2>3, <2>5, <2>6, <2>7 DEF GuardTypeOK
<1>2. RootsExist
  BY DEF GuardInit, RootsExist, Occupied
<1>3. PresentIsSeen /\ AnswersHold /\ SnapshotsShow /\ VerdictIsOfBoth
  BY DEF GuardInit, PresentIsSeen, AnswersHold, SnapshotsShow, VerdictIsOfBoth, Running, Begun,
         Asked, Verdicts
<1> QED
  BY <1>1, <1>2, <1>3 DEF GuardInv

\* A directory that holds a path is there, whoever made or emptied it.
LEMMA RootsKept ==
  ASSUME RootsExist, dirs' = dirs \cup Occupied(work')
  PROVE  RootsExist'
BY DEF RootsExist, Occupied

\* A snapshot starts by asking for HEAD, with the other questions open.
LEMMA HeadStep ==
  ASSUME GuardInv, GuardTypeOK', AskHead
  PROVE  GuardInv'
<1> DEFINE l == look.of
<1>t. /\ l \in 1 .. 2 /\ snap \in [1 .. 2 -> Snapshot]
      /\ look'.of = l /\ look'.at = IF head = 0 THEN "walk" ELSE "index"
      /\ snap'[l].roots = dirs /\ snap'[l].head = head
      /\ seen'[l] = [p \in Path |-> {work[p]}]
      /\ UNCHANGED <<todo, work, dirs, index, commits, repo, head, mixed, touches>>
  <2>1. l \in 1 .. 2 /\ snap \in [1 .. 2 -> Snapshot] /\ snap[l] \in Snapshot
    BY DEF GuardInv, GuardTypeOK
  <2>2. snap' = [snap EXCEPT ![l].roots = dirs, ![l].head = head]
    BY DEF AskHead
  <2>3. snap'[l].roots = dirs /\ snap'[l].head = head
    BY <2>1, <2>2 DEF Snapshot
  <2>4. seen'[l] = [p \in Path |-> {work[p]}]
    BY DEF AskHead, GuardInv, GuardTypeOK
  <2> QED
    BY <2>1, <2>3, <2>4 DEF GuardInv, GuardTypeOK, AskHead, Goes, Surroundings
<1>1. RootsExist' /\ PresentIsSeen' /\ AnswersHold' /\ VerdictIsOfBoth'
  BY <1>t DEF GuardInv, RootsExist, PresentIsSeen, AnswersHold, VerdictIsOfBoth, Verdicts
<1>2. ASSUME NEW m \in 1 .. 2, Begun(m)' PROVE MissingRootsSeen(m)'
  <2>1. CASE m = l
    BY <2>1, <1>t DEF GuardInv, RootsExist, MissingRootsSeen
  <2>2. CASE m # l
    <3> m < l
      BY <2>2, <1>2, <1>t DEF Begun
    <3> snap'[m] = snap[m] /\ seen'[m] = seen[m]
      BY <2>2 DEF AskHead, GuardInv, GuardTypeOK
    <3> QED
      BY <1>t, FinishedKept
  <2> QED
    BY <2>1, <2>2
<1>3. ASSUME NEW m \in 1 .. 2, Asked(m)', ~mixed' PROVE Shows(m)'
  <2> m < l
    BY <1>3, <1>t DEF Asked, Verdicts
  <2> snap'[m] = snap[m] /\ seen'[m] = seen[m]
    BY <1>t DEF AskHead, GuardInv, GuardTypeOK
  <2> QED
    BY <1>3, <1>t, FinishedKept
<1> QED
  BY <1>1, <1>2, <1>3 DEF GuardInv, SnapshotsShow

\* The questions after HEAD write the snapshot being taken and keep its roots.
LEMMA QuestionStep ==
  ASSUME GuardInv, GuardTypeOK', look'.of = look.of, seen' = seen, UNCHANGED Surroundings,
         Running, look'.at \in {"status", "walk", "read", "unresolved"},
         \A l \in 1 .. 2 : l # look.of => snap'[l] = snap[l],
         snap'[look.of].roots = snap[look.of].roots,
         look'.at = "status" =>
           head # 0 /\ snap'[look.of].head # 0 /\ (~mixed => snap'[look.of].index = index),
         look'.at \in {"read", "unresolved"} /\ ~mixed => Shows(look.of)'
  PROVE  GuardInv'
<1> USE DEF Surroundings
<1>t. look.of \in 1 .. 2 /\ look.at # "head"
  BY DEF GuardInv, GuardTypeOK, Running
<1>1. RootsExist' /\ PresentIsSeen' /\ AnswersHold' /\ VerdictIsOfBoth'
  BY DEF GuardInv, RootsExist, PresentIsSeen, AnswersHold, VerdictIsOfBoth, Verdicts
<1>2. ASSUME NEW m \in 1 .. 2, m < look.of PROVE MissingRootsSeen(m)' /\ (~mixed' => Shows(m)')
  BY <1>2, FinishedKept
<1>3. MissingRootsSeen(look.of)'
  BY <1>t DEF GuardInv, SnapshotsShow, Begun, MissingRootsSeen
<1>4. ASSUME NEW m \in 1 .. 2, Begun(m)' PROVE MissingRootsSeen(m)'
  BY <1>2, <1>3, <1>4 DEF Begun
<1>5. ASSUME NEW m \in 1 .. 2, Asked(m)', ~mixed' PROVE Shows(m)'
  <2>1. CASE m < look.of
    BY <2>1, <1>2, <1>5
  <2>2. CASE m = look.of
    <3>1. look'.at \in {"read", "unresolved"} \cup Verdicts
      BY <2>2, <1>5 DEF Asked
    <3> look'.at \in {"read", "unresolved"}
      BY <3>1 DEF Verdicts
    <3> Shows(look.of)'
      BY <1>5
    <3> QED
      BY <2>2 DEF Shows, OneRecord, OverlayShows, FullShows, RecordsCovered, FileShown,
                  ModuleShown, FullShown, Clean, Listed, Pending
  <2> QED
    BY <2>1, <2>2, <1>5 DEF Asked
<1> QED
  BY <1>1, <1>4, <1>5 DEF GuardInv, SnapshotsShow

\* Every question of a snapshot keeps the invariant.
LEMMA QuestionsHold ==
  ASSUME GuardInv, GuardTypeOK',
         AskIndex \/ AskStatus \/ Walk \/ \E p \in Path : Read(p)
  PROVE  GuardInv'
<1>t. /\ look.of \in 1 .. 2 /\ snap \in [1 .. 2 -> Snapshot]
  BY DEF GuardInv, GuardTypeOK
<1>1. CASE AskIndex
  <2>1. /\ look'.of = look.of /\ look'.at = "status" /\ Running
        /\ snap' = [snap EXCEPT ![look.of].index = index] /\ seen' = seen
        /\ UNCHANGED Surroundings
    BY <1>1 DEF AskIndex, Takes, Goes, Running, GuardInv, GuardTypeOK
  <2>2. /\ snap'[look.of].index = index /\ snap'[look.of].roots = snap[look.of].roots
        /\ snap'[look.of].head = snap[look.of].head
        /\ \A l \in 1 .. 2 : l # look.of => snap'[l] = snap[l]
    BY <2>1, <1>t DEF Snapshot
  <2>3. head # 0 /\ snap[look.of].head # 0
    BY <1>1 DEF GuardInv, AnswersHold, AskIndex
  <2> QED
    BY <2>1, <2>2, <2>3, QuestionStep
<1>2. CASE AskStatus
  <2>1. /\ look'.of = look.of /\ look'.at \in {"walk", "read"} /\ Running
        /\ repo # "unmerged" => look'.at = "read"
        /\ repo = "unmerged" => look'.at = "walk"
        /\ seen' = seen /\ UNCHANGED Surroundings
    BY <1>2 DEF AskStatus, Goes, Running, GuardInv, GuardTypeOK
  <2>2. /\ snap'[look.of].roots = snap[look.of].roots
        /\ \A l \in 1 .. 2 : l # look.of => snap'[l] = snap[l]
    <3> DEFINE line == [p \in Path |-> StatusLine(p)]
    <3> HIDE DEF line
    <3>1. CASE repo = "unmerged"
      BY <1>2, <3>1 DEF AskStatus
    <3>2. CASE repo # "unmerged"
      <4>1. PICK records : snap' = [snap EXCEPT ![look.of].strategy = "overlay",
                                       ![look.of].status = line, ![look.of].overlay = records]
        BY <1>2, <3>2 DEF AskStatus, line
      <4> QED
        BY <4>1, <1>t DEF Snapshot
    <3> QED
      BY <3>1, <3>2
  <2> QED
    BY <1>2, <2>1, <2>2, StatusShows, QuestionStep
<1>3. CASE Walk
  <2>1. /\ look'.of = look.of /\ look'.at = "read" /\ Running
        /\ seen' = seen /\ UNCHANGED Surroundings
    BY <1>3 DEF Walk, Goes, Running, GuardInv, GuardTypeOK
  <2>2. /\ snap'[look.of].roots = snap[look.of].roots
        /\ \A l \in 1 .. 2 : l # look.of => snap'[l] = snap[l]
    BY <1>3, <1>t DEF Walk, NoSnapshotYet
  <2> QED
    BY <1>3, <2>1, <2>2, WalkShows, QuestionStep
<1>4. ASSUME NEW p \in Path, Read(p) PROVE GuardInv'
  <2>0. look.at = "read" /\ Running /\ seen' = seen /\ UNCHANGED Surroundings
    BY <1>4 DEF Read, Running
  <2>1. CASE Unresolved(p)
    <3>1. /\ look'.of = look.of /\ look'.at = "unresolved" /\ snap' = snap /\ todo' = todo
      BY <1>4, <2>1 DEF Read, Goes, GuardInv, GuardTypeOK
    <3>2. ~mixed => Shows(look.of)
      BY <1>t, <2>0 DEF GuardInv, SnapshotsShow, Asked
    <3>3. \A q : Pending(look.of, q)' <=> Pending(look.of, q)
      BY <3>1 DEF Pending
    <3>4. ~mixed => Shows(look.of)'
      <4> SUFFICES ASSUME ~mixed, NEW l \in 1 .. 2, l = look.of PROVE Shows(l)'
        BY <3>1, <1>t DEF Shows, OneRecord, OverlayShows, FullShows, RecordsCovered, FileShown,
                  ModuleShown, FullShown, Clean, Listed, Pending
      <4> QED
        BY <2>0, <3>1, <3>2, <3>3, ShowsKept DEF Pending
    <3> QED
      BY <2>0, <3>1, <3>4, QuestionStep
  <2>2. CASE ~Unresolved(p)
    <3>1. look' = look /\ snap' = [snap EXCEPT ![look.of].overlay
                                      = snap[look.of].overlay \cup {RecordOf(snap[look.of], p)}]
      BY <1>4, <2>2 DEF Read, Takes
    <3>2. /\ snap'[look.of].roots = snap[look.of].roots
          /\ \A l \in 1 .. 2 : l # look.of => snap'[l] = snap[l]
      BY <3>1, <1>t DEF Snapshot
    <3> QED
      BY <1>4, <2>0, <2>2, <3>1, <3>2, ReadShows, QuestionStep
  <2> QED
    BY <2>1, <2>2
<1> QED
  BY <1>1, <1>2, <1>3, <1>4

\* A complete snapshot has nothing pending, whichever is the one being taken.
LEMMA BoundariesHold ==
  ASSUME GuardInv, GuardTypeOK', Apply \/ Compare \/ NextApply
  PROVE  GuardInv'
<1>1. CASE Apply
  <2>1. /\ look.of = 1 /\ look.at = "read" /\ todo = {} /\ look'.of = 2 /\ look'.at = "head"
        /\ UNCHANGED <<snap, todo, seen, work, dirs, index, commits, repo, head, mixed, touches>>
    BY <1>1 DEF Apply, Surroundings
  <2>2. RootsExist' /\ PresentIsSeen' /\ AnswersHold' /\ VerdictIsOfBoth'
    BY <2>1 DEF GuardInv, RootsExist, PresentIsSeen, AnswersHold, VerdictIsOfBoth, Running, Verdicts
  <2>3. MissingRootsSeen(1)'
    BY <2>1 DEF GuardInv, SnapshotsShow, Begun, MissingRootsSeen
  <2>4. ~mixed' => Shows(1)'
    <3>1. ~mixed => Shows(1)
      BY <2>1 DEF GuardInv, SnapshotsShow, Asked
    <3>2. \A p : Pending(1, p)' <=> Pending(1, p)
      BY <2>1 DEF Pending
    <3> QED
      BY <2>1, <3>1, <3>2, ShowsKept
  <2>5. \A l \in 1 .. 2 : Begun(l)' \/ Asked(l)' => l = 1
    BY <2>1 DEF Begun, Asked, Verdicts
  <2> QED
    BY <2>2, <2>3, <2>4, <2>5 DEF GuardInv, SnapshotsShow
<1>2. CASE Compare
  <2>1. /\ look.of = 2 /\ look.at = "read" /\ todo = {} /\ look'.of = 2 /\ look'.at = Verdict
        /\ UNCHANGED <<snap, todo, seen, work, dirs, index, commits, repo, head, mixed, touches>>
    BY <1>2 DEF Compare, Surroundings, Goes, GuardInv, GuardTypeOK
  <2>2. Verdict \in Verdicts /\ Verdict' = Verdict
    BY <2>1 DEF Verdict, Verdicts
  <2>3. RootsExist' /\ PresentIsSeen' /\ AnswersHold' /\ VerdictIsOfBoth'
    BY <2>1, <2>2 DEF GuardInv, RootsExist, PresentIsSeen, AnswersHold, VerdictIsOfBoth, Running,
                      Verdicts
  <2>4. ASSUME NEW l \in 1 .. 2 PROVE MissingRootsSeen(l)' /\ (~mixed' => Shows(l)')
    <3>1. Begun(l) /\ Asked(l)
      BY <2>1 DEF Begun, Asked
    <3>2. MissingRootsSeen(l) /\ (~mixed => Shows(l))
      BY <3>1 DEF GuardInv, SnapshotsShow
    <3>3. \A p : Pending(l, p)' <=> Pending(l, p)
      BY <2>1 DEF Pending
    <3>4. MissingRootsSeen(l)'
      BY <2>1, <3>2 DEF MissingRootsSeen
    <3> QED
      BY <2>1, <3>2, <3>3, <3>4, ShowsKept
  <2> QED
    BY <2>3, <2>4 DEF GuardInv, SnapshotsShow
<1>3. CASE NextApply
  <2>1. /\ look'.of = 1 /\ look'.at = "head"
        /\ UNCHANGED <<work, dirs, index, commits, repo, head, touches>>
    BY <1>3 DEF NextApply, Begins
  <2>2. RootsExist' /\ PresentIsSeen' /\ AnswersHold' /\ VerdictIsOfBoth'
    BY <2>1 DEF GuardInv, RootsExist, PresentIsSeen, AnswersHold, VerdictIsOfBoth, Running, Verdicts
  <2>3. \A l \in 1 .. 2 : ~Begun(l)' /\ ~Asked(l)'
    BY <2>1 DEF Begun, Asked, Verdicts
  <2> QED
    BY <2>2, <2>3 DEF GuardInv, SnapshotsShow
<1> QED
  BY <1>1, <1>2, <1>3

\* Nothing people do undoes what a snapshot shows.
LEMMA PeopleHold ==
  ASSUME GuardInv, GuardTypeOK',
         EditSource \/ RemoveDirectory \/ Add \/ Commit \/ Reset \/ Merge
  PROVE  GuardInv'
<1>u. UNCHANGED <<look, snap, todo>>
  BY DEF EditSource, RemoveDirectory, Add, Commit, Reset, Merge
<1>1. RootsExist'
  <2>1. CASE EditSource \/ Reset \/ Merge
    <3> dirs' = dirs \cup Occupied(work')
      BY <2>1 DEF EditSource, Reset, Merge
    <3> QED
      BY RootsKept DEF GuardInv
  <2>2. CASE RemoveDirectory
    <3> PICK r \in dirs \ Occupied(work) : dirs' = dirs \ {r}
      BY <2>2 DEF RemoveDirectory
    <3> work' = work
      BY <2>2 DEF RemoveDirectory
    <3> QED
      BY DEF GuardInv, RootsExist, Occupied
  <2>3. CASE Add \/ Commit
    BY <2>3 DEF Add, Commit, GuardInv, RootsExist
  <2> QED
    BY <2>1, <2>2, <2>3
<1>2. /\ \A l \in 1 .. 2, p \in Path : seen[l][p] \subseteq seen'[l][p]
      /\ PresentIsSeen'
  <2>1. CASE EditSource \/ Reset \/ Merge
    <3> Watched
      BY <2>1 DEF EditSource, Reset, Merge
    <3> QED
      BY <1>u, SeenGrows DEF GuardInv, PresentIsSeen, Running
  <2>2. CASE RemoveDirectory \/ Add \/ Commit
    <3> UNCHANGED <<seen, work>>
      BY <2>2 DEF RemoveDirectory, Add, Commit
    <3> QED
      BY <1>u DEF GuardInv, PresentIsSeen, Running
  <2> QED
    BY <2>1, <2>2
<1>3. /\ mixed => mixed'
      /\ look.at = "status" /\ ~mixed' => UNCHANGED index
  <2>1. CASE EditSource \/ RemoveDirectory
    BY <2>1 DEF EditSource, RemoveDirectory
  <2>2. CASE Add \/ Commit \/ Reset \/ Merge
    <3> mixed' = (mixed \/ look.at = "status")
      BY <2>2, Zenon DEF Add, Commit, Reset, Merge, UsesGit
    <3> QED
      OBVIOUS
  <2> QED
    BY <2>1, <2>2
<1>4. head # 0 => head' # 0
  <2>1. CASE EditSource \/ RemoveDirectory \/ Add \/ Merge
    BY <2>1 DEF EditSource, RemoveDirectory, Add, Merge
  <2>2. CASE Commit
    <3> Len(commits') = Len(commits) + 1 /\ head' = Len(commits') /\ Len(commits) \in Nat
      BY <2>2 DEF Commit, GuardInv, GuardTypeOK
    <3> QED
      OBVIOUS
  <2>3. CASE Reset
    <3> PICK c \in 1 .. Len(commits) : head' = c
      BY <2>3 DEF Reset
    <3> QED
      BY DEF GuardInv, GuardTypeOK
  <2> QED
    BY <2>1, <2>2, <2>3
<1>5. AnswersHold'
  BY <1>u, <1>3, <1>4 DEF GuardInv, AnswersHold
<1>6. SnapshotsShow' /\ VerdictIsOfBoth'
  BY <1>u, <1>2, <1>3, PeopleKeep
<1> QED
  BY <1>1, <1>2, <1>5, <1>6 DEF GuardInv

\* The invariant is inductive, whatever people do between the questions.
LEMMA StepHolds == GuardInv /\ [GuardNext]_guardVars => GuardInv'
<1> SUFFICES ASSUME GuardInv, [GuardNext]_guardVars PROVE GuardInv'
  OBVIOUS
<1>t. GuardTypeOK'
  BY TypesHold DEF GuardInv
<1>1. CASE AskHead
  BY <1>1, <1>t, HeadStep
<1>2. CASE AskIndex \/ AskStatus \/ Walk \/ \E p \in Path : Read(p)
  BY <1>2, <1>t, QuestionsHold
<1>3. CASE Apply \/ Compare \/ NextApply
  BY <1>3, <1>t, BoundariesHold
<1>4. CASE EditSource \/ RemoveDirectory \/ Add \/ Commit \/ Reset \/ Merge
  BY <1>4, <1>t, PeopleHold
<1>5. CASE UNCHANGED guardVars
  <2>1. UNCHANGED <<look, snap, todo, seen, mixed, work, dirs, index, head>>
    BY <1>5 DEF guardVars
  <2>2. RootsExist' /\ PresentIsSeen' /\ AnswersHold'
    BY <2>1 DEF GuardInv, RootsExist, PresentIsSeen, AnswersHold, Running
  <2>3. SnapshotsShow' /\ VerdictIsOfBoth'
    BY <2>1, PeopleKeep
  <2> QED
    BY <1>t, <2>2, <2>3 DEF GuardInv
<1> QED
  BY <1>1, <1>2, <1>3, <1>4, <1>5 DEF GuardNext

-----------------------------------------------------------------------------

\* Every value the guard works with has its type.
THEOREM GuardTypeCorrect == GuardSpec => []GuardTypeOK
<1>1. GuardInv => GuardTypeOK
  BY DEF GuardInv
<1> QED
  BY <1>1, InitHolds, StepHolds, PTL DEF GuardSpec

\* An apply that passes the guard found every business file as it was, whatever people
\* did meanwhile, unless Git was used between ls-files and status
\* (compare_business_snapshots, build_git_file_index).
THEOREM PassedSourceWasThereHolds == GuardSpec => []PassedSourceWasThere
BY InitHolds, StepHolds, PassingWasThere, PTL DEF GuardSpec
=============================================================================
