------------------------------ MODULE Installer ------------------------------
(***************************************************************************)
(* The installer of the engineering skills (install.py, which hands over to *)
(* install_v500.py on the base of install_v430.py) and rollback.py, on the  *)
(* files of one consumer project.  Each file is recorded and backed up      *)
(* before it is first written; an exception restores from the backups; the  *)
(* manifest that rollback.py reads is written before validation and again   *)
(* at the end.  Copies can fail or tear, a process can be killed anywhere.  *)
(*                                                                          *)
(* One installer or rollback runs at a time and nobody edits meanwhile.     *)
(* "-" is no record.  Of a content the model keeps where it comes from: a   *)
(* release, a profile, an installation, the consumer's project before, one  *)
(* of his edits.                                                            *)
(***************************************************************************)
EXTENDS Naturals

CONSTANTS
    Skills,   \* managed files below .agents
    Seeds,    \* consumer-owned skills that a greenfield project may lack
    Copies,   \* files below .cursor/skills
    CopyOf,   \* the skill or seed each of them mirrors
    Rank,     \* the order of the paths, in which each phase writes
    Releases, Ships,   \* releases and the skills they ship
    Policy,   \* the mirror policy of each profile, the consumer's own one included
    Ids, Time,  \* installations, in the order they are made
    Edits,      \* what the consumer writes, each once
    Editable, MaxDisturb  \* bounds

Profiles == DOMAIN Policy \ Edits
Canonical == Skills \cup Seeds
Consumers == Canonical \cup Copies \cup {"profile"}
Paths == Consumers \cup {"lock", "receipt"}
Plain == {"absent", "own", "torn", "seed"}
Contents == Releases \cup Profiles \cup Ids \cup Edits \cup Plain
Images == [Paths -> Contents \cup {"-"}]
Blank == [p \in Paths |-> "-"]

\* The mirror policy "declared-managed-set" is one of the first two, as
\* .cursor/skills exists or not.
ASSUME InstallerAssumption ==
    /\ CopyOf \in [Copies -> Canonical] /\ Rank \in [Paths -> Nat]
    /\ Skills \cap Seeds = {} /\ Canonical \cap Copies = {}
    /\ {"profile", "lock", "receipt"} \cap (Canonical \cup Copies) = {}
    /\ Ships \in [Releases -> SUBSET Skills] /\ "generic" \in Profiles
    /\ Policy \in [DOMAIN Policy -> {"none", "managed-set", "full-tree"}]
    /\ Time \in [Ids -> Nat] /\ \A i, j \in Ids : Time[i] = Time[j] => i = j
    /\ Editable \subseteq Consumers /\ MaxDisturb \in Nat
    /\ "-" \notin Contents \cup Paths /\ Edits \cap (Releases \cup Ids) = {}
    /\ Plain \cap (Releases \cup DOMAIN Policy \cup Ids \cup Edits) = {}

VARIABLES
    files,     \* the project
    run,       \* the installer or rollback at work
    journal,   \* .smc/skill-upgrade-backups and what each lock says is owned
    mine,      \* history: what the consumer last put into each file, if worth keeping
    edits,     \* the file each edit so far was of
    disturbed  \* processes that died, rollbacks that were forced, restores from half a backup

vars == <<files, run, journal, mine, edits, disturbed>>

Idle == [phase |-> "idle", id |-> "-", release |-> "-", profile |-> "-", kept |-> FALSE,
         forced |-> FALSE, todo |-> {}, start |-> Blank, before |-> Blank, after |-> Blank]

Init ==
    /\ files \in [Paths -> {"absent", "own"}]
    /\ \A p \in Skills \cup Copies \cup {"profile", "lock", "receipt"} : files[p] = "absent"
    /\ run = Idle
    /\ journal = [i \in Ids |-> [manifest |-> "-", before |-> Blank, after |-> Blank,
                                 backup |-> Blank, owned |-> Blank, undone |-> FALSE]]
    /\ mine = [p \in Consumers |-> IF files[p] = "own" THEN "own" ELSE "-"]
    /\ edits = [e \in Edits |-> "-"] /\ disturbed = 0

----------------------------------------------------------------------------
(* install_v430.main with the hooks of install_v500 *)

\* resolve_profile; a selector "-" is a run without --profile.
ProfileFor(selector) ==
    IF selector # "-" THEN selector
    ELSE IF files["profile"] # "absent" THEN files["profile"] ELSE "generic"

\* seed_consumer_skills
Missing == {p \in Seeds : files[p] = "absent"}

\* The names of the installations are random.
StartInstall(i, release, selector, seed) ==
    LET profile == ProfileFor(selector)
        kept == selector = "-" /\ files["profile"] # "absent"
    IN  /\ run = Idle
        /\ journal[i].manifest = "-" /\ \A j \in Ids : Time[j] < Time[i] => journal[j].manifest # "-"
        /\ profile \in DOMAIN Policy
        /\ seed \/ \A p \in Seeds : files[p] # "absent"
        /\ run' = [phase |-> "seed", id |-> i, release |-> release, profile |-> profile,
                   kept |-> kept, forced |-> FALSE, todo |-> Missing,
                   start |-> files, before |-> Blank, after |-> Blank]
        /\ journal' = [journal EXCEPT ![i].manifest = "NONE"]
        /\ UNCHANGED <<files, mine, edits, disturbed>>

Target(p) ==
    IF run.phase = "reconcile" THEN "absent"
    ELSE CASE p \in {"lock", "receipt"} -> run.id
           [] p \in Copies -> files[CopyOf[p]]
           [] p = "profile" -> run.profile
           [] p \in Seeds -> "seed"
           [] OTHER -> run.release

\* record_before: the first record of a file counts, and backs it up.
Recorded(p) == [run.before EXCEPT ![p] = IF @ = "-" THEN files[p] ELSE @]
BackedUpReplaced(p) ==  \* mutant: what is removed is not backed up
    IF Target(p) = "absent" THEN journal
    ELSE [journal EXCEPT ![run.id].backup[p] = IF run.before[p] = "-" THEN files[p] ELSE @]

BackedUp(p) == [journal EXCEPT ![run.id].backup[p] = IF run.before[p] = "-" THEN files[p] ELSE @]

Writing == {"seed", "overlay", "metadata", "mirror", "reconcile", "receipt", "lock"}
FirstOf(p) == p \in run.todo /\ \A q \in run.todo : Rank[p] <= Rank[q]

\* What the lock in force says of a file; without a lock nothing is owned.
OwnedBefore(p) == IF files["lock"] \in Ids THEN journal[files["lock"]].owned[p] ELSE "-"

\* write_file, remove_file, atomic_write_text, and the deletion of a stale file.
Write(p) ==
    /\ run.phase \in Writing /\ FirstOf(p)
    /\ run.phase = "reconcile" => files[p] = OwnedBefore(p)
    /\ files' = [files EXCEPT ![p] = Target(p)]
    /\ run' = [run EXCEPT !.todo = @ \ {p}, !.before = Recorded(p), !.after[p] = Target(p)]
    /\ journal' = BackedUp(p)
    /\ UNCHANGED <<mine, edits, disturbed>>

\* mirror_managed
CopiesDue ==
    LET policy == Policy[run.profile]
    IN  {p \in Copies :
            /\ files[p] # files[CopyOf[p]]
            /\ \/ policy = "full-tree"
               \/ policy = "managed-set" /\ CopyOf[p] \in Ships[run.release]}

\* _owned_paths: what this run recorded and left in place, of the consumer's own skills nothing.
OwnedNow ==
    [p \in Paths |->
        IF p \in {"lock", "receipt"} \cup (Canonical \ Ships[run.release]) \/ run.after[p] = "absent"
        THEN "-" ELSE run.after[p]]

\* reconcile_stale_owned_files: what the last lock owned and this run did not
\* write is stale.
Stale == {p \in Paths : OwnedBefore(p) # "-" /\ OwnedNow[p] = "-" /\ files[p] # "absent"}

Manifest(status) ==
    [journal EXCEPT ![run.id].manifest = status, ![run.id].before = run.before, ![run.id].after = run.after]

Passes(phase, todo) == run' = [run EXCEPT !.phase = phase, !.todo = todo]

\* The phase is over: the next one begins.
Advance ==
    /\ run.todo = {}
    /\ \/ run.phase = "seed" /\ Passes("overlay", Ships[run.release]) /\ UNCHANGED journal
       \/ run.phase = "overlay" /\ Passes("metadata", IF run.kept THEN {} ELSE {"profile"}) /\ UNCHANGED journal
       \/ run.phase = "metadata" /\ Passes("mirror", CopiesDue) /\ UNCHANGED journal
       \/ run.phase = "mirror" /\ Passes("validate", {}) /\ journal' = Manifest("PENDING")
       \/ run.phase = "validate" /\ Passes("reconcile", Stale) /\ UNCHANGED journal
       \/ /\ run.phase = "reconcile" /\ Passes("receipt", {"receipt"})
          /\ journal' = [journal EXCEPT ![run.id].owned = OwnedNow]
       \/ run.phase = "receipt" /\ Passes("lock", {"lock"}) /\ UNCHANGED journal
       \/ run.phase = "lock" /\ run' = Idle /\ journal' = Manifest("PASS")
    /\ UNCHANGED <<files, mine, edits, disturbed>>

----------------------------------------------------------------------------
(* What goes wrong: an exception is answered by restore. *)

Raises(before) ==
    run' = [run EXCEPT !.phase = "restore", !.before = before, !.todo = {p \in Paths : before[p] # "-"}]

\* A copy may stop half-way; the lock and the receipt are replaced at once.
Torn(p) == IF Target(p) = "absent" \/ p \in {"lock", "receipt"} THEN {files[p]} ELSE {files[p], "torn"}

WriteFails(p) ==
    /\ run.phase \in Writing /\ FirstOf(p)
    /\ \E c \in Torn(p) : files' = [files EXCEPT ![p] = c]
    /\ Raises(Recorded(p))
    /\ journal' = BackedUp(p)
    /\ UNCHANGED <<mine, edits, disturbed>>

\* A file that has no record yet is copied to the backups; the copy may stop
\* half-way, too.
BackingUp(p) == run.phase \in Writing /\ FirstOf(p) /\ run.before[p] = "-" /\ files[p] # "absent"
HalfBackedUp(p) == [journal EXCEPT ![run.id].backup[p] = "torn"]

\* The record is made before its backup: restore will find no backup, or put
\* half of one over the file, which is given up here.
BackupFails(p) ==
    /\ BackingUp(p) /\ disturbed < MaxDisturb
    /\ Raises(Recorded(p))
    /\ \/ UNCHANGED <<journal, mine>>
       \/ journal' = HalfBackedUp(p) /\ mine' = [q \in Consumers |-> IF q = p THEN "-" ELSE mine[q]]
    /\ UNCHANGED <<files, edits, disturbed>>

\* Validation fails, a stale file is not as the lock says, or the last manifest
\* cannot be written.
Refused ==
    /\ \/ run.phase = "validate"
       \/ run.phase = "reconcile" /\ \E p \in run.todo : FirstOf(p) /\ files[p] # OwnedBefore(p)
       \/ run.phase = "lock" /\ run.todo = {}
    /\ Raises(run.before)
    /\ UNCHANGED <<files, journal, mine, edits, disturbed>>

\* restore and rollback.py go through the records backwards.
LastOf(p) == p \in run.todo /\ \A q \in run.todo : Rank[q] <= Rank[p]

Dies == run' = Idle /\ disturbed' = disturbed + 1

\* A file that was not there goes; a missing backup ends the process.
PutsBackKnown(p) ==  \* mutant: files that were not there before stay
    LET image == journal[run.id].backup[p]
    IN  \/ image = "-" /\ Dies /\ UNCHANGED files
        \/ /\ image # "-" /\ UNCHANGED disturbed
           /\ files' = [files EXCEPT ![p] = IF image = "absent" THEN @ ELSE image]
           /\ run' = [run EXCEPT !.todo = @ \ {p}]

PutsBack(p) ==
    LET image == journal[run.id].backup[p]
    IN  \/ image = "-" /\ Dies /\ UNCHANGED files
        \/ /\ image # "-" /\ UNCHANGED disturbed
           /\ files' = [files EXCEPT ![p] = image]
           /\ run' = [run EXCEPT !.todo = @ \ {p}]

Restore(p) ==
    /\ run.phase = "restore" /\ LastOf(p)
    /\ PutsBack(p)
    /\ UNCHANGED <<journal, mine, edits>>

\* Nobody compares a backup with the file it is of.
HalfMade(p) == journal[run.id].backup[p] \notin {"-", run.before[p]}

RolledBack ==
    /\ run.phase = "restore" /\ run.todo = {}
    /\ run' = Idle /\ journal' = Manifest("ROLLED_BACK")
    /\ disturbed' = IF \E p \in Paths : HalfMade(p) THEN disturbed + 1 ELSE disturbed
    /\ UNCHANGED <<files, mine, edits>>

\* A copy to p is under way, and the backup of p is safe.
Copying(p) ==
    \/ run.phase \in {"seed", "overlay", "metadata", "mirror"} /\ FirstOf(p) /\ Target(p) # "absent"
    \/ run.phase \in {"restore", "undo"} /\ LastOf(p) /\ journal[run.id].backup[p] \notin {"-", "absent"}

\* The process is killed, perhaps in the middle of a copy.
Kill ==
    /\ run # Idle /\ disturbed < MaxDisturb
    /\ Dies
    /\ \/ UNCHANGED <<files, journal>>
       \/ \E p \in Paths : BackingUp(p) /\ journal' = HalfBackedUp(p) /\ UNCHANGED files
       \/ \E p \in Paths :
             /\ Copying(p)
             /\ files' = [files EXCEPT ![p] = "torn"]
             /\ journal' = IF run.phase \in Writing THEN BackedUp(p) ELSE journal
    /\ UNCHANGED <<mine, edits>>

----------------------------------------------------------------------------
(* rollback.py *)

DriftsInTree(i) ==  \* mutant: the lock and the receipt are not compared
    \E p \in Consumers : journal[i].before[p] # "-" /\ files[p] # journal[i].after[p]

Drifts(i) == \E p \in Paths : journal[i].before[p] # "-" /\ files[p] # journal[i].after[p]

\* Any transaction with a manifest: the one named, or the "latest", which is
\* the one with the greatest random name.  Its status is not looked at.
StartRollback(i, force) ==
    /\ run = Idle /\ journal[i].manifest \notin {"-", "NONE"}
    /\ Drifts(i) => force /\ disturbed < MaxDisturb
    /\ run' = [Idle EXCEPT !.phase = "undo", !.id = i, !.forced = Drifts(i), !.start = files,
                           !.todo = {p \in Paths : journal[i].before[p] # "-"}]
    /\ mine' = [p \in Consumers |->
                   IF Drifts(i) /\ journal[i].before[p] # "-" THEN "-" ELSE mine[p]]
    /\ UNCHANGED <<files, journal, edits, disturbed>>

Rollback(p) ==
    /\ run.phase = "undo" /\ LastOf(p)
    /\ PutsBack(p)
    /\ UNCHANGED <<journal, mine, edits>>

\* A receipt that still names the transaction goes; the lock does not.
RollbackEnds ==
    /\ run.phase = "undo" /\ run.todo = {}
    /\ files' = [files EXCEPT !["receipt"] = IF @ = run.id THEN "absent" ELSE @]
    /\ run' = Idle
    /\ journal' = [journal EXCEPT ![run.id].undone = TRUE]
    /\ disturbed' = IF run.forced THEN disturbed + 1 ELSE disturbed
    /\ UNCHANGED <<mine, edits>>

----------------------------------------------------------------------------
\* The consumer edits or deletes a file.
Edit(e, p, content) ==
    /\ run = Idle /\ edits[e] = "-" /\ content # files[p]
    /\ files' = [files EXCEPT ![p] = content]
    /\ mine' = [mine EXCEPT ![p] = IF content = e THEN e ELSE "-"]
    /\ edits' = [edits EXCEPT ![e] = p]
    /\ UNCHANGED <<run, journal, disturbed>>

Next ==
    \/ \E i \in Ids, r \in Releases, s \in Profiles \cup {"-"}, seed \in BOOLEAN : StartInstall(i, r, s, seed)
    \/ \E p \in Paths : Write(p) \/ WriteFails(p) \/ BackupFails(p) \/ Restore(p) \/ Rollback(p)
    \/ Advance \/ Refused \/ RolledBack \/ Kill \/ RollbackEnds
    \/ \E i \in Ids, force \in BOOLEAN : StartRollback(i, force)
    \/ \E e \in Edits, p \in Editable : Edit(e, p, e) \/ Edit(e, p, "absent")

Spec == Init /\ [][Next]_vars

----------------------------------------------------------------------------
TypeOK ==
    /\ files \in [Paths -> Contents]
    /\ run \in [phase : Writing \cup {"idle", "validate", "restore", "undo"}, id : Ids \cup {"-"},
                release : Releases \cup {"-"}, profile : DOMAIN Policy \cup {"-"}, kept : BOOLEAN,
                forced : BOOLEAN, todo : SUBSET Paths, start : Images, before : Images, after : Images]
    /\ journal \in [Ids -> [manifest : {"-", "NONE", "PENDING", "PASS", "ROLLED_BACK"}, before : Images,
                            after : Images, backup : Images, owned : Images, undone : BOOLEAN]]
    /\ mine \in [Consumers -> Edits \cup {"own", "-"}]
    /\ edits \in [Edits -> Editable \cup {"-"}] /\ disturbed \in Nat

\* Whatever fails, is killed or rolled back in whatever order, what the
\* consumer last put into a file is in the project or in a backup, unless he
\* forced a rollback over it or its backup stopped half-way and the installer
\* put that back (record_before, restore, rollback.main).
ConsumerBytesKept ==
    \A p \in Consumers :
        mine[p] # "-" => files[p] = mine[p] \/ \E i \in Ids : journal[i].backup[p] = mine[p]

\* Without force, and while no process died, the rollback of a completed
\* installation is that of the last one in effect, although rollback.py goes
\* by random names: no two installations leave the same lock.
RollbackUndoesLatest ==
    [][run.phase = "undo" /\ run.todo = {} /\ run' = Idle /\ disturbed' = 0
          /\ journal[run.id].manifest = "PASS"
        => \A j \in Ids : Time[j] > Time[run.id] => journal[j].manifest # "PASS" \/ journal[j].undone]_vars

\* Between two runs the project changes by whole installations, exact rollbacks
\* and edits, and the lock of an installation owns what is there, unless a
\* process died, a rollback was forced or half a backup was put back: an
\* installation that fails anywhere but in a backup leaves nothing (main,
\* restore, rollback.main).
Atomic == INSTANCE AtomicInstall WITH
    Paths <- Paths, Contents <- Contents, None <- "-", Pointer <- "receipt", Absent <- "absent", Ids <- Ids,
    project <- IF run.phase = "idle" THEN files ELSE run.start,
    journal <- [i \in Ids |-> [done |-> journal[i].manifest = "PASS", before |-> journal[i].before,
                               after |-> journal[i].after, owned |-> journal[i].owned]],
    disturbed <- disturbed
ImplementsAtomicInstall == Atomic!Spec
=============================================================================
