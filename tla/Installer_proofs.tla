--------------------------- MODULE Installer_proofs ---------------------------
(***************************************************************************)
(* Proofs about Installer, for any files, releases, profiles, policies and *)
(* orders of writing, any installations, edits and disturbances.           *)
(*                                                                         *)
(* While an installer runs, the files are those it started with wherever   *)
(* it has no record, and what it wrote elsewhere (WritesAreRecorded);      *)
(* restore and rollback go back to that, file by file (RestoreKnowsStart,  *)
(* UndoKnowsStart), from backups that are whole unless their making was    *)
(* what failed (BackupsAreImages).  From this the installer implements     *)
(* AtomicInstall.                                                          *)
(*                                                                         *)
(* What the consumer wrote last is lost only by a write that has no        *)
(* backup.  An undo writes without one; it finds every file as the         *)
(* installation left it, and no installation leaves in a file what the     *)
(* consumer had put into that very file (ContentsHaveOrigins).             *)
(*                                                                         *)
(* The locks of the installations in effect form a chain in the order of   *)
(* time (LocksAreChained), and an undo needs its own lock in the project.  *)
(***************************************************************************)
EXTENDS Installer, TLAPS

Installing == run.phase \in Writing \cup {"validate"}

\* In words: the project as somebody sees it who waits until no installer runs.
Project == IF run.phase = "idle" THEN files ELSE run.start

-----------------------------------------------------------------------------
(* The invariant.                                                          *)

\* In words: a run belongs to an installation that has begun, the last one that
\* did unless it is an undo.
RunIsOpen ==
    /\ run.phase = "idle" => run = Idle
    /\ run.phase # "idle" => run.id \in Ids /\ run.start \in [Paths -> Contents]
    /\ Installing \/ run.phase = "restore" =>
        /\ run.release \in Releases /\ run.profile \in DOMAIN Policy
        /\ run.profile \in Edits => run.kept
        /\ journal[run.id].manifest \in {"NONE", "PENDING"} /\ ~journal[run.id].undone
        /\ \A j \in Ids : journal[j].manifest # "-" => Time[j] <= Time[run.id]
    /\ run.phase = "undo" => journal[run.id].manifest \notin {"-", "NONE"}

\* In words: installations begin in the order of time, with nothing noted of them.
JournalInOrder ==
    \A i \in Ids :
        /\ journal[i].manifest = "-" =>
            /\ journal[i].before = Blank /\ journal[i].after = Blank
            /\ journal[i].backup = Blank /\ journal[i].owned = Blank /\ ~journal[i].undone
        /\ journal[i].manifest # "-" =>
            \A j \in Ids : Time[j] < Time[i] => journal[j].manifest # "-"

\* In words: each phase writes files of its own kind.
PhaseWrites ==
    /\ run.phase = "seed" => run.todo \subseteq Seeds
    /\ run.phase = "overlay" => run.todo \subseteq Skills
    /\ run.phase = "metadata" => run.todo \subseteq {"profile"} /\ (run.todo # {} => ~run.kept)
    /\ run.phase = "mirror" => run.todo \subseteq Copies
    /\ run.phase = "validate" => run.todo = {}
    /\ run.phase = "reconcile" => run.todo \subseteq Consumers
    /\ run.phase = "receipt" => run.todo \subseteq {"receipt"}
    /\ run.phase = "lock" => run.todo \subseteq {"lock"}

\* In words: what the consumer last put into p is not worth keeping, or backed up.
Safe(p) ==
    p \in Consumers => mine[p] = "-" \/ \E i \in Ids : journal[i].backup[p] = mine[p]

\* In words: while it installs, a file is as the run found it, or it has a record and is what
\* the run wrote.
WritesAreRecorded ==
    Installing => \A p \in Paths :
        /\ run.before[p] = "-" => /\ files[p] = run.start[p] /\ run.after[p] = "-"
                                  /\ journal[run.id].backup[p] = "-"
        /\ run.before[p] # "-" => /\ run.before[p] = run.start[p] /\ files[p] = run.after[p]
                                  /\ journal[run.id].backup[p] = run.before[p] /\ Safe(p)

\* In words: a restored file is as the run found it, or its backup was half-made; the others
\* have a record to go back to, and their bytes are backed up or the restore will not overwrite
\* them.
RestoreKnowsStart ==
    run.phase = "restore" => \A p \in Paths :
        /\ run.before[p] \in {"-", run.start[p]}
        /\ p \in run.todo => run.before[p] # "-" /\ (Safe(p) \/ journal[run.id].backup[p] = "-")
        /\ p \notin run.todo => /\ files[p] = run.start[p] \/ HalfMade(p)
                                /\ run.before[p] # "-" => journal[run.id].backup[p] # "-"
        /\ run.before[p] # "-" /\ run.after[p] # "-" => journal[run.id].backup[p] = run.before[p]

\* In words: what a manifest lists has a backup, which is the image unless the installation
\* failed before it wrote the file.
BackupsAreImages ==
    \A i \in Ids, p \in Paths : journal[i].before[p] # "-" =>
        /\ journal[i].backup[p] # "-"
        /\ journal[i].after[p] # "-" => journal[i].backup[p] = journal[i].before[p]

\* In words: an undo has put back what it has off its list; where it is not forced, the others
\* are as the installation left them.
UndoKnowsStart ==
    run.phase = "undo" => \A p \in Paths :
        /\ p \in run.todo => journal[run.id].before[p] # "-" /\ Safe(p)
        /\ files[p] = IF p \in run.todo \/ journal[run.id].before[p] = "-"
                      THEN run.start[p] ELSE journal[run.id].backup[p]
        /\ ~run.forced /\ journal[run.id].before[p] # "-" => run.start[p] = journal[run.id].after[p]

\* In words: what a receipt owns is what the installation wrote.
OwnedIsInstalled ==
    /\ \A i \in Ids : journal[i].owned["lock"] = "-" /\ journal[i].owned["receipt"] = "-"
    /\ run.phase \in {"receipt", "lock"} =>
        \A p \in Paths : journal[run.id].owned[p] \in {"-", run.after[p]}

\* In words: c is what the consumer himself has put into p.
OwnOf(p, c) == (c = "own" /\ p \in Seeds) \/ (c \in Edits /\ edits[c] = p)

\* In words: an edit is found in the file it was made in, and in a copy of that.
Known(p, c) == c \in Edits => edits[c] = p \/ (p \in Copies /\ edits[c] = CopyOf[p])

\* In words: every content the consumer made is where he put it or in a copy of it, and no
\* installation leaves in a file what the consumer put there himself.
ContentsHaveOrigins ==
    /\ \A p \in Consumers : mine[p] = "-" \/ OwnOf(p, mine[p])
    /\ \A p \in Paths :
        /\ Known(p, files[p]) /\ Known(p, run.before[p])
        /\ Known(p, run.after[p]) /\ ~OwnOf(p, run.after[p])
        /\ \A i \in Ids : /\ Known(p, journal[i].before[p]) /\ Known(p, journal[i].backup[p])
                          /\ Known(p, journal[i].after[p]) /\ ~OwnOf(p, journal[i].after[p])

\* In words: the lock is written last, with the name of the installation.
LockIsLast ==
    /\ \A i \in Ids :
        /\ journal[i].after["lock"] \in {"-", i}
        /\ journal[i].manifest = "PASS" => journal[i].before["lock"] # "-"
    /\ Installing =>
        /\ run.phase # "lock" \/ run.todo # {} => run.before["lock"] = "-"
        /\ run.phase = "lock" /\ run.todo = {} => run.before["lock"] # "-"
    /\ Installing \/ run.phase = "restore" => run.after["lock"] \in {"-", run.id}

\* In words: installation i is in effect.
InEffect(i) == journal[i].manifest = "PASS" /\ ~journal[i].undone

\* In words: while nothing died or was forced, the lock in the project names the latest
\* installation in effect, and the lock that one found the latest before it.
LocksAreChained ==
    disturbed = 0 =>
        /\ Project["lock"] \in Ids => InEffect(Project["lock"])
        /\ \A j \in Ids : InEffect(j) => Project["lock"] \in Ids /\ Time[j] <= Time[Project["lock"]]
        /\ \A i \in Ids : InEffect(i) =>
            LET b == journal[i].before["lock"]
            IN  /\ b \in Ids => InEffect(b) /\ Time[b] < Time[i]
                /\ \A j \in Ids : InEffect(j) /\ Time[j] < Time[i] => b \in Ids /\ Time[j] <= Time[b]

RunInv == TypeOK /\ RunIsOpen /\ JournalInOrder /\ PhaseWrites
RunImages == WritesAreRecorded /\ RestoreKnowsStart /\ UndoKnowsStart /\ OwnedIsInstalled
ImageInv == RunImages /\ BackupsAreImages
LockInv == LockIsLast /\ LocksAreChained
IInv == RunInv /\ ImageInv /\ ContentsHaveOrigins /\ ConsumerBytesKept /\ LockInv

-----------------------------------------------------------------------------
(* What the operators do.                                                  *)

RunRecords == [phase : Writing \cup {"idle", "validate", "restore", "undo"}, id : Ids \cup {"-"},
               release : Releases \cup {"-"}, profile : DOMAIN Policy \cup {"-"}, kept : BOOLEAN,
               forced : BOOLEAN, todo : SUBSET Paths, start : Images, before : Images, after : Images]

Entries == [manifest : {"-", "NONE", "PENDING", "PASS", "ROLLED_BACK"}, before : Images,
            after : Images, backup : Images, owned : Images, undone : BOOLEAN]

\* What the types of the variables are, for use outside the quantifiers of TypeOK.
LEMMA Types ==
    TypeOK => run \in RunRecords /\ journal \in [Ids -> Entries] /\ files \in [Paths -> Contents]
BY DEF TypeOK, RunRecords, Entries

\* Files of different kinds are different files, contents of different origin
\* different contents.
LEMMA Kinds ==
    /\ "lock" \in Paths /\ "receipt" \in Paths /\ "profile" \in Paths /\ "profile" \in Consumers
    /\ "lock" \notin Consumers /\ "receipt" \notin Consumers /\ "-" \notin Paths
    /\ Consumers \subseteq Paths /\ Seeds \subseteq Consumers /\ Skills \subseteq Consumers
    /\ Copies \subseteq Consumers /\ Seeds \cap Skills = {} /\ (Seeds \cup Skills) \cap Copies = {}
    /\ "profile" \notin Seeds \cup Skills \cup Copies
    /\ \A p \in Copies : CopyOf[p] \in Seeds \cup Skills
    /\ "absent" \in Contents /\ "own" \in Contents /\ "torn" \in Contents /\ "seed" \in Contents
    /\ Ids \subseteq Contents /\ Releases \subseteq Contents /\ DOMAIN Policy \subseteq Contents
    /\ Edits \subseteq Contents /\ "-" \notin Contents
BY InstallerAssumption DEF Paths, Consumers, Canonical, Contents, Plain, Profiles

\* What the consumer writes is none of the contents that the installer writes or finds.
LEMMA Origins ==
    /\ \A e \in Edits : /\ e \notin Releases /\ e \notin Ids /\ e \notin Profiles
                         /\ e \notin {"absent", "own", "torn", "seed"}
    /\ "own" \notin Ids /\ "own" \notin Releases /\ "own" \notin DOMAIN Policy
    /\ "absent" \notin Ids /\ "torn" \notin Ids /\ "generic" \notin Edits
BY InstallerAssumption DEF Profiles, Plain

\* An installation in a phase that writes has what it writes.
LEMMA TargetFacts ==
  ASSUME RunInv, run.phase \in Writing, NEW p \in run.todo
  PROVE  /\ p \in Paths /\ run.id \in Ids /\ Target(p) \in Contents /\ Target(p) # "-"
         /\ p = "lock" => run.phase = "lock" /\ Target(p) = run.id
<1>1. /\ p \in Paths /\ run.id \in Ids /\ run.release \in Releases /\ run.profile \in DOMAIN Policy
  <2>1. run.phase # "idle"
    BY DEF Writing
  <2> QED BY <2>1, Types DEF RunInv, RunRecords, RunIsOpen, Installing
<1>2. p \in Copies => CopyOf[p] \in Paths
  BY Kinds
<1>3. p = "lock" => run.phase = "lock"
  BY Kinds DEF RunInv, PhaseWrites, Writing
<1>4. Target(p) \in Contents
  BY <1>1, <1>2, Kinds, Types DEF Target, RunInv
<1> QED BY <1>1, <1>3, <1>4, Kinds DEF Target

\* In words: nothing changes of what is noted of installations but the one at work.
OthersKept == \A i \in Ids \ {run.id} : journal'[i] = journal[i]

\* In words: of each installation all is noted as before but for the backups.
KeepsNotes ==
    \A i \in Ids : /\ journal'[i].manifest = journal[i].manifest
                   /\ journal'[i].before = journal[i].before
                   /\ journal'[i].after = journal[i].after
                   /\ journal'[i].owned = journal[i].owned
                   /\ journal'[i].undone = journal[i].undone

\* In words: and the backups are those before, and one of p when it had no record.
AddsBackup(p) ==
    \A i \in Ids, q \in Paths :
        journal'[i].backup[q] =
            IF i = run.id /\ q = p /\ run.before[p] = "-" THEN files[p] ELSE journal[i].backup[q]

\* A backup adds one image to one entry of the journal and leaves the rest.
LEMMA BackedUpFacts ==
  ASSUME TypeOK, run.id \in Ids, NEW p \in Paths, journal' = BackedUp(p)
  PROVE  journal' \in [Ids -> Entries] /\ OthersKept /\ KeepsNotes /\ AddsBackup(p)
<1> DEFINE backup == [journal[run.id].backup EXCEPT ![p] = IF run.before[p] = "-" THEN files[p] ELSE @]
<1>1. journal' = [journal EXCEPT ![run.id] = [journal[run.id] EXCEPT !.backup = backup]]
  BY Types DEF BackedUp, Entries
<1>2. journal[run.id] \in Entries /\ backup \in Images
  BY Types DEF Entries, Images
<1>3. \A q \in Paths : backup[q] = IF q = p /\ run.before[p] = "-" THEN files[p]
                                                                 ELSE journal[run.id].backup[q]
  BY Types DEF Entries, Images
<1> HIDE DEF backup
<1>4. [journal[run.id] EXCEPT !.backup = backup] \in Entries
  BY <1>2 DEF Entries
<1>5. journal' \in [Ids -> Entries]
  BY <1>1, <1>4, Types
<1>6. KeepsNotes
  BY <1>1, <1>2, Types DEF KeepsNotes, Entries
<1>7. AddsBackup(p)
  BY <1>1, <1>2, <1>3, Types DEF AddsBackup, Entries
<1>8. OthersKept
  BY <1>1, Types DEF OthersKept
<1> QED BY <1>5, <1>6, <1>7, <1>8

\* In words: or half a backup of p.
AddsHalfBackup(p) ==
    \A i \in Ids, q \in Paths :
        journal'[i].backup[q] = IF i = run.id /\ q = p THEN "torn" ELSE journal[i].backup[q]

\* A backup that stops half-way adds one image, too.
LEMMA HalfBackedUpFacts ==
  ASSUME TypeOK, run.id \in Ids, NEW p \in Paths, journal' = HalfBackedUp(p)
  PROVE  journal' \in [Ids -> Entries] /\ OthersKept /\ KeepsNotes /\ AddsHalfBackup(p)
<1> DEFINE backup == [journal[run.id].backup EXCEPT ![p] = "torn"]
<1>1. journal' = [journal EXCEPT ![run.id] = [journal[run.id] EXCEPT !.backup = backup]]
  BY Types DEF HalfBackedUp, Entries
<1>2. journal[run.id] \in Entries /\ backup \in Images
  BY Types, Kinds DEF Entries, Images
<1>3. \A q \in Paths : backup[q] = IF q = p THEN "torn" ELSE journal[run.id].backup[q]
  BY Types DEF Entries, Images
<1> HIDE DEF backup
<1>4. [journal[run.id] EXCEPT !.backup = backup] \in Entries
  BY <1>2 DEF Entries
<1>5. journal' \in [Ids -> Entries]
  BY <1>1, <1>4, Types
<1>6. KeepsNotes
  BY <1>1, <1>2, Types DEF KeepsNotes, Entries
<1>7. AddsHalfBackup(p)
  BY <1>1, <1>2, <1>3, Types DEF AddsHalfBackup, Entries
<1>8. OthersKept
  BY <1>1, Types DEF OthersKept
<1> QED BY <1>5, <1>6, <1>7, <1>8

\* The first record of a file is what it is now; a later one changes nothing.
LEMMA RecordedFacts ==
  ASSUME TypeOK, NEW p \in Paths
  PROVE  /\ Recorded(p) \in Images
         /\ \A q \in Paths : Recorded(p)[q] =
                IF q = p /\ run.before[p] = "-" THEN files[p] ELSE run.before[q]
BY Types DEF Recorded, RunRecords, Images

\* In words: the manifest of the run takes its images, everything else is as before.
NotesImages(status) ==
    \A i \in Ids :
        /\ journal'[i].manifest = IF i = run.id THEN status ELSE journal[i].manifest
        /\ journal'[i].before = IF i = run.id THEN run.before ELSE journal[i].before
        /\ journal'[i].after = IF i = run.id THEN run.after ELSE journal[i].after
        /\ journal'[i].backup = journal[i].backup
        /\ journal'[i].owned = journal[i].owned
        /\ journal'[i].undone = journal[i].undone

\* The manifest notes the images of the run in the entry of its installation.
LEMMA ManifestFacts ==
  ASSUME TypeOK, run.id \in Ids, NEW status \in {"PENDING", "PASS", "ROLLED_BACK"},
         journal' = Manifest(status)
  PROVE  journal' \in [Ids -> Entries] /\ OthersKept /\ NotesImages(status)
<1>1. journal' = [journal EXCEPT ![run.id] =
        [journal[run.id] EXCEPT !.manifest = status, !.before = run.before, !.after = run.after]]
  BY Types DEF Manifest, Entries
<1>2. [journal[run.id] EXCEPT !.manifest = status, !.before = run.before, !.after = run.after] \in Entries
  BY Types DEF Entries, RunRecords
<1>3. journal' \in [Ids -> Entries]
  BY <1>1, <1>2, Types
<1>4. NotesImages(status)
  BY <1>1, Types DEF NotesImages, Entries
<1>5. OthersKept
  BY <1>1, Types DEF OthersKept
<1> QED BY <1>3, <1>4, <1>5

-----------------------------------------------------------------------------
(* What the actions do, file by file.                                      *)

SameRun ==
    /\ run'.id = run.id /\ run'.release = run.release /\ run'.profile = run.profile
    /\ run'.kept = run.kept /\ run'.forced = run.forced /\ run'.start = run.start

History == <<mine, edits, disturbed>>

\* A write puts the target there, after recording and backing up what it finds.
LEMMA WriteFacts ==
  ASSUME RunInv, NEW p \in Paths, Write(p)
  PROVE  /\ run.phase \in Writing /\ p \in run.todo
         /\ files' \in [Paths -> Contents]
         /\ \A q \in Paths : files'[q] = IF q = p THEN Target(p) ELSE files[q]
         /\ run' \in RunRecords /\ SameRun /\ run'.phase = run.phase /\ run'.todo = run.todo \ {p}
         /\ \A q \in Paths : run'.before[q] =
                IF q = p /\ run.before[p] = "-" THEN files[p] ELSE run.before[q]
         /\ \A q \in Paths : run'.after[q] = IF q = p THEN Target(p) ELSE run.after[q]
         /\ journal' \in [Ids -> Entries] /\ OthersKept /\ KeepsNotes /\ AddsBackup(p)
         /\ UNCHANGED History
<1>1. run.phase \in Writing /\ p \in run.todo
  BY DEF Write, FirstOf
<1>2. Target(p) \in Contents /\ run.id \in Ids
  BY <1>1, TargetFacts
<1>3. /\ files' \in [Paths -> Contents]
      /\ \A q \in Paths : files'[q] = IF q = p THEN Target(p) ELSE files[q]
  BY <1>2, Types DEF Write, RunInv
<1>4. run' = [run EXCEPT !.todo = run.todo \ {p}, !.before = Recorded(p),
                         !.after = [run.after EXCEPT ![p] = Target(p)]]
  BY Types DEF Write, RunInv, RunRecords
<1>5. run.after \in Images /\ [run.after EXCEPT ![p] = Target(p)] \in Images
  BY <1>2, Types DEF RunInv, RunRecords, Images
<1>6. Recorded(p) \in Images
  BY RecordedFacts DEF RunInv
<1>7. /\ run' \in RunRecords /\ SameRun /\ run'.phase = run.phase /\ run'.todo = run.todo \ {p}
      /\ run'.before = Recorded(p) /\ run'.after = [run.after EXCEPT ![p] = Target(p)]
  BY <1>4, <1>5, <1>6, Types DEF RunInv, RunRecords, SameRun
<1>8. \A q \in Paths : run'.after[q] = IF q = p THEN Target(p) ELSE run.after[q]
  BY <1>5, <1>7 DEF Images
<1>9. \A q \in Paths : run'.before[q] = IF q = p /\ run.before[p] = "-" THEN files[p] ELSE run.before[q]
  BY <1>7, RecordedFacts DEF RunInv
<1>10. journal' \in [Ids -> Entries] /\ OthersKept /\ KeepsNotes /\ AddsBackup(p)
  BY <1>2, BackedUpFacts DEF Write, RunInv
<1> QED BY <1>1, <1>3, <1>7, <1>8, <1>9, <1>10 DEF Write, History

\* In words: the run goes over to restore what was recorded.
GoesToRestore ==
    /\ run' \in RunRecords /\ SameRun /\ run'.phase = "restore" /\ run'.after = run.after
    /\ run'.todo = {q \in Paths : run'.before[q] # "-"}

\* Whatever raises leads to the restore, with the records it leaves.
LEMMA RaisesFacts ==
  ASSUME TypeOK, NEW before \in Images, Raises(before)
  PROVE  GoesToRestore /\ run'.before = before
BY Types DEF Raises, GoesToRestore, RunRecords, SameRun

\* A failing write has recorded its file, and tears at most that one.
LEMMA WriteFailsFacts ==
  ASSUME RunInv, NEW p \in Paths, WriteFails(p)
  PROVE  /\ run.phase \in Writing /\ p \in run.todo
         /\ files' \in [Paths -> Contents]
         /\ \A q \in Paths : files'[q] = files[q] \/ (q = p /\ q \in Consumers /\ files'[q] = "torn")
         /\ GoesToRestore
         /\ \A q \in Paths : run'.before[q] =
                IF q = p /\ run.before[p] = "-" THEN files[p] ELSE run.before[q]
         /\ journal' \in [Ids -> Entries] /\ OthersKept /\ KeepsNotes /\ AddsBackup(p)
         /\ UNCHANGED History
<1>1. run.phase \in Writing /\ p \in run.todo
  BY DEF WriteFails, FirstOf
<1>2. run.id \in Ids
  BY <1>1, TargetFacts
<1>3. /\ files' \in [Paths -> Contents]
      /\ \A q \in Paths : files'[q] = files[q] \/ (q = p /\ q \in Consumers /\ files'[q] = "torn")
  <2>1. PICK c \in Torn(p) : files' = [files EXCEPT ![p] = c]
    BY DEF WriteFails
  <2>2. c \in Contents /\ (c = files[p] \/ (c = "torn" /\ p \in Consumers))
    BY Kinds, Types DEF Torn, RunInv, Paths
  <2> QED BY <2>1, <2>2, Types DEF RunInv
<1>4. GoesToRestore /\ run'.before = Recorded(p)
  BY RecordedFacts, RaisesFacts DEF WriteFails, RunInv
<1>5. \A q \in Paths : run'.before[q] = IF q = p /\ run.before[p] = "-" THEN files[p] ELSE run.before[q]
  BY <1>4, RecordedFacts DEF RunInv
<1>6. journal' \in [Ids -> Entries] /\ OthersKept /\ KeepsNotes /\ AddsBackup(p)
  BY <1>2, BackedUpFacts DEF WriteFails, RunInv
<1> QED BY <1>1, <1>3, <1>4, <1>5, <1>6 DEF WriteFails, History

\* In words: p is given up.
GivesUp(p) == mine' = [q \in Consumers |-> IF q = p THEN "-" ELSE mine[q]]

\* A failing backup has recorded its file and touched none; half a backup gives it up.
LEMMA BackupFailsFacts ==
  ASSUME RunInv, NEW p \in Paths, BackupFails(p)
  PROVE  /\ run.phase \in Writing /\ p \in run.todo /\ run.before[p] = "-" /\ files[p] # "absent"
         /\ GoesToRestore
         /\ \A q \in Paths : run'.before[q] = IF q = p THEN files[p] ELSE run.before[q]
         /\ \/ UNCHANGED <<journal, mine>>
            \/ /\ journal' \in [Ids -> Entries] /\ OthersKept /\ KeepsNotes /\ AddsHalfBackup(p)
               /\ GivesUp(p)
         /\ UNCHANGED <<files, edits, disturbed>>
<1>1. GoesToRestore /\ run'.before = Recorded(p)
  BY RecordedFacts, RaisesFacts DEF BackupFails, RunInv
<1>2. run.phase \in Writing /\ p \in run.todo /\ run.before[p] = "-" /\ files[p] # "absent"
  BY DEF BackupFails, BackingUp, FirstOf
<1>3. \A q \in Paths : run'.before[q] = IF q = p THEN files[p] ELSE run.before[q]
  BY <1>1, <1>2, RecordedFacts DEF RunInv
<1>4. run.id \in Ids
  BY <1>2, TargetFacts
<1>5. CASE UNCHANGED <<journal, mine>>
  BY <1>1, <1>2, <1>3, <1>5 DEF BackupFails
<1>6. CASE journal' = HalfBackedUp(p) /\ GivesUp(p)
  <2>1. journal' \in [Ids -> Entries] /\ OthersKept /\ KeepsNotes /\ AddsHalfBackup(p)
    BY <1>4, <1>6, HalfBackedUpFacts DEF RunInv
  <2> QED BY <1>1, <1>2, <1>3, <1>6, <2>1 DEF BackupFails
<1> QED BY <1>5, <1>6 DEF BackupFails, GivesUp

\* A refused validation touches no file.
LEMMA RefusedFacts ==
  ASSUME RunInv, Refused
  PROVE  /\ Installing /\ GoesToRestore /\ run'.before = run.before
         /\ UNCHANGED <<files, journal, History>>
<1>1. run.before \in Images
  BY Types DEF RunInv, RunRecords
<1> QED BY <1>1, RaisesFacts DEF Refused, RunInv, Installing, Writing, History

\* In words: the files are as before, but p has content c.
Puts(p, c) ==
    /\ files' \in [Paths -> Contents]
    /\ \A q \in Paths : files'[q] = IF q = p THEN c ELSE files[q]

\* In words: the run goes on with p behind it.
GoesOn(p) ==
    /\ run' \in RunRecords /\ SameRun /\ run'.phase = run.phase
    /\ run'.todo = run.todo \ {p} /\ run'.before = run.before /\ run'.after = run.after

\* What is put back is put back alone, and is off the list; without a backup the
\* process dies.
LEMMA PutsBackFacts ==
  ASSUME TypeOK, run.id \in Ids, NEW p \in Paths, PutsBack(p)
  PROVE  \/ journal[run.id].backup[p] = "-" /\ Dies /\ UNCHANGED files
         \/ /\ journal[run.id].backup[p] # "-" /\ UNCHANGED disturbed
            /\ Puts(p, journal[run.id].backup[p]) /\ GoesOn(p)
<1> DEFINE image == journal[run.id].backup[p]
<1>1. image \in Contents \cup {"-"}
  BY Types DEF Entries, Images
<1>2. \/ image = "-" /\ Dies /\ UNCHANGED files
      \/ /\ image # "-" /\ UNCHANGED disturbed
         /\ files' = [files EXCEPT ![p] = image]
         /\ run' = [run EXCEPT !.todo = @ \ {p}]
  BY DEF PutsBack
<1> HIDE DEF image
<1>3. ASSUME image # "-", files' = [files EXCEPT ![p] = image] PROVE Puts(p, image)
  BY <1>1, <1>3, Types DEF Puts
<1>4. ASSUME run' = [run EXCEPT !.todo = @ \ {p}] PROVE GoesOn(p)
  BY <1>4, Types DEF GoesOn, SameRun, RunRecords
<1> QED BY <1>2, <1>3, <1>4 DEF image

\* The restore of one file puts its backup back, or dies where there is none.
LEMMA RestoreFacts ==
  ASSUME RunInv, NEW p \in Paths, Restore(p)
  PROVE  /\ run.phase = "restore" /\ p \in run.todo /\ UNCHANGED <<journal, mine, edits>>
         /\ \/ Dies /\ UNCHANGED files
            \/ /\ journal[run.id].backup[p] # "-"
               /\ Puts(p, journal[run.id].backup[p]) /\ GoesOn(p) /\ UNCHANGED disturbed
<1>1. run.phase = "restore" /\ p \in run.todo
  BY DEF Restore, LastOf
<1>2. run.id \in Ids
  BY <1>1 DEF RunInv, RunIsOpen
<1> QED BY <1>1, <1>2, PutsBackFacts DEF Restore, RunInv

\* The undo of one file puts its backup back.
LEMMA RollbackFacts ==
  ASSUME RunInv, ImageInv, NEW p \in Paths, Rollback(p)
  PROVE  /\ run.phase = "undo" /\ p \in run.todo /\ journal[run.id].backup[p] # "-"
         /\ Puts(p, journal[run.id].backup[p]) /\ GoesOn(p)
         /\ UNCHANGED <<journal, History>>
<1>1. run.phase = "undo" /\ p \in run.todo
  BY DEF Rollback, LastOf
<1>2. run.id \in Ids
  BY <1>1 DEF RunInv, RunIsOpen
<1>3. journal[run.id].backup[p] # "-"
  BY <1>1, <1>2 DEF ImageInv, RunImages, UndoKnowsStart, BackupsAreImages
<1> QED BY <1>1, <1>2, <1>3, PutsBackFacts DEF Rollback, RunInv, History

\* In words: the run enters a phase with files to write.
Enters(phase, todo) ==
    /\ run' \in RunRecords /\ SameRun /\ run'.phase = phase /\ run'.todo = todo
    /\ run'.before = run.before /\ run'.after = run.after

\* To pass on is to enter the next phase and nothing else.
LEMMA PassesFacts ==
  ASSUME TypeOK, NEW phase \in Writing \cup {"validate"}, NEW todo \in SUBSET Paths, Passes(phase, todo)
  PROVE  Enters(phase, todo)
BY Types DEF Passes, Enters, RunRecords, SameRun

\* In words: the run notes what it owns, and nothing else.
NotesOwned ==
    /\ \A i \in Ids : /\ journal'[i].manifest = journal[i].manifest
                      /\ journal'[i].before = journal[i].before
                      /\ journal'[i].after = journal[i].after
                      /\ journal'[i].backup = journal[i].backup
                      /\ journal'[i].undone = journal[i].undone
                      /\ i # run.id => journal'[i].owned = journal[i].owned
    /\ \A q \in Paths : journal'[run.id].owned[q] \in {"-", run.after[q]}
    /\ journal'[run.id].owned["lock"] = "-" /\ journal'[run.id].owned["receipt"] = "-"

\* What the receipt will own is noted in the entry of the run alone.
LEMMA OwnedFacts ==
  ASSUME TypeOK, run.id \in Ids, journal' = [journal EXCEPT ![run.id].owned = OwnedNow]
  PROVE  journal' \in [Ids -> Entries] /\ OthersKept /\ NotesOwned
<1>1. /\ OwnedNow \in Images /\ OwnedNow["lock"] = "-" /\ OwnedNow["receipt"] = "-"
      /\ \A q \in Paths : OwnedNow[q] \in {"-", run.after[q]}
  BY Kinds, Types DEF OwnedNow, Images, RunRecords
<1> HIDE DEF OwnedNow
<1>2. journal' = [journal EXCEPT ![run.id] = [journal[run.id] EXCEPT !.owned = OwnedNow]]
  BY Types DEF Entries
<1>3. [journal[run.id] EXCEPT !.owned = OwnedNow] \in Entries
  BY <1>1, Types DEF Entries
<1>4. journal' \in [Ids -> Entries]
  BY <1>2, <1>3, Types
<1>5. OthersKept
  BY <1>2, Types DEF OthersKept
<1>6. NotesOwned
  BY <1>1, <1>2, Types DEF NotesOwned, Entries
<1> QED BY <1>4, <1>5, <1>6

\* Each phase that is done leads to the next, and what the journal notes then.
LEMMA AdvanceFacts ==
  ASSUME RunInv, OwnedIsInstalled, Advance
  PROVE  /\ Installing /\ run.id \in Ids /\ run.todo = {} /\ UNCHANGED <<files, History>>
         /\ journal' = journal \/ (journal' \in [Ids -> Entries] /\ OthersKept)
         /\ \/ run.phase = "seed" /\ Enters("overlay", Ships[run.release]) /\ UNCHANGED journal
            \/ /\ run.phase = "overlay" /\ UNCHANGED journal
               /\ Enters("metadata", IF run.kept THEN {} ELSE {"profile"})
            \/ run.phase = "metadata" /\ Enters("mirror", CopiesDue) /\ UNCHANGED journal
            \/ run.phase = "mirror" /\ Enters("validate", {}) /\ NotesImages("PENDING")
            \/ run.phase = "validate" /\ Enters("reconcile", Stale) /\ UNCHANGED journal
            \/ run.phase = "reconcile" /\ Enters("receipt", {"receipt"}) /\ NotesOwned
            \/ run.phase = "receipt" /\ Enters("lock", {"lock"}) /\ UNCHANGED journal
            \/ run.phase = "lock" /\ run' = Idle /\ NotesImages("PASS")
<1>1. Installing /\ run.phase # "idle"
  BY DEF Advance, Installing, Writing
<1>2. run.id \in Ids /\ run.release \in Releases
  BY <1>1 DEF RunInv, RunIsOpen
<1>3. /\ Ships[run.release] \subseteq Paths /\ CopiesDue \subseteq Paths /\ {"profile"} \subseteq Paths
      /\ {"receipt"} \subseteq Paths /\ {"lock"} \subseteq Paths /\ Stale \subseteq Paths
  BY <1>2, Kinds, InstallerAssumption DEF CopiesDue, Stale
<1> HIDE DEF CopiesDue, Stale
<1>4. run.todo = {} /\ UNCHANGED <<files, History>>
  BY DEF Advance, History
<1>5. CASE run.phase = "seed"
  BY <1>1, <1>2, <1>3, <1>4, <1>5, PassesFacts DEF Advance, RunInv, Writing
<1>6. CASE run.phase = "overlay"
  BY <1>1, <1>2, <1>3, <1>4, <1>6, PassesFacts DEF Advance, RunInv, Writing
<1>7. CASE run.phase = "metadata"
  BY <1>1, <1>2, <1>3, <1>4, <1>7, PassesFacts DEF Advance, RunInv, Writing
<1>8. CASE run.phase = "mirror"
  BY <1>1, <1>2, <1>3, <1>4, <1>8, PassesFacts, ManifestFacts DEF Advance, RunInv, Writing
<1>9. CASE run.phase = "validate"
  BY <1>1, <1>2, <1>3, <1>4, <1>9, PassesFacts DEF Advance, RunInv, Writing
<1>10. CASE run.phase = "reconcile"
  BY <1>1, <1>2, <1>3, <1>4, <1>10, PassesFacts, OwnedFacts DEF Advance, RunInv, Writing
<1>11. CASE run.phase = "receipt"
  BY <1>1, <1>2, <1>3, <1>4, <1>11, PassesFacts DEF Advance, RunInv, Writing
<1>12. CASE run.phase = "lock"
  BY <1>1, <1>2, <1>3, <1>4, <1>12, ManifestFacts DEF Advance, RunInv, Writing
<1> QED BY <1>5, <1>6, <1>7, <1>8, <1>9, <1>10, <1>11, <1>12 DEF Advance

\* A finished restore ends the run and notes its images as rolled back.
LEMMA RolledBackFacts ==
  ASSUME RunInv, RolledBack
  PROVE  /\ run.phase = "restore" /\ run.id \in Ids /\ run.todo = {} /\ run' = Idle
         /\ journal' \in [Ids -> Entries] /\ OthersKept /\ NotesImages("ROLLED_BACK")
         /\ disturbed' = IF \E p \in Paths : HalfMade(p) THEN disturbed + 1 ELSE disturbed
         /\ UNCHANGED <<files, mine, edits>>
<1>1. run.id \in Ids
  BY DEF RolledBack, RunInv, RunIsOpen
<1> QED BY <1>1, ManifestFacts DEF RolledBack, RunInv

\* A kill ends the run, and tears at most the one file being copied.
LEMMA KillFacts ==
  ASSUME RunInv, Kill
  PROVE  /\ run.phase # "idle" /\ run.id \in Ids /\ run' = Idle /\ disturbed' = disturbed + 1
         /\ UNCHANGED <<mine, edits>>
         /\ \/ UNCHANGED <<files, journal>>
            \/ \E p \in Paths :
                 /\ run.phase \in Writing /\ run.before[p] = "-" /\ UNCHANGED files
                 /\ journal' \in [Ids -> Entries] /\ OthersKept /\ KeepsNotes /\ AddsHalfBackup(p)
            \/ \E p \in Paths :
                 /\ Copying(p) /\ Puts(p, "torn")
                 /\ \/ run.phase \in Writing /\ journal' \in [Ids -> Entries] /\ OthersKept
                       /\ KeepsNotes /\ AddsBackup(p)
                    \/ run.phase \notin Writing /\ UNCHANGED journal
<1>1. run.phase # "idle" /\ run.id \in Ids
  BY DEF Kill, RunInv, RunIsOpen
<1>2. ASSUME NEW p \in Paths, Copying(p), files' = [files EXCEPT ![p] = "torn"],
             journal' = (IF run.phase \in Writing THEN BackedUp(p) ELSE journal)
      PROVE  /\ Puts(p, "torn")
             /\ \/ run.phase \in Writing /\ journal' \in [Ids -> Entries] /\ OthersKept
                   /\ KeepsNotes /\ AddsBackup(p)
                \/ run.phase \notin Writing /\ UNCHANGED journal
  <2>1. Puts(p, "torn")
    BY <1>2, Kinds, Types DEF Puts, RunInv
  <2>2. CASE run.phase \in Writing
    BY <1>1, <1>2, <2>1, <2>2, BackedUpFacts DEF RunInv
  <2>3. CASE run.phase \notin Writing
    BY <1>2, <2>1, <2>3
  <2> QED BY <2>2, <2>3
<1>3. ASSUME NEW p \in Paths, BackingUp(p), journal' = HalfBackedUp(p)
      PROVE  /\ run.phase \in Writing /\ run.before[p] = "-"
             /\ journal' \in [Ids -> Entries] /\ OthersKept /\ KeepsNotes /\ AddsHalfBackup(p)
  BY <1>1, <1>3, HalfBackedUpFacts DEF BackingUp, RunInv
<1> QED BY <1>1, <1>2, <1>3 DEF Kill, Dies

\* In words: installation i has begun, and nothing else is noted of it.
Begins(i) ==
    /\ journal'[i].manifest = "NONE" /\ journal'[i].before = journal[i].before
    /\ journal'[i].after = journal[i].after /\ journal'[i].backup = journal[i].backup
    /\ journal'[i].owned = journal[i].owned /\ journal'[i].undone = journal[i].undone

\* An installation starts from the files as they are, after every earlier one.
LEMMA StartInstallFacts ==
  ASSUME RunInv, NEW i \in Ids, NEW release \in Releases, NEW selector \in Profiles \cup {"-"},
         NEW seed \in BOOLEAN, StartInstall(i, release, selector, seed)
  PROVE  /\ run.phase = "idle" /\ run.before = Blank /\ run.after = Blank
         /\ journal[i].manifest = "-"
         /\ \A j \in Ids : Time[j] < Time[i] => journal[j].manifest # "-"
         /\ run' \in RunRecords /\ run'.phase = "seed" /\ run'.id = i /\ run'.release = release
         /\ run'.profile \in DOMAIN Policy /\ (run'.profile \in Edits => run'.kept)
         /\ run'.todo \subseteq Seeds /\ run'.start = files /\ run'.before = Blank /\ run'.after = Blank
         /\ journal' \in [Ids -> Entries] /\ \A j \in Ids \ {i} : journal'[j] = journal[j]
         /\ Begins(i)
         /\ UNCHANGED <<files, History>>
<1> DEFINE profile == ProfileFor(selector)
           kept == selector = "-" /\ files["profile"] # "absent"
<1>1. profile \in DOMAIN Policy /\ (profile \in Edits => kept)
  BY Kinds, Origins DEF StartInstall, ProfileFor, Profiles
<1>2. Missing \subseteq Seeds /\ Missing \subseteq Paths
  BY Kinds DEF Missing
<1>3. files \in Images /\ Blank \in Images
  BY Types DEF RunInv, Images, Blank
<1>4. run' = [phase |-> "seed", id |-> i, release |-> release, profile |-> profile,
              kept |-> kept, forced |-> FALSE, todo |-> Missing,
              start |-> files, before |-> Blank, after |-> Blank]
  BY DEF StartInstall
<1> HIDE DEF profile, kept
<1>5. kept \in BOOLEAN
  BY DEF kept
<1>6. /\ run' \in RunRecords /\ run'.phase = "seed" /\ run'.id = i /\ run'.release = release
      /\ run'.profile = profile /\ run'.kept = kept /\ run'.todo = Missing
      /\ run'.start = files /\ run'.before = Blank /\ run'.after = Blank
  BY <1>1, <1>2, <1>3, <1>4, <1>5 DEF RunRecords, Writing
<1>7. /\ journal' \in [Ids -> Entries] /\ \A j \in Ids \ {i} : journal'[j] = journal[j]
      /\ Begins(i)
  BY Types DEF StartInstall, RunInv, Entries, Begins
<1>8. /\ run.phase = "idle" /\ run.before = Blank /\ run.after = Blank
      /\ journal[i].manifest = "-"
      /\ \A j \in Ids : Time[j] < Time[i] => journal[j].manifest # "-"
      /\ UNCHANGED <<files, History>>
  BY DEF StartInstall, Idle, History
<1> QED BY <1>1, <1>2, <1>6, <1>7, <1>8

\* An undo lists what its entry has an image of; forced, it gives up the bytes there.
LEMMA StartRollbackFacts ==
  ASSUME RunInv, NEW i \in Ids, NEW force \in BOOLEAN, StartRollback(i, force)
  PROVE  /\ run.phase = "idle" /\ journal[i].manifest \notin {"-", "NONE"}
         /\ run' \in RunRecords /\ run'.phase = "undo" /\ run'.id = i /\ run'.start = files
         /\ run'.before = Blank /\ run'.after = Blank /\ run'.forced = Drifts(i)
         /\ run'.todo = {p \in Paths : journal[i].before[p] # "-"}
         /\ mine' = [p \in Consumers |->
                        IF Drifts(i) /\ journal[i].before[p] # "-" THEN "-" ELSE mine[p]]
         /\ UNCHANGED <<files, journal, edits, disturbed>>
<1>1. files \in Images /\ Blank \in Images
  BY Types DEF RunInv, Images, Blank
<1>2. Drifts(i) \in BOOLEAN
  BY DEF Drifts
<1>3. run' = [phase |-> "undo", id |-> i, release |-> "-", profile |-> "-", kept |-> FALSE,
              forced |-> Drifts(i), todo |-> {p \in Paths : journal[i].before[p] # "-"},
              start |-> files, before |-> Blank, after |-> Blank]
  BY DEF StartRollback, Idle
<1> HIDE DEF Drifts
<1> QED BY <1>1, <1>2, <1>3 DEF StartRollback, RunRecords, Idle

\* A finished undo marks its entry; an empty receipt may go with it.
LEMMA RollbackEndsFacts ==
  ASSUME RunInv, RollbackEnds
  PROVE  /\ run.phase = "undo" /\ run.id \in Ids /\ run.todo = {} /\ run' = Idle
         /\ files' \in [Paths -> Contents]
         /\ \A q \in Paths : files'[q] = files[q] \/ (q = "receipt" /\ files'[q] = "absent")
         /\ journal' \in [Ids -> Entries] /\ OthersKept
         /\ journal'[run.id] = [journal[run.id] EXCEPT !.undone = TRUE]
         /\ disturbed' = IF run.forced THEN disturbed + 1 ELSE disturbed
         /\ UNCHANGED <<mine, edits>>
<1>1. run.phase = "undo" /\ run.id \in Ids
  BY DEF RollbackEnds, RunInv, RunIsOpen
<1>2. /\ files' \in [Paths -> Contents]
      /\ \A q \in Paths : files'[q] = files[q] \/ (q = "receipt" /\ files'[q] = "absent")
  BY Kinds, Types DEF RollbackEnds, RunInv
<1>3. /\ journal' \in [Ids -> Entries] /\ OthersKept
      /\ journal'[run.id] = [journal[run.id] EXCEPT !.undone = TRUE]
  BY <1>1, Types DEF RollbackEnds, RunInv, Entries, OthersKept
<1> QED BY <1>1, <1>2, <1>3 DEF RollbackEnds

\* An edit changes one file of the consumer's between runs, once.
LEMMA EditFacts ==
  ASSUME RunInv, NEW e \in Edits, NEW p \in Editable, NEW c \in {e, "absent"}, Edit(e, p, c)
  PROVE  /\ run.phase = "idle" /\ edits[e] = "-" /\ p \in Consumers /\ p \in Paths
         /\ Puts(p, c) /\ UNCHANGED <<run, journal, disturbed>>
         /\ mine' \in [Consumers -> Edits \cup {"own", "-"}]
         /\ \A q \in Consumers : mine'[q] = IF q # p THEN mine[q] ELSE IF c = e THEN e ELSE "-"
         /\ edits' \in [Edits -> Editable \cup {"-"}]
         /\ \A d \in Edits : edits'[d] = IF d = e THEN p ELSE edits[d]
<1>1. p \in Consumers /\ p \in Paths /\ c \in Contents
  BY InstallerAssumption, Kinds
<1> QED BY <1>1, Types DEF Edit, Idle, Puts, RunInv, TypeOK

-----------------------------------------------------------------------------
(* Types, the order of installations and the phases are kept.              *)

\* What a run is when there is none.
LEMMA IdleFacts ==
    /\ Idle \in RunRecords /\ Idle.phase = "idle"
    /\ Idle.before = Blank /\ Idle.after = Blank
BY DEF Idle, RunRecords, Blank, Images

\* Types are kept by a step that writes files, run and journal of their types.
LEMMA TypesStep ==
  ASSUME TypeOK, files' \in [Paths -> Contents], run' \in RunRecords, journal' \in [Ids -> Entries],
         mine' = mine \/ \E p \in Paths : GivesUp(p), UNCHANGED edits, disturbed' \in Nat
  PROVE  TypeOK'
<1>1. mine' \in [Consumers -> Edits \cup {"own", "-"}]
  BY DEF TypeOK, GivesUp
<1> QED BY <1>1 DEF TypeOK, RunRecords, Entries

\* The order of the installations, as long as the one at work stays begun.
LEMMA OrderStep ==
  ASSUME JournalInOrder, journal' \in [Ids -> Entries], NEW r \in Ids,
         \A i \in Ids \ {r} : journal'[i] = journal[i],
         journal[r].manifest # "-", journal'[r].manifest # "-"
  PROVE  JournalInOrder'
<1>1. \A i \in Ids : journal'[i].manifest # "-" <=> journal[i].manifest # "-"
  OBVIOUS
<1>2. ASSUME NEW i \in Ids, journal'[i].manifest = "-"
      PROVE  /\ journal'[i].before = Blank /\ journal'[i].after = Blank
             /\ journal'[i].backup = Blank /\ journal'[i].owned = Blank /\ ~journal'[i].undone
  BY <1>2 DEF JournalInOrder
<1>3. ASSUME NEW i \in Ids, journal'[i].manifest # "-", NEW j \in Ids, Time[j] < Time[i]
      PROVE  journal'[j].manifest # "-"
  BY <1>1, <1>3 DEF JournalInOrder
<1> QED BY <1>2, <1>3 DEF JournalInOrder

\* A run that goes on as an installation, or as its restore.
LEMMA StaysOpen ==
  ASSUME RunInv, Installing \/ run.phase = "restore", SameRun, run' \in RunRecords,
         run'.phase \in Writing \cup {"validate", "restore"}, files' \in [Paths -> Contents],
         journal' \in [Ids -> Entries], OthersKept,
         journal'[run.id].manifest \in {"NONE", "PENDING"}, ~journal'[run.id].undone,
         mine' = mine \/ \E p \in Paths : GivesUp(p), UNCHANGED edits, disturbed' \in Nat
  PROVE  TypeOK' /\ RunIsOpen' /\ JournalInOrder'
<1>1. /\ run.id \in Ids /\ run.start \in [Paths -> Contents] /\ run.release \in Releases
      /\ run.profile \in DOMAIN Policy /\ (run.profile \in Edits => run.kept)
      /\ journal[run.id].manifest \in {"NONE", "PENDING"}
      /\ \A j \in Ids : journal[j].manifest # "-" => Time[j] <= Time[run.id]
  BY DEF RunInv, RunIsOpen, Installing, Writing
<1>2. TypeOK'
  BY TypesStep DEF RunInv
<1>3. JournalInOrder'
  BY <1>1, OrderStep DEF RunInv, OthersKept
<1>4. \A j \in Ids : journal'[j].manifest # "-" => Time[j] <= Time[run.id]
  BY <1>1 DEF OthersKept
<1>5. RunIsOpen'
  BY <1>1, <1>4 DEF RunIsOpen, SameRun, Writing
<1> QED BY <1>2, <1>3, <1>5

\* A run that ends, whatever its files and its notes are.
LEMMA StopsFacts ==
  ASSUME RunInv, run.phase # "idle", run' = Idle, files' \in [Paths -> Contents],
         journal' = journal \/ (journal' \in [Ids -> Entries] /\ OthersKept),
         journal'[run.id].manifest # "-", UNCHANGED <<mine, edits>>, disturbed' \in Nat
  PROVE  RunInv'
<1>1. run.id \in Ids /\ journal[run.id].manifest # "-" /\ journal' \in [Ids -> Entries]
  <2>1. run.phase \in Writing \cup {"validate", "restore", "undo"}
    BY Types DEF RunInv, RunRecords
  <2> QED BY <2>1, Types DEF RunInv, RunIsOpen, Installing
<1>2. TypeOK'
  BY <1>1, IdleFacts, TypesStep DEF RunInv
<1>3. JournalInOrder'
  BY <1>1, OrderStep DEF RunInv, OthersKept
<1>4. RunIsOpen' /\ PhaseWrites'
  BY IdleFacts DEF RunIsOpen, PhaseWrites, Installing, Writing
<1> QED BY <1>2, <1>3, <1>4 DEF RunInv

\* The end of a phase keeps the order of phases and journal.
LEMMA AdvanceRun ==
  ASSUME RunInv, OwnedIsInstalled, Advance
  PROVE  RunInv'
<1>1. CASE run.phase = "lock"
  <2>1. journal'[run.id].manifest = "PASS" /\ run' = Idle /\ UNCHANGED <<files, History>>
    BY <1>1, AdvanceFacts DEF NotesImages
  <2> QED BY <1>1, <2>1, AdvanceFacts, StopsFacts, Types DEF RunInv, TypeOK, History
<1>2. CASE run.phase # "lock"
  <2>1. /\ SameRun /\ run' \in RunRecords /\ run'.phase \in Writing \cup {"validate", "restore"}
        /\ journal' \in [Ids -> Entries] /\ OthersKept
        /\ UNCHANGED <<files, History>> /\ Installing /\ run.id \in Ids
    BY <1>2, AdvanceFacts, Types DEF Enters, Writing, RunInv, OthersKept
  <2>2. journal'[run.id].manifest \in {"NONE", "PENDING"} /\ ~journal'[run.id].undone
    BY <1>2, <2>1, AdvanceFacts DEF NotesImages, NotesOwned, RunInv, RunIsOpen
  <2>3. TypeOK' /\ RunIsOpen' /\ JournalInOrder'
    BY <2>1, <2>2, StaysOpen, Types DEF RunInv, TypeOK, History
  <2>4. PhaseWrites'
    <3>1. Ships[run.release] \subseteq Skills
      BY <2>1, InstallerAssumption DEF RunInv, RunIsOpen
    <3>2. Stale \subseteq Consumers
      BY Kinds, Types DEF Stale, OwnedBefore, OwnedIsInstalled, Paths, RunInv
    <3>3. CopiesDue \subseteq Copies
      BY DEF CopiesDue
    <3> HIDE DEF Stale, CopiesDue
    <3> QED BY <1>2, <3>1, <3>2, <3>3, AdvanceFacts DEF Enters, SameRun, PhaseWrites
  <2> QED BY <2>3, <2>4 DEF RunInv
<1> QED BY <1>1, <1>2

\* Every step keeps types, the order of the journal and what a phase writes.
LEMMA RunStep ==
  ASSUME RunInv, ImageInv, [Next]_vars
  PROVE  RunInv'
<1> USE DEF ImageInv, RunImages
<1>d. disturbed \in Nat /\ disturbed + 1 \in Nat
  BY DEF RunInv, TypeOK
<1>o. Installing \/ run.phase = "restore" =>
        run.id \in Ids /\ journal[run.id].manifest \in {"NONE", "PENDING"} /\ ~journal[run.id].undone
  BY DEF RunInv, RunIsOpen, Installing, Writing
<1>1. ASSUME NEW i \in Ids, NEW release \in Releases, NEW selector \in Profiles \cup {"-"},
             NEW seed \in BOOLEAN, StartInstall(i, release, selector, seed)
      PROVE  RunInv'
  <2> DEFINE Facts ==
        /\ run' \in RunRecords /\ run'.phase = "seed" /\ run'.id = i /\ run'.release = release
        /\ run'.profile \in DOMAIN Policy /\ (run'.profile \in Edits => run'.kept)
        /\ run'.todo \subseteq Seeds /\ run'.start = files
        /\ journal' \in [Ids -> Entries] /\ \A j \in Ids \ {i} : journal'[j] = journal[j]
        /\ journal[i].manifest = "-"
        /\ journal'[i].manifest = "NONE" /\ journal'[i].undone = journal[i].undone
        /\ \A j \in Ids : Time[j] < Time[i] => journal[j].manifest # "-"
        /\ UNCHANGED <<files, History>>
  <2>1. Facts
    BY <1>1, StartInstallFacts DEF Begins
  <2>2. TypeOK'
    BY <2>1, <1>d, TypesStep, Types DEF RunInv, History
  <2>3. JournalInOrder'
    <3>1. ASSUME NEW j \in Ids, journal'[j].manifest = "-"
          PROVE  /\ journal'[j].before = Blank /\ journal'[j].after = Blank
                 /\ journal'[j].backup = Blank /\ journal'[j].owned = Blank /\ ~journal'[j].undone
      BY <2>1, <3>1 DEF RunInv, JournalInOrder
    <3>2. ASSUME NEW j \in Ids, journal'[j].manifest # "-", NEW k \in Ids, Time[k] < Time[j]
          PROVE  journal'[k].manifest # "-"
      BY <2>1, <3>2 DEF RunInv, JournalInOrder
    <3> QED BY <3>1, <3>2 DEF JournalInOrder
  <2>4. \A j \in Ids : journal'[j].manifest # "-" => Time[j] <= Time[i]
    <3> SUFFICES ASSUME NEW j \in Ids, journal'[j].manifest # "-", Time[i] < Time[j] PROVE FALSE
      BY InstallerAssumption
    <3>1. j # i /\ journal[j].manifest # "-"
      BY <2>1, InstallerAssumption
    <3> QED BY <2>1, <3>1 DEF RunInv, JournalInOrder
  <2>5. RunIsOpen'
    BY <2>1, <2>4, Types DEF RunInv, RunIsOpen, JournalInOrder
  <2>6. PhaseWrites'
    BY <2>1 DEF PhaseWrites
  <2> QED BY <2>2, <2>3, <2>5, <2>6 DEF RunInv
<1>2. ASSUME NEW p \in Paths, Write(p) PROVE RunInv'
  <2>1. TypeOK' /\ RunIsOpen' /\ JournalInOrder'
    BY <1>2, <1>d, <1>o, WriteFacts, StaysOpen DEF Installing, KeepsNotes, History
  <2>2. PhaseWrites'
    BY <1>2, WriteFacts DEF RunInv, PhaseWrites, SameRun
  <2> QED BY <2>1, <2>2 DEF RunInv
<1>3. ASSUME NEW p \in Paths, WriteFails(p) PROVE RunInv'
  <2>1. TypeOK' /\ RunIsOpen' /\ JournalInOrder'
    BY <1>3, <1>d, <1>o, WriteFailsFacts, StaysOpen DEF Installing, KeepsNotes, History, GoesToRestore
  <2>2. PhaseWrites'
    BY <1>3, WriteFailsFacts DEF PhaseWrites, GoesToRestore
  <2> QED BY <2>1, <2>2 DEF RunInv
<1>4. ASSUME GoesToRestore, Installing, UNCHANGED <<files, journal, History>> PROVE RunInv'
  <2>1. TypeOK' /\ RunIsOpen' /\ JournalInOrder'
    BY <1>4, <1>d, <1>o, StaysOpen, Types DEF History, GoesToRestore, OthersKept, RunInv
  <2>2. PhaseWrites'
    BY <1>4 DEF PhaseWrites, GoesToRestore
  <2> QED BY <2>1, <2>2 DEF RunInv
<1>5. ASSUME NEW p \in Paths, BackupFails(p) PROVE RunInv'
  <2>1. /\ GoesToRestore /\ Installing /\ UNCHANGED <<files, edits, disturbed>>
        /\ mine' = mine \/ GivesUp(p)
        /\ journal' \in [Ids -> Entries] /\ OthersKept
        /\ journal' = journal \/ KeepsNotes
    BY <1>5, BackupFailsFacts, Types DEF Installing, OthersKept, RunInv
  <2>2. journal'[run.id].manifest \in {"NONE", "PENDING"} /\ ~journal'[run.id].undone
    BY <2>1, <1>o DEF KeepsNotes
  <2>3. TypeOK' /\ RunIsOpen' /\ JournalInOrder'
    BY <2>1, <2>2, <1>d, StaysOpen, Types DEF GoesToRestore, RunInv
  <2>4. PhaseWrites'
    BY <2>1 DEF PhaseWrites, GoesToRestore
  <2> QED BY <2>3, <2>4 DEF RunInv
<1>6. CASE Refused
  BY <1>4, <1>6, RefusedFacts
<1>7. ASSUME NEW p \in Paths, Restore(p) PROVE RunInv'
  <2>1. CASE Dies /\ UNCHANGED files
    BY <1>7, <2>1, <1>d, <1>o, RestoreFacts, StopsFacts, Types DEF Dies, RunInv
  <2>2. CASE Puts(p, journal[run.id].backup[p]) /\ GoesOn(p) /\ UNCHANGED disturbed
    <3>1. TypeOK' /\ RunIsOpen' /\ JournalInOrder'
      BY <1>7, <2>2, <1>d, <1>o, RestoreFacts, StaysOpen, Types DEF Puts, GoesOn, OthersKept, RunInv
    <3>2. PhaseWrites'
      BY <1>7, <2>2, RestoreFacts DEF PhaseWrites, GoesOn
    <3> QED BY <3>1, <3>2 DEF RunInv
  <2> QED BY <1>7, <2>1, <2>2, RestoreFacts
<1>8. CASE RolledBack
  <2>1. journal'[run.id].manifest = "ROLLED_BACK" /\ disturbed' \in Nat
    BY <1>8, <1>d, RolledBackFacts DEF NotesImages
  <2> QED BY <1>8, <2>1, RolledBackFacts, StopsFacts, Types DEF RunInv
<1>9. CASE Kill
  <2>1. journal[run.id].manifest # "-"
    <3>1. run.phase \in Writing \cup {"validate", "restore", "undo"}
      BY <1>9, KillFacts, Types DEF RunInv, RunRecords
    <3> QED BY <1>9, <1>o, <3>1, KillFacts DEF RunInv, RunIsOpen, Installing
  <2>2. /\ files' \in [Paths -> Contents] /\ journal'[run.id].manifest # "-"
        /\ journal' = journal \/ (journal' \in [Ids -> Entries] /\ OthersKept)
    BY <1>9, <2>1, KillFacts, Types DEF RunInv, Puts, KeepsNotes
  <2> QED BY <1>9, <2>2, <1>d, KillFacts, StopsFacts
<1>10. ASSUME NEW i \in Ids, NEW force \in BOOLEAN, StartRollback(i, force) PROVE RunInv'
  <2>1. mine' \in [Consumers -> Edits \cup {"own", "-"}]
    BY <1>10, StartRollbackFacts DEF RunInv, TypeOK
  <2>2. TypeOK'
    BY <1>10, <2>1, StartRollbackFacts DEF RunInv, TypeOK, RunRecords
  <2>3. RunIsOpen' /\ JournalInOrder' /\ PhaseWrites'
    BY <1>10, StartRollbackFacts, Types
    DEF RunInv, RunIsOpen, JournalInOrder, PhaseWrites, Installing, Writing
  <2> QED BY <2>2, <2>3 DEF RunInv
<1>11. ASSUME NEW p \in Paths, Rollback(p) PROVE RunInv'
  <2>1. /\ run.phase = "undo" /\ Puts(p, journal[run.id].backup[p]) /\ GoesOn(p)
        /\ UNCHANGED <<journal, History>>
    BY <1>11, RollbackFacts
  <2>2. TypeOK'
    BY <2>1, <1>d, TypesStep, Types DEF Puts, GoesOn, RunInv, History
  <2>3. RunIsOpen' /\ JournalInOrder' /\ PhaseWrites'
    BY <2>1 DEF RunInv, RunIsOpen, JournalInOrder, PhaseWrites, Installing, Writing, GoesOn, SameRun
  <2> QED BY <2>2, <2>3 DEF RunInv
<1>12. CASE RollbackEnds
  <2>1. journal'[run.id].manifest # "-" /\ disturbed' \in Nat
    BY <1>12, <1>d, RollbackEndsFacts, Types DEF RunInv, RunIsOpen, Entries
  <2> QED BY <1>12, <2>1, RollbackEndsFacts, StopsFacts
<1>13. ASSUME NEW e \in Edits, NEW p \in Editable, NEW c \in {e, "absent"}, Edit(e, p, c)
       PROVE  RunInv'
  <2>1. TypeOK'
    BY <1>13, EditFacts DEF RunInv, TypeOK, Puts
  <2>2. RunIsOpen' /\ JournalInOrder' /\ PhaseWrites'
    BY <1>13, EditFacts DEF RunInv, RunIsOpen, JournalInOrder, PhaseWrites, Installing
  <2> QED BY <2>1, <2>2 DEF RunInv
<1>14. CASE UNCHANGED vars
  BY <1>14 DEF vars, RunInv, TypeOK, RunIsOpen, JournalInOrder, PhaseWrites, Installing
<1>15. CASE Advance
  BY <1>15, AdvanceRun
<1> QED BY <1>1, <1>2, <1>3, <1>5, <1>6, <1>7, <1>8, <1>9, <1>10, <1>11, <1>12, <1>13, <1>14, <1>15
       DEF Next

-----------------------------------------------------------------------------
(* Images and backups.                                                     *)

\* In words: a backup that is there stays.
KeepsBackups ==
    \A i \in Ids, q \in Paths :
        journal[i].backup[q] # "-" => journal'[i].backup[q] = journal[i].backup[q]

\* Bytes that are backed up stay so where no new ones are written.
LEMMA SafeStays ==
  ASSUME KeepsBackups, NEW q \in Paths, Safe(q), q \in Consumers => mine'[q] \in {"-", mine[q]}
  PROVE  Safe(q)'
BY DEF Safe, KeepsBackups

\* A write backs up what nobody else has, and takes no backup away.
LEMMA WriteIsSafe ==
  ASSUME RunInv, WritesAreRecorded, ConsumerBytesKept, Installing, run.id \in Ids,
         NEW p \in Paths, AddsBackup(p), UNCHANGED mine
  PROVE  KeepsBackups /\ Safe(p)'
<1>1. KeepsBackups
  BY DEF KeepsBackups, AddsBackup, WritesAreRecorded
<1>2. ASSUME run.before[p] # "-" PROVE Safe(p)'
  BY <1>1, <1>2, SafeStays DEF WritesAreRecorded
<1>3. ASSUME run.before[p] = "-", p \in Consumers, mine[p] # "-"
      PROVE  \E i \in Ids : journal'[i].backup[p] = mine[p]
  <2>1. CASE files[p] = mine[p]
    BY <1>3, <2>1 DEF AddsBackup
  <2>2. CASE \E i \in Ids : journal[i].backup[p] = mine[p]
    BY <1>1, <1>3, <2>2 DEF KeepsBackups
  <2> QED BY <1>3, <2>1, <2>2 DEF ConsumerBytesKept
<1>4. ASSUME run.before[p] = "-" PROVE Safe(p)'
  BY <1>3, <1>4 DEF Safe
<1> QED BY <1>1, <1>2, <1>4

\* When no file of the consumer changes but one that is safe, nothing is lost.
LEMMA KeptStep ==
  ASSUME ConsumerBytesKept, \A q \in Consumers : mine'[q] \in {"-", mine[q]}, KeepsBackups,
         \A q \in Consumers : files'[q] = files[q] \/ Safe(q)'
  PROVE  ConsumerBytesKept'
BY Kinds DEF ConsumerBytesKept, Safe, KeepsBackups

\* A run that is neither an installation nor an undo nor a restore has no images.
LEMMA NoImages ==
  ASSUME run' = Idle, \A i \in Ids : journal'[i].owned = journal[i].owned, OwnedIsInstalled
  PROVE  RunImages'
BY IdleFacts DEF ImageInv, RunImages, WritesAreRecorded, RestoreKnowsStart, UndoKnowsStart, OwnedIsInstalled,
   Installing, Writing

\* A run that goes over to restore, once every record it has can be restored.
LEMMA RestoreBegins ==
  ASSUME OwnedIsInstalled, GoesToRestore, \A i \in Ids : journal'[i].owned = journal[i].owned,
         \A q \in Paths :
            /\ run'.before[q] \in {"-", run.start[q]}
            /\ run'.before[q] # "-" => Safe(q)' \/ journal'[run.id].backup[q] = "-"
            /\ run'.before[q] = "-" => files'[q] = run.start[q]
            /\ run'.before[q] # "-" /\ run.after[q] # "-" =>
                    journal'[run.id].backup[q] = run'.before[q]
  PROVE  RunImages'
<1>1. RestoreKnowsStart'
  BY DEF RestoreKnowsStart, GoesToRestore, SameRun
<1>2. WritesAreRecorded' /\ UndoKnowsStart' /\ OwnedIsInstalled'
  BY DEF GoesToRestore, WritesAreRecorded, UndoKnowsStart, OwnedIsInstalled, Installing, Writing
<1> QED BY <1>1, <1>2 DEF RunImages

KeptInv == RunInv /\ ImageInv /\ ContentsHaveOrigins /\ ConsumerBytesKept

\* One lemma for each action: images stay, and the consumer's bytes are there or
\* backed up. A write has recorded what it overwrites.
LEMMA WriteImages ==
  ASSUME KeptInv, NEW p \in Paths, Write(p)
  PROVE  RunImages' /\ ConsumerBytesKept'
<1>1. /\ Installing /\ run.phase \in Writing /\ p \in run.todo
      /\ run.id \in Ids /\ run.start \in [Paths -> Contents] /\ files \in [Paths -> Contents]
  BY WriteFacts, TargetFacts, Types DEF KeptInv, RunInv, RunIsOpen, Installing, Writing
<1>2. /\ \A q \in Paths : files'[q] = IF q = p THEN Target(p) ELSE files[q]
      /\ SameRun /\ run'.phase = run.phase
      /\ \A q \in Paths : run'.before[q] = IF q = p /\ run.before[p] = "-" THEN files[p] ELSE run.before[q]
      /\ \A q \in Paths : run'.after[q] = IF q = p THEN Target(p) ELSE run.after[q]
      /\ KeepsNotes /\ AddsBackup(p) /\ UNCHANGED mine
  BY WriteFacts DEF KeptInv, History
<1>3. KeepsBackups /\ Safe(p)'
  BY <1>1, <1>2, WriteIsSafe DEF KeptInv, ImageInv, RunImages
<1>4. WritesAreRecorded'
  <2> SUFFICES ASSUME NEW q \in Paths
               PROVE  /\ run'.before[q] = "-" => /\ files'[q] = run.start[q] /\ run'.after[q] = "-"
                                                 /\ journal'[run.id].backup[q] = "-"
                      /\ run'.before[q] # "-" => /\ run'.before[q] = run.start[q]
                                                 /\ files'[q] = run'.after[q]
                                                 /\ journal'[run.id].backup[q] = run'.before[q]
                                                 /\ Safe(q)'
    BY <1>2 DEF WritesAreRecorded, SameRun
  <2>1. CASE q = p
    BY <1>1, <1>2, <1>3, <2>1, Kinds DEF KeptInv, ImageInv, RunImages, WritesAreRecorded, AddsBackup
  <2>2. CASE q # p
    BY <1>1, <1>2, <1>3, <2>2, SafeStays DEF KeptInv, ImageInv, RunImages, WritesAreRecorded, AddsBackup
  <2> QED BY <2>1, <2>2
<1>5. RestoreKnowsStart' /\ UndoKnowsStart'
  BY <1>1, <1>2 DEF RestoreKnowsStart, UndoKnowsStart, Writing
<1>6. OwnedIsInstalled'
  <2>1. run.phase \in {"receipt", "lock"} => p \in {"receipt", "lock"}
    BY <1>1 DEF KeptInv, RunInv, PhaseWrites
  <2> QED BY <1>1, <1>2, <2>1 DEF KeptInv, ImageInv, RunImages, OwnedIsInstalled, KeepsNotes, SameRun
<1>7. ConsumerBytesKept'
  BY <1>2, <1>3, Kinds, KeptStep DEF KeptInv
<1> QED BY <1>4, <1>5, <1>6, <1>7 DEF RunImages

\* A failing write begins a restore that knows what it tore.
LEMMA WriteFailsImages ==
  ASSUME KeptInv, NEW p \in Paths, WriteFails(p)
  PROVE  RunImages' /\ ConsumerBytesKept'
<1>1. /\ Installing /\ run.phase \in Writing /\ p \in run.todo
      /\ run.id \in Ids /\ run.start \in [Paths -> Contents] /\ files \in [Paths -> Contents]
  BY WriteFailsFacts, TargetFacts, Types DEF KeptInv, RunInv, RunIsOpen, Installing, Writing
<1>2. /\ \A q \in Paths : files'[q] = files[q] \/ q = p
      /\ GoesToRestore /\ KeepsNotes /\ AddsBackup(p) /\ UNCHANGED mine
      /\ \A q \in Paths : run'.before[q] = IF q = p /\ run.before[p] = "-" THEN files[p] ELSE run.before[q]
  BY WriteFailsFacts DEF KeptInv, History
<1>3. KeepsBackups /\ Safe(p)'
  BY <1>1, <1>2, WriteIsSafe DEF KeptInv, ImageInv, RunImages
<1>4. ASSUME NEW q \in Paths
      PROVE  /\ run'.before[q] \in {"-", run.start[q]}
             /\ run'.before[q] # "-" => Safe(q)'
             /\ run'.before[q] = "-" => files'[q] = run.start[q]
             /\ run'.before[q] # "-" => journal'[run.id].backup[q] = run'.before[q]
  <2>1. CASE q = p
    BY <1>1, <1>2, <1>3, <2>1, Kinds DEF KeptInv, ImageInv, RunImages, WritesAreRecorded, AddsBackup
  <2>2. CASE q # p
    BY <1>1, <1>2, <1>3, <2>2, SafeStays DEF KeptInv, ImageInv, RunImages, WritesAreRecorded, AddsBackup
  <2> QED BY <2>1, <2>2
<1>5. RunImages'
  BY <1>2, <1>4, RestoreBegins DEF KeptInv, ImageInv, RunImages, KeepsNotes
<1>6. ConsumerBytesKept'
  BY <1>2, <1>3, Kinds, KeptStep DEF KeptInv
<1> QED BY <1>5, <1>6

\* A failing backup begins a restore that cannot lose what was not backed up, and
\* gives up what was backed up by half.
LEMMA BackupFailsImages ==
  ASSUME KeptInv, NEW p \in Paths, BackupFails(p)
  PROVE  RunImages' /\ ConsumerBytesKept'
<1>1. /\ Installing /\ run.phase \in Writing /\ run.before[p] = "-" /\ files[p] # "absent"
      /\ GoesToRestore /\ UNCHANGED <<files, edits>> /\ run.id \in Ids
      /\ \A q \in Paths : run'.before[q] = IF q = p THEN files[p] ELSE run.before[q]
  BY BackupFailsFacts DEF KeptInv, Installing, Writing, RunInv, RunIsOpen
<1>2. /\ run.after[p] = "-" /\ journal[run.id].backup[p] = "-"
      /\ \A q \in Paths \ {p} : run.before[q] # "-" => Safe(q) /\ journal[run.id].backup[q] = run.before[q]
      /\ \A q \in Paths : run'.before[q] \in {"-", run.start[q]}
      /\ \A q \in Paths : run'.before[q] = "-" => files'[q] = run.start[q]
  BY <1>1 DEF KeptInv, ImageInv, RunImages, WritesAreRecorded
<1>3. CASE UNCHANGED <<journal, mine>>
  <2>1. \A q \in Paths : run'.before[q] # "-" => Safe(q)' \/ journal'[run.id].backup[q] = "-"
    BY <1>1, <1>2, <1>3 DEF Safe
  <2>2. \A q \in Paths : run'.before[q] # "-" /\ run.after[q] # "-" =>
                            journal'[run.id].backup[q] = run'.before[q]
    BY <1>1, <1>2, <1>3
  <2>3. RunImages'
    BY <1>1, <1>2, <1>3, <2>1, <2>2, RestoreBegins DEF KeptInv, ImageInv, RunImages
  <2> QED BY <1>1, <1>3, <2>3, KeptStep DEF KeptInv, KeepsBackups
<1>4. CASE KeepsNotes /\ AddsHalfBackup(p) /\ GivesUp(p)
  <2>1. KeepsBackups /\ (\A q \in Consumers : mine'[q] \in {"-", mine[q]}) /\ Safe(p)'
    BY <1>2, <1>4, Kinds DEF KeepsBackups, AddsHalfBackup, GivesUp, Safe
  <2>2. \A q \in Paths : run'.before[q] # "-" => Safe(q)'
    BY <1>1, <1>2, <2>1, SafeStays
  <2>3. \A q \in Paths : run'.before[q] # "-" /\ run.after[q] # "-" =>
                            journal'[run.id].backup[q] = run'.before[q]
    BY <1>1, <1>2, <1>4 DEF AddsHalfBackup
  <2>4. RunImages'
    BY <1>1, <1>2, <1>4, <2>2, <2>3, RestoreBegins DEF KeptInv, ImageInv, RunImages, KeepsNotes
  <2> QED BY <1>1, <2>1, <2>4, KeptStep DEF KeptInv
<1> QED BY <1>3, <1>4, BackupFailsFacts DEF KeptInv

\* A refused validation begins a restore of everything written.
LEMMA RefusedImages ==
  ASSUME KeptInv, Refused
  PROVE  RunImages' /\ ConsumerBytesKept'
<1>1. /\ Installing /\ GoesToRestore /\ run'.before = run.before /\ UNCHANGED <<files, journal, mine>>
  BY RefusedFacts DEF KeptInv, History
<1>2. \A q \in Paths :
             /\ run'.before[q] \in {"-", run.start[q]}
             /\ run'.before[q] # "-" => Safe(q)' /\ journal'[run.id].backup[q] = run'.before[q]
             /\ run'.before[q] = "-" => files'[q] = run.start[q]
  BY <1>1 DEF KeptInv, ImageInv, RunImages, WritesAreRecorded, Safe
<1>3. RunImages'
  BY <1>1, <1>2, RestoreBegins DEF KeptInv, ImageInv, RunImages
<1> QED BY <1>1, <1>3, KeptStep DEF KeptInv, KeepsBackups

\* A restore goes back, file by file, to what the run started with.
LEMMA RestoreImages ==
  ASSUME KeptInv, NEW p \in Paths, Restore(p)
  PROVE  RunImages' /\ ConsumerBytesKept'
<1>1. run.phase = "restore" /\ p \in run.todo /\ UNCHANGED <<journal, mine, edits>>
  BY RestoreFacts DEF KeptInv, ImageInv, RunImages
<1>2. CASE Dies /\ UNCHANGED files
  BY <1>1, <1>2, NoImages, KeptStep DEF KeptInv, ImageInv, RunImages, Dies, KeepsBackups
<1>3. CASE /\ journal[run.id].backup[p] # "-"
           /\ Puts(p, journal[run.id].backup[p]) /\ GoesOn(p)
  <2>1. Safe(p) /\ run.before[p] = run.start[p]
    BY <1>1, <1>3 DEF KeptInv, ImageInv, RunImages, RestoreKnowsStart
  <2>2. RestoreKnowsStart'
    <3> SUFFICES ASSUME NEW q \in Paths
                 PROVE  /\ run.before[q] \in {"-", run.start[q]}
                        /\ q \in run'.todo =>
                             run.before[q] # "-" /\ (Safe(q)' \/ journal[run.id].backup[q] = "-")
                        /\ q \notin run'.todo =>
                             /\ files'[q] = run.start[q] \/ HalfMade(q)
                             /\ run.before[q] # "-" => journal[run.id].backup[q] # "-"
                        /\ run.before[q] # "-" /\ run.after[q] # "-" =>
                             journal[run.id].backup[q] = run.before[q]
      BY <1>1, <1>3 DEF RestoreKnowsStart, GoesOn, SameRun, HalfMade
    <3>1. Safe(q) => Safe(q)'
      BY <1>1 DEF Safe
    <3> QED BY <1>1, <1>3, <2>1, <3>1
            DEF KeptInv, ImageInv, RunImages, RestoreKnowsStart, Puts, GoesOn, HalfMade
  <2>3. WritesAreRecorded' /\ UndoKnowsStart' /\ OwnedIsInstalled'
    BY <1>1, <1>3 DEF GoesOn, WritesAreRecorded, UndoKnowsStart, OwnedIsInstalled, Installing, Writing,
       KeptInv, ImageInv, RunImages
  <2>4. ConsumerBytesKept'
    BY <1>1, <1>3, <2>1, Kinds, KeptStep DEF KeptInv, Puts, KeepsBackups, Safe
  <2> QED BY <2>2, <2>3, <2>4 DEF RunImages
<1> QED BY <1>2, <1>3, RestoreFacts DEF KeptInv, ImageInv, RunImages

\* An undo goes back, file by file, to the images of its entry.
LEMMA RollbackImages ==
  ASSUME KeptInv, NEW p \in Paths, Rollback(p)
  PROVE  RunImages' /\ ConsumerBytesKept'
<1>1. /\ run.phase = "undo" /\ p \in run.todo
      /\ Puts(p, journal[run.id].backup[p]) /\ GoesOn(p)
      /\ UNCHANGED <<journal, mine>>
  BY RollbackFacts DEF KeptInv, ImageInv, RunImages, History
<1>2. Safe(p) /\ journal[run.id].before[p] # "-"
  BY <1>1 DEF KeptInv, ImageInv, RunImages, UndoKnowsStart
<1>3. UndoKnowsStart'
  <2> SUFFICES ASSUME NEW q \in Paths
               PROVE  /\ q \in run'.todo => journal[run.id].before[q] # "-" /\ Safe(q)'
                      /\ files'[q] = IF q \in run'.todo \/ journal[run.id].before[q] = "-"
                                     THEN run.start[q] ELSE journal[run.id].backup[q]
                      /\ ~run.forced /\ journal[run.id].before[q] # "-" =>
                            run.start[q] = journal[run.id].after[q]
    BY <1>1 DEF UndoKnowsStart, GoesOn, SameRun
  <2>1. Safe(q) => Safe(q)'
    BY <1>1 DEF Safe
  <2> QED BY <1>1, <1>2, <2>1 DEF KeptInv, ImageInv, RunImages, UndoKnowsStart, Puts, GoesOn
<1>4. WritesAreRecorded' /\ RestoreKnowsStart' /\ OwnedIsInstalled'
  BY <1>1 DEF GoesOn, WritesAreRecorded, RestoreKnowsStart, OwnedIsInstalled, Installing, Writing,
     KeptInv, ImageInv, RunImages
<1>5. ConsumerBytesKept'
  BY <1>1, <1>2, Kinds, KeptStep DEF KeptInv, Puts, KeepsBackups, Safe
<1> QED BY <1>3, <1>4, <1>5 DEF RunImages

\* A kill leaves bytes that are there or backed up.
LEMMA KillImages ==
  ASSUME KeptInv, Kill
  PROVE  RunImages' /\ ConsumerBytesKept'
<1>1. run' = Idle /\ run.id \in Ids /\ UNCHANGED mine
  BY KillFacts DEF KeptInv
<1>2. CASE UNCHANGED <<files, journal>>
  BY <1>1, <1>2, NoImages, KeptStep DEF KeptInv, ImageInv, RunImages, KeepsBackups
<1>5. ASSUME NEW p \in Paths, run.phase \in Writing, run.before[p] = "-", UNCHANGED files,
             KeepsNotes, AddsHalfBackup(p)
      PROVE  RunImages' /\ ConsumerBytesKept'
  <2>1. KeepsBackups
    BY <1>5 DEF KeptInv, ImageInv, RunImages, WritesAreRecorded, Installing, KeepsBackups, AddsHalfBackup
  <2>2. RunImages'
    BY <1>1, <1>5, NoImages DEF KeptInv, ImageInv, RunImages, KeepsNotes
  <2> QED BY <1>1, <1>5, <2>1, <2>2, KeptStep DEF KeptInv
<1>3. ASSUME NEW p \in Paths, Copying(p), Puts(p, "torn"), run.phase \in Writing,
             KeepsNotes, AddsBackup(p)
      PROVE  RunImages' /\ ConsumerBytesKept'
  <2>1. KeepsBackups /\ Safe(p)'
    BY <1>1, <1>3, WriteIsSafe DEF KeptInv, ImageInv, RunImages, Installing
  <2>2. RunImages'
    BY <1>1, <1>3, NoImages DEF KeptInv, ImageInv, RunImages, KeepsNotes
  <2> QED BY <1>1, <1>3, <2>1, <2>2, Kinds, KeptStep DEF KeptInv, Puts
<1>4. ASSUME NEW p \in Paths, Copying(p), Puts(p, "torn"), run.phase \notin Writing, UNCHANGED journal
      PROVE  RunImages' /\ ConsumerBytesKept'
  <2>1. Safe(p)
    BY <1>4 DEF Copying, LastOf, KeptInv, ImageInv, RunImages, RestoreKnowsStart, UndoKnowsStart, Writing
  <2>2. RunImages'
    BY <1>1, <1>4, NoImages DEF KeptInv, ImageInv, RunImages
  <2> QED BY <1>1, <1>4, <2>1, <2>2, Kinds, KeptStep DEF KeptInv, Puts, KeepsBackups, Safe
<1> QED BY <1>2, <1>3, <1>4, <1>5, KillFacts DEF KeptInv

\* An undo that is not forced starts with every file as the installation left it.
LEMMA StartRollbackImages ==
  ASSUME KeptInv, NEW i \in Ids, NEW force \in BOOLEAN, StartRollback(i, force)
  PROVE  RunImages' /\ ConsumerBytesKept'
<1>1. /\ run'.phase = "undo" /\ run'.id = i /\ run'.start = files /\ run'.forced = Drifts(i)
      /\ run'.todo = {p \in Paths : journal[i].before[p] # "-"}
      /\ \A p \in Consumers :
            mine'[p] = IF Drifts(i) /\ journal[i].before[p] # "-" THEN "-" ELSE mine[p]
      /\ UNCHANGED <<files, journal>>
  BY StartRollbackFacts DEF KeptInv
<1>2. ASSUME NEW p \in Paths, journal[i].before[p] # "-" PROVE Safe(p)'
  <2> SUFFICES ASSUME p \in Consumers, mine'[p] # "-"
               PROVE  \E j \in Ids : journal[j].backup[p] = mine'[p]
    BY <1>1 DEF Safe
  <2>1. ~Drifts(i) /\ mine'[p] = mine[p]
    BY <1>1, <1>2
  <2>2. files[p] = journal[i].after[p]
    BY <1>2, <2>1 DEF Drifts
  <2>3. files[p] # mine[p]
    BY <2>1, <2>2 DEF KeptInv, ContentsHaveOrigins
  <2> QED BY <2>1, <2>3 DEF KeptInv, ConsumerBytesKept
<1>3. UndoKnowsStart'
  BY <1>1, <1>2 DEF UndoKnowsStart, Drifts
<1>4. WritesAreRecorded' /\ RestoreKnowsStart' /\ OwnedIsInstalled'
  BY <1>1 DEF WritesAreRecorded, RestoreKnowsStart, OwnedIsInstalled, Installing, Writing, KeptInv, ImageInv, RunImages
<1>5. ConsumerBytesKept'
  BY <1>1 DEF KeptInv, ConsumerBytesKept
<1> QED BY <1>3, <1>4, <1>5 DEF RunImages

\* An installation starts with nothing recorded.
LEMMA StartInstallImages ==
  ASSUME KeptInv, NEW i \in Ids, NEW release \in Releases, NEW selector \in Profiles \cup {"-"},
         NEW seed \in BOOLEAN, StartInstall(i, release, selector, seed)
  PROVE  RunImages' /\ ConsumerBytesKept'
<1>1. /\ run'.phase = "seed" /\ run'.id = i /\ run'.start = files
      /\ run'.before = Blank /\ run'.after = Blank /\ journal[i].manifest = "-"
      /\ Begins(i) /\ \A j \in Ids \ {i} : journal'[j] = journal[j]
      /\ UNCHANGED <<files, mine>>
  BY StartInstallFacts DEF KeptInv, History
<1>2. \A p \in Paths : journal'[i].backup[p] = "-" /\ run'.before[p] = "-" /\ run'.after[p] = "-"
  BY <1>1 DEF KeptInv, RunInv, JournalInOrder, Begins, Blank
<1>3. WritesAreRecorded'
  BY <1>1, <1>2 DEF WritesAreRecorded
<1>4. RestoreKnowsStart' /\ UndoKnowsStart' /\ OwnedIsInstalled'
  BY <1>1 DEF RestoreKnowsStart, UndoKnowsStart, OwnedIsInstalled, KeptInv, ImageInv, RunImages, Begins
<1>5. ConsumerBytesKept'
  BY <1>1, KeptStep DEF KeptInv, KeepsBackups, Begins
<1> QED BY <1>3, <1>4, <1>5 DEF RunImages

\* The end of a phase writes no file.
LEMMA AdvanceImages ==
  ASSUME KeptInv, Advance
  PROVE  RunImages' /\ ConsumerBytesKept'
<1>1. /\ Installing /\ run.id \in Ids /\ run.todo = {} /\ UNCHANGED <<files, mine>>
      /\ \A j \in Ids : journal'[j].backup = journal[j].backup
  BY AdvanceFacts DEF KeptInv, ImageInv, RunImages, NotesImages, NotesOwned, History
<1>2. ConsumerBytesKept'
  BY <1>1, KeptStep DEF KeptInv, KeepsBackups
<1>3. CASE run.phase = "lock"
  BY <1>2, <1>3, AdvanceFacts, NoImages DEF KeptInv, ImageInv, RunImages, NotesImages
<1>4. CASE run.phase # "lock"
  <2>1. SameRun /\ run'.before = run.before /\ run'.after = run.after
        /\ run'.phase \in Writing \cup {"validate"}
    BY <1>4, AdvanceFacts DEF Enters, Writing, KeptInv, ImageInv, RunImages
  <2>2. WritesAreRecorded'
    BY <1>1, <2>1 DEF KeptInv, ImageInv, RunImages, WritesAreRecorded, SameRun, Safe
  <2>3. RestoreKnowsStart' /\ UndoKnowsStart'
    BY <2>1 DEF RestoreKnowsStart, UndoKnowsStart, Writing
  <2>4. OwnedIsInstalled'
    BY <1>1, <1>4, AdvanceFacts
    DEF Enters, NotesImages, NotesOwned, OwnedIsInstalled, SameRun, KeptInv, ImageInv, RunImages
  <2> QED BY <1>2, <2>2, <2>3, <2>4 DEF RunImages
<1> QED BY <1>3, <1>4

\* All of the above for any step.
LEMMA ImageStep ==
  ASSUME KeptInv, [Next]_vars
  PROVE  RunImages' /\ ConsumerBytesKept'
<1>1. CASE RolledBack
  <2>1. /\ run' = Idle /\ UNCHANGED <<files, mine>>
        /\ \A j \in Ids : journal'[j].backup = journal[j].backup /\ journal'[j].owned = journal[j].owned
    BY <1>1, RolledBackFacts DEF KeptInv, NotesImages
  <2> QED BY <2>1, NoImages, KeptStep DEF KeptInv, ImageInv, RunImages, KeepsBackups
<1>2. CASE RollbackEnds
  <2>1. /\ run' = Idle /\ UNCHANGED mine
        /\ \A q \in Consumers : files'[q] = files[q]
        /\ \A j \in Ids : journal'[j].backup = journal[j].backup /\ journal'[j].owned = journal[j].owned
    BY <1>2, RollbackEndsFacts, Kinds, Types DEF KeptInv, RunInv, OthersKept, Entries
  <2> QED BY <2>1, NoImages, KeptStep DEF KeptInv, ImageInv, RunImages, KeepsBackups
<1>3. ASSUME NEW e \in Edits, NEW p \in Editable, NEW c \in {e, "absent"}, Edit(e, p, c)
      PROVE  RunImages' /\ ConsumerBytesKept'
  <2>1. RunImages'
    BY <1>3, EditFacts DEF KeptInv, ImageInv, RunImages, WritesAreRecorded, RestoreKnowsStart, UndoKnowsStart,
       OwnedIsInstalled, Installing, Writing
  <2>2. ConsumerBytesKept'
    BY <1>3, EditFacts, Kinds DEF KeptInv, ConsumerBytesKept, Puts
  <2> QED BY <2>1, <2>2
<1>4. CASE UNCHANGED vars
  BY <1>4 DEF vars, KeptInv, ImageInv, RunImages, WritesAreRecorded, RestoreKnowsStart, UndoKnowsStart,
     OwnedIsInstalled, ConsumerBytesKept, Installing, Safe, HalfMade
<1> QED BY <1>1, <1>2, <1>3, <1>4, WriteImages, WriteFailsImages, BackupFailsImages, RefusedImages,
       RestoreImages, RollbackImages, KillImages, StartRollbackImages, StartInstallImages, AdvanceImages
       DEF Next

\* Backups and the images that are noted go together.
LEMMA BackupsStay ==
  ASSUME BackupsAreImages, KeepsBackups,
         \A i \in Ids : journal'[i].before = journal[i].before /\ journal'[i].after = journal[i].after
  PROVE  BackupsAreImages'
BY DEF BackupsAreImages, KeepsBackups

\* A manifest notes images that have their backups.
LEMMA BackupsNoted ==
  ASSUME BackupsAreImages, run.id \in Ids, NEW status, NotesImages(status),
         \A p \in Paths : run.before[p] # "-" =>
            /\ journal[run.id].backup[p] # "-"
            /\ run.after[p] # "-" => journal[run.id].backup[p] = run.before[p]
  PROVE  BackupsAreImages'
BY DEF BackupsAreImages, NotesImages

\* Every step keeps them.
LEMMA BackupsStep ==
  ASSUME KeptInv, [Next]_vars
  PROVE  BackupsAreImages'
<1>b. BackupsAreImages /\ ImageInv /\ RunInv
  BY DEF KeptInv, ImageInv
<1>0. ASSUME KeepsNotes, KeepsBackups PROVE BackupsAreImages'
  BY <1>b, <1>0, BackupsStay DEF KeepsNotes
<1>u. journal' = journal => BackupsAreImages'
  BY <1>b DEF BackupsAreImages
<1>r. Installing => run.id \in Ids /\ \A p \in Paths :
            /\ run.before[p] = "-" => journal[run.id].backup[p] = "-"
            /\ run.before[p] # "-" => journal[run.id].backup[p] = run.before[p]
  BY <1>b DEF ImageInv, RunImages, WritesAreRecorded, RunInv, RunIsOpen, Installing, Writing
<1>1. ASSUME NEW i \in Ids, NEW release \in Releases, NEW selector \in Profiles \cup {"-"},
             NEW seed \in BOOLEAN, StartInstall(i, release, selector, seed)
      PROVE  BackupsAreImages'
  BY <1>b, <1>1, StartInstallFacts DEF Begins, BackupsAreImages
<1>2. ASSUME NEW p \in Paths, Write(p) \/ WriteFails(p) PROVE BackupsAreImages'
  <2>1. run.phase \in Writing /\ KeepsNotes /\ AddsBackup(p)
    BY <1>b, <1>2, WriteFacts, WriteFailsFacts
  <2>2. KeepsBackups
    BY <1>r, <2>1 DEF Installing, KeepsBackups, AddsBackup
  <2> QED BY <1>0, <2>1, <2>2
<1>3. ASSUME NEW p \in Paths, run.phase \in Writing, run.before[p] = "-", KeepsNotes, AddsHalfBackup(p)
      PROVE  BackupsAreImages'
  <2>1. KeepsBackups
    BY <1>3, <1>r DEF Installing, KeepsBackups, AddsHalfBackup
  <2> QED BY <1>0, <1>3, <2>1
<1>4. ASSUME NEW p \in Paths, BackupFails(p) PROVE BackupsAreImages'
  BY <1>b, <1>u, <1>3, <1>4, BackupFailsFacts
<1>5. CASE Kill
  <2>1. ASSUME NEW p \in Paths, run.phase \in Writing, KeepsNotes, AddsBackup(p) PROVE BackupsAreImages'
    <3>1. KeepsBackups
      BY <1>r, <2>1 DEF Installing, KeepsBackups, AddsBackup
    <3> QED BY <1>0, <2>1, <3>1
  <2> QED BY <1>b, <1>u, <1>3, <1>5, <2>1, KillFacts
<1>6. CASE RolledBack
  <2>1. run.phase = "restore" /\ run.id \in Ids /\ run.todo = {} /\ NotesImages("ROLLED_BACK")
    BY <1>b, <1>6, RolledBackFacts
  <2>2. \A p \in Paths : run.before[p] # "-" =>
            /\ journal[run.id].backup[p] # "-"
            /\ run.after[p] # "-" => journal[run.id].backup[p] = run.before[p]
    BY <1>b, <2>1 DEF ImageInv, RunImages, RestoreKnowsStart
  <2> QED BY <1>b, <2>1, <2>2, BackupsNoted
<1>7. CASE RollbackEnds
  <2>1. \A i \in Ids : /\ journal'[i].backup = journal[i].backup /\ journal'[i].before = journal[i].before
                       /\ journal'[i].after = journal[i].after
    BY <1>b, <1>7, RollbackEndsFacts, Types DEF RunInv, OthersKept, Entries
  <2> QED BY <1>b, <2>1, BackupsStay DEF KeepsBackups
<1>8. CASE Advance
  <2>1. Installing /\ run.id \in Ids
    BY <1>b, <1>8, AdvanceFacts DEF ImageInv, RunImages
  <2>2. journal' = journal \/ NotesImages("PENDING") \/ NotesOwned \/ NotesImages("PASS")
    BY <1>b, <1>8, AdvanceFacts DEF ImageInv, RunImages
  <2>3. ASSUME NotesOwned PROVE BackupsAreImages'
    BY <1>b, <2>3, BackupsStay DEF NotesOwned, KeepsBackups
  <2>4. ASSUME NEW status, NotesImages(status) PROVE BackupsAreImages'
    BY <1>b, <1>r, <2>1, <2>4, BackupsNoted
  <2> QED BY <1>u, <2>2, <2>3, <2>4
<1>9. (\E p \in Paths : Restore(p) \/ Rollback(p)) \/ Refused => UNCHANGED journal
  BY DEF Restore, Rollback, Refused
<1>10. /\ \A i \in Ids, force \in BOOLEAN : StartRollback(i, force) => UNCHANGED journal
       /\ \A e \in Edits, p \in Editable : \A c : Edit(e, p, c) => UNCHANGED journal
  BY DEF StartRollback, Edit
<1>11. CASE UNCHANGED vars
  BY <1>u, <1>11 DEF vars
<1> QED BY <1>u, <1>1, <1>2, <1>4, <1>5, <1>6, <1>7, <1>8, <1>9, <1>10, <1>11 DEF Next

-----------------------------------------------------------------------------
(* Where contents come from.                                               *)

\* In words: c is not an edit of another file, nor the consumer's own of p.
Foreign(p, c) == Known(p, c) /\ ~OwnOf(p, c)

\* Contents that nobody wrote need no origin.
LEMMA PlainIsKnown ==
    \A p \in Paths : Known(p, "-") /\ Known(p, "torn") /\ Known(p, "absent") /\ Foreign(p, "-")
BY Kinds, Origins DEF Known, Foreign, OwnOf

\* What an installation writes is not what the consumer put into that file: a
\* copy may have his edit of the skill it mirrors, and the profile is written
\* only when he has none of his own.
LEMMA TargetIsForeign ==
  ASSUME RunInv, ContentsHaveOrigins, run.phase \in Writing, NEW p \in run.todo
  PROVE  Foreign(p, Target(p))
<1>1. /\ p \in Paths /\ run.id \in Ids /\ run.release \in Releases /\ run.profile \in DOMAIN Policy
      /\ run.profile \in Edits => run.kept
  BY TargetFacts DEF RunInv, RunIsOpen, Installing
<1>2. CASE run.phase = "reconcile"
  <2>1. Target(p) = "absent"
    BY <1>2 DEF Target
  <2> QED BY <1>1, <2>1, Origins DEF Foreign, OwnOf, Known
<1>3. CASE run.phase # "reconcile" /\ p \in {"lock", "receipt"}
  <2>1. Target(p) = run.id
    BY <1>3, Kinds DEF Target
  <2> QED BY <1>1, <2>1, Origins DEF Foreign, OwnOf, Known
<1>4. CASE run.phase # "reconcile" /\ p \in Copies
  <2> DEFINE c == files[CopyOf[p]]
  <2>1. Target(p) = c /\ p \notin Seeds
    BY <1>4, Kinds DEF Target
  <2>2. CopyOf[p] \in Paths /\ CopyOf[p] \notin Copies /\ CopyOf[p] # p
    BY <1>4, Kinds
  <2>3. c \in Edits => edits[c] = CopyOf[p]
    BY <2>2 DEF ContentsHaveOrigins, Known
  <2> QED BY <1>4, <2>1, <2>2, <2>3 DEF Foreign, Known, OwnOf
<1>5. CASE run.phase # "reconcile" /\ p = "profile"
  <2>1. run.profile \notin Edits
    BY <1>1, <1>5, Kinds DEF RunInv, PhaseWrites, Writing
  <2> QED BY <1>5, <2>1, Kinds DEF Target, Foreign, Known, OwnOf
<1>6. CASE run.phase # "reconcile" /\ p \in Seeds
  BY <1>6, Kinds, Origins DEF Target, Foreign, Known, OwnOf
<1>7. CASE run.phase # "reconcile" /\ p \notin {"lock", "receipt", "profile"} \cup Copies \cup Seeds
  BY <1>1, <1>7, Origins DEF Target, Foreign, Known, OwnOf
<1> QED BY <1>2, <1>3, <1>4, <1>5, <1>6, <1>7

\* Origins are kept by a step that makes no edit and moves known contents only.
LEMMA OriginsStay ==
  ASSUME ContentsHaveOrigins, UNCHANGED edits, \A p \in Consumers : mine'[p] \in {"-", mine[p]},
         \A p \in Paths : /\ Known(p, files'[p]) /\ Known(p, run'.before[p])
                          /\ Foreign(p, run'.after[p]),
         \A p \in Paths, i \in Ids : /\ Known(p, journal'[i].before[p]) /\ Known(p, journal'[i].backup[p])
                                    /\ Foreign(p, journal'[i].after[p])
  PROVE  ContentsHaveOrigins'
BY DEF ContentsHaveOrigins, Known, Foreign, OwnOf

\* Every step keeps the origins: what an installer leaves in a file comes from a
\* release, a policy or, in a copy, from the file it copies.
LEMMA OriginStep ==
  ASSUME KeptInv, [Next]_vars
  PROVE  ContentsHaveOrigins'
<1> USE DEF KeptInv, ImageInv, RunImages
<1>f. \A p \in Paths : /\ Known(p, files[p]) /\ Known(p, run.before[p]) /\ Foreign(p, run.after[p])
                       /\ Known(p, Idle.before[p]) /\ Foreign(p, Idle.after[p])
  BY PlainIsKnown, IdleFacts DEF ContentsHaveOrigins, Foreign, Blank
<1>j. \A p \in Paths, i \in Ids : /\ Known(p, journal[i].before[p]) /\ Known(p, journal[i].backup[p])
                                   /\ Foreign(p, journal[i].after[p])
  BY DEF ContentsHaveOrigins, Foreign
<1> HIDE DEF KeptInv
<1> DEFINE Files == \A p \in Paths : Known(p, files'[p])
           Records == \A p \in Paths : Known(p, run'.before[p]) /\ Foreign(p, run'.after[p])
           Notes == \A p \in Paths, i \in Ids :
                        /\ Known(p, journal'[i].before[p]) /\ Known(p, journal'[i].backup[p])
                        /\ Foreign(p, journal'[i].after[p])
<1>0. ASSUME Files, Records, Notes, UNCHANGED <<mine, edits>> PROVE ContentsHaveOrigins'
  BY <1>0, OriginsStay DEF KeptInv
<1>1. ASSUME NEW i \in Ids, NEW release \in Releases, NEW selector \in Profiles \cup {"-"},
             NEW seed \in BOOLEAN, StartInstall(i, release, selector, seed)
      PROVE  ContentsHaveOrigins'
  <2>1. /\ UNCHANGED <<files, mine, edits>> /\ run'.before = Blank /\ run'.after = Blank
        /\ Begins(i) /\ \A j \in Ids \ {i} : journal'[j] = journal[j]
    BY <1>1, StartInstallFacts DEF KeptInv, History
  <2>2. Files /\ Records
    BY <2>1, <1>f, PlainIsKnown DEF Blank
  <2>3. Notes
    BY <2>1, <1>j DEF Begins
  <2> QED BY <1>0, <2>1, <2>2, <2>3
<1>2. ASSUME NEW p \in Paths, Write(p) PROVE ContentsHaveOrigins'
  <2>1. /\ run.phase \in Writing /\ p \in run.todo /\ UNCHANGED <<mine, edits>>
        /\ KeepsNotes /\ AddsBackup(p)
        /\ \A q \in Paths : files'[q] = IF q = p THEN Target(p) ELSE files[q]
        /\ \A q \in Paths : run'.before[q] = files[q] \/ run'.before[q] = run.before[q]
        /\ \A q \in Paths : run'.after[q] = IF q = p THEN Target(p) ELSE run.after[q]
    BY <1>2, WriteFacts DEF KeptInv, History
  <2>2. Foreign(p, Target(p))
    BY <2>1, TargetIsForeign DEF KeptInv
  <2>3. Files /\ Records
    BY <2>1, <2>2, <1>f DEF Foreign
  <2>4. Notes
    BY <2>1, <1>f, <1>j DEF KeepsNotes, AddsBackup
  <2> QED BY <1>0, <2>1, <2>3, <2>4
<1>3. ASSUME NEW p \in Paths, WriteFails(p) PROVE ContentsHaveOrigins'
  <2>1. /\ UNCHANGED <<mine, edits>> /\ KeepsNotes /\ AddsBackup(p) /\ run'.after = run.after
        /\ \A q \in Paths : files'[q] = files[q] \/ files'[q] = "torn"
        /\ \A q \in Paths : run'.before[q] = files[q] \/ run'.before[q] = run.before[q]
    BY <1>3, WriteFailsFacts DEF KeptInv, History, GoesToRestore
  <2>2. Files /\ Records
    BY <2>1, <1>f, PlainIsKnown
  <2>3. Notes
    BY <2>1, <1>f, <1>j DEF KeepsNotes, AddsBackup
  <2> QED BY <1>0, <2>1, <2>2, <2>3
<1>4. ASSUME NEW p \in Paths, BackupFails(p) PROVE ContentsHaveOrigins'
  <2>1. /\ UNCHANGED <<files, edits>> /\ run'.after = run.after
        /\ \A q \in Paths : run'.before[q] = files[q] \/ run'.before[q] = run.before[q]
        /\ mine' = mine \/ GivesUp(p)
        /\ journal' = journal \/ (KeepsNotes /\ AddsHalfBackup(p))
    BY <1>4, BackupFailsFacts DEF KeptInv, GoesToRestore
  <2>2. Files /\ Records
    BY <2>1, <1>f
  <2>3. Notes
    BY <2>1, <1>j, PlainIsKnown DEF KeepsNotes, AddsHalfBackup
  <2>4. \A q \in Consumers : mine'[q] \in {"-", mine[q]}
    BY <2>1 DEF GivesUp
  <2> QED BY <2>1, <2>2, <2>3, <2>4, OriginsStay DEF KeptInv
<1>5. CASE Refused
  <2>1. /\ UNCHANGED <<files, journal, mine, edits>> /\ run'.after = run.after
        /\ run'.before = run.before
    BY <1>5, RefusedFacts DEF KeptInv, History, GoesToRestore
  <2>2. Files /\ Records /\ Notes
    BY <2>1, <1>f, <1>j
  <2> QED BY <1>0, <2>1, <2>2
<1>6. ASSUME NEW p \in Paths, Restore(p) PROVE ContentsHaveOrigins'
  <2>1. UNCHANGED <<journal, mine, edits>>
    BY <1>6, RestoreFacts DEF KeptInv
  <2>2. CASE Dies /\ UNCHANGED files
    <3>1. Files /\ Records /\ Notes
      BY <2>1, <2>2, <1>f, <1>j DEF Dies
    <3> QED BY <1>0, <2>1, <3>1
  <2>3. CASE Puts(p, journal[run.id].backup[p]) /\ GoesOn(p)
    <3>1. run.id \in Ids
      BY <1>6, RestoreFacts DEF KeptInv, RunInv, RunIsOpen
    <3>2. Files /\ Records /\ Notes
      BY <2>1, <2>3, <3>1, <1>f, <1>j DEF Puts, GoesOn
    <3> QED BY <1>0, <2>1, <3>2
  <2> QED BY <1>6, <2>2, <2>3, RestoreFacts DEF KeptInv
<1>7. ASSUME NEW p \in Paths, Rollback(p) PROVE ContentsHaveOrigins'
  <2>1. /\ UNCHANGED <<journal, mine, edits>> /\ Puts(p, journal[run.id].backup[p]) /\ GoesOn(p)
        /\ run.id \in Ids
    BY <1>7, RollbackFacts DEF KeptInv, History, RunInv, RunIsOpen
  <2>2. Files /\ Records /\ Notes
    BY <2>1, <1>f, <1>j DEF Puts, GoesOn
  <2> QED BY <1>0, <2>1, <2>2
<1>8. CASE RolledBack
  <2>1. /\ UNCHANGED <<files, mine, edits>> /\ run' = Idle /\ NotesImages("ROLLED_BACK")
    BY <1>8, RolledBackFacts DEF KeptInv
  <2>2. Files /\ Records
    BY <2>1, <1>f
  <2>3. Notes
    BY <2>1, <1>f, <1>j DEF NotesImages
  <2> QED BY <1>0, <2>1, <2>2, <2>3
<1>9. CASE Kill
  <2>1. run' = Idle /\ UNCHANGED <<mine, edits>>
    BY <1>9, KillFacts DEF KeptInv
  <2>2. Files
    BY <1>9, <1>f, KillFacts, PlainIsKnown DEF KeptInv, Puts
  <2>3. Notes
    BY <1>9, <1>f, <1>j, KillFacts, PlainIsKnown DEF KeptInv, KeepsNotes, AddsBackup, AddsHalfBackup
  <2>4. Records
    BY <2>1, <1>f
  <2> QED BY <1>0, <2>1, <2>2, <2>3, <2>4
<1>10. ASSUME NEW i \in Ids, NEW force \in BOOLEAN, StartRollback(i, force) PROVE ContentsHaveOrigins'
  <2>1. /\ UNCHANGED <<files, journal, edits>> /\ run'.before = Blank /\ run'.after = Blank
        /\ \A p \in Consumers : mine'[p] \in {"-", mine[p]}
    BY <1>10, StartRollbackFacts DEF KeptInv
  <2>2. Files /\ Records /\ Notes
    BY <2>1, <1>f, <1>j, PlainIsKnown DEF Blank
  <2> QED BY <2>1, <2>2, OriginsStay DEF KeptInv
<1>11. CASE RollbackEnds
  <2>1. /\ UNCHANGED <<mine, edits>> /\ run' = Idle
        /\ \A q \in Paths : files'[q] = files[q] \/ files'[q] = "absent"
    BY <1>11, RollbackEndsFacts DEF KeptInv
  <2>2. \A i \in Ids : /\ journal'[i].before = journal[i].before /\ journal'[i].after = journal[i].after
                       /\ journal'[i].backup = journal[i].backup
    BY <1>11, RollbackEndsFacts, Types DEF KeptInv, RunInv, OthersKept, Entries
  <2>3. Files /\ Records
    BY <2>1, <1>f, PlainIsKnown
  <2>4. Notes
    BY <2>2, <1>j
  <2> QED BY <1>0, <2>1, <2>3, <2>4
<1>12. CASE Advance
  <2>1. UNCHANGED <<files, mine, edits>>
    BY <1>12, AdvanceFacts DEF KeptInv, ImageInv, RunImages, History
  <2>2. Files
    BY <2>1, <1>f
  <2>3. Records
    BY <1>12, <1>f, AdvanceFacts DEF Enters, KeptInv, ImageInv, RunImages
  <2>4. Notes
    BY <1>12, <1>f, <1>j, AdvanceFacts DEF NotesImages, NotesOwned, KeptInv, ImageInv, RunImages
  <2> QED BY <1>0, <2>1, <2>2, <2>3, <2>4
<1>13. ASSUME NEW e \in Edits, NEW p \in Editable, NEW c \in {e, "absent"}, Edit(e, p, c)
       PROVE  ContentsHaveOrigins'
  <2>1. /\ edits[e] = "-" /\ p \in Consumers /\ Puts(p, c) /\ UNCHANGED <<run, journal>>
        /\ \A q \in Consumers : mine'[q] = IF q # p THEN mine[q] ELSE IF c = e THEN e ELSE "-"
        /\ \A d \in Edits : edits'[d] = IF d = e THEN p ELSE edits[d]
    BY <1>13, EditFacts DEF KeptInv
  <2>2. \A q \in Paths : \A d : Known(q, d) => d # e
    BY <2>1, Kinds DEF Known
  <2> DEFINE Known2(q, d) == d \in Edits => edits'[d] = q \/ (q \in Copies /\ edits'[d] = CopyOf[q])
             Own2(q, d) == (d = "own" /\ q \in Seeds) \/ (d \in Edits /\ edits'[d] = q)
  <2>3. \A q \in Paths : \A d : Known(q, d) => Known2(q, d) /\ (OwnOf(q, d) <=> Own2(q, d))
    BY <2>1, <2>2 DEF Known, OwnOf
  <2>4. \A q \in Consumers : mine'[q] = "-" \/ Own2(q, mine'[q])
    <3> SUFFICES ASSUME NEW q \in Consumers, mine'[q] # "-" PROVE Own2(q, mine'[q])
      OBVIOUS
    <3>1. CASE q = p
      BY <2>1, <3>1
    <3>2. CASE q # p
      <4>1. mine'[q] = mine[q] /\ OwnOf(q, mine[q])
        BY <2>1, <3>2 DEF KeptInv, ContentsHaveOrigins
      <4>2. mine[q] # e
        BY <2>1, <4>1, Kinds, Origins DEF OwnOf
      <4> QED BY <2>1, <4>1, <4>2 DEF OwnOf
    <3> QED BY <3>1, <3>2
  <2>5. \A q \in Paths : Known2(q, files'[q])
    <3> SUFFICES ASSUME NEW q \in Paths PROVE Known2(q, files'[q])
      OBVIOUS
    <3>1. CASE q = p
      BY <2>1, <3>1, Origins DEF Puts
    <3>2. CASE q # p
      BY <2>1, <2>3, <3>2, <1>f DEF Puts
    <3> QED BY <3>1, <3>2
  <2>6. \A q \in Paths : Known2(q, run'.before[q]) /\ Known2(q, run'.after[q]) /\ ~Own2(q, run'.after[q])
    BY <2>1, <2>3, <1>f DEF Foreign
  <2>7. \A q \in Paths, i \in Ids :
          /\ Known2(q, journal'[i].before[q]) /\ Known2(q, journal'[i].backup[q])
          /\ Known2(q, journal'[i].after[q]) /\ ~Own2(q, journal'[i].after[q])
    BY <2>1, <2>3, <1>j DEF Foreign
  <2> QED BY <2>4, <2>5, <2>6, <2>7 DEF ContentsHaveOrigins, Known, OwnOf
<1>14. CASE UNCHANGED vars
  BY <1>0, <1>14, <1>f, <1>j DEF vars
<1> QED BY <1>1, <1>2, <1>3, <1>4, <1>5, <1>6, <1>7, <1>8, <1>9, <1>10, <1>11, <1>12, <1>13, <1>14
       DEF Next

-----------------------------------------------------------------------------
(* Locks.                                                                  *)

\* Only the last phase writes the lock.
LEMMA LockIsLastStep ==
  ASSUME KeptInv, LockIsLast, [Next]_vars
  PROVE  LockIsLast'
<1> USE DEF KeptInv, ImageInv, RunImages
<1> DEFINE Notes == \A i \in Ids : /\ journal'[i].after["lock"] \in {"-", i}
                                   /\ journal'[i].manifest = "PASS" => journal'[i].before["lock"] # "-"
<1>0. Notes /\ run' = Idle => LockIsLast'
  BY IdleFacts DEF LockIsLast, Installing, Writing
<1>n. /\ journal' = journal => Notes
      /\ KeepsNotes => Notes
  BY DEF LockIsLast, KeepsNotes
<1>r. Notes /\ GoesToRestore /\ Installing => LockIsLast'
  BY DEF LockIsLast, Installing, Writing, GoesToRestore, SameRun
<1>1. ASSUME NEW i \in Ids, NEW release \in Releases, NEW selector \in Profiles \cup {"-"},
             NEW seed \in BOOLEAN, StartInstall(i, release, selector, seed)
      PROVE  LockIsLast'
  <2>1. /\ run'.phase = "seed" /\ run'.before["lock"] = "-" /\ run'.after["lock"] = "-"
        /\ Begins(i) /\ \A j \in Ids \ {i} : journal'[j] = journal[j]
    BY <1>1, StartInstallFacts, Kinds DEF Blank
  <2>2. Notes
    BY <2>1 DEF LockIsLast, Begins
  <2> QED BY <2>1, <2>2 DEF LockIsLast
<1>2. ASSUME NEW p \in Paths, Write(p) PROVE LockIsLast'
  <2>1. /\ run.phase \in Writing /\ p \in run.todo /\ KeepsNotes
        /\ run'.before["lock"] = IF p = "lock" /\ run.before[p] = "-" THEN files[p] ELSE run.before["lock"]
        /\ run'.after["lock"] = IF p = "lock" THEN Target(p) ELSE run.after["lock"]
        /\ run'.phase = run.phase /\ run'.id = run.id /\ run'.todo = run.todo \ {p}
    BY <1>2, WriteFacts, Kinds DEF SameRun
  <2>2. p = "lock" => run.phase = "lock" /\ Target(p) = run.id /\ files[p] # "-"
    BY <2>1, TargetFacts, Types, Kinds DEF RunInv
  <2>3. run.phase = "lock" => p = "lock" /\ run'.todo = {}
    BY <2>1 DEF RunInv, PhaseWrites
  <2> QED BY <1>n, <2>1, <2>2, <2>3 DEF LockIsLast, Installing
<1>3. ASSUME NEW p \in Paths, WriteFails(p) PROVE LockIsLast'
  BY <1>3, <1>n, <1>r, WriteFailsFacts DEF Installing
<1>4. ASSUME NEW p \in Paths, BackupFails(p) PROVE LockIsLast'
  BY <1>4, <1>n, <1>r, BackupFailsFacts DEF Installing
<1>5. CASE Refused
  BY <1>5, <1>n, <1>r, RefusedFacts
<1>6. ASSUME NEW p \in Paths, Restore(p) PROVE LockIsLast'
  <2>1. run.phase = "restore" /\ UNCHANGED journal
    BY <1>6, RestoreFacts
  <2>2. CASE Dies
    BY <1>0, <1>n, <2>1, <2>2 DEF Dies
  <2>3. CASE GoesOn(p)
    BY <2>1, <2>3 DEF LockIsLast, GoesOn, SameRun, Installing, Writing
  <2> QED BY <1>6, <2>2, <2>3, RestoreFacts
<1>7. ASSUME NEW p \in Paths, Rollback(p) PROVE LockIsLast'
  <2>1. run.phase = "undo" /\ UNCHANGED journal /\ GoesOn(p)
    BY <1>7, RollbackFacts
  <2> QED BY <2>1 DEF LockIsLast, GoesOn, SameRun, Installing, Writing
<1>8. CASE RolledBack
  <2>1. /\ run.phase = "restore" /\ run' = Idle /\ NotesImages("ROLLED_BACK")
    BY <1>8, RolledBackFacts
  <2>2. Notes
    BY <2>1 DEF LockIsLast, NotesImages
  <2> QED BY <1>0, <2>1, <2>2
<1>9. CASE Kill
  BY <1>9, <1>0, <1>n, KillFacts
<1>10. ASSUME NEW i \in Ids, NEW force \in BOOLEAN, StartRollback(i, force) PROVE LockIsLast'
  BY <1>10, StartRollbackFacts DEF LockIsLast, Installing, Writing
<1>11. CASE RollbackEnds
  <2>1. \A i \in Ids : /\ journal'[i].manifest = journal[i].manifest /\ journal'[i].before = journal[i].before
                       /\ journal'[i].after = journal[i].after
    BY <1>11, RollbackEndsFacts, Types DEF RunInv, OthersKept, Entries
  <2>2. Notes
    BY <2>1 DEF LockIsLast
  <2> QED BY <1>11, <1>0, <2>2, RollbackEndsFacts
<1>12. CASE Advance
  <2>1. Installing /\ run.todo = {}
    BY <1>12, AdvanceFacts
  <2>2. CASE run.phase = "lock"
    <3>1. run' = Idle /\ NotesImages("PASS") /\ run.before["lock"] # "-" /\ run.after["lock"] \in {"-", run.id}
      BY <1>12, <2>1, <2>2, AdvanceFacts DEF LockIsLast
    <3>2. Notes
      BY <3>1 DEF LockIsLast, NotesImages
    <3> QED BY <1>0, <3>1, <3>2
  <2>3. CASE run.phase # "lock"
    <3>1. /\ SameRun /\ run'.before = run.before /\ run'.after = run.after
          /\ run'.phase = "lock" => run'.todo # {}
      BY <1>12, <2>3, AdvanceFacts DEF Enters
    <3>2. Notes
      <4>1. run.after["lock"] \in {"-", run.id}
        BY <2>1 DEF LockIsLast
      <4> QED BY <1>12, <1>n, <2>3, <4>1, AdvanceFacts DEF LockIsLast, NotesImages, NotesOwned
    <3> QED BY <2>1, <2>3, <3>1, <3>2 DEF LockIsLast, SameRun
  <2> QED BY <2>2, <2>3
<1>13. ASSUME NEW e \in Edits, NEW p \in Editable, NEW c \in {e, "absent"}, Edit(e, p, c)
       PROVE  LockIsLast'
  BY <1>13, EditFacts DEF LockIsLast, Installing
<1>14. CASE UNCHANGED vars
  BY <1>14 DEF vars, LockIsLast, Installing
<1> QED BY <1>1, <1>2, <1>3, <1>4, <1>5, <1>6, <1>7, <1>8, <1>9, <1>10, <1>11, <1>12, <1>13, <1>14
       DEF Next

\* In words: installation i is in effect after the step.
InEffectThen(i) == journal'[i].manifest = "PASS" /\ ~journal'[i].undone

\* The chain of the next state, said without a primed LET.
LEMMA ChainThen ==
  ASSUME disturbed' = 0 =>
            /\ Project'["lock"] \in Ids => InEffectThen(Project'["lock"])
            /\ \A j \in Ids : InEffectThen(j) =>
                    Project'["lock"] \in Ids /\ Time[j] <= Time[Project'["lock"]]
            /\ \A i \in Ids : InEffectThen(i) =>
                /\ journal'[i].before["lock"] \in Ids =>
                        /\ InEffectThen(journal'[i].before["lock"])
                        /\ Time[journal'[i].before["lock"]] < Time[i]
                /\ \A j \in Ids : InEffectThen(j) /\ Time[j] < Time[i] =>
                        /\ journal'[i].before["lock"] \in Ids
                        /\ Time[j] <= Time[journal'[i].before["lock"]]
  PROVE  LocksAreChained'
BY DEF LocksAreChained, InEffect, InEffectThen

\* What does not touch the lock, and puts nothing in force or out of it, keeps
\* the chain; so does a process that dies, as it is counted.
LEMMA ChainStays ==
  ASSUME LocksAreChained, disturbed' = 0 => disturbed = 0, Project'["lock"] = Project["lock"],
         \A i \in Ids : InEffectThen(i) <=> InEffect(i),
         \A i \in Ids : InEffect(i) => journal'[i].before = journal[i].before
  PROVE  LocksAreChained'
<1> SUFFICES ASSUME disturbed' = 0 PROVE LocksAreChained'
  BY DEF LocksAreChained
<1>1. /\ Project["lock"] \in Ids => InEffect(Project["lock"])
      /\ \A j \in Ids : InEffect(j) => Project["lock"] \in Ids /\ Time[j] <= Time[Project["lock"]]
      /\ \A i \in Ids : InEffect(i) =>
            /\ journal[i].before["lock"] \in Ids =>
                    InEffect(journal[i].before["lock"]) /\ Time[journal[i].before["lock"]] < Time[i]
            /\ \A j \in Ids : InEffect(j) /\ Time[j] < Time[i] =>
                    journal[i].before["lock"] \in Ids /\ Time[j] <= Time[journal[i].before["lock"]]
  BY DEF LocksAreChained
<1> QED BY <1>1, ChainThen

\* What an undo that nobody forced has found: its own lock, and with it that its
\* installation is the last one in effect.
LEMMA UndoOfLatest ==
  ASSUME RunInv, ImageInv, LockInv, run.phase = "undo", ~run.forced, disturbed = 0
  PROVE  /\ journal[run.id].before["lock"] # "-" => Project["lock"] = run.id
         /\ journal[run.id].manifest = "PASS" => journal[run.id].before["lock"] # "-"
<1>1. run.id \in Ids /\ run.start \in [Paths -> Contents] /\ Project = run.start
  BY DEF RunInv, RunIsOpen, Project
<1>2. journal[run.id].before["lock"] # "-" => run.start["lock"] = journal[run.id].after["lock"]
  BY Kinds DEF ImageInv, RunImages, UndoKnowsStart
<1>3. run.start["lock"] # "-"
  BY <1>1, Kinds
<1> QED BY <1>1, <1>2, <1>3 DEF LockInv, LockIsLast

\* The undo of the last installation in effect shortens the chain by one.
LEMMA UndoKeepsChain ==
  ASSUME RunInv, ImageInv, LockInv, RollbackEnds
  PROVE  LocksAreChained'
<1> DEFINE b == journal[run.id].before["lock"]
<1>1. /\ run.phase = "undo" /\ run.id \in Ids /\ run.todo = {} /\ run'.phase = "idle"
      /\ files'["lock"] = files["lock"]
      /\ OthersKept /\ journal'[run.id] = [journal[run.id] EXCEPT !.undone = TRUE]
      /\ disturbed' = IF run.forced THEN disturbed + 1 ELSE disturbed
  BY RollbackEndsFacts, IdleFacts, Kinds
<1>2. SUFFICES ASSUME disturbed' = 0 PROVE LocksAreChained'
  BY DEF LocksAreChained
<1>3. ~run.forced /\ disturbed = 0
  BY <1>1, <1>2 DEF RunInv, TypeOK
<1>4. /\ Project = run.start /\ Project'["lock"] = files["lock"]
      /\ files["lock"] = IF b = "-" THEN Project["lock"] ELSE b
  <2>1. /\ Project = run.start /\ Project'["lock"] = files["lock"]
        /\ files["lock"] = IF b = "-" THEN Project["lock"] ELSE journal[run.id].backup["lock"]
        /\ b # "-" => run.start["lock"] = journal[run.id].after["lock"]
    BY <1>1, <1>3, Kinds DEF ImageInv, RunImages, UndoKnowsStart, Project
  <2>2. run.start["lock"] # "-"
    BY <1>1, Kinds DEF RunInv, RunIsOpen
  <2>3. b # "-" => journal[run.id].backup["lock"] = b
    BY <1>1, <2>1, <2>2, Kinds DEF ImageInv, BackupsAreImages
  <2> QED BY <2>1, <2>3
<1>5. /\ b # "-" => Project["lock"] = run.id
      /\ journal[run.id].manifest = "PASS" => b # "-"
  BY <1>1, <1>3, UndoOfLatest
<1>6. /\ \A i \in Ids : journal'[i].before = journal[i].before
      /\ \A i \in Ids : InEffectThen(i) <=> InEffect(i) /\ i # run.id
  BY <1>1, Types DEF RunInv, OthersKept, Entries, InEffect, InEffectThen
<1>7. /\ Project["lock"] \in Ids => InEffect(Project["lock"])
      /\ \A j \in Ids : InEffect(j) => Project["lock"] \in Ids /\ Time[j] <= Time[Project["lock"]]
  BY <1>3 DEF LockInv, LocksAreChained
<1>8. \A i \in Ids : InEffect(i) =>
            /\ journal[i].before["lock"] \in Ids =>
                    InEffect(journal[i].before["lock"]) /\ Time[journal[i].before["lock"]] < Time[i]
            /\ \A j \in Ids : InEffect(j) /\ Time[j] < Time[i] =>
                    journal[i].before["lock"] \in Ids /\ Time[j] <= Time[journal[i].before["lock"]]
  BY <1>3 DEF LockInv, LocksAreChained
<1>t. \A i, j \in Ids : Time[i] \in Nat /\ Time[j] \in Nat /\ (Time[i] = Time[j] => i = j)
  BY InstallerAssumption
<1>9. CASE b = "-"
  <2>1. \A i \in Ids : InEffectThen(i) <=> InEffect(i)
    BY <1>5, <1>6, <1>9 DEF InEffect
  <2> QED BY <1>3, <1>4, <1>6, <1>9, <2>1, ChainStays DEF LockInv
<1>10. CASE b # "-"
  <2>1. InEffect(run.id) /\ \A j \in Ids : InEffect(j) => Time[j] <= Time[run.id]
    BY <1>1, <1>5, <1>7, <1>10
  <2>2. b \in Ids => InEffect(b) /\ b # run.id
    BY <1>1, <1>8, <1>t, <2>1
  <2>3. \A j \in Ids : InEffect(j) /\ j # run.id => b \in Ids /\ Time[j] <= Time[b]
    BY <1>1, <1>8, <1>t, <2>1
  <2>4. /\ b \in Ids => InEffectThen(b)
        /\ \A j \in Ids : InEffectThen(j) => b \in Ids /\ Time[j] <= Time[b]
    BY <1>6, <2>2, <2>3
  <2>5. ASSUME NEW i \in Ids, InEffectThen(i)
        PROVE  /\ journal'[i].before["lock"] \in Ids =>
                    InEffectThen(journal'[i].before["lock"]) /\ Time[journal'[i].before["lock"]] < Time[i]
               /\ \A j \in Ids : InEffectThen(j) /\ Time[j] < Time[i] =>
                    journal'[i].before["lock"] \in Ids /\ Time[j] <= Time[journal'[i].before["lock"]]
    <3> DEFINE c == journal[i].before["lock"]
    <3>1. InEffect(i) /\ i # run.id /\ journal'[i].before["lock"] = c
      BY <1>6, <2>5
    <3>2. c \in Ids => InEffect(c) /\ Time[c] < Time[i]
      BY <1>8, <3>1
    <3>3. c \in Ids => c # run.id
      BY <1>1, <1>t, <2>1, <3>1, <3>2
    <3>4. c \in Ids => (InEffectThen(c) <=> InEffect(c) /\ c # run.id)
      BY <1>6
    <3> HIDE DEF c
    <3>5. journal'[i].before["lock"] \in Ids => InEffectThen(journal'[i].before["lock"])
      BY <3>1, <3>2, <3>3, <3>4 DEF c
    <3> QED BY <1>6, <1>8, <3>1, <3>2, <3>5 DEF c
  <2>6. Project'["lock"] = b
    BY <1>4, <1>10
  <2> HIDE DEF b
  <2> QED BY <1>6, <2>4, <2>5, <2>6, ChainThen
<1> QED BY <1>9, <1>10

\* An installation that is done makes the chain longer by one.
LEMMA InstallExtendsChain ==
  ASSUME RunInv, ImageInv, LockInv, Advance, run.phase = "lock"
  PROVE  LocksAreChained'
<1> DEFINE b == run.before["lock"]
<1>1. /\ run.id \in Ids /\ run.todo = {} /\ run'.phase = "idle" /\ NotesImages("PASS")
      /\ UNCHANGED <<files, disturbed>> /\ Installing
  BY AdvanceFacts, IdleFacts DEF ImageInv, RunImages, History
<1>2. SUFFICES ASSUME disturbed' = 0 PROVE LocksAreChained'
  BY DEF LocksAreChained
<1>3. /\ b # "-" /\ Project = run.start /\ b = Project["lock"]
      /\ files["lock"] = run.id
  <2>1. b # "-" /\ run.after["lock"] \in {"-", run.id}
    BY <1>1 DEF LockInv, LockIsLast
  <2>2. b = run.start["lock"] /\ files["lock"] = run.after["lock"]
    BY <1>1, <2>1, Kinds DEF ImageInv, RunImages, WritesAreRecorded
  <2>3. files["lock"] # "-"
    BY Kinds, Types DEF RunInv
  <2> QED BY <2>1, <2>2, <2>3 DEF Project
<1>4. /\ Project["lock"] \in Ids => InEffect(Project["lock"])
      /\ \A j \in Ids : InEffect(j) => Project["lock"] \in Ids /\ Time[j] <= Time[Project["lock"]]
  BY <1>1, <1>2 DEF LockInv, LocksAreChained
<1>5. \A i \in Ids : InEffect(i) =>
            /\ journal[i].before["lock"] \in Ids =>
                    InEffect(journal[i].before["lock"]) /\ Time[journal[i].before["lock"]] < Time[i]
            /\ \A j \in Ids : InEffect(j) /\ Time[j] < Time[i] =>
                    journal[i].before["lock"] \in Ids /\ Time[j] <= Time[journal[i].before["lock"]]
  BY <1>1, <1>2 DEF LockInv, LocksAreChained
<1>t. \A i, j \in Ids : Time[i] \in Nat /\ Time[j] \in Nat /\ (Time[i] = Time[j] => i = j)
  BY InstallerAssumption
<1>6. /\ \A i \in Ids : InEffectThen(i) <=> InEffect(i) \/ i = run.id
      /\ \A i \in Ids : journal'[i].before["lock"] = IF i = run.id THEN b ELSE journal[i].before["lock"]
      /\ ~InEffect(run.id)
  BY <1>1 DEF NotesImages, InEffect, InEffectThen, RunInv, RunIsOpen
<1>7. \A j \in Ids : InEffect(j) => Time[j] < Time[run.id]
  <2>1. \A j \in Ids : InEffect(j) => Time[j] <= Time[run.id]
    BY <1>1 DEF InEffect, RunInv, RunIsOpen
  <2> QED BY <1>1, <1>t, <1>6, <2>1
<1>8. Project'["lock"] = run.id
  BY <1>1, <1>3 DEF Project
<1> HIDE DEF b
<1>9. \A j \in Ids : InEffectThen(j) => Time[j] <= Time[run.id]
  BY <1>1, <1>6, <1>7, <1>t
<1>10. ASSUME NEW i \in Ids, InEffectThen(i)
       PROVE  /\ journal'[i].before["lock"] \in Ids =>
                    InEffectThen(journal'[i].before["lock"]) /\ Time[journal'[i].before["lock"]] < Time[i]
              /\ \A j \in Ids : InEffectThen(j) /\ Time[j] < Time[i] =>
                    journal'[i].before["lock"] \in Ids /\ Time[j] <= Time[journal'[i].before["lock"]]
  <2> DEFINE c == journal'[i].before["lock"]
  <2>a. c \in Ids => (InEffectThen(c) <=> InEffect(c) \/ c = run.id)
    BY <1>6
  <2> HIDE DEF c
  <2>1. CASE i = run.id
    <3>1. c = Project["lock"]
      BY <1>1, <1>3, <1>6, <2>1 DEF c
    <3>2. c \in Ids => InEffectThen(c) /\ Time[c] < Time[i]
      BY <1>4, <1>7, <2>a, <2>1, <3>1
    <3>3. ASSUME NEW j \in Ids, InEffectThen(j), Time[j] < Time[i] PROVE c \in Ids /\ Time[j] <= Time[c]
      <4>1. InEffect(j)
        BY <1>6, <1>t, <2>1, <3>3
      <4> QED BY <1>4, <3>1, <4>1
    <3> QED BY <3>2, <3>3 DEF c
  <2>2. CASE i # run.id
    <3>1. InEffect(i) /\ c = journal[i].before["lock"]
      BY <1>6, <1>10, <2>2 DEF c
    <3>2. c \in Ids => InEffectThen(c) /\ Time[c] < Time[i]
      BY <1>5, <2>a, <3>1
    <3>3. ASSUME NEW j \in Ids, InEffectThen(j), Time[j] < Time[i] PROVE c \in Ids /\ Time[j] <= Time[c]
      <4>1. InEffect(j)
        BY <1>1, <1>6, <1>7, <1>t, <3>1, <3>3
      <4> QED BY <1>5, <3>1, <3>3, <4>1
    <3> QED BY <3>2, <3>3 DEF c
  <2> QED BY <2>1, <2>2
<1>11. InEffectThen(run.id)
  BY <1>1, <1>6
<1> QED BY <1>1, <1>8, <1>9, <1>10, <1>11, ChainThen

\* Every step keeps the locks chained.
LEMMA ChainStep ==
  ASSUME RunInv, ImageInv, LockInv, [Next]_vars
  PROVE  LocksAreChained'
<1> DEFINE Notes == \A i \in Ids : /\ InEffectThen(i) <=> InEffect(i)
                                   /\ InEffect(i) => journal'[i].before = journal[i].before
<1>0. ASSUME disturbed' = 0 => disturbed = 0 /\ Project'["lock"] = Project["lock"] /\ Notes
      PROVE  LocksAreChained'
  BY <1>0, ChainStays DEF LockInv, LocksAreChained
<1>n. (journal' = journal \/ KeepsNotes) => Notes
  BY DEF InEffect, InEffectThen, KeepsNotes
<1>i. run.phase # "idle" /\ SameRun /\ run'.phase # "idle" => Project'["lock"] = Project["lock"]
  BY DEF Project, SameRun
<1>o. Installing \/ run.phase = "restore" => run.id \in Ids /\ ~InEffect(run.id)
  BY DEF RunInv, RunIsOpen, InEffect, Installing, Writing
<1>d. disturbed \in Nat
  BY DEF RunInv, TypeOK
<1> HIDE DEF Notes
<1>1. ASSUME NEW i \in Ids, NEW release \in Releases, NEW selector \in Profiles \cup {"-"},
             NEW seed \in BOOLEAN, StartInstall(i, release, selector, seed)
      PROVE  LocksAreChained'
  <2>1. /\ run.phase = "idle" /\ run'.phase = "seed" /\ run'.start = files
        /\ journal[i].manifest = "-" /\ Begins(i) /\ \A j \in Ids \ {i} : journal'[j] = journal[j]
        /\ UNCHANGED disturbed
    BY <1>1, StartInstallFacts DEF History
  <2>2. Notes
    BY <2>1 DEF Notes, InEffect, InEffectThen, Begins
  <2> QED BY <1>0, <2>1, <2>2 DEF Project
<1>2. ASSUME NEW p \in Paths, Write(p) PROVE LocksAreChained'
  BY <1>0, <1>2, <1>n, <1>i, WriteFacts DEF History, Writing
<1>3. ASSUME NEW p \in Paths, WriteFails(p) PROVE LocksAreChained'
  BY <1>0, <1>3, <1>n, <1>i, WriteFailsFacts DEF History, Writing, GoesToRestore
<1>4. ASSUME NEW p \in Paths, BackupFails(p) PROVE LocksAreChained'
  BY <1>0, <1>4, <1>n, <1>i, BackupFailsFacts DEF History, Writing, GoesToRestore
<1>5. CASE Refused
  BY <1>0, <1>5, <1>n, <1>i, RefusedFacts DEF History, Installing, Writing, GoesToRestore
<1>6. CASE disturbed' = disturbed + 1
  BY <1>0, <1>6, <1>d
<1>7. ASSUME NEW p \in Paths, Restore(p) PROVE LocksAreChained'
  BY <1>0, <1>6, <1>7, <1>n, <1>i, RestoreFacts DEF GoesOn, Dies, ImageInv, RunImages
<1>8. ASSUME NEW p \in Paths, Rollback(p) PROVE LocksAreChained'
  BY <1>0, <1>8, <1>n, <1>i, RollbackFacts DEF GoesOn, History, ImageInv, RunImages
<1>9. CASE RolledBack
  <2>1. /\ run.phase = "restore" /\ run.todo = {} /\ run'.phase = "idle"
        /\ NotesImages("ROLLED_BACK") /\ UNCHANGED files /\ run.id \in Ids
        /\ disturbed' = IF \E p \in Paths : HalfMade(p) THEN disturbed + 1 ELSE disturbed
    BY <1>9, RolledBackFacts, IdleFacts
  <2>2. CASE \E p \in Paths : HalfMade(p)
    BY <1>6, <2>1, <2>2
  <2>3. CASE ~\E p \in Paths : HalfMade(p)
    <3>1. Project'["lock"] = Project["lock"] /\ UNCHANGED disturbed
      BY <2>1, <2>3, Kinds DEF Project, ImageInv, RunImages, RestoreKnowsStart
    <3>2. Notes
      BY <2>1, <1>o DEF Notes, NotesImages, InEffect, InEffectThen
    <3> QED BY <1>0, <3>1, <3>2
  <2> QED BY <2>2, <2>3
<1>10. CASE Kill
  BY <1>6, <1>10, KillFacts
<1>11. ASSUME NEW i \in Ids, NEW force \in BOOLEAN, StartRollback(i, force) PROVE LocksAreChained'
  BY <1>0, <1>n, <1>11, StartRollbackFacts DEF Project
<1>12. CASE RollbackEnds
  BY <1>12, UndoKeepsChain
<1>13. CASE Advance
  <2>1. CASE run.phase = "lock"
    BY <1>13, <2>1, InstallExtendsChain
  <2>2. CASE run.phase # "lock"
    <3>1. /\ run.phase # "idle" /\ SameRun /\ run'.phase # "idle" /\ UNCHANGED disturbed
          /\ Installing /\ run.id \in Ids
          /\ journal' = journal \/ NotesImages("PENDING") \/ NotesOwned
      BY <1>13, <2>2, AdvanceFacts DEF Enters, History, ImageInv, RunImages
    <3>2. Notes
      BY <1>n, <1>o, <3>1 DEF Notes, NotesImages, NotesOwned, InEffect, InEffectThen
    <3> QED BY <1>0, <1>i, <3>1, <3>2
  <2> QED BY <2>1, <2>2
<1>14. ASSUME NEW e \in Edits, NEW p \in Editable, NEW c \in {e, "absent"}, Edit(e, p, c)
       PROVE  LocksAreChained'
  <2>1. /\ run.phase = "idle" /\ p # "lock" /\ Puts(p, c) /\ UNCHANGED <<run, journal, disturbed>>
    BY <1>14, EditFacts, Kinds
  <2> QED BY <1>0, <1>n, <2>1, Kinds DEF Puts, Project
<1>15. CASE UNCHANGED vars
  BY <1>0, <1>n, <1>15 DEF vars, Project
<1> QED BY <1>1, <1>2, <1>3, <1>4, <1>5, <1>7, <1>8, <1>9, <1>10, <1>11, <1>12, <1>13, <1>14, <1>15
       DEF Next

-----------------------------------------------------------------------------
(* The invariant, and what follows from it.                                *)

\* The first state has no run, no entry and nothing of the consumer's to lose.
LEMMA InitHolds == Init => IInv
<1> SUFFICES ASSUME Init PROVE IInv
  OBVIOUS
<1>1. /\ run = Idle /\ disturbed = 0 /\ files \in [Paths -> Contents] /\ journal \in [Ids -> Entries]
      /\ \A i \in Ids : /\ journal[i].manifest = "-" /\ journal[i].before = Blank
                        /\ journal[i].after = Blank /\ journal[i].backup = Blank
                        /\ journal[i].owned = Blank /\ ~journal[i].undone
  <2>1. Blank \in Images
    BY DEF Blank, Images
  <2>2. files \in [Paths -> {"absent", "own"}]
    BY DEF Init
  <2>3. files \in [Paths -> Contents]
    BY <2>2, Kinds
  <2> QED BY <2>1, <2>3 DEF Init, Entries
<1>2. TypeOK
  BY <1>1, IdleFacts DEF Init, TypeOK, RunRecords, Entries
<1>3. RunInv
  BY <1>1, <1>2, IdleFacts DEF RunInv, RunIsOpen, JournalInOrder, PhaseWrites, Installing, Writing
<1>4. ImageInv
  BY <1>1, IdleFacts, Kinds DEF ImageInv, RunImages, WritesAreRecorded, RestoreKnowsStart, UndoKnowsStart,
     OwnedIsInstalled, BackupsAreImages, Installing, Writing, Blank
<1>5. ConsumerBytesKept
  BY DEF Init, ConsumerBytesKept
<1>6. ContentsHaveOrigins
  <2>1. \A p \in Consumers : mine[p] = "-" \/ OwnOf(p, mine[p])
    <3> SUFFICES ASSUME NEW p \in Consumers, mine[p] # "-" PROVE mine[p] = "own" /\ p \in Seeds
      BY DEF OwnOf
    <3>1. mine[p] = "own" /\ files[p] = "own"
      BY DEF Init
    <3>2. p \notin Skills \cup Copies \cup {"profile"}
      BY <3>1 DEF Init
    <3> QED BY <3>1, <3>2 DEF Consumers, Canonical
  <2>2. \A p \in Paths : Known(p, files[p])
    BY Origins DEF Init, Known
  <2>3. \A p \in Paths : /\ Known(p, run.before[p]) /\ Foreign(p, run.after[p])
                         /\ \A i \in Ids : /\ Known(p, journal[i].before[p])
                                           /\ Known(p, journal[i].backup[p])
                                           /\ Foreign(p, journal[i].after[p])
    BY <1>1, IdleFacts, PlainIsKnown DEF Blank
  <2> QED BY <2>1, <2>2, <2>3 DEF ContentsHaveOrigins, Foreign
<1>7. LockInv
  <2>1. LockIsLast
    BY <1>1, IdleFacts, Kinds DEF LockIsLast, Installing, Writing, Blank
  <2>2. Project["lock"] \notin Ids
    BY <1>1, IdleFacts, Kinds, Origins DEF Init, Project
  <2>3. \A i \in Ids : ~InEffect(i)
    BY <1>1 DEF InEffect
  <2> QED BY <2>1, <2>2, <2>3 DEF LockInv, LocksAreChained
<1> QED BY <1>3, <1>4, <1>5, <1>6, <1>7 DEF IInv

\* The invariant is inductive.
LEMMA StepHolds == IInv /\ [Next]_vars => IInv'
<1> SUFFICES ASSUME IInv, [Next]_vars PROVE IInv'
  OBVIOUS
<1>1. KeptInv /\ RunInv /\ ImageInv /\ LockInv /\ LockIsLast
  BY DEF IInv, KeptInv, LockInv
<1>2. RunInv' /\ ImageInv' /\ ConsumerBytesKept'
  BY <1>1, RunStep, ImageStep, BackupsStep DEF ImageInv
<1>3. ContentsHaveOrigins'
  BY <1>1, OriginStep
<1>4. LockInv'
  BY <1>1, LockIsLastStep, ChainStep DEF LockInv
<1> QED BY <1>2, <1>3, <1>4 DEF IInv

\* The invariant holds in every reachable state.
LEMMA Invariance == Spec => []IInv
BY InitHolds, StepHolds, PTL DEF Spec

\* The state is what the declarations say (install_v430.main, rollback.main).
THEOREM InstallerTypeCorrect == Spec => []TypeOK
<1>1. IInv => TypeOK
  BY DEF IInv, RunInv
<1> QED BY <1>1, Invariance, PTL

\* What the consumer last put into a file is in the project or in a backup,
\* unless he forced a rollback over it or its backup stopped half-way
\* (record_before, restore, rollback.main).
THEOREM BytesTheorem == Spec => []ConsumerBytesKept
<1>1. IInv => ConsumerBytesKept
  BY DEF IInv
<1> QED BY <1>1, Invariance, PTL

\* The locks that the installations in effect found form a chain in the order of
\* time, although the names are random: each found that of the one before
\* (install_v430.main, rollback.main).
THEOREM ChainTheorem == Spec => []LocksAreChained
<1>1. IInv => LocksAreChained
  BY DEF IInv, LockInv
<1> QED BY <1>1, Invariance, PTL

\* An unforced rollback of a completed installation is that of the last one in
\* effect (rollback.latest_backup, rollback.main).
THEOREM UndoTheorem == Spec => RollbackUndoesLatest
<1> DEFINE A == run.phase = "undo" /\ run.todo = {} /\ run' = Idle /\ disturbed' = 0
                   /\ journal[run.id].manifest = "PASS"
                => \A j \in Ids : Time[j] > Time[run.id] => journal[j].manifest # "PASS" \/ journal[j].undone
<1>1. ASSUME IInv, [Next]_vars, run.phase = "undo", run.todo = {}, run' = Idle, disturbed' = 0,
             journal[run.id].manifest = "PASS", NEW j \in Ids, Time[j] > Time[run.id]
      PROVE  journal[j].manifest # "PASS" \/ journal[j].undone
  <2>1. RunInv /\ ImageInv /\ LockInv /\ disturbed \in Nat
    BY <1>1 DEF IInv, RunInv, TypeOK
  <2>2. Idle.phase # "undo" /\ run.id \in Ids /\ run # Idle
    BY <1>1, <2>1, IdleFacts DEF RunInv, RunIsOpen
  <2>3. ~Kill
    BY <1>1, <2>1, KillFacts
  <2>4. RollbackEnds
    BY <1>1, <2>2, <2>3, IdleFacts DEF Next, vars, StartInstall, Write, WriteFails, BackupFails, Restore, Rollback,
       BackingUp, FirstOf, LastOf, Advance, Refused, RolledBack, StartRollback, Edit, Idle
  <2>5. ~run.forced /\ disturbed = 0
    BY <1>1, <2>1, <2>4, RollbackEndsFacts
  <2>6. Project["lock"] = run.id
    BY <1>1, <2>1, <2>5, UndoOfLatest
  <2>7. InEffect(j) => Time[j] <= Time[run.id]
    BY <2>1, <2>5, <2>6 DEF LockInv, LocksAreChained
  <2> QED BY <1>1, <2>2, <2>7, InstallerAssumption DEF InEffect
<1>2. IInv /\ [Next]_vars => [A]_vars
  BY <1>1
<1> QED BY <1>2, Invariance, PTL DEF Spec, RollbackUndoesLatest

-----------------------------------------------------------------------------
(* The installer implements AtomicInstall: what happens while a run is at   *)
(* work is an attempt or nothing; its end is the update, or the undo.       *)

\* In words: the journal as AtomicInstall has it.
Seen == [i \in Ids |-> [done |-> journal[i].manifest = "PASS", before |-> journal[i].before,
                        after |-> journal[i].after, owned |-> journal[i].owned]]

\* What AtomicInstall sees of an entry, now and next.
LEMMA SeenFacts ==
    /\ \A i \in Ids : /\ Seen[i].done = (journal[i].manifest = "PASS")
                      /\ Seen[i].before = journal[i].before /\ Seen[i].after = journal[i].after
                      /\ Seen[i].owned = journal[i].owned
    /\ \A i \in Ids : /\ Seen'[i].done = (journal'[i].manifest = "PASS")
                      /\ Seen'[i].before = journal'[i].before /\ Seen'[i].after = journal'[i].after
                      /\ Seen'[i].owned = journal'[i].owned
    /\ \A i \in Ids : journal'[i] = journal[i] => Seen'[i] = Seen[i]
BY DEF Seen

\* In words: nothing that AtomicInstall sees of the journal changes.
SeesNothing ==
    \A i \in Ids : /\ (journal'[i].manifest = "PASS") <=> (journal[i].manifest = "PASS")
                   /\ journal'[i].before = journal[i].before
                   /\ journal'[i].after = journal[i].after
                   /\ journal'[i].owned = journal[i].owned

\* A step that changes no finished entry shows AtomicInstall the same journal.
LEMMA SeenStays == SeesNothing => Seen' = Seen
BY DEF Seen, SeesNothing

\* One lemma for each way a step looks to AtomicInstall: as nothing at all,
LEMMA AsStutter ==
  ASSUME SeesNothing, Project' = Project, UNCHANGED disturbed
  PROVE  UNCHANGED Atomic!vars
BY SeenStays DEF Atomic!vars, Seen, Project

\* as a death, a forced undo or a restore from half a backup,
LEMMA AsDisturb ==
  ASSUME disturbed' = disturbed + 1,
         SeesNothing \/ \E r \in Ids : /\ journal[r].manifest # "PASS" /\ journal'[r].manifest # "PASS"
                                       /\ \A j \in Ids \ {r} : journal'[j] = journal[j]
  PROVE  Atomic!Disturb
BY SeenStays, SeenFacts DEF Atomic!Disturb, Seen

\* as an installation that has not happened yet or will not,
LEMMA AsAttempt ==
  ASSUME NEW i \in Ids, journal[i].manifest # "PASS", journal'[i].manifest # "PASS",
         \A j \in Ids \ {i} : journal'[j] = journal[j], Project' = Project, UNCHANGED disturbed
  PROVE  Atomic!Attempt(i)
BY SeenFacts DEF Atomic!Attempt, Seen, Project

\* as an edit of the consumer's,
LEMMA AsEdit ==
  ASSUME SeesNothing, NEW p \in Paths, \A q \in Paths \ {p} : Project'[q] = Project[q],
         UNCHANGED disturbed
  PROVE  Atomic!Edit(p)
BY SeenStays DEF Atomic!Edit, Seen, Project

\* as an exact undo,
LEMMA AsUndo ==
  ASSUME SeesNothing, NEW i \in Ids, UNCHANGED disturbed,
         \A p \in Paths : journal[i].before[p] # "-" => Project[p] = journal[i].after[p],
         \A p \in Paths :
             \/ Project'[p] = IF journal[i].before[p] = "-" THEN Project[p] ELSE journal[i].before[p]
             \/ p = "receipt" /\ Project'[p] = "absent"
  PROVE  Atomic!Undo(i)
BY SeenStays, SeenFacts DEF Atomic!Undo, Seen, Project

\* as one whole installation.
LEMMA AsUpdate ==
  ASSUME NEW i \in Ids, journal[i].manifest # "PASS", journal'[i].manifest = "PASS",
         \A j \in Ids \ {i} : journal'[j] = journal[j], UNCHANGED disturbed,
         \A p \in Paths :
            /\ journal'[i].before[p] \in {"-", Project[p]}
            /\ journal'[i].before[p] = "-" => Project'[p] = Project[p]
            /\ journal'[i].before[p] # "-" => Project'[p] = journal'[i].after[p]
            /\ journal'[i].owned[p] \in {"-", Project'[p]}
  PROVE  Atomic!Update(i)
BY SeenFacts DEF Atomic!Update, Seen, Project

\* The last step of an installation is the whole update, since every file is what
\* the run started with or what it wrote.
LEMMA UpdateAtTheEnd ==
  ASSUME IInv, Advance, run.phase = "lock"
  PROVE  Atomic!Next
<1> USE DEF IInv, ImageInv, RunImages
<1>1. /\ run.id \in Ids /\ run.todo = {} /\ run'.phase = "idle" /\ NotesImages("PASS") /\ OthersKept
      /\ UNCHANGED <<files, disturbed>> /\ Installing
  BY AdvanceFacts, IdleFacts DEF History, OthersKept
<1>2. Project = run.start /\ Project' = files
  BY <1>1 DEF Project
<1>3. journal[run.id].manifest # "PASS" /\ journal'[run.id].manifest = "PASS"
  BY <1>1 DEF RunInv, RunIsOpen, NotesImages
<1>4. \A p \in Paths :
            /\ journal'[run.id].before[p] \in {"-", Project[p]}
            /\ journal'[run.id].before[p] = "-" => Project'[p] = Project[p]
            /\ journal'[run.id].before[p] # "-" => Project'[p] = journal'[run.id].after[p]
            /\ journal'[run.id].owned[p] \in {"-", Project'[p]}
  BY <1>1, <1>2 DEF WritesAreRecorded, OwnedIsInstalled, NotesImages
<1>5. PICK i \in Ids : i = run.id
  BY <1>1
<1>6. Atomic!Update(i)
  BY <1>1, <1>3, <1>4, <1>5, AsUpdate DEF OthersKept
<1> QED BY <1>6 DEF Atomic!Next

\* The last step of a rollback is the whole undo.
LEMMA UndoAtTheEnd ==
  ASSUME IInv, RollbackEnds
  PROVE  Atomic!Next
<1> USE DEF IInv, ImageInv, RunImages
<1>1. /\ run.phase = "undo" /\ run.id \in Ids /\ run.todo = {} /\ run'.phase = "idle"
      /\ \A q \in Paths : files'[q] = files[q] \/ (q = "receipt" /\ files'[q] = "absent")
      /\ OthersKept /\ journal'[run.id] = [journal[run.id] EXCEPT !.undone = TRUE]
      /\ disturbed' = IF run.forced THEN disturbed + 1 ELSE disturbed
  BY RollbackEndsFacts, IdleFacts
<1>2. SeesNothing
  BY <1>1, Types DEF SeesNothing, RunInv, OthersKept, Entries
<1>3. CASE run.forced
  BY <1>1, <1>2, <1>3, AsDisturb DEF Atomic!Next
<1>4. CASE ~run.forced
  <2>1. Project = run.start /\ Project' = files'
    BY <1>1 DEF Project
  <2>2. \A p \in Paths : journal[run.id].before[p] # "-" => Project[p] = journal[run.id].after[p]
    BY <1>1, <1>4, <2>1 DEF UndoKnowsStart
  <2>3. \A p \in Paths :
          \/ Project'[p] = IF journal[run.id].before[p] = "-" THEN Project[p] ELSE journal[run.id].before[p]
          \/ p = "receipt" /\ Project'[p] = "absent"
    <3>1. \A p \in Paths : Project[p] # "-"
      BY <1>1, <2>1, Kinds DEF RunInv, RunIsOpen
    <3>2. \A p \in Paths : journal[run.id].before[p] # "-" =>
                              journal[run.id].backup[p] = journal[run.id].before[p]
      BY <1>1, <2>2, <3>1 DEF BackupsAreImages
    <3> QED BY <1>1, <2>1, <3>2 DEF UndoKnowsStart
  <2>4. Atomic!Undo(run.id)
    BY <1>1, <1>2, <1>4, <2>2, <2>3, AsUndo
  <2> QED BY <1>1, <2>4 DEF Atomic!Next
<1> QED BY <1>3, <1>4

\* Every step of the installer is a step of AtomicInstall or none.
LEMMA StepImplements ==
  ASSUME IInv, [Next]_vars
  PROVE  Atomic!Next \/ UNCHANGED Atomic!vars
<1> USE DEF IInv, ImageInv, RunImages
<1>n. (journal' = journal \/ KeepsNotes) => SeesNothing
  BY DEF SeesNothing, KeepsNotes
<1>i. run.phase # "idle" /\ SameRun /\ run'.phase # "idle" => Project' = Project
  BY DEF Project, SameRun
<1>o. Installing \/ run.phase = "restore" => run.id \in Ids /\ journal[run.id].manifest # "PASS"
  BY DEF RunInv, RunIsOpen, Installing, Writing
<1>1. ASSUME NEW i \in Ids, NEW release \in Releases, NEW selector \in Profiles \cup {"-"},
             NEW seed \in BOOLEAN, StartInstall(i, release, selector, seed)
      PROVE  Atomic!Next \/ UNCHANGED Atomic!vars
  <2>1. /\ run.phase = "idle" /\ run'.phase = "seed" /\ run'.start = files
        /\ journal[i].manifest = "-" /\ Begins(i) /\ \A j \in Ids \ {i} : journal'[j] = journal[j]
        /\ UNCHANGED disturbed
    BY <1>1, StartInstallFacts DEF History
  <2>2. SeesNothing /\ Project' = Project
    BY <2>1 DEF SeesNothing, Begins, Project
  <2> QED BY <2>1, <2>2, AsStutter
<1>2. ASSUME NEW p \in Paths, Write(p) PROVE UNCHANGED Atomic!vars
  BY <1>2, <1>n, <1>i, WriteFacts, AsStutter DEF History, Writing
<1>3. ASSUME NEW p \in Paths, WriteFails(p) PROVE UNCHANGED Atomic!vars
  BY <1>3, <1>n, <1>i, WriteFailsFacts, AsStutter DEF History, Writing, GoesToRestore
<1>4. ASSUME NEW p \in Paths, BackupFails(p) PROVE UNCHANGED Atomic!vars
  BY <1>4, <1>n, <1>i, BackupFailsFacts, AsStutter DEF History, Writing, GoesToRestore
<1>5. ASSUME Refused PROVE UNCHANGED Atomic!vars
  BY <1>5, <1>n, <1>i, RefusedFacts, AsStutter DEF History, Installing, Writing, GoesToRestore
<1>6. ASSUME NEW p \in Paths, Restore(p) PROVE Atomic!Next \/ UNCHANGED Atomic!vars
  <2>1. run.phase = "restore" /\ SeesNothing
    BY <1>6, <1>n, RestoreFacts
  <2>2. CASE Dies
    BY <2>1, <2>2, AsDisturb DEF Dies, Atomic!Next
  <2>3. CASE GoesOn(p) /\ UNCHANGED disturbed
    BY <2>1, <2>3, <1>i, AsStutter DEF GoesOn
  <2> QED BY <1>6, <2>2, <2>3, RestoreFacts
<1>7. ASSUME NEW p \in Paths, Rollback(p) PROVE UNCHANGED Atomic!vars
  BY <1>7, <1>n, <1>i, RollbackFacts, AsStutter DEF GoesOn, History
<1>8. ASSUME RolledBack PROVE Atomic!Next
  <2>1. /\ run.phase = "restore" /\ run.todo = {} /\ run'.phase = "idle" /\ run.id \in Ids
        /\ NotesImages("ROLLED_BACK") /\ OthersKept /\ UNCHANGED files
        /\ disturbed' = IF \E p \in Paths : HalfMade(p) THEN disturbed + 1 ELSE disturbed
    BY <1>8, RolledBackFacts, IdleFacts
  <2>2. PICK i \in Ids : i = run.id
    BY <2>1
  <2>3. /\ journal[i].manifest # "PASS" /\ journal'[i].manifest # "PASS"
        /\ \A j \in Ids \ {i} : journal'[j] = journal[j]
    BY <2>1, <2>2, <1>o DEF NotesImages, OthersKept
  <2>4. CASE \E p \in Paths : HalfMade(p)
    BY <2>1, <2>3, <2>4, AsDisturb DEF Atomic!Next
  <2>5. CASE ~\E p \in Paths : HalfMade(p)
    <3>1. \A p \in Paths : files[p] = run.start[p]
      BY <2>1, <2>5 DEF RestoreKnowsStart
    <3>2. files \in [Paths -> Contents] /\ run.start \in [Paths -> Contents]
      BY <2>1, Types DEF RunInv, RunIsOpen
    <3>3. Project' = Project
      BY <2>1, <3>1, <3>2 DEF Project
    <3>4. Atomic!Attempt(i)
      BY <2>1, <2>3, <2>5, <3>3, AsAttempt
    <3> QED BY <3>4 DEF Atomic!Next
  <2> QED BY <2>4, <2>5
<1>9. ASSUME Kill PROVE Atomic!Next
  BY <1>9, <1>n, KillFacts, AsDisturb DEF Atomic!Next
<1>10. ASSUME NEW i \in Ids, NEW force \in BOOLEAN, StartRollback(i, force)
       PROVE  UNCHANGED Atomic!vars
  BY <1>10, <1>n, StartRollbackFacts, AsStutter DEF Project
<1>11. ASSUME RollbackEnds PROVE Atomic!Next
  BY <1>11, UndoAtTheEnd
<1>12. ASSUME Advance PROVE Atomic!Next \/ UNCHANGED Atomic!vars
  <2>1. run.id \in Ids /\ Installing /\ UNCHANGED disturbed
    BY <1>12, AdvanceFacts DEF History
  <2>2. CASE run.phase = "lock"
    BY <1>12, <2>2, UpdateAtTheEnd
  <2>3. CASE run.phase # "lock"
    <3>1. /\ run.phase # "idle" /\ SameRun /\ run'.phase # "idle"
          /\ journal' = journal \/ (OthersKept /\ (NotesImages("PENDING") \/ NotesOwned))
      BY <1>12, <2>3, AdvanceFacts DEF Enters, OthersKept
    <3>2. CASE journal' = journal
      BY <1>n, <1>i, <2>1, <3>1, <3>2, AsStutter
    <3>3. CASE OthersKept /\ (NotesImages("PENDING") \/ NotesOwned)
      <4>1. journal'[run.id].manifest # "PASS"
        BY <1>o, <2>1, <3>3 DEF NotesImages, NotesOwned
      <4>2. PICK i \in Ids : i = run.id
        BY <2>1
      <4>3. Atomic!Attempt(i)
        BY <1>i, <1>o, <2>1, <3>1, <3>3, <4>1, <4>2, AsAttempt DEF OthersKept
      <4> QED BY <4>3 DEF Atomic!Next
    <3> QED BY <3>1, <3>2, <3>3
  <2> QED BY <2>2, <2>3
<1>13. ASSUME NEW e \in Edits, NEW p \in Editable, NEW c \in {e, "absent"}, Edit(e, p, c)
       PROVE  Atomic!Next
  <2>1. /\ run.phase = "idle" /\ p \in Paths /\ Puts(p, c) /\ UNCHANGED <<run, journal, disturbed>>
    BY <1>13, EditFacts
  <2>2. SeesNothing /\ \A q \in Paths \ {p} : Project'[q] = Project[q]
    BY <1>n, <2>1 DEF Puts, Project
  <2>3. Atomic!Edit(p)
    BY <2>1, <2>2, AsEdit
  <2> QED BY <2>1, <2>3 DEF Atomic!Next
<1>14. CASE UNCHANGED vars
  BY <1>14, <1>n, AsStutter DEF vars, Project
<1> QED BY <1>1, <1>2, <1>3, <1>4, <1>5, <1>6, <1>7, <1>8, <1>9, <1>10, <1>11, <1>12, <1>13, <1>14
       DEF Next

\* Between two runs the project changes by whole installations, exact rollbacks
\* and edits, unless a process died, a rollback was forced or half a backup was
\* put back (install_v430.main, restore, rollback.main).
THEOREM InstallsAreAtomic == Spec => ImplementsAtomicInstall
<1>1. Init => Atomic!Init
  <2> SUFFICES ASSUME Init PROVE Atomic!Init
    OBVIOUS
  <2>1. files \in [Paths -> Contents] /\ run.phase = "idle"
    <3>1. files \in [Paths -> {"absent", "own"}]
      BY DEF Init
    <3> QED BY <3>1, Kinds, IdleFacts DEF Init
  <2>2. \A i \in Ids : journal[i].manifest = "-" /\ journal[i].before = Blank
                       /\ journal[i].after = Blank /\ journal[i].owned = Blank
    BY DEF Init
  <2>3. Seen = [i \in Ids |-> [done |-> FALSE, before |-> Blank, after |-> Blank, owned |-> Blank]]
    BY <2>2 DEF Seen
  <2> QED BY <2>1, <2>3 DEF Init, Atomic!Init, Atomic!Blank, Blank, Seen
<1>2. IInv /\ [Next]_vars => [Atomic!Next]_(Atomic!vars)
  BY StepImplements
<1> QED BY <1>1, <1>2, Invariance, PTL DEF Spec, ImplementsAtomicInstall, Atomic!Spec
=============================================================================
