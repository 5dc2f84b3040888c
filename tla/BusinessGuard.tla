---------------------------- MODULE BusinessGuard ----------------------------
(***************************************************************************)
(* The guard of the Composer over a consumer's own source: a snapshot      *)
(* before the apply, another one after it, and the comparison that has the *)
(* apply rolled back.  A snapshot is not one look: Git is asked for HEAD,  *)
(* for the index, for the status, and then the files that differ from the  *)
(* index are read one by one; where Git cannot answer every file is read.  *)
(* People edit and use Git at any moment.                                  *)
(*                                                                         *)
(* The content of a submodule is the commit it stands at and the files in  *)
(* it, which are equal when nothing in it is changed.  Renames are a       *)
(* deletion and an addition.                                               *)
(***************************************************************************)
EXTENDS Naturals, Sequences

CONSTANTS
  File, Module,  \* paths of files, and of submodules
  Root,          \* the directories that count as business source
  RootOf,        \* path -> the one it is in, or Nothing
  Ignored,       \* paths that .gitignore names
  Bytes,         \* contents
  Nothing,       \* no content: not there, or a submodule that is not checked out
  MaxCommits,    \* bound: commits
  MaxTouches     \* bound: what people do to the repository

Path == File \cup Module
Blob == Bytes \cup {Nothing}
Contents(p) == IF p \in Module THEN (Bytes \X Bytes) \cup {Nothing} ELSE Blob
CommitTree == [Path -> Blob]

ASSUME PathsAssumption ==
  /\ File \cap Module = {}
  /\ RootOf \in [Path -> Root \cup {Nothing}] /\ Nothing \notin Root
  /\ Ignored \subseteq File
ASSUME BytesAssumption == Nothing \notin Bytes /\ Nothing \notin Bytes \X Bytes
ASSUME TouchesAssumption == MaxCommits \in Nat /\ MaxTouches \in Nat

VARIABLES
  work,     \* the working tree
  dirs,     \* the directories of Root that exist, empty ones among them
  index,    \* the index
  commits,  \* the commits, each a tree
  repo,     \* "none" without Git, "unmerged" in a merge with conflicts, else "git"
  head,     \* the commit HEAD names, 0 when there is none
  look,     \* which of the two snapshots is being taken, and how far it is
  snap,     \* the snapshots
  todo,     \* what this snapshot has still to read
  seen,     \* what each path was while each snapshot was taken
  mixed,    \* Git was used after a snapshot had asked for the index, before the status
  touches

guardVars == <<work, dirs, index, commits, repo, head, look, snap, todo, seen, mixed, touches>>

Line == [blobs : {<<>>} \cup (Blob \X Blob), untracked : BOOLEAN,
         differs : SUBSET {"deleted", "modified", "commit", "content"}]

Snapshot ==
  [strategy : {"none", "overlay", "full"}, head : Nat, roots : SUBSET Root, index : CommitTree,
   status : {<<>>} \cup [Path -> Line],
   overlay : SUBSET (Path \X {"T", "F", "D", "S", "clean", "dirty"} \X Blob \X Blob)]

Verdicts == {"head changed", "index changed", "bytes changed", "pass"}

GuardTypeOK ==
  /\ work \in [Path -> UNION {Contents(p) : p \in Path}] /\ \A p \in Path : work[p] \in Contents(p)
  /\ dirs \subseteq Root
  /\ index \in CommitTree
  /\ commits \in Seq(CommitTree) /\ head \in 0 .. Len(commits)
  /\ repo \in {"none", "git", "unmerged"}
  /\ look \in [of : 1 .. 2, at : {"head", "index", "status", "walk", "read", "unresolved"} \cup Verdicts]
  /\ snap \in [1 .. 2 -> Snapshot]
  /\ todo \subseteq Path
  /\ seen \in [1 .. 2 -> [Path -> SUBSET UNION {Contents(p) : p \in Path}]]
  /\ mixed \in BOOLEAN
  /\ touches \in 0 .. MaxTouches

NoSnapshotYet ==
  [strategy |-> "none", head |-> 0, roots |-> {}, index |-> [p \in Path |-> Nothing],
   status |-> <<>>, overlay |-> {}]

NothingSeen == [l \in 1 .. 2 |-> [p \in Path |-> {}]]

Begins ==
  /\ look' = [of |-> 1, at |-> "head"]
  /\ snap' = [l \in 1 .. 2 |-> NoSnapshotYet]
  /\ seen' = NothingSeen /\ mixed' = FALSE
  /\ todo' = {}

Occupied(w) == {RootOf[p] : p \in {q \in Path : w[q] # Nothing}} \ {Nothing}

GuardInit ==
  /\ work \in [Path -> UNION {Contents(p) : p \in Path}]
  /\ \A p \in Path : work[p] \in Contents(p)
  /\ dirs \in SUBSET Root /\ Occupied(work) \subseteq dirs
  /\ commits \in {<<>>} \cup {<<t>> : t \in CommitTree} /\ head = Len(commits)
  /\ index = IF head = 0 THEN [p \in Path |-> Nothing] ELSE commits[head]
  /\ repo \in {"none", "git"} /\ (repo = "none" => head = 0)
  /\ look = [of |-> 1, at |-> "head"]
  /\ snap = [l \in 1 .. 2 |-> NoSnapshotYet]
  /\ todo = {}
  /\ seen = NothingSeen /\ mixed = FALSE
  /\ touches = 0

-----------------------------------------------------------------------------
(* What Git says of a path: ls-files --stage, and the line of status.      *)

Tracked(p) == index[p] # Nothing

\* How the working tree differs from the index.
Differs(p) ==
  {d \in {"deleted", "modified", "commit", "content"} :
     /\ Tracked(p)
     /\ CASE d = "deleted"  -> p \in File /\ work[p] = Nothing
          [] d = "modified" -> p \in File /\ work[p] \notin {Nothing, index[p]}
          [] d = "commit"   -> p \in Module /\ work[p] # Nothing /\ work[p][1] # index[p]
          [] d = "content"  -> p \in Module /\ work[p] # Nothing /\ work[p][2] # work[p][1]}

Untracked(p) == ~Tracked(p) /\ work[p] # Nothing /\ p \notin Ignored

\* A changed path is listed with the blobs of HEAD and of the index, never with what
\* is in the working tree.
StatusLine(p) ==
  LET committed == commits[head][p]
  IN  [blobs |-> IF committed = index[p] /\ Differs(p) = {} THEN <<>> ELSE <<committed, index[p]>>,
       differs |-> Differs(p), untracked |-> Untracked(p)]

-----------------------------------------------------------------------------
(* One snapshot: capture_business_snapshot.                                *)

Running == look.at \in {"index", "status", "walk", "read"}

Goes(at) == look' = [look EXCEPT !.at = at]

Takes(field, value) == snap' = [snap EXCEPT ![look.of][field] = value]

Surroundings == <<work, dirs, index, commits, repo, head, mixed, touches>>

\* business_source_roots, is_git_repo, git rev-parse HEAD.
AskHead ==
  /\ look.at = "head"
  /\ snap' = [snap EXCEPT ![look.of].roots = dirs, ![look.of].head = head]
  /\ Goes(IF head = 0 THEN "walk" ELSE "index")
  /\ seen' = [seen EXCEPT ![look.of] = [p \in Path |-> {work[p]}]]
  /\ UNCHANGED <<todo, Surroundings>>

AskIndex ==
  /\ look.at = "index"
  /\ Takes("index", index)
  /\ Goes("status")
  /\ UNCHANGED <<todo, seen, Surroundings>>

\* The business part of an inventory: everything when no root directory exists.
Covers(s, p) == s.roots = {} \/ RootOf[p] \in s.roots

IsStaged(line) == \* mutant: XY is read in its first column
  line.blobs # <<>> /\ line.blobs[1] # line.blobs[2]

\* _dirty_paths: the second column of XY.
IsDirty(line) == line.differs # {}

\* An unmerged path sends the snapshot to the fallback.  Otherwise a clean file is
\* recorded by its blob, and the others are still to be read.
AskStatus ==
  /\ look.at = "status"
  /\ IF repo = "unmerged"
     THEN Goes("walk") /\ UNCHANGED <<snap, todo>>
     ELSE LET s == snap[look.of]
              line == [p \in Path |-> StatusLine(p)]
              tracked == {p \in Path : Covers(s, p) /\ s.index[p] # Nothing}
              clean == {p \in tracked \cap File : ~IsDirty(line[p])}
          IN  /\ snap' = [snap EXCEPT ![look.of].strategy = "overlay", ![look.of].status = line,
                             ![look.of].overlay = {<<p, "T", s.index[p], Nothing>> : p \in clean}]
              /\ todo' = (tracked \ clean) \cup {p \in Path : Covers(s, p) /\ line[p].untracked}
              /\ Goes("read")
  /\ UNCHANGED <<seen, Surroundings>>

\* _full_fallback_snapshot: the files below the root directories, whatever Git says.
Walk ==
  /\ look.at = "walk"
  /\ snap' = [snap EXCEPT ![look.of] =
                [NoSnapshotYet EXCEPT !.strategy = "full", !.roots = snap[look.of].roots]]
  /\ todo' = {p \in Path : RootOf[p] \in dirs /\ work[p] # Nothing}
  /\ Goes("read")
  /\ UNCHANGED <<seen, Surroundings>>

\* _worktree_record, of content c.
FileRecord(p, c) ==
  IF c = Nothing THEN <<p, "D", Nothing, Nothing>> ELSE <<p, "F", c, Nothing>>

FullRecord(p, c) ==
  IF p \in Module /\ c # Nothing THEN <<p, "F", c[2], Nothing>> ELSE FileRecord(p, c)

\* _gitlink_record: of a dirty submodule HEAD.  A repository nobody has added is a
\* directory to Git.
GitlinkRecord(s, p) ==
  IF s.index[p] = Nothing THEN <<p, "S", Nothing, Nothing>>
  ELSE IF IsDirty(s.status[p]) THEN <<p, "dirty", s.index[p], work[p][1]>>
  ELSE <<p, "clean", s.index[p], Nothing>>

RecordOf(s, p) ==
  IF p \in Module /\ s.strategy = "overlay" THEN GitlinkRecord(s, p) ELSE FullRecord(p, work[p])

\* SUBMODULE_SOURCE_STATE_UNRESOLVED
Unresolved(p) ==
  /\ p \in Module /\ work[p] = Nothing
  /\ snap[look.of].strategy = "overlay" /\ snap[look.of].index[p] # Nothing

Read(p) ==
  /\ look.at = "read" /\ p \in todo
  /\ IF Unresolved(p)
     THEN Goes("unresolved") /\ UNCHANGED <<snap, todo>>
     ELSE /\ Takes("overlay", snap[look.of].overlay \cup {RecordOf(snap[look.of], p)})
          /\ todo' = todo \ {p}
          /\ UNCHANGED look
  /\ UNCHANGED <<seen, Surroundings>>

\* The first snapshot is complete; the Composer writes nothing a snapshot covers.
Apply ==
  /\ look = [of |-> 1, at |-> "read"] /\ todo = {}
  /\ look' = [of |-> 2, at |-> "head"]
  /\ UNCHANGED <<snap, todo, seen, Surroundings>>

\* compare_business_snapshots
Verdict ==
  LET before == snap[1]  after == snap[2]
  IN  IF before.head # after.head THEN "head changed"
      ELSE IF before.index # after.index THEN "index changed"
      ELSE IF <<before.status, before.overlay>> # <<after.status, after.overlay>>
      THEN "bytes changed" ELSE "pass"

Compare ==
  /\ look = [of |-> 2, at |-> "read"] /\ todo = {}
  /\ Goes(Verdict)
  /\ UNCHANGED <<snap, todo, seen, Surroundings>>

NextApply ==
  /\ look.at \in Verdicts \cup {"unresolved"}
  /\ Begins
  /\ UNCHANGED <<work, dirs, index, commits, repo, head, touches>>

-----------------------------------------------------------------------------
(* People.                                                                 *)

Touch == touches < MaxTouches /\ touches' = touches + 1

\* What the files are now belongs to the snapshot that is being taken.
Watched ==
  seen' = IF Running THEN [seen EXCEPT ![look.of] = [p \in Path |-> @[p] \cup {work'[p]}]] ELSE seen

UsesGit ==
  /\ Touch /\ repo # "none"
  /\ mixed' = (mixed \/ look.at = "status")

EditSource ==
  /\ Touch
  /\ \E p \in Path : \E c \in Contents(p) \ {work[p]} : work' = [work EXCEPT ![p] = c]
  /\ dirs' = dirs \cup Occupied(work')
  /\ Watched
  /\ UNCHANGED <<index, commits, repo, head, look, snap, todo, mixed>>

\* rmdir, of an empty directory.
RemoveDirectory ==
  /\ Touch
  /\ \E r \in dirs \ Occupied(work) : dirs' = dirs \ {r}
  /\ UNCHANGED <<work, index, commits, repo, head, look, snap, todo, seen, mixed>>

Add ==
  /\ UsesGit /\ repo = "git"
  /\ \E p \in Path :
       /\ p \in Ignored => Tracked(p)
       /\ p \in Module => work[p] # Nothing
       /\ index' = [index EXCEPT ![p] = IF p \in Module THEN work[p][1] ELSE work[p]]
  /\ UNCHANGED <<work, dirs, commits, repo, head, look, snap, todo, seen>>

Commit ==
  /\ UsesGit /\ repo = "git"
  /\ Len(commits) < MaxCommits
  /\ commits' = Append(commits, index) /\ head' = Len(commits')
  /\ UNCHANGED <<work, dirs, index, repo, look, snap, todo, seen>>

\* git reset --hard: the files Git knows become those of the commit, submodules stay.
Reset ==
  /\ UsesGit
  /\ \E c \in 1 .. Len(commits) :
       /\ head' = c /\ index' = commits[c]
       /\ work' = [p \in Path |->
                     IF p \in File /\ (Tracked(p) \/ commits[c][p] # Nothing)
                     THEN commits[c][p] ELSE work[p]]
  /\ repo' = "git"
  /\ dirs' = dirs \cup Occupied(work')
  /\ Watched
  /\ UNCHANGED <<commits, look, snap, todo>>

\* git merge, which leaves markers in a file.
Merge ==
  /\ UsesGit /\ repo = "git" /\ head # 0
  /\ repo' = "unmerged"
  /\ \E p \in {f \in File : Tracked(f)}, c \in Bytes : work' = [work EXCEPT ![p] = c]
  /\ dirs' = dirs \cup Occupied(work')
  /\ Watched
  /\ UNCHANGED <<index, commits, head, look, snap, todo>>

GuardNext ==
  \/ AskHead \/ AskIndex \/ AskStatus \/ Walk \/ Apply \/ Compare \/ NextApply
  \/ \E p \in Path : Read(p)
  \/ EditSource \/ RemoveDirectory \/ Add \/ Commit \/ Reset \/ Merge

GuardSpec == GuardInit /\ [][GuardNext]_guardVars

-----------------------------------------------------------------------------
(* Properties.                                                             *)

\* What the guard compares of a content: of a submodule its HEAD, in the fallback
\* its files.
Compared(p, c) ==
  IF p \in Module /\ c # Nothing
  THEN (IF snap[1].strategy = "overlay" THEN c[1] ELSE c[2]) ELSE c

Tracks(p) == snap[1].index[p] # Nothing

\* A submodule counts when it was checked out throughout: an empty one is clean for
\* Git, and may be filled before it is recorded.
Guarded(p) ==
  IF snap[1].strategy = "overlay"
  THEN /\ IF p \in File THEN Tracks(p) \/ p \notin Ignored
         ELSE Tracks(p) /\ Nothing \notin seen[1][p] \cup seen[2][p]
       /\ snap[1].roots = {} \/ RootOf[p] # Nothing
  ELSE RootOf[p] # Nothing

\* An apply that passes the guard found every business file as it was: what the file
\* was at a moment of the first snapshot it was again at a moment of the second,
\* although each snapshot asks one question after the other and people do what they
\* like.  Only a Git command between ls-files and status can mislead it
\* (business_guard.py, git_index.py).
PassedSourceWasThere ==
  look.at = "pass" /\ ~mixed =>
    \A p \in Path : Guarded(p) =>
      \E c \in seen[1][p], d \in seen[2][p] : Compared(p, c) = Compared(p, d)
=============================================================================
