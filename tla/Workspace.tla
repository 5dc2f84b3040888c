----------------------------- MODULE Workspace -----------------------------
(***************************************************************************)
(* The git working tree one Plan is delivered in, as the delivery scripts  *)
(* see it: the files the Plan's Change Matrix names, the other files of    *)
(* the repository, the Plan itself, the evidence manifest, the commits,    *)
(* and the baseline that workspace.py freezes before the first             *)
(* implementation write.                                                   *)
(*                                                                         *)
(* A file is the number of its version; a digest is the value it digests.  *)
(* The person who implements the Plan edits, commits and takes commits     *)
(* back in any order; the scripts only read.                               *)
(***************************************************************************)
EXTENDS Naturals, Sequences, FiniteSets

CONSTANTS
    Planned,     \* the paths of the Plan's Change Matrix
    Others,      \* the other tracked paths
    Tooling,     \* those of Others under TOOLING_PREFIXES
    Todos,       \* the Plan's todos
    MaxVersion,  \* bound: versions of a file
    MaxRevision, \* bound: semantic revisions of the Plan
    MaxCommits,  \* bound: commits ever made, the first included
    MaxMoves,    \* bound: what the person does to files and commits
    None

ASSUME WorkspaceAssumption ==
    /\ Planned # {} /\ Planned \cap Others = {} /\ Tooling \subseteq Others
    /\ MaxVersion \in Nat /\ MaxRevision \in Nat /\ MaxCommits \in Nat \ {0}
    /\ MaxMoves \in Nat
    /\ "plan" \notin Planned \cup Others /\ "manifest" \notin Planned \cup Others
    /\ None \notin Nat

VARIABLES
    commits,   \* every commit object: its tree and the commits it descends from
    head,      \* the commit HEAD names
    tree,      \* the working tree
    baseline,  \* workspace-baseline.json, or None
    moves      \* how many moves the person has made: only the bound reads it

wsVars == <<commits, head, tree, baseline, moves>>

Paths == Planned \cup Others
Versions == 0..MaxVersion

\* A semantic revision of the Plan with the content of the planned files.
Scopes == [sem : 0..MaxRevision, planned : [Planned -> Versions]]

\* A snapshot holds, for each ambient path, its content and whether git calls
\* it dirty.
Snapshots == UNION {[S -> Versions \X BOOLEAN] : S \in SUBSET Others}

\* The two fingerprints that a record of the delivery carries.
Prints == [scope : Scopes, ambient : Snapshots]

Trees == [file : [Paths -> Versions], sem : 0..MaxRevision,
          done : SUBSET Todos, manifest : Prints \cup {None}]

Baselines == [base : 1..MaxCommits, planned : [Planned -> Versions],
              ambient : Snapshots, sem : 0..MaxRevision]

ASSUME NoBaselineAssumption == None \notin Baselines

HeadTree == commits[head].tree

----------------------------------------------------------------------------
(* What workspace.py computes *)

\* Files whose content differs from HEAD. The evidence manifest and .smc/ are
\* excluded from git's answer by _name_set.
DirtyPaths == {p \in Paths : tree.file[p] # HeadTree.file[p]}
PlanDirty == tree.sem # HeadTree.sem \/ tree.done # HeadTree.done

\* The Plan's semantic hash leaves the todo status out.
ScopeOf(t) == [sem |-> t.sem, planned |-> [p \in Planned |-> t.file[p]]]
ScopeFingerprint == ScopeOf(tree)

Snapshot(S) == [p \in S |-> <<tree.file[p], p \in DirtyPaths>>]

AmbientPaths == DOMAIN baseline.ambient
AmbientFingerprint == Snapshot(AmbientPaths)
AmbientStable == AmbientFingerprint = baseline.ambient
UnexpectedDirty == DirtyPaths \ (AmbientPaths \cup Planned)
ScopeChanged == {p \in Planned : tree.file[p] # baseline.planned[p]}
PlanSemanticChanged == tree.sem # baseline.sem
HeadStable == head = baseline.base

\* inspect()["pass"]
Stable == /\ baseline # None
          /\ AmbientStable
          /\ UnexpectedDirty = {}
          /\ ~PlanSemanticChanged
          /\ HeadStable

RefreshAllowedOnScope == ScopeChanged = {}  \* mutant: only the planned files are looked at

\* A refresh is refused once anything happened under the baseline it replaces.
RefreshAllowed == /\ ScopeChanged = {}
                  /\ AmbientStable
                  /\ UnexpectedDirty = {}
                  /\ HeadStable

\* What is dirty must belong neither to the Plan nor to the tooling that
\* judges it.
ConflictsInTooling == DirtyPaths \cap Tooling  \* mutant: a dirty target is taken over
Conflicts == DirtyPaths \cap (Planned \cup Tooling)

\* workspace.py init [--refresh]: freeze HEAD, the planned files and what is
\* already dirty elsewhere. Without --refresh an existing baseline is kept.
WorkspaceInit ==
    /\ baseline # None => RefreshAllowed
    /\ Conflicts = {}
    /\ baseline' = [base |-> head,
                    planned |-> [p \in Planned |-> tree.file[p]],
                    ambient |-> Snapshot(DirtyPaths \ Planned),
                    sem |-> tree.sem]
    /\ UNCHANGED <<commits, head, tree, moves>>

----------------------------------------------------------------------------
(* What the person and git do *)

Move == moves < MaxMoves /\ moves' = moves + 1

Edit(p, v) == /\ Move /\ tree.file[p] # v
              /\ tree' = [tree EXCEPT !.file[p] = v]
              /\ UNCHANGED <<commits, head, baseline>>

\* The Plan Author changes the Plan's meaning.
RevisePlan(r) == /\ Move /\ tree.sem # r
                 /\ tree' = [tree EXCEPT !.sem = r]
                 /\ UNCHANGED <<commits, head, baseline>>

\* What may go into a commit: whatever differs from HEAD.
Committable == DirtyPaths \cup (IF PlanDirty THEN {"plan"} ELSE {})
                          \cup (IF tree.manifest # HeadTree.manifest THEN {"manifest"} ELSE {})

\* The tree of a commit that takes S from the working tree.
TreeWith(S) ==
    [file |-> [p \in Paths |-> IF p \in S THEN tree.file[p] ELSE HeadTree.file[p]],
     sem  |-> IF "plan" \in S THEN tree.sem ELSE HeadTree.sem,
     done |-> IF "plan" \in S THEN tree.done ELSE HeadTree.done,
     manifest |-> IF "manifest" \in S THEN tree.manifest ELSE HeadTree.manifest]

Commit(S) ==
    /\ Move
    /\ S # {} /\ S \subseteq Committable
    /\ Len(commits) < MaxCommits
    /\ commits' = Append(commits, [tree |-> TreeWith(S), parent |-> head, paths |-> S,
                                   history |-> commits[head].history \cup {Len(commits) + 1}])
    /\ head' = Len(commits) + 1
    /\ UNCHANGED <<tree, baseline>>

\* git reset --soft HEAD~1
TakeBack == /\ Move
            /\ commits[head].parent # 0
            /\ head' = commits[head].parent
            /\ UNCHANGED <<commits, tree, baseline>>

----------------------------------------------------------------------------
InitialTree(f) == [file |-> f, sem |-> 0, done |-> {}, manifest |-> None]

\* A clean or a dirty checkout; planned and other files alike.
WsInit ==
    /\ \E f \in [Paths -> Versions] : tree = InitialTree(f)
    /\ commits = <<[tree |-> InitialTree([p \in Paths |-> 0]), parent |-> 0,
                    paths |-> {}, history |-> {1}]>>
    /\ head = 1
    /\ baseline = None
    /\ moves = 0

Objects == [tree : Trees, parent : 0..MaxCommits,
            paths : SUBSET (Paths \cup {"plan", "manifest"}),
            history : SUBSET (1..MaxCommits)]

WsTypeOK ==
    /\ commits \in Seq(Objects) /\ Len(commits) \in 1..MaxCommits
    /\ \A i \in 1..Len(commits) : commits[i].parent < i
    /\ head \in 1..Len(commits)
    /\ tree \in Trees
    /\ baseline \in Baselines \cup {None}
    /\ moves \in 0..MaxMoves
=============================================================================
