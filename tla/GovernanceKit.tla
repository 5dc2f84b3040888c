--------------------------- MODULE GovernanceKit ---------------------------
(***************************************************************************)
(* The governance kit: built and published by tag, fetched through a cache, *)
(* synchronised into a repository, checked against it, and validated there  *)
(* by the repository's own CI (governance_kit.py, release_governance_kit.py, *)
(* governance_sync.py, validate_local_governance.py).                       *)
(*                                                                         *)
(* A kit is what its manifest says: version, commit and the content of its  *)
(* files; a commit is known by the content it has.  Kit files that are      *)
(* treated alike are one, contracts go with the work package.  One operator *)
(* at a time works on the repository and gives the same flags every time;   *)
(* who builds, tags and edits does so at any moment.                        *)
(***************************************************************************)
EXTENDS Naturals, Sequences

CONSTANTS
    Versions,     \* 1..n: versions of the kit
    Sources,      \* contents of the central tree
    Revisions,    \* 1..n: source revisions of the work package
    Nowhere, Broken,
    MaxTroubles   \* bound: edits, moved tags, builds, upgrades, revisions, kills

KitFiles == {"skill", "workflow"}
Steps == <<"binding", "manifest", "skill", "workflow", "work package", "receipt", "lock">>

VARIABLES
    wanted,    \* the version skills/manifest.yaml names
    source,    \* content of the central working tree
    tags,      \* the commit of each annotated tag, or Nowhere
    released,  \* the commit each release was built of, or Nowhere
    dist,      \* dist/<tag>: a kit, Broken or Nowhere
    cache,     \* .cache/governance-kits/<tag>: a kit, Broken or Nowhere
    revision,  \* the work package's source revision
    contract,  \* the contract release it pins is registered
    flags,     \* --with-ci and --allow-source-tree of the operator
    file,      \* the kit's files in the repository: a content or Nowhere
    binding, manifest, packet, receipt, lock, \* the repository's records
    syncing,   \* the sync that is under way, or Nowhere
    verdict,   \* what the operator was told last
    troubles

central == <<wanted, source, tags, released, dist, revision, contract>>
repository == <<file, binding, manifest, packet, receipt, lock>>
kitVars == <<central, cache, flags, repository, syncing, verdict, troubles>>

\* build_kit hashes the working tree; the commit is what its caller says.
KitOf(version, commit, content, place) ==
    [version |-> version, commit |-> commit, content |-> content, place |-> place]

----------------------------------------------------------------------------
(* Finding a kit *)

\* fetch_release_bundle: a release counts while its tag is where it was built.
Published(v) == released[v] # Nowhere /\ tags[v] = released[v]

\* A cached kit that is torn, or whose tag has moved, is thrown away.
Fetched == KitOf(wanted, released[wanted], released[wanted], "cache")

\* resolve_kit: a kit in dist is taken as it is or refused; its commit is not
\* compared with the tag.
Resolved ==
    CASE dist[wanted] = Broken -> Nowhere
      [] dist[wanted] \notin {Broken, Nowhere} -> dist[wanted]
      [] dist[wanted] = Nowhere /\ Published(wanted) -> Fetched
      [] OTHER -> IF flags.development THEN KitOf(wanted, source, source, "source tree") ELSE Nowhere

Looks == dist[wanted] = Nowhere
CacheAfter ==
    IF Looks THEN [cache EXCEPT ![wanted] = IF Published(wanted) THEN Fetched ELSE Nowhere] ELSE cache

----------------------------------------------------------------------------
(* governance_sync.py --check *)

Installs(f) == f = "workflow" => flags.ci
LockOf(kit) == [kit |-> kit, revision |-> revision]

CheckPassesLock(kit) == lock = LockOf(kit) \* mutant: only the lock is compared

CheckPasses(kit) ==
    /\ lock = LockOf(kit) /\ binding = LockOf(kit)
    /\ manifest = kit
    /\ \A f \in KitFiles : Installs(f) => file[f] = kit.content
    /\ packet = revision

\* A lock that cannot be parsed makes it raise.
Check ==
    /\ syncing = Nowhere
    /\ verdict' = CASE Resolved = Nowhere -> "unavailable"
                    [] Resolved # Nowhere /\ lock = Broken -> "raised"
                    [] Resolved # Nowhere /\ lock # Broken /\ CheckPasses(Resolved) -> "ok"
                    [] OTHER -> "out of sync"
    /\ cache' = CacheAfter
    /\ UNCHANGED <<central, flags, repository, syncing, troubles>>

----------------------------------------------------------------------------
(* governance_sync.py --apply *)

StartSyncAfter(told) ==
    /\ syncing = Nowhere /\ verdict = told
    /\ Resolved # Nowhere
    /\ syncing' = [kit |-> Resolved, revision |-> revision, step |-> 1]
    /\ cache' = CacheAfter
    /\ UNCHANGED <<central, flags, repository, verdict, troubles>>

\* What check advises, and what an operator may try when it raised.
StartSync == StartSyncAfter("out of sync")
TrySync == StartSyncAfter("raised")

\* The directory the run copies from may have been built again since.
Present == IF syncing.kit.place = "dist" THEN dist[syncing.kit.version] ELSE syncing.kit
Copies(s) == s \in {"manifest"} \cup KitFiles

\* A missing file, or a contract pin without a release, ends the run.
Fails(s) ==
    \/ Copies(s) /\ Present \in {Broken, Nowhere}
    \/ s = "receipt" /\ receipt = Nowhere /\ ~contract

\* Files are written in place, whole or, by a run that is killed, in part.
Written(content, cut) == IF cut THEN Broken ELSE content

SyncStep(s, cut) ==
    /\ ~Fails(s)
    /\ LET pin == Written([kit |-> syncing.kit, revision |-> syncing.revision], cut)
       IN  /\ binding' = IF s = "binding" THEN pin ELSE binding
           /\ lock' = IF s = "lock" THEN pin ELSE lock
    /\ manifest' = IF s = "manifest" THEN Written(Present, cut) ELSE manifest
    /\ file' = IF s \in KitFiles /\ Installs(s)
               THEN [file EXCEPT ![s] = Written(Present.content, cut)] ELSE file
    /\ packet' = IF s = "work package" THEN Written(revision, cut) ELSE packet
    /\ receipt' = IF s = "receipt" /\ receipt = Nowhere THEN Written(syncing.revision, cut) ELSE receipt

Stops == syncing' = Nowhere /\ verdict' = "none"

Sync ==
    /\ syncing # Nowhere
    /\ LET s == Steps[syncing.step]
       IN  \/ Fails(s) /\ UNCHANGED repository /\ Stops
           \/ /\ SyncStep(s, FALSE)
              /\ IF s = "lock" THEN Stops
                 ELSE syncing' = [syncing EXCEPT !.step = @ + 1] /\ UNCHANGED verdict
    /\ UNCHANGED <<central, cache, flags, troubles>>

----------------------------------------------------------------------------
(* validate_local_governance.py, in the repository's CI *)

\* It wants every file of the manifest, the workflows too.
LocalGovernanceValid ==
    /\ binding \notin {Nowhere, Broken} /\ manifest = binding.kit
    /\ \A f \in KitFiles : file[f] = manifest.content
    /\ receipt # Nowhere => receipt = binding.revision

\* The delivery team reports against the revision it was given.
UpdateReceipt ==
    /\ receipt # Nowhere /\ binding \notin {Nowhere, Broken}
    /\ receipt # binding.revision /\ receipt' = binding.revision
    /\ UNCHANGED <<central, cache, flags, file, binding, manifest, packet, lock, syncing, verdict, troubles>>

----------------------------------------------------------------------------
(* Release *)

Outside == <<cache, flags, repository, syncing, verdict>>

PlaceTag(v) ==
    /\ tags[v] = Nowhere /\ v <= wanted
    /\ tags' = [tags EXCEPT ![v] = source]
    /\ UNCHANGED <<wanted, source, released, dist, revision, contract, Outside, troubles>>

\* The workflow builds from a checkout of the tag and never replaces a release.
Publish(v) ==
    /\ tags[v] # Nowhere /\ released[v] = Nowhere
    /\ released' = [released EXCEPT ![v] = tags[v]]
    /\ UNCHANGED <<wanted, source, tags, dist, revision, contract, Outside, troubles>>

RestoreTag(v) ==
    /\ released[v] # Nowhere /\ tags[v] # released[v]
    /\ tags' = [tags EXCEPT ![v] = released[v]]
    /\ UNCHANGED <<wanted, source, released, dist, revision, contract, Outside, troubles>>

\* build_kit empties dist first; whoever finds it torn builds again.
FinishBuild(v) ==
    /\ dist[v] = Broken
    /\ dist' = [dist EXCEPT ![v] = KitOf(v, tags[v], source, "dist")]
    /\ UNCHANGED <<wanted, source, tags, released, revision, contract, Outside, troubles>>

RegisterRelease ==
    /\ ~contract /\ contract' = TRUE
    /\ UNCHANGED <<wanted, source, tags, released, dist, revision, Outside, troubles>>

----------------------------------------------------------------------------
(* Troubles *)

Trouble == troubles < MaxTroubles /\ troubles' = troubles + 1

StartBuild(v) ==
    /\ tags[v] # Nowhere
    /\ dist' = [dist EXCEPT ![v] = Broken]
    /\ UNCHANGED <<wanted, source, tags, released, revision, contract, Outside>>

EditSource(x) ==
    /\ source' = x
    /\ UNCHANGED <<wanted, tags, released, dist, revision, contract, Outside>>

MoveTag(v, x) ==
    /\ tags[v] # Nowhere /\ tags' = [tags EXCEPT ![v] = x]
    /\ UNCHANGED <<wanted, source, released, dist, revision, contract, Outside>>

Upgrade ==
    /\ wanted + 1 \in Versions /\ wanted' = wanted + 1
    /\ UNCHANGED <<source, tags, released, dist, revision, contract, Outside>>

Revise ==
    /\ revision + 1 \in Revisions /\ revision' = revision + 1
    /\ UNCHANGED <<wanted, source, tags, released, dist, contract, Outside>>

EditInstalled(f, x) ==
    /\ file' = [file EXCEPT ![f] = x]
    /\ UNCHANGED <<central, cache, flags, binding, manifest, packet, receipt, lock, syncing, verdict>>

\* Between two writes or in the middle of one.
KillSync ==
    /\ syncing # Nowhere /\ Stops
    /\ UNCHANGED repository \/ SyncStep(Steps[syncing.step], TRUE)
    /\ UNCHANGED <<central, cache, flags>>

\* copytree into the cache is not atomic.
KillFetch ==
    /\ syncing = Nowhere /\ Looks /\ Published(wanted)
    /\ cache' = [cache EXCEPT ![wanted] = Broken]
    /\ UNCHANGED <<central, flags, repository, syncing, verdict>>

KitInit ==
    /\ wanted = 1 /\ source \in Sources
    /\ tags = [v \in Versions |-> Nowhere] /\ released = tags /\ dist = tags /\ cache = tags
    /\ revision = 1 /\ contract \in BOOLEAN /\ flags \in [ci : BOOLEAN, development : BOOLEAN]
    /\ file = [f \in KitFiles |-> Nowhere]
    /\ binding = Nowhere /\ manifest = Nowhere /\ packet = Nowhere /\ receipt = Nowhere /\ lock = Nowhere
    /\ syncing = Nowhere /\ verdict = "none" /\ troubles = 0

Proceeds == \/ UpdateReceipt \/ RegisterRelease
            \/ \E v \in Versions : PlaceTag(v) \/ Publish(v) \/ RestoreTag(v) \/ FinishBuild(v)

Disturbs ==
    /\ Trouble
    /\ \/ \E v \in Versions : StartBuild(v) \/ \E x \in Sources : MoveTag(v, x)
       \/ \E x \in Sources : EditSource(x)
       \/ Upgrade \/ Revise \/ KillSync \/ KillFetch
       \/ \E f \in KitFiles, x \in Sources \cup {Nowhere} : EditInstalled(f, x)

KitNext == Check \/ StartSync \/ TrySync \/ Sync \/ Proceeds \/ Disturbs

----------------------------------------------------------------------------
\* "OUT_OF_SYNC is drift that can be repaired": a repository in which check
\* and sync are repeated, and whose team, release and contract people answer
\* the errors they see, comes to hold exactly the kit that is wanted, as check
\* and, if it has the workflows, its own CI find, although builds, tags, kit
\* files and revisions change under a running sync and runs are killed between
\* and inside their writes, unless a lock stays torn: check then raises and
\* advises nothing (governance_sync.py, validate_installed_kit).
RepositorySettles ==
    <>[](lock # Broken) =>
    <>[](/\ verdict = "ok"
         /\ Resolved # Nowhere /\ file["skill"] = Resolved.content /\ lock = LockOf(Resolved)
         /\ flags.ci => LocalGovernanceValid)
=============================================================================
