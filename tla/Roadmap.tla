------------------------------ MODULE Roadmap ------------------------------
(***************************************************************************)
(* The roadmap: a table with a row for each item, checked as a whole        *)
(* (validate_roadmap_v11.py) and changed one row at a time                  *)
(* (roadmap_update.py).  An update writes the new table first, validates    *)
(* the file afterwards and puts the old text back when it fails: a process  *)
(* killed in between leaves whatever it had written.                        *)
(*                                                                         *)
(* A document is named by the item it was made for.  Deliveries commit a    *)
(* Plan's evidence manifest; a later commit still holds the earlier ones.   *)
(* One update runs at a time, and a file is written in one step.            *)
(***************************************************************************)
EXTENDS Naturals, Sequences, FiniteSets

CONSTANTS
    Items,
    Statuses,        \* the statuses in use
    Attempted,       \* those that somebody tries to write although the item is not there yet
    Schemas,         \* of the manifests that deliveries commit
    RequireEvidenceScheme,     \* the roadmap's version asks for evidence of a known scheme
    MaxTries, MaxDisturbances  \* bounds

STATUS_RANK == [s \in {"BLOCKED", "SUPERSEDED", "BACKLOG", "READY", "IN_PRD", "PLANNED", "IMPLEMENTING",
                       "REVIEW", "DONE"} |->
    CASE s \in {"BLOCKED", "SUPERSEDED", "BACKLOG"} -> 0 [] s = "READY" -> 1 [] s = "IN_PRD" -> 2
      [] s \in {"PLANNED", "IMPLEMENTING", "REVIEW"} -> 3 [] s = "DONE" -> 4]
Empty == "-"
References == {Empty, "text", "artifact"} \cup Items  \* an item: smc-evidence of its Plan

ASSUME RoadmapAssumption ==
    /\ IsFiniteSet(Items) /\ Items \cap {Empty, "text", "artifact"} = {}
    /\ {"BACKLOG", "DONE"} \subseteq Statuses /\ Statuses \subseteq DOMAIN STATUS_RANK
    /\ Attempted \subseteq Statuses
    /\ Schemas \subseteq {"v1", "v2", "v3"} /\ RequireEvidenceScheme \in BOOLEAN
    /\ MaxTries \in Nat /\ MaxDisturbances \in Nat

VARIABLES
    rows,      \* the table in the file
    undo,      \* the table an update under way would put back, or none
    log,       \* the implementation commits: Plan and schema of its manifest
    filed,     \* the Plans that are where the roadmap says
    tries, disturbances

roadmapVars == <<rows, undo, log, filed, tries, disturbances>>

NoUndo == [i \in {} |-> Empty]
Row(status, needs, prd, plan, commit, evidence) ==
    [status |-> status, needs |-> needs, prd |-> prd, plan |-> plan, commit |-> commit,
     evidence |-> evidence]

RoadmapInit ==
    /\ rows \in [Items -> {Row("BACKLOG", S, Empty, Empty, Empty, Empty) : S \in SUBSET Items}]
    /\ \A S \in SUBSET Items \ {{}} : \E i \in S : rows[i].needs \cap S = {}
    /\ undo = NoUndo /\ log = <<>> /\ filed = Items
    /\ tries = 0 /\ disturbances = 0

----------------------------------------------------------------------------
(* validate *)

\* git show <commit>:<manifest>: the commit of a Plan holds its manifest and the earlier ones.
Holds(commit, plan) ==
    \E c, d \in DOMAIN log : log[c].plan = commit /\ log[d].plan = plan /\ d <= c
Committed(plan) == \E c \in DOMAIN log : log[c].plan = plan
SchemaOf(plan) == log[CHOOSE d \in DOMAIN log : log[d].plan = plan].schema

FingerprintFitsOld(schema) == schema = "v1"  \* mutant: the key of the first schema, for all of them

\* validate_manifest_bytes: only of schema v2 the scope fingerprint is read, of
\* the others the working tree fingerprint, which v3 does not have.
FingerprintFits(schema) == schema \in {"v1", "v2"}

EvidenceFits(r) ==
    CASE r.evidence \in Items ->
            /\ r.plan \in filed /\ r.plan = r.evidence
            /\ Holds(r.commit, r.evidence) /\ FingerprintFits(SchemaOf(r.evidence))
      [] r.evidence = "artifact" -> TRUE
      [] r.evidence = "text" -> ~RequireEvidenceScheme
      [] OTHER -> FALSE

RowValid(r) ==
    /\ STATUS_RANK[r.status] >= 2 => r.prd # Empty
    /\ STATUS_RANK[r.status] >= 3 => r.plan # Empty
    /\ r.status = "DONE" => Committed(r.commit) /\ EvidenceFits(r)

Acyclic(t) == \A S \in SUBSET Items \ {{}} : \E i \in S : t[i].needs \cap S = {}

Valid(t) ==
    /\ \A i \in Items : RowValid(t[i])
    /\ \A i, j \in Items : i # j =>
          /\ t[i].prd # Empty => t[i].prd # t[j].prd
          /\ t[i].plan # Empty => t[i].plan # t[j].plan
    /\ \A i \in Items : t[i].status = "READY" => \A j \in t[i].needs : t[j].status = "DONE"
    /\ Acyclic(t)

----------------------------------------------------------------------------
(* roadmap_update *)

\* A status with the argument for the PRD, for the Plan, or those for the
\* delivery; a column whose argument is not given stays.
Updates(i, statuses, documents, deliveries) ==
    LET To(s) == [rows[i] EXCEPT !.status = s]
    IN  UNION {{[To(s) EXCEPT !.prd = p] : p \in documents}
               \cup {[To(s) EXCEPT !.plan = p] : p \in documents}
               \cup {[To(s) EXCEPT !.commit = d[1], !.evidence = d[2]] : d \in deliveries}
               : s \in statuses}

Write(i, r) ==
    /\ undo = NoUndo
    /\ undo' = rows /\ rows' = [rows EXCEPT ![i] = r]
    /\ UNCHANGED <<log, filed, disturbances>>

JudgeKeepsRejected ==  \* mutant: a rejected update is reported and stays in the file
    /\ undo # NoUndo /\ undo' = NoUndo
    /\ UNCHANGED <<rows, log, filed, tries, disturbances>>

\* The rest of main: the file is validated, and rewritten when it fails.
Judge ==
    /\ undo # NoUndo /\ undo' = NoUndo
    /\ rows' = IF Valid(rows) THEN rows ELSE undo
    /\ UNCHANGED <<log, filed, tries, disturbances>>

\* Somebody tries an update with another item's documents, or with none; most
\* of these are rejected.
Try(i) ==
    /\ tries < MaxTries /\ tries' = tries + 1
    /\ \E r \in Updates(i, Attempted, (Items \ {i}) \cup {Empty}, (Items \ {i}) \X (References \ {"artifact"})) :
          r # rows[i] /\ Write(i, r)

\* The operator brings an item a step forward, with the argument that the new
\* status asks for, or repairs its row.
Step(i, s) ==
    LET to == [rows[i] EXCEPT !.status = s]
    IN  CASE STATUS_RANK[s] = 1 -> {to}
          [] STATUS_RANK[s] = 2 -> {[to EXCEPT !.prd = p] : p \in Items}
          [] STATUS_RANK[s] = 3 -> {[to EXCEPT !.plan = p] : p \in Items}
          [] OTHER -> {[to EXCEPT !.commit = rows[i].plan, !.evidence = e] : e \in {rows[i].plan, "artifact"}}
Proceed(i) ==
    /\ \E r \in IF Valid(rows)
               THEN UNION {Step(i, s) : s \in {t \in Statuses : STATUS_RANK[t] = STATUS_RANK[rows[i].status] + 1}}
               ELSE Updates(i, {rows[i].status, "BACKLOG"}, Items, {<<rows[i].plan, "artifact">>}) :
          /\ Valid([rows EXCEPT ![i] = r])
          /\ Write(i, r)
    /\ UNCHANGED tries

----------------------------------------------------------------------------
(* Deliveries, kills and people *)

\* A Plan that is in the roadmap is delivered: its FINAL commit has a manifest.
Deliver(plan, schema) ==
    /\ undo = NoUndo
    /\ \E i \in Items : rows[i].plan = plan /\ STATUS_RANK[rows[i].status] = 3
    /\ ~Committed(plan) /\ plan \in Items
    /\ log' = Append(log, [plan |-> plan, schema |-> schema])
    /\ UNCHANGED <<rows, undo, filed, tries, disturbances>>

Disturbs == disturbances < MaxDisturbances /\ disturbances' = disturbances + 1

Killed ==
    /\ undo # NoUndo /\ undo' = NoUndo /\ Disturbs
    /\ UNCHANGED <<rows, log, filed, tries>>

\* A Plan is moved or removed, or a dependency is added by hand.
Archive(plan) ==
    /\ undo = NoUndo /\ plan \in filed /\ filed' = filed \ {plan} /\ Disturbs
    /\ UNCHANGED <<rows, undo, log, tries>>
Depend(i, j) ==
    /\ undo = NoUndo /\ Disturbs /\ j \notin rows[i].needs
    /\ rows' = [rows EXCEPT ![i].needs = @ \cup {j}] /\ Acyclic(rows')
    /\ UNCHANGED <<undo, log, filed, tries>>

Proceeds == \E i \in Items : Proceed(i)
Delivers == \E p \in Items, s \in Schemas : Deliver(p, s)

RoadmapNext ==
    \/ \E i \in Items : Try(i)
    \/ Proceeds \/ Judge \/ Delivers
    \/ Killed
    \/ \E p \in Items : Archive(p)
    \/ \E i, j \in Items : Depend(i, j)

\* An update ends unless it is killed, Plans are delivered and the operator goes on.
RoadmapSpec ==
    /\ RoadmapInit /\ [][RoadmapNext]_roadmapVars
    /\ WF_roadmapVars(Judge) /\ WF_roadmapVars(Delivers) /\ WF_roadmapVars(Proceeds)

----------------------------------------------------------------------------
(* Properties *)

\* Whatever updates were rejected, and although a kill, a moved Plan or a new
\* dependency has made the table invalid for every update, the operator can go on
\* row by row until all items are DONE (main of roadmap_update.py, validate).
RoadmapCompletes == <>[](\A i \in Items : rows[i].status = "DONE")

\* An item whose Plan has been delivered can be closed with the manifest that
\* the delivery committed (validate_manifest_bytes, build_manifest).
DeliveredItemsCanClose ==
    \A i \in Items :
        LET closed == [rows[i] EXCEPT !.status = "DONE", !.commit = rows[i].plan,
                                      !.evidence = rows[i].plan]
        IN  undo = NoUndo /\ Valid(rows) /\ rows[i].plan \in filed /\ Committed(rows[i].plan)
            /\ STATUS_RANK[rows[i].status] = 3
            => Valid([rows EXCEPT ![i] = closed])
=============================================================================
