----------------------- MODULE MCRepositoryGovernance -----------------------
(***************************************************************************)
(* Instances of RepositoryGovernance.  One run has two repositories, which *)
(* meet in the job: the audit check of one decides about the push of both. *)
(* The run of the outage has one, because one is enough to stop the job.   *)
(***************************************************************************)
EXTENDS RepositoryGovernance

\* Every walk reconcile_project_status.py may start has a legal path, so its
\* exit "no legal governance transition" is never taken.
ASSUME WalksHavePaths ==
  \A s \in GovernanceState \ {"RETIRED"}, t \in {"REGISTERED", "SYNCED", "OUT_OF_SYNC"} :
    HasPath(RepositoryNext, s, t)

\* The search of the reconcilers as they write it, from level to level, arrives at
\* what Visited says, in each of the graphs.
Search(graph, s) ==
  LET size == Cardinality(StatesOf(graph))
      Within[n \in 0 .. size] ==
        IF n = 0 THEN {s}
        ELSE Within[n - 1] \cup UNION {Successors(graph, x) : x \in Within[n - 1]}
  IN  Within[size]

ASSUME SearchFindsVisited ==
  \A graph \in {ContractNext, FeatureNext, WorkPackageNext, IntegrationNext, RoadmapItemNext} :
    \A s \in StatesOf(graph) : Search(graph, s) = Visited(graph, s)
ASSUME SearchFindsVisitedRepositories ==
  \A s \in GovernanceState : Search(RepositoryNext, s) = Visited(RepositoryNext, s)

=============================================================================
