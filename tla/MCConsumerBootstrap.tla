------------------------ MODULE MCConsumerBootstrap ------------------------
(***************************************************************************)
(* What central keeps up to date in other repositories, as three stages: the *)
(* bootstrap of a consumer with its frontend context, the installer's layer  *)
(* of a consumer, which nothing but the validation looks at, and the         *)
(* governance kit of a governed repository.  They know nothing of each       *)
(* other: a behaviour is one of them.                                        *)
(***************************************************************************)
EXTENDS ConsumerBootstrap, GovernanceKit

VARIABLE stage

consumerVars == <<stage, allVars, kitVars>>

\* The applications are alike; at first a consumer has both only beside files of its own.
MCInit ==
    /\ stage \in {"bootstrap", "installer", "kit"}
    /\ BootInit /\ ("desk" \in present => "web" \in present /\ \A p \in Local : local[p] = "own")
    /\ (stage # "bootstrap" => present = {} /\ \A p \in Local : local[p] = "-")
    /\ KitInit /\ (stage # "kit" => source = 1 /\ ~contract /\ ~flags.ci /\ ~flags.development)

Bootstrapping(A) == stage # "kit" /\ A /\ UNCHANGED <<stage, kitVars>>
Governing(A) == stage = "kit" /\ A /\ UNCHANGED <<stage, allVars>>

\* Where people damage the layer, they leave the rest alone.
MCNext ==
    \/ Bootstrapping(stage = "bootstrap" /\ FilesNext)
    \/ Bootstrapping(stage = "installer" /\ ProductNext)
    \/ Bootstrapping(stage = "installer" /\ FilesNext /\ edits' = edits /\ runs' = runs)
    \/ Governing(KitNext)

\* Processes that are not killed go on, operators follow the advice they get,
\* and so do those who release kits and contracts and report deliveries.
MCSpec ==
    /\ MCInit /\ [][MCNext]_consumerVars
    /\ WF_consumerVars(Bootstrapping(Step /\ UNCHANGED <<local, product, plan>>))
    /\ WF_consumerVars(Bootstrapping(BootStep)) /\ WF_consumerVars(Bootstrapping(Bootstrap))
    /\ WF_consumerVars(Bootstrapping(Reinstall)) /\ WF_consumerVars(Bootstrapping(FrontendAudit))
    /\ WF_consumerVars(Governing(Check)) /\ WF_consumerVars(Governing(StartSync))
    /\ WF_consumerVars(Governing(Sync)) /\ WF_consumerVars(Governing(Proceeds))

\* Following the advice of the tools comes to an end in either stage
\* (validate_consumer.py, governance_sync.py).
AdviceConverges ==
    /\ stage # "kit" => Converges
    /\ stage = "kit" => RepositorySettles
=============================================================================
