--------------------------- MODULE MCPlanDelivery ---------------------------
(***************************************************************************)
(* What the delivery of a Plan rests on, as three stages: the records of    *)
(* its gates over one working copy, the claims that live environments       *)
(* prove, the cost of the model calls.  A behaviour is one stage: the        *)
(* scripts share no state beyond the fingerprints each stage has of its own. *)
(*                                                                         *)
(* Two prepared calls and one call reported from outside.  "x" is a context *)
(* only the FULL budget has room for, "none" an empty one.                  *)
(***************************************************************************)
EXTENDS PlanDelivery, ModelDispatch, Acceptance, TLC

CONSTANTS x, none

VARIABLE stage

recordsVars == <<stage, vars, dispatchVars, acceptanceVars>>

MCSymmetry == Permutations(Calls)
MCLoad == [s \in {x, none} |-> IF s = x THEN 2 ELSE 0]
MCLimit == [NONE |-> 0, LEAN |-> 1, FULL |-> 2]
MCTags == {{}, {"IMPLEMENTATION"}}

\* Plans with one claim and one verification: new evidence and a targeted rerun
\* in a live environment, one that only declares its candidate, reuse, a command on
\* the worktree, a claim nothing depends on.
Draft(action, mode, blocking, candidateMode) ==
    [required |-> {"R"},
     claim |-> [c \in Claims |->
        [requirement |-> "R", blocking |-> blocking, action |-> action, checks |-> VerificationIds,
         prior |-> IF action = "REUSE_EVIDENCE" THEN "PASS" ELSE "UNKNOWN",
         source |-> action = "REUSE_EVIDENCE", reason |-> action = "TARGETED_RERUN"]],
     verification |-> [v \in VerificationIds |->
        [claims |-> Claims, mode |-> mode, action |-> action, blocking |-> TRUE,
         bound |-> mode = "LIVE", candidateMode |-> candidateMode]]]
MCDrafts == {Draft("NEW_EVIDENCE", "LIVE", TRUE, "PROBED"),
             Draft("TARGETED_RERUN", "LIVE", TRUE, "LOCAL_WORKTREE"),
             Draft("NEW_EVIDENCE", "LIVE", TRUE, "DECLARED"),
             Draft("REUSE_EVIDENCE", "LIVE", TRUE, "PROBED"),
             Draft("NEW_EVIDENCE", "LOCAL", TRUE, "LOCAL_WORKTREE"),
             Draft("NEW_EVIDENCE", "LOCAL", FALSE, "LOCAL_WORKTREE")}

MCInit ==
    /\ stage \in {"records", "calls", "claims"}
    /\ Init /\ (stage # "records" => \A p \in Paths : tree.file[p] = 0)
    /\ DispatchInit
    /\ AcceptanceInit
    /\ stage # "claims" => plan = Draft("NEW_EVIDENCE", "LIVE", TRUE, "PROBED") /\ files = 1 /\ sut = Nil /\ ~durable

Recording == stage = "records" /\ Next /\ UNCHANGED <<stage, dispatchVars, acceptanceVars>>
\* Receipts are read only of a contract that is declared, and it stays declared.
Calling ==
    /\ stage = "calls" /\ DispatchNext /\ UNCHANGED <<stage, vars, acceptanceVars>>
    /\ receipts' # receipts => declared
Claiming == stage = "claims" /\ AcceptanceNext /\ UNCHANGED <<stage, vars, dispatchVars>>

MCSpec == MCInit /\ [][Recording \/ Calling \/ Claiming]_recordsVars
=============================================================================
