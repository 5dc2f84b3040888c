-------------------------- MODULE MCTodoExecution --------------------------
(* One todo: a bug in one revision of the Plan, a sensitive touch in the    *)
(* other.  Two stages: its ledgers, while the governance profile stays as   *)
(* it is, and the profile, of a Plan that nobody revises and no bug is in.  *)
EXTENDS TodoExecution, TLC

CONSTANTS t1, x, y, bugfix, touch

VARIABLE stage

stagedVars == <<stage, vars>>

Behavior == [hard |-> FALSE, bug |-> FALSE, sensitive |-> FALSE,
             mechanical |-> FALSE, behavior |-> TRUE, noTdd |-> FALSE]

MCText == [r \in {bugfix, touch} |->
             [t \in {t1} |-> IF r = bugfix THEN [Behavior EXCEPT !.bug = TRUE]
                             ELSE [Behavior EXCEPT !.sensitive = TRUE]]]

\* A profile that asks for less, with the debugging a bug needs.
MCControls == {NoOverride, [NoOverride EXCEPT !.profile = "BOUNDED_BEHAVIOR", !.debug = "REQUIRED"]}

\* Contents are only compared.
MCSymmetry == Permutations({x, y})

MCInit == Init /\ stage \in {"ledgers", "profile"} /\ (stage = "profile" => revision = touch)

Staged ==
    /\ Next
    /\ UNCHANGED stage
    /\ stage = "ledgers" => UNCHANGED <<profile, window>>
    /\ stage = "profile" => UNCHANGED <<revision, debug>>

MCSpec == MCInit /\ [][Staged]_stagedVars
=============================================================================
