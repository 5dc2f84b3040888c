---------------------------- MODULE DeliveryRun ----------------------------
(***************************************************************************)
(* The delivery state machine of a Plan (delivery_state.py) over the        *)
(* workspace, the records and the commit guard of PlanDelivery.  The state  *)
(* file moves one state at a time and survives any number of blocks; apart  *)
(* from the baseline no transition looks at the record its state is named   *)
(* for, and only set-commit asks for the guard.                             *)
(***************************************************************************)
EXTENDS PlanDelivery

CONSTANT BLOCKED  \* the states a delivery can be blocked in

STATES == <<"PLAN_CREATED", "PLAN_STATIC_VALID", "PLAN_REVIEW_CLEARED", "IMPLEMENTING",
            "IMPLEMENTATION_COMPLETE", "COMPLETION_AUDIT_PASS", "IMPLEMENTATION_REVIEW_PASS",
            "VERIFICATION_PASS", "IMPLEMENTED_AND_PROVEN", "IMPLEMENTATION_COMMITTED",
            "ROADMAP_DONE">>
Index(s) == CHOOSE i \in 1..Len(STATES) : STATES[i] = s
StateSet == {STATES[i] : i \in 1..Len(STATES)}

ASSUME BlockedAssumption == BLOCKED # {} /\ BLOCKED \cap StateSet = {}

VARIABLE run   \* the delivery state file

runVars == <<vars, run>>

\* transition --to a blocked state: the last valid state stays remembered.
Block(s) == /\ run' = [run EXCEPT !.state = s]
            /\ UNCHANGED vars

AdvanceOrRegress(s) == \* mutant: nothing forbids to fall back
                       /\ Index(s) <= Index(run.last) + 1
                       /\ run' = [run EXCEPT !.state = s, !.last = s]
                       /\ UNCHANGED vars
\* transition --to a state: the last valid one again, or the next.
Advance(s) ==
    /\ Index(s) \in {Index(run.last), Index(run.last) + 1}
    /\ s = "IMPLEMENTING" => baseline # None
    /\ run' = [run EXCEPT !.state = s, !.last = s]
    /\ UNCHANGED vars

\* set-commit: any commit the guard was verified for, whatever its kind.
SetCommit(c) ==
    /\ run.state = "IMPLEMENTED_AND_PROVEN"
    /\ guard # None /\ guard.verified = c
    /\ run' = [state |-> "IMPLEMENTATION_COMMITTED", last |-> "IMPLEMENTATION_COMMITTED",
               commit |-> c]
    /\ UNCHANGED vars

RunInit == Init /\ run = [state |-> "PLAN_CREATED", last |-> "PLAN_CREATED", commit |-> None]

RunNext == \/ Next /\ UNCHANGED run
           \/ \E s \in BLOCKED : Block(s)
           \/ \E s \in StateSet : Advance(s)
           \/ \E c \in 1..Len(commits) : SetCommit(c)

RunSpec == RunInit /\ [][RunNext]_runVars

----------------------------------------------------------------------------
RunTypeOK ==
    run \in [state : StateSet \cup BLOCKED, last : StateSet,
             commit : 1..MaxCommits \cup {None}]

\* However often a delivery is blocked and resumed, what it had reached is
\* never lost, and it never resumes more than one state further.
ProgressKept ==
    [][/\ Index(run'.last) \in {Index(run.last), Index(run.last) + 1}
       /\ run'.state \in StateSet => run'.state = run'.last]_runVars

\* An implementation is under way or done only under a frozen baseline, and
\* a delivery that names its commit has not fallen back behind it.
CommitOnBaseline ==
    /\ Index(run.last) >= Index("IMPLEMENTING") => baseline # None
    /\ run.commit # None => /\ run.commit \in 1..Len(commits)
                            /\ Index(run.last) >= Index("IMPLEMENTATION_COMMITTED")
=============================================================================
