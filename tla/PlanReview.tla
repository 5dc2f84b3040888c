----------------------------- MODULE PlanReview -----------------------------
(***************************************************************************)
(* The semantic review of a Plan (smc-plan-review).  assess_plan_review.py  *)
(* decides how deep the next review has to be, build_review_packet.py makes *)
(* its packet and counts the rounds, a reviewer records a verdict           *)
(* (review_record.py), and a PASS may be accepted as the text the next      *)
(* review is a difference to.                                               *)
(*                                                                          *)
(* A text stands for the semantic hash of a Plan: two texts differ when the *)
(* hashes do.  Of what it says the model keeps what the depth depends on.   *)
(***************************************************************************)
EXTENDS Naturals

CONSTANTS
    Texts,      \* the texts a Plan can have
    NoText,     \* no text: none was accepted yet
    FullCap, DeltaCap

TextSnapshots == {"ABSENT", "INVALID", "HIGH", "LOW"}
PlanTexts == [revision : Nat, profile : {"LEAN", "FULL"}, snapshot : TextSnapshots,
              contradicts : BOOLEAN,  \* the prose affirms, or leaves open, what the facts deny
              contract : {"acceptance", "v3.7", "legacy", "unknown"},
              cleared : BOOLEAN,      \* capability facts and ledger complete, nothing LIVE
              reentry : BOOLEAN]

ASSUME ReviewAssumption ==
    Texts \subseteq PlanTexts /\ NoText \notin Texts /\ FullCap \in Nat /\ DeltaCap \in Nat

VARIABLES
    text,     \* the Plan
    review,   \* the last review record of the Plan
    accepted, \* the snapshot of the last accepted text
    bound,    \* the snapshot belongs to the last review record
    loop,     \* loop-accounting.json
    packet    \* the review packet

reviewVars == <<text, review, accepted, bound, loop, packet>>

Verdicts == {"PASS", "REVISE", "RETURN_PRD"}
NoReview == [verdict |-> "MISSING", text |-> NoText]
NoPacket == [depth |-> "-", text |-> NoText, asked |-> "-", passed |-> FALSE, blocked |-> FALSE]

ReviewInit ==
    /\ text \in Texts /\ review = NoReview /\ accepted = NoText /\ bound = FALSE
    /\ loop = [full |-> 0, delta |-> 0, exceeded |-> FALSE] /\ packet = NoPacket

----------------------------------------------------------------------------
(* assess_plan_review.py *)

FreshPass == review.verdict = "PASS" /\ review.text = text
StalePass == review.verdict = "PASS" /\ review.text # text

RiskForcesFull == text.snapshot \in {"INVALID", "HIGH"} \/ text.contradicts

\* An absent snapshot is let pass for a Plan that was reviewed before.
FactsMissing ==
    text.contract \in {"acceptance", "v3.7"} /\ text.snapshot = "ABSENT" /\ ~StalePass

DepthForgetsRisk ==  \* mutant: a Plan that passed before is not looked at for new risk
    IF loop.exceeded THEN "FULL"
    ELSE IF review.verdict = "REVISE" THEN IF text.reentry \/ RiskForcesFull THEN "FULL" ELSE "DELTA"
    ELSE IF review.verdict = "RETURN_PRD" THEN "FULL"
    ELSE IF FreshPass THEN "NONE"
    ELSE IF StalePass THEN "DELTA"
    ELSE IF RiskForcesFull \/ FactsMissing THEN "FULL"
    ELSE IF text.contract = "acceptance" THEN IF text.profile = "LEAN" /\ text.cleared THEN "DELTA" ELSE "FULL"
    ELSE IF text.profile = "LEAN" \/ text.contract = "legacy" THEN "NONE" ELSE "FULL"

\* classify: the first rule that applies.
Depth ==
    IF loop.exceeded THEN "FULL"
    ELSE IF review.verdict = "REVISE" THEN IF text.reentry \/ RiskForcesFull THEN "FULL" ELSE "DELTA"
    ELSE IF review.verdict = "RETURN_PRD" THEN "FULL"
    ELSE IF FreshPass THEN "NONE"
    ELSE IF RiskForcesFull \/ FactsMissing THEN "FULL"
    ELSE IF StalePass THEN "DELTA"
    ELSE IF text.contract = "acceptance" THEN IF text.profile = "LEAN" /\ text.cleared THEN "DELTA" ELSE "FULL"
    ELSE IF text.profile = "LEAN" \/ text.contract = "legacy" THEN "NONE" ELSE "FULL"

----------------------------------------------------------------------------
(* build_review_packet.py *)

Deeper(d, e) == IF "FULL" \in {d, e} THEN "FULL" ELSE IF "DELTA" \in {d, e} THEN "DELTA" ELSE "NONE"

DeltaToAnySnapshot(requested) ==  \* mutant: any accepted snapshot will do
    LET d == Deeper(Depth, requested)
    IN  IF d = "DELTA" /\ (accepted = NoText \/ accepted = text) THEN "FULL" ELSE d

\* requested is at least that deep; AUTO asks for NONE.
\* A DELTA needs the accepted text of the last review, and a difference to it.
PacketDepth(requested) ==
    LET d == Deeper(Depth, requested)
    IN  IF d = "DELTA" /\ (~bound \/ accepted = text) THEN "FULL" ELSE d

\* record_review_round: nothing takes a round back, so once a cap is exceeded
\* every later round exceeds it as well.
Rounds(d) ==
    LET full == loop.full + (IF d = "FULL" THEN 1 ELSE 0)
        delta == loop.delta + (IF d = "DELTA" THEN 1 ELSE 0)
    IN  [full |-> IF full > FullCap THEN FullCap + 1 ELSE full,
         delta |-> IF delta > DeltaCap THEN DeltaCap + 1 ELSE delta,
         exceeded |-> full > FullCap \/ delta > DeltaCap]

Build(requested) ==
    LET d == PacketDepth(requested)
    IN  /\ loop' = IF d = "NONE" THEN loop ELSE Rounds(d)
        /\ packet' = [depth |-> d, text |-> text, asked |-> requested, passed |-> FreshPass,
                      blocked |-> d # "NONE" /\ loop'.exceeded]
        /\ UNCHANGED <<text, review, accepted, bound>>

Accept ==
    /\ FreshPass
    /\ accepted' = text /\ bound' = TRUE
    /\ UNCHANGED <<text, review, loop, packet>>

----------------------------------------------------------------------------
\* review_record.py.  A record is another one even when it says the same.
RecordReview(verdict) ==
    /\ review' = [verdict |-> verdict, text |-> text]
    /\ bound' = FALSE
    /\ UNCHANGED <<text, accepted, loop, packet>>

\* The Plan Author.
EditText ==
    /\ text' \in Texts
    /\ UNCHANGED <<review, accepted, bound, loop, packet>>

ReviewNext ==
    \/ \E requested \in {"NONE", "DELTA", "FULL"} : Build(requested)
    \/ \E verdict \in Verdicts : RecordReview(verdict)
    \/ Accept \/ EditText

ReviewSpec == ReviewInit /\ [][ReviewNext]_reviewVars

----------------------------------------------------------------------------
\* A packet that asks for less than a full review is about a text whose own
\* risk facts are low and uncontradicted, whatever the reviews before it said;
\* only a text with a PASS of its own is not looked at again (classify, build).
CheapReviewMeansLowRisk ==
    packet.depth \in {"NONE", "DELTA"} /\ ~packet.passed =>
        packet.text.snapshot \in {"ABSENT", "LOW"} /\ ~packet.text.contradicts

\* A reviewer who is given only a difference is given the difference to the
\* text of the last review, and that review passed (build, accept).
DeltaIsToReviewedText ==
    [][packet' # packet /\ packet'.depth = "DELTA" =>
        review = [verdict |-> "PASS", text |-> accepted] /\ accepted # text]_reviewVars
=============================================================================
