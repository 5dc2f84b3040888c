---------------------------- MODULE Continuation ----------------------------
(***************************************************************************)
(* The bounded continuation of an executing agent (execution_context.py):   *)
(* before it stops, an agent asks continuation_gate, which answers CONTINUE *)
(* at most Cap times while a todo is open, and only after the ledgers grew. *)
(* The gate reads its file and the ledgers, and replaces the file: agents   *)
(* that ask at the same time overwrite each other's count.                  *)
(*                                                                          *)
(* The ledgers only grow and only their lengths are compared, so the model  *)
(* keeps whether they are longer than the length a file or a reader holds.  *)
(***************************************************************************)
EXTENDS Naturals

CONSTANTS Agents, Cap

ASSUME ContinuationAssumption == Cap \in Nat

VARIABLES
    open,    \* some todo is in_progress or pending
    gate,    \* continuation-gate.json: blocks, and whether the ledgers outgrew its progress
    asking,  \* what an agent inside the gate has read, or Idle
    answer   \* the last decision each agent got

continuationVars == <<open, gate, asking, answer>>

Idle == [in |-> FALSE]
Reads == [in : {TRUE}, open : BOOLEAN, blocks : 0..Cap, grown : BOOLEAN, since : BOOLEAN]

ContinuationInit ==
    /\ open \in BOOLEAN
    /\ gate = [blocks |-> 0, grown |-> TRUE]
    /\ asking = [a \in Agents |-> Idle]
    /\ answer = [a \in Agents |-> "NONE"]

\* append_event: a worker's ledger gets a row.
AppendEvent ==
    /\ gate' = [gate EXCEPT !.grown = TRUE]
    /\ asking' = [a \in Agents |-> IF asking[a].in THEN [asking[a] EXCEPT !.since = TRUE] ELSE Idle]
    /\ UNCHANGED <<open, answer>>

\* plan_state.py set, or another revision of the Plan.
TodosChange ==
    /\ open' = ~open
    /\ UNCHANGED <<gate, asking, answer>>

GateRead(a) ==
    /\ ~asking[a].in
    /\ asking' = [asking EXCEPT ![a] = [in |-> TRUE, open |-> open, blocks |-> gate.blocks,
                                        grown |-> gate.grown, since |-> FALSE]]
    /\ UNCHANGED <<open, gate, answer>>

ContinuesOnProgress(r) ==  \* mutant: progress renews the allowance
    r.open /\ (r.blocks > 0 => r.grown)

Continues(r) == r.open /\ r.blocks < Cap /\ (r.blocks > 0 => r.grown)

Counted(r) ==
    IF ~r.open THEN 0 ELSE IF Continues(r) /\ r.blocks < Cap THEN r.blocks + 1 ELSE r.blocks

GateWrite(a) ==
    /\ asking[a].in
    /\ gate' = [blocks |-> Counted(asking[a]), grown |-> asking[a].since]
    /\ answer' = [answer EXCEPT ![a] = IF Continues(asking[a]) THEN "CONTINUE" ELSE "ALLOW_STOP"]
    /\ asking' = [asking EXCEPT ![a] = Idle]
    /\ UNCHANGED open

ContinuationNext ==
    \/ AppendEvent \/ TodosChange
    \/ \E a \in Agents : GateRead(a) \/ GateWrite(a)

\* An agent that may not stop asks again, and its gate runs to its end.
ContinuationFairness ==
    \A a \in Agents : WF_continuationVars(GateRead(a)) /\ WF_continuationVars(GateWrite(a))

----------------------------------------------------------------------------
\* While a todo stays open an agent is not kept at work for ever, however
\* much progress the ledgers show and however the gates of several agents
\* overwrite each other's count (continuation_gate).
AgentsAreReleased ==
    \A a \in Agents : []<>(answer[a] = "ALLOW_STOP" \/ ~open)
=============================================================================
