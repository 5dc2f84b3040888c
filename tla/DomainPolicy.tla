---------------------------- MODULE DomainPolicy ----------------------------
(***************************************************************************)
(* Domain packs and the Plans they bind (domain_runtime.py,                 *)
(* domain_intent.py, create_plan_seed_v37.py, validate_plan_v37.py).  The   *)
(* consumer's profile turns domains on, their rules say which changes of a  *)
(* document concern them.  The PRD states an intent for each such change;   *)
(* a Plan is seeded from the PRD, records what activated, the digest of the *)
(* policy and the PRD it came from, and gets a row for each intent.         *)
(*                                                                         *)
(* A digest is what it digests.  Everything else a validator looks at only  *)
(* refuses more Plans and is left out.                                      *)
(***************************************************************************)
EXTENDS Naturals, FiniteSets

CONSTANTS
    Domains,     \* the installed packs
    ChangeIds,
    ChangeKinds,       \* what rules tell apart in a change: path, extension, kind, target
    Modes,       \* of a domain in the profile; "absent": installed, but not in the profile
    NoPlan, NoTable,
    MaxEdits     \* bound: changes of PRD, policy and matrix

NA == "N/A"            \* a cell that states nothing
Ground == "<DECIDE>"   \* the seed's placeholder
Hard == "MIGRATION"    \* an intent that asks for the FULL profile
Tokens == {"UNCHANGED", Hard, NA}
NoRow == "-"            \* no row

ASSUME DomainAssumption ==
    /\ IsFiniteSet(Domains) /\ IsFiniteSet(ChangeIds)
    /\ Modes \subseteq {"auto", "always", "off", "absent"} /\ Modes # {}
    /\ MaxEdits \in Nat

VARIABLES
    prd,        \* the approved PRD: kind of every change, intents, profile
    policy,     \* mode and rules of every domain
    draft,      \* a seed that is being made: the Plan without its bindings
    plan,       \* the Plan file, or none
    validated,  \* the Plan that passed last, or none
    edits

domainVars == <<prd, policy, draft, plan, validated, edits>>

----------------------------------------------------------------------------
(* resolve *)

Enabled == {d \in Domains : policy.mode[d] # "absent"}
Triggers(kinds, d) ==
    IF policy.mode[d] \in {"off", "absent"} THEN {} ELSE {c \in ChangeIds : kinds[c] \in policy.rules[d]}
Required(kinds, d) ==
    \/ policy.mode[d] = "always"
    \/ policy.mode[d] = "auto" /\ Triggers(kinds, d) # {}
Resolve(kinds) ==
    [d \in Enabled |-> [required |-> Required(kinds, d), changes |-> Triggers(kinds, d)]]

\* policy_digest: the profile and the files of the packs in it.
PolicyDigest == [d \in Enabled |-> <<policy.mode[d], policy.rules[d]>>]

----------------------------------------------------------------------------
(* Tables *)

RowsOf(table) == {c \in ChangeIds : table[c] # NoRow}
Complete(table) == RowsOf(table) # {} /\ \A c \in RowsOf(table) : table[c] \in Tokens

\* validate_preplan: every required domain has a row for each of its changes,
\* and none that asks for more than the PRD's profile.
PreplanReady ==
    \A d \in Domains : Required(prd.kind, d) =>
        /\ RowsOf(prd.intent[d]) = Triggers(prd.kind, d)
        /\ Complete(prd.intent[d])
        /\ prd.profile = "LEAN" => \A c \in ChangeIds : prd.intent[d][c] # Hard

\* build_bindings: the intents of all installed packs, whether they activate or not.
Bindings ==
    {b \in {<<d, c, prd.intent[d][c], prd>> : d \in Domains, c \in ChangeIds} : b[3] # NoRow}

IntentKept(p) ==
    \A d \in Domains, c \in ChangeIds :
        LET stated == prd.intent[d][c]
            taken == p.rows[d][c]
        IN  stated # NoRow /\ taken # NoRow /\ NA \notin {stated, taken} => stated = taken

\* verify_bindings: the digest of the PRD, the table, and the Plan's rows.
BindingsVerify(p) ==
    /\ p.source = prd
    /\ p.table # NoTable /\ Bindings \subseteq p.table
    /\ IntentKept(p)

\* validate_plan of domain_runtime.
DomainsVerify(p) ==
    /\ p.digest = PolicyDigest
    /\ p.ledger = Resolve(p.kind)
    /\ \A d \in Domains : Required(p.kind, d) =>
          RowsOf(p.rows[d]) = Triggers(p.kind, d) /\ Complete(p.rows[d])

----------------------------------------------------------------------------
(* The Plan's tools *)

\* resolve, activation_ledger, render_extensions: rows are kept or left to decide.
Activated(kinds, rows) ==
    [kind |-> kinds, digest |-> PolicyDigest, ledger |-> Resolve(kinds),
     rows |-> [d \in Domains |-> [c \in ChangeIds |->
                  IF ~Required(kinds, d) \/ c \notin Triggers(kinds, d) THEN NoRow
                  ELSE IF rows[d][c] = NoRow THEN Ground ELSE rows[d][c]]]]
NoRows == [d \in Domains |-> [c \in ChangeIds |-> NoRow]]

\* create_plan_seed_v37 up to the body of the Plan.
SeedBody ==
    /\ plan = NoPlan /\ draft = NoPlan
    /\ PreplanReady
    /\ draft' = Activated(prd.kind, NoRows)
    /\ UNCHANGED <<prd, policy, plan, validated, edits>>

Bound(p, table) == [kind |-> p.kind, digest |-> p.digest, ledger |-> p.ledger, rows |-> p.rows,
                    source |-> prd, table |-> table]

\* apply_bindings, of the PRD as it is now.
SeedBindings ==
    /\ draft # NoPlan
    /\ plan' = Bound(draft, Bindings) /\ draft' = NoPlan
    /\ UNCHANGED <<prd, policy, validated, edits>>
SeedKilled == draft # NoPlan /\ draft' = NoPlan /\ UNCHANGED <<prd, policy, plan, validated, edits>>

RepairUnlessBound ==  \* mutant: a Plan that has a binding is taken for bound
    /\ plan # NoPlan /\ plan.table = NoTable
    /\ plan' = Bound(plan, Bindings)
    /\ UNCHANGED <<prd, policy, draft, validated, edits>>

\* repair_binding: frontmatter anew, the table only when there is none.
RepairBinding ==
    /\ plan # NoPlan
    /\ plan' = Bound(plan, IF plan.table = NoTable THEN Bindings ELSE plan.table)
    /\ UNCHANGED <<prd, policy, draft, validated, edits>>

Validate ==
    /\ plan # NoPlan
    /\ BindingsVerify(plan) /\ DomainsVerify(plan)
    /\ validated' = plan
    /\ UNCHANGED <<prd, policy, draft, plan, edits>>

----------------------------------------------------------------------------
(* People *)

Writes(p) == plan # NoPlan /\ p # plan /\ plan' = p /\ UNCHANGED <<prd, policy, draft, validated>>

\* What the Plan Author does about the validators' errors: repair, remove a
\* table that lacks a binding, paste what resolve prints, decide a row.
DropTable == Writes([plan EXCEPT !.table = NoTable])
DecideRow(d, c, v) == plan.rows[d][c] # NoRow /\ Writes([plan EXCEPT !.rows[d][c] = v])
PasteActivation ==
    LET fresh == Activated(plan.kind, plan.rows)
    IN  Writes([plan EXCEPT !.digest = fresh.digest, !.ledger = fresh.ledger, !.rows = fresh.rows])
Answers(d, c) ==
    {v \in Tokens : plan.rows[d][c] = Ground \/ v = prd.intent[d][c]}
AnswersErrors ==
    /\ plan # NoPlan
    /\ \/ plan.source # prd /\ RepairBinding
       \/ plan.table = NoTable /\ RepairBinding
       \/ plan.table # NoTable /\ ~(Bindings \subseteq plan.table) /\ DropTable /\ UNCHANGED edits
       \/ ~DomainsVerify(plan) /\ PasteActivation /\ UNCHANGED edits
       \/ \E d \in Domains, c \in ChangeIds :
             /\ plan.rows[d][c] = Ground \/ ~IntentKept(plan)
             /\ \E v \in Answers(d, c) : DecideRow(d, c, v) /\ UNCHANGED edits

\* What the author does for reasons of his own.
Edits == edits < MaxEdits /\ edits' = edits + 1
EditMatrix(c, k) == plan # NoPlan /\ Edits /\ Writes([plan EXCEPT !.kind[c] = k])
EditRow(d, c, v) == plan # NoPlan /\ Edits /\ DecideRow(d, c, v)
StartAgain == Edits /\ Writes(NoPlan)

\* The PRD is approved again in another form; a maintainer changes the policy.
EditPrd(p) == Edits /\ p # prd /\ prd' = p /\ UNCHANGED <<policy, draft, plan, validated>>
StateIntent(d, c, v) == EditPrd([prd EXCEPT !.intent[d][c] = v])
MoveChange(c, k) == EditPrd([prd EXCEPT !.kind[c] = k])
EditPolicy(p) == Edits /\ p # policy /\ policy' = p /\ UNCHANGED <<prd, draft, plan, validated>>
SetMode(d, m) == EditPolicy([policy EXCEPT !.mode[d] = m])
SetRules(d, S) == EditPolicy([policy EXCEPT !.rules[d] = S])

DomainInit ==
    /\ prd \in [kind : [ChangeIds -> ChangeKinds], profile : {"LEAN", "FULL"},
                intent : [Domains -> [ChangeIds -> {NoRow, "UNCHANGED", Hard}]]]
    /\ policy \in [mode : [Domains -> Modes], rules : [Domains -> SUBSET ChangeKinds]]
    /\ draft = NoPlan /\ plan = NoPlan /\ validated = NoPlan
    /\ edits = 0

DomainNext ==
    \/ SeedBody \/ SeedBindings \/ SeedKilled \/ Validate
    \/ \E c \in ChangeIds, k \in ChangeKinds : EditMatrix(c, k) \/ MoveChange(c, k)
    \/ \E d \in Domains, c \in ChangeIds :
          \/ \E v \in Tokens : EditRow(d, c, v)
          \/ \E v \in Tokens \cup {NoRow} : StateIntent(d, c, v)
    \/ AnswersErrors \/ StartAgain
    \/ \E d \in Domains : (\E m \in Modes : SetMode(d, m)) \/ (\E S \in SUBSET ChangeKinds : SetRules(d, S))

----------------------------------------------------------------------------
(* Properties *)

\* While the document can be made to fit the policy, that is, every domain that is
\* always asked has a change, a Plan whose author does what the validators say
\* passes in the end, whatever the PRD, the policy and the Plan were changed to
\* meanwhile (repair_binding, verify_bindings, render_extensions, validate_plan).
Fits == plan # NoPlan /\ \A d \in Domains : policy.mode[d] = "always" => Triggers(plan.kind, d) # {}
PlanGetsValid == Fits ~> (~Fits \/ validated = plan)
=============================================================================
