----------------------------- MODULE Acceptance -----------------------------
(***************************************************************************)
(* Acceptance claims of a Plan under smc.acceptance.v1 (acceptance.py,      *)
(* evidence.py, validate_delivery_completion.py): what a claim and its      *)
(* verifications must declare, the verification candidate, the live         *)
(* environment that has to run it, the results each command reports, reuse  *)
(* of older evidence, the manifest and the completion.                      *)
(*                                                                         *)
(* A verification is three steps: the preflight compares the environment    *)
(* with the candidate, the workspace is read and the command starts, its    *)
(* results are recorded.  Files and Plan change and deployments take place  *)
(* at any moment, between these steps too, and nothing looks again.         *)
(* Reviews, and the baseline a revised Plan needs, only refuse more.        *)
(***************************************************************************)
EXTENDS Naturals, FiniteSets

CONSTANTS
    Claims, VerificationIds, Requirements,
    Drafts,      \* texts the Plan may have
    Contents,    \* contents of the Plan's files
    Nil,
    MaxChanges   \* bound: edits, revisions and deployments

EVIDENCE_ACTIONS == {"NEW_EVIDENCE", "TARGETED_RERUN", "REUSE_EVIDENCE"}
LIVE_MODES == {"LIVE", "FAULT_INJECTION", "EXTERNAL"}

\* A row of the Acceptance Claim Ledger; source and reason: something is said.
ClaimRows == [requirement : Requirements, blocking : BOOLEAN, prior : {"PASS", "FAIL", "UNKNOWN"},
              source : BOOLEAN, reason : BOOLEAN, action : EVIDENCE_ACTIONS, checks : SUBSET VerificationIds]

\* A row of the Verification Ledger with the scenario and environment it is
\* bound to; bound: exactly one scenario, with all its environment needs.  A
\* candidate is probed (COMMAND) or declared (ENV_TOKEN, RECEIPT), or the command
\* itself starts the worktree.
VerificationRows ==
    [claims : SUBSET Claims, mode : {"LOCAL"} \cup LIVE_MODES, action : EVIDENCE_ACTIONS, blocking : BOOLEAN,
     bound : BOOLEAN, candidateMode : {"LOCAL_WORKTREE", "PROBED", "DECLARED"}]

ASSUME AcceptanceAssumption ==
    /\ Drafts \subseteq [required : SUBSET Requirements, claim : [Claims -> ClaimRows],
                         verification : [VerificationIds -> VerificationRows]]
    /\ Nil \notin Drafts \X Contents
    /\ MaxChanges \in Nat

VARIABLES
    plan,        \* the Plan's text
    files,       \* the content of its files
    sut,         \* the scope that is deployed in the live environment, or Nil
    snapshot,    \* verification-candidate.json: a scope, or Nil
    underway,    \* the verification that is being run, or Nil
    ledger,      \* the latest record of each verification, or Nil
    durable,     \* an earlier manifest with passed verifications exists
    manifest,    \* the scope of the Plan's evidence manifest, or Nil
    delivered,   \* the scope found implemented and proven last, with its records, or Nil
    changes

acceptanceVars == <<plan, files, sut, snapshot, underway, ledger, durable, manifest, delivered, changes>>

\* The scope fingerprint, and with it the candidate id.
Fingerprint == <<plan, files>>

----------------------------------------------------------------------------
(* validate_contract *)

ClaimValid(p, c) ==
    LET row == p.claim[c]
    IN  /\ row.checks # {}
        /\ row.action = "REUSE_EVIDENCE" => row.prior = "PASS" /\ row.source /\ ~row.reason
        /\ row.action = "TARGETED_RERUN" => row.reason
        /\ \A v \in row.checks :
              /\ c \in p.verification[v].claims
              /\ row.blocking => p.verification[v].blocking

IsLive(p, v) == p.verification[v].mode \in LIVE_MODES /\ p.verification[v].action # "REUSE_EVIDENCE"

VerificationValid(p, v) ==
    LET row == p.verification[v]
    IN  /\ row.claims # {}
        /\ \A c \in row.claims : p.claim[c].action = row.action
        /\ IsLive(p, v) => row.bound

ContractValid(p) ==
    /\ \A c \in Claims : ClaimValid(p, c)
    /\ \A v \in VerificationIds : VerificationValid(p, v)
    /\ \A r \in p.required : \E c \in Claims : p.claim[c].blocking /\ p.claim[c].requirement = r

----------------------------------------------------------------------------
(* Running a verification *)

CaptureSnapshot ==
    /\ snapshot' = Fingerprint
    /\ UNCHANGED <<plan, files, sut, underway, ledger, durable, manifest, delivered, changes>>

\* The environment proves that it runs the candidate: LOCAL_WORKTREE is believed,
\* and a token or a receipt says whatever somebody wrote.
Proved(v) == plan.verification[v].candidateMode = "PROBED" => sut = snapshot

\* preflight_verification: variables and the preflight command may refuse.
Preflight(v) ==
    /\ underway = Nil
    /\ plan.verification[v].action # "REUSE_EVIDENCE"
    /\ ContractValid(plan)
    /\ IsLive(plan, v) => snapshot = Fingerprint /\ Proved(v)
    /\ underway' = [check |-> v, row |-> plan.verification[v],
                    candidate |-> IF IsLive(plan, v) THEN snapshot ELSE Nil,
                    scope |-> Nil, served |-> Nil, steady |-> TRUE]
    /\ UNCHANGED <<plan, files, sut, snapshot, ledger, durable, manifest, delivered, changes>>

\* The row runs what is deployed, not the worktree.
OnSystem(row) == row.mode \in LIVE_MODES /\ row.candidateMode # "LOCAL_WORKTREE"

\* The files that run when the command runs.
Served(row) == IF ~OnSystem(row) THEN files ELSE IF sut = Nil THEN Nil ELSE sut[2]

StartCommand ==
    /\ underway # Nil /\ underway.scope = Nil
    /\ underway' = [underway EXCEPT !.scope = Fingerprint, !.served = Served(underway.row)]
    /\ UNCHANGED <<plan, files, sut, snapshot, ledger, durable, manifest, delivered, changes>>

\* History, for a change of files, Plan or environment: a verification is steady
\* while the Plan is that of its preflight and nothing else is deployed, nor the
\* files edited under the command.
Disturb(edited) ==
    underway' = IF underway = Nil \/ (edited /\ underway.scope = Nil) THEN underway
                ELSE [underway EXCEPT !.steady = FALSE]

\* results: the claims reported PASS; a LOCAL command only has its exit code.
\* ran (history): the files that answered, none if they were exchanged meanwhile.
FinishCommand(zero, results) ==
    /\ underway # Nil /\ underway.scope # Nil
    /\ LET v == underway.check
           row == underway.row
           passed == IF row.mode \in LIVE_MODES THEN results \cap row.claims
                     ELSE IF zero THEN row.claims ELSE {}
       IN  /\ ledger' = [ledger EXCEPT ![v] =
                 [scope |-> underway.scope, candidate |-> underway.candidate, inherited |-> FALSE,
                  claims |-> passed, pass |-> zero /\ passed = row.claims,
                  ran |-> IF underway.steady THEN {underway.served} ELSE {}]]
    /\ underway' = Nil
    /\ UNCHANGED <<plan, files, sut, snapshot, durable, manifest, delivered, changes>>

\* inherit_evidence, from whatever passed verification of whatever manifest.
Inherit(v) ==
    LET row == plan.verification[v]
    IN  /\ durable
        /\ row.action = "REUSE_EVIDENCE"
        /\ \A c \in row.claims : plan.claim[c].action = "REUSE_EVIDENCE" /\ plan.claim[c].prior = "PASS"
        /\ ledger' = [ledger EXCEPT ![v] =
              [scope |-> Fingerprint, candidate |-> Nil, inherited |-> TRUE,
               claims |-> row.claims, pass |-> TRUE, ran |-> {}]]
        /\ UNCHANGED <<plan, files, sut, snapshot, underway, durable, manifest, delivered, changes>>

----------------------------------------------------------------------------
(* Manifest and completion *)

\* current_status; a record of another kind has another command.
IsFresh(v) ==
    LET row == plan.verification[v]
        record == ledger[v]
    IN  /\ record # Nil /\ record.scope = Fingerprint
        /\ record.inherited <=> row.action = "REUSE_EVIDENCE"
        /\ row.claims \subseteq record.claims /\ record.pass

Blocking == {v \in VerificationIds : plan.verification[v].blocking}
ClaimProven(c) ==
    /\ plan.claim[c].checks # {}
    /\ \A v \in plan.claim[c].checks : IsFresh(v) /\ c \in ledger[v].claims
EvidenceFresh ==
    /\ Blocking # {} /\ \A v \in Blocking : IsFresh(v)
    /\ \A c \in Claims : plan.claim[c].blocking => ClaimProven(c)

WriteManifest ==
    /\ EvidenceFresh
    /\ manifest' = Fingerprint /\ durable' = TRUE
    /\ UNCHANGED <<plan, files, sut, snapshot, underway, ledger, delivered, changes>>

CandidateRan(v) ==
    IsLive(plan, v) => snapshot = Fingerprint /\ ledger[v].candidate = snapshot

CompleteOnEvidence ==  \* mutant: what the manifest needs is taken for enough
    /\ ContractValid(plan) /\ EvidenceFresh
    /\ manifest = Fingerprint
    /\ delivered' = [scope |-> Fingerprint, records |-> ledger]
    /\ UNCHANGED <<plan, files, sut, snapshot, underway, ledger, durable, manifest, changes>>

\* validate of validate_delivery_completion.py.
Complete ==
    /\ ContractValid(plan) /\ EvidenceFresh
    /\ \A v \in Blocking : CandidateRan(v)
    /\ manifest = Fingerprint
    /\ delivered' = [scope |-> Fingerprint, records |-> ledger]
    /\ UNCHANGED <<plan, files, sut, snapshot, underway, ledger, durable, manifest, changes>>

----------------------------------------------------------------------------
(* People and environment *)

Changes == changes < MaxChanges /\ changes' = changes + 1
              /\ UNCHANGED <<snapshot, ledger, durable, manifest, delivered>>
EditFiles(x) == x # files /\ files' = x /\ Disturb(TRUE) /\ Changes /\ UNCHANGED <<plan, sut>>
RedraftPlan(p) == p # plan /\ plan' = p /\ Disturb(FALSE) /\ Changes /\ UNCHANGED <<files, sut>>
Deploy ==
    /\ sut # Fingerprint /\ sut' = Fingerprint
    /\ Disturb(FALSE) /\ Changes /\ UNCHANGED <<plan, files>>

AcceptanceInit ==
    /\ plan \in Drafts /\ files \in Contents
    /\ sut \in {Nil, Fingerprint}
    /\ snapshot = Nil /\ underway = Nil
    /\ ledger = [v \in VerificationIds |-> Nil]
    /\ durable \in BOOLEAN
    /\ manifest = Nil /\ delivered = Nil /\ changes = 0

AcceptanceNext ==
    \/ CaptureSnapshot \/ StartCommand \/ WriteManifest \/ Complete
    \/ \E v \in VerificationIds : Preflight(v) \/ Inherit(v)
    \/ \E zero \in BOOLEAN, results \in SUBSET Claims : FinishCommand(zero, results)
    \/ \E x \in Contents : EditFiles(x)
    \/ \E p \in Drafts : RedraftPlan(p)
    \/ Deploy

AcceptanceSpec == AcceptanceInit /\ [][AcceptanceNext]_acceptanceVars

----------------------------------------------------------------------------
\* "This prevents 'fixed A, tested old B'", for as long as nobody exchanges A
\* while it is tested: of a Plan and files that were found delivered, every
\* requirement has a claim that blocks, and unless the claim reuses evidence each
\* of its verifications reported it for this scope, with an environment that had
\* shown or declared exactly this candidate; and they were exactly these files
\* that answered, wherever they ran and whatever changed between preflight, scope,
\* command, manifest and completion.  Nothing is said of the files that answered
\* when Plan, environment or, under the command, the files were exchanged during
\* the verification, or when the environment only declares what it runs
\* (acceptance-governance-contract.md; run_cmd, current_status, validate).
DeliveredClaimsWereShown ==
    delivered # Nil =>
        LET text == delivered.scope[1]
        IN  \A r \in text.required : \E c \in Claims :
                /\ text.claim[c].blocking /\ text.claim[c].requirement = r
                /\ text.claim[c].checks # {}
                /\ text.claim[c].action # "REUSE_EVIDENCE" =>
                     \A v \in text.claim[c].checks :
                        LET row == text.verification[v]
                            record == delivered.records[v]
                        IN  /\ c \in record.claims /\ record.scope = delivered.scope
                            /\ IsLive(text, v) => record.candidate = delivered.scope
                            /\ ~(OnSystem(row) /\ row.candidateMode = "DECLARED") =>
                                 record.ran \subseteq {delivered.scope[2]}
=============================================================================
