----------------------------- MODULE TestAssets -----------------------------
(***************************************************************************)
(* The catalog of test assets (test_assets.py): a manifest of each asset    *)
(* names the content its file had, the Test Asset Ledger of a Plan reuses,  *)
(* extends or adds assets, sync writes the manifests of those the Plan has  *)
(* extended or added.  Evidence manifest and completion refuse a Plan whose *)
(* ledger is not valid (evidence.py, validate_delivery_completion.py).      *)
(*                                                                         *)
(* A ledger is the sequence of its rows, each bound to a live verification  *)
(* of its own.  Identifiers, kinds, capabilities and reasons are filled in. *)
(***************************************************************************)
EXTENDS Naturals, Sequences

CONSTANTS
    Assets,
    Contents,   \* contents an asset's file may have
    Ledgers,    \* ledgers a Plan may have: sequences of LedgerRows
    NoFile,
    MaxChanges  \* bound: edits of files and new Plans

\* owned: the Change Matrix names file and manifest; touched: one of them;
\* rerun: the verification makes new evidence.
LedgerRows == [asset : Assets, action : {"REUSE", "EXTEND", "NEW"}, owned : BOOLEAN, touched : BOOLEAN, rerun : BOOLEAN]

VARIABLES
    ledger,    \* the ledger of the Plan
    asset,     \* the file of each asset: its content, or NoFile
    catalog,   \* the content each manifest names, or NoFile
    outcome,   \* how the latest sync of the Plan ended
    edits

assetVars == <<ledger, asset, catalog, outcome, edits>>

----------------------------------------------------------------------------
(* validate_plan: require_synced makes no difference. *)

\* _manifest_errors
ManifestSound(manifests, row, current) ==
    /\ manifests[row.asset] # NoFile
    /\ current => asset[row.asset] = manifests[row.asset]

RowValid(manifests, row) ==
    CASE row.action = "REUSE"  -> ManifestSound(manifests, row, TRUE) /\ ~row.touched
      [] row.action = "EXTEND" -> ManifestSound(manifests, row, FALSE) /\ row.owned /\ row.rerun
      [] row.action = "NEW"    -> manifests[row.asset] = NoFile /\ row.owned /\ row.rerun

NewIsFirst(i) ==
    ledger[i].action = "NEW" => \A j \in 1..(i - 1) : ledger[j].asset # ledger[i].asset

LedgerValid(manifests) == \A i \in DOMAIN ledger : RowValid(manifests, ledger[i]) /\ NewIsFirst(i)

----------------------------------------------------------------------------
Written == {i \in DOMAIN ledger : ledger[i].action \in {"NEW", "EXTEND"}}
Missing == {i \in Written : asset[ledger[i].asset] = NoFile}

\* The manifests before the first missing file stay written.
Materialized == {ledger[i].asset : i \in {j \in Written : \A k \in Missing : j < k}}

\* sync: the second validation sees the manifests the loop has written.
SyncRefused ==
    /\ ~LedgerValid(catalog)
    /\ outcome' = "refused" /\ UNCHANGED catalog

SyncWrites ==
    /\ LedgerValid(catalog)
    /\ catalog' = [a \in Assets |-> IF a \in Materialized THEN asset[a] ELSE catalog[a]]
    /\ outcome' = CASE Missing # {} -> "path missing"
                    [] Missing = {} /\ LedgerValid(catalog') -> "synced"
                    [] OTHER -> "invalid"

Sync == (SyncRefused \/ SyncWrites) /\ UNCHANGED <<ledger, asset, edits>>

\* The implementation of the Plan writes files; anyone edits them.
EditAsset(a, x) ==
    /\ edits < MaxChanges /\ x # asset[a]
    /\ asset' = [asset EXCEPT ![a] = x] /\ edits' = edits + 1
    /\ UNCHANGED <<ledger, catalog, outcome>>

NextPlan(l) ==
    /\ edits < MaxChanges
    /\ ledger' = l /\ outcome' = "none" /\ edits' = edits + 1
    /\ UNCHANGED <<asset, catalog>>

AssetsInit ==
    /\ ledger \in Ledgers
    /\ catalog \in [Assets -> Contents \cup {NoFile}]
    /\ asset \in [Assets -> Contents \cup {NoFile}]
    /\ outcome = "none" /\ edits = 0

AssetsNext ==
    \/ Sync
    \/ \E a \in Assets, x \in Contents \cup {NoFile} : EditAsset(a, x)
    \/ \E l \in Ledgers : NextPlan(l)

AssetsSpec == AssetsInit /\ [][AssetsNext]_assetVars

----------------------------------------------------------------------------
\* "Delivery runs test_assets.py sync after implementation and before
\* Completion Audit": a Plan that was found valid and whose files are all there
\* is valid after its synchronisation (plan-contract-v36.md, sync).
SyncKeepsPlanValid == outcome # "invalid"
=============================================================================
