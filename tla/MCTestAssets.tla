---------------------------- MODULE MCTestAssets ----------------------------
(***************************************************************************)
(* One Plan that extends an asset and one that adds it.                     *)
(***************************************************************************)
EXTENDS TestAssets

Row(action) == [asset |-> "TA-LIVE", action |-> action, owned |-> TRUE, touched |-> TRUE, rerun |-> TRUE]
MCLedgers == {<<Row("EXTEND")>>, <<Row("NEW")>>}
=============================================================================
