----------------------------- MODULE MCInstaller -----------------------------
(* A skill of both releases, one that the second release no longer ships, a  *)
(* consumer-owned skill, and a copy of each.                                 *)
EXTENDS Installer

MCCopyOf == [copy |-> "skill", oldCopy |-> "old", seedCopy |-> "mine"]
MCRank == [profile |-> 1, mine |-> 2, old |-> 3, skill |-> 4, seedCopy |-> 5, oldCopy |-> 6, copy |-> 7,
           lock |-> 8, receipt |-> 9]
MCShips == [first |-> {"skill", "old"}, second |-> {"skill"}]
MCTime == [one |-> 1, two |-> 2]
MCPolicy == [generic |-> "none", cursor |-> "full-tree", edit |-> "managed-set"]
=============================================================================
