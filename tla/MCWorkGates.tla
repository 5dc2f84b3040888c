----------------------------- MODULE MCWorkGates -----------------------------
(***************************************************************************)
(* WorkGates with two overlapping commands, two contents, two commits and  *)
(* two hook files: as many as one look can differ from the next in.        *)
(***************************************************************************)
EXTENDS WorkGates, TLC

Symmetry ==
  Permutations(Command) \cup Permutations(Digest) \cup Permutations(Commit)
    \cup Permutations(Hook)
=============================================================================
