--------------------------- MODULE MCComposerApply ---------------------------
(***************************************************************************)
(* ComposerApply with three releases of the package: the second updates an *)
(* artifact and drops another, the third differs from the second in its    *)
(* pins only.  Beside it, as a stage of its own, the guard of an apply over *)
(* the consumer's source: one file in a source directory, one that is      *)
(* ignored and in none, one submodule.  They share no file: every write of *)
(* the Composer is in a place the guard skips.                             *)
(***************************************************************************)
EXTENDS ComposerApply, BusinessGuard, TLC

CONSTANTS skill, rule, agents, s1, s2, r1, g1, file, cache, module, source, x, y, z

VARIABLE stage

stagedVars == <<stage, vars, guardVars>>

MCRank == (rule :> 1) @@ (skill :> 2) @@ (agents :> 3)

First == (skill :> s1) @@ (rule :> r1) @@ (agents :> g1)
Second == (skill :> s2) @@ (rule :> Absent) @@ (agents :> g1)
MCDesired == <<First, Second, Second>>

Symmetry == Permutations({y, z})

MCRootOf == (file :> source) @@ (cache :> Nothing) @@ (module :> source)

\* A repository with no commit, or with one whose files have one content; a submodule
\* is as its repository has it, or somebody has worked in it.
SmallHistory ==
  /\ \A i \in DOMAIN commits, p \in Path : commits[i][p] \in IF p = cache THEN {Nothing} ELSE {x, Nothing}
  /\ \A p \in Module : work[p] \in {Nothing, <<x, x>>, <<y, y>>, <<x, y>>}
  /\ work[cache] \in {Nothing, x}

MCInit ==
  /\ stage \in {"apply", "guard"}
  /\ Init /\ (stage # "apply" => tree = NoSnapshot /\ ver = 1)
  /\ GuardInit /\ SmallHistory
  /\ stage # "guard" => commits = <<>> /\ repo = "none" /\ dirs = {} /\ \A p \in Path : work[p] = Nothing

Applying == stage = "apply" /\ Next /\ UNCHANGED <<stage, guardVars>>
Guarding == stage = "guard" /\ GuardNext /\ UNCHANGED <<stage, vars>>

MCSpec == MCInit /\ [][Applying \/ Guarding]_stagedVars
=============================================================================
