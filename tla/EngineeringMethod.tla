-------------------------- MODULE EngineeringMethod --------------------------
(***************************************************************************)
(* The rules of engineering_method.py for one todo of a smc.plan.v3.7      *)
(* Plan: which method its text and the controller's overrides select, and  *)
(* what the recorded test-driven cycle and the recorded debugging must     *)
(* show.  The ledgers are folded into the facts the checks read, row by    *)
(* row; DebugPasses also has the form the code has, over the whole ledger. *)
(***************************************************************************)
EXTENDS Naturals, Sequences

CONSTANTS Commands, Contents, Outputs, None

Automatic == "AUTO"
Profiles == {"MECHANICAL", "BOUNDED_BEHAVIOR", "SENSITIVE_BOUNDED", "BUG_FIX", "HIGH_RISK"}
TddPolicies == {"TDD_REQUIRED", "TDD_PREFERRED", "TDD_NOT_APPLICABLE", "TDD_FOCUSED_REQUIRED"}
DebugPolicies == {"REQUIRED", "ON_FAILURE"}
Tiers == {"FAST", "STANDARD", "REASONING"}
Reviews == {"UNIFIED", "INDEPENDENT"}

\* What structured_signals and the keyword lists find in a todo's text; hard
\* is live, boundary or lifecycle.
Signals == [hard : BOOLEAN, bug : BOOLEAN, sensitive : BOOLEAN,
            mechanical : BOOLEAN, behavior : BOOLEAN, noTdd : BOOLEAN]

Overrides == [profile : Profiles \cup {Automatic}, tdd : TddPolicies \cup {Automatic},
              debug : DebugPolicies \cup {Automatic}, tier : Tiers \cup {Automatic},
              review : Reviews \cup {Automatic}]
NoOverride == [profile |-> Automatic, tdd |-> Automatic, debug |-> Automatic, tier |-> Automatic, review |-> Automatic]

\* What classify writes; the Plan revision and the epoch are kept beside it.
Methods == [profile : Profiles, tdd : TddPolicies, debug : DebugPolicies,
            tier : Tiers, review : Reviews]

----------------------------------------------------------------------------
(* classify *)

Profile(s, o) ==
    CASE o.profile # Automatic                -> o.profile
      [] o.profile = Automatic /\ s.hard      -> "HIGH_RISK"
      [] o.profile = Automatic /\ ~s.hard /\ s.bug -> "BUG_FIX"
      [] o.profile = Automatic /\ ~s.hard /\ ~s.bug /\ s.sensitive -> "SENSITIVE_BOUNDED"
      [] o.profile = Automatic /\ ~s.hard /\ ~s.bug /\ ~s.sensitive ->
            IF s.mechanical /\ ~s.behavior THEN "MECHANICAL" ELSE "BOUNDED_BEHAVIOR"

DefaultTdd(p, s) ==
    CASE p = "MECHANICAL"             -> IF s.noTdd THEN "TDD_NOT_APPLICABLE" ELSE "TDD_PREFERRED"
      [] p \in {"BUG_FIX", "HIGH_RISK"} -> "TDD_REQUIRED"
      [] p = "SENSITIVE_BOUNDED"      -> "TDD_FOCUSED_REQUIRED"
      [] p = "BOUNDED_BEHAVIOR"       -> "TDD_PREFERRED"

DefaultDebug(p, s) ==
    IF p = "BUG_FIX" \/ (p = "HIGH_RISK" /\ s.bug) THEN "REQUIRED" ELSE "ON_FAILURE"

DefaultTier(p) ==
    CASE p = "MECHANICAL" -> "FAST" [] p = "HIGH_RISK" -> "REASONING"
      [] p \notin {"MECHANICAL", "HIGH_RISK"} -> "STANDARD"

DefaultReview(p) == IF p = "HIGH_RISK" THEN "INDEPENDENT" ELSE "UNIFIED"

Choose(chosen, default) == IF chosen = Automatic THEN default ELSE chosen

Method(s, o) ==
    LET p == Profile(s, o)
    IN  [profile |-> p,
         tdd     |-> Choose(o.tdd, DefaultTdd(p, s)),
         debug   |-> Choose(o.debug, DefaultDebug(p, s)),
         tier    |-> Choose(o.tier, DefaultTier(p)),
         review  |-> Choose(o.review, DefaultReview(p))]

\* The downgrades that classify refuses.
DowngradeForbidden(s, m) ==
    \/ s.hard /\ (m.profile # "HIGH_RISK" \/ m.tdd # "TDD_REQUIRED" \/ m.review # "INDEPENDENT")
    \/ m.profile = "BUG_FIX" /\ m.tdd # "TDD_REQUIRED"
    \/ m.profile = "SENSITIVE_BOUNDED" /\ m.tdd \notin {"TDD_FOCUSED_REQUIRED", "TDD_REQUIRED"}
    \/ m.profile = "MECHANICAL" /\ (~s.mechanical \/ s.behavior \/ s.bug)
    \/ s.bug /\ m.debug # "REQUIRED"

\* The methods a todo can be given.
Accepted(s, o) == ~DowngradeForbidden(s, Method(s, o))

TddNeeded(m) == m.tdd \in {"TDD_REQUIRED", "TDD_FOCUSED_REQUIRED"}

----------------------------------------------------------------------------
(* tdd_check *)

Phases == {"RED", "GREEN", "REFACTOR"}

\* The fold of the rows: where the cycle stands, the command that was red,
\* and the content of the last success.
Cycles == [at : {"NEW", "RED", "GREEN", "REFACTOR", "BLOCKED"},
           command : Commands \cup {None}, success : Contents \cup {None}]
NewCycle == [at |-> "NEW", command |-> None, success |-> None]
Blocked == [at |-> "BLOCKED", command |-> None, success |-> None]

\* A row that tdd_run wrote: the phase asked for, the command, whether it
\* ended with 0, and the content of the scope.
TddStep(c, phase, command, zero, content) ==
    CASE phase = "RED" /\ ~zero ->
            [at |-> "RED", command |-> command, success |-> None]
      [] phase = "GREEN" /\ zero /\ c.at = "RED" /\ command = c.command ->
            [at |-> "GREEN", command |-> command, success |-> content]
      [] phase = "REFACTOR" /\ zero /\ c.at \in {"GREEN", "REFACTOR"} /\ command = c.command ->
            [at |-> "REFACTOR", command |-> command, success |-> content]
      [] ~(\/ phase = "RED" /\ ~zero
           \/ /\ command = c.command /\ zero
              /\ \/ phase = "GREEN" /\ c.at = "RED"
                 \/ phase = "REFACTOR" /\ c.at \in {"GREEN", "REFACTOR"}) -> Blocked

TddPassesStale(m, c, content) ==  \* mutant: the scope of the last success is not compared
    \/ m.tdd = "TDD_NOT_APPLICABLE"
    \/ m.tdd = "TDD_PREFERRED" /\ c.at = "NEW"
    \/ c.at \in {"GREEN", "REFACTOR"}

TddPasses(m, c, content) ==
    \/ m.tdd = "TDD_NOT_APPLICABLE"
    \/ m.tdd = "TDD_PREFERRED" /\ c.at = "NEW"
    \/ c.at \in {"GREEN", "REFACTOR"} /\ c.success = content

----------------------------------------------------------------------------
(* debug_check *)

FixLimit == 3

\* A row of the debugging ledger, by what the check can see of it.
\*   repro: a reproduction whose command failed, with the output it cites
\*   root: a confirmed root cause that cites an output
\*   fix, fixfail: an attempt; verified: a command that passed; other: the rest
RowKinds == {"repro", "root", "fix", "fixfail", "verified", "other"}
Rows == [kind : RowKinds, ref : Outputs, at : Contents]

\* The fold: the content of the latest reproduction of each output, the
\* outputs with a standing root cause that no fix precedes, whether a fix was
\* attempted, how many failed, and the content of the last row if verified.
Debugs == [repro : [Outputs -> Contents \cup {None}], rooted : SUBSET Outputs,
           fixed : BOOLEAN, fails : 0..FixLimit, used : BOOLEAN,
           verified : Contents \cup {None}]
NoDebug == [repro |-> [o \in Outputs |-> None], rooted |-> {}, fixed |-> FALSE,
            fails |-> 0, used |-> FALSE, verified |-> None]

\* A later reproduction of the same output takes the place of the earlier one
\* (the dict is keyed by it), and with it goes the root cause that cited it.
DebugStep(d, r) ==
    [repro    |-> IF r.kind = "repro" THEN [d.repro EXCEPT ![r.ref] = r.at] ELSE d.repro,
     rooted   |-> IF r.kind = "repro" THEN d.rooted \ {r.ref}
                  ELSE IF r.kind = "root" /\ d.repro[r.ref] = r.at /\ ~d.fixed
                       THEN d.rooted \cup {r.ref} ELSE d.rooted,
     fixed    |-> d.fixed \/ r.kind \in {"fix", "fixfail"},
     fails    |-> IF r.kind = "fixfail" /\ d.fails < FixLimit THEN d.fails + 1 ELSE d.fails,
     used     |-> TRUE,
     verified |-> IF r.kind = "verified" THEN r.at ELSE None]

DebugPasses(m, d, content) ==
    /\ d.fails < FixLimit
    /\ \/ m.debug = "ON_FAILURE" /\ ~d.used
       \/ d.rooted # {} /\ d.verified = content
=============================================================================
