------------------------ MODULE TodoExecution_proofs ------------------------
(***************************************************************************)
(* Proofs about the execution of todos, for any todos, texts, overrides,   *)
(* contents and revisions.                                                 *)
(*                                                                         *)
(* The properties speak of a completion.  What makes them inductive is     *)
(* that every fact a ledger still counts has a command behind it           *)
(* (CycleOK, DebugOK), that the command whose row is still to come has     *)
(* ended on the content that is there (RunOK), and that a stored method    *)
(* asks for the debugging of a bug (MethodOK).                             *)
(***************************************************************************)
EXTENDS TodoExecution, TLAPS

\* In words: a cycle that is past RED saw its command fail, and one that is
\* past GREEN saw it pass on the content it names.
CycleOK(c) ==
    /\ c.at \in {"RED", "GREEN", "REFACTOR"} => c.command \in failed
    /\ c.at \in {"GREEN", "REFACTOR"} =>
          c.success \in Contents /\ <<c.command, c.success>> \in passed

\* In words: a reproduction or a root cause needs a command that failed, a
\* verification one that passed on the content it names.
DebugOK(d) ==
    /\ (d.rooted # {} \/ \E o \in Outputs : d.repro[o] # None) => failed # {}
    /\ d.verified # None => \E c \in Commands : <<c, d.verified>> \in passed

RunOK == run # None =>
            /\ IF run.zero THEN <<run.command, content>> \in passed ELSE run.command \in failed
            /\ run.ledger = "debug" => run.kind \in {"repro", "verified", "fix"}

MethodOK(t, m) == Text[m.revision][t].bug => m.method.debug = "REQUIRED"

IInv ==
    /\ ExecTypeOK
    /\ \A t \in Todos : /\ CycleOK(cycle[t]) /\ DebugOK(debug[t])
                        /\ method[t] # None => MethodOK(t, method[t])
    /\ RunOK
    /\ frozen => window # "PROVISIONAL"

----------------------------------------------------------------------------
(* The rules of a method *)

\* What a text and its overrides select is a method.
LEMMA MethodType ==
    ASSUME NEW s \in Signals, NEW o \in Overrides
    PROVE  Method(s, o) \in Methods
<1>1. Profile(s, o) \in Profiles
  BY DEF Profile, Overrides, Profiles, Automatic
<1> DEFINE p == Profile(s, o)
<1> HIDE DEF p
<1>2. p \in Profiles
  BY <1>1 DEF p
<1>3. Choose(o.tdd, DefaultTdd(p, s)) \in TddPolicies
  <2>1. DefaultTdd(p, s) \in TddPolicies
    BY <1>2 DEF DefaultTdd, Profiles, TddPolicies
  <2> QED BY <2>1 DEF Choose, Overrides
<1>4. Choose(o.debug, DefaultDebug(p, s)) \in DebugPolicies
  BY DEF Choose, Overrides, DefaultDebug, DebugPolicies
<1>5. Choose(o.tier, DefaultTier(p)) \in Tiers
  <2>1. DefaultTier(p) \in Tiers
    BY <1>2 DEF DefaultTier, Profiles, Tiers
  <2> QED BY <2>1 DEF Choose, Overrides
<1>6. Choose(o.review, DefaultReview(p)) \in Reviews
  BY DEF Choose, Overrides, DefaultReview, Reviews
<1> QED BY <1>2, <1>3, <1>4, <1>5, <1>6 DEF Method, Methods, p

\* Without overrides no downgrade is asked for, and a bug keeps its debugging.
LEMMA DefaultDebugs ==
    ASSUME NEW s \in Signals, s.bug
    PROVE  Method(s, NoOverride).debug = "REQUIRED"
<1>1. Profile(s, NoOverride) = IF s.hard THEN "HIGH_RISK" ELSE "BUG_FIX"
  <2>1. NoOverride.profile = Automatic /\ NoOverride.debug = Automatic
    BY DEF NoOverride
  <2>2. s.hard \in BOOLEAN
    BY DEF Signals
  <2>3. CASE s.hard
    BY <2>1, <2>3 DEF Profile, Automatic
  <2>4. CASE ~s.hard
    BY <2>1, <2>4 DEF Profile, Automatic
  <2> QED BY <2>2, <2>3, <2>4
<1>2. NoOverride.debug = Automatic
  BY DEF NoOverride
<1>3. CASE s.hard
  BY <1>1, <1>2, <1>3 DEF Method, Choose, DefaultDebug
<1>4. CASE ~s.hard
  BY <1>1, <1>2, <1>4 DEF Method, Choose, DefaultDebug
<1> QED BY <1>3, <1>4 DEF Signals

\* What load_method returns, when it returns.
LEMMA LoadedType ==
    ASSUME IInv, NEW t \in Todos, Loadable(t)
    PROVE  /\ Loaded(t) \in Stored /\ Loaded(t) # None /\ MethodOK(t, Loaded(t))
           /\ Loaded(t).revision = revision
           /\ CycleOf(t) \in Cycles /\ DebugOf(t) \in Debugs
           /\ CycleOK(CycleOf(t)) /\ DebugOK(DebugOf(t))
<1>1. Text[revision][t] \in Signals
  BY TodoAssumption DEF IInv, ExecTypeOK
<1>2. NoOverride \in Overrides
  BY TodoAssumption
<1>3. CASE method[t] = None
  <2>1. Loaded(t) = [method |-> Method(Text[revision][t], NoOverride), revision |-> revision]
    BY <1>3 DEF Loaded
  <2>2. Loaded(t) \in Stored
    BY <1>1, <1>2, <2>1, MethodType DEF Stored, IInv, ExecTypeOK
  <2>3. MethodOK(t, Loaded(t))
    BY <1>1, <2>1, DefaultDebugs DEF MethodOK
  <2>4. NewCycle \in Cycles /\ CycleOK(NewCycle)
    BY DEF NewCycle, Cycles, CycleOK
  <2>5. NoDebug \in Debugs /\ DebugOK(NoDebug)
    BY DEF NoDebug, Debugs, DebugOK, FixLimit
  <2> QED BY <1>3, <2>1, <2>2, <2>3, <2>4, <2>5, NoMethodAssumption DEF Stored, CycleOf, DebugOf
<1>4. CASE method[t] # None
  <2>1. method[t] \in Stored
    BY <1>4 DEF IInv, ExecTypeOK
  <2> QED BY <1>4, <2>1 DEF Loaded, Loadable, CycleOf, DebugOf, IInv, ExecTypeOK
<1> QED BY <1>3, <1>4

----------------------------------------------------------------------------
(* The ledgers *)

\* Every handler that touches the ledgers of a todo replaces them by such.
LEMMA LedgerStep ==
    ASSUME IInv, NEW t \in Todos, NEW m \in Stored, NEW c \in Cycles, NEW d \in Debugs,
           MethodOK(t, m), CycleOK(c), DebugOK(d), m # None,
           method' = [method EXCEPT ![t] = m],
           cycle' = [cycle EXCEPT ![t] = c],
           debug' = [debug EXCEPT ![t] = d],
           UNCHANGED <<passed, failed>>
    PROVE  /\ method' \in [Todos -> Stored \cup {None}]
           /\ cycle' \in [Todos -> Cycles] /\ debug' \in [Todos -> Debugs]
           /\ \A u \in Todos : method'[u] = None => cycle'[u] = NewCycle /\ debug'[u] = NoDebug
           /\ \A u \in Todos : /\ CycleOK(cycle[u])' /\ DebugOK(debug[u])'
                               /\ method'[u] # None => MethodOK(u, method[u])'
<1>1. /\ method' \in [Todos -> Stored \cup {None}]
      /\ cycle' \in [Todos -> Cycles] /\ debug' \in [Todos -> Debugs]
  BY DEF IInv, ExecTypeOK
<1>2. ASSUME NEW u \in Todos
      PROVE  /\ method'[u] = None => cycle'[u] = NewCycle /\ debug'[u] = NoDebug
             /\ CycleOK(cycle[u])' /\ DebugOK(debug[u])'
             /\ method'[u] # None => MethodOK(u, method[u])'
  <2>1. CASE u = t
    <3>1. method'[u] = m /\ cycle'[u] = c /\ debug'[u] = d
      BY <2>1 DEF IInv, ExecTypeOK
    <3>2. CycleOK(cycle[u])'
      BY <3>1 DEF CycleOK
    <3>3. DebugOK(debug[u])'
      BY <3>1 DEF DebugOK
    <3> QED BY <2>1, <3>1, <3>2, <3>3 DEF MethodOK
  <2>2. CASE u # t
    <3>1. method'[u] = method[u] /\ cycle'[u] = cycle[u] /\ debug'[u] = debug[u]
      BY <2>2 DEF IInv, ExecTypeOK
    <3>2. CycleOK(cycle[u])'
      BY <3>1 DEF CycleOK, IInv
    <3>3. DebugOK(debug[u])'
      BY <3>1 DEF DebugOK, IInv
    <3>4. method'[u] # None => MethodOK(u, method[u])'
      BY <3>1 DEF MethodOK, IInv
    <3> QED BY <3>1, <3>2, <3>3, <3>4 DEF IInv, ExecTypeOK
  <2> QED BY <2>1, <2>2
<1> QED BY <1>1, <1>2

\* One row more in a test-driven cycle.
LEMMA TddStepOK ==
    ASSUME IInv, NEW c \in Cycles, CycleOK(c), NEW phase, NEW command \in Commands,
           NEW zero \in BOOLEAN,
           IF zero THEN <<command, content>> \in passed ELSE command \in failed
    PROVE  /\ TddStep(c, phase, command, zero, content) \in Cycles
           /\ CycleOK(TddStep(c, phase, command, zero, content))
<1> DEFINE n == TddStep(c, phase, command, zero, content)
<1> USE DEF IInv, ExecTypeOK
<1>1. CASE phase = "RED" /\ ~zero
  BY <1>1 DEF TddStep, Cycles, CycleOK
<1>2. CASE phase = "GREEN" /\ zero /\ c.at = "RED" /\ command = c.command
  BY <1>2 DEF TddStep, Cycles, CycleOK
<1>3. CASE phase = "REFACTOR" /\ zero /\ c.at \in {"GREEN", "REFACTOR"} /\ command = c.command
  BY <1>3 DEF TddStep, Cycles, CycleOK
<1>4. CASE ~(\/ phase = "RED" /\ ~zero
             \/ /\ command = c.command /\ zero
                /\ \/ phase = "GREEN" /\ c.at = "RED"
                   \/ phase = "REFACTOR" /\ c.at \in {"GREEN", "REFACTOR"})
  <2>1. n = Blocked
    BY <1>4 DEF TddStep
  <2> QED BY <2>1 DEF Blocked, Cycles, CycleOK
<1> QED BY <1>1, <1>2, <1>3, <1>4

\* One row more in a debugging ledger.
LEMMA DebugStepOK ==
    ASSUME IInv, NEW d \in Debugs, DebugOK(d), NEW r \in Rows, r.at = content,
           r.kind = "repro" => failed # {},
           r.kind = "verified" => \E c \in Commands : <<c, content>> \in passed
    PROVE  DebugStep(d, r) \in Debugs /\ DebugOK(DebugStep(d, r))
<1> DEFINE n == DebugStep(d, r)
<1>1. /\ r.ref \in Outputs /\ r.at \in Contents /\ r.kind \in RowKinds
      /\ d.repro \in [Outputs -> Contents \cup {None}] /\ d.rooted \subseteq Outputs
      /\ d.fails \in 0..FixLimit /\ d.fixed \in BOOLEAN
  BY DEF Rows, Debugs
<1>2. n.repro \in [Outputs -> Contents \cup {None}]
  BY <1>1 DEF DebugStep
<1>3. n.rooted \subseteq Outputs
  BY <1>1 DEF DebugStep
<1>4. n.fails \in 0..FixLimit
  BY <1>1 DEF DebugStep, FixLimit
<1>5. n.verified \in Contents \cup {None}
  BY <1>1 DEF DebugStep
<1>6. n.fixed \in BOOLEAN /\ n.used \in BOOLEAN
  BY <1>1 DEF DebugStep
<1>7. n \in Debugs
  BY <1>2, <1>3, <1>4, <1>5, <1>6 DEF DebugStep, Debugs
<1>8. ASSUME n.rooted # {} \/ \E o \in Outputs : n.repro[o] # None PROVE failed # {}
  <2>1. CASE r.kind = "repro"
    BY <2>1
  <2>2. CASE r.kind # "repro"
    <3>1. n.repro = d.repro
      BY <2>2 DEF DebugStep
    <3>2. n.rooted # {} => d.rooted # {} \/ d.repro[r.ref] = r.at
      BY <2>2 DEF DebugStep
    <3>3. r.at # None
      BY <1>1, TodoAssumption
    <3> QED BY <1>1, <1>8, <3>1, <3>2, <3>3 DEF DebugOK
  <2> QED BY <2>1, <2>2
<1>9. ASSUME n.verified # None PROVE \E c \in Commands : <<c, n.verified>> \in passed
  BY <1>9 DEF DebugStep
<1> QED BY <1>7, <1>8, <1>9 DEF DebugOK

\* Empty ledgers count nothing.
LEMMA EmptyLedgers ==
    NewCycle \in Cycles /\ CycleOK(NewCycle) /\ NoDebug \in Debugs /\ DebugOK(NoDebug)
BY DEF NewCycle, Cycles, CycleOK, NoDebug, Debugs, DebugOK, FixLimit

\* A blocked cycle counts nothing.
LEMMA BlockedOK == Blocked \in Cycles /\ CycleOK(Blocked)
BY DEF Blocked, Cycles, CycleOK

\* A method that classify or migrate stores.
LEMMA StoreStep ==
    ASSUME IInv, NEW t \in Todos, NEW o \in Overrides, NEW fresh \in BOOLEAN,
           MethodOK(t, [method |-> Method(Text[revision][t], o), revision |-> revision]),
           method[t] = None => fresh,
           Store(t, [method |-> Method(Text[revision][t], o), revision |-> revision], fresh),
           UNCHANGED <<fileVars, run, planVars, passed, failed>>
    PROVE  IInv'
<1> DEFINE m == [method |-> Method(Text[revision][t], o), revision |-> revision]
<1>1. m \in Stored
  BY MethodType, TodoAssumption DEF Stored, IInv, ExecTypeOK
<1>2. m # None
  BY <1>1, NoMethodAssumption
<1> DEFINE c == IF fresh THEN NewCycle ELSE cycle[t]
           d == IF fresh THEN NoDebug ELSE debug[t]
<1>3. c \in Cycles /\ CycleOK(c) /\ d \in Debugs /\ DebugOK(d)
  BY EmptyLedgers DEF IInv, ExecTypeOK
<1>4. /\ method' = [method EXCEPT ![t] = m]
      /\ cycle' = [cycle EXCEPT ![t] = c]
      /\ debug' = [debug EXCEPT ![t] = d]
  BY DEF Store, IInv, ExecTypeOK
<1> HIDE DEF m, c, d
<1>5. UNCHANGED <<passed, failed, content, revision, run, envelope, status, profile, window,
                  freezing, frozen>>
  BY DEF fileVars, planVars
<1>6. /\ method' \in [Todos -> Stored \cup {None}]
      /\ cycle' \in [Todos -> Cycles] /\ debug' \in [Todos -> Debugs]
      /\ \A u \in Todos : method'[u] = None => cycle'[u] = NewCycle /\ debug'[u] = NoDebug
      /\ \A u \in Todos : /\ CycleOK(cycle[u])' /\ DebugOK(debug[u])'
                          /\ method'[u] # None => MethodOK(u, method[u])'
  BY <1>1, <1>2, <1>3, <1>4, <1>5, LedgerStep DEF m
<1> QED BY <1>5, <1>6 DEF IInv, ExecTypeOK, RunOK

\* Every row and every completion loads the method and leaves such ledgers.
LEMMA RowStep ==
    ASSUME IInv, NEW t \in Todos, Loadable(t), NEW c \in Cycles, NEW d \in Debugs,
           CycleOK(c), DebugOK(d),
           method' = [method EXCEPT ![t] = Loaded(t)],
           cycle' = [cycle EXCEPT ![t] = c],
           debug' = [debug EXCEPT ![t] = d],
           UNCHANGED <<passed, failed, content, revision>>,
           envelope' \subseteq Todos, status' \in [Todos -> Statuses],
           UNCHANGED <<profile, window, frozen>>, freezing' \in BOOLEAN,
           run' \in {run, None}
    PROVE  IInv'
<1>1. /\ method' \in [Todos -> Stored \cup {None}]
      /\ cycle' \in [Todos -> Cycles] /\ debug' \in [Todos -> Debugs]
      /\ \A u \in Todos : method'[u] = None => cycle'[u] = NewCycle /\ debug'[u] = NoDebug
      /\ \A u \in Todos : /\ CycleOK(cycle[u])' /\ DebugOK(debug[u])'
                          /\ method'[u] # None => MethodOK(u, method[u])'
  BY LoadedType, LedgerStep
<1>2. ExecTypeOK'
  BY <1>1 DEF IInv, ExecTypeOK
<1>3. RunOK'
  BY DEF IInv, RunOK
<1> QED BY <1>1, <1>2, <1>3 DEF IInv

----------------------------------------------------------------------------
\* The inductive invariant of the Todo ledgers holds in every reachable state.
THEOREM Invariance == Spec => []IInv
<1>1. Init => IInv
  BY EmptyLedgers, TodoAssumption DEF Init, IInv, ExecTypeOK, RunOK
<1>2. IInv /\ [Next]_vars => IInv'
  <2> SUFFICES ASSUME IInv, [Next]_vars PROVE IInv'
    OBVIOUS
  <2>1. ASSUME NEW t \in Todos, NEW o \in Controls, Classify(t, o) PROVE IInv'
    <3>1. o \in Overrides /\ Text[revision][t] \in Signals
      BY TodoAssumption DEF IInv, ExecTypeOK
    <3> DEFINE m == [method |-> Method(Text[revision][t], o), revision |-> revision]
    <3>2. MethodOK(t, m)
      BY <2>1 DEF Classify, Accepted, DowngradeForbidden, MethodOK
    <3>3. m # None
      <4>1. m \in Stored
        BY <3>1, MethodType DEF Stored, IInv, ExecTypeOK
      <4> QED BY <4>1, NoMethodAssumption
    <3>4. /\ Store(t, m, method[t] # m) /\ (method[t] # m) \in BOOLEAN
          /\ UNCHANGED <<fileVars, run, planVars, passed, failed>>
      BY <2>1 DEF Classify
    <3>5. method[t] = None => method[t] # m
      BY <3>3
    <3> QED BY <3>1, <3>2, <3>4, <3>5, StoreStep
  <2>2. ASSUME NEW t \in Todos, Migrate(t) PROVE IInv'
    <3>1. NoOverride \in Overrides /\ Text[revision][t] \in Signals
      BY TodoAssumption DEF IInv, ExecTypeOK
    <3>2. MethodOK(t, [method |-> Method(Text[revision][t], NoOverride), revision |-> revision])
      BY <3>1, DefaultDebugs DEF MethodOK
    <3> QED BY <2>2, <3>1, <3>2, StoreStep DEF Migrate
  <2>3. ASSUME NEW t \in Todos, TddEvent(t) PROVE IInv'
    <3>1. Loadable(t) /\ DebugOf(t) \in Debugs /\ DebugOK(DebugOf(t))
      BY <2>3, LoadedType DEF TddEvent, TddRow
    <3> QED BY <2>3, <3>1, BlockedOK, RowStep DEF TddEvent, TddRow, fileVars, planVars, IInv, ExecTypeOK
  <2>4. ASSUME NEW t \in Todos, CreateEnvelope(t) PROVE IInv'
    BY <2>4 DEF CreateEnvelope, fileVars, IInv, ExecTypeOK, RunOK, CycleOK, DebugOK, MethodOK
  <2>5. ASSUME NEW t \in Todos, NEW k \in RowKinds, NEW o \in Outputs, DebugEvent(t, k, o)
        PROVE IInv'
    <3>1. /\ Loadable(t) /\ DebugOf(t) \in Debugs /\ DebugOK(DebugOf(t))
          /\ CycleOf(t) \in Cycles /\ CycleOK(CycleOf(t))
      BY <2>5, LoadedType DEF DebugEvent, DebugRow
    <3> DEFINE r == [kind |-> k, ref |-> o, at |-> content]
               d == DebugStep(DebugOf(t), r)
    <3>2. r \in Rows /\ r.at = content /\ r.kind # "repro" /\ r.kind # "verified"
      BY <2>5 DEF DebugEvent, Rows, IInv, ExecTypeOK
    <3> HIDE DEF r
    <3>3. d \in Debugs /\ DebugOK(d)
      BY <3>1, <3>2, DebugStepOK
    <3>4. /\ method' = [method EXCEPT ![t] = Loaded(t)]
          /\ cycle' = [cycle EXCEPT ![t] = CycleOf(t)]
          /\ debug' = [debug EXCEPT ![t] = d]
          /\ UNCHANGED <<fileVars, run, planVars, passed, failed>>
      BY <2>5 DEF DebugEvent, DebugRow, r
    <3> HIDE DEF d
    <3> QED BY <3>1, <3>3, <3>4, RowStep DEF fileVars, planVars, IInv, ExecTypeOK
  <2>6. ASSUME NEW t \in Todos, NEW l, NEW k, NEW c \in Commands, NEW z \in BOOLEAN,
               NEW x \in Contents, l \in {"tdd", "debug"},
               k \in Phases \cup {"repro", "verified", "fix"}, RunCommand(t, l, k, c, z, x)
        PROVE IInv'
    <3>1. /\ content' \in Contents /\ passed \subseteq passed' /\ failed \subseteq failed'
          /\ UNCHANGED <<revision, method, cycle, debug, envelope, status, profile, window,
                         freezing, frozen>>
      BY <2>6 DEF RunCommand, planVars
    <3>2. passed' \subseteq Commands \X Contents /\ failed' \subseteq Commands
      BY <2>6 DEF RunCommand, IInv, ExecTypeOK
    <3>3. run' \in Runs \cup {None}
      BY <2>6 DEF RunCommand, Runs
    <3>4. RunOK'
      BY <2>6 DEF RunCommand, RunOK
    <3>5. \A u \in Todos : CycleOK(cycle[u])' /\ DebugOK(debug[u])'
      <4> TAKE u \in Todos
      <4>1. CycleOK(cycle[u])'
        BY <3>1 DEF IInv, CycleOK
      <4>2. DebugOK(debug[u])'
        BY <3>1 DEF IInv, DebugOK
      <4> QED BY <4>1, <4>2
    <3>6. ExecTypeOK'
      BY <3>1, <3>2, <3>3 DEF IInv, ExecTypeOK
    <3> QED BY <3>1, <3>4, <3>5, <3>6 DEF IInv, MethodOK
  <2>7. ASSUME NEW c \in Contents, Edit(c) PROVE IInv'
    BY <2>7 DEF Edit, planVars, IInv, ExecTypeOK, RunOK, CycleOK, DebugOK, MethodOK
  <2>8. CASE RecordRun
    <3> DEFINE t == run.todo
    <3>1. run \in Runs /\ t \in Todos /\ content \in Contents
      BY <2>8 DEF RecordRun, Runs, IInv, ExecTypeOK
    <3>2. IF run.zero THEN <<run.command, content>> \in passed ELSE run.command \in failed
      BY <2>8 DEF RecordRun, RunOK, IInv
    <3>3. CASE ~Loadable(t)
      <4>1. run' = None /\ UNCHANGED <<content, revision, method, cycle, debug, envelope, status,
                                       profile, window, freezing, frozen, passed, failed>>
        BY <2>8, <3>3 DEF RecordRun, fileVars, planVars
      <4> QED BY <4>1 DEF IInv, ExecTypeOK, RunOK, CycleOK, DebugOK, MethodOK
    <3>4. CASE Loadable(t) /\ run.ledger = "tdd"
      <4>1. /\ DebugOf(t) \in Debugs /\ DebugOK(DebugOf(t))
            /\ CycleOf(t) \in Cycles /\ CycleOK(CycleOf(t))
        BY <3>1, <3>4, LoadedType
      <4> DEFINE c == TddStep(CycleOf(t), run.kind, run.command, run.zero, content)
      <4>2. c \in Cycles /\ CycleOK(c)
        BY <3>1, <3>2, <4>1, TddStepOK DEF Runs
      <4>3. /\ method' = [method EXCEPT ![t] = Loaded(t)]
            /\ cycle' = [cycle EXCEPT ![t] = c]
            /\ debug' = [debug EXCEPT ![t] = DebugOf(t)]
            /\ run' = None /\ UNCHANGED <<fileVars, planVars, passed, failed>>
        BY <2>8, <3>4 DEF RecordRun, TddRow
      <4> HIDE DEF c, t
      <4> QED BY <3>1, <3>4, <4>1, <4>2, <4>3, RowStep DEF fileVars, planVars, IInv, ExecTypeOK
    <3>5. CASE Loadable(t) /\ run.ledger # "tdd"
      <4>1. /\ DebugOf(t) \in Debugs /\ DebugOK(DebugOf(t))
            /\ CycleOf(t) \in Cycles /\ CycleOK(CycleOf(t))
        BY <3>1, <3>5, LoadedType
      <4>2a. run.kind \in {"repro", "verified", "fix"}
        BY <2>8, <3>1, <3>5 DEF RecordRun, RunOK, Runs, IInv
      <4> DEFINE r == [kind |-> RunKind(run), ref |-> run.output, at |-> content]
                 d == DebugStep(DebugOf(t), r)
      <4>2. /\ r \in Rows /\ r.at = content
            /\ r.kind = "repro" => ~run.zero
            /\ r.kind = "verified" => run.zero
        BY <3>1, <4>2a DEF Rows, RowKinds, RunKind, Runs
      <4> HIDE DEF r
      <4>3. d \in Debugs /\ DebugOK(d)
        <5>1. r.kind = "repro" => failed # {}
          BY <3>2, <4>2
        <5>2. r.kind = "verified" => \E c \in Commands : <<c, content>> \in passed
          BY <3>1, <3>2, <4>2 DEF Runs
        <5> QED BY <4>1, <4>2, <5>1, <5>2, DebugStepOK
      <4>4. /\ method' = [method EXCEPT ![t] = Loaded(t)]
            /\ cycle' = [cycle EXCEPT ![t] = CycleOf(t)]
            /\ debug' = [debug EXCEPT ![t] = d]
            /\ run' = None /\ UNCHANGED <<fileVars, planVars, passed, failed>>
        BY <2>8, <3>5 DEF RecordRun, DebugRow, r
      <4> HIDE DEF d, t
      <4> QED BY <3>1, <3>5, <4>1, <4>3, <4>4, RowStep DEF fileVars, planVars, IInv, ExecTypeOK
    <3> QED BY <3>3, <3>4, <3>5
  <2>9. ASSUME NEW t \in Todos, NEW s \in Statuses, SetStatus(t, s) PROVE IInv'
    <3>1. status' = [status EXCEPT ![t] = s] /\ status' \in [Todos -> Statuses]
      BY <2>9 DEF SetStatus, IInv, ExecTypeOK
    <3>2. CASE s = "completed"
      <4>1. Loadable(t)
        BY <2>9, <3>2 DEF SetStatus, CompletionCheck
      <4>2. /\ DebugOf(t) \in Debugs /\ DebugOK(DebugOf(t))
            /\ CycleOf(t) \in Cycles /\ CycleOK(CycleOf(t))
        BY <4>1, LoadedType
      <4>3. /\ method' = [method EXCEPT ![t] = Loaded(t)]
            /\ cycle' = [cycle EXCEPT ![t] = CycleOf(t)]
            /\ debug' = [debug EXCEPT ![t] = DebugOf(t)]
            /\ freezing' = TRUE
            /\ UNCHANGED <<fileVars, run, envelope, profile, window, frozen, passed, failed>>
        BY <2>9, <3>2 DEF SetStatus
      <4> QED BY <3>1, <4>1, <4>2, <4>3, RowStep DEF fileVars, IInv, ExecTypeOK
    <3>3. CASE s # "completed"
      <4>1. UNCHANGED <<content, revision, method, cycle, debug, run, envelope, profile, window,
                        freezing, frozen, passed, failed>>
        BY <2>9, <3>3 DEF SetStatus, fileVars, IInv, ExecTypeOK
      <4> QED BY <3>1, <4>1 DEF IInv, ExecTypeOK, RunOK, CycleOK, DebugOK, MethodOK
    <3> QED BY <3>2, <3>3
  <2>10. ASSUME NEW p \in GovernanceProfiles, ApplyProfile(p) PROVE IInv'
    BY <2>10 DEF ApplyProfile, fileVars, IInv, ExecTypeOK, RunOK, CycleOK, DebugOK, MethodOK
  <2>11. ASSUME NEW r \in Revisions, RevisePlan(r) PROVE IInv'
    BY <2>11 DEF RevisePlan, planVars, IInv, ExecTypeOK, RunOK, CycleOK, DebugOK, MethodOK
  <2>12. CASE Freeze \/ FreezeLost
    <3>1. UNCHANGED <<content, revision, method, cycle, debug, run, envelope, status, profile,
                      passed, failed>>
      BY <2>12 DEF Freeze, FreezeLost, fileVars
    <3>2. \/ freezing' = FALSE /\ window' = "FROZEN" /\ frozen' = TRUE
          \/ freezing' = FALSE /\ UNCHANGED <<window, frozen>>
      BY <2>12 DEF Freeze, FreezeLost
    <3>3. CASE freezing' = FALSE /\ window' = "FROZEN" /\ frozen' = TRUE
      BY <3>1, <3>3 DEF IInv, ExecTypeOK, RunOK, CycleOK, DebugOK, MethodOK
    <3>4. CASE freezing' = FALSE /\ UNCHANGED <<window, frozen>>
      BY <3>1, <3>4 DEF IInv, ExecTypeOK, RunOK, CycleOK, DebugOK, MethodOK
    <3> QED BY <3>2, <3>3, <3>4
  <2>13. CASE UNCHANGED vars
    BY <2>13 DEF vars, IInv, ExecTypeOK, RunOK, CycleOK, DebugOK, MethodOK
  <2> QED BY <2>1, <2>2, <2>3, <2>4, <2>5, <2>6, <2>7, <2>8, <2>9, <2>10, <2>11, <2>12, <2>13
         DEF Next
<1> QED BY <1>1, <1>2, PTL DEF Spec

\* The types, and that no row counts for a todo without a stored method.
THEOREM ExecTypes == Spec => []ExecTypeOK
<1>1. IInv => ExecTypeOK
  BY DEF IInv
<1> QED BY <1>1, Invariance, PTL

\* What is known when a todo completes.
LEMMA Completion ==
    ASSUME IInv, NEW t \in Todos, [Next]_vars, Completes(t)
    PROVE  /\ CompletionCheck(t) /\ method'[t] = Loaded(t) /\ debug'[t] = DebugOf(t)
           /\ CycleOK(CycleOf(t)) /\ DebugOK(DebugOf(t)) /\ MethodOK(t, Loaded(t))
           /\ Loaded(t).revision = revision /\ CycleOf(t) \in Cycles /\ content \in Contents
<1>1. ~UNCHANGED status
  BY DEF Completes
<1>2. PICK u \in Todos, s \in Statuses : SetStatus(u, s)
  BY <1>1 DEF Next, vars, Classify, Migrate, TddEvent, CreateEnvelope, DebugEvent, RunCommand,
              Edit, RecordRun, Freeze, FreezeLost, ApplyProfile, RevisePlan, planVars
<1>3. u = t /\ s = "completed"
  BY <1>2 DEF SetStatus, Completes, IInv, ExecTypeOK
<1>4. CompletionCheck(t) /\ Loadable(t)
  BY <1>2, <1>3 DEF SetStatus, CompletionCheck
<1>5. method'[t] = Loaded(t) /\ debug'[t] = DebugOf(t)
  BY <1>2, <1>3 DEF SetStatus, IInv, ExecTypeOK
<1> QED BY <1>4, <1>5, LoadedType DEF IInv, ExecTypeOK

\* A completed todo was tested on the content it completes on.
THEOREM TestedTheorem == Spec => CompletedWasTested
<1>1. IInv /\ [Next]_vars =>
        \A t \in Todos : Completes(t) /\ TddNeeded(method'[t].method)
            => \E c \in failed : <<c, content>> \in passed
  <2> SUFFICES ASSUME IInv, [Next]_vars, NEW t \in Todos, Completes(t),
                      TddNeeded(method'[t].method)
               PROVE  \E c \in failed : <<c, content>> \in passed
    OBVIOUS
  <2>1. TddPasses(Loaded(t).method, CycleOf(t), content) /\ TddNeeded(Loaded(t).method)
    BY Completion DEF CompletionCheck
  <2>2. CycleOf(t).at \in {"GREEN", "REFACTOR"} /\ CycleOf(t).success = content
    BY <2>1 DEF TddPasses, TddNeeded
  <2> QED BY <2>2, Completion DEF CycleOK
<1> QED BY <1>1, Invariance, PTL DEF Spec, CompletedWasTested

\* A completed bug fix was reproduced and verified, and was not escalated.
THEOREM DebuggedTheorem == Spec => CompletedBugWasDebugged
<1>1. IInv /\ [Next]_vars =>
        \A t \in Todos : Completes(t) /\ Text[revision][t].bug
            => /\ failed # {} /\ \E c \in Commands : <<c, content>> \in passed
               /\ debug'[t].fails < FixLimit
  <2> SUFFICES ASSUME IInv, [Next]_vars, NEW t \in Todos, Completes(t), Text[revision][t].bug
               PROVE  /\ failed # {} /\ \E c \in Commands : <<c, content>> \in passed
                      /\ debug'[t].fails < FixLimit
    OBVIOUS
  <2>1. DebugPasses(Loaded(t).method, DebugOf(t), content) /\ Loaded(t).method.debug = "REQUIRED"
    BY Completion DEF CompletionCheck, MethodOK
  <2>2. /\ DebugOf(t).rooted # {} /\ DebugOf(t).verified = content
        /\ DebugOf(t).fails < FixLimit
    BY <2>1 DEF DebugPasses
  <2>3. content # None
    BY Completion, TodoAssumption
  <2> QED BY <2>2, <2>3, Completion DEF DebugOK
<1> QED BY <1>1, Invariance, PTL DEF Spec, CompletedBugWasDebugged

\* Once the freeze of a completion has come through, the governance profile of the work
\* never goes down.
THEOREM ProfileTheorem == Spec => CompletedKeepsProfile
<1>1. IInv /\ [Next]_vars =>
        (frozen => Rank(profile') >= Rank(profile))
  <2> SUFFICES ASSUME IInv, [Next]_vars, frozen
               PROVE  Rank(profile') >= Rank(profile)
    OBVIOUS
  <2>1. window # "PROVISIONAL"
    BY DEF IInv
  <2>2. ASSUME NEW p \in GovernanceProfiles, ApplyProfile(p) PROVE Rank(profile') >= Rank(profile)
    BY <2>1, <2>2 DEF ApplyProfile, CanTransition
  <2>3. ASSUME UNCHANGED profile PROVE Rank(profile') >= Rank(profile)
    <3>1. Rank(profile) \in Nat
      BY DEF Rank, Ranks, GovernanceProfiles, IInv, ExecTypeOK
    <3> QED BY <2>3, <3>1
  <2> QED BY <2>2, <2>3 DEF Next, vars, Classify, Migrate, TddEvent, CreateEnvelope, DebugEvent,
             RunCommand, Edit, RecordRun, SetStatus, Freeze, FreezeLost, RevisePlan, planVars
<1> QED BY <1>1, Invariance, PTL DEF Spec, CompletedKeepsProfile
=============================================================================
