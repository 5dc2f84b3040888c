------------------------- MODULE AgentSession_proofs -------------------------
(***************************************************************************)
(* Proofs about the stages of one work item: its route (WorkRouting), the  *)
(* review of its Plan (PlanReview), the delivery of the Plan (PlanDelivery *)
(* and DeliveryRun), the managed model calls (ModelDispatch) and the       *)
(* acceptance of its claims (Acceptance).  They hold for any work, any     *)
(* Plan and any bounds.  The stages share no state: each part below has    *)
(* types, an inductive invariant and theorems of its own.                  *)
(*                                                                         *)
(* Delivery: FinalIsProven speaks of the moment a guard was verified; what *)
(* makes it inductive is what the guard knew when it was captured          *)
(* (FinalGuard) and that a commit changes nothing but the paths it names   *)
(* (CommitsKeepRest).  Acceptance: a claim counts for what was delivered   *)
(* because a record remembers which files ran (RecordsRan), and a         *)
(* verification that is still steady has the Plan and the environment of   *)
(* its preflight (UnderwayIsBound).                                        *)
(***************************************************************************)
EXTENDS DeliveryRun, WorkRouting, PlanReview, ModelDispatch, Acceptance, TLAPS

-----------------------------------------------------------------------------
(* PlanDelivery and DeliveryRun: for any Change Matrix, gates, todos and   *)
(* bounds.                                                                 *)

\* In words: a commit has the tree of its parent outside the paths it names.
CommitsKeepRest ==
    \A i \in 1..Len(commits) :
        /\ commits[i].parent \in 0..Len(commits)
        /\ commits[i].parent # 0 =>
             \A p \in Paths \ commits[i].paths :
                 commits[i].tree.file[p] = commits[commits[i].parent].tree.file[p]

\* In words: a guard captured as FINAL was captured when every gate had passed
\* on its scope, and the planned files it does not allow were in that scope as
\* the commit below has them.
FinalGuard ==
    guard # None =>
        /\ guard.headBefore \in 1..Len(commits)
        /\ guard.verified # None => guard.verified \in 1..Len(commits)
        /\ guard.final => guard.verified # None
        /\ guard.allowed \cap Paths \subseteq Planned
        /\ guard.kind = "FINAL" =>
             /\ \A g \in Gates : /\ guard.proof[g] # None /\ guard.proof[g].pass
                                 /\ guard.proof[g].scope = guard.scope
             /\ "plan" \in guard.allowed
             /\ \A p \in Planned \ guard.allowed :
                  commits[guard.headBefore].tree.file[p] = guard.scope.planned[p]

IInv == TypeOK /\ BaselineIsHead /\ CommitsKeepRest /\ FinalGuard /\ FinalIsProven

\* Types of what is read from the working copy: the scope of the Plan,
LEMMA ScopeType == tree \in Trees => ScopeFingerprint \in Scopes
BY DEF Trees, ScopeFingerprint, ScopeOf, Scopes, Paths

\* what lies around it,
LEMMA AmbientType ==
    ASSUME tree \in Trees, NEW S \in SUBSET Others
    PROVE  Snapshot(S) \in Snapshots
<1>1. \A p \in S : tree.file[p] \in Versions
  BY DEF Trees, Paths
<1>2. \A p \in S : <<tree.file[p], p \in DirtyPaths>> \in Versions \X BOOLEAN
  <2> TAKE p \in S
  <2>1. (p \in DirtyPaths) \in BOOLEAN
    OBVIOUS
  <2> QED BY <1>1, <2>1
<1>3. Snapshot(S) \in [S -> Versions \X BOOLEAN]
  BY <1>2 DEF Snapshot
<1> QED BY <1>3 DEF Snapshots

\* what the baseline compares of that,
LEMMA FingerprintType ==
    ASSUME tree \in Trees, baseline \in Baselines
    PROVE  AmbientPaths \in SUBSET Others /\ AmbientFingerprint \in Snapshots
<1>1. AmbientPaths \in SUBSET Others
  <2>1. PICK S \in SUBSET Others : baseline.ambient \in [S -> Versions \X BOOLEAN]
    BY DEF Baselines, Snapshots
  <2> QED BY <2>1 DEF AmbientPaths
<1> QED BY <1>1, AmbientType DEF AmbientFingerprint

\* the record of a gate,
LEMMA RecordType ==
    ASSUME tree \in Trees, baseline \in Baselines, NEW b \in BOOLEAN
    PROVE  Record(b) \in Records
BY ScopeType, FingerprintType DEF Record, Records

\* what a commit makes of the tree,
LEMMA TreeWithType ==
    ASSUME WsTypeOK, NEW S \in SUBSET Committable
    PROVE  TreeWith(S) \in Trees /\ S \in SUBSET (Paths \cup {"plan", "manifest"})
<1>1. commits[head] \in Objects /\ tree \in Trees
  BY DEF WsTypeOK
<1>3. HeadTree \in Trees
  BY <1>1 DEF HeadTree, Objects
<1>2. S \in SUBSET (Paths \cup {"plan", "manifest"})
  BY DEF Committable, DirtyPaths
<1> QED BY <1>1, <1>2, <1>3 DEF TreeWith, Trees

\* and a frozen baseline.
LEMMA WorkspaceInitType ==
    ASSUME WsTypeOK, WorkspaceInit
    PROVE  baseline' \in Baselines
<1>1. DirtyPaths \ Planned \in SUBSET Others
  BY DEF DirtyPaths, Paths
<1>2. tree \in Trees /\ head \in 1..MaxCommits
  BY WorkspaceAssumption DEF WsTypeOK
<1> QED BY <1>1, <1>2, AmbientType DEF WorkspaceInit, Baselines, Trees, Paths

\* The first state is well typed.
LEMMA TypeInit == Init => TypeOK
<1> SUFFICES ASSUME Init PROVE TypeOK
  OBVIOUS
<1> USE WorkspaceAssumption
<1>1. \A f \in [Paths -> Versions] : InitialTree(f) \in Trees
  BY DEF InitialTree, Trees
<1>2. [p \in Paths |-> 0] \in [Paths -> Versions]
  BY DEF Versions
<1>3. tree \in Trees /\ tree.manifest = None
  BY <1>1 DEF Init, WsInit, InitialTree
<1>4. [tree |-> InitialTree([p \in Paths |-> 0]), parent |-> 0, paths |-> {},
       history |-> {1}] \in Objects
  BY <1>1, <1>2 DEF Objects
<1>5. WsTypeOK
  <2>1. commits \in Seq(Objects) /\ Len(commits) = 1 /\ commits[1].parent = 0
    BY <1>4 DEF Init, WsInit
  <2> QED BY <1>3, <2>1 DEF Init, WsInit, WsTypeOK
<1> QED BY <1>3, <1>5 DEF Init, TypeOK

\* Every step keeps the types.
LEMMA TypeStep == TypeOK /\ [Next]_vars => TypeOK'
<1> SUFFICES ASSUME TypeOK, [Next]_vars PROVE TypeOK'
  OBVIOUS
<1> USE WorkspaceAssumption, GatesAssumption DEF TypeOK, WsTypeOK
<1>1. ASSUME NEW p \in Paths, NEW v \in Versions, Edit(p, v), UNCHANGED recordVars PROVE TypeOK'
  <2>1. tree' \in Trees /\ tree'.manifest = tree.manifest
    <3>1. tree.file \in [Paths -> Versions] /\ tree' = [tree EXCEPT !.file = [tree.file EXCEPT ![p] = v]]
      BY <1>1 DEF Edit, Trees
    <3>2. [tree.file EXCEPT ![p] = v] \in [Paths -> Versions]
      BY <3>1
    <3> QED BY <3>1, <3>2 DEF Trees
  <2> QED BY <1>1, <2>1 DEF Edit, Move, recordVars
<1>2. ASSUME NEW r \in 0..MaxRevision, RevisePlan(r), UNCHANGED recordVars PROVE TypeOK'
  BY <1>2 DEF RevisePlan, Move, Trees, recordVars
<1>3. ASSUME NEW S \in SUBSET Committable, Commit(S), UNCHANGED recordVars PROVE TypeOK'
  <2> DEFINE c == [tree |-> TreeWith(S), parent |-> head, paths |-> S,
                   history |-> commits[head].history \cup {Len(commits) + 1}]
  <2>1. commits[head] \in Objects /\ Len(commits) + 1 \in 1..MaxCommits
    BY <1>3 DEF Commit
  <2>2. c \in Objects
    <3>1. commits[head].history \cup {Len(commits) + 1} \in SUBSET (1..MaxCommits)
      BY <2>1 DEF Objects
    <3>2. head \in 0..MaxCommits
      OBVIOUS
    <3> QED BY <3>1, <3>2, TreeWithType DEF Objects
  <2>3. commits' = Append(commits, c) /\ head' = Len(commits) + 1
    BY <1>3 DEF Commit
  <2>4. commits' \in Seq(Objects) /\ Len(commits') = Len(commits) + 1
    BY <2>2, <2>3
  <2>5. \A i \in 1..Len(commits') : commits'[i].parent < i
    BY <2>3, <2>4
  <2> QED BY <1>3, <2>1, <2>3, <2>4, <2>5 DEF Commit, Move, recordVars
<1>4. ASSUME TakeBack, UNCHANGED recordVars PROVE TypeOK'
  <2>1. commits[head] \in Objects /\ commits[head].parent < head
    OBVIOUS
  <2>2. head' \in 1..Len(commits)
    BY <1>4, <2>1 DEF TakeBack, Objects
  <2> QED BY <1>4, <2>2 DEF TakeBack, Move, recordVars
<1>5. ASSUME WorkspaceInit, UNCHANGED recordVars PROVE TypeOK'
  BY <1>5, WorkspaceInitType, NoBaselineAssumption DEF WorkspaceInit, recordVars
<1>6. ASSUME NEW t \in Todos, NEW b \in BOOLEAN, SetTodo(t, b) PROVE TypeOK'
  BY <1>6 DEF SetTodo, Trees, recordVars
<1>7. ASSUME NEW b \in BOOLEAN, RecordPlanReview(b) PROVE TypeOK'
  BY <1>7 DEF RecordPlanReview, wsVars, Trees
<1>8. ASSUME NEW g \in Judged, NEW b \in BOOLEAN, RecordGate(g, b) PROVE TypeOK'
  BY <1>8, RecordType DEF RecordGate, wsVars, Stable, Gates
<1>9. ASSUME CaptureCandidate PROVE TypeOK'
  BY <1>9, ScopeType DEF CaptureCandidate, wsVars, Stable
<1>10. ASSUME NEW v \in Verifications, StartVerification(v) PROVE TypeOK'
  BY <1>10, RecordType DEF StartVerification, wsVars, Stable
<1>11. ASSUME NEW v \in Verifications, NEW b \in BOOLEAN, FinishVerification(v, b) PROVE TypeOK'
  BY <1>11 DEF FinishVerification, wsVars, Records, Gates
<1>12. ASSUME BuildManifest PROVE TypeOK'
  BY <1>12, ScopeType, FingerprintType DEF BuildManifest, Stable, recordVars, Trees, Prints
<1>13. ASSUME NEW k \in Kinds, CaptureGuard(k) PROVE TypeOK'
  BY <1>13, ScopeType, FingerprintType
     DEF CaptureGuard, wsVars, Guards, AllowedPaths, RequiredPaths, ScopeChanged, Paths
<1>14. ASSUME NEW k \in Kinds, VerifyGuard(k) PROVE TypeOK'
  <2>1. (k = "FINAL") \in BOOLEAN
    OBVIOUS
  <2>2. guard \in Guards /\ head \in 1..MaxCommits
    BY <1>14 DEF VerifyGuard
  <2>3. guard' \in Guards
    BY <1>14, <2>1, <2>2 DEF VerifyGuard, Guards
  <2> QED BY <1>14, <2>3 DEF VerifyGuard, wsVars
<1>15. CASE UNCHANGED vars
  BY <1>15 DEF vars, wsVars, recordVars
<1> QED BY <1>1, <1>2, <1>3, <1>4, <1>5, <1>6, <1>7, <1>8, <1>9, <1>10, <1>11, <1>12, <1>13,
           <1>14, <1>15 DEF Next, PersonNext, RecordNext, GuardNext

\* In words: a commit object never changes.
LEMMA CommitsGrow ==
    ASSUME TypeOK, [Next]_vars
    PROVE  /\ Len(commits') >= Len(commits)
           /\ \A i \in 1..Len(commits) : commits'[i] = commits[i]
<1> USE DEF TypeOK, WsTypeOK
<1>1. ASSUME NEW S \in SUBSET Committable, Commit(S)
      PROVE  /\ Len(commits') >= Len(commits)
             /\ \A i \in 1..Len(commits) : commits'[i] = commits[i]
  BY <1>1 DEF Commit
<1>2. CASE UNCHANGED commits
  BY <1>2
<1> QED BY <1>1, <1>2 DEF Next, PersonNext, RecordNext, GuardNext, vars, wsVars, recordVars,
           Edit, RevisePlan, TakeBack, WorkspaceInit, SetTodo, RecordPlanReview, RecordGate,
           CaptureCandidate, StartVerification, FinishVerification, BuildManifest, CaptureGuard,
           VerifyGuard

\* Every step keeps the baseline what the commit it names shows.
LEMMA BaselineStep == TypeOK /\ BaselineIsHead /\ [Next]_vars => BaselineIsHead'
<1> SUFFICES ASSUME TypeOK, BaselineIsHead, [Next]_vars PROVE BaselineIsHead'
  OBVIOUS
<1>1. CASE WorkspaceInit
  <2>1. \A p \in Planned : tree.file[p] = commits[head].tree.file[p]
    BY <1>1 DEF WorkspaceInit, Conflicts, DirtyPaths, HeadTree, Paths
  <2>2. baseline'.base = head /\ head \in 1..Len(commits)
    BY <1>1 DEF WorkspaceInit, TypeOK, WsTypeOK
  <2>3. \A p \in Planned : baseline'.planned[p] = tree.file[p]
    BY <1>1 DEF WorkspaceInit
  <2>4. \A p \in DOMAIN baseline'.ambient : baseline'.ambient[p][2]
    BY <1>1 DEF WorkspaceInit, Snapshot
  <2>5. commits' = commits
    BY <1>1 DEF WorkspaceInit
  <2> QED BY <2>1, <2>2, <2>3, <2>4, <2>5 DEF BaselineIsHead, AmbientPaths
<1>2. CASE UNCHANGED baseline
  BY <1>2, CommitsGrow DEF BaselineIsHead, AmbientPaths, TypeOK, WsTypeOK
<1> QED BY <1>1, <1>2 DEF Next, PersonNext, RecordNext, GuardNext, vars, wsVars, recordVars,
           Edit, RevisePlan, Commit, TakeBack, SetTodo, RecordPlanReview, RecordGate,
           CaptureCandidate, StartVerification, FinishVerification, BuildManifest, CaptureGuard,
           VerifyGuard

\* A new commit has what it does not name from its parent; old commits stay.
LEMMA CommitsStep == TypeOK /\ CommitsKeepRest /\ [Next]_vars => CommitsKeepRest'
<1> SUFFICES ASSUME TypeOK, CommitsKeepRest, [Next]_vars PROVE CommitsKeepRest'
  OBVIOUS
<1> USE DEF TypeOK, WsTypeOK
<1>1. ASSUME NEW S \in SUBSET Committable, Commit(S) PROVE CommitsKeepRest'
  <2> DEFINE n == Len(commits) + 1
  <2>1. /\ Len(commits') = n /\ commits'[n].parent = head /\ commits'[n].paths = S
        /\ commits'[n].tree = TreeWith(S)
        /\ \A i \in 1..Len(commits) : commits'[i] = commits[i]
    BY <1>1 DEF Commit
  <2>2. \A p \in Paths \ S : TreeWith(S).file[p] = commits[head].tree.file[p]
    BY DEF TreeWith, HeadTree
  <2>3. ASSUME NEW i \in 1..Len(commits) 
        PROVE  /\ commits'[i].parent \in 0..Len(commits')
               /\ commits'[i].parent # 0 =>
                    \A p \in Paths \ commits'[i].paths :
                      commits'[i].tree.file[p] = commits'[commits'[i].parent].tree.file[p]
    BY <2>1 DEF CommitsKeepRest
  <2>4. /\ commits'[n].parent \in 0..Len(commits')
        /\ \A p \in Paths \ commits'[n].paths :
             commits'[n].tree.file[p] = commits'[commits'[n].parent].tree.file[p]
    BY <2>1, <2>2
  <2> QED BY <2>1, <2>3, <2>4 DEF CommitsKeepRest
<1>2. CASE UNCHANGED commits
  BY <1>2 DEF CommitsKeepRest
<1> QED BY <1>1, <1>2 DEF Next, PersonNext, RecordNext, GuardNext, vars, wsVars, recordVars,
           Edit, RevisePlan, TakeBack, WorkspaceInit, SetTodo, RecordPlanReview, RecordGate,
           CaptureCandidate, StartVerification, FinishVerification, BuildManifest, CaptureGuard,
           VerifyGuard

\* In words: what the invariants say of a guard depends on it and on commits only.
LEMMA GuardKept ==
    ASSUME TypeOK, FinalGuard, FinalIsProven, [Next]_vars, UNCHANGED guard
    PROVE  FinalGuard' /\ FinalIsProven'
<1>1. FinalGuard'
  BY CommitsGrow DEF FinalGuard, TypeOK, WsTypeOK
<1>2. FinalIsProven'
  BY CommitsGrow DEF FinalGuard, FinalIsProven, TypeOK, WsTypeOK
<1> QED BY <1>1, <1>2

\* A guard captured as FINAL knows that every gate passed on its scope.
LEMMA CaptureStep ==
    ASSUME TypeOK, BaselineIsHead, NEW k \in Kinds, CaptureGuard(k)
    PROVE  FinalGuard' /\ FinalIsProven'
<1>1. guard'.final = FALSE /\ guard'.verified = None /\ guard'.headBefore = head
      /\ guard'.kind = k /\ guard'.proof = gates /\ guard'.scope = ScopeFingerprint
      /\ guard'.allowed = AllowedPaths /\ commits' = commits
  BY DEF CaptureGuard, wsVars
<1>2. head \in 1..Len(commits)
  BY DEF TypeOK, WsTypeOK
<1>3. ASSUME k = "FINAL"
      PROVE  /\ \A g \in Gates : /\ gates[g] # None /\ gates[g].pass
                                 /\ gates[g].scope = ScopeFingerprint
             /\ \A p \in Planned \ AllowedPaths :
                  commits[head].tree.file[p] = ScopeFingerprint.planned[p]
  <2>1. DeliveryReady
    BY <1>3 DEF CaptureGuard, MayCapture
  <2>2. \A g \in Gates : Fresh(gates[g])
    BY <2>1 DEF DeliveryReady, GateFresh
  <2>3. head = baseline.base /\ baseline # None
    BY <2>1 DEF DeliveryReady, Stable, HeadStable
  <2>4. \A p \in Planned \ AllowedPaths : tree.file[p] = baseline.planned[p]
    BY DEF AllowedPaths, ScopeChanged
  <2> QED BY <2>2, <2>3, <2>4 DEF Fresh, BaselineIsHead, ScopeFingerprint, ScopeOf
<1>4. "plan" \in AllowedPaths /\ AllowedPaths \cap Paths \subseteq Planned
  BY WorkspaceAssumption DEF AllowedPaths, ScopeChanged, Paths
<1> QED BY <1>1, <1>2, <1>3, <1>4 DEF FinalGuard, FinalIsProven

\* A FINAL guard that verifies a commit finds the proven scope in it.
LEMMA VerifyStep ==
    ASSUME TypeOK, CommitsKeepRest, FinalGuard, NEW k \in Kinds, VerifyGuard(k)
    PROVE  FinalGuard' /\ FinalIsProven'
<1> USE WorkspaceAssumption
<1>1. guard \in Guards /\ guard # None /\ head \in 1..Len(commits) /\ commits' = commits
  BY DEF VerifyGuard, TypeOK, WsTypeOK, wsVars
<1>2. /\ guard' = [guard EXCEPT !.verified = head, !.final = (k = "FINAL")]
  BY DEF VerifyGuard
<1>3. /\ guard'.kind = guard.kind /\ guard'.scope = guard.scope /\ guard'.proof = guard.proof
      /\ guard'.allowed = guard.allowed /\ guard'.headBefore = guard.headBefore
      /\ guard'.verified = head /\ guard'.final = (k = "FINAL") /\ guard' # None
  <2>1. guard' \in Guards
    <3>1. (k = "FINAL") \in BOOLEAN /\ head \in 1..MaxCommits
      BY <1>1 DEF TypeOK, WsTypeOK
    <3> QED BY <1>1, <1>2, <3>1 DEF Guards
  <2> QED BY <1>1, <1>2, <2>1, GatesAssumption DEF Guards
<1>4. FinalGuard'
  BY <1>1, <1>3 DEF FinalGuard
<1>5. FinalIsProven'
  <2> SUFFICES ASSUME guard.kind = "FINAL", k = "FINAL"
               PROVE  LET c == commits[head]
                          b == commits[guard.headBefore]
                      IN /\ \A g \in Gates : guard.proof[g] # None /\ guard.proof[g].pass
                                             /\ guard.proof[g].scope = guard.scope
                         /\ c.paths \subseteq guard.allowed
                         /\ \A p \in guard.allowed \cap Planned :
                              c.tree.file[p] = guard.scope.planned[p]
                         /\ c.tree.sem = guard.scope.sem
                         /\ c.parent = guard.headBefore =>
                              \A p \in Paths :
                                c.tree.file[p] = IF p \in Planned THEN guard.scope.planned[p]
                                                                  ELSE b.tree.file[p]
    BY <1>1, <1>3 DEF FinalIsProven
  <2>1. FinalChecks(head)
    BY DEF VerifyGuard
  <2>2. guard.scope = ScopeFingerprint /\ commits[head].paths \subseteq guard.allowed
    BY <2>1 DEF FinalChecks
  <2>3. guard.headBefore \in 1..Len(commits) /\ "plan" \in guard.allowed
    BY <1>1 DEF FinalGuard
  <2>4. \A p \in guard.allowed \cap Planned : commits[head].tree.file[p] = tree.file[p]
    BY <2>1 DEF FinalChecks, DirtyPaths, HeadTree, Paths
  <2>5. commits[head].tree.sem = tree.sem
    BY <2>1, <2>3 DEF FinalChecks, PlanDirty, HeadTree
  <2>6. guard.scope.sem = tree.sem /\ \A p \in Planned : guard.scope.planned[p] = tree.file[p]
    BY <2>2 DEF ScopeFingerprint, ScopeOf
  <2>7. \A p \in Planned \ guard.allowed :
          commits[guard.headBefore].tree.file[p] = guard.scope.planned[p]
    BY <1>1 DEF FinalGuard
  <2>8. ASSUME commits[head].parent = guard.headBefore
        PROVE  \A p \in Paths \ guard.allowed :
                 commits[head].tree.file[p] = commits[guard.headBefore].tree.file[p]
    BY <1>1, <2>2, <2>3, <2>8 DEF CommitsKeepRest
  <2>9. \A p \in Paths : p \in guard.allowed => p \in Planned
    BY <1>1 DEF FinalGuard
  <2> QED BY <1>1, <2>2, <2>3, <2>4, <2>5, <2>6, <2>7, <2>8, <2>9 DEF FinalGuard, Paths
<1> QED BY <1>4, <1>5

\* The invariant behind the theorems on deliveries holds in every reachable state.
THEOREM Invariance == Spec => []IInv
<1>1. Init => IInv
  <2> SUFFICES ASSUME Init PROVE IInv
    OBVIOUS
  <2>1. commits[1].parent = 0 /\ Len(commits) = 1 /\ baseline = None /\ guard = None
    BY DEF Init, WsInit
  <2> QED BY <2>1, TypeInit DEF IInv, BaselineIsHead, CommitsKeepRest, FinalGuard, FinalIsProven
<1>2. IInv /\ [Next]_vars => IInv'
  <2> SUFFICES ASSUME IInv, [Next]_vars PROVE IInv'
    OBVIOUS
  <2>1. TypeOK' /\ BaselineIsHead' /\ CommitsKeepRest'
    BY TypeStep, BaselineStep, CommitsStep DEF IInv
  <2>2. FinalGuard' /\ FinalIsProven'
    <3>1. ASSUME NEW k \in Kinds, CaptureGuard(k) PROVE FinalGuard' /\ FinalIsProven'
      BY <3>1, CaptureStep DEF IInv
    <3>2. ASSUME NEW k \in Kinds, VerifyGuard(k) PROVE FinalGuard' /\ FinalIsProven'
      BY <3>2, VerifyStep DEF IInv
    <3>3. CASE UNCHANGED guard
      BY <3>3, GuardKept DEF IInv
    <3> QED BY <3>1, <3>2, <3>3
            DEF Next, PersonNext, RecordNext, GuardNext, vars, wsVars, recordVars, SetTodo,
                RecordPlanReview, RecordGate, CaptureCandidate, StartVerification,
                FinishVerification, BuildManifest
  <2> QED BY <2>1, <2>2 DEF IInv
<1> QED BY <1>1, <1>2, PTL DEF Spec

\* Every reachable state of a delivery is well typed, and no record, run or guard
\* exists before there is a baseline.
THEOREM DeliveryTypes == Spec => []TypeOK
<1>1. IInv => TypeOK
  BY DEF IInv
<1> QED BY <1>1, Invariance, PTL

\* The baseline a Plan is judged by is the commit it was frozen at: no planned file
\* was already changed, every ambient path was already dirty.
THEOREM BaselineTheorem == Spec => []BaselineIsHead
<1>1. IInv => BaselineIsHead
  BY DEF IInv
<1> QED BY <1>1, Invariance, PTL

\* A commit verified as FINAL holds what every gate passed on and nothing else.
THEOREM FinalTheorem == Spec => []FinalIsProven
<1>1. IInv => FinalIsProven
  BY DEF IInv
<1> QED BY <1>1, Invariance, PTL

\* A refresh of the baseline can only rebind it to a revised Plan.
THEOREM RefreshTheorem == Spec => RefreshOnlyRebindsPlan
<1>1. IInv /\ [Next]_vars => [baseline # None => baseline' = [baseline EXCEPT !.sem = baseline'.sem]]_vars
  <2> SUFFICES ASSUME IInv, [Next]_vars, baseline # None
               PROVE  baseline' = [baseline EXCEPT !.sem = baseline'.sem]
    BY DEF vars
  <2>1. baseline \in Baselines /\ tree \in Trees
    BY DEF IInv, TypeOK, WsTypeOK
  <2>2. CASE WorkspaceInit
    <3>1. RefreshAllowed
      BY <2>2 DEF WorkspaceInit
    <3>2. baseline' = [base |-> head, planned |-> [p \in Planned |-> tree.file[p]],
                       ambient |-> Snapshot(DirtyPaths \ Planned), sem |-> tree.sem]
      BY <2>2 DEF WorkspaceInit
    <3>3. head = baseline.base
      BY <3>1 DEF RefreshAllowed, HeadStable
    <3>4. [p \in Planned |-> tree.file[p]] = baseline.planned
      <4>1. \A p \in Planned : tree.file[p] = baseline.planned[p]
        BY <3>1 DEF RefreshAllowed, ScopeChanged
      <4>2. baseline.planned \in [Planned -> Versions]
        BY <2>1 DEF Baselines
      <4> QED BY <4>1, <4>2
    <3>5. Snapshot(DirtyPaths \ Planned) = baseline.ambient
      <4>1. baseline.ambient = Snapshot(AmbientPaths)
        BY <3>1 DEF RefreshAllowed, AmbientStable, AmbientFingerprint
      <4>2. \A p \in AmbientPaths : p \in DirtyPaths
        <5> TAKE p \in AmbientPaths
        <5>1. baseline.ambient[p][2]
          BY DEF IInv, BaselineIsHead
        <5>2. baseline.ambient[p] = <<tree.file[p], p \in DirtyPaths>>
          BY <4>1 DEF Snapshot
        <5>3. <<tree.file[p], p \in DirtyPaths>>[2] = (p \in DirtyPaths)
          OBVIOUS
        <5> QED BY <5>1, <5>2, <5>3, Zenon
      <4>3. AmbientPaths \cap Planned = {}
        BY <2>1, FingerprintType, WorkspaceAssumption
      <4>4. DirtyPaths \ Planned \subseteq AmbientPaths
        BY <3>1 DEF RefreshAllowed, UnexpectedDirty
      <4> QED BY <4>1, <4>2, <4>3, <4>4
    <3> QED BY <2>1, <3>2, <3>3, <3>4, <3>5 DEF Baselines
  <2>3. CASE UNCHANGED baseline
    BY <2>1, <2>3 DEF Baselines
  <2> QED BY <2>2, <2>3
          DEF Next, PersonNext, RecordNext, GuardNext, vars, wsVars, recordVars,
              Edit, RevisePlan, Commit, TakeBack, SetTodo, RecordPlanReview, RecordGate,
              CaptureCandidate, StartVerification, FinishVerification, BuildManifest,
              CaptureGuard, VerifyGuard
<1> QED BY <1>1, Invariance, PTL DEF Spec, RefreshOnlyRebindsPlan

----------------------------------------------------------------------------
(* The delivery state machine *)

\* In words: the delivery with its state file does to everything else what the
\* delivery without it does.
LEMMA RunRefines == RunSpec => Spec
<1>1. RunInit => Init
  BY DEF RunInit
<1>2. [RunNext]_runVars => [Next]_vars
  BY DEF RunNext, Block, Advance, SetCommit, runVars, vars
<1> QED BY <1>1, <1>2, PTL DEF RunSpec, Spec

\* In words: out of a block, the state is the last valid state.
StateIsLast == run.state \in StateSet => run.state = run.last

RunInv == StateIsLast /\ IInv /\ RunTypeOK /\ CommitOnBaseline

\* The states of a delivery have places, and the ones that matter these.
LEMMA IndexFacts ==
    /\ \A s \in StateSet : Index(s) \in 1..11 /\ STATES[Index(s)] = s
    /\ Index("PLAN_CREATED") = 1 /\ Index("IMPLEMENTING") = 4
    /\ Index("IMPLEMENTATION_COMMITTED") = 10 /\ Index("IMPLEMENTED_AND_PROVEN") = 9
<1>1. Len(STATES) = 11
  BY DEF STATES
<1>2. \A s \in StateSet : \E i \in 1..11 : STATES[i] = s
  BY <1>1 DEF StateSet
<1>3. \A s \in StateSet : Index(s) \in 1..11 /\ STATES[Index(s)] = s
  BY <1>1, <1>2 DEF Index
<1>4. /\ \A i \in 1..11 : STATES[i] = "PLAN_CREATED" => i = 1
      /\ \A i \in 1..11 : STATES[i] = "IMPLEMENTING" => i = 4
      /\ \A i \in 1..11 : STATES[i] = "IMPLEMENTATION_COMMITTED" => i = 10
      /\ \A i \in 1..11 : STATES[i] = "IMPLEMENTED_AND_PROVEN" => i = 9
  BY DEF STATES
<1>5. {"PLAN_CREATED", "IMPLEMENTING", "IMPLEMENTATION_COMMITTED", "IMPLEMENTED_AND_PROVEN"}
        \subseteq StateSet
  <2>1. /\ STATES[1] = "PLAN_CREATED" /\ STATES[4] = "IMPLEMENTING"
        /\ STATES[10] = "IMPLEMENTATION_COMMITTED" /\ STATES[9] = "IMPLEMENTED_AND_PROVEN"
    BY DEF STATES
  <2> QED BY <1>1, <2>1 DEF StateSet
<1> QED BY <1>3, <1>4, <1>5

\* The state file names the last state of the history, whatever is asked of it.
LEMMA StateIsLastStep ==
    ASSUME RunTypeOK, StateIsLast, [RunNext]_runVars
    PROVE  StateIsLast'
<1>1. ASSUME NEW s \in BLOCKED, Block(s) PROVE StateIsLast'
  BY <1>1, BlockedAssumption DEF Block, RunTypeOK, StateIsLast
<1>2. ASSUME NEW s \in StateSet, Advance(s) PROVE StateIsLast'
  BY <1>2 DEF Advance, RunTypeOK, StateIsLast
<1>3. ASSUME NEW c \in 1..Len(commits), SetCommit(c) PROVE StateIsLast'
  BY <1>3 DEF SetCommit, StateIsLast
<1>4. CASE UNCHANGED run
  BY <1>4 DEF StateIsLast
<1> QED BY <1>1, <1>2, <1>3, <1>4 DEF RunNext, runVars

\* The invariant of the delivery states, on top of that of the working copy.
LEMMA RunInvariance == RunSpec => []RunInv
<1>1. RunInit => RunTypeOK /\ CommitOnBaseline /\ StateIsLast
  <2> SUFFICES ASSUME RunInit PROVE RunTypeOK /\ CommitOnBaseline /\ StateIsLast
    OBVIOUS
  <2>1. "PLAN_CREATED" \in StateSet
    BY DEF StateSet, STATES
  <2> QED BY <2>1, IndexFacts DEF RunInit, RunTypeOK, CommitOnBaseline, StateIsLast
<1>2. IInv /\ RunTypeOK /\ CommitOnBaseline /\ [RunNext]_runVars => RunTypeOK' /\ CommitOnBaseline'
  <2> SUFFICES ASSUME IInv, RunTypeOK, CommitOnBaseline, [RunNext]_runVars
               PROVE  RunTypeOK' /\ CommitOnBaseline'
    OBVIOUS
  <2>1. TypeOK /\ WsTypeOK
    BY DEF IInv, TypeOK
  <2>2. CASE Next /\ UNCHANGED run
    <3>1. baseline # None => baseline' # None
      <4>2. CASE WorkspaceInit
        BY <4>2, <2>1, WorkspaceInitType, NoBaselineAssumption
      <4>3. CASE UNCHANGED baseline
        BY <4>3
      <4> QED BY <2>2, <4>2, <4>3
              DEF Next, PersonNext, RecordNext, GuardNext, vars, wsVars, recordVars,
                  Edit, RevisePlan, Commit, TakeBack, SetTodo, RecordPlanReview, RecordGate,
                  CaptureCandidate, StartVerification, FinishVerification, BuildManifest,
                  CaptureGuard, VerifyGuard
    <3>2. Len(commits') >= Len(commits) /\ Len(commits) \in Nat /\ Len(commits') \in Nat
      BY <2>1, <2>2, CommitsGrow, TypeStep DEF TypeOK, WsTypeOK
    <3> QED BY <2>2, <3>1, <3>2 DEF RunTypeOK, CommitOnBaseline
  <2>3. ASSUME NEW s \in BLOCKED, Block(s) PROVE RunTypeOK' /\ CommitOnBaseline'
    BY <2>3 DEF Block, RunTypeOK, CommitOnBaseline, vars, wsVars
  <2>4. ASSUME NEW s \in StateSet, Advance(s) PROVE RunTypeOK' /\ CommitOnBaseline'
    <3>1. run' \in [state : StateSet \cup BLOCKED, last : StateSet, commit : 1..MaxCommits \cup {None}]
          /\ run'.last = s /\ run'.commit = run.commit
      BY <2>4 DEF Advance, RunTypeOK
    <3>2. run.last \in StateSet
      BY DEF RunTypeOK
    <3>3. Index(run.last) \in 1..11 /\ Index(s) \in {Index(run.last), Index(run.last) + 1}
      BY <2>4, <3>2, IndexFacts DEF Advance
    <3>4. Index(s) >= 4 => baseline # None
      <4>1. CASE Index(run.last) >= 4
        BY <4>1, IndexFacts DEF CommitOnBaseline
      <4>2. CASE Index(run.last) < 4
        <5> SUFFICES ASSUME Index(s) >= 4 PROVE baseline # None
          OBVIOUS
        <5>1. Index(s) = 4
          BY <3>3, <4>2
        <5>2. STATES[4] = "IMPLEMENTING"
          BY DEF STATES
        <5>3. s = "IMPLEMENTING"
          BY <5>1, <5>2, IndexFacts
        <5> QED BY <2>4, <5>3 DEF Advance
      <4> QED BY <3>3, <4>1, <4>2
    <3>5. baseline' = baseline /\ commits' = commits
      BY <2>4 DEF Advance, vars, wsVars
    <3>6. run.commit # None => Index(s) >= 10
      BY <3>3, IndexFacts DEF CommitOnBaseline
    <3> QED BY <3>1, <3>4, <3>5, <3>6, IndexFacts DEF RunTypeOK, CommitOnBaseline
  <2>5. ASSUME NEW c \in 1..Len(commits), SetCommit(c) PROVE RunTypeOK' /\ CommitOnBaseline'
    <3>1. STATES[10] = "IMPLEMENTATION_COMMITTED" /\ "IMPLEMENTATION_COMMITTED" \in StateSet
      BY DEF STATES, StateSet
    <3>2. c \in 1..MaxCommits /\ guard # None /\ baseline # None
      BY <2>1, <2>5, WorkspaceAssumption DEF SetCommit, TypeOK, WsTypeOK
    <3>3. baseline' = baseline /\ commits' = commits
      BY <2>5 DEF SetCommit, vars, wsVars
    <3> QED BY <2>5, <3>1, <3>2, <3>3, IndexFacts DEF SetCommit, RunTypeOK, CommitOnBaseline
  <2>6. CASE UNCHANGED runVars
    BY <2>6 DEF runVars, vars, wsVars, RunTypeOK, CommitOnBaseline
  <2> QED BY <2>2, <2>3, <2>4, <2>5, <2>6 DEF RunNext
<1>3. RunSpec => []IInv
  BY RunRefines, Invariance, PTL
<1>4. RunTypeOK /\ StateIsLast /\ [RunNext]_runVars => StateIsLast'
  BY StateIsLastStep
<1> QED BY <1>1, <1>2, <1>3, <1>4, PTL DEF RunSpec, RunInv

\* The state file of a delivery is always well typed: its last valid state is one
\* of the states, never a block.
THEOREM RunTypes == RunSpec => []RunTypeOK
<1>1. RunInv => RunTypeOK
  BY DEF RunInv
<1> QED BY <1>1, RunInvariance, PTL

\* An implementation is under way only under a frozen baseline, and a delivery that
\* names its commit never falls back behind it.
THEOREM RunOnBaseline == RunSpec => []CommitOnBaseline
<1>1. RunInv => CommitOnBaseline
  BY DEF RunInv
<1> QED BY <1>1, RunInvariance, PTL

\* Blocks lose nothing of what a delivery had reached, and let it skip nothing.
THEOREM ProgressTheorem == RunSpec => ProgressKept
<1>1. RunInv /\ [RunNext]_runVars =>
        [/\ Index(run'.last) \in {Index(run.last), Index(run.last) + 1}
         /\ run'.state \in StateSet => run'.state = run'.last]_runVars
  <2> SUFFICES ASSUME RunInv, [RunNext]_runVars
               PROVE  /\ Index(run'.last) \in {Index(run.last), Index(run.last) + 1}
                      /\ run'.state \in StateSet => run'.state = run'.last
    OBVIOUS
  <2>1. StateIsLast'
    BY StateIsLastStep DEF RunInv
  <2>2. ASSUME NEW s \in BLOCKED, Block(s) PROVE run'.last = run.last
    BY <2>2 DEF Block, RunInv, RunTypeOK
  <2>3. ASSUME NEW s \in StateSet, Advance(s)
        PROVE  Index(run'.last) \in {Index(run.last), Index(run.last) + 1}
    BY <2>3 DEF Advance, RunInv, RunTypeOK
  <2>4. ASSUME NEW c \in 1..Len(commits), SetCommit(c)
        PROVE  Index(run'.last) = Index(run.last) + 1
    <3>1. STATES[9] = "IMPLEMENTED_AND_PROVEN"
      BY DEF STATES
    <3>2. run.last = "IMPLEMENTED_AND_PROVEN"
      BY <2>4, <3>1, IndexFacts DEF SetCommit, RunInv, StateIsLast, StateSet, STATES
    <3> QED BY <2>4, <3>2, IndexFacts DEF SetCommit
  <2> QED BY <2>1, <2>2, <2>3, <2>4 DEF RunNext, runVars, StateIsLast
<1> QED BY <1>1, RunInvariance, PTL DEF RunSpec, ProgressKept

-----------------------------------------------------------------------------
(* WorkRouting: for any facts of the work and of the caller.               *)

Profiles == {"-", "NONE", "LEAN", "FULL"}

RoutingTypes ==
    /\ facts \in [FactKeys -> Values]
    /\ profile \in Profiles
    /\ routed \in [profile : Profiles, research : BOOLEAN, eligible : BOOLEAN, hard : BOOLEAN]

\* The order of the profiles.
LEMMA RankFacts ==
    Rank["-"] = 0 /\ Rank["NONE"] = 1 /\ Rank["LEAN"] = 2 /\ Rank["FULL"] = 3
BY DEF Rank

\* A hard boundary that the facts name is active, whichever schema they are read by.
LEMMA HardIsActive ==
  ASSUME NEW f, NEW k \in HARD_BOUNDARY, f[k] = "T"
  PROVE  HardBoundaryActive(f) # {}
<1>1. CASE ~HasV2Signals(f)
  <2>1. k \in RISKS
    BY <1>1 DEF HasV2Signals
  <2> QED BY <1>1, <2>1 DEF HardBoundaryActive
<1>2. CASE HasV2Signals(f)
  BY <1>2 DEF HardBoundaryActive
<1> QED BY <1>1, <1>2

\* A route never goes down, and leaves FULL out only for research or where no
\* hard boundary is named.
LEMMA RouteFacts ==
  ASSUME NEW f, NEW previous \in Profiles, NEW verified \in BOOLEAN
  PROVE  LET p == Route(f, previous, verified)
         IN  /\ p \in {"NONE", "LEAN", "FULL"}
             /\ Rank[p] >= Rank[previous]
             /\ p # "FULL" => \/ p = "NONE" /\ EffectiveResearchOnly(f, previous)
                              \/ \A k \in HARD_BOUNDARY : f[k] # "T"
BY RankFacts, HardIsActive DEF Route, Bounded, Profiles

\* An invalid scope only takes a profile up.
LEMMA ScopedFacts ==
  ASSUME NEW p \in {"NONE", "LEAN", "FULL"}, NEW invalid \in BOOLEAN
  PROVE  /\ Scoped(p, invalid) \in {"NONE", "LEAN", "FULL"}
         /\ Rank[Scoped(p, invalid)] >= Rank[p]
         /\ Scoped(p, invalid) # "FULL" => Scoped(p, invalid) = p
BY RankFacts DEF Scoped

\* The hard boundary is made of facts that no merge leaves out.
LEMMA HardKeys ==
    /\ HARD_BOUNDARY \subseteq FactKeys /\ HARD_BOUNDARY \subseteq RISK_OR_PRODUCTION
    /\ HARD_BOUNDARY \subseteq ALL_FACTS_V2 /\ HARD_BOUNDARY \cap AUTHORITY_FACTS = {}
BY DEF FactKeys, ALL_FACTS_V2, RISK_OR_PRODUCTION, HARD_BOUNDARY, AUTHORITY_FACTS

\* What the facts affirm of a hard boundary, their envelope affirms.
LEMMA EnvelopeKeepsHard ==
  ASSUME NEW v2 \in BOOLEAN, NEW k \in HARD_BOUNDARY, facts[k] = "T"
  PROVE  EnvelopeFacts(v2)[k] = "T"
<1>1. k \in KeysOf(v2)
  BY HardKeys DEF KeysOf
<1> QED BY <1>1, HardKeys DEF EnvelopeFacts

\* What either side affirms of a hard boundary, the merge affirms.
LEMMA MergeKeepsHard ==
  ASSUME NEW base, NEW overlay, NEW k \in HARD_BOUNDARY, "T" \in {base[k], overlay[k]}
  PROVE  ConservativeMerge(base, overlay)[k] = "T"
BY HardKeys DEF ConservativeMerge

\* In words: the next route is as the property asks of it.
Conservative ==
    /\ Rank[profile'] >= Rank[profile]
    /\ routed'.hard => routed'.profile \in {"-", "FULL"} \/ routed'.research

\* What a route of whatever kind has to show: p is no lower, and FULL unless for
\* research or where neither side names a hard boundary.
LEMMA RoutesFacts ==
  ASSUME RoutingTypes, NEW f, NEW told, NEW eligible \in BOOLEAN,
         NEW p \in {"NONE", "LEAN", "FULL"}, Routes(f, told, p, eligible),
         Rank[p] >= Rank[profile],
         p # "FULL" => \/ p = "NONE" /\ EffectiveResearchOnly(f, profile)
                       \/ \A k \in HARD_BOUNDARY : "T" \notin {told[k], facts[k]}
  PROVE  RoutingTypes' /\ Conservative
<1>1. RoutingTypes'
  BY DEF Routes, RoutingTypes, Profiles, EffectiveResearchOnly, ResearchIntent
<1>2. Conservative
  BY DEF Routes, Conservative
<1> QED BY <1>1, <1>2

\* Unrouted work is well typed.
LEMMA RoutingInitial == RoutingInit => RoutingTypes
BY FactsAssumption DEF RoutingInit, RoutingTypes, Unrouted, Profiles

\* Each of the ways to a route keeps the types and is conservative.
LEMMA RoutingStep ==
  RoutingTypes /\ [RoutingNext]_routingVars => RoutingTypes' /\ [Conservative]_routingVars
<1> SUFFICES ASSUME RoutingTypes, [RoutingNext]_routingVars
             PROVE  RoutingTypes' /\ [Conservative]_routingVars
  OBVIOUS
<1>p. profile \in Profiles
  BY DEF RoutingTypes
<1>1. ASSUME NEW e \in Envelopes, NEW c \in CallerFacts, NEW r \in BOOLEAN, NEW s \in BOOLEAN,
             RouteBound(e, c, r, s)
      PROVE  RoutingTypes' /\ Conservative
  <2> DEFINE f == ConservativeMerge(c, EnvelopeFacts(e.v2))
             verified == r /\ VerifyEnvelope(e)
             p == IF verified THEN Route(f, profile, TRUE) ELSE "FULL"
  <2>1. p \in {"NONE", "LEAN", "FULL"} /\ Rank[p] >= Rank[profile]
    <3>1. CASE verified
      BY <1>p, <3>1, RouteFacts
    <3>2. CASE ~verified
      <4>1. p = "FULL"
        BY <3>2
      <4>2. Rank["FULL"] >= Rank[profile]
        BY <1>p, RankFacts DEF Profiles
      <4> QED BY <4>1, <4>2
    <3> QED BY <3>1, <3>2
  <2>2. p # "FULL" => \/ p = "NONE" /\ EffectiveResearchOnly(f, profile)
                      \/ \A k \in HARD_BOUNDARY : f[k] # "T"
    BY <1>p, RouteFacts
  <2>3. \A k \in HARD_BOUNDARY : "T" \in {c[k], facts[k]} => f[k] = "T"
    BY EnvelopeKeepsHard, MergeKeepsHard DEF Envelopes
  <2>4. Routes(f, c, Scoped(p, s), p = "NONE")
    BY <1>1 DEF RouteBound
  <2> HIDE DEF p, f
  <2>5. Rank[Scoped(p, s)] >= Rank[profile]
    BY <1>p, <2>1, ScopedFacts, RankFacts DEF Profiles
  <2>6. /\ Scoped(p, s) \in {"NONE", "LEAN", "FULL"}
        /\ Scoped(p, s) # "FULL" => Scoped(p, s) = p
    BY <2>1, ScopedFacts
  <2> DEFINE q == Scoped(p, s)
  <2>7. q # "FULL" => \/ q = "NONE" /\ EffectiveResearchOnly(f, profile)
                      \/ \A k \in HARD_BOUNDARY : "T" \notin {c[k], facts[k]}
    BY <2>2, <2>3, <2>6
  <2>8. Routes(f, c, q, p = "NONE") /\ (p = "NONE") \in BOOLEAN
    BY <2>4
  <2> HIDE DEF q
  <2> QED BY <2>5, <2>6, <2>7, <2>8, RoutesFacts DEF q
<1>2. ASSUME NEW a \in Authorities, RouteByAuthority(a) PROVE RoutingTypes' /\ Conservative
  <2> DEFINE f == MergeRouteFacts(facts, a)
  <2>1. \A k \in HARD_BOUNDARY : f[k] = facts[k]
    BY HardKeys DEF MergeRouteFacts
  <2>2. a.valid \in BOOLEAN
    BY DEF Authorities
  <2> QED BY <1>p, <1>2, <2>1, <2>2, RouteFacts, RoutesFacts DEF RouteByAuthority
<1>3. CASE RouteRaw
  BY <1>p, <1>3, RouteFacts, RoutesFacts DEF RouteRaw
<1>4. CASE FactsChange
  BY <1>p, <1>4, FactsAssumption, RankFacts
  DEF FactsChange, RoutingTypes, Conservative, Unrouted, Profiles
<1>5. CASE UNCHANGED routingVars
  BY <1>5 DEF routingVars, RoutingTypes
<1> QED BY <1>1, <1>2, <1>3, <1>4, <1>5 DEF RoutingNext

\* In words: facts, profile and the last route are of their types however the work
\* is routed.
THEOREM RoutingTypeCorrect == RoutingSpec => []RoutingTypes
BY RoutingInitial, RoutingStep, PTL DEF RoutingSpec

\* In words: no route of a work item takes its profile down, and a hard boundary
\* that either side names makes it FULL unless it is research.
THEOREM RoutesTheorem == RoutingSpec => RoutesAreConservative
<1>1. [Conservative]_routingVars =>
        [/\ Rank[profile'] >= Rank[profile]
         /\ routed'.hard => routed'.profile \in {"-", "FULL"} \/ routed'.research]_routingVars
  BY DEF Conservative
<1> QED BY <1>1, RoutingTypeCorrect, RoutingStep, PTL DEF RoutingSpec, RoutesAreConservative

-----------------------------------------------------------------------------
(* PlanReview: for any texts and any caps.                                 *)

ReviewTypes ==
    /\ text \in Texts
    /\ review \in [verdict : Verdicts \cup {"MISSING"}, text : Texts \cup {NoText}]
    /\ accepted \in Texts \cup {NoText} /\ bound \in BOOLEAN
    /\ loop \in [full : 0..FullCap + 1, delta : 0..DeltaCap + 1, exceeded : BOOLEAN]
    /\ packet \in [depth : {"-", "NONE", "DELTA", "FULL"}, text : Texts \cup {NoText},
                   asked : {"-", "NONE", "DELTA", "FULL"}, passed : BOOLEAN, blocked : BOOLEAN]

\* In words: the snapshot that is bound is the text of the last review, which passed.
BoundIsReviewed == bound => review = [verdict |-> "PASS", text |-> accepted]

ReviewInv == ReviewTypes /\ BoundIsReviewed /\ CheapReviewMeansLowRisk

\* A text the depth of whose review is not FULL has low risk, or a PASS of its own.
LEMMA ShallowIsLow ==
  ASSUME text \in Texts, Depth # "FULL", ~FreshPass
  PROVE  text.snapshot \in {"ABSENT", "LOW"} /\ ~text.contradicts
<1>1. ~RiskForcesFull
  BY DEF Depth
<1>2. text.snapshot \in TextSnapshots
  BY ReviewAssumption DEF PlanTexts
<1> QED BY <1>1, <1>2 DEF RiskForcesFull, TextSnapshots

\* A packet is as deep as the assessment, and a DELTA is bound to another text.
LEMMA PacketDepthFacts ==
  ASSUME NEW requested \in {"NONE", "DELTA", "FULL"}
  PROVE  /\ PacketDepth(requested) \in {"NONE", "DELTA", "FULL"}
         /\ PacketDepth(requested) # "FULL" => Depth # "FULL"
         /\ PacketDepth(requested) = "DELTA" => bound /\ accepted # text
BY DEF PacketDepth, Deeper

\* Rounds are counted up to one more than their cap.
LEMMA RoundsFacts ==
  ASSUME ReviewTypes, NEW d \in {"NONE", "DELTA", "FULL"}
  PROVE  Rounds(d) \in [full : 0..FullCap + 1, delta : 0..DeltaCap + 1, exceeded : BOOLEAN]
BY ReviewAssumption DEF ReviewTypes, Rounds

\* A text nobody has reviewed satisfies the invariant.
LEMMA ReviewInitial == ReviewInit => ReviewInv
<1> SUFFICES ASSUME ReviewInit PROVE ReviewInv
  OBVIOUS
<1>1. loop \in [full : 0..FullCap + 1, delta : 0..DeltaCap + 1, exceeded : BOOLEAN]
  BY ReviewAssumption DEF ReviewInit
<1>2. packet.depth = "-" /\ ~bound
  BY DEF ReviewInit, NoPacket
<1> QED BY <1>1, <1>2 DEF ReviewInit, ReviewInv, ReviewTypes, BoundIsReviewed,
       CheapReviewMeansLowRisk, NoReview, NoPacket

\* Build, review, acceptance and another text keep the invariant.
LEMMA ReviewStep == ReviewInv /\ [ReviewNext]_reviewVars => ReviewInv'
<1> SUFFICES ASSUME ReviewInv, [ReviewNext]_reviewVars PROVE ReviewInv'
  OBVIOUS
<1> USE DEF ReviewInv
<1>1. ASSUME NEW requested \in {"NONE", "DELTA", "FULL"}, Build(requested) PROVE ReviewInv'
  <2> DEFINE d == PacketDepth(requested)
  <2>1. /\ packet'.depth = d /\ packet'.text = text /\ packet'.passed = FreshPass
        /\ UNCHANGED <<text, review, accepted, bound>>
    BY <1>1 DEF Build
  <2>2. d \in {"NONE", "DELTA", "FULL"} /\ (d # "FULL" => Depth # "FULL")
    BY PacketDepthFacts
  <2>3. loop' \in [full : 0..FullCap + 1, delta : 0..DeltaCap + 1, exceeded : BOOLEAN]
    BY <1>1, <2>2, RoundsFacts DEF Build, ReviewTypes
  <2>4. ReviewTypes'
    BY <1>1, <2>1, <2>2, <2>3 DEF Build, ReviewTypes, FreshPass
  <2>5. CheapReviewMeansLowRisk'
    BY <2>1, <2>2, ShallowIsLow DEF CheapReviewMeansLowRisk, ReviewTypes
  <2> QED BY <2>1, <2>4, <2>5 DEF BoundIsReviewed
<1>2. ASSUME NEW verdict \in Verdicts, RecordReview(verdict) PROVE ReviewInv'
  BY <1>2 DEF RecordReview, ReviewTypes, BoundIsReviewed, CheapReviewMeansLowRisk
<1>3. CASE Accept
  BY <1>3 DEF Accept, FreshPass, ReviewTypes, BoundIsReviewed, CheapReviewMeansLowRisk
<1>4. CASE EditText
  BY <1>4 DEF EditText, ReviewTypes, BoundIsReviewed, CheapReviewMeansLowRisk
<1>5. CASE UNCHANGED reviewVars
  BY <1>5 DEF reviewVars, ReviewTypes, BoundIsReviewed, CheapReviewMeansLowRisk
<1> QED BY <1>1, <1>2, <1>3, <1>4, <1>5 DEF ReviewNext

\* The invariant of the review holds in every reachable state.
LEMMA ReviewInvariance == ReviewSpec => []ReviewInv
BY ReviewInitial, ReviewStep, PTL DEF ReviewSpec

\* In words: the Plan, its records, the accepted text, the rounds and the packet
\* are of their types after any edits, reviews and packets.
THEOREM ReviewTypeCorrect == ReviewSpec => []ReviewTypes
<1>1. ReviewInv => ReviewTypes
  BY DEF ReviewInv
<1> QED BY <1>1, ReviewInvariance, PTL

\* In words: no packet asks for less than a full review of a text with risk and
\* without a PASS of its own.
THEOREM CheapReviewTheorem == ReviewSpec => []CheapReviewMeansLowRisk
<1>1. ReviewInv => CheapReviewMeansLowRisk
  BY DEF ReviewInv
<1> QED BY <1>1, ReviewInvariance, PTL

\* In words: a packet that is only a difference is one to the text that the last
\* review passed.
THEOREM DeltaTheorem == ReviewSpec => DeltaIsToReviewedText
<1>1. ReviewInv /\ [ReviewNext]_reviewVars =>
        [packet' # packet /\ packet'.depth = "DELTA" =>
            review = [verdict |-> "PASS", text |-> accepted] /\ accepted # text]_reviewVars
  <2> SUFFICES ASSUME ReviewInv, ReviewNext, packet' # packet, packet'.depth = "DELTA"
               PROVE  review = [verdict |-> "PASS", text |-> accepted] /\ accepted # text
    BY DEF reviewVars
  <2>1. PICK requested \in {"NONE", "DELTA", "FULL"} : Build(requested)
    BY DEF ReviewNext, RecordReview, Accept, EditText
  <2>2. PacketDepth(requested) = "DELTA"
    BY <2>1 DEF Build
  <2> QED BY <2>2, PacketDepthFacts DEF ReviewInv, BoundIsReviewed
<1> QED BY <1>1, ReviewInvariance, PTL DEF ReviewSpec, DeltaIsToReviewedText

-----------------------------------------------------------------------------
(* ModelDispatch: for any calls, stages, sources, loads, limits and bounds. *)

PreparedRows == [row : {TRUE}, permit : BOOLEAN, envelope : CallEnvelopes]

DispatchTypes ==
    /\ capsules \subseteq Sources
    /\ prepared \in [Calls -> PreparedRows \cup {Nothing}]
    /\ calling \subseteq Calls /\ called \subseteq Ids
    /\ file \in BOOLEAN /\ contract \in BOOLEAN /\ declared \in BOOLEAN
    /\ dispatches \in [Ids -> DispatchRows \cup {Nothing}]
    /\ results \in [Ids -> SUBSET ResultRows]
    /\ receipts \subseteq Stages

\* In words: a model is asked only after its dispatch is in the telemetry, where
\* a later dispatch of the same id may take its place but none is taken out.
CalledAreDispatched == calling \subseteq called /\ \A i \in called : dispatches[i] \in DispatchRows

DispatchInv == DispatchTypes /\ CalledAreDispatched

\* What may be called has been prepared.
LEMMA MayCallFacts ==
  ASSUME DispatchTypes, NEW c \in Calls, MayCall(c)
  PROVE  prepared[c] \in PreparedRows
BY DEF DispatchTypes, MayCall, Nothing

\* The row of a managed call is a dispatch row.
LEMMA CallRowFacts ==
  ASSUME DispatchTypes, NEW c \in Calls, MayCall(c), NEW mode \in Modes
  PROVE  CallRow(c, mode) \in DispatchRows
<1>1. prepared[c].envelope \in CallEnvelopes
  BY MayCallFacts DEF PreparedRows
<1>2. prepared[c].envelope.stages \in Tags
  BY <1>1 DEF CallEnvelopes
<1> QED BY <1>1, <1>2 DEF CallRow, DispatchRows

\* Before the first call the invariant holds.
LEMMA DispatchInitial == DispatchInit => DispatchInv
BY DEF DispatchInit, DispatchInv, DispatchTypes, CalledAreDispatched

\* Each step of a call, of reports and of contracts keeps the invariant.
LEMMA DispatchStep == DispatchInv /\ [DispatchNext]_dispatchVars => DispatchInv'
<1> SUFFICES ASSUME DispatchInv, [DispatchNext]_dispatchVars PROVE DispatchInv'
  OBVIOUS
<1> USE DEF DispatchInv, planSide, telemetry
<1>1. ASSUME NEW c \in Calls, NEW t \in Tags, NEW s \in Sources, NEW p \in BudgetProfiles,
             Prepare(c, t, s, p)
      PROVE  DispatchInv'
  <2>1. EnvelopeOf(t, s) \in CallEnvelopes
    BY DEF EnvelopeOf, CallEnvelopes
  <2>2. Permitted(p, Load[s]) \in BOOLEAN
    BY DEF Permitted
  <2>3. [row |-> TRUE, permit |-> Permitted(p, Load[s]), envelope |-> EnvelopeOf(t, s)] \in PreparedRows
    BY <2>1, <2>2 DEF PreparedRows
  <2> QED BY <1>1, <2>3 DEF Prepare, DispatchTypes, CalledAreDispatched
<1>2. CASE CapsulesExpire
  BY <1>2 DEF CapsulesExpire, DispatchTypes, CalledAreDispatched
<1>3. ASSUME NEW c \in Calls, NEW m \in Modes, StartCall(c, m) PROVE DispatchInv'
  <2>1. CallRow(c, m) \in DispatchRows
    BY <1>3, CallRowFacts DEF StartCall
  <2>2. c \in Ids
    BY DEF Ids
  <2> QED BY <1>3, <2>1, <2>2 DEF StartCall, DispatchTypes, CalledAreDispatched
<1>4. ASSUME NEW c \in Calls, CallFails(c) PROVE DispatchInv'
  BY <1>4 DEF CallFails, DispatchTypes, CalledAreDispatched
<1>5. ASSUME NEW c \in Calls, NEW u \in BOOLEAN, CallReturns(c, u) PROVE DispatchInv'
  <2>1. c \in Ids /\ dispatches[c] \in DispatchRows
    BY <1>5 DEF CallReturns, CalledAreDispatched, Ids
  <2>2. [stages |-> {}, usage |-> u, mode |-> dispatches[c].mode, sound |-> TRUE] \in ResultRows
    BY <2>1 DEF DispatchRows, ResultRows
  <2> QED BY <1>5, <2>1, <2>2 DEF CallReturns, DispatchTypes, CalledAreDispatched
<1>6. ASSUME NEW i \in Outside, NEW t \in Tags, NEW ok \in BOOLEAN, ReportDispatch(i, t, ok)
      PROVE  DispatchInv'
  <2>1. i \in Ids
    BY DEF Ids
  <2>2. [row |-> TRUE, stages |-> t, envelope |-> {}, mode |-> "-", sound |-> ok] \in DispatchRows
    BY DEF DispatchRows
  <2> QED BY <1>6, <2>1, <2>2 DEF ReportDispatch, DispatchTypes, CalledAreDispatched
<1>7. ASSUME NEW i \in Outside, NEW t \in Tags, NEW u \in BOOLEAN, NEW ok \in BOOLEAN,
             ReportResult(i, t, u, ok)
      PROVE  DispatchInv'
  <2>1. i \in Ids
    BY DEF Ids
  <2>2. [stages |-> t, usage |-> u, mode |-> "-", sound |-> ok] \in ResultRows
    BY DEF ResultRows
  <2> QED BY <1>7, <2>1, <2>2 DEF ReportResult, DispatchTypes, CalledAreDispatched
<1>8. ASSUME NEW d \in BOOLEAN, InitContract(d) PROVE DispatchInv'
  BY <1>8 DEF InitContract, DispatchTypes, CalledAreDispatched
<1>9. ASSUME NEW stage \in Stages, RecordNoModelWork(stage) PROVE DispatchInv'
  BY <1>9 DEF RecordNoModelWork, DispatchTypes, CalledAreDispatched
<1>10. CASE UNCHANGED dispatchVars
  BY <1>10 DEF dispatchVars, DispatchTypes, CalledAreDispatched
<1> QED BY <1>1, <1>2, <1>3, <1>4, <1>5, <1>6, <1>7, <1>8, <1>9, <1>10 DEF DispatchNext

\* The invariant of the calls holds in every reachable state.
LEMMA DispatchInvariance == DispatchSpec => []DispatchInv
BY DispatchInitial, DispatchStep, PTL DEF DispatchSpec

\* In words: permits, capsules, telemetry, contract and receipts are of their types
\* whatever calls are prepared, run, lost, repeated or reported.
THEOREM DispatchTypeCorrect == DispatchSpec => []DispatchTypes
<1>1. DispatchInv => DispatchTypes
  BY DEF DispatchInv
<1> QED BY <1>1, DispatchInvariance, PTL

\* A dispatched call of a stage that the closure passes has an answer.
LEMMA ClosedStageIsAnswered ==
  ASSUME Closed, NEW i \in Ids, dispatches[i] \in DispatchRows, dispatches[i].stages # {}
  PROVE  results[i] # {}
<1>1. dispatches[i].stages \in Tags /\ dispatches[i].row
  BY DEF DispatchRows
<1>2. PICK stage \in Stages : stage \in dispatches[i].stages
  BY <1>1, DispatchAssumption
<1>3. i \in DispatchedIn(stage)
  BY <1>1, <1>2 DEF DispatchedIn
<1> QED BY <1>2, <1>3 DEF Closed, StageAccounted

\* In words: when the closure of the costs passes, no model call that a stage made
\* is without its answer.
THEOREM ClosureTheorem == DispatchSpec => []ClosedCallsAnswered
<1>1. DispatchInv => ClosedCallsAnswered
  <2> SUFFICES ASSUME DispatchInv, Closed, NEW i \in called
               PROVE  /\ dispatches[i].row
                      /\ dispatches[i].stages # {} => results[i] # {}
    BY DEF ClosedCallsAnswered
  <2>1. i \in Ids /\ dispatches[i] \in DispatchRows
    BY DEF DispatchInv, DispatchTypes, CalledAreDispatched
  <2> QED BY <2>1, ClosedStageIsAnswered DEF DispatchRows
<1> QED BY <1>1, DispatchInvariance, PTL

-----------------------------------------------------------------------------
(* Acceptance: for any claims, verifications, Plans, contents and bounds.  *)

PlanType == [required : SUBSET Requirements, claim : [Claims -> ClaimRows],
             verification : [VerificationIds -> VerificationRows]]
Fingerprints == Drafts \X Contents
EvidenceRecords == [scope : Fingerprints, candidate : Fingerprints \cup {Nil}, inherited : BOOLEAN,
            claims : SUBSET Claims, pass : BOOLEAN, ran : SUBSET (Contents \cup {Nil})]
Ledgers == [VerificationIds -> EvidenceRecords \cup {Nil}]
Deliveries == [scope : Fingerprints, records : Ledgers]
Underways == [check : VerificationIds, row : VerificationRows, candidate : Fingerprints \cup {Nil},
              scope : Fingerprints \cup {Nil}, served : Contents \cup {Nil}, steady : BOOLEAN]

AcceptanceTypes ==
    /\ plan \in Drafts /\ files \in Contents
    /\ sut \in Fingerprints \cup {Nil} /\ snapshot \in Fingerprints \cup {Nil}
    /\ underway \in Underways \cup {Nil}
    /\ ledger \in Ledgers
    /\ durable \in BOOLEAN
    /\ manifest \in Fingerprints \cup {Nil} /\ delivered \in Deliveries \cup {Nil}
    /\ changes \in 0..MaxChanges

\* In words: the row runs what is deployed and only declares what that is.
Declared(row) == OnSystem(row) /\ row.candidateMode = "DECLARED"

\* In words: the files that answered a verification of this row, candidate and scope.
Ran(row, proved, scope) == IF OnSystem(row) THEN proved[2] ELSE scope[2]

\* In words: while a verification is under way and nothing was exchanged, the Plan
\* and a probed environment are those of its preflight, and its command runs what
\* the candidate or the scope says.
UnderwayIsBound ==
    \/ underway = Nil
    \/ ~underway.steady
    \/ /\ underway.row = plan.verification[underway.check]
       /\ OnSystem(underway.row) /\ ~Declared(underway.row) =>
             sut = underway.candidate /\ sut \in Fingerprints /\ sut # Nil
       /\ \/ underway.scope = Nil
          \/ /\ underway.scope \in Fingerprints /\ underway.scope[1] = plan
             /\ ~Declared(underway.row) =>
                   underway.served = Ran(underway.row, underway.candidate, underway.scope)

\* In words: what answered a record that was not inherited are the files that its
\* own Plan made the command run, or nobody knows.
RecordsRan ==
    \A v \in VerificationIds :
        \/ ledger[v] = Nil
        \/ ledger[v].inherited
        \/ Declared(ledger[v].scope[1].verification[v])
        \/ ledger[v].ran \subseteq
              {Ran(ledger[v].scope[1].verification[v], ledger[v].candidate, ledger[v].scope)}

AcceptanceInv ==
    AcceptanceTypes /\ UnderwayIsBound /\ RecordsRan /\ DeliveredClaimsWereShown

\* Without a type for Nil: what the Plans are.
LEMMA PlanFacts == Drafts \subseteq PlanType
BY AcceptanceAssumption DEF PlanType

\* A verification that may be delivered on has run the files that are delivered,
\* as far as anybody knows.
LEMMA FreshRan ==
  ASSUME AcceptanceTypes, RecordsRan, NEW v \in VerificationIds, IsFresh(v), CandidateRan(v),
         plan.verification[v].action # "REUSE_EVIDENCE"
  PROVE  /\ ledger[v].scope = Fingerprint
         /\ IsLive(plan, v) => ledger[v].candidate = Fingerprint
         /\ ~Declared(plan.verification[v]) => ledger[v].ran \subseteq {files}
<1>1. ledger[v] # Nil /\ ledger[v].scope = Fingerprint /\ ~ledger[v].inherited
  BY DEF IsFresh, AcceptanceTypes, Ledgers, EvidenceRecords
<1>2. IsLive(plan, v) => ledger[v].candidate = Fingerprint
  BY DEF CandidateRan
<1>3. OnSystem(plan.verification[v]) => IsLive(plan, v)
  BY DEF IsLive, OnSystem
<1>4. Ran(plan.verification[v], ledger[v].candidate, ledger[v].scope) = files
  BY <1>1, <1>2, <1>3 DEF Ran, Fingerprint
<1>5. ledger[v].scope[1] = plan
  BY <1>1 DEF Fingerprint
<1> QED BY <1>1, <1>2, <1>4, <1>5 DEF RecordsRan

\* With empty ledgers the invariant holds.
LEMMA AcceptanceInitial == AcceptanceInit => AcceptanceInv
<1> SUFFICES ASSUME AcceptanceInit PROVE AcceptanceInv
  OBVIOUS
<1>1. sut \in Fingerprints \cup {Nil}
  BY DEF AcceptanceInit, Fingerprint, Fingerprints
<1>2. AcceptanceTypes
  BY <1>1, AcceptanceAssumption DEF AcceptanceInit, AcceptanceTypes, Ledgers
<1> QED BY <1>2 DEF AcceptanceInit, AcceptanceInv, UnderwayIsBound, RecordsRan,
       DeliveredClaimsWereShown

\* Steps that leave the deliveries and the records alone.
LEMMA KeepsShown ==
  ASSUME AcceptanceInv, UNCHANGED <<ledger, delivered>>
  PROVE  RecordsRan' /\ DeliveredClaimsWereShown'
BY DEF AcceptanceInv, RecordsRan, DeliveredClaimsWereShown, Ran, Declared, OnSystem, IsLive

\* One lemma for each action keeps the invariant: a preflight fingerprints what runs,
LEMMA PreflightStep ==
  ASSUME AcceptanceInv, NEW v \in VerificationIds, Preflight(v)
  PROVE  AcceptanceInv'
<1> DEFINE row == plan.verification[v]
<1>1. /\ row \in VerificationRows /\ row.action # "REUSE_EVIDENCE"
      /\ plan' = plan /\ files' = files /\ sut' = sut
      /\ underway'.check = v /\ underway'.row = row /\ underway'.scope = Nil
      /\ underway'.candidate = (IF IsLive(plan, v) THEN snapshot ELSE Nil)
      /\ underway' \in [check : {v}, row : {row}, candidate : {underway'.candidate},
                        scope : {Nil}, served : {Nil}, steady : {TRUE}]
  BY PlanFacts DEF Preflight, AcceptanceInv, AcceptanceTypes, PlanType
<1>2. OnSystem(row) /\ ~Declared(row) =>
         sut = underway'.candidate /\ sut \in Fingerprints /\ sut # Nil
  <2> SUFFICES ASSUME OnSystem(row), ~Declared(row)
               PROVE  sut = underway'.candidate /\ sut \in Fingerprints /\ sut # Nil
    OBVIOUS
  <2>1. IsLive(plan, v)
    BY <1>1 DEF OnSystem, IsLive
  <2>2. row.candidateMode = "PROBED"
    BY <1>1 DEF OnSystem, Declared, VerificationRows
  <2>3. snapshot = Fingerprint /\ sut = snapshot
    BY <2>1, <2>2 DEF Preflight, Proved
  <2>4. Fingerprint \in Fingerprints /\ Fingerprint # Nil
    BY AcceptanceAssumption DEF Fingerprint, Fingerprints, AcceptanceInv, AcceptanceTypes
  <2> QED BY <1>1, <2>1, <2>3, <2>4
<1>3. AcceptanceTypes'
  BY <1>1 DEF Preflight, AcceptanceInv, AcceptanceTypes, Underways
<1>4. UnderwayIsBound'
  BY <1>1, <1>2 DEF UnderwayIsBound, OnSystem, Declared
<1> QED BY <1>3, <1>4, KeepsShown DEF Preflight, AcceptanceInv

\* the command runs the files as they are, or what is deployed,
LEMMA StartCommandStep ==
  ASSUME AcceptanceInv, StartCommand
  PROVE  AcceptanceInv'
<1>1. /\ underway \in Underways /\ Fingerprint \in Fingerprints
      /\ Fingerprint = <<plan, files>>
  BY DEF StartCommand, AcceptanceInv, AcceptanceTypes, Fingerprint, Fingerprints
<1>2. /\ underway' = [underway EXCEPT !.scope = Fingerprint, !.served = Served(underway.row)]
      /\ UNCHANGED <<plan, files, sut>>
  BY DEF StartCommand
<1>3. /\ underway'.check = underway.check /\ underway'.row = underway.row
      /\ underway'.candidate = underway.candidate /\ underway'.scope = Fingerprint
      /\ underway'.served = Served(underway.row) /\ underway'.steady = underway.steady
  BY <1>1, <1>2 DEF Underways
<1>4. Served(underway.row) \in Contents \cup {Nil}
  BY <1>1 DEF Served, Fingerprints, AcceptanceInv, AcceptanceTypes
<1>5. AcceptanceTypes'
  BY <1>1, <1>2, <1>4 DEF StartCommand, AcceptanceInv, AcceptanceTypes, Underways
<1>6. UnderwayIsBound'
  <2> SUFFICES ASSUME underway.steady PROVE UnderwayIsBound'
    BY <1>3 DEF UnderwayIsBound
  <2>1. /\ underway.row = plan.verification[underway.check]
        /\ OnSystem(underway.row) /\ ~Declared(underway.row) =>
              sut = underway.candidate /\ sut \in Fingerprints /\ sut # Nil
    BY DEF StartCommand, AcceptanceInv, UnderwayIsBound
  <2>2. ~Declared(underway.row) =>
           Served(underway.row) = Ran(underway.row, underway.candidate, Fingerprint)
    BY <1>1, <2>1 DEF Served, Ran, Declared
  <2> QED BY <1>1, <1>2, <1>3, <2>1, <2>2 DEF UnderwayIsBound, OnSystem, Declared, Ran
<1> QED BY <1>5, <1>6, KeepsShown DEF StartCommand, AcceptanceInv

\* a record says PASS of files that answered,
LEMMA FinishCommandStep ==
  ASSUME AcceptanceInv, NEW zero \in BOOLEAN, NEW reported \in SUBSET Claims,
         FinishCommand(zero, reported)
  PROVE  AcceptanceInv'
<1> DEFINE v == underway.check
           row == underway.row
           passed == IF row.mode \in LIVE_MODES THEN reported \cap row.claims
                     ELSE IF zero THEN row.claims ELSE {}
           answered == IF underway.steady THEN {underway.served} ELSE {}
           record == [scope |-> underway.scope, candidate |-> underway.candidate, inherited |-> FALSE,
                      claims |-> passed, pass |-> zero /\ passed = row.claims, ran |-> answered]
<1>1. underway \in Underways /\ underway.scope \in Fingerprints /\ v \in VerificationIds
  BY DEF FinishCommand, AcceptanceInv, AcceptanceTypes, Underways
<1>2. /\ ledger' = [ledger EXCEPT ![v] = record]
      /\ underway' = Nil
      /\ UNCHANGED <<plan, files, sut, snapshot, durable, manifest, delivered, changes>>
  BY DEF FinishCommand
<1>3. record \in EvidenceRecords
  <2>1. row \in VerificationRows /\ underway.candidate \in Fingerprints \cup {Nil}
    BY <1>1 DEF Underways
  <2>2. passed \subseteq Claims
    BY <2>1 DEF VerificationRows
  <2>3. answered \subseteq Contents \cup {Nil}
    BY <1>1 DEF Underways
  <2> QED BY <1>1, <2>1, <2>2, <2>3 DEF EvidenceRecords
<1>4. \/ Declared(underway.scope[1].verification[v])
      \/ answered \subseteq
            {Ran(underway.scope[1].verification[v], underway.candidate, underway.scope)}
  <2>1. CASE ~underway.steady
    BY <2>1
  <2>2. CASE underway.steady
    <3>1. /\ row = underway.scope[1].verification[v]
          /\ ~Declared(row) => underway.served = Ran(row, underway.candidate, underway.scope)
      BY <2>2 DEF FinishCommand, AcceptanceInv, UnderwayIsBound
    <3> QED BY <2>2, <3>1
  <2> QED BY <2>1, <2>2
<1> HIDE DEF passed, answered, v
<1>5. AcceptanceTypes'
  BY <1>2, <1>3 DEF AcceptanceInv, AcceptanceTypes, Ledgers
<1>6. RecordsRan'
  <2> SUFFICES ASSUME NEW w \in VerificationIds, ledger'[w] # Nil, ~ledger'[w].inherited
               PROVE  \/ Declared(ledger'[w].scope[1].verification[w])
                      \/ ledger'[w].ran \subseteq
                            {Ran(ledger'[w].scope[1].verification[w], ledger'[w].candidate,
                                 ledger'[w].scope)}
    BY DEF RecordsRan, Ran, Declared, OnSystem
  <2>1. CASE w = v
    BY <1>1, <1>2, <1>3, <1>4, <2>1 DEF AcceptanceInv, AcceptanceTypes, Ledgers
  <2>2. CASE w # v
    BY <1>2, <1>3, <2>2 DEF AcceptanceInv, AcceptanceTypes, Ledgers, RecordsRan
  <2> QED BY <2>1, <2>2
<1>7. UnderwayIsBound' /\ DeliveredClaimsWereShown'
  BY <1>2 DEF UnderwayIsBound, AcceptanceInv, DeliveredClaimsWereShown, OnSystem, IsLive
<1> QED BY <1>5, <1>6, <1>7 DEF AcceptanceInv

\* a reused record is marked as inherited,
LEMMA InheritStep ==
  ASSUME AcceptanceInv, NEW v \in VerificationIds, Inherit(v)
  PROVE  AcceptanceInv'
<1> DEFINE record == [scope |-> Fingerprint, candidate |-> Nil, inherited |-> TRUE,
                      claims |-> plan.verification[v].claims, pass |-> TRUE, ran |-> {}]
<1>1. /\ ledger' = [ledger EXCEPT ![v] = record]
      /\ UNCHANGED <<plan, files, sut, snapshot, underway, durable, manifest, delivered, changes>>
  BY DEF Inherit
<1>2. record \in EvidenceRecords
  BY PlanFacts DEF EvidenceRecords, Fingerprint, Fingerprints, PlanType, VerificationRows, AcceptanceInv, AcceptanceTypes
<1>3. AcceptanceTypes'
  BY <1>1, <1>2 DEF AcceptanceInv, AcceptanceTypes, Ledgers
<1>4. RecordsRan'
  <2> SUFFICES ASSUME NEW w \in VerificationIds, ledger'[w] # Nil, ~ledger'[w].inherited
               PROVE  \/ Declared(ledger'[w].scope[1].verification[w])
                      \/ ledger'[w].ran \subseteq
                            {Ran(ledger'[w].scope[1].verification[w], ledger'[w].candidate,
                                 ledger'[w].scope)}
    BY DEF RecordsRan, Ran, Declared, OnSystem
  <2>1. w # v
    BY <1>1 DEF AcceptanceInv, AcceptanceTypes, Ledgers
  <2> QED BY <1>1, <2>1 DEF AcceptanceInv, AcceptanceTypes, Ledgers, RecordsRan
<1>5. UnderwayIsBound'
  BY <1>1 DEF AcceptanceInv, UnderwayIsBound, Declared, OnSystem, Ran
<1>6. DeliveredClaimsWereShown'
  BY <1>1 DEF AcceptanceInv, DeliveredClaimsWereShown, OnSystem, IsLive
<1> QED BY <1>3, <1>4, <1>5, <1>6 DEF AcceptanceInv

\* and what a delivery rests on was shown, or found by an inherited record.
LEMMA CompleteStep ==
  ASSUME AcceptanceInv, Complete
  PROVE  AcceptanceInv'
<1>1. /\ delivered' = [scope |-> Fingerprint, records |-> ledger]
      /\ delivered'.scope = <<plan, files>> /\ delivered'.records = ledger
      /\ UNCHANGED <<plan, files, sut, snapshot, underway, ledger, durable, manifest, changes>>
  BY DEF Complete, Fingerprint
<1>2. plan \in PlanType /\ AcceptanceTypes
  BY PlanFacts DEF AcceptanceInv, AcceptanceTypes
<1>3. AcceptanceTypes'
  <2>1. delivered' \in Deliveries
    BY <1>1, <1>2 DEF AcceptanceTypes, Deliveries, Fingerprint, Fingerprints
  <2> QED BY <1>1, <1>2, <2>1 DEF AcceptanceTypes
<1>4. RecordsRan' /\ UnderwayIsBound'
  BY <1>1 DEF AcceptanceInv, RecordsRan, UnderwayIsBound, Declared, OnSystem, Ran
<1>5. DeliveredClaimsWereShown'
  <2> SUFFICES ASSUME NEW r \in plan.required
               PROVE  \E c \in Claims :
                        /\ plan.claim[c].blocking /\ plan.claim[c].requirement = r
                        /\ plan.claim[c].checks # {}
                        /\ plan.claim[c].action # "REUSE_EVIDENCE" =>
                             \A v \in plan.claim[c].checks :
                                /\ c \in ledger[v].claims /\ ledger[v].scope = Fingerprint
                                /\ IsLive(plan, v) => ledger[v].candidate = Fingerprint
                                /\ ~Declared(plan.verification[v]) => ledger[v].ran \subseteq {files}
    BY <1>1 DEF DeliveredClaimsWereShown, Fingerprint, Declared, OnSystem, IsLive
  <2>1. PICK c \in Claims : plan.claim[c].blocking /\ plan.claim[c].requirement = r
    BY DEF Complete, ContractValid
  <2>2. plan.claim[c].checks # {} /\ plan.claim[c].checks \subseteq VerificationIds
    BY <1>2 DEF Complete, ContractValid, ClaimValid, PlanType, ClaimRows
  <2>3. ASSUME plan.claim[c].action # "REUSE_EVIDENCE", NEW v \in plan.claim[c].checks
        PROVE  /\ c \in ledger[v].claims /\ ledger[v].scope = Fingerprint
               /\ IsLive(plan, v) => ledger[v].candidate = Fingerprint
               /\ ~Declared(plan.verification[v]) => ledger[v].ran \subseteq {files}
    <3>1. v \in VerificationIds
      BY <2>2
    <3>2. IsFresh(v) /\ c \in ledger[v].claims
      BY <2>1 DEF Complete, EvidenceFresh, ClaimProven
    <3>3. /\ plan.verification[v].action # "REUSE_EVIDENCE"
          /\ v \in Blocking
      BY <2>1, <2>3, <3>1 DEF Complete, ContractValid, ClaimValid, VerificationValid, Blocking
    <3>4. CandidateRan(v) /\ RecordsRan
      BY <3>3 DEF Complete, AcceptanceInv
    <3> QED BY <1>2, <3>1, <3>2, <3>3, <3>4, FreshRan
  <2> QED BY <2>1, <2>2, <2>3
<1> QED BY <1>3, <1>4, <1>5 DEF AcceptanceInv

\* People change files, Plan and environment at any time: a verification that is
\* under way is then not steady any more, or has not read the files yet.
LEMMA ChangeStep ==
  ASSUME AcceptanceInv,
         \/ \E x \in Contents : EditFiles(x)
         \/ \E p \in Drafts : RedraftPlan(p)
         \/ Deploy
  PROVE  AcceptanceInv'
<1>1. /\ Changes
      /\ plan' \in Drafts /\ files' \in Contents /\ sut' \in Fingerprints \cup {Nil}
  <2>1. /\ plan \in Drafts /\ files \in Contents /\ sut \in Fingerprints \cup {Nil}
        /\ Fingerprint \in Fingerprints
    BY DEF AcceptanceInv, AcceptanceTypes, Fingerprint, Fingerprints
  <2>2. CASE \E x \in Contents : EditFiles(x)
    BY <2>1, <2>2 DEF EditFiles
  <2>3. CASE \E p \in Drafts : RedraftPlan(p)
    BY <2>1, <2>3 DEF RedraftPlan
  <2>4. CASE Deploy
    BY <2>1, <2>4 DEF Deploy
  <2> QED BY <2>2, <2>3, <2>4
<1>2. \/ underway = Nil /\ underway' = Nil
      \/ /\ underway \in Underways
         /\ \/ underway' \in Underways /\ ~underway'.steady
            \/ underway' = underway /\ underway.scope = Nil /\ plan' = plan /\ sut' = sut
  <2>1. underway = Nil \/ underway \in Underways
    BY DEF AcceptanceInv, AcceptanceTypes
  <2>2. underway \in Underways =>
           /\ [underway EXCEPT !.steady = FALSE] \in Underways
           /\ ~[underway EXCEPT !.steady = FALSE].steady
    BY DEF Underways
  <2>3. CASE \E x \in Contents : EditFiles(x)
    BY <2>1, <2>2, <2>3 DEF EditFiles, Disturb
  <2>4. CASE (\E p \in Drafts : RedraftPlan(p)) \/ Deploy
    BY <2>1, <2>2, <2>4 DEF RedraftPlan, Deploy, Disturb
  <2> QED BY <2>3, <2>4
<1>3. AcceptanceTypes'
  BY <1>1, <1>2, AcceptanceAssumption DEF Changes, AcceptanceInv, AcceptanceTypes
<1>4. UnderwayIsBound'
  BY <1>2 DEF AcceptanceInv, UnderwayIsBound, Declared, OnSystem, Ran
<1> QED BY <1>1, <1>3, <1>4, KeepsShown DEF Changes, AcceptanceInv

\* Every step keeps the invariant.
LEMMA AcceptanceStep == AcceptanceInv /\ [AcceptanceNext]_acceptanceVars => AcceptanceInv'
<1> SUFFICES ASSUME AcceptanceInv, [AcceptanceNext]_acceptanceVars PROVE AcceptanceInv'
  OBVIOUS
<1>1. CASE CaptureSnapshot \/ WriteManifest \/ UNCHANGED acceptanceVars
  <2>1. /\ UNCHANGED <<plan, files, sut, underway, ledger, delivered, changes>>
        /\ snapshot' \in Fingerprints \cup {Nil} /\ manifest' \in Fingerprints \cup {Nil} /\ durable' \in BOOLEAN
    <3>1. Fingerprint \in Fingerprints
      BY DEF Fingerprint, Fingerprints, AcceptanceInv, AcceptanceTypes
    <3>2. CASE CaptureSnapshot
      BY <3>1, <3>2 DEF CaptureSnapshot, AcceptanceInv, AcceptanceTypes
    <3>3. CASE WriteManifest
      BY <3>1, <3>3 DEF WriteManifest, AcceptanceInv, AcceptanceTypes
    <3>4. CASE UNCHANGED acceptanceVars
      BY <3>4 DEF acceptanceVars, AcceptanceInv, AcceptanceTypes
    <3> QED BY <1>1, <3>2, <3>3, <3>4
  <2>2. AcceptanceTypes' /\ UnderwayIsBound'
    BY <2>1 DEF AcceptanceInv, AcceptanceTypes, UnderwayIsBound, OnSystem, Declared, Ran
  <2> QED BY <2>1, <2>2, KeepsShown DEF AcceptanceInv
<1> QED BY <1>1, PreflightStep, StartCommandStep, FinishCommandStep, InheritStep, CompleteStep,
       ChangeStep DEF AcceptanceNext

\* The invariant of acceptance holds in every reachable state.
LEMMA AcceptanceInvariance == AcceptanceSpec => []AcceptanceInv
BY AcceptanceInitial, AcceptanceStep, PTL DEF AcceptanceSpec

\* In words: Plan, files, environment, candidate, records, manifest and delivery are of
\* their types however verifications, edits and deployments overlap.
THEOREM AcceptanceTypeCorrect == AcceptanceSpec => []AcceptanceTypes
<1>1. AcceptanceInv => AcceptanceTypes
  BY DEF AcceptanceInv
<1> QED BY <1>1, AcceptanceInvariance, PTL

\* In words: every requirement of a delivery has a blocking claim; unless it reuses
\* evidence, each of its verifications reported it for the delivered candidate, and
\* exactly the delivered files answered, unless they were exchanged meanwhile or the
\* environment only declares what it runs.
THEOREM DeliveredTheorem == AcceptanceSpec => []DeliveredClaimsWereShown
<1>1. AcceptanceInv => DeliveredClaimsWereShown
  BY DEF AcceptanceInv
<1> QED BY <1>1, AcceptanceInvariance, PTL
=============================================================================
