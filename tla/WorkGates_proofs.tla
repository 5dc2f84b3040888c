--------------------------- MODULE WorkGates_proofs ---------------------------
(***************************************************************************)
(* Proofs about WorkGates, for any commands, contents, commits, hook files *)
(* and bound.  What a running gate has accepted so far is witnessed by the *)
(* history (Knows), and the history only grows while it runs; so whatever  *)
(* happens in between, the verdict rests on states that were there.        *)
(***************************************************************************)
EXTENDS WorkGates, TLAPS

\* The work file, once there, stays, because whatever is written is a work item.
CommandsKnow ==
  \A p \in Command :
    /\ cmd[p].pc \in {"capture", "write", "reread", "crossed"} => cmd[p].new # Nothing
    /\ cmd[p].pc = "hashed" => cmd[p].link # Nothing

MergeSteps == {"view", "evidence", "recheck", "recheckPr"}
ExecutionSteps == {"policy", "installed", "provider", "binding", "digest", "again"}

GateIsOrderly ==
  /\ gate.pc # "idle" => work # Nothing /\ gate.result = "none"
  /\ gate.pc \in MergeSteps => gate.kind = "merge"
  /\ gate.pc \in ExecutionSteps => gate.kind = "execution"
  /\ gate.pc \in ExecutionSteps \ {"digest", "again"} => gate.reasons = {}
  /\ gate.pc \in {"installed", "provider", "binding", "digest", "again"} => gate.rtk

(***************************************************************************)
(* What a gate g knows that has found nothing against readiness, and has   *)
(* seen the surroundings S.                                                *)
(***************************************************************************)
Bound(g, S, K) ==
  \E s \in S : /\ s.work # Nothing /\ s.work.status = "OPEN" /\ s.work.art = g.art
               /\ \A k \in K : g.art[k] # Nothing /\ \E t \in S : t.file[k] = g.art[k]

KnowsIntake(g, S) ==
  /\ g.pc = "SPEC" => Bound(g, S, {})
  /\ g.pc = "PLAN" => Bound(g, S, {"SPEC"})
  /\ g.pc \in MergeSteps \cup ExecutionSteps => Bound(g, S, Kind)

KnowsMerge(g, S) ==
  g.kind = "merge" =>
    /\ \E s \in S : s.work # Nothing /\ s.work.risk # "HIGH"
    /\ \E s \in S : s.tree.head = g.local
    /\ g.pc \in {"evidence", "recheck", "recheckPr"} =>
         /\ g.local = g.sha
         /\ \E s \in S : ~s.tree.dirty
         /\ \E s \in S : s.pr.head = g.sha /\ s.pr.offered
    /\ g.pc \in {"recheck", "recheckPr"} =>
         \E s \in S : s.pr.head = g.sha /\ g.sha \in s.pr.green /\ s.pr.approved

KnowsHost(g, S) ==
  g.kind = "execution" =>
    /\ g.pc \in {"intake", "SPEC", "PLAN", "policy"} /\ ~g.rtk =>
         \E s \in S : s.work # Nothing /\ s.work.schema = "v2" /\ ~s.work.rtk
    /\ g.pc \in {"installed", "provider", "binding", "digest", "again"} =>
         \E s \in S : s.host.policy # "prohibited"
    /\ g.pc \in {"provider", "binding", "digest", "again"} => \E s \in S : s.host.installed
    /\ g.pc \in {"binding", "digest", "again"} => \E s \in S : s.host.ready
    /\ g.pc \in {"digest", "again"} => \E s \in S : s.host.hooks \in Hook

Knows(g, S) == KnowsIntake(g, S) /\ KnowsMerge(g, S) /\ KnowsHost(g, S)

GateKnows == gate.pc # "idle" /\ gate.reasons = {} => Knows(gate, seen)

(***************************************************************************)
(* The local head is where it was first seen only if it has been there all *)
(* the time, or has come back; so once it is found there again, the moment *)
(* of the evidence was one at which both heads were the approved commit.   *)
(***************************************************************************)
Met(g, S) ==
  \E s \in S : /\ s.tree.head = g.sha /\ s.pr.head = g.sha
               /\ g.sha \in s.pr.green /\ s.pr.approved

HeadsFollowed ==
  gate.pc # "idle" /\ gate.reasons = {} /\ gate.kind = "merge" /\ ~returned =>
    /\ tree.head = gate.local => \A s \in seen : s.tree.head = gate.local
    /\ gate.pc = "recheckPr" => Met(gate, seen)

Witnessed == MergeReadyIsWitnessed /\ ExecutionReadyIsWitnessed

IInv == /\ TypeOK /\ CommandsKnow /\ GateIsOrderly /\ GateKnows /\ Witnessed
        /\ HeadsFollowed /\ ReadyHeadsMet

-----------------------------------------------------------------------------
(* Types.                                                                  *)

\* A command replaces the work file by a work item.
LEMMA CommandTypes ==
  ASSUME TypeOK, CommandsKnow, NEW p \in Command, CommandStep(p), UNCHANGED <<tree, pr>>
  PROVE  /\ RegistryTypeOK' /\ CommandsKnow' /\ Now' \in Surroundings
         /\ work # Nothing => work' # Nothing
<1> USE NothingAssumption, NoWorkAssumption, RegistryBoundsAssumption
<1> DEFINE Cmd == [pc : {"idle", "hashed", "capture", "write", "reread", "crossed"},
                   new : Work \cup {Nothing}, before : Work \cup {Nothing},
                   link : (Kind \X Digest) \cup {Nothing}]
           Fits(c) == /\ c \in Cmd
                      /\ c.pc \in {"capture", "write", "reread", "crossed"} => c.new # Nothing
                      /\ c.pc = "hashed" => c.link # Nothing
<1>t. /\ RegistryTypeOK /\ Now \in Surroundings
      /\ \A q \in Command : Fits(cmd[q])
  BY DEF TypeOK, RegistryTypeOK, CommandsKnow
<1>i. Fits(Idle)
  BY DEF Idle
<1>1. SUFFICES /\ cmd' \in [Command -> Cmd] /\ \A q \in Command : Fits(cmd'[q])
               /\ work' \in Work \cup {Nothing} /\ (work # Nothing => work' # Nothing)
               /\ file' = file /\ host' = host /\ changes' \in Nat
  BY <1>t DEF RegistryTypeOK, CommandsKnow, Now, Surroundings
<1>f. file' = file /\ host' = host /\ changes' \in Nat
  <2> HIDE DEF Fits, Cmd
  <2>1. changes \in Nat /\ changes + 1 \in Nat
    BY <1>t DEF RegistryTypeOK
  <2>2. file' = file /\ host' = host /\ (changes' = changes \/ changes' = changes + 1)
    BY DEF CommandStep, Create, Update, Close, SetCapability, Hash, Link, Migrate, Capture,
           Replace, MigrationEnds, MigrationFails, CommandDies, Starts, Change
  <2> QED BY <2>1, <2>2
<1>w. ASSUME NEW new \in Work, WillWrite(p, new)
      PROVE  cmd' \in [Command -> Cmd] /\ \A q \in Command : Fits(cmd'[q])
  BY <1>t, <1>w DEF WillWrite, RegistryTypeOK, Idle
<1>c. Crossed(cmd) \in [Command -> Cmd] /\ \A q \in Command : Fits(Crossed(cmd)[q])
  BY <1>t DEF Crossed, RegistryTypeOK
<1>2. CASE Create(p)
  <2>1. work' = work
    BY <1>2 DEF Create, Starts
  <2>2. PICK risk \in {"LOW", "HIGH"} :
          WillWrite(p, [schema |-> "v2", status |-> "OPEN", risk |-> risk,
                        art |-> Unbound, rtk |-> FALSE])
    BY <1>2 DEF Create
  <2>3. [schema |-> "v2", status |-> "OPEN", risk |-> risk, art |-> Unbound, rtk |-> FALSE] \in Work
    BY DEF Work, Unbound
  <2> HIDE DEF Fits, Cmd
  <2> QED BY <1>t, <1>f, <1>w, <2>1, <2>2, <2>3 DEF RegistryTypeOK
<1>3. CASE Update(p)
  <2>1. work' = work /\ work \in Work
    BY <1>3, <1>t DEF Update, Starts, RegistryTypeOK
  <2>2. PICK risk \in {"LOW", "HIGH"} : WillWrite(p, [work EXCEPT !.risk = risk])
    BY <1>3 DEF Update
  <2>3. [work EXCEPT !.risk = risk] \in Work
    BY <2>1 DEF Work
  <2> HIDE DEF Fits, Cmd
  <2> QED BY <1>t, <1>f, <1>w, <2>1, <2>2, <2>3
<1>4. CASE Close(p)
  <2>1. work' = work /\ work \in Work
    BY <1>4, <1>t DEF Close, Starts, RegistryTypeOK
  <2>2. WillWrite(p, [work EXCEPT !.status = "CLOSED"])
    BY <1>4 DEF Close
  <2>3. [work EXCEPT !.status = "CLOSED"] \in Work
    BY <2>1 DEF Work
  <2> HIDE DEF Fits, Cmd
  <2> QED BY <1>t, <1>f, <1>w, <2>1, <2>2, <2>3
<1>5. CASE SetCapability(p)
  <2>1. work' = work /\ work \in Work
    BY <1>5, <1>t DEF SetCapability, Starts, RegistryTypeOK
  <2>2. PICK rtk \in BOOLEAN : WillWrite(p, [work EXCEPT !.rtk = rtk])
    BY <1>5 DEF SetCapability
  <2>3. [work EXCEPT !.rtk = rtk] \in Work
    BY <2>1 DEF Work
  <2> HIDE DEF Fits, Cmd
  <2> QED BY <1>t, <1>f, <1>w, <2>1, <2>2, <2>3
<1>6. ASSUME NEW k \in Kind, Hash(p, k)
      PROVE  /\ cmd' \in [Command -> Cmd] /\ \A q \in Command : Fits(cmd'[q])
             /\ work' = work
  <2>1. work' = work /\ file[k] \in Digest
    BY <1>6, <1>t DEF Hash, Starts, RegistryTypeOK
  <2>2. <<k, file[k]>> \in Kind \X Digest
    BY <2>1
  <2>3. <<k, file[k]>> # Nothing
    BY <2>2, PairAssumption
  <2> QED BY <1>6, <1>t, <2>1, <2>2, <2>3 DEF Hash, Idle, RegistryTypeOK
<1>7. CASE Link(p)
  <2> DEFINE k == cmd[p].link[1]
             d == cmd[p].link[2]
  <2>1. work' = work /\ work \in Work
    BY <1>7, <1>t DEF Link, RegistryTypeOK
  <2>2. k \in Kind /\ d \in Digest
    BY <1>7, <1>t DEF Link
  <2>3. CASE work.art[k] = d
    BY <1>7, <1>t, <1>i, <1>f, <2>1, <2>3 DEF Link, RegistryTypeOK
  <2>4. CASE work.art[k] # d
    <3>1. WillWrite(p, [work EXCEPT !.art[k] = d])
      BY <1>7, <2>4 DEF Link
    <3>2. [work EXCEPT !.art[k] = d] \in Work
      BY <2>1, <2>2 DEF Work
    <3> HIDE DEF Fits, Cmd
    <3> QED BY <1>t, <1>f, <1>w, <2>1, <3>1, <3>2
  <2> QED BY <2>3, <2>4
<1>8. CASE Migrate(p)
  <2>1. work' = work /\ work \in Work
    BY <1>8, <1>t DEF Migrate, Starts, RegistryTypeOK
  <2>2. [work EXCEPT !.schema = "v2", !.rtk = FALSE] \in Work
    BY <2>1 DEF Work
  <2> QED BY <1>8, <1>t, <1>f, <2>1, <2>2 DEF Migrate, Idle, RegistryTypeOK
<1>9. CASE Capture(p)
  BY <1>9, <1>t, <1>f DEF Capture, RegistryTypeOK
<1>10. CASE Replace(p)
  BY <1>10, <1>t, <1>c, <1>i, <1>f DEF Replace, RegistryTypeOK
<1>11. CASE MigrationEnds(p)
  BY <1>11, <1>t, <1>i, <1>f DEF MigrationEnds, RegistryTypeOK
<1>12. CASE MigrationFails(p)
  BY <1>12, <1>t, <1>c, <1>i, <1>f DEF MigrationFails, RegistryTypeOK
<1>13. CASE CommandDies(p)
  BY <1>13, <1>t, <1>i, <1>f DEF CommandDies, RegistryTypeOK
<1> HIDE DEF Fits, Cmd
<1> QED BY <1>2, <1>3, <1>4, <1>5, <1>6, <1>7, <1>8, <1>9, <1>10, <1>11, <1>12, <1>13, <1>t, <1>f
        DEF CommandStep, RegistryTypeOK

-----------------------------------------------------------------------------
(* Whatever goes on beside the gate.                                       *)

\* People, CI, GitHub and commands keep the types, and no work file vanishes.
LEMMA MeanwhileTypes ==
  ASSUME TypeOK, CommandsKnow, Meanwhile
  PROVE  /\ RegistryTypeOK' /\ CommandsKnow' /\ Now' \in Surroundings
         /\ gate' = gate /\ (work # Nothing => work' # Nothing)
<1> USE DEF TypeOK
<1>1. ASSUME NEW p \in Command, CommandStep(p), UNCHANGED <<tree, pr>>
      PROVE  /\ RegistryTypeOK' /\ CommandsKnow' /\ Now' \in Surroundings
             /\ work # Nothing => work' # Nothing
  BY <1>1, CommandTypes
<1>c. changes \in Nat /\ changes + 1 \in Nat
  BY DEF RegistryTypeOK
<1>2. ASSUME NEW k \in Kind, EditFile(k), UNCHANGED <<tree, pr>>
      PROVE  /\ RegistryTypeOK' /\ CommandsKnow' /\ Now' \in Surroundings
             /\ work' = work
  <2>1. file' \in [Kind -> Digest \cup {Nothing}] /\ changes' \in Nat
    BY <1>2, <1>c DEF EditFile, Change, RegistryTypeOK
  <2> QED BY <1>2, <2>1 DEF EditFile, RegistryTypeOK, CommandsKnow, Now, Surroundings
<1>3. CASE TreeChanges
  <2>1. tree' \in [head : Commit, dirty : BOOLEAN] /\ changes' \in Nat
    BY <1>3, <1>c DEF TreeChanges, Change, Now, Surroundings
  <2> QED BY <1>3, <2>1 DEF Meanwhile, TreeChanges, RegistryTypeOK, CommandsKnow, Now, Surroundings
<1>4. CASE PullRequestChanges
  <2>0. pr \in [head : Commit, offered : BOOLEAN, green : SUBSET Commit, approved : BOOLEAN]
    BY DEF Now, Surroundings
  <2>1. pr' \in [head : Commit, offered : BOOLEAN, green : SUBSET Commit, approved : BOOLEAN]
    <3>1. CASE Push
      <4>1. PICK c \in Commit, kept \in BOOLEAN :
              pr' = [pr EXCEPT !.head = c, !.approved = kept /\ @]
        BY <3>1 DEF Push
      <4>2. (kept /\ pr.approved) \in BOOLEAN
        OBVIOUS
      <4> QED BY <2>0, <4>1, <4>2
    <3>2. CASE pr' = [pr EXCEPT !.offered = ~@]
      BY <3>2, <2>0
    <3>3. CASE pr' = [pr EXCEPT !.approved = ~@]
      BY <3>3, <2>0
    <3>4. CASE \E c \in Commit : pr' = [pr EXCEPT !.green = (@ \cup {c}) \ (@ \cap {c})]
      <4>1. PICK c \in Commit : pr' = [pr EXCEPT !.green = (@ \cup {c}) \ (@ \cap {c})]
        BY <3>4
      <4>2. ((pr.green \cup {c}) \ (pr.green \cap {c})) \in SUBSET Commit
        BY <2>0
      <4> QED BY <2>0, <4>1, <4>2
    <3> QED BY <1>4, <3>1, <3>2, <3>3, <3>4 DEF PullRequestChanges
  <2>2. changes' \in Nat
    BY <1>4, <1>c DEF PullRequestChanges, Change
  <2> QED BY <1>4, <2>1, <2>2
          DEF Meanwhile, PullRequestChanges, RegistryTypeOK, CommandsKnow, Now, Surroundings
<1>5. CASE HostChanges
  <2>1. host' \in [policy : {"none", "required", "prohibited"}, installed : BOOLEAN,
                   ready : BOOLEAN, hooks : Hook \cup {Unhooked}]
    BY <1>5 DEF HostChanges, Now, Surroundings
  <2>2. changes' \in Nat
    BY <1>5, <1>c DEF HostChanges, Change
  <2> QED BY <1>5, <2>1, <2>2
          DEF Meanwhile, HostChanges, RegistryTypeOK, CommandsKnow, Now, Surroundings
<1> QED BY <1>1, <1>2, <1>3, <1>4, <1>5 DEF Meanwhile, RegistryNext

-----------------------------------------------------------------------------
(* What is known stays known.                                              *)

\* Knowledge rests on witnesses, so it survives everything that is seen later.
LEMMA KnowledgeGrows ==
  ASSUME NEW g, NEW S, NEW T, S \subseteq T, Knows(g, S)
  PROVE  Knows(g, T)
<1>1. ASSUME NEW K, Bound(g, S, K) PROVE Bound(g, T, K)
  BY <1>1 DEF Bound
<1>2. KnowsIntake(g, T)
  BY <1>1 DEF Knows, KnowsIntake
<1>3. KnowsMerge(g, T)
  BY DEF Knows, KnowsMerge
<1>4. KnowsHost(g, T)
  BY DEF Knows, KnowsHost
<1> QED BY <1>2, <1>3, <1>4 DEF Knows

-----------------------------------------------------------------------------
(* The invariant.                                                          *)

\* Initially no gate has run.
LEMMA InitInvariant == ASSUME Init PROVE IInv
<1> USE DEF Init
<1>1. PICK d \in Digest :
        /\ file = [k \in Kind |-> d]
        /\ work \in {Nothing} \cup
             {[schema |-> s, status |-> "OPEN", risk |-> "LOW", art |-> file, rtk |-> FALSE] :
                s \in {"v1", "v2"}}
  OBVIOUS
<1>2. file \in [Kind -> Digest \cup {Nothing}] /\ work \in Work \cup {Nothing}
  <2>1. file \in [Kind -> Digest \cup {Nothing}]
    <3> HIDE DEF Init
    <3> QED BY <1>1
  <2>2. \A s \in {"v1", "v2"} :
          [schema |-> s, status |-> "OPEN", risk |-> "LOW", art |-> file, rtk |-> FALSE] \in Work
    <3> HIDE DEF Init
    <3> QED BY <2>1 DEF Work
  <2> HIDE DEF Init
  <2> QED BY <1>1, <2>1, <2>2
<1>3. RegistryTypeOK /\ CommandsKnow
  BY <1>2 DEF RegistryTypeOK, CommandsKnow, Idle
<1>4. /\ tree \in [head : Commit, dirty : BOOLEAN]
      /\ pr \in [head : Commit, offered : BOOLEAN, green : SUBSET Commit, approved : BOOLEAN]
      /\ host \in [policy : {"none", "required", "prohibited"}, installed : BOOLEAN,
                   ready : BOOLEAN, hooks : Hook \cup {Unhooked}]
  OBVIOUS
<1>5. Now \in Surroundings
  BY <1>2, <1>4 DEF Now, Surroundings
<1>6. gate \in Gate
  BY <1>4 DEF Gate, Ended, Unbound, Verdict
<1>7. gate.pc = "idle" /\ gate.result = "none"
  BY DEF Ended
<1>8. GateIsOrderly /\ GateKnows /\ Witnessed /\ HeadsFollowed /\ ReadyHeadsMet
  BY <1>7 DEF GateIsOrderly, GateKnows, Witnessed, MergeReadyIsWitnessed,
              ExecutionReadyIsWitnessed, MergeSteps, ExecutionSteps, HeadsFollowed,
              ReadyHeadsMet
<1> QED BY <1>3, <1>5, <1>6, <1>8 DEF IInv, TypeOK

\* What goes on beside a gate takes nothing from what the gate knows.
LEMMA MeanwhileKeeps ==
  ASSUME IInv, Meanwhile, Remember
  PROVE  IInv'
<1>1. /\ RegistryTypeOK' /\ CommandsKnow' /\ Now' \in Surroundings
      /\ gate' = gate /\ (work # Nothing => work' # Nothing)
  BY MeanwhileTypes DEF IInv
<1>r. returned' \in BOOLEAN
  BY DEF IInv, TypeOK, Remember
<1>2. TypeOK'
  BY <1>1, <1>r DEF IInv, TypeOK, Remember
<1>3. GateIsOrderly'
  BY <1>1 DEF IInv, GateIsOrderly
<1>4. GateKnows'
  <2> SUFFICES ASSUME gate.pc # "idle", gate.reasons = {} PROVE Knows(gate, seen')
    BY <1>1 DEF GateKnows
  <2>1. Knows(gate, seen) /\ gate.result = "none"
    BY DEF IInv, GateKnows, GateIsOrderly
  <2>2. seen' = seen \cup {Now'}
    BY <1>1, <2>1 DEF Remember, Forgets
  <2> QED BY <2>1, <2>2, KnowledgeGrows
<1>5. Witnessed'
  <2>1. CASE gate.pc = "idle"
    BY <1>1, <2>1 DEF IInv, Remember, Witnessed, MergeReadyIsWitnessed,
                      ExecutionReadyIsWitnessed, IntakeWitnessed
  <2>2. CASE gate.pc # "idle"
    BY <1>1, <2>2 DEF IInv, GateIsOrderly, Witnessed, MergeReadyIsWitnessed,
                      ExecutionReadyIsWitnessed
  <2> QED BY <2>1, <2>2
<1>6. HeadsFollowed'
  <2> SUFFICES ASSUME gate.pc # "idle", gate.reasons = {}, gate.kind = "merge", ~returned'
               PROVE  /\ tree'.head = gate.local => \A s \in seen' : s.tree.head = gate.local
                      /\ gate.pc = "recheckPr" => Met(gate, seen')
    BY <1>1 DEF HeadsFollowed
  <2>1. gate.result = "none"
    BY DEF IInv, GateIsOrderly
  <2>2. seen' = seen \cup {Now'} /\ ~returned /\ ~ComesBack
    BY <1>1, <2>1 DEF Remember, Forgets
  <2>3. Now'.tree = tree'
    BY DEF Now
  <2> QED BY <2>2, <2>3 DEF IInv, HeadsFollowed, ComesBack, Met
<1>7. ReadyHeadsMet'
  <2>1. CASE gate.pc = "idle"
    BY <1>1, <2>1 DEF IInv, Remember, ReadyHeadsMet
  <2>2. CASE gate.pc # "idle"
    BY <1>1, <2>2 DEF IInv, GateIsOrderly, ReadyHeadsMet
  <2> QED BY <2>1, <2>2
<1> QED BY <1>1, <1>2, <1>3, <1>4, <1>5, <1>6, <1>7 DEF IInv

-----------------------------------------------------------------------------
(* The steps of the gates.                                                 *)

\* A gate changes nothing but itself.
LEMMA GateFrame ==
  ASSUME IInv, UNCHANGED <<registryVars, tree, pr, host>>, gate' \in Gate, Remember
  PROVE  TypeOK' /\ CommandsKnow' /\ Now' = Now /\ work' = work
<1>1. RegistryTypeOK' /\ CommandsKnow'
  BY DEF IInv, TypeOK, registryVars, RegistryTypeOK, CommandsKnow
<1>2. Now' = Now /\ work' = work
  BY DEF registryVars, Now
<1>r. returned' \in BOOLEAN
  BY DEF IInv, TypeOK, Remember
<1>3. TypeOK'
  BY <1>1, <1>2, <1>r DEF IInv, TypeOK, Remember
<1> QED BY <1>1, <1>2, <1>3

\* A step that keeps the gate running: if it finds nothing against readiness, what it
\* makes known must follow from what was known and from what is there now.
LEMMA GoesOn ==
  ASSUME IInv, UNCHANGED <<registryVars, tree, pr, host>>, gate' \in Gate, Remember,
         GateIsOrderly', gate'.pc # "idle", gate.pc # "idle",
         gate.reasons \subseteq gate'.reasons,
         gate'.reasons = {} /\ Knows(gate, seen \cup {Now}) => Knows(gate', seen \cup {Now}),
         gate'.local = gate.local, gate'.kind = gate.kind,
         gate'.pc = "recheckPr" /\ gate'.reasons = {} /\ ~returned => Met(gate', seen)
  PROVE  IInv'
<1>1. TypeOK' /\ CommandsKnow' /\ Now' = Now
  BY GateFrame
<1>2. gate'.result = "none"
  BY DEF GateIsOrderly
<1>3. GateKnows'
  <2> SUFFICES ASSUME gate'.reasons = {} PROVE Knows(gate', seen')
    BY DEF GateKnows
  <2>1. gate.reasons = {}
    OBVIOUS
  <2>2. Knows(gate, seen)
    BY <2>1 DEF IInv, GateKnows
  <2>3. seen' = seen \cup {Now}
    BY <1>1, <1>2 DEF Remember, Forgets
  <2> QED BY <2>2, <2>3, KnowledgeGrows
<1>4. Witnessed' /\ ReadyHeadsMet'
  BY <1>2 DEF Witnessed, MergeReadyIsWitnessed, ExecutionReadyIsWitnessed, ReadyHeadsMet
<1>5. HeadsFollowed'
  <2> SUFFICES ASSUME gate'.reasons = {}, gate'.kind = "merge", ~returned'
               PROVE  /\ tree'.head = gate'.local => \A s \in seen' : s.tree.head = gate'.local
                      /\ gate'.pc = "recheckPr" => Met(gate', seen')
    BY DEF HeadsFollowed
  <2>1. seen' = seen \cup {Now} /\ ~returned
    BY <1>1, <1>2 DEF Remember, Forgets
  <2>2. Now.tree = tree /\ gate.reasons = {}
    BY DEF Now
  <2> QED BY <2>1, <2>2 DEF IInv, HeadsFollowed, Met
<1> QED BY <1>1, <1>3, <1>4, <1>5 DEF IInv

\* A step that ends the gate without readiness.
LEMMA EndsWithout ==
  ASSUME IInv, UNCHANGED <<registryVars, tree, pr, host>>, Remember,
         NEW result \in {"error", "FAIL", "BLOCKED"}, Ends(result)
  PROVE  IInv'
<1>1. gate' \in Gate /\ gate'.pc = "idle" /\ gate'.result = result
  <2>1. gate.sha \in Commit
    BY DEF IInv, TypeOK, Gate
  <2> QED BY <2>1 DEF Ends, Ended, Gate, Unbound, Verdict
<1>2. TypeOK' /\ CommandsKnow'
  BY <1>1, GateFrame
<1>3. GateIsOrderly' /\ GateKnows' /\ Witnessed' /\ HeadsFollowed' /\ ReadyHeadsMet'
  BY <1>1 DEF GateIsOrderly, GateKnows, Witnessed, MergeReadyIsWitnessed,
              ExecutionReadyIsWitnessed, MergeSteps, ExecutionSteps, HeadsFollowed,
              ReadyHeadsMet
<1> QED BY <1>2, <1>3 DEF IInv

\* What the two gates know at the end is what their verdicts promise.
LEMMA EndsReady ==
  ASSUME IInv, UNCHANGED <<registryVars, tree, pr, host>>, Remember, gate.pc # "idle",
         NEW result \in {"MERGE_READY", "EXECUTION_READY"}, Ends(result),
         gate.reasons = {},
         NEW S, S = seen \cup {Now},
         Bound(gate, S, Kind),
         result = "MERGE_READY" =>
           /\ \E s \in S : s.work # Nothing /\ s.work.risk # "HIGH"
           /\ \E s \in S : s.tree.head = gate.sha
           /\ \E s \in S : ~s.tree.dirty
           /\ \E s \in S : s.pr.head = gate.sha /\ s.pr.offered
           /\ \E s \in S : s.pr.head = gate.sha /\ gate.sha \in s.pr.green /\ s.pr.approved
           /\ returned \/ Met(gate, seen),
         result = "EXECUTION_READY" =>
           \/ /\ \E s \in S : s.work # Nothing /\ s.work.schema = "v2" /\ ~s.work.rtk
              /\ \E s \in S : s.host.policy # "required"
           \/ /\ \E s \in S : s.host.policy # "prohibited"
              /\ \E s \in S : s.host.installed
              /\ \E s \in S : s.host.ready
              /\ \E s \in S : s.host.hooks \in Hook
  PROVE  IInv'
<1>1. gate' \in Gate /\ gate'.pc = "idle" /\ gate'.result = result /\ gate'.sha = gate.sha
      /\ gate'.reasons = {}
  <2>1. gate.sha \in Commit
    BY DEF IInv, TypeOK, Gate
  <2> QED BY <2>1 DEF Ends, Ended, Gate, Unbound, Verdict
<1>2. TypeOK' /\ CommandsKnow' /\ Now' = Now
  BY <1>1, GateFrame
<1>3. GateIsOrderly' /\ GateKnows' /\ HeadsFollowed'
  BY <1>1 DEF GateIsOrderly, GateKnows, MergeSteps, ExecutionSteps, HeadsFollowed
<1>4. seen' = S /\ (returned => returned')
  BY <1>1, <1>2 DEF Remember, Forgets
<1>5. IntakeWitnessed'
  BY <1>4 DEF Bound, IntakeWitnessed
<1>6. Witnessed'
  <2>1. CASE result = "MERGE_READY"
    BY <1>1, <1>4, <1>5, <2>1 DEF Witnessed, MergeReadyIsWitnessed, ExecutionReadyIsWitnessed
  <2>2. CASE result = "EXECUTION_READY"
    BY <1>1, <1>4, <1>5, <2>2 DEF Witnessed, MergeReadyIsWitnessed, ExecutionReadyIsWitnessed
  <2> QED BY <2>1, <2>2
<1>7. ReadyHeadsMet'
  BY <1>1, <1>4 DEF ReadyHeadsMet, Met
<1> QED BY <1>2, <1>3, <1>6, <1>7 DEF IInv

\* Each gate step keeps the invariant.
LEMMA GateKeeps ==
  ASSUME IInv, GateStep, Remember
  PROVE  IInv'
<1> DEFINE S == seen \cup {Now}
<1>u. UNCHANGED <<registryVars, tree, pr, host>>
  BY DEF GateStep
<1>g. /\ gate \in Gate /\ work \in Work \cup {Nothing}
      /\ tree.head \in Commit /\ pr.head \in Commit /\ host.hooks \in Hook \cup {Unhooked}
  BY DEF IInv, TypeOK, RegistryTypeOK, Now, Surroundings
<1>o. GateIsOrderly
  BY DEF IInv
<1>n. Now \in S /\ Now.work = work /\ Now.file = file /\ Now.tree = tree /\ Now.pr = pr
      /\ Now.host = host
  BY DEF Now
<1>w. work' = work
  BY <1>u DEF registryVars
<1> USE DEF Against
<1> HIDE DEF S
<1>1. ASSUME NEW kind \in {"merge", "execution"}, NEW reasons \in SUBSET {"FAIL", "BLOCKED"},
             NEW rtk \in BOOLEAN, gate.pc = "idle", work # Nothing,
             Start(kind, "intake", reasons, rtk),
             kind = "merge" /\ reasons = {} => work.risk # "HIGH",
             kind = "execution" => work.schema = "v2" /\ rtk = work.rtk
      PROVE  IInv'
  <2>1. /\ gate' \in Gate /\ gate'.pc = "intake" /\ gate'.result = "none"
        /\ gate'.kind = kind /\ gate'.reasons = reasons /\ gate'.rtk = rtk
        /\ gate'.local = tree.head
    BY <1>1, <1>g DEF Start, Ended, Gate, Unbound, Verdict
  <2>2. TypeOK' /\ CommandsKnow' /\ Now' = Now
    BY <1>u, <2>1, GateFrame
  <2>3. GateIsOrderly'
    BY <1>1, <1>w, <2>1 DEF GateIsOrderly, MergeSteps, ExecutionSteps
  <2>4. seen' = {Now}
    BY <1>1, <2>1, <2>2 DEF Remember
  <2>5. ASSUME reasons = {} PROVE Knows(gate', seen')
    BY <1>1, <1>n, <2>1, <2>4, <2>5
       DEF Knows, KnowsIntake, KnowsMerge, KnowsHost, MergeSteps, ExecutionSteps
  <2>6. GateKnows' /\ Witnessed' /\ ReadyHeadsMet'
    BY <2>1, <2>5 DEF GateKnows, Witnessed, MergeReadyIsWitnessed, ExecutionReadyIsWitnessed,
                      ReadyHeadsMet
  <2>7. HeadsFollowed'
    BY <1>n, <1>u, <2>1, <2>4 DEF HeadsFollowed
  <2> QED BY <2>2, <2>3, <2>6, <2>7 DEF IInv
<1>2. CASE StartMerge
  BY <1>1, <1>2 DEF StartMerge
<1>3. CASE StartExecution
  <2>1. work.rtk \in BOOLEAN
    BY <1>3, <1>g DEF StartExecution, Work
  <2> QED BY <1>1, <1>3, <2>1 DEF StartExecution
<1>4. CASE Intake
  <2>1. work \in Work
    BY <1>4, <1>g, <1>o DEF Intake, GateIsOrderly
  <2>2. /\ gate' \in Gate /\ gate'.pc = "SPEC" /\ gate.pc = "intake"
        /\ gate.reasons \subseteq gate'.reasons /\ gate'.art = work.art
        /\ gate'.reasons = {} => work.status = "OPEN"
        /\ gate'.result = gate.result /\ gate'.kind = gate.kind /\ gate'.rtk = gate.rtk
        /\ gate'.local = gate.local /\ gate'.sha = gate.sha
    BY <1>4, <1>g, <2>1 DEF Intake, Gate, Work
  <2>3. GateIsOrderly'
    BY <1>o, <1>w, <2>2 DEF GateIsOrderly, MergeSteps, ExecutionSteps
  <2>4. ASSUME gate'.reasons = {}, Knows(gate, S) PROVE Knows(gate', S)
    BY <1>n, <2>1, <2>2, <2>4, NoWorkAssumption
       DEF Knows, KnowsIntake, KnowsMerge, KnowsHost, Bound, MergeSteps, ExecutionSteps
  <2> QED BY <1>u, <2>2, <2>3, <2>4, GoesOn DEF S
<1>5. CASE CheckSpec
  <2>1. /\ gate' \in Gate /\ gate'.pc = "PLAN" /\ gate.pc = "SPEC"
        /\ gate.reasons \subseteq gate'.reasons
        /\ gate'.reasons = {} => gate.art["SPEC"] # Nothing /\ file["SPEC"] = gate.art["SPEC"]
        /\ gate'.art = gate.art
        /\ gate'.result = gate.result /\ gate'.kind = gate.kind /\ gate'.rtk = gate.rtk
        /\ gate'.local = gate.local /\ gate'.sha = gate.sha
    BY <1>5, <1>g DEF CheckSpec, Stale, Gate
  <2>2. GateIsOrderly'
    BY <1>o, <1>w, <2>1 DEF GateIsOrderly, MergeSteps, ExecutionSteps
  <2>3. ASSUME gate'.reasons = {}, Knows(gate, S) PROVE Knows(gate', S)
    <3>1. Bound(gate', S, {"SPEC"})
      BY <1>n, <2>1, <2>3 DEF Knows, KnowsIntake, Bound
    <3> QED BY <2>1, <2>3, <3>1
            DEF Knows, KnowsIntake, KnowsMerge, KnowsHost, MergeSteps, ExecutionSteps
  <2> QED BY <1>u, <2>1, <2>2, <2>3, GoesOn DEF S
<1>6. CASE CheckPlan
  <2> DEFINE reasons == gate.reasons \cup Against(Stale("PLAN"), "FAIL")
  <2>0. gate.pc = "PLAN"
    BY <1>6 DEF CheckPlan
  <2>1. CASE gate.kind = "execution" /\ reasons # {}
    <3>1. Ends("BLOCKED")
      BY <1>6, <2>1 DEF CheckPlan
    <3> QED BY <1>u, <3>1, EndsWithout
  <2>2. CASE ~(gate.kind = "execution" /\ reasons # {})
    <3>1. /\ gate' \in Gate /\ gate'.pc = IF gate.kind = "merge" THEN "view" ELSE "policy"
          /\ gate.reasons \subseteq gate'.reasons
          /\ gate'.pc = "policy" => gate'.reasons = {}
          /\ gate'.reasons = {} => gate.art["PLAN"] # Nothing /\ file["PLAN"] = gate.art["PLAN"]
          /\ gate'.art = gate.art
          /\ gate'.result = gate.result /\ gate'.kind = gate.kind /\ gate'.rtk = gate.rtk
          /\ gate'.local = gate.local /\ gate'.sha = gate.sha
      <4>1. reasons \in SUBSET {"FAIL", "BLOCKED"} /\ gate.reasons \subseteq reasons
            /\ (reasons = {} => gate.art["PLAN"] # Nothing /\ file["PLAN"] = gate.art["PLAN"])
        BY <1>g DEF Stale, Gate
      <4>2. gate.kind \in {"merge", "execution"} /\ (gate.kind # "merge" => reasons = {})
        BY <1>g, <2>2 DEF Gate
      <4>3. CASE gate.kind = "merge"
        <5>1. gate' = [gate EXCEPT !.pc = "view", !.reasons = reasons]
          BY <1>6, <4>3 DEF CheckPlan
        <5> HIDE DEF reasons
        <5> QED BY <1>g, <4>1, <4>3, <5>1 DEF Gate
      <4>4. CASE gate.kind # "merge"
        <5>1. gate' = [gate EXCEPT !.pc = "policy"] /\ gate.reasons = {}
          BY <1>6, <4>1, <4>2, <4>4 DEF CheckPlan
        <5> HIDE DEF reasons
        <5> QED BY <1>g, <4>1, <4>2, <4>4, <5>1 DEF Gate
      <4> QED BY <4>3, <4>4
    <3>2. GateIsOrderly'
      BY <1>g, <1>o, <1>w, <2>0, <3>1 DEF GateIsOrderly, MergeSteps, ExecutionSteps, Gate
    <3>3. ASSUME gate'.reasons = {}, Knows(gate, S) PROVE Knows(gate', S)
      <4>1. Bound(gate', S, Kind)
        BY <1>n, <2>0, <3>1, <3>3 DEF Knows, KnowsIntake, Bound, Kind
      <4> QED BY <2>0, <3>1, <3>3, <4>1
              DEF Knows, KnowsIntake, KnowsMerge, KnowsHost, MergeSteps, ExecutionSteps
    <3>4. gate'.pc # "idle" /\ gate.pc # "idle"
      BY <2>0, <3>1
    <3> QED BY <1>u, <3>1, <3>2, <3>3, <3>4, GoesOn DEF S
  <2> QED BY <2>1, <2>2
<1>7. CASE View
  <2>1. /\ gate' \in Gate /\ gate'.pc = "evidence" /\ gate.pc = "view" /\ gate.kind = "merge"
        /\ gate.reasons \subseteq gate'.reasons /\ gate'.sha = pr.head
        /\ gate'.reasons = {} => ~tree.dirty /\ pr.offered /\ gate.local = pr.head
        /\ gate'.art = gate.art
        /\ gate'.result = gate.result /\ gate'.kind = gate.kind /\ gate'.rtk = gate.rtk
        /\ gate'.local = gate.local
    BY <1>7, <1>g, <1>o DEF View, Gate, GateIsOrderly, MergeSteps
  <2>2. GateIsOrderly'
    BY <1>o, <1>w, <2>1 DEF GateIsOrderly, MergeSteps, ExecutionSteps
  <2>3. ASSUME gate'.reasons = {}, Knows(gate, S) PROVE Knows(gate', S)
    <3>1. Bound(gate', S, Kind)
      BY <2>1, <2>3 DEF Knows, KnowsIntake, Bound, MergeSteps
    <3> QED BY <1>n, <2>1, <2>3, <3>1
            DEF Knows, KnowsIntake, KnowsMerge, KnowsHost, MergeSteps, ExecutionSteps
  <2> QED BY <1>u, <2>1, <2>2, <2>3, GoesOn DEF S
<1>8. CASE Evidence
  <2>1. /\ gate' \in Gate /\ gate'.pc = "recheck" /\ gate.pc = "evidence" /\ gate.kind = "merge"
        /\ gate.reasons \subseteq gate'.reasons /\ gate'.sha = gate.sha
        /\ gate'.reasons = {} => pr.head = gate.sha /\ gate.sha \in pr.green /\ pr.approved
        /\ gate'.art = gate.art
        /\ gate'.result = gate.result /\ gate'.kind = gate.kind /\ gate'.rtk = gate.rtk
        /\ gate'.local = gate.local
    BY <1>8, <1>g, <1>o DEF Evidence, NotProven, Gate, GateIsOrderly, MergeSteps
  <2>2. GateIsOrderly'
    BY <1>o, <1>w, <2>1 DEF GateIsOrderly, MergeSteps, ExecutionSteps
  <2>3. ASSUME gate'.reasons = {}, Knows(gate, S) PROVE Knows(gate', S)
    <3>1. Bound(gate', S, Kind)
      BY <2>1, <2>3 DEF Knows, KnowsIntake, Bound, MergeSteps
    <3> QED BY <1>n, <2>1, <2>3, <3>1
            DEF Knows, KnowsIntake, KnowsMerge, KnowsHost, MergeSteps, ExecutionSteps
  <2> QED BY <1>u, <2>1, <2>2, <2>3, GoesOn DEF S
<1>17. CASE RecheckLocal
  <2>1. /\ gate' \in Gate /\ gate'.pc = "recheckPr" /\ gate.pc = "recheck" /\ gate.kind = "merge"
        /\ gate.reasons \subseteq gate'.reasons /\ gate'.sha = gate.sha
        /\ gate'.reasons = {} => tree.head = gate.local
        /\ gate'.art = gate.art
        /\ gate'.result = gate.result /\ gate'.kind = gate.kind /\ gate'.rtk = gate.rtk
        /\ gate'.local = gate.local
    BY <1>17, <1>g, <1>o DEF RecheckLocal, Gate, GateIsOrderly, MergeSteps
  <2>2. GateIsOrderly'
    BY <1>o, <1>w, <2>1 DEF GateIsOrderly, MergeSteps, ExecutionSteps
  <2>3. ASSUME gate'.reasons = {}, Knows(gate, S) PROVE Knows(gate', S)
    <3>1. Bound(gate', S, Kind)
      BY <2>1, <2>3 DEF Knows, KnowsIntake, Bound, MergeSteps
    <3> QED BY <2>1, <2>3, <3>1
            DEF Knows, KnowsIntake, KnowsMerge, KnowsHost, MergeSteps, ExecutionSteps
  <2>4. ASSUME gate'.reasons = {}, ~returned PROVE Met(gate', seen)
    <3>1. gate.reasons = {} /\ \A s \in seen : s.tree.head = gate.local
      BY <2>1, <2>4 DEF IInv, HeadsFollowed
    <3>2. /\ gate.local = gate.sha
          /\ \E s \in seen : s.pr.head = gate.sha /\ gate.sha \in s.pr.green /\ s.pr.approved
      BY <2>1, <3>1 DEF IInv, GateKnows, Knows, KnowsMerge
    <3> QED BY <2>1, <3>1, <3>2 DEF Met
  <2> QED BY <1>u, <2>1, <2>2, <2>3, <2>4, GoesOn DEF S
<1>9. CASE RecheckPr
  <2> DEFINE reasons == gate.reasons \cup Against(pr.head # gate.sha, "BLOCKED")
  <2>0. gate.pc = "recheckPr" /\ gate.kind = "merge"
    BY <1>9, <1>o DEF RecheckPr, GateIsOrderly, MergeSteps
  <2>1. CASE reasons = {}
    <3>1. gate.reasons = {} /\ Ends("MERGE_READY")
      BY <1>9, <2>1 DEF RecheckPr, Decides
    <3>2. Knows(gate, S)
      BY <2>0, <3>1, KnowledgeGrows DEF IInv, GateKnows, S
    <3>3. /\ Bound(gate, S, Kind)
          /\ \E s \in S : s.work # Nothing /\ s.work.risk # "HIGH"
          /\ \E s \in S : s.tree.head = gate.sha
          /\ \E s \in S : ~s.tree.dirty
          /\ \E s \in S : s.pr.head = gate.sha /\ s.pr.offered
          /\ \E s \in S : s.pr.head = gate.sha /\ gate.sha \in s.pr.green /\ s.pr.approved
      BY <2>0, <3>2 DEF Knows, KnowsIntake, KnowsMerge, MergeSteps
    <3>4. returned \/ Met(gate, seen)
      BY <2>0, <3>1 DEF IInv, HeadsFollowed
    <3> QED BY <1>u, <2>0, <3>1, <3>3, <3>4, EndsReady DEF S
  <2>2. CASE reasons # {}
    <3>1. Ends("BLOCKED") \/ Ends("FAIL")
      BY <1>9, <2>2 DEF RecheckPr, Decides
    <3> QED BY <1>u, <3>1, EndsWithout
  <2> QED BY <2>1, <2>2
<1>10. CASE ProviderFails
  BY <1>u, <1>10, EndsWithout DEF ProviderFails
<1>11. CASE Policy
  <2> DEFINE rtk == gate.rtk \/ host.policy = "required"
  <2>0. gate.pc = "policy" /\ gate.kind = "execution" /\ gate.reasons = {}
    BY <1>11, <1>o DEF Policy, GateIsOrderly, ExecutionSteps
  <2>k. Knows(gate, S)
    BY <2>0, KnowledgeGrows DEF IInv, GateKnows, S
  <2>1. CASE ~rtk
    <3>1. Ends("EXECUTION_READY")
      BY <1>11, <2>1 DEF Policy
    <3>2. /\ Bound(gate, S, Kind)
          /\ \E s \in S : s.work # Nothing /\ s.work.schema = "v2" /\ ~s.work.rtk
          /\ \E s \in S : s.host.policy # "required"
      BY <1>n, <2>0, <2>1, <2>k DEF Knows, KnowsIntake, KnowsHost, ExecutionSteps
    <3> QED BY <1>u, <2>0, <3>1, <3>2, EndsReady DEF S
  <2>2. CASE rtk /\ host.policy = "prohibited"
    <3>1. Ends("FAIL")
      BY <1>11, <2>2 DEF Policy
    <3> QED BY <1>u, <3>1, EndsWithout
  <2>3. CASE rtk /\ host.policy # "prohibited"
    <3>1. gate' = [gate EXCEPT !.pc = "installed", !.rtk = TRUE]
      BY <1>11, <2>3 DEF Policy
    <3>2. gate' \in Gate
      BY <1>g, <3>1 DEF Gate
    <3>3. /\ gate'.pc = "installed" /\ gate'.rtk /\ gate'.reasons = gate.reasons
          /\ gate'.art = gate.art /\ gate'.kind = gate.kind /\ gate'.result = gate.result
          /\ gate'.local = gate.local
      BY <1>g, <3>1 DEF Gate
    <3>4. GateIsOrderly'
      BY <1>o, <1>w, <2>0, <3>3 DEF GateIsOrderly, MergeSteps, ExecutionSteps
    <3>5. Bound(gate', S, Kind)
      BY <2>0, <2>k, <3>3 DEF Knows, KnowsIntake, Bound, ExecutionSteps
    <3>6. Knows(gate', S)
      BY <1>n, <2>0, <2>3, <3>3, <3>5
         DEF Knows, KnowsIntake, KnowsMerge, KnowsHost, MergeSteps, ExecutionSteps
    <3> QED BY <1>u, <2>0, <3>2, <3>3, <3>4, <3>6, GoesOn DEF S
  <2> QED BY <2>1, <2>2, <2>3
<1>12. ASSUME NEW from \in {"installed", "provider"}, NEW to \in {"provider", "binding"},
              gate.pc = from, gate' = [gate EXCEPT !.pc = to],
              from = "installed" => to = "provider" /\ host.installed,
              from = "provider" => to = "binding" /\ host.ready
       PROVE  IInv'
  <2>0. gate.kind = "execution" /\ gate.reasons = {} /\ gate.rtk
    BY <1>12, <1>o DEF GateIsOrderly, ExecutionSteps
  <2>k. Knows(gate, S)
    BY <1>12, <2>0, KnowledgeGrows DEF IInv, GateKnows, S
  <2>1. gate' \in Gate
    BY <1>12, <1>g DEF Gate
  <2>2. /\ gate'.pc = to /\ gate'.rtk /\ gate'.reasons = gate.reasons
        /\ gate'.art = gate.art /\ gate'.kind = gate.kind /\ gate'.result = gate.result
        /\ gate'.local = gate.local
    BY <1>12, <1>g, <2>0 DEF Gate
  <2>3. GateIsOrderly'
    BY <1>12, <1>o, <1>w, <2>0, <2>2 DEF GateIsOrderly, MergeSteps, ExecutionSteps
  <2>4. Bound(gate', S, Kind)
    BY <1>12, <2>k, <2>2 DEF Knows, KnowsIntake, Bound, ExecutionSteps
  <2>5. Knows(gate', S)
    BY <1>12, <1>n, <2>0, <2>k, <2>2, <2>4
       DEF Knows, KnowsIntake, KnowsMerge, KnowsHost, MergeSteps, ExecutionSteps
  <2> QED BY <1>u, <1>12, <2>0, <2>1, <2>2, <2>3, <2>5, GoesOn DEF S
<1>13. CASE Installed \/ Provider
  BY <1>u, <1>12, <1>13, EndsWithout DEF Installed, Provider
<1>14. CASE Binding
  <2>0. gate.pc = "binding" /\ gate.kind = "execution" /\ gate.reasons = {} /\ gate.rtk
    BY <1>14, <1>o DEF Binding, GateIsOrderly, ExecutionSteps
  <2>k. Knows(gate, S)
    BY <2>0, KnowledgeGrows DEF IInv, GateKnows, S
  <2>1. gate' \in Gate
    BY <1>14, <1>g DEF Binding, Gate
  <2>2. /\ gate'.pc = "digest" /\ gate'.rtk
        /\ gate'.reasons = {} => host.hooks \in Hook
        /\ gate'.art = gate.art /\ gate'.kind = gate.kind /\ gate'.result = gate.result
        /\ gate'.local = gate.local
    BY <1>14, <1>g, <2>0 DEF Binding, Gate
  <2>3. GateIsOrderly'
    BY <1>o, <1>w, <2>0, <2>2 DEF GateIsOrderly, MergeSteps, ExecutionSteps
  <2>4. Bound(gate', S, Kind)
    BY <2>0, <2>k, <2>2 DEF Knows, KnowsIntake, Bound, ExecutionSteps
  <2>5. gate'.reasons = {} => Knows(gate', S)
    BY <1>n, <2>0, <2>k, <2>2, <2>4
       DEF Knows, KnowsIntake, KnowsMerge, KnowsHost, MergeSteps, ExecutionSteps
  <2> QED BY <1>u, <2>0, <2>1, <2>2, <2>3, <2>5, GoesOn DEF S
<1>16. CASE Digests
  <2>0. gate.pc = "digest" /\ gate.kind = "execution" /\ gate.rtk
    BY <1>16, <1>o DEF Digests, GateIsOrderly, ExecutionSteps
  <2>1. gate' \in Gate
    BY <1>16, <1>g DEF Digests, Gate
  <2>2. /\ gate'.pc = "again" /\ gate'.rtk /\ gate'.reasons = gate.reasons
        /\ gate'.art = gate.art /\ gate'.kind = gate.kind /\ gate'.result = gate.result
        /\ gate'.local = gate.local
    BY <1>16, <1>g, <2>0 DEF Digests, Gate
  <2>3. GateIsOrderly'
    BY <1>o, <1>w, <2>0, <2>2 DEF GateIsOrderly, MergeSteps, ExecutionSteps
  <2>4. ASSUME gate'.reasons = {} /\ Knows(gate, S) PROVE Knows(gate', S)
    <3>1. Bound(gate', S, Kind)
      BY <2>0, <2>2, <2>4 DEF Knows, KnowsIntake, Bound, ExecutionSteps
    <3> QED BY <2>0, <2>2, <2>4, <3>1
               DEF Knows, KnowsIntake, KnowsMerge, KnowsHost, MergeSteps, ExecutionSteps
  <2> QED BY <1>u, <2>0, <2>1, <2>2, <2>3, <2>4, GoesOn DEF S
<1>15. CASE Again
  <2> DEFINE reasons == gate.reasons \cup Against(host.hooks # gate.hooks, "BLOCKED")
  <2>0. gate.pc = "again" /\ gate.kind = "execution"
    BY <1>15, <1>o DEF Again, GateIsOrderly, ExecutionSteps
  <2>1. CASE reasons = {}
    <3>1. gate.reasons = {} /\ Ends("EXECUTION_READY")
      BY <1>15, <2>1 DEF Again, Decides
    <3>2. Knows(gate, S)
      BY <2>0, <3>1, KnowledgeGrows DEF IInv, GateKnows, S
    <3>3. /\ Bound(gate, S, Kind)
          /\ \E s \in S : s.host.policy # "prohibited"
          /\ \E s \in S : s.host.installed
          /\ \E s \in S : s.host.ready
          /\ \E s \in S : s.host.hooks \in Hook
      BY <2>0, <3>2 DEF Knows, KnowsIntake, KnowsHost, ExecutionSteps
    <3> QED BY <1>u, <2>0, <3>1, <3>3, EndsReady DEF S
  <2>2. CASE reasons # {}
    <3>1. Ends("BLOCKED") \/ Ends("FAIL")
      BY <1>15, <2>2 DEF Again, Decides
    <3> QED BY <1>u, <3>1, EndsWithout
  <2> QED BY <2>1, <2>2
<1> QED BY <1>2, <1>3, <1>4, <1>5, <1>6, <1>7, <1>8, <1>9, <1>10, <1>11, <1>13, <1>14, <1>15, <1>16, <1>17
        DEF GateStep

\* The invariant holds in every reachable state, for any commands, contents, commits,
\* hook files and bound: what a running gate has accepted is witnessed by its history.
THEOREM Invariance == Spec => []IInv
<1>1. Init => IInv
  BY InitInvariant
<1>2. IInv /\ [Next]_vars => IInv'
  <2> SUFFICES ASSUME IInv, [Next]_vars PROVE IInv'
    OBVIOUS
  <2>1. CASE Next
    BY <2>1, MeanwhileKeeps, GateKeeps DEF Next
  <2>2. CASE UNCHANGED vars
    <3>1. TypeOK'
      BY <2>2 DEF IInv, TypeOK, RegistryTypeOK, Now, vars, registryVars
    <3>2. CommandsKnow' /\ GateIsOrderly' /\ GateKnows' /\ HeadsFollowed' /\ ReadyHeadsMet'
      BY <2>2 DEF IInv, CommandsKnow, GateIsOrderly, GateKnows, HeadsFollowed, ReadyHeadsMet,
                  vars, registryVars
    <3>3. Witnessed'
      BY <2>2 DEF IInv, Witnessed, MergeReadyIsWitnessed, ExecutionReadyIsWitnessed,
                  IntakeWitnessed, vars, registryVars
    <3> QED BY <3>1, <3>2, <3>3 DEF IInv
  <2> QED BY <2>1, <2>2
<1> QED BY <1>1, <1>2, PTL DEF Spec

-----------------------------------------------------------------------------
(* Theorems.                                                               *)

\* The work file is a well-formed work item or absent, and the gate in one of its
\* states, whatever commands overlap, fail or die.
THEOREM TypeCorrect == Spec => []TypeOK
<1>1. IInv => TypeOK
  BY DEF IInv
<1> QED BY <1>1, Invariance, PTL

\* MERGE_READY rests on states that were there, each requirement in one moment of the
\* evaluation and the evidence on the head it is given for.
THEOREM MergeReadinessIsWitnessed == Spec => []MergeReadyIsWitnessed
<1>1. IInv => MergeReadyIsWitnessed
  BY DEF IInv, Witnessed
<1> QED BY <1>1, Invariance, PTL

\* EXECUTION_READY rests on states that were there.
THEOREM ExecutionReadinessIsWitnessed == Spec => []ExecutionReadyIsWitnessed
<1>1. IInv => ExecutionReadyIsWitnessed
  BY DEF IInv, Witnessed
<1> QED BY <1>1, Invariance, PTL

\* MERGE_READY is given for a commit that was, at one moment, both heads at once with its
\* evidence, unless the local head came back to it unseen.
THEOREM HeadsMet == Spec => []ReadyHeadsMet
<1>1. IInv => ReadyHeadsMet
  BY DEF IInv
<1> QED BY <1>1, Invariance, PTL
=============================================================================
