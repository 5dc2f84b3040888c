---------------------------- MODULE WorkRegistry ----------------------------
(***************************************************************************)
(* One work item of a consumer repository, .ges/governance/works/<id>.yaml *)
(* and the commands that change it: `ges work create|update|close|migrate',*)
(* `ges work capability add|remove' and `ges artifact link'.  A command    *)
(* loads the file, decides, and replaces the file as a whole with what it  *)
(* computed from what it loaded; there is no lock and no comparison, so    *)
(* commands of several people and agents overlap.                          *)
(*                                                                         *)
(* A command that refuses changes nothing and is no step here.  Title and  *)
(* owner are left out, MEDIUM risk counts as LOW, each kind of artifact    *)
(* lives at one path, and RTK is the only capability of the catalog.       *)
(***************************************************************************)
EXTENDS Naturals

CONSTANTS
  Command,     \* who may run a command: one at a time each
  Digest,      \* contents of the files a work item may link
  Nothing,     \* no work file, no artifact, no file
  MaxChanges   \* bound: commands, and changes in the surroundings

ASSUME RegistryBoundsAssumption == MaxChanges \in Nat
ASSUME NothingAssumption == Nothing \notin Digest

Kind == {"SPEC", "PLAN"}

Work ==
  [schema : {"v1", "v2"}, status : {"OPEN", "CLOSED"}, risk : {"LOW", "HIGH"},
   art : [Kind -> Digest \cup {Nothing}], \* the digest each kind is bound to
   rtk : BOOLEAN]                         \* whether RTK is a required capability

ASSUME NoWorkAssumption == Nothing \notin Work
ASSUME PairAssumption == Nothing \notin Kind \X Digest

VARIABLES
  work,     \* the work file
  file,     \* the artifact files in the working tree
  cmd,      \* the commands: what each is about to write, and what a migration loaded
  host,     \* capability policy and overlay, the rtk binary, the host's hooks
  changes   \* commands and changes so far

registryVars == <<work, file, cmd, changes>>

Idle == [pc |-> "idle", new |-> Nothing, before |-> Nothing, link |-> Nothing]

RegistryTypeOK ==
  /\ work \in Work \cup {Nothing}
  /\ file \in [Kind -> Digest \cup {Nothing}]
  /\ cmd \in [Command -> [pc : {"idle", "hashed", "capture", "write", "reread", "crossed"},
                          new : Work \cup {Nothing}, before : Work \cup {Nothing},
                          link : (Kind \X Digest) \cup {Nothing}]]
  /\ changes \in Nat

Unbound == [k \in Kind |-> Nothing]

Change == changes < MaxChanges /\ changes' = changes + 1

-----------------------------------------------------------------------------
(* Commands: what is loaded decides what will be written.                  *)

Starts(p) ==
  /\ cmd[p].pc = "idle"
  /\ Change
  /\ UNCHANGED <<work, file, host>>

WillWrite(p, new) == cmd' = [cmd EXCEPT ![p] = [Idle EXCEPT !.pc = "write", !.new = new]]

\* The path is looked at twice before the write; what counts is the second look.
Create(p) ==
  /\ Starts(p)
  /\ work = Nothing
  /\ \E risk \in {"LOW", "HIGH"} :
       WillWrite(p, [schema |-> "v2", status |-> "OPEN", risk |-> risk,
                     art |-> Unbound, rtk |-> FALSE])

Update(p) ==
  /\ Starts(p)
  /\ work # Nothing /\ work.status # "CLOSED"
  /\ \E risk \in {"LOW", "HIGH"} : WillWrite(p, [work EXCEPT !.risk = risk])

Close(p) ==
  /\ Starts(p)
  /\ work # Nothing /\ work.status = "OPEN"
  /\ WillWrite(p, [work EXCEPT !.status = "CLOSED"])

\* A capability the policy prohibits is not added; one that is not there not removed.
SetCapability(p) ==
  /\ Starts(p)
  /\ work # Nothing /\ work.schema = "v2" /\ work.status # "CLOSED"
  /\ \E rtk \in BOOLEAN :
       /\ IF rtk THEN host.policy # "prohibited" ELSE work.rtk
       /\ WillWrite(p, [work EXCEPT !.rtk = rtk])

\* link_artifact hashes the file, then loads the work.
Hash(p, k) ==
  /\ Starts(p)
  /\ file[k] # Nothing
  /\ cmd' = [cmd EXCEPT ![p] = [Idle EXCEPT !.pc = "hashed", !.link = <<k, file[k]>>]]

Link(p) ==
  /\ cmd[p].pc = "hashed"
  /\ work # Nothing
  /\ LET k == cmd[p].link[1]  d == cmd[p].link[2]
     IN  IF work.art[k] = d
           THEN cmd' = [cmd EXCEPT ![p] = Idle]
           ELSE WillWrite(p, [work EXCEPT !.art[k] = d])
  /\ UNCHANGED <<work, file, host, changes>>

\* migrate_work loads the work, then the bytes it will restore on failure.
Migrate(p) ==
  /\ Starts(p)
  /\ work # Nothing /\ work.schema = "v1"
  /\ cmd' = [cmd EXCEPT ![p] = [Idle EXCEPT !.pc = "capture",
                                           !.new = [work EXCEPT !.schema = "v2", !.rtk = FALSE]]]

Capture(p) ==
  /\ cmd[p].pc = "capture"
  /\ cmd' = [cmd EXCEPT ![p].pc = "write", ![p].before = work]
  /\ UNCHANGED <<work, file, host, changes>>

-----------------------------------------------------------------------------
(* Writing.                                                                *)

Crossed(commandsNow) ==
  [q \in Command |-> IF commandsNow[q].pc = "reread" THEN [commandsNow[q] EXCEPT !.pc = "crossed"]
                     ELSE commandsNow[q]]

\* _atomic_replace.  It reads the file again; that ends in an error when somebody
\* has written since, but only a migration does anything about it.
Replace(p) ==
  /\ cmd[p].pc = "write"
  /\ work' = cmd[p].new
  /\ cmd' = [Crossed(cmd) EXCEPT ![p] =
               IF cmd[p].before = Nothing THEN Idle ELSE [cmd[p] EXCEPT !.pc = "reread"]]
  /\ UNCHANGED <<file, host, changes>>

MigrationEnds(p) ==
  /\ \/ cmd[p].pc = "reread"
     \/ cmd[p].pc = "crossed" /\ work = cmd[p].new
  /\ cmd' = [cmd EXCEPT ![p] = Idle]
  /\ UNCHANGED <<work, file, host, changes>>

\* Any exception of a migration, the failed reread included: the bytes it captured
\* are written back over whatever is there now.
MigrationFails(p) ==
  /\ cmd[p].pc \in {"write", "reread", "crossed"}
  /\ cmd[p].before # Nothing
  /\ work' = cmd[p].before
  /\ cmd' = [Crossed(cmd) EXCEPT ![p] = Idle]
  /\ UNCHANGED <<file, host, changes>>

\* Killed, or failed before the file is replaced.
CommandDies(p) ==
  /\ cmd[p].pc # "idle"
  /\ cmd' = [cmd EXCEPT ![p] = Idle]
  /\ UNCHANGED <<work, file, host, changes>>

CommandStep(p) ==
  \/ Create(p) \/ Update(p) \/ Close(p) \/ SetCapability(p)
  \/ \E k \in Kind : Hash(p, k)
  \/ Link(p) \/ Migrate(p) \/ Capture(p)
  \/ Replace(p) \/ MigrationEnds(p) \/ MigrationFails(p) \/ CommandDies(p)

EditFile(k) ==
  /\ Change
  /\ \E d \in Digest \cup {Nothing} : file' = [file EXCEPT ![k] = d]
  /\ UNCHANGED <<work, cmd, host>>

RegistryNext == (\E p \in Command : CommandStep(p)) \/ (\E k \in Kind : EditFile(k))
=============================================================================
