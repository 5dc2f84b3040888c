---------------------------- MODULE AtomicInstall ----------------------------
(***************************************************************************)
(* What a transactional installer promises: whoever looks at the project    *)
(* while no installer runs sees an installation as a whole or not at all,   *)
(* with images of what it changed, and an undo that changes exactly that    *)
(* back.  A process that dies, an undo somebody forces, and a restore from  *)
(* images that are not whole may leave anything: they are counted in        *)
(* disturbed.                                                               *)
(***************************************************************************)
EXTENDS Naturals

CONSTANTS
    Paths,    \* the files of the project that an installation may touch
    Contents, \* what they may contain
    None,     \* no image: the installation does not touch the file
    Pointer,  \* the file that names the last installation
    Absent,   \* no such file
    Ids       \* installations

VARIABLES project, journal, disturbed

vars == <<project, journal, disturbed>>

Images == [Paths -> Contents \cup {None}]
Entries == [done : BOOLEAN, before : Images, after : Images, owned : Images]
Blank == [p \in Paths |-> None]

TypeOK ==
    /\ project \in [Paths -> Contents] /\ journal \in [Ids -> Entries]
    /\ disturbed \in Nat

Init ==
    /\ project \in [Paths -> Contents]
    /\ journal = [i \in Ids |-> [done |-> FALSE, before |-> Blank, after |-> Blank, owned |-> Blank]]
    /\ disturbed = 0

\* An installation happens at once; its entry says what changed, and what it owns is there.
Update(i) ==
    /\ ~journal[i].done /\ journal'[i].done
    /\ \A j \in Ids \ {i} : journal'[j] = journal[j]
    /\ \A p \in Paths :
          /\ journal'[i].before[p] \in {None, project[p]}
          /\ journal'[i].before[p] = None => project'[p] = project[p]
          /\ journal'[i].before[p] # None => project'[p] = journal'[i].after[p]
          /\ journal'[i].owned[p] \in {None, project'[p]}
    /\ UNCHANGED disturbed

\* An attempt that comes to nothing, or has not come to its end, leaves only notes.
Attempt(i) ==
    /\ ~journal[i].done /\ ~journal'[i].done
    /\ \A j \in Ids \ {i} : journal'[j] = journal[j]
    /\ UNCHANGED <<project, disturbed>>

\* Undoing needs every file as the installation left it.  The pointer goes too
\* when its image does not bring another one back.
Undo(i) ==
    /\ \A p \in Paths : journal[i].before[p] # None => project[p] = journal[i].after[p]
    /\ \A p \in Paths :
          \/ project'[p] = IF journal[i].before[p] = None THEN project[p] ELSE journal[i].before[p]
          \/ p = Pointer /\ project'[p] = Absent
    /\ UNCHANGED <<journal, disturbed>>

Edit(p) ==
    /\ \A q \in Paths \ {p} : project'[q] = project[q]
    /\ UNCHANGED <<journal, disturbed>>

\* What is done stays done, whatever else is spoilt.
Disturb ==
    /\ disturbed' = disturbed + 1
    /\ \A i \in Ids : journal'[i] = journal[i] \/ (~journal[i].done /\ ~journal'[i].done)

Next ==
    \/ \E i \in Ids : Update(i) \/ Attempt(i) \/ Undo(i)
    \/ \E p \in Paths : Edit(p)
    \/ Disturb

Spec == Init /\ [][Next]_vars
=============================================================================
