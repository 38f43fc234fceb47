------------------------------ MODULE SpecLock -------------------------------
(***************************************************************************)
(* The spec lock (spec/lock.py): a person edits the reviewed rules by      *)
(* hand, their version numbers too, and tools/lock_spec.py records which   *)
(* rule each number stands for.                                            *)
(***************************************************************************)
EXTENDS Integers, FiniteSets

CONSTANTS
  Reviewed,       \* ids of reviewed controls
  Rules,          \* what a rule may say that decides a verdict
  Notes,          \* what it may say that decides none
  LastVersion,    \* the highest number somebody writes
  Absent

ASSUME LockAssumption ==
  /\ LastVersion \in Nat
  /\ Absent \notin [version : 1 .. LastVersion, rule : Rules, note : Notes]
  /\ Absent \notin [version : 1 .. LastVersion, digest : Rules]

VARIABLES
  files,      \* [Reviewed -> [version, rule, note] or Absent]: spec/ir/
  lock,       \* [Reviewed -> [version, digest] or Absent]: spec/ir.lock.json
  recorded,   \* {[control, version, rule]}: what any lock has ever recorded
  dropped     \* controls that fell out of a lock again

lockVars == <<files, lock, recorded, dropped>>

\* The digest of a rule's verdict-bearing content stands for that content.
PolicyDigest(file) == file.rule

LockInit ==
  /\ files = [c \in Reviewed |-> Absent]
  /\ lock = [c \in Reviewed |-> Absent]
  /\ recorded = {}
  /\ dropped = {}

Versions == 1 .. LastVersion

\* A file is written, anew or over what it said, with whatever number it gets.
Write(c, version, rule, note) ==
  /\ files' = [files EXCEPT ![c] = [version |-> version, rule |-> rule, note |-> note]]
  /\ UNCHANGED <<lock, recorded, dropped>>

Drop(c) ==
  /\ files[c] # Absent
  /\ files' = [files EXCEPT ![c] = Absent]
  /\ UNCHANGED <<lock, recorded, dropped>>

Present == {c \in Reviewed : files[c] # Absent}

\* A check that looks at the numbers alone.
LockProblems_Numbers ==
  {c \in Present : lock[c] # Absent /\ files[c].version < lock[c].version}

\* lock_problems(): the content moved and the version did not, or it went backwards.
LockProblems ==
  {c \in Present :
     /\ lock[c] # Absent
     /\ \/ files[c].version < lock[c].version
        \/ files[c].version = lock[c].version /\ PolicyDigest(files[c]) # lock[c].digest}

\* build_lock(): over what is there now, and never over a problem.
BuildLock ==
  /\ LockProblems = {}
  /\ lock' = [c \in Reviewed |->
                IF c \in Present
                THEN [version |-> files[c].version, digest |-> PolicyDigest(files[c])]
                ELSE Absent]
  /\ recorded' = recorded \cup
       {[control |-> c, version |-> files[c].version, rule |-> files[c].rule] : c \in Present}
  /\ dropped' = dropped \cup {c \in Reviewed \ Present : lock[c] # Absent}
  /\ UNCHANGED files

LockNext ==
  \/ \E c \in Reviewed, v \in Versions, r \in Rules, n \in Notes : Write(c, v, r, n)
  \/ \E c \in Reviewed : Drop(c)
  \/ BuildLock

LockSpec == LockInit /\ [][LockNext]_lockVars

------------------------------------------------------------------------------
\* Types of the variables.
LockTypeOK ==
  /\ files \in [Reviewed -> [version : Versions, rule : Rules, note : Notes] \cup {Absent}]
  /\ lock \in [Reviewed -> [version : Versions, digest : Rules] \cup {Absent}]
  /\ recorded \subseteq [control : Reviewed, version : Versions, rule : Rules]
  /\ dropped \subseteq Reviewed

\* "So a version number cannot lie": in all the locks ever written, one version of
\* a control stood for one rule, and the number now locked is the highest of them.
\* (A control that was removed and locked without is forgotten, and may lie again.)
LockIsHonest ==
  \A x \in recorded :
    x.control \notin dropped =>
      /\ \A y \in recorded :
           y.control = x.control /\ y.version = x.version => y.rule = x.rule
      /\ x.version <= lock[x.control].version
==============================================================================
