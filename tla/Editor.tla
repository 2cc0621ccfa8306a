------------------------------- MODULE Editor -------------------------------
(***************************************************************************)
(* Saving a file: FileRevision, WriteAtomic and WriteAtomicMode of         *)
(* editor/editor.go, called by several editors at once, with failing       *)
(* system calls, a crash of the machine and the deletion of the file.      *)
(*                                                                         *)
(* The data of a save is its number, which also stands for the time of     *)
(* modification; data written but not synced is Torn after a crash.        *)
(***************************************************************************)
EXTENDS Naturals, FiniteSets

CONSTANTS Editors,
          Modes,       \* permission bits
          DefaultMode, \* 0640
          MaxSaves,    \* bound on the number of saves
          MaxCrashes,  \* bound on the crashes
          None, Torn

ASSUME EditorAssumption ==
  /\ DefaultMode \in Modes /\ MaxSaves \in Nat /\ MaxCrashes \in Nat
  /\ None \notin Nat /\ Torn \notin Nat

VARIABLES file,     \* the file at path, or None
          temps,    \* temps[e]: the temporary file of e, or None
          left,     \* temporary files that a crash left behind
          ed,       \* what each editor is doing
          rev,      \* rev[e]: the revision e opened, or None
          raced,    \* raced[e]: path changed after e compared its revision
          saves, crashes

editorVars == <<file, temps, left, ed, rev, raced, saves, crashes>>

(* A file, and the Revision that FileRevision makes of it: the time from   *)
(* Stat and the digest from ReadFile.                                      *)
File == [data : 1 .. MaxSaves \cup {0, Torn}, time : 0 .. MaxSaves,
         mode : Modes, synced : BOOLEAN]
Revision == [time : 0 .. MaxSaves, data : 0 .. MaxSaves]

Idle == [pc |-> "idle", time |-> 0, data |-> 0, mode |-> DefaultMode,
         checked |-> FALSE]

EditorInit ==
  /\ file \in {None} \cup [data : {0}, time : {0}, mode : Modes, synced : {TRUE}]
  /\ temps = [e \in Editors |-> None] /\ left = 0
  /\ ed = [e \in Editors |-> Idle]
  /\ rev = [e \in Editors |-> None] /\ raced = [e \in Editors |-> FALSE]
  /\ saves = 0 /\ crashes = 0

----------------------------------------------------------------------------
(* Mutated forms of the definitions below.                                 *)

WriteUnsynced(e) ==
  /\ ed[e].pc = "write"
  /\ temps' = [temps EXCEPT ![e] = [@ EXCEPT !.data = ed[e].data, !.time = ed[e].data]]
  /\ ed' = [ed EXCEPT ![e].pc = "rename"]
  /\ UNCHANGED <<file, left, rev, raced, saves, crashes>>

SameRevisionByTime(e) == rev[e].time <= ed[e].time

----------------------------------------------------------------------------
(* FileRevision when an editor opens the file: Stat, then ReadFile.        *)

Open(e) ==
  /\ ed[e].pc = "idle" /\ file # None
  /\ ed' = [ed EXCEPT ![e] = [Idle EXCEPT !.pc = "opening", !.time = file.time]]
  /\ UNCHANGED <<file, temps, left, rev, raced, saves, crashes>>

OpenRead(e) ==
  /\ ed[e].pc = "opening"
  /\ ed' = [ed EXCEPT ![e] = Idle]
  /\ rev' = [rev EXCEPT ![e] = IF file = None THEN @
                               ELSE [time |-> ed[e].time, data |-> file.data]]
  /\ UNCHANGED <<file, temps, left, raced, saves, crashes>>

----------------------------------------------------------------------------
(* WriteAtomic and WriteAtomicMode.                                        *)

(* The first Stat decides on the mode and on the comparison; raced counts  *)
(* from here, and again from the comparison.                                *)
WriteAtomic(e, checked) ==
  /\ ed[e].pc = "idle" /\ saves < MaxSaves /\ (checked => rev[e] # None)
  /\ saves' = saves + 1
  /\ raced' = [raced EXCEPT ![e] = FALSE]
  /\ ed' = [ed EXCEPT ![e] =
       [Idle EXCEPT !.pc = IF checked /\ file # None THEN "compare" ELSE "create",
                    !.data = saves + 1, !.checked = checked /\ file # None,
                    !.mode = IF file = None THEN DefaultMode ELSE file.mode]]
  /\ UNCHANGED <<file, temps, left, rev, crashes>>

WriteAtomicMode(e, mode) ==
  /\ ed[e].pc = "idle" /\ saves < MaxSaves
  /\ saves' = saves + 1
  /\ ed' = [ed EXCEPT ![e] =
       [Idle EXCEPT !.pc = "create", !.data = saves + 1, !.mode = mode]]
  /\ raced' = [raced EXCEPT ![e] = TRUE]   \* nothing is promised
  /\ UNCHANGED <<file, temps, left, rev, crashes>>

CompareStat(e) ==
  /\ ed[e].pc = "compare"
  /\ ed' = [ed EXCEPT ![e] = IF file = None THEN Idle
                             ELSE [@ EXCEPT !.pc = "read", !.time = file.time]]
  /\ UNCHANGED <<file, temps, left, rev, raced, saves, crashes>>

SameRevision(e) == rev[e] = [time |-> ed[e].time, data |-> file.data]

CompareRead(e) ==
  /\ ed[e].pc = "read"
  /\ ed' = [ed EXCEPT ![e] =
       IF file # None /\ SameRevision(e) THEN [@ EXCEPT !.pc = "create"] ELSE Idle]
  /\ raced' = [raced EXCEPT ![e] = FALSE]
  /\ UNCHANGED <<file, temps, left, rev, saves, crashes>>

CreateTemp(e) ==
  /\ ed[e].pc = "create"
  /\ temps' = [temps EXCEPT ![e] =
       [data |-> Torn, time |-> 0, mode |-> ed[e].mode, synced |-> FALSE]]
  /\ ed' = [ed EXCEPT ![e].pc = "write"]
  /\ UNCHANGED <<file, left, rev, raced, saves, crashes>>

Write(e) ==
  /\ ed[e].pc = "write"
  /\ temps' = [temps EXCEPT ![e] = [@ EXCEPT !.data = ed[e].data, !.time = ed[e].data]]
  /\ ed' = [ed EXCEPT ![e].pc = "sync"]
  /\ UNCHANGED <<file, left, rev, raced, saves, crashes>>

Sync(e) ==
  /\ ed[e].pc = "sync"
  /\ temps' = [temps EXCEPT ![e] = [@ EXCEPT !.synced = TRUE]]
  /\ ed' = [ed EXCEPT ![e].pc = "rename"]
  /\ UNCHANGED <<file, left, rev, raced, saves, crashes>>

Rename(e) ==
  /\ ed[e].pc = "rename"
  /\ file' = temps[e] /\ temps' = [temps EXCEPT ![e] = None]
  /\ ed' = [ed EXCEPT ![e] = Idle]
  /\ raced' = [x \in Editors |-> TRUE]
  /\ UNCHANGED <<left, rev, saves, crashes>>

(* Any call fails: the error is returned and the deferred Remove runs.     *)
Fail(e) ==
  /\ ed[e].pc \in {"create", "write", "sync", "rename"}
  /\ ed' = [ed EXCEPT ![e] = Idle]
  /\ temps' = [temps EXCEPT ![e] = None]
  /\ UNCHANGED <<file, left, rev, raced, saves, crashes>>

----------------------------------------------------------------------------
(* The machine, and programs that delete the file.                         *)

Delete ==
  /\ file # None /\ crashes < MaxCrashes
  /\ file' = None /\ crashes' = crashes + 1
  /\ raced' = [x \in Editors |-> TRUE]
  /\ UNCHANGED <<temps, left, ed, rev, saves>>

Crash ==
  /\ crashes < MaxCrashes /\ crashes' = crashes + 1
  /\ file' \in IF file = None \/ file.synced THEN {file}
               ELSE {file, [file EXCEPT !.data = Torn]}
  /\ left' = left + Cardinality({e \in Editors : temps[e] # None})
  /\ temps' = [e \in Editors |-> None]
  /\ ed' = [e \in Editors |-> Idle] /\ rev' = [e \in Editors |-> None]
  /\ raced' = [e \in Editors |-> FALSE]
  /\ UNCHANGED saves

Editor(e) ==
  \/ Open(e) \/ OpenRead(e)
  \/ WriteAtomic(e, TRUE) \/ WriteAtomic(e, FALSE)
  \/ \E m \in Modes : WriteAtomicMode(e, m)
  \/ CompareStat(e) \/ CompareRead(e)
  \/ CreateTemp(e) \/ Write(e) \/ Sync(e) \/ Rename(e) \/ Fail(e)

EditorNext == (\E e \in Editors : Editor(e)) \/ Delete \/ Crash

EditorSpec == EditorInit /\ [][EditorNext]_editorVars

----------------------------------------------------------------------------
(* Properties.                                                             *)

(* The types of all variables; only a crash leaves temporary files, and    *)
(* only an editor between CreateTemp and Rename has one.                   *)
EditorTypeOK ==
  /\ file \in {None} \cup File /\ temps \in [Editors -> {None} \cup File]
  /\ \A e \in Editors : temps[e] # None <=> ed[e].pc \in {"write", "sync", "rename"}
  /\ rev \in [Editors -> {None} \cup Revision] /\ raced \in [Editors -> BOOLEAN]
  /\ saves \in 0 .. MaxSaves /\ crashes \in 0 .. MaxCrashes
  /\ left \in 0 .. crashes * Cardinality(Editors)

(* What is at path is always a complete save, while saves are under way,   *)
(* after failed ones and after a crash at any point.                       *)
FileWhole == file # None => file.data # Torn

(* The step in which e renames its temporary file over the file at path.   *)
Replaces(e) == ed[e].pc = "rename" /\ file # None /\ file' = temps[e]

(* Nothing but a change between its comparison and its rename, or its Stat *)
(* and its rename when it has no revision, makes a save do harm: without   *)
(* one, a checked save replaces the data of its revision, and "Atomic      *)
(* writes preserve the existing file mode".                                *)
Harmless ==
  \A e \in Editors : Replaces(e) /\ ~raced[e] =>
    /\ ed[e].checked => file.data = rev[e].data
    /\ file'.mode = file.mode
HarmNeedsRace == [][Harmless]_editorVars

(* "optimistic revision checks": no save checked against a revision        *)
(* replaces data other than that revision's.                               *)
NoLostUpdate ==
  [][\A e \in Editors : Replaces(e) /\ ed[e].checked => file.data = rev[e].data]_editorVars

=============================================================================
