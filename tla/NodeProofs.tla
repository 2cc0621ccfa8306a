----------------------------- MODULE NodeProofs -----------------------------
(***************************************************************************)
(* Proofs about the modules Editor, Handshake, Automation and Accounts:    *)
(* for any number of editors, connections and commands that run at the     *)
(* same time, and for any accounts, roles and recovery codes.              *)
(***************************************************************************)
EXTENDS Editor, Handshake, Automation, Accounts, FiniteSetTheorems, TLAPS

----------------------------------------------------------------------------
(* Editor: saves that race for one file.                                   *)

InFlight(e) == ed[e].pc \notin {"idle", "opening"}
HasTemp(e) == ed[e].pc \in {"write", "sync", "rename"}

EditorPlaces ==
  {"idle", "opening", "compare", "read", "create", "write", "sync", "rename"}
EditorState == [pc : EditorPlaces, time : Nat, data : Nat, mode : Modes, checked : BOOLEAN]
WholeFile == [data : Nat, time : Nat, mode : Modes, synced : {TRUE}]
TempFile == [data : Nat \cup {Torn}, time : Nat, mode : Modes, synced : BOOLEAN]

(* The file is whole and synced, and temporary files are on their way.     *)
FileTypes ==
  /\ file # None => file \in WholeFile
  /\ ed \in [Editors -> EditorState]
  /\ DOMAIN temps = Editors /\ DOMAIN rev = Editors /\ raced \in [Editors -> BOOLEAN]
  /\ \A e \in Editors : rev[e] # None => rev[e] \in [time : Nat, data : Nat]
  /\ \A e \in Editors : HasTemp(e) => temps[e] \in TempFile
  /\ saves \in Nat

(* What a temporary file holds at each place.                              *)
TempsBuilt ==
  \A e \in Editors :
    /\ HasTemp(e) => temps[e].mode = ed[e].mode
    /\ ed[e].pc \in {"sync", "rename"} => temps[e].data = ed[e].data
    /\ ed[e].pc = "rename" => temps[e].synced

(* The data of a save under way is neither in the file nor in a revision,  *)
(* nor that of another save: data that was replaced never comes back.      *)
NumbersFresh ==
  /\ file # None => file.data <= saves
  /\ \A e \in Editors : rev[e] # None => rev[e].data <= saves
  /\ \A e \in Editors : InFlight(e) =>
       /\ ed[e].data # 0 /\ ed[e].data <= saves
       /\ file # None => file.data # ed[e].data
       /\ \A x \in Editors : rev[x] # None => rev[x].data # ed[e].data
       /\ \A x \in Editors : x # e /\ InFlight(x) => ed[x].data # ed[e].data

(* A checked save has a revision; as long as the file has the data of that *)
(* revision, it has the mode that the save took from it.                   *)
ModeOfRevision ==
  \A e \in Editors :
    /\ ed[e].checked => rev[e] # None
    /\ ed[e].pc \in {"compare", "read"} =>
         /\ ed[e].checked
         /\ file # None /\ file.data = rev[e].data => file.mode = ed[e].mode

(* A save that nothing has raced with replaces what it has seen.           *)
RaceFree ==
  \A e \in Editors :
    ed[e].pc \in {"create", "write", "sync", "rename"} /\ ~raced[e] /\ file # None =>
      /\ ed[e].checked => file.data = rev[e].data
      /\ file.mode = ed[e].mode

EditorInv == FileTypes /\ TempsBuilt /\ NumbersFresh /\ ModeOfRevision /\ RaceFree

LEMMA EditorFacts ==
  Torn \notin Nat /\ None \notin Nat /\ Idle \in EditorState /\ Idle.pc = "idle" /\ Idle.checked = FALSE
BY EditorAssumption DEF Idle, EditorState, EditorPlaces

LEMMA EditorInitInv == EditorInit => EditorInv
<1> SUFFICES ASSUME EditorInit PROVE EditorInv
  OBVIOUS
<1> DEFINE First == [data : {0}, time : {0}, mode : Modes, synced : {TRUE}]
<1>1. /\ file # None => file \in WholeFile /\ file.data = 0
      /\ ed = [e \in Editors |-> Idle] /\ temps = [e \in Editors |-> None]
      /\ rev = [e \in Editors |-> None] /\ raced = [e \in Editors |-> FALSE] /\ saves = 0
  <2>1. file # None => file \in First
    BY DEF EditorInit
  <2>2. ASSUME NEW f \in First PROVE f \in WholeFile /\ f.data = 0
    <3>1. f = [data |-> f.data, time |-> f.time, mode |-> f.mode, synced |-> f.synced]
          /\ f.data = 0 /\ f.time = 0 /\ f.mode \in Modes /\ f.synced \in {TRUE}
      OBVIOUS
    <3>2. f.data \in Nat /\ f.time \in Nat
      BY <3>1
    <3>3. QED
      BY <3>1, <3>2, Zenon DEF WholeFile
  <2>3. QED
    BY <2>1, <2>2 DEF EditorInit
<1>2. \A e \in Editors : ed[e].pc = "idle" /\ ed[e].checked = FALSE /\ ed[e] \in EditorState
  BY <1>1, EditorFacts
<1>3. FileTypes
  BY <1>1, <1>2 DEF FileTypes, HasTemp
<1>4. TempsBuilt /\ ModeOfRevision /\ RaceFree
  BY <1>2 DEF TempsBuilt, ModeOfRevision, RaceFree, HasTemp
<1>5. NumbersFresh
  BY <1>1, <1>2 DEF NumbersFresh, InFlight
<1>6. QED
  BY <1>3, <1>4, <1>5 DEF EditorInv

(* A step of one editor that changes neither the file nor the numbers of   *)
(* the saves keeps the invariant, if it does so for that editor.           *)
LEMMA OwnStep ==
  ASSUME EditorInv, NEW e \in Editors, NEW s \in EditorState,
         ed' = [ed EXCEPT ![e] = s],
         UNCHANGED <<file, rev, saves>>,
         DOMAIN temps' = Editors, \A x \in Editors \ {e} : temps'[x] = temps[x],
         raced' \in [Editors -> BOOLEAN], \A x \in Editors \ {e} : raced'[x] = raced[x],
         s.pc \in {"idle", "opening"} \/ (InFlight(e) /\ s.data = ed[e].data),
         s.checked => ed[e].checked,
         s.pc \in {"write", "sync", "rename"} => temps'[e] \in TempFile /\ temps'[e].mode = s.mode,
         s.pc \in {"sync", "rename"} => temps'[e].data = s.data,
         s.pc = "rename" => temps'[e].synced,
         s.pc \in {"compare", "read"} =>
           /\ ed[e].pc \in {"compare", "read"} /\ s.checked
           /\ s.mode = ed[e].mode,
         s.pc \in {"create", "write", "sync", "rename"} /\ ~raced'[e] /\ file # None =>
           (s.checked => file.data = rev[e].data) /\ file.mode = s.mode
  PROVE  EditorInv'
<1>1. /\ ed'[e] = s /\ \A x \in Editors \ {e} : ed'[x] = ed[x]
      /\ ed' \in [Editors -> EditorState]
  BY DEF EditorInv, FileTypes
<1>2. FileTypes'
  BY <1>1 DEF EditorInv, FileTypes, HasTemp
<1>3. TempsBuilt'
  BY <1>1 DEF EditorInv, TempsBuilt, HasTemp
<1>4. NumbersFresh'
  BY <1>1 DEF EditorInv, NumbersFresh, InFlight
<1>5. ModeOfRevision'
  BY <1>1 DEF EditorInv, ModeOfRevision
<1>6. RaceFree'
  BY <1>1 DEF EditorInv, RaceFree
<1>7. QED
  BY <1>2, <1>3, <1>4, <1>5, <1>6 DEF EditorInv

LEMMA EditorNextInv == EditorInv /\ [EditorNext]_editorVars => EditorInv'
<1> SUFFICES ASSUME EditorInv, [EditorNext]_editorVars PROVE EditorInv'
  OBVIOUS
<1> USE EditorFacts
<1>0. /\ file # None => file \in WholeFile
      /\ ed \in [Editors -> EditorState] /\ saves \in Nat
      /\ DOMAIN temps = Editors /\ DOMAIN rev = Editors /\ raced \in [Editors -> BOOLEAN]
      /\ \A e \in Editors : HasTemp(e) => temps[e] \in TempFile
  BY DEF EditorInv, FileTypes
<1>1. ASSUME NEW e \in Editors, Open(e) PROVE EditorInv'
  <2> DEFINE s == [Idle EXCEPT !.pc = "opening", !.time = file.time]
  <2>1. file.time \in Nat
    BY <1>0, <1>1 DEF Open, WholeFile
  <2>2. s \in EditorState /\ s.pc = "opening" /\ s.checked = FALSE
    BY <2>1 DEF EditorState, EditorPlaces
  <2> HIDE DEF s
  <2>3. ed' = [ed EXCEPT ![e] = s] /\ UNCHANGED <<file, temps, rev, raced, saves>>
    BY <1>1 DEF Open, s
  <2>4. QED
    BY <1>0, <2>2, <2>3, OwnStep
<1>2. ASSUME NEW e \in Editors, OpenRead(e) PROVE EditorInv'
  <2>1. /\ ed[e].pc = "opening" /\ ed' = [ed EXCEPT ![e] = Idle]
        /\ rev' = [rev EXCEPT ![e] = IF file = None THEN @ ELSE [time |-> ed[e].time, data |-> file.data]]
        /\ UNCHANGED <<file, temps, raced, saves>>
    BY <1>2 DEF OpenRead
  <2>2. /\ ed'[e] = Idle /\ \A x \in Editors \ {e} : ed'[x] = ed[x] /\ rev'[x] = rev[x]
        /\ ed' \in [Editors -> EditorState] /\ DOMAIN rev' = Editors
    BY <1>0, <2>1
  <2>3. rev'[e] = rev[e] \/ (/\ file # None /\ rev'[e] = [time |-> ed[e].time, data |-> file.data])
    BY <1>0, <2>1
  <2>4. rev'[e] = rev[e] \/ (/\ file # None /\ rev'[e] \in [time : Nat, data : Nat]
                             /\ rev'[e].data = file.data)
    <3>1. ed[e].time \in Nat
      BY <1>0 DEF EditorState
    <3>2. file # None => file.data \in Nat
      BY <1>0 DEF WholeFile
    <3>3. QED
      BY <2>3, <3>1, <3>2
  <2>5. FileTypes'
    BY <1>0, <2>1, <2>2, <2>4 DEF EditorInv, FileTypes, HasTemp
  <2>6. TempsBuilt'
    BY <2>1, <2>2 DEF EditorInv, TempsBuilt, HasTemp
  <2>7. NumbersFresh'
    BY <1>0, <2>1, <2>2, <2>4 DEF EditorInv, NumbersFresh, InFlight
  <2>8. ModeOfRevision' /\ RaceFree'
    BY <2>1, <2>2 DEF EditorInv, ModeOfRevision, RaceFree
  <2>9. QED
    BY <2>5, <2>6, <2>7, <2>8 DEF EditorInv
<1>3. ASSUME NEW e \in Editors, NEW checked \in BOOLEAN, WriteAtomic(e, checked) PROVE EditorInv'
  <2> DEFINE compares == checked /\ file # None
             s == [Idle EXCEPT !.pc = IF compares THEN "compare" ELSE "create",
                    !.data = saves + 1, !.checked = compares,
                    !.mode = IF file = None THEN DefaultMode ELSE file.mode]
  <2>1. /\ ed' = [ed EXCEPT ![e] = s] /\ raced' = [raced EXCEPT ![e] = FALSE]
        /\ ed[e].pc = "idle" /\ (checked => rev[e] # None)
        /\ saves' = saves + 1 /\ UNCHANGED <<file, temps, rev>>
    BY <1>3 DEF WriteAtomic
  <2>2. /\ s \in EditorState /\ s.data = saves + 1 /\ (s.checked <=> compares)
        /\ s.pc = IF compares THEN "compare" ELSE "create"
        /\ file # None => s.mode = file.mode
    <3> DEFINE mode == IF file = None THEN DefaultMode ELSE file.mode
    <3>1. saves + 1 \in Nat /\ mode \in Modes /\ (file # None => mode = file.mode)
      <4>1. saves + 1 \in Nat
        BY <1>0
      <4>2. CASE file = None
        BY <4>1, <4>2, EditorAssumption
      <4>3. CASE file # None
        BY <1>0, <4>1, <4>3 DEF WholeFile
      <4>4. QED
        BY <4>2, <4>3
    <3>2. CASE compares
      <4>1. s = [Idle EXCEPT !.pc = "compare", !.data = saves + 1, !.checked = TRUE, !.mode = mode]
        BY <3>2
      <4> HIDE DEF compares, s, mode
      <4>2. s \in EditorState
        BY <3>1, <4>1 DEF EditorState, EditorPlaces
      <4>3. s.data = saves + 1 /\ s.checked /\ s.pc = "compare" /\ s.mode = mode
        BY <4>1 DEF EditorState
      <4>4. QED
        BY <3>1, <3>2, <4>2, <4>3
    <3>3. CASE ~compares
      <4>1. s = [Idle EXCEPT !.pc = "create", !.data = saves + 1, !.checked = FALSE, !.mode = mode]
        BY <3>3
      <4> HIDE DEF compares, s, mode
      <4>2. s \in EditorState
        BY <3>1, <4>1 DEF EditorState, EditorPlaces
      <4>3. s.data = saves + 1 /\ ~s.checked /\ s.pc = "create" /\ s.mode = mode
        BY <4>1 DEF EditorState
      <4>4. QED
        BY <3>1, <3>3, <4>2, <4>3
    <3>4. QED
      BY <3>2, <3>3
  <2> HIDE DEF s
  <2>3. /\ ed'[e] = s /\ \A x \in Editors \ {e} : ed'[x] = ed[x] /\ raced'[x] = raced[x]
        /\ ed' \in [Editors -> EditorState] /\ raced' \in [Editors -> BOOLEAN]
    BY <1>0, <2>1, <2>2
  <2>4. FileTypes'
    BY <1>0, <2>1, <2>2, <2>3 DEF EditorInv, FileTypes, HasTemp
  <2>5. TempsBuilt'
    BY <2>1, <2>2, <2>3 DEF EditorInv, TempsBuilt, HasTemp
  <2>6. NumbersFresh'
    <3>1. /\ file # None => file.data \in Nat
          /\ \A x \in Editors : rev[x] # None => rev[x].data \in Nat
          /\ \A x \in Editors : ed[x].data \in Nat
      BY <1>0 DEF EditorInv, FileTypes, WholeFile, EditorState
    <3>2. QED
      BY <1>0, <2>1, <2>2, <2>3, <3>1 DEF EditorInv, NumbersFresh, InFlight
  <2>7. ModeOfRevision'
    BY <2>1, <2>2, <2>3 DEF EditorInv, ModeOfRevision
  <2>8. RaceFree'
    BY <2>1, <2>2, <2>3 DEF EditorInv, RaceFree
  <2>9. QED
    BY <2>4, <2>5, <2>6, <2>7, <2>8 DEF EditorInv
<1>4. ASSUME NEW e \in Editors, NEW mode \in Modes, WriteAtomicMode(e, mode) PROVE EditorInv'
  <2> DEFINE s == [Idle EXCEPT !.pc = "create", !.data = saves + 1, !.mode = mode]
  <2>1. /\ ed' = [ed EXCEPT ![e] = s] /\ raced' = [raced EXCEPT ![e] = TRUE]
        /\ ed[e].pc = "idle" /\ saves' = saves + 1 /\ UNCHANGED <<file, temps, rev>>
    BY <1>4 DEF WriteAtomicMode
  <2>2. s \in EditorState /\ s.data = saves + 1 /\ s.checked = FALSE /\ s.pc = "create"
    <3>1. saves + 1 \in Nat
      BY <1>0
    <3>2. s \in EditorState
      BY <3>1 DEF EditorState, EditorPlaces
    <3>3. s.data = saves + 1 /\ s.pc = "create" /\ s.checked = Idle.checked
      BY DEF EditorState
    <3>4. QED
      BY <3>2, <3>3
  <2> HIDE DEF s
  <2>3. /\ ed'[e] = s /\ \A x \in Editors \ {e} : ed'[x] = ed[x] /\ raced'[x] = raced[x]
        /\ ed' \in [Editors -> EditorState] /\ raced' \in [Editors -> BOOLEAN] /\ raced'[e]
    BY <1>0, <2>1, <2>2
  <2>4. FileTypes'
    BY <1>0, <2>1, <2>2, <2>3 DEF EditorInv, FileTypes, HasTemp
  <2>5. TempsBuilt'
    BY <2>1, <2>2, <2>3 DEF EditorInv, TempsBuilt, HasTemp
  <2>6. NumbersFresh'
    <3>1. /\ file # None => file.data \in Nat
          /\ \A x \in Editors : rev[x] # None => rev[x].data \in Nat
          /\ \A x \in Editors : ed[x].data \in Nat
      BY <1>0 DEF EditorInv, FileTypes, WholeFile, EditorState
    <3>2. QED
      BY <1>0, <2>1, <2>2, <2>3, <3>1 DEF EditorInv, NumbersFresh, InFlight
  <2>7. ModeOfRevision'
    BY <2>1, <2>2, <2>3 DEF EditorInv, ModeOfRevision
  <2>8. RaceFree'
    BY <2>1, <2>2, <2>3 DEF EditorInv, RaceFree
  <2>9. QED
    BY <2>4, <2>5, <2>6, <2>7, <2>8 DEF EditorInv
<1>5. ASSUME NEW e \in Editors, CompareStat(e) PROVE EditorInv'
  <2> DEFINE s == IF file = None THEN Idle ELSE [ed[e] EXCEPT !.pc = "read", !.time = file.time]
  <2>1. /\ ed[e].pc = "compare" /\ ed' = [ed EXCEPT ![e] = s]
        /\ UNCHANGED <<file, temps, rev, raced, saves>>
    BY <1>0, <1>5 DEF CompareStat
  <2>2. ed[e] \in EditorState /\ InFlight(e) /\ ed[e].checked
    BY <1>0, <2>1 DEF InFlight, EditorInv, ModeOfRevision
  <2>3. /\ s \in EditorState
        /\ \/ s.pc = "idle" /\ ~s.checked
           \/ s.pc = "read" /\ s.data = ed[e].data /\ s.checked /\ s.mode = ed[e].mode
    <3>1. CASE file = None
      BY <3>1
    <3>2. CASE file # None
      <4>1. s = [ed[e] EXCEPT !.pc = "read", !.time = file.time] /\ file.time \in Nat
        BY <1>0, <3>2 DEF WholeFile
      <4>2. QED
        BY <2>2, <4>1 DEF EditorState, EditorPlaces
    <3>3. QED
      BY <3>1, <3>2
  <2> HIDE DEF s
  <2>4. QED
    BY <1>0, <2>1, <2>2, <2>3, OwnStep
<1>6. ASSUME NEW e \in Editors, CompareRead(e) PROVE EditorInv'
  <2> DEFINE s == IF file # None /\ SameRevision(e) THEN [ed[e] EXCEPT !.pc = "create"] ELSE Idle
  <2>1. /\ ed[e].pc = "read" /\ ed' = [ed EXCEPT ![e] = s]
        /\ raced' = [raced EXCEPT ![e] = FALSE] /\ UNCHANGED <<file, temps, rev, saves>>
    BY <1>0, <1>6 DEF CompareRead
  <2>2. ed[e] \in EditorState /\ InFlight(e) /\ ed[e].checked
    BY <1>0, <2>1 DEF InFlight, EditorInv, ModeOfRevision
  <2>3. file # None /\ SameRevision(e) => file.data = rev[e].data /\ file.mode = ed[e].mode
    <3>1. SameRevision(e) => file.data = rev[e].data
      BY DEF SameRevision
    <3>2. QED
      BY <3>1, <2>1 DEF EditorInv, ModeOfRevision
  <2>4. /\ s \in EditorState
        /\ \/ s.pc = "idle" /\ ~s.checked
           \/ s.pc = "create" /\ s.data = ed[e].data /\ s.mode = ed[e].mode /\ SameRevision(e)
    <3>1. CASE ~(file # None /\ SameRevision(e))
      BY <3>1
    <3>2. CASE file # None /\ SameRevision(e)
      <4>1. s = [ed[e] EXCEPT !.pc = "create"]
        BY <3>2
      <4> HIDE DEF s
      <4>2. QED
        BY <2>2, <3>2, <4>1 DEF EditorState, EditorPlaces
    <3>3. QED
      BY <3>1, <3>2
  <2> HIDE DEF s
  <2>5. QED
    BY <1>0, <2>1, <2>2, <2>3, <2>4, OwnStep
<1>7. ASSUME NEW e \in Editors, CreateTemp(e) PROVE EditorInv'
  <2> DEFINE s == [ed[e] EXCEPT !.pc = "write"]
             t == [data |-> Torn, time |-> 0, mode |-> ed[e].mode, synced |-> FALSE]
  <2>1. /\ ed[e].pc = "create" /\ ed' = [ed EXCEPT ![e] = s] /\ temps' = [temps EXCEPT ![e] = t]
        /\ UNCHANGED <<file, rev, raced, saves>>
    BY <1>0, <1>7 DEF CreateTemp
  <2>2. ed[e] \in EditorState /\ InFlight(e)
    BY <1>0, <2>1 DEF InFlight
  <2>3. /\ s \in EditorState /\ s.pc = "write" /\ s.data = ed[e].data
        /\ s.mode = ed[e].mode /\ s.checked = ed[e].checked
    BY <2>2 DEF EditorState, EditorPlaces
  <2>4. t \in TempFile /\ t.mode = s.mode
    BY <2>2, <2>3 DEF TempFile, EditorState
  <2>5. ~raced[e] /\ file # None => (ed[e].checked => file.data = rev[e].data) /\ file.mode = ed[e].mode
    BY <2>1 DEF EditorInv, RaceFree
  <2> HIDE DEF s, t
  <2>6. QED
    BY <1>0, <2>1, <2>2, <2>3, <2>4, <2>5, OwnStep
<1>8. ASSUME NEW e \in Editors, Write(e) PROVE EditorInv'
  <2> DEFINE s == [ed[e] EXCEPT !.pc = "sync"]
             t == [temps[e] EXCEPT !.data = ed[e].data, !.time = ed[e].data]
  <2>1. /\ ed[e].pc = "write" /\ ed' = [ed EXCEPT ![e] = s] /\ temps' = [temps EXCEPT ![e] = t]
        /\ UNCHANGED <<file, rev, raced, saves>>
    BY <1>0, <1>8 DEF Write
  <2>2. ed[e] \in EditorState /\ InFlight(e) /\ temps[e] \in TempFile /\ temps[e].mode = ed[e].mode
    BY <1>0, <2>1 DEF InFlight, HasTemp, EditorInv, TempsBuilt
  <2>3. /\ s \in EditorState /\ s.pc = "sync" /\ s.data = ed[e].data
        /\ s.mode = ed[e].mode /\ s.checked = ed[e].checked
    BY <2>2 DEF EditorState, EditorPlaces
  <2>4. t \in TempFile /\ t.mode = s.mode /\ t.data = s.data
    BY <2>2, <2>3 DEF TempFile, EditorState
  <2>5. ~raced[e] /\ file # None => (ed[e].checked => file.data = rev[e].data) /\ file.mode = ed[e].mode
    BY <2>1 DEF EditorInv, RaceFree
  <2> HIDE DEF s, t
  <2>6. QED
    BY <1>0, <2>1, <2>2, <2>3, <2>4, <2>5, OwnStep
<1>9. ASSUME NEW e \in Editors, Sync(e) PROVE EditorInv'
  <2> DEFINE s == [ed[e] EXCEPT !.pc = "rename"]
             t == [temps[e] EXCEPT !.synced = TRUE]
  <2>1. /\ ed[e].pc = "sync" /\ ed' = [ed EXCEPT ![e] = s] /\ temps' = [temps EXCEPT ![e] = t]
        /\ UNCHANGED <<file, rev, raced, saves>>
    BY <1>0, <1>9 DEF Sync
  <2>2. /\ ed[e] \in EditorState /\ InFlight(e) /\ temps[e] \in TempFile
        /\ temps[e].mode = ed[e].mode /\ temps[e].data = ed[e].data
    BY <1>0, <2>1 DEF InFlight, HasTemp, EditorInv, TempsBuilt
  <2>3. /\ s \in EditorState /\ s.pc = "rename" /\ s.data = ed[e].data
        /\ s.mode = ed[e].mode /\ s.checked = ed[e].checked
    BY <2>2 DEF EditorState, EditorPlaces
  <2>4. t \in TempFile /\ t.mode = s.mode /\ t.data = s.data /\ t.synced
    BY <2>2, <2>3 DEF TempFile, EditorState
  <2>5. ~raced[e] /\ file # None => (ed[e].checked => file.data = rev[e].data) /\ file.mode = ed[e].mode
    BY <2>1 DEF EditorInv, RaceFree
  <2> HIDE DEF s, t
  <2>6. QED
    BY <1>0, <2>1, <2>2, <2>3, <2>4, <2>5, OwnStep
<1>10. ASSUME NEW e \in Editors, Rename(e) PROVE EditorInv'
  <2>1. /\ ed[e].pc = "rename" /\ file' = temps[e] /\ temps' = [temps EXCEPT ![e] = None]
        /\ ed' = [ed EXCEPT ![e] = Idle] /\ raced' = [x \in Editors |-> TRUE]
        /\ UNCHANGED <<rev, saves>>
    BY <1>10 DEF Rename
  <2>2. /\ ed'[e] = Idle /\ \A x \in Editors \ {e} : ed'[x] = ed[x] /\ temps'[x] = temps[x]
        /\ ed' \in [Editors -> EditorState] /\ raced' \in [Editors -> BOOLEAN]
        /\ DOMAIN temps' = Editors /\ \A x \in Editors : raced'[x]
    BY <1>0, <2>1
  <2>3. /\ HasTemp(e) /\ InFlight(e) /\ temps[e] \in TempFile
        /\ temps[e].data = ed[e].data /\ temps[e].synced
    BY <1>0, <2>1 DEF HasTemp, InFlight, EditorInv, TempsBuilt
  <2>4. ed[e].data \in Nat
    BY <1>0 DEF EditorState
  <2>5. file' \in WholeFile /\ file'.data = ed[e].data
    BY <2>1, <2>3, <2>4 DEF TempFile, WholeFile
  <2>6. FileTypes'
    BY <1>0, <2>1, <2>2, <2>5 DEF EditorInv, FileTypes, HasTemp
  <2>7. TempsBuilt'
    BY <2>1, <2>2 DEF EditorInv, TempsBuilt, HasTemp
  <2>8. NumbersFresh'
    BY <1>0, <2>1, <2>2, <2>3, <2>5 DEF EditorInv, NumbersFresh, InFlight
  <2>9. ModeOfRevision'
    BY <2>1, <2>2, <2>3, <2>5 DEF EditorInv, ModeOfRevision, NumbersFresh
  <2>10. RaceFree'
    BY <2>2 DEF RaceFree
  <2>11. QED
    BY <2>6, <2>7, <2>8, <2>9, <2>10 DEF EditorInv
<1>11. ASSUME NEW e \in Editors, Fail(e) PROVE EditorInv'
  <2>1. /\ ed' = [ed EXCEPT ![e] = Idle] /\ temps' = [temps EXCEPT ![e] = None]
        /\ UNCHANGED <<file, rev, raced, saves>>
    BY <1>11 DEF Fail
  <2>2. QED
    BY <1>0, <2>1, OwnStep
<1>12. ASSUME Delete PROVE EditorInv'
  <2>1. /\ file' = None /\ raced' = [x \in Editors |-> TRUE] /\ UNCHANGED <<temps, ed, rev, saves>>
    BY <1>12 DEF Delete
  <2>2. FileTypes'
    BY <1>0, <2>1 DEF EditorInv, FileTypes, HasTemp
  <2>3. TempsBuilt' /\ NumbersFresh' /\ ModeOfRevision' /\ RaceFree'
    BY <2>1 DEF EditorInv, TempsBuilt, NumbersFresh, ModeOfRevision, RaceFree, HasTemp, InFlight
  <2>4. QED
    BY <2>2, <2>3 DEF EditorInv
<1>13. ASSUME Crash PROVE EditorInv'
  <2>1. file' = file
    BY <1>0, <1>13 DEF Crash, WholeFile
  <2>2. /\ temps' = [e \in Editors |-> None] /\ ed' = [e \in Editors |-> Idle]
        /\ rev' = [e \in Editors |-> None] /\ raced' = [e \in Editors |-> FALSE] /\ saves' = saves
    BY <1>13 DEF Crash
  <2>3. \A e \in Editors : ed'[e].pc = "idle" /\ ed'[e].checked = FALSE /\ ed'[e] \in EditorState
    BY <2>2
  <2>4. FileTypes'
    BY <1>0, <2>1, <2>2, <2>3 DEF FileTypes, HasTemp
  <2>5. TempsBuilt' /\ ModeOfRevision' /\ RaceFree'
    BY <2>3 DEF TempsBuilt, ModeOfRevision, RaceFree, HasTemp
  <2>6. NumbersFresh'
    BY <2>1, <2>2, <2>3 DEF EditorInv, NumbersFresh, InFlight
  <2>7. QED
    BY <2>4, <2>5, <2>6 DEF EditorInv
<1>14. ASSUME UNCHANGED editorVars PROVE EditorInv'
  BY <1>14 DEF EditorInv, FileTypes, TempsBuilt, NumbersFresh, ModeOfRevision, RaceFree, HasTemp,
               InFlight, editorVars
<1>15. QED
  BY <1>1, <1>2, <1>3, <1>4, <1>5, <1>6, <1>7, <1>8, <1>9, <1>10, <1>11, <1>12, <1>13, <1>14
     DEF EditorNext, Editor

LEMMA EditorInvHolds == EditorSpec => []EditorInv
BY EditorInitInv, EditorNextInv, PTL DEF EditorSpec

(* What is at path is a complete save at every moment: for any number of   *)
(* editors, saves, failures and crashes.                                   *)
THEOREM FileStaysWhole == EditorSpec => []FileWhole
<1>1. EditorInv => FileWhole
  BY EditorFacts DEF EditorInv, FileTypes, WholeFile, FileWhole
<1>2. QED
  BY <1>1, EditorInvHolds, PTL

(* Only a change between comparison and rename makes a save lose data or   *)
(* a mode.                                                                 *)
THEOREM HarmOnlyByRace == EditorSpec => HarmNeedsRace
<1>1. EditorInv => Harmless
  BY DEF EditorInv, RaceFree, TempsBuilt, HasTemp, Replaces, Harmless
<1>2. QED
  BY <1>1, EditorInvHolds, PTL DEF EditorSpec, HarmNeedsRace

----------------------------------------------------------------------------
(* Handshake: handshakes that arrive late and more than once.              *)

CheckState == [pc : {"idle", "clock", "nonce"}, handshake : AuthRequest \cup {Never},
               secret : Secrets \cup {"none"}, now : Nat]

HandshakeTypes ==
  /\ clock \in Nat
  /\ member \in [Peers -> [state : MembershipState \cup {"unknown"}, enabled : BOOLEAN,
                           secret : Secrets \cup {"none"}]]
  /\ handshakes \in SUBSET AuthRequest /\ DOMAIN seen = Peers
  /\ check \in [Connections -> CheckState]
  /\ admitted \in [1 .. MaxHandshakes -> Int]

(* Nonces are given out in order, and none is admitted before.             *)
NoncesUnique ==
  /\ IsFiniteSet(handshakes)
  /\ \A h \in handshakes : h.nonce <= Cardinality(handshakes)
  /\ \A h, g \in handshakes : h.nonce = g.nonce => h = g
  /\ \A n \in 1 .. MaxHandshakes : n > Cardinality(handshakes) => admitted[n] = Never

(* A verification has read the clock before it consumes the nonce, and     *)
(* found the handshake fresh.                                              *)
ChecksFresh ==
  \A c \in Connections :
    /\ check[c].pc # "idle" => check[c].handshake \in handshakes
    /\ check[c].pc = "nonce" =>
         check[c].now <= clock /\ Fresh(check[c].handshake, check[c].now)

(* The nonce of an accepted handshake is remembered until its window has   *)
(* passed.                                                                 *)
Remembered(h) ==
  admitted[h.nonce] # Never =>
    \/ \E s \in seen[h.node] : s.nonce = h.nonce /\ s.expires = admitted[h.nonce] + SkewWindow
    \/ clock > admitted[h.nonce] + SkewWindow
AdmittedRemembered == \A h \in handshakes : Remembered(h)

HandshakeInv == HandshakeTypes /\ NoncesUnique /\ ChecksFresh /\ AdmittedRemembered

LEMMA HandshakeFacts ==
  /\ SkewWindow \in Nat /\ MaxHandshakes \in Nat /\ Skew \in Nat
  /\ NoCheck \in CheckState /\ NoCheck.pc = "idle"
BY HandshakeAssumption DEF NoCheck, CheckState, Never

LEMMA HandshakeInitInv == HandshakeInit => HandshakeInv
<1> SUFFICES ASSUME HandshakeInit PROVE HandshakeInv
  OBVIOUS
<1>1. /\ clock = 0 /\ handshakes = {} /\ seen = [p \in Peers |-> {}]
      /\ check = [c \in Connections |-> NoCheck]
      /\ admitted = [n \in 1 .. MaxHandshakes |-> Never]
  BY DEF HandshakeInit
<1>2. member \in [Peers -> [state : MembershipState \cup {"unknown"}, enabled : BOOLEAN,
                            secret : Secrets \cup {"none"}]]
  BY DEF HandshakeInit, Unknown
<1>3. HandshakeTypes
  BY <1>1, <1>2, HandshakeFacts DEF HandshakeTypes, Never
<1>4. NoncesUnique
  BY <1>1, FS_EmptySet DEF NoncesUnique
<1>5. ChecksFresh /\ AdmittedRemembered
  BY <1>1, HandshakeFacts DEF ChecksFresh, AdmittedRemembered
<1>6. QED
  BY <1>3, <1>4, <1>5 DEF HandshakeInv

(* A change of what is known of a peer.                                    *)
LEMMA MemberStep ==
  ASSUME HandshakeInv, UNCHANGED <<clock, handshakes, seen, check, admitted>>,
         member' \in [Peers -> [state : MembershipState \cup {"unknown"}, enabled : BOOLEAN,
                                secret : Secrets \cup {"none"}]]
  PROVE  HandshakeInv'
<1>1. HandshakeTypes'
  BY DEF HandshakeInv, HandshakeTypes
<1>2. NoncesUnique' /\ ChecksFresh' /\ AdmittedRemembered'
  BY DEF HandshakeInv, NoncesUnique, ChecksFresh, AdmittedRemembered, Remembered, Fresh
<1>3. QED
  BY <1>1, <1>2 DEF HandshakeInv

LEMMA HandshakeNextInv == HandshakeInv /\ [HandshakeNext]_handshakeVars => HandshakeInv'
<1> SUFFICES ASSUME HandshakeInv, [HandshakeNext]_handshakeVars PROVE HandshakeInv'
  OBVIOUS
<1> USE HandshakeFacts
<1>0. /\ clock \in Nat /\ handshakes \in SUBSET AuthRequest /\ DOMAIN seen = Peers
      /\ check \in [Connections -> CheckState] /\ admitted \in [1 .. MaxHandshakes -> Int]
      /\ member \in [Peers -> [state : MembershipState \cup {"unknown"}, enabled : BOOLEAN,
                               secret : Secrets \cup {"none"}]]
  BY DEF HandshakeInv, HandshakeTypes
<1>1. ASSUME NEW p \in Peers, NEW secret \in Secrets, SignHandshake(p, secret)
      PROVE  HandshakeInv'
  <2>1. PICK at \in clock - Skew .. clock + Skew, consistent \in BOOLEAN :
          handshakes' = handshakes \cup
            {[nonce |-> Cardinality(handshakes) + 1, node |-> p, consistent |-> consistent,
              at |-> at, secret |-> secret]}
    BY <1>1 DEF SignHandshake
  <2>2. UNCHANGED <<clock, member, seen, check, admitted>>
    BY <1>1 DEF SignHandshake
  <2>3. IsFiniteSet(handshakes) /\ Cardinality(handshakes) \in Nat
    BY FS_CardinalityType DEF HandshakeInv, NoncesUnique
  <2>4. PICK n \in Nat : n = Cardinality(handshakes) + 1
    BY <2>3
  <2>5. n \in 1 .. MaxHandshakes
    BY <1>1, <2>3, <2>4 DEF SignHandshake
  <2>6. PICK new \in AuthRequest : /\ handshakes' = handshakes \cup {new} /\ new.nonce = n
    <3>1. [nonce |-> n, node |-> p, consistent |-> consistent, at |-> at, secret |-> secret] \in AuthRequest
      BY <1>0, <2>1, <2>5 DEF AuthRequest
    <3>2. QED
      BY <2>1, <2>4, <3>1
  <2>7. \A h \in handshakes : h.nonce < n /\ h.nonce \in 1 .. MaxHandshakes
    BY <1>0, <2>3, <2>4 DEF HandshakeInv, NoncesUnique, AuthRequest
  <2>8. new \notin handshakes /\ IsFiniteSet(handshakes') /\ Cardinality(handshakes') = n
    <3>1. new \notin handshakes
      BY <2>6, <2>7
    <3>2. QED
      BY <2>3, <2>4, <2>6, <3>1, FS_AddElement
  <2>9. HandshakeTypes'
    BY <1>0, <2>2, <2>6 DEF HandshakeTypes
  <2>10. admitted[n] = Never
    BY <2>3, <2>4, <2>5 DEF HandshakeInv, NoncesUnique
  <2>11. NoncesUnique'
    <3>1. \A h \in handshakes' : h.nonce <= n
      BY <2>6, <2>7
    <3>2. \A h, g \in handshakes' : h.nonce = g.nonce => h = g
      BY <2>6, <2>7 DEF HandshakeInv, NoncesUnique
    <3>3. \A m \in 1 .. MaxHandshakes : m > n => admitted[m] = Never
      BY <2>3, <2>4 DEF HandshakeInv, NoncesUnique
    <3>4. QED
      BY <2>2, <2>8, <3>1, <3>2, <3>3 DEF NoncesUnique
  <2>12. ChecksFresh'
    BY <2>2, <2>6 DEF HandshakeInv, ChecksFresh, Fresh
  <2>13. AdmittedRemembered'
    BY <2>2, <2>6, <2>10 DEF HandshakeInv, AdmittedRemembered, Remembered
  <2>14. QED
    BY <2>9, <2>11, <2>12, <2>13 DEF HandshakeInv
<1>2. ASSUME NEW p \in Peers, NEW secret \in Secrets, SetSecret(p, secret) PROVE HandshakeInv'
  <2>1. member' = [member EXCEPT ![p].secret = secret]
        /\ UNCHANGED <<clock, handshakes, seen, check, admitted>>
    BY <1>2 DEF SetSecret
  <2>2. QED
    BY <1>0, <2>1, MemberStep
<1>3. ASSUME NEW p \in Peers, NEW st \in MembershipState, SetMembership(p, st) PROVE HandshakeInv'
  <2>1. member' = [member EXCEPT ![p].state = st]
        /\ UNCHANGED <<clock, handshakes, seen, check, admitted>>
    BY <1>3 DEF SetMembership
  <2>2. QED
    BY <1>0, <2>1, MemberStep
<1>4. ASSUME NEW p \in Peers, NEW b \in BOOLEAN, SetReplicationEnabled(p, b) PROVE HandshakeInv'
  <2>1. member' = [member EXCEPT ![p].enabled = b]
        /\ UNCHANGED <<clock, handshakes, seen, check, admitted>>
    BY <1>4 DEF SetReplicationEnabled
  <2>2. QED
    BY <1>0, <2>1, MemberStep
<1>5. ASSUME ClockTick PROVE HandshakeInv'
  <2>1. clock' = clock + 1 /\ UNCHANGED <<member, handshakes, seen, check, admitted>>
    BY <1>5 DEF ClockTick
  <2>2. HandshakeTypes' /\ NoncesUnique'
    BY <1>0, <2>1 DEF HandshakeInv, HandshakeTypes, NoncesUnique
  <2>3. ChecksFresh'
    <3>1. \A c \in Connections : check[c].now \in Nat
      BY <1>0 DEF CheckState
    <3>2. QED
      BY <1>0, <2>1, <3>1 DEF HandshakeInv, ChecksFresh, Fresh
  <2>4. AdmittedRemembered'
    <3>1. \A h \in handshakes : admitted[h.nonce] \in Int
      BY <1>0 DEF AuthRequest
    <3>2. QED
      BY <1>0, <2>1, <3>1 DEF HandshakeInv, AdmittedRemembered, Remembered
  <2>5. QED
    BY <2>2, <2>3, <2>4 DEF HandshakeInv
<1>6. ASSUME NEW c \in Connections, NEW h \in handshakes, CheckMember(c, h) PROVE HandshakeInv'
  <2> DEFINE s == [pc |-> "clock", handshake |-> h, now |-> 0, secret |-> member[h.node].secret]
  <2>1. check' = [check EXCEPT ![c] = s] /\ UNCHANGED <<clock, member, handshakes, seen, admitted>>
    BY <1>6 DEF CheckMember
  <2>2. s \in CheckState /\ s.pc = "clock" /\ s.handshake = h
    BY <1>0 DEF CheckState, AuthRequest
  <2> HIDE DEF s
  <2>3. HandshakeTypes' /\ NoncesUnique' /\ AdmittedRemembered'
    BY <1>0, <2>1, <2>2 DEF HandshakeInv, HandshakeTypes, NoncesUnique, AdmittedRemembered, Remembered
  <2>4. ChecksFresh'
    BY <1>0, <2>1, <2>2 DEF HandshakeInv, ChecksFresh, Fresh
  <2>5. QED
    BY <2>3, <2>4 DEF HandshakeInv
<1>7. ASSUME NEW c \in Connections, CheckFreshness(c) PROVE HandshakeInv'
  <2> DEFINE h == check[c].handshake
             passed == Fresh(h, clock) /\ h.secret = check[c].secret
             s == IF passed THEN [check[c] EXCEPT !.pc = "nonce", !.now = clock] ELSE NoCheck
  <2>1. /\ check[c].pc = "clock" /\ check' = [check EXCEPT ![c] = s]
        /\ UNCHANGED <<clock, member, handshakes, seen, admitted>>
    BY <1>0, <1>7 DEF CheckFreshness
  <2>2. /\ s \in CheckState
        /\ s.pc = "idle" \/ (/\ s.pc = "nonce" /\ s.now = clock /\ s.handshake = h
                             /\ Fresh(h, clock))
    <3>1. check[c] \in CheckState
      BY <1>0
    <3>2. CASE passed
      BY <1>0, <3>1, <3>2 DEF CheckState
    <3>3. CASE ~passed
      BY <3>3
    <3>4. QED
      BY <3>2, <3>3
  <2>3. h \in handshakes
    BY <2>1 DEF HandshakeInv, ChecksFresh
  <2> HIDE DEF s, h
  <2>4. HandshakeTypes' /\ NoncesUnique' /\ AdmittedRemembered'
    BY <1>0, <2>1, <2>2 DEF HandshakeInv, HandshakeTypes, NoncesUnique, AdmittedRemembered, Remembered
  <2>5. ChecksFresh'
    <3>1. \A x \in Connections : check'[x] = IF x = c THEN s ELSE check[x]
      BY <1>0, <2>1
    <3>2. QED
      BY <1>0, <2>1, <2>2, <2>3, <3>1 DEF HandshakeInv, ChecksFresh, Fresh
  <2>6. QED
    BY <2>4, <2>5 DEF HandshakeInv
<1>8. ASSUME NEW c \in Connections, consumeNonce(c) PROVE HandshakeInv'
  <2>1. PICK h \in handshakes, now \in Nat :
          /\ h = check[c].handshake /\ now = check[c].now /\ now <= clock
          /\ check[c].pc = "nonce" /\ Fresh(h, now)
    <3>1. check[c].pc = "nonce" /\ check[c] \in CheckState
      BY <1>0, <1>8 DEF consumeNonce
    <3>2. QED
      BY <3>1 DEF HandshakeInv, ChecksFresh, CheckState
  <2>2. h \in AuthRequest /\ h.nonce \in 1 .. MaxHandshakes /\ h.node \in Peers
    BY <1>0 DEF AuthRequest
  <2> DEFINE kept == Pruned(seen[h.node], now)
             entry == [nonce |-> h.nonce, expires |-> now + SkewWindow]
  <2>3. /\ check' = [check EXCEPT ![c] = NoCheck] /\ UNCHANGED <<clock, member, handshakes>>
        /\ \/ /\ seen' = [seen EXCEPT ![h.node] = kept \cup {entry}]
              /\ admitted' = [admitted EXCEPT ![h.nonce] = now]
           \/ seen' = [seen EXCEPT ![h.node] = kept] /\ admitted' = admitted
    BY <1>8, <2>1 DEF consumeNonce
  <2>4. HandshakeTypes'
    BY <1>0, <2>2, <2>3 DEF HandshakeTypes
  <2>5. NoncesUnique'
    <3>1. h.nonce <= Cardinality(handshakes) /\ Cardinality(handshakes) \in Nat
      BY FS_CardinalityType DEF HandshakeInv, NoncesUnique
    <3>2. \A n \in 1 .. MaxHandshakes : n # h.nonce => admitted'[n] = admitted[n]
      BY <1>0, <2>3
    <3>3. QED
      BY <2>2, <2>3, <3>1, <3>2 DEF HandshakeInv, NoncesUnique
  <2>6. ChecksFresh'
    BY <1>0, <2>3 DEF HandshakeInv, ChecksFresh, Fresh
  <2>7. AdmittedRemembered'
    <3> SUFFICES ASSUME NEW g \in handshakes PROVE Remembered(g)'
      BY <2>3 DEF AdmittedRemembered
    <3>1. g.nonce \in 1 .. MaxHandshakes /\ g.node \in Peers /\ admitted[g.nonce] \in Int
      BY <1>0 DEF AuthRequest
    <3>2. Remembered(g) /\ (g.nonce = h.nonce => g = h)
      BY DEF HandshakeInv, AdmittedRemembered, NoncesUnique
    <3>3. CASE admitted'[g.nonce] = admitted[g.nonce]
      <4>1. ASSUME NEW s \in seen[g.node], s.expires = admitted[g.nonce] + SkewWindow
            PROVE  s \in seen'[g.node] \/ clock > admitted[g.nonce] + SkewWindow
        <5>1. CASE g.node # h.node
          BY <1>0, <2>3, <3>1, <4>1, <5>1
        <5>2. CASE g.node = h.node /\ s.expires >= now
          BY <1>0, <2>2, <2>3, <4>1, <5>2 DEF Pruned
        <5>3. CASE ~(s.expires >= now)
          BY <1>0, <2>1, <3>1, <4>1, <5>3
        <5>4. QED
          BY <5>1, <5>2, <5>3
      <4>2. QED
        BY <2>3, <3>2, <3>3, <4>1 DEF Remembered
    <3>4. CASE g = h /\ admitted' = [admitted EXCEPT ![h.nonce] = now] /\ entry \in seen'[g.node]
      <4>1. admitted'[g.nonce] = now /\ entry.nonce = g.nonce /\ entry.expires = now + SkewWindow
        BY <1>0, <2>2, <3>4
      <4>2. QED
        BY <3>4, <4>1 DEF Remembered
    <3>5. CASE admitted' = admitted
      BY <3>3, <3>5
    <3>6. CASE /\ seen' = [seen EXCEPT ![h.node] = kept \cup {entry}]
               /\ admitted' = [admitted EXCEPT ![h.nonce] = now]
      <4>1. entry \in seen'[h.node]
        BY <1>0, <2>2, <3>6
      <4>2. g.nonce # h.nonce => admitted'[g.nonce] = admitted[g.nonce]
        BY <1>0, <3>1, <3>6
      <4>3. QED
        BY <3>2, <3>3, <3>4, <3>6, <4>1, <4>2
    <3>7. QED
      BY <2>3, <3>5, <3>6
  <2>8. QED
    BY <2>4, <2>5, <2>6, <2>7 DEF HandshakeInv
<1>9. ASSUME UNCHANGED handshakeVars PROVE HandshakeInv'
  BY <1>9, <1>0, MemberStep DEF handshakeVars
<1>10. QED
  BY <1>1, <1>2, <1>3, <1>4, <1>5, <1>6, <1>7, <1>8, <1>9 DEF HandshakeNext

(* A nonce is consumed once in the window from its acceptance, and later   *)
(* again only for a sender whose clock was ahead or with an old reading of *)
(* the clock: for any number of connections, peers and handshakes, and any *)
(* window.                                                                 *)
THEOREM NonceOnce == HandshakeSpec => ConsumedOnce
<1>1. HandshakeInv => AcceptedAgainLate
  <2> SUFFICES ASSUME HandshakeInv, NEW c \in Connections, Accepts(c),
                      admitted[check[c].handshake.nonce] # Never
               PROVE  /\ clock > admitted[check[c].handshake.nonce] + SkewWindow
                      /\ \/ check[c].handshake.at > admitted[check[c].handshake.nonce]
                         \/ clock > check[c].now
    BY DEF AcceptedAgainLate
  <2>1. PICK h \in handshakes, now \in Nat :
          /\ h = check[c].handshake /\ now = check[c].now /\ now <= clock
          /\ check[c].pc = "nonce" /\ Fresh(h, now)
    <3>1. check[c].pc = "nonce" /\ check[c] \in CheckState
      BY DEF Accepts, HandshakeInv, HandshakeTypes
    <3>2. QED
      BY <3>1 DEF HandshakeInv, ChecksFresh, CheckState
  <2>2. /\ clock \in Nat /\ SkewWindow \in Nat
        /\ h.at \in Int /\ admitted[h.nonce] \in Int /\ Remembered(h)
    BY HandshakeFacts DEF HandshakeInv, HandshakeTypes, AdmittedRemembered, AuthRequest
  <2>3. clock > admitted[h.nonce] + SkewWindow
    <3>1. ASSUME NEW s \in seen[h.node], s.nonce = h.nonce,
                 s.expires = admitted[h.nonce] + SkewWindow
          PROVE  ~(s.expires >= now)
      BY <2>1, <3>1 DEF Accepts, Pruned
    <3>2. QED
      BY <2>1, <2>2, <3>1 DEF Remembered
  <2>4. QED
    BY <2>1, <2>2, <2>3 DEF Fresh
<1>2. QED
  BY <1>1, HandshakeInitInv, HandshakeNextInv, PTL DEF HandshakeSpec, ConsumedOnce

----------------------------------------------------------------------------
(* Automation: commands that share a session file.                         *)

CommandPlaces == {"new", "load", "send", "sent", "answered", "token", "truncate", "write",
                  "status", "done", "killed"}
Content == [kind : {"whole", "empty", "mixed", "absent"}, cookie : Nat, csrf : Nat]
CommandState == [pc : CommandPlaces, op : Operations, loaded : Content, got : Content,
                 answer : {"none", "2xx", "403", "404", "409", "503", "other"},
                 exit : ExitCodes \cup {"none"}]
NotPerformed == {"usage", "auth", "notfound", "conflict"}

(* What is known of command c when it is in state k and the service has    *)
(* performed the operations of P: an answer tells what the service did.    *)
ToldTruth(c, k, P) ==
  /\ k.pc \in {"new", "load", "send", "sent"} => c \notin P
  /\ k.pc # "done" => k.exit = "none"
  /\ k.pc \in {"answered", "token", "truncate", "write", "status"} =>
       k.answer # "none" /\ (k.answer = "2xx" <=> c \in P)
  /\ k.exit = "ok" /\ k.op # "help" => c \in P
  /\ k.exit \in NotPerformed => c \notin P

TokenBelongs(content) == content.csrf \in {0, content.cookie} \/ fellBack

(* The session a command got is whole when it is stored.                   *)
HoldsSession(k) ==
  /\ k.got = Absent \/ k.got.kind = "whole"
  /\ k.pc \in {"token", "truncate", "write"} => k.got.kind = "whole"
  /\ k.got.kind = "whole" => TokenBelongs(k.got)

(* As long as no writes overlapped, a writer finds the file empty.         *)
FileGuarded ==
  /\ ~torn => \A c \in Commands : command[c].pc = "write" =>
       jar = NoSession("empty") /\ \A d \in Commands \ {c} : command[d].pc # "write"
  /\ jar \in Damaged => torn \/ \E c \in Commands : command[c].pc = "write"
  /\ jar.kind = "whole" => TokenBelongs(jar)

CommandTypes ==
  /\ jar \in Content /\ command \in [Commands -> CommandState]
  /\ issued \in Nat /\ torn \in BOOLEAN /\ fellBack \in BOOLEAN

CommandInv ==
  /\ CommandTypes /\ FileGuarded
  /\ \A c \in Commands : ToldTruth(c, command[c], performed) /\ HoldsSession(command[c])

LEMMA ContentFacts ==
  /\ Absent \in Content /\ NoSession("empty") \in Content /\ NoSession("mixed") \in Content
  /\ Absent.kind = "absent" /\ NoSession("empty").kind = "empty" /\ NoSession("mixed").kind = "mixed"
  /\ NoSession("empty").csrf = 0
  /\ \A f \in Damaged : f.kind # "whole"
BY DEF Absent, NoSession, Content, Damaged

LEMMA CommandInitInv == CommandInit => CommandInv
<1> SUFFICES ASSUME CommandInit PROVE CommandInv
  OBVIOUS
<1>1. /\ command = [c \in Commands |-> NewCommand] /\ performed = {} /\ issued = jar.cookie
      /\ torn = FALSE /\ fellBack = FALSE
      /\ jar = Absent \/ (jar \in sessionFile /\ jar.cookie = 1 /\ jar.csrf \in {0, 1})
  BY DEF CommandInit
<1>2. /\ NewCommand \in CommandState /\ NewCommand.pc = "new" /\ NewCommand.exit = "none"
      /\ NewCommand.got = Absent
  BY ContentFacts DEF NewCommand, CommandState, CommandPlaces, Operations
<1>3. /\ jar \in Content /\ jar.cookie \in Nat
      /\ jar.kind = "whole" => jar.csrf \in {0, jar.cookie}
      /\ jar \notin Damaged
  <2>1. CASE jar = Absent
    BY <2>1, ContentFacts DEF Content, Absent, Damaged, NoSession
  <2>2. CASE jar \in sessionFile /\ jar.cookie = 1 /\ jar.csrf \in {0, 1}
    BY <2>2, ContentFacts, AutomationAssumption DEF Content, sessionFile
  <2>3. QED
    BY <1>1, <2>1, <2>2
<1>4. CommandTypes /\ FileGuarded
  BY <1>1, <1>2, <1>3 DEF CommandTypes, FileGuarded, TokenBelongs
<1>5. ASSUME NEW c \in Commands
      PROVE  ToldTruth(c, command[c], performed) /\ HoldsSession(command[c])
  BY <1>1, <1>2, ContentFacts DEF ToldTruth, HoldsSession, NotPerformed
<1>6. QED
  BY <1>4, <1>5 DEF CommandInv

(* A step of one command that keeps what is known of it and of the file.   *)
LEMMA OwnCommand ==
  ASSUME CommandInv, NEW c \in Commands, NEW k \in CommandState,
         command' = [command EXCEPT ![c] = k],
         jar' \in Content, issued' \in Nat, torn' \in BOOLEAN, fellBack' \in BOOLEAN,
         fellBack => fellBack', \A d \in Commands \ {c} : d \in performed' <=> d \in performed,
         ToldTruth(c, k, performed'), HoldsSession(k)', FileGuarded'
  PROVE  CommandInv'
<1>1. CommandTypes'
  BY DEF CommandInv, CommandTypes
<1>2. ASSUME NEW d \in Commands
      PROVE  ToldTruth(d, command'[d], performed') /\ HoldsSession(command[d])'
  <2>1. command'[d] = IF d = c THEN k ELSE command[d]
    BY DEF CommandInv, CommandTypes
  <2>2. CASE d = c
    BY <2>1, <2>2 DEF HoldsSession, TokenBelongs
  <2>3. CASE d # c
    BY <2>1, <2>3 DEF CommandInv, ToldTruth, HoldsSession, TokenBelongs
  <2>4. QED
    BY <2>2, <2>3
<1>3. QED
  BY <1>1, <1>2 DEF CommandInv

(* A step that leaves the file alone, of a command that does not write it. *)
LEMMA FileAside ==
  ASSUME CommandInv, NEW c \in Commands, NEW k \in CommandState,
         command' = [command EXCEPT ![c] = k], k.pc # "write", command[c].pc # "write",
         jar' = jar, torn' = torn, fellBack => fellBack'
  PROVE  FileGuarded'
<1>1. \A d \in Commands : command'[d] = IF d = c THEN k ELSE command[d]
  BY DEF CommandInv, CommandTypes
<1>2. \A d \in Commands : command'[d].pc = "write" <=> command[d].pc = "write"
  BY <1>1
<1>3. QED
  BY <1>2 DEF CommandInv, FileGuarded, TokenBelongs

(* The same with the service left alone as well.                           *)
LEMMA QuietStep ==
  ASSUME CommandInv, NEW c \in Commands, NEW k \in CommandState,
         command' = [command EXCEPT ![c] = k], k.pc # "write", command[c].pc # "write",
         UNCHANGED jar, QuietCommand, ToldTruth(c, k, performed), HoldsSession(k)
  PROVE  CommandInv'
<1>1. UNCHANGED <<jar, issued, performed, torn, fellBack>>
  BY DEF QuietCommand
<1>2. FileGuarded'
  BY <1>1, FileAside
<1>3. HoldsSession(k)' /\ ToldTruth(c, k, performed')
  BY <1>1 DEF HoldsSession, TokenBelongs
<1>4. jar' \in Content /\ issued' \in Nat /\ torn' \in BOOLEAN /\ fellBack' \in BOOLEAN
  BY <1>1 DEF CommandInv, CommandTypes
<1>5. QED
  BY <1>1, <1>2, <1>3, <1>4, OwnCommand

LEMMA GotoFields ==
  ASSUME command \in [Commands -> CommandState], NEW c \in Commands, NEW pc \in CommandPlaces,
         Goto(c, pc)
  PROVE  \E k \in CommandState :
           /\ command' = [command EXCEPT ![c] = k] /\ k.pc = pc
           /\ k.op = command[c].op /\ k.got = command[c].got /\ k.answer = command[c].answer
           /\ k.exit = command[c].exit /\ k.loaded = command[c].loaded
<1> DEFINE k == [command[c] EXCEPT !.pc = pc]
<1>1. command[c] \in CommandState /\ command' = [command EXCEPT ![c] = k]
  BY DEF Goto
<1>2. k \in CommandState /\ k.pc = pc /\ k.op = command[c].op /\ k.got = command[c].got
      /\ k.answer = command[c].answer /\ k.exit = command[c].exit /\ k.loaded = command[c].loaded
  BY <1>1 DEF CommandState
<1> HIDE DEF k
<1>3. QED
  BY <1>1, <1>2

LEMMA EndFields ==
  ASSUME command \in [Commands -> CommandState], NEW c \in Commands,
         NEW pc \in CommandPlaces, NEW code \in ExitCodes \cup {"none"}, End(c, pc, code)
  PROVE  \E k \in CommandState :
           /\ command' = [command EXCEPT ![c] = k] /\ k.pc = pc /\ k.exit = code
           /\ k.op = command[c].op /\ k.got = Absent
<1> DEFINE k == [pc |-> pc, op |-> command[c].op, loaded |-> Absent, got |-> Absent,
                 answer |-> "none", exit |-> code]
<1>1. k \in CommandState
  BY ContentFacts DEF CommandState
<1>2. command' = [command EXCEPT ![c] = k]
  BY DEF End
<1>3. QED
  BY <1>1, <1>2

(* A command exits with a code that is true.                               *)
LEMMA ExitStep ==
  ASSUME CommandInv, NEW c \in Commands, NEW code \in ExitCodes, ExitWith(c, code),
         UNCHANGED jar, QuietCommand, command[c].pc # "write",
         code = "ok" => command[c].op = "help" \/ c \in performed,
         code \in NotPerformed => c \notin performed
  PROVE  CommandInv'
<1>1. PICK k \in CommandState :
        /\ command' = [command EXCEPT ![c] = k] /\ k.pc = "done" /\ k.exit = code
        /\ k.op = command[c].op /\ k.got = Absent
  BY EndFields DEF ExitWith, CommandInv, CommandTypes, CommandPlaces
<1>2. ToldTruth(c, k, performed)
  BY <1>1 DEF ToldTruth
<1>3. HoldsSession(k)
  BY <1>1, ContentFacts DEF HoldsSession
<1>4. QED
  BY <1>1, <1>2, <1>3, QuietStep

LEMMA StartInv == ASSUME CommandInv, NEW c \in Commands, NEW op \in Operations, Start(c, op)
                  PROVE  CommandInv'
<1>0. /\ command[c].pc = "new" /\ command[c] \in CommandState /\ UNCHANGED jar /\ QuietCommand
      /\ c \notin performed /\ command[c].exit = "none" /\ HoldsSession(command[c])
      /\ command \in [Commands -> CommandState]
  BY DEF Start, CommandInv, CommandTypes, ToldTruth
<1>1. CASE op = "help" /\ command' = [command EXCEPT ![c].pc = "done", ![c].op = op, ![c].exit = "ok"]
  <2> DEFINE i == [command[c] EXCEPT !.pc = "done"]
             j == [i EXCEPT !.op = op]
             k == [j EXCEPT !.exit = "ok"]
  <2>1. command' = [command EXCEPT ![c] = k]
    BY <1>0, <1>1
  <2>2. i \in CommandState /\ i.pc = "done" /\ i.got = command[c].got
    BY <1>0 DEF CommandState, CommandPlaces
  <2> HIDE DEF i
  <2>3. j \in CommandState /\ j.pc = i.pc /\ j.got = i.got /\ j.op = op
    BY <2>2 DEF CommandState
  <2> HIDE DEF j
  <2>4. k \in CommandState /\ k.pc = j.pc /\ k.got = j.got /\ k.op = j.op /\ k.exit = "ok"
    BY <2>3 DEF CommandState, ExitCodes
  <2> HIDE DEF k
  <2>5. ToldTruth(c, k, performed) /\ HoldsSession(k)
    BY <1>0, <1>1, <2>2, <2>3, <2>4 DEF ToldTruth, HoldsSession, NotPerformed
  <2>6. QED
    BY <1>0, <2>1, <2>2, <2>3, <2>4, <2>5, QuietStep
<1>2. CASE op # "help" /\ command' = [command EXCEPT ![c].pc = "load", ![c].op = op]
  <2> DEFINE j == [command[c] EXCEPT !.pc = "load"]
             k == [j EXCEPT !.op = op]
  <2>1. command' = [command EXCEPT ![c] = k]
    BY <1>0, <1>2
  <2>2. j \in CommandState /\ j.pc = "load" /\ j.got = command[c].got /\ j.exit = "none"
    BY <1>0 DEF CommandState, CommandPlaces
  <2> HIDE DEF j
  <2>3. k \in CommandState /\ k.pc = "load" /\ k.got = command[c].got /\ k.exit = "none"
    BY <2>2 DEF CommandState
  <2> HIDE DEF k
  <2>4. ToldTruth(c, k, performed) /\ HoldsSession(k)
    BY <1>0, <2>3 DEF ToldTruth, HoldsSession, NotPerformed
  <2>5. QED
    BY <1>0, <2>1, <2>3, <2>4, QuietStep
<1>3. ASSUME NEW code \in {"usage", "failure"}, ExitWith(c, code) PROVE CommandInv'
  <2>1. code \in ExitCodes /\ code # "ok"
    BY DEF ExitCodes
  <2>2. QED
    BY <1>0, <1>3, <2>1, ExitStep
<1>4. QED
  BY <1>1, <1>2, <1>3 DEF Start

LEMMA LoadInv == ASSUME CommandInv, NEW c \in Commands, LoadSession(c) PROVE CommandInv'
<1>0. /\ command[c].pc = "load" /\ command[c] \in CommandState /\ UNCHANGED jar /\ QuietCommand
      /\ c \notin performed /\ command[c].exit = "none" /\ HoldsSession(command[c])
      /\ command \in [Commands -> CommandState] /\ jar \in Content
  BY DEF LoadSession, CommandInv, CommandTypes, ToldTruth
<1>1. CASE command' = [command EXCEPT ![c].pc = "send", ![c].loaded = jar]
  <2> DEFINE j == [command[c] EXCEPT !.pc = "send"]
             k == [j EXCEPT !.loaded = jar]
  <2>1. command' = [command EXCEPT ![c] = k]
    BY <1>0, <1>1
  <2>2. j \in CommandState /\ j.pc = "send" /\ j.got = command[c].got /\ j.exit = "none"
    BY <1>0 DEF CommandState, CommandPlaces
  <2> HIDE DEF j
  <2>3. k \in CommandState /\ k.pc = "send" /\ k.got = command[c].got /\ k.exit = "none"
    BY <1>0, <2>2 DEF CommandState
  <2> HIDE DEF k
  <2>4. ToldTruth(c, k, performed) /\ HoldsSession(k)
    BY <1>0, <2>3 DEF ToldTruth, HoldsSession, NotPerformed
  <2>5. QED
    BY <1>0, <2>1, <2>3, <2>4, QuietStep
<1>2. CASE Goto(c, "send")
  <2>1. PICK k \in CommandState :
          /\ command' = [command EXCEPT ![c] = k] /\ k.pc = "send"
          /\ k.got = command[c].got /\ k.exit = command[c].exit
    BY <1>0, <1>2, GotoFields DEF CommandPlaces
  <2>2. ToldTruth(c, k, performed) /\ HoldsSession(k)
    BY <1>0, <2>1 DEF ToldTruth, HoldsSession, NotPerformed
  <2>3. QED
    BY <1>0, <2>1, <2>2, QuietStep
<1>3. CASE ExitWith(c, "auth")
  BY <1>0, <1>3, ExitStep DEF ExitCodes
<1>4. QED
  BY <1>1, <1>2, <1>3 DEF LoadSession

(* Steps that only move a command on.                                      *)
LEMMA MoveInv ==
  ASSUME CommandInv, NEW c \in Commands, Send(c) \/ ReadAnswer(c)
  PROVE  CommandInv'
<1>0. /\ command[c] \in CommandState /\ UNCHANGED jar /\ QuietCommand
      /\ HoldsSession(command[c]) /\ ToldTruth(c, command[c], performed)
      /\ command \in [Commands -> CommandState]
  BY DEF Send, ReadAnswer, CommandInv, CommandTypes
<1>1. PICK place \in {"sent", "status", "token"} :
        /\ Goto(c, place)
        /\ place = "sent" => command[c].pc = "send"
        /\ place # "sent" => command[c].pc = "answered"
        /\ place = "token" => command[c].got # Absent
  BY DEF Send, ReadAnswer
<1>2. PICK k \in CommandState :
        /\ command' = [command EXCEPT ![c] = k] /\ k.pc = place
        /\ k.op = command[c].op /\ k.got = command[c].got /\ k.answer = command[c].answer
        /\ k.exit = command[c].exit
  BY <1>0, <1>1, GotoFields DEF CommandPlaces
<1>3. ToldTruth(c, k, performed)
  BY <1>0, <1>1, <1>2 DEF ToldTruth, NotPerformed
<1>4. HoldsSession(k)
  BY <1>0, <1>1, <1>2 DEF HoldsSession
<1>5. command[c].pc # "write"
  BY <1>1
<1>6. QED
  BY <1>0, <1>1, <1>2, <1>3, <1>4, <1>5, QuietStep

LEMMA EndInv ==
  ASSUME CommandInv, NEW c \in Commands, LoseAnswer(c) \/ LoseBody(c) \/ ReportStatus(c)
  PROVE  CommandInv'
<1>0. UNCHANGED jar /\ QuietCommand /\ command[c] \in CommandState
      /\ ToldTruth(c, command[c], performed)
  BY DEF LoseAnswer, LoseBody, ReportStatus, CommandInv, CommandTypes
<1>1. CASE LoseAnswer(c)
  BY <1>0, <1>1, ExitStep DEF LoseAnswer, ExitCodes, NotPerformed
<1>2. CASE LoseBody(c)
  BY <1>0, <1>2, ExitStep DEF LoseBody, ExitCodes, NotPerformed
<1>3. CASE ReportStatus(c)
  <2>1. PICK code : code = exitForStatus(command[c].answer)
    OBVIOUS
  <2>2. command[c].pc = "status" /\ ExitWith(c, code)
    BY <1>3, <2>1 DEF ReportStatus
  <2>3. command[c].answer \in {"2xx", "403", "404", "409", "503", "other"}
        /\ (command[c].answer = "2xx" <=> c \in performed)
    BY <1>0, <2>2 DEF ToldTruth, CommandState
  <2>4. code \in ExitCodes /\ (code = "ok" <=> command[c].answer = "2xx")
        /\ (command[c].answer = "2xx" => code \notin NotPerformed)
    BY <2>1, <2>3 DEF exitForStatus, ExitCodes, NotPerformed
  <2>5. QED
    BY <1>0, <2>2, <2>3, <2>4, ExitStep
<1>4. QED
  BY <1>1, <1>2, <1>3

(* What an answer leaves of the command, whether or not it brings a        *)
(* session.                                                                *)
LEMMA AnswerFields ==
  ASSUME CommandInv, NEW c \in Commands,
         NEW status \in {"2xx", "403", "404", "409", "503", "other"}, Answer(c, status)
  PROVE  \E k \in CommandState :
           /\ command' = [command EXCEPT ![c] = k] /\ k.pc = "answered" /\ k.exit = "none"
           /\ k.answer = status /\ HoldsSession(k)
<1>0. /\ command[c].pc = "sent" /\ command[c] \in CommandState /\ command[c].exit = "none"
      /\ HoldsSession(command[c]) /\ command \in [Commands -> CommandState]
  BY DEF Answer, CommandInv, CommandTypes, ToldTruth
<1> DEFINE i == [command[c] EXCEPT !.pc = "answered"]
           j == [i EXCEPT !.answer = status]
<1>1. i \in CommandState /\ i.pc = "answered" /\ i.got = command[c].got /\ i.exit = "none"
  BY <1>0 DEF CommandState, CommandPlaces
<1> HIDE DEF i
<1>2. /\ j \in CommandState /\ j.pc = "answered" /\ j.got = command[c].got /\ j.exit = "none"
      /\ j.answer = status
  BY <1>1 DEF CommandState
<1>3. CASE command' = [command EXCEPT ![c].pc = "answered", ![c].answer = status]
  <2>1. command' = [command EXCEPT ![c] = j]
    BY <1>0, <1>3 DEF i
  <2> HIDE DEF j
  <2>2. HoldsSession(j)
    BY <1>0, <1>2 DEF HoldsSession
  <2>3. QED
    BY <1>2, <2>1, <2>2
<1>4. ASSUME NEW cookie \in 1 .. MaxLogins, NEW token \in {0, cookie},
             command' = [command EXCEPT ![c].pc = "answered", ![c].answer = status,
               ![c].got = [kind |-> "whole", cookie |-> cookie, csrf |-> token]]
      PROVE  \E k \in CommandState :
               /\ command' = [command EXCEPT ![c] = k] /\ k.pc = "answered" /\ k.exit = "none"
               /\ k.answer = status /\ HoldsSession(k)
  <2> DEFINE g == [kind |-> "whole", cookie |-> cookie, csrf |-> token]
             k == [j EXCEPT !.got = g]
  <2>1. g \in Content /\ g.kind = "whole" /\ g.csrf \in {0, g.cookie}
    BY AutomationAssumption DEF Content
  <2>2. command' = [command EXCEPT ![c] = k]
    BY <1>0, <1>4 DEF i
  <2> HIDE DEF g, j
  <2>3. k \in CommandState /\ k.pc = "answered" /\ k.exit = "none" /\ k.answer = status /\ k.got = g
    BY <1>2, <2>1 DEF CommandState
  <2> HIDE DEF k
  <2>4. HoldsSession(k)
    BY <2>1, <2>3 DEF HoldsSession, TokenBelongs
  <2>5. QED
    BY <2>2, <2>3, <2>4
<1>5. QED
  BY <1>3, <1>4 DEF Answer

LEMMA ServiceInv == ASSUME CommandInv, NEW c \in Commands, Perform(c) \/ Reject(c)
                    PROVE  CommandInv'
<1>1. PICK status \in {"2xx", "403", "404", "409", "503", "other"} :
        /\ Answer(c, status)
        /\ performed' = IF status = "2xx" THEN performed \cup {c} ELSE performed
  BY DEF Perform, Reject
<1>2. /\ command[c].pc = "sent" /\ c \notin performed /\ jar \in Content /\ issued \in Nat
      /\ torn \in BOOLEAN /\ fellBack \in BOOLEAN /\ UNCHANGED <<jar, torn, fellBack>>
  BY <1>1 DEF Answer, CommandInv, CommandTypes
<1>3. PICK k \in CommandState :
        /\ command' = [command EXCEPT ![c] = k] /\ k.pc = "answered" /\ k.exit = "none"
        /\ k.answer = status /\ HoldsSession(k)
  BY <1>1, AnswerFields
<1>4. issued' \in Nat
  BY <1>1, <1>2 DEF Answer
<1>5. /\ \A d \in Commands \ {c} : d \in performed' <=> d \in performed
      /\ c \in performed' <=> status = "2xx"
  BY <1>1, <1>2
<1>6. ToldTruth(c, k, performed') /\ HoldsSession(k)'
  BY <1>2, <1>3, <1>5 DEF ToldTruth, HoldsSession, TokenBelongs, NotPerformed
<1>7. FileGuarded'
  BY <1>2, <1>3, FileAside
<1>8. QED
  BY <1>2, <1>3, <1>4, <1>5, <1>6, <1>7, OwnCommand

LEMMA ChooseInv == ASSUME CommandInv, NEW c \in Commands, ChooseToken(c) PROVE CommandInv'
<1>0. /\ command[c].pc = "token" /\ command[c] \in CommandState /\ command[c].exit = "none"
      /\ HoldsSession(command[c]) /\ ToldTruth(c, command[c], performed)
      /\ command \in [Commands -> CommandState] /\ jar \in Content /\ issued \in Nat
      /\ torn \in BOOLEAN /\ fellBack \in BOOLEAN
      /\ UNCHANGED <<jar, issued, performed, torn>>
  BY DEF ChooseToken, CommandInv, CommandTypes, ToldTruth
<1>1. /\ command[c].got \in Content /\ command[c].got.kind = "whole" /\ TokenBelongs(command[c].got)
      /\ command[c].loaded.csrf \in Nat
  BY <1>0 DEF HoldsSession, CommandState, Content
<1>2. PICK token \in Nat :
        /\ command' = [command EXCEPT ![c].pc = "truncate", ![c].got.csrf = token]
        /\ fellBack' \in BOOLEAN /\ (fellBack => fellBack')
        /\ token \in {0, command[c].got.cookie} \/ fellBack'
  <2>1. command[c].got.csrf \in Nat /\ command[c].got.cookie \in Nat
    BY <1>1 DEF Content
  <2>2. QED
    BY <1>0, <1>1, <2>1 DEF ChooseToken, TokenBelongs
<1>3. PICK k \in CommandState :
        /\ command' = [command EXCEPT ![c] = k] /\ k.pc = "truncate" /\ k.exit = "none"
        /\ k.answer = command[c].answer /\ k.got.kind = "whole" /\ k.got.csrf = token
        /\ k.got.cookie = command[c].got.cookie
  <2> DEFINE g == [command[c].got EXCEPT !.csrf = token]
             j == [command[c] EXCEPT !.pc = "truncate"]
             k == [j EXCEPT !.got = g]
  <2>1. command' = [command EXCEPT ![c] = k]
    BY <1>0, <1>2
  <2>2. g \in Content /\ g.kind = "whole" /\ g.csrf = token /\ g.cookie = command[c].got.cookie
    BY <1>1 DEF Content
  <2>3. /\ j \in CommandState /\ j.pc = "truncate" /\ j.exit = "none"
        /\ j.answer = command[c].answer
    BY <1>0 DEF CommandState, CommandPlaces
  <2> HIDE DEF g, j
  <2>4. /\ k \in CommandState /\ k.pc = "truncate" /\ k.exit = "none" /\ k.got = g
        /\ k.answer = command[c].answer
    BY <2>2, <2>3 DEF CommandState
  <2> HIDE DEF k
  <2>5. QED
    BY <2>1, <2>2, <2>4
<1>4. ToldTruth(c, k, performed')
  BY <1>0, <1>3 DEF ToldTruth, NotPerformed
<1>5. HoldsSession(k)'
  BY <1>2, <1>3 DEF HoldsSession, TokenBelongs
<1>6. FileGuarded'
  BY <1>0, <1>2, <1>3, FileAside
<1>7. QED
  BY <1>0, <1>2, <1>3, <1>4, <1>5, <1>6, OwnCommand

LEMMA TruncateInv == ASSUME CommandInv, NEW c \in Commands, Truncate(c) PROVE CommandInv'
<1>0. /\ command[c].pc = "truncate" /\ command[c] \in CommandState
      /\ HoldsSession(command[c]) /\ ToldTruth(c, command[c], performed)
      /\ command \in [Commands -> CommandState] /\ jar \in Content /\ issued \in Nat
      /\ torn \in BOOLEAN /\ fellBack \in BOOLEAN
      /\ UNCHANGED <<issued, performed, kills, fellBack>>
  BY DEF Truncate, CommandInv, CommandTypes
<1>1. CASE ExitWith(c, "failure") /\ UNCHANGED <<jar, torn>>
  BY <1>0, <1>1, ExitStep DEF ExitCodes, NotPerformed, QuietCommand
<1>2. CASE /\ jar' = NoSession("empty") /\ Goto(c, "write")
           /\ torn' = (torn \/ \E d \in Commands \ {c} : command[d].pc = "write")
  <2>1. PICK k \in CommandState :
          /\ command' = [command EXCEPT ![c] = k] /\ k.pc = "write"
          /\ k.got = command[c].got /\ k.answer = command[c].answer /\ k.exit = command[c].exit
          /\ k.op = command[c].op
    BY <1>0, <1>2, GotoFields DEF CommandPlaces
  <2>2. ToldTruth(c, k, performed') /\ HoldsSession(k)'
    BY <1>0, <2>1 DEF ToldTruth, HoldsSession, TokenBelongs, NotPerformed
  <2>3. \A d \in Commands : command'[d] = IF d = c THEN k ELSE command[d]
    BY <1>0, <2>1
  <2>4. torn' \in BOOLEAN /\ (~torn' => \A d \in Commands \ {c} : command[d].pc # "write")
    BY <1>2
  <2>5. FileGuarded'
    BY <1>2, <2>1, <2>3, <2>4, ContentFacts DEF FileGuarded
  <2>6. QED
    BY <1>0, <1>2, <2>1, <2>2, <2>4, <2>5, ContentFacts, OwnCommand
<1>3. QED
  BY <1>1, <1>2 DEF Truncate

LEMMA WriteInv == ASSUME CommandInv, NEW c \in Commands, WriteSession(c) PROVE CommandInv'
<1>0. /\ command[c].pc = "write" /\ command[c] \in CommandState
      /\ HoldsSession(command[c]) /\ ToldTruth(c, command[c], performed)
      /\ command \in [Commands -> CommandState] /\ jar \in Content /\ issued \in Nat
      /\ torn \in BOOLEAN /\ fellBack \in BOOLEAN /\ FileGuarded
      /\ UNCHANGED <<issued, performed, kills, fellBack>>
  BY DEF WriteSession, CommandInv, CommandTypes
<1>1. CASE ExitWith(c, "failure") /\ torn' = TRUE /\ UNCHANGED jar
  <2>1. PICK k \in CommandState :
          /\ command' = [command EXCEPT ![c] = k] /\ k.pc = "done" /\ k.exit = "failure"
          /\ k.op = command[c].op /\ k.got = Absent
    BY <1>0, <1>1, EndFields DEF ExitWith, ExitCodes, CommandPlaces
  <2>2. ToldTruth(c, k, performed') /\ HoldsSession(k)'
    BY <1>0, <2>1, ContentFacts DEF ToldTruth, HoldsSession, TokenBelongs, NotPerformed
  <2>3. FileGuarded'
    BY <1>0, <1>1 DEF FileGuarded, TokenBelongs
  <2>4. QED
    BY <1>0, <1>1, <2>1, <2>2, <2>3, OwnCommand
<1>2. CASE /\ jar' = IF command[c].got.csrf = 0 /\ (jar.kind = "mixed" \/ jar.csrf # 0)
                     THEN NoSession("mixed") ELSE command[c].got
           /\ Goto(c, "status") /\ UNCHANGED torn
  <2>1. PICK k \in CommandState :
          /\ command' = [command EXCEPT ![c] = k] /\ k.pc = "status"
          /\ k.got = command[c].got /\ k.answer = command[c].answer /\ k.exit = command[c].exit
          /\ k.op = command[c].op
    BY <1>0, <1>2, GotoFields DEF CommandPlaces
  <2>2. ToldTruth(c, k, performed') /\ HoldsSession(k)'
    BY <1>0, <2>1 DEF ToldTruth, HoldsSession, TokenBelongs, NotPerformed
  <2>3. /\ command[c].got \in Content /\ command[c].got.kind = "whole"
        /\ TokenBelongs(command[c].got)
    BY <1>0 DEF HoldsSession, CommandState
  <2>4. jar' \in Content /\ (jar'.kind = "whole" => jar' = command[c].got)
    BY <1>2, <2>3, ContentFacts
  <2>5. ~torn => /\ jar' = command[c].got
                 /\ \A d \in Commands \ {c} : command[d].pc # "write"
    BY <1>0, <1>2, ContentFacts DEF FileGuarded
  <2>6. \A d \in Commands : command'[d] = IF d = c THEN k ELSE command[d]
    BY <1>0, <2>1
  <2>7. FileGuarded'
    <3>1. ~torn' => \A d \in Commands : command'[d].pc # "write"
      BY <1>2, <2>1, <2>5, <2>6
    <3>2. jar' \in Damaged => torn'
      BY <1>2, <2>3, <2>5, ContentFacts
    <3>3. jar'.kind = "whole" => TokenBelongs(jar)'
      BY <1>0, <2>3, <2>4 DEF TokenBelongs
    <3>4. QED
      BY <3>1, <3>2, <3>3 DEF FileGuarded
  <2>8. QED
    BY <1>0, <1>2, <2>1, <2>2, <2>4, <2>7, OwnCommand
<1>3. QED
  BY <1>1, <1>2 DEF WriteSession

LEMMA KillInv == ASSUME CommandInv, NEW c \in Commands, Kill(c) PROVE CommandInv'
<1>0. /\ command[c].pc # "done" /\ command[c] \in CommandState
      /\ HoldsSession(command[c]) /\ ToldTruth(c, command[c], performed)
      /\ command \in [Commands -> CommandState] /\ jar \in Content /\ issued \in Nat
      /\ torn \in BOOLEAN /\ fellBack \in BOOLEAN /\ FileGuarded
      /\ End(c, "killed", "none") /\ torn' = (torn \/ command[c].pc = "write")
      /\ UNCHANGED <<jar, issued, performed, fellBack>>
  BY DEF Kill, CommandInv, CommandTypes
<1>1. PICK k \in CommandState :
        /\ command' = [command EXCEPT ![c] = k] /\ k.pc = "killed"
        /\ k.got = Absent /\ k.exit = "none"
  BY <1>0, EndFields DEF CommandPlaces
<1>2. ToldTruth(c, k, performed') /\ HoldsSession(k)'
  BY <1>0, <1>1, ContentFacts DEF ToldTruth, HoldsSession, TokenBelongs, NotPerformed
<1>3. FileGuarded'
  <2>1. CASE command[c].pc = "write"
    BY <1>0, <2>1 DEF FileGuarded, TokenBelongs
  <2>2. CASE command[c].pc # "write"
    <3>1. torn' = torn
      BY <1>0, <2>2
    <3>2. QED
      BY <1>0, <1>1, <2>2, <3>1, FileAside
  <2>3. QED
    BY <2>1, <2>2
<1>4. torn' \in BOOLEAN
  BY <1>0
<1>5. QED
  BY <1>0, <1>1, <1>2, <1>3, <1>4, OwnCommand

LEMMA CommandNextInv == CommandInv /\ [CommandNext]_commandVars => CommandInv'
<1> SUFFICES ASSUME CommandInv, [CommandNext]_commandVars PROVE CommandInv'
  OBVIOUS
<1>1. ASSUME NEW c \in Commands, CommandStep(c) PROVE CommandInv'
  BY <1>1, StartInv, LoadInv, MoveInv, EndInv, ServiceInv, ChooseInv, TruncateInv, WriteInv, KillInv
     DEF CommandStep
<1>2. ASSUME UNCHANGED commandVars PROVE CommandInv'
  <2>1. UNCHANGED <<jar, command, issued, performed, torn, fellBack>>
    BY <1>2 DEF commandVars
  <2>2. CommandTypes' /\ FileGuarded'
    BY <2>1 DEF CommandInv, CommandTypes, FileGuarded, TokenBelongs
  <2>3. \A c \in Commands : ToldTruth(c, command'[c], performed') /\ HoldsSession(command[c])'
    BY <2>1 DEF CommandInv, HoldsSession, TokenBelongs
  <2>4. QED
    BY <2>2, <2>3 DEF CommandInv
<1>3. QED
  BY <1>1, <1>2 DEF CommandNext

(* Exit codes are true and the session file is usable: for any number of   *)
(* commands at the same time, logins and kills.                            *)
THEOREM CommandsTrue == CommandSpec => []CommandIsTrue
<1>1. CommandInv => CommandIsTrue
  <2> SUFFICES ASSUME CommandInv PROVE CommandIsTrue
    OBVIOUS
  <2>1. ExitIsTrue
    BY DEF CommandInv, ToldTruth, ExitIsTrue, NotPerformed
  <2>2. SessionFileUsable
    <3>1. jar \in sessionFile => jar.kind = "whole"
      BY DEF sessionFile
    <3>2. QED
      BY <3>1 DEF CommandInv, FileGuarded, TokenBelongs, SessionFileUsable
  <2>3. QED
    BY <2>1, <2>2 DEF CommandIsTrue
<1>2. QED
  BY <1>1, CommandInitInv, CommandNextInv, PTL DEF CommandSpec

----------------------------------------------------------------------------
(* Accounts of auth/model.go.  The inductive invariant says of every       *)
(* document that the process or a Reload under way holds that its recovery *)
(* codes are apart and that each account has a login; of the accounts in   *)
(* use that they pass the validation; and of the saved ones, unless a      *)
(* Reload raced with a change, that they are those in use.                 *)

(* Code c belongs to identity i of account a.                              *)
Has(u, a, i, c) ==
  a \in DOMAIN u /\ i \in DOMAIN u[a].identities /\ c \in u[a].identities[i].codes

(* Every document that was ever saved.                                     *)
Sound(u) ==
  /\ IsUsers(u)
  /\ \A a, b \in AccountIds, i, j \in IdentityIds, c \in Codes :
       Has(u, a, i, c) /\ Has(u, b, j, c) => a = b /\ i = j
  /\ \A a \in DOMAIN u : Logins(u[a]) # {}

DocumentsSound == Sound(users) /\ Sound(diskUsers) /\ Sound(reload.users)

Scalars ==
  /\ IsRoles(roles) /\ IsRoles(diskRoles) /\ IsRoles(reload.roles)
  /\ DOMAIN reload = {"pc", "users", "roles"}
  /\ reload.pc \in {"idle", "roles", "install"}
  /\ up \in BOOLEAN /\ setup \in BOOLEAN
  /\ changes \in 0 .. MaxChanges /\ saveErrors \in 0 .. MaxSaveErrors
  /\ codesUsed \subseteq Codes /\ installed \in BOOLEAN /\ stale \in BOOLEAN

InUseValid == up => ValidateAccounts(users, roles)

(* The saved documents have an administrator, whatever is in use.          *)
InstalledSaved ==
  /\ ValidRoles(diskRoles)
  /\ installed => \E a \in DOMAIN diskUsers : PasswordBackedAdmin(diskUsers[a])

Inv ==
  /\ DocumentsSound /\ Scalars /\ InUseValid /\ InstalledSaved
  /\ SavedIsCurrent /\ RecoveryCodeOnce

----------------------------------------------------------------------------
(* Documents.                                                              *)

LEMMA IdentityFacts ==
  ASSUME NEW u, IsUsers(u), NEW a \in DOMAIN u, NEW i \in DOMAIN u[a].identities
  PROVE  /\ a \in AccountIds /\ i \in IdentityIds /\ u[a].identities[i] \in Identity
         /\ u[a].identities[i].codes \in SUBSET Codes
         /\ <<a, i>> \in IdentitiesOf(u) /\ At(u, <<a, i>>) = u[a].identities[i]
<1>1. a \in AccountIds /\ i \in IdentityIds /\ u[a].identities[i] \in Identity
  BY DEF IsUsers, IsAccount
<1>2. u[a].identities[i].codes \in SUBSET Codes
  BY <1>1 DEF Identity
<1>3. QED
  BY <1>1, <1>2 DEF IdentitiesOf, At

LEMMA PairFacts ==
  ASSUME NEW u, NEW p \in IdentitiesOf(u)
  PROVE  /\ p = <<p[1], p[2]>> /\ p[1] \in AccountIds /\ p[2] \in IdentityIds
         /\ p[1] \in DOMAIN u /\ p[2] \in DOMAIN u[p[1]].identities
         /\ At(u, p) = u[p[1]].identities[p[2]]
BY DEF IdentitiesOf, At

LEMMA CodesLemma ==
  ASSUME NEW u, IsUsers(u), NEW c
  PROVE  c \in CodesIn(u) <=> \E a \in AccountIds, i \in IdentityIds : Has(u, a, i, c)
<1>1. ASSUME c \in CodesIn(u) PROVE \E a \in AccountIds, i \in IdentityIds : Has(u, a, i, c)
  <2>1. PICK p \in IdentitiesOf(u) : c \in At(u, p).codes
    BY <1>1 DEF CodesIn
  <2>2. Has(u, p[1], p[2], c) /\ p[1] \in AccountIds /\ p[2] \in IdentityIds
    BY <2>1, PairFacts DEF Has
  <2>3. QED
    BY <2>2
<1>2. ASSUME NEW a \in AccountIds, NEW i \in IdentityIds, Has(u, a, i, c) PROVE c \in CodesIn(u)
  <2>1. a \in DOMAIN u /\ i \in DOMAIN u[a].identities /\ c \in u[a].identities[i].codes
    BY <1>2 DEF Has
  <2>2. <<a, i>> \in IdentitiesOf(u) /\ c \in At(u, <<a, i>>).codes
    BY <2>1, IdentityFacts
  <2>3. QED
    BY <2>2 DEF CodesIn
<1>3. QED
  BY <1>1, <1>2

LEMMA CodesTyped ==
  ASSUME NEW u, IsUsers(u), NEW a, NEW i, NEW c, Has(u, a, i, c)
  PROVE  a \in AccountIds /\ i \in IdentityIds /\ c \in Codes
<1>1. a \in DOMAIN u /\ i \in DOMAIN u[a].identities /\ c \in u[a].identities[i].codes
  BY DEF Has
<1>2. QED
  BY <1>1, IdentityFacts

LEMMA InstalledSound == ASSUME NEW u \in Installations PROVE Sound(u)
<1>1. IsUsers(u) /\ CodesApart(u) /\ \A a \in DOMAIN u : Logins(u[a]) # {}
  BY InstallationsAssumption
<1>2. ASSUME NEW a \in AccountIds, NEW b \in AccountIds, NEW i \in IdentityIds,
             NEW j \in IdentityIds, NEW c \in Codes, Has(u, a, i, c), Has(u, b, j, c)
      PROVE  a = b /\ i = j
  <2>1. /\ a \in DOMAIN u /\ i \in DOMAIN u[a].identities /\ c \in u[a].identities[i].codes
        /\ b \in DOMAIN u /\ j \in DOMAIN u[b].identities /\ c \in u[b].identities[j].codes
    BY <1>2 DEF Has
  <2>2. /\ <<a, i>> \in IdentitiesOf(u) /\ c \in At(u, <<a, i>>).codes
        /\ <<b, j>> \in IdentitiesOf(u) /\ c \in At(u, <<b, j>>).codes
    BY <1>1, <2>1, IdentityFacts
  <2>3. <<a, i>> = <<b, j>>
    BY <1>1, <2>2 DEF CodesApart
  <2>4. QED
    BY <2>3
<1>3. QED
  BY <1>1, <1>2 DEF Sound

LEMMA EmptySound == Sound(<< >>)
<1>1. DOMAIN << >> = {}
  OBVIOUS
<1>2. QED
  BY <1>1 DEF Sound, IsUsers, Has

(* One account a is replaced or added: its identities keep their codes,    *)
(* but for one, k, that may get those of F.                                *)
Edit(u, n, a, k, F) ==
  /\ a \in AccountIds
  /\ DOMAIN n = DOMAIN u \cup {a} /\ \A x \in DOMAIN u \ {a} : n[x] = u[x]
  /\ DOMAIN n[a] = {"enabled", "roles", "identities"} /\ IsAccount(n[a]) /\ Logins(n[a]) # {}
  /\ F \subseteq Codes /\ \A c \in F : c \notin CodesIn(u)
  /\ \A j \in DOMAIN n[a].identities, c \in Codes :
       c \in n[a].identities[j].codes => Has(u, a, j, c) \/ (j = k /\ c \in F)

LEMMA EditSound ==
  ASSUME NEW u, Sound(u), NEW n, NEW a, NEW k, NEW F, Edit(u, n, a, k, F)
  PROVE  Sound(n) /\ DOMAIN n # {} /\ CodesIn(n) \subseteq CodesIn(u) \cup F
<1>1. IsUsers(u) /\ IsUsers(n)
  BY DEF Sound, IsUsers, Edit
<1>2. \A b \in AccountIds, j \in IdentityIds, c \in Codes :
        Has(n, b, j, c) => Has(u, b, j, c) \/ (b = a /\ j = k /\ c \in F)
  BY DEF Has, Edit
<1>3. \A b \in AccountIds, j \in IdentityIds, c \in F : ~Has(u, b, j, c)
  BY <1>1, CodesLemma DEF Edit
<1>4. ASSUME NEW b \in AccountIds, NEW d \in AccountIds, NEW i \in IdentityIds,
             NEW j \in IdentityIds, NEW c \in Codes, Has(n, b, i, c), Has(n, d, j, c)
      PROVE  b = d /\ i = j
  <2>1. CASE c \in F
    BY <1>2, <1>3, <1>4, <2>1
  <2>2. CASE c \notin F
    BY <1>2, <1>4, <2>2 DEF Sound
  <2>3. QED
    BY <2>1, <2>2
<1>5. DOMAIN n # {} /\ \A x \in DOMAIN n : Logins(n[x]) # {}
  BY DEF Sound, Edit
<1>6. ASSUME NEW c \in CodesIn(n) PROVE c \in CodesIn(u) \cup F
  <2>1. PICK b \in AccountIds, j \in IdentityIds : Has(n, b, j, c)
    BY <1>1, CodesLemma
  <2>2. c \in Codes
    BY <1>1, <2>1, CodesTyped
  <2>3. QED
    BY <1>1, <1>2, <2>1, <2>2, CodesLemma
<1>7. QED
  BY <1>1, <1>4, <1>5, <1>6 DEF Sound

LEMMA DeleteSound ==
  ASSUME NEW u, Sound(u), NEW a
  PROVE  Sound(Without(u, a)) /\ CodesIn(Without(u, a)) \subseteq CodesIn(u)
<1> DEFINE n == Without(u, a)
<1>1. DOMAIN n = DOMAIN u \ {a} /\ \A x \in DOMAIN n : n[x] = u[x]
  BY DEF Without
<1> HIDE DEF n
<1>2. IsUsers(u) /\ IsUsers(n)
  BY <1>1 DEF Sound, IsUsers
<1>3. \A b, j, c : Has(n, b, j, c) => Has(u, b, j, c)
  BY <1>1 DEF Has
<1>4. Sound(n)
  BY <1>1, <1>2, <1>3 DEF Sound
<1>5. \A c \in CodesIn(n) : c \in CodesIn(u)
  BY <1>2, <1>3, CodesLemma
<1>6. QED
  BY <1>4, <1>5 DEF n

----------------------------------------------------------------------------
(* The changes.                                                            *)

Ready == DocumentsSound /\ Scalars /\ changes < MaxChanges

(* What a change saves and installs, when it accepts the codes of code.    *)
Proper(next, code) ==
  /\ Sound(next) /\ DOMAIN next # {} /\ ValidateAccounts(next, roles)
  /\ code \subseteq Codes /\ CodesIn(next) \cap code = {}
  /\ CodesIn(next) \cap codesUsed \subseteq CodesIn(users)

LEMMA FreshFacts ==
  /\ \A a \in FreshAccount : a \in AccountIds /\ a \notin DOMAIN users
  /\ \A i \in FreshIdentity : i \in IdentityIds
  /\ \A c \in FreshCodes : c \in Codes /\ c \notin codesUsed /\ c \notin CodesIn(users)
<1>1. \A a \in FreshAccount : a \in AccountIds /\ a \notin DOMAIN users
  BY DEF FreshAccount, OneOf, Documents
<1>2. \A i \in FreshIdentity : i \in IdentityIds
  BY DEF FreshIdentity, OneOf
<1>3. \A c \in FreshCodes : c \in Codes /\ c \notin codesUsed /\ c \notin CodesIn(users)
  BY DEF FreshCodes, Documents
<1>4. QED
  BY <1>1, <1>2, <1>3

LEMMA NewIdentityFacts ==
  ASSUME Ready, NEW type \in {"password", "google", "email"}, NEW key \in LoginKeys
  PROVE  /\ NewIdentity(type, key) \in Identity /\ NewIdentity(type, key).type = type
         /\ NewIdentity(type, key).codes = {}
<1>1. key.name \in Names /\ key.mail \in SUBSET Mails
  BY DEF LoginKeys
<1>2. changes + 1 \in 0 .. MaxChanges /\ 0 \in 0 .. MaxChanges
  BY AccountsAssumption DEF Ready, Scalars
<1>3. QED
  BY <1>1, <1>2 DEF NewIdentity, Identity, HashPassword

LEMMA CreateProper ==
  ASSUME Ready, NEW a \in FreshAccount, NEW i \in FreshIdentity, NEW key \in LoginKeys,
         NEW assigned \in SUBSET RoleIds, createAccount(a, i, key, assigned)
  PROVE  \E next : Proper(next, {}) /\ Commit(next, {})
<1> DEFINE new == NewIdentity("password", key)
           acc == [enabled |-> TRUE, roles |-> assigned, identities |-> [x \in {i} |-> new]]
           next == With(users, a, acc)
<1>1. a \in AccountIds /\ a \notin DOMAIN users /\ i \in IdentityIds
  BY FreshFacts
<1>2. new \in Identity /\ new.type = "password" /\ new.codes = {}
  BY NewIdentityFacts
<1> HIDE DEF new
<1>3. /\ DOMAIN acc = {"enabled", "roles", "identities"} /\ IsAccount(acc)
      /\ DOMAIN acc.identities = {i} /\ acc.identities[i] = new
  BY <1>1, <1>2 DEF IsAccount
<1>4. Logins(acc) # {}
  BY <1>2, <1>3 DEF Logins, LoginCapable
<1>5. ValidateAccounts(next, roles) /\ Commit(next, {})
  BY DEF createAccount, Change, new
<1> HIDE DEF acc
<1>6. DOMAIN next = DOMAIN users \cup {a} /\ next[a] = acc
      /\ \A x \in DOMAIN users \ {a} : next[x] = users[x]
  BY DEF With
<1> HIDE DEF next
<1>7. \A j \in DOMAIN next[a].identities : next[a].identities[j].codes = {}
  BY <1>2, <1>3, <1>6
<1>8. Sound(next) /\ DOMAIN next # {} /\ CodesIn(next) \subseteq CodesIn(users) \cup {}
  <2>1. Sound(users) /\ Edit(users, next, a, i, {})
    BY <1>1, <1>3, <1>4, <1>6, <1>7 DEF Edit, Ready, DocumentsSound
  <2>2. QED
    BY <2>1, EditSound
<1>9. Proper(next, {})
  BY <1>5, <1>8 DEF Proper
<1>10. QED
  BY <1>5, <1>9

LEMMA AccountFacts ==
  ASSUME Ready, NEW a \in DOMAIN users
  PROVE  /\ Sound(users) /\ a \in AccountIds /\ IsAccount(users[a]) /\ Logins(users[a]) # {}
         /\ DOMAIN users[a] = {"enabled", "roles", "identities"}
BY DEF Ready, DocumentsSound, Sound, IsUsers

LEMMA UpdateAccountProper ==
  ASSUME Ready, NEW a \in DOMAIN users, NEW enabled \in BOOLEAN, NEW assigned \in SUBSET RoleIds,
         UpdateAccount(a, enabled, assigned)
  PROVE  \E next : Proper(next, {}) /\ Commit(next, {})
<1> DEFINE next == [users EXCEPT ![a].enabled = enabled, ![a].roles = assigned]
<1>1. /\ Sound(users) /\ a \in AccountIds /\ IsAccount(users[a]) /\ Logins(users[a]) # {}
      /\ DOMAIN users[a] = {"enabled", "roles", "identities"}
  BY AccountFacts
<1>2. ValidateAccounts(next, roles) /\ Commit(next, {})
  BY DEF UpdateAccount, Change
<1>3. /\ DOMAIN next = DOMAIN users \cup {a} /\ \A x \in DOMAIN users \ {a} : next[x] = users[x]
      /\ DOMAIN next[a] = {"enabled", "roles", "identities"}
      /\ (next[a].enabled <=> enabled) /\ next[a].enabled \in BOOLEAN
      /\ next[a].roles = assigned /\ next[a].identities = users[a].identities
  BY <1>1
<1> HIDE DEF next
<1>4. IsAccount(next[a]) /\ Logins(next[a]) # {}
  BY <1>1, <1>3 DEF IsAccount, Logins
<1>5. \A j \in DOMAIN next[a].identities, c \in Codes :
        c \in next[a].identities[j].codes => Has(users, a, j, c)
  BY <1>3 DEF Has
<1>6. Sound(next) /\ DOMAIN next # {} /\ CodesIn(next) \subseteq CodesIn(users) \cup {}
  <2>1. Edit(users, next, a, "", {})
    BY <1>1, <1>3, <1>4, <1>5 DEF Edit
  <2>2. QED
    BY <1>1, <2>1, EditSound
<1>7. Proper(next, {})
  BY <1>2, <1>6 DEF Proper
<1>8. QED
  BY <1>2, <1>7

(* The identities of an account become f, of which k may get the codes F.  *)
Identities(next, a, f, k, F) ==
  /\ DOMAIN next = DOMAIN users /\ \A x \in DOMAIN users \ {a} : next[x] = users[x]
  /\ next[a] = [users[a] EXCEPT !.identities = f]
  /\ DOMAIN f \subseteq IdentityIds /\ f \in [DOMAIN f -> Identity]
  /\ \E j \in DOMAIN f : LoginCapable(f[j])
  /\ F \subseteq FreshCodes
  /\ \A j \in DOMAIN f, c \in Codes : c \in f[j].codes => Has(users, a, j, c) \/ (j = k /\ c \in F)

LEMMA IdentitiesEdit ==
  ASSUME Ready, NEW a \in DOMAIN users, NEW f, NEW next, NEW k, NEW F,
         Identities(next, a, f, k, F)
  PROVE  /\ Sound(next) /\ DOMAIN next # {} /\ CodesIn(next) \subseteq CodesIn(users) \cup F
         /\ CodesIn(next) \cap codesUsed \subseteq CodesIn(users)
<1>1. /\ Sound(users) /\ a \in AccountIds /\ IsAccount(users[a])
      /\ DOMAIN users[a] = {"enabled", "roles", "identities"}
  BY AccountFacts
<1>2. /\ DOMAIN next[a] = {"enabled", "roles", "identities"}
      /\ (next[a].enabled <=> users[a].enabled) /\ next[a].enabled \in BOOLEAN
      /\ next[a].roles = users[a].roles /\ next[a].identities = f
  BY <1>1 DEF IsAccount, Identities
<1>3. IsAccount(next[a]) /\ Logins(next[a]) # {}
  BY <1>1, <1>2 DEF IsAccount, Logins, Identities
<1>4. F \in SUBSET Codes /\ \A c \in F : c \notin CodesIn(users) /\ c \notin codesUsed
  BY FreshFacts DEF Identities
<1>5. DOMAIN next = DOMAIN users \cup {a} /\ \A x \in DOMAIN users \ {a} : next[x] = users[x]
  BY DEF Identities
<1>6. \A j \in DOMAIN next[a].identities, c \in Codes :
        c \in next[a].identities[j].codes => Has(users, a, j, c) \/ (j = k /\ c \in F)
  BY <1>2 DEF Identities
<1>7. Sound(next) /\ DOMAIN next # {} /\ CodesIn(next) \subseteq CodesIn(users) \cup F
  <2>1. Edit(users, next, a, k, F)
    BY <1>1, <1>2, <1>3, <1>4, <1>5, <1>6 DEF Edit
  <2>2. QED
    BY <1>1, <2>1, EditSound
<1>8. QED
  BY <1>4, <1>7

LEMMA UpdateEdit ==
  ASSUME Ready, NEW a \in DOMAIN users, NEW i \in DOMAIN users[a].identities,
         NEW identity \in Identity, identity.type = users[a].identities[i].type,
         NEW F \in SUBSET FreshCodes, identity.codes \subseteq users[a].identities[i].codes \cup F
  PROVE  /\ Sound(Update(a, i, identity)) /\ DOMAIN Update(a, i, identity) # {}
         /\ CodesIn(Update(a, i, identity)) \cap codesUsed \subseteq CodesIn(users)
<1> DEFINE next == Update(a, i, identity)
           old == users[a].identities
           f == [old EXCEPT ![i] = identity]
<1>1. /\ IsAccount(users[a]) /\ Logins(users[a]) # {}
      /\ DOMAIN users[a] = {"enabled", "roles", "identities"}
  BY AccountFacts
<1>2. DOMAIN old \subseteq IdentityIds /\ old \in [DOMAIN old -> Identity]
  BY <1>1 DEF IsAccount
<1>3. /\ DOMAIN next = DOMAIN users /\ \A x \in DOMAIN users \ {a} : next[x] = users[x]
      /\ next[a] = [users[a] EXCEPT !.identities = f]
  BY <1>1 DEF Update
<1>4. PICK j \in DOMAIN old : LoginCapable(old[j])
  BY <1>1 DEF Logins
<1>5. DOMAIN f = DOMAIN old /\ f \in [DOMAIN f -> Identity] /\ f[i] = identity
      /\ \A x \in DOMAIN old \ {i} : f[x] = old[x]
  BY <1>2
<1>6. LoginCapable(f[j])
  BY <1>4, <1>5 DEF LoginCapable
<1>7. \A x \in DOMAIN f, c \in Codes : c \in f[x].codes => Has(users, a, x, c) \/ (x = i /\ c \in F)
  BY <1>5 DEF Has
<1> HIDE DEF f, next
<1>8. Identities(next, a, f, i, F)
  BY <1>2, <1>3, <1>4, <1>5, <1>6, <1>7 DEF Identities
<1>9. QED
  BY <1>8, IdentitiesEdit DEF next

(* SetPassword, SetIdentityTOTP and SetIdentityEnabled.                    *)
LEMMA UpdateProper ==
  ASSUME Ready, NEW a \in DOMAIN users, NEW i \in DOMAIN users[a].identities,
         NEW identity \in Identity, identity.type = users[a].identities[i].type,
         NEW F \in SUBSET FreshCodes, identity.codes \subseteq users[a].identities[i].codes \cup F,
         Change(Update(a, i, identity))
  PROVE  \E next : Proper(next, {}) /\ Commit(next, {})
<1>1. ValidateAccounts(Update(a, i, identity), roles) /\ Commit(Update(a, i, identity), {})
  BY DEF Change
<1>2. Proper(Update(a, i, identity), {})
  BY <1>1, UpdateEdit DEF Proper
<1>3. QED
  BY <1>1, <1>2

LEMMA OldIdentity ==
  ASSUME Ready, NEW a \in DOMAIN users, NEW i \in DOMAIN users[a].identities
  PROVE  users[a].identities[i] \in Identity
BY AccountFacts DEF IsAccount

LEMMA SetPasswordProper ==
  ASSUME Ready, NEW a \in DOMAIN users, NEW i \in DOMAIN users[a].identities, SetPassword(a, i)
  PROVE  \E next : Proper(next, {}) /\ Commit(next, {})
<1> DEFINE old == users[a].identities[i]
           identity == [old EXCEPT !.hash = HashPassword]
<1>1. old \in Identity /\ changes + 1 \in 0 .. MaxChanges
  BY OldIdentity, AccountsAssumption DEF Ready, Scalars
<1>2. identity \in Identity /\ identity.type = old.type /\ identity.codes = old.codes
  <2> HIDE DEF old
  <2>1. QED
    BY <1>1 DEF Identity, HashPassword
<1>3. Change(Update(a, i, identity))
  BY DEF SetPassword
<1> HIDE DEF identity
<1>4. identity.codes \subseteq old.codes \cup {} /\ {} \in SUBSET FreshCodes
  BY <1>2
<1>5. QED
  BY <1>2, <1>3, <1>4, UpdateProper

LEMMA SetTOTPProper ==
  ASSUME Ready, NEW a \in DOMAIN users, NEW i \in DOMAIN users[a].identities,
         NEW codes \in SUBSET FreshCodes, SetIdentityTOTP(a, i, codes)
  PROVE  \E next : Proper(next, {}) /\ Commit(next, {})
<1> DEFINE old == users[a].identities[i]
           identity == [old EXCEPT !.codes = codes]
<1>1. old \in Identity /\ codes \in SUBSET Codes
  BY OldIdentity, FreshFacts
<1>2. identity \in Identity /\ identity.type = old.type /\ identity.codes = codes
  <2> HIDE DEF old
  <2>1. QED
    BY <1>1 DEF Identity
<1>3. Change(Update(a, i, identity))
  BY DEF SetIdentityTOTP
<1> HIDE DEF identity
<1>4. identity.codes \subseteq old.codes \cup codes
  BY <1>2
<1>5. QED
  BY <1>2, <1>3, <1>4, UpdateProper

LEMMA SetEnabledProper ==
  ASSUME Ready, NEW a \in DOMAIN users, NEW i \in DOMAIN users[a].identities,
         NEW enabled \in BOOLEAN, SetIdentityEnabled(a, i, enabled)
  PROVE  \E next : Proper(next, {}) /\ Commit(next, {})
<1> DEFINE old == users[a].identities[i]
           identity == [old EXCEPT !.enabled = enabled]
<1>1. old \in Identity
  BY OldIdentity
<1>2. identity \in Identity /\ identity.type = old.type /\ identity.codes = old.codes
  <2> HIDE DEF old
  <2>1. QED
    BY <1>1 DEF Identity
<1>3. Change(Update(a, i, identity))
  BY DEF SetIdentityEnabled
<1> HIDE DEF identity
<1>4. identity.codes \subseteq old.codes \cup {} /\ {} \in SUBSET FreshCodes
  BY <1>2
<1>5. QED
  BY <1>2, <1>3, <1>4, UpdateProper

LEMMA AddProper ==
  ASSUME Ready, NEW a \in DOMAIN users, NEW i \in FreshIdentity,
         NEW new \in Identity, new.codes \subseteq FreshCodes, AddIdentity(a, i, new)
  PROVE  \E next : Proper(next, {}) /\ Commit(next, {})
<1> DEFINE old == users[a].identities
           f == With(old, i, new)
           next == [users EXCEPT ![a].identities = f]
<1>1. /\ IsAccount(users[a]) /\ Logins(users[a]) # {}
      /\ DOMAIN users[a] = {"enabled", "roles", "identities"}
  BY AccountFacts
<1>2. DOMAIN old \subseteq IdentityIds /\ old \in [DOMAIN old -> Identity] /\ i \in IdentityIds
  BY <1>1, FreshFacts DEF IsAccount
<1>4. ValidateAccounts(next, roles) /\ Commit(next, {})
  BY DEF AddIdentity, Change
<1>5. i \notin DOMAIN old
  <2>1. ASSUME i \in DOMAIN old PROVE FALSE
    <3>1. IsUsers(users)
      BY DEF Ready, DocumentsSound, Sound
    <3>2. <<a, i>> \in IdentitiesOf(users)
      BY <2>1, <3>1, IdentityFacts
    <3>3. i \in {p[2] : p \in IdentitiesOf(users)}
      BY <3>2
    <3>4. i \notin UNION {{p[2] : p \in IdentitiesOf(u)} : u \in Documents}
      BY DEF FreshIdentity, OneOf
    <3>5. users \in Documents
      BY DEF Documents
    <3>6. QED
      BY <3>3, <3>4, <3>5
  <2>2. QED
    BY <2>1
<1>6. /\ DOMAIN next = DOMAIN users /\ \A x \in DOMAIN users \ {a} : next[x] = users[x]
      /\ next[a] = [users[a] EXCEPT !.identities = f]
  OBVIOUS
<1> HIDE DEF next
<1>7. DOMAIN f = DOMAIN old \cup {i} /\ f \in [DOMAIN f -> Identity] /\ f[i] = new
      /\ \A x \in DOMAIN old : f[x] = old[x]
  BY <1>2, <1>5 DEF With
<1> HIDE DEF f
<1>8. \E j \in DOMAIN f : LoginCapable(f[j])
  BY <1>1, <1>7 DEF Logins
<1>9. \A x \in DOMAIN f, c \in Codes :
        c \in f[x].codes => Has(users, a, x, c) \/ (x = i /\ c \in FreshCodes)
  BY <1>7 DEF Has
<1>10. Identities(next, a, f, i, FreshCodes)
  BY <1>2, <1>6, <1>7, <1>8, <1>9 DEF Identities
<1>11. Proper(next, {})
  BY <1>4, <1>10, IdentitiesEdit DEF Proper
<1>12. QED
  BY <1>4, <1>11

LEMMA RemoveProper ==
  ASSUME Ready, NEW a \in DOMAIN users, NEW i \in DOMAIN users[a].identities, RemoveIdentity(a, i)
  PROVE  \E next : Proper(next, {}) /\ Commit(next, {})
<1> DEFINE old == users[a].identities
           f == Without(old, i)
           next == [users EXCEPT ![a].identities = f]
<1>1. /\ IsAccount(users[a]) /\ Logins(users[a]) # {} /\ Logins(users[a]) # {i}
      /\ DOMAIN users[a] = {"enabled", "roles", "identities"}
  BY AccountFacts DEF RemoveIdentity
<1>2. DOMAIN old \subseteq IdentityIds /\ old \in [DOMAIN old -> Identity]
  BY <1>1 DEF IsAccount
<1>3. ValidateAccounts(next, roles) /\ Commit(next, {})
  BY DEF RemoveIdentity, Change
<1>4. /\ DOMAIN next = DOMAIN users /\ \A x \in DOMAIN users \ {a} : next[x] = users[x]
      /\ next[a] = [users[a] EXCEPT !.identities = f]
  OBVIOUS
<1> HIDE DEF next
<1>5. DOMAIN f = DOMAIN old \ {i} /\ f \in [DOMAIN f -> Identity]
      /\ \A x \in DOMAIN f : f[x] = old[x]
  BY <1>2 DEF Without
<1> HIDE DEF f
<1>6. \E j \in DOMAIN f : LoginCapable(f[j])
  <2>1. PICK j \in Logins(users[a]) : j # i
    BY <1>1
  <2>2. QED
    BY <1>5, <2>1 DEF Logins
<1>7. \A x \in DOMAIN f, c \in Codes : c \in f[x].codes => Has(users, a, x, c)
  BY <1>5 DEF Has
<1>8. Identities(next, a, f, i, {})
  BY <1>2, <1>4, <1>5, <1>6, <1>7 DEF Identities
<1>9. Proper(next, {})
  BY <1>3, <1>8, IdentitiesEdit DEF Proper
<1>10. QED
  BY <1>3, <1>9

LEMMA DeleteProper ==
  ASSUME Ready, NEW a \in DOMAIN users, DeleteAccount(a)
  PROVE  \E next : Proper(next, {}) /\ Commit(next, {})
<1> DEFINE next == Without(users, a)
<1>1. ValidateAccounts(next, roles) /\ Commit(next, {}) /\ DOMAIN users # {a}
  BY DEF DeleteAccount, Change
<1>2. Sound(next) /\ CodesIn(next) \subseteq CodesIn(users)
  BY DeleteSound DEF Ready, DocumentsSound
<1>3. DOMAIN next # {}
  BY <1>1 DEF Without
<1>4. Proper(next, {})
  BY <1>1, <1>2, <1>3 DEF Proper
<1>5. QED
  BY <1>1, <1>4

(* The validation looks at no password, no second factor and no code.      *)
Alike(identity, other) ==
  /\ identity.type = other.type /\ identity.name = other.name /\ identity.mail = other.mail
  /\ (identity.enabled <=> other.enabled)

LEMMA AlikeValid ==
  ASSUME NEW u, NEW n, NEW r, ValidateAccounts(u, r), DOMAIN n = DOMAIN u,
         \A a \in DOMAIN u :
           /\ n[a].roles = u[a].roles /\ (n[a].enabled <=> u[a].enabled)
           /\ DOMAIN n[a].identities = DOMAIN u[a].identities
           /\ \A i \in DOMAIN u[a].identities : Alike(n[a].identities[i], u[a].identities[i])
  PROVE  ValidateAccounts(n, r)
<1>1. IdentitiesOf(n) = IdentitiesOf(u) /\ \A p \in IdentitiesOf(u) : Alike(At(n, p), At(u, p))
  BY DEF IdentitiesOf, At
<1>2. ValidIdentities(n)
  BY <1>1 DEF ValidateAccounts, ValidIdentities, Alike, LoginCapable
<1>3. \A a \in DOMAIN u : PasswordBackedAdmin(u[a]) => PasswordBackedAdmin(n[a])
  BY DEF PasswordBackedAdmin, Alike
<1>4. QED
  BY <1>2, <1>3 DEF ValidateAccounts

LEMMA ConsumeProper ==
  ASSUME Ready, ValidateAccounts(users, roles), NEW a \in DOMAIN users,
         NEW i \in DOMAIN users[a].identities, NEW code \in Codes, ConsumeRecoveryCode(a, i, code)
  PROVE  \E next : Proper(next, {code}) /\ Commit(next, {code})
<1> DEFINE old == users[a].identities[i]
           identity == [old EXCEPT !.codes = @ \ {code}]
           next == Update(a, i, identity)
<1>1. /\ Sound(users) /\ a \in AccountIds /\ IsAccount(users[a])
      /\ DOMAIN users[a] = {"enabled", "roles", "identities"}
      /\ old \in Identity
  BY AccountFacts, OldIdentity
<1>2. code \in old.codes /\ Commit(next, {code})
  BY DEF ConsumeRecoveryCode
<1>3. identity \in Identity /\ Alike(identity, old) /\ identity.codes = old.codes \ {code}
  <2> HIDE DEF old
  <2>1. QED
    BY <1>1 DEF Identity, Alike
<1> HIDE DEF identity
<1>4. /\ Sound(next) /\ DOMAIN next # {}
      /\ CodesIn(next) \cap codesUsed \subseteq CodesIn(users)
  <2>1. identity.codes \subseteq old.codes \cup {} /\ {} \in SUBSET FreshCodes
    BY <1>3
  <2>2. identity.type = old.type
    BY <1>3 DEF Alike
  <2>3. QED
    BY <1>3, <2>1, <2>2, UpdateEdit
<1>5. /\ DOMAIN next = DOMAIN users /\ \A x \in DOMAIN users \ {a} : next[x] = users[x]
      /\ next[a].roles = users[a].roles /\ (next[a].enabled <=> users[a].enabled)
      /\ DOMAIN next[a].identities = DOMAIN users[a].identities
      /\ next[a].identities[i] = identity
      /\ \A j \in DOMAIN users[a].identities \ {i} :
           next[a].identities[j] = users[a].identities[j]
  BY <1>1 DEF Update, IsAccount
<1> HIDE DEF next
<1>6. ValidateAccounts(next, roles)
  <2>1. \A x, j : Alike(users[x].identities[j], users[x].identities[j])
    BY DEF Alike
  <2>2. \A x \in DOMAIN users :
           /\ next[x].roles = users[x].roles /\ (next[x].enabled <=> users[x].enabled)
           /\ DOMAIN next[x].identities = DOMAIN users[x].identities
           /\ \A j \in DOMAIN users[x].identities :
                Alike(next[x].identities[j], users[x].identities[j])
    BY <1>3, <1>5, <2>1
  <2>3. QED
    BY <1>5, <2>2, AlikeValid
<1>7. code \notin CodesIn(next)
  <2>1. SUFFICES ASSUME code \in CodesIn(next) PROVE FALSE
    OBVIOUS
  <2>2. IsUsers(next) /\ IsUsers(users)
    BY <1>1, <1>4 DEF Sound
  <2>3. PICK b \in AccountIds, j \in IdentityIds : Has(next, b, j, code)
    BY <2>1, <2>2, CodesLemma
  <2>4. ~(b = a /\ j = i)
    BY <1>3, <1>5, <2>3 DEF Has
  <2>5. Has(users, b, j, code) /\ Has(users, a, i, code)
    BY <1>2, <1>5, <2>3, <2>4 DEF Has
  <2>6. i \in IdentityIds
    BY <2>2, <2>5, CodesTyped
  <2>7. QED
    BY <1>1, <2>4, <2>5, <2>6 DEF Sound
<1>8. Proper(next, {code})
  BY <1>4, <1>6, <1>7 DEF Proper
<1>9. QED
  BY <1>2, <1>8

(* Every change of the accounts saves and installs a proper document.      *)
LEMMA ChangeProper ==
  ASSUME Inv, up, changes < MaxChanges, Changes
  PROVE  \/ \E next, code : Proper(next, code) /\ Commit(next, code)
         \/ \E id \in RoleIds, capabilities \in SUBSET Capability : SetRole(id, capabilities)
<1>1. Ready /\ ValidateAccounts(users, roles)
  BY DEF Ready, Inv, InUseValid
<1>2. ASSUME NEW a \in DOMAIN users, AccountStep(a)
      PROVE  \E next, code : Proper(next, code) /\ Commit(next, code)
  BY <1>1, <1>2, UpdateAccountProper, DeleteProper DEF AccountStep
<1>3. ASSUME NEW a \in DOMAIN users, NEW i \in DOMAIN users[a].identities, IdentityStep(a, i)
      PROVE  \E next, code : Proper(next, code) /\ Commit(next, code)
  BY <1>1, <1>3, SetPasswordProper, RemoveProper, SetEnabledProper, SetTOTPProper, ConsumeProper
     DEF IdentityStep
<1>4. ASSUME NEW key \in LoginKeys, CreateStep(key)
      PROVE  \E next, code : Proper(next, code) /\ Commit(next, code)
  <2>1. {"administrator"} \in SUBSET RoleIds
    BY DEF RoleIds
  <2>2. PICK a \in FreshAccount, i \in FreshIdentity, assigned \in SUBSET RoleIds :
          createAccount(a, i, key, assigned)
    BY <1>4, <2>1 DEF CreateStep, CreateInitialAdministrator, CreateAccount
  <2>3. QED
    BY <1>1, <2>2, CreateProper
<1>5. ASSUME NEW key \in LoginKeys, NEW a \in DOMAIN users, AddStep(a, key)
      PROVE  \E next, code : Proper(next, code) /\ Commit(next, code)
  <2>1. CASE \E i \in FreshIdentity : AddPasswordIdentity(a, i, key)
    <3>1. PICK i \in FreshIdentity : AddIdentity(a, i, NewIdentity("password", key))
      BY <2>1 DEF AddPasswordIdentity
    <3>2. /\ NewIdentity("password", key) \in Identity
          /\ NewIdentity("password", key).codes \subseteq FreshCodes
      BY <1>1, NewIdentityFacts
    <3>3. QED
      BY <1>1, <3>1, <3>2, AddProper
  <2>2. CASE \E i \in FreshIdentity : \E x \in GivenIdentity(key) : AddIdentity(a, i, x)
    <3>1. PICK i \in FreshIdentity, x \in GivenIdentity(key) : AddIdentity(a, i, x)
      BY <2>2
    <3>2. changes + 1 \in 0 .. MaxChanges /\ FreshCodes \subseteq Codes
      BY <1>1, FreshFacts, AccountsAssumption DEF Ready, Scalars
    <3>3. x \in Identity /\ x.codes \subseteq FreshCodes
      BY <3>2 DEF GivenIdentity, Identity, LoginKeys, HashPassword
    <3>4. QED
      BY <1>1, <3>1, <3>3, AddProper
  <2>3. QED
    BY <1>5, <2>1, <2>2 DEF AddStep
<1>6. QED
  BY <1>2, <1>3, <1>4, <1>5 DEF Changes

----------------------------------------------------------------------------
(* The invariant.                                                          *)

LEMMA CommitInv ==
  ASSUME Inv, up, changes < MaxChanges, NEW next, NEW code, Proper(next, code), Commit(next, code)
  PROVE  Inv'
<1>1. /\ changes' = changes + 1 /\ roles' = roles /\ diskRoles' = diskRoles /\ reload' = reload
      /\ up' = up /\ setup' = setup
  BY DEF Commit
<1>2. changes' \in 0 .. MaxChanges
  BY <1>1, AccountsAssumption DEF Inv, Scalars
<1>3. CASE /\ users' = next /\ diskUsers' = next /\ codesUsed' = codesUsed \cup code
           /\ installed' = (installed \/ DOMAIN next # {}) /\ stale' = (stale \/ memory # disk)
           /\ saveErrors' = saveErrors
  <2>1. Sound(next) /\ DOMAIN next # {} /\ ValidateAccounts(next, roles)
    BY DEF Proper
  <2>2. DocumentsSound' /\ InUseValid' /\ InstalledSaved'
    <3>1. \E a \in DOMAIN next : PasswordBackedAdmin(next[a])
      BY <2>1 DEF ValidateAccounts
    <3>2. QED
      BY <1>1, <1>3, <2>1, <3>1 DEF Inv, DocumentsSound, InUseValid, InstalledSaved
  <2>3. Scalars'
    BY <1>1, <1>2, <1>3 DEF Inv, Scalars, Proper
  <2>4. ASSUME ~stale' PROVE memory' = disk' /\ memory = disk /\ ~stale
    <3>1. ~stale /\ memory = disk
      BY <1>3, <2>4
    <3>2. QED
      BY <1>1, <1>3, <3>1 DEF memory, disk
  <2>5. SavedIsCurrent'
    <3>1. ASSUME ~stale' PROVE up' /\ ValidateAccounts(diskUsers', diskRoles')
      <4>1. diskRoles = roles
        BY <2>4, <3>1 DEF memory, disk
      <4>2. QED
        BY <1>1, <1>3, <2>1, <4>1
    <3>2. QED
      BY <2>4, <3>1 DEF SavedIsCurrent
  <2>6. RecoveryCodeOnce'
    <3>1. ASSUME ~stale', NEW c \in codesUsed' PROVE c \notin CodesIn(next)
      BY <1>3, <2>4, <3>1 DEF Inv, RecoveryCodeOnce, Proper
    <3>2. QED
      BY <1>3, <3>1 DEF RecoveryCodeOnce
  <2>7. QED
    BY <2>2, <2>3, <2>5, <2>6 DEF Inv
<1>4. CASE /\ saveErrors < MaxSaveErrors /\ saveErrors' = saveErrors + 1
           /\ UNCHANGED <<users, diskUsers, codesUsed, installed, stale>>
  <2>1. Scalars'
    BY <1>1, <1>2, <1>4, AccountsAssumption DEF Inv, Scalars
  <2>2. (DocumentsSound /\ InUseValid /\ InstalledSaved)'
    BY <1>1, <1>4 DEF Inv, DocumentsSound, InUseValid, InstalledSaved
  <2>3. SavedIsCurrent'
    BY <1>1, <1>4 DEF Inv, SavedIsCurrent, memory, disk
  <2>4. RecoveryCodeOnce'
    BY <1>1, <1>4 DEF Inv, RecoveryCodeOnce
  <2>5. QED
    BY <2>1, <2>2, <2>3, <2>4 DEF Inv
<1>5. QED
  BY <1>3, <1>4 DEF Commit

LEMMA SetRoleInv ==
  ASSUME Inv, up, changes < MaxChanges, NEW id \in RoleIds, NEW capabilities \in SUBSET Capability,
         SetRole(id, capabilities)
  PROVE  Inv'
<1> DEFINE next == With(roles, id, capabilities)
<1>1. /\ changes' = changes + 1 /\ ValidateAccounts(users, next)
      /\ users' = users /\ diskUsers' = diskUsers /\ reload' = reload /\ up' = up
      /\ setup' = setup /\ codesUsed' = codesUsed /\ installed' = installed
  BY DEF SetRole
<1>2. changes' \in 0 .. MaxChanges
  BY <1>1, AccountsAssumption DEF Inv, Scalars
<1>3. IsRoles(next)
  BY DEF Inv, Scalars, IsRoles, With
<1>4. DocumentsSound' /\ ValidRoles(next)
  BY <1>1 DEF Inv, DocumentsSound, ValidateAccounts
<1>5. CASE roles' = next /\ diskRoles' = next /\ stale' = (stale \/ memory # disk)
           /\ saveErrors' = saveErrors
  <2>1. Scalars' /\ InUseValid'
    BY <1>1, <1>2, <1>3, <1>5 DEF Inv, Scalars, InUseValid
  <2>2. ASSUME ~stale' PROVE diskUsers = users /\ ~stale
    BY <1>5, <2>2 DEF memory, disk
  <2>3. SavedIsCurrent'
    <3>1. ASSUME ~stale' PROVE up' /\ ValidateAccounts(diskUsers', diskRoles')
      BY <1>1, <1>5, <2>2, <3>1
    <3>2. ASSUME ~stale' PROVE memory' = disk'
      BY <1>1, <1>5, <2>2, <3>2 DEF memory, disk
    <3>3. QED
      BY <3>1, <3>2 DEF SavedIsCurrent
  <2>4. RecoveryCodeOnce'
    <3>1. ~stale' => ~stale
      BY <2>2
    <3>2. QED
      BY <1>1, <3>1 DEF Inv, RecoveryCodeOnce
  <2>5. InstalledSaved'
    BY <1>1, <1>4, <1>5 DEF Inv, InstalledSaved
  <2>6. QED
    BY <1>4, <2>1, <2>3, <2>4, <2>5 DEF Inv
<1>6. CASE /\ saveErrors < MaxSaveErrors /\ saveErrors' = saveErrors + 1
           /\ UNCHANGED <<roles, diskRoles, stale>>
  <2>1. Scalars'
    BY <1>1, <1>2, <1>6, AccountsAssumption DEF Inv, Scalars
  <2>2. InUseValid' /\ RecoveryCodeOnce'
    BY <1>1, <1>6 DEF Inv, InUseValid, RecoveryCodeOnce
  <2>3. SavedIsCurrent'
    BY <1>1, <1>6 DEF Inv, SavedIsCurrent, memory, disk
  <2>4. InstalledSaved'
    BY <1>1, <1>6 DEF Inv, InstalledSaved
  <2>5. QED
    BY <1>4, <2>1, <2>2, <2>3, <2>4 DEF Inv
<1>7. QED
  BY <1>5, <1>6 DEF SetRole

LEMMA SetupInv ==
  ASSUME Inv, NEW a \in FreshAccount, NEW i \in FreshIdentity, NEW key \in LoginKeys,
         ProductSetup(a, i, key)
  PROVE  Inv'
<1> DEFINE new == [NewIdentity("password", key) EXCEPT !.hash = 0]
           acc == [enabled |-> TRUE, roles |-> {"administrator"}, identities |-> [y \in {i} |-> new]]
<1>1. /\ up /\ diskUsers = << >> /\ diskUsers' = [x \in {a} |-> acc]
      /\ setup' = TRUE /\ installed' = TRUE
      /\ UNCHANGED <<memory, diskRoles, reload, up, bounds, codesUsed, stale>>
  BY DEF ProductSetup
<1>2. a \in AccountIds /\ i \in IdentityIds
  BY FreshFacts
<1>3. /\ new \in Identity /\ new.type = "password" /\ new.codes = {} /\ new.enabled
  <2>1. key.name \in Names /\ key.mail \in SUBSET Mails /\ 0 \in 0 .. MaxChanges
    BY AccountsAssumption DEF LoginKeys
  <2>2. QED
    BY <2>1 DEF NewIdentity, Identity
<1> HIDE DEF new
<1>4. /\ DOMAIN acc = {"enabled", "roles", "identities"} /\ IsAccount(acc) /\ acc.enabled
      /\ acc.roles = {"administrator"} /\ DOMAIN acc.identities = {i} /\ acc.identities[i] = new
  BY <1>2, <1>3 DEF IsAccount, RoleIds
<1> HIDE DEF acc
<1>5. DOMAIN diskUsers' = {a} /\ diskUsers'[a] = acc
  BY <1>1
<1>6. Sound(diskUsers')
  <2>1. Edit(<< >>, diskUsers', a, i, {})
    <3>1. Logins(acc) # {}
      BY <1>3, <1>4 DEF Logins, LoginCapable
    <3>2. DOMAIN << >> = {}
      OBVIOUS
    <3>3. QED
      BY <1>2, <1>3, <1>4, <1>5, <3>1, <3>2 DEF Edit
  <2>2. QED
    BY <2>1, EmptySound, EditSound
<1>7. ASSUME ~stale PROVE ValidateAccounts(diskUsers', diskRoles)
  <2>1. ValidRoles(diskRoles)
    BY <1>7 DEF Inv, SavedIsCurrent, ValidateAccounts
  <2>2. IdentitiesOf(diskUsers') \subseteq {<<a, i>>} /\ At(diskUsers', <<a, i>>) = new
    BY <1>4, <1>5 DEF IdentitiesOf, At
  <2>3. ValidIdentities(diskUsers')
    BY <1>3, <2>2 DEF ValidIdentities
  <2>4. PasswordBackedAdmin(acc)
    BY <1>3, <1>4 DEF PasswordBackedAdmin
  <2>5. QED
    BY <1>4, <1>5, <2>1, <2>3, <2>4 DEF ValidateAccounts, ValidRoles
<1>8. DocumentsSound'
  BY <1>1, <1>6 DEF Inv, DocumentsSound, memory
<1>9. Scalars'
  BY <1>1 DEF Inv, Scalars, memory, bounds
<1>10. InUseValid' /\ InstalledSaved'
  <2>1. PasswordBackedAdmin(acc)
    BY <1>3, <1>4 DEF PasswordBackedAdmin
  <2>2. QED
    BY <1>1, <1>5, <2>1 DEF Inv, InUseValid, InstalledSaved, memory
<1>11. SavedIsCurrent'
  BY <1>1, <1>7 DEF SavedIsCurrent
<1>12. RecoveryCodeOnce'
  <2>1. CodesIn(diskUsers') = {}
    <3>1. IdentitiesOf(diskUsers') \subseteq {<<a, i>>} /\ At(diskUsers', <<a, i>>) = new
      BY <1>4, <1>5 DEF IdentitiesOf, At
    <3>2. QED
      BY <1>3, <3>1 DEF CodesIn
  <2>2. QED
    BY <1>1, <2>1 DEF Inv, RecoveryCodeOnce, memory
<1>13. QED
  BY <1>8, <1>9, <1>10, <1>11, <1>12 DEF Inv

LEMMA IdleFacts ==
  /\ Sound(NoReload.users) /\ IsRoles(NoReload.roles)
  /\ DOMAIN NoReload = {"pc", "users", "roles"} /\ NoReload.pc = "idle"
<1>1. DOMAIN << >> = {} /\ << >> \in [{} -> SUBSET Capability]
  OBVIOUS
<1>2. QED
  BY <1>1, EmptySound DEF NoReload, IsRoles

LEMMA ReloadInv ==
  ASSUME Inv, LoadAccounts \/ LoadRoles \/ Reload \/ ReloadFails \/ NewModel
  PROVE  Inv'
<1>1. CASE LoadAccounts \/ LoadRoles \/ ReloadFails
  <2>1. /\ Sound(reload'.users) /\ IsRoles(reload'.roles)
        /\ DOMAIN reload' = {"pc", "users", "roles"} /\ reload'.pc \in {"idle", "roles", "install"}
    <3>1. CASE LoadAccounts
      <4>1. reload' = [pc |-> "roles", users |-> diskUsers, roles |-> << >>]
        BY <3>1 DEF LoadAccounts
      <4>2. IsRoles(<< >>)
        BY IdleFacts DEF NoReload
      <4>3. QED
        BY <4>1, <4>2 DEF Inv, DocumentsSound
    <3>2. CASE LoadRoles
      BY <3>2 DEF LoadRoles, Inv, DocumentsSound, Scalars
    <3>3. CASE ReloadFails
      BY <3>3, IdleFacts DEF ReloadFails
    <3>4. QED
      BY <1>1, <3>1, <3>2, <3>3
  <2>2. UNCHANGED <<memory, disk, up, setup, bounds, codesUsed, installed, stale>>
    BY <1>1 DEF LoadAccounts, LoadRoles, ReloadFails
  <2>3. DocumentsSound' /\ Scalars'
    BY <2>1, <2>2 DEF Inv, DocumentsSound, Scalars, memory, disk, bounds
  <2>4. (InUseValid /\ InstalledSaved)'
    BY <2>2 DEF Inv, InUseValid, InstalledSaved, memory, disk
  <2>5. (SavedIsCurrent /\ RecoveryCodeOnce)'
    BY <2>2 DEF Inv, SavedIsCurrent, RecoveryCodeOnce, memory, disk
  <2>6. QED
    BY <2>3, <2>4, <2>5 DEF Inv
<1>2. CASE Reload
  <2>1. reload' = NoReload /\ UNCHANGED <<disk, up, bounds, codesUsed, installed>>
    BY <1>2 DEF Reload
  <2>2. CASE /\ ValidateAccounts(reload.users, reload.roles)
             /\ users' = reload.users /\ roles' = reload.roles
             /\ stale' = (stale \/ <<reload.users, reload.roles>> # disk) /\ setup' = FALSE
    <3>1. DocumentsSound'
      BY <2>1, <2>2, IdleFacts DEF Inv, DocumentsSound, disk
    <3>2. Scalars'
      BY <2>1, <2>2, IdleFacts DEF Inv, Scalars, disk, bounds
    <3>3. InUseValid' /\ InstalledSaved'
      BY <2>1, <2>2 DEF Inv, InUseValid, InstalledSaved, disk
    <3>4. ASSUME ~stale' PROVE ~stale /\ users' = diskUsers /\ roles' = diskRoles
      BY <2>2, <3>4 DEF disk
    <3>5. SavedIsCurrent'
      <4>1. ASSUME ~stale' PROVE up' /\ ValidateAccounts(diskUsers', diskRoles') /\ memory' = disk'
        BY <2>1, <3>4, <4>1 DEF Inv, SavedIsCurrent, memory, disk
      <4>2. QED
        BY <4>1 DEF SavedIsCurrent
    <3>6. RecoveryCodeOnce'
      <4>1. ASSUME ~stale', NEW c \in codesUsed' PROVE c \notin CodesIn(users') \cup CodesIn(diskUsers')
        BY <2>1, <3>4, <4>1 DEF Inv, RecoveryCodeOnce, disk
      <4>2. QED
        BY <4>1 DEF RecoveryCodeOnce
    <3>7. QED
      BY <3>1, <3>2, <3>3, <3>5, <3>6 DEF Inv
  <2>3. CASE UNCHANGED <<memory, setup, stale>>
    <3>1. DocumentsSound'
      BY <2>1, <2>3, IdleFacts DEF Inv, DocumentsSound, disk, memory
    <3>2. Scalars'
      BY <2>1, <2>3, IdleFacts DEF Inv, Scalars, disk, bounds, memory
    <3>3. (InUseValid /\ InstalledSaved)'
      BY <2>1, <2>3 DEF Inv, InUseValid, InstalledSaved, disk, memory
    <3>4. (SavedIsCurrent /\ RecoveryCodeOnce)'
      BY <2>1, <2>3 DEF Inv, SavedIsCurrent, RecoveryCodeOnce, disk, memory
    <3>5. QED
      BY <3>1, <3>2, <3>3, <3>4 DEF Inv
  <2>4. QED
    BY <1>2, <2>2, <2>3 DEF Reload
<1>3. CASE NewModel
  <2>1. /\ up' = ValidateAccounts(diskUsers, diskRoles) /\ users' = diskUsers /\ roles' = diskRoles
        /\ reload' = NoReload /\ setup' = FALSE
        /\ UNCHANGED <<disk, bounds, codesUsed, installed, stale>>
    BY <1>3 DEF NewModel
  <2>2. DocumentsSound'
    BY <2>1, IdleFacts DEF Inv, DocumentsSound, disk
  <2>3. ValidateAccounts(diskUsers, diskRoles) \in BOOLEAN
    BY DEF ValidateAccounts
  <2>4. Scalars'
    <3>1. up' \in BOOLEAN
      BY <2>1, <2>3
    <3>2. QED
      BY <2>1, <3>1, IdleFacts DEF Inv, Scalars, disk, bounds
  <2>5. InUseValid' /\ InstalledSaved'
    BY <2>1 DEF Inv, InUseValid, InstalledSaved, disk
  <2>6. SavedIsCurrent'
    <3>1. stale' = stale /\ memory' = disk'
      BY <2>1 DEF memory, disk
    <3>2. ASSUME ~stale PROVE up' /\ ValidateAccounts(diskUsers', diskRoles')
      BY <2>1, <3>2 DEF Inv, SavedIsCurrent, disk
    <3>3. QED
      BY <3>1, <3>2 DEF SavedIsCurrent
  <2>7. RecoveryCodeOnce'
    BY <2>1 DEF Inv, RecoveryCodeOnce, disk
  <2>8. QED
    BY <2>2, <2>4, <2>5, <2>6, <2>7 DEF Inv
<1>4. QED
  BY <1>1, <1>2, <1>3

LEMMA InitInv == Init => Inv
<1> SUFFICES ASSUME Init PROVE Inv
  OBVIOUS
<1>1. Sound(users) /\ users = diskUsers /\ ValidateAccounts(users, BuiltIn)
  BY InstalledSound, InstallationsAssumption DEF Init
<1>2. DocumentsSound
  BY <1>1, IdleFacts DEF Init, DocumentsSound
<1>3. IsRoles(BuiltIn)
  BY DEF IsRoles, BuiltIn, RoleIds, Capability
<1>4. installed \in BOOLEAN
  BY DEF Init
<1>5. Scalars
  <2>1. changes \in 0 .. MaxChanges /\ saveErrors \in 0 .. MaxSaveErrors
    BY AccountsAssumption DEF Init
  <2>2. /\ IsRoles(reload.roles) /\ DOMAIN reload = {"pc", "users", "roles"}
        /\ reload.pc \in {"idle", "roles", "install"}
    BY IdleFacts DEF Init
  <2>3. up \in BOOLEAN /\ setup \in BOOLEAN /\ stale \in BOOLEAN
    BY DEF Init
  <2>4. roles = BuiltIn /\ diskRoles = BuiltIn /\ codesUsed = {}
    BY DEF Init
  <2>5. QED
    BY <1>3, <1>4, <2>1, <2>2, <2>3, <2>4 DEF Scalars
<1>6. InUseValid /\ InstalledSaved
  BY <1>1 DEF Init, InUseValid, InstalledSaved, ValidateAccounts
<1>7. SavedIsCurrent /\ RecoveryCodeOnce
  BY <1>1 DEF Init, SavedIsCurrent, RecoveryCodeOnce, memory, disk
<1>8. QED
  BY <1>2, <1>5, <1>6, <1>7 DEF Inv

LEMMA NextInv == Inv /\ [Next]_vars => Inv'
<1> SUFFICES ASSUME Inv, [Next]_vars PROVE Inv'
  OBVIOUS
<1>1. CASE UNCHANGED vars
  <2>1. UNCHANGED <<users, roles, diskUsers, diskRoles, reload, up, setup, changes, saveErrors,
                    codesUsed, installed, stale>>
    BY <1>1 DEF vars, memory, disk, bounds
  <2>2. (DocumentsSound /\ Scalars /\ InUseValid /\ InstalledSaved)'
    BY <2>1 DEF Inv, DocumentsSound, Scalars, InUseValid, InstalledSaved
  <2>3. (SavedIsCurrent /\ RecoveryCodeOnce)'
    BY <2>1 DEF Inv, SavedIsCurrent, RecoveryCodeOnce, memory, disk
  <2>4. QED
    BY <2>2, <2>3 DEF Inv
<1>2. CASE up /\ changes < MaxChanges /\ Changes
  BY <1>2, ChangeProper, CommitInv, SetRoleInv
<1>3. ASSUME NEW a \in FreshAccount, NEW i \in FreshIdentity, NEW key \in LoginKeys,
             ProductSetup(a, i, key)
      PROVE  Inv'
  BY <1>3, SetupInv
<1>4. QED
  BY <1>1, <1>2, <1>3, ReloadInv DEF Next

LEMMA InvHolds == Spec => []Inv
BY InitInv, NextInv, PTL DEF Spec

----------------------------------------------------------------------------
(* The properties.                                                         *)

(* The documents keep the types of auth/accounts.go, and so do all         *)
(* variables of the model.                                                 *)
THEOREM TypeCorrect == Spec => []TypeOK
<1>1. Inv => TypeOK
  BY DEF Inv, DocumentsSound, Sound, Scalars, TypeOK, Documents
<1>2. QED
  BY <1>1, InvHolds, PTL

(* Where the validation finds an administrator, there is somebody who      *)
(* signs in with a password and may do everything.                         *)
LEMMA ValidSignsIn ==
  ASSUME NEW u, NEW r, Sound(u), ValidRoles(r), \E a \in DOMAIN u : PasswordBackedAdmin(u[a])
  PROVE  AdministratorCanSignIn(u, r)
<1>1. PICK a \in DOMAIN u : PasswordBackedAdmin(u[a])
  OBVIOUS
<1>2. PICK i \in DOMAIN u[a].identities :
        u[a].identities[i].type = "password" /\ u[a].identities[i].enabled
  BY <1>1 DEF PasswordBackedAdmin
<1> DEFINE p == <<a, i>>
<1>3. /\ p \in IdentitiesOf(u) /\ At(u, p) = u[a].identities[i]
      /\ At(u, p) \in Identity
  BY IdentityFacts DEF Sound
<1>4. /\ u[a].enabled /\ "administrator" \in u[a].roles
      /\ "administrator" \in DOMAIN r /\ r["administrator"] = {"*"}
  BY <1>1 DEF PasswordBackedAdmin, ValidRoles
<1>5. EffectiveCapabilities(u[a], r) = {"*"}
  <2>1. "*" \in UNION {r[id] : id \in u[a].roles \cap DOMAIN r}
    BY <1>4
  <2>2. QED
    BY <1>4, <2>1 DEF EffectiveCapabilities
<1>6. p[1] = a /\ At(u, p).name \in Names
  BY <1>3 DEF Identity
<1> HIDE DEF p
<1>7. p \in AuthenticatePassword(u, At(u, p).name, At(u, p).hash)
  BY <1>2, <1>3, <1>4, <1>6 DEF AuthenticatePassword
<1>8. QED
  BY <1>3, <1>5, <1>6, <1>7 DEF AdministratorCanSignIn

(* "At least one enabled password-backed administrator must remain after   *)
(* setup": of the saved documents always, of those in use unless a Reload  *)
(* that is older than the first account empties them; and every account    *)
(* retains a login: for any accounts, roles and any number of changes,     *)
(* failing saves, reloads and restarts.                                    *)
THEOREM AdministratorStays == Spec => []AdministratorRemains
<1>1. Inv => AdministratorRemains
  <2> SUFFICES ASSUME Inv PROVE AdministratorRemains
    OBVIOUS
  <2>1. Sound(users) /\ Sound(diskUsers) /\ (up => ValidateAccounts(users, roles))
    BY DEF Inv, DocumentsSound, InUseValid
  <2>2. installed => AdministratorCanSignIn(diskUsers, diskRoles)
    BY <2>1, ValidSignsIn DEF Inv, InstalledSaved
  <2>3. up /\ DOMAIN users # {} => AdministratorCanSignIn(users, roles)
    BY <2>1, ValidSignsIn DEF ValidateAccounts
  <2>4. installed /\ ~stale /\ ~setup => DOMAIN users # {}
    BY DEF Inv, SavedIsCurrent, InstalledSaved, memory, disk
  <2>5. \A a \in DOMAIN users : Logins(users[a]) # {}
    BY <2>1 DEF Sound
  <2>6. QED
    BY <2>2, <2>3, <2>4, <2>5 DEF AdministratorRemains
<1>2. QED
  BY <1>1, InvHolds, PTL

(* The accounts in use are the saved ones, and a restart accepts them,     *)
(* unless a Reload raced with a change.                                    *)
THEOREM SavedStaysCurrent == Spec => []SavedIsCurrent
<1>1. Inv => SavedIsCurrent
  BY DEF Inv
<1>2. QED
  BY <1>1, InvHolds, PTL

(* A recovery code is accepted once, whatever saves fail and whatever      *)
(* restarts come between, unless a Reload raced with a change.             *)
THEOREM CodesAcceptedOnce == Spec => []RecoveryCodeOnce
<1>1. Inv => RecoveryCodeOnce
  BY DEF Inv
<1>2. QED
  BY <1>1, InvHolds, PTL

=============================================================================
