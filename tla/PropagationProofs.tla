------------------------- MODULE PropagationProofs -------------------------
(***************************************************************************)
(* Proofs about one run of a profile (module Propagation), for any         *)
(* members, selectors, envelopes, policies, limits and faults, and about   *)
(* the scheduled passes that start such runs (module Scheduler), for any   *)
(* profiles, schedules, windows and length of a day.                       *)
(***************************************************************************)
EXTENDS Propagation, Scheduler, FiniteSetTheorems, TLAPS

LocalRec ==
  [pc : {"idle", "preview", "snapshot", "apply", "restore", "record", "done"},
   at : 0 .. Length + 1, before : [Envelopes -> ObjectStates],
   revisions : 0 .. Length, restored : 0 .. Length,
   error : BOOLEAN, edited : BOOLEAN]

(* What ApplyLocal has done so far on a target with objects s and history  *)
(* record h: the loop has applied the envelopes below `at`; the rollback   *)
(* has put back those above `at` if it has counted them all; a finished    *)
(* call either applied everything or reports an error.                     *)
Unstarted(l) ==
  l.pc \in {"idle", "preview", "snapshot"} =>
    l.at = 1 /\ l.revisions = 0 /\ l.restored = 0 /\ ~l.error
Applying(l, s) ==
  l.pc = "apply" =>
    /\ l.at \in 1 .. Length /\ l.revisions = l.at - 1
    /\ l.restored = 0 /\ ~l.error
    /\ ~l.edited => \A k \in Envelopes :
                      s[k] = IF k < l.at THEN "source" ELSE l.before[k]
Restoring(l, s) ==
  l.pc = "restore" =>
    /\ l.at \in 1 .. l.revisions /\ l.revisions < Length /\ l.error
    /\ l.restored <= l.revisions - l.at
    /\ ~l.edited => \A k \in Envelopes :
         k > l.revisions \/ (k > l.at /\ l.restored = l.revisions - l.at)
           => s[k] = l.before[k]
Finished(l, s) ==
  l.pc \in {"record", "done"} =>
    \/ /\ ~l.error /\ l.revisions = Length /\ l.restored = 0
       /\ ~l.edited => \A k \in Envelopes : s[k] = "source"
    \/ /\ l.error /\ l.restored <= l.revisions /\ l.revisions < Length
       /\ ~l.edited /\ l.restored > 0 /\ l.restored = l.revisions => s = l.before
Recorded(l, h) == h # "none" => l.pc = "done" /\ h = Status(l)

LocalInv ==
  \A n \in Selected :
    /\ Unstarted(local[n]) /\ Applying(local[n], store[n])
    /\ Restoring(local[n], store[n]) /\ Finished(local[n], store[n])
    /\ Recorded(local[n], history[n])

(* The permission a run needs before it changes anything.                  *)
Allowed ==
  /\ profile.enabled /\ profile.mode = "automatic"
  /\ \A n \in Selected : preview[n].ok /\ preview[n].applicable

(* No target is reached before the permission is established, collected    *)
(* answers are those of finished calls, and a success was counted from     *)
(* them.                                                                   *)
RunInv ==
  /\ phase = "preview" => result = NoResult /\ \A n \in Selected : local[n].pc = "idle"
  /\ phase = "apply" => Allowed /\ result.action = "apply" /\ ~result.error
  /\ \A n \in Selected : local[n].pc # "idle" => Allowed
  /\ \A n \in Selected : applied[n].ok =>
       local[n].pc = "done" /\ ~local[n].error
         /\ applied[n].revisions = local[n].revisions
  /\ phase = "done" /\ result.action = "apply" /\ ~result.error =>
       (\A n \in Selected : applied[n].ok)
         /\ result.applied = Length * Cardinality(Selected)

Inv == TypeOK /\ LocalInv /\ RunInv

----------------------------------------------------------------------------
(* Counting.                                                               *)

(* There are finitely many targets and envelopes.                          *)
LEMMA Finite ==
  /\ IsFiniteSet(Selected) /\ Cardinality(Selected) \in Nat
  /\ IsFiniteSet(Envelopes) /\ Cardinality(Envelopes) = Length
  /\ Length \in Nat \ {0}
<1>1. Length \in Nat \ {0}
  BY EnvelopeAssumption
<1>2. Selected \in SUBSET Members
  BY DEF Selected
<1>3. IsFiniteSet(Selected)
  BY <1>2, MembersAssumption, FS_Subset
<1>4. Cardinality(Selected) \in Nat
  BY <1>3, FS_CardinalityType
<1>5. IsFiniteSet(1 .. Length) /\ Cardinality(1 .. Length) = Length
  BY <1>1, FS_Interval
<1> QED
  BY <1>1, <1>3, <1>4, <1>5 DEF Envelopes

(* The drift of a target is at most the number of envelopes.               *)
LEMMA DriftType == ASSUME NEW s PROVE Drift(s) \in 0 .. Length
<1> DEFINE T == {k \in Envelopes : Diff(k, s[k]) # "noop"}
<1>1. T \in SUBSET Envelopes
  OBVIOUS
<1> HIDE DEF T
<1>2. IsFiniteSet(T) /\ Cardinality(T) <= Length
  BY <1>1, Finite, FS_Subset
<1>3. Cardinality(T) \in Nat
  BY <1>2, FS_CardinalityType
<1> QED
  BY <1>2, <1>3, Finite DEF Drift, T

(* A set of targets is no larger than all of them.                         *)
LEMMA CountType ==
  ASSUME NEW S \in SUBSET Selected PROVE Cardinality(S) \in 0 .. Cardinality(Selected)
<1>1. IsFiniteSet(S) /\ Cardinality(S) <= Cardinality(Selected)
  BY Finite, FS_Subset
<1>2. Cardinality(S) \in Nat
  BY <1>1, FS_CardinalityType
<1> QED
  BY <1>1, <1>2, Finite

(* Sums are numbers.                                                       *)
LEMMA TotalType ==
  ASSUME NEW S \in SUBSET Selected, NEW count PROVE Total(S, count) \in Nat
<1> DEFINE P == Selected \X Envelopes
           T == {x \in S \X Envelopes : x[2] <= count[x[1]]}
<1>1. IsFiniteSet(P)
  BY Finite, FS_Product
<1>2. T \in SUBSET P
  OBVIOUS
<1> HIDE DEF P, T
<1>3. IsFiniteSet(T)
  BY <1>1, <1>2, FS_Subset
<1>4. Cardinality(T) \in Nat
  BY <1>3, FS_CardinalityType
<1> QED
  BY <1>4 DEF Total, T

(* The sum when every target counts every envelope.                        *)
LEMMA CompleteTotal ==
  ASSUME NEW count, \A n \in Selected : count[n] = Length
  PROVE  Total(Selected, count) = Length * Cardinality(Selected)
<1> DEFINE P == Selected \X Envelopes
           T == {x \in P : x[2] <= count[x[1]]}
<1>1. Cardinality(P) = Cardinality(Selected) * Length
  BY Finite, FS_Product
<1>2. ASSUME NEW x \in P PROVE x[2] <= count[x[1]]
  BY Finite DEF Envelopes
<1>3. T = P
  BY <1>2
<1> QED
  BY <1>1, <1>3, Finite DEF Total

----------------------------------------------------------------------------
(* Steps of one target.                                                    *)

(* A step that puts r in the place of one target's call.                   *)
LEMMA LocalUpdate ==
  ASSUME TypeOK, NEW n \in Selected, NEW r \in LocalRec,
         local' = [local EXCEPT ![n] = r]
  PROVE  /\ local' \in [Selected -> LocalRec] /\ local'[n] = r
         /\ \A m \in Selected : m # n => local'[m] = local[m]
BY DEF TypeOK, LocalRec

(* The types that the steps of a target change.                            *)
TargetTypes ==
  /\ store \in [Selected -> [Envelopes -> ObjectStates]]
  /\ local \in [Selected -> LocalRec]
  /\ history \in [Selected -> {"none", "applied", "failed", "rolled-back"}]
  /\ faults \in 0 .. MaxFaults

(* What holds of target n.                                                 *)
LocalOK(n) ==
  /\ Unstarted(local[n]) /\ Applying(local[n], store[n])
  /\ Restoring(local[n], store[n]) /\ Finished(local[n], store[n])
  /\ Recorded(local[n], history[n])

(* A step of target n touches no other target.                             *)
Elsewhere(n) ==
  \A m \in Selected : m # n =>
    local'[m] = local[m] /\ store'[m] = store[m] /\ history'[m] = history[m]

(* The request, the permission check and the snapshot.                     *)
LEMMA BeginKeeps ==
  ASSUME TypeOK, NEW n \in Selected, LocalOK(n),
         ApplyArrives(n) \/ LocalPreview(n) \/ LocalSnapshot(n) \/ LocalReadFails(n)
  PROVE  TargetTypes' /\ LocalOK(n)' /\ Elsewhere(n)
<1> USE DEF TypeOK
<1>0. /\ local[n] \in LocalRec /\ store[n] \in [Envelopes -> ObjectStates]
      /\ local \in [Selected -> LocalRec]
  BY DEF LocalRec
<1>1. PICK r \in LocalRec :
        /\ local' = [local EXCEPT ![n] = r]
        /\ r.at = local[n].at /\ r.revisions = local[n].revisions
        /\ r.restored = local[n].restored
        /\ local[n].pc \in {"idle", "preview", "snapshot"}
        /\ \/ r.pc \in {"preview", "snapshot"} /\ r.error = local[n].error
           \/ r.pc = "record" /\ r.error
           \/ /\ r.pc = "apply" /\ r.error = local[n].error
              /\ r.before = store[n]
  <2>1. CASE ApplyArrives(n)
    <3> DEFINE w == [local[n] EXCEPT !.pc = "preview"]
    <3>1. w \in LocalRec
      BY <1>0 DEF LocalRec
    <3>2. local' = [local EXCEPT ![n] = w]
      BY <1>0, <2>1 DEF ApplyArrives
    <3>3. local[n].pc \in {"idle", "preview", "snapshot"}
      BY <2>1 DEF ApplyArrives
    <3> QED
      BY <1>0, <3>1, <3>2, <3>3 DEF LocalRec
  <2>2. CASE LocalPreview(n) /\ usable[n]
    <3> DEFINE w == [local[n] EXCEPT !.pc = "snapshot"]
    <3>1. w \in LocalRec
      BY <1>0 DEF LocalRec
    <3>2. local' = [local EXCEPT ![n] = w]
      BY <1>0, <2>2 DEF LocalPreview
    <3>3. local[n].pc \in {"idle", "preview", "snapshot"}
      BY <2>2 DEF LocalPreview
    <3> QED
      BY <1>0, <3>1, <3>2, <3>3 DEF LocalRec
  <2>3. CASE LocalPreview(n) /\ ~usable[n]
    <3> DEFINE w == [local[n] EXCEPT !.pc = "record", !.error = TRUE]
    <3>1. w \in LocalRec
      BY <1>0 DEF LocalRec
    <3>2. local' = [local EXCEPT ![n] = w]
      BY <1>0, <2>3 DEF LocalPreview
    <3>3. local[n].pc \in {"idle", "preview", "snapshot"}
      BY <2>3 DEF LocalPreview
    <3> QED
      BY <1>0, <3>1, <3>2, <3>3 DEF LocalRec
  <2>4. CASE LocalSnapshot(n)
    <3> DEFINE w == [local[n] EXCEPT !.pc = "apply", !.before = store[n],
                                 !.edited = FALSE]
    <3>1. w \in LocalRec
      BY <1>0 DEF LocalRec
    <3>2. local' = [local EXCEPT ![n] = w]
      BY <1>0, <2>4 DEF LocalSnapshot
    <3>3. local[n].pc \in {"idle", "preview", "snapshot"}
      BY <2>4 DEF LocalSnapshot
    <3> QED
      BY <1>0, <3>1, <3>2, <3>3 DEF LocalRec
  <2>5. CASE LocalReadFails(n)
    <3> DEFINE w == [local[n] EXCEPT !.pc = "record", !.error = TRUE]
    <3>1. w \in LocalRec
      BY <1>0 DEF LocalRec
    <3>2. local' = [local EXCEPT ![n] = w]
      BY <1>0, <2>5 DEF LocalReadFails
    <3>3. local[n].pc \in {"idle", "preview", "snapshot"}
      BY <2>5 DEF LocalReadFails
    <3> QED
      BY <1>0, <3>1, <3>2, <3>3 DEF LocalRec
  <2> QED BY <2>1, <2>2, <2>3, <2>4, <2>5
<1>2. UNCHANGED <<store, history>> /\ faults' \in 0 .. MaxFaults
  <2>1. CASE LocalReadFails(n)
    BY <2>1, BoundAssumption DEF LocalReadFails
  <2> QED
    BY <2>1 DEF ApplyArrives, LocalPreview, LocalSnapshot
<1>3. /\ local' \in [Selected -> LocalRec] /\ local'[n] = r
      /\ \A m \in Selected : m # n => local'[m] = local[m]
  BY <1>1, LocalUpdate
<1>4. local[n].at = 1 /\ local[n].revisions = 0 /\ local[n].restored = 0 /\ ~local[n].error
  BY <1>1 DEF LocalOK, Unstarted
<1>5. history[n] = "none"
  BY <1>1 DEF LocalOK, Recorded
<1>6. LocalOK(n)'
  <2>1. Unstarted(r)
    BY <1>1, <1>4 DEF Unstarted
  <2>2. Applying(r, store[n])
    BY <1>1, <1>4, Finite, SMTT(30) DEF Applying, Envelopes
  <2>3. Restoring(r, store[n])
    BY <1>1 DEF Restoring
  <2>4. Finished(r, store[n])
    BY <1>1, <1>4, Finite DEF Finished
  <2> QED
    BY <2>1, <2>2, <2>3, <2>4, <1>2, <1>3, <1>5 DEF LocalOK, Recorded
<1> QED
  BY <1>2, <1>3, <1>6 DEF TargetTypes, Elsewhere

(* One envelope applied, or the one that fails.                            *)
LEMMA ApplyKeeps ==
  ASSUME TypeOK, NEW n \in Selected, LocalOK(n), LocalApply(n) \/ LocalApplyFails(n)
  PROVE  TargetTypes' /\ LocalOK(n)' /\ Elsewhere(n)
<1> USE DEF TypeOK
<1> DEFINE l == local[n]
           k == l.at
<1>0. /\ l \in LocalRec /\ store[n] \in [Envelopes -> ObjectStates]
      /\ local \in [Selected -> LocalRec]
      /\ store \in [Selected -> [Envelopes -> ObjectStates]]
  BY DEF LocalRec
<1>1. /\ l.pc = "apply" /\ k \in 1 .. Length /\ l.revisions = k - 1
      /\ l.restored = 0 /\ ~l.error
      /\ ~l.edited => \A j \in Envelopes :
                        store[n][j] = IF j < k THEN "source" ELSE l.before[j]
  BY DEF LocalApply, LocalApplyFails, LocalOK, Applying
<1>2. history[n] = "none" /\ UNCHANGED history
  BY <1>1 DEF LocalOK, Recorded, LocalApply, LocalApplyFails
<1>3. CASE LocalApply(n)
  <2> DEFINE r == [l EXCEPT !.revisions = @ + 1, !.at = @ + 1,
                            !.pc = IF k = Length THEN "record" ELSE "apply"]
             s == [store[n] EXCEPT ![k] = "source"]
  <2>0. k + 1 \in 0 .. Length + 1 /\ l.revisions + 1 \in 0 .. Length
    BY <1>1, Finite
  <2>1. r \in LocalRec
    BY <1>0, <2>0 DEF LocalRec
  <2>2. local' = [local EXCEPT ![n] = r] /\ store' = [store EXCEPT ![n] = s]
    BY <1>0, <1>3 DEF LocalApply
  <2>3. faults' = faults
    BY <1>3 DEF LocalApply
  <2>4. /\ r.revisions = k /\ r.at = k + 1 /\ r.restored = 0 /\ ~r.error
        /\ r.pc = (IF k = Length THEN "record" ELSE "apply")
        /\ r.before = l.before /\ r.edited = l.edited
    BY <1>0, <1>1, Finite DEF LocalRec
  <2>5. /\ s \in [Envelopes -> ObjectStates]
        /\ ~r.edited => \A j \in Envelopes :
                          s[j] = IF j < k + 1 THEN "source" ELSE r.before[j]
    <3>1. s \in [Envelopes -> ObjectStates]
      BY <1>0 DEF ObjectStates
    <3>2. k \in Envelopes /\ \A j \in Envelopes : j \in Int
      BY <1>1, Finite DEF Envelopes
    <3>3. ASSUME ~l.edited, NEW j \in Envelopes
          PROVE  s[j] = IF j < k + 1 THEN "source" ELSE l.before[j]
      <4>1. CASE j = k
        BY <4>1, <1>0, <1>1, <3>2, Finite
      <4>2. CASE j # k
        <5>1. s[j] = store[n][j]
          BY <4>2, <1>0
        <5>2. store[n][j] = IF j < k THEN "source" ELSE l.before[j]
          BY <1>1, <3>3
        <5>3. j < k <=> j < k + 1
          BY <4>2, <3>2, <1>1, Finite
        <5> QED
          BY <5>1, <5>2, <5>3
      <4> QED
        BY <4>1, <4>2
    <3> QED
      BY <3>1, <3>3, <2>4
  <2> HIDE DEF r, s
  <2>6. /\ local' \in [Selected -> LocalRec] /\ local'[n] = r
        /\ \A m \in Selected : m # n => local'[m] = local[m]
    BY <2>1, <2>2, LocalUpdate
  <2>7. /\ store' \in [Selected -> [Envelopes -> ObjectStates]] /\ store'[n] = s
        /\ \A m \in Selected : m # n => store'[m] = store[m]
    BY <1>0, <2>2, <2>5
  <2>8. Unstarted(r) /\ Restoring(r, s)
    BY <2>4 DEF Unstarted, Restoring
  <2>9. Applying(r, s)
    <3>1. CASE k = Length
      BY <3>1, <2>4 DEF Applying
    <3>2. CASE k # Length
      <4>1. r.at \in 1 .. Length /\ r.revisions = r.at - 1
        <5>1. k + 1 \in 1 .. Length /\ k = (k + 1) - 1
          BY <3>2, <1>1, Finite
        <5> QED
          BY <5>1, <2>4
      <4> QED
        BY <4>1, <2>4, <2>5 DEF Applying
    <3> QED
      BY <3>1, <3>2
  <2>10. Finished(r, s)
    BY <1>1, <2>4, <2>5, Finite DEF Finished, Envelopes
  <2> QED
    BY <1>2, <2>3, <2>6, <2>7, <2>8, <2>9, <2>10
       DEF TargetTypes, LocalOK, Recorded, Elsewhere
<1>4. CASE LocalApplyFails(n)
  <2> DEFINE r == [l EXCEPT !.error = TRUE, !.at = @ - 1,
                            !.pc = IF k = 1 THEN "record" ELSE "restore"]
             s == store[n]
  <2>0. k - 1 \in 0 .. Length + 1
    BY <1>1, Finite
  <2>1. r \in LocalRec
    BY <1>0, <2>0 DEF LocalRec
  <2>2. local' = [local EXCEPT ![n] = r] /\ store' = store
    BY <1>0, <1>4 DEF LocalApplyFails
  <2>3. faults' \in 0 .. MaxFaults
    BY <1>4, BoundAssumption DEF LocalApplyFails
  <2>4. /\ r.revisions = k - 1 /\ r.at = k - 1 /\ r.restored = 0 /\ r.error
        /\ r.pc = (IF k = 1 THEN "record" ELSE "restore")
        /\ r.before = l.before /\ r.edited = l.edited
    BY <1>0, <1>1, Finite DEF LocalRec
  <2> HIDE DEF r
  <2>6. /\ local' \in [Selected -> LocalRec] /\ local'[n] = r
        /\ \A m \in Selected : m # n => local'[m] = local[m]
    BY <2>1, <2>2, LocalUpdate
  <2>8. Unstarted(r) /\ Applying(r, s)
    BY <2>4 DEF Unstarted, Applying
  <2>9. Restoring(r, s)
    <3>1. CASE k = 1
      BY <3>1, <2>4 DEF Restoring
    <3>2. CASE k # 1
      <4>1. /\ r.at \in 1 .. r.revisions /\ r.revisions < Length
            /\ r.restored <= r.revisions - r.at
        <5>1. k - 1 \in 1 .. k - 1 /\ k - 1 < Length /\ 0 <= (k - 1) - (k - 1)
          BY <3>2, <1>1, Finite
        <5> QED
          BY <5>1, <2>4
      <4>2. ASSUME ~l.edited, NEW j \in Envelopes, j > k - 1 PROVE s[j] = l.before[j]
        <5>1. ~(j < k)
          BY <4>2, <1>1, Finite DEF Envelopes
        <5> QED
          BY <5>1, <4>2, <1>1
      <4>3. ~r.edited => \A j \in Envelopes :
               j > r.revisions \/ (j > r.at /\ r.restored = r.revisions - r.at)
                 => s[j] = r.before[j]
        BY <4>2, <2>4
      <4> QED
        BY <4>1, <4>3, <2>4 DEF Restoring
    <3> QED
      BY <3>1, <3>2
  <2>10. Finished(r, s)
    BY <1>1, <2>4, Finite DEF Finished, Envelopes
  <2> QED
    BY <1>0, <1>2, <2>2, <2>3, <2>6, <2>8, <2>9, <2>10
       DEF TargetTypes, LocalOK, Recorded, Elsewhere
<1> QED
  BY <1>3, <1>4

(* One round of the rollback.                                              *)
LEMMA RestoreKeeps ==
  ASSUME TypeOK, NEW n \in Selected, LocalOK(n), LocalRestore(n)
  PROVE  TargetTypes' /\ LocalOK(n)' /\ Elsewhere(n)
<1> USE DEF TypeOK
<1> DEFINE l == local[n]
           k == l.at
           r(c) == [l EXCEPT !.restored = @ + c, !.at = @ - 1,
                             !.pc = IF k = 1 THEN "record" ELSE "restore"]
<1>0. /\ l \in LocalRec /\ store[n] \in [Envelopes -> ObjectStates]
      /\ local \in [Selected -> LocalRec]
      /\ store \in [Selected -> [Envelopes -> ObjectStates]]
  BY DEF LocalRec
<1>1. /\ l.pc = "restore" /\ k \in 1 .. l.revisions /\ l.revisions < Length
      /\ l.error /\ l.restored <= l.revisions - k
      /\ ~l.edited => \A j \in Envelopes :
           j > l.revisions \/ (j > k /\ l.restored = l.revisions - k)
             => store[n][j] = l.before[j]
  BY DEF LocalRestore, LocalOK, Restoring
<1>2. history[n] = "none" /\ UNCHANGED history
  BY <1>1 DEF LocalOK, Recorded, LocalRestore
<1>3. /\ l.revisions \in 0 .. Length /\ l.restored \in 0 .. Length /\ k \in 1 .. Length
      /\ l.before \in [Envelopes -> ObjectStates]
  BY <1>0, <1>1, Finite DEF LocalRec
<1>4. PICK c \in {0, 1}, s \in [Envelopes -> ObjectStates] :
        /\ local' = [local EXCEPT ![n] = r(c)] /\ store' = [store EXCEPT ![n] = s]
        /\ c = 1 => s = [store[n] EXCEPT ![k] = l.before[k]]
        /\ c = 0 => s = store[n]
        /\ faults' \in 0 .. MaxFaults
  <2> DEFINE P(c, s) ==
        /\ local' = [local EXCEPT ![n] = r(c)] /\ store' = [store EXCEPT ![n] = s]
        /\ c = 1 => s = [store[n] EXCEPT ![k] = l.before[k]]
        /\ c = 0 => s = store[n]
        /\ faults' \in 0 .. MaxFaults
  <2>1. CASE local' = [local EXCEPT ![n] = r(1)]
             /\ store' = [store EXCEPT ![n][k] = l.before[k]] /\ faults' = faults
    <3>1. [store[n] EXCEPT ![k] = l.before[k]] \in [Envelopes -> ObjectStates]
      BY <1>0, <1>3 DEF Envelopes
    <3>2. store' = [store EXCEPT ![n] = [store[n] EXCEPT ![k] = l.before[k]]]
      BY <1>0, <2>1
    <3>3. P(1, [store[n] EXCEPT ![k] = l.before[k]])
      BY <2>1, <3>2
    <3> HIDE DEF P
    <3>4. \E s \in [Envelopes -> ObjectStates] : P(1, s)
      BY <3>1, <3>3
    <3> QED
      BY <3>4 DEF P
  <2>2. CASE local' = [local EXCEPT ![n] = r(0)] /\ store' = store
             /\ (faults' = faults \/ (faults < MaxFaults /\ faults' = faults + 1))
    BY <1>0, <2>2, BoundAssumption
  <2> QED
    BY <2>1, <2>2 DEF LocalRestore
<1> DEFINE q == r(c)
<1>5. q \in LocalRec
  <2>1. k - 1 \in 0 .. Length + 1 /\ l.restored + c \in 0 .. Length
    BY <1>1, <1>3, Finite
  <2> QED
    BY <1>0, <2>1 DEF LocalRec
<1>6. /\ q.revisions = l.revisions /\ q.at = k - 1 /\ q.restored = l.restored + c
      /\ q.error /\ q.pc = (IF k = 1 THEN "record" ELSE "restore")
      /\ q.before = l.before /\ q.edited = l.edited
  BY <1>0, <1>1, <1>3, Finite DEF LocalRec
<1>7. q.restored = q.revisions - q.at => c = 1 /\ l.restored = l.revisions - k
  <2> HIDE DEF q, k
  <2>1. /\ l.restored \in Int /\ l.revisions \in Int /\ k \in Int
        /\ l.restored <= l.revisions - k
    BY <1>1, <1>3, Finite
  <2>2. ASSUME l.restored + c = l.revisions - (k - 1)
        PROVE  c = 1 /\ l.restored = l.revisions - k
    <3>1. c = 0 \/ c = 1
      OBVIOUS
    <3> QED
      BY <2>1, <2>2, <3>1
  <2> QED
    BY <2>2, <1>6
<1>8. ~q.edited => \A j \in Envelopes :
        j > q.revisions \/ (j > q.at /\ q.restored = q.revisions - q.at)
          => s[j] = q.before[j]
  <2> SUFFICES ASSUME ~l.edited, NEW j \in Envelopes,
                      j > l.revisions \/ (j > k - 1 /\ q.restored = q.revisions - q.at)
               PROVE  s[j] = l.before[j]
    BY <1>6
  <2>1. CASE j = k
    BY <2>1, <1>0, <1>1, <1>3, <1>4, <1>7 DEF Envelopes
  <2>2. CASE j # k
    <3>1. s[j] = store[n][j]
      BY <2>2, <1>0, <1>4
    <3>2. j > l.revisions \/ (j > k /\ l.restored = l.revisions - k)
      BY <2>2, <1>3, <1>7, SMTT(30) DEF Envelopes
    <3> QED
      BY <3>1, <3>2, <1>1
  <2> QED
    BY <2>1, <2>2
<1>9. /\ local' \in [Selected -> LocalRec] /\ local'[n] = q
      /\ \A m \in Selected : m # n => local'[m] = local[m]
  <2> HIDE DEF q
  <2>1. local' = [local EXCEPT ![n] = q]
    BY <1>4 DEF q
  <2> QED
    BY <2>1, <1>5, LocalUpdate
<1>10. /\ store' \in [Selected -> [Envelopes -> ObjectStates]] /\ store'[n] = s
       /\ \A m \in Selected : m # n => store'[m] = store[m]
  BY <1>0, <1>4
<1> HIDE DEF q
<1>11. Unstarted(q) /\ Applying(q, s)
  BY <1>6 DEF Unstarted, Applying
<1>12. Restoring(q, s)
  BY <1>1, <1>3, <1>6, <1>8 DEF Restoring
<1>13. Finished(q, s)
  <2>1. CASE k = 1
    <3>1. q.restored <= q.revisions
      BY <2>1, <1>1, <1>3, <1>6
    <3>2. ASSUME ~q.edited, q.restored = q.revisions PROVE s = q.before
      <4>1. \A j \in Envelopes : s[j] = q.before[j]
        BY <3>2, <2>1, <1>3, <1>6, <1>8 DEF Envelopes
      <4> QED
        BY <4>1, <1>3, <1>4, <1>6
    <3> QED
      BY <3>1, <3>2, <1>1, <1>6 DEF Finished
  <2>2. CASE k # 1
    BY <2>2, <1>6 DEF Finished
  <2> QED
    BY <2>1, <2>2
<1> QED
  BY <1>2, <1>4, <1>9, <1>10, <1>11, <1>12, <1>13
     DEF TargetTypes, LocalOK, Recorded, Elsewhere

(* The record.                                                             *)
LEMMA RecordKeeps ==
  ASSUME TypeOK, NEW n \in Selected, LocalOK(n), LocalRecord(n)
  PROVE  TargetTypes' /\ LocalOK(n)' /\ Elsewhere(n)
<1> USE DEF TypeOK
<1> DEFINE l == local[n]
           r == [l EXCEPT !.pc = "done"]
           s == store[n]
<1>0. /\ l \in LocalRec /\ local \in [Selected -> LocalRec]
  BY DEF LocalRec
<1>1. l.pc = "record" /\ UNCHANGED store
  BY DEF LocalRecord
<1>2. /\ r \in LocalRec /\ r.pc = "done" /\ r.at = l.at /\ r.before = l.before
      /\ r.revisions = l.revisions /\ r.restored = l.restored
      /\ (r.error <=> l.error) /\ (r.edited <=> l.edited)
  BY <1>0 DEF LocalRec
<1>3. local' = [local EXCEPT ![n] = r]
  BY <1>0 DEF LocalRecord
<1>4. Status(l) = Status(r) /\ Status(r) \in {"applied", "failed", "rolled-back"}
  BY <1>2 DEF Status
<1>5. history[n] = "none"
  BY <1>1 DEF LocalOK, Recorded
<1> HIDE DEF r
<1>6. /\ history' \in [Selected -> {"none", "applied", "failed", "rolled-back"}]
      /\ history'[n] \in {"none", Status(r)}
      /\ \A m \in Selected : m # n => history'[m] = history[m]
  <2>1. CASE history' = [history EXCEPT ![n] = Status(l)]
    BY <2>1, <1>4
  <2>2. CASE history' = history
    BY <2>2, <1>5
  <2> QED
    BY <2>1, <2>2 DEF LocalRecord
<1>7. faults' \in 0 .. MaxFaults
  BY BoundAssumption DEF LocalRecord
<1>8. /\ local' \in [Selected -> LocalRec] /\ local'[n] = r
      /\ \A m \in Selected : m # n => local'[m] = local[m]
  BY <1>2, <1>3, LocalUpdate
<1>9. Finished(l, s)
  BY DEF LocalOK
<1>10. Finished(r, s)
  BY <1>1, <1>2, <1>9 DEF Finished
<1>11. Unstarted(r) /\ Applying(r, s) /\ Restoring(r, s)
  BY <1>2 DEF Unstarted, Applying, Restoring
<1> QED
  BY <1>1, <1>2, <1>6, <1>7, <1>8, <1>10, <1>11
     DEF TargetTypes, LocalOK, Recorded, Elsewhere

(* An edit is noticed.                                                     *)
LEMMA EditKeeps ==
  ASSUME TypeOK, NEW n \in Selected, LocalOK(n), NEW k \in Envelopes, Edit(n, k)
  PROVE  TargetTypes' /\ LocalOK(n)' /\ Elsewhere(n)
<1> USE DEF TypeOK
<1> DEFINE l == local[n]
           r == [l EXCEPT !.edited = TRUE]
           s == [store[n] EXCEPT ![k] = "newer"]
<1>0. /\ l \in LocalRec /\ local \in [Selected -> LocalRec]
      /\ store \in [Selected -> [Envelopes -> ObjectStates]]
  BY DEF LocalRec
<1>1. /\ r \in LocalRec /\ r.pc = l.pc /\ r.at = l.at /\ r.before = l.before
      /\ r.revisions = l.revisions /\ r.restored = l.restored
      /\ (r.error <=> l.error) /\ r.edited
  BY <1>0 DEF LocalRec
<1>2. local' = [local EXCEPT ![n] = r] /\ store' = [store EXCEPT ![n] = s]
  BY <1>0 DEF Edit
<1>3. s \in [Envelopes -> ObjectStates]
  BY <1>0 DEF ObjectStates
<1>4. UNCHANGED <<history, faults>>
  BY DEF Edit
<1>5. Status(l) = Status(r)
  BY <1>1 DEF Status
<1> HIDE DEF r, s
<1>6. /\ local' \in [Selected -> LocalRec] /\ local'[n] = r
      /\ \A m \in Selected : m # n => local'[m] = local[m]
  BY <1>1, <1>2, LocalUpdate
<1>7. /\ store' \in [Selected -> [Envelopes -> ObjectStates]] /\ store'[n] = s
      /\ \A m \in Selected : m # n => store'[m] = store[m]
  BY <1>0, <1>2, <1>3
<1>8. Unstarted(r)
  BY <1>1 DEF LocalOK, Unstarted
<1>9. Applying(r, s)
  BY <1>1 DEF LocalOK, Applying
<1>10. Restoring(r, s)
  BY <1>1 DEF LocalOK, Restoring
<1>11. Finished(r, s)
  BY <1>1 DEF LocalOK, Finished
<1>12. Recorded(r, history[n])
  BY <1>1, <1>5 DEF LocalOK, Recorded
<1> QED
  BY <1>4, <1>6, <1>7, <1>8, <1>9, <1>10, <1>11, <1>12
     DEF TargetTypes, LocalOK, Elsewhere

----------------------------------------------------------------------------
(* Steps of the whole run.                                                 *)

(* A step of some target keeps what holds of every target.                 *)
LEMMA TargetStep ==
  ASSUME Inv, NEW n \in Selected, \/ ApplyArrives(n) \/ Local(n)
                                  \/ \E k \in Envelopes : Edit(n, k)
  PROVE  TargetTypes' /\ LocalInv'
<1>1. LocalOK(n)
  BY DEF Inv, LocalInv, LocalOK
<1>2. TargetTypes' /\ LocalOK(n)' /\ Elsewhere(n)
  BY <1>1, BeginKeeps, ApplyKeeps, RestoreKeeps, RecordKeeps, EditKeeps DEF Local, Inv
<1>3. ASSUME NEW m \in Selected PROVE LocalOK(m)'
  <2>1. CASE m = n
    BY <2>1, <1>2
  <2>2. CASE m # n
    <3>1. LocalOK(m)
      BY DEF Inv, LocalInv, LocalOK
    <3>2. local'[m] = local[m] /\ store'[m] = store[m] /\ history'[m] = history[m]
      BY <1>2, <2>2 DEF Elsewhere
    <3> QED
      BY <3>1, <3>2 DEF LocalOK
  <2> QED
    BY <2>1, <2>2
<1> QED
  BY <1>2, <1>3 DEF LocalInv, LocalOK

(* What the two sides of a run leave alone.                                *)
LEMMA Sides ==
  /\ \A n \in Selected : ApplyArrives(n) \/ Local(n) \/ (\E k \in Envelopes : Edit(n, k))
       => UNCHANGED <<profile, phase, g, preview, applied, result, cancelled, usable>>
  /\ \A n \in Selected : ApplyArrives(n) \/ Local(n) => UNCHANGED edits
  /\ \A n \in Selected, k \in Envelopes : Edit(n, k) => edits' = edits + 1 /\ edits < MaxEdits
  /\ \A n \in Selected : Acquire(n) \/ CancelWaiting(n) \/ PreviewAnswer(n)
                         \/ ApplyAnswer(n) \/ CallFails(n) \/ Reconfigure(n)
       => UNCHANGED <<store, local, history, profile, phase, result, cancelled>>
  /\ Decide \/ Collect \/ Cancel =>
       UNCHANGED <<store, local, history, profile, preview, applied, usable, faults, edits>>
BY ZenonT(40) DEF ApplyArrives, Local, LocalPreview, LocalSnapshot, LocalReadFails,
       LocalApply, LocalApplyFails, LocalRestore, LocalRecord, Edit, Acquire, CancelWaiting, PreviewAnswer,
       ApplyAnswer, CallFails, Reconfigure, Decide, Collect, Cancel, coordinator, target

(* Every step is of one of these kinds.                                    *)
LEMMA Kinds ==
  ASSUME [Next]_vars
  PROVE  \/ Decide \/ Collect \/ Cancel \/ UNCHANGED vars
         \/ \E n \in Selected : \/ ApplyArrives(n) \/ Local(n)
                                \/ \E k \in Envelopes : Edit(n, k)
         \/ \E n \in Selected : \/ Acquire(n) \/ CancelWaiting(n) \/ PreviewAnswer(n)
                                \/ ApplyAnswer(n) \/ CallFails(n) \/ Reconfigure(n)
BY DEF Next, FanOut

(* What holds of the targets at the beginning and in every step.           *)
LEMMA LocalNext == ASSUME Inv, [Next]_vars PROVE LocalInv'
<1>1. CASE \E n \in Selected : \/ ApplyArrives(n) \/ Local(n)
                               \/ \E k \in Envelopes : Edit(n, k)
  BY <1>1, TargetStep
<1>2. CASE UNCHANGED <<store, local, history>>
  BY <1>2 DEF Inv, LocalInv
<1>3. CASE UNCHANGED vars
  BY <1>2, <1>3 DEF vars, target
<1> QED
  BY <1>1, <1>2, <1>3, Kinds, Sides

(* TypeOK, with the types of the targets named.                            *)
TypeParts == TypeOK <=>
  /\ profile \in [mode : {"notify-only", "approval-required", "automatic"},
                  enabled : BOOLEAN]
  /\ phase \in {"preview", "apply", "done"}
  /\ g \in [Selected -> {"waiting", "holding", "done"}]
  /\ preview \in [Selected -> [ok : BOOLEAN, applicable : BOOLEAN,
                              drift : 0 .. Length]]
  /\ applied \in [Selected -> [ok : BOOLEAN, revisions : 0 .. Length]]
  /\ result \in [action : {"none", "notify", "plan", "apply"}, drift : Nat,
                 applied : Nat, failed : 0 .. Cardinality(Selected),
                 error : BOOLEAN]
  /\ cancelled \in BOOLEAN
  /\ usable \in [Selected -> BOOLEAN]
  /\ TargetTypes
  /\ edits \in 0 .. MaxEdits

(* The two forms are the same.                                             *)
LEMMA TypesSplit == TypeParts
BY DEF TypeParts, TypeOK, TargetTypes, LocalRec

(* Every step keeps the types.                                             *)
LEMMA TypeNext == ASSUME Inv, [Next]_vars PROVE TypeOK'
<1> USE DEF Inv
<1>0. TypeOK
  OBVIOUS
<1>1. ASSUME NEW n \in Selected, \/ ApplyArrives(n) \/ Local(n)
                                 \/ \E k \in Envelopes : Edit(n, k)
      PROVE  TypeOK'
  <2>1. TargetTypes'
    BY <1>1, TargetStep
  <2>2. edits' \in 0 .. MaxEdits
    <3>1. edits \in 0 .. MaxEdits /\ MaxEdits \in Nat
      BY BoundAssumption DEF TypeOK
    <3>2. edits' = edits \/ (edits' = edits + 1 /\ edits < MaxEdits)
      BY <1>1, Sides
    <3> QED
      BY <3>1, <3>2
  <2>3. UNCHANGED <<profile, phase, g, preview, applied, result, cancelled, usable>>
    BY <1>1, Sides
  <2>4. TypeParts'
    BY TypesSplit, PTL
  <2> QED
    BY <2>1, <2>2, <2>3, <2>4 DEF TypeOK, TypeParts
<1>2. ASSUME NEW n \in Selected, Acquire(n) \/ CancelWaiting(n) PROVE TypeOK'
  BY <1>2 DEF Acquire, CancelWaiting, TypeOK, target
<1>3. ASSUME NEW n \in Selected, PreviewAnswer(n) PROVE TypeOK'
  <2>1. DryRun(n) \in [ok : BOOLEAN, applicable : BOOLEAN, drift : 0 .. Length]
    BY DriftType DEF DryRun, TypeOK
  <2> QED
    BY <1>3, <2>1 DEF PreviewAnswer, TypeOK, target
<1>4. ASSUME NEW n \in Selected, ApplyAnswer(n) PROVE TypeOK'
  <2>1. [ok |-> ~local[n].error, revisions |-> local[n].revisions]
          \in [ok : BOOLEAN, revisions : 0 .. Length]
    BY DEF TypeOK
  <2> QED
    BY <1>4, <2>1 DEF ApplyAnswer, TypeOK, target
<1>5. ASSUME NEW n \in Selected, CallFails(n) PROVE TypeOK'
  <2>1. faults' \in 0 .. MaxFaults
    BY <1>5, BoundAssumption DEF CallFails, TypeOK
  <2> QED
    BY <1>5, <2>1 DEF CallFails, TypeOK, target
<1>6. ASSUME NEW n \in Selected, Reconfigure(n) PROVE TypeOK'
  <2>1. edits' \in 0 .. MaxEdits
    BY <1>6, BoundAssumption DEF Reconfigure, TypeOK
  <2>2. usable' \in [Selected -> BOOLEAN]
    BY <1>6 DEF Reconfigure, TypeOK
  <2> QED
    BY <1>6, <2>1, <2>2 DEF Reconfigure, TypeOK, target, coordinator
<1>7. CASE Decide
  <2> DEFINE blocked == {n \in Selected : Blocked(n)}
             failed == Cardinality(blocked)
             decision == Decision(profile, TotalDrift)
  <2>1. failed \in 0 .. Cardinality(Selected)
    BY CountType
  <2>2. TotalDrift \in Nat
    BY TotalType DEF TotalDrift
  <2>3. decision \in {"none", "notify", "plan", "apply"}
    BY DEF Decision, TypeOK
  <2>4. /\ phase' \in {"done", "apply"} /\ g' \in [Selected -> {"waiting", "holding", "done"}]
        /\ \/ result' = result
           \/ result' = BlockedResult(TotalDrift, failed)
           \/ result' = [result EXCEPT !.action = decision,
                                       !.drift = TotalDrift, !.failed = failed]
    BY <1>7 DEF Decide, TypeOK
  <2> HIDE DEF failed, decision
  <2>5. result' \in [action : {"none", "notify", "plan", "apply"}, drift : Nat,
                     applied : Nat, failed : 0 .. Cardinality(Selected),
                     error : BOOLEAN]
    <3>1. CASE result' = BlockedResult(TotalDrift, failed)
      BY <2>1, <2>2, <3>1 DEF BlockedResult
    <3>2. CASE result' = result
      BY <3>2 DEF TypeOK
    <3>3. CASE result' = [result EXCEPT !.action = decision, !.drift = TotalDrift,
                                        !.failed = failed]
      BY <2>1, <2>2, <2>3, <3>3 DEF TypeOK
    <3> QED
      BY <2>4, <3>1, <3>2, <3>3
  <2> QED
    BY <1>7, <2>4, <2>5 DEF Decide, TypeOK, target
<1>8. CASE Collect
  <2> DEFINE t == Total(Selected \ RunFailed, [n \in Selected |-> applied[n].revisions])
             f == Cardinality(RunFailed)
             x == RunFailed # {}
  <2>1. t \in Nat
    BY TotalType
  <2>2. f \in 0 .. Cardinality(Selected)
    BY CountType DEF RunFailed
  <2>3. result' = [result EXCEPT !.failed = f, !.applied = t, !.error = x]
    BY <1>8 DEF Collect
  <2>4. x \in BOOLEAN
    OBVIOUS
  <2> HIDE DEF t, f, x
  <2>5. result' \in [action : {"none", "notify", "plan", "apply"}, drift : Nat,
                     applied : Nat, failed : 0 .. Cardinality(Selected),
                     error : BOOLEAN]
    BY <2>1, <2>2, <2>3, <2>4 DEF TypeOK
  <2> QED
    BY <1>8, <2>5 DEF Collect, TypeOK, target
<1>9. CASE Cancel
  BY <1>9 DEF Cancel, TypeOK, coordinator, target
<1>10. CASE UNCHANGED vars
  BY <1>10 DEF vars, coordinator, target, TypeOK
<1> QED
  BY <1>1, <1>2, <1>3, <1>4, <1>5, <1>6, <1>7, <1>8, <1>9, <1>10, Kinds

(* A call that has ended stays as it is, but for the note of an edit.      *)
LEMMA DoneStays ==
  ASSUME Inv, NEW n \in Selected, \/ ApplyArrives(n) \/ Local(n)
                                  \/ \E k \in Envelopes : Edit(n, k),
         NEW m \in Selected
  PROVE  /\ local[m].pc = "done" => /\ local'[m].pc = "done"
                                    /\ local'[m].error <=> local[m].error
                                    /\ local'[m].revisions = local[m].revisions
         /\ local[m].pc = "idle" /\ local'[m].pc # "idle" => phase = "apply"
         /\ local'[m].revisions > local[m].revisions => local[m].pc # "idle"
<1>0. local \in [Selected -> LocalRec]
  BY DEF Inv, TypeOK, LocalRec
<1>1. CASE m # n
  <2>1. local'[m] = local[m]
    BY <1>0, <1>1 DEF ApplyArrives, Local, LocalPreview, LocalSnapshot, LocalReadFails, LocalApply,
       LocalApplyFails, LocalRestore, LocalRecord, Edit
  <2>2. ~(local[m].revisions > local[m].revisions)
    BY <1>0, Finite DEF LocalRec
  <2> QED
    BY <2>1, <2>2
<1>2. CASE m = n
  <2>0. /\ local[n].revisions \in Int /\ ~(local[n].revisions > local[n].revisions)
    BY <1>0, Finite DEF LocalRec
  <2>1. CASE ApplyArrives(n)
    BY <1>0, <1>2, <2>0, <2>1 DEF ApplyArrives, LocalRec
  <2>2. CASE Local(n)
    <3>1. local[n].pc \notin {"done", "idle"}
      BY <2>2 DEF Local, LocalPreview, LocalSnapshot, LocalReadFails, LocalApply, LocalApplyFails,
                  LocalRestore, LocalRecord
    <3> QED
      BY <1>2, <3>1
  <2>3. ASSUME NEW k \in Envelopes, Edit(n, k)
        PROVE  /\ local'[n].pc = local[n].pc /\ local'[n].error = local[n].error
               /\ local'[n].revisions = local[n].revisions
    BY <1>0, <2>3 DEF Edit, LocalRec
  <2> QED
    BY <1>2, <2>0, <2>1, <2>2, <2>3
<1> QED
  BY <1>1, <1>2

(* The run invariant when a target takes a step.                           *)
LEMMA RunKeptByTargets ==
  ASSUME Inv, NEW n \in Selected, \/ ApplyArrives(n) \/ Local(n)
                                  \/ \E k \in Envelopes : Edit(n, k)
  PROVE  RunInv'
<1> USE DEF Inv
<1>1. UNCHANGED <<profile, phase, g, preview, applied, result, cancelled, usable>>
  BY Sides
<1>2. Allowed' <=> Allowed
  BY <1>1 DEF Allowed
<1>3. ASSUME NEW m \in Selected
      PROVE  /\ local[m].pc = "done" => /\ local'[m].pc = "done"
                                        /\ local'[m].error <=> local[m].error
                                        /\ local'[m].revisions = local[m].revisions
             /\ local[m].pc = "idle" /\ local'[m].pc # "idle" => phase = "apply"
  BY DoneStays
<1>4. /\ (phase = "preview")' => (result = NoResult)' /\ \A m \in Selected : local'[m].pc = "idle"
      /\ (phase = "apply")' => Allowed' /\ (result.action = "apply" /\ ~result.error)'
  BY <1>1, <1>2, <1>3 DEF RunInv
<1>5. \A m \in Selected : local'[m].pc # "idle" => Allowed'
  BY <1>1, <1>2, <1>3 DEF RunInv
<1>6. ASSUME NEW m \in Selected, applied'[m].ok
      PROVE  /\ local'[m].pc = "done" /\ ~local'[m].error
             /\ applied'[m].revisions = local'[m].revisions
  <2>1. local[m].pc = "done" /\ ~local[m].error /\ applied[m].revisions = local[m].revisions
    BY <1>1, <1>6 DEF RunInv
  <2> QED
    BY <1>1, <1>3, <2>1
<1> QED
  BY <1>1, <1>4, <1>5, <1>6 DEF RunInv

(* The run invariant when a goroutine takes a step.                        *)
LEMMA RunKeptByCalls ==
  ASSUME Inv, NEW n \in Selected,
         Acquire(n) \/ CancelWaiting(n) \/ PreviewAnswer(n) \/ ApplyAnswer(n)
           \/ CallFails(n) \/ Reconfigure(n)
  PROVE  RunInv'
<1> USE DEF Inv
<1>1. UNCHANGED <<store, local, history, profile, phase, result, cancelled>>
  BY Sides
<1>2. CASE PreviewAnswer(n)
  <2>1. phase = "preview" /\ applied' = applied
    BY <1>2 DEF PreviewAnswer
  <2> QED
    BY <1>1, <2>1 DEF RunInv
<1>3. CASE ApplyAnswer(n)
  <2>1. /\ phase = "apply" /\ local[n].pc = "done" /\ preview' = preview
        /\ applied' = [applied EXCEPT ![n] = [ok |-> ~local[n].error,
                                              revisions |-> local[n].revisions]]
    BY <1>3 DEF ApplyAnswer
  <2>2. ASSUME NEW m \in Selected, applied'[m].ok
        PROVE  /\ local[m].pc = "done" /\ ~local[m].error
               /\ applied'[m].revisions = local[m].revisions
    BY <2>1, <2>2 DEF RunInv, TypeOK
  <2>3. Allowed' <=> Allowed
    BY <1>1, <2>1 DEF Allowed
  <2> QED
    BY <1>1, <2>1, <2>2, <2>3 DEF RunInv
<1>4. CASE ~PreviewAnswer(n) /\ ~ApplyAnswer(n)
  <2>1. preview' = preview /\ applied' = applied
    BY <1>4 DEF Acquire, CancelWaiting, CallFails, Reconfigure, coordinator
  <2>2. Allowed' <=> Allowed
    BY <1>1, <2>1 DEF Allowed
  <2> QED
    BY <1>1, <2>1, <2>2 DEF RunInv
<1> QED
  BY <1>2, <1>3, <1>4

(* The decision to apply is the permission.                                *)
LEMMA RunKeptByDecide == ASSUME Inv, Decide PROVE RunInv'
<1> USE DEF Inv
<1> DEFINE blocked == {n \in Selected : Blocked(n)}
           failed == Cardinality(blocked)
           decision == Decision(profile, TotalDrift)
<1>1. /\ phase = "preview" /\ result = NoResult
      /\ \A n \in Selected : local[n].pc = "idle"
      /\ UNCHANGED <<store, local, history, profile, preview, applied>>
  BY DEF Decide, RunInv, target
<1>2. \A n \in Selected : ~applied[n].ok
  BY <1>1 DEF RunInv
<1>3. \/ phase' = "done" /\ result' = result
      \/ phase' = "done" /\ result' = BlockedResult(TotalDrift, failed)
      \/ /\ result' = [result EXCEPT !.action = decision,
                                     !.drift = TotalDrift, !.failed = failed]
         /\ ~(profile.mode = "automatic" /\ blocked # {})
         /\ phase' = IF decision = "apply" THEN "apply" ELSE "done"
  BY DEF Decide
<1> HIDE DEF failed, decision
<1>4. CASE phase' = "done" /\ result' = result
  BY <1>1, <1>2, <1>4 DEF RunInv, NoResult
<1>5. CASE phase' = "done" /\ result' = BlockedResult(TotalDrift, failed)
  BY <1>1, <1>2, <1>5 DEF RunInv, BlockedResult
<1>6. CASE /\ result' = [result EXCEPT !.action = decision,
                                       !.drift = TotalDrift, !.failed = failed]
           /\ ~(profile.mode = "automatic" /\ blocked # {})
           /\ phase' = IF decision = "apply" THEN "apply" ELSE "done"
  <2>1. result'.action = decision /\ ~result'.error
    BY <1>1, <1>6 DEF NoResult
  <2>2. CASE decision # "apply"
    BY <1>1, <1>2, <1>6, <2>1, <2>2 DEF RunInv
  <2>3. CASE decision = "apply"
    <3>1. profile.enabled /\ profile.mode = "automatic"
      BY <2>3 DEF decision, Decision, TypeOK
    <3>2. \A n \in Selected : preview[n].ok /\ preview[n].applicable
      BY <1>6, <3>1 DEF Blocked
    <3>3. Allowed'
      BY <1>1, <3>1, <3>2 DEF Allowed
    <3> QED
      BY <1>1, <1>2, <1>6, <2>1, <2>3, <3>3 DEF RunInv
  <2> QED
    BY <2>2, <2>3
<1> QED
  BY <1>3, <1>4, <1>5, <1>6

(* What Collect reports as a success is one.                               *)
LEMMA RunKeptByCollect == ASSUME Inv, Collect PROVE RunInv'
<1> USE DEF Inv
<1> DEFINE count == [n \in Selected |-> applied[n].revisions]
           t == Total(Selected \ RunFailed, count)
           f == Cardinality(RunFailed)
           x == RunFailed # {}
<1>1. /\ phase = "apply" /\ phase' = "done"
      /\ result' = [result EXCEPT !.failed = f, !.applied = t, !.error = x]
      /\ UNCHANGED <<store, local, history, profile, preview, applied>>
  BY DEF Collect, target
<1>2. Allowed' <=> Allowed
  BY <1>1 DEF Allowed
<1>3. (result'.error <=> x) /\ result'.applied = t
  BY <1>1 DEF TypeOK
<1>4. ASSUME ~x
      PROVE  /\ \A n \in Selected : applied[n].ok
             /\ t = Length * Cardinality(Selected)
  <2>1. RunFailed = {} /\ \A n \in Selected : applied[n].ok
    BY <1>4 DEF RunFailed
  <2>2. ASSUME NEW n \in Selected PROVE count[n] = Length
    <3>1. /\ local[n].pc = "done" /\ ~local[n].error
          /\ applied[n].revisions = local[n].revisions
      BY <2>1 DEF RunInv
    <3>2. local[n].revisions = Length
      BY <3>1 DEF LocalInv, Finished
    <3> QED
      BY <3>1, <3>2
  <2> HIDE DEF count
  <2>3. Total(Selected, count) = Length * Cardinality(Selected)
    BY <2>2, CompleteTotal
  <2>4. Selected \ RunFailed = Selected
    BY <2>1
  <2> QED
    BY <2>1, <2>3, <2>4
<1> HIDE DEF t, x
<1> QED
  BY <1>1, <1>2, <1>3, <1>4 DEF RunInv

(* Every step keeps the run invariant.                                     *)
LEMMA RunNext == ASSUME Inv, [Next]_vars PROVE RunInv'
<1>1. CASE Cancel \/ UNCHANGED vars
  <2>1. UNCHANGED <<local, profile, phase, preview, applied, result>>
    BY <1>1 DEF Cancel, vars, coordinator, target
  <2>2. Allowed' <=> Allowed
    BY <2>1 DEF Allowed
  <2> QED
    BY <2>1, <2>2 DEF Inv, RunInv
<1> QED
  BY <1>1, Kinds, RunKeptByTargets, RunKeptByCalls, RunKeptByDecide, RunKeptByCollect

(* The invariant holds at the beginning.                                   *)
LEMMA InvInit == Init => Inv
<1> SUFFICES ASSUME Init PROVE Inv
  OBVIOUS
<1>1. Fresh \in LocalRec
  BY Finite DEF Fresh, LocalRec, ObjectStates
<1>2. NoPreview \in [ok : BOOLEAN, applicable : BOOLEAN, drift : 0 .. Length]
  BY Finite DEF NoPreview
<1>3. [ok |-> FALSE, revisions |-> 0] \in [ok : BOOLEAN, revisions : 0 .. Length]
  BY Finite
<1>4. NoResult \in [action : {"none", "notify", "plan", "apply"}, drift : Nat,
                    applied : Nat, failed : 0 .. Cardinality(Selected),
                    error : BOOLEAN]
  BY Finite DEF NoResult
<1>5. store \in [Selected -> [Envelopes -> ObjectStates]]
  BY EnvelopeAssumption DEF Init
<1>6. faults \in 0 .. MaxFaults /\ edits \in 0 .. MaxEdits
  BY BoundAssumption DEF Init
<1>7. TypeOK
  BY <1>1, <1>2, <1>3, <1>4, <1>5, <1>6, ZenonT(40) DEF Init, TypeOK, LocalRec
<1>8. ASSUME NEW n \in Selected
      PROVE  local[n] = Fresh /\ history[n] = "none" /\ ~applied[n].ok
  BY DEF Init
<1>9. LocalInv
  BY <1>8 DEF LocalInv, Unstarted, Applying, Restoring, Finished, Recorded, Fresh
<1>10. RunInv
  BY <1>8 DEF Init, RunInv, Fresh, NoResult
<1> QED
  BY <1>7, <1>9, <1>10 DEF Inv

(* The invariant holds throughout.                                         *)
LEMMA InvHolds == Spec => []Inv
<1>1. Inv /\ [Next]_vars => Inv'
  BY TypeNext, LocalNext, RunNext DEF Inv
<1> QED
  BY <1>1, InvInit, PTL DEF Spec

----------------------------------------------------------------------------
(* Every variable of a run keeps its type; the fan-out's counters, the     *)
(* loop index of ApplyLocal and the reported totals stay in their ranges.  *)
THEOREM TypeCorrect == Spec => []TypeOK
<1>1. Inv => TypeOK
  BY DEF Inv
<1> QED
  BY <1>1, InvHolds, PTL

(* ExecuteProfile reports an automatic run as a success only if every      *)
(* selected target applied every envelope, and counts exactly those, for   *)
(* any number of targets, lost answers, cancellations and failures.        *)
THEOREM SuccessComplete == Spec => []SuccessIsComplete
<1>1. Inv => SuccessIsComplete
  <2> SUFFICES ASSUME Inv, phase = "done", result.action = "apply", ~result.error
               PROVE  /\ \A n \in Selected : local[n].pc = "done" /\ ~local[n].error
                                             /\ local[n].revisions = Length
                      /\ result.applied = Length * Cardinality(Selected)
    BY DEF SuccessIsComplete
  <2>1. /\ \A n \in Selected : applied[n].ok
        /\ result.applied = Length * Cardinality(Selected)
    BY DEF Inv, RunInv
  <2>2. ASSUME NEW n \in Selected
        PROVE  local[n].pc = "done" /\ ~local[n].error /\ local[n].revisions = Length
    BY <2>1 DEF Inv, RunInv, LocalInv, Finished
  <2> QED
    BY <2>1, <2>2
<1> QED
  BY <1>1, InvHolds, PTL

(* The history that Manager.Apply writes is true of a target nobody else   *)
(* edits: "applied" means every envelope is there, "rolled-back" that      *)
(* every object is what it was before, whatever the loop, the rollback and *)
(* the adapters' failures did.                                             *)
THEOREM HistoryTrue == Spec => []HistoryIsTrue
<1>1. Inv => HistoryIsTrue
  <2> SUFFICES ASSUME Inv, NEW n \in Selected, ~local[n].edited
               PROVE  /\ history[n] = "applied" => \A k \in Envelopes : store[n][k] = "source"
                      /\ history[n] = "rolled-back" => store[n] = local[n].before
    BY DEF HistoryIsTrue
  <2> DEFINE l == local[n]
  <2>1. /\ history[n] # "none" => l.pc = "done" /\ history[n] = Status(l)
        /\ Finished(l, store[n])
    BY DEF Inv, LocalInv, Recorded
  <2>2. l.restored \in Nat /\ l.revisions \in Nat
    BY DEF Inv, TypeOK
  <2>3. CASE history[n] = "applied"
    <3>1. l.pc = "done" /\ ~l.error
      BY <2>1, <2>3 DEF Status
    <3> QED
      BY <2>1, <2>3, <3>1 DEF Finished
  <2>4. CASE history[n] = "rolled-back"
    <3>1. l.pc = "done" /\ l.restored > 0 /\ l.restored >= l.revisions
      BY <2>1, <2>4 DEF Status
    <3>2. l.restored # 0
      BY <2>2, <3>1
    <3>3. l.error /\ l.restored <= l.revisions
      BY <2>1, <3>1, <3>2 DEF Finished
    <3>4. l.restored = l.revisions
      BY <2>2, <3>1, <3>3
    <3> QED
      BY <2>1, <2>4, <3>1, <3>3, <3>4 DEF Finished
  <2> QED
    BY <2>3, <2>4
<1> QED
  BY <1>1, InvHolds, PTL

(* No object is changed on any target unless the profile is enabled and    *)
(* automatic and every selected target answered with an applicable         *)
(* preview, although targets run on when the coordinator has given up.     *)
THEOREM FailsClosed == Spec => FailClosed
<1>1. Inv /\ [Next]_vars => [MutationAllowed]_vars
  <2> SUFFICES ASSUME Inv, [Next]_vars, NEW n \in Selected,
                      local'[n].revisions > local[n].revisions
               PROVE  Allowed
    BY DEF MutationAllowed, Allowed
  <2>1. CASE local' = local
    <3>1. local[n].revisions \in Int
      BY Finite DEF Inv, TypeOK
    <3> QED
      BY <2>1, <3>1
  <2>2. CASE \E m \in Selected : \/ ApplyArrives(m) \/ Local(m)
                                 \/ \E k \in Envelopes : Edit(m, k)
    <3>1. local[n].pc # "idle"
      BY <2>2, DoneStays
    <3> QED
      BY <3>1 DEF Inv, RunInv
  <2> QED
    BY <2>1, <2>2, Kinds, Sides DEF vars, target
<1> QED
  BY <1>1, InvHolds, PTL DEF Spec, FailClosed

----------------------------------------------------------------------------
(* Scheduled passes.                                                       *)

Entries == [id : Profiles, profile : Profile]

(* Record types, and the entries of the pass under way.                    *)
SchedulerTypes ==
  /\ now \in 0 .. MaxTime
  /\ stored \in [Profiles -> Profile]
  /\ runner \in [pc : {"idle", "loop", "save"}, at : 0 .. MaxTime,
                 listed : SUBSET Entries, todo : SUBSET Entries,
                 saving : SUBSET Entries, out : SUBSET Profiles]
  /\ runner.todo \subseteq runner.listed /\ runner.saving \subseteq runner.listed
  /\ runs \in [Profiles -> Nat \cup {Never}]
  /\ early \in BOOLEAN /\ turned \subseteq Profiles /\ changes \in 0 .. MaxChanges

(* Of a profile that no operator turned back the store tells no older run  *)
(* than the last one, and neither does a copy that the pass has not yet    *)
(* saved: no profile has two copies, so saving one makes no other stale.   *)
Tells(id, copy) == id \notin turned => ~Older(copy.last, runs[id])
StoreTells == \A p \in Profiles : Tells(p, stored[p])
CopiesTell == \A e \in runner.todo \cup runner.saving : Tells(e.id, e.profile)
CopiesUnique ==
  /\ \A e, f \in runner.todo \cup runner.saving : e.id = f.id => e = f
  /\ runner.todo \cap runner.saving = {}
SavingDue == \A e \in runner.saving : Due(e.profile, runner.at)

SchedulerInv ==
  SchedulerTypes /\ StoreTells /\ CopiesTell /\ CopiesUnique /\ SavingDue /\ ~early

(* The assumptions on the constants, together.                             *)
LEMMA ConstantFacts ==
  /\ Schedules \subseteq Nat /\ MaxTime \in Nat /\ MaxChanges \in Nat
  /\ Never \notin Nat /\ Unreadable \notin Nat /\ Unreadable \notin Windows
BY ScheduleAssumption, NeverAssumption

(* The state before the first pass satisfies the invariant.                *)
LEMMA SchedulerInitInv == SchedulerInit => SchedulerInv
<1> SUFFICES ASSUME SchedulerInit PROVE SchedulerInv
  OBVIOUS
<1>1. SchedulerTypes
  <2>1. stored \in [Profiles -> Profile]
    <3>1. ASSUME NEW x \in [exists : {TRUE}, enabled : {TRUE},
                            schedule : Schedules \cup {Unreadable},
                            window : Windows \cup {Unreadable}, last : {Never}]
          PROVE  x \in Profile
      BY DEF Profile
    <3>2. QED
      BY <3>1 DEF SchedulerInit
  <2>2. runner \in [pc : {"idle", "loop", "save"}, at : 0 .. MaxTime,
                    listed : SUBSET Entries, todo : SUBSET Entries,
                    saving : SUBSET Entries, out : SUBSET Profiles]
    BY ConstantFacts DEF SchedulerInit, NoPass
  <2>3. runner.todo \subseteq runner.listed /\ runner.saving \subseteq runner.listed
    BY DEF SchedulerInit, NoPass
  <2>4. /\ now \in 0 .. MaxTime /\ changes \in 0 .. MaxChanges
        /\ runs \in [Profiles -> Nat \cup {Never}]
    BY ConstantFacts DEF SchedulerInit
  <2>5. early \in BOOLEAN /\ turned \subseteq Profiles
    BY DEF SchedulerInit
  <2>6. QED
    BY <2>1, <2>2, <2>3, <2>4, <2>5 DEF SchedulerTypes
<1>2. StoreTells
  BY DEF SchedulerInit, StoreTells, Tells, Older
<1>3. CopiesTell /\ CopiesUnique /\ SavingDue /\ ~early
  BY DEF SchedulerInit, NoPass, CopiesTell, CopiesUnique, SavingDue
<1>4. QED
  BY <1>1, <1>2, <1>3 DEF SchedulerInv

(* A run that is saved comes at least its schedule after the one before.   *)
LEMMA SavedNotEarly ==
  ASSUME SchedulerInv, NEW e \in runner.saving
  PROVE  ~(/\ runs[e.id] # Never /\ e.id \notin turned
           /\ runner.at < runs[e.id] + e.profile.schedule)
<1> SUFFICES ASSUME runs[e.id] # Never, e.id \notin turned
             PROVE  ~(runner.at < runs[e.id] + e.profile.schedule)
  OBVIOUS
<1>1. e \in Entries /\ e.profile \in Profile
  BY DEF SchedulerInv, SchedulerTypes, Entries
<1>2. Due(e.profile, runner.at) /\ ~Older(e.profile.last, runs[e.id])
  BY DEF SchedulerInv, SavingDue, CopiesTell, Tells
<1>3. e.profile.last # Never /\ ~(e.profile.last < runs[e.id])
  BY <1>2 DEF Older
<1>4. runner.at >= e.profile.last + e.profile.schedule
  BY <1>2, <1>3 DEF Due, Elapsed
<1>5. /\ runner.at \in Nat /\ e.profile.schedule \in Nat
      /\ e.profile.last \in Nat /\ runs[e.id] \in Nat
  <2>1. runner.at \in Nat
    BY ConstantFacts DEF SchedulerInv, SchedulerTypes
  <2>2. e.profile.schedule # Unreadable
    BY <1>2 DEF Due, DueError
  <2>3. e.profile.schedule \in Nat
    BY <1>1, <2>2, ConstantFacts DEF Profile
  <2>4. e.profile.last \in Nat
    BY <1>1, <1>3 DEF Profile
  <2>5. runs[e.id] \in Nat
    BY <1>1 DEF SchedulerInv, SchedulerTypes, Entries
  <2>6. QED
    BY <2>1, <2>3, <2>4, <2>5
<1>6. QED
  BY <1>3, <1>4, <1>5

(* Every step keeps the invariant.                                         *)
LEMMA SchedulerNextInv == SchedulerInv /\ [SchedulerNext]_schedulerVars => SchedulerInv'
<1> SUFFICES ASSUME SchedulerInv, [SchedulerNext]_schedulerVars PROVE SchedulerInv'
  OBVIOUS
<1> USE ConstantFacts
<1>1. CASE StartPass
  <2> DEFINE listed == {[id |-> p, profile |-> stored[p]] :
                          p \in {q \in Profiles : stored[q].exists}}
  <2>1. /\ runner' = [pc |-> "loop", at |-> now, listed |-> listed,
                      todo |-> listed, saving |-> {}, out |-> {}]
        /\ UNCHANGED <<now, stored, runs, early, turned, changes>>
    BY <1>1 DEF StartPass
  <2>2. listed \subseteq Entries
    BY DEF SchedulerInv, SchedulerTypes, Entries
  <2>3. \A e \in listed : e.id \in Profiles /\ e.profile = stored[e.id]
    OBVIOUS
  <2>4. \A e, f \in listed : e.id = f.id => e = f
    OBVIOUS
  <2> HIDE DEF listed
  <2>5. SchedulerTypes'
    BY <2>1, <2>2 DEF SchedulerInv, SchedulerTypes
  <2>6. StoreTells' /\ CopiesTell'
    BY <2>1, <2>3 DEF SchedulerInv, StoreTells, CopiesTell, Tells
  <2>7. CopiesUnique' /\ SavingDue' /\ ~early'
    BY <2>1, <2>4 DEF SchedulerInv, CopiesUnique, SavingDue
  <2>8. QED
    BY <2>5, <2>6, <2>7 DEF SchedulerInv
<1>2. CASE EndPass
  <2>1. /\ runner' = [runner EXCEPT !.pc = "idle"]
        /\ UNCHANGED <<now, stored, runs, early, turned, changes>>
    BY <1>2 DEF EndPass
  <2>2. SchedulerTypes'
    BY <2>1 DEF SchedulerInv, SchedulerTypes
  <2>3. /\ runner'.todo = runner.todo /\ runner'.saving = runner.saving
        /\ runner'.at = runner.at
    BY <2>1 DEF SchedulerInv, SchedulerTypes
  <2>4. StoreTells' /\ CopiesTell' /\ CopiesUnique' /\ SavingDue' /\ ~early'
    BY <2>1, <2>3 DEF SchedulerInv, StoreTells, CopiesTell, Tells, CopiesUnique, SavingDue
  <2>5. QED
    BY <2>2, <2>4 DEF SchedulerInv
<1>3. CASE Tick
  BY <1>3 DEF Tick, SchedulerInv, SchedulerTypes, StoreTells, CopiesTell, Tells,
              CopiesUnique, SavingDue
<1>4. ASSUME NEW e \in runner.todo, Skip(e) \/ Complain(e) \/ RunFails(e)
      PROVE  SchedulerInv'
  <2>1. /\ runner'.todo = runner.todo \ {e} /\ runner'.saving = runner.saving
        /\ runner'.at = runner.at
        /\ UNCHANGED <<now, stored, runs, early, turned, changes>>
    BY <1>4 DEF Skip, Complain, RunFails, SchedulerInv, SchedulerTypes
  <2>2. e.id \in Profiles
    BY DEF SchedulerInv, SchedulerTypes, Entries
  <2>3. SchedulerTypes'
    <3>1. CASE runner' = [runner EXCEPT !.todo = @ \ {e}]
      BY <2>1, <3>1 DEF SchedulerInv, SchedulerTypes
    <3>2. CASE runner' = [runner EXCEPT !.todo = @ \ {e}, !.out = @ \cup {e.id}]
      BY <2>1, <2>2, <3>2 DEF SchedulerInv, SchedulerTypes
    <3>3. QED
      BY <1>4, <3>1, <3>2 DEF Skip, Complain, RunFails
  <2>4. StoreTells' /\ CopiesTell' /\ CopiesUnique' /\ SavingDue' /\ ~early'
    BY <2>1 DEF SchedulerInv, StoreTells, CopiesTell, Tells, CopiesUnique, SavingDue
  <2>5. QED
    BY <2>3, <2>4 DEF SchedulerInv
<1>5. ASSUME NEW e \in runner.todo, RunSucceeds(e)
      PROVE  SchedulerInv'
  <2>1. /\ runner' = [runner EXCEPT !.pc = "save", !.todo = @ \ {e}, !.saving = {e}]
        /\ Due(e.profile, runner.at)
        /\ UNCHANGED <<now, stored, runs, early, turned, changes>>
    BY <1>5 DEF RunSucceeds
  <2>2. SchedulerTypes'
    BY <2>1 DEF SchedulerInv, SchedulerTypes
  <2>3. /\ runner'.todo = runner.todo \ {e} /\ runner'.saving = {e}
        /\ runner'.at = runner.at
    BY <2>1 DEF SchedulerInv, SchedulerTypes
  <2>4. StoreTells' /\ CopiesTell' /\ CopiesUnique' /\ SavingDue' /\ ~early'
    BY <2>1, <2>3 DEF SchedulerInv, StoreTells, CopiesTell, Tells, CopiesUnique, SavingDue
  <2>5. QED
    BY <2>2, <2>4 DEF SchedulerInv
<1>6. ASSUME NEW e \in runner.saving, SaveRun(e)
      PROVE  SchedulerInv'
  <2>1. e \in Entries /\ e.id \in Profiles /\ e.profile \in Profile
    BY DEF SchedulerInv, SchedulerTypes, Entries
  <2>2. /\ runner' = [runner EXCEPT !.pc = "loop", !.saving = {}, !.out = @ \cup {e.id}]
        /\ UNCHANGED <<now, changes>>
    BY <1>6 DEF SaveRun
  <2>3. /\ runner'.todo = runner.todo /\ runner'.saving = {}
        /\ runner'.at = runner.at
    BY <2>2 DEF SchedulerInv, SchedulerTypes
  <2>4. CASE UNCHANGED <<stored, early, turned, runs>>
    <3>1. SchedulerTypes'
      BY <2>1, <2>2, <2>4 DEF SchedulerInv, SchedulerTypes
    <3>2. StoreTells' /\ CopiesTell' /\ CopiesUnique' /\ SavingDue' /\ ~early'
      BY <2>3, <2>4 DEF SchedulerInv, StoreTells, CopiesTell, Tells, CopiesUnique, SavingDue
    <3>3. QED
      BY <3>1, <3>2 DEF SchedulerInv
  <2>5. CASE /\ stored' = [stored EXCEPT ![e.id] = [e.profile EXCEPT !.last = runner.at]]
             /\ early' = (early \/ /\ runs[e.id] # Never /\ e.id \notin turned
                                   /\ runner.at < runs[e.id] + e.profile.schedule)
             /\ runs' = [runs EXCEPT ![e.id] = runner.at]
             /\ turned' = turned \ {e.id}
    <3>1. ~early'
      BY <2>5, SavedNotEarly DEF SchedulerInv
    <3>2. /\ [e.profile EXCEPT !.last = runner.at] \in Profile
          /\ [e.profile EXCEPT !.last = runner.at].last = runner.at
          /\ runner.at \in Nat
      BY <2>1 DEF SchedulerInv, SchedulerTypes, Profile
    <3>3. SchedulerTypes'
      BY <2>1, <2>2, <2>5, <3>1, <3>2 DEF SchedulerInv, SchedulerTypes
    <3>4. StoreTells'
      <4>1. stored'[e.id].last = runner.at /\ runs'[e.id] = runner.at
        BY <2>1, <2>5, <3>2 DEF SchedulerInv, SchedulerTypes
      <4>2. ~Older(stored'[e.id].last, runs'[e.id])
        BY <3>2, <4>1, ConstantFacts DEF Older
      <4>3. ASSUME NEW p \in Profiles, p # e.id
            PROVE  stored'[p] = stored[p] /\ runs'[p] = runs[p]
                   /\ (p \notin turned' => p \notin turned)
        BY <2>5, <4>3 DEF SchedulerInv, SchedulerTypes
      <4>4. ASSUME NEW p \in Profiles
            PROVE  p \notin turned' => ~Older(stored'[p].last, runs'[p])
        <5>1. CASE p = e.id
          BY <4>2, <5>1
        <5>2. CASE p # e.id
          BY <4>3, <5>2 DEF SchedulerInv, StoreTells, Tells
        <5> QED
          BY <5>1, <5>2
      <4> QED
        BY <4>4 DEF StoreTells, Tells
    <3>5. \A f \in runner.todo : f.id # e.id
      BY DEF SchedulerInv, CopiesUnique
    <3>6. \A f \in runner.todo : f.id \in Profiles
      BY DEF SchedulerInv, SchedulerTypes, Entries
    <3>7. CopiesTell'
      <4>1. \A f \in runner.todo :
              runs'[f.id] = runs[f.id] /\ (f.id \in turned' <=> f.id \in turned)
        BY <2>1, <2>5, <3>5, <3>6 DEF SchedulerInv, SchedulerTypes
      <4> QED
        BY <2>3, <4>1 DEF SchedulerInv, CopiesTell, Tells
    <3>8. CopiesUnique' /\ SavingDue'
      BY <2>3 DEF SchedulerInv, CopiesUnique, SavingDue
    <3>9. QED
      BY <3>1, <3>3, <3>4, <3>7, <3>8 DEF SchedulerInv
  <2>6. QED
    BY <1>6, <2>4, <2>5 DEF SaveRun
<1>7. ASSUME NEW p \in Profiles, SaveProfile(p)
      PROVE  SchedulerInv'
  <2>1. /\ UNCHANGED <<now, runner, runs, early>>
        /\ changes' = changes + 1 /\ changes < MaxChanges
    BY <1>7 DEF SaveProfile
  <2>2. PICK on \in BOOLEAN, d \in Schedules, w \in Windows, last \in (0 .. now) \cup {Never} :
          /\ stored' = [stored EXCEPT ![p] = [exists |-> TRUE, enabled |-> on, schedule |-> d,
                                             window |-> w, last |-> last]]
          /\ turned' = IF Older(last, runs[p]) THEN turned \cup {p} ELSE turned
    BY <1>7 DEF SaveProfile
  <2> DEFINE new == [exists |-> TRUE, enabled |-> on, schedule |-> d,
                     window |-> w, last |-> last]
  <2>3. new \in Profile /\ new.last = last
    BY DEF SchedulerInv, SchedulerTypes, Profile
  <2>4. stored' = [stored EXCEPT ![p] = new]
    BY <2>2
  <2> HIDE DEF new
  <2>5. turned \subseteq turned' /\ turned' \subseteq turned \cup {p}
    BY <2>2
  <2>6. SchedulerTypes'
    BY <2>1, <2>3, <2>4, <2>5 DEF SchedulerInv, SchedulerTypes
  <2>7. StoreTells'
    <3>1. ASSUME NEW q \in Profiles, q \notin turned'
          PROVE  ~Older(stored'[q].last, runs[q])
      <4>1. CASE q = p
        <5>1. stored'[q].last = last
          BY <2>3, <2>4, <4>1 DEF SchedulerInv, SchedulerTypes
        <5>2. QED
          BY <2>2, <3>1, <4>1, <5>1
      <4>2. CASE q # p
        <5>1. stored'[q] = stored[q]
          BY <2>4, <4>2 DEF SchedulerInv, SchedulerTypes
        <5>2. QED
          BY <2>5, <3>1, <5>1 DEF SchedulerInv, StoreTells, Tells
      <4>3. QED
        BY <4>1, <4>2
    <3>2. QED
      BY <2>1, <3>1 DEF StoreTells, Tells
  <2>8. CopiesTell'
    BY <2>1, <2>5 DEF SchedulerInv, CopiesTell, Tells
  <2>9. CopiesUnique' /\ SavingDue' /\ ~early'
    BY <2>1 DEF SchedulerInv, CopiesUnique, SavingDue
  <2>10. QED
    BY <2>6, <2>7, <2>8, <2>9 DEF SchedulerInv
<1>8. ASSUME NEW p \in Profiles, DeleteProfile(p)
      PROVE  SchedulerInv'
  <2>1. /\ UNCHANGED <<now, runner, runs, early, turned>>
        /\ changes' = changes + 1 /\ changes < MaxChanges
        /\ stored' = [stored EXCEPT ![p] = [@ EXCEPT !.exists = FALSE]]
    BY <1>8 DEF DeleteProfile
  <2>2. /\ stored' \in [Profiles -> Profile]
        /\ \A q \in Profiles : stored'[q].last = stored[q].last
    <3> DEFINE new == [stored[p] EXCEPT !.exists = FALSE]
    <3>1. stored[p] \in Profile
      BY DEF SchedulerInv, SchedulerTypes
    <3>2. new \in Profile /\ new.last = stored[p].last
      BY <3>1 DEF Profile
    <3>3. stored' = [stored EXCEPT ![p] = new]
      BY <2>1
    <3> HIDE DEF new
    <3>4. QED
      BY <3>2, <3>3 DEF SchedulerInv, SchedulerTypes
  <2>3. SchedulerTypes'
    BY <2>1, <2>2 DEF SchedulerInv, SchedulerTypes
  <2>4. StoreTells' /\ CopiesTell' /\ CopiesUnique' /\ SavingDue' /\ ~early'
    BY <2>1, <2>2 DEF SchedulerInv, StoreTells, CopiesTell, Tells, CopiesUnique, SavingDue
  <2>5. QED
    BY <2>3, <2>4 DEF SchedulerInv
<1>9. CASE UNCHANGED schedulerVars
  BY <1>9 DEF schedulerVars, SchedulerInv, SchedulerTypes, StoreTells, CopiesTell, Tells,
              CopiesUnique, SavingDue
<1>10. QED
  BY <1>1, <1>2, <1>3, <1>4, <1>5, <1>6, <1>7, <1>8, <1>9 DEF SchedulerNext

(* The invariant holds in every reachable state.                           *)
LEMMA SchedulerInvariance == SchedulerSpec => []SchedulerInv
BY SchedulerInitInv, SchedulerNextInv, PTL DEF SchedulerSpec

(* Every variable has its type: what a pass runs was listed when it began. *)
THEOREM SchedulerTypeCorrect == SchedulerSpec => []SchedulerTypeOK
<1>1. SchedulerInv => SchedulerTypeOK
  BY DEF SchedulerInv, SchedulerTypes, SchedulerTypeOK, Entries
<1>2. QED
  BY <1>1, SchedulerInvariance, PTL

(* RunDueProfiles keeps the runs of every profile at least its schedule    *)
(* apart, whatever operators save, delete and recreate between listing and *)
(* saving, until one of them saves the profile with an older last run.     *)
THEOREM SpacedRuns == SchedulerSpec => []RunsSpaced
<1>1. SchedulerInv => RunsSpaced
  BY DEF SchedulerInv, RunsSpaced
<1>2. QED
  BY <1>1, SchedulerInvariance, PTL

(* What the pass has still to do: a profile that is due or unreadable is   *)
(* waiting, being saved or reported, only those are reported, and one at a *)
(* time is saved.                                                          *)
Wanted(p, t) == Due(p, t) \/ DueError(p, t)

PassInv ==
  /\ \A e \in runner.listed : Wanted(e.profile, runner.at) =>
       e \in runner.todo \cup runner.saving \/ e.id \in runner.out
  /\ \A p \in runner.out : \E e \in runner.listed : e.id = p /\ Wanted(e.profile, runner.at)
  /\ \A e, f \in runner.saving : e = f
  /\ runner.pc # "save" => runner.saving = {}

LEMMA PassInit == SchedulerInit => PassInv
BY DEF SchedulerInit, NoPass, PassInv

LEMMA PassNext == SchedulerInv /\ PassInv /\ [SchedulerNext]_schedulerVars => PassInv'
<1> SUFFICES ASSUME SchedulerInv, PassInv, [SchedulerNext]_schedulerVars PROVE PassInv'
  OBVIOUS
<1>0. /\ runner \in [pc : {"idle", "loop", "save"}, at : 0 .. MaxTime,
                     listed : SUBSET Entries, todo : SUBSET Entries,
                     saving : SUBSET Entries, out : SUBSET Profiles]
      /\ runner.todo \subseteq runner.listed /\ runner.saving \subseteq runner.listed
  BY DEF SchedulerInv, SchedulerTypes
<1>1. CASE StartPass
  <2>1. PICK listed : runner' = [pc |-> "loop", at |-> now, listed |-> listed,
                                 todo |-> listed, saving |-> {}, out |-> {}]
    BY <1>1 DEF StartPass
  <2>2. QED
    BY <2>1 DEF PassInv
<1>2. CASE EndPass
  <2>1. runner' = [runner EXCEPT !.pc = "idle"] /\ runner.pc = "loop"
    BY <1>2 DEF EndPass
  <2>2. QED
    BY <1>0, <2>1 DEF PassInv
<1>3. ASSUME NEW e \in runner.todo, Skip(e) PROVE PassInv'
  <2>1. runner' = [runner EXCEPT !.todo = @ \ {e}] /\ ~Wanted(e.profile, runner.at)
    BY <1>3 DEF Skip, Wanted
  <2>2. QED
    BY <1>0, <2>1 DEF PassInv
<1>4. ASSUME NEW e \in runner.todo, Complain(e) \/ RunFails(e) PROVE PassInv'
  <2>1. /\ runner' = [runner EXCEPT !.todo = @ \ {e}, !.out = @ \cup {e.id}]
        /\ Wanted(e.profile, runner.at) /\ e \in runner.listed
    BY <1>0, <1>4 DEF Complain, RunFails, Wanted
  <2>2. QED
    BY <1>0, <2>1 DEF PassInv
<1>5. ASSUME NEW e \in runner.todo, RunSucceeds(e) PROVE PassInv'
  <2>1. /\ runner' = [runner EXCEPT !.pc = "save", !.todo = @ \ {e}, !.saving = {e}]
        /\ runner.pc = "loop"
    BY <1>5 DEF RunSucceeds
  <2>2. QED
    BY <1>0, <2>1 DEF PassInv
<1>6. ASSUME NEW e \in runner.saving, SaveRun(e) PROVE PassInv'
  <2>1. runner' = [runner EXCEPT !.pc = "loop", !.saving = {}, !.out = @ \cup {e.id}]
    BY <1>6 DEF SaveRun
  <2>2. Wanted(e.profile, runner.at) /\ e \in runner.listed
    BY <1>0 DEF SchedulerInv, SavingDue, Wanted
  <2>3. QED
    BY <1>0, <2>1, <2>2 DEF PassInv
<1>7. CASE runner' = runner
  BY <1>7 DEF PassInv
<1>8. \A p \in Profiles : SaveProfile(p) \/ DeleteProfile(p) => runner' = runner
  BY DEF SaveProfile, DeleteProfile
<1>9. QED
  BY <1>1, <1>2, <1>3, <1>4, <1>5, <1>6, <1>7, <1>8 DEF SchedulerNext, Tick, schedulerVars

(* A pass reports every profile that was due or unreadable when it began   *)
(* and no other, for any number of profiles, in any order and whichever    *)
(* runs or saves fail.                                                     *)
THEOREM PassesComplete == SchedulerSpec => []PassComplete
<1>1. SchedulerInv /\ PassInv => PassComplete
  BY DEF PassInv, PassComplete, Wanted
<1>2. QED
  BY <1>1, SchedulerInvariance, PassInit, PassNext, PTL DEF SchedulerSpec

(* The comparisons of InMaintenanceWindow decide membership in the         *)
(* interval, for a day of any length.                                      *)
LEMMA WindowDecides ==
  ASSUME NEW a \in 0 .. Day - 1, NEW b \in 0 .. Day - 1, NEW t \in Nat
  PROVE  InMaintenanceWindow(<<a, b>>, t) <=> t % Day \in Minutes(<<a, b>>)
<1> DEFINE c == t % Day
           n == IF a < b THEN b - a ELSE b + Day - a
<1>1. Day \in Nat /\ Day > 0
  BY DayAssumption
<1>2. c \in 0 .. Day - 1
  BY <1>1
<1> HIDE DEF c
<1>3. c \in Minutes(<<a, b>>) <=> \E k \in 0 .. n - 1 : c = Wrap(a + k)
  BY DEF Minutes
<1>4. ASSUME NEW k \in 0 .. n - 1, c = Wrap(a + k)
      PROVE  InMaintenanceWindow(<<a, b>>, t)
  <2>1. a = b \/ (a < b /\ c >= a /\ c < b) \/ (a > b /\ (c >= a \/ c < b))
    BY <1>1, <1>2, <1>4 DEF Wrap
  <2>2. QED
    BY <1>1, <2>1 DEF InMaintenanceWindow, c
<1>5. ASSUME InMaintenanceWindow(<<a, b>>, t)
      PROVE  \E k \in 0 .. n - 1 : c = Wrap(a + k)
  <2>1. a = b \/ (a < b /\ c >= a /\ c < b) \/ (a > b /\ (c >= a \/ c < b))
    BY <1>1, <1>5 DEF InMaintenanceWindow, c
  <2>2. CASE c >= a
    <3>1. c - a \in 0 .. n - 1 /\ c = Wrap(a + (c - a))
      BY <1>1, <1>2, <2>1, <2>2 DEF Wrap
    <3>2. QED
      BY <3>1
  <2>3. CASE c < a
    <3>1. c + Day - a \in 0 .. n - 1 /\ c = Wrap(a + (c + Day - a))
      BY <1>1, <1>2, <2>1, <2>3 DEF Wrap
    <3>2. QED
      BY <3>1
  <2>4. QED
    BY <1>2, <2>2, <2>3
<1>6. QED
  BY <1>3, <1>4, <1>5 DEF c

(* A profile runs in its maintenance window and only there, windows over   *)
(* midnight included.                                                      *)
THEOREM WindowCorrect == SchedulerSpec => []WindowIsInterval
<1>1. SchedulerInv => WindowIsInterval
  <2> SUFFICES ASSUME SchedulerInv, NEW w \in (0 .. Day - 1) \X (0 .. Day - 1)
               PROVE  InMaintenanceWindow(w, now) <=> now % Day \in Minutes(w)
    BY DEF WindowIsInterval
  <2>1. now \in Nat
    BY ConstantFacts DEF SchedulerInv, SchedulerTypes
  <2>2. w = <<w[1], w[2]>> /\ w[1] \in 0 .. Day - 1 /\ w[2] \in 0 .. Day - 1
    OBVIOUS
  <2>3. QED
    BY <2>1, <2>2, WindowDecides
<1>2. QED
  BY <1>1, SchedulerInvariance, PTL
============================================================================
