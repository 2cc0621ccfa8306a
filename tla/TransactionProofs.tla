------------------------- MODULE TransactionProofs -------------------------
(***************************************************************************)
(* Proofs about module Transaction, for any number of nodes.               *)
(***************************************************************************)
EXTENDS Transaction, TLAPS

(* The loops stay inside the results.                                      *)
LoopsInside ==
  /\ phase = "rollback" => i <= Nodes /\ j <= i /\ ~results[i].applied
  /\ phase = "done" => i = Nodes + 1

(* Nodes that the second loop has not reached: only validated.             *)
Pending(k) ==
  \/ phase = "validate"
  \/ phase = "apply" /\ k >= i
  \/ phase = "rollback" /\ k > i
Untouched(k) ==
  /\ ~results[k].applied /\ ~results[k].rolledBack /\ world[k] = "old"
  /\ results[k].error \in {"", "validate"}
NotYetApplied ==
  /\ \A k \in Index : Pending(k) => Untouched(k)
  /\ phase = "validate" => \A k \in Index : k >= i =>
       ~results[k].validated /\ results[k].error = ""

(* What the flags of a node tell of it, whatever was lost.                 *)
FlagsTell(k) ==
  /\ results[k].rolledBack => results[k].applied /\ world[k] = "old"
  /\ results[k].validated => results[k].error # "validate"
  /\ results[k].applied => results[k].validated /\ results[k].error # "apply"
  /\ ~results[k].applied /\ world[k] = "new" => results[k].error = "apply"
  /\ results[k].applied /\ ~results[k].rolledBack /\ results[k].error = ""
       => world[k] = "new"
FlagsAreTrue == \A k \in Index : FlagsTell(k)

(* And when no failed call took effect.                                    *)
FlagsAreExact ==
  ~late => \A k \in Index :
    world[k] = "new" <=> results[k].applied /\ ~results[k].rolledBack

PartialCounted ==
  phase = "done" => partial = (Successes # {} /\ Successes # Index)

Inv == TypeOK /\ LoopsInside /\ NotYetApplied /\ FlagsAreTrue /\ FlagsAreExact
       /\ PartialCounted

(* Before the first validation.                                            *)
LEMMA InitInv == Init => Inv
<1> SUFFICES ASSUME Init PROVE Inv
  OBVIOUS
<1>1. TypeOK
  <2>1. results \in [Index -> NodeResult]
    BY DEF Init, NodeResult, Errors
  <2>2. i = 1 /\ j = 1
    BY DEF Init
  <2>3. partial \in BOOLEAN /\ late \in BOOLEAN /\ rollbackOnFailure \in BOOLEAN
    BY DEF Init
  <2>4. world \in [Index -> {"old", "new"}] /\ phase \in {"validate", "apply", "rollback", "done"}
    BY DEF Init
  <2>5. QED
    BY <2>1, <2>2, <2>3, <2>4, NodesAssumption DEF TypeOK
<1>3. LoopsInside /\ PartialCounted
  BY DEF Init, LoopsInside, PartialCounted
<1>4. \A k \in Index : /\ ~results[k].applied /\ ~results[k].rolledBack
                       /\ ~results[k].validated /\ results[k].error = ""
                       /\ world[k] = "old"
  BY DEF Init
<1>6. NotYetApplied
  BY <1>4 DEF NotYetApplied, Untouched
<1>7. FlagsAreTrue /\ FlagsAreExact
  BY <1>4 DEF FlagsAreTrue, FlagsTell, FlagsAreExact
<1>8. QED
  BY <1>1, <1>3, <1>6, <1>7 DEF Inv

(* A step that changes the result of one node k leaves the facts about     *)
(* the others alone.                                                       *)
LEMMA OneNode ==
  ASSUME Inv, NEW k \in Index, NEW r \in NodeResult, NEW w \in {"old", "new"},
         results' = [results EXCEPT ![k] = r], world' = [world EXCEPT ![k] = w]
  PROVE  /\ results' \in [Index -> NodeResult] /\ world' \in [Index -> {"old", "new"}]
         /\ results'[k] = r /\ world'[k] = w
         /\ \A m \in Index \ {k} : results'[m] = results[m] /\ world'[m] = world[m]
BY DEF Inv, TypeOK

(* Every step keeps the invariant.                                         *)
LEMMA NextInv == Inv /\ [Next]_vars => Inv'
<1> SUFFICES ASSUME Inv, [Next]_vars PROVE Inv'
  OBVIOUS
<1> USE NodesAssumption
<1>t. /\ i \in Nat /\ j \in Nat /\ Index = 1 .. Nodes /\ results \in [Index -> NodeResult]
      /\ world \in [Index -> {"old", "new"}]
  BY DEF Inv, TypeOK, Index
<1>r. \A k \in Index : /\ results[k] \in NodeResult
                       /\ results[k].validated \in BOOLEAN /\ results[k].applied \in BOOLEAN
                       /\ results[k].rolledBack \in BOOLEAN /\ results[k].error \in Errors
  BY <1>t DEF NodeResult
<1>1. ASSUME NEW ok \in BOOLEAN, Validate(ok), NEW n \in Nat, n = i PROVE Inv'
  <2> DEFINE r == IF ok THEN [results[n] EXCEPT !.validated = TRUE]
                        ELSE [results[n] EXCEPT !.error = "validate"]
  <2>1. /\ phase = "validate" /\ n = i /\ n \in Index /\ i' = i + 1
        /\ UNCHANGED <<phase, j, partial, world, late, rollbackOnFailure>>
    BY <1>1, <1>t DEF Validate, Inv, TypeOK
  <2>2. r \in NodeResult /\ results' = [results EXCEPT ![n] = r]
    BY <1>1, <1>r, <2>1 DEF Validate, NodeResult, Errors
  <2>3. Untouched(n) /\ ~results[n].validated /\ results[n].error = ""
    <3>1. Pending(n) /\ n >= i
      BY <2>1, <1>t DEF Pending
    <3>2. QED
      BY <2>1, <3>1 DEF Inv, NotYetApplied
  <2>4. /\ r.applied = results[n].applied /\ r.rolledBack = results[n].rolledBack
        /\ r.error \in {"", "validate"} /\ (r.validated => r.error = "")
    BY <2>3, <1>r, <2>1 DEF NodeResult
  <2> HIDE DEF r
  <2>5. /\ results' \in [Index -> NodeResult] /\ results'[n] = r
        /\ \A m \in Index \ {n} : results'[m] = results[m]
    BY <2>1, <2>2, <1>t
  <2>6. TypeOK' /\ LoopsInside' /\ PartialCounted'
    BY <2>1, <2>5, <1>t DEF Inv, TypeOK, LoopsInside, PartialCounted
  <2>7. NotYetApplied'
    <3>1. ASSUME NEW k \in Index PROVE Untouched(k)'
      <4>1. Untouched(k)
        BY <2>1 DEF Inv, NotYetApplied, Pending
      <4>2. QED
        BY <2>1, <2>3, <2>4, <2>5, <4>1 DEF Untouched
    <3>2. ASSUME NEW k \in Index, k >= i'
          PROVE  ~results'[k].validated /\ results'[k].error = ""
      <4>1. k \in Index \ {n} /\ k >= i
        BY <2>1, <3>2, <1>t
      <4>2. QED
        BY <2>1, <2>5, <4>1 DEF Inv, NotYetApplied
    <3>3. QED
      BY <3>1, <3>2 DEF NotYetApplied
  <2>8. FlagsAreTrue' /\ FlagsAreExact'
    BY <2>1, <2>3, <2>4, <2>5, ZenonT(40) DEF Inv, FlagsAreTrue, FlagsTell, FlagsAreExact, Untouched
  <2>9. QED
    BY <2>6, <2>7, <2>8 DEF Inv
<1>2. CASE StartApply
  <2>1. /\ phase = "validate" /\ phase' = "apply" /\ i' = 1
        /\ UNCHANGED <<j, results, partial, world, late, rollbackOnFailure>>
    BY <1>2 DEF StartApply
  <2>2. \A k \in Index : Untouched(k)
    BY <2>1 DEF Inv, NotYetApplied, Pending
  <2>3. TypeOK' /\ LoopsInside' /\ PartialCounted'
    BY <2>1, <1>t DEF Inv, TypeOK, LoopsInside, PartialCounted
  <2>4. NotYetApplied'
    BY <2>1, <2>2 DEF NotYetApplied, Untouched
  <2>5. FlagsAreTrue' /\ FlagsAreExact'
    BY <2>1 DEF Inv, FlagsAreTrue, FlagsTell, FlagsAreExact
  <2>6. QED
    BY <2>3, <2>4, <2>5 DEF Inv
<1>3. CASE Skip
  <2>1. /\ phase = "apply" /\ i <= Nodes /\ i' = i + 1
        /\ UNCHANGED <<phase, j, results, partial, world, late, rollbackOnFailure>>
    BY <1>3 DEF Skip
  <2>3. TypeOK' /\ LoopsInside' /\ PartialCounted'
    BY <2>1, <1>t DEF Inv, TypeOK, LoopsInside, PartialCounted
  <2>4. ASSUME NEW k \in Index, Pending(k)' PROVE Pending(k)
    BY <2>1, <2>4, <1>t DEF Pending
  <2>5. NotYetApplied'
    BY <2>1, <2>4 DEF Inv, NotYetApplied, Untouched
  <2>6. FlagsAreTrue' /\ FlagsAreExact'
    BY <2>1 DEF Inv, FlagsAreTrue, FlagsTell, FlagsAreExact
  <2>7. QED
    BY <2>3, <2>5, <2>6 DEF Inv
<1>4. ASSUME NEW ok \in BOOLEAN, NEW effect \in BOOLEAN, Apply(ok, effect),
             NEW n \in Nat, n = i
      PROVE  Inv'
  <2> DEFINE r == IF ok THEN [results[n] EXCEPT !.applied = TRUE]
                        ELSE [results[n] EXCEPT !.error = "apply"]
             w == IF effect THEN "new" ELSE world[n]
  <2>1. /\ phase = "apply" /\ n = i /\ n \in Index /\ results[n].validated /\ (ok => effect)
        /\ late' = (late \/ (~ok /\ effect))
        /\ UNCHANGED <<partial, rollbackOnFailure>>
    BY <1>4, <1>t DEF Apply, Inv, TypeOK
  <2>2. \/ phase' = "apply" /\ i' = i + 1 /\ j' = j
        \/ ~ok /\ phase' = "rollback" /\ i' = i /\ j' = 1
    BY <1>4, <2>1 DEF Apply
  <2>3. /\ r \in NodeResult /\ results' = [results EXCEPT ![n] = r]
        /\ w \in {"old", "new"} /\ world' = [world EXCEPT ![n] = w]
    BY <1>4, <1>r, <1>t, <2>1 DEF Apply, NodeResult, Errors
  <2>4. Untouched(n) /\ results[n].error = ""
    <3>1. Pending(n)
      BY <2>1, <1>t DEF Pending
    <3>2. Untouched(n) /\ FlagsTell(n)
      BY <2>1, <3>1 DEF Inv, NotYetApplied, FlagsAreTrue
    <3>3. QED
      BY <2>1, <3>2 DEF Untouched, FlagsTell
  <2>5. /\ r.validated /\ ~r.rolledBack /\ r.applied = ok
        /\ r.error = (IF ok THEN "" ELSE "apply") /\ w = (IF effect THEN "new" ELSE "old")
    BY <2>1, <2>4, <1>r DEF NodeResult, Untouched
  <2> HIDE DEF r, w
  <2>6. /\ results' \in [Index -> NodeResult] /\ world' \in [Index -> {"old", "new"}]
        /\ results'[n] = r /\ world'[n] = w
        /\ \A m \in Index \ {n} : results'[m] = results[m] /\ world'[m] = world[m]
    BY <2>1, <2>3, OneNode
  <2>7. TypeOK'
    BY <2>1, <2>2, <2>6, <1>t DEF Inv, TypeOK
  <2>8. LoopsInside' /\ PartialCounted'
    <3>1. phase' = "rollback" => i' = n /\ j' = 1 /\ ~results'[n].applied
      BY <2>1, <2>2, <2>5, <2>6
    <3>2. phase' # "done" /\ n <= Nodes /\ 1 <= n
      BY <2>1, <2>2, <1>t
    <3>3. QED
      BY <3>1, <3>2 DEF LoopsInside, PartialCounted
  <2>9. NotYetApplied'
    <3>1. ASSUME NEW k \in Index, Pending(k)' PROVE k > n /\ Pending(k)
      BY <2>1, <2>2, <3>1, <1>t DEF Pending
    <3>2. ASSUME NEW k \in Index, Pending(k)' PROVE Untouched(k)'
      <4>1. k \in Index \ {n} /\ Untouched(k)
        <5>1. k > n /\ Pending(k)
          BY <3>1, <3>2
        <5>2. Untouched(k)
          BY <5>1 DEF Inv, NotYetApplied
        <5>3. QED
          BY <5>1, <5>2, <1>t, <2>1
      <4>2. QED
        BY <4>1, <2>6 DEF Untouched
    <3>3. phase' # "validate"
      BY <2>2
    <3>4. QED
      BY <3>2, <3>3 DEF NotYetApplied
  <2>10. FlagsAreTrue'
    <3>1. FlagsTell(n)'
      BY <2>1, <2>5, <2>6 DEF FlagsTell
    <3>2. ASSUME NEW k \in Index \ {n} PROVE FlagsTell(k)'
      BY <2>6 DEF Inv, FlagsAreTrue, FlagsTell
    <3>3. QED
      BY <3>1, <3>2 DEF FlagsAreTrue
  <2>11. FlagsAreExact'
    BY <2>1, <2>5, <2>6 DEF Inv, FlagsAreExact
  <2>12. QED
    BY <2>7, <2>8, <2>9, <2>10, <2>11 DEF Inv
<1>5. ASSUME NEW ok \in BOOLEAN, NEW effect \in BOOLEAN, Rollback(ok, effect),
             NEW n \in Nat, n = j
      PROVE  Inv'
  <2> DEFINE r == IF ok THEN [results[n] EXCEPT !.rolledBack = TRUE]
                  ELSE IF results[n].error = "" THEN [results[n] EXCEPT !.error = "rollback"]
                  ELSE results[n]
             w == IF effect THEN "old" ELSE world[n]
  <2>1. /\ phase = "rollback" /\ n = j /\ n \in Index /\ n < i /\ i <= Nodes
        /\ results[n].applied /\ (ok => effect)
        /\ late' = (late \/ (~ok /\ effect)) /\ j' = j + 1
        /\ UNCHANGED <<phase, i, partial, rollbackOnFailure>>
    BY <1>5 DEF Rollback, RolledBack, Inv, LoopsInside
  <2>3. /\ r \in NodeResult /\ results' = [results EXCEPT ![n] = r]
        /\ w \in {"old", "new"} /\ world' = [world EXCEPT ![n] = w]
    BY <1>5, <1>r, <1>t, <2>1 DEF Rollback, RollbackResult, NodeResult, Errors
  <2>4. FlagsTell(n)
    BY <2>1 DEF Inv, FlagsAreTrue
  <2>5. /\ r.validated = results[n].validated /\ r.applied = results[n].applied
        /\ r.rolledBack = (ok \/ results[n].rolledBack)
        /\ r.error = (IF ~ok /\ results[n].error = "" THEN "rollback" ELSE results[n].error)
    BY <2>1, <1>r DEF NodeResult
  <2>w. w = (IF effect THEN "old" ELSE world[n])
    OBVIOUS
  <2> HIDE DEF r, w
  <2>6. /\ results' \in [Index -> NodeResult] /\ world' \in [Index -> {"old", "new"}]
        /\ results'[n] = r /\ world'[n] = w
        /\ \A m \in Index \ {n} : results'[m] = results[m] /\ world'[m] = world[m]
    BY <2>1, <2>3, OneNode
  <2>7. TypeOK'
    BY <2>1, <2>6, <1>t DEF Inv, TypeOK
  <2>8. LoopsInside' /\ PartialCounted'
    <3>1. i \in Index \ {n}
      BY <2>1, <1>t
    <3>2. QED
      BY <2>1, <2>6, <3>1, <1>t DEF Inv, LoopsInside, PartialCounted
  <2>9. NotYetApplied'
    <3>1. ASSUME NEW k \in Index, Pending(k)' PROVE Untouched(k)'
      <4>1. k \in Index \ {n} /\ Untouched(k)
        BY <2>1, <3>1, <1>t DEF Inv, NotYetApplied, Pending
      <4>2. QED
        BY <4>1, <2>6 DEF Untouched
    <3>2. QED
      BY <2>1, <3>1 DEF NotYetApplied
  <2>10. FlagsAreTrue'
    <3>1. FlagsTell(n)'
      BY <2>1, <2>4, <2>5, <2>w, <2>6, <1>r DEF FlagsTell
    <3>2. ASSUME NEW k \in Index \ {n} PROVE FlagsTell(k)'
      BY <2>6 DEF Inv, FlagsAreTrue, FlagsTell
    <3>3. QED
      BY <3>1, <3>2 DEF FlagsAreTrue
  <2>11. FlagsAreExact'
    <3> SUFFICES ASSUME ~late', NEW k \in Index
                 PROVE  world'[k] = "new" <=> results'[k].applied /\ ~results'[k].rolledBack
      BY DEF FlagsAreExact
    <3>1. ~late /\ (effect => ok)
      BY <2>1
    <3>2. world[k] = "new" <=> results[k].applied /\ ~results[k].rolledBack
      BY <3>1 DEF Inv, FlagsAreExact
    <3>3. CASE k = n
      BY <3>1, <3>2, <3>3, <2>1, <2>5, <2>w, <2>6
    <3>4. CASE k # n
      BY <3>2, <3>4, <2>6
    <3>5. QED
      BY <3>3, <3>4
  <2>12. QED
    BY <2>7, <2>8, <2>9, <2>10, <2>11 DEF Inv
<1>6. CASE RollbackSkip
  <2>1. /\ phase = "rollback" /\ j <= i /\ ~RolledBack(j) /\ i <= Nodes
        /\ UNCHANGED <<results, partial, world, late, rollbackOnFailure>>
        /\ \/ j < i /\ j' = j + 1 /\ UNCHANGED <<phase, i>>
           \/ j = i /\ phase' = "apply" /\ i' = i + 1 /\ j' = 1
    BY <1>6, <1>t DEF RollbackSkip, Inv, LoopsInside
  <2>3. TypeOK' /\ LoopsInside' /\ PartialCounted'
    BY <2>1, <1>t DEF Inv, TypeOK, LoopsInside, PartialCounted
  <2>4. ASSUME NEW k \in Index, Pending(k)' PROVE Pending(k)
    BY <2>1, <2>4, <1>t DEF Pending
  <2>5. NotYetApplied'
    BY <2>1, <2>4 DEF Inv, NotYetApplied, Untouched
  <2>6. FlagsAreTrue' /\ FlagsAreExact'
    BY <2>1 DEF Inv, FlagsAreTrue, FlagsTell, FlagsAreExact
  <2>7. QED
    BY <2>3, <2>5, <2>6 DEF Inv
<1>7. CASE Finish
  <2>1. /\ phase' = "done" /\ i = Nodes + 1
        /\ partial' = (Successes # {} /\ Successes # Index)
        /\ UNCHANGED <<i, j, results, world, late, rollbackOnFailure>>
    BY <1>7 DEF Finish
  <2>2. PartialCounted'
    BY <2>1 DEF PartialCounted, Successes
  <2>3. QED
    BY <2>1, <2>2, <1>t DEF Inv, TypeOK, LoopsInside, NotYetApplied, Pending,
         FlagsAreTrue, FlagsTell, FlagsAreExact
<1>8. CASE UNCHANGED vars
  BY <1>8 DEF vars, Inv, TypeOK, LoopsInside, NotYetApplied, Pending, Untouched,
       FlagsAreTrue, FlagsTell, FlagsAreExact, PartialCounted, Successes
<1>9. QED
  BY <1>1, <1>2, <1>3, <1>4, <1>5, <1>6, <1>7, <1>8, <1>t DEF Next

(* Execute keeps the invariant throughout.                                 *)
LEMMA InvHolds == Spec => []Inv
BY InitInv, NextInv, PTL DEF Spec

(* All variables of Execute keep their types.                              *)
THEOREM TypeCorrect == Spec => []TypeOK
<1>1. Inv => TypeOK
  BY DEF Inv
<1>2. QED
  BY <1>1, InvHolds, PTL

(* What PresentResult shows of a node is true when Execute returns, for    *)
(* any number of nodes and any failures: "rollback failure stays visible". *)
THEOREM ShownTrue == Spec => []ShownIsTrue
<1>1. Inv => ShownIsTrue
  <2> SUFFICES ASSUME Inv, NEW k \in Index
               PROVE  /\ Present(results[k]) = "applied" => world[k] = "new"
                      /\ Present(results[k]) = "rolled-back" => world[k] = "old"
                      /\ results[k].applied /\ results[k].error # "" /\ ~results[k].rolledBack
                           => Present(results[k]) = "failed"
    BY DEF ShownIsTrue
  <2>1. FlagsTell(k)
    BY DEF Inv, FlagsAreTrue
  <2>2. results[k].rolledBack \in BOOLEAN /\ results[k].applied \in BOOLEAN
    BY DEF Inv, TypeOK, NodeResult
  <2>3. QED
    BY <2>1, <2>2 DEF FlagsTell, Present
<1>2. QED
  BY <1>1, InvHolds, PTL

(* A changed node is reported, and a transaction is partial exactly when   *)
(* it is, when Execute returns: "Partial apply and rollback failures       *)
(* remain visible".                                                        *)
THEOREM ReportsComplete == Spec => []ReportIsComplete
<1>1. Inv => ChangeIsReported
  BY DEF Inv, TypeOK, ChangeIsReported, FlagsAreTrue, FlagsTell, NodeResult
<1>2. Inv => PartialIsExact
  <2> SUFFICES ASSUME Inv, phase = "done", ~late
               PROVE  partial <=> \E k, m \in Index : world[k] = "new" /\ world[m] = "old"
    BY DEF PartialIsExact
  <2>1. Successes = {k \in Index : world[k] = "new"}
    BY DEF Inv, FlagsAreExact, Successes
  <2>2. partial = (Successes # {} /\ Successes # Index)
    BY DEF Inv, PartialCounted
  <2>3. \A k \in Index : world[k] \in {"old", "new"}
    BY DEF Inv, TypeOK
  <2>4. QED
    BY <2>1, <2>2, <2>3
<1>3. QED
  BY <1>1, <1>2, InvHolds, PTL DEF ReportIsComplete

============================================================================
