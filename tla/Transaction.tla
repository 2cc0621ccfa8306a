---------------------------- MODULE Transaction ----------------------------
(***************************************************************************)
(* Execute of propagation/transaction.go: validate a plan on every node,   *)
(* apply it node by node, and on a failure roll the earlier nodes back;    *)
(* and PresentResult of propagation/ui.go, what the operator is shown.     *)
(*                                                                         *)
(* The executor is the product's.  A call of it is one step that succeeds  *)
(* or fails; a failed Apply or Rollback may have taken effect nonetheless, *)
(* because its answer was lost.  `world` is what each node really holds    *)
(* and `late` that a failed call took effect; Execute sees neither.        *)
(***************************************************************************)
EXTENDS Naturals

CONSTANT Nodes  \* the number of target nodes

ASSUME NodesAssumption == Nodes \in Nat

Index == 1 .. Nodes
Errors == {"", "validate", "apply", "rollback"}
NodeResult == [validated : BOOLEAN, applied : BOOLEAN, rolledBack : BOOLEAN,
               error : Errors]

VARIABLES rollbackOnFailure,  \* parameter of Execute
          phase,    \* the loop Execute is in
          i,        \* its index
          j,        \* the index of the rollback loop
          results,  \* out.Results
          partial,  \* out.Partial
          world,    \* "old" or "new" on each node
          late      \* history: a failed call took effect

vars == <<rollbackOnFailure, phase, i, j, results, partial, world, late>>

(* The types of all variables.                                             *)
TypeOK ==
  /\ phase \in {"validate", "apply", "rollback", "done"}
  /\ i \in 1 .. Nodes + 1 /\ j \in 1 .. Nodes + 1
  /\ results \in [Index -> NodeResult]
  /\ partial \in BOOLEAN
  /\ world \in [Index -> {"old", "new"}]
  /\ rollbackOnFailure \in BOOLEAN /\ late \in BOOLEAN

Init ==
  /\ phase = "validate" /\ i = 1 /\ j = 1
  /\ results = [k \in Index |-> [validated |-> FALSE, applied |-> FALSE,
                                 rolledBack |-> FALSE, error |-> ""]]
  /\ partial = FALSE
  /\ world = [k \in Index |-> "old"]
  /\ rollbackOnFailure \in BOOLEAN /\ late = FALSE

----------------------------------------------------------------------------
(* Mutated forms of the definitions below.                                 *)

RollbackMarksSilently(k, ok) == [results EXCEPT ![k].rolledBack = TRUE]

PresentAppliedFirst(r) ==
  IF r.rolledBack THEN "rolled-back"
  ELSE IF r.applied THEN "applied"
  ELSE IF r.error # "" THEN "failed"
  ELSE IF r.validated THEN "validated" ELSE "pending"

----------------------------------------------------------------------------
(* The first loop: a failure leaves the node out of the second one.        *)
Validate(ok) ==
  /\ phase = "validate" /\ i <= Nodes
  /\ results' = IF ok THEN [results EXCEPT ![i].validated = TRUE]
                      ELSE [results EXCEPT ![i].error = "validate"]
  /\ i' = i + 1
  /\ UNCHANGED <<phase, j, partial, world, late, rollbackOnFailure>>

StartApply ==
  /\ phase = "validate" /\ i = Nodes + 1
  /\ phase' = "apply" /\ i' = 1
  /\ UNCHANGED <<j, results, partial, world, late, rollbackOnFailure>>

Skip ==
  /\ phase = "apply" /\ i <= Nodes /\ ~results[i].validated
  /\ i' = i + 1
  /\ UNCHANGED <<phase, j, results, partial, world, late, rollbackOnFailure>>

(* Apply on node i.  A failure starts the rollback loop, after which the   *)
(* nodes behind i are still applied.                                       *)
Apply(ok, effect) ==
  /\ phase = "apply" /\ i <= Nodes /\ results[i].validated
  /\ ok => effect
  /\ late' = (late \/ (~ok /\ effect))
  /\ world' = IF effect THEN [world EXCEPT ![i] = "new"] ELSE world
  /\ IF ok
       THEN /\ results' = [results EXCEPT ![i].applied = TRUE]
            /\ i' = i + 1 /\ UNCHANGED <<phase, j>>
       ELSE /\ results' = [results EXCEPT ![i].error = "apply"]
            /\ IF rollbackOnFailure
                 THEN phase' = "rollback" /\ j' = 1 /\ UNCHANGED i
                 ELSE i' = i + 1 /\ UNCHANGED <<phase, j>>
  /\ UNCHANGED <<partial, rollbackOnFailure>>

(* The earlier results the rollback loop visits: every applied one, those  *)
(* that an earlier failure has rolled back already included.               *)
RolledBack(k) == k < i /\ results[k].applied

RollbackResult(k, ok) ==
  IF ok THEN [results EXCEPT ![k].rolledBack = TRUE]
  ELSE IF results[k].error = "" THEN [results EXCEPT ![k].error = "rollback"]
  ELSE results

Rollback(ok, effect) ==
  /\ phase = "rollback" /\ j \in Index /\ RolledBack(j)
  /\ ok => effect
  /\ late' = (late \/ (~ok /\ effect))
  /\ world' = IF effect THEN [world EXCEPT ![j] = "old"] ELSE world
  /\ results' = RollbackResult(j, ok)
  /\ j' = j + 1
  /\ UNCHANGED <<phase, i, partial, rollbackOnFailure>>

RollbackSkip ==
  /\ phase = "rollback" /\ j <= i /\ ~RolledBack(j)
  /\ IF j < i THEN j' = j + 1 /\ UNCHANGED <<phase, i>>
              ELSE phase' = "apply" /\ i' = i + 1 /\ j' = 1
  /\ UNCHANGED <<results, partial, world, late, rollbackOnFailure>>

(* Counted in the code: successes > 0 and successes < len(out.Results).    *)
Successes == {k \in Index : results[k].applied /\ ~results[k].rolledBack}

Finish ==
  /\ phase = "apply" /\ i = Nodes + 1
  /\ phase' = "done"
  /\ partial' = (Successes # {} /\ Successes # Index)
  /\ UNCHANGED <<i, j, results, world, late, rollbackOnFailure>>

Next ==
  \/ \E ok \in BOOLEAN : Validate(ok)
  \/ StartApply \/ Skip \/ RollbackSkip \/ Finish
  \/ \E ok, effect \in BOOLEAN : Apply(ok, effect) \/ Rollback(ok, effect)

Spec == Init /\ [][Next]_vars

----------------------------------------------------------------------------
(* PresentResult: what the operator is shown for one node.                 *)
Present(r) ==
  CASE r.rolledBack -> "rolled-back"
    [] ~r.rolledBack /\ r.error # "" -> "failed"
    [] ~r.rolledBack /\ r.error = "" /\ r.applied -> "applied"
    [] ~r.rolledBack /\ r.error = "" /\ ~r.applied ->
         IF r.validated THEN "validated" ELSE "pending"

(* "Partial apply and rollback failures remain visible": a node that ends  *)
(* with the new configuration, by a late effect or a failed rollback too,  *)
(* is reported as applied or carries an error.                             *)
ChangeIsReported ==
  phase = "done" =>
    \A k \in Index : world[k] = "new" =>
      (results[k].applied /\ ~results[k].rolledBack) \/ results[k].error # ""

(* "rollback failure stays visible; it is never reported as atomic         *)
(* success": what is shown as applied or as rolled back is so on the node, *)
(* and a failed rollback is shown as neither.                              *)
ShownIsTrue ==
  phase = "done" =>
    \A k \in Index :
      /\ Present(results[k]) = "applied" => world[k] = "new"
      /\ Present(results[k]) = "rolled-back" => world[k] = "old"
      /\ results[k].applied /\ results[k].error # "" /\ ~results[k].rolledBack
           => Present(results[k]) = "failed"

(* A transaction is partial exactly when some node, but not every node,    *)
(* ends with the new configuration, if failed calls change nothing.        *)
PartialIsExact ==
  phase = "done" /\ ~late =>
    (partial <=> \E k, m \in Index : world[k] = "new" /\ world[m] = "old")

(* Both: the results and the transaction's flag tell what was changed.     *)
ReportIsComplete == ChangeIsReported /\ PartialIsExact

============================================================================
