---------------------------- MODULE Propagation ----------------------------
(***************************************************************************)
(* One run of a reconciliation profile: ExecuteProfile of                  *)
(* propagation/profile_execute.go, the bounded fan-out of distributed.go,  *)
(* and on every target ApplyLocal of runtime.go below Manager.Apply of     *)
(* manager.go, with the planning operators of plan.go, preview.go,         *)
(* target.go and reconcile.go.                                             *)
(*                                                                         *)
(* An object on a target is "absent", "source" (it has the digest of the   *)
(* source's envelope), or differs from it with an "older" or a "newer or   *)
(* same" revision.  The adapter and the remote calls are the product's:    *)
(* Apply makes the object "source" or fails, Restore puts the state of the *)
(* snapshot back or fails, a call may be answered, fail before it reaches  *)
(* the target, or fail while the target carries on.                        *)
(***************************************************************************)
EXTENDS Naturals, FiniteSets

CONSTANTS Members,     \* cluster members
          Enabled,     \* the members that are enabled
          Selector,    \* [all, nodes, exclude] of the profile
          Length,      \* number of exported envelopes
          Policy,      \* Policy[k]: conflict policy of envelope k
          Owned,       \* Owned[k]: the destination names no other owner
          Reversible,  \* Reversible[k]: the kind can be restored
          InitStates,  \* what a target may hold at first
          Limit,       \* concurrency of the fan-out
          MaxFaults,   \* bound on failing calls and adapter errors
          MaxEdits     \* bound on edits made on targets during the run

Envelopes == 1 .. Length
ObjectStates == {"absent", "older", "newer", "source"}
Policies == {"reject", "source-wins", "destination-wins", "manual",
             "authoritative-source", "merge"}

ASSUME EnvelopeAssumption ==
  /\ Length \in Nat \ {0} /\ Policy \in [Envelopes -> Policies]
  /\ Owned \in [Envelopes -> BOOLEAN] /\ Reversible \in [Envelopes -> BOOLEAN]
  /\ InitStates \subseteq [Envelopes -> ObjectStates]
ASSUME MembersAssumption == IsFiniteSet(Members)
(* Select refuses an empty selector and the run ends before it begins.     *)
ASSUME SelectorAssumption == Selector.all \/ Selector.nodes # {}
ASSUME BoundAssumption ==
  Limit \in Nat \ {0} /\ MaxFaults \in Nat /\ MaxEdits \in Nat

VARIABLES profile,    \* its mode and whether it is enabled
          phase,      \* where ExecuteProfile is
          g,          \* g[n]: the fan-out goroutine of n
          preview,    \* preview[n]: what PreviewNodes collected
          applied,    \* applied[n]: what ApplyNodes collected
          result,     \* ProfileRunResult, and whether an error is returned
          cancelled,  \* the context is done
          usable,     \* usable[n]: schema, dependencies, secrets, permission
          store,      \* store[n]: the objects of target n
          local,      \* local[n]: ApplyLocal on target n
          history,    \* history[n]: the status recorded by Manager.Apply
          faults, edits

coordinator == <<profile, phase, g, preview, applied, result>>
target == <<store, local, history>>
vars == <<coordinator, cancelled, usable, target, faults, edits>>

----------------------------------------------------------------------------
(* Planning.                                                               *)

(* Select: a disabled or excluded member is never a target.  Labels and    *)
(* capabilities only add further ways to match.                            *)
Selected == {n \in Members : /\ n \in Enabled /\ n \notin Selector.exclude
                             /\ Selector.all \/ n \in Selector.nodes}

(* resolveConflict, for an object that exists with another digest.         *)
resolveConflict(policy, d, owned) ==
  CASE d = "older" -> IF policy = "destination-wins" THEN "noop" ELSE "update"
    [] d = "newer" ->
         CASE policy = "source-wins" -> "update"
           [] policy = "destination-wins" -> "noop"
           [] policy = "authoritative-source" ->
                IF owned THEN "update" ELSE "conflict"
           [] OTHER -> "conflict"

(* Diff, one item.  Profiles are planned without deletions.                *)
Diff(k, d) == CASE d = "absent" -> "create"
                [] d = "source" -> "noop"
                [] OTHER -> resolveConflict(Policy[k], d, Owned[k])

Drift(s) == Cardinality({k \in Envelopes : Diff(k, s[k]) # "noop"})

(* DryRun: conflicts are items, not issues, and do not block.              *)
DryRun(n) == [ok |-> TRUE, applicable |-> usable[n], drift |-> Drift(store[n])]

NoPreview == [ok |-> FALSE, applicable |-> FALSE, drift |-> 0]

(* DecideReconcile.                                                        *)
Decision(p, drift) ==
  IF drift = 0 \/ ~p.enabled THEN "none"
  ELSE CASE p.mode = "notify-only" -> "notify"
         [] p.mode = "approval-required" -> "plan"
         [] p.mode = "automatic" -> "apply"

NoResult == [action |-> "none", drift |-> 0, applied |-> 0, failed |-> 0,
             error |-> FALSE]

Fresh == [pc |-> "idle", at |-> 1, before |-> [k \in Envelopes |-> "absent"],
          revisions |-> 0, restored |-> 0, error |-> FALSE, edited |-> FALSE]

Init ==
  /\ profile \in [mode : {"notify-only", "approval-required", "automatic"},
                  enabled : BOOLEAN]
  /\ phase = "preview"
  /\ g = [n \in Selected |-> "waiting"]
  /\ preview = [n \in Selected |-> NoPreview]
  /\ applied = [n \in Selected |-> [ok |-> FALSE, revisions |-> 0]]
  /\ result = NoResult
  /\ cancelled = FALSE
  /\ usable \in [Selected -> BOOLEAN]
  /\ store \in [Selected -> InitStates]
  /\ local = [n \in Selected |-> Fresh]
  /\ history = [n \in Selected |-> "none"]
  /\ faults = 0 /\ edits = 0

----------------------------------------------------------------------------
(* The types of all variables.                                             *)
TypeOK ==
  /\ profile \in [mode : {"notify-only", "approval-required", "automatic"},
                  enabled : BOOLEAN]
  /\ phase \in {"preview", "apply", "done"}
  /\ g \in [Selected -> {"waiting", "holding", "done"}]
  /\ preview \in [Selected -> [ok : BOOLEAN, applicable : BOOLEAN,
                              drift : 0 .. Length]]
  /\ applied \in [Selected -> [ok : BOOLEAN, revisions : 0 .. Length]]
  /\ result \in [action : {"none", "notify", "plan", "apply"}, drift : Nat,
                 applied : Nat, failed : 0 .. Cardinality(Selected),
                 error : BOOLEAN]
  /\ cancelled \in BOOLEAN
  /\ usable \in [Selected -> BOOLEAN]
  /\ store \in [Selected -> [Envelopes -> ObjectStates]]
  /\ local \in [Selected ->
       [pc : {"idle", "preview", "snapshot", "apply", "restore", "record", "done"},
        at : 0 .. Length + 1, before : [Envelopes -> ObjectStates],
        revisions : 0 .. Length, restored : 0 .. Length,
        error : BOOLEAN, edited : BOOLEAN]]
  /\ history \in [Selected -> {"none", "applied", "failed", "rolled-back"}]
  /\ faults \in 0 .. MaxFaults /\ edits \in 0 .. MaxEdits

----------------------------------------------------------------------------
(* Mutated forms of the definitions below.                                 *)

BlockedBy(n) == preview[n].ok /\ ~preview[n].applicable

StatusAny(l) == IF l.restored > 0 /\ l.error THEN "rolled-back"
                ELSE IF l.error THEN "failed" ELSE "applied"

RunFailedIgnoringErrors == {}

AcquireForever(n) ==
  /\ phase \in {"preview", "apply"} /\ g[n] = "waiting"
  /\ Cardinality({m \in Selected : g[m] # "waiting"}) < Limit
  /\ g' = [g EXCEPT ![n] = "holding"]
  /\ UNCHANGED <<profile, phase, preview, applied, result, cancelled, usable,
                 target, faults, edits>>

----------------------------------------------------------------------------
(* PreviewNodes and ApplyNodes: one goroutine per node.                    *)

Holding == {n \in Selected : g[n] = "holding"}

Acquire(n) ==
  /\ phase \in {"preview", "apply"} /\ g[n] = "waiting"
  /\ Cardinality(Holding) < Limit
  /\ g' = [g EXCEPT ![n] = "holding"]
  /\ UNCHANGED <<profile, phase, preview, applied, result, cancelled, usable,
                 target, faults, edits>>

(* The other case of the select: an error result, no slot to release.      *)
CancelWaiting(n) ==
  /\ phase \in {"preview", "apply"} /\ g[n] = "waiting" /\ cancelled
  /\ g' = [g EXCEPT ![n] = "done"]
  /\ UNCHANGED <<profile, phase, preview, applied, result, cancelled, usable,
                 target, faults, edits>>

(* The remote preview answers.                                             *)
PreviewAnswer(n) ==
  /\ phase = "preview" /\ g[n] = "holding"
  /\ preview' = [preview EXCEPT ![n] = DryRun(n)]
  /\ g' = [g EXCEPT ![n] = "done"]
  /\ UNCHANGED <<profile, phase, applied, result, cancelled, usable, target,
                 faults, edits>>

(* The remote call returns an error to the goroutine.                      *)
CallFails(n) ==
  /\ phase \in {"preview", "apply"} /\ g[n] = "holding"
  /\ faults < MaxFaults
  /\ faults' = faults + 1
  /\ g' = [g EXCEPT ![n] = "done"]
  /\ UNCHANGED <<profile, phase, preview, applied, result, cancelled, usable,
                 target, edits>>

(* The apply request reaches the target.                                   *)
ApplyArrives(n) ==
  /\ phase = "apply" /\ g[n] = "holding" /\ local[n].pc = "idle"
  /\ local' = [local EXCEPT ![n].pc = "preview"]
  /\ UNCHANGED <<coordinator, cancelled, usable, store, history, faults, edits>>

ApplyAnswer(n) ==
  /\ phase = "apply" /\ g[n] = "holding" /\ local[n].pc = "done"
  /\ applied' = [applied EXCEPT ![n] = [ok |-> ~local[n].error,
                                        revisions |-> local[n].revisions]]
  /\ g' = [g EXCEPT ![n] = "done"]
  /\ UNCHANGED <<profile, phase, preview, result, cancelled, usable, target,
                 faults, edits>>

----------------------------------------------------------------------------
(* ExecuteProfile between the two fan-outs and at its end.                 *)

Blocked(n) == ~preview[n].ok \/ ~preview[n].applicable

(* The sum of count[n] over the targets of S.                              *)
Total(S, count) == Cardinality({x \in S \X Envelopes : x[2] <= count[x[1]]})

TotalDrift == Total(Selected, [n \in Selected |-> preview[n].drift])

(* An automatic run that any target blocks returns an error.               *)
BlockedResult(drift, failed) ==
  [action |-> "apply", drift |-> drift, applied |-> 0, failed |-> failed,
   error |-> TRUE]

Decide ==
  /\ phase = "preview" /\ \A n \in Selected : g[n] = "done"
  /\ LET blocked == {n \in Selected : Blocked(n)}
         failed == Cardinality(blocked)
         decision == Decision(profile, TotalDrift)
     IN IF TotalDrift = 0 /\ failed = 0
          THEN phase' = "done" /\ UNCHANGED <<g, result>>
        ELSE IF profile.mode = "automatic" /\ blocked # {}
          THEN /\ phase' = "done" /\ UNCHANGED g
               /\ result' = BlockedResult(TotalDrift, failed)
        ELSE /\ result' = [result EXCEPT !.action = decision,
                                         !.drift = TotalDrift, !.failed = failed]
             /\ IF decision = "apply"
                  THEN phase' = "apply" /\ g' = [n \in Selected |-> "waiting"]
                  ELSE phase' = "done" /\ UNCHANGED g
  /\ UNCHANGED <<profile, preview, applied, cancelled, usable, target, faults,
                 edits>>

RunFailed == {n \in Selected : ~applied[n].ok}

Collect ==
  /\ phase = "apply" /\ \A n \in Selected : g[n] = "done"
  /\ result' = [result EXCEPT
        !.failed = Cardinality(RunFailed),
        !.applied = Total(Selected \ RunFailed,
                          [n \in Selected |-> applied[n].revisions]),
        !.error = RunFailed # {}]
  /\ phase' = "done"
  /\ UNCHANGED <<profile, g, preview, applied, cancelled, usable, target,
                 faults, edits>>

----------------------------------------------------------------------------
(* ApplyLocal and Manager.Apply on target n.                               *)

(* PreviewLocal, with the target's own state of this moment.               *)
LocalPreview(n) ==
  /\ local[n].pc = "preview"
  /\ IF usable[n]
       THEN local' = [local EXCEPT ![n].pc = "snapshot"]
       ELSE local' = [local EXCEPT ![n].pc = "record", ![n].error = TRUE]
  /\ UNCHANGED <<coordinator, cancelled, usable, store, history, faults, edits>>

LocalSnapshot(n) ==
  /\ local[n].pc = "snapshot"
  /\ local' = [local EXCEPT ![n].pc = "apply", ![n].before = store[n],
                            ![n].edited = FALSE]
  /\ UNCHANGED <<coordinator, cancelled, usable, store, history, faults, edits>>

(* State or Snapshot of the adapter returns an error, and so ApplyLocal.   *)
LocalReadFails(n) ==
  /\ local[n].pc \in {"preview", "snapshot"} /\ faults < MaxFaults
  /\ faults' = faults + 1
  /\ local' = [local EXCEPT ![n].pc = "record", ![n].error = TRUE]
  /\ UNCHANGED <<coordinator, cancelled, usable, store, history, edits>>

(* Every envelope is applied, whatever the plan says of it.                *)
LocalApply(n) ==
  /\ local[n].pc = "apply"
  /\ store' = [store EXCEPT ![n][local[n].at] = "source"]
  /\ local' = [local EXCEPT
        ![n].revisions = @ + 1,
        ![n].at = @ + 1,
        ![n].pc = IF local[n].at = Length THEN "record" ELSE "apply"]
  /\ UNCHANGED <<coordinator, cancelled, usable, history, faults, edits>>

LocalApplyFails(n) ==
  /\ local[n].pc = "apply" /\ faults < MaxFaults
  /\ faults' = faults + 1
  /\ local' = [local EXCEPT ![n].error = TRUE,
                            ![n].at = @ - 1,
                            ![n].pc = IF local[n].at = 1 THEN "record" ELSE "restore"]
  /\ UNCHANGED <<coordinator, cancelled, usable, store, history, edits>>

(* The state the rollback restores; an object that was not in the snapshot *)
(* is reversible whatever its kind.                                        *)
Restorable(n, k) == local[n].before[k] = "absent" \/ Reversible[k]

(* One round of the reverse loop: restored, skipped or failed.             *)
LocalRestore(n) ==
  /\ local[n].pc = "restore"
  /\ LET k == local[n].at
         step(count) == [local EXCEPT
               ![n].restored = @ + count,
               ![n].at = @ - 1,
               ![n].pc = IF k = 1 THEN "record" ELSE "restore"]
     IN \/ /\ Restorable(n, k)
           /\ store' = [store EXCEPT ![n][k] = local[n].before[k]]
           /\ local' = step(1) /\ UNCHANGED faults
        \/ /\ Restorable(n, k) /\ faults < MaxFaults
           /\ faults' = faults + 1
           /\ local' = step(0) /\ UNCHANGED store
        \/ /\ ~Restorable(n, k)
           /\ local' = step(0) /\ UNCHANGED <<store, faults>>
  /\ UNCHANGED <<coordinator, cancelled, usable, history, edits>>

(* The status of the history record.                                       *)
Status(l) == IF l.restored > 0 /\ l.restored >= l.revisions THEN "rolled-back"
             ELSE IF l.error THEN "failed" ELSE "applied"

(* RecordHistory; its error is ignored.                                    *)
LocalRecord(n) ==
  /\ local[n].pc = "record"
  /\ local' = [local EXCEPT ![n].pc = "done"]
  /\ \/ history' = [history EXCEPT ![n] = Status(local[n])] /\ UNCHANGED faults
     \/ faults < MaxFaults /\ faults' = faults + 1 /\ UNCHANGED history
  /\ UNCHANGED <<coordinator, cancelled, usable, store, edits>>

Local(n) == \/ LocalPreview(n) \/ LocalSnapshot(n) \/ LocalReadFails(n)
            \/ LocalApply(n) \/ LocalApplyFails(n)
            \/ LocalRestore(n) \/ LocalRecord(n)

----------------------------------------------------------------------------
(* The rest of the world.                                                  *)

Cancel ==
  /\ ~cancelled
  /\ cancelled' = TRUE
  /\ UNCHANGED <<coordinator, usable, target, faults, edits>>

(* Somebody edits an object on the target.                                 *)
Edit(n, k) ==
  /\ edits < MaxEdits /\ phase # "done"
  /\ edits' = edits + 1
  /\ store' = [store EXCEPT ![n][k] = "newer"]
  /\ local' = [local EXCEPT ![n].edited = TRUE]
  /\ UNCHANGED <<coordinator, cancelled, usable, history, faults>>

(* A schema, a dependency, a secret or a permission changes on the target. *)
Reconfigure(n) ==
  /\ edits < MaxEdits /\ phase # "done"
  /\ edits' = edits + 1
  /\ usable' = [usable EXCEPT ![n] = ~@]
  /\ UNCHANGED <<coordinator, cancelled, target, faults>>

FanOut(n) == \/ Acquire(n) \/ CancelWaiting(n) \/ PreviewAnswer(n)
             \/ ApplyArrives(n) \/ ApplyAnswer(n)

Next ==
  \/ Decide \/ Collect \/ Cancel
  \/ \E n \in Selected : FanOut(n) \/ CallFails(n) \/ Local(n) \/ Reconfigure(n)
  \/ \E n \in Selected, k \in Envelopes : Edit(n, k)

Spec == Init /\ [][Next]_vars

(* Goroutines and targets run, and a call that reaches a running target is *)
(* answered.  No failure, cancellation or edit is assumed.                 *)
FairSpec ==
  /\ Spec /\ WF_vars(Decide) /\ WF_vars(Collect)
  /\ \A n \in Selected : WF_vars(FanOut(n)) /\ WF_vars(Local(n))

----------------------------------------------------------------------------
(* Properties.                                                             *)

(* "fail-closed automatic reconciliation": the first object propagation    *)
(* changes anywhere belongs to an enabled automatic profile, all of whose  *)
(* targets answered with an applicable preview; "Notify-only and           *)
(* approval-required modes never mutate destinations".                     *)
MutationAllowed ==
  (\E n \in Selected : local'[n].revisions > local[n].revisions) =>
    /\ profile.enabled /\ profile.mode = "automatic"
    /\ \A m \in Selected : preview[m].ok /\ preview[m].applicable
FailClosed == [][MutationAllowed]_vars

(* A run that returns no error and claims to have applied has applied      *)
(* every envelope on every selected target, and its count says so;         *)
(* cancellation, lost answers and rollbacks all end in an error.           *)
SuccessIsComplete ==
  phase = "done" /\ result.action = "apply" /\ ~result.error =>
    /\ \A n \in Selected : local[n].pc = "done" /\ ~local[n].error
                           /\ local[n].revisions = Length
    /\ result.applied = Length * Cardinality(Selected)

(* The history of a target tells what the bundle left there, as long as    *)
(* nobody else edited it: all of it, or exactly what was there before.     *)
HistoryIsTrue ==
  \A n \in Selected : ~local[n].edited =>
    /\ history[n] = "applied" => \A k \in Envelopes : store[n][k] = "source"
    /\ history[n] = "rolled-back" => store[n] = local[n].before

(* ExecuteProfile returns, also after a cancellation.                      *)
RunEnds == <>(phase = "done")

(* "reject, source-wins, destination-wins, manual, authoritative-source    *)
(* and adapter-only merge semantics": ApplyLocal replaces no object that   *)
(* the plan of this moment leaves alone or calls a conflict.               *)
ReplacementPlanned ==
  \A n \in Selected, k \in Envelopes :
    local'[n].revisions > local[n].revisions /\ store'[n][k] # store[n][k]
      => Diff(k, store[n][k]) \in {"create", "update"}
ConflictPolicyHonoured == [][ReplacementPlanned]_vars

============================================================================
