------------------------------ MODULE AtomicKV ------------------------------
(***************************************************************************)
(* What the replicated state promises its callers: one store, on which a   *)
(* submitted operation takes effect at once and at most once per identity  *)
(* or is dropped, and which answers a caller with the recorded result of   *)
(* an operation that has taken effect.  There are no nodes, no log, no     *)
(* leaders and no snapshots here; Replication implements it.               *)
(***************************************************************************)
EXTENDS KVFSM

CONSTANT Ops  \* the operations callers may submit

VARIABLES store,    \* the state machine
          pending,  \* operations submitted and neither applied nor dropped
          answered  \* [op, result] pairs given to callers

vars == <<store, pending, answered>>

Init == store = NewKVFSM /\ pending = {} /\ answered = {}

Submit ==
  /\ \E op \in Ops : pending' = pending \cup {op}
  /\ UNCHANGED <<store, answered>>

(* A copy of the operation may remain, left by a retry.                    *)
Take(op) ==
  /\ pending' \in {pending, pending \ {op}}
  /\ store' = ApplyLocked(store, Version, op, store'.appliedIndex,
                          store'.appliedTerm)
  /\ store' # store => store'.appliedIndex > store.appliedIndex
  /\ UNCHANGED answered

Drop(op) == pending' = pending \ {op} /\ UNCHANGED <<store, answered>>

Answer(op) ==
  /\ OpKnown(store, op)
  /\ Prior(store, op) # Nil
  /\ answered' = answered \cup {[op |-> op, result |-> Prior(store, op)]}
  /\ UNCHANGED <<store, pending>>

Next == \/ Submit
        \/ \E op \in pending : Take(op) \/ Drop(op)
        \/ \E op \in Ops : Answer(op)

Spec == Init /\ [][Next]_vars
=============================================================================
