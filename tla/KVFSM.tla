------------------------------- MODULE KVFSM -------------------------------
(***************************************************************************)
(* The deterministic state machine every replica runs                      *)
(* (replication/kvfsm.go, with the operations of replication/operation.go  *)
(* and the envelope of replication/snapshot.go), as operators on one FSM   *)
(* value.  The raft adapter calls Apply once per committed log entry, in   *)
(* log order, and Snapshot and Restore around crashes and catch-up; those  *)
(* calls are the actions of Replication.                                   *)
(*                                                                         *)
(* A Go map is a total function here.  A missing state entry is the zero   *)
(* kvEntry (revision 0), which is what the Go code reads for a missing     *)
(* key; a present one always has a revision of at least 1.                 *)
(***************************************************************************)
EXTENDS Naturals

CONSTANTS OpIDs,      \* operation identities
          Objects,    \* object identities
          Payloads,   \* canonical payloads; the digest is injective on them
          Decodable,  \* the payloads that unmarshal into a kv.set value
          Products,   \* product namespaces
          Version,    \* the highest operation schema this build understands
          Nil         \* no value: no result, no record, no product

ASSUME VersionAssumption == Version \in Nat \ {0}
ASSUME DecodableAssumption == Decodable \subseteq Payloads

Schemas == 1 .. Version

KindSet == "kv.set"
KindDelete == "kv.delete"

(* An operation that Encode and DecodeOperation accept: validate() has     *)
(* passed, so its version is one of this build's.  The kind may still be   *)
(* one the state machine does not know.                                    *)
Operation == [id : OpIDs, product : Products, version : Schemas,
              kind : {KindSet, KindDelete, "other"}, object : Objects,
              revision : Nat, payload : Payloads]

ApplyResult == [index : Nat, term : Nat, opID : OpIDs, object : Objects,
                kind : {KindSet, KindDelete}, version : Schemas,
                revision : Nat]

ASSUME NilAssumption == /\ Nil \notin ApplyResult
                        /\ Nil \notin [digest : Payloads, result : ApplyResult]

kvEntry == [value : Payloads \cup {Nil}, revision : Nat]
appliedOp == [digest : Payloads, result : ApplyResult]

(* The replicated part of the Go struct; `supported` is node-local and is  *)
(* passed to the operators that read it.                                   *)
FSM == [product : Products \cup {Nil},
        state : [Objects -> kvEntry],
        applied : [OpIDs -> appliedOp \cup {Nil}],
        appliedIndex : Nat,
        appliedTerm : Nat]

NewKVFSM == [product |-> Nil,
             state |-> [o \in Objects |-> [value |-> Nil, revision |-> 0]],
             applied |-> [i \in OpIDs |-> Nil],
             appliedIndex |-> 0,
             appliedTerm |-> 0]

Digest(op) == op.payload

ValidateKind(op) == op.kind \in {KindSet, KindDelete}

----------------------------------------------------------------------------
(* Mutated forms of the operators below.                                   *)

KnownNever(f, op) == FALSE
SnapshotWithoutApplied(f) == [f EXCEPT !.applied = [i \in OpIDs |-> Nil]]
CanRestoreOlder(supported, version) == version < supported

----------------------------------------------------------------------------
(* The version gate and the kind check come before the idempotency lookup. *)
Admits(supported, op) == op.version <= supported /\ ValidateKind(op)

(* OpKnown: the identity already has a recorded result.                    *)
OpKnown(f, op) == f.applied[op.id] # Nil

(* The answer for a known identity: its first result for the same payload, *)
(* an error for a different one.                                           *)
Prior(f, op) ==
  IF f.applied[op.id].digest = Digest(op) THEN f.applied[op.id].result ELSE Nil

(* A non-zero precondition that is not the object's current revision.      *)
Stale(f, op) == op.revision # 0 /\ f.state[op.object].revision # op.revision

Undecodable(op) == op.kind = KindSet /\ op.payload \notin Decodable

(* The operation is new to this state machine and takes effect on it.      *)
TakesEffect(f, supported, op) ==
  /\ Admits(supported, op)
  /\ ~OpKnown(f, op)
  /\ ~Undecodable(op)
  /\ ~Stale(f, op)

NewResult(f, op, index, term) ==
  [index |-> index, term |-> term, opID |-> op.id, object |-> op.object,
   kind |-> op.kind, version |-> op.version,
   revision |-> f.state[op.object].revision + 1]

(* kv.set stores the next revision; kv.delete removes the entry, so that   *)
(* the revisions of a recreated object start again at 1.                   *)
NewEntry(f, op) ==
  IF op.kind = KindSet
    THEN [value |-> op.payload, revision |-> f.state[op.object].revision + 1]
    ELSE [value |-> Nil, revision |-> 0]

(* applyLocked, the state it leaves.  A refused operation leaves no trace: *)
(* no record, and no advance of the applied index.                         *)
ApplyLocked(f, supported, op, index, term) ==
  IF ~TakesEffect(f, supported, op) THEN f
  ELSE [product |-> IF f.product = Nil THEN op.product ELSE f.product,
        state |-> [f.state EXCEPT ![op.object] = NewEntry(f, op)],
        applied |-> [f.applied EXCEPT ![op.id] =
                       [digest |-> Digest(op),
                        result |-> NewResult(f, op, index, term)]],
        appliedIndex |-> index,
        appliedTerm |-> term]

(* applyLocked, the value it returns; every error is Nil.                  *)
ApplyResponse(f, supported, op, index, term) ==
  IF TakesEffect(f, supported, op) THEN NewResult(f, op, index, term)
  ELSE IF Admits(supported, op) /\ OpKnown(f, op) THEN Prior(f, op) ELSE Nil

(* Snapshot and Persist: all of the replicated part, the idempotency       *)
(* record and the applied position included.                               *)
Snapshot(f) == f

(* Restore accepts an envelope whose replication version, the producer's   *)
(* `supported`, is within its own, and then replaces everything.           *)
CanRestore(supported, version) == version <= supported
============================================================================
