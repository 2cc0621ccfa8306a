------------------------- MODULE ReplicationProofs -------------------------
(***************************************************************************)
(* Proofs about Replication for every set of nodes, clients and operations *)
(* and for all bounds.                                                     *)
(***************************************************************************)
EXTENDS Replication, TLAPS

----------------------------------------------------------------------------
(* Lemmas about the state machine.                                         *)

(* applyLocked returns a well-formed state machine.                        *)
LEMMA ApplyLockedType ==
  ASSUME NEW f \in FSM, NEW s \in Schemas, NEW op \in Operation,
         NEW i \in Nat, NEW t \in Nat
  PROVE  ApplyLocked(f, s, op, i, t) \in FSM
<1>1. CASE ~TakesEffect(f, s, op)
  BY <1>1 DEF ApplyLocked
<1>2. CASE TakesEffect(f, s, op)
  <2>1. op.kind \in {KindSet, KindDelete}
    BY <1>2 DEF TakesEffect, Admits, ValidateKind
  <2>2. f.state[op.object] \in kvEntry
    BY DEF FSM, Operation
  <2>3. NewEntry(f, op) \in kvEntry
    BY <2>2 DEF NewEntry, kvEntry, Operation
  <2>4. NewResult(f, op, i, t) \in ApplyResult
    BY <2>1, <2>2 DEF NewResult, ApplyResult, Operation, kvEntry
  <2>5. [digest |-> Digest(op), result |-> NewResult(f, op, i, t)] \in appliedOp
    BY <2>4 DEF appliedOp, Digest, Operation
  <2>6. [f.state EXCEPT ![op.object] = NewEntry(f, op)] \in [Objects -> kvEntry]
    BY <2>3 DEF FSM
  <2>7. [f.applied EXCEPT ![op.id] = [digest |-> Digest(op),
                                      result |-> NewResult(f, op, i, t)]]
          \in [OpIDs -> appliedOp \cup {Nil}]
    BY <2>5 DEF FSM
  <2>8. (IF f.product = Nil THEN op.product ELSE f.product)
          \in Products \cup {Nil}
    BY DEF FSM, Operation
  <2> QED
    BY <1>2, <2>6, <2>7, <2>8 DEF ApplyLocked, FSM
<1> QED
  BY <1>1, <1>2

(* A response is an ApplyResult or an error.                               *)
LEMMA ApplyResponseType ==
  ASSUME NEW f \in FSM, NEW s \in Schemas, NEW op \in Operation,
         NEW i \in Nat, NEW t \in Nat
  PROVE  ApplyResponse(f, s, op, i, t) \in ApplyResult \cup {Nil}
<1>1. CASE TakesEffect(f, s, op)
  <2>1. op.kind \in {KindSet, KindDelete}
    BY <1>1 DEF TakesEffect, Admits, ValidateKind
  <2>2. f.state[op.object] \in kvEntry
    BY DEF FSM, Operation
  <2>3. NewResult(f, op, i, t) \in ApplyResult
    BY <2>1, <2>2 DEF NewResult, ApplyResult, Operation, kvEntry
  <2> QED
    BY <1>1, <2>3 DEF ApplyResponse
<1>2. CASE ~TakesEffect(f, s, op) /\ Admits(s, op) /\ OpKnown(f, op)
  <2>1. f.applied[op.id] \in appliedOp
    BY <1>2 DEF OpKnown, FSM, Operation
  <2>2. Prior(f, op) \in ApplyResult \cup {Nil}
    BY <2>1 DEF Prior, appliedOp
  <2> QED
    BY <1>2, <2>2 DEF ApplyResponse
<1>3. CASE ~TakesEffect(f, s, op) /\ ~(Admits(s, op) /\ OpKnown(f, op))
  BY <1>3 DEF ApplyResponse
<1> QED
  BY <1>1, <1>2, <1>3

(* A recorded result survives every further operation, and the only record *)
(* an operation adds is its own, with its own index.                       *)
LEMMA ApplyKeepsRecords ==
  ASSUME NEW f \in FSM, NEW s \in Schemas, NEW op \in Operation,
         NEW i \in Nat, NEW t \in Nat, NEW id \in OpIDs
  PROVE  LET g == ApplyLocked(f, s, op, i, t)
         IN /\ f.applied[id] # Nil => g.applied[id] = f.applied[id]
            /\ g.applied[id] # f.applied[id] =>
                 /\ op.id = id
                 /\ g.applied[id] # Nil
                 /\ g.applied[id].result.index = i
            /\ g.appliedIndex \in {f.appliedIndex, i}
            /\ g # f => f.applied[op.id] = Nil /\ g.applied[op.id] # Nil
<1>1. CASE ~TakesEffect(f, s, op)
  BY <1>1 DEF ApplyLocked
<1>2. CASE TakesEffect(f, s, op)
  <2> DEFINE r == [digest |-> Digest(op), result |-> NewResult(f, op, i, t)]
             g == ApplyLocked(f, s, op, i, t)
  <2>1. f.applied[op.id] = Nil
    BY <1>2 DEF TakesEffect, OpKnown
  <2>2. g.applied = [f.applied EXCEPT ![op.id] = r] /\ g.appliedIndex = i
    BY <1>2 DEF ApplyLocked
  <2>3. r.result.index = i
    BY DEF NewResult
  <2>4. op.kind \in {KindSet, KindDelete} /\ f.state[op.object] \in kvEntry
    BY <1>2 DEF TakesEffect, Admits, ValidateKind, FSM, Operation
  <2>5. r \in appliedOp
    BY <2>4 DEF appliedOp, Digest, Operation, NewResult, ApplyResult, kvEntry
  <2>6. r # Nil
    BY <2>5, NilAssumption DEF appliedOp
  <2>7. f.applied \in [OpIDs -> appliedOp \cup {Nil}] /\ op.id \in OpIDs
    BY DEF FSM, Operation
  <2> HIDE DEF r, g
  <2>8. /\ f.applied[id] # Nil => g.applied[id] = f.applied[id]
        /\ g.applied[id] # f.applied[id] => op.id = id /\ g.applied[id] = r
        /\ g.applied[op.id] = r
    BY <2>1, <2>2, <2>7
  <2> QED
    BY <2>1, <2>2, <2>3, <2>6, <2>8 DEF g
<1> QED
  BY <1>1, <1>2

(* A successful response is what the new state has on record for the       *)
(* identity, under the digest of the operation answered.                   *)
LEMMA ResponseIsRecorded ==
  ASSUME NEW f \in FSM, NEW s \in Schemas, NEW op \in Operation,
         NEW i \in Nat, NEW t \in Nat,
         ApplyResponse(f, s, op, i, t) # Nil
  PROVE  LET g == ApplyLocked(f, s, op, i, t)
         IN /\ g.applied[op.id] # Nil
            /\ g.applied[op.id].result = ApplyResponse(f, s, op, i, t)
            /\ g.applied[op.id].digest = Digest(op)
<1>0. f.applied \in [OpIDs -> appliedOp \cup {Nil}] /\ op.id \in OpIDs
  BY DEF FSM, Operation
<1>1. CASE TakesEffect(f, s, op)
  <2> DEFINE r == [digest |-> Digest(op), result |-> NewResult(f, op, i, t)]
             g == ApplyLocked(f, s, op, i, t)
  <2>1. g.applied = [f.applied EXCEPT ![op.id] = r]
    BY <1>1 DEF ApplyLocked
  <2>2. g.applied[op.id] = r
    BY <1>0, <2>1
  <2>3. ApplyResponse(f, s, op, i, t) = NewResult(f, op, i, t)
    BY <1>1 DEF ApplyResponse
  <2>4. op.kind \in {KindSet, KindDelete} /\ f.state[op.object] \in kvEntry
    BY <1>1 DEF TakesEffect, Admits, ValidateKind, FSM, Operation
  <2>5. r \in appliedOp
    BY <2>4 DEF appliedOp, Digest, Operation, NewResult, ApplyResult, kvEntry
  <2>6. r # Nil
    BY <2>5, NilAssumption DEF appliedOp
  <2> QED
    BY <2>2, <2>3, <2>6
<1>2. CASE ~TakesEffect(f, s, op)
  <2>1. OpKnown(f, op) /\ ApplyResponse(f, s, op, i, t) = Prior(f, op)
    BY <1>2 DEF ApplyResponse
  <2>2. ApplyLocked(f, s, op, i, t) = f
    BY <1>2 DEF ApplyLocked
  <2> QED
    BY <2>1, <2>2 DEF OpKnown, Prior
<1> QED
  BY <1>1, <1>2

(* A version gate that admits the operation behaves as the newest build's. *)
LEMMA SupportedIsUniform ==
  ASSUME NEW f \in FSM, NEW s \in Schemas, NEW op \in Operation,
         NEW i \in Nat, NEW t \in Nat, op.version <= s
  PROVE  ApplyLocked(f, s, op, i, t) = ApplyLocked(f, Version, op, i, t)
<1>1. op.version <= Version
  BY DEF Operation, Schemas
<1> QED
  BY <1>1 DEF ApplyLocked, TakesEffect, Admits

----------------------------------------------------------------------------
(* Types.  A node applies entries it has stored, and stores entries that   *)
(* are committed; without that log[pos + 1] would not be an entry.         *)

Positions ==
  /\ Len(hist) = Len(log) + 1
  /\ \A n \in Nodes : /\ stored[n] <= Len(log)
                      /\ pos[n] <= stored[n]
                      /\ snap[n].pos <= stored[n]

TypeInv == TypeOK /\ Positions

(* A new state machine is well typed.                                      *)
LEMMA NewKVFSMType == NewKVFSM \in FSM
<1>1. [value |-> Nil, revision |-> 0] \in kvEntry
  BY DEF kvEntry
<1> QED
  BY <1>1 DEF NewKVFSM, FSM

(* The absent snapshot of a fresh node is well typed.                      *)
LEMMA NoSnapshotType == NoSnapshot \in SnapshotRec
BY NewKVFSMType, VersionAssumption DEF NoSnapshot, SnapshotRec, Schemas

(* The initial state is well typed, with every position inside the log.    *)
LEMMA TypeInit == Init => TypeInv
<1> SUFFICES ASSUME Init PROVE TypeInv
  OBVIOUS
<1> USE NewKVFSMType, NoSnapshotType, SchemaAssumption DEF Init
<1>1. TypeOK
  BY DEF TypeOK
<1>2. Positions
  BY DEF Positions, NoSnapshot
<1> QED
  BY <1>1, <1>2 DEF TypeInv

(* A step that only resolves the futures of one node keeps the calls typed. *)
LEMMA AbandonType ==
  ASSUME TypeOK, NEW n \in Nodes, Abandon(n)
  PROVE  call' \in [Clients -> CallRec \cup {Nil}]
BY DEF TypeOK, Abandon

(* Every action keeps the types and the positions inside the log.          *)
LEMMA TypeNext == TypeInv /\ [Next]_vars => TypeInv'
<1> SUFFICES ASSUME TypeInv, [Next]_vars PROVE TypeInv'
  OBVIOUS
<1> USE DEF TypeInv
<1>1. ASSUME NEW c \in Clients, ProposeLocal(c) PROVE TypeInv'
  <2> USE DEF nodeVars, schemaVars, raftVars
  <2>0. call[c] \in CallRec
    BY <1>1 DEF ProposeLocal, TypeOK
  <2>1. CASE Dispatch(c)
    <3> DEFINE e == [op |-> call[c].op, term |-> leader[call[c].node],
                     seq |-> dispatched + 1, checked |-> call[c].checked]
    <3>1. e \in Entry
      <4>1. leader[call[c].node] \in Nat /\ dispatched + 1 \in Nat
        BY <2>0 DEF TypeOK, CallRec
      <4> QED
        BY <2>0, <4>1 DEF Entry, CallRec
    <3>2. [call[c] EXCEPT !.seq = dispatched + 1] \in CallRec
      <4>1. dispatched + 1 \in Nat
        BY DEF TypeOK
      <4> QED
        BY <2>0, <4>1 DEF CallRec
    <3>3. inflight' \in SUBSET Entry
      BY <2>1, <3>1 DEF TypeOK, Dispatch
    <3>4. call' \in [Clients -> CallRec \cup {Nil}]
      BY <2>1, <3>2 DEF TypeOK, Dispatch
    <3>5. dispatched' \in Nat
      BY <2>1 DEF TypeOK, Dispatch
    <3>6. UNCHANGED <<log, hist, term, leader, suffrage, acks, nodeVars, schemaVars>>
      BY <1>1, <2>1 DEF ProposeLocal, Dispatch
    <3>7. TypeOK'
      BY <3>3, <3>4, <3>5, <3>6 DEF TypeOK
    <3> QED
      BY <3>6, <3>7 DEF Positions
  <2>2. CASE Refuse(c)
    <3>1. call' \in [Clients -> CallRec \cup {Nil}]
      BY <2>2 DEF TypeOK, Refuse
    <3>2. TypeOK'
      BY <1>1, <2>2, <3>1 DEF TypeOK, Refuse, ProposeLocal
    <3> QED
      BY <1>1, <2>2, <3>2 DEF Positions, Refuse, ProposeLocal
  <2> QED
    BY <1>1, <2>1, <2>2 DEF ProposeLocal
<1>a. ASSUME NEW c \in Clients, NEW k \in CallRec,
             call' = [call EXCEPT ![c] = k],
             UNCHANGED <<raftVars, nodeVars, schemaVars, acks>>
      PROVE  TypeInv'
  BY <1>a DEF TypeOK, Positions, nodeVars, schemaVars, raftVars
<1>2. CASE ClientStep
  <2>1. ASSUME NEW c \in Clients, NEW op \in Ops, NEW n \in Nodes, Propose(c, n, op)
        PROVE  TypeInv'
    <3> DEFINE k == [op |-> op, node |-> n, seq |-> 0, checked |-> leader[n] # 0]
    <3>1. k \in CallRec
      BY DEF CallRec
    <3>2. /\ call' = [call EXCEPT ![c] = k]
          /\ UNCHANGED <<raftVars, nodeVars, schemaVars, acks>>
      BY <2>1 DEF Propose, Enter
    <3> HIDE DEF k
    <3> QED
      BY <1>a, <3>1, <3>2
  <2>2. ASSUME NEW c \in Clients, NEW op \in Ops, NEW n \in Nodes, NEW l \in Nodes,
               HandlePropose(c, n, l, op)
        PROVE  TypeInv'
    <3> DEFINE k == [op |-> op, node |-> l, seq |-> 0, checked |-> FALSE]
    <3>1. k \in CallRec
      BY DEF CallRec
    <3>2. /\ call' = [call EXCEPT ![c] = k]
          /\ UNCHANGED <<raftVars, nodeVars, schemaVars, acks>>
      BY <2>2 DEF HandlePropose, Enter
    <3> HIDE DEF k
    <3> QED
      BY <1>a, <3>1, <3>2
  <2> QED
    BY <1>1, <1>2, <2>1, <2>2 DEF ClientStep
<1>3. CASE CommitStep
  <2> PICK l \in Nodes, e \in inflight, Q \in Quorums(Voters) : Commit(l, e, Q)
    BY <1>3 DEF CommitStep
  <2> USE DEF Commit, schemaVars, callVars
  <2>1. e \in Entry /\ e.op \in Operation /\ e.term \in Nat
    BY OpsAssumption DEF TypeOK, Entry
  <2>2. log' \in Seq(Entry) /\ Len(log') = Len(log) + 1
    BY <2>1 DEF TypeOK
  <2>3. hist[Len(hist)] \in FSM
    BY DEF TypeOK, Positions
  <2>4. Version \in Schemas /\ Len(log) + 1 \in Nat
    BY VersionAssumption DEF Schemas, TypeOK
  <2>5. ApplyLocked(hist[Len(hist)], Version, e.op, Len(log) + 1, e.term) \in FSM
    BY <2>1, <2>3, <2>4, ApplyLockedType
  <2>6. hist' \in Seq(FSM) /\ Len(hist') = Len(hist) + 1
    BY <2>5 DEF TypeOK
  <2>7. stored' \in [Nodes -> Nat]
    BY <2>4 DEF TypeOK
  <2>8. TypeOK'
    BY <2>2, <2>6, <2>7 DEF TypeOK
  <2>9. ASSUME NEW n \in Nodes
        PROVE  stored'[n] <= Len(log') /\ stored'[n] >= stored[n]
    BY <2>2 DEF TypeOK, Positions
  <2>10. Positions'
    BY <2>2, <2>6, <2>9, <2>8 DEF Positions, TypeOK, SnapshotRec
  <2> QED
    BY <2>8, <2>10
<1>4. ASSUME NEW l \in Nodes, NEW n \in Nodes,
             NEW role \in {"voter", "nonvoter", "none"}, Reconfigure(l, n, role)
      PROVE  TypeInv'
  <2> USE <1>4 DEF Reconfigure, nodeVars, schemaVars
  <2>1. call' \in [Clients -> CallRec \cup {Nil}]
    BY AbandonType DEF TypeOK
  <2>2. leader' \in [Nodes -> Nat]
    BY DEF TypeOK
  <2>3. TypeOK'
    BY <2>1, <2>2 DEF TypeOK
  <2> QED
    BY <2>3 DEF Positions
<1>5. CASE MemberStep
  BY <1>4, <1>5 DEF MemberStep, Join, AddLearner, PromoteLearnerAfterCatchUp,
                    DemoteVoter, RemoveServer
<1>6. ASSUME NEW e \in inflight, Lose(e) PROVE TypeInv'
  BY <1>6 DEF Lose, nodeVars, schemaVars, callVars, TypeOK, Positions
<1>7. ASSUME NEW n \in Nodes, Elect(n) PROVE TypeInv'
  BY <1>7 DEF Elect, nodeVars, schemaVars, callVars, TypeOK, Positions
<1>8. ASSUME NEW n \in Nodes, StepDown(n) PROVE TypeInv'
  <2>1. call' \in [Clients -> CallRec \cup {Nil}]
    BY <1>8, AbandonType DEF StepDown
  <2> QED
    BY <1>8, <2>1 DEF StepDown, nodeVars, schemaVars, TypeOK, Positions
<1>9. ASSUME NEW n \in Nodes, ApplyNext(n) PROVE TypeInv'
  <2> DEFINE i == pos[n] + 1
             e == log[i]
             g == ApplyLocked(fsm[n], supported[n], e.op, i, e.term)
             r == ApplyResponse(fsm[n], supported[n], e.op, i, e.term)
             clean == ~skipped[n] /\ e.op.version <= supported[n]
  <2>1. i \in 1 .. Len(log) /\ i <= stored[n]
    BY <1>9 DEF ApplyNext, TypeOK, Positions
  <2> HIDE DEF i
  <2>a. e \in Entry
    BY <2>1 DEF TypeOK
  <2>2. e.op \in Ops /\ e.op \in Operation /\ e.term \in Nat
    BY <2>a, OpsAssumption DEF Entry
  <2> USE DEF i
  <2>3. fsm[n] \in FSM /\ supported[n] \in Schemas /\ i \in Nat
    BY <2>1 DEF TypeOK
  <2>4. g \in FSM
    BY <2>2, <2>3, ApplyLockedType
  <2>5. r \in ApplyResult \cup {Nil}
    BY <2>2, <2>3, ApplyResponseType
  <2>6. clean \in BOOLEAN
    OBVIOUS
  <2>7. /\ pos' = [pos EXCEPT ![n] = i]
        /\ fsm' = [fsm EXCEPT ![n] = g]
        /\ skipped' = [skipped EXCEPT ![n] = ~clean]
        /\ call' \in [Clients -> CallRec \cup {Nil}]
        /\ acks' = acks \/ (r # Nil /\ acks' = acks \cup
                              {[op |-> e.op, result |-> r, clean |-> clean]})
        /\ UNCHANGED <<raftVars, up, crashes, stored, snap, schemaVars>>
    BY <1>9 DEF ApplyNext, TypeOK
  <2> HIDE DEF g, r, clean
  <2>8. acks' \in SUBSET Ack
    BY <2>2, <2>5, <2>6, <2>7 DEF TypeOK, Ack
  <2>9. TypeOK'
    BY <2>3, <2>4, <2>6, <2>7, <2>8 DEF TypeOK, raftVars, schemaVars
  <2>10. Positions'
    BY <2>1, <2>7 DEF Positions, TypeOK, raftVars
  <2> QED
    BY <2>9, <2>10
<1>10. ASSUME NEW n \in Nodes, TakeSnapshot(n) PROVE TypeInv'
  <2>1. [pos |-> pos[n], fsm |-> Snapshot(fsm[n]), version |-> supported[n],
         skipped |-> skipped[n]] \in SnapshotRec
    BY DEF TypeOK, SnapshotRec, Snapshot
  <2>2. TypeOK'
    BY <1>10, <2>1 DEF TakeSnapshot, TypeOK, raftVars, schemaVars, callVars
  <2>3. Positions'
    BY <1>10, <2>1 DEF TakeSnapshot, Positions, TypeOK, raftVars
  <2> QED
    BY <2>2, <2>3
<1>11. ASSUME NEW n \in Nodes, NEW l \in Nodes, Receive(l, n) PROVE TypeInv'
  <2>1. /\ stored[n] < Len(log) /\ stored' = [stored EXCEPT ![n] = stored[n] + 1]
        /\ UNCHANGED <<raftVars, up, crashes, pos, fsm, snap, skipped, schemaVars, callVars>>
    BY <1>11 DEF Receive
  <2>2. stored \in [Nodes -> Nat] /\ Len(log) \in Nat
    BY DEF TypeOK
  <2>3. stored' \in [Nodes -> Nat]
    BY <2>1, <2>2
  <2>4. TypeOK'
    BY <2>1, <2>3 DEF TypeOK, raftVars, schemaVars, callVars
  <2>5. \A m \in Nodes : stored[m] <= stored'[m] /\ stored'[m] <= Len(log)
    BY <2>1, <2>2 DEF Positions
  <2>6. log' = log /\ hist' = hist /\ pos' = pos /\ snap' = snap
    BY <2>1 DEF raftVars
  <2>7. \A m \in Nodes : pos[m] \in Nat /\ snap[m].pos \in Nat
    BY DEF TypeOK, SnapshotRec
  <2>8. Positions'
    BY <2>2, <2>3, <2>5, <2>6, <2>7 DEF Positions
  <2> QED
    BY <2>4, <2>8
<1>12. ASSUME NEW n \in Nodes, NEW l \in Nodes, InstallSnapshot(l, n)
       PROVE  TypeInv'
  <2>1. snap[l] \in SnapshotRec
    BY DEF TypeOK
  <2>2. TypeOK'
    BY <1>12, <2>1 DEF InstallSnapshot, Restored, TypeOK, SnapshotRec, raftVars,
                       schemaVars, callVars
  <2>3. Positions'
    BY <1>12, <2>1 DEF InstallSnapshot, Restored, Positions, TypeOK, SnapshotRec,
                       raftVars
  <2> QED
    BY <2>2, <2>3
<1>13. ASSUME NEW n \in Nodes, Crash(n) PROVE TypeInv'
  <2>1. call' \in [Clients -> CallRec \cup {Nil}]
    BY <1>13 DEF Crash, TypeOK
  <2>2. TypeOK'
    BY <1>13, <2>1, NewKVFSMType DEF Crash, Restored, NoSnapshot, TypeOK, schemaVars
  <2>3. Positions'
    BY <1>13 DEF Crash, Restored, NoSnapshot, Positions, TypeOK
  <2> QED
    BY <2>2, <2>3
<1>14. ASSUME NEW n \in Nodes, Restart(n) PROVE TypeInv'
  <2>1. snap[n] \in SnapshotRec
    BY DEF TypeOK
  <2>2. TypeOK'
    BY <1>14, <2>1 DEF Restart, Restored, TypeOK, SnapshotRec, raftVars, callVars
  <2>3. Positions'
    BY <1>14, <2>1 DEF Restart, Restored, Positions, TypeOK, SnapshotRec, raftVars
  <2> QED
    BY <2>2, <2>3
<1>15. ASSUME NEW n \in Nodes, RegisterCapabilities(n) PROVE TypeInv'
  BY <1>15 DEF RegisterCapabilities, TypeOK, Positions, raftVars, nodeVars, callVars
<1>16. ASSUME NEW n \in Nodes, NEW v \in Schemas, SetSupported(n, v) PROVE TypeInv'
  BY <1>16 DEF SetSupported, TypeOK, Positions, raftVars, nodeVars, callVars
<1>17. CASE UNCHANGED vars
  BY <1>17 DEF vars, raftVars, nodeVars, schemaVars, callVars, TypeOK, Positions
<1> QED
  BY <1>2, <1>3, <1>5, <1>6, <1>7, <1>8, <1>9, <1>10, <1>11, <1>12, <1>13,
     <1>14, <1>15, <1>16, <1>17 DEF Next

(* Every variable keeps its type and no node runs ahead of the committed   *)
(* log, in every cluster and whatever faults occur.                        *)
THEOREM TypeCorrect == Spec => []TypeOK
<1>1. TypeInv /\ [Next]_vars => TypeInv'
  BY TypeNext
<1>2. TypeInv => TypeOK
  BY DEF TypeInv
<1> QED
  BY TypeInit, <1>1, <1>2, PTL DEF Spec

----------------------------------------------------------------------------
(* The inductive invariant.  hist is the run of the newest build's state   *)
(* machine over the committed log; records only accumulate along it, and   *)
(* each one points back to the entry that made it.  A replica or snapshot  *)
(* that missed no entry is the hist state of its position, and a clean     *)
(* acknowledgement repeats the record of its identity.                     *)

HistRuns ==
  /\ hist[1] = NewKVFSM
  /\ \A i \in 1 .. Len(log) :
       hist[i + 1] = ApplyLocked(hist[i], Version, log[i].op, i, log[i].term)

HistAccumulates ==
  \A i, j \in 1 .. Len(hist), id \in OpIDs :
    i <= j /\ hist[i].applied[id] # Nil => hist[j].applied[id] = hist[i].applied[id]

HistPointsBack ==
  \A i \in 1 .. Len(hist), id \in OpIDs :
    hist[i].applied[id] # Nil =>
      LET k == hist[i].applied[id].result.index
      IN /\ k \in 1 .. (i - 1)
         /\ log[k].op.id = id
         /\ hist[k + 1].applied[id] = hist[i].applied[id]

HistIndexBehind == \A i \in 1 .. Len(hist) : hist[i].appliedIndex <= i - 1

History == HistRuns /\ HistAccumulates /\ HistPointsBack /\ HistIndexBehind

ReplicasFollow ==
  \A n \in Nodes :
    /\ ~skipped[n] => fsm[n] = hist[pos[n] + 1]
    /\ ~snap[n].skipped => snap[n].fsm = hist[snap[n].pos + 1]

AcksRecorded ==
  \A k \in acks : k.clean =>
    /\ Latest.applied[k.op.id] # Nil
    /\ Latest.applied[k.op.id].result = k.result
    /\ Latest.applied[k.op.id].digest = Digest(k.op)

IndInv == TypeInv /\ History /\ ReplicasFollow /\ AcksRecorded

(* The inductive invariant holds of a cluster that has just started.       *)
LEMMA IndInit == Init => IndInv
<1> SUFFICES ASSUME Init PROVE IndInv
  OBVIOUS
<1>1. TypeInv
  BY TypeInit
<1>2. Len(log) = 0 /\ Len(hist) = 1 /\ hist[1] = NewKVFSM /\ acks = {}
  BY DEF Init
<1>3. \A id \in OpIDs : NewKVFSM.applied[id] = Nil
  BY DEF NewKVFSM
<1>4. History
  BY <1>2, <1>3 DEF History, HistRuns, HistAccumulates, HistPointsBack,
                    HistIndexBehind, NewKVFSM
<1>5. ReplicasFollow
  BY <1>2 DEF Init, ReplicasFollow, NoSnapshot
<1>6. AcksRecorded
  BY <1>2 DEF AcksRecorded
<1> QED
  BY <1>1, <1>4, <1>5, <1>6 DEF IndInv

(* The log and its history change only by committing an entry.             *)
Extends(e) ==
  /\ log' = Append(log, e)
  /\ hist' = Append(hist, ApplyLocked(hist[Len(hist)], Version, e.op,
                                      Len(log) + 1, e.term))

(* Only a raft commit changes the log and the reference states, by one     *)
(* entry.                                                                  *)
LEMMA OnlyCommitExtends ==
  [Next]_vars => UNCHANGED <<log, hist>> \/ \E e \in inflight : Extends(e)
<1> SUFFICES ASSUME [Next]_vars
             PROVE  UNCHANGED <<log, hist>> \/ \E e \in inflight : Extends(e)
  OBVIOUS
<1>1. CASE CommitStep
  BY <1>1 DEF CommitStep, Commit, Extends
<1>2. CASE ClientStep
  BY <1>2 DEF ClientStep, Propose, HandlePropose, Enter, ProposeLocal,
     Dispatch, Refuse, raftVars
<1>3. CASE MemberStep
  BY <1>3 DEF MemberStep, Join, AddLearner, PromoteLearnerAfterCatchUp,
              DemoteVoter, RemoveServer, Reconfigure
<1>4. CASE \E e \in inflight : Lose(e)
  BY <1>4 DEF Lose
<1>5. ASSUME NEW n \in Nodes, Elect(n) \/ StepDown(n) \/ Crash(n)
      PROVE  UNCHANGED <<log, hist>>
  BY <1>5 DEF Elect, StepDown, Crash
<1>6. ASSUME NEW n \in Nodes,
             \/ ApplyNext(n) \/ TakeSnapshot(n) \/ Restart(n)
             \/ RegisterCapabilities(n) \/ \E v \in Schemas : SetSupported(n, v)
             \/ \E l \in Nodes : Receive(l, n) \/ InstallSnapshot(l, n)
      PROVE  UNCHANGED raftVars
  BY <1>6 DEF ApplyNext, TakeSnapshot, Restart, RegisterCapabilities, SetSupported,
              Receive, InstallSnapshot
<1>7. CASE UNCHANGED vars
  BY <1>7 DEF vars, raftVars
<1> QED
  BY <1>1, <1>2, <1>3, <1>4, <1>5, <1>6, <1>7 DEF Next, raftVars

(* Committing keeps the past and adds one state at the end.                *)
LEMMA ExtendsKeepsPast ==
  ASSUME TypeInv, NEW e \in inflight, Extends(e)
  PROVE  /\ Len(log') = Len(log) + 1 /\ Len(hist') = Len(hist) + 1
         /\ \A i \in 1 .. Len(log) : log'[i] = log[i]
         /\ log'[Len(log) + 1] = e
         /\ \A i \in 1 .. Len(hist) : hist'[i] = hist[i]
         /\ hist'[Len(hist) + 1] = ApplyLocked(hist[Len(hist)], Version, e.op,
                                               Len(log) + 1, e.term)
         /\ hist[Len(hist)] \in FSM
         /\ e.op \in Operation /\ e.term \in Nat /\ Version \in Schemas
         /\ Len(hist) \in Nat /\ Len(log) \in Nat /\ Len(hist) = Len(log) + 1
<1>1. /\ log \in Seq(Entry) /\ hist \in Seq(FSM) /\ Len(hist) = Len(log) + 1
      /\ e \in Entry
  BY DEF TypeInv, TypeOK, Positions
<1>2. e.op \in Operation /\ e.term \in Nat /\ Version \in Schemas
  BY <1>1, OpsAssumption, VersionAssumption DEF Entry, Schemas
<1> DEFINE g == ApplyLocked(hist[Len(hist)], Version, e.op, Len(log) + 1, e.term)
<1>3. log' = Append(log, e) /\ hist' = Append(hist, g)
  BY DEF Extends
<1> HIDE DEF g
<1>4. /\ Len(log') = Len(log) + 1
      /\ \A i \in 1 .. Len(log) : log'[i] = log[i]
      /\ log'[Len(log) + 1] = e
  BY <1>1, <1>3
<1>5. /\ Len(hist') = Len(hist) + 1
      /\ \A i \in 1 .. Len(hist) : hist'[i] = hist[i]
      /\ hist'[Len(hist) + 1] = g
      /\ hist[Len(hist)] \in FSM
  BY <1>1, <1>3
<1> QED
  BY <1>1, <1>2, <1>4, <1>5 DEF g

(* A commit keeps the facts about the reference states: KVFSM.applyLocked  *)
(* on the last one gives the next.                                         *)
LEMMA HistoryExtended ==
  ASSUME TypeInv, History, NEW e \in inflight, Extends(e)
  PROVE  History'
<1> DEFINE N == Len(hist)
           f == hist[N]
           g == hist'[N + 1]
<1>1. /\ N \in Nat /\ N >= 1 /\ Len(log) = N - 1 /\ f \in FSM
      /\ Len(hist') = N + 1 /\ Len(log') = N
      /\ \A i \in 1 .. N : hist'[i] = hist[i]
      /\ \A i \in 1 .. N - 1 : log'[i] = log[i]
      /\ log'[N] = e
      /\ g = ApplyLocked(f, Version, e.op, N, e.term)
      /\ e.op \in Operation /\ e.term \in Nat /\ Version \in Schemas
  BY ExtendsKeepsPast
<1> HIDE DEF N, f, g
<1>2. ASSUME NEW id \in OpIDs
      PROVE  /\ f.applied[id] # Nil => g.applied[id] = f.applied[id]
             /\ g.applied[id] # f.applied[id] =>
                  /\ e.op.id = id
                  /\ g.applied[id] # Nil
                  /\ g.applied[id].result.index = N
             /\ g.appliedIndex \in {f.appliedIndex, N}
  BY <1>1, ApplyKeepsRecords
<1>3. HistRuns'
  <2>1. hist'[1] = NewKVFSM
    BY <1>1 DEF History, HistRuns
  <2>2. ASSUME NEW i \in 1 .. Len(log')
        PROVE  hist'[i + 1] = ApplyLocked(hist'[i], Version, log'[i].op, i,
                                          log'[i].term)
    <3>1. CASE i = N
      BY <1>1, <3>1 DEF f, g
    <3>2. CASE i \in 1 .. N - 1
      BY <1>1, <3>2 DEF History, HistRuns
    <3> QED
      BY <1>1, <3>1, <3>2
  <2> QED
    BY <2>1, <2>2 DEF HistRuns
<1>4. HistAccumulates'
  <2> SUFFICES ASSUME NEW i \in 1 .. N + 1, NEW j \in 1 .. N + 1,
                      NEW id \in OpIDs, i <= j, hist'[i].applied[id] # Nil
               PROVE  hist'[j].applied[id] = hist'[i].applied[id]
    BY <1>1 DEF HistAccumulates
  <2>1. CASE j \in 1 .. N
    <3>1. i \in 1 .. N
      BY <1>1, <2>1
    <3> QED
      BY <1>1, <2>1, <3>1, SMTT(30) DEF History, HistAccumulates, N
  <2>2. CASE j = N + 1 /\ i \in 1 .. N
    <3>1. f.applied[id] = hist[i].applied[id]
      BY <1>1, <2>2 DEF History, HistAccumulates, N, f
    <3> QED
      BY <1>1, <1>2, <2>2, <3>1 DEF g
  <2>3. CASE j = N + 1 /\ i = N + 1
    BY <2>3
  <2> QED
    BY <1>1, <2>1, <2>2, <2>3
<1>5. HistPointsBack'
  <2> SUFFICES ASSUME NEW i \in 1 .. N + 1, NEW id \in OpIDs,
                      hist'[i].applied[id] # Nil
               PROVE  LET k == hist'[i].applied[id].result.index
                      IN /\ k \in 1 .. (i - 1)
                         /\ log'[k].op.id = id
                         /\ hist'[k + 1].applied[id] = hist'[i].applied[id]
    BY <1>1 DEF HistPointsBack
  <2>0. ASSUME NEW m \in 1 .. N, hist[m].applied[id] # Nil
        PROVE  LET k == hist[m].applied[id].result.index
               IN /\ k \in 1 .. (m - 1)
                  /\ log'[k].op.id = id
                  /\ hist'[k + 1].applied[id] = hist[m].applied[id]
    <3> DEFINE k == hist[m].applied[id].result.index
    <3>1. /\ k \in 1 .. (m - 1)
          /\ log[k].op.id = id
          /\ hist[k + 1].applied[id] = hist[m].applied[id]
      BY <2>0 DEF History, HistPointsBack, N
    <3> HIDE DEF k
    <3>2. k \in 1 .. N - 1 /\ k + 1 \in 1 .. N
      BY <1>1, <3>1
    <3>3. log'[k] = log[k] /\ hist'[k + 1] = hist[k + 1]
      BY <1>1, <3>2
    <3> QED
      BY <3>1, <3>3 DEF k
  <2>1. CASE i \in 1 .. N
    BY <1>1, <2>0, <2>1
  <2>2. CASE i = N + 1 /\ g.applied[id] = f.applied[id]
    <3>1. N \in 1 .. N /\ hist[N].applied[id] # Nil
      BY <1>1, <2>2 DEF f, g
    <3> DEFINE k == hist[N].applied[id].result.index
    <3>2. /\ k \in 1 .. (N - 1)
          /\ log'[k].op.id = id
          /\ hist'[k + 1].applied[id] = hist[N].applied[id]
      BY <2>0, <3>1
    <3>3. hist'[i].applied[id] = hist[N].applied[id]
      BY <2>2 DEF f, g
    <3>4. hist'[i].applied[id].result.index = k
      BY <3>3, Zenon
    <3> HIDE DEF k
    <3>5. k \in 1 .. (i - 1)
      BY <1>1, <2>2, <3>2
    <3>6. hist'[k + 1].applied[id] = hist'[i].applied[id]
      BY <3>2, <3>3, Zenon
    <3> QED
      BY <3>2, <3>4, <3>5, <3>6, Zenon
  <2>3. CASE i = N + 1 /\ g.applied[id] # f.applied[id]
    <3>1. e.op.id = id /\ g.applied[id].result.index = N
      BY <1>2, <2>3
    <3>2. hist'[i] = g /\ hist'[N + 1] = g /\ log'[N] = e /\ N \in 1 .. (i - 1)
      BY <1>1, <2>3 DEF g
    <3> QED
      BY <3>1, <3>2, Zenon
  <2>4. i \in 1 .. N \/ i = N + 1
    BY <1>1
  <2> QED
    BY <2>1, <2>2, <2>3, <2>4, Zenon
<1>6. HistIndexBehind'
  <2>1. f.appliedIndex <= N - 1 /\ f.appliedIndex \in Nat
    BY <1>1 DEF History, HistIndexBehind, N, f, FSM
  <2>2. g.appliedIndex \in {f.appliedIndex, N}
    BY <1>1, ApplyKeepsRecords DEF Operation
  <2>3. g.appliedIndex <= N
    BY <1>1, <2>1, <2>2
  <2>4. ASSUME NEW i \in 1 .. N + 1 PROVE hist'[i].appliedIndex <= i - 1
    <3>1. CASE i \in 1 .. N
      BY <1>1, <3>1 DEF History, HistIndexBehind, N
    <3>2. CASE i = N + 1
      BY <1>1, <2>3, <3>2 DEF g
    <3> QED
      BY <1>1, <3>1, <3>2
  <2> QED
    BY <1>1, <2>4 DEF HistIndexBehind
<1> QED
  BY <1>3, <1>4, <1>5, <1>6 DEF History

(* Every action keeps the facts about the reference states.                *)
LEMMA HistoryNext == TypeInv /\ History /\ [Next]_vars => History'
<1> SUFFICES ASSUME TypeInv, History, [Next]_vars PROVE History'
  OBVIOUS
<1>1. CASE UNCHANGED <<log, hist>>
  <2>1. HistRuns'
    BY <1>1 DEF History, HistRuns
  <2>2. HistAccumulates'
    BY <1>1 DEF History, HistAccumulates
  <2>3. HistPointsBack'
    <3>1. log' = log /\ hist' = hist
      BY <1>1
    <3>2. ASSUME NEW i \in 1 .. Len(hist), NEW id \in OpIDs, hist[i].applied[id] # Nil
          PROVE  LET k == hist[i].applied[id].result.index
                 IN /\ k \in 1 .. (i - 1)
                    /\ log[k].op.id = id
                    /\ hist[k + 1].applied[id] = hist[i].applied[id]
      BY <3>2, Zenon DEF History, HistPointsBack
    <3>3. ASSUME NEW i \in 1 .. Len(hist'), NEW id \in OpIDs, hist'[i].applied[id] # Nil
          PROVE  LET k == hist'[i].applied[id].result.index
                 IN /\ k \in 1 .. (i - 1)
                    /\ log'[k].op.id = id
                    /\ hist'[k + 1].applied[id] = hist'[i].applied[id]
      <4> DEFINE k == hist[i].applied[id].result.index
      <4>1. i \in 1 .. Len(hist) /\ hist[i].applied[id] # Nil
        BY <3>1, <3>3
      <4>2. /\ k \in 1 .. (i - 1) /\ log[k].op.id = id
            /\ hist[k + 1].applied[id] = hist[i].applied[id]
        BY <3>2, <4>1
      <4>3. k = hist'[i].applied[id].result.index
        BY <3>1
      <4> HIDE DEF k
      <4>4. QED
        BY <3>1, <4>2, <4>3
    <3> QED
      BY <3>3, Zenon DEF HistPointsBack
  <2>4. HistIndexBehind'
    BY <1>1 DEF History, HistIndexBehind
  <2> QED
    BY <2>1, <2>2, <2>3, <2>4 DEF History
<1>2. CASE \E e \in inflight : Extends(e)
  BY <1>2, HistoryExtended
<1> QED
  BY <1>1, <1>2, OnlyCommitExtends

(* Every state of the history stays where it is, and records of the last   *)
(* state survive the step.                                                 *)
LEMMA PastKept ==
  ASSUME TypeInv, History, [Next]_vars
  PROVE  /\ \A i \in 1 .. Len(hist) : hist'[i] = hist[i]
         /\ Len(hist') >= Len(hist)
         /\ \A id \in OpIDs : Latest.applied[id] # Nil =>
                               Latest'.applied[id] = Latest.applied[id]
<1>1. CASE UNCHANGED <<log, hist>>
  <2>1. Len(hist) \in Nat
    BY DEF TypeInv, TypeOK
  <2> QED
    BY <1>1, <2>1 DEF Latest
<1>2. ASSUME NEW e \in inflight, Extends(e)
      PROVE  /\ \A i \in 1 .. Len(hist) : hist'[i] = hist[i]
             /\ Len(hist') = Len(hist) + 1
             /\ Len(hist) \in Nat /\ Len(hist) >= 1
  BY <1>2, ExtendsKeepsPast
<1>3. CASE \E e \in inflight : Extends(e)
  <2>1. /\ \A i \in 1 .. Len(hist) : hist'[i] = hist[i]
        /\ Len(hist') = Len(hist) + 1
        /\ Len(hist) \in Nat /\ Len(hist) >= 1
    BY <1>2, <1>3
  <2>2. HistAccumulates'
    BY HistoryNext DEF History
  <2>3. ASSUME NEW id \in OpIDs, Latest.applied[id] # Nil
        PROVE  Latest'.applied[id] = Latest.applied[id]
    <3>1. /\ Len(hist) \in 1 .. Len(hist') /\ Len(hist') \in 1 .. Len(hist')
          /\ Len(hist) <= Len(hist') /\ hist'[Len(hist)] = hist[Len(hist)]
      BY <2>1
    <3> QED
      BY <2>2, <2>3, <3>1 DEF HistAccumulates, Latest
  <2> QED
    BY <2>1, <2>3
<1> QED
  BY <1>1, <1>3, OnlyCommitExtends

(* What ApplyNext does, with its LET names spelled out.                    *)
LEMMA ApplyNextFacts ==
  ASSUME TypeInv, History, ReplicasFollow, NEW n \in Nodes, ApplyNext(n)
  PROVE  LET i == pos[n] + 1
             e == log[i]
             clean == ~skipped[n] /\ e.op.version <= supported[n]
             r == ApplyResponse(fsm[n], supported[n], e.op, i, e.term)
         IN /\ i \in 1 .. Len(log)
            /\ pos' = [pos EXCEPT ![n] = i]
            /\ skipped' = [skipped EXCEPT ![n] = ~clean]
            /\ fsm' = [fsm EXCEPT ![n] = fsm'[n]]
            /\ fsm'[n] = ApplyLocked(fsm[n], supported[n], e.op, i, e.term)
            /\ clean => fsm'[n] = hist[i + 1]
            /\ \A k \in acks' : k \notin acks =>
                  /\ k = [op |-> e.op, result |-> r, clean |-> clean]
                  /\ r # Nil
            /\ UNCHANGED <<raftVars, up, snap>>
            /\ fsm[n] \in FSM /\ supported[n] \in Schemas
            /\ e.op \in Operation /\ e.op \in Ops /\ i \in Nat /\ e.term \in Nat
<1> DEFINE i == pos[n] + 1
           e == log[i]
           clean == ~skipped[n] /\ e.op.version <= supported[n]
           r == ApplyResponse(fsm[n], supported[n], e.op, i, e.term)
           g == ApplyLocked(fsm[n], supported[n], e.op, i, e.term)
<1>1. i \in 1 .. Len(log) /\ i \in Nat
  BY DEF ApplyNext, TypeInv, TypeOK, Positions
<1> HIDE DEF i
<1>2. e \in Entry
  BY <1>1 DEF TypeInv, TypeOK
<1>3. e.op \in Operation /\ e.op \in Ops /\ e.term \in Nat
  BY <1>2, OpsAssumption DEF Entry
<1>4. fsm[n] \in FSM /\ supported[n] \in Schemas /\ fsm \in [Nodes -> FSM]
  BY DEF TypeInv, TypeOK
<1> USE DEF i
<1>5. /\ pos' = [pos EXCEPT ![n] = i]
      /\ fsm' = [fsm EXCEPT ![n] = g]
      /\ skipped' = [skipped EXCEPT ![n] = ~clean]
      /\ UNCHANGED <<raftVars, up, snap>>
      /\ acks' = acks \/ (r # Nil /\ acks' = acks \cup
                            {[op |-> e.op, result |-> r, clean |-> clean]})
  BY DEF ApplyNext
<1> HIDE DEF i, e, r, g, clean
<1>6. fsm'[n] = g /\ fsm' = [fsm EXCEPT ![n] = fsm'[n]]
  BY <1>4, <1>5
<1>7. ASSUME clean PROVE fsm'[n] = hist[i + 1]
  <2>1. fsm[n] = hist[i]
    BY <1>7 DEF ReplicasFollow, clean, i, TypeInv, TypeOK
  <2>2. hist[i + 1] = ApplyLocked(hist[i], Version, e.op, i, e.term)
    BY <1>1 DEF History, HistRuns, e
  <2>3. g = ApplyLocked(fsm[n], Version, e.op, i, e.term)
    BY <1>1, <1>3, <1>4, <1>7, SupportedIsUniform DEF g, clean
  <2> QED
    BY <1>6, <2>1, <2>2, <2>3
<1>8. \A k \in acks' : k \notin acks =>
         k = [op |-> e.op, result |-> r, clean |-> clean] /\ r # Nil
  BY <1>5
<1> QED
  BY <1>1, <1>3, <1>4, <1>5, <1>6, <1>7, <1>8 DEF i, e, r, g, clean

(* Every action leaves a node that skipped nothing in the reference state  *)
(* of its position: log replay, restart and snapshot installation alike.   *)
LEMMA FollowNext == IndInv /\ [Next]_vars => ReplicasFollow'
<1> SUFFICES ASSUME IndInv, [Next]_vars PROVE ReplicasFollow'
  OBVIOUS
<1> USE DEF IndInv
<1>0. /\ pos \in [Nodes -> Nat] /\ skipped \in [Nodes -> BOOLEAN]
      /\ fsm \in [Nodes -> FSM] /\ snap \in [Nodes -> SnapshotRec]
      /\ Len(hist) \in Nat /\ Len(hist) >= 1
      /\ \A n \in Nodes : /\ pos[n] + 1 \in 1 .. Len(hist)
                          /\ snap[n].pos + 1 \in 1 .. Len(hist)
                          /\ snap[n].pos \in Nat
  BY DEF TypeInv, TypeOK, Positions, SnapshotRec
<1>1. \A i \in 1 .. Len(hist) : hist'[i] = hist[i]
  BY PastKept
<1>2. \A n \in Nodes :
        /\ ~skipped[n] => fsm[n] = hist'[pos[n] + 1]
        /\ ~snap[n].skipped => snap[n].fsm = hist'[snap[n].pos + 1]
  BY <1>0, <1>1 DEF ReplicasFollow
<1>3. CASE UNCHANGED <<fsm, pos, skipped, snap>>
  BY <1>2, <1>3 DEF ReplicasFollow
<1>4. ASSUME NEW n \in Nodes, ApplyNext(n) PROVE ReplicasFollow'
  <2> DEFINE i == pos[n] + 1
             clean == ~skipped[n] /\ log[i].op.version <= supported[n]
  <2>1. /\ i \in 1 .. Len(log)
        /\ pos' = [pos EXCEPT ![n] = i]
        /\ skipped' = [skipped EXCEPT ![n] = ~clean]
        /\ fsm' = [fsm EXCEPT ![n] = fsm'[n]]
        /\ clean => fsm'[n] = hist[i + 1]
        /\ snap' = snap /\ hist' = hist
    BY <1>4, ApplyNextFacts DEF raftVars
  <2> HIDE DEF i, clean
  <2> SUFFICES ASSUME NEW m \in Nodes
               PROVE  /\ ~skipped'[m] => fsm'[m] = hist'[pos'[m] + 1]
                      /\ ~snap'[m].skipped => snap'[m].fsm = hist'[snap'[m].pos + 1]
    BY DEF ReplicasFollow
  <2>2. CASE m = n
    BY <1>0, <1>2, <2>1, <2>2
  <2>3. CASE m # n
    BY <1>0, <1>2, <2>1, <2>3
  <2> QED
    BY <2>2, <2>3
<1>5. ASSUME NEW n \in Nodes, TakeSnapshot(n) PROVE ReplicasFollow'
  <2>1. /\ snap' = [snap EXCEPT ![n] = [pos |-> pos[n], fsm |-> fsm[n],
                         version |-> supported[n], skipped |-> skipped[n]]]
        /\ UNCHANGED <<fsm, pos, skipped>>
    BY <1>5 DEF TakeSnapshot, Snapshot
  <2> QED
    BY <1>0, <1>2, <2>1 DEF ReplicasFollow
<1>6. ASSUME NEW n \in Nodes, NEW t \in SnapshotRec, Restored(n, t),
             ~t.skipped => t.fsm = hist'[t.pos + 1],
             snap' = snap \/ snap' = [snap EXCEPT ![n] = t]
      PROVE  ReplicasFollow'
  BY <1>0, <1>2, <1>6 DEF ReplicasFollow, Restored
<1>7. ASSUME NEW n \in Nodes, NEW l \in Nodes, InstallSnapshot(l, n)
      PROVE  ReplicasFollow'
  BY <1>0, <1>2, <1>6, <1>7 DEF InstallSnapshot
<1>8. ASSUME NEW n \in Nodes, Crash(n) PROVE ReplicasFollow'
  <2>a. hist[1] = NewKVFSM
    BY DEF History, HistRuns
  <2>b. 1 \in 1 .. Len(hist)
    BY <1>0
  <2>0. hist'[1] = NewKVFSM
    BY <1>1, <2>a, <2>b
  <2>1. NoSnapshot.fsm = hist'[NoSnapshot.pos + 1]
    BY <2>0, 0 + 1 = 1 DEF NoSnapshot
  <2> QED
    BY <1>6, <1>8, <2>1, NoSnapshotType DEF Crash
<1>9. ASSUME NEW n \in Nodes, Restart(n) PROVE ReplicasFollow'
  BY <1>0, <1>2, <1>6, <1>9 DEF Restart
<1>10. CASE ClientStep
  BY <1>3, <1>10 DEF ClientStep, Propose, HandlePropose, Enter, ProposeLocal,
     Dispatch, Refuse, raftVars, nodeVars
<1>11. CASE CommitStep
  BY <1>3, <1>11 DEF CommitStep, Commit
<1>12. CASE MemberStep
  BY <1>3, <1>12 DEF MemberStep, Join, AddLearner, PromoteLearnerAfterCatchUp,
              DemoteVoter, RemoveServer, Reconfigure, nodeVars
<1>13. CASE \E e \in inflight : Lose(e)
  BY <1>3, <1>13 DEF Lose, nodeVars
<1>14. ASSUME NEW n \in Nodes,
              \/ Elect(n) \/ StepDown(n) \/ RegisterCapabilities(n)
              \/ \E v \in Schemas : SetSupported(n, v)
              \/ \E l \in Nodes : Receive(l, n)
       PROVE  ReplicasFollow'
  BY <1>3, <1>14 DEF Elect, StepDown, RegisterCapabilities, SetSupported, Receive,
                     nodeVars
<1>15. CASE UNCHANGED vars
  BY <1>3, <1>15 DEF vars, nodeVars
<1> QED
  BY <1>4, <1>5, <1>7, <1>8, <1>9, <1>10, <1>11, <1>12, <1>13, <1>14, <1>15
     DEF Next

(* A clean response is on record in the last state of the history.         *)
LEMMA ResponseReachesLatest ==
  ASSUME IndInv, NEW n \in Nodes, ApplyNext(n), NEW k \in acks', k \notin acks,
         k.clean
  PROVE  /\ k.op \in Ops
         /\ Latest.applied[k.op.id] # Nil
         /\ Latest.applied[k.op.id].result = k.result
         /\ Latest.applied[k.op.id].digest = Digest(k.op)
<1> DEFINE i == pos[n] + 1
           e == log[i]
           clean == ~skipped[n] /\ e.op.version <= supported[n]
           r == ApplyResponse(fsm[n], supported[n], e.op, i, e.term)
           g == ApplyLocked(fsm[n], supported[n], e.op, i, e.term)
<1>1. /\ i \in 1 .. Len(log) /\ i \in Nat
      /\ fsm'[n] = g /\ (clean => fsm'[n] = hist[i + 1])
      /\ k = [op |-> e.op, result |-> r, clean |-> clean] /\ r # Nil
      /\ fsm[n] \in FSM /\ supported[n] \in Schemas
      /\ e.op \in Operation /\ e.op \in Ops /\ e.term \in Nat
  BY ApplyNextFacts DEF IndInv
<1>2. /\ g.applied[e.op.id] # Nil
      /\ g.applied[e.op.id].result = r
      /\ g.applied[e.op.id].digest = Digest(e.op)
  <2>1. /\ fsm[n] \in FSM /\ supported[n] \in Schemas /\ e.op \in Operation
        /\ i \in Nat /\ e.term \in Nat
        /\ ApplyResponse(fsm[n], supported[n], e.op, i, e.term) # Nil
    BY <1>1
  <2> HIDE DEF i, e
  <2>2. QED
    BY <2>1, ResponseIsRecorded
<1> HIDE DEF i, e, clean, r, g
<1>3. k.op = e.op /\ k.result = r /\ g = hist[i + 1]
  BY <1>1
<1>4. /\ i + 1 \in 1 .. Len(hist) /\ Len(hist) \in 1 .. Len(hist)
      /\ i + 1 <= Len(hist) /\ e.op.id \in OpIDs
  BY <1>1 DEF IndInv, TypeInv, TypeOK, Positions, Operation
<1>5. Latest.applied[e.op.id] = g.applied[e.op.id]
  BY <1>2, <1>3, <1>4 DEF IndInv, History, HistAccumulates, Latest
<1> QED
  BY <1>1, <1>2, <1>3, <1>5

(* Responses come only from the apply loop.                                *)
LEMMA OnlyApplyAnswers ==
  [Next]_vars => UNCHANGED acks \/ \E n \in Nodes : ApplyNext(n)
<1> SUFFICES ASSUME [Next]_vars, ~\E n \in Nodes : ApplyNext(n)
             PROVE  acks' = acks
  OBVIOUS
<1>1. CASE ClientStep
  BY <1>1 DEF ClientStep, Propose, HandlePropose, Enter, ProposeLocal,
     Dispatch, Refuse, raftVars
<1>2. CASE CommitStep
  BY <1>2 DEF CommitStep, Commit, callVars
<1>3. CASE MemberStep
  BY <1>3 DEF MemberStep, Join, AddLearner, PromoteLearnerAfterCatchUp,
              DemoteVoter, RemoveServer, Reconfigure
<1>4. CASE \E e \in inflight : Lose(e)
  BY <1>4 DEF Lose, callVars
<1>5. ASSUME NEW n \in Nodes,
             \/ Elect(n) \/ StepDown(n) \/ TakeSnapshot(n) \/ Crash(n) \/ Restart(n)
             \/ RegisterCapabilities(n) \/ \E v \in Schemas : SetSupported(n, v)
             \/ \E l \in Nodes : Receive(l, n) \/ InstallSnapshot(l, n)
      PROVE  acks' = acks
  BY <1>5 DEF Elect, StepDown, TakeSnapshot, Crash, Restart, RegisterCapabilities,
              SetSupported, Receive, InstallSnapshot, callVars
<1>6. CASE UNCHANGED vars
  BY <1>6 DEF vars, callVars
<1> QED
  BY <1>1, <1>2, <1>3, <1>4, <1>5, <1>6 DEF Next

(* Every action keeps each acknowledged result recorded in the last        *)
(* reference state.                                                        *)
LEMMA AcksNext == IndInv /\ [Next]_vars => AcksRecorded'
<1> SUFFICES ASSUME IndInv, [Next]_vars, NEW k \in acks', k.clean
             PROVE  /\ Latest'.applied[k.op.id] # Nil
                    /\ Latest'.applied[k.op.id].result = k.result
                    /\ Latest'.applied[k.op.id].digest = Digest(k.op)
  BY DEF AcksRecorded, Digest
<1>1. \A id \in OpIDs : Latest.applied[id] # Nil =>
                        Latest'.applied[id] = Latest.applied[id]
  BY PastKept DEF IndInv
<1>2. CASE k \in acks
  <2>1. k.op.id \in OpIDs
    BY <1>2, OpsAssumption DEF IndInv, TypeInv, TypeOK, Ack, Operation
  <2> QED
    BY <1>1, <1>2, <2>1 DEF IndInv, AcksRecorded
<1>3. CASE k \notin acks
  <2>1. PICK n \in Nodes : ApplyNext(n)
    BY <1>3, OnlyApplyAnswers
  <2>2. /\ k.op \in Ops
        /\ Latest.applied[k.op.id] # Nil
        /\ Latest.applied[k.op.id].result = k.result
        /\ Latest.applied[k.op.id].digest = Digest(k.op)
    BY <1>3, <2>1, ResponseReachesLatest
  <2>3. k.op.id \in OpIDs
    BY <2>2, OpsAssumption DEF Operation
  <2> QED
    BY <1>1, <2>2, <2>3
<1> QED
  BY <1>2, <1>3

(* The inductive invariant is preserved by every step.                     *)
LEMMA IndNext == IndInv /\ [Next]_vars => IndInv'
BY TypeNext, HistoryNext, FollowNext, AcksNext DEF IndInv

(* The inductive invariant holds in every reachable state.                 *)
LEMMA Inductive == Spec => []IndInv
BY IndInit, IndNext, PTL DEF Spec

----------------------------------------------------------------------------
(* The safety properties.                                                  *)

(* Replicas that missed no entry agree at every log position, for every    *)
(* cluster, through restarts, snapshots and catch-up.                      *)
THEOREM AgreementHolds == Spec => []ReplicaAgreement
<1>1. IndInv => ReplicaAgreement
  BY DEF IndInv, ReplicasFollow, ReplicaAgreement
<1> QED
  BY Inductive, <1>1, PTL

(* An acknowledged result is, and stays, the committed record of its       *)
(* operation identity.                                                     *)
THEOREM AcksAreDurable == Spec => []AckDurable
<1>1. IndInv => AckDurable
  <2> SUFFICES ASSUME IndInv, NEW k \in acks, k.clean
               PROVE  /\ Latest.applied[k.op.id] # Nil
                      /\ Latest.applied[k.op.id].result = k.result
                      /\ Latest.applied[k.op.id].digest = Digest(k.op)
                      /\ k.result.index \in 1 .. Len(log)
                      /\ log[k.result.index].op.id = k.op.id
    BY DEF AckDurable, Digest
  <2>1. /\ Latest.applied[k.op.id] # Nil
        /\ Latest.applied[k.op.id].result = k.result
        /\ Latest.applied[k.op.id].digest = Digest(k.op)
    BY DEF IndInv, AcksRecorded
  <2>2. /\ k.op.id \in OpIDs /\ Len(hist) \in 1 .. Len(hist)
        /\ Len(hist) = Len(log) + 1 /\ Len(log) \in Nat
    BY OpsAssumption DEF IndInv, TypeInv, TypeOK, Ack, Operation, Positions
  <2>3. /\ k.result.index \in 1 .. (Len(hist) - 1)
        /\ log[k.result.index].op.id = k.op.id
    <3>1. PICK N : N = Len(hist)
      OBVIOUS
    <3>2. N \in 1 .. Len(hist) /\ k.op.id \in OpIDs /\ hist[N].applied[k.op.id] # Nil
          /\ hist[N].applied[k.op.id].result.index = k.result.index
      BY <2>1, <2>2, <3>1 DEF Latest
    <3>3. HistPointsBack
      BY DEF IndInv, History
    <3>4. k.result.index \in 1 .. (N - 1) /\ log[k.result.index].op.id = k.op.id
      <4>1. LET m == hist[N].applied[k.op.id].result.index
            IN  m \in 1 .. (N - 1) /\ log[m].op.id = k.op.id
        BY <3>2, <3>3, Zenon DEF HistPointsBack
      <4>2. QED
        BY <3>2, <4>1, Zenon
    <3>5. QED
      BY <3>1, <3>4
  <2> QED
    BY <2>1, <2>2, <2>3
<1> QED
  BY Inductive, <1>1, PTL

(* Among the committed entries of one operation identity at most one takes *)
(* effect.                                                                 *)
THEOREM AppliedAtMostOnce == Spec => []AppliedOnce
<1>1. IndInv => AppliedOnce
  <2> SUFFICES ASSUME IndInv, NEW i \in 1 .. Len(log), NEW j \in 1 .. Len(log),
                      i < j, hist[i + 1] # hist[i], hist[j + 1] # hist[j],
                      log[i].op.id = log[j].op.id
               PROVE  FALSE
    BY DEF AppliedOnce
  <2> DEFINE id == log[i].op.id
  <2>1. ASSUME NEW m \in 1 .. Len(log), hist[m + 1] # hist[m]
        PROVE  /\ log[m].op.id \in OpIDs
               /\ hist[m].applied[log[m].op.id] = Nil
               /\ hist[m + 1].applied[log[m].op.id] # Nil
    <3>1. log[m] \in Entry /\ hist[m] \in FSM /\ m \in Nat
      BY DEF IndInv, TypeInv, TypeOK, Positions
    <3>2. log[m].op \in Operation /\ log[m].term \in Nat /\ Version \in Schemas
      BY <3>1, OpsAssumption, VersionAssumption DEF Entry, Schemas
    <3>3. hist[m + 1] = ApplyLocked(hist[m], Version, log[m].op, m, log[m].term)
      BY DEF IndInv, History, HistRuns
    <3>4. log[m].op.id \in OpIDs
      BY <3>2 DEF Operation
    <3> DEFINE f == hist[m]
               op == log[m].op
               g == ApplyLocked(f, Version, op, m, log[m].term)
    <3>5. g # f => f.applied[op.id] = Nil /\ g.applied[op.id] # Nil
      <4>1. /\ f \in FSM /\ op \in Operation /\ op.id \in OpIDs /\ m \in Nat
            /\ log[m].term \in Nat /\ Version \in Schemas
        BY <3>1, <3>2, <3>4
      <4> HIDE DEF f, op
      <4> QED
        BY <4>1, ApplyKeepsRecords, SMTT(30)
    <3> HIDE DEF g
    <3> QED
      BY <2>1, <3>3, <3>4, <3>5 DEF g
  <2>2. /\ id \in OpIDs /\ hist[i + 1].applied[id] # Nil
        /\ hist[j].applied[id] = Nil
    BY <2>1
  <2>3. /\ i + 1 \in 1 .. Len(hist) /\ j \in 1 .. Len(hist) /\ i + 1 <= j
    BY DEF IndInv, TypeInv, TypeOK, Positions
  <2> QED
    BY <2>2, <2>3 DEF IndInv, History, HistAccumulates
<1> QED
  BY Inductive, <1>1, PTL

(* Waiting for the index of an acknowledged result on any replica that     *)
(* missed no entry is enough to read the operation's effect there.         *)
THEOREM WaitIsEnough == Spec => []ReadAfterWait
<1>1. IndInv => ReadAfterWait
  <2> SUFFICES ASSUME IndInv, NEW k \in acks, NEW n \in Nodes,
                      k.clean, up[n], ~skipped[n], WaitAppliedReturns(n, k.result.index)
               PROVE  /\ fsm[n].applied[k.op.id] # Nil
                      /\ fsm[n].applied[k.op.id].result = k.result
    BY DEF ReadAfterWait
  <2> DEFINE x == k.result.index
             id == k.op.id
  <2>1. /\ Latest.applied[id] # Nil /\ Latest.applied[id].result = k.result
    BY DEF IndInv, AcksRecorded
  <2>2. /\ id \in OpIDs /\ Len(hist) \in 1 .. Len(hist) /\ Len(hist) \in Nat
        /\ pos[n] \in Nat /\ pos[n] + 1 \in 1 .. Len(hist)
        /\ fsm[n] \in FSM
    BY OpsAssumption DEF IndInv, TypeInv, TypeOK, Ack, Operation, Positions
  <2>a. HistPointsBack /\ HistAccumulates
    BY DEF IndInv, History
  <2>b. hist[Len(hist)].applied[id].result.index = x
    BY <2>1 DEF Latest
  <2>3. /\ x \in 1 .. (Len(hist) - 1)
        /\ hist[x + 1].applied[id] = Latest.applied[id]
    <3> HIDE DEF x, id
    <3> QED
      BY <2>1, <2>2, <2>a, <2>b DEF HistPointsBack, Latest
  <2>4. fsm[n] = hist[pos[n] + 1]
    BY DEF IndInv, ReplicasFollow
  <2>5. fsm[n].appliedIndex <= pos[n] /\ fsm[n].appliedIndex \in Nat
    BY <2>2, <2>4 DEF IndInv, History, HistIndexBehind, FSM
  <2>6. x <= pos[n]
    BY <2>2, <2>3, <2>5 DEF WaitAppliedReturns
  <2> HIDE DEF x, id
  <2>7. x + 1 \in 1 .. Len(hist) /\ x + 1 <= pos[n] + 1
    BY <2>2, <2>3, <2>6
  <2>8. hist[pos[n] + 1].applied[id] = hist[x + 1].applied[id]
    BY <2>1, <2>2, <2>3, <2>7 DEF IndInv, History, HistAccumulates
  <2> QED
    BY <2>1, <2>3, <2>4, <2>8 DEF id
<1> QED
  BY Inductive, <1>1, PTL

(* The position of a node that keeps running never moves back.             *)
LEMMA PositionMonotone ==
  ASSUME IndInv, [Next]_vars, NEW n \in Nodes, up[n], up'[n]
  PROVE  pos'[n] >= pos[n]
<1> USE DEF IndInv, TypeInv
<1>0. /\ pos \in [Nodes -> Nat] /\ up \in [Nodes -> BOOLEAN]
      /\ \A m \in Nodes : /\ pos[m] <= stored[m] /\ stored[m] \in Nat
                          /\ snap[m].pos \in Nat
      /\ TrailingLogs \in Nat
  BY BoundsAssumption DEF TypeOK, Positions, SnapshotRec
<1>1. CASE UNCHANGED pos
  BY <1>0, <1>1
<1>2. ASSUME NEW m \in Nodes, ApplyNext(m) PROVE pos'[n] >= pos[n]
  <2>1. pos' = [pos EXCEPT ![m] = pos[m] + 1]
    BY <1>2 DEF ApplyNext
  <2> QED
    BY <1>0, <2>1
<1>3. ASSUME NEW m \in Nodes, NEW l \in Nodes, InstallSnapshot(l, m)
      PROVE  pos'[n] >= pos[n]
  <2>1. pos' = [pos EXCEPT ![m] = snap[l].pos] /\ stored[m] < Compacted(l)
    BY <1>3 DEF InstallSnapshot, Restored
  <2>2. Compacted(l) <= snap[l].pos
    BY <1>0 DEF Compacted
  <2>3. Compacted(l) \in Nat
    BY <1>0 DEF Compacted
  <2> QED
    BY <1>0, <2>1, <2>2, <2>3
<1>4. ASSUME NEW m \in Nodes, Crash(m) PROVE pos'[n] >= pos[n]
  BY <1>0, <1>4 DEF Crash, Restored
<1>5. ASSUME NEW m \in Nodes, Restart(m) PROVE pos'[n] >= pos[n]
  BY <1>0, <1>5 DEF Restart, Restored
<1>6. CASE ClientStep
  BY <1>1, <1>6 DEF ClientStep, Propose, HandlePropose, Enter, ProposeLocal,
     Dispatch, Refuse, raftVars, nodeVars
<1>7. CASE CommitStep
  BY <1>1, <1>7 DEF CommitStep, Commit
<1>8. CASE MemberStep
  BY <1>1, <1>8 DEF MemberStep, Join, AddLearner, PromoteLearnerAfterCatchUp,
              DemoteVoter, RemoveServer, Reconfigure, nodeVars
<1>9. CASE \E e \in inflight : Lose(e)
  BY <1>1, <1>9 DEF Lose, nodeVars
<1>10. ASSUME NEW m \in Nodes,
              \/ Elect(m) \/ StepDown(m) \/ RegisterCapabilities(m)
              \/ \E v \in Schemas : SetSupported(m, v)
              \/ TakeSnapshot(m) \/ \E l \in Nodes : Receive(l, m)
       PROVE  pos'[n] >= pos[n]
  BY <1>1, <1>10 DEF Elect, StepDown, RegisterCapabilities, SetSupported, Receive,
                     TakeSnapshot, nodeVars
<1>11. CASE UNCHANGED vars
  BY <1>1, <1>11 DEF vars, nodeVars
<1> QED
  BY <1>2, <1>3, <1>4, <1>5, <1>6, <1>7, <1>8, <1>9, <1>10, <1>11 DEF Next

(* A running replica never drops or replaces the result it has recorded    *)
(* for an operation identity.                                              *)
THEOREM RecordsAreKept == Spec => RecordsNeverChange
<1>1. IndInv /\ IndInv' /\ [Next]_vars => RecordsKept
  <2> SUFFICES ASSUME IndInv, IndInv', [Next]_vars, NEW n \in Nodes,
                      up[n], up'[n], ~skipped[n], ~skipped'[n],
                      NEW id \in OpIDs, fsm[n].applied[id] # Nil
               PROVE  fsm'[n].applied[id] = fsm[n].applied[id]
    BY DEF RecordsKept
  <2>1. pos'[n] >= pos[n]
    BY PositionMonotone
  <2>2. fsm[n] = hist[pos[n] + 1] /\ fsm'[n] = hist'[pos'[n] + 1]
    BY DEF IndInv, ReplicasFollow
  <2>3. /\ pos[n] \in Nat /\ pos'[n] \in Nat /\ pos[n] + 1 \in 1 .. Len(hist)
        /\ pos'[n] + 1 \in 1 .. Len(hist') /\ Len(hist) \in Nat /\ Len(hist') \in Nat
    BY SMTT(30) DEF IndInv, TypeInv, TypeOK, Positions
  <2>4. hist'[pos[n] + 1] = hist[pos[n] + 1] /\ Len(hist') >= Len(hist)
    BY <2>3, PastKept DEF IndInv
  <2>5. pos[n] + 1 \in 1 .. Len(hist') /\ pos[n] + 1 <= pos'[n] + 1
    BY <2>1, <2>3, <2>4
  <2>6. HistAccumulates'
    BY DEF IndInv, History
  <2> DEFINE i == pos[n] + 1
             j == pos'[n] + 1
  <2>7. i \in 1 .. Len(hist') /\ j \in 1 .. Len(hist') /\ i <= j
    BY <2>3, <2>5
  <2>8. hist'[i].applied[id] # Nil /\ hist'[i].applied[id] = fsm[n].applied[id]
    BY <2>2, <2>4
  <2>9. fsm'[n] = hist'[j]
    BY <2>2
  <2> HIDE DEF i, j
  <2>10. hist'[j].applied[id] = hist'[i].applied[id]
    BY <2>6, <2>7, <2>8 DEF HistAccumulates
  <2> QED
    BY <2>8, <2>9, <2>10
<1> QED
  BY Inductive, <1>1, PTL DEF Spec, RecordsNeverChange

----------------------------------------------------------------------------
(* The nodes implement the atomic store.                                   *)

AnsweredMap == {[op |-> k.op, result |-> k.result] : k \in {g \in acks : g.clean}}
PendingMap == {e.op : e \in inflight}

(* The store's operators are the state machine's.                          *)
LEMMA SameOperators ==
  /\ KV!NewKVFSM = NewKVFSM
  /\ \A f, s, op, i, t :
       KV!ApplyLocked(f, s, op, i, t) = ApplyLocked(f, s, op, i, t)
  /\ \A f, op : KV!OpKnown(f, op) <=> OpKnown(f, op)
  /\ \A f, op : KV!Prior(f, op) = Prior(f, op)
BY DEF KV!NewKVFSM, NewKVFSM, KV!ApplyLocked, ApplyLocked, KV!TakesEffect,
       TakesEffect, KV!Admits, Admits, KV!ValidateKind, ValidateKind, KV!OpKnown,
       OpKnown, KV!Undecodable, Undecodable, KV!Stale, Stale, KV!NewEntry, NewEntry,
       KV!NewResult, NewResult, KV!Digest, Digest, KV!Prior, Prior, KV!KindSet,
       KindSet, KV!KindDelete, KindDelete

(* The initial states map to the initial state of the abstract store.      *)
LEMMA RefinesInit == Init => KV!Init
BY SameOperators DEF Init, KV!Init, Latest

(* Taking effect sets the applied index and term; an operation without     *)
(* effect has none whatever they are.                                      *)
LEMMA ApplyPosition ==
  ASSUME NEW f \in FSM, NEW op \in Operation, NEW i \in Nat, NEW t \in Nat
  PROVE  LET g == ApplyLocked(f, Version, op, i, t)
         IN /\ g = ApplyLocked(f, Version, op, g.appliedIndex, g.appliedTerm)
            /\ g # f => g.appliedIndex = i
<1>1. CASE TakesEffect(f, Version, op)
  <2>1. /\ ApplyLocked(f, Version, op, i, t).appliedIndex = i
        /\ ApplyLocked(f, Version, op, i, t).appliedTerm = t
    BY <1>1 DEF ApplyLocked
  <2> QED
    BY <2>1
<1>2. CASE ~TakesEffect(f, Version, op)
  <2>1. \A j, u : ApplyLocked(f, Version, op, j, u) = f
    BY <1>2 DEF ApplyLocked
  <2> QED
    BY <2>1
<1> QED
  BY <1>1, <1>2

(* Removing one entry removes its operation, unless another copy of it is  *)
(* in flight.                                                              *)
LEMMA PendingShrinks ==
  ASSUME NEW e \in inflight, inflight' = inflight \ {e}
  PROVE  e.op \in PendingMap /\ PendingMap' \in {PendingMap, PendingMap \ {e.op}}
<1>1. CASE \E d \in inflight' : d.op = e.op
  <2>1. PendingMap' = PendingMap
    BY <1>1 DEF PendingMap
  <2> QED
    BY <2>1 DEF PendingMap
<1>2. CASE ~\E d \in inflight' : d.op = e.op
  <2>1. PendingMap' = PendingMap \ {e.op}
    BY <1>2 DEF PendingMap
  <2> QED
    BY <2>1 DEF PendingMap
<1> QED
  BY <1>1, <1>2

(* Every step maps to a step of the abstract store or leaves it unchanged. *)
LEMMA RefinesNext ==
  IndInv /\ [Next]_vars => [KV!Next]_(KV!vars)
<1> SUFFICES ASSUME IndInv, [Next]_vars
             PROVE  KV!Next \/ UNCHANGED <<Latest, PendingMap, AnsweredMap>>
  BY DEF KV!vars, PendingMap, AnsweredMap
<1>1. CASE UNCHANGED <<hist, inflight, acks>>
  BY <1>1 DEF Latest, PendingMap, AnsweredMap
<1>2. ASSUME NEW c \in Clients, ProposeLocal(c), Dispatch(c) PROVE KV!Next
  <2> DEFINE d == [op |-> call[c].op, term |-> leader[call[c].node],
                   seq |-> dispatched + 1, checked |-> call[c].checked]
  <2>0. inflight' = inflight \cup {d} /\ d.op = call[c].op /\ call[c].op \in Ops
    BY <1>2 DEF ProposeLocal, Dispatch, IndInv, TypeInv, TypeOK, CallRec
  <2> HIDE DEF d
  <2>1. PendingMap' = PendingMap \cup {call[c].op}
    BY <2>0 DEF PendingMap
  <2>2. UNCHANGED <<Latest, AnsweredMap>>
    BY <1>2 DEF Dispatch, Latest, AnsweredMap
  <2>3. KV!Submit
    BY <2>0, <2>1, <2>2 DEF KV!Submit, PendingMap, AnsweredMap
  <2> QED
    BY <2>3 DEF KV!Next
<1>3. CASE CommitStep
  <2> PICK l \in Nodes, e \in inflight, Q \in Quorums(Voters) : Commit(l, e, Q)
    BY <1>3 DEF CommitStep
  <2> DEFINE g == ApplyLocked(Latest, Version, e.op, Len(log) + 1, e.term)
  <2>1. Extends(e) /\ inflight' = inflight \ {e} /\ acks' = acks
    BY DEF Commit, Extends, callVars
  <2>2. /\ Latest \in FSM /\ e.op \in Operation /\ e.term \in Nat
        /\ Len(log) \in Nat /\ Len(hist) = Len(log) + 1
        /\ Len(hist') = Len(hist) + 1 /\ hist'[Len(hist) + 1] = g
    BY <2>1, ExtendsKeepsPast DEF IndInv, Latest
  <2>3. Latest' = g
    BY <2>2 DEF Latest
  <2>4. /\ g = ApplyLocked(Latest, Version, e.op, g.appliedIndex, g.appliedTerm)
        /\ g # Latest => g.appliedIndex = Len(log) + 1
    BY <2>2, ApplyPosition
  <2>5. Latest.appliedIndex <= Len(log) /\ Latest.appliedIndex \in Nat
    BY <2>2 DEF IndInv, History, HistIndexBehind, Latest, FSM
  <2> HIDE DEF g
  <2>6. g # Latest => g.appliedIndex > Latest.appliedIndex
    BY <2>2, <2>4, <2>5
  <2>7. e.op \in PendingMap /\ PendingMap' \in {PendingMap, PendingMap \ {e.op}}
    BY <2>1, PendingShrinks
  <2>8. UNCHANGED AnsweredMap
    BY <2>1 DEF AnsweredMap
  <2>9. KV!Take(e.op)
    BY <2>3, <2>4, <2>6, <2>7, <2>8, SameOperators
       DEF KV!Take, PendingMap, AnsweredMap
  <2> QED
    BY <2>7, <2>9 DEF KV!Next, PendingMap
<1>4. ASSUME NEW e \in inflight, Lose(e)
      PROVE  KV!Next \/ UNCHANGED <<Latest, PendingMap, AnsweredMap>>
  <2>1. inflight' = inflight \ {e} /\ UNCHANGED <<Latest, AnsweredMap>>
    BY <1>4 DEF Lose, callVars, Latest, AnsweredMap
  <2>2. e.op \in PendingMap /\ PendingMap' \in {PendingMap, PendingMap \ {e.op}}
    BY <2>1, PendingShrinks
  <2>3. CASE PendingMap' = PendingMap \ {e.op}
    <3>1. KV!Drop(e.op)
      BY <2>1, <2>3 DEF KV!Drop, PendingMap, AnsweredMap
    <3> QED
      BY <2>2, <3>1 DEF KV!Next, PendingMap
  <2> QED
    BY <2>1, <2>2, <2>3
<1>5. ASSUME NEW n \in Nodes, ApplyNext(n)
      PROVE  KV!Next \/ UNCHANGED <<Latest, PendingMap, AnsweredMap>>
  <2>1. UNCHANGED <<Latest, PendingMap>>
    BY <1>5 DEF ApplyNext, raftVars, Latest, PendingMap
  <2>2. CASE AnsweredMap' = AnsweredMap
    BY <2>1, <2>2
  <2>3. CASE AnsweredMap' # AnsweredMap
    <3>1. PICK k \in acks' : k \notin acks /\ acks' = acks \cup {k}
      BY <1>5, <2>3 DEF ApplyNext, AnsweredMap
    <3>2. k.clean /\ AnsweredMap' = AnsweredMap \cup {[op |-> k.op, result |-> k.result]}
      BY <2>3, <3>1 DEF AnsweredMap
    <3>3. /\ k.op \in Ops
          /\ Latest.applied[k.op.id] # Nil
          /\ Latest.applied[k.op.id].result = k.result
          /\ Latest.applied[k.op.id].digest = Digest(k.op)
      BY <1>5, <3>1, <3>2, ResponseReachesLatest
    <3>4. k.result # Nil
      <4>1. k.op.id \in OpIDs /\ Latest \in FSM
        BY <3>3, OpsAssumption
           DEF IndInv, TypeInv, TypeOK, Positions, Operation, Latest
      <4>2. Latest.applied[k.op.id] \in appliedOp
        BY <3>3, <4>1 DEF FSM
      <4> QED
        BY <3>3, <4>2, NilAssumption DEF appliedOp
    <3>5. OpKnown(Latest, k.op) /\ Prior(Latest, k.op) = k.result
      BY <3>3 DEF OpKnown, Prior
    <3>6. KV!Answer(k.op)
      BY <2>1, <3>2, <3>4, <3>5, SameOperators DEF KV!Answer, PendingMap, AnsweredMap
    <3> QED
      BY <3>3, <3>6 DEF KV!Next
  <2> QED
    BY <2>2, <2>3
<1>6. CASE ClientStep
  <2>1. \/ \E c \in Clients : ProposeLocal(c) /\ Dispatch(c)
        \/ UNCHANGED <<hist, inflight, acks>>
    BY <1>6 DEF ClientStep, Propose, HandlePropose, Enter, ProposeLocal, Refuse,
                raftVars
  <2> QED
    BY <1>1, <1>2, <2>1
<1>7. CASE MemberStep
  BY <1>1, <1>7 DEF MemberStep, Join, AddLearner, PromoteLearnerAfterCatchUp,
              DemoteVoter, RemoveServer, Reconfigure
<1>8. ASSUME NEW n \in Nodes,
             \/ Elect(n) \/ StepDown(n) \/ TakeSnapshot(n) \/ Crash(n) \/ Restart(n)
             \/ RegisterCapabilities(n) \/ \E v \in Schemas : SetSupported(n, v)
             \/ \E l \in Nodes : Receive(l, n) \/ InstallSnapshot(l, n)
      PROVE  UNCHANGED <<hist, inflight, acks>>
  BY <1>8 DEF Elect, StepDown, TakeSnapshot, Crash, Restart, RegisterCapabilities,
              SetSupported, Receive, InstallSnapshot, callVars, raftVars
<1>9. CASE UNCHANGED vars
  BY <1>1, <1>9 DEF vars, raftVars, callVars
<1> QED
  BY <1>1, <1>3, <1>4, <1>5, <1>6, <1>7, <1>8, <1>9 DEF Next

(* Every behaviour of the nodes, seen through the mapping of KV, is a      *)
(* behaviour of the atomic store.                                          *)
THEOREM Refinement == Spec => ImplementsAtomicKV
<1>1. Spec => [][KV!Next]_(KV!vars)
  BY Inductive, RefinesNext, PTL DEF Spec
<1> QED
  BY RefinesInit, <1>1 DEF Spec, ImplementsAtomicKV, KV!Spec

----------------------------------------------------------------------------
(* The schema gate.  In a fixed configuration whose nodes are only ever    *)
(* upgraded, an entry whose proposer made requireVoterSchemaSupport's      *)
(* check is understood by every voter, and a voter that misses an entry    *)
(* misses it behind one that was proposed without the check: by a node     *)
(* that won an election between its two looks at raft's state, or by       *)
(* forwarding.  The hypothesis is needed: a downgraded voter refuses what  *)
(* it understood before, and a learner that skipped an entry may be        *)
(* promoted.                                                               *)
Gated == Features \cap {"downgrade", "member"} = {}

(* The voters are the first ones, leaders are voters, and nobody           *)
(* advertises more than it supports.                                       *)
VotersFixed ==
  /\ \A n \in Nodes : suffrage[n] = "voter" <=> n \in InitVoters
  /\ \A n \in Nodes : leader[n] # 0 => n \in InitVoters
  /\ \A n \in Nodes : advertised[n] <= supported[n]

(* Every voter accepts what was checked, be it committed, in flight or     *)
(* still on its way to raft.Apply.                                         *)
Accepted ==
  \A v \in InitVoters :
    /\ \A c \in Clients :
         call[c] # Nil /\ call[c].checked => call[c].op.version <= supported[v]
    /\ \A e \in inflight : e.checked => e.op.version <= supported[v]
    /\ \A i \in 1 .. Len(log) : log[i].checked => log[i].op.version <= supported[v]

UncheckedUpTo(i) == \E j \in 1 .. i : ~log[j].checked

(* A voter's state, and a snapshot that it has, misses an entry only if an *)
(* unchecked entry is behind it.                                           *)
VotersWhole ==
  \A v \in InitVoters : /\ skipped[v] => UncheckedUpTo(pos[v])
                        /\ snap[v].skipped => UncheckedUpTo(snap[v].pos)

GateInv == TypeInv /\ VotersFixed /\ Accepted /\ VotersWhole

(* A node's supported schema never falls.                                  *)
LEMMA OnlyUpgrades ==
  ASSUME Gated, TypeInv, [Next]_vars, NEW n \in Nodes
  PROVE  supported[n] \in Nat /\ supported'[n] \in Nat /\ supported[n] <= supported'[n]
<1>0. supported \in [Nodes -> Nat]
  BY DEF TypeInv, TypeOK, Schemas
<1>1. ASSUME NEW m \in Nodes, NEW v \in Schemas, SetSupported(m, v)
      PROVE  supported'[n] \in Nat /\ supported[n] <= supported'[n]
  BY <1>0, <1>1 DEF SetSupported, Gated, Schemas
<1>2. CASE supported' = supported
  BY <1>0, <1>2
<1>3. supported' = supported \/ \E m \in Nodes, v \in Schemas : SetSupported(m, v)
  <2>1. CASE ClientStep
    BY <2>1 DEF ClientStep, Propose, HandlePropose, Enter, ProposeLocal,
       Dispatch, Refuse, raftVars, schemaVars
  <2>2. CASE CommitStep
    BY <2>2 DEF CommitStep, Commit, schemaVars
  <2>3. CASE MemberStep
    BY <2>3 DEF MemberStep, Join, AddLearner, PromoteLearnerAfterCatchUp,
                DemoteVoter, RemoveServer, Reconfigure, schemaVars
  <2> QED
    BY <2>1, <2>2, <2>3 DEF Next, vars, Lose, Elect, StepDown, ApplyNext,
       TakeSnapshot, Crash, Restart, RegisterCapabilities, Receive,
       InstallSnapshot, schemaVars
<1> QED
  BY <1>0, <1>1, <1>2, <1>3

(* Suffrage and leaders.                                                   *)
LEMMA VotersFixedNext == Gated /\ GateInv /\ [Next]_vars => VotersFixed'
<1> SUFFICES ASSUME Gated, GateInv, [Next]_vars PROVE VotersFixed'
  OBVIOUS
<1> USE DEF GateInv
<1>0. TypeOK
  BY DEF TypeInv
<1>1. suffrage' = suffrage
  <2>1. CASE ClientStep
    BY <2>1 DEF ClientStep, Propose, HandlePropose, Enter, ProposeLocal,
       Dispatch, Refuse, raftVars
  <2>2. CASE CommitStep
    BY <2>2 DEF CommitStep, Commit
  <2>3. CASE MemberStep
    BY <2>3 DEF MemberStep, Join, AddLearner, PromoteLearnerAfterCatchUp,
                DemoteVoter, RemoveServer, Reconfigure, Gated
  <2> QED
    BY <2>1, <2>2, <2>3 DEF Next, vars, Lose, Elect, StepDown, ApplyNext,
       TakeSnapshot, Crash, Restart, RegisterCapabilities, SetSupported,
       Receive, InstallSnapshot, raftVars
<1>2. ASSUME NEW n \in Nodes PROVE leader'[n] # 0 => n \in InitVoters
  <2>0. leader \in [Nodes -> Nat]
    BY <1>0 DEF TypeOK
  <2>1. CASE ClientStep
    BY <2>1 DEF ClientStep, Propose, HandlePropose, Enter, ProposeLocal,
       Dispatch, Refuse, raftVars, VotersFixed
  <2>2. CASE CommitStep
    BY <2>2 DEF CommitStep, Commit, VotersFixed
  <2>3. CASE MemberStep
    BY <2>3 DEF MemberStep, Join, AddLearner, PromoteLearnerAfterCatchUp,
                DemoteVoter, RemoveServer, Reconfigure, Gated
  <2>4. ASSUME NEW m \in Nodes, Elect(m) PROVE leader'[n] # 0 => n \in InitVoters
    BY <2>0, <2>4 DEF Elect, Voters, VotersFixed
  <2>5. ASSUME NEW m \in Nodes, StepDown(m) \/ Crash(m)
        PROVE  leader'[n] # 0 => n \in InitVoters
    BY <2>0, <2>5 DEF StepDown, Crash, VotersFixed
  <2>6. CASE leader' = leader
    BY <2>6 DEF VotersFixed
  <2>7. ASSUME NEW m \in Nodes,
               \/ ApplyNext(m) \/ TakeSnapshot(m) \/ Restart(m)
               \/ RegisterCapabilities(m) \/ \E s \in Schemas : SetSupported(m, s)
               \/ \E l \in Nodes : Receive(l, m) \/ InstallSnapshot(l, m)
        PROVE  leader' = leader
    BY <2>7 DEF ApplyNext, TakeSnapshot, Restart, RegisterCapabilities,
       SetSupported, Receive, InstallSnapshot, raftVars
  <2>8. ASSUME NEW e \in inflight, Lose(e) PROVE leader' = leader
    BY <2>8 DEF Lose
  <2>9. CASE UNCHANGED vars
    BY <2>9, <2>6 DEF vars, raftVars
  <2> QED
    BY <2>1, <2>2, <2>3, <2>4, <2>5, <2>6, <2>7, <2>8, <2>9 DEF Next
<1>3. ASSUME NEW n \in Nodes PROVE advertised'[n] <= supported'[n]
  <2>0. advertised \in [Nodes -> Nat] /\ supported \in [Nodes -> Nat]
    BY <1>0 DEF TypeOK, Schemas
  <2>1. supported[n] <= supported'[n] /\ supported'[n] \in Nat
    BY OnlyUpgrades
  <2>2. CASE advertised' = advertised
    BY <2>0, <2>1, <2>2 DEF VotersFixed
  <2>3. ASSUME NEW m \in Nodes, Restart(m) \/ RegisterCapabilities(m)
        PROVE  advertised'[n] <= supported'[n]
    BY <2>0, <2>3 DEF Restart, RegisterCapabilities, VotersFixed
  <2>4. advertised' = advertised \/ \E m \in Nodes : Restart(m) \/ RegisterCapabilities(m)
    <3>1. CASE ClientStep
      BY <3>1 DEF ClientStep, Propose, HandlePropose, Enter, ProposeLocal,
         Dispatch, Refuse, raftVars, schemaVars
    <3>2. CASE CommitStep
      BY <3>2 DEF CommitStep, Commit, schemaVars
    <3>3. CASE MemberStep
      BY <3>3 DEF MemberStep, Join, AddLearner, PromoteLearnerAfterCatchUp,
                  DemoteVoter, RemoveServer, Reconfigure, schemaVars
    <3> QED
      BY <3>1, <3>2, <3>3 DEF Next, vars, Lose, Elect, StepDown, ApplyNext,
         TakeSnapshot, Crash, SetSupported, Receive, InstallSnapshot, schemaVars
  <2> QED
    BY <2>2, <2>3, <2>4
<1> QED
  BY <1>1, <1>2, <1>3 DEF VotersFixed

(* A step leaves a call, ends it, or is its own step of proposing.         *)
LEMMA CallSteps ==
  ASSUME TypeOK, [Next]_vars, NEW c \in Clients
  PROVE  \/ call'[c] \in {call[c], Nil}
         \/ \E n \in Nodes, op \in Ops : Propose(c, n, op)
         \/ \E n, l \in Nodes, op \in Ops : HandlePropose(c, n, l, op)
         \/ ProposeLocal(c) /\ Dispatch(c)
<1>0. call \in [Clients -> CallRec \cup {Nil}]
  BY DEF TypeOK
<1>1. ASSUME NEW n \in Nodes, Abandon(n) PROVE call'[c] \in {call[c], Nil}
  BY <1>0, <1>1 DEF Abandon
<1>2. CASE ClientStep
  <2>1. ASSUME NEW d \in Clients, d # c, NEW k, call' = [call EXCEPT ![d] = k]
        PROVE  call'[c] = call[c]
    BY <1>0, <2>1
  <2>2. ASSUME NEW d \in Clients, d # c, NEW op \in Ops, NEW n \in Nodes,
               Propose(d, n, op)
        PROVE  call'[c] = call[c]
    BY <1>0, <2>2 DEF Propose, Enter
  <2>3. ASSUME NEW d \in Clients, d # c, NEW op \in Ops, NEW n \in Nodes,
               NEW l \in Nodes, HandlePropose(d, n, l, op)
        PROVE  call'[c] = call[c]
    BY <1>0, <2>3 DEF HandlePropose, Enter
  <2>4. ASSUME NEW d \in Clients, d # c, ProposeLocal(d) PROVE call'[c] = call[c]
    BY <1>0, <2>4 DEF ProposeLocal, Dispatch, Refuse
  <2>5. CASE ProposeLocal(c) /\ Refuse(c)
    BY <1>0, <2>5 DEF Refuse
  <2> QED
    BY <1>2, <2>2, <2>3, <2>4, <2>5 DEF ClientStep, ProposeLocal
<1>3. CASE CommitStep
  BY <1>3 DEF CommitStep, Commit, callVars
<1>4. ASSUME NEW n \in Nodes, NEW l \in Nodes,
             NEW role \in {"voter", "nonvoter", "none"}, Reconfigure(l, n, role)
      PROVE  call'[c] \in {call[c], Nil}
  BY <1>1, <1>4 DEF Reconfigure
<1>5. CASE MemberStep
  BY <1>4, <1>5 DEF MemberStep, Join, AddLearner, PromoteLearnerAfterCatchUp,
                    DemoteVoter, RemoveServer
<1>6. ASSUME NEW n \in Nodes, ApplyNext(n) \/ Crash(n)
      PROVE  call'[c] \in {call[c], Nil}
  BY <1>6 DEF ApplyNext, Crash
<1>7. ASSUME NEW n \in Nodes, StepDown(n) PROVE call'[c] \in {call[c], Nil}
  BY <1>1, <1>7 DEF StepDown
<1> QED
  BY <1>2, <1>3, <1>5, <1>6, <1>7 DEF Next, vars, Lose, Elect, TakeSnapshot,
     Restart, RegisterCapabilities, SetSupported, Receive, InstallSnapshot,
     callVars

(* Only proposeLocal puts an entry in flight.                              *)
LEMMA InflightSteps ==
  ASSUME [Next]_vars
  PROVE  \/ inflight' \subseteq inflight
         \/ \E c \in Clients : ProposeLocal(c) /\ Dispatch(c)
<1>1. CASE ClientStep
  BY <1>1 DEF ClientStep, Propose, HandlePropose, Enter, ProposeLocal, Refuse,
              raftVars
<1>2. CASE CommitStep
  BY <1>2 DEF CommitStep, Commit
<1>3. CASE MemberStep
  BY <1>3 DEF MemberStep, Join, AddLearner, PromoteLearnerAfterCatchUp,
              DemoteVoter, RemoveServer, Reconfigure
<1> QED
  BY <1>1, <1>2, <1>3 DEF Next, vars, Lose, Elect, StepDown, ApplyNext,
     TakeSnapshot, Crash, Restart, RegisterCapabilities, SetSupported, Receive,
     InstallSnapshot, raftVars

(* What was checked passed the gate when it was, and schemas only rise.    *)
LEMMA AcceptedNext == Gated /\ GateInv /\ [Next]_vars => Accepted'
<1> SUFFICES ASSUME Gated, GateInv, [Next]_vars, NEW v \in InitVoters
             PROVE  /\ \A c \in Clients : call'[c] # Nil /\ call'[c].checked
                         => call'[c].op.version <= supported'[v]
                    /\ \A e \in inflight' : e.checked => e.op.version <= supported'[v]
                    /\ \A i \in 1 .. Len(log') :
                         log'[i].checked => log'[i].op.version <= supported'[v]
  BY DEF Accepted
<1> USE DEF GateInv
<1>0. TypeOK /\ v \in Nodes
  BY VotersAssumption DEF TypeInv
<1>1. supported[v] <= supported'[v] /\ supported[v] \in Nat /\ supported'[v] \in Nat
  BY <1>0, OnlyUpgrades
<1>2. ASSUME NEW op \in Ops, op.version <= supported[v]
      PROVE  op.version <= supported'[v]
  <2>1. op.version \in Nat
    BY OpsAssumption DEF Operation, Schemas
  <2> QED
    BY <2>1, <1>1, <1>2
<1>3. ASSUME NEW e \in inflight, e.checked PROVE e.op.version <= supported'[v]
  <2>1. e.op \in Ops
    BY <1>0 DEF TypeOK, Entry
  <2>2. e.op.version <= supported[v]
    BY <1>3 DEF Accepted
  <2> QED
    BY <2>1, <2>2, <1>2
<1>4. ASSUME NEW i \in 1 .. Len(log), log[i].checked
      PROVE  log[i].op.version <= supported'[v]
  <2>1. log[i] \in Entry
    BY <1>0 DEF TypeOK
  <2>2. log[i].op \in Ops
    BY <2>1 DEF Entry
  <2>3. log[i].op.version <= supported[v]
    BY <1>4 DEF Accepted
  <2> QED
    BY <2>2, <2>3, <1>2
<1>5. ASSUME NEW c \in Clients, call[c] # Nil, call[c].checked
      PROVE  call[c].op.version <= supported'[v]
  <2>1. call[c] \in CallRec
    BY <1>0, <1>5 DEF TypeOK
  <2>2. call[c].op \in Ops
    BY <2>1 DEF CallRec
  <2>3. call[c].op.version <= supported[v]
    BY <1>5 DEF Accepted
  <2> QED
    BY <2>2, <2>3, <1>2
<1>6. ASSUME NEW c \in Clients, call'[c] # Nil, call'[c].checked
      PROVE  call'[c].op.version <= supported'[v]
  <2>0. call \in [Clients -> CallRec \cup {Nil}]
    BY <1>0 DEF TypeOK
  <2>1. CASE call'[c] \in {call[c], Nil}
    BY <1>5, <1>6, <2>1
  <2>2. ASSUME NEW n \in Nodes, NEW op \in Ops, Propose(c, n, op)
        PROVE  call'[c].op.version <= supported'[v]
    <3>1. call'[c] = [op |-> op, node |-> n, seq |-> 0, checked |-> leader[n] # 0]
      BY <2>0, <2>2 DEF Propose, Enter
    <3>2. leader[n] # 0
      <4> SUFFICES ASSUME leader[n] = 0 PROVE FALSE
        OBVIOUS
      <4>1. call'[c] = [op |-> op, node |-> n, seq |-> 0, checked |-> FALSE]
        BY <3>1
      <4> QED
        BY <4>1, <1>6
    <3>3. op.version <= advertised[v] /\ advertised[v] <= supported[v]
      BY <1>0, <2>2, <3>2 DEF Propose, SchemaEligible, Voters, VotersFixed
    <3>4. op.version \in Nat /\ advertised[v] \in Nat
      BY <1>0, OpsAssumption DEF TypeOK, Operation, Schemas
    <3>5. op.version <= supported[v]
      BY <3>3, <3>4, <1>1
    <3>6. call'[c].op = op
      BY <3>1
    <3> QED
      BY <3>5, <3>6, <1>2
  <2>3. ASSUME NEW n \in Nodes, NEW l \in Nodes, NEW op \in Ops,
               HandlePropose(c, n, l, op)
        PROVE  FALSE
    <3>1. call'[c] = [op |-> op, node |-> l, seq |-> 0, checked |-> FALSE]
      BY <2>0, <2>3 DEF HandlePropose, Enter
    <3> QED
      BY <3>1, <1>6
  <2>4. CASE ProposeLocal(c) /\ Dispatch(c)
    <3>1. call[c] \in CallRec /\ call[c] # Nil
      BY <2>0, <2>4 DEF ProposeLocal
    <3>2. call'[c] = [call[c] EXCEPT !.seq = dispatched + 1]
      BY <2>0, <2>4 DEF Dispatch
    <3>3. call'[c].op = call[c].op /\ call'[c].checked = call[c].checked
      BY <3>1, <3>2 DEF CallRec
    <3> QED
      BY <3>1, <3>3, <1>5, <1>6
  <2> QED
    BY <1>0, <2>1, <2>2, <2>3, <2>4, CallSteps
<1>7. ASSUME NEW e \in inflight', e.checked PROVE e.op.version <= supported'[v]
  <2>1. CASE e \in inflight
    BY <1>3, <1>7, <2>1
  <2>2. CASE e \notin inflight
    <3> PICK c \in Clients : ProposeLocal(c) /\ Dispatch(c)
      BY <2>2, InflightSteps
    <3>1. /\ call[c] # Nil
          /\ e = [op |-> call[c].op, term |-> leader[call[c].node],
                  seq |-> dispatched + 1, checked |-> call[c].checked]
      BY <2>2 DEF ProposeLocal, Dispatch
    <3>2. e.op = call[c].op /\ e.checked = call[c].checked
      BY <3>1
    <3> QED
      BY <3>1, <3>2, <1>5, <1>7
  <2> QED
    BY <2>1, <2>2
<1>8. ASSUME NEW i \in 1 .. Len(log'), log'[i].checked
      PROVE  log'[i].op.version <= supported'[v]
  <2>0. log \in Seq(Entry)
    BY <1>0 DEF TypeOK
  <2>1. CASE log' = log
    BY <2>1, <1>4, <1>8
  <2>2. ASSUME NEW e \in inflight, Extends(e)
        PROVE  log'[i].op.version <= supported'[v]
    <3>1. log' = Append(log, e) /\ e \in Entry
      BY <1>0, <2>2 DEF Extends, TypeOK
    <3>2. CASE i \in 1 .. Len(log)
      <4>1. log'[i] = log[i]
        BY <3>1, <3>2, <2>0
      <4> QED
        BY <4>1, <3>2, <1>4, <1>8
    <3>3. CASE i \notin 1 .. Len(log)
      <4>1. log'[i] = e
        BY <3>1, <3>3, <2>0
      <4> QED
        BY <4>1, <1>3, <1>8
    <3> QED
      BY <3>2, <3>3
  <2> QED
    BY <2>1, <2>2, OnlyCommitExtends
<1> QED
  BY <1>6, <1>7, <1>8

(* The log keeps its unchecked entries.                                    *)
LEMMA UncheckedStays ==
  ASSUME TypeInv, [Next]_vars, NEW i \in Nat, i <= Len(log), UncheckedUpTo(i)
  PROVE  UncheckedUpTo(i)'
<1>0. log \in Seq(Entry) /\ inflight \subseteq Entry
  BY DEF TypeInv, TypeOK
<1> PICK j \in 1 .. i : ~log[j].checked
  BY DEF UncheckedUpTo
<1>1. j \in 1 .. Len(log)
  BY <1>0
<1>2. CASE log' = log
  BY <1>2 DEF UncheckedUpTo
<1>3. ASSUME NEW e \in inflight, Extends(e) PROVE log'[j] = log[j]
  BY <1>0, <1>1, <1>3 DEF Extends
<1> QED
  BY <1>2, <1>3, OnlyCommitExtends DEF UncheckedUpTo

(* A voter skips only what was not checked, and takes over only the        *)
(* snapshots of leaders, which are voters.                                 *)
LEMMA VotersWholeNext == Gated /\ GateInv /\ [Next]_vars => VotersWhole'
<1> SUFFICES ASSUME Gated, GateInv, [Next]_vars, NEW v \in InitVoters
             PROVE  /\ skipped'[v] => UncheckedUpTo(pos[v])'
                    /\ snap'[v].skipped => UncheckedUpTo(snap[v].pos)'
  BY DEF VotersWhole
<1> USE DEF GateInv
<1>0. /\ v \in Nodes /\ TypeOK
      /\ snap \in [Nodes -> SnapshotRec] /\ skipped \in [Nodes -> BOOLEAN]
      /\ pos \in [Nodes -> Nat]
  BY VotersAssumption DEF TypeInv, TypeOK
<1>a. ASSUME NEW w \in InitVoters
      PROVE  /\ w \in Nodes /\ pos[w] \in Nat /\ pos[w] <= Len(log)
             /\ snap[w].pos \in Nat /\ snap[w].pos <= Len(log)
  <2>1. w \in Nodes /\ snap[w] \in SnapshotRec
    BY VotersAssumption DEF TypeInv, TypeOK
  <2>2. /\ stored[w] \in Nat /\ pos[w] \in Nat /\ snap[w].pos \in Nat
        /\ Len(log) \in Nat
    BY <2>1 DEF TypeInv, TypeOK, SnapshotRec
  <2> QED
    BY <2>1, <2>2 DEF TypeInv, Positions
<1> DEFINE Whole(s, i) == s => \E j \in 1 .. i : ~log'[j].checked
<1>b. ASSUME NEW w \in InitVoters
      PROVE  Whole(skipped[w], pos[w]) /\ Whole(snap[w].skipped, snap[w].pos)
  <2>1. ASSUME NEW i \in Nat, i <= Len(log), UncheckedUpTo(i)
        PROVE  \E j \in 1 .. i : ~log'[j].checked
    BY <2>1, UncheckedStays DEF UncheckedUpTo
  <2> QED
    BY <1>a, <2>1 DEF VotersWhole
<1>s. ASSUME NEW i, pos'[v] = i, Whole(skipped'[v], i)
      PROVE  skipped'[v] => UncheckedUpTo(pos[v])'
  BY <1>s DEF UncheckedUpTo
<1>t. ASSUME NEW i, snap'[v].pos = i, Whole(snap'[v].skipped, i)
      PROVE  snap'[v].skipped => UncheckedUpTo(snap[v].pos)'
  BY <1>t DEF UncheckedUpTo
<1> HIDE DEF Whole
<1>c. ASSUME skipped'[v] = skipped[v], pos'[v] = pos[v]
      PROVE  skipped'[v] => UncheckedUpTo(pos[v])'
  <2>1. Whole(skipped'[v], pos[v])
    BY <1>b, <1>c
  <2> QED
    BY <2>1, <1>c, <1>s
<1>d. ASSUME snap'[v] = snap[v]
      PROVE  snap'[v].skipped => UncheckedUpTo(snap[v].pos)'
  <2>1. Whole(snap'[v].skipped, snap[v].pos) /\ snap'[v].pos = snap[v].pos
    BY <1>b, <1>d
  <2> QED
    BY <2>1, <1>t
<1>1. ASSUME NEW n \in Nodes, ApplyNext(n)
      PROVE  skipped'[v] => UncheckedUpTo(pos[v])'
  <2>1. CASE n # v
    BY <1>0, <1>1, <1>c, <2>1 DEF ApplyNext
  <2>2. CASE n = v
    <3> DEFINE i == pos[v] + 1
    <3>1. i \in 1 .. Len(log) /\ i \in Nat
      BY <1>0, <1>1, <2>2 DEF ApplyNext, TypeInv, TypeOK, Positions
    <3>2. /\ skipped' = [skipped EXCEPT ![v] =
                           ~(~skipped[v] /\ log[i].op.version <= supported[v])]
          /\ pos' = [pos EXCEPT ![v] = i]
          /\ log' = log
      BY <1>1, <2>2 DEF ApplyNext, raftVars
    <3>3. log[i].checked => log[i].op.version <= supported[v]
      BY <3>1 DEF Accepted
    <3>4. pos'[v] = i
      BY <1>0, <3>2
    <3>5. log[i] \in Entry
      BY <3>1 DEF TypeInv, TypeOK
    <3>6. CASE skipped[v]
      <4>1. UncheckedUpTo(pos[v])
        BY <3>6 DEF VotersWhole
      <4>2. PICK j \in 1 .. pos[v] : ~log[j].checked
        BY <4>1 DEF UncheckedUpTo
      <4>3. j \in 1 .. i
        BY <1>0
      <4> HIDE DEF i
      <4> QED
        BY <4>2, <4>3, <3>2, <3>4 DEF UncheckedUpTo
    <3>7. CASE ~skipped[v] /\ skipped'[v]
      <4>1. ~(log[i].op.version <= supported[v])
        BY <1>0, <3>2, <3>7
      <4>2. ~log[i].checked /\ i \in 1 .. i
        BY <4>1, <3>1, <3>3, <3>5
      <4> HIDE DEF i
      <4> QED
        BY <4>2, <3>2, <3>4 DEF UncheckedUpTo
    <3> QED
      BY <1>0, <3>6, <3>7
  <2> QED
    BY <2>1, <2>2
<1>2. ASSUME NEW n \in Nodes, TakeSnapshot(n)
      PROVE  snap'[v].skipped => UncheckedUpTo(snap[v].pos)'
  <2>1. CASE n # v
    BY <1>0, <1>2, <1>d, <2>1 DEF TakeSnapshot
  <2>2. CASE n = v
    <3>1. snap'[v].skipped = skipped[v] /\ snap'[v].pos = pos[v]
      BY <1>0, <1>2, <2>2 DEF TakeSnapshot
    <3> QED
      BY <3>1, <1>b, <1>t
  <2> QED
    BY <2>1, <2>2
<1>3. ASSUME NEW n \in Nodes, NEW l \in Nodes, InstallSnapshot(l, n)
      PROVE  /\ skipped'[v] => UncheckedUpTo(pos[v])'
             /\ snap'[v].skipped => UncheckedUpTo(snap[v].pos)'
  <2>1. l \in InitVoters /\ l \in Nodes
    BY <1>3 DEF InstallSnapshot, Leads, VotersFixed
  <2>2. Whole(snap[l].skipped, snap[l].pos)
    BY <2>1, <1>b
  <2>3. CASE n # v
    <3>1. skipped'[v] = skipped[v] /\ pos'[v] = pos[v] /\ snap'[v] = snap[v]
      BY <1>0, <1>3, <2>3 DEF InstallSnapshot, Restored
    <3> QED
      BY <3>1, <1>c, <1>d
  <2>4. CASE n = v
    <3>1. /\ skipped'[v] = snap[l].skipped /\ pos'[v] = snap[l].pos
          /\ snap'[v] = snap[l]
      BY <1>0, <1>3, <2>4 DEF InstallSnapshot, Restored
    <3>2. Whole(skipped'[v], snap[l].pos) /\ Whole(snap'[v].skipped, snap[l].pos)
      BY <3>1, <2>2
    <3>3. snap'[v].pos = snap[l].pos
      BY <3>1
    <3> QED
      BY <3>1, <3>2, <3>3, <1>s, <1>t
  <2> QED
    BY <2>3, <2>4
<1>4. ASSUME NEW n \in Nodes, Crash(n)
      PROVE  skipped'[v] => UncheckedUpTo(pos[v])'
  <2>1. CASE n # v
    BY <1>0, <1>4, <1>c, <2>1 DEF Crash, Restored
  <2>2. CASE n = v
    BY <1>0, <1>4, <2>2 DEF Crash, Restored, NoSnapshot
  <2> QED
    BY <2>1, <2>2
<1>5. ASSUME NEW n \in Nodes, Restart(n)
      PROVE  skipped'[v] => UncheckedUpTo(pos[v])'
  <2>1. CASE n # v
    BY <1>0, <1>5, <1>c, <2>1 DEF Restart, Restored
  <2>2. CASE n = v
    <3>1. skipped'[v] = snap[v].skipped /\ pos'[v] = snap[v].pos
      BY <1>0, <1>5, <2>2 DEF Restart, Restored
    <3>2. Whole(skipped'[v], snap[v].pos)
      BY <3>1, <1>b
    <3> QED
      BY <3>1, <3>2, <1>s
  <2> QED
    BY <2>1, <2>2
<1>6. CASE ClientStep
  BY <1>6, <1>c, <1>d DEF ClientStep, Propose, HandlePropose, Enter, ProposeLocal,
     nodeVars
<1>7. CASE CommitStep
  BY <1>7, <1>c, <1>d DEF CommitStep, Commit
<1>8. CASE MemberStep
  BY <1>8, <1>c, <1>d DEF MemberStep, Join, AddLearner, PromoteLearnerAfterCatchUp,
     DemoteVoter, RemoveServer, Reconfigure, nodeVars
<1>9. ASSUME NEW n \in Nodes, ApplyNext(n) \/ Crash(n) \/ Restart(n)
      PROVE  snap' = snap
  BY <1>9 DEF ApplyNext, Crash, Restart
<1>10. ASSUME NEW n \in Nodes, TakeSnapshot(n) PROVE skipped' = skipped /\ pos' = pos
  BY <1>10 DEF TakeSnapshot
<1>11. CASE skipped' = skipped /\ pos' = pos /\ snap' = snap
  BY <1>11, <1>c, <1>d
<1> QED
  BY <1>1, <1>2, <1>3, <1>4, <1>5, <1>6, <1>7, <1>8, <1>9, <1>10, <1>11, <1>c, <1>d
     DEF Next, vars, Lose, Elect, StepDown, RegisterCapabilities, SetSupported,
         Receive, nodeVars

(* The gate's invariant holds throughout.                                  *)
LEMMA GateHolds == Gated => (Spec => []GateInv)
<1> SUFFICES ASSUME Gated PROVE Spec => []GateInv
  OBVIOUS
<1>1. Init => GateInv
  <2> SUFFICES ASSUME Init PROVE GateInv
    OBVIOUS
  <2>1. TypeInv
    BY TypeInit
  <2>2. VotersFixed
    BY SchemaAssumption DEF Init, VotersFixed, Schemas
  <2>3. Accepted
    BY DEF Init, Accepted
  <2>4. VotersWhole
    BY VotersAssumption DEF Init, VotersWhole, NoSnapshot
  <2> QED
    BY <2>1, <2>2, <2>3, <2>4 DEF GateInv
<1>2. GateInv /\ [Next]_vars => GateInv'
  BY TypeNext, VotersFixedNext, AcceptedNext, VotersWholeNext DEF GateInv
<1> QED
  BY <1>1, <1>2, PTL DEF Spec

(* With fixed voters whose schemas only rise, no voter's state misses an   *)
(* entry that applyLocked's version gate refused, through crashes,         *)
(* restarts, snapshot installation and changes of leader, unless an entry  *)
(* behind it was proposed without requireVoterSchemaSupport's check.       *)
THEOREM VotersNeverSkip == Gated => (Spec => []NoVoterSkips)
<1> SUFFICES ASSUME Gated PROVE Spec => []NoVoterSkips
  OBVIOUS
<1>1. Spec => []GateInv
  BY GateHolds
<1>2. GateInv => NoVoterSkips
  BY DEF GateInv, VotersFixed, VotersWhole, NoVoterSkips, Voters, UncheckedUpTo,
         Unchecked
<1> QED
  BY <1>1, <1>2, PTL

(* Then two voters at one position with only checked entries behind it     *)
(* have the same state: the promise of the comment on KVFSM ("Every voting *)
(* replica applying the same committed log must reach ... identical        *)
(* state"), as far as the check at node.go:271 was made.                   *)
THEOREM VotersAgree == Gated => (Spec => []CheckedAgreement)
<1> SUFFICES ASSUME Gated PROVE Spec => []CheckedAgreement
  OBVIOUS
<1>1. Spec => []NoVoterSkips
  BY VotersNeverSkip
<1>2. ReplicaAgreement /\ NoVoterSkips => CheckedAgreement
  <2> SUFFICES ASSUME ReplicaAgreement, NoVoterSkips, NEW m \in Voters, NEW n \in Voters,
                      up[m], up[n], pos[m] = pos[n], ~Unchecked(m)
               PROVE  fsm[m] = fsm[n]
    BY DEF CheckedAgreement
  <2>1. ~Unchecked(n)
    BY DEF Unchecked
  <2>2. ~skipped[m] /\ ~skipped[n]
    BY <2>1 DEF NoVoterSkips
  <2> QED
    BY <2>2 DEF ReplicaAgreement, Voters
<1> QED
  BY <1>1, <1>2, AgreementHolds, PTL

(* Every voter understands the schema of a checked entry in the step that  *)
(* commits it, although the check was made before it was dispatched, by a  *)
(* leader that may be gone.                                                *)
THEOREM SchemaGateHolds == Gated => (Spec => CheckedBeforeCommit)
<1> SUFFICES ASSUME Gated PROVE Spec => CheckedBeforeCommit
  OBVIOUS
<1>1. Spec => []GateInv
  BY GateHolds
<1>2. GateInv /\ [Next]_vars => [CheckedUnderstood]_vars
  <2> SUFFICES ASSUME GateInv, [Next]_vars, Len(log') > Len(log),
                      log'[Len(log')].checked, NEW v \in Voters
               PROVE  log'[Len(log')].op.version <= supported[v]
    BY DEF CheckedUnderstood
  <2>1. log \in Seq(Entry) /\ inflight \subseteq Entry /\ v \in InitVoters
    BY DEF GateInv, TypeInv, TypeOK, VotersFixed, Voters
  <2>2. ASSUME NEW e \in inflight, Extends(e)
        PROVE  log'[Len(log')].op.version <= supported[v]
    <3>1. log'[Len(log')] = e
      BY <2>1, <2>2 DEF Extends
    <3> QED
      BY <2>1, <3>1 DEF GateInv, Accepted
  <2> QED
    BY <2>1, <2>2, OnlyCommitExtends DEF GateInv, History
<1> QED
  BY <1>1, <1>2, PTL DEF Spec, CheckedBeforeCommit

============================================================================
