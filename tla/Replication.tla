---------------------------- MODULE Replication ----------------------------
(***************************************************************************)
(* The replicated-state nodes of replication/node.go, cluster.go and       *)
(* fabric.go: a KVFSM on every node, fed from one consensus log, proposed  *)
(* to through Node.Propose, Cluster.Propose and the follower forwarding    *)
(* path, with crashes, snapshots, catch-up, membership changes and rolling *)
(* upgrades.                                                               *)
(*                                                                         *)
(* hashicorp/raft is not part of the repository.  It is modelled by what   *)
(* the nodes rely on: one committed log that only grows, terms that never  *)
(* decrease along it, at most one leader per term, entries of a deposed    *)
(* leader that may still be committed or be lost, and futures that resolve *)
(* when the proposing leader applies the entry or loses its leadership.    *)
(*                                                                         *)
(* `hist` and `skipped` are history variables: hist[i + 1] is the state a  *)
(* replica that supports every schema has after the first i entries, and   *)
(* skipped[n] says that some entry behind n's state was refused by n's     *)
(* version gate.  An entry's `checked` records that its proposer found      *)
(* itself leader when it looked at the voters' schemas.  No action reads   *)
(* any of the three to decide what a node does.                            *)
(***************************************************************************)
EXTENDS KVFSM, Sequences, FiniteSets

CONSTANTS Nodes,         \* raft server IDs
          Clients,       \* callers of Propose, one outstanding call each
          Ops,           \* the operations they may submit
          InitVoters,    \* the first configuration
          InitSchema,    \* SupportedReplicationVersion each node starts with
          TrailingLogs,  \* entries a compacted log keeps behind its snapshot
          Snapshotters,  \* nodes on which Node.Snapshot is called
          Features,      \* which of FeatureNames may happen in this instance
          MaxProposals,  \* bound on dispatched proposals
          MaxTerm,       \* bound on elections
          MaxCrashes     \* bound on crashes

FeatureNames == {"crash", "member", "upgrade", "downgrade", "forward"}

ASSUME OpsAssumption == Ops \subseteq Operation
ASSUME SchemaAssumption == InitSchema \in [Nodes -> Schemas]
ASSUME VotersAssumption == InitVoters \subseteq Nodes
ASSUME BoundsAssumption == /\ TrailingLogs \in Nat
                           /\ MaxProposals \in Nat
                           /\ MaxTerm \in Nat
                           /\ MaxCrashes \in Nat
ASSUME CallAssumption ==
  Nil \notin [op : Ops, node : Nodes, seq : Nat, checked : BOOLEAN]

VARIABLES log,        \* the committed log (raft)
          hist,       \* history: reference states along the log
          inflight,   \* dispatched entries that are not committed (raft)
          dispatched, \* number of proposals dispatched so far
          term,       \* the highest term (raft)
          leader,     \* leader[n]: term in which n is in state Leader, or 0
          suffrage,   \* the latest configuration
          up,         \* running nodes
          crashes,    \* number of crashes so far
          stored,     \* committed entries in n's log store or snapshot
          pos,        \* raft's last applied position on n
          fsm,        \* the product state machine of n
          supported,  \* schema its state machine accepts, and its own caps
          advertised, \* schema the fabric has registered for n
          snap,       \* n's newest snapshot
          skipped,    \* history: n's state misses an entry
          call,       \* call[c]: the proposal c is in, or Nil; its seq is
                      \* 0 before raft.Apply has given it a future
          acks        \* successful responses given so far

raftVars == <<log, hist, inflight, dispatched, term, leader, suffrage>>
nodeVars == <<up, crashes, stored, pos, fsm, snap, skipped>>
schemaVars == <<supported, advertised>>
callVars == <<call, acks>>
vars == <<raftVars, nodeVars, schemaVars, callVars>>

Entry == [op : Ops, term : Nat, seq : Nat, checked : BOOLEAN]
SnapshotRec == [pos : Nat, fsm : FSM, version : Schemas, skipped : BOOLEAN]
CallRec == [op : Ops, node : Nodes, seq : Nat, checked : BOOLEAN]
Ack == [op : Ops, result : ApplyResult, clean : BOOLEAN]

(* The types of all variables.                                             *)
TypeOK ==
  /\ log \in Seq(Entry)
  /\ hist \in Seq(FSM)
  /\ inflight \in SUBSET Entry
  /\ dispatched \in Nat
  /\ term \in Nat
  /\ leader \in [Nodes -> Nat]
  /\ suffrage \in [Nodes -> {"voter", "nonvoter", "none"}]
  /\ up \in [Nodes -> BOOLEAN]
  /\ crashes \in Nat
  /\ stored \in [Nodes -> Nat]
  /\ pos \in [Nodes -> Nat]
  /\ fsm \in [Nodes -> FSM]
  /\ supported \in [Nodes -> Schemas]
  /\ advertised \in [Nodes -> Schemas]
  /\ snap \in [Nodes -> SnapshotRec]
  /\ skipped \in [Nodes -> BOOLEAN]
  /\ call \in [Clients -> CallRec \cup {Nil}]
  /\ acks \in SUBSET Ack

NoSnapshot == [pos |-> 0, fsm |-> NewKVFSM, version |-> 1, skipped |-> FALSE]

Init ==
  /\ log = <<>> /\ hist = <<NewKVFSM>>
  /\ inflight = {} /\ dispatched = 0 /\ term = 0
  /\ leader = [n \in Nodes |-> 0]
  /\ suffrage = [n \in Nodes |-> IF n \in InitVoters THEN "voter" ELSE "none"]
  /\ up = [n \in Nodes |-> TRUE] /\ crashes = 0
  /\ stored = [n \in Nodes |-> 0]
  /\ pos = [n \in Nodes |-> 0]
  /\ fsm = [n \in Nodes |-> NewKVFSM]
  /\ supported = InitSchema /\ advertised = InitSchema
  /\ snap = [n \in Nodes |-> NoSnapshot]
  /\ skipped = [n \in Nodes |-> FALSE]
  /\ call = [c \in Clients |-> Nil]
  /\ acks = {}

----------------------------------------------------------------------------
(* Raft.                                                                   *)

Voters == {n \in Nodes : suffrage[n] = "voter"}

Quorums(V) == {Q \in SUBSET V : 2 * Cardinality(Q) > Cardinality(V)}

LastTerm == IF log = <<>> THEN 0 ELSE log[Len(log)].term

(* The leader of the highest term; an older one may linger until it hears  *)
(* of the new term.                                                        *)
Leads(n) == up[n] /\ leader[n] # 0 /\ leader[n] = term

(* First committed position that n's log store no longer holds behind.     *)
Compacted(n) ==
  IF snap[n].pos > TrailingLogs THEN snap[n].pos - TrailingLogs ELSE 0

Elect(n) ==
  /\ up[n] /\ n \in Voters /\ leader[n] = 0
  /\ term < MaxTerm
  /\ stored[n] = Len(log)
  /\ \E Q \in Quorums(Voters) : n \in Q /\ \A q \in Q : up[q]
  /\ term' = term + 1
  /\ leader' = [leader EXCEPT ![n] = term + 1]
  /\ UNCHANGED <<log, hist, inflight, dispatched, suffrage, nodeVars,
                 schemaVars, callVars>>

(* Mutated form of Abandon.                                                *)
AbandonNothing(n) == call' = call

(* Futures held by n resolve with an error whose outcome is unknown: the   *)
(* entry may still be committed.  A call without a future goes on.         *)
Abandon(n) ==
  call' = [c \in Clients |->
             IF call[c] # Nil /\ call[c].node = n /\ call[c].seq # 0
               THEN Nil ELSE call[c]]

StepDown(n) ==
  /\ up[n] /\ leader[n] # 0
  /\ Leads(n) => term < MaxTerm
  /\ leader' = [leader EXCEPT ![n] = 0]
  /\ Abandon(n)
  /\ UNCHANGED <<log, hist, inflight, dispatched, term, suffrage, nodeVars,
                 schemaVars, acks>>

(* q has, or can be sent from l's log, everything up to the new entry.     *)
Reachable(l, q) == stored[q] = Len(log) \/ Compacted(l) <= stored[q]

(* A quorum stores e.  Entries of one term keep their order, and no entry  *)
(* of an older term follows one of a newer term.                           *)
Commit(l, e, Q) ==
  /\ Leads(l) /\ l \in Q
  /\ \A q \in Q : up[q] /\ Reachable(l, q)
  /\ LastTerm <= e.term
  /\ \A d \in inflight : d.term = e.term => e.seq <= d.seq
  /\ log' = Append(log, e)
  /\ hist' = Append(hist, ApplyLocked(hist[Len(hist)], Version, e.op,
                                      Len(log) + 1, e.term))
  /\ inflight' = inflight \ {e}
  /\ stored' = [n \in Nodes |-> IF n \in Q THEN Len(log) + 1 ELSE stored[n]]
  /\ UNCHANGED <<dispatched, term, leader, suffrage, up, crashes, pos, fsm,
                 snap, skipped, schemaVars, callVars>>

(* An entry whose leader is gone is overwritten.                           *)
Lose(e) ==
  /\ \A n \in Nodes : leader[n] # e.term
  /\ \A d \in inflight : d.term = e.term => d.seq <= e.seq
  /\ inflight' = inflight \ {e}
  /\ UNCHANGED <<log, hist, dispatched, term, leader, suffrage, nodeVars,
                 schemaVars, callVars>>

Receive(l, n) ==
  /\ Leads(l) /\ up[n] /\ suffrage[n] # "none"
  /\ Compacted(l) <= stored[n] /\ stored[n] < Len(log)
  /\ stored' = [stored EXCEPT ![n] = stored[n] + 1]
  /\ UNCHANGED <<raftVars, up, crashes, pos, fsm, snap, skipped, schemaVars,
                 callVars>>

----------------------------------------------------------------------------
(* Mutated forms of the definitions below.                                 *)

DispatchAckedEarly(c) ==
  LET k == call[c]
      l == k.node
      e == [op |-> k.op, term |-> leader[l], seq |-> dispatched + 1,
            checked |-> k.checked]
  IN /\ up[l] /\ leader[l] # 0 /\ dispatched < MaxProposals
     /\ dispatched' = dispatched + 1
     /\ inflight' = inflight \cup {e}
     /\ call' = [call EXCEPT ![c] = Nil]
     /\ acks' = acks \cup {[op |-> k.op, clean |-> TRUE,
                            result |-> NewResult(fsm[l], k.op, pos[l] + 1, leader[l])]}
     /\ UNCHANGED <<log, hist, term, leader, suffrage>>

RestoredOverState(n, s) ==
  /\ fsm' = [fsm EXCEPT ![n] = [s.fsm EXCEPT !.state = fsm[n].state]]
  /\ pos' = [pos EXCEPT ![n] = s.pos]
  /\ skipped' = [skipped EXCEPT ![n] = s.skipped]

EligibleByQuorum(l, op) ==
  /\ op.version <= supported[l]
  /\ \E Q \in Quorums(Voters) : \A v \in Q : op.version <= advertised[v]

AppliedOffByOne(n, index) == fsm[n].appliedIndex + 1 >= index

----------------------------------------------------------------------------
(* Proposing (node.go).                                                    *)

(* requireVoterSchemaSupport: the leader's own capabilities and those the  *)
(* fabric has for every current voter.                                     *)
SchemaEligible(l, op) ==
  /\ op.version <= supported[l]
  /\ \A v \in Voters : op.version <= advertised[v]

(* c enters proposeLocal on node n.                                        *)
Enter(c, n, op, checked) ==
  /\ call[c] = Nil /\ up[n] /\ dispatched < MaxProposals
  /\ call' = [call EXCEPT ![c] =
                [op |-> op, node |-> n, seq |-> 0, checked |-> checked]]
  /\ UNCHANGED <<raftVars, nodeVars, schemaVars, acks>>

(* Node.Propose up to its call of proposeLocal.  A known identity with     *)
(* another payload is refused; the voters' schemas are looked at only by a *)
(* node that is leader now.                                                *)
Propose(c, n, op) ==
  /\ OpKnown(fsm[n], op) => Prior(fsm[n], op) # Nil
  /\ leader[n] # 0 => SchemaEligible(n, op)
  /\ Enter(c, n, op, leader[n] # 0)

(* Cluster.Propose on node n: handlePropose proposes on a leader and       *)
(* forwards to the leader l that n knows of otherwise.  Neither path       *)
(* consults requireVoterSchemaSupport.                                     *)
HandlePropose(c, n, l, op) ==
  /\ "forward" \in Features
  /\ up[n]
  /\ IF leader[n] # 0 THEN l = n ELSE l # n
  /\ Enter(c, l, op, FALSE)

(* proposeLocal reads raft's state again.  A leader dispatches the entry   *)
(* and the caller waits on its future, which has no timeout of its own.    *)
Dispatch(c) ==
  LET k == call[c]
      e == [op |-> k.op, term |-> leader[k.node], seq |-> dispatched + 1,
            checked |-> k.checked]
  IN /\ up[k.node] /\ leader[k.node] # 0 /\ dispatched < MaxProposals
     /\ dispatched' = dispatched + 1
     /\ inflight' = inflight \cup {e}
     /\ call' = [call EXCEPT ![c].seq = dispatched + 1]
     /\ UNCHANGED <<log, hist, term, leader, suffrage, acks>>

(* ErrNotLeader, or raft.Apply could not enqueue the entry in n.timeout.   *)
Refuse(c) ==
  /\ call' = [call EXCEPT ![c] = Nil]
  /\ UNCHANGED <<raftVars, acks>>

ProposeLocal(c) ==
  /\ call[c] # Nil /\ call[c].seq = 0
  /\ Dispatch(c) \/ Refuse(c)
  /\ UNCHANGED <<nodeVars, schemaVars>>

(* The raft apply loop hands the next entry to KVFSM.Apply; if a caller    *)
(* waits for it on this node, proposeLocal returns the response.           *)
ApplyNext(n) ==
  /\ up[n] /\ pos[n] < stored[n]
  /\ LET i == pos[n] + 1
         e == log[i]
         response == ApplyResponse(fsm[n], supported[n], e.op, i, e.term)
         clean == ~skipped[n] /\ e.op.version <= supported[n]
         waiting == {c \in Clients : call[c] # Nil /\ call[c].node = n
                                                   /\ call[c].seq = e.seq}
     IN /\ pos' = [pos EXCEPT ![n] = i]
        /\ fsm' = [fsm EXCEPT ![n] =
                     ApplyLocked(fsm[n], supported[n], e.op, i, e.term)]
        /\ skipped' = [skipped EXCEPT ![n] = ~clean]
        /\ call' = [c \in Clients |-> IF c \in waiting THEN Nil ELSE call[c]]
        /\ acks' = IF waiting # {} /\ response # Nil
                     THEN acks \cup {[op |-> e.op, result |-> response,
                                      clean |-> clean]}
                     ELSE acks
  /\ UNCHANGED <<raftVars, up, crashes, stored, snap, schemaVars>>

(* WaitApplied(index) returns on node n.                                   *)
WaitAppliedReturns(n, index) == fsm[n].appliedIndex >= index

----------------------------------------------------------------------------
(* Snapshots, crashes and restarts.                                        *)

TakeSnapshot(n) ==
  /\ n \in Snapshotters
  /\ up[n] /\ pos[n] > snap[n].pos
  /\ snap' = [snap EXCEPT ![n] =
                [pos |-> pos[n], fsm |-> Snapshot(fsm[n]),
                 version |-> supported[n], skipped |-> skipped[n]]]
  /\ UNCHANGED <<raftVars, up, crashes, stored, pos, fsm, skipped, schemaVars,
                 callVars>>

(* KVFSM.Restore of snapshot s on node n, and raft's position with it.     *)
Restored(n, s) ==
  /\ fsm' = [fsm EXCEPT ![n] = s.fsm]
  /\ pos' = [pos EXCEPT ![n] = s.pos]
  /\ skipped' = [skipped EXCEPT ![n] = s.skipped]

(* The leader's log no longer reaches back to n, so it sends its snapshot. *)
InstallSnapshot(l, n) ==
  /\ Leads(l) /\ up[n] /\ suffrage[n] # "none"
  /\ stored[n] < Compacted(l)
  /\ CanRestore(supported[n], snap[l].version)
  /\ Restored(n, snap[l])
  /\ stored' = [stored EXCEPT ![n] = snap[l].pos]
  /\ snap' = [snap EXCEPT ![n] = snap[l]]
  /\ UNCHANGED <<raftVars, up, crashes, schemaVars, callVars>>

(* Shutdown or a crash: the state machine is in memory, the log store and  *)
(* the snapshots are not.                                                  *)
Crash(n) ==
  /\ "crash" \in Features
  /\ up[n] /\ crashes < MaxCrashes
  /\ Leads(n) => term < MaxTerm
  /\ crashes' = crashes + 1
  /\ up' = [up EXCEPT ![n] = FALSE]
  /\ leader' = [leader EXCEPT ![n] = 0]
  /\ Restored(n, NoSnapshot)
  /\ call' = [c \in Clients |->
                IF call[c] # Nil /\ call[c].node = n THEN Nil ELSE call[c]]
  /\ UNCHANGED <<log, hist, inflight, dispatched, term, suffrage, stored, snap,
                 schemaVars, acks>>

(* NewNode on existing stores: never bootstraps again, restores the newest *)
(* snapshot (and does not start when it cannot), registers capabilities.   *)
Restart(n) ==
  /\ ~up[n]
  /\ CanRestore(supported[n], snap[n].version)
  /\ up' = [up EXCEPT ![n] = TRUE]
  /\ Restored(n, snap[n])
  /\ advertised' = [advertised EXCEPT ![n] = supported[n]]
  /\ UNCHANGED <<raftVars, crashes, stored, snap, supported, callVars>>

----------------------------------------------------------------------------
(* Rolling upgrades: SetSupportedReplicationVersion sets the node's own    *)
(* capabilities and its state machine first, and registers with the fabric *)
(* after that.  On a stopped node the change is the next start's option.   *)

SetSupported(n, v) ==
  /\ \/ "upgrade" \in Features /\ v > supported[n]
     \/ "downgrade" \in Features /\ v < supported[n]
  /\ up[n] => advertised[n] = supported[n]
  /\ supported' = [supported EXCEPT ![n] = v]
  /\ UNCHANGED <<raftVars, nodeVars, advertised, callVars>>

RegisterCapabilities(n) ==
  /\ up[n] /\ advertised[n] # supported[n]
  /\ advertised' = [advertised EXCEPT ![n] = supported[n]]
  /\ UNCHANGED <<raftVars, nodeVars, supported, callVars>>

----------------------------------------------------------------------------
(* Membership.  A change is committed by a quorum of the new voters, all   *)
(* of which then have the log.                                             *)

Reconfigure(l, n, role) ==
  /\ "member" \in Features
  /\ Leads(l) /\ suffrage[n] # role
  /\ LET V == IF role = "voter" THEN Voters \cup {n} ELSE Voters \ {n}
     IN \E Q \in Quorums(V) : \A q \in Q : up[q] /\ stored[q] = Len(log)
  /\ suffrage' = [suffrage EXCEPT ![n] = role]
  /\ IF role # "voter" /\ n \in Voters /\ up[n] /\ leader[n] # 0
       THEN /\ Leads(n) => term < MaxTerm
            /\ leader' = [leader EXCEPT ![n] = 0]
            /\ Abandon(n)
       ELSE UNCHANGED <<leader, call>>
  /\ UNCHANGED <<log, hist, inflight, dispatched, term, nodeVars, schemaVars,
                 acks>>

Join(l, n) == suffrage[n] = "none" /\ Reconfigure(l, n, "voter")

AddLearner(l, n) == suffrage[n] = "none" /\ Reconfigure(l, n, "nonvoter")

(* Promotion compares the learner's last log index with the leader's.      *)
PromoteLearnerAfterCatchUp(l, n) ==
  /\ suffrage[n] = "nonvoter" /\ stored[n] >= stored[l]
  /\ Reconfigure(l, n, "voter")

DemoteVoter(l, n) == suffrage[n] = "voter" /\ Reconfigure(l, n, "nonvoter")

RemoveServer(l, n) == Reconfigure(l, n, "none")

----------------------------------------------------------------------------
ClientStep ==
  \E c \in Clients, op \in Ops, l \in Nodes :
    \/ Propose(c, l, op)
    \/ \E n \in Nodes : HandlePropose(c, n, l, op)
    \/ ProposeLocal(c)

CommitStep ==
  \E l \in Nodes, e \in inflight : \E Q \in Quorums(Voters) : Commit(l, e, Q)

MemberStep ==
  \E l, n \in Nodes : \/ Join(l, n) \/ AddLearner(l, n)
                      \/ PromoteLearnerAfterCatchUp(l, n)
                      \/ DemoteVoter(l, n) \/ RemoveServer(l, n)

Next ==
  \/ ClientStep \/ CommitStep \/ MemberStep
  \/ \E e \in inflight : Lose(e)
  \/ \E n \in Nodes : \/ Elect(n) \/ StepDown(n)
                      \/ ApplyNext(n) \/ TakeSnapshot(n)
                      \/ Crash(n) \/ Restart(n)
                      \/ RegisterCapabilities(n)
                      \/ \E v \in Schemas : SetSupported(n, v)
                      \/ \E l \in Nodes : Receive(l, n) \/ InstallSnapshot(l, n)

Spec == Init /\ [][Next]_vars

(* Raft elects a leader whenever a quorum of voters runs and none leads,   *)
(* deposes a leader that has lost its quorum, replicates and commits what  *)
(* a quorum can store; a node's apply loop runs; a stopped node is started *)
(* again; a goroutine in proposeLocal goes on.  Nothing is assumed of new  *)
(* calls, of faults or of operators.                                       *)
ElectWhenNone(n) == (\A l \in Nodes : ~Leads(l)) /\ Elect(n)
Depose(n) == leader[n] # term /\ StepDown(n)

FairSpec ==
  /\ Spec
  /\ WF_vars(CommitStep)
  /\ \A c \in Clients : WF_vars(ProposeLocal(c))
  /\ \A n \in Nodes : /\ WF_vars(ElectWhenNone(n))
                       /\ WF_vars(Depose(n))
                       /\ WF_vars(ApplyNext(n))
                       /\ WF_vars(Restart(n))
                       /\ WF_vars(\E l \in Nodes : Receive(l, n))
                       /\ WF_vars(\E l \in Nodes : InstallSnapshot(l, n))

----------------------------------------------------------------------------
(* Properties.                                                             *)

Latest == hist[Len(hist)]

(* "Every voting replica applying the same committed log must reach        *)
(* byte/semantically identical state": two running nodes at one position   *)
(* of the log, reached by any mixture of log replay, restarts and snapshot *)
(* installation, have the same state machine, provided the version gate of *)
(* applyLocked refused neither of them an entry on the way.                *)
ReplicaAgreement ==
  \A m, n \in Nodes :
    up[m] /\ up[n] /\ pos[m] = pos[n] /\ ~skipped[m] /\ ~skipped[n]
      => fsm[m] = fsm[n]

(* Success means committed, applied and recorded for good: what Propose    *)
(* returned, on a retry as on the first call, through every crash and      *)
(* change of leader, is the result recorded for that identity at a         *)
(* committed position whose entry carries it.                              *)
AckDurable ==
  \A a \in acks : a.clean =>
    /\ Latest.applied[a.op.id] # Nil
    /\ Latest.applied[a.op.id].result = a.result
    /\ Latest.applied[a.op.id].digest = Digest(a.op)
    /\ a.result.index \in 1 .. Len(log)
    /\ log[a.result.index].op.id = a.op.id

(* However often an operation is proposed, retried, forwarded or left      *)
(* behind by a failed leader, at most one of its committed entries takes   *)
(* effect.                                                                 *)
AppliedOnce ==
  \A i, j \in 1 .. Len(log) :
    i < j /\ hist[i + 1] # hist[i] /\ hist[j + 1] # hist[j]
      => log[i].op.id # log[j].op.id

(* "the original result unchanged": the result a running replica has for   *)
(* an identity is never dropped or replaced, by an entry or by a snapshot. *)
RecordsKept ==
  \A n \in Nodes :
    up[n] /\ up'[n] /\ ~skipped[n] /\ ~skipped'[n] =>
      \A i \in OpIDs :
        fsm[n].applied[i] # Nil => fsm'[n].applied[i] = fsm[n].applied[i]
RecordsNeverChange == [][RecordsKept]_vars

(* Read-after-forward: once WaitApplied(result.Index) returns on a node,   *)
(* the state machine there reflects the acknowledged operation, although   *)
(* refused and repeated entries do not move the applied index it polls.    *)
ReadAfterWait ==
  \A a \in acks, n \in Nodes :
    a.clean /\ up[n] /\ ~skipped[n] /\ WaitAppliedReturns(n, a.result.index)
      => /\ fsm[n].applied[a.op.id] # Nil
         /\ fsm[n].applied[a.op.id].result = a.result

(* "A voter must understand the replication schema before an operation     *)
(* requiring it commits": every voter's state machine accepts the schema   *)
(* of an entry in the step that commits it.                                *)
SchemaUnderstood ==
  Len(log') > Len(log) =>
    \A v \in Voters : log'[Len(log')].op.version <= supported[v]
SchemaBeforeCommit == [][SchemaUnderstood]_vars

(* The same for entries whose proposer made the check.                     *)
CheckedUnderstood ==
  Len(log') > Len(log) /\ log'[Len(log')].checked =>
    \A v \in Voters : log'[Len(log')].op.version <= supported[v]
CheckedBeforeCommit == [][CheckedUnderstood]_vars

(* n's state has an entry behind it that no leader checked.                *)
Unchecked(n) == \E i \in 1 .. pos[n] : ~log[i].checked

(* No running voter's state misses an entry that its version gate refused, *)
(* through crashes, snapshots, upgrades and changes of leader between the  *)
(* check, the dispatch and the commit, unless an entry was proposed        *)
(* without the check: node.go asks for the state twice (lines 271 and      *)
(* 394), and a node that wins an election in between checks nothing.       *)
NoVoterSkips == \A v \in Voters : up[v] /\ skipped[v] => Unchecked(v)

(* "Every voting replica applying the same committed log must reach        *)
(* byte/semantically identical state", with no proviso but that every      *)
(* entry behind it was proposed with the check.                            *)
CheckedAgreement ==
  \A m, n \in Voters :
    up[m] /\ up[n] /\ pos[m] = pos[n] /\ ~Unchecked(m) => fsm[m] = fsm[n]

(* A caller of Propose is answered: the future it blocks on without a      *)
(* timeout resolves, by the apply loop or by the loss of leadership.       *)
CallReturns == \A c \in Clients : call[c] # Nil ~> call[c] = Nil

(* The nodes together implement the atomic store: the state after the last *)
(* committed entry is the store, entries in flight are the pending         *)
(* operations, and a successful response is an answer.                     *)
KV == INSTANCE AtomicKV WITH
        store <- Latest,
        pending <- {e.op : e \in inflight},
        answered <- {[op |-> k.op, result |-> k.result] : k \in {g \in acks : g.clean}}

ImplementsAtomicKV == KV!Spec

(* Catch-up: once a node stays a member and the rolling upgrade is over,   *)
(* it applies the whole log, by log replay or by snapshot, whatever        *)
(* crashed, joined or left before.                                         *)
Convergence ==
  \A n \in Nodes :
    <>[](suffrage[n] # "none" /\ \A m \in Nodes : supported[m] = Version)
      => <>[](up[n] /\ pos[n] = Len(log))

============================================================================
