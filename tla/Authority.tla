----------------------------- MODULE Authority -----------------------------
(***************************************************************************)
(* The mutation authority of replication/authority.go and the readiness    *)
(* driver of replication/readiness.go that feeds it.                       *)
(*                                                                         *)
(* The driver derives one readiness per tick from separate reads: the      *)
(* health hook, the raft state, the known leader, and the raft statistics, *)
(* which raft itself collects one after the other.  Requests, the operator *)
(* and raft run between any two of them.                                   *)
(*                                                                         *)
(* Raft and the product's health are the environment.  What is committed   *)
(* on a node and what it has applied only grows; its log may lose a suffix *)
(* that was never committed, and ends before what a snapshot has applied.  *)
(* `duty` and `heard` are history variables: what was committed on the     *)
(* node when the tick began, and whether the node led or had recent leader *)
(* contact at a moment of the tick.                                        *)
(***************************************************************************)
EXTENDS Naturals

CONSTANTS Requests,   \* concurrent callers of Route
          HasHealth,  \* whether the product installed a health hook
          MaxIndex    \* bound on raft's indices

ASSUME HealthAssumption == HasHealth \in BOOLEAN
ASSUME IndexAssumption == MaxIndex \in Nat

Modes == {"standalone", "replicated"}
Readinesses == {"starting", "learner", "ready-follower", "ready-leader",
                "no-leader", "unhealthy", "shutting-down"}
RaftStates == {"Leader", "Follower", "Candidate", "Shutdown"}
Indices == 0 .. MaxIndex

(* contact: less than two seconds ago.                                     *)
RaftReadings == [state : RaftStates, leader : BOOLEAN, contact : BOOLEAN,
                 last : Indices, committed : Indices, applied : Indices]

VARIABLES mode,       \* Authority.mode
          readiness,  \* Authority.readiness
          pc,         \* where the driver is in its loop
          ctxDone,    \* the context of Run is cancelled
          raft,       \* what the driver could read of raft now
          seen,       \* the indices it has read in this tick
          healthy,    \* what the health hook would report
          route,      \* route[r]: what the caller does with Route's decision
          duty, heard \* history

authority == <<mode, readiness>>
environment == <<raft, healthy, ctxDone>>
history == <<duty, heard>>
authorityVars == <<authority, pc, seen, environment, route, history>>

(* Where the driver is between a tick and the readiness it sets.           *)
Ticking == {"health", "state", "leader", "last", "applied", "contact"}

(* The types of all variables.                                             *)
AuthorityTypeOK ==
  /\ mode \in Modes /\ readiness \in Readinesses
  /\ pc \in Ticking \cup {"wait", "exited"}
  /\ raft \in RaftReadings
  /\ seen \in [last : Indices, applied : Indices]
  /\ ctxDone \in BOOLEAN /\ healthy \in BOOLEAN
  /\ duty \in Indices /\ heard \in BOOLEAN
  /\ route \in [Requests -> {"idle", "propose", "forward", "reject", "local"}]

NothingSeen == [last |-> 0, applied |-> 0]

(* The node leads, or the leader was there a moment ago.                   *)
Hears(s) == s.state = "Leader" \/ s.contact

(* NewAuthority, and a raft process that has just started.                 *)
AuthorityInit ==
  /\ mode = "standalone" /\ readiness = "starting"
  /\ pc = "wait" /\ ctxDone = FALSE
  /\ raft = [state |-> "Follower", leader |-> FALSE, contact |-> FALSE,
             last |-> 0, committed |-> 0, applied |-> 0]
  /\ seen = NothingSeen
  /\ healthy = TRUE
  /\ route = [r \in Requests |-> "idle"]
  /\ duty = 0 /\ heard = FALSE

----------------------------------------------------------------------------
(* Mutated forms of the definitions below.                                 *)

caughtUpOffByOne(s) == s.applied + 1 >= s.last

ForwardsUnhealthy(m, rd) ==
  IF m = "standalone" THEN "local"
  ELSE CASE rd = "ready-leader" -> "propose"
         [] rd \in {"ready-follower", "unhealthy"} -> "forward"
         [] OTHER -> "reject"

HealthReturns ==
  /\ pc = "health"
  /\ IF HasHealth /\ ~healthy
       THEN readiness' = "unhealthy" /\ pc' = "exited"
       ELSE pc' = "state" /\ UNCHANGED readiness
  /\ UNCHANGED <<mode, seen, environment, route, history>>

----------------------------------------------------------------------------
(* ReadinessDriver.Run.                                                    *)

(* The comparison of caughtUp, on the indices it was given.                *)
caughtUp(s) == s.applied >= s.last

set(rd) ==
  /\ readiness' = rd /\ pc' = "wait"
  /\ seen' = NothingSeen /\ duty' = 0 /\ heard' = FALSE

goOn(next) == pc' = next /\ UNCHANGED <<readiness, seen, history>>

(* The tick case of the select.                                            *)
Tick ==
  /\ pc = "wait"
  /\ pc' = "health" /\ UNCHANGED <<readiness, seen>>
  /\ duty' = raft.committed /\ heard' = Hears(raft)
  /\ UNCHANGED <<mode, environment, route>>

(* The ctx.Done case: Go takes either case when both are ready.            *)
Exit ==
  /\ pc = "wait" /\ ctxDone
  /\ readiness' = "shutting-down" /\ pc' = "exited"
  /\ UNCHANGED <<mode, seen, environment, route, history>>

Health ==
  /\ pc = "health"
  /\ IF HasHealth /\ ~healthy THEN set("unhealthy") ELSE goOn("state")
  /\ UNCHANGED <<mode, environment, route>>

State ==
  /\ pc = "state"
  /\ CASE raft.state = "Leader" -> set("ready-leader")
       [] raft.state = "Follower" -> goOn("leader")
       [] raft.state = "Candidate" -> set("no-leader")
       [] raft.state = "Shutdown" -> set("shutting-down")
  /\ UNCHANGED <<mode, environment, route>>

Leader ==
  /\ pc = "leader"
  /\ IF raft.leader THEN goOn("last") ELSE set("no-leader")
  /\ UNCHANGED <<mode, environment, route>>

(* raft.Stats: the end of the log, what is applied, the contact.           *)
StatsLast ==
  /\ pc = "last" /\ pc' = "applied"
  /\ seen' = [seen EXCEPT !.last = raft.last]
  /\ UNCHANGED <<authority, environment, route, history>>

StatsApplied ==
  /\ pc = "applied" /\ pc' = "contact"
  /\ seen' = [seen EXCEPT !.applied = raft.applied]
  /\ UNCHANGED <<authority, environment, route, history>>

(* A leader's contact is "0".                                              *)
StatsContact ==
  /\ pc = "contact"
  /\ set(IF caughtUp(seen) /\ Hears(raft) THEN "ready-follower" ELSE "learner")
  /\ UNCHANGED <<mode, environment, route>>

Driver == \/ Tick \/ Exit \/ Health \/ State \/ Leader
          \/ StatsLast \/ StatsApplied \/ StatsContact

----------------------------------------------------------------------------
(* Authority.                                                              *)

SetMode(m) ==
  /\ mode # m
  /\ mode' = m
  /\ UNCHANGED <<readiness, pc, seen, environment, route, history>>

(* The routing matrix; "local" is ErrStandalone, after which the caller    *)
(* uses the product's local mutation path.                                 *)
Routed(m, rd) ==
  IF m = "standalone" THEN "local"
  ELSE CASE rd = "ready-leader" -> "propose"
         [] rd = "ready-follower" -> "forward"
         [] OTHER -> "reject"

(* Route reads mode and readiness under one lock and releases it before it *)
(* calls propose or forward.                                               *)
Route(r) ==
  /\ route[r] = "idle"
  /\ route' = [route EXCEPT ![r] = Routed(mode, readiness)]
  /\ UNCHANGED <<authority, pc, seen, environment, history>>

(* propose, forward or the local path has returned to the caller.          *)
Finish(r) ==
  /\ route[r] # "idle"
  /\ route' = [route EXCEPT ![r] = "idle"]
  /\ UNCHANGED <<authority, pc, seen, environment, history>>

----------------------------------------------------------------------------
(* Environment.                                                            *)

(* Elections, heartbeats and raft's own shutdown.                          *)
RaftState ==
  /\ \E st \in RaftStates, known, contact \in BOOLEAN :
       /\ st = "Leader" => known
       /\ raft' = [raft EXCEPT !.state = st, !.leader = known, !.contact = contact]
  /\ heard' = (pc \in Ticking /\ (heard \/ Hears(raft')))
  /\ UNCHANGED duty

(* Entries appended, cut off, committed and applied, snapshots installed.  *)
RaftLog ==
  /\ \E last, committed, applied \in Indices :
       /\ committed >= raft.committed /\ applied >= raft.applied
       /\ committed <= last \/ committed <= applied
       /\ raft' = [raft EXCEPT !.last = last, !.committed = committed,
                               !.applied = applied]
  /\ UNCHANGED history

Raft ==
  /\ raft.state # "Shutdown"
  /\ RaftState \/ RaftLog
  /\ UNCHANGED <<authority, pc, seen, healthy, ctxDone, route>>

HealthChange ==
  /\ healthy' = ~healthy
  /\ UNCHANGED <<authority, pc, seen, raft, ctxDone, route, history>>

Cancel ==
  /\ ~ctxDone
  /\ ctxDone' = TRUE
  /\ UNCHANGED <<authority, pc, seen, raft, healthy, route, history>>

AuthorityNext ==
  \/ Driver
  \/ \E m \in Modes : SetMode(m)
  \/ \E r \in Requests : Route(r) \/ Finish(r)
  \/ Raft \/ HealthChange \/ Cancel

AuthoritySpec == AuthorityInit /\ [][AuthorityNext]_authorityVars

(* The driver's goroutine runs, its select is random and so takes the      *)
(* ctx.Done case some time if it is always there to take, and a routed     *)
(* request returns.  Nothing is assumed of raft, health or the operator.   *)
AuthorityFairSpec ==
  /\ AuthoritySpec
  /\ WF_authorityVars(Driver) /\ SF_authorityVars(Exit)
  /\ \A r \in Requests : WF_authorityVars(Finish(r))

----------------------------------------------------------------------------
(* Properties.                                                             *)

(* Everything that was committed on the node when the tick began is        *)
(* applied, and the leader was there at a moment of the tick.              *)
CaughtUpInTick == raft.applied >= duty /\ heard

(* "It never promotes merely because the raft process exists": when the    *)
(* driver declares a ready follower, the node has applied all that was     *)
(* committed on it when the tick began, and it had recent leader contact   *)
(* or led at a moment of the tick, although the end of the log, what is    *)
(* applied and the contact are read at different moments, between which    *)
(* the log grows, loses a suffix, or is replaced by a snapshot.            *)
FollowerEvidence ==
  pc = "contact" /\ pc' = "wait" /\ readiness' = "ready-follower"
    => CaughtUpInTick
FollowerCaughtUp == [][FollowerEvidence]_authorityVars

(* "recovery and catch-up must actually be established first", for both    *)
(* ready states as the comment has it.                                     *)
ReadyEvidence ==
  pc \in {"state", "contact"} /\ pc' = "wait"
    /\ readiness' \in {"ready-follower", "ready-leader"} => CaughtUpInTick
CaughtUpBeforeReady == [][ReadyEvidence]_authorityVars

(* "a configured replicated node in any other readiness rejects": a node   *)
(* that stays configured replicated and stays unhealthy ends up sending no *)
(* mutation anywhere, the requests routed before included.                 *)
UnhealthyQuiesces ==
  <>[](mode = "replicated" /\ ~healthy)
    => <>[](\A r \in Requests : route[r] \in {"idle", "reject"})

(* On ctx.Done the driver sets ShuttingDown and returns: after that a      *)
(* replicated node never takes a mutation again, whatever raft does.       *)
ShutdownQuiesces ==
  ctxDone ~> [](\A r \in Requests : route[r] \notin {"propose", "forward"})

(* Both: an unhealthy node and one that is shut down fall silent.          *)
NodeQuiesces == UnhealthyQuiesces /\ ShutdownQuiesces

(* A healthy node that stays leader, and whose driver is not cancelled,    *)
(* becomes a ready leader and stays one, also after unhealthy periods.     *)
StableLeaderServes ==
  <>[](raft.state = "Leader" /\ healthy /\ ~ctxDone)
    => <>[](readiness = "ready-leader")

============================================================================
