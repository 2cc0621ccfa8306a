------------------------------ MODULE RunState ------------------------------
(***************************************************************************)
(* The run state of an agent process and the classification of its outcome *)
(* (agent/agent.go).  Readers, any number of them, observe errors on       *)
(* stdout, the end of the answer and provider failures; a reader takes a   *)
(* sequence number with NextSequence when it observes something and        *)
(* records it later, or does both at once.  Causes of an early end may be  *)
(* reported by anybody.                                                    *)
(*                                                                         *)
(* trace and overtaken are not in the code: what was observed, in the      *)
(* order in which it was observed, and the observations whose reader still *)
(* had them when a later one of their kind was recorded first.             *)
(***************************************************************************)
EXTENDS Naturals, Sequences, FiniteSets

CONSTANT MaxSequence   \* bound on the sequence numbers given out
ASSUME SequenceAssumption == MaxSequence \in Nat

Kinds == {"error", "stop", "provider"}
Causes == {"request_cancelled", "user_stop", "output_limit", "service_shutdown"}

VARIABLES snapshot, sequence,
          pending,    \* the kinds and numbers observed and not yet recorded
          trace, overtaken

runVars == <<snapshot, sequence, pending, trace, overtaken>>

RunInit ==
  /\ snapshot = [cause |-> "none", causeAt |-> 0, sealed |-> FALSE,
                 at |-> [k \in Kinds |-> 0]]
  /\ sequence = 0
  /\ pending = {}
  /\ trace = << >> /\ overtaken = {}

(* The types of all variables.                                             *)
RunTypeOK ==
  /\ snapshot \in [cause : Causes \cup {"none"}, causeAt : 0 .. MaxSequence,
                   sealed : BOOLEAN, at : [Kinds -> 0 .. MaxSequence]]
  /\ sequence \in 0 .. MaxSequence
  /\ pending \subseteq Kinds \X (1 .. MaxSequence)
  /\ trace \in Seq(Kinds \cup Causes) /\ Len(trace) <= MaxSequence
  /\ overtaken \subseteq 1 .. MaxSequence

(* The observations of k that number n overtakes when it is recorded.      *)
Earlier(k, n) ==
  IF snapshot.at[k] = 0 THEN {m \in 1 .. n - 1 : <<k, m>> \in pending} ELSE {}

----------------------------------------------------------------------------
(* Mutated forms of the definitions below.                                 *)

RecordAtNow(k, n) ==
  /\ <<k, n>> \in pending
  /\ pending' = pending \ {<<k, n>>}
  /\ snapshot' = [snapshot EXCEPT !.at[k] = IF @ = 0 THEN sequence ELSE @]
  /\ overtaken' = overtaken \cup Earlier(k, n)
  /\ UNCHANGED <<sequence, trace>>

----------------------------------------------------------------------------

(* NextSequence, called by a reader that observes k.                       *)
Observe(k) ==
  /\ sequence < MaxSequence
  /\ sequence' = sequence + 1
  /\ pending' = pending \cup {<<k, sequence + 1>>}
  /\ trace' = Append(trace, k)
  /\ UNCHANGED <<snapshot, overtaken>>

(* RecordErrorAt, RecordStopAt, RecordProviderFailureAt: the first to be   *)
(* recorded counts, sealed or not.                                         *)
RecordAt(k, n) ==
  /\ <<k, n>> \in pending
  /\ pending' = pending \ {<<k, n>>}
  /\ snapshot' = [snapshot EXCEPT !.at[k] = IF @ = 0 THEN n ELSE @]
  /\ overtaken' = overtaken \cup Earlier(k, n)
  /\ UNCHANGED <<sequence, trace>>

(* RecordError, RecordProviderFailure: both at once.                       *)
Record(k) ==
  /\ k \in {"error", "provider"} /\ sequence < MaxSequence
  /\ sequence' = sequence + 1
  /\ snapshot' = [snapshot EXCEPT !.at[k] = IF @ = 0 THEN sequence + 1 ELSE @]
  /\ trace' = Append(trace, k)
  /\ overtaken' = overtaken \cup Earlier(k, sequence + 1)
  /\ UNCHANGED pending

(* The causes that c may replace.                                          *)
Replaceable(c) ==
  CASE c = "request_cancelled" -> {"none"}
    [] c = "user_stop" -> {"none", "request_cancelled"}
    [] c = "output_limit" -> {"none", "request_cancelled", "user_stop"}
    [] c = "service_shutdown" -> {"none", "request_cancelled"}

RecordCause(c) ==
  /\ ~snapshot.sealed /\ snapshot.cause \in Replaceable(c)
  /\ sequence < MaxSequence
  /\ sequence' = sequence + 1
  /\ snapshot' = [snapshot EXCEPT !.cause = c, !.causeAt = sequence + 1]
  /\ trace' = Append(trace, c)
  /\ UNCHANGED <<pending, overtaken>>

Seal ==
  /\ snapshot' = [snapshot EXCEPT !.sealed = TRUE]
  /\ UNCHANGED <<sequence, pending, trace, overtaken>>

RunNext ==
  \/ \E k \in Kinds : Observe(k) \/ Record(k)
  \/ \E k \in Kinds, n \in 1 .. sequence : RecordAt(k, n)
  \/ \E c \in Causes : RecordCause(c)
  \/ Seal

RunSpec == RunInit /\ [][RunNext]_runVars

----------------------------------------------------------------------------
(* Classify.                                                               *)

Exit == [exited : BOOLEAN, zero : BOOLEAN, signaled : BOOLEAN]

CauseOutcome(c) ==
  CASE c = "output_limit" -> "truncated"
    [] c \in {"user_stop", "request_cancelled"} -> "cancelled"
    [] c = "service_shutdown" -> "interrupted"

ExitOutcome(validStop, exit) ==
  IF exit.signaled THEN "failed"
  ELSE IF exit.exited /\ ~exit.zero /\ validStop THEN "completed_with_process_error"
  ELSE IF exit.exited /\ exit.zero /\ validStop THEN "completed"
  ELSE "failed"

(* A provider failure counts unless the stop or the cause came first.      *)
ProviderDecides(s) ==
  /\ s.at["stop"] = 0 \/ s.at["provider"] < s.at["stop"]
  /\ s.cause = "none" \/ (s.causeAt > 0 /\ s.at["provider"] < s.causeAt)

ErrorDecides(s) ==
  LET e == s.at["error"]
  IN /\ s.at["stop"] = 0 \/ (e > 0 /\ e < s.at["stop"])
     /\ s.cause = "none" \/ (e > 0 /\ s.causeAt > 0 /\ e < s.causeAt)

Classify(s, stdoutError, validStop, exit, providerCause) ==
  IF \/ providerCause /\ ProviderDecides(s)
     \/ stdoutError /\ ErrorDecides(s)
    THEN "failed"
  ELSE IF s.cause # "none" THEN CauseOutcome(s.cause)
  ELSE ExitOutcome(validStop, exit)

----------------------------------------------------------------------------
(* Properties.                                                             *)

(* Where a set of events is in the trace, without what was overtaken.      *)
Positions(E) == {i \in 1 .. Len(trace) : trace[i] \in E /\ i \notin overtaken}
Before(i, E) == \A j \in Positions(E) : i < j
LastCause == {i \in Positions(Causes) : \A j \in Positions(Causes) : j <= i}

(* The outcome by the order of the observations: a failure that precedes   *)
(* the end of the answer and the cause that counts fails the run;          *)
(* otherwise the cause, otherwise the exit status decides.                 *)
Expected(validStop, exit) ==
  IF \E i \in Positions({"error", "provider"}) :
       Before(i, {"stop"}) /\ \A j \in LastCause : i < j
    THEN "failed"
  ELSE IF LastCause # {} THEN CauseOutcome(trace[CHOOSE i \in LastCause : TRUE])
  ELSE ExitOutcome(validStop, exit)

(* "run-state ordering": however late the readers record what they have    *)
(* observed, the outcome is the one of the order of observation.  Of two   *)
(* readers that observe the same kind, the one that records first counts;  *)
(* nothing else is lost.                                                   *)
OutcomeFollowsOrder ==
  pending = {} =>
    \A exit \in Exit :
      LET validStop == Positions({"stop"}) # {}
      IN Classify(snapshot, Positions({"error"}) # {}, validStop, exit,
                  Positions({"provider"}) # {}) = Expected(validStop, exit)

============================================================================
