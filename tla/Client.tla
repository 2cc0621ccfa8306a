------------------------------- MODULE Client -------------------------------
(***************************************************************************)
(* Client.Call of client/client.go against a remote service: attempts,     *)
(* backoff and cancellation, and the classification of what an attempt     *)
(* returns.  A request that is on its way may be executed long after its   *)
(* attempt has failed, or never.  The service is external: it honours a    *)
(* valid idempotency key of an operation that declares support.            *)
(***************************************************************************)
EXTENDS Naturals, FiniteSets

CONSTANT MaxAttempts
ASSUME AttemptsAssumption == MaxAttempts \in Nat \ {0}

Contract == [kind : {"read", "mutation"}, supported : BOOLEAN,
             key : {"none", "invalid", "valid"}]

VARIABLES contract, pc,
          attempt,     \* number of attempts begun
          result,      \* what the last attempt returned
          sent,        \* attempts whose request is on its way
          executed,    \* attempts whose request was executed
          effects,     \* how often the operation took effect
          cancelled

vars == <<contract, pc, attempt, result, sent, executed, effects, cancelled>>

Errors == {"transport", "unavailable", "rejected", "local"}

Init ==
  /\ contract \in Contract
  /\ pc = "begin" /\ attempt = 0 /\ result = "none"
  /\ sent = {} /\ executed = {} /\ effects = 0
  /\ cancelled = FALSE

(* The types of all variables.                                             *)
TypeOK ==
  /\ contract \in Contract
  /\ pc \in {"begin", "waiting", "returned", "backoff", "done"}
  /\ attempt \in 0 .. MaxAttempts
  /\ result \in Errors \cup {"none", "ok", "cancelled"}
  /\ executed \subseteq 1 .. MaxAttempts /\ sent \subseteq 1 .. MaxAttempts
  /\ effects \in Nat
  /\ cancelled \in BOOLEAN

----------------------------------------------------------------------------
(* Mutated forms of the definitions below.                                 *)

retrySafeIgnoringKey(c) == c.kind = "read" \/ c.supported

BackoffDeaf ==
  /\ pc = "backoff" /\ ~cancelled
  /\ pc' = "begin"
  /\ UNCHANGED <<contract, attempt, result, sent, executed, effects, cancelled>>

----------------------------------------------------------------------------

retrySafe(c) == c.kind = "read" \/ (c.supported /\ c.key = "valid")

Attempts == IF retrySafe(contract) THEN MaxAttempts ELSE 1

(* Also a 2xx answer that is too large or not JSON is "unavailable".       *)
retryable(r) == r \in {"transport", "unavailable"}

(* callOnce up to Do: the token source may fail, before anything is sent.  *)
Begin ==
  /\ pc = "begin"
  /\ attempt' = attempt + 1
  /\ \/ /\ pc' = "waiting" /\ sent' = sent \cup {attempt + 1}
        /\ UNCHANGED result
     \/ pc' = "returned" /\ result' = "local" /\ UNCHANGED sent
  /\ UNCHANGED <<contract, executed, effects, cancelled>>

(* The service executes a request, at most once each.                      *)
Execute(n) ==
  /\ n \in sent \ executed
  /\ executed' = executed \cup {n}
  /\ effects' = IF \/ contract.kind = "read"
                   \/ (contract.supported /\ contract.key = "valid" /\ effects > 0)
                THEN effects ELSE effects + 1
  /\ UNCHANGED <<contract, pc, attempt, result, sent, cancelled>>

(* It answers what it has executed.                                        *)
Respond ==
  /\ pc = "waiting" /\ attempt \in executed
  /\ pc' = "returned" /\ result' \in {"ok", "unavailable"}
  /\ UNCHANGED <<contract, attempt, sent, executed, effects, cancelled>>

(* The service or a proxy refuses the request.                             *)
Refuse ==
  /\ pc = "waiting" /\ attempt \notin executed
  /\ pc' = "returned" /\ result' \in {"unavailable", "rejected"}
  /\ UNCHANGED <<contract, attempt, sent, executed, effects, cancelled>>

(* Do or ReadAll fails: connection, timeout or context.                    *)
Lose ==
  /\ pc = "waiting"
  /\ pc' = "returned" /\ result' = "transport"
  /\ UNCHANGED <<contract, attempt, sent, executed, effects, cancelled>>

(* The loop of Call after an attempt.                                      *)
Judge ==
  /\ pc = "returned"
  /\ pc' = IF result = "ok" \/ attempt = Attempts \/ ~retryable(result)
           THEN "done" ELSE "backoff"
  /\ UNCHANGED <<contract, attempt, result, sent, executed, effects, cancelled>>

(* Its select: the delay, or the context; both may be ready.               *)
Backoff ==
  /\ pc = "backoff"
  /\ \/ pc' = "begin" /\ UNCHANGED result
     \/ cancelled /\ pc' = "done" /\ result' = "cancelled"
  /\ UNCHANGED <<contract, attempt, sent, executed, effects, cancelled>>

Cancel ==
  /\ cancelled' = TRUE
  /\ UNCHANGED <<contract, pc, attempt, result, sent, executed, effects>>

Next == \/ Begin \/ Respond \/ Refuse \/ Lose \/ Judge \/ Backoff \/ Cancel
        \/ \E n \in 1 .. MaxAttempts : Execute(n)

Spec == Init /\ [][Next]_vars

(* The client runs, and its HTTP client's timeout ends every attempt.      *)
Fairness == WF_vars(Begin \/ Lose \/ Judge \/ Backoff)

FairSpec == Spec /\ Fairness

----------------------------------------------------------------------------
(* Properties.                                                             *)

(* "retries are limited to reads or explicitly idempotent keyed            *)
(* mutations": a mutation takes effect at most once, although the request  *)
(* of a lost attempt may be executed after the next one.                   *)
EffectAtMostOnce == effects <= 1

(* A call that reports success was executed by the attempt that reports    *)
(* it, and a mutation has taken effect.                                    *)
ResultIsTrue ==
  pc = "done" /\ result = "ok" => attempt \in executed
                                  /\ (contract.kind = "read" \/ effects = 1)

(* Both: the caller may believe what a call returns.                       *)
CallIsTrue == EffectAtMostOnce /\ ResultIsTrue

(* "remote calls are bounded": the call returns within its attempts.       *)
CallEnds == <>(pc = "done" /\ attempt <= MaxAttempts)

============================================================================
