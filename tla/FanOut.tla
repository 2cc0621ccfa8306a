------------------------------- MODULE FanOut -------------------------------
(***************************************************************************)
(* FanOut of cluster/routing.go: one goroutine per node, at most limit of  *)
(* them in the call at once, the results collected under a mutex and       *)
(* sorted.  The call is the product's; it succeeds or fails, and a node    *)
(* may be named twice.  Goroutines that wait for a slot do not look at the *)
(* context: a cancelled fan-out still makes every call.                    *)
(***************************************************************************)
EXTENDS Integers, Sequences, FiniteSets

CONSTANTS NodeIDs,   \* the nodes named by the caller: a sequence of numbers
          FanLimit   \* the argument limit

ASSUME FanOutAssumption == NodeIDs \in Seq(Nat) /\ FanLimit \in Int

VARIABLES worker,    \* worker[w]: where the goroutine of the w-th node is
          outcome,   \* outcome[w]: what the call returned
          results,   \* the results collected so far
          report     \* what FanOut returned, with IsPartial of it

fanVars == <<worker, outcome, results, report>>

Workers == DOMAIN NodeIDs
NoReport == [returned |-> FALSE, results |-> << >>, partial |-> FALSE]

FanInit ==
  /\ worker = [w \in Workers |-> "waiting"]
  /\ outcome = [w \in Workers |-> "none"]
  /\ results = << >> /\ report = NoReport

(* The types of all variables.                                             *)
FanTypeOK ==
  /\ worker \in [Workers -> {"waiting", "calling", "collecting", "releasing", "done"}]
  /\ outcome \in [Workers -> {"none", "ok", "failed"}]
  /\ results \in Seq([node : Nat, ok : BOOLEAN])
  /\ report.returned \in BOOLEAN /\ report.partial \in BOOLEAN

----------------------------------------------------------------------------

limit == IF FanLimit <= 0 THEN 4 ELSE FanLimit

HoldsSlot(w) == worker[w] \in {"calling", "collecting", "releasing"}

Acquire(w) ==
  /\ worker[w] = "waiting"
  /\ Cardinality({v \in Workers : HoldsSlot(v)}) < limit
  /\ worker' = [worker EXCEPT ![w] = "calling"]
  /\ UNCHANGED <<outcome, results, report>>

CallReturned(w, result) ==
  /\ worker[w] = "calling"
  /\ worker' = [worker EXCEPT ![w] = "collecting"]
  /\ outcome' = [outcome EXCEPT ![w] = result]
  /\ UNCHANGED <<results, report>>

(* Mutated form of Collect: only successful calls have a result.           *)
CollectSuccess(w) ==
  /\ worker[w] = "collecting"
  /\ worker' = [worker EXCEPT ![w] = "releasing"]
  /\ results' = IF outcome[w] = "failed" THEN results
                ELSE Append(results, [node |-> NodeIDs[w], ok |-> TRUE])
  /\ UNCHANGED <<outcome, report>>

Collect(w) ==
  /\ worker[w] = "collecting"
  /\ worker' = [worker EXCEPT ![w] = "releasing"]
  /\ results' = Append(results, [node |-> NodeIDs[w], ok |-> outcome[w] = "ok"])
  /\ UNCHANGED <<outcome, report>>

Release(w) ==
  /\ worker[w] = "releasing"
  /\ worker' = [worker EXCEPT ![w] = "done"]
  /\ UNCHANGED <<outcome, results, report>>

IsPartial(rs) == \E k \in DOMAIN rs : ~rs[k].ok

Sorted(rs) == \A k, m \in DOMAIN rs : k < m => rs[k].node <= rs[m].node

(* The orders of rs.                                                       *)
Arrangements(rs) ==
  {[k \in DOMAIN rs |-> rs[p[k]]] :
     p \in {q \in [DOMAIN rs -> DOMAIN rs] :
              \A k, m \in DOMAIN rs : k # m => q[k] # q[m]}}

(* wg.Wait returns and the results are sorted; the sort is not stable.     *)
FanReturn ==
  /\ ~report.returned /\ \A w \in Workers : worker[w] = "done"
  /\ \E sorted \in {rs \in Arrangements(results) : Sorted(rs)} :
       report' = [returned |-> TRUE, results |-> sorted, partial |-> IsPartial(sorted)]
  /\ UNCHANGED <<worker, outcome, results>>

FanStep(w) ==
  \/ Acquire(w) \/ Collect(w) \/ Release(w)
  \/ \E result \in {"ok", "failed"} : CallReturned(w, result)

FanNext == (\E w \in Workers : FanStep(w)) \/ FanReturn

(* Goroutines run, and the calls return: the products' are bounded.        *)
FanFairness == (\A w \in Workers : WF_fanVars(FanStep(w))) /\ WF_fanVars(FanReturn)

FanSpec == FanInit /\ [][FanNext]_fanVars /\ FanFairness

----------------------------------------------------------------------------
(* Properties.                                                             *)

(* "FanOut bounds concurrency and returns sorted per-node result           *)
(* envelopes. Partial failure remains visible": at most limit calls run at *)
(* once; the report has every node as often as it was named, a failed call *)
(* is a failed result, and the report is partial if there is one.          *)
ReportComplete ==
  LET Called(n, r) == {w \in Workers : NodeIDs[w] = n /\ outcome[w] = r}
      Reported(n, ok) == {k \in DOMAIN report.results : report.results[k] = [node |-> n, ok |-> ok]}
  IN /\ Cardinality({w \in Workers : worker[w] = "calling"}) <= limit
     /\ report.returned =>
          /\ \A w \in Workers :
               /\ Cardinality(Reported(NodeIDs[w], TRUE)) = Cardinality(Called(NodeIDs[w], "ok"))
               /\ Cardinality(Reported(NodeIDs[w], FALSE)) = Cardinality(Called(NodeIDs[w], "failed"))
          /\ Len(report.results) = Len(NodeIDs)
          /\ report.partial <=> \E w \in Workers : outcome[w] = "failed"

(* FanOut returns, although more nodes than slots wait for one another.    *)
FanOutReturns == <>(report.returned)

============================================================================
