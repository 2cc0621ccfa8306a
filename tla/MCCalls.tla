------------------------------- MODULE MCCalls -------------------------------
(* Client, FanOut and RunState for TLC.  They share nothing: a behaviour is  *)
(* one of one of them, and the variables of the others keep a value of       *)
(* their initial states.                                                     *)
EXTENDS Client, FanOut, RunState

VARIABLE part

OneContract == CHOOSE c \in Contract : TRUE
FourNodes == <<2, 1, 1, 3>>

MCInit ==
  /\ part \in {"client", "fan", "run"}
  /\ Init /\ (part # "client" => contract = OneContract)
  /\ FanInit /\ RunInit

MCNext ==
  \/ part = "client" /\ Next /\ UNCHANGED <<part, fanVars, runVars>>
  \/ part = "fan" /\ FanNext /\ UNCHANGED <<part, vars, runVars>>
  \/ part = "run" /\ RunNext /\ UNCHANGED <<part, vars, fanVars>>

MCSpec ==
  /\ MCInit /\ [][MCNext]_<<part, vars, fanVars, runVars>>
  /\ part = "client" => Fairness
  /\ part = "fan" => FanFairness

(* Calls end: "remote calls are bounded", a call of the client returns     *)
(* within its attempts; and a fan-out returns, although more nodes than    *)
(* slots wait for one another.                                             *)
CallsEnd ==
  /\ part = "client" => CallEnds
  /\ part = "fan" => FanOutReturns

=============================================================================
