------------------------------- MODULE MCNode -------------------------------
(* What one node keeps for itself, for TLC: accounts, the nonces of its      *)
(* peers, a session file and edited files.  The modules share nothing: a     *)
(* behaviour is one of one of them, and the variables of the others keep a   *)
(* value of their initial states.                                            *)
EXTENDS Accounts, Handshake, Automation, Editor, TLC

CONSTANTS a1, i1, k1, r1

(* A new installation, and one with an administrator who has a recovery    *)
(* code.                                                                   *)
OneAdministrator ==
  a1 :> [enabled |-> TRUE, roles |-> {"administrator"},
         identities |-> i1 :> [type |-> "password", name |-> k1, mail |-> {}, hash |-> 0,
                               codes |-> {r1}, enabled |-> TRUE]]
NewAndOld == {<< >>, OneAdministrator}

VARIABLE part

MCInit ==
  /\ part \in {"accounts", "handshake", "commands", "editor"}
  /\ Init /\ (part # "accounts" => users = << >>)
  /\ EditorInit /\ (part # "editor" => file = None)
  /\ CommandInit /\ (part # "commands" => jar = Absent)
  /\ HandshakeInit

MCNext ==
  \/ part = "accounts" /\ Next /\ UNCHANGED <<part, handshakeVars, commandVars, editorVars>>
  \/ part = "handshake" /\ HandshakeNext /\ UNCHANGED <<part, vars, commandVars, editorVars>>
  \/ part = "commands" /\ CommandNext /\ UNCHANGED <<part, vars, handshakeVars, editorVars>>
  \/ part = "editor" /\ EditorNext /\ UNCHANGED <<part, vars, handshakeVars, commandVars>>

MCSpec == MCInit /\ [][MCNext]_<<part, vars, handshakeVars, commandVars, editorVars>>

=============================================================================
