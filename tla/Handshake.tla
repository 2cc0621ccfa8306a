----------------------------- MODULE Handshake -----------------------------
(***************************************************************************)
(* The peer authenticator of replication/auth.go: Authenticate and         *)
(* VerifyPeer, run by several connections at once while memberships and    *)
(* secrets change, with handshakes that arrive late or more than once.     *)
(*                                                                         *)
(* A verification reads the membership under the mutex, then the clock     *)
(* without it, and consumes the nonce under the mutex again.  A handshake  *)
(* is its own nonce: no two have the same.  "consistent" says that its     *)
(* identities and its protocol are the ones the verification requires.     *)
(*                                                                         *)
(* admitted is not in the code: when a handshake was last accepted.        *)
(***************************************************************************)
EXTENDS Integers, FiniteSets

CONSTANTS Peers, Secrets,
          Connections,     \* verifications that run at the same time
          SkewWindow,      \* handshakeSkewWindow
          Skew,            \* how far a sender's clock may be off
          MaxClock,        \* bound on the clock
          MaxHandshakes    \* bound on the handshakes signed

ASSUME HandshakeAssumption ==
  /\ SkewWindow \in Nat \ {0} /\ Skew \in Nat
  /\ MaxClock \in Nat /\ MaxHandshakes \in Nat

MembershipState == {"active", "disabled", "revoked"}

VARIABLES clock,
          member,      \* what is known of a peer: state, enabled, secret
          handshakes,  \* the handshakes signed so far
          seen,        \* seen[p]: the nonces of p consumed, with their expiry
          check,       \* check[c]: a verification under way
          admitted

handshakeVars == <<clock, member, handshakes, seen, check, admitted>>

AuthRequest == [nonce : 1 .. MaxHandshakes, node : Peers, consistent : BOOLEAN,
                at : Int, secret : Secrets]
Unknown == [state |-> "unknown", enabled |-> FALSE, secret |-> "none"]
Never == -1
NoCheck == [pc |-> "idle", handshake |-> Never, secret |-> "none", now |-> 0]

HandshakeInit ==
  /\ clock = 0
  /\ member = [p \in Peers |-> Unknown]
  /\ handshakes = {} /\ seen = [p \in Peers |-> {}]
  /\ check = [c \in Connections |-> NoCheck]
  /\ admitted = [n \in 1 .. MaxHandshakes |-> Never]

(* The types of all variables.                                             *)
HandshakeTypeOK ==
  /\ clock \in 0 .. MaxClock
  /\ member \in [Peers -> [state : MembershipState \cup {"unknown"}, enabled : BOOLEAN,
                           secret : Secrets \cup {"none"}]]
  /\ handshakes \subseteq AuthRequest
  /\ \A p \in Peers : \A s \in seen[p] : s.nonce \in 1 .. MaxHandshakes /\ s.expires \in Nat
  /\ \A c \in Connections : /\ check[c].pc \in {"idle", "clock", "nonce"}
                            /\ check[c].pc # "idle" => check[c].handshake \in handshakes
  /\ admitted \in [1 .. MaxHandshakes -> 0 .. MaxClock \cup {Never}]

----------------------------------------------------------------------------
(* Peers, the operator and the clock.                                      *)

(* buildHandshake, by a peer whose clock is off by at most Skew.           *)
SignHandshake(p, secret) ==
  /\ Cardinality(handshakes) < MaxHandshakes
  /\ \E at \in clock - Skew .. clock + Skew, consistent \in BOOLEAN :
       handshakes' = handshakes \cup
         {[nonce |-> Cardinality(handshakes) + 1, node |-> p, consistent |-> consistent,
           at |-> at, secret |-> secret]}
  /\ UNCHANGED <<clock, member, seen, check, admitted>>

SetSecret(p, secret) ==
  /\ member' = [member EXCEPT ![p].secret = secret]
  /\ UNCHANGED <<clock, handshakes, seen, check, admitted>>

SetMembership(p, state) ==
  /\ member' = [member EXCEPT ![p].state = state]
  /\ UNCHANGED <<clock, handshakes, seen, check, admitted>>

SetReplicationEnabled(p, enabled) ==
  /\ member' = [member EXCEPT ![p].enabled = enabled]
  /\ UNCHANGED <<clock, handshakes, seen, check, admitted>>

ClockTick ==
  /\ clock < MaxClock /\ clock' = clock + 1
  /\ UNCHANGED <<member, handshakes, seen, check, admitted>>

----------------------------------------------------------------------------
(* verifyHandshakeCommon, for Authenticate and VerifyPeer.                 *)

(* The checks up to the membership; h arrives, perhaps not for the first   *)
(* time.                                                                   *)
CheckMember(c, h) ==
  /\ check[c].pc = "idle" /\ h.consistent
  /\ member[h.node].state = "active" /\ member[h.node].enabled
  /\ member[h.node].secret # "none"
  /\ check' = [check EXCEPT ![c] = [pc |-> "clock", handshake |-> h, now |-> 0,
                                    secret |-> member[h.node].secret]]
  /\ UNCHANGED <<clock, member, handshakes, seen, admitted>>

Fresh(h, now) == now - SkewWindow <= h.at /\ h.at <= now + SkewWindow

(* The clock, the freshness and the signature.                             *)
CheckFreshness(c) ==
  LET h == check[c].handshake
  IN /\ check[c].pc = "clock"
     /\ check' = [check EXCEPT ![c] =
          IF Fresh(h, clock) /\ h.secret = check[c].secret
          THEN [@ EXCEPT !.pc = "nonce", !.now = clock] ELSE NoCheck]
     /\ UNCHANGED <<clock, member, handshakes, seen, admitted>>

(* Mutated form of Pruned: an entry goes in the instant it expires.        *)
PrunedEarly(entries, now) == {s \in entries : s.expires > now}

Pruned(entries, now) == {s \in entries : s.expires >= now}

Accepts(c) ==
  /\ check[c].pc = "nonce"
  /\ \A s \in Pruned(seen[check[c].handshake.node], check[c].now) :
       s.nonce # check[c].handshake.nonce

consumeNonce(c) ==
  LET h == check[c].handshake
      now == check[c].now
      kept == Pruned(seen[h.node], now)
  IN /\ check[c].pc = "nonce"
     /\ check' = [check EXCEPT ![c] = NoCheck]
     /\ IF Accepts(c)
        THEN /\ seen' = [seen EXCEPT ![h.node] =
                  kept \cup {[nonce |-> h.nonce, expires |-> now + SkewWindow]}]
             /\ admitted' = [admitted EXCEPT ![h.nonce] = now]
        ELSE seen' = [seen EXCEPT ![h.node] = kept] /\ UNCHANGED admitted
     /\ UNCHANGED <<clock, member, handshakes>>

HandshakeNext ==
  \/ \E p \in Peers, s \in Secrets : SignHandshake(p, s) \/ SetSecret(p, s)
  \/ \E p \in Peers, st \in MembershipState : SetMembership(p, st)
  \/ \E p \in Peers, b \in BOOLEAN : SetReplicationEnabled(p, b)
  \/ ClockTick
  \/ \E c \in Connections :
       (\E h \in handshakes : CheckMember(c, h)) \/ CheckFreshness(c) \/ consumeNonce(c)

HandshakeSpec == HandshakeInit /\ [][HandshakeNext]_handshakeVars

----------------------------------------------------------------------------
(* Properties.                                                             *)

(* What consumeNonce keeps of the replay contract: a handshake is accepted *)
(* again only when the window since its last acceptance has passed; and    *)
(* then only if its sender's clock was ahead of that acceptance, so that   *)
(* it is fresh for longer than its nonce is remembered, or the             *)
(* verification had read the clock before.                                 *)
AcceptedAgainLate ==
  \A c \in Connections :
    LET h == check[c].handshake
    IN Accepts(c) /\ check'[c].pc = "idle" /\ admitted[h.nonce] # Never =>
         /\ clock > admitted[h.nonce] + SkewWindow
         /\ h.at > admitted[h.nonce] \/ clock > check[c].now
ConsumedOnce == [][AcceptedAgainLate]_handshakeVars

(* Without the two exceptions: "so a captured valid handshake cannot be    *)
(* replayed".                                                              *)
AcceptedFirst ==
  \A c \in Connections :
    Accepts(c) /\ check'[c].pc = "idle" => admitted[check[c].handshake.nonce] = Never
NeverReplayed == [][AcceptedFirst]_handshakeVars

============================================================================
