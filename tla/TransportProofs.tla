-------------------------- MODULE TransportProofs --------------------------
(***************************************************************************)
(* Proofs about the transport of replication/nettransport.go, for any      *)
(* number of peers, callers and connections.  The inductive invariant says *)
(* what the mutex of a connection protects: its holder is the caller that  *)
(* reads from it, and the one frame under way on an open connection is the *)
(* holder's.  The last section is about the readiness driver (Authority).  *)
(***************************************************************************)
EXTENDS NetTransport, Authority, SequenceTheorems, TLAPS

LinkState == [peer : Peers \cup {None}, st : {"unused", "open", "broken", "closed"},
              wire : Seq(Callers), replies : Seq(Callers)]
CallState == [pc : {"idle", "dial", "handshake", "register", "lock", "reading"},
              peer : Peers \cup {None}, link : Links \cup {None}, got : Callers \cup {None}]

(* The types of what the callers, revalidateLoop and Close share.          *)
Types ==
  /\ conns \in [Peers -> Links \cup {None}]
  /\ link \in [Links -> LinkState]
  /\ mu \in [Links -> Callers \cup {None}]
  /\ call \in [Callers -> CallState]
  /\ reval \subseteq Peers \X Links
  /\ closer \in {"open", "marked", "shutdown", "unlistened", "waiting", "returned"}
  /\ copied.conns \subseteq Links

(* A call works on a connection to its peer that was dialed.               *)
Dialed(l) == l \in Links /\ link[l].st # "unused"
Live(l) == link[l].st \in {"open", "broken"}
Dialing(c, l) == call[c].pc \in {"handshake", "register"} /\ call[c].link = l

CallsPlaced ==
  /\ \A c \in Callers : call[c].pc # "idle" => call[c].peer \in Peers
  /\ \A c \in Callers :
       call[c].pc \in {"handshake", "register", "lock", "reading"} => Dialed(call[c].link)
  /\ \A p \in Peers : conns[p] # None => Dialed(conns[p])
  /\ \A l \in Links : Live(l) => link[l].peer \in Peers
  /\ \A c \in Callers, l \in Links : Dialing(c, l) /\ Live(l) => link[l].peer = call[c].peer

(* peerConn.mu is held by the caller that reads a response.                *)
Locked ==
  /\ \A c \in Callers : call[c].pc = "reading" => mu[call[c].link] = c
  /\ \A c \in Callers, l \in Links : mu[l] = c => call[c].pc = "reading" /\ call[c].link = l

(* What is under way on an open connection is the frame of the holder.     *)
Under(w, r, holder) ==
  \/ holder = None /\ w = << >> /\ r = << >>
  \/ holder # None /\ w = <<holder>> /\ r = << >>
  \/ holder # None /\ w = << >> /\ r = <<holder>>
OneFrame ==
  \A l \in Links : link[l].st \in {"unused", "open"} =>
    Under(link[l].wire, link[l].replies, mu[l])

Inv == Types /\ CallsPlaced /\ Locked /\ OneFrame /\ OwnResponse /\ NoLinkLeaks

(* What NoLinkLeaks says of one connection.                                *)
Kept(l) ==
  \/ closer = "open" /\ conns[link[l].peer] = l
  \/ \E c \in Callers : Dialing(c, l)
  \/ closer \in {"marked", "shutdown", "unlistened"} /\ l \in copied.conns

LEMMA LeaksFacts == NoLinkLeaks <=> \A l \in Links : Live(l) => Kept(l)
BY DEF NoLinkLeaks, Live, Kept, Dialing, closed

LEMMA SequenceFacts ==
  ASSUME NEW c
  PROVE  /\ Append(<< >>, c) = <<c>> /\ Tail(<<c>>) = << >> /\ Head(<<c>>) = c
         /\ <<c>> # << >>
<1>1. Append(<< >>, c) = <<c>> /\ Head(<<c>>) = c /\ <<c>> # << >>
  OBVIOUS
<1>2. Tail(<<c>>) = << >>
  OBVIOUS
<1>3. QED
  BY <1>1, <1>2

LEMMA RecordFacts ==
  /\ Down \in LinkState /\ Down.st = "closed" /\ Unused \in LinkState
  /\ Unused.st = "unused" /\ Unused.wire = << >> /\ Unused.replies = << >>
  /\ Idle \in CallState /\ Idle.pc = "idle" /\ Idle.got = None
  /\ \A x \in Callers \cup {None} :
       /\ [Idle EXCEPT !.got = x] \in CallState /\ [Idle EXCEPT !.got = x].pc = "idle"
       /\ [Idle EXCEPT !.got = x].got = x
<1>1. << >> \in Seq(Callers)
  OBVIOUS
<1>2. Unused \in LinkState /\ Unused.st = "unused" /\ Unused.wire = << >> /\ Unused.replies = << >>
  BY <1>1 DEF Unused, LinkState
<1>3. Down \in LinkState /\ Down.st = "closed"
  BY <1>2 DEF Down, LinkState
<1>4. Idle \in CallState /\ Idle.pc = "idle" /\ Idle.got = None
  BY DEF Idle, CallState
<1>5. QED
  BY <1>2, <1>3, <1>4 DEF CallState

LEMMA InitInv == Init => Inv
<1> SUFFICES ASSUME Init PROVE Inv
  OBVIOUS
<1>1. /\ conns = [p \in Peers |-> None] /\ link = [l \in Links |-> Unused]
      /\ mu = [l \in Links |-> None] /\ call = [c \in Callers |-> Idle]
      /\ reval = {} /\ closer = "open" /\ copied.conns = {}
  BY DEF Init
<1>2. Types
  BY <1>1, RecordFacts DEF Types
<1>3. CallsPlaced
  BY <1>1, RecordFacts DEF CallsPlaced, Live, Dialing
<1>4. Locked
  BY <1>1, RecordFacts, NoneAssumption DEF Locked
<1>5. OneFrame
  BY <1>1, RecordFacts DEF OneFrame, Under
<1>6. OwnResponse
  BY <1>1, RecordFacts DEF OwnResponse
<1>7. NoLinkLeaks
  BY <1>1, RecordFacts, LeaksFacts DEF Live
<1>8. QED
  BY <1>2, <1>3, <1>4, <1>5, <1>6, <1>7 DEF Inv

----------------------------------------------------------------------------
(* Steps that drop a connection: the caller that does so, if it is one,    *)
(* returns and releases the mutex it holds, or goes on with another one.   *)

Settled(c, new) ==
  /\ new \in CallState /\ new.pc \in {"idle", "lock"} /\ new.got \in {None, c}
  /\ new.pc = "lock" => new.peer \in Peers /\ Dialed(new.link)

Returns(c, l) ==
  /\ \E new : Settled(c, new) /\ call' = [call EXCEPT ![c] = new]
  /\ call[c].pc = "reading" => call[c].link = l /\ mu' = [mu EXCEPT ![l] = None]
  /\ call[c].pc # "reading" => mu' = mu
  /\ \A m \in Links : Dialing(c, m) => m = l

Drops(l) ==
  /\ l \in Links /\ link' = [link EXCEPT ![l] = Down]
  /\ conns' \in [Peers -> Links \cup {None}]
  /\ \A p \in Peers : conns'[p] = conns[p] \/ (conns[p] = l /\ conns'[p] = None)
  /\ \/ call' = call /\ mu' = mu
     \/ \E c \in Callers : Returns(c, l)
  /\ reval' \subseteq reval /\ UNCHANGED closing

LEMMA DropsInv ==
  ASSUME Inv, NEW l, Drops(l)
  PROVE  Inv'
<1>0. /\ l \in Links /\ link' = [link EXCEPT ![l] = Down]
      /\ conns' \in [Peers -> Links \cup {None}]
      /\ \A p \in Peers : conns'[p] = conns[p] \/ (conns[p] = l /\ conns'[p] = None)
      /\ reval' \subseteq reval /\ closer' = closer /\ copied' = copied
  BY DEF Drops, closing
<1>1. /\ link' \in [Links -> LinkState] /\ link'[l].st = "closed"
      /\ \A m \in Links \ {l} : link'[m] = link[m]
  BY <1>0, RecordFacts DEF Inv, Types
<1>2. /\ call' \in [Callers -> CallState] /\ mu' \in [Links -> Callers \cup {None}]
      /\ \A c \in Callers : call'[c] = call[c] \/ Settled(c, call'[c])
      /\ \A m \in Links : mu'[m] = mu[m] \/ (m = l /\ mu'[m] = None)
  <2>1. CASE call' = call /\ mu' = mu
    BY <2>1 DEF Inv, Types
  <2>2. ASSUME NEW c \in Callers, Returns(c, l)
        PROVE  /\ call' \in [Callers -> CallState] /\ mu' \in [Links -> Callers \cup {None}]
               /\ \A d \in Callers : call'[d] = call[d] \/ Settled(d, call'[d])
               /\ \A m \in Links : mu'[m] = mu[m] \/ (m = l /\ mu'[m] = None)
    <3>1. PICK new : Settled(c, new) /\ call' = [call EXCEPT ![c] = new]
      BY <2>2 DEF Returns
    <3>2. new \in CallState
      BY <3>1 DEF Settled
    <3>3. /\ call' \in [Callers -> CallState]
          /\ \A d \in Callers : call'[d] = call[d] \/ Settled(d, call'[d])
      BY <3>1, <3>2 DEF Inv, Types
    <3>4. mu' = mu \/ mu' = [mu EXCEPT ![l] = None]
      BY <2>2 DEF Returns
    <3>5. QED
      BY <1>0, <3>3, <3>4 DEF Inv, Types
  <2>3. QED
    BY <2>1, <2>2 DEF Drops
<1>3. \A c \in Callers, m \in Links : Dialing(c, m) /\ m # l => call'[c] = call[c]
  BY <1>0 DEF Drops, Returns, Inv, Types
<1>4. Types'
  BY <1>0, <1>1, <1>2 DEF Inv, Types
<1>5. CallsPlaced'
  <2>1. \A m \in Links : link'[m].st = "unused" => link[m].st = "unused"
    BY <1>1
  <2>2. \A m \in Links : Live(m)' => Live(m) /\ m # l /\ link'[m] = link[m]
    BY <1>1 DEF Live
  <2>3. \A c \in Callers :
          call'[c].pc \in {"handshake", "register", "lock", "reading"}
            => call'[c].link \in Links /\ link'[call'[c].link].st # "unused"
    BY <1>2, <2>1 DEF Inv, CallsPlaced, Dialed, Settled
  <2>4. \A p \in Peers : conns'[p] # None => conns'[p] \in Links /\ link'[conns'[p]].st # "unused"
    BY <1>0, <2>1 DEF Inv, CallsPlaced, Dialed
  <2>5. \A c \in Callers : call'[c].pc # "idle" => call'[c].peer \in Peers
    BY <1>2 DEF Inv, CallsPlaced, Settled
  <2>6. \A c \in Callers, m \in Links : Dialing(c, m)' => Dialing(c, m) /\ call'[c] = call[c]
    BY <1>2 DEF Dialing, Settled
  <2>7. QED
    BY <2>2, <2>3, <2>4, <2>5, <2>6 DEF Inv, CallsPlaced, Dialed
<1>6. Locked'
  <2>1. CASE call' = call /\ mu' = mu
    BY <2>1 DEF Inv, Locked
  <2>2. ASSUME NEW c \in Callers, Returns(c, l) PROVE Locked'
    <3>1. call'[c].pc # "reading" /\ \A d \in Callers \ {c} : call'[d] = call[d]
      BY <2>2 DEF Returns, Settled, Inv, Types
    <3>2. CASE call[c].pc = "reading"
      <4>1. call[c].link = l /\ mu' = [mu EXCEPT ![l] = None] /\ mu[l] = c
        BY <2>2, <3>2 DEF Returns, Inv, Locked
      <4>2. QED
        BY <1>0, <3>1, <4>1, NoneAssumption DEF Inv, Locked, Types
    <3>3. CASE call[c].pc # "reading"
      <4>1. mu' = mu
        BY <2>2, <3>3 DEF Returns
      <4>2. QED
        BY <3>1, <3>3, <4>1 DEF Inv, Locked
    <3>4. QED
      BY <3>2, <3>3
  <2>3. QED
    BY <2>1, <2>2 DEF Drops
<1>7. OneFrame'
  BY <1>1, <1>2 DEF Inv, OneFrame
<1>8. OwnResponse'
  BY <1>2 DEF Inv, OwnResponse, Settled
<1>9. NoLinkLeaks'
  <2>1. ASSUME NEW m \in Links, Live(m)' PROVE Kept(m)'
    <3>1. Live(m) /\ m # l /\ link'[m] = link[m] /\ link[m].peer \in Peers
      BY <1>1, <2>1 DEF Live, Inv, CallsPlaced
    <3>2. Kept(m)
      BY <3>1, LeaksFacts DEF Inv
    <3>3. \A c \in Callers : Dialing(c, m) => Dialing(c, m)'
      BY <1>3, <3>1 DEF Dialing
    <3>4. conns[link[m].peer] = m => conns'[link'[m].peer] = m
      BY <1>0, <3>1
    <3>5. QED
      BY <1>0, <3>2, <3>3, <3>4 DEF Kept
  <2>2. (\A m \in Links : Live(m) => Kept(m))'
    BY <2>1
  <2>3. QED
    BY <2>2, LeaksFacts DEF NoLinkLeaks, Live, Kept, Dialing, closed
<1>10. QED
  BY <1>4, <1>5, <1>6, <1>7, <1>8, <1>9 DEF Inv

LEMMA CallFacts ==
  ASSUME Inv, NEW c \in Callers
  PROVE  /\ call[c] \in CallState /\ (call[c].pc # "idle" => call[c].peer \in Peers)
         /\ (call[c].pc \in {"handshake", "register", "lock", "reading"} => call[c].link \in Links)
BY DEF Inv, Types, CallsPlaced, Dialed

LEMMA IdleSettled == \A c \in Callers : Settled(c, [Idle EXCEPT !.got = None])
BY RecordFacts DEF Settled

LEMMA HandshakeFailsInv == ASSUME Inv, NEW c \in Callers, HandshakeFails(c) PROVE Inv'
<1>1. Drops(call[c].link)
  BY CallFacts, IdleSettled DEF HandshakeFails, Return, Drops, Returns, Dialing, closing, Inv, Types
<1>2. QED
  BY <1>1, DropsInv

LEMMA RevalidateOneInv == ASSUME Inv, RevalidateOne PROVE Inv'
<1>1. PICK e \in reval :
        /\ reval' = reval \ {e}
        /\ IF active[e[1]] THEN UNCHANGED <<conns, link>> ELSE dropConn(e[1], e[2])
        /\ UNCHANGED <<active, mu, call, serving, closing, changes>>
  BY DEF RevalidateOne
<1>2. e[1] \in Peers /\ e[2] \in Links
  BY DEF Inv, Types
<1>3. CASE active[e[1]]
  <2>1. UNCHANGED <<conns, link, mu, call, closer, copied>> /\ reval' \subseteq reval
    BY <1>1, <1>3 DEF closing
  <2>2. (Types /\ CallsPlaced /\ Locked /\ OneFrame)'
    BY <2>1 DEF Inv, Types, CallsPlaced, Locked, OneFrame, Dialed, Live, Dialing
  <2>3. (OwnResponse /\ NoLinkLeaks)'
    BY <2>1 DEF Inv, OwnResponse, NoLinkLeaks, closed
  <2>4. QED
    BY <2>2, <2>3 DEF Inv
<1>4. CASE ~active[e[1]]
  <2>1. dropConn(e[1], e[2])
    BY <1>1, <1>4
  <2>2. Drops(e[2])
    BY <1>1, <1>2, <2>1 DEF dropConn, Drops, Inv, Types
  <2>3. QED
    BY <2>2, DropsInv
<1>5. QED
  BY <1>3, <1>4

(* A caller takes a step on its own: no connection, no mutex.              *)
Moves(c, new) ==
  /\ call' = [call EXCEPT ![c] = new] /\ UNCHANGED <<conns, link, mu, reval, closer, copied>>
  /\ new \in CallState /\ new.got \in {None, c}
  /\ call[c].pc # "reading" /\ new.pc # "reading"
  /\ new.pc # "idle" => new.peer \in Peers
  /\ new.pc \in {"handshake", "register", "lock"} => Dialed(new.link)
  /\ \A m \in Links :
       /\ Dialing(c, m) => new.pc \in {"handshake", "register"} /\ new.link = m
       /\ new.pc \in {"handshake", "register"} /\ new.link = m =>
            Dialing(c, m) /\ new.peer = call[c].peer

LEMMA MovesInv == ASSUME Inv, NEW c \in Callers, NEW new, Moves(c, new) PROVE Inv'
<1>0. /\ UNCHANGED <<conns, link, mu, reval, closer, copied>>
      /\ call' \in [Callers -> CallState] /\ call'[c] = new
      /\ \A d \in Callers \ {c} : call'[d] = call[d]
  BY DEF Moves, Inv, Types
<1>1. \A m \in Links : (Live(m) <=> Live(m)') /\ (Dialed(m) <=> Dialed(m)')
  BY <1>0 DEF Live, Dialed
<1>2. \A d \in Callers, m \in Links :
        /\ Dialing(d, m) <=> Dialing(d, m)'
        /\ Dialing(d, m) => call'[d].peer = call[d].peer
  BY <1>0 DEF Dialing, Moves
<1>3. Types'
  BY <1>0 DEF Inv, Types
<1>4. CallsPlaced'
  BY <1>0, <1>1, <1>2 DEF Inv, CallsPlaced, Moves, Dialed
<1>5. Locked'
  BY <1>0 DEF Inv, Locked, Moves
<1>6. OneFrame'
  BY <1>0 DEF Inv, OneFrame
<1>7. OwnResponse'
  BY <1>0 DEF Inv, OwnResponse, Moves
<1>8. NoLinkLeaks'
  <2>1. \A m \in Links : Live(m)' => Kept(m)'
    BY <1>0, <1>1, <1>2, LeaksFacts DEF Inv, Kept
  <2>2. QED
    BY <2>1 DEF NoLinkLeaks, Live, Kept, Dialing, closed
<1>9. QED
  BY <1>3, <1>4, <1>5, <1>6, <1>7, <1>8 DEF Inv

LEMMA LookupInv == ASSUME Inv, NEW c \in Callers, NEW p \in Peers, Lookup(c, p) PROVE Inv'
<1> DEFINE new == [pc |-> IF conns[p] # None THEN "lock" ELSE "dial",
                   peer |-> p, link |-> conns[p], got |-> None]
<1>1. /\ call[c].pc = "idle" /\ call' = [call EXCEPT ![c] = new]
      /\ UNCHANGED <<conns, link, mu, reval, closer, copied>>
  BY DEF Lookup, closing
<1>2. new \in CallState
  BY DEF CallState, Inv, Types
<1>3. new.pc = "lock" => Dialed(new.link)
  BY DEF Inv, CallsPlaced
<1>4. Moves(c, new)
  BY <1>1, <1>2, <1>3 DEF Moves, Dialing
<1>5. QED
  BY <1>4, MovesInv

LEMMA HandshakeOkInv == ASSUME Inv, NEW c \in Callers, HandshakeOk(c) PROVE Inv'
<1> DEFINE new == [call[c] EXCEPT !.pc = "register"]
<1>1. /\ call[c].pc = "handshake" /\ call' = [call EXCEPT ![c] = new]
      /\ UNCHANGED <<conns, link, mu, reval, closer, copied>>
  BY DEF HandshakeOk, closing
<1>2. /\ new \in CallState /\ new.pc = "register" /\ new.peer = call[c].peer
      /\ new.link = call[c].link /\ new.got = call[c].got
  BY CallFacts DEF CallState
<1> HIDE DEF new
<1>3. call[c].peer \in Peers /\ Dialed(call[c].link) /\ call[c].got \in {None, c}
  BY <1>1 DEF Inv, CallsPlaced, OwnResponse
<1>4. Moves(c, new)
  BY <1>1, <1>2, <1>3 DEF Moves, Dialing
<1>5. QED
  BY <1>4, MovesInv

LEMMA DialInv == ASSUME Inv, NEW c \in Callers, Dial(c) PROVE Inv'
<1>0. call[c].pc = "dial" /\ UNCHANGED <<conns, mu, reval, closer, copied>>
  BY DEF Dial, closing
<1>1. CASE Return(c, None) /\ UNCHANGED link
  <2> DEFINE new == [Idle EXCEPT !.got = None]
  <2>1. call' = [call EXCEPT ![c] = new]
    BY <1>1 DEF Return
  <2>2. new \in CallState /\ new.pc = "idle" /\ new.got = None
    BY RecordFacts
  <2> HIDE DEF new
  <2>3. Moves(c, new)
    BY <1>0, <1>1, <2>1, <2>2 DEF Moves, Dialing
  <2>4. QED
    BY <2>3, MovesInv
<1>2. ASSUME NEW l \in Links, link[l].st = "unused",
             link' = [link EXCEPT ![l].st = "open", ![l].peer = call[c].peer],
             call' = [call EXCEPT ![c].pc = "handshake", ![c].link = l]
      PROVE  Inv'
  <2>1. call[c] \in CallState /\ call[c].peer \in Peers /\ link[l] \in LinkState
    BY <1>0, CallFacts DEF Inv, Types
  <2>2. /\ link' \in [Links -> LinkState] /\ link'[l].st = "open" /\ link'[l].peer = call[c].peer
        /\ link'[l].wire = link[l].wire /\ link'[l].replies = link[l].replies
        /\ \A m \in Links \ {l} : link'[m] = link[m]
    <3> DEFINE open == [link[l] EXCEPT !.st = "open", !.peer = call[c].peer]
    <3>1. /\ open \in LinkState /\ open.st = "open" /\ open.peer = call[c].peer
          /\ open.wire = link[l].wire /\ open.replies = link[l].replies
      BY <2>1 DEF LinkState
    <3>2. link' = [link EXCEPT ![l] = open]
      BY <1>2
    <3> HIDE DEF open
    <3>3. QED
      BY <3>1, <3>2 DEF Inv, Types
  <2>3. /\ call' \in [Callers -> CallState] /\ call'[c].pc = "handshake" /\ call'[c].link = l
        /\ call'[c].peer = call[c].peer /\ call'[c].got = call[c].got
        /\ \A d \in Callers \ {c} : call'[d] = call[d]
    <3> DEFINE new == [call[c] EXCEPT !.pc = "handshake", !.link = l]
    <3>1. /\ new \in CallState /\ new.pc = "handshake" /\ new.link = l
          /\ new.peer = call[c].peer /\ new.got = call[c].got
      BY <2>1 DEF CallState
    <3>2. call' = [call EXCEPT ![c] = new]
      BY <1>2
    <3> HIDE DEF new
    <3>3. QED
      BY <3>1, <3>2 DEF Inv, Types
  <2>4. \A d \in Callers \ {c}, m \in Links : Dialing(d, m) <=> Dialing(d, m)'
    BY <2>3 DEF Dialing
  <2>5. \A d \in Callers : ~Dialing(d, l)
    BY <1>2 DEF Dialing, Inv, CallsPlaced, Dialed
  <2>6. \A m \in Links : Dialing(c, m)' <=> m = l
    BY <2>3 DEF Dialing
  <2>7. ~Live(l) /\ \A m \in Links \ {l} : Live(m) <=> Live(m)'
    BY <1>2, <2>2 DEF Live
  <2>8. \A m \in Links : Dialed(m) => Dialed(m)'
    BY <2>2 DEF Dialed
  <2>9. Types'
    BY <1>0, <2>2, <2>3 DEF Inv, Types
  <2>10. CallsPlaced'
    <3>1. \A d \in Callers : call'[d].pc # "idle" => call'[d].peer \in Peers
      BY <2>1, <2>3 DEF Inv, CallsPlaced
    <3>2. \A d \in Callers :
            call'[d].pc \in {"handshake", "register", "lock", "reading"} =>
              call'[d].link \in Links /\ link'[call'[d].link].st # "unused"
      BY <2>2, <2>3, <2>8 DEF Inv, CallsPlaced, Dialed
    <3>3. \A p \in Peers : conns'[p] # None => conns'[p] \in Links /\ link'[conns'[p]].st # "unused"
      BY <1>0, <2>2, <2>8 DEF Inv, CallsPlaced, Dialed
    <3>4. \A m \in Links : Live(m)' => link'[m].peer \in Peers
      BY <2>1, <2>2, <2>7 DEF Inv, CallsPlaced
    <3>5. ASSUME NEW d \in Callers, NEW m \in Links, Dialing(d, m)', Live(m)'
          PROVE  link'[m].peer = call'[d].peer
      BY <2>2, <2>3, <2>4, <2>5, <2>6, <2>7, <3>5 DEF Inv, CallsPlaced
    <3>6. QED
      BY <3>1, <3>2, <3>3, <3>4, <3>5 DEF CallsPlaced, Dialed
  <2>11. Locked'
    BY <1>0, <2>3 DEF Inv, Locked
  <2>12. OneFrame'
    BY <1>0, <1>2, <2>2 DEF Inv, OneFrame
  <2>13. OwnResponse'
    BY <2>3 DEF Inv, OwnResponse
  <2>14. NoLinkLeaks'
    <3>1. ASSUME NEW m \in Links, Live(m)' PROVE Kept(m)'
      <4>1. CASE m = l
        BY <2>6, <4>1 DEF Kept
      <4>2. CASE m # l
        <5>1. Kept(m) /\ link'[m] = link[m]
          BY <2>2, <2>7, <3>1, <4>2, LeaksFacts DEF Inv
        <5>2. \A d \in Callers : Dialing(d, m) => Dialing(d, m)'
          BY <1>0, <2>4, <4>2 DEF Dialing
        <5>3. QED
          BY <1>0, <5>1, <5>2 DEF Kept
      <4>3. QED
        BY <4>1, <4>2
    <3>2. QED
      BY <3>1 DEF NoLinkLeaks, Live, Kept, Dialing, closed
  <2>15. QED
    BY <2>9, <2>10, <2>11, <2>12, <2>13, <2>14 DEF Inv
<1>3. QED
  BY <1>1, <1>2 DEF Dial

LEMMA RegisterInv == ASSUME Inv, NEW c \in Callers, Register(c) PROVE Inv'
<1> DEFINE p == call[c].peer
           l == call[c].link
<1>0. /\ call[c].pc = "register" /\ UNCHANGED <<mu, reval, closer, copied>>
      /\ p \in Peers /\ l \in Links /\ call[c] \in CallState /\ Dialing(c, l)
      /\ call[c].got \in {None, c} /\ Dialed(l)
  BY CallFacts DEF Register, closing, Dialing, Inv, OwnResponse, CallsPlaced
<1>1. CASE closed
  <2>1. link' = [link EXCEPT ![l] = Down] /\ Return(c, None) /\ UNCHANGED conns
    BY <1>1 DEF Register
  <2>2. Drops(l)
    BY <1>0, <2>1, IdleSettled DEF Return, Drops, Returns, Dialing, closing, Inv, Types
  <2>3. QED
    BY <2>2, DropsInv
<1>2. CASE ~closed /\ conns[p] # None
  <2> DEFINE new == [call[c] EXCEPT !.pc = "lock", !.link = conns[p]]
  <2>1. link' = [link EXCEPT ![l] = Down] /\ call' = [call EXCEPT ![c] = new] /\ UNCHANGED conns
    BY <1>2 DEF Register
  <2>2. conns[p] \in Links /\ Dialed(conns[p])
    BY <1>0, <1>2 DEF Inv, Types, CallsPlaced
  <2>3. Settled(c, new)
    BY <1>0, <2>2 DEF Settled, CallState
  <2> HIDE DEF new
  <2>4. Drops(l)
    BY <1>0, <2>1, <2>3 DEF Drops, Returns, Dialing, closing, Inv, Types
  <2>5. QED
    BY <2>4, DropsInv
<1>3. CASE ~closed /\ conns[p] = None
  <2> DEFINE new == [call[c] EXCEPT !.pc = "lock"]
  <2>1. /\ conns' = [conns EXCEPT ![p] = l] /\ call' = [call EXCEPT ![c] = new] /\ link' = link
        /\ closer = "open"
    BY <1>3 DEF Register, closed
  <2>2. /\ new \in CallState /\ new.pc = "lock" /\ new.link = l /\ new.peer = p
        /\ new.got = call[c].got
    BY <1>0 DEF CallState
  <2> HIDE DEF new
  <2>3. /\ call' \in [Callers -> CallState] /\ call'[c] = new
        /\ \A d \in Callers \ {c} : call'[d] = call[d]
    BY <2>1, <2>2 DEF Inv, Types
  <2>4. /\ conns' \in [Peers -> Links \cup {None}] /\ conns'[p] = l
        /\ \A q \in Peers \ {p} : conns'[q] = conns[q]
    BY <1>0, <2>1 DEF Inv, Types
  <2>5. /\ \A d \in Callers, m \in Links : Dialing(d, m)' => Dialing(d, m) /\ d # c
        /\ \A d \in Callers \ {c}, m \in Links : Dialing(d, m) => Dialing(d, m)'
        /\ \A m \in Links : Dialing(c, m) => m = l
    BY <1>0, <2>2, <2>3 DEF Dialing
  <2>6. Types'
    BY <1>0, <2>1, <2>3, <2>4 DEF Inv, Types
  <2>7. CallsPlaced'
    <3>1. \A d \in Callers : call'[d].pc # "idle" => call'[d].peer \in Peers
      BY <1>0, <2>2, <2>3 DEF Inv, CallsPlaced
    <3>2. \A d \in Callers :
            call'[d].pc \in {"handshake", "register", "lock", "reading"} => Dialed(call'[d].link)
      BY <1>0, <2>2, <2>3 DEF Inv, CallsPlaced
    <3>3. \A q \in Peers : conns'[q] # None => Dialed(conns'[q])
      BY <1>0, <2>4 DEF Inv, CallsPlaced
    <3>4. \A m \in Links : (Live(m) <=> Live(m)') /\ link'[m] = link[m]
      BY <2>1 DEF Live
    <3>5. QED
      BY <2>1, <2>3, <2>5, <3>1, <3>2, <3>3, <3>4 DEF Inv, CallsPlaced, Dialed
  <2>8. Locked'
    BY <1>0, <2>2, <2>3 DEF Inv, Locked
  <2>9. OneFrame'
    BY <1>0, <2>1 DEF Inv, OneFrame
  <2>10. OwnResponse'
    BY <1>0, <2>2, <2>3 DEF Inv, OwnResponse
  <2>11. NoLinkLeaks'
    <3>1. ASSUME NEW m \in Links, Live(m)' PROVE Kept(m)'
      <4>1. Live(m) /\ link'[m] = link[m] /\ link[m].peer \in Peers /\ Kept(m)
        BY <2>1, <3>1, LeaksFacts DEF Live, Inv, CallsPlaced
      <4>2. CASE m = l
        <5>1. link[m].peer = p
          BY <1>0, <4>1, <4>2 DEF Inv, CallsPlaced
        <5>2. QED
          BY <1>0, <2>1, <2>4, <4>1, <4>2, <5>1 DEF Kept
      <4>3. CASE m # l
        <5>1. \A d \in Callers : Dialing(d, m) => Dialing(d, m)'
          BY <2>5, <4>3
        <5>2. conns[link[m].peer] = m => conns'[link'[m].peer] = m
          BY <1>3, <2>4, <4>1, NoneAssumption
        <5>3. QED
          BY <1>0, <4>1, <5>1, <5>2 DEF Kept
      <4>4. QED
        BY <4>2, <4>3
    <3>2. QED
      BY <3>1 DEF NoLinkLeaks, Live, Kept, Dialing, closed
  <2>12. QED
    BY <2>6, <2>7, <2>8, <2>9, <2>10, <2>11 DEF Inv
<1>4. QED
  BY <1>1, <1>2, <1>3

(* A step that leaves all connections where they are, open or not.         *)
Steady ==
  /\ link' \in [Links -> LinkState] /\ call' \in [Callers -> CallState]
  /\ \A l \in Links : link'[l].peer = link[l].peer /\ (Live(l)' <=> Live(l)) /\ (Dialed(l)' <=> Dialed(l))
  /\ \A c \in Callers :
       \/ call'[c] = call[c]
       \/ call'[c].pc = "idle" /\ call[c].pc = "reading"
       \/ /\ call'[c].pc = "reading" /\ call[c].pc = "lock"
          /\ call'[c].link = call[c].link /\ call'[c].peer = call[c].peer
  /\ UNCHANGED <<conns, reval, closer, copied>>

LEMMA SteadyInv ==
  ASSUME Inv, Steady
  PROVE  /\ (mu' \in [Links -> Callers \cup {None}] => Types')
         /\ CallsPlaced' /\ NoLinkLeaks'
<1>1. mu' \in [Links -> Callers \cup {None}] => Types'
  BY DEF Steady, Inv, Types
<1>2. \A c \in Callers, l \in Links :
        (Dialing(c, l) <=> Dialing(c, l)') /\ (Dialing(c, l) => call'[c] = call[c])
  BY DEF Steady, Dialing
<1>3. CallsPlaced'
  <2>1. \A d \in Callers : call'[d].pc # "idle" => call'[d].peer \in Peers
    BY DEF Inv, CallsPlaced, Steady
  <2>2. \A d \in Callers :
          call'[d].pc \in {"handshake", "register", "lock", "reading"} => Dialed(call'[d].link)
    BY DEF Inv, CallsPlaced, Steady
  <2>3. \A m : Dialed(m) => Dialed(m)'
    BY DEF Steady, Dialed
  <2>4. \A d \in Callers :
          call'[d].pc \in {"handshake", "register", "lock", "reading"} =>
            call'[d].link \in Links /\ link'[call'[d].link].st # "unused"
    BY <2>2, <2>3 DEF Dialed
  <2>5. \A q \in Peers : conns'[q] # None => conns'[q] \in Links /\ link'[conns'[q]].st # "unused"
    BY <2>3 DEF Inv, CallsPlaced, Dialed, Steady
  <2>6. \A m \in Links : Live(m)' => link'[m].peer \in Peers
    BY DEF Inv, CallsPlaced, Steady
  <2>7. ASSUME NEW d \in Callers, NEW m \in Links, Dialing(d, m)', Live(m)'
        PROVE  link'[m].peer = call'[d].peer
    BY <1>2, <2>7 DEF Inv, CallsPlaced, Steady
  <2>8. QED
    BY <2>1, <2>4, <2>5, <2>6, <2>7 DEF CallsPlaced, Dialed
<1>4. NoLinkLeaks'
  <2>1. \A m \in Links : Live(m)' => Kept(m)'
    BY <1>2, LeaksFacts DEF Inv, Steady, Kept
  <2>2. QED
    BY <2>1 DEF NoLinkLeaks, Live, Kept, Dialing, closed
<1>5. QED
  BY <1>1, <1>3, <1>4

(* The state of a connection changes to new, open as before or broken.     *)
LEMMA LinkSteady ==
  ASSUME Inv, NEW l \in Links, NEW new \in LinkState, link' = [link EXCEPT ![l] = new],
         new.peer = link[l].peer, link[l].st = "open", new.st \in {"open", "broken"}
  PROVE  /\ link' \in [Links -> LinkState] /\ link'[l] = new
         /\ \A m \in Links \ {l} : link'[m] = link[m]
         /\ \A m \in Links : /\ link'[m].peer = link[m].peer
                             /\ (Live(m)' <=> Live(m)) /\ (Dialed(m)' <=> Dialed(m))
<1>1. /\ link' \in [Links -> LinkState] /\ link'[l] = new
      /\ \A m \in Links \ {l} : link'[m] = link[m]
  BY DEF Inv, Types
<1>2. QED
  BY <1>1 DEF Live, Dialed

LEMMA SendInv == ASSUME Inv, NEW c \in Callers, Send(c) PROVE Inv'
<1> DEFINE l == call[c].link
<1>0. /\ call[c].pc = "lock" /\ mu[l] = None /\ UNCHANGED <<reval, closer, copied>>
      /\ l \in Links /\ call[c].peer \in Peers /\ call[c] \in CallState /\ link[l] \in LinkState
      /\ call[c].got \in {None, c}
  BY CallFacts DEF Send, Free, closing, Inv, Types, OwnResponse
<1>1. CASE link[l].st # "open"
  <2>1. dropConn(call[c].peer, l) /\ Return(c, None) /\ UNCHANGED mu
    BY <1>1 DEF Send
  <2>2. Drops(l)
    BY <1>0, <2>1, IdleSettled DEF dropConn, Return, Drops, Returns, Dialing, closing, Inv, Types
  <2>3. QED
    BY <2>2, DropsInv
<1>2. CASE link[l].st = "open"
  <2> DEFINE sent == [link[l] EXCEPT !.wire = Append(@, c)]
             new == [call[c] EXCEPT !.pc = "reading"]
  <2>1. /\ mu' = [mu EXCEPT ![l] = c] /\ link' = [link EXCEPT ![l] = sent]
        /\ call' = [call EXCEPT ![c] = new] /\ UNCHANGED conns
    BY <1>2 DEF Send
  <2>2. link[l].wire = << >> /\ link[l].replies = << >>
    BY <1>0, <1>2 DEF Inv, OneFrame, Under
  <2>3. /\ sent \in LinkState /\ sent.peer = link[l].peer /\ sent.st = "open"
        /\ sent.wire = <<c>> /\ sent.replies = << >>
    <3>1. Append(link[l].wire, c) = <<c>> /\ <<c>> \in Seq(Callers)
      BY <2>2, SequenceFacts
    <3>2. QED
      BY <1>0, <1>2, <2>2, <3>1 DEF LinkState
  <2>4. /\ new \in CallState /\ new.pc = "reading" /\ new.link = l /\ new.peer = call[c].peer
        /\ new.got = call[c].got
    BY <1>0 DEF CallState
  <2> HIDE DEF sent, new
  <2>5. /\ link' \in [Links -> LinkState] /\ link'[l] = sent
        /\ \A m \in Links \ {l} : link'[m] = link[m]
        /\ \A m \in Links : /\ link'[m].peer = link[m].peer
                            /\ (Live(m)' <=> Live(m)) /\ (Dialed(m)' <=> Dialed(m))
    <3>1. sent.st \in {"open", "broken"} /\ link' = [link EXCEPT ![l] = sent] /\ l \in Links
      BY <1>0, <2>1, <2>3
    <3>2. QED
      BY <1>2, <2>3, <3>1, LinkSteady
  <2>6. /\ call' \in [Callers -> CallState] /\ call'[c] = new
        /\ \A d \in Callers \ {c} : call'[d] = call[d]
    BY <2>1, <2>4 DEF Inv, Types
  <2>7. /\ mu' \in [Links -> Callers \cup {None}] /\ mu'[l] = c
        /\ \A m \in Links \ {l} : mu'[m] = mu[m]
    BY <1>0, <2>1 DEF Inv, Types
  <2>8. Steady
    BY <1>0, <2>1, <2>4, <2>5, <2>6 DEF Steady
  <2>9. Locked'
    <3>1. \A d \in Callers \ {c} :
            call[d].pc = "reading" => call[d].link \in Links /\ mu[call[d].link] = d /\ call[d].link # l
      BY <1>0, CallFacts, NoneAssumption DEF Inv, Locked
    <3>2. \A d \in Callers : call'[d].pc = "reading" => mu'[call'[d].link] = d
      BY <2>4, <2>6, <2>7, <3>1
    <3>3. \A d \in Callers, m \in Links : mu'[m] = d /\ m # l => mu[m] = d /\ d # c
      BY <1>0, <2>7 DEF Inv, Locked
    <3>4. QED
      BY <2>4, <2>6, <2>7, <3>2, <3>3 DEF Inv, Locked
  <2>10. OneFrame'
    BY <2>3, <2>5, <2>7, NoneAssumption DEF Inv, OneFrame, Under
  <2>11. OwnResponse'
    BY <1>0, <2>4, <2>6 DEF Inv, OwnResponse
  <2>12. QED
    BY <2>7, <2>8, <2>9, <2>10, <2>11, SteadyInv DEF Inv
<1>3. QED
  BY <1>1, <1>2

LEMMA ReadInv == ASSUME Inv, NEW c \in Callers, ReadResponse(c) \/ ReadFails(c) PROVE Inv'
<1> DEFINE l == call[c].link
<1>0. /\ call[c].pc = "reading" /\ mu[l] = c /\ UNCHANGED <<reval, closer, copied>>
      /\ mu' = [mu EXCEPT ![l] = None]
      /\ l \in Links /\ call[c].peer \in Peers /\ call[c] \in CallState /\ link[l] \in LinkState
  BY CallFacts DEF ReadResponse, ReadFails, closing, Inv, Types, Locked
<1>1. CASE dropConn(call[c].peer, l) /\ Return(c, None)
  <2>1. Drops(l)
    BY <1>0, <1>1, IdleSettled DEF dropConn, Return, Drops, Returns, Dialing, closing, Inv, Types
  <2>2. QED
    BY <2>1, DropsInv
<1>2. CASE /\ link[l].st = "open" /\ link[l].replies # << >>
           /\ link' = [link EXCEPT ![l].replies = Tail(@)]
           /\ Return(c, Head(link[l].replies)) /\ UNCHANGED conns
  <2> DEFINE read == [link[l] EXCEPT !.replies = Tail(@)]
             new == [Idle EXCEPT !.got = c]
  <2>1. link[l].wire = << >> /\ link[l].replies = <<c>>
    BY <1>0, <1>2, NoneAssumption DEF Inv, OneFrame, Under
  <2>2. link' = [link EXCEPT ![l] = read] /\ call' = [call EXCEPT ![c] = new]
    BY <1>2, <2>1, SequenceFacts DEF Return
  <2>3. /\ read \in LinkState /\ read.peer = link[l].peer /\ read.st = "open"
        /\ read.wire = << >> /\ read.replies = << >>
    <3>1. Tail(link[l].replies) = << >> /\ << >> \in Seq(Callers)
      BY <2>1, SequenceFacts
    <3>2. QED
      BY <1>0, <1>2, <2>1, <3>1 DEF LinkState
  <2>4. new \in CallState /\ new.pc = "idle" /\ new.got = c
    BY RecordFacts
  <2> HIDE DEF read, new
  <2>5. /\ link' \in [Links -> LinkState] /\ link'[l] = read
        /\ \A m \in Links \ {l} : link'[m] = link[m]
        /\ \A m \in Links : /\ link'[m].peer = link[m].peer
                            /\ (Live(m)' <=> Live(m)) /\ (Dialed(m)' <=> Dialed(m))
    <3>1. read.st \in {"open", "broken"} /\ link' = [link EXCEPT ![l] = read] /\ l \in Links
      BY <1>0, <2>2, <2>3
    <3>2. QED
      BY <1>2, <2>3, <3>1, LinkSteady
  <2>6. /\ call' \in [Callers -> CallState] /\ call'[c] = new
        /\ \A d \in Callers \ {c} : call'[d] = call[d]
    BY <2>2, <2>4 DEF Inv, Types
  <2>7. /\ mu' \in [Links -> Callers \cup {None}] /\ mu'[l] = None
        /\ \A m \in Links \ {l} : mu'[m] = mu[m]
    BY <1>0 DEF Inv, Types
  <2>8. Steady
    BY <1>0, <1>2, <2>4, <2>5, <2>6 DEF Steady
  <2>9. Locked'
    BY <1>0, <2>4, <2>6, <2>7, NoneAssumption DEF Inv, Locked
  <2>10. OneFrame'
    BY <2>3, <2>5, <2>7 DEF Inv, OneFrame, Under
  <2>11. OwnResponse'
    BY <2>4, <2>6 DEF Inv, OwnResponse
  <2>12. QED
    BY <2>7, <2>8, <2>9, <2>10, <2>11, SteadyInv DEF Inv
<1>3. QED
  BY <1>1, <1>2 DEF ReadResponse, ReadFails

LEMMA PeerInv == ASSUME Inv, NEW l \in Links, Answer(l) \/ Break(l) PROVE Inv'
<1>0. /\ link[l].st = "open" /\ UNCHANGED <<conns, mu, call, reval, closer, copied>>
      /\ link[l] \in LinkState
  BY DEF Answer, Break, closing, Inv, Types
<1>1. CASE Answer(l)
  <2> DEFINE new == [link[l] EXCEPT !.wire = Tail(@), !.replies = Append(@, Head(link[l].wire))]
  <2>1. link' = [link EXCEPT ![l] = new] /\ link[l].wire # << >>
    BY <1>1 DEF Answer
  <2>2. mu[l] # None /\ link[l].wire = <<mu[l]>> /\ link[l].replies = << >> /\ mu[l] \in Callers
    BY <1>0, <2>1 DEF Inv, Types, OneFrame, Under
  <2>3. /\ new \in LinkState /\ new.peer = link[l].peer /\ new.st = "open"
        /\ new.wire = << >> /\ new.replies = <<mu[l]>>
    <3>1. /\ Tail(link[l].wire) = << >> /\ Append(link[l].replies, Head(link[l].wire)) = <<mu[l]>>
          /\ << >> \in Seq(Callers) /\ <<mu[l]>> \in Seq(Callers)
      BY <2>2, SequenceFacts
    <3>2. QED
      BY <1>0, <3>1 DEF LinkState
  <2> HIDE DEF new
  <2>4. /\ link' \in [Links -> LinkState] /\ link'[l] = new
        /\ \A m \in Links \ {l} : link'[m] = link[m]
        /\ \A m \in Links : /\ link'[m].peer = link[m].peer
                            /\ (Live(m)' <=> Live(m)) /\ (Dialed(m)' <=> Dialed(m))
    BY <1>0, <2>1, <2>3, LinkSteady
  <2>5. Steady
    BY <1>0, <2>4 DEF Steady, Inv, Types
  <2>6. OneFrame'
    BY <1>0, <2>2, <2>3, <2>4 DEF Inv, OneFrame, Under
  <2>7. (Locked /\ OwnResponse)'
    BY <1>0 DEF Inv, Locked, OwnResponse
  <2>8. mu' \in [Links -> Callers \cup {None}]
    BY <1>0 DEF Inv, Types
  <2>9. QED
    BY <2>5, <2>6, <2>7, <2>8, SteadyInv DEF Inv
<1>2. CASE Break(l)
  <2> DEFINE new == [link[l] EXCEPT !.st = "broken"]
  <2>1. link' = [link EXCEPT ![l] = new]
    BY <1>2 DEF Break
  <2>2. new \in LinkState /\ new.peer = link[l].peer /\ new.st = "broken"
    BY <1>0 DEF LinkState
  <2> HIDE DEF new
  <2>3. /\ link' \in [Links -> LinkState] /\ link'[l] = new
        /\ \A m \in Links \ {l} : link'[m] = link[m]
        /\ \A m \in Links : /\ link'[m].peer = link[m].peer
                            /\ (Live(m)' <=> Live(m)) /\ (Dialed(m)' <=> Dialed(m))
    BY <1>0, <2>1, <2>2, LinkSteady
  <2>4. Steady
    BY <1>0, <2>3 DEF Steady, Inv, Types
  <2>5. OneFrame'
    BY <1>0, <2>2, <2>3 DEF Inv, OneFrame
  <2>6. (Locked /\ OwnResponse)'
    BY <1>0 DEF Inv, Locked, OwnResponse
  <2>7. mu' \in [Links -> Callers \cup {None}]
    BY <1>0 DEF Inv, Types
  <2>8. QED
    BY <2>4, <2>5, <2>6, <2>7, SteadyInv DEF Inv
<1>3. QED
  BY <1>1, <1>2

----------------------------------------------------------------------------
(* Close, revalidateLoop and everything that is not about dialed           *)
(* connections.                                                            *)

LEMMA CloseMarkInv == ASSUME Inv, CloseMark PROVE Inv'
<1>1. /\ closer = "open" /\ closer' = "marked" /\ conns' = [p \in Peers |-> None]
      /\ copied' = [conns |-> {conns[p] : p \in Peers} \ {None}, accepted |-> accepted]
      /\ UNCHANGED <<link, mu, call, reval>>
  BY DEF CloseMark
<1>2. copied'.conns = {conns[p] : p \in Peers} \ {None}
  BY <1>1
<1>3. Types'
  BY <1>1, <1>2 DEF Inv, Types
<1>4. (CallsPlaced /\ Locked /\ OneFrame /\ OwnResponse)'
  BY <1>1 DEF Inv, CallsPlaced, Locked, OneFrame, OwnResponse, Dialed, Live, Dialing
<1>5. NoLinkLeaks'
  <2>1. ASSUME NEW m \in Links, Live(m)' PROVE Kept(m)'
    <3>1. Live(m) /\ Kept(m) /\ link[m].peer \in Peers
      BY <1>1, <2>1, LeaksFacts DEF Live, Inv, CallsPlaced
    <3>2. CASE conns[link[m].peer] = m
      <4>1. m \in copied'.conns
        BY <1>2, <3>1, <3>2, NoneAssumption
      <4>2. QED
        BY <1>1, <4>1 DEF Kept
    <3>3. CASE \E c \in Callers : Dialing(c, m)
      <4>1. \E c \in Callers : Dialing(c, m)'
        BY <1>1, <3>3 DEF Dialing
      <4>2. QED
        BY <4>1 DEF Kept
    <3>4. QED
      BY <1>1, <3>1, <3>2, <3>3 DEF Kept
  <2>2. QED
    BY <2>1 DEF NoLinkLeaks, Live, Kept, Dialing, closed
<1>6. QED
  BY <1>3, <1>4, <1>5 DEF Inv

LEMMA CloseLinksInv == ASSUME Inv, CloseLinks PROVE Inv'
<1>1. /\ closer = "unlistened" /\ closer' = "waiting"
      /\ link' = [l \in Links |-> IF l \in copied.conns THEN Down ELSE link[l]]
      /\ UNCHANGED <<conns, mu, call, reval, copied>>
  BY DEF CloseLinks
<1>2. /\ link' \in [Links -> LinkState]
      /\ \A l \in Links : l \in copied.conns => link'[l].st = "closed"
      /\ \A l \in Links : l \notin copied.conns => link'[l] = link[l]
  BY <1>1, RecordFacts DEF Inv, Types
<1>3. Types'
  BY <1>1, <1>2 DEF Inv, Types
<1>4. \A l \in Links : Live(l)' => Live(l) /\ link'[l] = link[l] /\ l \notin copied.conns
  BY <1>2 DEF Live
<1>5. \A l : Dialed(l) => Dialed(l)'
  BY <1>2 DEF Dialed
<1>6. CallsPlaced'
  <2>1. \A d \in Callers :
          call'[d].pc \in {"handshake", "register", "lock", "reading"} =>
            call'[d].link \in Links /\ link'[call'[d].link].st # "unused"
    BY <1>1, <1>5 DEF Inv, CallsPlaced, Dialed
  <2>2. \A q \in Peers : conns'[q] # None => conns'[q] \in Links /\ link'[conns'[q]].st # "unused"
    BY <1>1, <1>5 DEF Inv, CallsPlaced, Dialed
  <2>3. QED
    BY <1>1, <1>4, <2>1, <2>2 DEF Inv, CallsPlaced, Dialed, Dialing
<1>7. (Locked /\ OwnResponse)'
  BY <1>1 DEF Inv, Locked, OwnResponse
<1>8. OneFrame'
  BY <1>1, <1>2 DEF Inv, OneFrame
<1>9. NoLinkLeaks'
  <2>1. ASSUME NEW m \in Links, Live(m)' PROVE Kept(m)'
    <3>1. \E c \in Callers : Dialing(c, m)
      BY <1>1, <1>4, <2>1, LeaksFacts DEF Inv, Kept
    <3>2. QED
      BY <1>1, <3>1 DEF Kept, Dialing
  <2>2. QED
    BY <2>1 DEF NoLinkLeaks, Live, Kept, Dialing, closed
<1>10. QED
  BY <1>3, <1>6, <1>7, <1>8, <1>9 DEF Inv

(* Steps that leave the dialed connections alone.                          *)
Apart ==
  /\ UNCHANGED <<conns, link, mu, call, copied>> /\ reval' \subseteq Peers \X Links
  /\ \/ closer' = closer
     \/ closer = "marked" /\ closer' = "shutdown"
     \/ closer = "shutdown" /\ closer' = "unlistened"
     \/ closer = "waiting" /\ closer' = "returned"

LEMMA ApartInv == ASSUME Inv, Apart PROVE Inv'
<1>1. Types'
  BY DEF Apart, Inv, Types
<1>2. (CallsPlaced /\ Locked /\ OneFrame /\ OwnResponse)'
  BY DEF Apart, Inv, CallsPlaced, Locked, OneFrame, OwnResponse, Dialed, Live, Dialing
<1>3. NoLinkLeaks'
  <2>1. \A m \in Links : Live(m)' => Kept(m)'
    BY LeaksFacts DEF Apart, Inv, Live, Kept, Dialing
  <2>2. QED
    BY <2>1 DEF NoLinkLeaks, Live, Kept, Dialing, closed
<1>4. QED
  BY <1>1, <1>2, <1>3 DEF Inv

LEMMA ApartSteps ==
  ASSUME Inv, \/ Revalidate \/ CloseShutdown \/ CloseListener \/ CloseReturn \/ UNCHANGED vars
              \/ \E p \in Peers : SetMember(p)
              \/ \E i \in Accepts :
                   \/ Accept(i) \/ InRegister(i) \/ InAuth(i) \/ InFrame(i) \/ InConsume(i)
                   \/ InRespond(i) \/ InShutdown(i) \/ InReadFails(i) \/ InTick(i)
                   \/ PeerCloses(i)
  PROVE  Inv'
<1>0. reval \subseteq Peers \X Links
  BY DEF Inv, Types
<1>1. CASE Revalidate
  <2>1. reval' \subseteq Peers \X Links
    BY <1>1 DEF Revalidate, Inv, Types
  <2>2. QED
    BY <1>1, <2>1, ApartInv DEF Revalidate, Apart, dialing, closing
<1>2. CASE CloseShutdown \/ CloseListener \/ CloseReturn
  <2>1. Apart
    BY <1>0, <1>2 DEF CloseShutdown, CloseListener, CloseReturn, Apart, dialing
  <2>2. QED
    BY <2>1, ApartInv
<1>3. CASE UNCHANGED vars \/ \E p \in Peers : SetMember(p)
  <2>1. Apart
    BY <1>0, <1>3 DEF vars, SetMember, Apart, dialing, closing
  <2>2. QED
    BY <2>1, ApartInv
<1>4. ASSUME NEW i \in Accepts,
             \/ Accept(i) \/ InRegister(i) \/ InAuth(i) \/ InFrame(i) \/ InConsume(i)
             \/ InRespond(i) \/ InShutdown(i) \/ InReadFails(i) \/ InTick(i)
             \/ PeerCloses(i)
      PROVE  Inv'
  <2>1. UNCHANGED <<dialing, reval, closing>>
    BY <1>4 DEF Accept, InRegister, InAuth, InFrame, InConsume, InRespond, InShutdown,
                InReadFails, InTick, PeerCloses
  <2>2. Apart
    BY <1>0, <2>1 DEF Apart, dialing, closing
  <2>3. QED
    BY <2>2, ApartInv
<1>5. QED
  BY <1>1, <1>2, <1>3, <1>4

LEMMA NextInv == Inv /\ [Next]_vars => Inv'
<1> SUFFICES ASSUME Inv, [Next]_vars PROVE Inv'
  OBVIOUS
<1>1. ASSUME NEW c \in Callers, Caller(c) \/ HandshakeOk(c) \/ HandshakeFails(c) PROVE Inv'
  BY <1>1, DialInv, RegisterInv, SendInv, ReadInv, HandshakeOkInv, HandshakeFailsInv DEF Caller
<1>2. CASE Revalidate \/ RevalidateOne \/ Close
  BY <1>2, ApartSteps, RevalidateOneInv, CloseMarkInv, CloseLinksInv DEF Close
<1>3. QED
  BY <1>1, <1>2, LookupInv, PeerInv, ApartSteps DEF Next

LEMMA InvHolds == Spec => []Inv
BY InitInv, NextInv, PTL DEF Spec

----------------------------------------------------------------------------
(* The properties.                                                         *)

(* A caller of roundTrip gets the response to its own request: for any     *)
(* number of goroutines that share connections, and whichever of them      *)
(* fail.                                                                   *)
THEOREM ResponsesMatch == Spec => []OwnResponse
<1>1. Inv => OwnResponse
  BY DEF Inv
<1>2. QED
  BY <1>1, InvHolds, PTL

(* No dialed connection is left open that nobody will close, however many  *)
(* callers dial the same peer and whenever Close runs.                     *)
THEOREM LinksOwned == Spec => []NoLinkLeaks
<1>1. Inv => NoLinkLeaks
  BY DEF Inv
<1>2. QED
  BY <1>1, InvHolds, PTL

(* Only the step that closes a connection, and Close, take it from the     *)
(* table: dropConn compares, so that an old connection never takes the     *)
(* place of the one that replaced it.                                      *)
LEMMA OwnDrops == Inv /\ [Next]_vars => OnlyOwnDrop
<1> SUFFICES ASSUME Inv, [Next]_vars, NEW p \in Peers, conns[p] # None, conns'[p] # conns[p],
                    closer' = closer
             PROVE  link'[conns[p]].st = "closed"
  BY DEF OnlyOwnDrop
<1>0. conns[p] \in Links
  BY DEF Inv, Types
<1>1. ASSUME NEW q, NEW l, dropConn(q, l) PROVE link'[conns[p]].st = "closed"
  <2>1. conns[p] = l
    BY <1>1 DEF dropConn, Inv, Types
  <2>2. QED
    BY <1>0, <1>1, <2>1, RecordFacts DEF dropConn, Inv, Types
<1>2. ASSUME NEW c \in Callers, Register(c) PROVE FALSE
  <2>1. PICK l : conns' = [conns EXCEPT ![call[c].peer] = l] /\ conns[call[c].peer] = None
    BY <1>2 DEF Register
  <2>2. QED
    BY <2>1 DEF Inv, Types
<1>3. ASSUME NEW c \in Callers, Caller(c) \/ HandshakeOk(c) \/ HandshakeFails(c)
      PROVE  \E q, l : dropConn(q, l)
  BY <1>2, <1>3 DEF Caller, HandshakeOk, HandshakeFails, Dial, Send, ReadResponse, ReadFails
<1>4. RevalidateOne => \E q, l : dropConn(q, l)
  BY DEF RevalidateOne
<1>5. ~Close /\ ~Revalidate
  BY DEF Close, CloseMark, CloseShutdown, CloseListener, CloseLinks, CloseReturn, Revalidate, dialing
<1>6. ASSUME NEW i \in Accepts,
             \/ Accept(i) \/ InRegister(i) \/ InAuth(i) \/ InFrame(i) \/ InConsume(i)
             \/ InRespond(i) \/ InShutdown(i) \/ InReadFails(i) \/ InTick(i)
             \/ PeerCloses(i)
      PROVE  FALSE
  BY <1>6 DEF Accept, InRegister, InAuth, InFrame, InConsume, InRespond, InShutdown,
              InReadFails, InTick, PeerCloses, dialing
<1>7. /\ \A c \in Callers : ~Lookup(c, p) /\ \A q \in Peers : ~Lookup(c, q)
      /\ \A l \in Links : ~Answer(l) /\ ~Break(l)
      /\ \A q \in Peers : ~SetMember(q)
      /\ ~UNCHANGED vars
  BY DEF Lookup, Answer, Break, SetMember, dialing, vars
<1>8. QED
  BY <1>1, <1>3, <1>4, <1>5, <1>6, <1>7 DEF Next

(* A working connection stays in the table although callers and            *)
(* revalidateLoop still hold the ones it replaced.                         *)
THEOREM HealthyStay == Spec => HealthyConnStays
<1>1. QED
  BY InvHolds, OwnDrops, PTL DEF Spec, HealthyConnStays

----------------------------------------------------------------------------
(* The readiness driver.                                                   *)

(* Types, as far as the order of the indices needs them.                   *)
Ordered ==
  /\ raft.last \in Nat /\ raft.committed \in Nat /\ raft.applied \in Nat
  /\ seen.last \in Nat /\ seen.applied \in Nat /\ duty \in Nat
  /\ raft.committed <= raft.last \/ raft.committed <= raft.applied

(* During a tick what is committed does not shrink below the duty, and the *)
(* history variable misses no moment at which the leader was there.        *)
TickEvidence == pc \in Ticking => duty <= raft.committed /\ (Hears(raft) => heard)

(* The end of the log, once read, covers the duty, although the log may be *)
(* cut or replaced since: only a snapshot makes a log end before what is   *)
(* committed, and what it holds is applied.  What is applied only grows.   *)
ReadEvidence ==
  /\ pc \in {"applied", "contact"} => duty <= seen.last \/ duty <= raft.applied
  /\ pc = "contact" => seen.applied <= raft.applied

ReadStates == raft.state \in RaftStates

CaughtInv == ReadStates /\ Ordered /\ TickEvidence /\ ReadEvidence

(* The environment's steps.                                                *)
LEMMA CaughtRaft == CaughtInv /\ Raft => CaughtInv'
<1> SUFFICES ASSUME CaughtInv, Raft PROVE CaughtInv'
  OBVIOUS
<1>0. UNCHANGED <<pc, seen>>
  BY DEF Raft
<1>1. CASE RaftState
  <2>1. PICK st \in RaftStates, known, contact \in BOOLEAN :
          raft' = [raft EXCEPT !.state = st, !.leader = known, !.contact = contact]
    BY <1>1 DEF RaftState
  <2>s. ReadStates'
    BY <2>1 DEF CaughtInv, ReadStates
  <2>2. UNCHANGED <<raft.last, raft.committed, raft.applied, duty>>
    BY <1>1, <2>1 DEF RaftState
  <2>3. pc' \in Ticking /\ Hears(raft)' => heard'
    BY <1>0, <1>1 DEF RaftState, Hears
  <2> QED
    BY <1>0, <2>s, <2>2, <2>3 DEF CaughtInv, Ordered, TickEvidence, ReadEvidence
<1>2. CASE RaftLog
  <2>1. PICK last, committed, applied \in Indices :
          /\ committed >= raft.committed /\ applied >= raft.applied
          /\ committed <= last \/ committed <= applied
          /\ raft' = [raft EXCEPT !.last = last, !.committed = committed, !.applied = applied]
    BY <1>2 DEF RaftLog
  <2>2. last \in Nat /\ committed \in Nat /\ applied \in Nat
    BY IndexAssumption DEF Indices
  <2>3. raft'.last = last /\ raft'.committed = committed /\ raft'.applied = applied
    BY <2>1
  <2>4. Hears(raft') = Hears(raft) /\ UNCHANGED <<duty, heard>>
    BY <1>2, <2>1 DEF RaftLog, Hears, history
  <2>5. Ordered'
    BY <1>0, <2>1, <2>2, <2>3, <2>4 DEF CaughtInv, Ordered
  <2>6. TickEvidence'
    <3>1. pc \in Ticking => duty <= raft'.committed
      BY <2>1, <2>2, <2>3 DEF CaughtInv, Ordered, TickEvidence
    <3> QED
      BY <1>0, <2>4, <3>1 DEF CaughtInv, TickEvidence
  <2>7. ReadEvidence'
    BY <1>0, <2>1, <2>2, <2>3, <2>4 DEF CaughtInv, Ordered, ReadEvidence
  <2> QED
    BY <2>1, <2>5, <2>6, <2>7 DEF CaughtInv, ReadStates
<1> QED
  BY <1>1, <1>2 DEF Raft

(* The driver's.                                                           *)
LEMMA CaughtDriver == CaughtInv /\ Driver => CaughtInv'
<1> SUFFICES ASSUME CaughtInv, Driver PROVE CaughtInv'
  OBVIOUS
<1>1. CASE Tick
  BY <1>1 DEF Tick, CaughtInv, ReadStates, Ordered, TickEvidence, ReadEvidence, environment
<1>2. ASSUME Exit \/ Health \/ State \/ Leader PROVE CaughtInv'
  <2>a. /\ \A rd : set(rd) => pc' = "wait" /\ seen' = NothingSeen /\ duty' = 0
        /\ \A next : goOn(next) => pc' = next /\ UNCHANGED <<seen, duty, heard>>
    BY DEF set, goOn, history
  <2>b. CASE Exit
    BY <2>b DEF Exit, environment, history, CaughtInv, ReadStates, Ordered, TickEvidence,
                ReadEvidence, Ticking
  <2>c. SUFFICES ASSUME Health \/ State \/ Leader PROVE CaughtInv'
    BY <1>2, <2>b
  <2>d. raft' = raft /\ pc \in Ticking
    BY <2>c DEF Health, State, Leader, environment, Ticking
  <2>e. (\E rd : set(rd)) \/ goOn("state") \/ goOn("leader") \/ goOn("last")
    <3>1. CASE Health
      BY <3>1 DEF Health
    <3>2. CASE State
      <4>1. \/ raft.state = "Leader" \/ raft.state = "Follower"
            \/ raft.state = "Candidate" \/ raft.state = "Shutdown"
        BY DEF CaughtInv, ReadStates, RaftStates
      <4> QED
        BY <3>2, <4>1 DEF State
    <3>3. CASE Leader
      BY <3>3 DEF Leader
    <3> QED
      BY <2>c, <3>1, <3>2, <3>3
  <2>1. raft' = raft /\ pc' \notin {"applied", "contact"}
    BY <2>a, <2>d, <2>e
  <2>2. \/ pc' \notin Ticking /\ seen' = NothingSeen /\ duty' = 0
        \/ pc \in Ticking /\ UNCHANGED <<seen, duty, heard>>
    BY <2>a, <2>d, <2>e DEF Ticking
  <2>3. Ordered'
    BY <2>1, <2>2 DEF CaughtInv, Ordered, NothingSeen
  <2>4. TickEvidence'
    BY <2>1, <2>2 DEF CaughtInv, TickEvidence
  <2> QED
    BY <2>1, <2>3, <2>4 DEF CaughtInv, ReadStates, ReadEvidence
<1>3. CASE StatsLast
  <2>1. pc = "last" /\ pc' = "applied" /\ UNCHANGED <<raft, duty, heard>>
    BY <1>3 DEF StatsLast, environment, history
  <2>2. seen'.last = raft.last /\ seen'.applied = seen.applied
    BY <1>3 DEF StatsLast
  <2>3. duty <= raft.last \/ duty <= raft.applied
    BY <2>1 DEF CaughtInv, Ordered, TickEvidence, Ticking
  <2> QED
    BY <2>1, <2>2, <2>3 DEF CaughtInv, ReadStates, Ordered, TickEvidence, ReadEvidence, Ticking
<1>4. CASE StatsApplied
  <2>1. pc = "applied" /\ pc' = "contact" /\ UNCHANGED <<raft, duty, heard>>
    BY <1>4 DEF StatsApplied, environment, history
  <2>2. seen'.last = seen.last /\ seen'.applied = raft.applied
    BY <1>4 DEF StatsApplied
  <2> QED
    BY <2>1, <2>2 DEF CaughtInv, ReadStates, Ordered, TickEvidence, ReadEvidence, Ticking
<1>5. CASE StatsContact
  BY <1>5 DEF StatsContact, set, NothingSeen, CaughtInv, ReadStates, Ordered, TickEvidence,
              ReadEvidence, Ticking, environment
<1> QED
  BY <1>1, <1>2, <1>3, <1>4, <1>5 DEF Driver

(* Every step keeps it.                                                    *)
LEMMA CaughtNext == CaughtInv /\ [AuthorityNext]_authorityVars => CaughtInv'
<1> SUFFICES ASSUME CaughtInv, [AuthorityNext]_authorityVars PROVE CaughtInv'
  OBVIOUS
<1>1. ASSUME \/ \E m \in Modes : SetMode(m)
             \/ \E r \in Requests : Route(r) \/ Finish(r)
             \/ HealthChange \/ Cancel \/ UNCHANGED authorityVars
      PROVE  CaughtInv'
  <2>1. UNCHANGED <<raft, pc, seen, duty, heard>>
    BY <1>1 DEF SetMode, Route, Finish, HealthChange, Cancel, authorityVars, environment, history
  <2> QED
    BY <2>1 DEF CaughtInv, ReadStates, Ordered, TickEvidence, ReadEvidence, Hears
<1> QED
  BY <1>1, CaughtRaft, CaughtDriver DEF AuthorityNext

(* When the driver declares a ready follower, the node has applied all     *)
(* that was committed on it when the tick began, and it had recent leader  *)
(* contact or led at a moment of the tick, whatever raft, the operator and *)
(* requests do between the driver's reads.                                 *)
THEOREM FollowersCaughtUp == AuthoritySpec => FollowerCaughtUp
<1>1. AuthorityInit => CaughtInv
  BY DEF AuthorityInit, RaftStates, NothingSeen, Ticking, CaughtInv, ReadStates, Ordered,
         TickEvidence, ReadEvidence
<1>2. CaughtInv /\ [AuthorityNext]_authorityVars => [FollowerEvidence]_authorityVars
  <2> SUFFICES ASSUME CaughtInv, AuthorityNext, pc = "contact", pc' = "wait",
                      readiness' = "ready-follower"
               PROVE  CaughtUpInTick
    BY DEF FollowerEvidence
  <2>1. StatsContact
    BY DEF AuthorityNext, Driver, Tick, Exit, Health, State, Leader, StatsLast, StatsApplied,
           SetMode, Route, Finish, Raft, HealthChange, Cancel
  <2>2. caughtUp(seen) /\ Hears(raft)
    BY <2>1 DEF StatsContact, set
  <2>3. heard
    BY <2>2 DEF CaughtInv, TickEvidence, Ticking
  <2>4. raft.applied >= duty
    BY <2>2 DEF caughtUp, CaughtInv, Ordered, ReadEvidence
  <2> QED
    BY <2>3, <2>4 DEF CaughtUpInTick
<1> QED
  BY <1>1, <1>2, CaughtNext, PTL DEF AuthoritySpec, FollowerCaughtUp

=============================================================================
