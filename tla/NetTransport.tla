---------------------------- MODULE NetTransport ----------------------------
(***************************************************************************)
(* The TCP transport of one node (replication/nettransport.go): the calls  *)
(* raft makes on dialed connections, the goroutines that serve accepted    *)
(* ones, the periodic revalidation of membership, and Close.               *)
(*                                                                         *)
(* Peers are the environment: they accept or refuse a handshake, answer    *)
(* requests in the order in which they arrive, send frames, stay silent    *)
(* and disappear.  A peer stands for its node id and its address.  A frame *)
(* is the caller it belongs to.  The outcome of TLS, of building and       *)
(* decoding frames and of the authenticator is a choice.                   *)
(***************************************************************************)
EXTENDS Naturals, Sequences, FiniteSets

CONSTANTS Peers,
          Callers,     \* goroutines of raft that send requests
          Links,       \* dialed connections (a bound)
          Accepts,     \* accepted connections (a bound)
          MaxChanges,  \* bound on changes of membership
          None

ASSUME LinksAssumption == Links \subseteq Nat
ASSUME NoneAssumption == None \notin Links \cup Callers \cup Peers
ASSUME ChangesAssumption == MaxChanges \in Nat

VARIABLES active,     \* active[p]: Membership says active, enabled, compatible
          conns,      \* conns[p]: the registered connection, or None
          link,       \* link[l]: a dialed connection
          mu,         \* mu[l]: the holder of peerConn.mu
          call,       \* call[c]: a caller
          inb,        \* inb[i]: serveConn of an accepted connection
          accepted,   \* the registered accepted connections
          reval,      \* what revalidateLoop still has to look at
          closer,     \* Close
          copied,     \* the connections Close has copied
          changes

dialing == <<conns, link, mu, call>>
serving == <<inb, accepted>>
closing == <<closer, copied>>
vars == <<active, dialing, serving, reval, closing, changes>>

Unused == [peer |-> None, st |-> "unused", wire |-> << >>, replies |-> << >>]
Down == [Unused EXCEPT !.st = "closed"]
Idle == [pc |-> "idle", peer |-> None, link |-> None, got |-> None]

Init ==
  /\ active = [p \in Peers |-> TRUE]
  /\ conns = [p \in Peers |-> None]
  /\ link = [l \in Links |-> Unused]
  /\ mu = [l \in Links |-> None]
  /\ call = [c \in Callers |-> Idle]
  /\ inb = [i \in Accepts |-> [pc |-> "none", peer |-> None, st |-> "open"]]
  /\ accepted = {}
  /\ reval = {}
  /\ closer = "open"
  /\ copied = [conns |-> {}, accepted |-> {}]
  /\ changes = 0

closed == closer # "open"
shutdown == closer \in {"shutdown", "unlistened", "waiting", "returned"}

(* The types of all variables.                                             *)
TypeOK ==
  /\ active \in [Peers -> BOOLEAN]
  /\ conns \in [Peers -> Links \cup {None}]
  /\ \A l \in Links :
       /\ link[l].peer \in Peers \cup {None}
       /\ link[l].st \in {"unused", "open", "broken", "closed"}
       /\ link[l].wire \in Seq(Callers) /\ link[l].replies \in Seq(Callers)
  /\ mu \in [Links -> Callers \cup {None}]
  /\ call \in [Callers -> [pc : {"idle", "dial", "handshake", "register",
                                 "lock", "reading"},
                           peer : Peers \cup {None}, link : Links \cup {None},
                           got : Callers \cup {None}]]
  /\ inb \in [Accepts -> [pc : {"none", "started", "auth", "serving", "offer",
                                "await", "gone"},
                          peer : Peers \cup {None}, st : {"open", "closed"}]]
  /\ accepted \subseteq Accepts
  /\ reval \subseteq Peers \X Links
  /\ closer \in {"open", "marked", "shutdown", "unlistened", "waiting", "returned"}
  /\ copied \in [conns : SUBSET Links, accepted : SUBSET Accepts]
  /\ changes \in 0 .. MaxChanges

----------------------------------------------------------------------------
(* Mutated forms of the definitions below.                                 *)

dropAnyConn(p, l) ==
  /\ conns' = [conns EXCEPT ![p] = None]
  /\ link' = [link EXCEPT ![l] = Down]

RegisterUnchecked(c) ==
  LET p == call[c].peer
      l == call[c].link
  IN /\ call[c].pc = "register"
     /\ IF conns[p] # None
          THEN /\ link' = [link EXCEPT ![l] = Down]
               /\ call' = [call EXCEPT ![c].pc = "lock", ![c].link = conns[p]]
               /\ UNCHANGED conns
          ELSE /\ conns' = [conns EXCEPT ![p] = l]
               /\ call' = [call EXCEPT ![c].pc = "lock"]
               /\ UNCHANGED link
     /\ UNCHANGED <<active, mu, serving, reval, closing, changes>>

Unlocked(l) == TRUE

RevalidateForgets ==
  \E e \in reval :
    /\ reval' = reval \ {e}
    /\ conns' = [conns EXCEPT ![e[1]] = IF active[e[1]] THEN @ ELSE None]
    /\ UNCHANGED <<active, link, mu, call, serving, closing, changes>>

----------------------------------------------------------------------------
(* Dialed connections: getConn, dial, roundTrip, InstallSnapshot,          *)
(* readResponse and dropConn.                                              *)

(* Every exit of a call: the caller is idle again, its mutex released.     *)
Return(c, got) == call' = [call EXCEPT ![c] = [Idle EXCEPT !.got = got]]

(* dropConn: a connection that another one has replaced is only closed.    *)
dropConn(p, l) ==
  /\ conns' = [conns EXCEPT ![p] = IF @ = l THEN None ELSE @]
  /\ link' = [link EXCEPT ![l] = Down]

(* getConn: the registered connection, or dial.                            *)
Lookup(c, p) ==
  /\ call[c].pc = "idle" /\ ~closed
  /\ call' = [call EXCEPT ![c] =
       [pc |-> IF conns[p] # None THEN "lock" ELSE "dial",
        peer |-> p, link |-> conns[p], got |-> None]]
  /\ UNCHANGED <<active, conns, link, mu, serving, reval, closing, changes>>

(* dial: no connection to a peer that is not active.                       *)
Dial(c) ==
  /\ call[c].pc = "dial"
  /\ \/ /\ active[call[c].peer]
        /\ \E l \in Links :
             /\ link[l].st = "unused"
             /\ \A m \in Links : m < l => link[m].st # "unused"
             /\ link' = [link EXCEPT ![l].st = "open", ![l].peer = call[c].peer]
             /\ call' = [call EXCEPT ![c].pc = "handshake", ![c].link = l]
     \/ Return(c, None) /\ UNCHANGED link
  /\ UNCHANGED <<active, conns, mu, serving, reval, closing, changes>>

(* The rest of dial: the peer has proved its identity, or not.  A peer     *)
(* that does not answer keeps the caller here.                             *)
HandshakeOk(c) ==
  /\ call[c].pc = "handshake" /\ link[call[c].link].st = "open"
  /\ call' = [call EXCEPT ![c].pc = "register"]
  /\ UNCHANGED <<active, conns, link, mu, serving, reval, closing, changes>>

HandshakeFails(c) ==
  /\ call[c].pc = "handshake"
  /\ link' = [link EXCEPT ![call[c].link] = Down]
  /\ Return(c, None)
  /\ UNCHANGED <<active, conns, mu, serving, reval, closing, changes>>

(* The end of getConn.                                                     *)
Register(c) ==
  LET p == call[c].peer
      l == call[c].link
  IN /\ call[c].pc = "register"
     /\ IF closed
          THEN /\ link' = [link EXCEPT ![l] = Down]
               /\ Return(c, None) /\ UNCHANGED conns
        ELSE IF conns[p] # None
          THEN /\ link' = [link EXCEPT ![l] = Down]
               /\ call' = [call EXCEPT ![c].pc = "lock", ![c].link = conns[p]]
               /\ UNCHANGED conns
          ELSE /\ conns' = [conns EXCEPT ![p] = l]
               /\ call' = [call EXCEPT ![c].pc = "lock"]
               /\ UNCHANGED link
     /\ UNCHANGED <<active, mu, serving, reval, closing, changes>>

Free(l) == mu[l] = None

(* The request, with the snapshot's data, is written under peerConn.mu.    *)
Send(c) ==
  LET l == call[c].link
  IN /\ call[c].pc = "lock" /\ Free(l)
     /\ IF link[l].st = "open"
          THEN /\ mu' = [mu EXCEPT ![l] = c]
               /\ link' = [link EXCEPT ![l].wire = Append(@, c)]
               /\ call' = [call EXCEPT ![c].pc = "reading"]
               /\ UNCHANGED conns
          ELSE /\ dropConn(call[c].peer, l)
               /\ Return(c, None) /\ UNCHANGED mu
     /\ UNCHANGED <<active, serving, reval, closing, changes>>

(* readResponse: a response, also one that carries an error, is returned;  *)
(* one that cannot be decoded drops the connection.                        *)
ReadResponse(c) ==
  LET l == call[c].link
  IN /\ call[c].pc = "reading" /\ link[l].st = "open" /\ link[l].replies # << >>
     /\ \/ /\ link' = [link EXCEPT ![l].replies = Tail(@)]
           /\ Return(c, Head(link[l].replies)) /\ UNCHANGED conns
        \/ dropConn(call[c].peer, l) /\ Return(c, None)
     /\ mu' = [mu EXCEPT ![l] = None]
     /\ UNCHANGED <<active, serving, reval, closing, changes>>

ReadFails(c) ==
  /\ call[c].pc = "reading" /\ link[call[c].link].st # "open"
  /\ dropConn(call[c].peer, call[c].link)
  /\ mu' = [mu EXCEPT ![call[c].link] = None]
  /\ Return(c, None)
  /\ UNCHANGED <<active, serving, reval, closing, changes>>

Caller(c) == \/ Dial(c) \/ Register(c) \/ Send(c) \/ ReadResponse(c) \/ ReadFails(c)

----------------------------------------------------------------------------
(* revalidateLoop: a copy of the table, then one peer after the other.     *)

Revalidate ==
  /\ reval = {} /\ ~shutdown
  /\ reval' = {<<p, conns[p]>> : p \in {q \in Peers : conns[q] # None}}
  /\ UNCHANGED <<active, dialing, serving, closing, changes>>

RevalidateOne ==
  \E e \in reval :
    /\ reval' = reval \ {e}
    /\ IF active[e[1]] THEN UNCHANGED <<conns, link>> ELSE dropConn(e[1], e[2])
    /\ UNCHANGED <<active, mu, call, serving, closing, changes>>

----------------------------------------------------------------------------
(* serve and serveConn.                                                    *)

Step(i, pc) == inb' = [inb EXCEPT ![i].pc = pc]

(* Every return of serveConn: the deferred calls close and unregister.     *)
Leave(i) ==
  /\ inb' = [inb EXCEPT ![i].pc = "gone", ![i].st = "closed"]
  /\ accepted' = accepted \ {i}

(* serve: wg.Add and a goroutine, until the listener is closed.            *)
Accept(i) ==
  /\ closer \in {"open", "marked", "shutdown"} /\ inb[i].pc = "none"
  /\ Step(i, "started")
  /\ UNCHANGED <<active, dialing, accepted, reval, closing, changes>>

(* serveConn registers its connection.                                     *)
InRegister(i) ==
  /\ inb[i].pc = "started"
  /\ accepted' = accepted \cup {i}
  /\ Step(i, "auth")
  /\ UNCHANGED <<active, dialing, reval, closing, changes>>

(* The peer's handshake arrives and Authenticate decides.                  *)
InAuth(i) ==
  /\ inb[i].pc = "auth" /\ inb[i].st = "open"
  /\ \/ /\ \E p \in Peers : /\ active[p]
                            /\ inb' = [inb EXCEPT ![i].pc = "serving", ![i].peer = p]
        /\ UNCHANGED accepted
     \/ Leave(i)
  /\ UNCHANGED <<active, dialing, reval, closing, changes>>

(* A request arrives, or something that is not one.                        *)
InFrame(i) ==
  /\ inb[i].pc = "serving" /\ inb[i].st = "open"
  /\ \/ Step(i, "offer") /\ UNCHANGED accepted
     \/ Leave(i)
  /\ UNCHANGED <<active, dialing, reval, closing, changes>>

(* raft takes the request and answers it.                                  *)
InConsume(i) ==
  /\ inb[i].pc = "offer"
  /\ Step(i, "await")
  /\ UNCHANGED <<active, dialing, accepted, reval, closing, changes>>

InRespond(i) ==
  /\ inb[i].pc = "await"
  /\ IF inb[i].st = "open" THEN Step(i, "serving") /\ UNCHANGED accepted
                           ELSE Leave(i)
  /\ UNCHANGED <<active, dialing, reval, closing, changes>>

(* Both selects of the loop also watch shutdown.                           *)
InShutdown(i) ==
  /\ inb[i].pc \in {"offer", "await"} /\ shutdown
  /\ Leave(i)
  /\ UNCHANGED <<active, dialing, reval, closing, changes>>

(* A read fails once the connection is closed by either side.              *)
InReadFails(i) ==
  /\ inb[i].pc \in {"auth", "serving"} /\ inb[i].st = "closed"
  /\ Leave(i)
  /\ UNCHANGED <<active, dialing, reval, closing, changes>>

(* The revalidation goroutine of the connection.                           *)
InTick(i) ==
  /\ inb[i].pc \in {"serving", "offer", "await"} /\ inb[i].st = "open"
  /\ ~active[inb[i].peer]
  /\ inb' = [inb EXCEPT ![i].st = "closed"]
  /\ UNCHANGED <<active, dialing, accepted, reval, closing, changes>>

----------------------------------------------------------------------------
(* Close.                                                                  *)

CloseMark ==
  /\ closer = "open"
  /\ closer' = "marked"
  /\ copied' = [conns |-> {conns[p] : p \in Peers} \ {None}, accepted |-> accepted]
  /\ conns' = [p \in Peers |-> None]
  /\ UNCHANGED <<active, link, mu, call, serving, reval, changes>>

CloseShutdown ==
  /\ closer = "marked" /\ closer' = "shutdown"
  /\ UNCHANGED <<active, dialing, serving, reval, copied, changes>>

CloseListener ==
  /\ closer = "shutdown" /\ closer' = "unlistened"
  /\ UNCHANGED <<active, dialing, serving, reval, copied, changes>>

CloseLinks ==
  /\ closer = "unlistened" /\ closer' = "waiting"
  /\ link' = [l \in Links |-> IF l \in copied.conns
                              THEN Down ELSE link[l]]
  /\ inb' = [i \in Accepts |-> IF i \in copied.accepted
                               THEN [inb[i] EXCEPT !.st = "closed"] ELSE inb[i]]
  /\ UNCHANGED <<active, conns, mu, call, accepted, reval, copied, changes>>

(* wg.Wait: serve, revalidateLoop and every serveConn have returned.       *)
CloseReturn ==
  /\ closer = "waiting" /\ reval = {}
  /\ \A i \in Accepts : inb[i].pc \in {"none", "gone"}
  /\ closer' = "returned"
  /\ UNCHANGED <<active, dialing, serving, reval, copied, changes>>

Close == \/ CloseMark \/ CloseShutdown \/ CloseListener \/ CloseLinks \/ CloseReturn

----------------------------------------------------------------------------
(* The environment.                                                        *)

Answer(l) ==
  /\ link[l].st = "open" /\ link[l].wire # << >>
  /\ link' = [link EXCEPT ![l].wire = Tail(@), ![l].replies = Append(@, Head(link[l].wire))]
  /\ UNCHANGED <<active, conns, mu, call, serving, reval, closing, changes>>

Break(l) ==
  /\ link[l].st = "open"
  /\ link' = [link EXCEPT ![l].st = "broken"]
  /\ UNCHANGED <<active, conns, mu, call, serving, reval, closing, changes>>

PeerCloses(i) ==
  /\ inb[i].pc \notin {"none", "gone"} /\ inb[i].st = "open"
  /\ inb' = [inb EXCEPT ![i].st = "closed"]
  /\ UNCHANGED <<active, dialing, accepted, reval, closing, changes>>

SetMember(p) ==
  /\ changes < MaxChanges
  /\ changes' = changes + 1
  /\ active' = [active EXCEPT ![p] = ~@]
  /\ UNCHANGED <<dialing, serving, reval, closing>>

Next ==
  \/ \E c \in Callers, p \in Peers : Lookup(c, p)
  \/ \E c \in Callers : Caller(c) \/ HandshakeOk(c) \/ HandshakeFails(c)
  \/ Revalidate \/ RevalidateOne \/ Close
  \/ \E i \in Accepts :
       \/ Accept(i) \/ InRegister(i) \/ InAuth(i) \/ InFrame(i) \/ InConsume(i)
       \/ InRespond(i) \/ InShutdown(i) \/ InReadFails(i) \/ InTick(i)
       \/ PeerCloses(i)
  \/ \E l \in Links : Answer(l) \/ Break(l)
  \/ \E p \in Peers : SetMember(p)

Spec == Init /\ [][Next]_vars

(* Local goroutines and tickers run and Close, once called, goes on.       *)
(* Nothing is assumed of peers, of raft behind the consumer channel, or of *)
(* membership, and nobody is assumed to call Close.                        *)
FairSpec ==
  /\ Spec
  /\ WF_vars(Revalidate \/ RevalidateOne) /\ WF_vars(closed /\ Close)
  /\ \A c \in Callers : WF_vars(Caller(c))
  /\ \A i \in Accepts :
       /\ WF_vars(InRegister(i) \/ InReadFails(i) \/ InShutdown(i))
       /\ WF_vars(InTick(i))

----------------------------------------------------------------------------
(* Properties.                                                             *)

(* A request is answered by its own response, however many goroutines      *)
(* share the connection and whichever of them fail (roundTrip).            *)
OwnResponse == \A c \in Callers : call[c].got \in {None, c}

(* A dialed connection that is not closed belongs to somebody: it is       *)
(* registered in a transport that is not closed, still being dialed, or on *)
(* the list Close works through, even when two callers dialed the peer or  *)
(* a dial was on its way while Close ran (the checks in getConn).          *)
NoLinkLeaks ==
  \A l \in Links : link[l].st \in {"open", "broken"} =>
    \/ ~closed /\ conns[link[l].peer] = l
    \/ \E c \in Callers : call[c].pc \in {"handshake", "register"} /\ call[c].link = l
    \/ closer \in {"marked", "shutdown", "unlistened"} /\ l \in copied.conns

(* A working connection is not lost because a caller or the revalidation   *)
(* loop still holds the one it replaced (the comparison in dropConn).      *)
OnlyOwnDrop ==
  \A p \in Peers : conns[p] # None /\ conns'[p] # conns[p] =>
    link'[conns[p]].st = "closed" \/ closer' # closer
HealthyConnStays == [][OnlyOwnDrop]_vars

Quiet(p) ==
  /\ conns[p] = None \/ link[conns[p]].st # "open"
  /\ \A c \in Callers : call[c].peer = p => call[c].pc \notin {"lock", "reading"}
  /\ \A i \in Accepts : inb[i].peer = p => inb[i].st = "closed"

(* "established connections are revalidated (and dropped) ... directional  *)
(* in BOTH directions": once a peer stays inactive, no connection with it  *)
(* is used any more and nobody waits on one, also one whose handshake was  *)
(* under way when the membership changed.                                  *)
RevokedQuiesces == \A p \in Peers : <>[](~active[p]) => <>[](Quiet(p))

(* What Close closes is released: its accepted connections' goroutines     *)
(* return and no caller stays in a request.                                *)
CloseReleases ==
  /\ \A i \in Accepts : closer = "waiting" /\ i \in copied.accepted ~> inb[i].pc = "gone"
  /\ \A c \in Callers : closed ~> call[c].pc \notin {"lock", "reading"}

(* Both: a revocation and Close end what they are about.                   *)
ConnectionsEnd == RevokedQuiesces /\ CloseReleases

(* Close "closing the listener and every accepted and dialed connection so *)
(* no serve goroutine is left blocked": it returns.                        *)
CloseReturns == closer = "waiting" ~> closer = "returned"

============================================================================
