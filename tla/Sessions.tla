------------------------------ MODULE Sessions ------------------------------
(***************************************************************************)
(* The session store of auth/sessions.go: the attempt limiter, sessions    *)
(* bounded per account, their revocation, second-factor challenges, and    *)
(* the copy that is saved after every change and loaded at a restart.      *)
(*                                                                         *)
(* Every method runs under the store's mutex; a login is three critical    *)
(* sections (Limited, Fail or CreateSession) with the password check of    *)
(* the product between them; with a second factor it ends in a challenge,  *)
(* which another request takes and answers.  Every account has one         *)
(* identity.  Cookies and tokens are the session's id.                     *)
(*                                                                         *)
(* tokens, unsaved, redeemed and a login's via and since are not in the    *)
(* code: since is when the request's credentials were found good.          *)
(***************************************************************************)
EXTENDS Naturals, FiniteSets

CONSTANTS Accounts, Ips,
          Clients,                \* concurrent login requests
          Ids,                    \* random tokens (a bound)
          MaxSessionsPerAccount, SessionTTL, MaxFailures, FailureWindow, ChallengeTTL,
          MaxTime,                \* bound on the clock
          MaxSaveErrors,          \* bound on failing saves
          None

ASSUME OptionsAssumption ==
  /\ MaxSessionsPerAccount \in Nat \ {0} /\ SessionTTL \in Nat \ {0}
  /\ MaxFailures \in Nat \ {0} /\ FailureWindow \in Nat \ {0} /\ ChallengeTTL \in Nat \ {0}
ASSUME ClientsAssumption == IsFiniteSet(Clients)
ASSUME BoundAssumption == MaxTime \in Nat /\ MaxSaveErrors \in Nat

VARIABLES now,
          sessions,    \* the sessions in memory
          disk,        \* the sessions last saved
          failures,    \* failures[ip]: failed attempts, by time and number
          challenges,  \* the challenges not yet taken
          tokens,      \* ids that have been handed out
          redeemed,    \* challenges that led to a session
          login,       \* login[c]: a login request
          active,      \* accounts whose principal is active
          saveErrors,
          unsaved      \* the last save failed

challengeVars == <<challenges, tokens, redeemed>>
store == <<sessions, disk, failures, challengeVars>>
vars == <<now, store, login, active, saveErrors, unsaved>>

Session == [id : Ids, account : Accounts, created : Nat, expires : Nat]
Challenge == [id : Ids, account : Accounts, ip : Ips, expires : Nat]
FailedAttempt == Nat \X Nat
NoLogin == [pc |-> "idle", ip |-> None, account |-> None, via |-> None, since |-> 0]

Init ==
  /\ now = 0
  /\ sessions = {} /\ disk = {} /\ challenges = {} /\ tokens = {} /\ redeemed = {}
  /\ failures = [ip \in Ips |-> {}]
  /\ login = [c \in Clients |-> NoLogin]
  /\ active = Accounts
  /\ saveErrors = 0 /\ unsaved = FALSE

(* The types of all variables.                                             *)
TypeOK ==
  /\ now \in 0 .. MaxTime
  /\ sessions \subseteq Session /\ disk \subseteq Session
  /\ challenges \subseteq Challenge /\ tokens \subseteq Ids /\ redeemed \subseteq tokens
  /\ failures \in [Ips -> SUBSET FailedAttempt]
  /\ login \in [Clients -> [pc : {"idle", "checking", "create"},
                            ip : Ips \cup {None}, account : Accounts \cup {None},
                            via : Ids \cup {None}, since : 0 .. MaxTime]]
  /\ active \subseteq Accounts
  /\ saveErrors \in 0 .. MaxSaveErrors /\ unsaved \in BOOLEAN

Owned(S, a) == {s \in S : s.account = a}

----------------------------------------------------------------------------
(* Mutated forms of the definitions below.                                 *)

LogoutInMemory(id) ==
  /\ sessions' = {s \in sessions : s.id # id}
  /\ UNCHANGED <<now, disk, failures, challengeVars, login, active, saveErrors, unsaved>>

AttemptOffByOne(c, ip, a) ==
  LET recent == {f \in failures[ip] : f[1] + FailureWindow > now}
  IN /\ login[c].pc = "idle"
     /\ failures' = [failures EXCEPT ![ip] = recent]
     /\ login' = IF Cardinality(recent) > MaxFailures THEN login
                 ELSE [login EXCEPT ![c] = [NoLogin EXCEPT !.pc = "checking", !.ip = ip, !.account = a]]
     /\ UNCHANGED <<now, sessions, disk, challengeVars, active, saveErrors, unsaved>>

----------------------------------------------------------------------------
(* saveLocked: the persistence takes the copy or fails.                    *)
Save(S) ==
  \/ disk' = S /\ unsaved' = FALSE /\ UNCHANGED saveErrors
  \/ /\ saveErrors < MaxSaveErrors
     /\ saveErrors' = saveErrors + 1 /\ unsaved' = TRUE /\ UNCHANGED disk

(* The failures of ip inside the window.                                   *)
Recent(ip) == {f \in failures[ip] : f[1] + FailureWindow > now}

(* AuthenticatePassword up to the password check: Limited prunes.          *)
Attempt(c, ip, a) ==
  /\ login[c].pc = "idle"
  /\ failures' = [failures EXCEPT ![ip] = Recent(ip)]
  /\ login' = IF Cardinality(Recent(ip)) >= MaxFailures THEN login
              ELSE [login EXCEPT ![c] = [NoLogin EXCEPT !.pc = "checking", !.ip = ip, !.account = a]]
  /\ UNCHANGED <<now, sessions, disk, challengeVars, active, saveErrors, unsaved>>

(* The password check says no: Fail.  The attempts of one moment are       *)
(* numbered; the code appends the time to a list, whose order it ignores.  *)
Fail(c) ==
  /\ login[c].pc = "checking"
  /\ failures' = [failures EXCEPT ![login[c].ip] =
       @ \cup {<<now, Cardinality({f \in @ : f[1] = now}) + 1>>}]
  /\ login' = [login EXCEPT ![c] = NoLogin]
  /\ UNCHANGED <<now, sessions, disk, challengeVars, active, saveErrors, unsaved>>

(* It says yes, for an active account.                                     *)
Accepted(c) ==
  /\ login[c].pc = "checking" /\ login[c].account \in active
  /\ login' = [login EXCEPT ![c].pc = "create", ![c].since = now]
  /\ UNCHANGED <<now, store, active, saveErrors, unsaved>>

(* What CreateSession may keep of the account's sessions: the most recent, *)
(* one place left for the new one; ties are broken arbitrarily.            *)
Kept(S, a) ==
  LET owned == Owned(S, a)
  IN {K \in SUBSET owned :
        /\ Cardinality(K) <= MaxSessionsPerAccount - 1
        /\ K = owned \/ Cardinality(K) = MaxSessionsPerAccount - 1
        /\ \A k \in K, s \in owned \ K : s.created <= k.created}

(* CreateSession; the session stays in memory when the save fails.  The    *)
(* clock is read before the lock is taken, and the request may wait for    *)
(* the lock: `at` is any moment since the credentials were found good.     *)
CreateSession(c, id) ==
  /\ login[c].pc = "create" /\ id \notin tokens
  /\ \E at \in login[c].since .. now :
       LET a == login[c].account
           live == {s \in sessions : s.expires >= at}
           new == [id |-> id, account |-> a, created |-> at, expires |-> at + SessionTTL]
       IN \E K \in Kept(live, a) :
            /\ sessions' = (live \ Owned(live, a)) \cup K \cup {new}
            /\ Save((live \ Owned(live, a)) \cup K \cup {new})
  /\ tokens' = tokens \cup {id} /\ redeemed' = redeemed \cup ({login[c].via} \ {None})
  /\ failures' = [failures EXCEPT ![login[c].ip] = {}]
  /\ login' = [login EXCEPT ![c] = NoLogin]
  /\ UNCHANGED <<now, challenges, active>>

----------------------------------------------------------------------------
(* Second factors.                                                         *)

(* BeginChallenge, when the product wants a second factor for the login.   *)
BeginChallenge(c, id) ==
  /\ login[c].pc = "create" /\ login[c].via = None /\ id \notin tokens
  /\ challenges' = {ch \in challenges : ch.expires >= now}
                     \cup {[id |-> id, account |-> login[c].account, ip |-> login[c].ip,
                           expires |-> now + ChallengeTTL]}
  /\ tokens' = tokens \cup {id}
  /\ login' = [login EXCEPT ![c] = NoLogin]
  /\ UNCHANGED <<now, sessions, disk, failures, redeemed, active, saveErrors, unsaved>>

(* TakeChallenge: a challenge is gone after its first use, a late one and  *)
(* one from another address included; an unknown one is refused and        *)
(* changes nothing.                                                        *)
TakeChallenge(c, ch, ip) ==
  /\ login[c].pc = "idle"
  /\ challenges' = challenges \ {ch}
  /\ login' = IF now <= ch.expires /\ ch.ip = ip
              THEN [login EXCEPT ![c] = [pc |-> "create", ip |-> ip,
                                         account |-> ch.account, via |-> ch.id,
                                         since |-> now]]
              ELSE login
  /\ UNCHANGED <<now, sessions, disk, failures, tokens, redeemed, active, saveErrors, unsaved>>

(* The product's check of the second factor says no.                       *)
Refuse(c) ==
  /\ login[c].pc = "create" /\ login[c].via # None
  /\ login' = [login EXCEPT ![c] = NoLogin]
  /\ UNCHANGED <<now, store, active, saveErrors, unsaved>>

----------------------------------------------------------------------------
(* Removing sessions.  The error of the save is ignored.                   *)

Remove(gone) ==
  /\ sessions' = sessions \ gone
  /\ Save(sessions \ gone)
  /\ UNCHANGED <<now, failures, challengeVars, login, active>>

(* Get: a session that is unknown, expired or inactive is removed.         *)
Get(id) ==
  /\ ~ \E s \in sessions : s.id = id /\ now <= s.expires /\ s.account \in active
  /\ Remove({s \in sessions : s.id = id})

Logout(id) == Remove({s \in sessions : s.id = id})

RevokeAll == Remove(sessions)

RevokeAccount(a) == Remove(Owned(sessions, a))

RevokeIdentityExcept(a, keep) ==
  Remove({s \in Owned(sessions, a) : s.id # keep})

RevokeSession(a, id) ==
  /\ \E s \in Owned(sessions, a) : s.id = id
  /\ Remove({s \in Owned(sessions, a) : s.id = id})

(* ListSessions drops what has expired, and does not save.                 *)
ListSessions ==
  /\ sessions' = {s \in sessions : s.expires >= now}
  /\ UNCHANGED <<now, disk, failures, challengeVars, login, active, saveErrors, unsaved>>

(* SnapshotSessions saves when it has dropped something.                   *)
SnapshotSessions ==
  LET gone == {s \in sessions : s.expires <= now}
  IN gone # {} /\ Remove(gone)

----------------------------------------------------------------------------
(* The process restarts: NewSessionStore loads what is not expired.        *)
Restart ==
  /\ sessions' = {s \in disk : s.expires > now}
  /\ failures' = [ip \in Ips |-> {}] /\ challenges' = {}
  /\ login' = [c \in Clients |-> NoLogin]
  /\ UNCHANGED <<now, disk, tokens, redeemed, active, saveErrors, unsaved>>

Tick ==
  /\ now < MaxTime /\ now' = now + 1
  /\ UNCHANGED <<store, login, active, saveErrors, unsaved>>

(* The product changes whether an account's principal is active.           *)
SetActive(a) ==
  /\ active' = IF a \in active THEN active \ {a} ELSE active \cup {a}
  /\ UNCHANGED <<now, store, login, saveErrors, unsaved>>

Next ==
  \/ \E c \in Clients, ip \in Ips, a \in Accounts : Attempt(c, ip, a)
  \/ \E c \in Clients : Fail(c) \/ Accepted(c) \/ Refuse(c)
  \/ \E c \in Clients, id \in Ids : CreateSession(c, id) \/ BeginChallenge(c, id)
  \/ \E c \in Clients, ch \in challenges, ip \in Ips \cup {None} : TakeChallenge(c, ch, ip)
  \/ \E id \in Ids : Get(id) \/ Logout(id)
  \/ \E a \in Accounts, id \in Ids : RevokeSession(a, id) \/ RevokeIdentityExcept(a, id)
  \/ \E a \in Accounts : RevokeAccount(a) \/ SetActive(a)
  \/ RevokeAll \/ ListSessions \/ SnapshotSessions \/ Restart \/ Tick

Spec == Init /\ [][Next]_vars

----------------------------------------------------------------------------
(* Properties.                                                             *)

(* "Browser sessions are server-side, bounded per account": in memory and  *)
(* on disk, whatever logins, restarts and failing saves come together.     *)
SessionsBounded ==
  \A a \in Accounts : /\ Cardinality(Owned(sessions, a)) <= MaxSessionsPerAccount
                      /\ Cardinality(Owned(disk, a)) <= MaxSessionsPerAccount

(* "revocable": a session that was removed comes back only at a restart    *)
(* whose last save failed; otherwise sessions appear once, with a new      *)
(* token.                                                                  *)
ReturnsExcused ==
  \A s \in sessions' \ sessions : s.id \notin tokens \/ unsaved
RevokedStaysRevoked == [][ReturnsExcused]_vars

(* A login takes no session from another account, from its own only the    *)
(* oldest of those it finds, and only when the account is full.  Of two    *)
(* logins at once, the one with the older reading of the clock may enter   *)
(* last: it then evicts a session younger than its own.                    *)
EvictionFair ==
  tokens' # tokens => \A s \in sessions \ sessions' : s.expires >= now =>
    /\ \A n \in sessions' \ sessions : n.account = s.account
    /\ \A k \in Owned(sessions', s.account) \cap sessions : s.created <= k.created
    /\ Cardinality(Owned(sessions', s.account)) = MaxSessionsPerAccount
OldestEvicted == [][EvictionFair]_vars

(* Limited and Fail are two critical sections: requests that run at the    *)
(* same time exceed MaxFailures, but by no more than their number.         *)
FailuresBounded ==
  \A ip \in Ips :
    Cardinality(Recent(ip)) + Cardinality({c \in Clients : login[c].pc = "checking"
                                                   /\ login[c].ip = ip})
      <= MaxFailures + Cardinality(Clients) - 1

(* A challenge starts one session at most, although its answer is sent by  *)
(* several requests at once, and none that answers it is still to come     *)
(* after that.                                                             *)
ChallengeOnce ==
  \A c \in Clients : login[c].via # None =>
    /\ login[c].via \notin redeemed \cup {ch.id : ch \in challenges}
    /\ \A d \in Clients \ {c} : login[d].via # login[c].via

(* Both: what the store keeps is bounded, in memory and on disk.           *)
StoreBounded == SessionsBounded /\ FailuresBounded

(* All three: sessions disappear and appear only as they should.           *)
SessionsKept == RevokedStaysRevoked /\ OldestEvicted /\ []ChallengeOnce

============================================================================
