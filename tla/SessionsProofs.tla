--------------------------- MODULE SessionsProofs ---------------------------
(***************************************************************************)
(* Proofs about the module Sessions: for any number of accounts, addresses *)
(* and tokens, any options, and any number of login requests at once.      *)
(***************************************************************************)
EXTENDS Sessions, FiniteSetTheorems, TLAPS

LoginState == [pc : {"idle", "checking", "create"}, ip : Ips \cup {None},
               account : Accounts \cup {None}, via : Ids \cup {None}, since : Nat]

(* A login that is under way has an address and an account.                *)
LoginTypes ==
  /\ now \in Nat /\ unsaved \in BOOLEAN
  /\ login \in [Clients -> LoginState]
  /\ \A c \in Clients : login[c].pc # "idle" => login[c].ip \in Ips /\ login[c].account \in Accounts
  /\ challenges \in SUBSET Challenge

LEMMA OptionFacts ==
  /\ MaxSessionsPerAccount \in Nat /\ MaxSessionsPerAccount >= 1 /\ MaxFailures \in Nat
  /\ MaxFailures >= 1 /\ FailureWindow \in Nat /\ SessionTTL \in Nat /\ ChallengeTTL \in Nat
  /\ IsFiniteSet(Clients) /\ Cardinality(Clients) \in Nat
BY OptionsAssumption, ClientsAssumption, FS_CardinalityType

LEMMA LoginFacts ==
  NoLogin \in LoginState /\ NoLogin.pc = "idle" /\ NoLogin.via = None
BY DEF NoLogin, LoginState

LEMMA TypesInit == Init => LoginTypes
<1> SUFFICES ASSUME Init PROVE LoginTypes
  OBVIOUS
<1>1. login = [c \in Clients |-> NoLogin] /\ now = 0 /\ challenges = {}
  BY DEF Init
<1>2. unsaved \in BOOLEAN
  BY DEF Init
<1>3. QED
  BY <1>1, <1>2, LoginFacts DEF LoginTypes

(* The login of one client becomes l.                                      *)
LEMMA LoginStep ==
  ASSUME LoginTypes, NEW c \in Clients, NEW l \in LoginState,
         l.pc # "idle" => l.ip \in Ips /\ l.account \in Accounts,
         login' = [login EXCEPT ![c] = l] \/ login' = login
  PROVE  /\ login' \in [Clients -> LoginState]
         /\ \A d \in Clients : login'[d].pc # "idle" =>
              login'[d].ip \in Ips /\ login'[d].account \in Accounts
BY DEF LoginTypes

LEMMA TypesNext == LoginTypes /\ [Next]_vars => LoginTypes'
<1> SUFFICES ASSUME LoginTypes, [Next]_vars PROVE LoginTypes'
  OBVIOUS
<1> USE LoginFacts, OptionFacts
<1>1. ASSUME NEW c \in Clients, NEW ip \in Ips, NEW a \in Accounts, Attempt(c, ip, a)
      PROVE  LoginTypes'
  <2> DEFINE l == [NoLogin EXCEPT !.pc = "checking", !.ip = ip, !.account = a]
  <2>1. l \in LoginState /\ l.ip = ip /\ l.account = a
    BY DEF LoginState
  <2>2. /\ login' = [login EXCEPT ![c] = l] \/ login' = login
        /\ UNCHANGED <<now, unsaved, challenges>>
    BY <1>1 DEF Attempt, challengeVars
  <2> HIDE DEF l
  <2>3. QED
    BY <2>1, <2>2, LoginStep DEF LoginTypes
<1>2. ASSUME NEW c \in Clients, Fail(c) \/ Refuse(c) PROVE LoginTypes'
  <2>1. login' = [login EXCEPT ![c] = NoLogin] /\ UNCHANGED <<now, unsaved, challenges>>
    BY <1>2 DEF Fail, Refuse, challengeVars, store
  <2>2. QED
    BY <2>1, LoginStep DEF LoginTypes
<1>3. ASSUME NEW c \in Clients, Accepted(c) PROVE LoginTypes'
  <2> DEFINE l == [login[c] EXCEPT !.pc = "create", !.since = now]
  <2>1. /\ login' = [login EXCEPT ![c] = l] /\ login[c].pc = "checking"
        /\ UNCHANGED <<now, unsaved, challenges>>
    BY <1>3 DEF Accepted, challengeVars, store
  <2>2. l \in LoginState /\ l.ip = login[c].ip /\ l.account = login[c].account
    BY DEF LoginTypes, LoginState
  <2>3. l.ip \in Ips /\ l.account \in Accounts
    BY <2>1, <2>2 DEF LoginTypes
  <2> HIDE DEF l
  <2>4. QED
    BY <2>1, <2>2, <2>3, LoginStep DEF LoginTypes
<1>4. ASSUME NEW c \in Clients, NEW id \in Ids, CreateSession(c, id) PROVE LoginTypes'
  <2>1. login' = [login EXCEPT ![c] = NoLogin] /\ UNCHANGED <<now, challenges>>
    BY <1>4 DEF CreateSession
  <2>2. unsaved' \in BOOLEAN
    BY <1>4 DEF CreateSession, Save
  <2>3. QED
    BY <2>1, <2>2, LoginStep DEF LoginTypes
<1>5. ASSUME NEW c \in Clients, NEW id \in Ids, BeginChallenge(c, id) PROVE LoginTypes'
  <2> DEFINE new == [id |-> id, account |-> login[c].account, ip |-> login[c].ip,
                     expires |-> now + ChallengeTTL]
  <2>1. /\ login[c].pc = "create" /\ login' = [login EXCEPT ![c] = NoLogin]
        /\ challenges' = {ch \in challenges : ch.expires >= now} \cup {new}
        /\ UNCHANGED <<now, unsaved>>
    BY <1>5 DEF BeginChallenge
  <2>2. new \in Challenge
    BY <2>1 DEF LoginTypes, Challenge
  <2> HIDE DEF new
  <2>3. challenges' \in SUBSET Challenge
    BY <2>1, <2>2 DEF LoginTypes
  <2>4. QED
    BY <2>1, <2>3, LoginStep DEF LoginTypes
<1>6. ASSUME NEW c \in Clients, NEW ch \in challenges, NEW ip \in Ips \cup {None},
             TakeChallenge(c, ch, ip)
      PROVE  LoginTypes'
  <2> DEFINE l == [pc |-> "create", ip |-> ch.ip, account |-> ch.account, via |-> ch.id,
                   since |-> now]
  <2>1. ch \in Challenge
    BY DEF LoginTypes
  <2>2. l \in LoginState /\ l.ip \in Ips /\ l.account \in Accounts
    BY <2>1 DEF LoginState, Challenge, LoginTypes
  <2>3. /\ login' = [login EXCEPT ![c] = l] \/ login' = login
        /\ challenges' \in SUBSET Challenge /\ UNCHANGED <<now, unsaved>>
    BY <1>6 DEF TakeChallenge, LoginTypes
  <2> HIDE DEF l
  <2>4. QED
    BY <2>2, <2>3, LoginStep DEF LoginTypes
<1>7. ASSUME NEW gone, Remove(gone) PROVE LoginTypes'
  <2>1. UNCHANGED <<now, login, challenges>> /\ unsaved' \in BOOLEAN
    BY <1>7 DEF Remove, Save, challengeVars, LoginTypes
  <2>2. QED
    BY <2>1 DEF LoginTypes
<1>8. ASSUME Restart PROVE LoginTypes'
  <2>1. login' = [c \in Clients |-> NoLogin] /\ challenges' = {} /\ UNCHANGED <<now, unsaved>>
    BY <1>8 DEF Restart
  <2>2. QED
    BY <2>1 DEF LoginTypes
<1>9. ASSUME Tick PROVE LoginTypes'
  <2>1. now' = now + 1 /\ UNCHANGED <<login, unsaved, challenges>>
    BY <1>9 DEF Tick, store, challengeVars
  <2>2. QED
    BY <2>1 DEF LoginTypes
<1>10. ASSUME UNCHANGED <<now, login, unsaved, challenges>> PROVE LoginTypes'
  BY <1>10 DEF LoginTypes
<1>11. ListSessions => UNCHANGED <<now, login, unsaved, challenges>>
  BY DEF ListSessions, challengeVars
<1>12. \A a \in Accounts : SetActive(a) => UNCHANGED <<now, login, unsaved, challenges>>
  BY DEF SetActive, store, challengeVars
<1>13. UNCHANGED vars => UNCHANGED <<now, login, unsaved, challenges>>
  BY DEF vars, store, challengeVars
<1>14. QED
  BY <1>1, <1>2, <1>3, <1>4, <1>5, <1>6, <1>7, <1>8, <1>9, <1>10, <1>11, <1>12, <1>13
     DEF Next, Get, Logout, RevokeSession, RevokeIdentityExcept, RevokeAccount, RevokeAll,
         SnapshotSessions

----------------------------------------------------------------------------
(* The attempt limiter.                                                    *)

Checking(ip) == {c \in Clients : login[c].pc = "checking" /\ login[c].ip = ip}
Limit(ip) ==
  /\ IsFiniteSet(failures[ip]) /\ \A f \in failures[ip] : f[1] \in Nat
  /\ Cardinality(Recent(ip)) + Cardinality(Checking(ip)) <= MaxFailures + Cardinality(Clients) - 1
LimitInv == DOMAIN failures = Ips /\ \A ip \in Ips : Limit(ip)

LEMMA CountFacts ==
  ASSUME NEW ip \in Ips, IsFiniteSet(failures[ip])
  PROVE  /\ IsFiniteSet(Recent(ip)) /\ Cardinality(Recent(ip)) \in Nat
         /\ IsFiniteSet(Checking(ip)) /\ Cardinality(Checking(ip)) \in Nat
         /\ Cardinality(Checking(ip)) <= Cardinality(Clients)
<1>1. Recent(ip) \in SUBSET failures[ip] /\ Checking(ip) \in SUBSET Clients
  BY DEF Recent, Checking
<1>2. IsFiniteSet(Recent(ip)) /\ IsFiniteSet(Checking(ip))
      /\ Cardinality(Checking(ip)) <= Cardinality(Clients)
  BY <1>1, OptionFacts, FS_Subset
<1>3. QED
  BY <1>2, FS_CardinalityType

(* Fewer recent failures and fewer requests at the password check.         *)
LEMMA LimitFalls ==
  ASSUME NEW ip \in Ips, Limit(ip), IsFiniteSet(failures'[ip]),
         \A f \in failures'[ip] : f[1] \in Nat,
         Recent(ip)' \in SUBSET Recent(ip), Checking(ip)' \in SUBSET Checking(ip)
  PROVE  Limit(ip)'
<1>1. /\ IsFiniteSet(Recent(ip)) /\ Cardinality(Recent(ip)) \in Nat
      /\ IsFiniteSet(Checking(ip)) /\ Cardinality(Checking(ip)) \in Nat
  BY CountFacts DEF Limit
<1>2. /\ IsFiniteSet(Recent(ip)') /\ Cardinality(Recent(ip)') <= Cardinality(Recent(ip))
      /\ IsFiniteSet(Checking(ip)') /\ Cardinality(Checking(ip)') <= Cardinality(Checking(ip))
  BY <1>1, FS_Subset
<1>3. Cardinality(Recent(ip)') \in Nat /\ Cardinality(Checking(ip)') \in Nat
  BY <1>2, FS_CardinalityType
<1>4. Cardinality(Recent(ip)') + Cardinality(Checking(ip)') <= MaxFailures + Cardinality(Clients) - 1
  BY <1>1, <1>2, <1>3, OptionFacts DEF Limit
<1>5. QED
  BY <1>4 DEF Limit

LEMMA LimitInit == Init => LimitInv
<1> SUFFICES ASSUME Init, NEW ip \in Ips PROVE Limit(ip)
  BY DEF Init, LimitInv
<1>1. failures[ip] = {} /\ \A c \in Clients : login[c].pc = "idle"
  BY LoginFacts DEF Init
<1>2. Recent(ip) = {} /\ Checking(ip) = {}
  BY <1>1 DEF Recent, Checking
<1>3. QED
  BY <1>1, <1>2, FS_EmptySet, OptionFacts DEF Limit

LEMMA LimitNext == LoginTypes /\ LimitInv /\ [Next]_vars => LimitInv'
<1> SUFFICES ASSUME LoginTypes, LimitInv, [Next]_vars PROVE LimitInv'
  OBVIOUS
<1> USE OptionFacts
<1>0. /\ DOMAIN failures = Ips /\ \A ip \in Ips : Limit(ip) /\ IsFiniteSet(failures[ip])
      /\ \A ip \in Ips : \A f \in failures[ip] : f[1] \in Nat
      /\ now \in Nat /\ login \in [Clients -> LoginState]
  BY DEF LimitInv, Limit, LoginTypes
<1>1. ASSUME NEW c \in Clients, NEW i \in Ips, NEW a \in Accounts, Attempt(c, i, a)
      PROVE  LimitInv'
  <2> DEFINE l == [NoLogin EXCEPT !.pc = "checking", !.ip = i, !.account = a]
  <2>1. l.pc = "checking" /\ l.ip = i
    BY DEF NoLogin
  <2>2. /\ failures' = [failures EXCEPT ![i] = Recent(i)] /\ now' = now
        /\ login' = IF Cardinality(Recent(i)) >= MaxFailures THEN login
                    ELSE [login EXCEPT ![c] = l]
        /\ login[c].pc = "idle"
    BY <1>1 DEF Attempt
  <2> HIDE DEF l
  <2>3. ASSUME NEW ip \in Ips PROVE Limit(ip)'
    <3>1. Recent(ip)' = Recent(ip)
      BY <1>0, <2>2 DEF Recent
    <3>2. IsFiniteSet(failures'[ip]) /\ \A f \in failures'[ip] : f[1] \in Nat
      BY <1>0, <2>2, CountFacts DEF Recent
    <3>3. CASE ip # i \/ Cardinality(Recent(i)) >= MaxFailures
      <4>1. Checking(ip)' = Checking(ip)
        BY <1>0, <2>1, <2>2, <3>3 DEF Checking
      <4>2. QED
        BY <1>0, <3>1, <3>2, <4>1, LimitFalls
    <3>4. CASE ip = i /\ ~(Cardinality(Recent(i)) >= MaxFailures)
      <4>1. Cardinality(Recent(ip)) \in Nat
        BY <1>0, CountFacts
      <4>2. Checking(ip)' \in SUBSET Clients
        BY DEF Checking
      <4>3. /\ Cardinality(Checking(ip)') <= Cardinality(Clients)
            /\ Cardinality(Checking(ip)') \in Nat
        BY <4>2, FS_Subset, FS_CardinalityType
      <4>4. Cardinality(Recent(ip)') + Cardinality(Checking(ip)')
              <= MaxFailures + Cardinality(Clients) - 1
        BY <3>1, <3>4, <4>1, <4>3
      <4>5. QED
        BY <3>2, <4>4 DEF Limit
    <3>5. QED
      BY <3>3, <3>4
  <2>4. QED
    BY <1>0, <2>2, <2>3 DEF LimitInv
<1>2. ASSUME NEW c \in Clients, Fail(c) PROVE LimitInv'
  <2>1. PICK i, f :
          /\ i \in Ips /\ f[1] \in Nat
          /\ login[c].pc = "checking" /\ login[c].ip = i /\ now' = now
          /\ failures' = [failures EXCEPT ![i] = failures[i] \cup {f}]
          /\ login' = [login EXCEPT ![c] = NoLogin]
    <3>1. login[c].pc = "checking" /\ login[c].ip \in Ips
      BY <1>2 DEF Fail, LoginTypes
    <3>2. PICK f : f = <<now, Cardinality({g \in failures[login[c].ip] : g[1] = now}) + 1>>
      OBVIOUS
    <3>3. f[1] \in Nat
      BY <1>0, <3>2
    <3>4. /\ failures' = [failures EXCEPT ![login[c].ip] = failures[login[c].ip] \cup {f}]
          /\ login' = [login EXCEPT ![c] = NoLogin] /\ now' = now
      BY <1>2, <3>2 DEF Fail
    <3>5. QED
      BY <3>1, <3>3, <3>4
  <2>2. ASSUME NEW ip \in Ips PROVE Limit(ip)'
    <3>1. IsFiniteSet(failures'[ip]) /\ \A g \in failures'[ip] : g[1] \in Nat
      BY <1>0, <2>1, FS_AddElement
    <3>2. Checking(ip)' = Checking(ip) \ {c}
      BY <1>0, <2>1, LoginFacts DEF Checking
    <3>3. CASE ip # i
      <4>1. Recent(ip)' = Recent(ip)
        BY <1>0, <2>1, <3>3 DEF Recent
      <4>2. QED
        BY <1>0, <3>1, <3>2, <4>1, LimitFalls
    <3>4. CASE ip = i
      <4>1. c \in Checking(ip)
        BY <2>1, <3>4 DEF Checking
      <4>2. Recent(ip)' \in SUBSET (Recent(ip) \cup {f})
        BY <1>0, <2>1, <3>4 DEF Recent
      <4>3. /\ IsFiniteSet(Recent(ip)) /\ Cardinality(Recent(ip)) \in Nat
            /\ IsFiniteSet(Checking(ip)) /\ Cardinality(Checking(ip)) \in Nat
        BY <1>0, CountFacts
      <4>4. Cardinality(Checking(ip)') = Cardinality(Checking(ip)) - 1
        BY <3>2, <4>1, <4>3, FS_RemoveElement
      <4>5. PICK T : T = Recent(ip) \cup {f}
        OBVIOUS
      <4>6. IsFiniteSet(T) /\ Cardinality(T) <= Cardinality(Recent(ip)) + 1
        <5>1. /\ IsFiniteSet(T)
              /\ Cardinality(T) = IF f \in Recent(ip) THEN Cardinality(Recent(ip))
                                  ELSE Cardinality(Recent(ip)) + 1
          BY <4>3, <4>5, FS_AddElement
        <5>2. QED
          BY <4>3, <5>1
      <4>7. /\ Cardinality(Recent(ip)') <= Cardinality(T) /\ IsFiniteSet(Recent(ip)')
        BY <4>2, <4>5, <4>6, FS_Subset
      <4>8. Cardinality(Recent(ip)') \in Nat /\ Cardinality(T) \in Nat
        BY <4>6, <4>7, FS_CardinalityType
      <4>9. Cardinality(Recent(ip)) + Cardinality(Checking(ip)) <= MaxFailures + Cardinality(Clients) - 1
        BY <1>0 DEF Limit
      <4>10. Cardinality(Recent(ip)') + Cardinality(Checking(ip)')
               <= MaxFailures + Cardinality(Clients) - 1
        BY <4>3, <4>4, <4>6, <4>7, <4>8, <4>9
      <4>11. QED
        BY <3>1, <4>10 DEF Limit
    <3>5. QED
      BY <3>3, <3>4
  <2>3. QED
    BY <1>0, <2>1, <2>2 DEF LimitInv
<1>3. ASSUME \A d \in Clients : login'[d].pc = "checking" => login'[d] = login[d],
             DOMAIN failures' = Ips, \A ip \in Ips : failures'[ip] = failures[ip] \/ failures'[ip] = {},
             now' \in {now, now + 1}
      PROVE  LimitInv'
  <2>1. ASSUME NEW ip \in Ips PROVE Limit(ip)'
    <3>1. IsFiniteSet(failures'[ip]) /\ \A f \in failures'[ip] : f \in failures[ip] /\ f[1] \in Nat
      BY <1>0, <1>3, FS_EmptySet
    <3>2. Recent(ip)' \in SUBSET Recent(ip)
      <4>1. now' \in Nat /\ now <= now'
        BY <1>0, <1>3
      <4>2. ASSUME NEW f \in failures[ip], f[1] + FailureWindow > now'
            PROVE  f[1] + FailureWindow > now
        BY <1>0, <4>1, <4>2
      <4>3. QED
        BY <3>1, <4>2 DEF Recent
    <3>3. Checking(ip)' \in SUBSET Checking(ip)
      BY <1>0, <1>3 DEF Checking
    <3>4. QED
      BY <1>0, <3>1, <3>2, <3>3, LimitFalls
  <2>2. QED
    BY <1>3, <2>1 DEF LimitInv
<1>4. ASSUME NEW c \in Clients, Accepted(c) \/ Refuse(c) PROVE LimitInv'
  <2>1. /\ UNCHANGED <<failures, now>>
        /\ \/ login' = [login EXCEPT ![c] = NoLogin]
           \/ login' = [login EXCEPT ![c].pc = "create", ![c].since = now]
    BY <1>4 DEF Accepted, Refuse, store
  <2>2. \A d \in Clients : login'[d].pc = "checking" => login'[d] = login[d]
    BY <1>0, <2>1, LoginFacts DEF LoginState
  <2>3. QED
    BY <1>0, <1>3, <2>1, <2>2
<1>5. ASSUME NEW c \in Clients, NEW id \in Ids, CreateSession(c, id) \/ BeginChallenge(c, id)
      PROVE  LimitInv'
  <2>1. /\ now' = now /\ login' = [login EXCEPT ![c] = NoLogin]
        /\ failures' = failures \/ failures' = [failures EXCEPT ![login[c].ip] = {}]
    BY <1>5 DEF CreateSession, BeginChallenge
  <2>2. \A d \in Clients : login'[d].pc = "checking" => login'[d] = login[d]
    BY <1>0, <2>1, LoginFacts
  <2>3. QED
    BY <1>0, <1>3, <2>1, <2>2
<1>6. ASSUME NEW c \in Clients, NEW ch \in challenges, NEW ip \in Ips \cup {None},
             TakeChallenge(c, ch, ip)
      PROVE  LimitInv'
  <2>1. /\ UNCHANGED <<failures, now>>
        /\ \/ login' = login
           \/ login' = [login EXCEPT ![c] = [pc |-> "create", ip |-> ip, account |-> ch.account,
                                             via |-> ch.id, since |-> now]]
    BY <1>6 DEF TakeChallenge
  <2>2. \A d \in Clients : login'[d].pc = "checking" => login'[d] = login[d]
    BY <1>0, <2>1
  <2>3. QED
    BY <1>0, <1>3, <2>1, <2>2
<1>7. ASSUME UNCHANGED <<failures, login>>, now' \in {now, now + 1} PROVE LimitInv'
  BY <1>0, <1>3, <1>7
<1>8. ASSUME Restart PROVE LimitInv'
  <2>1. /\ now' = now /\ login' = [c \in Clients |-> NoLogin] /\ failures' = [ip \in Ips |-> {}]
    BY <1>8 DEF Restart
  <2>2. \A d \in Clients : login'[d].pc = "checking" => login'[d] = login[d]
    BY <2>1, LoginFacts
  <2>3. QED
    BY <1>3, <2>1, <2>2
<1>9. ASSUME NEW gone, Remove(gone) PROVE LimitInv'
  BY <1>7, <1>9 DEF Remove
<1>10. ListSessions => LimitInv'
  BY <1>7 DEF ListSessions
<1>11. Tick => LimitInv'
  BY <1>7 DEF Tick, store
<1>12. \A a \in Accounts : SetActive(a) => LimitInv'
  BY <1>7 DEF SetActive, store
<1>13. UNCHANGED vars => LimitInv'
  BY <1>7 DEF vars, store
<1>14. QED
  BY <1>1, <1>2, <1>4, <1>5, <1>6, <1>8, <1>9, <1>10, <1>11, <1>12, <1>13
     DEF Next, Get, Logout, RevokeSession, RevokeIdentityExcept, RevokeAccount, RevokeAll,
         SnapshotSessions

----------------------------------------------------------------------------
(* The sessions in memory and on disk.                                     *)

(* A set of sessions that the store may keep, when ids were handed out.    *)
Fits(S, ids, time) ==
  /\ IsFiniteSet(S)
  /\ \A s \in S : s.id \in ids /\ s.created \in Nat /\ s.created <= time /\ s.expires \in Nat
  /\ \A a \in Accounts : Cardinality(Owned(S, a)) <= MaxSessionsPerAccount

(* What was saved and is not expired is still in memory.                   *)
SavedIsLive == ~unsaved => \A s \in disk : s.expires > now => s \in sessions

StoreInv == Fits(sessions, tokens, now) /\ Fits(disk, tokens, now) /\ SavedIsLive

LEMMA FitsSubset ==
  ASSUME NEW S, NEW R \in SUBSET S, NEW ids, NEW more, ids \subseteq more,
         NEW t \in Nat, NEW u \in Nat, t <= u, Fits(S, ids, t)
  PROVE  Fits(R, more, u)
<1>1. IsFiniteSet(S) /\ IsFiniteSet(R)
  BY FS_Subset DEF Fits
<1>2. ASSUME NEW a \in Accounts PROVE Cardinality(Owned(R, a)) <= MaxSessionsPerAccount
  <2>1. Owned(R, a) \in SUBSET Owned(S, a) /\ Owned(S, a) \in SUBSET S
    BY DEF Owned
  <2>2. IsFiniteSet(Owned(S, a))
    BY <1>1, <2>1, FS_Subset
  <2>3. IsFiniteSet(Owned(R, a)) /\ Cardinality(Owned(R, a)) <= Cardinality(Owned(S, a))
    BY <2>1, <2>2, FS_Subset
  <2>4. Cardinality(Owned(R, a)) \in Nat /\ Cardinality(Owned(S, a)) \in Nat
        /\ Cardinality(Owned(S, a)) <= MaxSessionsPerAccount
    BY <2>2, <2>3, FS_CardinalityType DEF Fits
  <2>5. QED
    BY <2>3, <2>4, OptionFacts
<1>3. \A s \in R : s.id \in more /\ s.created \in Nat /\ s.created <= u /\ s.expires \in Nat
  BY DEF Fits
<1>4. QED
  BY <1>1, <1>2, <1>3 DEF Fits

(* CreateSession makes room for the new session.                           *)
LEMMA FitsNew ==
  ASSUME NEW S, NEW ids, NEW t \in Nat, Fits(S, ids, t), NEW a \in Accounts, NEW K \in Kept(S, a),
         NEW new, new.account = a, new.created \in Nat, new.created <= t, new.expires \in Nat,
         new.id \notin ids
  PROVE  /\ Fits((S \ Owned(S, a)) \cup K \cup {new}, ids \cup {new.id}, t)
         /\ Owned((S \ Owned(S, a)) \cup K \cup {new}, a) = K \cup {new}
         /\ IsFiniteSet(K) /\ Cardinality(K \cup {new}) = Cardinality(K) + 1
<1> DEFINE N == (S \ Owned(S, a)) \cup K \cup {new}
<1>1. K \in SUBSET Owned(S, a) /\ Owned(S, a) \in SUBSET S /\ K \in SUBSET S
      /\ Cardinality(K) <= MaxSessionsPerAccount - 1
  BY DEF Kept, Owned
<1>2. IsFiniteSet(S) /\ IsFiniteSet(K) /\ Cardinality(K) \in Nat
  BY <1>1, FS_Subset, FS_CardinalityType DEF Fits
<1>3. new \notin S
  BY DEF Fits
<1>4. IsFiniteSet(K \cup {new}) /\ Cardinality(K \cup {new}) = Cardinality(K) + 1
  BY <1>1, <1>2, <1>3, FS_AddElement
<1>5. Owned(N, a) = K \cup {new}
  BY <1>1 DEF Owned
<1>6. IsFiniteSet(N)
  <2>1. N \in SUBSET (S \cup {new})
    BY <1>1
  <2>2. IsFiniteSet(S \cup {new})
    BY <1>2, FS_AddElement
  <2> HIDE DEF N
  <2>3. QED
    BY <2>1, <2>2, FS_Subset
<1>7. \A s \in N : s.id \in ids \cup {new.id} /\ s.created \in Nat /\ s.created <= t /\ s.expires \in Nat
  BY <1>1 DEF Fits
<1>8. ASSUME NEW b \in Accounts PROVE Cardinality(Owned(N, b)) <= MaxSessionsPerAccount
  <2>1. CASE b = a
    <3>1. Cardinality(K \cup {new}) <= MaxSessionsPerAccount
      BY <1>1, <1>2, <1>4, OptionFacts
    <3> HIDE DEF N
    <3>2. QED
      BY <1>5, <2>1, <3>1
  <2>2. CASE b # a
    <3>1. Owned(N, b) = Owned(S, b)
      BY <1>1, <2>2 DEF Owned
    <3>2. QED
      BY <3>1 DEF Fits
  <2>3. QED
    BY <2>1, <2>2
<1> HIDE DEF N
<1>9. Fits(N, ids \cup {new.id}, t)
  BY <1>6, <1>7, <1>8 DEF Fits
<1>10. QED
  BY <1>2, <1>4, <1>5, <1>9 DEF N

LEMMA StoreInit == Init => StoreInv
<1> SUFFICES ASSUME Init PROVE StoreInv
  OBVIOUS
<1>1. sessions = {} /\ disk = {} /\ now = 0
  BY DEF Init
<1>2. \A a : Owned({}, a) = {}
  BY DEF Owned
<1>3. QED
  BY <1>1, <1>2, FS_EmptySet, OptionFacts DEF StoreInv, Fits, SavedIsLive

(* What CreateSession makes of the sessions, in the names of the action.   *)
Created(a, id, at) ==
  [id |-> id, account |-> a, created |-> at, expires |-> at + SessionTTL]
CreatesWith(a, id, at, K) ==
  LET live == {s \in sessions : s.expires >= at}
  IN /\ sessions' = (live \ Owned(live, a)) \cup K \cup {Created(a, id, at)}
     /\ Save((live \ Owned(live, a)) \cup K \cup {Created(a, id, at)})
CreateOutcome(id, a, at, live, K, new) ==
  /\ a \in Accounts /\ at \in Nat /\ at <= now /\ live \in SUBSET sessions
  /\ live = {s \in sessions : s.expires >= at}
  /\ K \in Kept(live, a) /\ new.account = a /\ new.created = at /\ new.expires \in Nat
  /\ new.id = id /\ id \notin tokens /\ tokens' = tokens \cup {id}
  /\ sessions' = (live \ Owned(live, a)) \cup K \cup {new} /\ Save(sessions')
  /\ now' = now

LEMMA CreateFacts ==
  ASSUME LoginTypes, StoreInv, NEW c \in Clients, NEW id \in Ids, CreateSession(c, id)
  PROVE  \E a, at, live, K, new : CreateOutcome(id, a, at, live, K, new)
<1>1. PICK a \in Accounts : a = login[c].account
  BY DEF CreateSession, LoginTypes
<1>a. login[c].since \in Nat /\ now \in Nat
  BY DEF LoginTypes, LoginState
<1>b. PICK at \in login[c].since .. now :
        \E K \in Kept({s \in sessions : s.expires >= at}, a) :
          CreatesWith(a, id, at, K)
  BY <1>1 DEF CreateSession, CreatesWith, Created
<1>c. at \in Nat /\ at <= now
  BY <1>a, <1>b
<1>2. PICK live \in SUBSET sessions : live = {s \in sessions : s.expires >= at}
  OBVIOUS
<1>3. PICK new : new = Created(a, id, at)
  OBVIOUS
<1>4. new.account = a /\ new.created = at /\ new.expires \in Nat /\ new.id = id
  BY <1>3, <1>c, OptionFacts DEF Created
<1>5. PICK K \in Kept(live, a) :
        /\ sessions' = (live \ Owned(live, a)) \cup K \cup {new}
        /\ Save((live \ Owned(live, a)) \cup K \cup {new})
  BY <1>b, <1>2, <1>3 DEF CreatesWith
<1>6. Save(sessions')
  BY <1>5
<1>7. id \notin tokens /\ tokens' = tokens \cup {id} /\ now' = now
  BY DEF CreateSession
<1>8. CreateOutcome(id, a, at, live, K, new)
  BY <1>c, <1>2, <1>4, <1>5, <1>6, <1>7 DEF CreateOutcome
<1>9. QED
  BY <1>8

(* All that a step can do to the sessions.                                 *)
LEMMA StoreSteps ==
  ASSUME LoginTypes, StoreInv, [Next]_vars
  PROVE  \/ \E c \in Clients, id \in Ids : CreateSession(c, id)
         \/ \E gone : Remove(gone)
         \/ ListSessions
         \/ Restart
         \/ /\ UNCHANGED <<sessions, disk, unsaved>> /\ now' \in {now, now + 1}
            /\ tokens \subseteq tokens'
<1>1. ASSUME NEW c \in Clients,
             Fail(c) \/ Accepted(c) \/ Refuse(c)
             \/ (\E ip \in Ips, a \in Accounts : Attempt(c, ip, a))
             \/ (\E id \in Ids : BeginChallenge(c, id))
             \/ (\E ch \in challenges, ip \in Ips \cup {None} : TakeChallenge(c, ch, ip))
      PROVE  UNCHANGED <<sessions, disk, unsaved, now>> /\ tokens \subseteq tokens'
  BY <1>1 DEF Fail, Accepted, Refuse, Attempt, BeginChallenge, TakeChallenge, challengeVars, store
<1>2. Tick => UNCHANGED <<sessions, disk, unsaved, tokens>> /\ now' = now + 1
  BY DEF Tick, store, challengeVars
<1>3. \A a \in Accounts : SetActive(a) => UNCHANGED <<sessions, disk, unsaved, tokens, now>>
  BY DEF SetActive, store, challengeVars
<1>4. UNCHANGED vars => UNCHANGED <<sessions, disk, unsaved, tokens, now>>
  BY DEF vars, store, challengeVars
<1>5. QED
  BY <1>1, <1>2, <1>3, <1>4
     DEF Next, Get, Logout, RevokeSession, RevokeIdentityExcept, RevokeAccount, RevokeAll,
         SnapshotSessions

LEMMA StoreNext == LoginTypes /\ StoreInv /\ [Next]_vars => StoreInv'
<1> SUFFICES ASSUME LoginTypes, StoreInv, [Next]_vars PROVE StoreInv'
  OBVIOUS
<1>0. /\ now \in Nat /\ Fits(sessions, tokens, now) /\ Fits(disk, tokens, now) /\ unsaved \in BOOLEAN
  BY DEF LoginTypes, StoreInv
<1>1. ASSUME NEW c \in Clients, NEW id \in Ids, CreateSession(c, id) PROVE StoreInv'
  <2>0. PICK a, at, live, K, new : CreateOutcome(id, a, at, live, K, new)
    BY <1>1, CreateFacts
  <2>1. /\ a \in Accounts /\ at \in Nat /\ at <= now /\ live \in SUBSET sessions
        /\ live = {s \in sessions : s.expires >= at}
        /\ K \in Kept(live, a) /\ new.account = a /\ new.created = at /\ new.expires \in Nat
        /\ new.id = id /\ id \notin tokens /\ tokens' = tokens \cup {id}
        /\ sessions' = (live \ Owned(live, a)) \cup K \cup {new} /\ Save(sessions')
        /\ now' = now
    BY <2>0 DEF CreateOutcome
  <2>2. Fits(live, tokens, now)
    BY <1>0, <2>1, FitsSubset
  <2>3. Fits(sessions', tokens', now')
    <3>1. Fits((live \ Owned(live, a)) \cup K \cup {new}, tokens \cup {new.id}, now)
      BY <1>0, <2>1, <2>2, FitsNew
    <3>2. QED
      BY <2>1, <3>1
  <2>4. Fits(disk, tokens', now')
    <3>1. tokens \subseteq tokens'
      BY <2>1
    <3>2. QED
      BY <1>0, <2>1, <3>1, FitsSubset
  <2>5. (disk' = sessions' /\ unsaved' = FALSE) \/ (disk' = disk /\ unsaved' = TRUE)
    BY <2>1 DEF Save
  <2>6. QED
    BY <2>3, <2>4, <2>5 DEF StoreInv, SavedIsLive
<1>2. ASSUME NEW gone, Remove(gone) PROVE StoreInv'
  <2>1. /\ sessions' = sessions \ gone /\ now' = now /\ tokens' = tokens
        /\ (disk' = sessions' /\ unsaved' = FALSE) \/ (disk' = disk /\ unsaved' = TRUE)
    BY <1>2 DEF Remove, Save, challengeVars
  <2>2. Fits(sessions', tokens', now')
    BY <1>0, <2>1, FitsSubset
  <2>3. QED
    BY <1>0, <2>1, <2>2 DEF StoreInv, SavedIsLive
<1>3. ASSUME ListSessions PROVE StoreInv'
  <2>1. /\ sessions' = {s \in sessions : s.expires >= now}
        /\ UNCHANGED <<now, disk, unsaved, tokens>>
    BY <1>3 DEF ListSessions, challengeVars
  <2>2. sessions' \in SUBSET sessions
    BY <2>1
  <2>3. Fits(sessions', tokens', now')
    BY <1>0, <2>1, <2>2, FitsSubset
  <2>4. SavedIsLive'
    <3>1. \A s \in disk : s.expires \in Nat
      BY <1>0 DEF Fits
    <3>2. QED
      BY <1>0, <2>1, <3>1 DEF StoreInv, SavedIsLive
  <2>5. QED
    BY <1>0, <2>1, <2>3, <2>4 DEF StoreInv
<1>4. ASSUME Restart PROVE StoreInv'
  <2>1. /\ sessions' = {s \in disk : s.expires > now}
        /\ UNCHANGED <<now, disk, unsaved, tokens>>
    BY <1>4 DEF Restart
  <2>2. sessions' \in SUBSET disk
    BY <2>1
  <2>3. Fits(sessions', tokens', now')
    BY <1>0, <2>1, <2>2, FitsSubset
  <2>4. QED
    BY <1>0, <2>1, <2>3 DEF StoreInv, SavedIsLive
<1>5. ASSUME UNCHANGED <<sessions, disk, unsaved>>, now' \in {now, now + 1}, tokens \subseteq tokens'
      PROVE  StoreInv'
  <2>1. now' \in Nat /\ now <= now'
    BY <1>0, <1>5
  <2>2. Fits(sessions, tokens', now') /\ Fits(disk, tokens', now')
    BY <1>0, <1>5, <2>1, FitsSubset
  <2>3. SavedIsLive'
    <3>1. \A s \in disk : s.expires \in Nat
      BY <1>0 DEF Fits
    <3>2. QED
      BY <1>0, <1>5, <2>1, <3>1 DEF StoreInv, SavedIsLive
  <2>4. QED
    BY <1>5, <2>2, <2>3 DEF StoreInv
<1>6. QED
  BY <1>1, <1>2, <1>3, <1>4, <1>5, StoreSteps

----------------------------------------------------------------------------
(* Challenges.                                                             *)

(* A challenge has its token alone, and is waiting, being answered or      *)
(* redeemed.                                                               *)
ChallengeInv ==
  /\ redeemed \subseteq tokens
  /\ \A ch \in challenges : ch.id \in tokens /\ ch.id \notin redeemed
  /\ \A c \in Clients : login[c].via # None => login[c].via \in tokens
  /\ \A ch, other \in challenges : ch.id = other.id => ch = other
  /\ ChallengeOnce

LEMMA ChallengeInit == Init => ChallengeInv
BY LoginFacts DEF Init, ChallengeInv, ChallengeOnce

(* No challenge appears, none is redeemed, and no login takes one.         *)
LEMMA ChallengesFewer ==
  ASSUME ChallengeInv, challenges' \subseteq challenges, redeemed' = redeemed,
         tokens \subseteq tokens',
         \A c \in Clients : login'[c].via \in {None, login[c].via}
  PROVE  ChallengeInv'
BY DEF ChallengeInv, ChallengeOnce

LEMMA ChallengeNext == LoginTypes /\ ChallengeInv /\ [Next]_vars => ChallengeInv'
<1> SUFFICES ASSUME LoginTypes, ChallengeInv, [Next]_vars PROVE ChallengeInv'
  OBVIOUS
<1> USE LoginFacts
<1>0. login \in [Clients -> LoginState]
  BY DEF LoginTypes
<1>1. ASSUME NEW c \in Clients, NEW ip \in Ips, NEW a \in Accounts, Attempt(c, ip, a)
      PROVE  ChallengeInv'
  <2> DEFINE l == [NoLogin EXCEPT !.pc = "checking", !.ip = ip, !.account = a]
  <2>1. l.via = None
    BY DEF NoLogin
  <2>2. /\ login' = [login EXCEPT ![c] = l] \/ login' = login
        /\ UNCHANGED <<challenges, redeemed, tokens>>
    BY <1>1 DEF Attempt, challengeVars
  <2> HIDE DEF l
  <2>3. QED
    BY <1>0, <2>1, <2>2, ChallengesFewer
<1>2. ASSUME NEW c \in Clients, Fail(c) \/ Accepted(c) \/ Refuse(c) PROVE ChallengeInv'
  <2>1. /\ UNCHANGED <<challenges, redeemed, tokens>>
        /\ \/ login' = [login EXCEPT ![c] = NoLogin]
           \/ login' = [login EXCEPT ![c].pc = "create", ![c].since = now]
    BY <1>2 DEF Fail, Accepted, Refuse, store, challengeVars
  <2>2. \A d \in Clients : login'[d].via \in {None, login[d].via}
    BY <1>0, <2>1 DEF LoginState
  <2>3. QED
    BY <2>1, <2>2, ChallengesFewer
<1>3. ASSUME NEW c \in Clients, NEW id \in Ids, CreateSession(c, id) PROVE ChallengeInv'
  <2>1. PICK v : v = login[c].via
    OBVIOUS
  <2>2. /\ tokens' = tokens \cup {id} /\ redeemed' = redeemed \cup ({v} \ {None})
        /\ login' = [login EXCEPT ![c] = NoLogin] /\ challenges' = challenges
    BY <1>3, <2>1 DEF CreateSession
  <2>3. login'[c].via = None /\ \A d \in Clients \ {c} : login'[d] = login[d]
    BY <1>0, <2>2
  <2>4. v # None => /\ v \in tokens /\ \A ch \in challenges : ch.id # v
                    /\ \A d \in Clients \ {c} : login[d].via # v
    BY <2>1 DEF ChallengeInv, ChallengeOnce
  <2>5. QED
    BY <2>2, <2>3, <2>4 DEF ChallengeInv, ChallengeOnce
<1>4. ASSUME NEW c \in Clients, NEW id \in Ids, BeginChallenge(c, id) PROVE ChallengeInv'
  <2>1. PICK new : new = [id |-> id, account |-> login[c].account, ip |-> login[c].ip,
                          expires |-> now + ChallengeTTL]
    OBVIOUS
  <2>2. /\ id \notin tokens /\ tokens' = tokens \cup {id} /\ redeemed' = redeemed
        /\ login' = [login EXCEPT ![c] = NoLogin] /\ new.id = id
        /\ challenges' = {ch \in challenges : ch.expires >= now} \cup {new}
    BY <1>4, <2>1 DEF BeginChallenge
  <2>3. login'[c].via = None /\ \A d \in Clients \ {c} : login'[d] = login[d]
    BY <1>0, <2>2
  <2>4. QED
    BY <2>2, <2>3 DEF ChallengeInv, ChallengeOnce
<1>5. ASSUME NEW c \in Clients, NEW ch \in challenges, NEW ip \in Ips \cup {None},
             TakeChallenge(c, ch, ip)
      PROVE  ChallengeInv'
  <2>1. challenges' = challenges \ {ch} /\ UNCHANGED <<tokens, redeemed>>
    BY <1>5 DEF TakeChallenge
  <2>2. CASE login' = login
    BY <2>1, <2>2, ChallengesFewer
  <2>3. CASE login' = [login EXCEPT ![c] = [pc |-> "create", ip |-> ip, account |-> ch.account,
                                            via |-> ch.id, since |-> now]]
    <3>1. login'[c].via = ch.id /\ \A d \in Clients \ {c} : login'[d] = login[d]
      BY <1>0, <2>3
    <3>2. \A d \in Clients : login[d].via # None => login[d].via # ch.id
      BY DEF ChallengeInv, ChallengeOnce
    <3>3. QED
      BY <2>1, <3>1, <3>2 DEF ChallengeInv, ChallengeOnce
  <2>4. QED
    BY <1>5, <2>2, <2>3 DEF TakeChallenge
<1>6. ASSUME Restart PROVE ChallengeInv'
  <2>1. login' = [c \in Clients |-> NoLogin] /\ challenges' = {} /\ UNCHANGED <<tokens, redeemed>>
    BY <1>6 DEF Restart
  <2>2. QED
    BY <2>1, ChallengesFewer
<1>7. ASSUME UNCHANGED <<login, challenges, redeemed, tokens>> PROVE ChallengeInv'
  BY <1>7, ChallengesFewer
<1>8. ASSUME NEW gone, Remove(gone) PROVE ChallengeInv'
  BY <1>7, <1>8 DEF Remove, challengeVars
<1>9. ListSessions => ChallengeInv'
  BY <1>7 DEF ListSessions, challengeVars
<1>10. Tick => ChallengeInv'
  BY <1>7 DEF Tick, store, challengeVars
<1>11. \A a \in Accounts : SetActive(a) => ChallengeInv'
  BY <1>7 DEF SetActive, store, challengeVars
<1>12. UNCHANGED vars => ChallengeInv'
  BY <1>7 DEF vars, store, challengeVars
<1>13. QED
  BY <1>1, <1>2, <1>3, <1>4, <1>5, <1>6, <1>8, <1>9, <1>10, <1>11, <1>12
     DEF Next, Get, Logout, RevokeSession, RevokeIdentityExcept, RevokeAccount, RevokeAll,
         SnapshotSessions

----------------------------------------------------------------------------
(* The properties.                                                         *)

Inv == LoginTypes /\ LimitInv /\ StoreInv /\ ChallengeInv

LEMMA InvHolds == Spec => []Inv
<1>1. Init => Inv
  BY TypesInit, LimitInit, StoreInit, ChallengeInit DEF Inv
<1>2. Inv /\ [Next]_vars => Inv'
  BY TypesNext, LimitNext, StoreNext, ChallengeNext DEF Inv
<1>3. QED
  BY <1>1, <1>2, PTL DEF Spec

(* The limiter and the store stay within their options, for any options    *)
(* and any number of requests at once.                                     *)
THEOREM Bounded == Spec => []StoreBounded
<1>1. Inv => StoreBounded
  BY DEF Inv, StoreInv, Fits, LimitInv, Limit, Checking, StoreBounded, SessionsBounded,
         FailuresBounded
<1>2. QED
  BY <1>1, InvHolds, PTL

(* A session that comes back was on disk after a save that failed.         *)
LEMMA Returns == Inv /\ [Next]_vars => ReturnsExcused
<1> SUFFICES ASSUME Inv, [Next]_vars, NEW s \in sessions' \ sessions
             PROVE  s.id \notin tokens \/ unsaved
  BY DEF ReturnsExcused
<1>1. ASSUME NEW c \in Clients, NEW id \in Ids, CreateSession(c, id) PROVE s.id \notin tokens
  <2>0. PICK a, at, live, K, new : CreateOutcome(id, a, at, live, K, new)
    BY <1>1, CreateFacts DEF Inv
  <2>1. /\ live \in SUBSET sessions /\ K \in Kept(live, a) /\ new.id = id /\ id \notin tokens
        /\ sessions' = (live \ Owned(live, a)) \cup K \cup {new}
    BY <2>0 DEF CreateOutcome
  <2>2. K \subseteq live
    BY <2>1 DEF Kept, Owned
  <2>3. s = new
    BY <2>1, <2>2
  <2>4. QED
    BY <2>1, <2>3
<1>2. ASSUME NEW gone, Remove(gone) PROVE FALSE
  BY <1>2 DEF Remove
<1>3. ~ListSessions
  BY DEF ListSessions
<1>4. Restart => unsaved
  BY DEF Restart, Inv, StoreInv, SavedIsLive, LoginTypes
<1>5. QED
  BY <1>1, <1>2, <1>3, <1>4, StoreSteps DEF Inv

(* A login makes room by evicting the oldest of its own account.           *)
LEMMA Evicts == Inv /\ [Next]_vars => EvictionFair
<1> SUFFICES ASSUME Inv, [Next]_vars, tokens' # tokens, NEW s \in sessions \ sessions',
                    s.expires >= now
             PROVE  /\ \A n \in sessions' \ sessions : n.account = s.account
                    /\ \A k \in Owned(sessions', s.account) \cap sessions : s.created <= k.created
                    /\ Cardinality(Owned(sessions', s.account)) = MaxSessionsPerAccount
  BY DEF EvictionFair
<1>1. PICK c \in Clients, id \in Ids : CreateSession(c, id)
  <2>1. \A gone : Remove(gone) => tokens' = tokens
    BY DEF Remove, challengeVars
  <2>2. (ListSessions => tokens' = tokens) /\ (Restart => tokens' = tokens)
    BY DEF ListSessions, Restart, challengeVars
  <2>3. QED
    BY <2>1, <2>2, StoreSteps DEF Inv
<1>0. PICK a, at, live, K, new : CreateOutcome(id, a, at, live, K, new)
  BY <1>1, CreateFacts DEF Inv
<1>2. /\ a \in Accounts /\ at \in Nat /\ at <= now /\ live \in SUBSET sessions
      /\ live = {x \in sessions : x.expires >= at}
      /\ K \in Kept(live, a) /\ new.account = a /\ new.created = at /\ new.expires \in Nat
      /\ new.id = id /\ id \notin tokens /\ tokens' = tokens \cup {id}
      /\ sessions' = (live \ Owned(live, a)) \cup K \cup {new} /\ Save(sessions')
      /\ now' = now
  BY <1>0 DEF CreateOutcome
<1>3. now \in Nat /\ Fits(live, tokens, now)
  BY <1>2, FitsSubset DEF Inv, StoreInv, LoginTypes
<1>4. /\ Owned(sessions', a) = K \cup {new} /\ IsFiniteSet(K)
      /\ Cardinality(K \cup {new}) = Cardinality(K) + 1
  <2> DEFINE N == (live \ Owned(live, a)) \cup K \cup {new}
  <2>1. Owned(N, a) = K \cup {new} /\ IsFiniteSet(K)
    <3>1. K \in SUBSET Owned(live, a) /\ Owned(live, a) \in SUBSET live
          /\ \A x \in Owned(live, a) : x.account = a
      BY <1>2 DEF Kept, Owned
    <3>2. Owned(N, a) = K \cup {new}
      BY <1>2, <3>1 DEF Owned
    <3>3. QED
      BY <1>3, <3>1, <3>2, FS_Subset DEF Fits
  <2>2. new \notin K
    BY <1>2, <1>3 DEF Kept, Owned, Fits
  <2>3. sessions' = N
    BY <1>2
  <2>4. QED
    BY <2>1, <2>2, <2>3, FS_AddElement
<1>5. s \in live /\ s \in Owned(live, a) /\ s \notin K /\ s.account = a
  <2>1. s.expires \in Nat
    BY DEF Inv, StoreInv, Fits
  <2>2. s.expires >= at
    BY <1>2, <1>3, <2>1
  <2>3. QED
    BY <1>2, <2>2 DEF Owned
<1>6. \A n \in sessions' \ sessions : n = new
  BY <1>2 DEF Kept, Owned
<1>7. \A k \in Owned(sessions', s.account) \cap sessions : s.created <= k.created
  <2>1. new \notin sessions
    BY <1>2 DEF Inv, StoreInv, Fits
  <2>2. Owned(sessions', s.account) \cap sessions \subseteq K
    BY <1>4, <1>5, <2>1
  <2>3. QED
    BY <1>2, <1>5, <2>2 DEF Kept
<1>8. Cardinality(K) = MaxSessionsPerAccount - 1
  BY <1>2, <1>5 DEF Kept
<1>9. \A n \in sessions' \ sessions : n.account = s.account
  BY <1>2, <1>5, <1>6
<1>10. MaxSessionsPerAccount \in Nat /\ Cardinality(K) + 1 = MaxSessionsPerAccount
  BY <1>8, OptionFacts
<1>11. Owned(sessions', s.account) = K \cup {new}
  BY <1>4, <1>5
<1>12. QED
  BY <1>4, <1>7, <1>9, <1>10, <1>11

(* Sessions end when they are revoked, evicted fairly or expired, and a    *)
(* challenge starts at most one: for any options, and any number of        *)
(* requests, restarts and failing saves.                                   *)
THEOREM SessionsAreKept == Spec => SessionsKept
<1>1. Inv => ChallengeOnce
  BY DEF Inv, ChallengeInv
<1>2. QED
  BY <1>1, Returns, Evicts, InvHolds, PTL
     DEF Spec, SessionsKept, RevokedStaysRevoked, OldestEvicted

=============================================================================
