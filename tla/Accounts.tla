------------------------------ MODULE Accounts ------------------------------
(***************************************************************************)
(* The account model of auth/model.go: accounts with login identities,     *)
(* roles with capabilities, the validation of auth/accounts.go, and the    *)
(* application's persistence of the two documents.                         *)
(*                                                                         *)
(* Every change is one critical section: it works on a copy, validates it, *)
(* saves it and installs it.  Reload reads the documents without the lock  *)
(* and installs them later.  The name of an identity is its username or    *)
(* its provider subject, its mail an address or none; a password identity  *)
(* is found by either.  A password hash is the number of the change that   *)
(* made it: its salt is random, so no two are equal.                       *)
(*                                                                         *)
(* codesUsed, installed and stale are not in the code.                     *)
(***************************************************************************)
EXTENDS Naturals, FiniteSets

CONSTANTS AccountIds, IdentityIds,   \* random identifiers (bounds)
          Names, Mails, Codes,       \* usernames, addresses, recovery codes
          OtherRoles, KnownCapabilities, UnknownCapability,
          Installations,             \* accounts saved by an earlier process
          MaxChanges,                \* bound on the changes tried
          MaxSaveErrors              \* bound on failing saves

ASSUME AccountsAssumption ==
  /\ "administrator" \notin OtherRoles
  /\ "*" \notin KnownCapabilities \cup {UnknownCapability}
  /\ UnknownCapability \notin KnownCapabilities
  /\ MaxChanges \in Nat /\ MaxSaveErrors \in Nat

RoleIds == OtherRoles \cup {"administrator"}
Capability == KnownCapabilities \cup {"*", UnknownCapability}

Identity == [type : {"password", "google", "email"}, name : Names, mail : SUBSET Mails,
             hash : 0 .. MaxChanges, codes : SUBSET Codes, enabled : BOOLEAN]

(* The documents: functions from the identifiers in use.                   *)
IsAccount(account) ==
  /\ account.enabled \in BOOLEAN /\ account.roles \subseteq RoleIds
  /\ DOMAIN account.identities \subseteq IdentityIds
  /\ account.identities \in [DOMAIN account.identities -> Identity]
IsUsers(u) ==
  /\ DOMAIN u \subseteq AccountIds
  /\ \A a \in DOMAIN u : DOMAIN u[a] = {"enabled", "roles", "identities"} /\ IsAccount(u[a])
IsRoles(r) == DOMAIN r \subseteq RoleIds /\ r \in [DOMAIN r -> SUBSET Capability]

VARIABLES users, roles,           \* Model.users, Model.roles
          diskUsers, diskRoles,   \* the saved documents
          reload,                 \* a Reload under way
          up,                     \* NewModel has succeeded
          setup,                  \* a setup of the product awaits its Reload
          changes, saveErrors,
          codesUsed,   \* recovery codes that were accepted
          installed,   \* an account has been saved
          stale        \* a stale snapshot was installed, or saved over

memory == <<users, roles>>
disk == <<diskUsers, diskRoles>>
bounds == <<changes, saveErrors>>
vars == <<memory, disk, reload, up, setup, bounds, codesUsed, installed, stale>>

NoReload == [pc |-> "idle", users |-> << >>, roles |-> << >>]
BuiltIn == [r \in {"administrator"} |-> {"*"}]

Init ==
  /\ diskUsers \in Installations /\ users = diskUsers
  /\ roles = BuiltIn /\ diskRoles = BuiltIn
  /\ reload = NoReload /\ up = TRUE /\ setup = FALSE
  /\ changes = 0 /\ saveErrors = 0
  /\ codesUsed = {} /\ installed = (DOMAIN users # {}) /\ stale = FALSE

----------------------------------------------------------------------------
(* ValidateAccounts and EffectiveCapabilities.                             *)

(* All identities of a document, with their accounts.                      *)
IdentitiesOf(u) ==
  {p \in AccountIds \X IdentityIds :
     p[1] \in DOMAIN u /\ p[2] \in DOMAIN u[p[1]].identities}
At(u, p) == u[p[1]].identities[p[2]]

LoginCapable(identity) == identity.type \in {"password", "google"}
Logins(account) == {i \in DOMAIN account.identities : LoginCapable(account.identities[i])}

ValidRoles(r) ==
  /\ "administrator" \in DOMAIN r /\ r["administrator"] = {"*"}
  /\ \A id \in DOMAIN r : UnknownCapability \notin r[id]

ValidIdentities(u) ==
  /\ \A p \in IdentitiesOf(u) : At(u, p).type = "email" => At(u, p).mail # {}
  /\ \A p, q \in IdentitiesOf(u) : p # q =>
       /\ p[2] # q[2]
       /\ LoginCapable(At(u, p)) /\ At(u, p).type = At(u, q).type =>
            At(u, p).name # At(u, q).name
       /\ At(u, p).type = "password" /\ At(u, q).type = "password" =>
            At(u, p).mail \cap At(u, q).mail = {}

PasswordBackedAdmin(account) ==
  /\ account.enabled /\ "administrator" \in account.roles
  /\ \E i \in DOMAIN account.identities :
       account.identities[i].type = "password" /\ account.identities[i].enabled

ValidateAccounts(u, r) ==
  /\ ValidRoles(r)
  /\ \A a \in DOMAIN u : u[a].roles \subseteq DOMAIN r
  /\ ValidIdentities(u)
  /\ DOMAIN u # {} => \E a \in DOMAIN u : PasswordBackedAdmin(u[a])

(* Recovery codes are random: no two identities have one in common.        *)
CodesApart(u) ==
  \A p, q \in IdentitiesOf(u) : p # q => At(u, p).codes \cap At(u, q).codes = {}

(* What the operations of an earlier process leave: a new account has a    *)
(* login, and its last login is not removed.                               *)
ASSUME InstallationsAssumption ==
  \A u \in Installations :
    /\ IsUsers(u) /\ ValidateAccounts(u, BuiltIn) /\ CodesApart(u)
    /\ \A a \in DOMAIN u : Logins(u[a]) # {}

EffectiveCapabilities(account, r) ==
  LET granted == UNION {r[id] : id \in account.roles \cap DOMAIN r}
  IN IF ~account.enabled THEN {} ELSE IF "*" \in granted THEN {"*"} ELSE granted

(* The identities that AuthenticatePassword finds for a key and a hash.    *)
AuthenticatePassword(u, key, hash) ==
  {p \in IdentitiesOf(u) :
     /\ u[p[1]].enabled /\ At(u, p).enabled /\ At(u, p).type = "password"
     /\ key \in {At(u, p).name} \cup At(u, p).mail /\ At(u, p).hash = hash}
----------------------------------------------------------------------------
(* Changes of an account and of an identity that exist.  A change that is  *)
(* rejected, by its own checks or by the validation, leaves everything as  *)
(* it is.                                                                  *)

(* Mutated form of Commit: the copy is installed before it is saved.       *)
CommitUnsaved(next, code) ==
  /\ changes' = changes + 1
  /\ users' = next
  /\ \/ /\ diskUsers' = next
        /\ codesUsed' = codesUsed \cup code
        /\ installed' = (installed \/ DOMAIN next # {})
        /\ stale' = (stale \/ memory # disk)
        /\ UNCHANGED saveErrors
     \/ /\ saveErrors < MaxSaveErrors /\ saveErrors' = saveErrors + 1
        /\ UNCHANGED <<diskUsers, codesUsed, installed, stale>>
  /\ UNCHANGED <<roles, diskRoles, reload, up, setup>>

(* The end of every change: SaveAccounts fails and nothing is installed,   *)
(* or the copy is saved and installed.  code: what the change accepts.     *)
Commit(next, code) ==
  /\ changes' = changes + 1
  /\ \/ /\ users' = next /\ diskUsers' = next
        /\ codesUsed' = codesUsed \cup code
        /\ installed' = (installed \/ DOMAIN next # {})
        /\ stale' = (stale \/ memory # disk)
        /\ UNCHANGED saveErrors
     \/ /\ saveErrors < MaxSaveErrors /\ saveErrors' = saveErrors + 1
        /\ UNCHANGED <<users, diskUsers, codesUsed, installed, stale>>
  /\ UNCHANGED <<roles, diskRoles, reload, up, setup>>

Change(next) == ValidateAccounts(next, roles) /\ Commit(next, {})

HashPassword == changes + 1

(* Identifiers and codes are random: none that is in use anywhere.  Which  *)
(* of the unused identifiers is taken makes no difference.                 *)
Documents == {users, diskUsers, reload.users}
OneOf(ids) == {x \in ids : x = CHOOSE y \in ids : TRUE}
FreshAccount == OneOf(AccountIds \ UNION {DOMAIN u : u \in Documents})
FreshIdentity ==
  OneOf(IdentityIds \ UNION {{p[2] : p \in IdentitiesOf(u)} : u \in Documents})
CodesIn(u) == UNION {At(u, p).codes : p \in IdentitiesOf(u)}
FreshCodes == Codes \ (codesUsed \cup UNION {CodesIn(u) : u \in Documents})

LoginKeys == [name : Names, mail : {m \in SUBSET Mails : Cardinality(m) <= 1}]

NewIdentity(type, key) ==
  [type |-> type, name |-> key.name, mail |-> key.mail, codes |-> {}, enabled |-> TRUE,
   hash |-> IF type = "password" THEN HashPassword ELSE 0]

With(f, x, v) == [y \in DOMAIN f \cup {x} |-> IF y = x THEN v ELSE f[y]]
Without(f, x) == [y \in DOMAIN f \ {x} |-> f[y]]

createAccount(a, i, key, assigned) ==
  Change(With(users, a,
       [enabled |-> TRUE, roles |-> assigned,
        identities |-> [x \in {i} |-> NewIdentity("password", key)]]))

CreateInitialAdministrator(a, i, key) ==
  /\ DOMAIN users = {}
  /\ createAccount(a, i, key, {"administrator"})

CreateAccount(a, i, key, assigned) == createAccount(a, i, key, assigned)

UpdateAccount(a, enabled, assigned) ==
  Change([users EXCEPT ![a].enabled = enabled, ![a].roles = assigned])

(* The change of one identity.                                             *)
Update(a, i, identity) == [users EXCEPT ![a].identities[i] = identity]

SetPassword(a, i) ==
  /\ users[a].identities[i].type = "password"
  /\ Change(Update(a, i, [users[a].identities[i] EXCEPT !.hash = HashPassword]))

(* Whether a second factor is asked for decides nothing here: its switch   *)
(* and secret are left out, the recovery codes are replaced.               *)
SetIdentityTOTP(a, i, codes) ==
  /\ users[a].identities[i].type = "password"
  /\ Change(Update(a, i, [users[a].identities[i] EXCEPT !.codes = codes]))

SetIdentityEnabled(a, i, enabled) ==
  Change(Update(a, i, [users[a].identities[i] EXCEPT !.enabled = enabled]))

AddIdentity(a, i, identity) ==
  Change([users EXCEPT ![a].identities = With(@, i, identity)])

AddPasswordIdentity(a, i, key) == AddIdentity(a, i, NewIdentity("password", key))

(* What a caller may add: a whole identity, whose recovery codes, like     *)
(* those of SetIdentityTOTP, the product has just drawn.                   *)
GivenIdentity(key) ==
  [type : {"password", "google", "email"}, name : {key.name}, mail : {key.mail},
   hash : {HashPassword}, codes : SUBSET FreshCodes, enabled : BOOLEAN]

(* Mutated form of ConsumeRecoveryCode: the failing save is ignored.       *)
ConsumeUnsaved(a, i, code) ==
  /\ code \in users[a].identities[i].codes
  /\ users' = Update(a, i, [users[a].identities[i] EXCEPT !.codes = @ \ {code}])
  /\ diskUsers' \in {users', diskUsers}
  /\ changes' = changes + 1 /\ codesUsed' = codesUsed \cup {code}
  /\ UNCHANGED <<roles, diskRoles, reload, up, setup, saveErrors, installed, stale>>

(* No validation: a code that is taken away invalidates nothing.           *)
ConsumeRecoveryCode(a, i, code) ==
  /\ code \in users[a].identities[i].codes
  /\ Commit(Update(a, i, [users[a].identities[i] EXCEPT !.codes = @ \ {code}]), {code})

RemoveIdentity(a, i) ==
  /\ Logins(users[a]) # {i}
  /\ Change([users EXCEPT ![a].identities = Without(@, i)])

(* Mutated form of DeleteAccount: the validation accepts no accounts.      *)
DeleteLast(a) == Change(Without(users, a))

DeleteAccount(a) ==
  /\ DOMAIN users # {a}
  /\ Change(Without(users, a))

SetRole(id, capabilities) ==
  LET next == With(roles, id, capabilities)
  IN /\ changes' = changes + 1
     /\ ValidateAccounts(users, next)
     /\ \/ /\ roles' = next /\ diskRoles' = next
           /\ stale' = (stale \/ memory # disk)
           /\ UNCHANGED saveErrors
        \/ /\ saveErrors < MaxSaveErrors /\ saveErrors' = saveErrors + 1
           /\ UNCHANGED <<roles, diskRoles, stale>>
     /\ UNCHANGED <<users, diskUsers, reload, up, setup, codesUsed, installed>>

----------------------------------------------------------------------------
(* Reload and NewModel.                                                    *)

LoadAccounts ==
  /\ up /\ reload.pc = "idle"
  /\ reload' = [pc |-> "roles", users |-> diskUsers, roles |-> << >>]
  /\ UNCHANGED <<memory, disk, up, setup, bounds, codesUsed, installed, stale>>

LoadRoles ==
  /\ reload.pc = "roles"
  /\ reload' = [reload EXCEPT !.pc = "install", !.roles = diskRoles]
  /\ UNCHANGED <<memory, disk, up, setup, bounds, codesUsed, installed, stale>>

Reload ==
  /\ reload.pc = "install" /\ reload' = NoReload
  /\ IF ValidateAccounts(reload.users, reload.roles)
     THEN /\ users' = reload.users /\ roles' = reload.roles
          /\ stale' = (stale \/ <<reload.users, reload.roles>> # disk)
          /\ setup' = FALSE
     ELSE UNCHANGED <<memory, setup, stale>>
  /\ UNCHANGED <<disk, up, bounds, codesUsed, installed>>

(* A load of the persistence fails: Reload returns its error.              *)
ReloadFails ==
  /\ reload.pc # "idle" /\ reload' = NoReload
  /\ UNCHANGED <<memory, disk, up, setup, bounds, codesUsed, installed, stale>>

(* The process restarts, and does not come up when the validation fails.   *)
NewModel ==
  /\ up' = ValidateAccounts(diskUsers, diskRoles)
  /\ users' = diskUsers /\ roles' = diskRoles
  /\ reload' = NoReload /\ setup' = FALSE
  /\ UNCHANGED <<disk, bounds, codesUsed, installed, stale>>

(* First-run setup of the product: its own transaction saves the first     *)
(* administrator, and Reload is called after it.                           *)
ProductSetup(a, i, key) ==
  /\ up /\ diskUsers = << >>
  /\ diskUsers' = [x \in {a} |-> [enabled |-> TRUE, roles |-> {"administrator"},
                     identities |-> [y \in {i} |-> [NewIdentity("password", key) EXCEPT !.hash = 0]]]]
  /\ setup' = TRUE /\ installed' = TRUE
  /\ UNCHANGED <<memory, diskRoles, reload, up, bounds, codesUsed, stale>>

AccountStep(a) ==
  \/ \E enabled \in BOOLEAN, assigned \in SUBSET RoleIds :
       UpdateAccount(a, enabled, assigned)
  \/ DeleteAccount(a)

IdentityStep(a, i) ==
  \/ SetPassword(a, i) \/ RemoveIdentity(a, i)
  \/ \E enabled \in BOOLEAN : SetIdentityEnabled(a, i, enabled)
  \/ \E codes \in SUBSET FreshCodes : SetIdentityTOTP(a, i, codes)
  \/ \E code \in Codes : ConsumeRecoveryCode(a, i, code)

CreateStep(key) ==
  \E a \in FreshAccount, i \in FreshIdentity :
    \/ CreateInitialAdministrator(a, i, key)
    \/ \E assigned \in SUBSET RoleIds : CreateAccount(a, i, key, assigned)

AddStep(a, key) ==
  \E i \in FreshIdentity :
    \/ AddPasswordIdentity(a, i, key)
    \/ \E identity \in GivenIdentity(key) : AddIdentity(a, i, identity)

Changes ==
  \/ \E a \in DOMAIN users : AccountStep(a)
  \/ \E a \in DOMAIN users : \E i \in DOMAIN users[a].identities : IdentityStep(a, i)
  \/ \E key \in LoginKeys :
       CreateStep(key) \/ \E a \in DOMAIN users : AddStep(a, key)
  \/ \E id \in RoleIds, capabilities \in SUBSET Capability : SetRole(id, capabilities)

Next ==
  \/ up /\ changes < MaxChanges /\ Changes
  \/ \E a \in FreshAccount, i \in FreshIdentity, key \in LoginKeys :
       ProductSetup(a, i, key)
  \/ LoadAccounts \/ LoadRoles \/ Reload \/ ReloadFails \/ NewModel

Spec == Init /\ [][Next]_vars

----------------------------------------------------------------------------
(* Properties.                                                             *)

(* The types of all variables.                                             *)
TypeOK ==
  /\ \A u \in Documents : IsUsers(u)
  /\ \A r \in {roles, diskRoles, reload.roles} : IsRoles(r)
  /\ DOMAIN reload = {"pc", "users", "roles"}
  /\ reload.pc \in {"idle", "roles", "install"}
  /\ up \in BOOLEAN /\ setup \in BOOLEAN
  /\ changes \in 0 .. MaxChanges /\ saveErrors \in 0 .. MaxSaveErrors
  /\ codesUsed \subseteq Codes /\ installed \in BOOLEAN /\ stale \in BOOLEAN

(* Somebody can sign in with a password and may do everything.             *)
AdministratorCanSignIn(u, r) ==
  \E p \in IdentitiesOf(u) :
    /\ EffectiveCapabilities(u[p[1]], r) = {"*"}
    /\ \E key \in Names \cup Mails : p \in AuthenticatePassword(u, key, At(u, p).hash)

(* "At least one enabled password-backed administrator must remain after   *)
(* setup": of the saved documents without exception, although a stale      *)
(* Reload may have put older ones in use and the next change saves those;  *)
(* of the documents in use with one: a Reload that read them before the    *)
(* first account was saved may install them, empty, after it (SetupOnce).  *)
(* And every account in use retains an identity to log in with.            *)
AdministratorRemains ==
  /\ installed => AdministratorCanSignIn(diskUsers, diskRoles)
  /\ up /\ installed /\ ~setup =>
       AdministratorCanSignIn(users, roles) \/ (stale /\ DOMAIN users = {})
  /\ up => \A a \in DOMAIN users : Logins(users[a]) # {}

(* What is in use is what is saved, and it passes the validation that a    *)
(* restart makes, unless a Reload raced with a change.                     *)
SavedIsCurrent ==
  ~stale => /\ up /\ ValidateAccounts(diskUsers, diskRoles)
            /\ memory = disk \/ setup

(* A recovery code is accepted once: after that it is in no document, and  *)
(* neither a failing save nor a restart brings it back.                    *)
RecoveryCodeOnce ==
  ~stale => \A code \in codesUsed : code \notin CodesIn(users) \cup CodesIn(diskUsers)

(* Without the exception for a Reload that overlaps a change: the first    *)
(* administrator is created once.                                          *)
SetupOnce == [][DOMAIN users # {} => DOMAIN users' # {}]_vars

============================================================================
