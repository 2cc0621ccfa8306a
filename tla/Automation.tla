----------------------------- MODULE Automation -----------------------------
(***************************************************************************)
(* Run of automation/automation.go: commands that share a session file and *)
(* run at the same time, each one with a single request and an exit code,  *)
(* and any of which may be killed.  Left out: commands without a session   *)
(* file, which store nothing, and those with a bearer token of their own.  *)
(*                                                                         *)
(* The session file is written in place, by truncation and a write.  The   *)
(* service is external: it issues sessions, whose number stands for their  *)
(* cookie and for their CSRF token; commands other than a login need the   *)
(* cookie of one, and mutations its token as well (auth/sessions.go).      *)
(*                                                                         *)
(* torn and fellBack are not in the code.                                  *)
(***************************************************************************)
EXTENDS Naturals, FiniteSets

CONSTANTS Commands,
          MaxLogins,   \* bound on the sessions issued
          MaxKills     \* bound on the commands killed

ASSUME AutomationAssumption == MaxLogins \in Nat /\ MaxKills \in Nat

(* Operations: the login is public and changes state, as a mutation does;  *)
(* help only prints the usage.                                             *)
Operations == {"login", "read", "mutation", "help"}
ExitCodes == {"ok", "failure", "usage", "auth", "notfound", "conflict", "unavailable"}

(* What a session file holds; a missing token is 0, and so are both in a   *)
(* file that is absent or does not parse: empty, or with the end of a      *)
(* longer content after a shorter one.                                     *)
sessionFile == [kind : {"whole"}, cookie : 1 .. MaxLogins, csrf : 0 .. MaxLogins]
NoSession(kind) == [kind |-> kind, cookie |-> 0, csrf |-> 0]
Damaged == {NoSession("empty"), NoSession("mixed")}
Absent == NoSession("absent")

VARIABLES jar,        \* the session file: its content, "absent" or damaged
          command,    \* command[c]
          issued,     \* sessions issued by the service
          performed,  \* commands whose operation the service performed
          kills,
          torn,       \* writes overlapped, failed or were killed
          fellBack    \* the token of an older session was stored

commandVars == <<jar, command, issued, performed, kills, torn, fellBack>>

NewCommand == [pc |-> "new", op |-> "read", loaded |-> Absent, got |-> Absent,
               answer |-> "none", exit |-> "none"]

(* There may be the session file of an earlier login.                      *)
CommandInit ==
  /\ jar \in {Absent} \cup {f \in sessionFile : f.cookie = 1 /\ f.csrf \in {0, 1}}
  /\ issued = jar.cookie /\ performed = {} /\ kills = 0
  /\ command = [c \in Commands |-> NewCommand]
  /\ torn = FALSE /\ fellBack = FALSE

(* The types of all variables.                                             *)
CommandTypeOK ==
  /\ jar \in sessionFile \cup Damaged \cup {Absent}
  /\ issued \in 0 .. MaxLogins /\ performed \subseteq Commands
  /\ \A c \in Commands :
       /\ command[c].pc \in {"new", "load", "send", "sent", "answered", "token",
                             "truncate", "write", "status", "done", "killed"}
       /\ command[c].op \in Operations
       /\ command[c].exit \in ExitCodes \cup {"none"}
  /\ kills \in 0 .. MaxKills /\ torn \in BOOLEAN /\ fellBack \in BOOLEAN

Goto(c, pc) == command' = [command EXCEPT ![c].pc = pc]

(* The command ends, and with it what it had read.                         *)
End(c, pc, code) ==
  command' = [command EXCEPT ![c] = [pc |-> pc, op |-> command[c].op, loaded |-> Absent,
                                     got |-> Absent, answer |-> "none", exit |-> code]]
ExitWith(c, code) == End(c, "done", code)
QuietCommand == UNCHANGED <<issued, performed, kills, torn, fellBack>>

----------------------------------------------------------------------------
(* Run up to the request.                                                  *)

(* Arguments, contract, confirmation, address and input.                   *)
Start(c, op) ==
  /\ command[c].pc = "new"
  /\ \/ op = "help" /\ command' = [command EXCEPT ![c].pc = "done", ![c].op = op,
                                                  ![c].exit = "ok"]
     \/ op # "help" /\ command' = [command EXCEPT ![c].pc = "load", ![c].op = op]
     \/ op # "help" /\ \E code \in {"usage", "failure"} : ExitWith(c, code)
  /\ UNCHANGED jar /\ QuietCommand

(* The session file, or another reason that it cannot be used.             *)
LoadSession(c) ==
  /\ command[c].pc = "load"
  /\ \/ jar \notin Damaged \cup {Absent}
        /\ command' = [command EXCEPT ![c].pc = "send", ![c].loaded = jar]
     \/ jar = Absent /\ command[c].op = "login" /\ Goto(c, "send")
     \/ jar = Absent /\ command[c].op # "login" /\ ExitWith(c, "auth")
     \/ jar \in Damaged /\ ExitWith(c, "auth")
     \/ ExitWith(c, "auth")   \* unreadable, or permissions too open
  /\ UNCHANGED jar /\ QuietCommand

----------------------------------------------------------------------------
(* The request, and the service.                                           *)

Send(c) ==
  /\ command[c].pc = "send" /\ Goto(c, "sent")
  /\ UNCHANGED jar /\ QuietCommand

Authenticated(c) ==
  /\ command[c].loaded.cookie # 0
  /\ command[c].op = "mutation" => command[c].loaded.csrf = command[c].loaded.cookie

(* Any answer may bring the cookie of a session, a new one or the one that *)
(* was sent, with or without its token.                                    *)
Answer(c, status) ==
  /\ command[c].pc = "sent" /\ c \notin performed
  /\ \/ /\ command' = [command EXCEPT ![c].pc = "answered", ![c].answer = status]
        /\ UNCHANGED issued
     \/ \E cookie \in {command[c].loaded.cookie, issued + 1} \cap (1 .. MaxLogins) :
          /\ \E token \in {0, cookie} :
               command' = [command EXCEPT ![c].pc = "answered", ![c].answer = status,
                             ![c].got = [kind |-> "whole", cookie |-> cookie, csrf |-> token]]
          /\ issued' = IF cookie > issued THEN cookie ELSE issued
  /\ UNCHANGED <<jar, kills, torn, fellBack>>

(* A Get is not checked for a token.                                       *)
Perform(c) ==
  /\ command[c].op # "login" => Authenticated(c)
  /\ Answer(c, "2xx") /\ performed' = performed \cup {c}

Reject(c) ==
  /\ \E status \in {"403", "404", "409", "503", "other"} : Answer(c, status)
  /\ UNCHANGED performed

(* Do fails: refused connection or timeout, before or after the service    *)
(* performed the operation.                                                *)
LoseAnswer(c) ==
  /\ command[c].pc \in {"sent", "answered"} /\ ExitWith(c, "unavailable")
  /\ UNCHANGED jar /\ QuietCommand

(* ReadAll fails, or the body is too large.                                *)
LoseBody(c) ==
  /\ command[c].pc = "answered" /\ ExitWith(c, "failure")
  /\ UNCHANGED jar /\ QuietCommand

----------------------------------------------------------------------------
(* The answer.                                                             *)

ReadAnswer(c) ==
  /\ command[c].pc = "answered"
  /\ Goto(c, IF command[c].got = Absent THEN "status" ELSE "token")
  /\ UNCHANGED jar /\ QuietCommand

(* Mutated form of ChooseToken: the token that was loaded comes first.     *)
ChooseLoaded(c) ==
  /\ command[c].pc = "token"
  /\ command' = [command EXCEPT ![c].pc = "truncate",
       ![c].got.csrf = IF command[c].loaded.csrf # 0 THEN command[c].loaded.csrf ELSE @]
  /\ UNCHANGED <<jar, issued, performed, kills, torn, fellBack>>

(* findCSRF, then fetchCSRF, then the token that was loaded.               *)
ChooseToken(c) ==
  LET k == command[c]
      Take(token) == command' = [command EXCEPT ![c].pc = "truncate", ![c].got.csrf = token]
  IN /\ k.pc = "token"
     /\ \/ k.got.csrf # 0 /\ Take(k.got.csrf) /\ UNCHANGED fellBack
        \/ k.got.csrf = 0 /\ Take(k.got.cookie) /\ UNCHANGED fellBack
        \/ /\ k.got.csrf = 0 /\ Take(k.loaded.csrf)
           /\ fellBack' = (fellBack \/ k.loaded.csrf \notin {0, k.got.cookie})
     /\ UNCHANGED <<jar, issued, performed, kills, torn>>

(* writeSession: WriteFile opens and truncates, or fails.                  *)
Truncate(c) ==
  /\ command[c].pc = "truncate"
  /\ \/ /\ jar' = NoSession("empty") /\ Goto(c, "write")
        /\ torn' = (torn \/ \E d \in Commands \ {c} : command[d].pc = "write")
     \/ ExitWith(c, "failure") /\ UNCHANGED <<jar, torn>>
  /\ UNCHANGED <<issued, performed, kills, fellBack>>

(* It writes from the start of the file: over a longer content that        *)
(* another command wrote meanwhile, the end of that content remains.       *)
WriteSession(c) ==
  LET k == command[c]
  IN /\ k.pc = "write"
     /\ \/ /\ jar' = IF k.got.csrf = 0 /\ (jar.kind = "mixed" \/ jar.csrf # 0)
                     THEN NoSession("mixed") ELSE k.got
           /\ Goto(c, "status") /\ UNCHANGED torn
        \/ ExitWith(c, "failure") /\ torn' = TRUE /\ UNCHANGED jar
     /\ UNCHANGED <<issued, performed, kills, fellBack>>

exitForStatus(status) ==
  CASE status = "2xx" -> "ok"
    [] status = "403" -> "auth"
    [] status = "404" -> "notfound"
    [] status = "409" -> "conflict"
    [] status = "503" -> "unavailable"
    [] status = "other" -> "failure"

ReportStatus(c) ==
  /\ command[c].pc = "status" /\ ExitWith(c, exitForStatus(command[c].answer))
  /\ UNCHANGED jar /\ QuietCommand

(* The command is killed.                                                  *)
Kill(c) ==
  /\ command[c].pc \notin {"new", "done", "killed"} /\ kills < MaxKills
  /\ kills' = kills + 1 /\ End(c, "killed", "none")
  /\ torn' = (torn \/ command[c].pc = "write")
  /\ UNCHANGED <<jar, issued, performed, fellBack>>

CommandStep(c) ==
  \/ \E op \in Operations : Start(c, op)
  \/ LoadSession(c) \/ Send(c) \/ LoseAnswer(c) \/ LoseBody(c)
  \/ ReadAnswer(c) \/ ChooseToken(c) \/ Truncate(c) \/ WriteSession(c) \/ ReportStatus(c)
  \/ Perform(c) \/ Reject(c) \/ Kill(c)

CommandNext == \E c \in Commands : CommandStep(c)

CommandSpec == CommandInit /\ [][CommandNext]_commandVars

----------------------------------------------------------------------------
(* Properties.                                                             *)

(* "Exit codes are stable": what a script may conclude from an exit code,  *)
(* whatever the other commands do to the session file.  0 means that the   *)
(* operation was performed; usage, authentication, not found and conflict  *)
(* mean that it was not.                                                   *)
ExitIsTrue ==
  \A c \in Commands :
    /\ command[c].exit = "ok" /\ command[c].op # "help" => c \in performed
    /\ command[c].exit \in {"usage", "auth", "notfound", "conflict"} => c \notin performed

(* "a persisted browser/CLI session": the session file is damaged only     *)
(* while it is written, or after writes that overlapped or were cut off;   *)
(* and the token in it belongs to the cookie, unless the token of a new    *)
(* session could not be fetched.                                           *)
SessionFileUsable ==
  /\ jar \in Damaged => torn \/ \E c \in Commands : command[c].pc = "write"
  /\ jar \in sessionFile => jar.csrf \in {0, jar.cookie} \/ fellBack

(* Both: a script may rely on the exit code and on the session file.       *)
CommandIsTrue == ExitIsTrue /\ SessionFileUsable

============================================================================
