----------------------------- MODULE Scheduler -----------------------------
(***************************************************************************)
(* Scheduled reconciliation: RunDueProfiles of propagation/runner.go with  *)
(* Due and InMaintenanceWindow of schedule.go, and the profiles that       *)
(* operators save and delete meanwhile through Manager (manager.go).       *)
(*                                                                         *)
(* Time is a number of ticks; Day ticks make a day.  A schedule is its     *)
(* duration, 0 for a manual profile; a window is a pair of times of day;   *)
(* either is Unreadable in a profile that was not saved through Manager.   *)
(* The run of a profile (module Propagation) succeeds or fails.            *)
(*                                                                         *)
(* runs, early and turned are history variables.                           *)
(***************************************************************************)
EXTENDS Naturals, FiniteSets

CONSTANTS Profiles,
          Day,         \* ticks of a day (1440 minutes in the code)
          Schedules,   \* durations in use
          Windows,     \* windows in use
          MaxTime,     \* bound on the clock
          MaxChanges,  \* bound on operator actions
          Never,       \* LastRunAt of a profile that has not run
          Unreadable   \* a schedule or a window that does not parse

ASSUME DayAssumption == Day \in Nat \ {0}
ASSUME ScheduleAssumption ==
  Schedules \subseteq Nat /\ MaxTime \in Nat /\ MaxChanges \in Nat
ASSUME WindowAssumption == Windows \subseteq (0 .. Day - 1) \X (0 .. Day - 1)
ASSUME NeverAssumption == Never \notin Nat /\ Unreadable \notin Nat \cup Windows

VARIABLES now,
          stored,      \* stored[p]: the profile in the state store
          runner,      \* a call of RunDueProfiles
          runs,        \* runs[p]: when p last ran with success, by the pass's clock
          early,       \* a profile that nobody turned back ran too early
          turned,      \* profiles an operator saved with an older last run
          changes

schedulerVars == <<now, stored, runner, runs, early, turned, changes>>

Profile == [exists : BOOLEAN, enabled : BOOLEAN, schedule : Schedules \cup {Unreadable},
            window : Windows \cup {Unreadable}, last : Nat \cup {Never}]

NoPass == [pc |-> "idle", at |-> 0, listed |-> {}, todo |-> {},
           saving |-> {}, out |-> {}]

(* The profile is to run on a schedule, and that is over.                  *)
Asked(p) == p.exists /\ p.enabled /\ p.schedule # 0
Elapsed(p, t) == p.last # Never => t >= p.last + p.schedule

(* Due returns an error: it reads the window only when the rest says yes.  *)
DueError(p, t) ==
  /\ Asked(p)
  /\ p.schedule = Unreadable \/ (Elapsed(p, t) /\ p.window = Unreadable)

----------------------------------------------------------------------------
(* Mutated forms of the definitions below.                                 *)

InWindowDaytimeOnly(w, t) ==
  LET cur == t % Day IN w[1] = w[2] \/ (w[1] <= cur /\ cur < w[2])

DueIgnoringLast(p, t) ==
  /\ Asked(p) /\ ~DueError(p, t)
  /\ p.last # Never => t >= p.last
  /\ p.window # Unreadable

RunFailsAndStops(e) ==
  /\ runner.pc = "loop" /\ e \in runner.todo
  /\ runner' = [runner EXCEPT !.todo = {}, !.out = @ \cup {e.id}]
  /\ UNCHANGED <<now, stored, runs, early, turned, changes>>

----------------------------------------------------------------------------

(* InMaintenanceWindow, for a window that parses.                          *)
InMaintenanceWindow(w, t) ==
  LET cur == t % Day
  IN CASE w[1] = w[2] -> TRUE
       [] w[1] < w[2] -> cur >= w[1] /\ cur < w[2]
       [] OTHER -> cur >= w[1] \/ cur < w[2]

Due(p, t) ==
  /\ Asked(p) /\ ~DueError(p, t) /\ Elapsed(p, t)
  /\ InMaintenanceWindow(p.window, t)

SchedulerInit ==
  /\ now = 0
  /\ stored \in [Profiles -> [exists : {TRUE}, enabled : {TRUE},
                              schedule : Schedules \cup {Unreadable},
                              window : Windows \cup {Unreadable}, last : {Never}]]
  /\ runner = NoPass
  /\ runs = [p \in Profiles |-> Never]
  /\ early = FALSE /\ turned = {}
  /\ changes = 0

(* The types of all variables.                                             *)
SchedulerTypeOK ==
  /\ now \in 0 .. MaxTime
  /\ stored \in [Profiles -> Profile]
  /\ runner.pc \in {"idle", "loop", "save"} /\ runner.at \in 0 .. MaxTime
  /\ runner.listed \subseteq [id : Profiles, profile : Profile]
  /\ runner.todo \cup runner.saving \subseteq runner.listed /\ runner.out \subseteq Profiles
  /\ runs \in [Profiles -> Nat \cup {Never}]
  /\ early \in BOOLEAN /\ turned \subseteq Profiles /\ changes \in 0 .. MaxChanges

(* RunDueProfiles lists the profiles and reads the clock once.             *)
StartPass ==
  /\ runner.pc = "idle"
  /\ LET listed == {[id |-> p, profile |-> stored[p]] :
                      p \in {q \in Profiles : stored[q].exists}}
     IN runner' = [pc |-> "loop", at |-> now, listed |-> listed,
                   todo |-> listed, saving |-> {}, out |-> {}]
  /\ UNCHANGED <<now, stored, runs, early, turned, changes>>

(* A profile of which Due cannot tell is reported.                         *)
Complain(e) ==
  /\ runner.pc = "loop" /\ e \in runner.todo /\ DueError(e.profile, runner.at)
  /\ runner' = [runner EXCEPT !.todo = @ \ {e}, !.out = @ \cup {e.id}]
  /\ UNCHANGED <<now, stored, runs, early, turned, changes>>

(* A profile that is not due is skipped.                                   *)
Skip(e) ==
  /\ runner.pc = "loop" /\ e \in runner.todo
  /\ ~DueError(e.profile, runner.at) /\ ~Due(e.profile, runner.at)
  /\ runner' = [runner EXCEPT !.todo = @ \ {e}]
  /\ UNCHANGED <<now, stored, runs, early, turned, changes>>

(* fn fails: reported, and the profile stays as it is.                     *)
RunFails(e) ==
  /\ runner.pc = "loop" /\ e \in runner.todo /\ Due(e.profile, runner.at)
  /\ runner' = [runner EXCEPT !.todo = @ \ {e}, !.out = @ \cup {e.id}]
  /\ UNCHANGED <<now, stored, runs, early, turned, changes>>

(* fn succeeds, some time later.                                           *)
RunSucceeds(e) ==
  /\ runner.pc = "loop" /\ e \in runner.todo /\ Due(e.profile, runner.at)
  /\ runner' = [runner EXCEPT !.pc = "save", !.todo = @ \ {e}, !.saving = {e}]
  /\ UNCHANGED <<now, stored, runs, early, turned, changes>>

(* SaveProfile writes the profile as it was listed, with the pass's time;  *)
(* if that fails the result carries the error.                             *)
SaveRun(e) ==
  /\ runner.pc = "save" /\ e \in runner.saving
  /\ \/ /\ stored' = [stored EXCEPT ![e.id] = [e.profile EXCEPT !.last = runner.at]]
        /\ early' = (early \/ /\ runs[e.id] # Never /\ e.id \notin turned
                              /\ runner.at < runs[e.id] + e.profile.schedule)
        /\ runs' = [runs EXCEPT ![e.id] = runner.at]
        /\ turned' = turned \ {e.id}
     \/ UNCHANGED <<stored, early, turned, runs>>
  /\ runner' = [runner EXCEPT !.pc = "loop", !.saving = {}, !.out = @ \cup {e.id}]
  /\ UNCHANGED <<now, changes>>

EndPass ==
  /\ runner.pc = "loop" /\ runner.todo = {}
  /\ runner' = [runner EXCEPT !.pc = "idle"]
  /\ UNCHANGED <<now, stored, runs, early, turned, changes>>

----------------------------------------------------------------------------
(* Operators and time.                                                     *)

(* A last run from which the schedule counts no later than from the true   *)
(* one.                                                                    *)
Older(last, run) == run # Never /\ (last = Never \/ last < run)

(* An operator saves a profile, all of it: a new or a deleted one, or one  *)
(* that was read at some time and has changed since, its last run too.     *)
SaveProfile(p) ==
  /\ changes < MaxChanges
  /\ changes' = changes + 1
  /\ \E on \in BOOLEAN, d \in Schedules, w \in Windows, last \in (0 .. now) \cup {Never} :
       /\ stored' = [stored EXCEPT ![p] = [exists |-> TRUE, enabled |-> on, schedule |-> d,
                                          window |-> w, last |-> last]]
       /\ turned' = IF Older(last, runs[p]) THEN turned \cup {p} ELSE turned
  /\ UNCHANGED <<now, runner, runs, early>>

DeleteProfile(p) ==
  /\ stored[p].exists /\ changes < MaxChanges
  /\ changes' = changes + 1
  /\ stored' = [stored EXCEPT ![p].exists = FALSE]
  /\ UNCHANGED <<now, runner, runs, early, turned>>

Tick ==
  /\ now < MaxTime /\ now' = now + 1
  /\ UNCHANGED <<stored, runner, runs, early, turned, changes>>

SchedulerNext ==
  \/ StartPass \/ EndPass \/ Tick
  \/ \E e \in runner.todo : Skip(e) \/ Complain(e) \/ RunFails(e) \/ RunSucceeds(e)
  \/ \E e \in runner.saving : SaveRun(e)
  \/ \E p \in Profiles : SaveProfile(p) \/ DeleteProfile(p)

SchedulerSpec == SchedulerInit /\ [][SchedulerNext]_schedulerVars

----------------------------------------------------------------------------
(* Properties.                                                             *)

(* The times of day in a window, walking from its start to its end and     *)
(* over midnight: "overnight windows such as 23:00-02:00 are valid".       *)
Wrap(t) == IF t >= Day THEN t - Day ELSE t
Minutes(w) ==
  LET length == IF w[1] < w[2] THEN w[2] - w[1] ELSE w[2] + Day - w[1]
  IN {Wrap(w[1] + k) : k \in 0 .. length - 1}

(* InMaintenanceWindow is membership in that interval, at every time of    *)
(* day and for every window, the empty looking one (a = b) being all day.  *)
WindowIsInterval ==
  \A w \in (0 .. Day - 1) \X (0 .. Day - 1) :
    InMaintenanceWindow(w, now) <=> now % Day \in Minutes(w)

(* With one runner, runs of a profile that are reported without an error   *)
(* are at least its schedule apart, although the runner saves the copy it  *)
(* listed over whatever operators have saved meanwhile, and they save      *)
(* whole profiles, delete and recreate them; unless since the earlier of   *)
(* the two runs one of them saved the profile with an older last run.      *)
RunsSpaced == ~early

(* A pass reports every profile that was due, or that it could not read,   *)
(* when it began and no other, also after failures (the continues and the  *)
(* collected results of the loop).                                         *)
PassComplete ==
  runner.todo = {} /\ runner.saving = {} =>
    runner.out = {e.id : e \in {x \in runner.listed :
                                  Due(x.profile, runner.at) \/ DueError(x.profile, runner.at)}}

============================================================================
