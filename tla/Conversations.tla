--------------------------- MODULE Conversations ---------------------------
(***************************************************************************)
(* The transcript merge of conversations/conversations.go (MergeEvents and *)
(* the functions it uses), and a transcript that an agent on the server    *)
(* and a browser extend while the browser saves its copy: saves whose      *)
(* answer is lost are repeated, and copies sent earlier arrive late.       *)
(*                                                                         *)
(* A text is the set of its words, so that "contains" is \subseteq.  A     *)
(* name is <<>>, <<"repl", run>> ("repl:run") or <<"run", run, outcome>>   *)
(* ("run:run:outcome").                                                    *)
(***************************************************************************)
EXTENDS Naturals, Sequences, FiniteSets, SequencesExt

CONSTANTS Fragments,     \* <<run, text>>: what agents stream
          Replacements,  \* <<run, text>>: recovered texts
          Terminals,     \* <<run, outcome>>: terminal markers
          UserTexts,
          Coarse,        \* two events may carry the same time
          NoRun,
          MaxEvents,     \* bound on the events said
          MaxCopies      \* bound on the copies sent

ASSUME CoarseAssumption == Coarse \in BOOLEAN
ASSUME RunAssumption == \A t \in Terminals : t[1] # NoRun
ASSUME BoundAssumption == MaxEvents \in Nat /\ MaxCopies \in Nat

VARIABLES server,    \* the events of the stored record
          browser,   \* the events of the browser's copy
          said,      \* everything said, in order
          seen,      \* how much of said the browser has taken note of
          now,
          sent       \* copies sent to the server, which may arrive again

vars == <<server, browser, said, seen, now, sent>>

----------------------------------------------------------------------------
(* MergeEvents.                                                            *)

Event(kind, text, name, run) ==
  [kind |-> kind, text |-> text, name |-> name, at |-> now, run |-> run]

signature(e) == <<e.kind, e.text, e.name>>

Count(s, sig) == Cardinality({i \in DOMAIN s : signature(s[i]) = sig})

replacementRun(name) == IF Len(name) = 2 THEN name[2] ELSE NoRun
terminalRun(name) == IF Len(name) = 3 THEN name[2] ELSE NoRun

(* The events of s in a given order: upto[i] is the set of the positions   *)
(* that come before i in it, and i.                                        *)
Arranged(s, upto) ==
  [k \in 1 .. Cardinality(DOMAIN upto) |->
     s[CHOOSE i \in DOMAIN upto : Cardinality(upto[i]) = k]]

(* The events of s at the positions of I, in their order (without).        *)
Pick(s, I) == Arranged(s, [i \in I |-> {j \in I : j <= i}])

(* Mutated forms of the definitions below.                                 *)
UnmatchedOffByOne(s, c) ==
  {j \in DOMAIN c :
     Count(SubSeq(c, 1, j), signature(c[j])) >= Count(s, signature(c[j]))}

FragmentsOfAnyRun(s) ==
  {i \in DOMAIN s :
     /\ s[i].kind = "assistant" /\ replacementRun(s[i].name) = NoRun
     /\ s[i].run # NoRun
     /\ \E j \in DOMAIN s :
          /\ s[j].kind = "assistant" /\ replacementRun(s[j].name) # NoRun
          /\ s[j].text # s[i].text /\ s[i].text \subseteq s[j].text}

(* The client's events that no occurrence on the server stands for.        *)
Unmatched(s, c) ==
  {j \in DOMAIN c :
     Count(SubSeq(c, 1, j), signature(c[j])) > Count(s, signature(c[j]))}

(* By time, the server's events first; otherwise the order is kept.        *)
Before(out, owned, i, j) ==
  \/ out[i].at < out[j].at
  \/ /\ out[i].at = out[j].at
     /\ \/ signature(out[i]) \in owned /\ signature(out[j]) \notin owned
        \/ /\ signature(out[i]) \in owned <=> signature(out[j]) \in owned
           /\ i <= j

Sorted(out, owned) ==
  Arranged(out, [i \in DOMAIN out |-> {j \in DOMAIN out : Before(out, owned, j, i)}])

(* Fragments that a recovered text of the same run contains.               *)
Superseded(s) ==
  {i \in DOMAIN s :
     /\ s[i].kind = "assistant" /\ replacementRun(s[i].name) = NoRun
     /\ s[i].run # NoRun
     /\ \E j \in DOMAIN s :
          /\ s[j].kind = "assistant" /\ replacementRun(s[j].name) = s[i].run
          /\ s[j].text # s[i].text /\ s[i].text \subseteq s[j].text}

supersedeReplacements(s) == Pick(s, DOMAIN s \ Superseded(s))

(* Terminal markers that a later one of the same run follows.              *)
Stale(s) ==
  {i \in DOMAIN s :
     /\ terminalRun(s[i].name) # NoRun
     /\ \E j \in DOMAIN s : j > i /\ terminalRun(s[j].name) = terminalRun(s[i].name)}

supersedeTerminals(s) == Pick(s, DOMAIN s \ Stale(s))

MergeEvents(s, c) ==
  LET out == s \o Pick(c, Unmatched(s, c))
      owned == {signature(s[i]) : i \in DOMAIN s}
  IN supersedeTerminals(supersedeReplacements(Sorted(out, owned)))

----------------------------------------------------------------------------
(* The products around it: an agent that records on the server, a browser  *)
(* that notes what it is shown and what its user writes, and saves.        *)

Init ==
  /\ server = <<>> /\ browser = <<>> /\ said = <<>> /\ sent = {}
  /\ seen = 0 /\ now = 0

Later == IF Coarse THEN {now, now + 1} ELSE {now + 1}

AgentEvents ==
  {Event("assistant", f[2], <<>>, f[1]) : f \in Fragments}
  \cup {Event("assistant", r[2], <<"repl", r[1]>>, NoRun) : r \in Replacements}
  \cup {Event("done", {}, <<"run", t[1], t[2]>>, NoRun) : t \in Terminals}

AgentSays(e) ==
  /\ Len(said) < MaxEvents
  /\ server' = Append(server, e) /\ said' = Append(said, e)
  /\ now' \in Later
  /\ UNCHANGED <<browser, seen, sent>>

(* The browser has caught up when its user writes.                         *)
UserSays(text) ==
  LET e == Event("user", text, <<>>, NoRun)
  IN /\ Len(said) < MaxEvents /\ seen = Len(said)
     /\ browser' = Append(browser, e) /\ said' = Append(said, e)
     /\ seen' = seen + 1 /\ now' \in Later
     /\ UNCHANGED <<server, sent>>

See ==
  /\ seen < Len(said)
  /\ browser' = Append(browser, said[seen + 1]) /\ seen' = seen + 1
  /\ UNCHANGED <<server, said, now, sent>>

Send ==
  /\ browser \notin sent /\ Cardinality(sent) < MaxCopies
  /\ sent' = sent \cup {browser}
  /\ UNCHANGED <<server, browser, said, seen, now>>

(* A copy arrives, for the first time or again.                            *)
Arrive(copy) ==
  /\ server' = MergeEvents(server, copy)
  /\ UNCHANGED <<browser, said, seen, now, sent>>

(* The browser reloads what it shows from the server.                      *)
Reload ==
  /\ browser' = MergeEvents(server, browser) /\ server' = browser'
  /\ seen' = Len(said)
  /\ UNCHANGED <<said, now, sent>>

Next ==
  \/ \E e \in AgentEvents : AgentSays(e)
  \/ \E t \in UserTexts : UserSays(t)
  \/ See \/ Send \/ Reload
  \/ \E c \in sent : Arrive(c)

Spec == Init /\ [][Next]_vars

----------------------------------------------------------------------------
(* Properties.                                                             *)

(* The types of all variables; nothing is stored that was not said.        *)
TypeOK ==
  /\ \A s \in {server, browser} \cup sent : ToSet(s) \subseteq ToSet(said)
  /\ Len(said) <= MaxEvents /\ seen \in 0 .. Len(said) /\ now \in Nat
  /\ Cardinality(sent) <= MaxCopies

(* What MergeEvents can tell apart: a signature has no run, and events of  *)
(* one time have no order (CreatedAt, signature).                          *)
TellsRun(a) == \A e, f \in ToSet(a) : signature(e) = signature(f) => e.run = f.run
TimesDiffer(a) == \A i, j \in DOMAIN a : a[i].at = a[j].at => i = j

(* "merges ... occurrence-by-occurrence": of no signature the server has   *)
(* more occurrences than were said, however often the same copy arrives;   *)
(* and no event, while the signatures and times tell the events apart      *)
(* (NeverDoubled does not hold without: Conversations_twice.cfg).          *)
NeverDoubled ==
  LET Times(s, e) == Cardinality({i \in DOMAIN s : s[i] = e})
  IN \A e \in ToSet(server) : Times(server, e) <= Times(said, e)

OncePerOccurrence ==
  /\ \A e \in ToSet(server) : Count(server, signature(e)) <= Count(said, signature(e))
  /\ TellsRun(said) /\ TimesDiffer(said) => NeverDoubled

(* "only the latest terminal marker for a run remains": the last marker of *)
(* a run on the server is the last one that the agent gave it, unless that *)
(* one has the time of another marker of the run (Conversations_tie.cfg).  *)
IsLatest(s, i, r) ==
  /\ terminalRun(s[i].name) = r
  /\ \A j \in DOMAIN s : terminalRun(s[j].name) = r => j <= i

Tied(i, r) ==
  \E j \in DOMAIN said : j # i /\ terminalRun(said[j].name) = r /\ said[j].at = said[i].at

LatestOnServer(i, r) ==
  \E k \in DOMAIN server :
    IsLatest(server, k, r) /\ signature(server[k]) = signature(said[i])

LatestAlways ==
  \A r \in {t[1] : t \in Terminals} : \A i \in DOMAIN said :
    IsLatest(said, i, r) => LatestOnServer(i, r)

LatestTerminal ==
  \A r \in {t[1] : t \in Terminals} : \A i \in DOMAIN said :
    IsLatest(said, i, r) /\ ~Tied(i, r) => LatestOnServer(i, r)

(* Copies that were sent earlier arrive late, and arrive again: neither    *)
(* the order in which two of them arrive nor a second arrival makes a      *)
(* difference to what MergeEvents stores, terminal markers apart when      *)
(* times tie, nor to the order of it when they do not.                     *)
SameContents(s, t) ==
  \A e \in ToSet(said) :
    terminalRun(e.name) = NoRun => Count(s, signature(e)) = Count(t, signature(e))

OrderFree ==
  \A c, d \in sent \cup {browser} :
    LET once == MergeEvents(server, c)
        again == MergeEvents(once, c)
        both == MergeEvents(once, d)
        swapped == MergeEvents(MergeEvents(server, d), c)
    IN TellsRun(said) =>
         /\ SameContents(again, once) /\ SameContents(both, swapped)
         /\ TimesDiffer(said) => again = once /\ both = swapped

(* All three: what the server stores is neither doubled nor outdated, nor  *)
(* up to the order of arrival, as far as signatures and times go.          *)
StoredIsTrue == OncePerOccurrence /\ LatestTerminal /\ OrderFree

(* What may take e away: a replacement of its run with e in its text       *)
(* ("supersede same-run fragments only"), or another terminal marker of    *)
(* the run.                                                                *)
Accounted(e, result) ==
  \E x \in ToSet(result) :
    \/ terminalRun(e.name) # NoRun /\ terminalRun(x.name) = terminalRun(e.name)
    \/ /\ e.kind = "assistant" /\ e.run # NoRun
       /\ replacementRun(x.name) = e.run /\ e.text \subseteq x.text

(* No merge takes an occurrence of the server's away, nor one of the       *)
(* copy's, but what the result accounts for; a copy's occurrence may have  *)
(* been counted as one of the same signature that is accounted for.        *)
Keeps(copy) ==
  /\ \A e \in ToSet(server) :
       Cardinality({i \in DOMAIN server : /\ signature(server[i]) = signature(e)
                                         /\ ~Accounted(server[i], server')})
         <= Count(server', signature(e))
  /\ \A e \in ToSet(copy) :
       \/ Count(copy, signature(e)) <= Count(server', signature(e))
       \/ \E f \in ToSet(server) \cup ToSet(copy) :
            signature(f) = signature(e) /\ Accounted(f, server')

(* "Server copies win timestamp ties": the result is in the order of the   *)
(* times, and of one time the events that the server had come first.       *)
ServerWins ==
  \A i, j \in DOMAIN server' : i < j =>
    \/ server'[i].at < server'[j].at
    \/ /\ server'[i].at = server'[j].at
       /\ \/ \E k \in DOMAIN server : signature(server[k]) = signature(server'[i])
          \/ \A k \in DOMAIN server : signature(server[k]) # signature(server'[j])

(* Both, of the copies that arrive and of the browser's when it reloads.   *)
MergeKeeps ==
  [][/\ \A c \in sent : Arrive(c) => Keeps(c) /\ ServerWins
     /\ Reload => Keeps(browser) /\ ServerWins]_vars

============================================================================
