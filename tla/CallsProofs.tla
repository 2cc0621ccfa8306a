----------------------------- MODULE CallsProofs -----------------------------
(***************************************************************************)
(* Proofs about the modules Client, RunState and FanOut: for any number of *)
(* attempts, any length of a run, and any nodes and limit.                 *)
(***************************************************************************)
EXTENDS Client, RunState, FanOut, FiniteSetTheorems, SequenceTheorems, TLAPS

----------------------------------------------------------------------------
(* Client: a call that may have been given up is executed late.            *)

(* Requests are sent by the attempts begun, and there are no more attempts *)
(* than the contract allows.                                               *)
AttemptsCounted ==
  /\ sent \subseteq 1 .. attempt /\ executed \subseteq sent
  /\ attempt <= Attempts
  /\ pc \in {"begin", "backoff"} => attempt < Attempts

(* Of what was executed, a mutation has had one effect.                    *)
EffectsCounted ==
  /\ contract.kind = "read" => effects = 0
  /\ contract.kind = "mutation" => effects = (IF executed = {} THEN 0 ELSE 1)

(* An attempt that returns success was executed.                           *)
SuccessExecuted ==
  pc \in {"returned", "done"} /\ result = "ok" => attempt \in executed

ClientInv == TypeOK /\ AttemptsCounted /\ EffectsCounted /\ SuccessExecuted

(* A call has one attempt at least, and one only if a repetition could     *)
(* repeat its effect.                                                      *)
LEMMA AttemptsBound ==
  /\ Attempts \in Nat \ {0} /\ Attempts <= MaxAttempts
  /\ contract.kind # "read" /\ ~(contract.supported /\ contract.key = "valid") => Attempts = 1
BY AttemptsAssumption DEF Attempts, retrySafe

LEMMA ClientInit == Init => ClientInv
<1> SUFFICES ASSUME Init PROVE ClientInv
  OBVIOUS
<1>1. contract \in Contract /\ attempt = 0 /\ sent = {} /\ executed = {} /\ effects = 0
      /\ pc = "begin" /\ result = "none"
  BY DEF Init
<1>2. cancelled \in BOOLEAN
  BY DEF Init
<1>3. QED
  BY <1>1, <1>2, AttemptsBound, AttemptsAssumption
     DEF ClientInv, TypeOK, AttemptsCounted, EffectsCounted, SuccessExecuted, Errors

(* The attempts a contract allows change with the contract only.           *)
LEMMA AttemptsFixed == contract' = contract => Attempts' = Attempts
BY DEF Attempts, retrySafe

(* Every step keeps the invariant.                                         *)
LEMMA ClientNext == ClientInv /\ [Next]_vars => ClientInv'
<1> SUFFICES ASSUME ClientInv, [Next]_vars PROVE ClientInv'
  OBVIOUS
<1> USE AttemptsAssumption, AttemptsBound
<1>t. /\ attempt \in Nat /\ effects \in Nat /\ Attempts \in Nat
      /\ contract \in Contract /\ contract.kind \in {"read", "mutation"}
  BY DEF ClientInv, TypeOK, Contract
<1>1. CASE Begin
  <2>1. /\ pc = "begin" /\ attempt' = attempt + 1 /\ attempt + 1 <= Attempts
        /\ UNCHANGED <<contract, executed, effects, cancelled>> /\ Attempts' = Attempts
    BY <1>1, <1>t, AttemptsFixed DEF Begin, ClientInv, AttemptsCounted
  <2>2. \/ pc' = "waiting" /\ sent' = sent \cup {attempt + 1} /\ result' = result
        \/ pc' = "returned" /\ result' = "local" /\ sent' = sent
    BY <1>1 DEF Begin
  <2>s. sent \subseteq 1 .. attempt /\ executed \subseteq sent /\ sent \subseteq sent'
    BY <2>2 DEF ClientInv, AttemptsCounted
  <2>a. sent' \subseteq 1 .. attempt' /\ attempt' \in 0 .. MaxAttempts /\ attempt' <= Attempts
    BY <2>1, <2>2, <2>s, <1>t
  <2>3. TypeOK'
    <3>1. sent' \subseteq 1 .. MaxAttempts
      BY <2>a
    <3>2. pc' \in {"waiting", "returned"} /\ result' \in Errors \cup {"none", "ok", "cancelled"}
      BY <2>2 DEF ClientInv, TypeOK, Errors
    <3>3. QED
      BY <3>1, <3>2, <2>1, <2>a DEF ClientInv, TypeOK
  <2>4. AttemptsCounted'
    BY <2>1, <2>2, <2>s, <2>a DEF AttemptsCounted
  <2>5. EffectsCounted' /\ SuccessExecuted'
    BY <2>1, <2>2 DEF ClientInv, EffectsCounted, SuccessExecuted
  <2>6. QED
    BY <2>3, <2>4, <2>5 DEF ClientInv
<1>2. ASSUME NEW n \in 1 .. MaxAttempts, Execute(n) PROVE ClientInv'
  <2>1. /\ n \in sent /\ n \notin executed /\ executed' = executed \cup {n}
        /\ UNCHANGED <<contract, pc, attempt, result, sent, cancelled>> /\ Attempts' = Attempts
    BY <1>2, AttemptsFixed DEF Execute
  <2>2. effects' = IF \/ contract.kind = "read"
                      \/ (contract.supported /\ contract.key = "valid" /\ effects > 0)
                   THEN effects ELSE effects + 1
    BY <1>2 DEF Execute
  <2>3. AttemptsCounted'
    BY <2>1 DEF ClientInv, AttemptsCounted
  <2>4. contract.kind = "mutation" /\ ~(contract.supported /\ contract.key = "valid")
          => executed = {}
    BY <2>1, <1>t DEF ClientInv, AttemptsCounted
  <2>5. EffectsCounted'
    <3>1. CASE contract.kind = "read"
      BY <3>1, <2>1, <2>2 DEF ClientInv, EffectsCounted
    <3>2. CASE contract.kind = "mutation" /\ executed = {}
      BY <3>2, <2>1, <2>2 DEF ClientInv, EffectsCounted
    <3>3. CASE contract.kind = "mutation" /\ executed # {}
      BY <3>3, <2>1, <2>2, <2>4 DEF ClientInv, EffectsCounted
    <3>4. QED
      BY <3>1, <3>2, <3>3, <1>t
  <2>6. TypeOK'
    BY <2>1, <2>2, <1>t DEF ClientInv, TypeOK
  <2>7. SuccessExecuted'
    BY <2>1 DEF ClientInv, SuccessExecuted
  <2>8. QED
    BY <2>3, <2>5, <2>6, <2>7 DEF ClientInv
<1>3. CASE Respond \/ Refuse \/ Lose
  <2>1. /\ pc = "waiting" /\ pc' = "returned"
        /\ UNCHANGED <<contract, attempt, sent, executed, effects, cancelled>>
        /\ Attempts' = Attempts
    BY <1>3, AttemptsFixed DEF Respond, Refuse, Lose
  <2>2. result' \in Errors \cup {"ok"} /\ (result' = "ok" => attempt \in executed)
    BY <1>3 DEF Respond, Refuse, Lose, Errors
  <2>3. QED
    BY <2>1, <2>2 DEF ClientInv, TypeOK, AttemptsCounted, EffectsCounted, SuccessExecuted
<1>4. CASE Judge
  <2>1. /\ pc = "returned"
        /\ pc' = (IF result = "ok" \/ attempt = Attempts \/ ~retryable(result)
                  THEN "done" ELSE "backoff")
        /\ UNCHANGED <<contract, attempt, result, sent, executed, effects, cancelled>>
        /\ Attempts' = Attempts
    BY <1>4, AttemptsFixed DEF Judge
  <2>2. pc' \in {"done", "backoff"} /\ (pc' = "backoff" => attempt # Attempts)
    BY <2>1
  <2>3. QED
    BY <2>1, <2>2, <1>t DEF ClientInv, TypeOK, AttemptsCounted, EffectsCounted, SuccessExecuted
<1>5. CASE Backoff
  <2>1. /\ pc = "backoff"
        /\ \/ pc' = "begin" /\ result' = result
           \/ pc' = "done" /\ result' = "cancelled"
        /\ UNCHANGED <<contract, attempt, sent, executed, effects, cancelled>>
        /\ Attempts' = Attempts
    BY <1>5, AttemptsFixed DEF Backoff
  <2>2. QED
    BY <2>1, <1>t DEF ClientInv, TypeOK, AttemptsCounted, EffectsCounted, SuccessExecuted
<1>6. CASE Cancel
  <2>1. /\ cancelled' = TRUE /\ Attempts' = Attempts
        /\ UNCHANGED <<contract, pc, attempt, result, sent, executed, effects>>
    BY <1>6, AttemptsFixed DEF Cancel
  <2>2. TypeOK'
    BY <2>1 DEF ClientInv, TypeOK
  <2>3. AttemptsCounted' /\ EffectsCounted' /\ SuccessExecuted'
    BY <2>1 DEF ClientInv, AttemptsCounted, EffectsCounted, SuccessExecuted
  <2>4. QED
    BY <2>2, <2>3 DEF ClientInv
<1>7. CASE UNCHANGED vars
  <2>1. UNCHANGED <<contract, pc, attempt, result, sent, executed, effects, cancelled>>
        /\ Attempts' = Attempts
    BY <1>7, AttemptsFixed DEF vars
  <2>2. QED
    BY <2>1 DEF ClientInv, TypeOK, AttemptsCounted, EffectsCounted, SuccessExecuted
<1>8. QED
  BY <1>1, <1>2, <1>3, <1>4, <1>5, <1>6, <1>7 DEF Next

(* For any number of attempts, a call takes effect at most once however    *)
(* late its requests are executed, and what it reports as done was done.   *)
THEOREM CallTrue == Spec => []CallIsTrue
<1>1. ClientInv => CallIsTrue
  <2> SUFFICES ASSUME ClientInv PROVE CallIsTrue
    OBVIOUS
  <2>1. contract.kind \in {"read", "mutation"}
    BY DEF ClientInv, TypeOK, Contract
  <2>2. effects <= 1
    BY <2>1 DEF ClientInv, EffectsCounted
  <2>3. pc = "done" /\ result = "ok" => attempt \in executed
    BY DEF ClientInv, SuccessExecuted
  <2>4. QED
    BY <2>1, <2>2, <2>3 DEF ClientInv, EffectsCounted, CallIsTrue, EffectAtMostOnce, ResultIsTrue
<1>2. QED
  BY <1>1, ClientInit, ClientNext, PTL DEF Spec

----------------------------------------------------------------------------
(* RunState: what the readers record late, in the order of observation.    *)

(* What is recorded and what is still to be recorded was observed.         *)
Snapshots == [cause : Causes \cup {"none"}, causeAt : Nat,
              sealed : BOOLEAN, at : [Kinds -> Nat]]
RunTypes ==
  /\ snapshot \in Snapshots
  /\ sequence \in Nat /\ trace \in Seq(Kinds \cup Causes) /\ Len(trace) = sequence

(* n is a number that a reader of k took.                                  *)
Taken(n, k) == n \in 1 .. sequence /\ trace[n] = k
Waiting(k, n) == <<k, n>> \in pending

(* The observation of k that counts comes before all that were not         *)
(* overtaken; until there is one, readers still have all of them.          *)
FirstKept(k) ==
  /\ snapshot.at[k] # 0 => Taken(snapshot.at[k], k) /\ snapshot.at[k] \notin overtaken
  /\ \A n \in 1 .. sequence : trace[n] = k =>
       IF snapshot.at[k] # 0 THEN snapshot.at[k] <= n \/ n \in overtaken
       ELSE Waiting(k, n)
FirstsKept == \A k \in Kinds : FirstKept(k)

(* What waits was taken.  Only observations of a kind that has been        *)
(* recorded are overtaken, and no causes are.                              *)
WaitingTaken == \A k \in Kinds, n \in Nat : Waiting(k, n) => Taken(n, k)
OvertakenOf(n, k) == Taken(n, k) /\ snapshot.at[k] # 0
OvertakenTaken == \A n \in overtaken : \E k \in Kinds : OvertakenOf(n, k)

(* The cause is the last one observed.                                     *)
LastCauseKept ==
  /\ snapshot.cause = "none" <=> snapshot.causeAt = 0
  /\ snapshot.causeAt # 0 => Taken(snapshot.causeAt, snapshot.cause)
  /\ \A n \in 1 .. sequence : trace[n] \in Causes => n <= snapshot.causeAt

RunInv == RunTypes /\ FirstsKept /\ WaitingTaken /\ OvertakenTaken /\ LastCauseKept

LEMMA RunInitInv == RunInit => RunInv
<1> SUFFICES ASSUME RunInit PROVE RunInv
  OBVIOUS
<1>1. /\ sequence = 0 /\ trace = << >> /\ pending = {} /\ overtaken = {}
      /\ snapshot.cause = "none" /\ snapshot.causeAt = 0
      /\ \A k \in Kinds : snapshot.at[k] = 0
  BY DEF RunInit
<1>2. RunTypes
  BY DEF RunInit, RunTypes, Snapshots
<1>3. FirstsKept /\ LastCauseKept /\ WaitingTaken /\ OvertakenTaken
  BY <1>1 DEF FirstsKept, FirstKept, LastCauseKept, WaitingTaken, OvertakenTaken, Waiting
<1>4. QED
  BY <1>2, <1>3 DEF RunInv

(* An observation x is appended: the earlier ones stay where they are.     *)
Appends(x) ==
  /\ trace' \in Seq(Kinds \cup Causes) /\ Len(trace') = sequence' /\ sequence' \in Nat
  /\ \A n \in 1 .. sequence : trace'[n] = trace[n]
  /\ trace'[sequence + 1] = x
  /\ sequence' = sequence + 1
  /\ 1 .. sequence' = (1 .. sequence) \cup {sequence + 1}

LEMMA Appended ==
  ASSUME RunTypes, NEW x \in Kinds \cup Causes,
         sequence' = sequence + 1, trace' = Append(trace, x)
  PROVE  Appends(x)
BY DEF RunTypes, Appends

(* A step at the most appends, lets a number of k wait or takes it from    *)
(* there, records a number of k and overtakes waiting ones of k.           *)
Extends(k) ==
  /\ UNCHANGED <<trace, sequence>> \/ Appends(k)
  /\ snapshot' \in Snapshots /\ snapshot'.cause = snapshot.cause
  /\ snapshot'.causeAt = snapshot.causeAt
  /\ \A m \in Kinds \ {k} : snapshot'.at[m] = snapshot.at[m]
  /\ \A m \in Kinds \ {k} : \A n \in Nat : Waiting(m, n)' <=> Waiting(m, n)
  /\ overtaken \subseteq overtaken'
  /\ \A n \in overtaken' \ overtaken : Taken(n, k) /\ snapshot'.at[k] # 0
  /\ snapshot.at[k] # 0 => snapshot'.at[k] = snapshot.at[k]
  /\ \A n \in Nat : Waiting(k, n)' => Waiting(k, n) \/ (n = sequence + 1 /\ sequence' # sequence)

(* The other kinds keep what counts.                                       *)
LEMMA OtherKept ==
  ASSUME NEW m \in Kinds, FirstKept(m), snapshot'.at[m] = snapshot.at[m],
         \A n \in Nat : Waiting(m, n)' <=> Waiting(m, n),
         \A n \in overtaken' : n \in overtaken \/ (n \in 1 .. sequence /\ trace[n] # m),
         overtaken \subseteq overtaken',
         \A n \in 1 .. sequence : n \in 1 .. sequence' /\ trace'[n] = trace[n],
         \A n \in 1 .. sequence' : n \in 1 .. sequence \/ trace'[n] # m
  PROVE  FirstKept(m)'
<1>1. PICK x : x = snapshot.at[m]
  OBVIOUS
<1>2. x # 0 => x \in 1 .. sequence' /\ trace'[x] = m /\ x \notin overtaken'
  BY <1>1 DEF FirstKept, Taken
<1>3. ASSUME NEW n \in 1 .. sequence', trace'[n] = m
      PROVE  IF x # 0 THEN x <= n \/ n \in overtaken' ELSE Waiting(m, n)'
  <2>1. n \in 1 .. sequence /\ trace[n] = m /\ n \in Nat
    BY <1>3
  <2> QED
    BY <1>1, <2>1 DEF FirstKept
<1> QED
  BY <1>1, <1>2, <1>3 DEF FirstKept, Taken

(* Then what is left to show is that the number recorded of k is the first *)
(* of those that are not overtaken.                                        *)
LEMMA ExtendsKeeps ==
  ASSUME RunInv, NEW k \in Kinds, Extends(k), FirstKept(k)' PROVE RunInv'
<1>t. /\ RunTypes /\ sequence \in Nat /\ snapshot.causeAt \in Nat
      /\ snapshot.at \in [Kinds -> Nat]
  BY DEF RunInv, RunTypes, Snapshots
<1>1. RunTypes'
  BY <1>t DEF Extends, Appends, RunTypes
<1>2. /\ sequence' \in Nat
      /\ \A n \in 1 .. sequence : n \in 1 .. sequence' /\ trace'[n] = trace[n]
      /\ \A n \in 1 .. sequence' : n \in 1 .. sequence \/ trace'[n] = k
      /\ sequence' # sequence => sequence + 1 \in 1 .. sequence' /\ trace'[sequence + 1] = k
  BY <1>t DEF Extends, Appends
<1>3. ASSUME NEW m \in Kinds \ {k} PROVE FirstKept(m)'
  <2>1. FirstKept(m)
    BY DEF RunInv, FirstsKept
  <2>2. /\ snapshot'.at[m] = snapshot.at[m] /\ \A n \in Nat : Waiting(m, n)' <=> Waiting(m, n)
        /\ \A n \in overtaken' : n \in overtaken \/ (n \in 1 .. sequence /\ trace[n] # m)
        /\ overtaken \subseteq overtaken'
    BY DEF Extends, Taken
  <2> QED
    BY <1>2, <2>1, <2>2, OtherKept
<1>4. WaitingTaken'
  <2> SUFFICES ASSUME NEW m \in Kinds, NEW n \in Nat, Waiting(m, n)' PROVE Taken(n, m)'
    BY DEF WaitingTaken
  <2>1. Waiting(m, n) \/ (m = k /\ n = sequence + 1 /\ sequence' # sequence)
    BY DEF Extends
  <2> QED
    BY <1>2, <2>1 DEF RunInv, WaitingTaken, Taken
<1>5. OvertakenTaken'
  <2> SUFFICES ASSUME NEW n \in overtaken' PROVE \E m \in Kinds : OvertakenOf(n, m)'
    BY DEF OvertakenTaken
  <2>1. CASE n \in overtaken
    <3>1. PICK m \in Kinds : Taken(n, m) /\ snapshot.at[m] # 0
      BY <2>1 DEF RunInv, OvertakenTaken, OvertakenOf
    <3>2. snapshot'.at[m] # 0
      BY <3>1 DEF Extends
    <3> QED
      BY <3>1, <3>2, <1>2 DEF OvertakenOf, Taken
  <2>2. CASE n \notin overtaken
    <3>1. Taken(n, k) /\ snapshot'.at[k] # 0
      BY <2>2 DEF Extends
    <3> QED
      BY <3>1, <1>2 DEF OvertakenOf, Taken
  <2> QED
    BY <2>1, <2>2
<1>6. LastCauseKept'
  <2>1. k \notin Causes
    BY DEF Kinds, Causes
  <2>2. snapshot'.cause = snapshot.cause /\ snapshot'.causeAt = snapshot.causeAt
    BY DEF Extends
  <2> QED
    BY <2>1, <2>2, <1>2, <1>t DEF RunInv, LastCauseKept, Taken
<1> QED
  BY <1>1, <1>3, <1>4, <1>5, <1>6 DEF RunInv, FirstsKept

(* The snapshot with another number for k.                                 *)
LEMMA AtFacts ==
  ASSUME RunTypes, NEW k \in Kinds, NEW n \in Nat,
         snapshot' = [snapshot EXCEPT !.at[k] = IF @ = 0 THEN n ELSE @]
  PROVE  /\ snapshot' \in Snapshots /\ snapshot'.cause = snapshot.cause
         /\ snapshot'.causeAt = snapshot.causeAt
         /\ snapshot'.at[k] = IF snapshot.at[k] = 0 THEN n ELSE snapshot.at[k]
         /\ \A m \in Kinds \ {k} : snapshot'.at[m] = snapshot.at[m]
<1> DEFINE a == [snapshot.at EXCEPT ![k] = IF @ = 0 THEN n ELSE @]
<1>1. snapshot \in Snapshots /\ snapshot.at \in [Kinds -> Nat]
  BY DEF RunTypes, Snapshots
<1>2. snapshot' = [snapshot EXCEPT !.at = a]
  BY <1>1
<1>3. /\ a \in [Kinds -> Nat]
      /\ a[k] = IF snapshot.at[k] = 0 THEN n ELSE snapshot.at[k]
      /\ \A m \in Kinds \ {k} : a[m] = snapshot.at[m]
  BY <1>1
<1> HIDE DEF a
<1>4. /\ snapshot'.at = a /\ snapshot'.cause = snapshot.cause
      /\ snapshot'.causeAt = snapshot.causeAt /\ snapshot' \in Snapshots
  BY <1>1, <1>2, <1>3 DEF Snapshots
<1> QED
  BY <1>3, <1>4

(* Every step keeps the invariant.                                         *)
LEMMA RunNextInv == RunInv /\ [RunNext]_runVars => RunInv'
<1> SUFFICES ASSUME RunInv, [RunNext]_runVars PROVE RunInv'
  OBVIOUS
<1>t. /\ RunTypes /\ sequence \in Nat /\ snapshot.at \in [Kinds -> Nat]
      /\ snapshot.causeAt \in Nat /\ snapshot \in Snapshots
  BY DEF RunInv, RunTypes, Snapshots
<1>1. ASSUME NEW k \in Kinds, Observe(k) PROVE RunInv'
  <2>1. /\ sequence' = sequence + 1 /\ trace' = Append(trace, k) /\ snapshot' = snapshot
        /\ overtaken' = overtaken /\ pending' = pending \cup {<<k, sequence + 1>>}
    BY <1>1 DEF Observe
  <2>2. Appends(k)
    BY <2>1, <1>t, Appended
  <2>3. \A m \in Kinds, n \in Nat :
          Waiting(m, n)' <=> Waiting(m, n) \/ (m = k /\ n = sequence + 1)
    BY <2>1 DEF Waiting
  <2>4. Extends(k)
    BY <2>1, <2>2, <2>3, <1>t DEF Extends
  <2>5. FirstKept(k)'
    <3>1. FirstKept(k)
      BY DEF RunInv, FirstsKept
    <3> QED
      BY <3>1, <2>1, <2>2, <2>3, <1>t DEF FirstKept, Taken, Appends
  <2> QED
    BY <2>4, <2>5, ExtendsKeeps
<1>2. ASSUME NEW k \in Kinds, Record(k) PROVE RunInv'
  <2>1. /\ sequence' = sequence + 1 /\ trace' = Append(trace, k) /\ pending' = pending
        /\ snapshot' = [snapshot EXCEPT !.at[k] = IF @ = 0 THEN sequence + 1 ELSE @]
        /\ overtaken' = overtaken \cup Earlier(k, sequence + 1)
    BY <1>2 DEF Record
  <2>2. Appends(k)
    BY <2>1, <1>t, Appended
  <2>a. sequence + 1 \in Nat
    BY <1>t
  <2>3. /\ snapshot' \in Snapshots /\ snapshot'.cause = snapshot.cause
        /\ snapshot'.causeAt = snapshot.causeAt
        /\ snapshot'.at[k] = IF snapshot.at[k] = 0 THEN sequence + 1 ELSE snapshot.at[k]
        /\ \A m \in Kinds \ {k} : snapshot'.at[m] = snapshot.at[m]
    BY <2>1, <2>a, <1>t, AtFacts
  <2>4. \A m \in Kinds, n \in Nat : Waiting(m, n)' <=> Waiting(m, n)
    BY <2>1 DEF Waiting
  <2>5. Earlier(k, sequence + 1) =
          IF snapshot.at[k] = 0 THEN {n \in 1 .. sequence : Waiting(k, n)} ELSE {}
    BY <1>t DEF Earlier, Waiting
  <2>6. Extends(k)
    <3>1. \A n \in Earlier(k, sequence + 1) : Taken(n, k) /\ snapshot'.at[k] # 0
      BY <2>3, <2>5, <1>t DEF RunInv, WaitingTaken
    <3> QED
      BY <2>1, <2>2, <2>3, <2>4, <3>1, <1>t DEF Extends
  <2>7. FirstKept(k)'
    <3>1. FirstKept(k) /\ \A n \in overtaken : n \in 1 .. sequence
      BY DEF RunInv, FirstsKept, OvertakenTaken, OvertakenOf, Taken
    <3>2. CASE snapshot.at[k] = 0
      BY <3>1, <3>2, <2>1, <2>2, <2>3, <2>4, <2>5, <1>t DEF FirstKept, Taken, Appends
    <3>3. CASE snapshot.at[k] # 0
      BY <3>1, <3>3, <2>1, <2>2, <2>3, <2>4, <2>5, <1>t DEF FirstKept, Taken, Appends
    <3> QED
      BY <3>2, <3>3
  <2> QED
    BY <2>6, <2>7, ExtendsKeeps
<1>3. ASSUME NEW k \in Kinds, NEW n \in 1 .. sequence, RecordAt(k, n) PROVE RunInv'
  <2>1. /\ UNCHANGED <<sequence, trace>> /\ pending' = pending \ {<<k, n>>}
        /\ snapshot' = [snapshot EXCEPT !.at[k] = IF @ = 0 THEN n ELSE @]
        /\ overtaken' = overtaken \cup Earlier(k, n)
    BY <1>3 DEF RecordAt
  <2>2. n \in Nat /\ n # 0 /\ Waiting(k, n) /\ Taken(n, k)
    BY <1>3, <1>t DEF RecordAt, Waiting, RunInv, WaitingTaken
  <2>3. /\ snapshot' \in Snapshots /\ snapshot'.cause = snapshot.cause
        /\ snapshot'.causeAt = snapshot.causeAt
        /\ snapshot'.at[k] = IF snapshot.at[k] = 0 THEN n ELSE snapshot.at[k]
        /\ \A m \in Kinds \ {k} : snapshot'.at[m] = snapshot.at[m]
    BY <2>1, <2>2, <1>t, AtFacts
  <2>4. \A m \in Kinds, j \in Nat : Waiting(m, j)' <=> Waiting(m, j) /\ ~(m = k /\ j = n)
    BY <2>1 DEF Waiting
  <2>5. Earlier(k, n) =
          IF snapshot.at[k] = 0 THEN {j \in 1 .. n - 1 : Waiting(k, j)} ELSE {}
    BY DEF Earlier, Waiting
  <2>6. Extends(k)
    <3>1. \A j \in Earlier(k, n) : Taken(j, k) /\ snapshot'.at[k] # 0
      BY <2>2, <2>3, <2>5, <1>t DEF RunInv, WaitingTaken
    <3> QED
      BY <2>1, <2>3, <2>4, <3>1, <1>t DEF Extends
  <2>7. FirstKept(k)'
    <3>1. FirstKept(k)
      BY DEF RunInv, FirstsKept
    <3>2. CASE snapshot.at[k] = 0
      <4>1. n \notin overtaken
        BY <3>2, <2>2 DEF RunInv, OvertakenTaken, OvertakenOf, Taken
      <4>2. n \notin overtaken'
        BY <4>1, <2>1, <2>2, <2>5
      <4>3. \A j \in 1 .. sequence : trace[j] = k => n <= j \/ j \in overtaken'
        BY <3>1, <3>2, <2>1, <2>2, <2>5, <1>t DEF FirstKept
      <4> QED
        BY <4>2, <4>3, <3>2, <2>1, <2>2, <2>3 DEF FirstKept, Taken
    <3>3. CASE snapshot.at[k] # 0
      BY <3>1, <3>3, <2>1, <2>3, <2>5, <1>t DEF FirstKept, Taken
    <3> QED
      BY <3>2, <3>3
  <2> QED
    BY <2>6, <2>7, ExtendsKeeps
<1>4. ASSUME NEW c \in Causes, RecordCause(c) PROVE RunInv'
  <2>1. /\ sequence' = sequence + 1 /\ trace' = Append(trace, c)
        /\ pending' = pending /\ overtaken' = overtaken
        /\ snapshot' = [snapshot EXCEPT !.cause = c, !.causeAt = sequence + 1]
    BY <1>4 DEF RecordCause
  <2>2. /\ snapshot'.at = snapshot.at /\ snapshot'.cause = c
        /\ snapshot'.causeAt = sequence + 1 /\ snapshot' \in Snapshots
    <3>1. [snapshot EXCEPT !.cause = c] \in Snapshots
      BY <1>t DEF Snapshots
    <3>2. snapshot' = [[snapshot EXCEPT !.cause = c] EXCEPT !.causeAt = sequence + 1]
      BY <2>1
    <3>3. sequence + 1 \in Nat
      BY <1>t
    <3>4. QED
      BY <3>1, <3>2, <3>3, <1>t DEF Snapshots
  <2>3. Appends(c)
    BY <2>1, <1>t, Appended
  <2>4. RunTypes'
    BY <2>2, <2>3 DEF RunTypes, Appends
  <2>5. /\ \A n \in 1 .. sequence : n \in 1 .. sequence' /\ trace'[n] = trace[n]
        /\ \A n \in 1 .. sequence' : n \in 1 .. sequence \/ trace'[n] = c
        /\ \A m \in Kinds : m # c
        /\ \A m, n : Waiting(m, n)' <=> Waiting(m, n)
    BY <2>1, <2>3, <1>t DEF Appends, Kinds, Causes, Waiting
  <2>b. \A m \in Kinds : \A n \in 1 .. sequence' : n \in 1 .. sequence \/ trace'[n] # m
    BY <2>5
  <2>6. ASSUME NEW m \in Kinds PROVE FirstKept(m)'
    <3>1. FirstKept(m)
      BY DEF RunInv, FirstsKept
    <3> QED
      BY <3>1, <2>1, <2>2, <2>5, <2>b, OtherKept
  <2>7. WaitingTaken' /\ OvertakenTaken'
    <3>1. WaitingTaken'
      BY <2>5 DEF RunInv, WaitingTaken, Taken
    <3>2. ASSUME NEW n \in overtaken' PROVE \E m \in Kinds : OvertakenOf(n, m)'
      <4>1. PICK m \in Kinds : Taken(n, m) /\ snapshot.at[m] # 0
        BY <3>2, <2>1 DEF RunInv, OvertakenTaken, OvertakenOf
      <4> QED
        BY <4>1, <2>2, <2>5 DEF OvertakenOf, Taken
    <3> QED
      BY <3>1, <3>2 DEF OvertakenTaken
  <2>8. LastCauseKept'
    <3>1. c # "none"
      BY DEF Causes
    <3>2. \A n \in 1 .. sequence' : n <= sequence + 1
      BY <2>3, <1>t, SMTT(30) DEF Appends
    <3>3. sequence + 1 \in 1 .. sequence' /\ trace'[sequence + 1] = c /\ sequence + 1 # 0
      BY <2>3, <1>t DEF Appends
    <3> QED
      BY <3>1, <3>2, <3>3, <2>2 DEF LastCauseKept, Taken
  <2> QED
    BY <2>4, <2>6, <2>7, <2>8 DEF RunInv, FirstsKept
<1>5. CASE Seal
  <2>1. /\ UNCHANGED <<sequence, pending, trace, overtaken>>
        /\ snapshot' = [snapshot EXCEPT !.sealed = TRUE]
    BY <1>5 DEF Seal
  <2>2. /\ snapshot'.at = snapshot.at /\ snapshot'.cause = snapshot.cause
        /\ snapshot'.causeAt = snapshot.causeAt /\ snapshot' \in Snapshots
    BY <2>1, <1>t DEF Snapshots
  <2> QED
    BY <2>1, <2>2 DEF RunInv, RunTypes, FirstsKept, FirstKept, LastCauseKept, Taken,
                      WaitingTaken, OvertakenTaken, OvertakenOf, Waiting
<1>6. CASE UNCHANGED runVars
  BY <1>6 DEF runVars, RunInv, RunTypes, FirstsKept, FirstKept, LastCauseKept, Taken,
              WaitingTaken, OvertakenTaken, OvertakenOf, Waiting
<1>7. QED
  BY <1>1, <1>2, <1>3, <1>4, <1>5, <1>6 DEF RunNext

(* When nothing is pending, the recorded numbers are the first positions   *)
(* in the trace, and the cause is the last one in it.                      *)
LEMMA RecordedFirst ==
  ASSUME RunInv, pending = {}, NEW k \in Kinds
  PROVE  /\ snapshot.at[k] \in Nat
         /\ snapshot.at[k] = 0 => Positions({k}) = {}
         /\ snapshot.at[k] # 0 => /\ snapshot.at[k] \in Positions({k})
                                  /\ \A n \in Positions({k}) : snapshot.at[k] <= n
<1>1. /\ FirstKept(k) /\ snapshot.at[k] \in Nat /\ sequence = Len(trace)
      /\ \A n : ~Waiting(k, n)
  BY DEF RunInv, FirstsKept, RunTypes, Snapshots, Waiting
<1>2. QED
  BY <1>1 DEF FirstKept, Taken, Positions

LEMMA RecordedLast ==
  ASSUME RunInv
  PROVE  /\ snapshot.causeAt \in Nat
         /\ snapshot.cause = "none" => snapshot.causeAt = 0 /\ LastCause = {}
         /\ snapshot.cause # "none" =>
              /\ snapshot.causeAt # 0 /\ LastCause = {snapshot.causeAt}
              /\ trace[snapshot.causeAt] = snapshot.cause
<1>1. /\ snapshot.causeAt \in Nat /\ snapshot.cause \in Causes \cup {"none"}
      /\ sequence = Len(trace) /\ sequence \in Nat
  BY DEF RunInv, RunTypes, Snapshots
<1>o. \A n \in overtaken : trace[n] \notin Causes
  BY DEF RunInv, OvertakenTaken, OvertakenOf, Taken, Kinds, Causes
<1>2. CASE snapshot.cause = "none"
  <2>1. snapshot.causeAt = 0 /\ Positions(Causes) = {}
    BY <1>1, <1>2 DEF RunInv, LastCauseKept, Positions
  <2>2. QED
    BY <1>1, <1>2, <2>1 DEF LastCause
<1>3. CASE snapshot.cause # "none"
  <2>1. /\ snapshot.causeAt # 0 /\ snapshot.causeAt \in 1 .. sequence
        /\ trace[snapshot.causeAt] = snapshot.cause
    BY <1>3 DEF RunInv, LastCauseKept, Taken
  <2>2. snapshot.causeAt \in Positions(Causes)
    BY <1>1, <1>3, <1>o, <2>1 DEF Positions
  <2>3. \A n \in Positions(Causes) : n \in Nat /\ n <= snapshot.causeAt
    BY <1>1 DEF RunInv, LastCauseKept, Positions
  <2>4. LastCause = {snapshot.causeAt}
    BY <1>1, <2>2, <2>3 DEF LastCause
  <2>5. QED
    BY <1>1, <1>3, <2>1, <2>4
<1>4. QED
  BY <1>2, <1>3

(* For a run of any length, the outcome is the one of the order in which   *)
(* the events were observed, however late the readers recorded them.       *)
THEOREM OutcomeOrdered == RunSpec => []OutcomeFollowsOrder
<1>1. RunInv => OutcomeFollowsOrder
  <2> SUFFICES ASSUME RunInv, pending = {}, NEW exit \in Exit
               PROVE  LET validStop == Positions({"stop"}) # {}
                      IN Classify(snapshot, Positions({"error"}) # {}, validStop, exit,
                                  Positions({"provider"}) # {}) = Expected(validStop, exit)
    BY DEF OutcomeFollowsOrder
  <2> DEFINE e == snapshot.at["error"]
             s == snapshot.at["stop"]
             p == snapshot.at["provider"]
             last == snapshot.causeAt
             Fails == \/ Positions({"provider"}) # {} /\ ProviderDecides(snapshot)
                      \/ Positions({"error"}) # {} /\ ErrorDecides(snapshot)
             Precedes(n) == Before(n, {"stop"}) /\ \A m \in LastCause : n < m
  <2>1. /\ e \in Nat /\ s \in Nat /\ p \in Nat
        /\ e = 0 => Positions({"error"}) = {}
        /\ e # 0 => e \in Positions({"error"}) /\ \A n \in Positions({"error"}) : e <= n
        /\ p = 0 => Positions({"provider"}) = {}
        /\ p # 0 => p \in Positions({"provider"}) /\ \A n \in Positions({"provider"}) : p <= n
        /\ s = 0 => Positions({"stop"}) = {}
        /\ s # 0 => s \in Positions({"stop"}) /\ \A n \in Positions({"stop"}) : s <= n
    BY RecordedFirst DEF Kinds
  <2>2. /\ last \in Nat
        /\ snapshot.cause = "none" => last = 0 /\ LastCause = {}
        /\ snapshot.cause # "none" => last # 0 /\ LastCause = {last} /\ trace[last] = snapshot.cause
    BY RecordedLast
  <2>3. /\ Positions({"error", "provider"}) = Positions({"error"}) \cup Positions({"provider"})
        /\ Positions({"error", "provider"}) \subseteq Nat /\ Positions({"stop"}) \subseteq Nat
    BY DEF Positions
  <2>4. ProviderDecides(snapshot) <=> /\ s = 0 \/ p < s
                                      /\ snapshot.cause = "none" \/ (last > 0 /\ p < last)
    BY DEF ProviderDecides
  <2>5. ErrorDecides(snapshot) <=>
          /\ s = 0 \/ (e > 0 /\ e < s)
          /\ snapshot.cause = "none" \/ (e > 0 /\ last > 0 /\ e < last)
    BY DEF ErrorDecides
  <2>6. ASSUME NEW n \in Nat
        PROVE  Precedes(n) <=> (s = 0 \/ n < s) /\ (snapshot.cause = "none" \/ n < last)
    <3>1. Before(n, {"stop"}) <=> s = 0 \/ n < s
      BY <2>1, <2>3 DEF Before
    <3>2. (\A m \in LastCause : n < m) <=> snapshot.cause = "none" \/ n < last
      BY <2>2
    <3>3. QED
      BY <3>1, <3>2
  <2> HIDE DEF e, s, p, last, Precedes
  <2>7. Fails <=> \E n \in Positions({"error", "provider"}) : Precedes(n)
    <3>1. ASSUME Positions({"provider"}) # {}, ProviderDecides(snapshot)
          PROVE  p \in Positions({"error", "provider"}) /\ Precedes(p)
      BY <3>1, <2>1, <2>3, <2>4, <2>6
    <3>2. ASSUME Positions({"error"}) # {}, ErrorDecides(snapshot)
          PROVE  e \in Positions({"error", "provider"}) /\ Precedes(e)
      BY <3>2, <2>1, <2>3, <2>5, <2>6
    <3>3. ASSUME NEW n \in Positions({"provider"}), Precedes(n)
          PROVE  ProviderDecides(snapshot)
      <4>1. n \in Nat /\ p \in Nat /\ p <= n /\ last \in Nat /\ s \in Nat
        BY <2>1, <2>2, <2>3
      <4>2. (s = 0 \/ n < s) /\ (snapshot.cause = "none" \/ n < last)
        BY <3>3, <4>1, <2>6
      <4>3. QED
        BY <4>1, <4>2, <2>4
    <3>4. ASSUME NEW n \in Positions({"error"}), Precedes(n)
          PROVE  ErrorDecides(snapshot)
      <4>1. n \in Nat /\ e \in Nat /\ e # 0 /\ e <= n /\ last \in Nat /\ s \in Nat
        BY <2>1, <2>2, <2>3
      <4>2. (s = 0 \/ n < s) /\ (snapshot.cause = "none" \/ n < last)
        BY <3>4, <4>1, <2>6
      <4>3. QED
        BY <4>1, <4>2, <2>5
    <3>5. QED
      BY <3>1, <3>2, <3>3, <3>4, <2>3
  <2>8. snapshot.cause # "none" =>
          CauseOutcome(snapshot.cause) = CauseOutcome(trace[CHOOSE n \in LastCause : TRUE])
    BY <2>2
  <2>9. snapshot.cause # "none" <=> LastCause # {}
    BY <2>2
  <2> DEFINE validStop == Positions({"stop"}) # {}
  <2>10. Classify(snapshot, Positions({"error"}) # {}, validStop, exit, Positions({"provider"}) # {})
           = IF Fails THEN "failed"
             ELSE IF snapshot.cause # "none" THEN CauseOutcome(snapshot.cause)
             ELSE ExitOutcome(validStop, exit)
    BY DEF Classify
  <2>11. Expected(validStop, exit)
           = IF \E n \in Positions({"error", "provider"}) : Precedes(n) THEN "failed"
             ELSE IF LastCause # {} THEN CauseOutcome(trace[CHOOSE n \in LastCause : TRUE])
             ELSE ExitOutcome(validStop, exit)
    BY DEF Expected, Precedes
  <2> HIDE DEF Fails, validStop
  <2>12. QED
    BY <2>7, <2>8, <2>9, <2>10, <2>11 DEF validStop
<1>2. QED
  BY <1>1, RunInitInv, RunNextInv, PTL DEF RunSpec

----------------------------------------------------------------------------
(* FanOut: the results arrive in any order and are sorted.                 *)

Envelope(w) == [node |-> NodeIDs[w], ok |-> outcome[w] = "ok"]

(* g says whose result each of rs is: one result for each worker of W.     *)
Matching(rs, g, W) ==
  /\ g \in Bijection(DOMAIN rs, W)
  /\ \A k \in DOMAIN rs : rs[k] = Envelope(g[k])

(* The results equal to e, and the workers of W whose result is e.         *)
Equals(rs, e) == {k \in DOMAIN rs : rs[k] = e}
Yielding(W, e) == {w \in W : Envelope(w) = e}

Collected == {w \in Workers : worker[w] \in {"releasing", "done"}}

(* A call has an outcome from the moment it returned.                      *)
OutcomesKnown ==
  \A w \in Workers : outcome[w] = "none" <=> worker[w] \in {"waiting", "calling"}

SlotsBounded == Cardinality({w \in Workers : HoldsSlot(w)}) <= limit

(* There is one result for each worker that has passed the mutex.          *)
Gathered == \E g : Matching(results, g, Collected)

(* What was returned are the results of all, in some order.                *)
Returned ==
  report.returned =>
    /\ \A w \in Workers : worker[w] = "done"
    /\ report.results \in Seq([node : Nat, ok : BOOLEAN])
    /\ report.partial = IsPartial(report.results)
    /\ \E g : Matching(report.results, g, Workers)

FanInv == FanTypeOK /\ OutcomesKnown /\ SlotsBounded /\ Gathered /\ Returned

LEMMA NodesFinite ==
  /\ Len(NodeIDs) \in Nat /\ Workers = 1 .. Len(NodeIDs) /\ IsFiniteSet(Workers)
  /\ \A w \in Workers : NodeIDs[w] \in Nat
  /\ limit \in Nat \ {0}
<1>1. Len(NodeIDs) \in Nat /\ Workers = 1 .. Len(NodeIDs) /\ \A w \in Workers : NodeIDs[w] \in Nat
  BY FanOutAssumption DEF Workers
<1>2. IsFiniteSet(Workers)
  BY <1>1, FS_Interval
<1>3. limit \in Nat \ {0}
  BY FanOutAssumption DEF limit
<1>4. QED
  BY <1>1, <1>2, <1>3

(* The results that are equal are as many as the workers they come from.   *)
LEMMA MatchingCounts ==
  ASSUME NEW rs \in Seq([node : Nat, ok : BOOLEAN]), NEW g, NEW W, Matching(rs, g, W),
         NEW e
  PROVE  Cardinality(Equals(rs, e)) = Cardinality(Yielding(W, e))
<1> DEFINE K == {k \in DOMAIN rs : rs[k] = e}
           V == {w \in W : Envelope(w) = e}
           h == [k \in K |-> g[k]]
<1>1. /\ g \in [DOMAIN rs -> W]
      /\ \A k, m \in DOMAIN rs : g[k] = g[m] => k = m
      /\ \A w \in W : \E k \in DOMAIN rs : g[k] = w
      /\ \A k \in DOMAIN rs : rs[k] = Envelope(g[k])
  BY DEF Matching, Bijection, Injection, IsInjective, Surjection
<1>2. h \in Bijection(K, V)
  <2>1. h \in [K -> V]
    BY <1>1
  <2>2. \A k, m \in K : h[k] = h[m] => k = m
    BY <1>1
  <2>3. \A w \in V : \E k \in K : h[k] = w
    <3>1. TAKE w \in V
    <3>2. PICK k \in DOMAIN rs : g[k] = w
      BY <1>1
    <3>3. k \in K /\ h[k] = w
      BY <1>1, <3>2
    <3>4. QED
      BY <3>3
  <2>4. QED
    BY <2>1, <2>2, <2>3 DEF Bijection, Injection, IsInjective, Surjection
<1>3. IsFiniteSet(K)
  <2>1. DOMAIN rs = 1 .. Len(rs) /\ Len(rs) \in Nat
    OBVIOUS
  <2>2. IsFiniteSet(1 .. Len(rs)) /\ K \in SUBSET (1 .. Len(rs))
    BY <2>1, FS_Interval
  <2>3. QED
    BY <2>2, FS_Subset
<1>4. Cardinality(V) = Cardinality(K)
  <2>1. ExistsBijection(K, V)
    BY <1>2 DEF ExistsBijection
  <2> HIDE DEF K, V
  <2>2. QED
    BY <2>1, <1>3, FS_Bijection
<1>5. QED
  BY <1>4 DEF Equals, Yielding

(* A one-to-one rearrangement of finitely many results keeps all of them.  *)
LEMMA ArrangementMatches ==
  ASSUME NEW rs \in Seq([node : Nat, ok : BOOLEAN]), NEW g, NEW W, Matching(rs, g, W),
         NEW ordered \in Arrangements(rs)
  PROVE  /\ ordered \in Seq([node : Nat, ok : BOOLEAN])
         /\ \E f : Matching(ordered, f, W)
<1> DEFINE D == DOMAIN rs
<1>1. PICK p \in [D -> D] : /\ \A k, m \in D : k # m => p[k] # p[m]
                            /\ ordered = [k \in D |-> rs[p[k]]]
  BY DEF Arrangements
<1>2. D = 1 .. Len(rs) /\ Len(rs) \in Nat /\ IsFiniteSet(D) /\ DOMAIN ordered = D
  BY <1>1, FS_Interval
<1>3. p \in Surjection(D, D)
  <2>1. p \in Injection(D, D)
    BY <1>1 DEF Injection, IsInjective
  <2> HIDE DEF D
  <2>2. QED
    BY <2>1, <1>2, FS_Injection
<1>4. /\ g \in [D -> W]
      /\ \A k, m \in D : g[k] = g[m] => k = m
      /\ \A w \in W : \E k \in D : g[k] = w
      /\ \A k \in D : rs[k] = Envelope(g[k])
  BY DEF Matching, Bijection, Injection, IsInjective, Surjection
<1> DEFINE f == [k \in D |-> g[p[k]]]
<1>5. ordered \in Seq([node : Nat, ok : BOOLEAN])
  <2>1. ASSUME NEW k \in 1 .. Len(rs)
        PROVE  ordered[k] \in [node : Nat, ok : BOOLEAN]
    <3>1. k \in D /\ p[k] \in 1 .. Len(rs)
      BY <1>1, <1>2
    <3>2. \A j \in 1 .. Len(rs) : rs[j] \in [node : Nat, ok : BOOLEAN]
      BY ElementOfSeq
    <3>3. rs[p[k]] \in [node : Nat, ok : BOOLEAN]
      BY <3>1, <3>2
    <3>4. QED
      BY <1>1, <3>1, <3>3
  <2>2. ordered = [k \in 1 .. Len(rs) |-> ordered[k]]
    BY <1>1, <1>2
  <2>3. QED
    BY <2>1, <2>2, <1>2
<1> HIDE DEF D
<1>6. f \in Bijection(D, W)
  <2>1. f \in [D -> W] /\ \A k, m \in D : f[k] = f[m] => k = m
    BY <1>1, <1>4
  <2>2. ASSUME NEW w \in W PROVE \E k \in D : f[k] = w
    <3>1. PICK m \in D : g[m] = w
      BY <1>4
    <3>2. PICK k \in D : p[k] = m
      BY <1>3 DEF Surjection
    <3>3. QED
      BY <3>1, <3>2
  <2>3. QED
    BY <2>1, <2>2 DEF Bijection, Injection, IsInjective, Surjection
<1>7. \A k \in D : ordered[k] = Envelope(f[k])
  BY <1>1, <1>4
<1>8. Matching(ordered, f, W)
  BY <1>2, <1>6, <1>7 DEF Matching
<1>9. QED
  BY <1>5, <1>8

LEMMA FanInitInv == FanInit => FanInv
<1> SUFFICES ASSUME FanInit PROVE FanInv
  OBVIOUS
<1>1. /\ worker = [w \in Workers |-> "waiting"] /\ outcome = [w \in Workers |-> "none"]
      /\ results = << >> /\ report = [returned |-> FALSE, results |-> << >>, partial |-> FALSE]
  BY DEF FanInit, NoReport
<1>2. FanTypeOK /\ OutcomesKnown /\ Returned
  BY <1>1 DEF FanTypeOK, OutcomesKnown, Returned
<1>3. SlotsBounded
  <2>1. {w \in Workers : HoldsSlot(w)} = {}
    BY <1>1 DEF HoldsSlot
  <2>2. QED
    BY <2>1, FS_EmptySet, NodesFinite DEF SlotsBounded
<1>4. Gathered
  <2>1. Collected = {} /\ DOMAIN results = {}
    BY <1>1 DEF Collected
  <2>2. Matching(results, << >>, Collected)
    BY <2>1 DEF Matching, Bijection, Injection, IsInjective, Surjection
  <2>3. QED
    BY <2>2 DEF Gathered
<1>5. QED
  BY <1>2, <1>3, <1>4 DEF FanInv

(* A step of a worker between two places changes the slots in use by that  *)
(* worker only.                                                            *)
LEMMA SlotsKept ==
  ASSUME FanInv, NEW w \in Workers, NEW place \in {"collecting", "releasing", "done"},
         HoldsSlot(w), worker' = [worker EXCEPT ![w] = place]
  PROVE  SlotsBounded'
<1> DEFINE before == {v \in Workers : HoldsSlot(v)}
           after == {v \in Workers : HoldsSlot(v)'}
<1>1. after \in SUBSET before
  BY DEF HoldsSlot, FanInv, FanTypeOK
<1>2. IsFiniteSet(before)
  BY NodesFinite, FS_Subset
<1>3. Cardinality(before) <= limit
  BY DEF FanInv, SlotsBounded
<1> HIDE DEF before, after
<1>4. Cardinality(after) <= Cardinality(before) /\ Cardinality(after) \in Nat
      /\ Cardinality(before) \in Nat
  BY <1>1, <1>2, FS_Subset, FS_CardinalityType
<1>5. Cardinality(after) <= limit
  BY <1>3, <1>4, NodesFinite
<1>6. QED
  BY <1>5 DEF SlotsBounded, after, limit

LEMMA FanNextInv == FanInv /\ [FanNext]_fanVars => FanInv'
<1> SUFFICES ASSUME FanInv, [FanNext]_fanVars PROVE FanInv'
  OBVIOUS
<1> USE NodesFinite
<1>1. ASSUME NEW w \in Workers, Acquire(w) PROVE FanInv'
  <2>1. /\ worker[w] = "waiting" /\ worker' = [worker EXCEPT ![w] = "calling"]
        /\ outcome' = outcome /\ results' = results /\ report' = report
    BY <1>1 DEF Acquire
  <2>2. FanTypeOK' /\ OutcomesKnown'
    BY <2>1 DEF FanInv, FanTypeOK, OutcomesKnown
  <2>3. SlotsBounded'
    <3> DEFINE before == {v \in Workers : HoldsSlot(v)}
               after == {v \in Workers : HoldsSlot(v)'}
    <3>1. after = before \cup {w}
      BY <2>1 DEF HoldsSlot, FanInv, FanTypeOK
    <3>2. IsFiniteSet(before) /\ Cardinality(before) < limit
      BY <1>1, FS_Subset DEF Acquire
    <3> HIDE DEF before, after
    <3>3. Cardinality(after) = IF w \in before THEN Cardinality(before) ELSE Cardinality(before) + 1
      BY <3>1, <3>2, FS_AddElement
    <3>4. Cardinality(after) <= limit
      BY <3>2, <3>3, FS_CardinalityType
    <3>5. QED
      BY <3>4 DEF SlotsBounded, after, limit
  <2>4. Collected' = Collected
    BY <2>1 DEF Collected, FanInv, FanTypeOK
  <2>5. Gathered'
    BY <2>1, <2>4 DEF FanInv, Gathered, Matching, Envelope
  <2>6. Returned'
    BY <2>1 DEF FanInv, Returned
  <2>7. QED
    BY <2>2, <2>3, <2>5, <2>6 DEF FanInv
<1>2. ASSUME NEW w \in Workers, NEW res \in {"ok", "failed"}, CallReturned(w, res)
      PROVE  FanInv'
  <2>1. /\ worker[w] = "calling" /\ worker' = [worker EXCEPT ![w] = "collecting"]
        /\ outcome' = [outcome EXCEPT ![w] = res] /\ results' = results /\ report' = report
    BY <1>2 DEF CallReturned
  <2>2. FanTypeOK' /\ OutcomesKnown'
    BY <2>1 DEF FanInv, FanTypeOK, OutcomesKnown
  <2>3. SlotsBounded'
    BY <2>1, SlotsKept DEF HoldsSlot
  <2>4. Collected' = Collected /\ \A v \in Collected : outcome'[v] = outcome[v]
    BY <2>1 DEF Collected, FanInv, FanTypeOK
  <2>5. Gathered'
    <3>1. PICK g : Matching(results, g, Collected)
      BY DEF FanInv, Gathered
    <3>2. \A k \in DOMAIN results : g[k] \in Collected
      BY <3>1 DEF Matching, Bijection, Surjection
    <3>3. Matching(results, g, Collected)'
      BY <2>1, <2>4, <3>1, <3>2 DEF Matching, Envelope
    <3>4. QED
      BY <3>3 DEF Gathered
  <2>6. Returned'
    BY <2>1 DEF FanInv, Returned
  <2>7. QED
    BY <2>2, <2>3, <2>5, <2>6 DEF FanInv
<1>3. ASSUME NEW w \in Workers, Collect(w) PROVE FanInv'
  <2>1. /\ worker[w] = "collecting" /\ worker' = [worker EXCEPT ![w] = "releasing"]
        /\ results' = Append(results, Envelope(w)) /\ outcome' = outcome /\ report' = report
    BY <1>3 DEF Collect, Envelope
  <2>2. results \in Seq([node : Nat, ok : BOOLEAN]) /\ Envelope(w) \in [node : Nat, ok : BOOLEAN]
    BY DEF FanInv, FanTypeOK, Envelope
  <2>3. FanTypeOK' /\ OutcomesKnown'
    <3>1. results' \in Seq([node : Nat, ok : BOOLEAN])
      BY <2>1, <2>2
    <3>2. QED
      BY <2>1, <3>1 DEF FanInv, FanTypeOK, OutcomesKnown
  <2>4. SlotsBounded'
    BY <2>1, SlotsKept DEF HoldsSlot
  <2>5. Collected' = Collected \cup {w} /\ w \notin Collected
    BY <2>1 DEF Collected, FanInv, FanTypeOK
  <2>6. Gathered'
    <3>1. PICK g : Matching(results, g, Collected)
      BY DEF FanInv, Gathered
    <3> DEFINE D == DOMAIN results
               n == Len(results) + 1
               f == [k \in D \cup {n} |-> IF k = n THEN w ELSE g[k]]
    <3>2. DOMAIN results' = D \cup {n} /\ n \notin D /\ results'[n] = Envelope(w)
          /\ \A k \in D : results'[k] = results[k]
      BY <2>1, <2>2
    <3>3. /\ g \in [D -> Collected]
          /\ \A k, m \in D : g[k] = g[m] => k = m
          /\ \A v \in Collected : \E k \in D : g[k] = v
          /\ \A k \in D : results[k] = Envelope(g[k])
      BY <3>1 DEF Matching, Bijection, Injection, IsInjective, Surjection
    <3> HIDE DEF D, n
    <3>4. f \in [D \cup {n} -> Collected \cup {w}]
      BY <3>3
    <3>5. \A k, m \in D \cup {n} : f[k] = f[m] => k = m
      BY <3>2, <3>3, <2>5
    <3>6. \A v \in Collected \cup {w} : \E k \in D \cup {n} : f[k] = v
      BY <3>2, <3>3
    <3>7. \A k \in D \cup {n} : results'[k] = Envelope(f[k])
      BY <3>2, <3>3
    <3>8. f \in Bijection(D \cup {n}, Collected \cup {w})
      BY <3>4, <3>5, <3>6 DEF Bijection, Injection, IsInjective, Surjection
    <3> HIDE DEF f
    <3>9. \A k : Envelope(k)' = Envelope(k)
      BY <2>1 DEF Envelope
    <3>10. \E h : Matching(results', h, Collected')
      BY <3>2, <3>7, <3>8, <2>5 DEF Matching
    <3>11. ASSUME NEW h, Matching(results', h, Collected') PROVE Matching(results, h, Collected)'
      BY <3>9, <3>11 DEF Matching
    <3>12. QED
      BY <3>10, <3>11 DEF Gathered
  <2>7. Returned'
    BY <2>1 DEF FanInv, Returned
  <2>8. QED
    BY <2>3, <2>4, <2>6, <2>7 DEF FanInv
<1>4. ASSUME NEW w \in Workers, Release(w) PROVE FanInv'
  <2>1. /\ worker[w] = "releasing" /\ worker' = [worker EXCEPT ![w] = "done"]
        /\ outcome' = outcome /\ results' = results /\ report' = report
    BY <1>4 DEF Release
  <2>2. FanTypeOK' /\ OutcomesKnown'
    BY <2>1 DEF FanInv, FanTypeOK, OutcomesKnown
  <2>3. SlotsBounded'
    BY <2>1, SlotsKept DEF HoldsSlot
  <2>4. Collected' = Collected
    BY <2>1 DEF Collected, FanInv, FanTypeOK
  <2>5. Gathered'
    BY <2>1, <2>4 DEF FanInv, Gathered, Matching, Envelope
  <2>6. Returned'
    BY <2>1 DEF FanInv, Returned
  <2>7. QED
    BY <2>2, <2>3, <2>5, <2>6 DEF FanInv
<1>5. ASSUME FanReturn PROVE FanInv'
  <2>1. /\ worker' = worker /\ outcome' = outcome /\ results' = results
        /\ \A w \in Workers : worker[w] = "done"
    BY <1>5 DEF FanReturn
  <2>2. PICK sorted \in Arrangements(results) :
          report' = [returned |-> TRUE, results |-> sorted, partial |-> IsPartial(sorted)]
    BY <1>5 DEF FanReturn
  <2>3. PICK g : Matching(results, g, Collected)
    BY DEF FanInv, Gathered
  <2>4. Collected = Workers
    BY <2>1 DEF Collected
  <2>5. results \in Seq([node : Nat, ok : BOOLEAN])
    BY DEF FanInv, FanTypeOK
  <2>6. sorted \in Seq([node : Nat, ok : BOOLEAN]) /\ \E f : Matching(sorted, f, Workers)
    BY <2>2, <2>3, <2>4, <2>5, ArrangementMatches
  <2>7. report'.returned /\ report'.results = sorted /\ report'.partial = IsPartial(sorted)
    BY <2>2
  <2>8. Returned'
    <3>1. PICK f : Matching(sorted, f, Workers)
      BY <2>6
    <3>2. Matching(report.results, f, Workers)'
      BY <2>1, <2>7, <3>1 DEF Matching, Envelope
    <3>3. QED
      BY <2>1, <2>6, <2>7, <3>2 DEF Returned, IsPartial
  <2>9. FanTypeOK'
    <3>1. report'.returned \in BOOLEAN /\ report'.partial \in BOOLEAN
      BY <2>7 DEF IsPartial
    <3>2. QED
      BY <2>1, <3>1 DEF FanInv, FanTypeOK
  <2>10. OutcomesKnown' /\ SlotsBounded' /\ Gathered'
    BY <2>1 DEF FanInv, OutcomesKnown, SlotsBounded, HoldsSlot, Gathered, Matching, Envelope,
                Collected
  <2>11. QED
    BY <2>8, <2>9, <2>10 DEF FanInv
<1>6. ASSUME UNCHANGED fanVars PROVE FanInv'
  <2>1. worker' = worker /\ outcome' = outcome /\ results' = results /\ report' = report
    BY <1>6 DEF fanVars
  <2>2. FanTypeOK' /\ OutcomesKnown' /\ SlotsBounded'
    BY <2>1 DEF FanInv, FanTypeOK, OutcomesKnown, SlotsBounded, HoldsSlot
  <2>3. Gathered'
    BY <2>1 DEF FanInv, Gathered, Matching, Envelope, Collected
  <2>4. Returned'
    BY <2>1 DEF FanInv, Returned, Matching, Envelope, IsPartial
  <2>5. QED
    BY <2>2, <2>3, <2>4 DEF FanInv
<1>7. QED
  BY <1>1, <1>2, <1>3, <1>4, <1>5, <1>6 DEF FanNext, FanStep

(* The fan-out reports every node as often as it was named and no failed   *)
(* call as a success, whatever order the calls return in: for every list   *)
(* of nodes, with repetitions, and every limit.                            *)
THEOREM FanOutComplete == FanSpec => []ReportComplete
<1>1. FanInv => ReportComplete
  <2> SUFFICES ASSUME FanInv PROVE ReportComplete
    OBVIOUS
  <2>1. Cardinality({w \in Workers : worker[w] = "calling"}) <= limit
    <3> DEFINE S == {w \in Workers : HoldsSlot(w)}
               C == {w \in Workers : worker[w] = "calling"}
    <3>1. C \in SUBSET S
      BY DEF HoldsSlot
    <3>2. IsFiniteSet(S) /\ Cardinality(S) <= limit
      BY NodesFinite, FS_Subset DEF FanInv, SlotsBounded
    <3> HIDE DEF S, C
    <3>3. IsFiniteSet(C) /\ Cardinality(C) <= Cardinality(S)
      BY <3>1, <3>2, FS_Subset
    <3>4. Cardinality(C) \in Nat /\ Cardinality(S) \in Nat
      BY <3>2, <3>3, FS_CardinalityType
    <3>5. Cardinality(C) <= limit
      BY <3>2, <3>3, <3>4, NodesFinite
    <3>6. QED
      BY <3>5 DEF C
  <2> DEFINE Reported(n, ok) ==
               {k \in DOMAIN report.results : report.results[k] = [node |-> n, ok |-> ok]}
             Enveloped(n, ok) == {w \in Workers : Envelope(w) = [node |-> n, ok |-> ok]}
             Called(n, r) == {w \in Workers : NodeIDs[w] = n /\ outcome[w] = r}
  <2>2. ASSUME report.returned
        PROVE  /\ \A n, ok : Cardinality(Reported(n, ok)) = Cardinality(Enveloped(n, ok))
               /\ Len(report.results) = Len(NodeIDs)
               /\ report.partial <=> \E w \in Workers : outcome[w] = "failed"
    <3>1. PICK rs : rs = report.results
      OBVIOUS
    <3>2. rs \in Seq([node : Nat, ok : BOOLEAN]) /\ report.partial = IsPartial(rs)
      BY <2>2, <3>1 DEF FanInv, Returned
    <3>3. PICK g : Matching(rs, g, Workers)
      BY <2>2, <3>1 DEF FanInv, Returned
    <3>4. ASSUME NEW n, NEW ok
          PROVE  Cardinality(Reported(n, ok)) = Cardinality(Enveloped(n, ok))
      <4>1. PICK e : e = [node |-> n, ok |-> ok]
        OBVIOUS
      <4>2. Cardinality(Equals(rs, e)) = Cardinality(Yielding(Workers, e))
        BY <3>2, <3>3, MatchingCounts
      <4>3. QED
        BY <4>1, <4>2, <3>1 DEF Equals, Yielding
    <3>5. Len(rs) = Len(NodeIDs)
      <4>1. DOMAIN rs = 1 .. Len(rs) /\ Len(rs) \in Nat
        BY <3>2
      <4>2. ExistsBijection(1 .. Len(rs), 1 .. Len(NodeIDs))
        BY <3>3, <4>1, NodesFinite DEF Matching, ExistsBijection
      <4>3. Cardinality(1 .. Len(NodeIDs)) = Cardinality(1 .. Len(rs))
        BY <4>1, <4>2, FS_Interval, FS_Bijection
      <4>4. Cardinality(1 .. Len(NodeIDs)) = Len(NodeIDs) /\ Cardinality(1 .. Len(rs)) = Len(rs)
        <5>1. ASSUME NEW n \in Nat PROVE Cardinality(1 .. n) = n
          BY FS_Interval
        <5>2. QED
          BY <4>1, <5>1, NodesFinite
      <4>5. QED
        BY <4>3, <4>4
    <3>6. IsPartial(rs) <=> \E w \in Workers : outcome[w] = "failed"
      <4>1. \A w \in Workers : outcome[w] # "failed" <=> outcome[w] = "ok"
        BY <2>2 DEF FanInv, Returned, OutcomesKnown, FanTypeOK
      <4>2. g \in [DOMAIN rs -> Workers] /\ \A w \in Workers : \E k \in DOMAIN rs : g[k] = w
        BY <3>3 DEF Matching, Bijection, Surjection
      <4>3. ASSUME NEW k \in DOMAIN rs PROVE rs[k].ok <=> outcome[g[k]] = "ok"
        <5>1. rs[k] = Envelope(g[k])
          BY <3>3 DEF Matching
        <5>2. Envelope(g[k]).ok <=> outcome[g[k]] = "ok"
          BY DEF Envelope
        <5>3. QED
          BY <5>1, <5>2
      <4>4. QED
        BY <4>1, <4>2, <4>3 DEF IsPartial
    <3>7. QED
      BY <3>1, <3>2, <3>4, <3>5, <3>6
  <2>3. ASSUME report.returned, NEW n
        PROVE  Enveloped(n, TRUE) = Called(n, "ok") /\ Enveloped(n, FALSE) = Called(n, "failed")
    <3>1. \A w \in Workers : outcome[w] # "failed" <=> outcome[w] = "ok"
      BY <2>3 DEF FanInv, Returned, OutcomesKnown, FanTypeOK
    <3>2. ASSUME NEW w \in Workers
          PROVE  /\ Envelope(w) = [node |-> n, ok |-> TRUE] <=> NodeIDs[w] = n /\ outcome[w] = "ok"
                 /\ Envelope(w) = [node |-> n, ok |-> FALSE] <=> NodeIDs[w] = n /\ outcome[w] # "ok"
      BY DEF Envelope
    <3>3. QED
      BY <3>1, <3>2
  <2> HIDE DEF Reported, Enveloped, Called
  <2>4. ASSUME report.returned, NEW n
        PROVE  /\ Cardinality(Reported(n, TRUE)) = Cardinality(Called(n, "ok"))
               /\ Cardinality(Reported(n, FALSE)) = Cardinality(Called(n, "failed"))
    BY <2>2, <2>3, <2>4
  <2>5. QED
    BY <2>1, <2>2, <2>4 DEF ReportComplete, Reported, Called
<1>2. QED
  BY <1>1, FanInitInv, FanNextInv, PTL DEF FanSpec

=============================================================================
