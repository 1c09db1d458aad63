------------------------ MODULE CampfireClientProofs ------------------------
(***************************************************************************)
(* Proofs about CampfireClient, for any tokens, callers and durations that *)
(* ClientAssumption allows: which tokens disappear unannounced, and that   *)
(* calls and their retries keep the time they are given.                   *)
(***************************************************************************)
EXTENDS CampfireClient, TLAPS

\* More tries of a length take no less time.
LEMMA TriesGrow ==
  ASSUME NEW m \in Nat, NEW n \in Nat, n <= m, NEW d \in Nat
  PROVE  n * d \in Nat /\ n * d <= m * d
<1>1. n * d \in Nat
  OBVIOUS
<1>2. (m - n) * d >= 0
  OBVIOUS
<1>3. m * d = n * d + (m - n) * d
  OBVIOUS
<1> QED
  BY <1>1, <1>2, <1>3

\* One try more takes its length more.
LEMMA NextTry ==
  ASSUME NEW n \in Nat, NEW d \in Nat
  PROVE  (n + 1) * d = n * d + d /\ n * d \in Nat
OBVIOUS

-----------------------------------------------------------------------------
(* The cleanup. *)

\* The initial state satisfies the invariant.
LEMMA InitClientInv == Init => ClientInv
<1> SUFFICES ASSUME Init PROVE ClientInv
  OBVIOUS
<1> USE ClientAssumption
<1>1. TypeOK
  BY DEF Init, TypeOK, NoTurn, Turn, Kinds
<1>2. NoticeInv
  BY DEF Init, NoticeInv
<1>3. TurnInv
  BY DEF Init, TurnInv, Shape, EndsInTime, TokenLasts, TimeSpent, NoTurn
<1> QED
  BY <1>1, <1>2, <1>3 DEF ClientInv

\* What the turns are and what they know of their tokens is kept by every
\* step that leaves turns and inserted tokens alone.
LEMMA TurnInvKept ==
  ASSUME TypeOK, TurnInv, turn' = turn, inserted \subseteq inserted',
         \A t \in inserted : life'[t] = life[t]
  PROVE  TurnInv'
BY DEF TurnInv, Shape, EndsInTime, TokenLasts, TimeSpent, Waited

LEMMA UpToSoonTyped ==
  ASSUME NEW n \in Nat
  PROVE  UpToSoon(n) \in 0..Soon /\ UpToSoon(n) <= n /\ (UpToSoon(n) = n \/ UpToSoon(n) = Soon)
BY ClientAssumption DEF UpToSoon

\* What NoticeInv says of one token.
Noticed(t) ==
  t \in missed \cup excused \cup pending \/ announced[t] # 0
    \/ (t \in table /\ life[t] > 0 /\ life[t] >= had[t] - away - Slept)

LEMMA SleptTyped ==
  ASSUME TypeOK
  PROVE  Slept \in 0..CleanupEvery
BY ClientAssumption DEF TypeOK, Slept

\* The insertion of a token keeps the invariant: the token has what it is
\* known to have, or came when it had expired.
LEMMA InsertStep ==
  ASSUME ClientInv, NEW t \in Tokens, InsertCampfireToken(t)
  PROVE  ClientInv'
<1> USE ClientAssumption
<1>a. TypeOK /\ NoticeInv /\ TurnInv
  BY DEF ClientInv
<1>l. PICK l \in Lives :
      /\ life' = [life EXCEPT ![t] = l]
      /\ had' = [had EXCEPT ![t] = UpToSoon(l)]
      /\ missed' = IF l = 0 THEN missed \cup {t} ELSE missed
  BY DEF InsertCampfireToken
<1>u. l \in Nat /\ UpToSoon(l) \in 0..Soon /\ UpToSoon(l) <= l
  BY UpToSoonTyped
<1>1. TypeOK'
  BY <1>a, <1>l, <1>u DEF TypeOK, InsertCampfireToken, notices
<1>2. NoticeInv'
  <2>1. Slept' = Slept /\ Slept \in 0..CleanupEvery
    BY <1>a, SleptTyped DEF Slept, InsertCampfireToken
  <2>2. ASSUME NEW u \in inserted' PROVE Noticed(u)'
    <3>1. CASE u = t
      <4>1. /\ t \in table' /\ life'[t] = l /\ had'[t] = UpToSoon(l) /\ away' = away
            /\ (l = 0 => t \in missed') /\ away \in Nat
        BY <1>a, <1>l DEF TypeOK, InsertCampfireToken
      <4> QED
        BY <1>u, <2>1, <3>1, <4>1 DEF Noticed
    <3>2. CASE u # t
      <4>1. u \in inserted /\ u \in Tokens /\ Noticed(u)
        BY <1>a, <2>2, <3>2 DEF InsertCampfireToken, NoticeInv, Noticed, TypeOK
      <4>2. life'[u] = life[u] /\ had'[u] = had[u] /\ missed \subseteq missed'
        BY <1>a, <1>l, <3>2, <4>1 DEF TypeOK
      <4> QED
        BY <2>1, <4>1, <4>2 DEF InsertCampfireToken, Noticed, notices
    <3> QED
      BY <3>1, <3>2
  <2>3. \A u \in pending' : u \in table' /\ life'[u] < Soon
    BY <1>a, <1>l DEF NoticeInv, TypeOK, InsertCampfireToken, notices
  <2> QED
    BY <1>a, <2>2, <2>3 DEF NoticeInv, Noticed, InsertCampfireToken, notices
<1>3. TurnInv'
  BY <1>a, <1>l, TurnInvKept DEF InsertCampfireToken, TypeOK
<1> QED
  BY <1>1, <1>2, <1>3 DEF ClientInv

\* A query, or one that fails, keeps the invariant: the time slept before it
\* is forgotten with what the tokens had, or goes to the time away.
LEMMA QueryStep ==
  ASSUME TypeOK, NoticeInv, NotifyExpiring
  PROVE  TypeOK' /\ NoticeInv'
<1> USE ClientAssumption
<1>f. UNCHANGED faults \/ Fault
  BY DEF NotifyExpiring
<1>1. faults' \in faults..MaxFaults
  BY <1>f DEF TypeOK, Fault
<1>2. loop = "notify" /\ loop' = "send" /\ Slept = CleanupEvery /\ Slept' = 0
  BY DEF NotifyExpiring, Slept
<1>3. \/ /\ pending' = ExpiringSoon \ sent /\ had' = Looked /\ away' = 0
      \/ /\ pending' = {} /\ away' = UpToSoon(away + CleanupEvery) /\ had' = had
  BY DEF NotifyExpiring
<1>4. UNCHANGED <<tokens, missed, sent, announced, excused, timer, turn>>
  BY DEF NotifyExpiring
<1>5. had' \in [Tokens -> 0..Soon] /\ away' \in 0..Soon
  BY <1>3, UpToSoonTyped DEF Looked, TypeOK
<1>6. TypeOK'
  BY <1>1, <1>2, <1>3, <1>4, <1>5 DEF TypeOK, ExpiringSoon, tokens
<1>7. ASSUME NEW u \in inserted' PROVE Noticed(u)'
  <2>1. u \in inserted /\ u \in Tokens /\ Noticed(u) /\ pending = {}
    BY <1>2, <1>4, <1>7 DEF NoticeInv, Noticed, tokens, TypeOK
  <2>2. CASE u \in missed \cup excused \/ announced[u] # 0
    BY <1>4, <2>2 DEF Noticed
  <2>3. CASE ~(u \in missed \cup excused \/ announced[u] # 0)
    <3>1. /\ u \in table /\ life[u] > 0 /\ life[u] >= had[u] - away - CleanupEvery
          /\ u \notin sent
      BY <1>2, <2>1, <2>3 DEF Noticed, NoticeInv, TypeOK
    <3>2. life[u] \in Nat /\ had[u] \in 0..Soon /\ away \in 0..Soon
      BY <2>1, <3>1 DEF TypeOK
    <3>3. CASE pending' = ExpiringSoon \ sent /\ had' = Looked /\ away' = 0
      <4>1. life[u] < Soon => u \in pending'
        BY <3>1, <3>3 DEF ExpiringSoon
      <4>2. life[u] >= Soon => had'[u] = Soon
        BY <2>1, <3>3 DEF Looked
      <4> QED
        BY <1>2, <1>4, <3>1, <3>2, <3>3, <4>1, <4>2 DEF Noticed, tokens
    <3>4. CASE pending' = {} /\ away' = UpToSoon(away + CleanupEvery) /\ had' = had
      <4>1. away' = away + CleanupEvery \/ away' = Soon
        BY <3>2, <3>4, UpToSoonTyped
      <4> QED
        BY <1>2, <1>4, <3>1, <3>2, <3>4, <4>1 DEF Noticed, tokens
    <3> QED
      BY <1>3, <3>3, <3>4
  <2> QED
    BY <2>2, <2>3
<1>8. \A t \in Tokens : announced'[t] <= faults' + IF t \in sent' THEN 1 ELSE 0
  BY <1>1, <1>4 DEF NoticeInv, TypeOK
<1>9. pending' \cap sent' = {} /\ \A t \in pending' : t \in table' /\ life'[t] < Soon
  BY <1>3, <1>4 DEF ExpiringSoon, tokens
<1> QED
  BY <1>2, <1>4, <1>6, <1>7, <1>8, <1>9 DEF NoticeInv, Noticed

\* A message, sent or not, takes its token from those to announce.
LEMMA MessageStep ==
  ASSUME TypeOK, NoticeInv, SendNotification
  PROVE  TypeOK' /\ NoticeInv'
<1> USE ClientAssumption
<1>1. PICK t \in pending :
        /\ pending' = pending \ {t}
        /\ sent' = sent \cup {t}
        /\ \/ /\ announced' = [announced EXCEPT ![t] = @ + 1]
              /\ UNCHANGED <<excused, faults>>
           \/ /\ Fault
              /\ excused' = excused \cup {t}
              /\ UNCHANGED announced
  BY DEF SendNotification
<1>2. loop = "send" /\ UNCHANGED <<tokens, gap, loop, timer, turn>>
  BY DEF SendNotification
<1>3. TypeOK'
  BY <1>1, <1>2 DEF TypeOK, Fault, tokens, gap
<1>4. ASSUME NEW u \in inserted' PROVE Noticed(u)'
  <2>1. u \in inserted /\ u \in Tokens /\ Noticed(u)
    BY <1>2, <1>4 DEF NoticeInv, Noticed, tokens, TypeOK
  <2>2. Slept' = Slept
    BY <1>2 DEF Slept
  <2>3. CASE u = t
    BY <1>1, <2>1, <2>3 DEF Noticed, TypeOK
  <2>4. CASE u # t
    BY <1>1, <1>2, <2>1, <2>2, <2>4 DEF Noticed, TypeOK, tokens, gap
  <2> QED
    BY <2>3, <2>4
<1>5. ASSUME NEW u \in Tokens
      PROVE  announced'[u] <= faults' + IF u \in sent' THEN 1 ELSE 0
  BY <1>1 DEF NoticeInv, TypeOK, Fault
<1>6. \A u \in sent' : announced'[u] > 0 \/ u \in excused'
  BY <1>1 DEF NoticeInv, TypeOK, Fault
<1>7. pending' \cap sent' = {} /\ \A u \in pending' : u \in table' /\ life'[u] < Soon
  BY <1>1, <1>2 DEF NoticeInv, tokens
<1> QED
  BY <1>2, <1>3, <1>4, <1>5, <1>6, <1>7 DEF NoticeInv, Noticed

\* What is deleted was announced, or its message failed, or it was missed.
LEMMA DeleteStep ==
  ASSUME TypeOK, NoticeInv, doCleanupCampfireTokens
  PROVE  TypeOK' /\ NoticeInv'
<1> USE ClientAssumption
<1>1. /\ loop = "cleanup" /\ loop' \in {"sleep", "report"} /\ timer' = CleanupEvery
      /\ UNCHANGED <<life, inserted, gap, notices, turn>>
      /\ table' = {t \in table : life[t] >= 0} \/ table' = table
  BY DEF doCleanupCampfireTokens
<1>2. faults' \in faults..MaxFaults
  BY DEF doCleanupCampfireTokens, TypeOK, Fault
<1>3. TypeOK'
  BY <1>1, <1>2 DEF TypeOK, gap, notices
<1>4. Slept = 0 /\ Slept' = 0 /\ pending = {}
  BY <1>1 DEF Slept, NoticeInv
<1>5. ASSUME NEW u \in inserted' PROVE Noticed(u)'
  <2>1. u \in inserted /\ u \in Tokens /\ Noticed(u)
    BY <1>1, <1>5 DEF NoticeInv, Noticed, TypeOK
  <2>2. u \in table /\ life[u] > 0 => u \in table'
    BY <1>1, <2>1 DEF TypeOK
  <2> QED
    BY <1>1, <1>4, <2>1, <2>2 DEF Noticed, gap, notices
<1>6. \A t \in Tokens : announced'[t] <= faults' + IF t \in sent' THEN 1 ELSE 0
  BY <1>1, <1>2 DEF NoticeInv, notices, TypeOK
<1> QED
  BY <1>1, <1>3, <1>4, <1>5, <1>6 DEF NoticeInv, Noticed, notices

\* The steps between keep what is known of the tokens.
LEMMA LoopStep ==
  ASSUME TypeOK, NoticeInv, NotifyReturns \/ ReportSent \/ Awake \/ Restart
  PROVE  TypeOK' /\ NoticeInv'
<1> USE ClientAssumption
<1>1. UNCHANGED <<tokens, gap, notices, timer, turn, faults>>
  BY DEF NotifyReturns, ReportSent, Awake, Restart
<1>2. /\ loop' \in {"cleanup", "sleep", "notify"} /\ pending = {}
      /\ Slept' = Slept
  <2>1. CASE NotifyReturns
    BY <2>1 DEF NotifyReturns, Slept
  <2>2. CASE ReportSent
    BY <2>2 DEF ReportSent, Slept, NoticeInv
  <2>3. CASE Awake
    BY <2>3 DEF Awake, Slept, NoticeInv
  <2>4. CASE Restart
    BY <2>4 DEF Restart, Slept, NoticeInv
  <2> QED
    BY <2>1, <2>2, <2>3, <2>4
<1>3. TypeOK'
  BY <1>1, <1>2 DEF TypeOK, tokens, gap, notices
<1>4. ASSUME NEW u \in inserted' PROVE Noticed(u)'
  <2>1. u \in inserted /\ Noticed(u)
    BY <1>1, <1>4 DEF NoticeInv, Noticed, tokens
  <2> QED
    BY <1>1, <1>2, <2>1 DEF Noticed, tokens, gap, notices
<1> QED
  BY <1>1, <1>2, <1>3, <1>4 DEF NoticeInv, Noticed, tokens, notices

\* So does each step of the cleanup, and a restart, keep the invariant.
LEMMA CleanupStep ==
  ASSUME ClientInv, Cleanup \/ Restart
  PROVE  ClientInv'
<1>1. TypeOK' /\ NoticeInv'
  BY QueryStep, MessageStep, DeleteStep, LoopStep DEF ClientInv, Cleanup
<1>2. turn' = turn /\ inserted' = inserted /\ life' = life
  BY DEF Cleanup, NotifyExpiring, SendNotification, NotifyReturns,
         doCleanupCampfireTokens, ReportSent, Awake, Restart, tokens
<1>3. TurnInv'
  BY <1>2, TurnInvKept DEF ClientInv
<1> QED
  BY <1>1, <1>3 DEF ClientInv

-----------------------------------------------------------------------------
(* The turns. *)

\* A step of one turn keeps the invariant if it keeps that of the turn.
LEMMA StepKeeps ==
  ASSUME ClientInv, NEW g \in Callers, NEW t \in Turn, Step(g, t),
         faults' \in faults..MaxFaults,
         Shape(t), EndsInTime(t), TokenLasts(t), TimeSpent(t)
  PROVE  ClientInv'
<1> USE ClientAssumption DEF ClientInv
<1>1. TypeOK'
  BY DEF TypeOK, Step, tokens, cleaner, gap, notices
<1>2. NoticeInv'
  <2>1. Slept' = Slept
    BY DEF Step, Slept, cleaner
  <2>2. faults \in Nat /\ faults' \in Nat /\ faults <= faults'
    BY DEF TypeOK
  <2> QED
    BY <2>1, <2>2 DEF NoticeInv, Step, tokens, cleaner, gap, notices, TypeOK
<1>3. TurnInv'
  <2> SUFFICES ASSUME NEW h \in Callers
               PROVE  /\ Shape(turn[h])' /\ EndsInTime(turn[h])'
                      /\ TokenLasts(turn[h])' /\ TimeSpent(turn[h])'
    BY DEF TurnInv
  <2>1. CASE h = g
    <3>1. turn'[h] = t
      BY <2>1 DEF Step, TypeOK
    <3> QED
      BY <3>1 DEF Shape, EndsInTime, TokenLasts, TimeSpent, Waited, Step, tokens
  <2>2. CASE h # g
    <3>1. turn'[h] = turn[h]
      BY <2>2 DEF Step, TypeOK
    <3> QED
      BY <3>1 DEF TurnInv, Shape, EndsInTime, TokenLasts, TimeSpent, Waited, Step, tokens
  <2> QED
    BY <2>1, <2>2
<1> QED
  BY <1>1, <1>2, <1>3

\* A caller back in its loop.
LEMMA IdleTurn ==
  /\ NoTurn \in Turn
  /\ Shape(NoTurn) /\ EndsInTime(NoTurn) /\ TokenLasts(NoTurn) /\ TimeSpent(NoTurn)
BY ClientAssumption
   DEF NoTurn, Turn, Kinds, Shape, EndsInTime, TokenLasts, TimeSpent

\* A step that only waits or counts a failure.
LEMMA Counted ==
  ASSUME TypeOK, UNCHANGED faults \/ Fault
  PROVE  faults' \in faults..MaxFaults
BY ClientAssumption DEF TypeOK, Fault

\* The calls of a turn may be over at any time but in its stamp, provided the
\* tries an update has waited for are those it may make.
LEMMA DoneKeeps ==
  ASSUME ClientInv, NEW g \in Callers, Done(g), UNCHANGED faults \/ Fault,
         turn[g].pc \notin {"idle", "stamp"},
         turn[g].kind = "update" =>
           turn[g].busy = Deadline
             \/ turn[g].left + turn[g].busy + MaxRetries * Backoff >= Deadline
  PROVE  ClientInv'
<1> USE ClientAssumption DEF ClientInv
<1>1. faults' \in faults..MaxFaults
  BY Counted
<1>2. CASE turn[g].kind \in {"events", "update"}
  <2> DEFINE t == [turn[g] EXCEPT !.pc = "stamp"]
  <2>1. turn[g] \in Turn /\ t \in Turn /\ t.pc = "stamp" /\ t.kind = turn[g].kind
        /\ t.left = turn[g].left /\ t.busy = turn[g].busy
    BY DEF TypeOK, Turn
  <2>2. Step(g, t)
    BY <1>2 DEF Done, Goto
  <2>3. EndsInTime(turn[g]) /\ turn[g].left \in Int /\ turn[g].rest \in Nat
    BY DEF TurnInv, TypeOK, Turn
  <2>4. EndsInTime(t)
    BY <2>1, <2>3 DEF EndsInTime
  <2>5. Shape(t) /\ TokenLasts(t)
    BY <2>1 DEF Shape, TokenLasts
  <2>6. TimeSpent(t)
    BY <2>1 DEF TimeSpent, Waited
  <2> HIDE DEF t
  <2> QED
    BY <1>1, <2>1, <2>2, <2>4, <2>5, <2>6, StepKeeps
<1>3. CASE turn[g].kind \notin {"events", "update"}
  <2>1. Step(g, NoTurn)
    BY <1>3 DEF Done
  <2> QED
    BY <1>1, <2>1, IdleTurn, StepKeeps
<1> QED
  BY <1>2, <1>3

\* What the invariant says of the turn of one caller.
LEMMA TurnFacts ==
  ASSUME ClientInv, NEW g \in Callers
  PROVE  /\ turn[g] \in Turn
         /\ Shape(turn[g]) /\ EndsInTime(turn[g])
         /\ TokenLasts(turn[g]) /\ TimeSpent(turn[g])
BY DEF ClientInv, TypeOK, TurnInv

\* Each step of a caller keeps the invariant.
LEMMA CallStep ==
  ASSUME ClientInv, NEW g \in Callers, Call(g)
  PROVE  ClientInv'
<1> USE ClientAssumption
<1> DEFINE old == turn[g]
<1>a. TypeOK
  BY DEF ClientInv
<1>b. /\ old \in Turn /\ old.kind \in Kinds /\ old.left \in Int /\ old.rest \in Nat
      /\ old.tries \in 0..MaxRetries /\ old.busy \in 0..Deadline
      /\ old.token \in Tokens \cup {"none"}
      /\ Shape(old) /\ EndsInTime(old) /\ TokenLasts(old) /\ TimeSpent(old)
  BY TurnFacts DEF Turn
<1>c. MaxRetries * Backoff \in Nat
  OBVIOUS
<1>d. ASSUME old.pc \in {"get", "backoff"}
      PROVE  old.busy = Deadline
               \/ old.left + old.busy + MaxRetries * Backoff >= Deadline
  <2>1. old.tries + 1 \in Nat /\ old.tries + 1 <= MaxRetries
    BY <1>b, <1>d DEF Shape
  <2>2. (old.tries + 1) * Backoff <= MaxRetries * Backoff
    BY <2>1, TriesGrow
  <2>3. (old.tries + 1) * Backoff = old.tries * Backoff + Backoff /\ old.tries * Backoff \in Nat
    BY <1>b, NextTry
  <2>4. old.busy = Deadline \/ old.left + old.busy + Waited(old) >= Deadline
    BY <1>b, <1>d DEF Shape, TimeSpent
  <2>5. Waited(old) \in Int /\ Waited(old) <= MaxRetries * Backoff
    <3>1. CASE old.pc = "get"
      BY <3>1, <2>2, <2>3, <1>c DEF Waited
    <3>2. CASE old.pc = "backoff"
      <4>1. old.rest <= Backoff
        BY <3>2, <1>b DEF Shape
      <4>2. Waited(old) = old.tries * Backoff + Backoff - old.rest
        BY <3>2 DEF Waited
      <4> QED
        BY <4>1, <4>2, <2>2, <2>3, <1>c, <1>b
    <3> QED
      BY <3>1, <3>2, <1>d
  <2> QED
    BY <2>4, <2>5, <1>b, <1>c
<1>1. CASE \E k \in Kinds : StartTurn(g, k)
  <2> PICK k \in Kinds : StartTurn(g, k)
    BY <1>1
  <2> DEFINE t == [NoTurn EXCEPT !.kind = k, !.pc = IF k = "update" THEN "get" ELSE "token"]
  <2>1. /\ t \in Turn /\ t.kind = k /\ t.pc = IF k = "update" THEN "get" ELSE "token"
        /\ t.left = Deadline /\ t.rest = 0 /\ t.tries = 0 /\ t.busy = 0
    <3> DEFINE p == IF k = "update" THEN "get" ELSE "token"
    <3>1. p \in {"get", "token"}
      OBVIOUS
    <3> HIDE DEF p
    <3>2. t = [NoTurn EXCEPT !.kind = k, !.pc = p]
      BY DEF p
    <3>3. t \in Turn /\ t.pc = p
      BY <3>1, <3>2, IdleTurn DEF Turn
    <3>4. t.kind = k /\ t.left = Deadline /\ t.rest = 0 /\ t.tries = 0 /\ t.busy = 0
      BY <3>2 DEF NoTurn
    <3> QED
      BY <3>3, <3>4 DEF p
  <2>2. Step(g, t) /\ faults' \in faults..MaxFaults
    BY <1>a, Counted DEF StartTurn
  <2>3. Shape(t) /\ EndsInTime(t) /\ TokenLasts(t)
    BY <2>1 DEF Shape, EndsInTime, TokenLasts
  <2>4. TimeSpent(t)
    BY <2>1 DEF TimeSpent, Waited
  <2> HIDE DEF t
  <2> QED
    BY <2>1, <2>2, <2>3, <2>4, StepKeeps
<1>2. CASE GetNextCampfireToken(g)
  <2>1. old.pc = "token" /\ old.kind # "update" /\ old.rest = 0 /\ old.tries < MaxRetries
    BY <1>2, <1>b DEF GetNextCampfireToken, Shape
  <2>2. CASE Done(g) /\ (UNCHANGED faults \/ Fault)
    BY <2>1, <2>2, DoneKeeps
  <2>3. CASE \E u \in Usable : Step(g, [old EXCEPT !.token = u, !.pc = "send"])
             /\ UNCHANGED faults
    <3> PICK u \in Usable : Step(g, [old EXCEPT !.token = u, !.pc = "send"])
      BY <2>3
    <3> DEFINE t == [old EXCEPT !.token = u, !.pc = "send"]
    <3>1. /\ t \in Turn /\ t.kind = old.kind /\ t.pc = "send" /\ t.left = old.left
          /\ t.rest = old.rest /\ t.tries = old.tries /\ t.busy = old.busy
          /\ t.token = u /\ u \in inserted /\ u \in Tokens /\ life[u] > MinLife
      BY <1>a, <1>b DEF Usable, TypeOK, Turn
    <3>2. faults' \in faults..MaxFaults
      BY <2>3, <1>a, Counted
    <3>3. old.tries * RetryPause \in Nat
      BY <1>b
    <3>4. Shape(t) /\ EndsInTime(t) /\ TimeSpent(t)
      BY <3>1, <2>1, <1>b DEF Shape, EndsInTime, TimeSpent
    <3>5. TokenLasts(t)
      BY <3>1, <3>3, <2>1, <1>a, <1>b DEF TokenLasts, TypeOK
    <3> HIDE DEF t
    <3> QED
      BY <3>1, <3>2, <3>4, <3>5, StepKeeps DEF t
  <2> QED
    BY <1>2, <2>2, <2>3 DEF GetNextCampfireToken
<1>3. CASE DoAnswered(g)
  <2>1. old.pc = "send" /\ old.kind # "update" /\ old.rest = 0
    BY <1>3, <1>b DEF DoAnswered, Shape
  <2>2. CASE Done(g)
    BY <1>3, <2>1, <2>2, DoneKeeps DEF DoAnswered
  <2>3. CASE old.kind # "club" /\ Step(g, [old EXCEPT !.tries = 0])
    <3> DEFINE t == [old EXCEPT !.tries = 0]
    <3>1. /\ t \in Turn /\ t.kind = old.kind /\ t.pc = old.pc /\ t.left = old.left
          /\ t.rest = old.rest /\ t.tries = 0 /\ t.busy = old.busy /\ t.token = old.token
      BY <1>b DEF Turn
    <3>2. faults' \in faults..MaxFaults
      BY <1>3, <1>a, Counted DEF DoAnswered
    <3>3. Shape(t) /\ EndsInTime(t) /\ TimeSpent(t) /\ TokenLasts(t)
      BY <3>1, <2>1, <2>3, <1>b DEF Shape, EndsInTime, TimeSpent, TokenLasts
    <3> HIDE DEF t
    <3> QED
      BY <2>3, <3>1, <3>2, <3>3, StepKeeps DEF t
  <2> QED
    BY <1>3, <2>2, <2>3 DEF DoAnswered
<1>4. CASE DoRetryable(g)
  <2> DEFINE t == [old EXCEPT !.tries = @ + 1, !.rest = RetryPause, !.pc = "pause"]
  <2>1. /\ old.pc = "send" /\ old.kind # "update" /\ old.rest = 0 /\ ~Over(g)
        /\ old.tries < MaxRetries
    BY <1>4, <1>b DEF DoRetryable, Shape
  <2>2. /\ t \in Turn /\ t.kind = old.kind /\ t.pc = "pause" /\ t.left = old.left
        /\ t.rest = RetryPause /\ t.tries = old.tries + 1 /\ t.busy = old.busy
        /\ t.token = old.token
    <3>1. old.tries + 1 \in 0..MaxRetries
      BY <1>b, <2>1
    <3> QED
      BY <3>1, <1>b DEF Turn
  <2>3. Step(g, t) /\ faults' \in faults..MaxFaults
    BY <1>4, <1>a, Counted DEF DoRetryable
  <2>4. Shape(t) /\ EndsInTime(t) /\ TimeSpent(t)
    BY <2>1, <2>2, <1>b DEF Shape, EndsInTime, TimeSpent, Over
  <2>5. t.tries * RetryPause = old.tries * RetryPause + RetryPause /\ old.tries * RetryPause \in Nat
    BY <2>2, <1>b, NextTry
  <2>6. TokenLasts(t)
    <3>1. old.token \in inserted /\ life[old.token] \in Int
      BY <2>1, <1>a, <1>b DEF TokenLasts, TypeOK
    <3>2. ASSUME old.kind = "club"
          PROVE  old.busy = Deadline
                   \/ life[old.token] + old.busy + old.tries * RetryPause - old.rest > MinLife
      BY <2>1, <1>b, <3>2 DEF TokenLasts
    <3> HIDE DEF t
    <3> QED
      BY <2>1, <2>2, <2>5, <3>1, <3>2, <1>b DEF TokenLasts
  <2> HIDE DEF t
  <2> QED
    BY <2>2, <2>3, <2>4, <2>6, StepKeeps
<1>5. CASE DoOver(g)
  <2>1. old.pc = "send" /\ old.kind # "update"
    BY <1>5, <1>b DEF DoOver, Shape
  <2> QED
    BY <1>5, <2>1, DoneKeeps DEF DoOver
<1>6. CASE DoAgain(g)
  <2>1. old.pc = "pause" /\ old.kind # "update" /\ old.rest = 0
    BY <1>6, <1>b DEF DoAgain, Shape
  <2>2. CASE old.tries = MaxRetries
    BY <1>6, <2>1, <2>2, DoneKeeps DEF DoAgain
  <2>3. CASE old.tries # MaxRetries
    <3> DEFINE t == [old EXCEPT !.pc = "send"]
    <3>1. /\ t \in Turn /\ t.kind = old.kind /\ t.pc = "send" /\ t.left = old.left
          /\ t.rest = old.rest /\ t.tries = old.tries /\ t.busy = old.busy
          /\ t.token = old.token
      BY <1>b DEF Turn
    <3>2. Step(g, t) /\ faults' \in faults..MaxFaults
      BY <1>6, <2>3, <1>a, Counted DEF DoAgain, Goto
    <3>3. Shape(t) /\ EndsInTime(t) /\ TimeSpent(t) /\ TokenLasts(t)
      BY <2>1, <2>3, <3>1, <1>b DEF Shape, EndsInTime, TimeSpent, TokenLasts
    <3> HIDE DEF t
    <3> QED
      BY <3>1, <3>2, <3>3, StepKeeps
  <2> QED
    BY <2>2, <2>3
<1>7. CASE GetEventAnswered(g)
  <2>1. old.pc = "get" /\ old.kind = "update" /\ old.rest = 0 /\ old.tries < MaxRetries
    BY <1>7, <1>b DEF GetEventAnswered, Shape
  <2>2. CASE Done(g)
    BY <1>7, <1>d, <2>1, <2>2, DoneKeeps DEF GetEventAnswered
  <2>3. CASE Wait(g, "backoff", Backoff)
    <3> DEFINE t == [old EXCEPT !.pc = "backoff", !.rest = Backoff]
    <3>1. /\ t \in Turn /\ t.kind = old.kind /\ t.pc = "backoff" /\ t.left = old.left
          /\ t.rest = Backoff /\ t.tries = old.tries /\ t.busy = old.busy
          /\ t.token = old.token
      BY <1>b DEF Turn
    <3>2. Step(g, t) /\ faults' \in faults..MaxFaults
      BY <1>7, <2>3, <1>a, Counted DEF GetEventAnswered, Wait
    <3>3. old.tries * Backoff \in Nat
      BY <1>b
    <3>4. Shape(t) /\ EndsInTime(t) /\ TokenLasts(t)
      BY <2>1, <3>1, <1>b DEF Shape, EndsInTime, TokenLasts
    <3>5. TimeSpent(t)
      BY <2>1, <3>1, <3>3, <1>b DEF TimeSpent, Waited
    <3> HIDE DEF t
    <3> QED
      BY <3>1, <3>2, <3>4, <3>5, StepKeeps
  <2> QED
    BY <1>7, <2>2, <2>3 DEF GetEventAnswered
<1>8. CASE GetEventOver(g)
  BY <1>8, <1>d, DoneKeeps DEF GetEventOver
<1>9. CASE GetEventAgain(g)
  <2>1. old.pc = "backoff" /\ old.kind = "update" /\ old.rest = 0 /\ old.tries < MaxRetries
    BY <1>9, <1>b DEF GetEventAgain, Shape
  <2>2. CASE old.tries + 1 >= MaxRetries
    BY <1>9, <1>d, <2>1, <2>2, DoneKeeps DEF GetEventAgain
  <2>3. CASE ~(old.tries + 1 >= MaxRetries)
    <3> DEFINE t == [old EXCEPT !.tries = @ + 1, !.pc = "get"]
    <3>1. /\ t \in Turn /\ t.kind = old.kind /\ t.pc = "get" /\ t.left = old.left
          /\ t.rest = old.rest /\ t.tries = old.tries + 1 /\ t.busy = old.busy
          /\ t.token = old.token
      <4>1. old.tries + 1 \in 0..MaxRetries
        BY <1>b, <2>1
      <4> QED
        BY <4>1, <1>b DEF Turn
    <3>2. Step(g, t) /\ faults' \in faults..MaxFaults
      BY <1>9, <2>3, <1>a, Counted DEF GetEventAgain
    <3>3. t.tries * Backoff = old.tries * Backoff + Backoff /\ old.tries * Backoff \in Nat
      BY <3>1, <1>b, NextTry
    <3>4. Shape(t) /\ EndsInTime(t) /\ TokenLasts(t)
      BY <2>1, <2>3, <3>1, <1>b DEF Shape, EndsInTime, TokenLasts
    <3>5. TimeSpent(t)
      <4>1. old.busy = Deadline
              \/ old.left + old.busy + (old.tries * Backoff + Backoff - old.rest) >= Deadline
        BY <2>1, <1>b DEF TimeSpent, Waited
      <4> HIDE DEF t
      <4> QED
        BY <2>1, <3>1, <3>3, <4>1, <1>b DEF TimeSpent, Waited
    <3> HIDE DEF t
    <3> QED
      BY <3>1, <3>2, <3>4, <3>5, StepKeeps
  <2> QED
    BY <2>2, <2>3
<1>10. CASE Stamp(g)
  BY <1>10, <1>a, Counted, IdleTurn, StepKeeps DEF Stamp
<1> QED
  BY <1>1, <1>2, <1>3, <1>4, <1>5, <1>6, <1>7, <1>8, <1>9, <1>10 DEF Call

-----------------------------------------------------------------------------
(* Time and restarts. *)

\* A turn whose time goes by keeps its invariant: nobody is due, so what it
\* waits for is still to come.
LEMMA LaterKeeps ==
  ASSUME ClientInv, NEW g \in Callers, ~Due(g), Tick
  PROVE  /\ Later(turn[g]) \in Turn
         /\ turn'[g] = Later(turn[g])
         /\ Shape(turn[g])' /\ EndsInTime(turn[g])'
         /\ TokenLasts(turn[g])' /\ TimeSpent(turn[g])'
<1> USE ClientAssumption
<1> DEFINE old == turn[g]
           t == Later(old)
<1>a. TypeOK
  BY DEF ClientInv
<1>b. /\ old \in Turn /\ old.kind \in Kinds /\ old.left \in Int /\ old.rest \in Nat
      /\ old.tries \in 0..MaxRetries /\ old.busy \in 0..Deadline
      /\ old.token \in Tokens \cup {"none"}
      /\ Shape(old) /\ EndsInTime(old) /\ TokenLasts(old) /\ TimeSpent(old)
  BY TurnFacts DEF Turn
<1>1. turn'[g] = t
  BY DEF Tick
<1>2. /\ t.kind = old.kind /\ t.pc = old.pc /\ t.tries = old.tries /\ t.token = old.token
      /\ t.left = IF old.kind = "club" \/ old.pc = "idle" THEN old.left ELSE old.left - 1
      /\ t.rest = IF old.rest = 0 THEN 0 ELSE old.rest - 1
      /\ t.busy = IF old.pc \in {"send", "get"} /\ old.busy < Deadline
                    THEN old.busy + 1 ELSE old.busy
  BY <1>b DEF Later, Turn
<1>3. t \in Turn
  <2>1. t.left \in Int /\ t.rest \in Nat /\ t.busy \in 0..Deadline
    BY <1>b, <1>2
  <2>2. t = [old EXCEPT !.left = t.left, !.rest = t.rest, !.busy = t.busy]
    BY <1>b DEF Later, Turn
  <2> HIDE DEF t
  <2> QED
    BY <1>b, <2>1, <2>2 DEF Turn
<1> HIDE DEF t
<1>4. Shape(t)
  BY <1>b, <1>2 DEF Shape
<1>5. EndsInTime(t)
  <2> SUFFICES ASSUME old.kind # "club", old.pc # "idle"
               PROVE  t.left >= 1 - RetryPause + (IF old.pc = "pause" THEN t.rest ELSE 0)
    BY <1>2 DEF EndsInTime
  <2>1. old.left >= 1 - RetryPause + (IF old.pc = "pause" THEN old.rest ELSE 0)
    BY <1>b DEF EndsInTime
  <2>2. t.left = old.left - 1
    BY <1>2
  <2>3. CASE old.pc = "pause"
    <3>1. t.rest = old.rest - 1
      BY <1>b, <1>2, <2>3 DEF Due
    <3> QED
      BY <2>1, <2>2, <2>3, <3>1, <1>b
  <2>4. CASE old.pc # "pause"
    <3>1. old.pc \in {"send", "get", "backoff"}
      BY <1>b, <2>4 DEF Due, Turn
    <3>2. old.left > 0
      BY <1>b, <3>1 DEF Due, Over
    <3> QED
      BY <2>2, <2>4, <3>2, <1>b
  <2> QED
    BY <2>3, <2>4
<1>6. TokenLasts(turn[g])'
  <2> SUFFICES ASSUME old.pc \in {"send", "pause"}
               PROVE  /\ t.token \in inserted'
                      /\ t.kind = "club" =>
                           \/ t.busy = Deadline
                           \/ life'[t.token] + t.busy + t.tries * RetryPause - t.rest > MinLife
    BY <1>1, <1>2 DEF TokenLasts
  <2>1. old.token \in inserted /\ old.token \in Tokens
    BY <1>a, <1>b DEF TokenLasts, TypeOK
  <2>2. /\ inserted' = inserted
        /\ life[old.token] \in Int
        /\ life'[old.token] \in Int /\ life'[old.token] >= life[old.token] - 1
    BY <2>1, <1>a DEF Tick, TypeOK
  <2>3. old.tries * RetryPause \in Nat
    BY <1>b
  <2>4. ASSUME old.kind = "club", old.busy # Deadline
        PROVE  life'[old.token] + t.busy + old.tries * RetryPause - t.rest > MinLife
                 \/ t.busy = Deadline
    <3>1. life[old.token] + old.busy + old.tries * RetryPause - old.rest > MinLife
      BY <1>b, <2>4 DEF TokenLasts
    <3>2. CASE old.pc = "send"
      <4>1. t.busy = old.busy + 1 /\ t.rest = 0 /\ old.rest = 0
        BY <1>b, <1>2, <2>4, <3>2 DEF Shape
      <4> QED
        BY <3>1, <4>1, <2>2, <2>3, <1>b
    <3>3. CASE old.pc = "pause"
      <4>1. t.busy = old.busy /\ t.rest = old.rest - 1
        BY <1>b, <1>2, <3>3 DEF Due
      <4> QED
        BY <3>1, <4>1, <2>2, <2>3, <1>b
    <3> QED
      BY <3>2, <3>3
  <2> QED
    BY <2>1, <2>2, <2>4, <1>2, <1>b
<1>7. TimeSpent(t)
  <2> SUFFICES ASSUME old.kind = "update", old.pc # "idle"
               PROVE  t.busy = Deadline \/ t.left + t.busy + Waited(t) >= Deadline
    BY <1>2 DEF TimeSpent
  <2>1. old.pc \in {"get", "backoff"}
    BY <1>b DEF Due, Shape, Turn
  <2>2. old.busy = Deadline \/ old.left + old.busy + Waited(old) >= Deadline
    BY <1>b DEF TimeSpent
  <2>3. old.tries * Backoff \in Nat /\ t.left = old.left - 1
    BY <1>b, <1>2
  <2>4. CASE old.pc = "get"
    <3>1. Waited(old) = old.tries * Backoff /\ Waited(t) = old.tries * Backoff
      BY <2>4, <1>2 DEF Waited
    <3>2. t.busy = Deadline \/ (old.busy # Deadline /\ t.busy = old.busy + 1)
      BY <2>4, <1>2, <1>b
    <3> QED
      BY <2>2, <2>3, <3>1, <3>2, <1>b
  <2>5. CASE old.pc = "backoff"
    <3>1. t.rest = old.rest - 1 /\ t.busy = old.busy
      BY <2>5, <1>b, <1>2 DEF Due
    <3>2. /\ Waited(old) = old.tries * Backoff + Backoff - old.rest
          /\ Waited(t) = old.tries * Backoff + Backoff - t.rest
      BY <2>5, <1>2 DEF Waited
    <3> QED
      BY <2>2, <2>3, <3>1, <3>2, <1>b
  <2> QED
    BY <2>1, <2>4, <2>5
<1>8. Shape(turn[g])' /\ EndsInTime(turn[g])' /\ TimeSpent(turn[g])'
  BY <1>1, <1>4, <1>5, <1>7 DEF Shape, EndsInTime, TimeSpent, Waited
<1> QED
  BY <1>1, <1>3, <1>6, <1>8 DEF t

\* What goes by comes off what is left.
LEMMA TickApart ==
  ASSUME NEW l \in Int, NEW h \in Int, NEW a \in Int, NEW b \in Int,
         NEW m \in Int, NEW n \in Int, l >= h - a - m, b + n = a + m + 1
  PROVE  l - 1 >= h - b - n
OBVIOUS

\* Time keeps the invariant: what goes by without a query is counted, and a
\* token it takes the last of was known to have no more than that.
LEMMA TickStep ==
  ASSUME ClientInv, Tick
  PROVE  ClientInv'
<1> USE ClientAssumption
<1>a. TypeOK /\ NoticeInv
  BY DEF ClientInv
<1>b. \A g \in Callers :
        /\ Later(turn[g]) \in Turn
        /\ turn'[g] = Later(turn[g])
        /\ Shape(turn[g])' /\ EndsInTime(turn[g])'
        /\ TokenLasts(turn[g])' /\ TimeSpent(turn[g])'
  <2> TAKE g \in Callers
  <2>1. ~Due(g)
    BY DEF Tick
  <2> QED
    BY <2>1, LaterKeeps
<1>1. TypeOK'
  <2>1. life' \in [Tokens -> Nat \cup {-1}]
    BY <1>a DEF TypeOK, Tick
  <2>2. turn' \in [Callers -> Turn]
    BY <1>a, <1>b DEF TypeOK, Tick
  <2>3. timer' \in 0..CleanupEvery /\ away' \in 0..Soon /\ missed' \subseteq Tokens
    BY <1>a, UpToSoonTyped DEF TypeOK, Tick, Unnoticed
  <2> QED
    BY <2>1, <2>2, <2>3, <1>a DEF TypeOK, Tick, notices
<1>2. NoticeInv'
  <2>1. /\ Slept \in 0..CleanupEvery /\ Slept' \in 0..CleanupEvery
        /\ away \in 0..Soon /\ away' \in 0..Soon
        /\ away' = Soon \/ away' + Slept' = away + Slept + 1
    <3>1. CASE Waiting /\ away' = UpToSoon(away + 1) /\ UNCHANGED timer
      <4>1. Slept' = Slept /\ Slept \in 0..CleanupEvery
        BY <1>a, <3>1, SleptTyped DEF Tick, Slept
      <4>2. away' \in 0..Soon /\ (away' = away + 1 \/ away' = Soon) /\ away \in 0..Soon
        BY <1>a, <3>1, UpToSoonTyped DEF TypeOK
      <4>3. Slept' \in 0..CleanupEvery
        BY <4>1
      <4>4. away' = away + 1 => away' + Slept' = away + Slept + 1
        BY <4>1, <4>2
      <4> QED
        BY <4>1, <4>2, <4>3, <4>4
    <3>2. CASE loop = "sleep" /\ timer > 0 /\ timer' = timer - 1 /\ UNCHANGED away
      BY <1>a, <3>2 DEF Tick, Slept, TypeOK
    <3> QED
      BY <3>1, <3>2 DEF Tick
  <2>2. ASSUME NEW u \in inserted' PROVE Noticed(u)'
    <3>1. u \in inserted /\ u \in Tokens /\ Noticed(u)
      BY <1>a, <2>2 DEF Tick, NoticeInv, Noticed, TypeOK
    <3>2. UNCHANGED <<table, excused, pending, announced, had>> /\ missed \subseteq missed'
      BY DEF Tick, notices
    <3>3. CASE u \in missed \cup excused \cup pending \/ announced[u] # 0
      BY <3>2, <3>3 DEF Noticed
    <3>4. CASE u \in table /\ life[u] > 0 /\ life[u] >= had[u] - away - Slept
      <4>1. life'[u] = life[u] - 1 /\ life[u] \in Nat /\ had[u] \in 0..Soon
        BY <1>a, <3>1, <3>4 DEF Tick, TypeOK
      <4>2. life'[u] >= had'[u] - away' - Slept'
        <5>1. had'[u] = had[u]
          BY <3>2
        <5>2. CASE away' = Soon
          BY <2>1, <3>4, <4>1, <5>1, <5>2
        <5>3. CASE away' + Slept' = away + Slept + 1
          <6>1. /\ life[u] \in Int /\ had[u] \in Int /\ away \in Int /\ away' \in Int
                /\ Slept \in Int /\ Slept' \in Int
            BY <2>1, <4>1
          <6>2. life[u] - 1 >= had[u] - away' - Slept'
            BY <3>4, <5>3, <6>1, TickApart
          <6> QED
            BY <4>1, <5>1, <6>2
        <5> QED
          BY <2>1, <5>2, <5>3
      <4>3. life[u] = 1 => u \in missed'
        <5>1. life[u] = 1 => had[u] <= away' + CleanupEvery
          BY <2>1, <3>2, <4>1, <4>2
        <5> QED
          BY <3>1, <5>1 DEF Tick, Unnoticed
      <4> QED
        BY <3>2, <3>4, <4>1, <4>2, <4>3 DEF Noticed
    <3> QED
      BY <3>1, <3>3, <3>4 DEF Noticed
  <2> QED
    BY <2>2, <1>a DEF NoticeInv, Noticed, Tick, Waiting, notices, TypeOK
<1>3. TurnInv'
  BY <1>b DEF TurnInv
<1> QED
  BY <1>1, <1>2, <1>3 DEF ClientInv

\* So does the end of the process: the tokens of a round that is cut off have
\* what they have left then, and are missed if that is nothing.
LEMMA StopStep ==
  ASSUME ClientInv, Stop
  PROVE  ClientInv'
<1> USE ClientAssumption
<1>a. TypeOK /\ NoticeInv
  BY DEF ClientInv
<1>1. /\ faults' = faults + 1 /\ faults' \in 0..MaxFaults
      /\ loop' = "down" /\ sent' = {} /\ pending' = {}
      /\ had' = [t \in Tokens |-> IF t \in pending /\ life[t] > 0 THEN life[t] ELSE had[t]]
      /\ missed' = missed \cup {t \in pending : life[t] <= 0}
      /\ turn' = [g \in Callers |-> NoTurn]
      /\ UNCHANGED <<tokens, away, announced, excused, timer>>
  BY <1>a DEF Stop, Fault, TypeOK
<1>p. \A t \in pending : life[t] < Soon
  BY <1>a DEF NoticeInv
<1>2. had' \in [Tokens -> 0..Soon]
  BY <1>a, <1>1, <1>p DEF TypeOK
<1>3. TypeOK'
  BY <1>a, <1>1, <1>2, IdleTurn DEF TypeOK, tokens
<1>4. ASSUME NEW u \in inserted' PROVE Noticed(u)'
  <2>1. u \in inserted /\ u \in Tokens /\ Noticed(u) /\ pending \subseteq table
    BY <1>a, <1>1, <1>4 DEF NoticeInv, Noticed, tokens, TypeOK
  <2>2. Slept' = CleanupEvery /\ Slept \in 0..CleanupEvery
    BY <1>a, <1>1, SleptTyped DEF Slept
  <2>3. life[u] \in Int /\ had[u] \in Nat /\ away \in Nat
    BY <1>a, <2>1 DEF TypeOK
  <2>4. CASE u \in pending
    BY <1>1, <2>1, <2>2, <2>3, <2>4 DEF Noticed, tokens
  <2>5. CASE u \notin pending
    BY <1>1, <2>1, <2>2, <2>3, <2>5 DEF Noticed, tokens
  <2> QED
    BY <2>4, <2>5
<1>5. \A t \in Tokens : announced'[t] <= faults' + IF t \in sent' THEN 1 ELSE 0
  BY <1>a, <1>1 DEF NoticeInv, TypeOK
<1>6. NoticeInv'
  BY <1>1, <1>4, <1>5 DEF NoticeInv, Noticed
<1>7. TurnInv'
  BY <1>1, IdleTurn DEF TurnInv, Shape, EndsInTime, TokenLasts, TimeSpent, NoTurn
<1> QED
  BY <1>3, <1>6, <1>7 DEF ClientInv

-----------------------------------------------------------------------------
(* Theorems. *)

\* The invariant holds in every state: it says where the time of every token
\* and of every turn has gone.
THEOREM ClientInvariant == Spec => []ClientInv
<1>1. ClientInv /\ [Next]_vars => ClientInv'
  <2> SUFFICES ASSUME ClientInv, [Next]_vars PROVE ClientInv'
    OBVIOUS
  <2>1. ASSUME NEW t \in Tokens, InsertCampfireToken(t) PROVE ClientInv'
    BY <2>1, InsertStep
  <2>2. CASE Cleanup \/ Restart
    BY <2>2, CleanupStep
  <2>3. ASSUME NEW g \in Callers, Call(g) PROVE ClientInv'
    BY <2>3, CallStep
  <2>4. CASE Tick
    BY <2>4, TickStep
  <2>5. CASE Stop
    BY <2>5, StopStep
  <2>6. CASE UNCHANGED vars
    BY <2>6 DEF ClientInv, TypeOK, NoticeInv, Slept, TurnInv, Shape, EndsInTime,
                TokenLasts, TimeSpent, Waited, vars, tokens, cleaner, gap, notices
  <2> QED
    BY <2>1, <2>2, <2>3, <2>4, <2>5, <2>6 DEF Next
<1> QED
  BY <1>1, InitClientInv, PTL DEF Spec

\* A token that leaves the table was announced, or its message failed, or it
\* expired when, but for one sleep of the cleanup, all the time it was last known
\* to have went by without a query; and each process announces a token once.
THEOREM TokensAnnounced == Spec => []Announced
<1>1. ClientInv => Announced
  BY DEF ClientInv, NoticeInv, TypeOK, Announced
<1> QED
  BY <1>1, ClientInvariant, PTL

\* The minute a token must have left covers all pauses between the tries of
\* the call it was chosen for.
THEOREM TokensLastForRetries == Spec => []AliveWhenSent
<1>1. ASSUME ClientInv PROVE AliveWhenSent
  <2> USE ClientAssumption
  <2> SUFFICES ASSUME NEW g \in Callers, turn[g].pc = "send", turn[g].kind = "club",
                      life[turn[g].token] <= 0
               PROVE  turn[g].busy > MinLife - (MaxRetries - 1) * RetryPause
    BY DEF AliveWhenSent
  <2>1. /\ turn[g].tries \in 0..MaxRetries /\ turn[g].busy \in 0..Deadline
        /\ turn[g].tries < MaxRetries /\ turn[g].rest = 0
        /\ turn[g].token \in inserted
        /\ \/ turn[g].busy = Deadline
           \/ life[turn[g].token] + turn[g].busy + turn[g].tries * RetryPause
                - turn[g].rest > MinLife
    BY <1>1, TurnFacts DEF Turn, Shape, TokenLasts
  <2>2. life[turn[g].token] \in Int
    BY <1>1, <2>1 DEF ClientInv, TypeOK
  <2>3. /\ turn[g].tries * RetryPause \in Nat
        /\ turn[g].tries * RetryPause <= (MaxRetries - 1) * RetryPause
    BY <2>1, TriesGrow
  <2>4. (MaxRetries - 1) * RetryPause \in Nat
    OBVIOUS
  <2> QED
    BY <2>1, <2>2, <2>3, <2>4
<1> QED
  BY <1>1, ClientInvariant, PTL

\* A background goroutine is back in its loop before the pause of one try has
\* gone by after its deadline.
THEOREM TurnsEndInTime == Spec => []TurnEnds
<1>1. ASSUME ClientInv PROVE TurnEnds
  <2> SUFFICES ASSUME NEW g \in Callers, turn[g].pc # "idle", turn[g].kind # "club"
               PROVE  turn[g].left > -RetryPause
    BY DEF TurnEnds
  <2>1. turn[g].left \in Int /\ turn[g].rest \in Nat /\ EndsInTime(turn[g])
    BY <1>1, TurnFacts DEF Turn
  <2> QED
    BY <2>1, ClientAssumption DEF EndsInTime
<1> QED
  BY <1>1, ClientInvariant, PTL

\* The backoffs of an update leave its stamp what MaxRetries of them leave of
\* the deadline.
THEOREM StampsInTime == Spec => []StampInTime
<1>1. ASSUME ClientInv PROVE StampInTime
  <2> SUFFICES ASSUME NEW g \in Callers, turn[g].pc = "stamp", turn[g].kind = "update",
                      Over(g)
               PROVE  turn[g].busy >= Deadline - MaxRetries * Backoff
    BY DEF StampInTime
  <2>1. /\ turn[g].left \in Int /\ turn[g].busy \in 0..Deadline
        /\ TimeSpent(turn[g]) /\ turn[g].left <= 0
    BY <1>1, TurnFacts DEF Turn, Over
  <2>2. MaxRetries * Backoff \in Nat
    BY ClientAssumption
  <2> QED
    BY <2>1, <2>2, ClientAssumption DEF TimeSpent, Waited
<1> QED
  BY <1>1, ClientInvariant, PTL

=============================================================================
