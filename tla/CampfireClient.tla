--------------------------- MODULE CampfireClient ---------------------------
(***************************************************************************)
(* Calls to Campfire under their deadlines (server/campfire/client.go,     *)
(* event.go, events.go and club.go), the tokens they are sent with         *)
(* (server/database/campfire_tokens.go), and the loop that announces and   *)
(* deletes the tokens that expire (server/campfire_token_cleaner.go).      *)
(*                                                                         *)
(* Time is a set of timers that count down together: what a token has left *)
(* to live, a turn until its deadline, and a goroutine to sleep.  Answers  *)
(* of Campfire take time, messages to Discord and a process that is down   *)
(* as much as they like; statements and the code between them take none.   *)
(***************************************************************************)
EXTENDS Integers, FiniteSets

CONSTANTS
  Tokens,
  Lives,         \* times to live a token may have when it is inserted
  MinLife,       \* a minute: what a chosen token must have left
  Soon,          \* a day: the notice before a token expires
  CleanupEvery,  \* five minutes between two rounds of the cleanup
  Callers,       \* goroutines that call Campfire
  Deadline,      \* two minutes for the turn of a background goroutine
  RetryPause,    \* a second between two tries of Do
  Backoff,       \* half a minute between two tries of getEvent
  MaxRetries,    \* three by the example configuration
  MaxFaults      \* bound on failed statements and messages and on stops

ASSUME ClientAssumption ==
  /\ Lives \subseteq Nat
  /\ MinLife \in Nat /\ Soon \in Nat /\ MaxFaults \in Nat
  /\ {CleanupEvery, RetryPause, Backoff, MaxRetries} \subseteq Nat \ {0}
  /\ Deadline \in Nat /\ Deadline > MinLife

VARIABLES
  life,      \* time until each token expires, -1 once it has
  table,     \* rows of campfire_tokens
  inserted,  \* tokens that have had a row
  had,       \* what a token had left, up to Soon, when the cleanup last knew
             \* that it was not due, or last forgot it
  sent,      \* SentTokenNotifications
  announced, \* notices of each token that reached Discord
  excused,   \* tokens whose message failed
  missed,    \* tokens that expired when nobody had looked for too long
  away,      \* time since the last query, up to Soon, that the process was down,
             \* waited for Discord, or slept after a query that failed
  loop,      \* the next step of the cleanup
  pending,   \* tokens the round has still to announce
  timer,     \* time the cleanup has still to sleep
  turn,      \* the turn of each caller
  faults     \* failures so far

tokens == <<life, table, inserted>>
gap == <<had, missed, away>>
notices == <<sent, announced, excused, pending>>
cleaner == <<gap, notices, loop, timer>>
vars == <<tokens, cleaner, turn, faults>>

Kinds == {"clubs", "events", "update", "club"}

Turn == [kind : Kinds, left : Int, rest : Nat, tries : 0..MaxRetries,
         busy : 0..Deadline, token : Tokens \cup {"none"},
         pc : {"idle", "token", "send", "pause", "get", "backoff", "stamp"}]

NoTurn == [kind |-> "club", left |-> Deadline, rest |-> 0, tries |-> 0,
           busy |-> 0, token |-> "none", pc |-> "idle"]

TypeOK ==
  /\ life \in [Tokens -> Nat \cup {-1}]
  /\ table \subseteq inserted
  /\ inserted \subseteq Tokens
  /\ had \in [Tokens -> 0..Soon] /\ away \in 0..Soon
  /\ missed \subseteq Tokens
  /\ sent \subseteq Tokens /\ excused \subseteq Tokens /\ pending \subseteq Tokens
  /\ announced \in [Tokens -> Nat]
  /\ loop \in {"notify", "send", "cleanup", "report", "sleep", "down"}
  /\ timer \in 0..CleanupEvery
  /\ turn \in [Callers -> Turn]
  /\ faults \in 0..MaxFaults

Init ==
  /\ life = [t \in Tokens |-> 0]
  /\ table = {} /\ inserted = {}
  /\ had = [t \in Tokens |-> 0] /\ missed = {} /\ away = 0
  /\ sent = {} /\ excused = {} /\ pending = {}
  /\ announced = [t \in Tokens |-> 0]
  /\ loop = "notify" /\ timer = 0
  /\ turn = [g \in Callers |-> NoTurn]
  /\ faults = 0

Fault == faults < MaxFaults /\ faults' = faults + 1

-----------------------------------------------------------------------------
(* The tokens. *)

UpToSoon(time) == IF time < Soon THEN time ELSE Soon

\* AdminTokens stores a token with the expiry it carries, looked at by nobody.
InsertCampfireToken(t) ==
  /\ t \notin inserted
  /\ loop # "down"
  /\ \E l \in Lives :
       /\ life' = [life EXCEPT ![t] = l]
       /\ had' = [had EXCEPT ![t] = UpToSoon(l)]
       /\ missed' = IF l = 0 THEN missed \cup {t} ELSE missed
  /\ table' = table \cup {t}
  /\ inserted' = inserted \cup {t}
  /\ UNCHANGED <<away, notices, loop, timer, turn, faults>>

ExpiringSoon == {t \in table : 0 < life[t] /\ life[t] < Soon}

\* Tokens the query finds not due yet are known to last.
Looked == [t \in Tokens |-> IF life[t] >= Soon THEN Soon ELSE had[t]]

\* Mutant: the first token that was announced before ends the round.
NotifyUntilSent ==
  /\ loop = "notify"
  /\ pending' = {t \in ExpiringSoon \ sent :
                   \A u \in ExpiringSoon \cap sent : life[t] < life[u]}
  /\ had' = Looked /\ away' = 0
  /\ loop' = "send"
  /\ UNCHANGED <<tokens, missed, sent, announced, excused, timer, turn, faults>>

\* doNotifyExpiringCampfireTokens: the tokens to announce, or an error.
NotifyExpiring ==
  /\ loop = "notify"
  /\ \/ /\ pending' = ExpiringSoon \ sent
        /\ had' = Looked /\ away' = 0
        /\ UNCHANGED faults
     \/ /\ Fault
        /\ pending' = {}
        /\ away' = UpToSoon(away + CleanupEvery)
        /\ UNCHANGED had
  /\ loop' = "send"
  /\ UNCHANGED <<tokens, missed, sent, announced, excused, timer, turn>>

\* The tokens come by their expiry.  A message that fails is logged, and
\* remembered like the others.
SendNotification ==
  /\ loop = "send"
  /\ \E t \in pending :
       /\ \A u \in pending : life[t] <= life[u]
       /\ pending' = pending \ {t}
       /\ sent' = sent \cup {t}
       /\ \/ /\ announced' = [announced EXCEPT ![t] = @ + 1]
             /\ UNCHANGED <<excused, faults>>
          \/ /\ Fault
             /\ excused' = excused \cup {t}
             /\ UNCHANGED announced
  /\ UNCHANGED <<tokens, gap, loop, timer, turn>>

NotifyReturns ==
  /\ loop = "send" /\ pending = {}
  /\ loop' = "cleanup"
  /\ UNCHANGED <<tokens, gap, notices, timer, turn, faults>>

\* DeleteExpiredCampfireTokens; an error is logged, and the number of the
\* tokens that are gone goes to Discord.
doCleanupCampfireTokens ==
  /\ loop = "cleanup"
  /\ \/ /\ table' = {t \in table : life[t] >= 0}
        /\ loop' = IF table' = table THEN "sleep" ELSE "report"
        /\ UNCHANGED faults
     \/ Fault /\ UNCHANGED table /\ loop' = "sleep"
  /\ timer' = CleanupEvery
  /\ UNCHANGED <<life, inserted, gap, notices, turn>>

ReportSent ==
  /\ loop = "report"
  /\ loop' = "sleep"
  /\ UNCHANGED <<tokens, gap, notices, timer, turn, faults>>

Awake ==
  /\ loop = "sleep" /\ timer = 0
  /\ loop' = "notify"
  /\ UNCHANGED <<tokens, gap, notices, timer, turn, faults>>

Cleanup ==
  \/ NotifyExpiring \/ SendNotification \/ NotifyReturns
  \/ doCleanupCampfireTokens \/ ReportSent \/ Awake

-----------------------------------------------------------------------------
(* The turns.  Those of the background goroutines have a deadline, the     *)
(* request for a club has none.                                            *)

Over(g) == turn[g].kind # "club" /\ turn[g].left <= 0

Step(g, t) ==
  /\ turn' = [turn EXCEPT ![g] = t]
  /\ UNCHANGED <<tokens, cleaner>>

Goto(g, pc) == Step(g, [turn[g] EXCEPT !.pc = pc])

Wait(g, pc, time) == Step(g, [turn[g] EXCEPT !.pc = pc, !.rest = time])

\* The calls are done, well or not.  The two loops that keep an order stamp
\* what they worked on, under the same deadline.
Done(g) == IF turn[g].kind \in {"events", "update"} THEN Goto(g, "stamp")
                                                     ELSE Step(g, NoTurn)

StartTurn(g, k) ==
  /\ turn[g].pc = "idle"
  /\ loop # "down"
  /\ Step(g, [NoTurn EXCEPT !.kind = k, !.pc = IF k = "update" THEN "get" ELSE "token"])
  /\ UNCHANGED faults

\* Mutant: a token may expire at once.
UsableUntilExpiry == {t \in table : life[t] > 0}

Usable == {t \in table : life[t] > MinLife}

\* getCampfireToken: the token that expires first of those that last.
GetNextCampfireToken(g) ==
  /\ turn[g].pc = "token"
  /\ \/ /\ \E t \in Usable :
             /\ \A u \in Usable : life[t] <= life[u]
             /\ Step(g, [turn[g] EXCEPT !.token = t, !.pc = "send"])
        /\ UNCHANGED faults
     \/ Usable = {} /\ Done(g) /\ UNCHANGED faults
     \/ Fault /\ Done(g)

\* Do asks for a page.  A page is answered; the last one ends the call, and
\* so does any error but too many requests, a bad gateway and Campfire's own
\* deadline.
DoAnswered(g) ==
  /\ turn[g].pc = "send" /\ ~Over(g)
  /\ \/ /\ turn[g].kind # "club"
        /\ Step(g, [turn[g] EXCEPT !.tries = 0])
     \/ Done(g)
  /\ UNCHANGED faults

DoRetryable(g) ==
  /\ turn[g].pc = "send" /\ ~Over(g)
  /\ Step(g, [turn[g] EXCEPT !.tries = @ + 1, !.rest = RetryPause, !.pc = "pause"])
  /\ UNCHANGED faults

\* Mutant: the deadline is an error to try again after.
DoRetriesDeadline(g) ==
  /\ turn[g].pc = "send" /\ Over(g)
  /\ Step(g, [turn[g] EXCEPT !.tries = @ + 1, !.rest = RetryPause, !.pc = "pause"])
  /\ UNCHANGED faults

\* The request is cut by the deadline, or made after it.
DoOver(g) ==
  /\ turn[g].pc = "send" /\ Over(g)
  /\ Done(g)
  /\ UNCHANGED faults

\* The pause does not look at the deadline.
DoAgain(g) ==
  /\ turn[g].pc = "pause" /\ turn[g].rest = 0
  /\ IF turn[g].tries = MaxRetries THEN Done(g) ELSE Goto(g, "send")
  /\ UNCHANGED faults

\* getEvent needs no token; only a bad gateway is tried again.
GetEventAnswered(g) ==
  /\ turn[g].pc = "get" /\ ~Over(g)
  /\ Done(g) \/ Wait(g, "backoff", Backoff)
  /\ UNCHANGED faults

GetEventOver(g) ==
  /\ turn[g].pc \in {"get", "backoff"} /\ Over(g)
  /\ Done(g)
  /\ UNCHANGED faults

\* Mutant: one try more.
GetEventOnceMore(g) ==
  /\ turn[g].pc = "backoff" /\ turn[g].rest = 0
  /\ IF turn[g].tries = MaxRetries
       THEN Done(g)
       ELSE Step(g, [turn[g] EXCEPT !.tries = @ + 1, !.pc = "get"])
  /\ UNCHANGED faults

GetEventAgain(g) ==
  /\ turn[g].pc = "backoff" /\ turn[g].rest = 0
  /\ IF turn[g].tries + 1 >= MaxRetries
       THEN Done(g)
       ELSE Step(g, [turn[g] EXCEPT !.tries = @ + 1, !.pc = "get"])
  /\ UNCHANGED faults

\* The stamp fails once the turn is over, and then is only logged.
Stamp(g) ==
  /\ turn[g].pc = "stamp"
  /\ Step(g, NoTurn)
  /\ UNCHANGED faults

Call(g) ==
  \/ \E k \in Kinds : StartTurn(g, k)
  \/ GetNextCampfireToken(g)
  \/ DoAnswered(g) \/ DoRetryable(g) \/ DoOver(g) \/ DoAgain(g)
  \/ GetEventAnswered(g) \/ GetEventOver(g) \/ GetEventAgain(g)
  \/ Stamp(g)

-----------------------------------------------------------------------------
(* Time and restarts. *)

\* Goroutine g has something to do now.
Due(g) ==
  \/ turn[g].pc \in {"token", "stamp"}
  \/ turn[g].pc \in {"pause", "backoff"} /\ turn[g].rest = 0
  \/ turn[g].pc \in {"send", "get", "backoff"} /\ Over(g)

\* A turn a tick later: asking and waiting go on.
Later(t) ==
  [t EXCEPT !.left = IF t.kind = "club" \/ t.pc = "idle" THEN @ ELSE @ - 1,
            !.rest = IF @ = 0 THEN 0 ELSE @ - 1,
            !.busy = IF t.pc \in {"send", "get"} /\ @ < Deadline THEN @ + 1 ELSE @]

\* The cleanup lets time go by.
Waiting ==
  \/ loop = "send" /\ pending # {}
  \/ loop \in {"report", "down"}

\* Tokens that expire now, when all the time they were known to have left but
\* one sleep of the cleanup went by without a query.
Unnoticed ==
  {t \in inserted : life[t] = 1 /\ had[t] <= away' + CleanupEvery}

Tick ==
  /\ \A g \in Callers : ~Due(g)
  /\ \/ Waiting /\ away' = UpToSoon(away + 1) /\ UNCHANGED timer
     \/ loop = "sleep" /\ timer > 0 /\ timer' = timer - 1 /\ UNCHANGED away
  /\ missed' = missed \cup Unnoticed
  /\ life' = [t \in Tokens |-> IF t \in inserted /\ life[t] >= 0 THEN life[t] - 1
                                                              ELSE life[t]]
  /\ turn' = [g \in Callers |-> Later(turn[g])]
  /\ UNCHANGED <<table, inserted, had, notices, loop, faults>>

\* The process ends.  What has been announced was only known in memory, and
\* what was still to be announced is forgotten.
Stop ==
  /\ loop # "down"
  /\ Fault
  /\ loop' = "down"
  /\ sent' = {} /\ pending' = {}
  /\ had' = [t \in Tokens |-> IF t \in pending /\ life[t] > 0 THEN life[t] ELSE had[t]]
  /\ missed' = missed \cup {t \in pending : life[t] <= 0}
  /\ turn' = [g \in Callers |-> NoTurn]
  /\ UNCHANGED <<tokens, away, announced, excused, timer>>

\* The cleanup starts with a round.
Restart ==
  /\ loop = "down"
  /\ loop' = "notify"
  /\ UNCHANGED <<tokens, gap, notices, timer, turn, faults>>

Next ==
  \/ \E t \in Tokens : InsertCampfireToken(t)
  \/ Cleanup
  \/ \E g \in Callers : Call(g)
  \/ Tick
  \/ Stop \/ Restart

Spec == Init /\ [][Next]_vars

-----------------------------------------------------------------------------
(* Properties. *)

\* The longest time the cleanup has slept since its last query.
Slept ==
  CASE loop = "sleep" -> CleanupEvery - timer
    [] loop \in {"notify", "down"} -> CleanupEvery
    [] OTHER -> 0

\* A token that is not announced, nor about to be, has what it was last known
\* to have left but for the time that went by without a query, unless it was
\* missed; what is remembered was announced, or its message failed.
NoticeInv ==
  /\ loop = "report" => timer = CleanupEvery
  /\ loop # "send" => pending = {}
  /\ pending \cap sent = {}
  /\ \A t \in sent : announced[t] > 0 \/ t \in excused
  /\ \A t \in Tokens : announced[t] <= faults + IF t \in sent THEN 1 ELSE 0
  /\ \A t \in inserted \ (missed \cup excused \cup pending) :
       announced[t] = 0 =>
         t \in table /\ life[t] > 0 /\ life[t] >= had[t] - away - Slept
  /\ \A t \in pending : t \in table /\ life[t] < Soon

\* Which calls a turn makes, and how often it has tried.
Shape(t) ==
  /\ t.pc \in {"token", "send", "get", "backoff"} => t.tries < MaxRetries
  /\ t.pc \in {"token", "send", "get"} => t.rest = 0
  /\ t.pc = "pause" => t.rest <= RetryPause
  /\ t.pc = "backoff" => t.rest <= Backoff
  /\ t.pc \in {"token", "send", "pause"} => t.kind # "update"
  /\ t.pc \in {"get", "backoff"} => t.kind = "update"

\* What a turn has left, and what a pause leaves of it.
EndsInTime(t) ==
  t.kind # "club" /\ t.pc # "idle" =>
    t.left >= 1 - RetryPause + (IF t.pc = "pause" THEN t.rest ELSE 0)

\* The life of the token a turn uses has gone by in answers and pauses.
TokenLasts(t) ==
  t.pc \in {"send", "pause"} =>
    /\ t.token \in inserted
    /\ t.kind = "club" =>
         \/ t.busy = Deadline
         \/ life[t.token] + t.busy + t.tries * RetryPause - t.rest > MinLife

\* The time of an update has gone by in answers and backoffs.
Waited(t) ==
  CASE t.pc = "get" -> t.tries * Backoff
    [] t.pc = "backoff" -> t.tries * Backoff + Backoff - t.rest
    [] OTHER -> MaxRetries * Backoff

TimeSpent(t) ==
  t.kind = "update" /\ t.pc # "idle" =>
    t.busy = Deadline \/ t.left + t.busy + Waited(t) >= Deadline

TurnInv ==
  \A g \in Callers :
    /\ Shape(turn[g]) /\ EndsInTime(turn[g])
    /\ TokenLasts(turn[g]) /\ TimeSpent(turn[g])

\* The inductive invariant behind the four properties that follow: where the
\* time of every token and of every turn has gone.
ClientInv == TypeOK /\ NoticeInv /\ TurnInv

\* A token is chosen once and serves all tries of a call: a club is only ever
\* asked for with an expired token after the answers to the tries before have
\* used up the minute, whatever the pauses between the tries.
AliveWhenSent ==
  \A g \in Callers :
    turn[g].pc = "send" /\ turn[g].kind = "club" /\ life[turn[g].token] <= 0 =>
      turn[g].busy > MinLife - (MaxRetries - 1) * RetryPause

\* No token disappears unannounced, unless its message failed or it was missed:
\* it expired when, but for one sleep of the cleanup, all the time it had left
\* at the last query (or all its life, or what was left when a round was cut off)
\* the process was down, waited for Discord, or could not ask.  And each process
\* announces a token once.
Announced ==
  /\ \A t \in inserted \ table : announced[t] > 0 \/ t \in missed \cup excused
  /\ \A t \in Tokens : announced[t] <= 1 + faults

\* A background goroutine is back in its loop before the pause of one try has
\* gone by after its deadline, whatever Campfire answers.
TurnEnds ==
  \A g \in Callers :
    turn[g].pc # "idle" /\ turn[g].kind # "club" => turn[g].left > -RetryPause

\* The backoffs of an update leave time for its stamp, and so for the events
\* behind: the stamp is only out of time when the answers themselves took
\* what the backoffs left.
StampInTime ==
  \A g \in Callers :
    turn[g].pc = "stamp" /\ turn[g].kind = "update" /\ Over(g) =>
      turn[g].busy >= Deadline - MaxRetries * Backoff
=============================================================================
