------------------------------- MODULE Raffle -------------------------------
(***************************************************************************)
(* The raffles of the tracker: server/web/tracker/raffle.go,               *)
(* raffle_events.go and raffle_winner.go over server/database/raffle.go.   *)
(*                                                                         *)
(* A handler is a sequence of autocommitted SQL statements: nothing is     *)
(* done in a transaction, nothing is locked, and every request runs in its *)
(* own goroutine.  So each statement that writes is an action of its own,  *)
(* what a handler read stays in its locals until the handler uses it, and  *)
(* a handler may stop after any statement (an error, a cancelled request,  *)
(* a crash) and leave the statements it has executed behind.               *)
(*                                                                         *)
(* The table raffle_winners is kept by columns: row[r] is the set of       *)
(* members with a row in raffle r (its primary key is (raffle, member)),   *)
(* confirmed[r] and past[r] the members whose row has that flag.           *)
(***************************************************************************)
EXTENDS Integers, FiniteSets

CONSTANTS
  Raffles,       \* raffle ids the sequence of the table can hand out
  Members,       \* Campfire members
  Events,        \* event ids
  FormIDs,       \* event ids the form's "ids" checkboxes can submit
  WinnerCounts,  \* values of the form's winner_count
  MaxEvents,     \* the limit of events of a raffle (50 in the code)
  Runners,       \* goroutines serving RunRaffle and RerunRaffle
  Editors        \* goroutines serving PostAddRaffleEvents

ASSUME RaffleAssumption ==
  /\ Raffles # {}
  /\ WinnerCounts \subseteq Nat
  /\ MaxEvents \in Nat
  /\ FormIDs \subseteq Events

VARIABLES
  raffles,    \* the raffles created so far
  events,     \* raffle_events of each raffle
  count,      \* raffle_winner_count of each raffle
  row,        \* members with a row in raffle_winners, by raffle
  confirmed,  \* those with raffle_winner_confirmed
  past,       \* those with raffle_winner_past
  members,    \* ids in the table members
  pc,         \* the next statement of each runner
  create,     \* the create argument of processRaffleWinners
  form,       \* the raffle parameters a RunRaffle request submitted
  target,     \* the raffle a runner works on
  seen,       \* confirmed winners in the runner's GetRaffleWinners snapshot
  winners,    \* the members a runner has drawn
  epc,        \* the next statement of each editor
  etarget,    \* the raffle an editor adds events to
  newIDs      \* the event ids the editor wants to add

tables == <<raffles, events, count, row, confirmed, past, members>>
runner == <<pc, create, form, target, seen, winners>>
editor == <<epc, etarget, newIDs>>
vars == <<tables, runner, editor>>

Statements == {"idle", "insertRaffle", "insertMembers", "deleteUnconfirmed",
               "markPast", "insertWinners"}

\* The flags of a row exist only with the row.
TypeOK ==
  /\ raffles \subseteq Raffles
  /\ events \in [Raffles -> SUBSET Events]
  /\ count \in [Raffles -> WinnerCounts \cup {0}]
  /\ row \in [Raffles -> SUBSET Members]
  /\ confirmed \in [Raffles -> SUBSET Members]
  /\ past \in [Raffles -> SUBSET Members]
  /\ members \subseteq Members
  /\ pc \in [Runners -> Statements]
  /\ create \in [Runners -> BOOLEAN]
  /\ form \in [Runners -> [events : SUBSET Events, count : WinnerCounts \cup {0}]]
  /\ target \in [Runners -> Raffles]
  /\ seen \in [Runners -> SUBSET Members]
  /\ winners \in [Runners -> SUBSET Members]
  /\ epc \in [Editors -> {"idle", "append"}]
  /\ etarget \in [Editors -> Raffles]
  /\ newIDs \in [Editors -> SUBSET Events]
  /\ \A r \in Raffles : confirmed[r] \subseteq row[r] /\ past[r] \subseteq row[r]

NoForm == [events |-> {}, count |-> 0]
AnyRaffle == CHOOSE r \in Raffles : TRUE

Init ==
  /\ raffles = {}
  /\ events = [r \in Raffles |-> {}]
  /\ count = [r \in Raffles |-> 0]
  /\ row = [r \in Raffles |-> {}]
  /\ confirmed = [r \in Raffles |-> {}]
  /\ past = [r \in Raffles |-> {}]
  /\ members \in SUBSET Members
  /\ pc = [q \in Runners |-> "idle"]
  /\ create = [q \in Runners |-> FALSE]
  /\ form = [q \in Runners |-> NoForm]
  /\ target = [q \in Runners |-> AnyRaffle]
  /\ seen = [q \in Runners |-> {}]
  /\ winners = [q \in Runners |-> {}]
  /\ epc = [q \in Editors |-> "idle"]
  /\ etarget = [q \in Editors |-> AnyRaffle]
  /\ newIDs = [q \in Editors |-> {}]

-----------------------------------------------------------------------------
(***************************************************************************)
(* The handlers.  The members eligible in the raffle's events are what     *)
(* Campfire and the database return at the moment of the draw, so the pool *)
(* is any set of members; module RaffleDraw has the draw itself.           *)
(***************************************************************************)

\* Mutant: confirmed winners stay in the pool of a rerun.
DrawsKeepWinners(known, n) == {W \in SUBSET Members : Cardinality(W) <= n}

\* raffleWinners: at most n distinct members, none a confirmed winner seen.
Draws(known, n) == {W \in SUBSET (Members \ known) : Cardinality(W) <= n}

\* A handler returns: its locals are gone.
Finish(q) ==
  /\ pc' = [pc EXCEPT ![q] = "idle"]
  /\ create' = [create EXCEPT ![q] = FALSE]
  /\ form' = [form EXCEPT ![q] = NoForm]
  /\ target' = [target EXCEPT ![q] = AnyRaffle]
  /\ seen' = [seen EXCEPT ![q] = {}]
  /\ winners' = [winners EXCEPT ![q] = {}]

Goto(q, statement) ==
  /\ pc' = [pc EXCEPT ![q] = statement]
  /\ UNCHANGED <<create, form, target, seen, winners>>

\* RunRaffle up to InsertRaffle: only the pasted events are counted against
\* the limit, the checked form ids are appended after the check.
RunRaffle(q) ==
  /\ pc[q] = "idle"
  /\ \E text \in SUBSET Events, ids \in SUBSET FormIDs, n \in WinnerCounts :
       /\ text \cup ids # {}
       /\ Cardinality(text) <= MaxEvents
       /\ form' = [form EXCEPT ![q] = [events |-> text \cup ids, count |-> n]]
       /\ \E W \in Draws({}, n) : winners' = [winners EXCEPT ![q] = W]
  /\ pc' = [pc EXCEPT ![q] = "insertRaffle"]
  /\ create' = [create EXCEPT ![q] = TRUE]
  /\ UNCHANGED <<tables, target, seen, editor>>

\* The raffle is stored after its winners are drawn and before they are.
InsertRaffle(q) ==
  /\ pc[q] = "insertRaffle"
  /\ \E r \in Raffles \ raffles :
       /\ raffles' = raffles \cup {r}
       /\ events' = [events EXCEPT ![r] = form[q].events]
       /\ count' = [count EXCEPT ![r] = form[q].count]
       /\ IF winners[q] = {}
            THEN Finish(q)
            ELSE /\ target' = [target EXCEPT ![q] = r]
                 /\ pc' = [pc EXCEPT ![q] = "insertMembers"]
                 /\ UNCHANGED <<create, form, seen, winners>>
  /\ UNCHANGED <<row, confirmed, past, members, editor>>

\* RerunRaffle up to processRaffleWinners: the draw uses the winners as they
\* were when GetRaffleWinners read them.
RerunRaffle(q, r) ==
  /\ pc[q] = "idle"
  /\ r \in raffles
  /\ seen' = [seen EXCEPT ![q] = confirmed[r]]
  /\ target' = [target EXCEPT ![q] = r]
  /\ \E W \in Draws(confirmed[r], count[r]) :
       /\ winners' = [winners EXCEPT ![q] = W]
       /\ pc' = [pc EXCEPT ![q] = IF W = {} THEN "deleteUnconfirmed"
                                            ELSE "insertMembers"]
  /\ UNCHANGED <<tables, create, form, editor>>

\* Mutant: the drawn members are not stored.
InsertMembersSkipped(q) ==
  /\ pc[q] = "insertMembers"
  /\ Goto(q, IF create[q] THEN "insertWinners" ELSE "deleteUnconfirmed")
  /\ UNCHANGED <<tables, editor>>

\* processRaffleWinners, one action per statement.
InsertMembers(q) ==
  /\ pc[q] = "insertMembers"
  /\ members' = members \cup winners[q]
  /\ Goto(q, IF create[q] THEN "insertWinners" ELSE "deleteUnconfirmed")
  /\ UNCHANGED <<raffles, events, count, row, confirmed, past, editor>>

\* Mutant: the unconfirmed winners of the last draw are kept.
DeleteSkipped(q) ==
  /\ pc[q] = "deleteUnconfirmed"
  /\ Goto(q, "markPast")
  /\ UNCHANGED <<tables, editor>>

\* Mutant: the DELETE does not test the flag.
DeleteRaffleWinners(q) ==
  /\ pc[q] = "deleteUnconfirmed"
  /\ row' = [row EXCEPT ![target[q]] = {}]
  /\ confirmed' = [confirmed EXCEPT ![target[q]] = {}]
  /\ past' = [past EXCEPT ![target[q]] = {}]
  /\ Goto(q, "markPast")
  /\ UNCHANGED <<raffles, events, count, members, editor>>

DeleteNotConfirmedRaffleWinners(q) ==
  /\ pc[q] = "deleteUnconfirmed"
  /\ row' = [row EXCEPT ![target[q]] = confirmed[target[q]]]
  /\ past' = [past EXCEPT ![target[q]] = @ \cap confirmed[target[q]]]
  /\ Goto(q, "markPast")
  /\ UNCHANGED <<raffles, events, count, confirmed, members, editor>>

\* Mutant: the winners before a rerun stay current.
MarkSkipped(q) ==
  /\ pc[q] = "markPast"
  /\ IF winners[q] = {} THEN Finish(q) ELSE Goto(q, "insertWinners")
  /\ UNCHANGED <<tables, editor>>

MarkRaffleWinnersAsPast(q) ==
  /\ pc[q] = "markPast"
  /\ past' = [past EXCEPT ![target[q]] = row[target[q]]]
  /\ IF winners[q] = {} THEN Finish(q) ELSE Goto(q, "insertWinners")
  /\ UNCHANGED <<raffles, events, count, row, confirmed, members, editor>>

\* The batch is one INSERT: a duplicate key or a missing member fails it whole.
Insertable(q) ==
  /\ winners[q] \cap row[target[q]] = {}
  /\ winners[q] \subseteq members

\* Mutant: ON CONFLICT DO UPDATE resets the flags instead of failing.
UpsertRaffleWinners(q) ==
  /\ pc[q] = "insertWinners"
  /\ row' = [row EXCEPT ![target[q]] = @ \cup winners[q]]
  /\ confirmed' = [confirmed EXCEPT ![target[q]] = @ \ winners[q]]
  /\ past' = [past EXCEPT ![target[q]] = @ \ winners[q]]
  /\ Finish(q)
  /\ UNCHANGED <<raffles, events, count, members, editor>>

InsertRaffleWinners(q) ==
  /\ pc[q] = "insertWinners"
  /\ Insertable(q)
  /\ row' = [row EXCEPT ![target[q]] = @ \cup winners[q]]
  /\ Finish(q)
  /\ UNCHANGED <<raffles, events, count, confirmed, past, members, editor>>

InsertRaffleWinnersFails(q) ==
  /\ pc[q] = "insertWinners"
  /\ ~Insertable(q)
  /\ Finish(q)
  /\ UNCHANGED <<tables, editor>>

\* A fetch or a statement fails, the request is cancelled, the process dies.
Abort(q) ==
  /\ pc[q] # "idle"
  /\ Finish(q)
  /\ UNCHANGED <<tables, editor>>

\* ConfirmRaffleWinner: an UPDATE by key, which touches no row when the
\* member has none.
ConfirmRaffleWinner(r, m) ==
  /\ r \in raffles
  /\ m \in row[r]
  /\ confirmed' = [confirmed EXCEPT ![r] = @ \cup {m}]
  /\ UNCHANGED <<raffles, events, count, row, past, members, runner, editor>>

-----------------------------------------------------------------------------
(* Adding events. *)

WithinLimit(S) == Cardinality(S) <= MaxEvents

EndEdit(q) ==
  /\ epc' = [epc EXCEPT ![q] = "idle"]
  /\ etarget' = [etarget EXCEPT ![q] = AnyRaffle]
  /\ newIDs' = [newIDs EXCEPT ![q] = {}]

\* Mutant: only the new events are counted against the limit.
PostAddUnchecked(q, r) ==
  /\ epc[q] = "idle"
  /\ r \in raffles
  /\ \E ids \in SUBSET Events \ {{}} :
       /\ WithinLimit(ids)
       /\ newIDs' = [newIDs EXCEPT ![q] = ids]
  /\ etarget' = [etarget EXCEPT ![q] = r]
  /\ epc' = [epc EXCEPT ![q] = "append"]
  /\ UNCHANGED <<tables, runner>>

\* The limit is checked against the raffle the request read at its start.
PostAddRaffleEvents(q, r) ==
  /\ epc[q] = "idle"
  /\ r \in raffles
  /\ \E ids \in SUBSET Events \ {{}} :
       /\ WithinLimit(ids)
       /\ WithinLimit(events[r] \cup ids)
       /\ newIDs' = [newIDs EXCEPT ![q] = ids]
  /\ etarget' = [etarget EXCEPT ![q] = r]
  /\ epc' = [epc EXCEPT ![q] = "append"]
  /\ UNCHANGED <<tables, runner>>

\* The database appends to the current array, not to the one read.
AppendRaffleEvents(q) ==
  /\ epc[q] = "append"
  /\ events' = [events EXCEPT ![etarget[q]] = @ \cup newIDs[q]]
  /\ EndEdit(q)
  /\ UNCHANGED <<raffles, count, row, confirmed, past, members, runner>>

AbortEdit(q) ==
  /\ epc[q] # "idle"
  /\ EndEdit(q)
  /\ UNCHANGED <<tables, runner>>

Runner(q) ==
  \/ RunRaffle(q)
  \/ InsertRaffle(q)
  \/ \E r \in Raffles : RerunRaffle(q, r)
  \/ InsertMembers(q)
  \/ DeleteNotConfirmedRaffleWinners(q)
  \/ MarkRaffleWinnersAsPast(q)
  \/ InsertRaffleWinners(q)
  \/ InsertRaffleWinnersFails(q)
  \/ Abort(q)

Editor(q) ==
  \/ \E r \in Raffles : PostAddRaffleEvents(q, r)
  \/ AppendRaffleEvents(q)
  \/ AbortEdit(q)

Next ==
  \/ \E q \in Runners : Runner(q)
  \/ \E q \in Editors : Editor(q)
  \/ \E r \in Raffles, m \in Members : ConfirmRaffleWinner(r, m)

Spec == Init /\ [][Next]_vars

-----------------------------------------------------------------------------
(* What GetRaffle shows: the rows of the last draw. *)

Current(r) == row[r] \ past[r]

-----------------------------------------------------------------------------
(* Properties. *)

\* Every goroutine leaves at most one batch of winners on display: before it
\* inserts again it marks all rows as past.  With one runner this is the
\* winner_count of the raffle; two overlapping reruns can show twice as many.
CurrentWithinCount ==
  \A r \in Raffles :
    Cardinality(Current(r)) <= count[r] * Cardinality(Runners)

Ledger == INSTANCE WinnerLedger WITH
            offered <- [r \in Raffles |-> row[r] \ confirmed[r]],
            settled <- confirmed

\* The handlers, interleaved statement by statement, implement the ledger of
\* offers that module WinnerLedger describes.
ImplementsLedger == Ledger!Spec

\* A confirmed winner is never deleted or unconfirmed, whatever reruns,
\* failures and confirmations interleave: DeleteNotConfirmedRaffleWinners is
\* the only DELETE and it tests the flag when it executes.
ConfirmedStays ==
  [][\A r \in Raffles : confirmed[r] \subseteq confirmed'[r] \cap row'[r]]_vars

\* When no two reruns overlap, a past winner is a confirmed one: a rerun
\* deletes every unconfirmed row before it marks the rest as past.
PastIsConfirmed == \A r \in Raffles : past[r] \subseteq confirmed[r]

\* When no two reruns overlap, the only duplicate key the insertion of the
\* drawn winners can meet is a winner confirmed after the snapshot.
CollisionIsLateConfirm ==
  \A q \in Runners :
    pc[q] = "insertWinners" =>
      winners[q] \cap row[target[q]] \subseteq confirmed[target[q]] \ seen[q]

\* The insertion never fails on its foreign key: the members are upserted
\* first and never deleted.
WinnersAreMembers ==
  /\ \A r \in Raffles : row[r] \subseteq members
  /\ \A q \in Runners :
       pc[q] \in {"deleteUnconfirmed", "markPast", "insertWinners"} =>
         winners[q] \subseteq members

\* The type invariant, and what keeps the foreign key of the winners.
RaffleInv == TypeOK /\ WinnersAreMembers

\* The inductive invariant behind PastIsConfirmed, CollisionIsLateConfirm and
\* RerunReplacesWinners: what each statement of the only runner can rely on.
SoloInv ==
  /\ PastIsConfirmed
  /\ \A r \in Raffles \ raffles : row[r] = {}
  /\ \A q \in Runners :
       /\ winners[q] \cap seen[q] = {}
       /\ pc[q] \in {"deleteUnconfirmed", "markPast"} => ~create[q]
       /\ pc[q] = "insertRaffle" => create[q]
       /\ pc[q] = "markPast" => row[target[q]] \subseteq confirmed[target[q]]
       /\ pc[q] = "idle" => seen[q] = {} /\ ~create[q]
       /\ pc[q] \notin {"idle", "insertRaffle"} => target[q] \in raffles
       /\ pc[q] \in {"insertMembers", "insertWinners"} /\ create[q] =>
            row[target[q]] = {}
       /\ pc[q] = "insertWinners" =>
            row[target[q]] \subseteq confirmed[target[q]] \cap past[target[q]]

\* When no two reruns overlap, a rerun that succeeds puts exactly the winners
\* it drew on display, whatever was confirmed meanwhile.
RerunReplacesWinners ==
  [][\A q \in Runners :
       (InsertRaffleWinners(q) /\ ~create[q]) =>
         row'[target[q]] \ past'[target[q]] = winners[q]]_vars

\* No raffle has more than MaxEvents events ("raffle cannot have more than
\* 50 events", raffle_events.go:147).
EventsWithinLimit == \A r \in raffles : WithinLimit(events[r])

\* What the checks keep of the limit: a raffle exceeds it by the ids of the
\* checkboxes it was created with, or else each request in flight adds one
\* event less than the limit to one that was there.
EventsBounded ==
  \A r \in raffles :
    \/ Cardinality(events[r]) <= MaxEvents + Cardinality(FormIDs)
    \/ Cardinality(events[r]) <= Cardinality(Editors) * (MaxEvents - 1) + 1

\* Events a request added are in the raffle from then on: concurrent
\* additions cannot lose each other's events.
EventsNeverLost == [][\A r \in Raffles : events[r] \subseteq events'[r]]_vars
=============================================================================
