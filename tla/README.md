# Verification of campfire-tools

`campfire-tools` is a Go server that copies the clubs, events, RSVPs and members
of Campfire into PostgreSQL, keeps them up to date, and lets club administrators
run raffles, hand out reward codes and read statistics. Nothing in the
repository tests it. These modules model the parts in which several goroutines,
several SQL statements or several attempts have to fit together.

Every handler and every background loop is a sequence of SQL statements, each
committed by itself: no handler uses a transaction that spans two of its
statements, no row is locked, and every request has a goroutine of its own, or
one for each event it asks for. So
the models have one action per statement that writes; what a goroutine has read
stays in its locals until it is used; and a goroutine may stop after any of its
statements.

## Inventory

| Component | State | Operations | Interacts with | What is hard |
|---|---|---|---|---|
| Raffles (`web/tracker/raffle*.go`, `database/raffle.go`) | tables `raffles`, `raffle_winners` | run, rerun, confirm a winner, add events, show | Campfire (`fetchEvent`), members, events | overlapping reruns, a winner confirmed during a rerun, a handler stopping half way, limits checked on stale data |
| Draw (`raffleWinners`) | a slice of tickets under a mutex | collect one event per goroutine, draw | Campfire | order of the goroutines, several tickets of one member, counts at and below zero |
| Club import (`club_importer.go`, `database/club_import_jobs.go`, `campfire/events.go`) | table `club_import_jobs` with the state of the work as JSON | queue, try, postpone, complete, fail | Campfire pages, members, events, RSVPs | resuming from cursors after a deadline or a crash, starvation of the queue |
| Event importer and updater (`event_importer.go`, `event_updater.go`) | `events`, `event_rsvps`, stamps of the last automatic import | import future events, refresh unfinished ones, delete those that are gone | each other, requests that import events | stale copies, deletion against insertion, RSVPs that are never deleted, foreign keys, stamps that fail |
| Members (`database/members.go`) | table `members` | upsert in chunks | every import, raffles | placeholders, partial batches, statements that wait for each other |
| Reward codes (`rewards*.go`, `reward_code*.go`, `web/rewards`) | `rewards`, `reward_codes` | create, edit, delete, show the next code or any code, mark, redeem page | the public rewards site | operators at one list, old pages, links that stay open |
| Login (`auth/`, `web/tracker/auth.go`, `database/session.go`, `discord_user.go`) | states of logins in memory, `sessions`, `discord_users` | start, callback, expiry | Discord | expiry against the callback, unique names that move between users |
| Campfire tokens (`campfire_token_cleaner.go`, `database/campfire_tokens.go`, `admin.go`) | `campfire_tokens`, notifications sent | add, choose, announce, delete | every Campfire request, Discord | a token expiring in use, rounds that fail or take long, a process that is down |
| Campfire client (`campfire/`) | a rate limiter and HTTP client | GraphQL requests, retries, paging | everything that imports | pauses and retries against deadlines, errors that are logged and reported as success |
| Clubs, pinned clubs, settings (`database/club.go`, `club*.go`) | `clubs`, pins | upsert, settings | importer | one statement each |
| Statistics (`club_stats.go`, `event_stats.go`, `models/calc.go`, `xtime/quarter.go`) | none | the pages of a club and of an event | database | several queries make one page while imports write; dates, quarters and projections at their edges |
| Exports and API (`export.go`, `event_import.go`, `api_*.go`) | none | fetch many events at once, store them, answer | Campfire, members, events, RSVPs | an error that cancels the other goroutines, rows that are not complete yet, bulk imports beside them |
| Pages that only show (`event.go`, `members.go`, ...) | none | one or two queries and a template | database | nothing |
| Templates, configuration, logging, images, migrations | - | - | - | no state of their own |

What makes each of them correct, in the words of the properties below: a
confirmed winner stays, and a rerun replaces the others; every drawn prize goes to
an entrant; no past event of a club is forgotten but on a page Campfire did not
deliver; a stored event ends up as Campfire has it, and is deleted only with it; an answered batch is stored, and a
placeholder never hides a name; an export that is answered is complete; a token
disappears unannounced only when nobody could have announced it, and turns end with their deadline; a login gives one session,
where it was started, and is lost to nothing but time and its own browser; a list of
codes offers none that was marked before, and whoever saw a code was counted; the parts of a page of statistics
agree with each other.

## Modules

| Module | Models | State |
|---|---|---|
| `Raffle` | `raffle.go`, `raffle_events.go`, `raffle_winner.go`, `database/raffle.go` | the columns of `raffles` and `raffle_winners`, the locals of every request |
| `WinnerLedger` | what the raffles promise: offers, which can be withdrawn, and settled prizes, which cannot | offered and settled members |
| `RaffleDraw` | `raffleWinners`, goroutine by goroutine and ticket by ticket | tickets, the winners drawn |
| `DrawOutcome` | what a draw may return | the pool and the result |
| `ClubImport` | `club_importer.go`, paging in `campfire/events.go`, the queue | jobs with their saved state, the tables, the attempt under way |
| `EventSync` | `event_importer.go`, `event_updater.go`, the requests that import events | Campfire, the rows, what each goroutine holds |
| `EventRequests` | `getAllEvents` of `export.go`, `importAllEvents` of `event_import.go`, `fetchEvent` and `bulkProcessEvents` under them | the rows, what each goroutine holds, what a request has collected and answered |
| `MemberTable` | `InsertMembers` of `database/members.go`; instantiated by `EventRequests` | the names stored, the rest of each batch |
| `CampfireClient` | `Do`, `getEvent`, the choice of tokens, `campfire_token_cleaner.go` | tokens with their time to live, the round of the cleanup and the time it could not look, the turn of each caller |
| `Login` | `auth/auth.go`, `web/tracker/auth.go`, `login.go` and their tables | pending logins, cookies, users, sessions, a clock |
| `Statistics` | `club_stats.go`, `event_stats.go` and the queries, dates and projections they use | the tables, and what the page has read so far |
| `Rewards` | the pages of rewards and codes, `web/rewards/redeem.go`, `database/rewards.go` | both tables, the lists of the operators, the links shown, the visits |
| `RaffleProofs` (also of `RaffleDraw`), `ClubImportProofs`, `EventSyncProofs`, `EventRequestsProofs` (also of `MemberTable`), `CampfireClientProofs`, `LoginProofs`, `StatisticsProofs`, `RewardsProofs` | theorems | |
| `MC...` | constants and symmetry for TLC | |

Conventions. Actions have the name of the function they model, in its spelling. A
statement of a goroutine `g` is an action guarded by `pc[g]`; local variables that
outlive a statement are functions of the goroutine. Identifiers, names and payloads
are model values; sets stand for tables whose order no query uses, sequences for
those that are ordered by a stamp. Operators marked "Mutant" are plausible errors in
the code: each shows that the property named with it can fail.

### Raffles

`RunRaffle`, `InsertRaffle`, `InsertMembers`, `DeleteNotConfirmedRaffleWinners`,
`MarkRaffleWinnersAsPast` and `InsertRaffleWinners` are the statements of the two
handlers; `RerunRaffle` reads the winners (`seen`) long before the last of them
writes. `Abort` ends a handler after any statement: an error, a cancelled request and
a restart look the same. The INSERT of winners is one statement that fails as a whole.
What a raffle draws is any set of at most `count` members who are not confirmed
winners seen; `RaffleDraw` shows that the real draw returns such a set, and how large it
is. `Current` is what the page shows.

The model makes no difference between the users: a raffle belongs to whoever created
it, and one user with two tabs is enough for every interleaving.

### Club import

A cursor is the number of pages read. An attempt starts at the cursor of its state
(`GetPastEvents`) and reads page by page (`ReadPage`, `ReadLastPage`): the events read are
in `past`, a local of the function, until it returns. Then it takes the events one by one
(`GetEventMembers`, three inserts), and ends in `UpdateClubImportJob`, which saves the
state with the cursors. Failures: `TokenLookupFails`, `PageRequestFails` and
`EventMembersFail` at any page, `InsertFails`, `Lose` (the update fails, or the process
restarts). `Broken` events never deliver their members:
such a job is postponed for ever, and the others must not wait for it.

A request that Campfire answers with GraphQL errors is none of these failures:
`campfire/client.go:114` logs the errors and returns success with whatever data there is. In
`ReadErroredPage` and `GetErroredMembers` that is an empty last page, for both loops
end at a page without a next one. Two history variables name what is then missing:
`skipped`, the events on pages an attempt did not see, and `unseen`, the member pages of an
event; a lost cursor (`TokenLookupFails`) adds to `skipped` too. What the properties
exclude is a page that is missed in any other way.

### Events

Campfire publishes, edits, ends and deletes events; a version stands for all that can
change. Importer, updater and requests fetch a version and write it in three
statements, `InsertMembers`, `InsertEvents`, `InsertEventRSVPs`, each of which may meet
another state of the tables than the fetch did, and fail on a foreign key. `order` is
the order of `event_last_auto_imported_at`: a stamp moves a row behind the `Others`.

RSVPs are rows of their own: `Upserted` writes those of the list that was fetched, leaves
the others as they are, and nothing deletes them but the deletion of the event.
`Answered` says who has an RSVP in which version, so that an RSVP may go with a newer
one; no statement is run for an event without any. `ImportEvent` stores an event that is
gone, for the errors in the answer with its members are only logged; its RSVPs came with
the list of events, and their members are placeholders. `Failing` are events
with a row that Campfire answers with an error for good: the updater stamps them and
turns to the next.

### Exports, imports and members

In `EventRequests` a request is a set of goroutines, one for each event it asks for.
`Resolve`, `Look`, `UnmarshalEvent` and `GetEvent` are the ways through `fetchEvent`: a
finished row is final, one that is not is fetched and stored, an event without a row is
fetched only. `Live` is the context: the first error of an export ends it for its other
goroutines, wherever they are between two statements (`Cancelled`), those of an import
run on, and a browser that leaves (`Leave`) ends an export only. `BulkProcessEvents` is
the goroutine of an import that stores everything at once when all fetches are there.
Three history variables name what the code cannot prevent: `cut`, `early`, `shadowed`.
Each event's list of members is merged into the batch of a request by `AddMissing`, entry by
entry, the first one of a member winning.

`InsertMembers` is `MemberTable`, as an instance: a batch is cut into chunks of
`BatchSize`; a chunk is one upsert and commits by itself, because it is executed on the
pool and not on the transaction the function opened (`members.go:95` and `:118`). Two
chunks that lock the same rows in opposite order are `Deadlocked`, and PostgreSQL fails
one of them.

### Campfire client and tokens

`CampfireClient` counts down timers: what each token has left to live, what a turn has
left of its deadline, what a goroutine has still to sleep. `Tick` moves them together, and
only when no goroutine has anything to do (`Due`), so that statements take no time and
answers take any. A turn is one of four kinds, after the loop or handler it belongs to:
the two loops that page with `Do` (`clubs`, `events`), the one that asks for a single event
with `getEvent` (`update`), and a request for a club, which has no deadline. `DoRetryable`
and `GetEventAnswered` are the errors after which the code tries again, with a pause that
does not look at the deadline (`Do`) or one that does (`getEvent`).

The loop of the tokens is the query for those that expire soon, one message after the
other, the deletion, a message that says how many were deleted, and the sleep. Messages
take any time, and so does a process that is down between `Stop` and `Restart`; tokens
expire meanwhile. `had` is what a token had left when the loop last knew that it was not
due, and `away` the time since the last query that the loop was down, waited for Discord
or slept after a query that failed. A token is `missed` when it expires and all it `had`
is no more than that and one sleep; it is `excused` when its message failed, because the code
remembers it as sent all the same.

### Login, rewards, statistics

`Login` has a clock, a cleanup that is never late, callbacks of two statements, and
Discord users who change their names. A cookie is a number, that of the login it was
set for.

In `Rewards` an operator loads the list of a reward, again at any time, or the page of any
code, redeemed or not (`TrackerRewardCode` checks only that the operator sees the reward
in the address), and presses the buttons of pages that may be old. Whatever link a page has
shown (`links`) can be opened by any visitor any number of times, in three steps: the code
is read, the visit is counted, the code is shown. `used` are the codes marked as used and
since then neither unmarked nor deleted, and `stale` the operators whose code was marked
after they loaded their list. `reward_members` is read by the code and written by none of
it, so `Shared` is a constant.

In `Statistics` a page is one request that executes its queries one after the other,
or two at once, while imports write. Days are numbers and months runs of days. The
categories follow the order of their patterns. The page of an event is asked for with any
set of clubs, also of clubs without a row, because the ids in its address are not checked.
The from and to fields of the page of a
club, which restrict the categories, are left at all time; rates and top lists are
left out.

## Runs

| Run | Instance | Shows |
|---|---|---|
| `raffle_solo` | one raffle, two members, one request at a time that draws, two that edit; four events, a limit of two, one checkbox | `SoloInv`, `CollisionIsLateConfirm`, `RerunReplacesWinners`, `EventsBounded` |
| `raffle_overlap` | one raffle, three members, two of each | what holds in every interleaving: `RaffleInv`, `ImplementsLedger`, `ConfirmedStays`, `CurrentWithinCount` |
| `raffle_limit_race` | two editors | violates `EventsWithinLimit` |
| `raffle_draw` | two events, two members, every RSVP table, counts from -1 to 2 | `DrawInv`, `ImplementsOutcome`, `DrawEnds` |
| `club_import` | two jobs, archives of one to three pages, two of them with an empty page and one with an event that never loads; members in two pages, two failures or errored answers | `SavedStateInv`, `NothingForgotten`, `ImportedEventIsComplete`, `CompletedIsAccounted`, `HealthyJobEnds` |
| `club_import_token` | one job whose token lookup can meet the deadline | violates `CompletedIsImported` |
| `event_sync` | two events, one of which can never be fetched again and one whose second version has lost an RSVP; importer, updater, one request, one failure | `SyncInv`, `OnlyGoneDeleted`, `Settles` |
| `export` | an export of three events, one of them unsupported, beside an import of the other two; four members, chunks of two, one fault | `ExportComplete`, `FinishedComplete`, `BatchStored`, `NamesKept` |
| `campfire` | two tokens of two lives, one goroutine with turns of every kind, two tries, one fault | `ClientInv`, `AliveWhenSent`, `Announced`, `TurnEnds`, `StampInTime` |
| `login` | two browsers, two users, three names, two callbacks, two logins, three ticks | `LoginInv`, `SessionOfLogin`, `StatesExpire`, `PendingSurvives`, `RefusedByStaleName` |
| `statistics` | four meetups of two clubs, one member, two writes at any moment, two days; the page of a club asked for in four ways (each parameter left out and chosen), that of an event with any clubs | `CountsInv`, `ProjectionCovers`, `WhereMatchesCombined`, `AttendedAllIsEveryDay` |
| `rewards` | two operators, one visitor, two codes, two rewards, two rows, one failure | `CodesInv`, `NotOfferedAgain`, `UsedWasShown` |

The properties whose names end in `Inv` contain the type invariant of their module and
the facts the other properties rest on; most of them are inductive or nearly so. Every
safety property of a passing run is also a theorem.

**Bounds.** Every table that can grow is bounded by the size of a constant set, and what
counts is bounded by a constant whose name starts with `Max`. The instances are as
small as the interesting cases allow: a duplicate key needs two runners and a member
both draw; a limit of two events is exceeded by two editors of one event each, and its
bound (`EventsBounded`) is reached with a third event and a fourth would pass it;
a chunk boundary needs a batch longer than `BatchSize`; two statements that wait for
each other need two events that list two members in opposite order; a token that expires
in use needs a minute (`MinLife`) of which pauses and answers both take a part, and one
that is missed needs a day (`Soon`) longer than two rounds are apart; a resumed cursor
needs three pages and two failures, one for each half of the import; RSVPs that stay behind need a version that has lost one,
and a turn that is not given a second row, which fails; the combined section of a page
lacks a row after two writes, a club and an answer; a name that changes
hands needs a third name; a code pasted twice needs two forms. Where a property is also a
theorem, the bound does not matter. Symmetry is used in runs without liveness only,
over sets no expression tells apart.

`CHECK_DEADLOCK FALSE` stands where the system may stop or its bounds do: all jobs
ended (`club_import`), all requests answered (`export`), the draw over
(`raffle_draw`), all rows used up and no reward left (`rewards`).

**Fairness.** `ClubImport` and `EventSync` assume weak fairness of each background
loop as a whole: `importClubs`, `importEvents` and `updateEvents` are `for` loops
over a sleep, with a deadline on each turn, so one of them takes a step when it can.
Nothing is assumed of requests, of Campfire or of the users. A failure is possible
`MaxFaults` times and never due, so "eventually" means "once failures stop"; those that
do not stop are the constant `Broken`. `RaffleDraw` assumes that the goroutines of the draw
run. What must happen in time is a safety property of `CampfireClient` and `Login`, whose
clocks do not pass over what is due. `Settles` further supposes that the club stays on
automatic import, because the updater passes over the others.

## What the runs say about the code

The repository contradicts itself in two places a run shows:

* `raffle_limit_race`: `raffle_events.go:147` promises that a raffle "cannot have more
  than 50 events", but the check uses the raffle read before the events were fetched.
* `club_import_token`: `club_importer.go:112` promises to continue later after a
  deadline, but when the deadline strikes in the lookup of the token, `GetPastEvents`
  returns no cursor, and the importer saves that in place of its own. A state that
  already holds events then looks as if all pages had been read.

Others were met while modelling. They are in the models as they are in the code, and
the properties are stated so that they hold with them:

* `raffle.go:104` counts the pasted events, but not the ids appended to them; with
  checkboxes the limit does not hold. `EventsBounded` says how far it goes.
* Confirming a winner whose row a rerun has deleted touches no row and is answered as a
  success (`raffle_winner.go:56`).
* Two overlapping reruns may put both of their results on display:
  `CurrentWithinCount` has one `winner_count` for each.
* `InsertMembers` and `InsertEventRSVPs` open a transaction and execute their chunks
  outside of it (`members.go:95`, `event_rsvps.go:39`).
* A page or member list that Campfire answers with GraphQL errors is read as an empty last
  one (`client.go:114`, `events.go:36` and `:103`): pages go missing without an error.
* An attempt that resumes and reads no event, because of such an answer or of an empty last
  page, completes the job with events still in its state (`club_importer.go:118`).
* RSVPs that are gone on Campfire stay in the table (`event_rsvps.go:30`), and the last one
  of an event too. The importer can store an event that is gone (`event_importer.go:74`).
* A token that expires while the process is down, or while the cleanup waits for Discord, is
  deleted unannounced: the query leaves out what has expired (`campfire_tokens.go:58`). So
  is one whose message failed (`campfire_token_cleaner.go`).
* The page of an event counts the members of a club that the list of clubs does not have in
  its combined section, and no row names them (`event_stats.go:22`).
* A link shows its code whether or not it is redeemed, to whoever opens it (`redeem.go:22`),
  and the page of a code takes a code of any reward (`reward_code.go:29`).
* On the first day of a range the projection divides by zero (`calc.go:56`);
  `Garbage` is what the conversion may yield.
* `TrackerClubStats` passes the quarter and the creator to `calculateLeagueGoals` in the
  opposite order of its parameters (`club_stats.go:131`): a chosen quarter is compared
  with the creator of the events.
* A bulk import takes the first entry of a member: the placeholder of one event hides the
  name another event lists (`club_import.go:183`), until a later import brings it.
* An export, and a raffle, silently leave out an event that is finished and whose RSVPs
  another goroutine has yet to store (`early`), and an export that fails because of one
  event may cut the import of another between its row and its RSVPs. If that row is
  finished, nothing fetches it again.
* A placeholder is stored as the JSON `{}`. Read back, it is a member with an empty id, and
  an import of such an event stores that member (`Nobody`).
* A token that expires while pages are read makes the request for the next page fail with
  an error that ends the job instead of postponing it (`club_importer.go:115`).
* Every call of `InsertMembers` holds the connection of its idle transaction while its
  chunks take another one; with as many calls as the pool has connections all of them
  would wait. The size of the pool is not modelled.
* The two joins of `GetReward` multiply its counts when a reward has several members
  (`rewards.go:46`).

## Proofs

Every theorem is proved for all values of the constants that satisfy the assumption
named in its module. Nothing else is assumed, except where a theorem says so.

`RaffleProofs`. Type correctness comes first: it is inductive by itself. From it follow
the step facts: no statement takes a confirmed winner away (`ConfirmedWinnersStay`),
drawn winners are members before they are inserted (`WinnersReferenceMembers`), events
accumulate (`RaffleEventsAccumulate`). `RaffleImplementsLedger` is a refinement: the
unconfirmed rows of a raffle are its offers, the confirmed ones the settled prizes, and
each statement is an offer, a withdrawal, a settlement or a stutter of `WinnerLedger`.

How many winners are on display when reruns overlap is not inductive as a number
(`CurrentWithinBatches`, for finite sets of members and runners). `DisplayInv` explains
where they come from: every winner on display is in the batch of some runner, a batch has at most
`winner_count` members, and that of a runner about to insert (`Loaded`) is empty, for its
UPDATE has just cleared the display. An insertion fills the runner's own batch; the
UPDATE of another empties them all. The bound is then a count of places, one for each
runner and prize.

What is left of the limit of 50 events is `EventsStayBounded`, for any finite sets of events
and requests, whoever edits and whatever the checkboxes add. `BoundInv` counts for each
raffle its events together with those that requests in flight have checked and are about to
append (`Pending`). A check was passed against events that are still there, at least one, so
what each such request can add is at most one less than the limit, and when it is the
only one everything is within the limit. Only the creation adds the checkboxes.

With a single runner more is true, under the hypothesis that `Runners` has one element.
That a past winner is a confirmed one is not inductive: the UPDATE that marks rows as
past can rely on it only because the DELETE before it has left none but confirmed rows.
`SoloInv` says for every statement what it can rely on: after the DELETE only confirmed
rows are left, after the UPDATE they are also past, a new raffle has no rows, the drawn
winners avoid those seen. `SoloInvariant` proves it, and `SoloPastIsConfirmed`,
`SoloCollisions` and `SoloRerunReplaces` follow.

The draw itself is `RaffleDraw`. While tickets are collected, each member has one for every
entry in the events whose goroutine has run, or at most one; so at the start of the loop the
tickets are the entries, whatever the order (`DrawInvariant`). In the loop every entrant has
won or has a ticket left and nobody else has either, and winners are as many as they are
different. When it ends either no ticket or no prize is left, which makes the refinement of
`DrawOutcome` (`DrawImplementsOutcome`). `DrawIsAllowed` joins the two models: what the draw
returns is one of the sets `Draws` that `Raffle` lets a handler choose from.

`ClubImportProofs`. `SavedStateInv` says what an attempt relies on: which jobs are queued,
each of them once, and that the state saved last can be resumed (`SavedStates`).
`CoverInv` follows every past event of a club: it is imported, or in the state of the job, or
on a page behind its cursor; and while an attempt is under way, the same of its local state,
the events in `past` and the page it is at. Each statement moves an event from one of these
places to the next. `NothingIsForgotten` is its part for pending jobs and `CompletedAccounts`
for completed ones; neither has a hypothesis, because the pages that were never seen are in `skipped`. That
a completed job has imported everything is false, which the run `club_import_token` shows
even without errored answers. `ImportedIsComplete` is a fact about a step: RSVPs are
written last.

`EventSyncProofs`. That only events which are gone are deleted is a fact about a step of
the updater, whose reason lies in an earlier one, when `GetEvent` answered "not found".
`Published` carries it along: who is about to delete is the updater, and its target is gone
(`HoldsPublished`); a goroutine about to store RSVPs finds the row, unless the event is
gone (`RowAwaitsRSVPs`); what is stored or listed was published (`RowsPublished`). The
proof has a lemma for each kind of goroutine, over one for the three statements they
share. `OrderInvariant` adds that the order by stamp, however it starts, holds each row once,
whoever writes, deletes and stamps at the same time; with it `SyncInvHolds` is complete.

`EventRequestsProofs`. A goroutine that stores RSVPs holds all of them, or read them from a
row that was finished before. The bulk import may hold less than all, for it stores what
others read; but then the row was finished, and its RSVPs are there, or are coming, or were
cut. `RequestInv` says this of every goroutine, and `FinishedEventsComplete` is its last
part. The lists of members are built by recursive functions over an index; that they exist,
and that the merged list holds every entry, is proved by their smallest counterexample.
With these types the requests implement `MemberTable` (`RequestsImplementTable`; TLC cannot
enumerate the batches its specification allows). What is left of a batch is the end of it,
and everything before the rest is stored (`TableInvariant`).
An upsert writes an empty name only where there is no row, so `NamesAreKept` follows step by
step, and a call that returned has stored its batch (`BatchesAreStored`).
`ContentInv` compares what goroutines, rows and answers hold with what Campfire lists:
whoever holds an event that is not `early` holds all its RSVPs, with their members
(`ExportsAreComplete`).

`CampfireClientProofs`. `ClientInv` keeps account of time. A token that has neither been
announced nor missed has left at least what it had, less the time the loop was away and the
part of its sleep that has passed (`NoticeInv`); so it is still in the table, and if it
reaches the end of its life that is when the definition of `missed` says so. Nothing is
assumed of how long messages take or the process is down. The life of a chosen token and the rest
of a turn are what they were, less the answers, pauses and backoffs so far (`TokenLasts`,
`TimeSpent`). The four properties of the run are read off it.

`LoginProofs`. A login is in one place: pending, with one callback, or a session
(`HeldOnce`). From it follow `OneSessionPerLogin`, and, with a second invariant on the age of
what is pending since the last cleanup, `PendingLoginsExpire`; `LoginsSurviveFailures` and
`RefusalsAreStale` are facts about a step.

`RewardsProofs`. `HandInv` says where a used code can be: the row of a used code is redeemed
(`Marked`), what is redeemed or on a list has had its link shown (`LinksShown`), and a list
holds the row and the code it was loaded with as long as the row exists (`ListsMatch`). A
list is loaded from rows that are not redeemed, hence without a used code; a mark that comes later
makes whoever has the code on a list `stale`; pasting a code anew makes no second row while it
has one. Steps are first put into kinds (`StepKind`), by what they do to the rows
and lists, and each kind keeps the invariant. `CodesInvariant` needs that ids are not used
again, and that the visitors of a row (`VisitorsOf`) are finitely many and, with those who are
counted and have yet to see the code, no more than its count.

`StatisticsProofs`. The module proves what sums need first: a fold over a finite set exists, may
take its elements in any order, may leave out zeros, and is the sum of the sums over the
parts of a partition (`SumByParts`). The prover cannot instantiate the library's induction,
so each of these takes a smallest set that would contradict it. The categories partition the events,
since the least index of a fitting pattern exists; events nobody answered are missing from the
counts and zero in the totals; hence `CountsAreRight`, with the invariant that a page no
import interrupted still holds what its queries find (`PageRead`). `ProjectionsCover` rests on the
invariant that a page is computed for a quarter and for months that have begun (`ClubPage`): a range
of `N` days of which `k` have passed, 0 < `k` < `N`, projects to no less than what is counted.
`WhereIsRight` holds of any clubs asked for, and of any writes between the two queries: a row is built for the
listed clubs among them, so who is counted without one is counted in a club the list lacks.
`AttendedAllIsRight` needs that the best rank of a row is a check-in just when one of the
meetups has one.

Only model-checked: everything temporal under fairness (`Settles`, `HealthyJobEnds`,
`DrawEnds`), which is beyond the prover.
Only proved: `RaffleEventsAccumulate` and the types, which no run checks by themselves.

## Not modelled

* Answers of Campfire that hold errors and part of a page: an answer has all its data or, in
  `ReadErroredPage` and `GetErroredMembers`, none.
* The rate limiter and the parsing of addresses in `ResolveEventID`; whether an address is
  supported is a constant.
* The columns, files and JSON an export is written to, and the exports of what the database
  already holds; the pages that show one query.
* Times within a day, time zones, and the hour a row must be old before the updater
  takes it: the updater may wait any time before a step.
* Several clubs in `EventSync`, and clubs that became inactive.
* The number of connections in the pool.
* The sign-up on the rewards site, which is not routed, and `server/cauth`, which repeats
  `server/auth` with other types.
* Templates, configuration, logging, images and migrations.

## Plan

1. Several clubs in `EventSync`, with the order in which they are imported, and the pool as a
   bounded resource under `MemberTable`.
2. Pages of Campfire with errors for some of their events (`null` among the edges), and the
   calls that page on one token.
