----------------------------- MODULE ClubImport -----------------------------
(***************************************************************************)
(* The import of a club's past events: server/club_importer.go over        *)
(* server/campfire/events.go and server/database/club_import_jobs.go.      *)
(*                                                                         *)
(* Administrators queue jobs; one background goroutine takes the pending   *)
(* job tried longest ago, works on it until it ends or a two minute        *)
(* deadline strikes, and saves the job with the work still to do.  The     *)
(* process may stop between any two statements; a job is then taken up     *)
(* again from the state saved last.                                        *)
(*                                                                         *)
(* Campfire returns a club's archive page by page, and so the members of   *)
(* an event.  A cursor is the number of pages read, 0 being the nil cursor *)
(* that asks for the first one.  An answer may hold GraphQL errors where   *)
(* data should be: the client logs them and reports success, and a page    *)
(* that is not there reads as an empty one with none after it.             *)
(***************************************************************************)
EXTENDS Integers, Sequences, FiniteSets, SequencesExt

CONSTANTS
  Jobs,           \* ids of import jobs
  Events,         \* event ids
  Archives,       \* archives a club can have: sequences of pages of events
  MemberPages,    \* pages of members every event has
  Broken,         \* events whose members Campfire never returns
  TokenTimesOut,  \* whether the token lookup can meet the deadline
  GraphQLErrors,  \* whether an answer can hold errors in place of a page
  MaxFaults       \* bound on failures other than those of Broken events

ASSUME ImportAssumption ==
  /\ Jobs # {}
  /\ Archives \subseteq Seq(Seq(Events)) \ {<<>>}
  /\ MemberPages \in Nat \ {0}
  /\ Broken \subseteq Events
  /\ TokenTimesOut \in BOOLEAN /\ GraphQLErrors \in BOOLEAN
  /\ MaxFaults \in Nat

VARIABLES
  status,   \* club_import_job_status, "none" before the job is created
  archive,  \* the archive of the job's club
  saved,    \* club_import_job_state
  untried,  \* pending jobs never tried, by created_at
  retry,    \* pending jobs tried before, by last_tried_at
  stored,   \* member pages of each event that are in the table members
  event,    \* events in the table events
  rsvps,    \* events whose RSVPs are in event_rsvps
  pc,       \* the next statement of the importer
  job,      \* the job it works on
  past,     \* events GetPastEvents has read in this attempt
  page,     \* its cursor
  state,    \* its local copy of the job's state
  result,   \* the error importClubEvents returned, as the status it sets
  faults,   \* failures so far
  skipped,  \* history: events of a job's pages that an attempt passed unread
  unseen    \* history: pages of an event's members that were passed unread

queue == <<status, archive, saved, untried, retry>>
tables == <<stored, event, rsvps>>
importer == <<pc, job, past, page, state, result>>
history == <<skipped, unseen>>
vars == <<queue, tables, importer, faults, history>>

Pages == 1..MemberPages

NewState == [events |-> <<>>, eventCursor |-> 0, members |-> {}, memberCursor |-> 0]

Statements == {"idle", "pastEvents", "page", "members", "insertMembers", "insertEvents",
               "insertRSVPs", "update"}

State == [events : Seq(Events), eventCursor : Nat,
          members : SUBSET Pages, memberCursor : 0..MemberPages - 1]

TypeOK ==
  /\ status \in [Jobs -> {"none", "pending", "completed", "failed"}]
  /\ archive \in [Jobs -> Archives]
  /\ saved \in [Jobs -> State]
  /\ untried \in Seq(Jobs) /\ retry \in Seq(Jobs)
  /\ stored \in [Events -> SUBSET Pages]
  /\ event \subseteq Events
  /\ rsvps \subseteq Events
  /\ pc \in Statements
  /\ job \in Jobs
  /\ past \in Seq(Events) /\ page \in Nat
  /\ state \in State
  /\ result \in {"none", "pending", "completed", "failed"}
  /\ faults \in 0..MaxFaults
  /\ skipped \in [Jobs -> SUBSET Events]
  /\ unseen \in [Events -> SUBSET Pages]

Init ==
  /\ status = [j \in Jobs |-> "none"]
  /\ archive \in [Jobs -> Archives]
  /\ saved = [j \in Jobs |-> NewState]
  /\ untried = <<>> /\ retry = <<>>
  /\ stored = [e \in Events |-> {}]
  /\ event = {}
  /\ rsvps = {}
  /\ pc = "idle"
  /\ job = CHOOSE j \in Jobs : TRUE
  /\ past = <<>> /\ page = 0
  /\ state = NewState
  /\ result = "none"
  /\ faults = 0
  /\ skipped = [j \in Jobs |-> {}]
  /\ unseen = [e \in Events |-> {}]

Fault == faults < MaxFaults /\ faults' = faults + 1

-----------------------------------------------------------------------------
(* The queue. *)

\* TrackerClubDoImport: its last statement queues the job, the others store
\* the club and its creator.  A club may be queued again.
InsertClubImportJob(j) ==
  /\ status[j] = "none"
  /\ status' = [status EXCEPT ![j] = "pending"]
  /\ untried' = Append(untried, j)
  /\ UNCHANGED <<archive, saved, retry, tables, importer, faults, history>>

\* ORDER BY last_tried_at, created_at LIMIT 1: a job never tried comes first.
Pending == untried \o retry

\* Mutant: pages left unread are forgotten once there are events to import.
GetNextWithoutCursor ==
  /\ pc = "idle"
  /\ Pending # <<>>
  /\ LET s == saved[Head(Pending)] IN
       /\ job' = Head(Pending)
       /\ state' = s
       /\ pc' = IF s.events = <<>> THEN "pastEvents" ELSE "members"
  /\ UNCHANGED <<queue, tables, past, page, result, faults, history>>

GetNextPendingClubImportJob ==
  /\ pc = "idle"
  /\ Pending # <<>>
  /\ LET s == saved[Head(Pending)] IN
       /\ job' = Head(Pending)
       /\ state' = s
       /\ pc' = IF s.events = <<>> \/ s.eventCursor # 0 THEN "pastEvents"
                                                        ELSE "members"
  /\ UNCHANGED <<queue, tables, past, page, result, faults, history>>

\* importClubEvents returns.
Leave(s, r) ==
  /\ state' = s
  /\ result' = r
  /\ pc' = "update"
  /\ past' = <<>> /\ page' = 0
  /\ UNCHANGED job

Goto(s, statement) ==
  /\ state' = s
  /\ pc' = statement
  /\ past' = <<>> /\ page' = 0
  /\ UNCHANGED <<job, result>>

EndAttempt ==
  /\ pc' = "idle" /\ state' = NewState /\ result' = "none"
  /\ past' = <<>> /\ page' = 0
  /\ UNCHANGED job

\* The job was taken from the head of one of the two queues.
IsFirst(q) == q # <<>> /\ Head(q) = job

Without(q) == IF IsFirst(q) THEN Tail(q) ELSE q

\* Mutant: last_tried_at is not stamped.
UpdateWithoutStamp ==
  /\ pc = "update"
  /\ status' = [status EXCEPT ![job] = result]
  /\ saved' = [saved EXCEPT ![job] = state]
  /\ IF result = "pending"
       THEN UNCHANGED <<untried, retry>>
       ELSE untried' = Without(untried) /\ retry' = Without(retry)
  /\ EndAttempt
  /\ UNCHANGED <<archive, tables, faults, history>>

\* UpdateClubImportJob, on a context that the deadline does not cancel: it
\* saves the status, the state and the moment the attempt started.
UpdateClubImportJob ==
  /\ pc = "update"
  /\ status' = [status EXCEPT ![job] = result]
  /\ saved' = [saved EXCEPT ![job] = state]
  /\ untried' = Without(untried)
  /\ retry' = IF result = "pending" THEN Append(Without(retry), job)
                                    ELSE Without(retry)
  /\ EndAttempt
  /\ UNCHANGED <<archive, tables, faults, history>>

\* The update fails and is only logged, or the process is restarted: the
\* attempt is lost, what it wrote to the tables is not.
Lose ==
  /\ pc # "idle"
  /\ Fault
  /\ EndAttempt
  /\ UNCHANGED <<queue, tables, history>>

-----------------------------------------------------------------------------
(* GetPastEvents: the first half of importClubEvents. *)

Book == archive[job]

\* The events of the pages of an archive after the first k.
PagesAfter(a, k) == UNION {ToSet(a[i]) : i \in k + 1..Len(a)}

Skip(events) == skipped' = [skipped EXCEPT ![job] = @ \cup events]

\* The token lookup fails: no event and no cursor is returned, and the state
\* takes that cursor.  A token that does not exist is another error than the
\* deadline.
TokenLookupFails ==
  /\ pc = "pastEvents"
  /\ Fault
  /\ \E r \in {"failed"} \cup IF TokenTimesOut THEN {"pending"} ELSE {} :
       Leave([state EXCEPT !.eventCursor = 0], r)
  /\ Skip(IF state.events = <<>> THEN {} ELSE PagesAfter(Book, state.eventCursor))
  /\ UNCHANGED <<queue, tables, unseen>>

GetPastEvents ==
  /\ pc = "pastEvents"
  /\ pc' = "page" /\ past' = <<>> /\ page' = state.eventCursor
  /\ UNCHANGED <<queue, tables, job, state, result, faults, history>>

\* The state takes the events read and the cursor GetPastEvents returns.
Gotten(events, cursor) ==
  [state EXCEPT !.events = @ \o events, !.eventCursor = cursor]

\* Mutant: the pages read before the failing request are dropped.
PageRequestDropsPages ==
  /\ pc = "page"
  /\ Fault
  /\ \E r \in {"pending", "failed"} : Leave([state EXCEPT !.eventCursor = page], r)
  /\ UNCHANGED <<queue, tables, history>>

\* The request for a page fails: the deadline postpones the rest, any other
\* error ends the job.
PageRequestFails ==
  /\ pc = "page"
  /\ Fault
  /\ \E r \in {"pending", "failed"} : Leave(Gotten(past, page), r)
  /\ UNCHANGED <<queue, tables, history>>

ReadPage ==
  /\ pc = "page"
  /\ page + 1 < Len(Book)
  /\ past' = past \o Book[page + 1]
  /\ page' = page + 1
  /\ UNCHANGED <<queue, tables, pc, job, state, result, faults, history>>

\* An attempt that got no event is over, whatever its state holds already.
EndOfPages(all) ==
  IF all = <<>> THEN Leave(Gotten(all, 0), "completed") ELSE Goto(Gotten(all, 0), "members")

ReadLastPage ==
  /\ pc = "page"
  /\ page + 1 = Len(Book)
  /\ EndOfPages(past \o Book[page + 1])
  /\ UNCHANGED <<queue, tables, faults, history>>

\* The answer holds errors and no page info, with or without the events of
\* its page: no page is said to follow, so the reading ends here.
ReadErroredPage ==
  /\ pc = "page"
  /\ GraphQLErrors /\ Fault
  /\ \/ EndOfPages(past) /\ Skip(PagesAfter(Book, page))
     \/ EndOfPages(past \o Book[page + 1]) /\ Skip(PagesAfter(Book, page + 1))
  /\ UNCHANGED <<queue, tables, unseen>>

-----------------------------------------------------------------------------
(* The loop over state.Events. *)

First == Head(state.events)

\* Mutant: the members read before the failing request are dropped.
MembersDropped ==
  /\ pc = "members"
  /\ IF First \in Broken THEN UNCHANGED faults ELSE Fault
  /\ \E k \in state.memberCursor..MemberPages - 1 :
       /\ First \in Broken => k = state.memberCursor
       /\ Leave([state EXCEPT !.memberCursor = k], "pending")
  /\ UNCHANGED <<queue, tables, history>>

\* Members arrive up to page k, then a request fails: whatever the error, the
\* job continues later, with the pages it has.
EventMembersFail ==
  /\ pc = "members"
  /\ IF First \in Broken THEN UNCHANGED faults ELSE Fault
  /\ \E k \in state.memberCursor..MemberPages - 1 :
       /\ First \in Broken => k = state.memberCursor
       /\ Leave([state EXCEPT !.members = @ \cup state.memberCursor + 1..k,
                              !.memberCursor = k], "pending")
  /\ UNCHANGED <<queue, tables, history>>

\* Mutant: the members read last replace those of the attempts before.
MembersOverwritten ==
  /\ pc = "members"
  /\ First \notin Broken
  /\ Goto([state EXCEPT !.members = state.memberCursor + 1..MemberPages,
                        !.memberCursor = 0], "insertMembers")
  /\ UNCHANGED <<queue, tables, faults, history>>

GetEventMembers ==
  /\ pc = "members"
  /\ First \notin Broken
  /\ Goto([state EXCEPT !.members = @ \cup state.memberCursor + 1..MemberPages,
                        !.memberCursor = 0], "insertMembers")
  /\ UNCHANGED <<queue, tables, faults, history>>

\* The pages up to k arrive; the answer to the next request holds errors and
\* no page info, which ends the list as if it were complete.
GetErroredMembers ==
  /\ pc = "members"
  /\ First \notin Broken
  /\ GraphQLErrors /\ Fault
  /\ \E k \in state.memberCursor..MemberPages - 1 :
       /\ Goto([state EXCEPT !.members = @ \cup state.memberCursor + 1..k,
                             !.memberCursor = 0], "insertMembers")
       /\ unseen' = [unseen EXCEPT ![First] = @ \cup k + 1..MemberPages]
  /\ UNCHANGED <<queue, tables, skipped>>

InsertMembers ==
  /\ pc = "insertMembers"
  /\ stored' = [stored EXCEPT ![First] = @ \cup state.members]
  /\ Goto(state, "insertEvents")
  /\ UNCHANGED <<queue, event, rsvps, faults, history>>

InsertEvents ==
  /\ pc = "insertEvents"
  /\ event' = event \cup {First}
  /\ Goto(state, "insertRSVPs")
  /\ UNCHANGED <<queue, stored, rsvps, faults, history>>

\* The event is done: it leaves the state, and its members with it.
InsertEventRSVPs ==
  /\ pc = "insertRSVPs"
  /\ rsvps' = rsvps \cup {First}
  /\ LET s == [state EXCEPT !.events = Tail(@), !.members = {}, !.memberCursor = 0]
     IN  IF s.events = <<>> THEN Leave(s, "completed") ELSE Goto(s, "members")
  /\ UNCHANGED <<queue, stored, event, faults, history>>

\* A statement of the loop fails, by the deadline too: the job is over.
InsertFails ==
  /\ pc \in {"insertMembers", "insertEvents", "insertRSVPs"}
  /\ Fault
  /\ Leave(state, "failed")
  /\ UNCHANGED <<queue, tables, history>>

Importer ==
  \/ GetNextPendingClubImportJob \/ UpdateClubImportJob
  \/ GetPastEvents \/ ReadPage \/ ReadLastPage \/ GetEventMembers
  \/ InsertMembers \/ InsertEvents \/ InsertEventRSVPs
  \/ EventMembersFail

Failure ==
  \/ TokenLookupFails \/ PageRequestFails \/ ReadErroredPage
  \/ GetErroredMembers \/ InsertFails \/ Lose

Next ==
  \/ \E j \in Jobs : InsertClubImportJob(j)
  \/ Importer
  \/ Failure

\* The goroutine loops for ever; failures are finitely many (MaxFaults).
Spec == Init /\ [][Next]_vars /\ WF_vars(Importer)

-----------------------------------------------------------------------------
(* Properties. *)

EventsOf(j) == PagesAfter(archive[j], 0)

\* The events a state still leads to: those it holds, and those of the pages
\* it has not read.
Ahead(j, s) ==
  ToSet(s.events) \cup
    IF s.events = <<>> \/ s.eventCursor # 0 THEN PagesAfter(archive[j], s.eventCursor) ELSE {}

\* Whatever failed and wherever the process stopped, each past event of a
\* club whose job is pending is imported or still ahead of the saved state,
\* unless a lost cursor or an answer with errors hid the page it is on.
NothingForgotten ==
  \A j \in Jobs :
    status[j] = "pending" => EventsOf(j) \subseteq rsvps \cup Ahead(j, saved[j]) \cup skipped[j]

\* A saved state holds the member pages before its cursor, so an attempt that
\* resumes in the middle of an event's members misses none of them.
Resumable(s) == s.members = 1..s.memberCursor

ResumesWithMembers ==
  \A j \in Jobs :
    status[j] = "pending" => Resumable(saved[j]) /\ saved[j].eventCursor < Len(archive[j])

\* Each pending job is in one of the queues, once, and nothing else is.
QueuedOnce ==
  /\ IsInjective(untried) /\ IsInjective(retry)
  /\ ToSet(untried) \cap ToSet(retry) = {}
  /\ ToSet(untried) \cup ToSet(retry) = {j \in Jobs : status[j] = "pending"}
  /\ \A j \in Jobs : status[j] = "none" => saved[j] = NewState

Inserts == {"insertMembers", "insertEvents", "insertRSVPs"}

\* What each statement of an attempt can rely on.
AttemptInv ==
  /\ pc # "idle" => IsFirst(untried) \/ IsFirst(retry)
  /\ pc # "idle" => state.eventCursor < Len(Book)
  /\ pc \in {"pastEvents", "page"} => state.events = <<>> \/ state.eventCursor # 0
  /\ pc = "page" => page \in state.eventCursor..Len(Book) - 1 /\ (page = 0 => past = <<>>)
  /\ pc \in {"members"} \cup Inserts => state.events # <<>> /\ state.eventCursor = 0
  /\ pc \in {"pastEvents", "page", "members"} \/ result = "pending" => Resumable(state)
  /\ pc \in Inserts => state.members \cup unseen[First] = Pages
  /\ pc \in {"insertEvents", "insertRSVPs"} => stored[First] \cup unseen[First] = Pages
  /\ pc = "insertRSVPs" => First \in event
  /\ pc = "update" <=> result # "none"

\* What a saved state has to hold for the next attempt, and what an attempt
\* makes of it.
SavedStateInv == TypeOK /\ QueuedOnce /\ ResumesWithMembers /\ AttemptInv

\* An event gets its RSVPs only with itself and all its members in place,
\* those excepted that were on pages an answer with errors hid.
ImportedEventIsComplete ==
  \A e \in rsvps : e \in event /\ stored[e] \cup unseen[e] = Pages

\* A completed job has imported every past event of its club.
CompletedIsImported ==
  \A j \in Jobs : status[j] = "completed" => EventsOf(j) \subseteq rsvps

\* What a completed job did not import was on a page that a lost cursor or an
\* answer with errors hid, or is left in the state the job was saved with.
CompletedIsAccounted ==
  \A j \in Jobs :
    status[j] = "completed" => EventsOf(j) \subseteq rsvps \cup skipped[j] \cup ToSet(saved[j].events)

\* The inductive invariant behind NothingForgotten and CompletedIsAccounted:
\* the events of the job under way are imported, in its state, in the pages
\* read in this attempt, in those still to be read, or were skipped.
CoverInv ==
  /\ NothingForgotten
  /\ CompletedIsAccounted
  /\ LET done == rsvps \cup skipped[job] \cup ToSet(state.events) IN
       /\ pc = "pastEvents" => EventsOf(job) \subseteq done \cup PagesAfter(Book, state.eventCursor)
       /\ pc = "page" => EventsOf(job) \subseteq done \cup ToSet(past) \cup PagesAfter(Book, page)
       /\ pc \in {"members"} \cup Inserts => EventsOf(job) \subseteq done
       /\ result = "completed" => EventsOf(job) \subseteq done
  /\ result = "pending" => EventsOf(job) \subseteq rsvps \cup skipped[job] \cup Ahead(job, state)

\* A job whose events Campfire can return ends, however many jobs before it
\* in the queue are postponed for ever.
HealthyJobEnds ==
  \A j \in Jobs :
    (status[j] = "pending" /\ EventsOf(j) \cap Broken = {})
      ~> status[j] \in {"completed", "failed"}
=============================================================================
