------------------------------ MODULE EventSync ------------------------------
(***************************************************************************)
(* The table events and its RSVPs against Campfire: the importer of future *)
(* events (server/event_importer.go), the updater of unfinished events     *)
(* (server/event_updater.go), and the requests that import an event        *)
(* (server/web/tracker/event_import.go, club_import.go, club_event_refresh *)
(* .go and fetchEvent of raffle.go).  All of them write the same rows, in  *)
(* separate statements, from copies of the event they fetched before.      *)
(*                                                                         *)
(* An event on Campfire has a version, which stands for its details and    *)
(* its RSVPs; a row holds the version its details were copied from, and a  *)
(* row of event_rsvps the version its member's answer was.  RSVPs are      *)
(* upserted and never deleted: those of an older version stay where the    *)
(* newer one has none.  All events belong to one club, and time is         *)
(* what the order of event_last_auto_imported_at tells of it: the updater  *)
(* may wait any time before its next step, so the hour a row must be old   *)
(* has always passed.                                                      *)
(***************************************************************************)
EXTENDS Integers, Sequences, FiniteSets, SequencesExt

CONSTANTS
  Events,
  Requests,    \* goroutines serving requests that import an event
  Unlisted,    \* events whose creator is not among the members and RSVPs
  Failing,     \* events with a row that Campfire neither lists nor returns
               \* any more, nor says that it does not have
  Members,     \* members who answer
  Answered,    \* who has an RSVP in each version of an event
  MaxVersion,  \* bound on the versions of an event
  MaxFaults    \* bound on failed fetches and statements and on restarts

ASSUME SyncAssumption ==
  /\ Events # {}
  /\ Unlisted \subseteq Events
  /\ Failing \subseteq Events /\ IsFiniteSet(Failing)
  /\ MaxVersion \in Nat \ {0}
  /\ Answered \in [1..MaxVersion -> SUBSET Members]
  /\ MaxFaults \in Nat
  /\ Requests \cap {"importer", "updater"} = {}

VARIABLES
  version,   \* version of each event on Campfire, 0 before it is published
  ended,     \* events whose end time has passed
  gone,      \* events deleted on Campfire
  auto,      \* club_auto_event_import of the club
  stored,    \* version of the details in the table events, 0 without a row
  finished,  \* rows with event_finished
  answers,   \* event_rsvps: version of each member's answer, 0 without one
  order,     \* rows by event_last_auto_imported_at, oldest first
  creators,  \* events whose creator is in the table members
  pc,        \* the next statement of each goroutine
  work,      \* what a goroutine works on
  listed,    \* future events the importer has still to look at, by version
  faults     \* failures so far

campfire == <<version, ended, gone>>
rows == <<stored, finished, answers, order>>
locals == <<pc, work, listed>>
vars == <<campfire, auto, rows, creators, locals, faults>>

Goroutines == Requests \cup {"importer", "updater"}
Versions == 0..MaxVersion

Statements == {"idle", "list", "fetch", "members", "events", "rsvps", "delete", "stamp"}

\* The RSVPs of an event, and those of a version of it on Campfire.
Answers == [Members -> Versions]

NoAnswers == [m \in Members |-> 0]

AnswersOf(v) == [m \in Members |-> IF v # 0 /\ m \in Answered[v] THEN v ELSE 0]

\* event is the version the goroutine writes, answers the RSVPs, ended the value
\* of event_finished; bulk tells bulkProcessEvents from ProcessEventImport
\* and again that bulkProcessEvents is still to come.
Work == [target : Events, event : Versions, answers : Answers,
         ended : BOOLEAN, bulk : BOOLEAN, again : BOOLEAN]

NoWork == [target |-> CHOOSE e \in Events : TRUE, event |-> 0, answers |-> NoAnswers,
           ended |-> FALSE, bulk |-> FALSE, again |-> FALSE]

Nothing == [e \in Events |-> 0]

\* All types but that of the order.
Typed ==
  /\ version \in [Events -> Versions]
  /\ ended \subseteq Events /\ gone \subseteq Events
  /\ auto \in BOOLEAN
  /\ stored \in [Events -> Versions]
  /\ finished \subseteq Events
  /\ answers \in [Events -> Answers]
  /\ creators \subseteq Events
  /\ pc \in [Goroutines -> Statements]
  /\ work \in [Goroutines -> Work]
  /\ listed \in [Events -> Versions]
  /\ faults \in 0..MaxFaults

\* The rows and their order by stamp are the same set of events.
TypeOK ==
  /\ Typed
  /\ IsInjective(order) /\ ToSet(order) = {e \in Events : stored[e] # 0}

Init ==
  /\ version = [e \in Events |-> IF e \in Failing THEN 1 ELSE 0]
  /\ ended = {} /\ gone = {}
  /\ auto = TRUE
  /\ stored = version
  /\ finished = {}
  /\ answers = [e \in Events |-> NoAnswers]
  /\ order \in Bijection(1..Cardinality(Failing), Failing)
  /\ creators = Failing
  /\ pc = [g \in Goroutines |-> "idle"]
  /\ work = [g \in Goroutines |-> NoWork]
  /\ listed = Nothing
  /\ faults = 0

Fault == faults < MaxFaults /\ faults' = faults + 1

Returned(e) == version[e] # 0 /\ e \notin gone \cup Failing

-----------------------------------------------------------------------------
(* Campfire, and the administrator of the club. *)

\* An event is published, edited or answered.
Change(e) ==
  /\ e \notin gone \cup Failing
  /\ version[e] < MaxVersion
  /\ version' = [version EXCEPT ![e] = @ + 1]
  /\ UNCHANGED <<ended, gone, auto, rows, creators, locals, faults>>

Ends(e) ==
  /\ Returned(e) /\ e \notin ended
  /\ ended' = ended \cup {e}
  /\ UNCHANGED <<version, gone, auto, rows, creators, locals, faults>>

Disappears(e) ==
  /\ Returned(e)
  /\ gone' = gone \cup {e}
  /\ UNCHANGED <<version, ended, auto, rows, creators, locals, faults>>

UpdateClub ==
  /\ auto' = ~auto
  /\ UNCHANGED <<campfire, rows, creators, locals, faults>>

-----------------------------------------------------------------------------
(* Control of a goroutine. *)

Goto(g, statement) ==
  /\ pc' = [pc EXCEPT ![g] = statement]
  /\ UNCHANGED <<work, listed>>

Take(g, statement, w) ==
  /\ pc' = [pc EXCEPT ![g] = statement]
  /\ work' = [work EXCEPT ![g] = w]
  /\ UNCHANGED listed

\* The import of the target is over, well or not: the updater stamps it, the
\* importer turns to the next event, a request answers.
Over(g) ==
  /\ pc' = [pc EXCEPT ![g] = CASE g = "updater" -> "stamp"
                               [] g = "importer" -> "list"
                               [] OTHER -> "idle"]
  /\ work' = [work EXCEPT ![g] = IF g = "updater" THEN @ ELSE NoWork]
  /\ UNCHANGED listed

Fetched(e, v) == [NoWork EXCEPT !.target = e, !.event = v, !.answers = AnswersOf(v)]

\* The order of the other rows: a row has one place in it, or none.
Others(e) ==
  IF e \in ToSet(order) THEN RemoveAt(order, CHOOSE i \in DOMAIN order : order[i] = e)
                        ELSE order

-----------------------------------------------------------------------------
(* The import of an event that was fetched. *)

\* The members of the event are stored, and event_finished is computed.
\* bulkProcessEvents leaves out the creator of the event.
InsertMembers(g) ==
  /\ pc[g] = "members"
  /\ LET e == work[g].target IN
       /\ creators' = IF work[g].bulk /\ e \in Unlisted THEN creators
                                                        ELSE creators \cup {e}
       /\ Take(g, "events", [work[g] EXCEPT !.ended = e \in ended])
  /\ UNCHANGED <<campfire, auto, rows, faults>>

\* event_creator_id references members: without the creator the statement
\* fails and the import is over.
InsertEvents(g) ==
  /\ pc[g] = "events"
  /\ LET e == work[g].target IN
       IF e \in creators
         THEN /\ stored' = [stored EXCEPT ![e] = work[g].event]
              /\ finished' = IF work[g].ended THEN finished \cup {e}
                                              ELSE finished \ {e}
              /\ order' = Append(Others(e), e)
              /\ Goto(g, "rsvps")
         ELSE /\ Over(g)
              /\ UNCHANGED <<stored, finished, order>>
  /\ UNCHANGED <<campfire, auto, answers, creators, faults>>

\* The rows of event_rsvps after an upsert of the list.
Upserted(e, list) == [m \in Members |-> IF list[m] # 0 THEN list[m] ELSE answers[e][m]]

\* event_rsvp_event_id references events: the statement fails when the row
\* was deleted meanwhile.  No statement is run for an event without RSVPs.
InsertEventRSVPs(g) ==
  /\ pc[g] = "rsvps"
  /\ LET e == work[g].target IN
       IF stored[e] # 0 \/ work[g].answers = NoAnswers
         THEN /\ answers' = [answers EXCEPT ![e] = Upserted(e, work[g].answers)]
              /\ IF work[g].again
                   THEN Take(g, "members", [work[g] EXCEPT !.again = FALSE, !.bulk = TRUE])
                   ELSE Over(g)
         ELSE UNCHANGED answers /\ Over(g)
  /\ UNCHANGED <<campfire, auto, stored, finished, order, creators, faults>>

\* A statement of the import fails.
ImportFails(g) ==
  /\ pc[g] \in {"members", "events", "rsvps"}
  /\ Fault
  /\ Over(g)
  /\ UNCHANGED <<campfire, auto, rows, creators>>

-----------------------------------------------------------------------------
(* The importer. *)

\* GetFutureEvents: the events as they are now, to be imported one by one.  A
\* page answered with GraphQL errors reads as the last one, without an error:
\* the list is short.
GetFutureEvents ==
  /\ pc["importer"] = "idle"
  /\ auto
  /\ LET future == {e \in Events \ ended : Returned(e)} IN
       \E found \in SUBSET future \ {{}} :
         /\ IF found = future THEN UNCHANGED faults ELSE Fault
         /\ listed' = [e \in Events |-> IF e \in found THEN version[e] ELSE 0]
  /\ pc' = [pc EXCEPT !["importer"] = "list"]
  /\ UNCHANGED <<campfire, auto, rows, creators, work>>

\* An event that has a row is skipped; a lookup that fails counts as no row.
SkipEvent ==
  /\ pc["importer"] = "list"
  /\ \E e \in Events :
       /\ listed[e] # 0 /\ stored[e] # 0
       /\ listed' = [listed EXCEPT ![e] = 0]
  /\ UNCHANGED <<campfire, auto, rows, creators, pc, work, faults>>

\* The members are requested now; the RSVPs came with the list of events.  For
\* an event gone since it was listed the answer may hold errors, which end the
\* list of members like its last page: the event is stored all the same, with
\* placeholders for the members.
ImportEvent ==
  /\ pc["importer"] = "list"
  /\ \E e \in Events :
       /\ listed[e] # 0
       /\ IF stored[e] = 0 THEN UNCHANGED faults ELSE Fault
       /\ listed' = [listed EXCEPT ![e] = 0]
       /\ pc' = [pc EXCEPT !["importer"] = "members"]
       /\ work' = [work EXCEPT !["importer"] = Fetched(e, listed[e])]
  /\ UNCHANGED <<campfire, auto, rows, creators>>

\* All events are done; or the request for the members of one fails, as it
\* may for an event that is gone, and the others wait for the next time.
ImportActiveClubEventsReturns ==
  /\ pc["importer"] = "list"
  /\ \/ listed = Nothing /\ UNCHANGED faults
     \/ /\ \E e \in gone : listed[e] # 0 /\ stored[e] = 0
        /\ UNCHANGED faults
     \/ listed # Nothing /\ Fault
  /\ listed' = Nothing
  /\ pc' = [pc EXCEPT !["importer"] = "idle"]
  /\ UNCHANGED <<campfire, auto, rows, creators, work>>

Importer ==
  \/ GetFutureEvents \/ SkipEvent \/ ImportEvent
  \/ ImportActiveClubEventsReturns
  \/ InsertMembers("importer") \/ InsertEvents("importer")
  \/ InsertEventRSVPs("importer") \/ ImportFails("importer")

-----------------------------------------------------------------------------
(* The updater. *)

Unfinished == {e \in Events : stored[e] # 0 /\ e \notin finished}

Before(e, f) == \E i, j \in DOMAIN order : i < j /\ order[i] = e /\ order[j] = f

\* The unfinished row stamped first.
GetNextUpdateEvent ==
  /\ pc["updater"] = "idle"
  /\ auto
  /\ \E e \in Unfinished :
       /\ \A f \in Unfinished \ {e} : Before(e, f)
       /\ Take("updater", "fetch", [NoWork EXCEPT !.target = e])
  /\ UNCHANGED <<campfire, auto, rows, creators, faults>>

\* Mutant: whatever the error, the event is deleted.
DeleteOnError ==
  /\ pc["updater"] = "fetch"
  /\ LET e == work["updater"].target IN
       \/ /\ e \notin gone
          /\ Take("updater", "members", Fetched(e, version[e]))
          /\ UNCHANGED faults
       \/ /\ IF e \in gone THEN UNCHANGED faults ELSE Fault
          /\ Goto("updater", "delete")
  /\ UNCHANGED <<campfire, auto, rows, creators>>

\* Mutant: an event that is gone is an error like the others.
KeepGone ==
  /\ pc["updater"] = "fetch"
  /\ LET e == work["updater"].target IN
       \/ /\ e \notin gone
          /\ Take("updater", "members", Fetched(e, version[e]))
          /\ UNCHANGED faults
       \/ /\ IF e \in gone THEN UNCHANGED faults ELSE Fault
          /\ Goto("updater", "stamp")
  /\ UNCHANGED <<campfire, auto, rows, creators>>

\* GetEvent: Campfire knows the event, or does not and it is deleted, or the
\* answer is an error, every time for some events.  An error that takes until
\* the deadline leaves no time for the stamp, which fails too (StampInTime in
\* CampfireClient says when).
UpdaterGetEvent ==
  /\ pc["updater"] = "fetch"
  /\ LET e == work["updater"].target IN
       \/ /\ e \notin Failing
          /\ IF e \in gone THEN Goto("updater", "delete")
             ELSE Take("updater", "members", Fetched(e, version[e]))
          /\ UNCHANGED faults
       \/ e \in Failing /\ Goto("updater", "stamp") /\ UNCHANGED faults
       \/ /\ Fault
          /\ Goto("updater", "stamp") \/ Take("updater", "idle", NoWork)
  /\ UNCHANGED <<campfire, auto, rows, creators>>

\* A deletion that fails is only logged.
DeleteEvent ==
  /\ pc["updater"] = "delete"
  /\ LET e == work["updater"].target IN
       \/ /\ stored' = [stored EXCEPT ![e] = 0]
          /\ answers' = [answers EXCEPT ![e] = NoAnswers]
          /\ finished' = finished \ {e}
          /\ order' = Others(e)
          /\ UNCHANGED faults
       \/ Fault /\ UNCHANGED rows
  /\ Goto("updater", "stamp")
  /\ UNCHANGED <<campfire, auto, creators>>

\* Mutant: the row keeps its stamp, and with it the next turn.
StampLost ==
  /\ pc["updater"] = "stamp"
  /\ UNCHANGED <<order, faults>>
  /\ Take("updater", "idle", NoWork)
  /\ UNCHANGED <<campfire, auto, stored, finished, answers, creators>>

\* UpdateEventLastAutoImported, whatever became of the update.
UpdateEventLastAutoImported ==
  /\ pc["updater"] = "stamp"
  /\ LET e == work["updater"].target IN
       \/ /\ order' = IF stored[e] = 0 THEN order
                      ELSE Append(Others(e), e)
          /\ UNCHANGED faults
       \/ Fault /\ UNCHANGED order
  /\ Take("updater", "idle", NoWork)
  /\ UNCHANGED <<campfire, auto, stored, finished, answers, creators>>

Updater ==
  \/ GetNextUpdateEvent \/ UpdaterGetEvent \/ DeleteEvent
  \/ UpdateEventLastAutoImported
  \/ InsertMembers("updater") \/ InsertEvents("updater")
  \/ InsertEventRSVPs("updater") \/ ImportFails("updater")

-----------------------------------------------------------------------------
(* The requests. *)

\* fetchEvent looks at the row first.  A finished event is read from the
\* database; an event with a row is processed once by fetchEvent and again by
\* bulkProcessEvents; a raffle or an export only does the former.
ImportRequest(g, e) ==
  /\ pc[g] = "idle"
  /\ \/ /\ e \in finished
        /\ Take(g, "members", [Fetched(e, stored[e]) EXCEPT
                                 !.answers = answers[e], !.bulk = TRUE])
     \/ /\ e \notin finished
        /\ Take(g, "fetch", [NoWork EXCEPT !.target = e, !.bulk = stored[e] = 0,
                                           !.again = stored[e] # 0])
     \/ /\ stored[e] # 0 /\ e \notin finished
        /\ Take(g, "fetch", [NoWork EXCEPT !.target = e])
  /\ UNCHANGED <<campfire, auto, rows, creators, faults>>

\* A request that cannot fetch its event answers with the error.
RequestGetEvent(g) ==
  /\ pc[g] = "fetch"
  /\ LET e == work[g].target IN
       \/ /\ Returned(e)
          /\ Take(g, "members", [work[g] EXCEPT !.event = version[e],
                                                !.answers = AnswersOf(version[e])])
          /\ UNCHANGED faults
       \/ ~Returned(e) /\ Over(g) /\ UNCHANGED faults
       \/ Fault /\ Over(g)
  /\ UNCHANGED <<campfire, auto, rows, creators>>

\* TrackerClubEventRefresh fetches an event that must not have ended.
RefreshRequest(g, e) ==
  /\ pc[g] = "idle"
  /\ Returned(e) /\ e \notin ended
  /\ Take(g, "members", [Fetched(e, version[e]) EXCEPT !.bulk = TRUE])
  /\ UNCHANGED <<campfire, auto, rows, creators, faults>>

Request(g) ==
  \/ \E e \in Events : ImportRequest(g, e) \/ RefreshRequest(g, e)
  \/ RequestGetEvent(g)
  \/ InsertMembers(g) \/ InsertEvents(g) \/ InsertEventRSVPs(g) \/ ImportFails(g)

\* The process is restarted: every goroutine starts over.
Restart ==
  /\ \E g \in Goroutines : pc[g] # "idle"
  /\ Fault
  /\ pc' = [g \in Goroutines |-> "idle"]
  /\ work' = [g \in Goroutines |-> NoWork]
  /\ listed' = Nothing
  /\ UNCHANGED <<campfire, auto, rows, creators>>

Next ==
  \/ \E e \in Events : Change(e) \/ Ends(e) \/ Disappears(e)
  \/ UpdateClub
  \/ Importer \/ Updater
  \/ \E g \in Requests : Request(g)
  \/ Restart

\* The two background goroutines loop for ever.  Nobody has to send a
\* request, nor does a request have to come to an end.
Spec == Init /\ [][Next]_vars /\ WF_vars(Importer) /\ WF_vars(Updater)

-----------------------------------------------------------------------------
(* Properties. *)

\* An event is deleted only when Campfire has deleted it.
OnlyGoneDeleted ==
  [][\A e \in Events : stored[e] # 0 /\ stored'[e] = 0 => e \in gone]_vars

\* Between the two statements that store an event and its RSVPs, the row is
\* lost only to the deletion of an event that is gone.
RowAwaitsRSVPs ==
  \A g \in Goroutines :
    pc[g] = "rsvps" /\ stored[work[g].target] = 0 => work[g].target \in gone

\* A row, or an event that is listed, was published; a finished row exists.
RowsPublished ==
  /\ \A e \in Events : stored[e] # 0 \/ listed[e] # 0 => version[e] # 0
  /\ \A e \in finished : stored[e] # 0

\* What goroutine g holds was published, and only the updater deletes and
\* stamps, the former what is gone.
HoldsPublished(g) ==
  /\ pc[g] \in {"members", "events", "rsvps"} =>
       work[g].event # 0 /\ version[work[g].target] # 0
  /\ pc[g] \in {"delete", "stamp"} => g = "updater"
  /\ pc[g] = "delete" => work[g].target \in gone
  /\ pc[g] = "fetch" /\ g = "updater" => version[work[g].target] # 0

\* The inductive invariant behind OnlyGoneDeleted and RowAwaitsRSVPs.
Published ==
  /\ RowsPublished
  /\ RowAwaitsRSVPs
  /\ \A g \in Goroutines : HoldsPublished(g)

\* Rows, their order by stamp and what the goroutines hold fit together,
\* whatever was deleted, restarted or failed in between.
SyncInv == TypeOK /\ Published

\* However imports, updates, deletions and restarts interleave: once Campfire
\* is quiet and the club stays on automatic import, an unfinished row is still
\* there only if its event is, and then holds its last version and each of the
\* RSVPs that version has.  An event whose updates always fail keeps none of
\* the others from their turn.
Settled(e) ==
  stored[e] # 0 /\ e \notin finished \cup Failing =>
    /\ e \notin gone /\ stored[e] = version[e]
    /\ \A m \in Answered[version[e]] : answers[e][m] = version[e]

Settles == <>[]auto => \A e \in Events : <>[]Settled(e)
=============================================================================
