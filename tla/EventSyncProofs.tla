--------------------------- MODULE EventSyncProofs ---------------------------
(***************************************************************************)
(* Theorems about EventSync, for any events, requests and bounds: the      *)
(* invariant Published, that an event is deleted only when Campfire deleted  *)
(* it, and that a row waiting for its RSVPs is there unless its event is   *)
(* gone.                                                                   *)
(***************************************************************************)
EXTENDS EventSync, FiniteSetTheorems, TLAPS

Fetching == {"members", "events", "rsvps"}

\* The types of what a goroutine keeps to itself.
LocalsTyped ==
  /\ pc \in [Goroutines -> Statements]
  /\ work \in [Goroutines -> Work]
  /\ listed \in [Events -> Versions]

\* The answers of a version are answers, of the members who have one.
LEMMA AnswersTyped ==
  /\ NoAnswers \in Answers
  /\ \A v \in Versions : AnswersOf(v) \in Answers
<1>1. 0 \in Versions
  BY SyncAssumption DEF Versions
<1> QED BY <1>1 DEF NoAnswers, Answers, AnswersOf

LEMMA NoWorkTyped == NoWork \in Work
<1>1. 0 \in Versions
  BY SyncAssumption DEF Versions
<1>2. (CHOOSE e \in Events : TRUE) \in Events
  BY SyncAssumption
<1> QED BY <1>1, <1>2, AnswersTyped DEF NoWork, Work

\* Several components of a work can be set at once.
LEMMA FetchTyped ==
  ASSUME NEW w \in Work, NEW e \in Events, NEW u \in Versions, NEW a \in Answers
  PROVE  [w EXCEPT !.target = e, !.event = u, !.answers = a] \in Work
  BY DEF Work

LEMMA FetchedTyped ==
  ASSUME NEW e \in Events, NEW v \in Versions
  PROVE  Fetched(e, v) \in Work
  BY NoWorkTyped, AnswersTyped, FetchTyped DEF Fetched

\* The flags of a work can be set.
LEMMA FlagsTyped ==
  ASSUME NEW w \in Work, NEW b \in BOOLEAN
  PROVE  /\ [w EXCEPT !.ended = b] \in Work
         /\ [w EXCEPT !.bulk = b] \in Work
         /\ [w EXCEPT !.again = b] \in Work
  BY DEF Work

\* And so can several of its components at once.
LEMMA TargetTyped ==
  ASSUME NEW w \in Work, NEW e \in Events
  PROVE  /\ [w EXCEPT !.target = e] \in Work
         /\ \A b, c \in BOOLEAN :
              [w EXCEPT !.target = e, !.bulk = b, !.again = c] \in Work
  BY DEF Work

LEMMA VersionsTyped ==
  ASSUME NEW w \in Work, NEW u \in Versions, NEW a \in Answers
  PROVE  /\ [w EXCEPT !.event = u, !.answers = a] \in Work
         /\ [w EXCEPT !.answers = a, !.bulk = TRUE] \in Work
  BY DEF Work

LEMMA OverTyped ==
  ASSUME LocalsTyped, NEW g \in Goroutines, Over(g)
  PROVE  LocalsTyped'
<1>1. work' \in [Goroutines -> Work]
  BY NoWorkTyped DEF Over, LocalsTyped
<1>2. pc' \in [Goroutines -> Statements]
  BY DEF Over, LocalsTyped, Statements
<1>3. QED
  BY <1>1, <1>2 DEF Over, LocalsTyped

LEMMA TakeTyped ==
  ASSUME LocalsTyped, NEW g \in Goroutines, NEW s \in Statements,
         NEW w \in Work, Take(g, s, w)
  PROVE  LocalsTyped'
  BY DEF Take, LocalsTyped

LEMMA GotoTyped ==
  ASSUME LocalsTyped, NEW g \in Goroutines, NEW s \in Statements, Goto(g, s)
  PROVE  LocalsTyped'
  BY DEF Goto, LocalsTyped

\* The statements every import goes through keep the types.
LEMMA ImportTyped ==
  ASSUME Typed, NEW g \in Goroutines,
         InsertMembers(g) \/ InsertEvents(g) \/ InsertEventRSVPs(g) \/ ImportFails(g)
  PROVE  Typed'
<1>0. LocalsTyped
  BY DEF Typed, LocalsTyped
<1>w. work[g] \in Work
  BY <1>0 DEF LocalsTyped
<1>e. work[g].target \in Events /\ work[g].event \in Versions
        /\ work[g].answers \in Answers
  BY <1>w DEF Work
<1>s. {"members", "events", "rsvps"} \subseteq Statements
  BY DEF Statements
<1>1. CASE InsertMembers(g)
  <2> DEFINE b == work[g].target \in ended
  <2>0. b \in BOOLEAN
    OBVIOUS
  <2>1. [work[g] EXCEPT !.ended = b] \in Work
    <3> HIDE DEF b
    <3> QED BY <1>w, <2>0, FlagsTyped
  <2>2. LocalsTyped'
    BY <1>0, <1>1, <1>s, <2>1, TakeTyped DEF InsertMembers
  <2>3. creators' \subseteq Events
    BY <1>1, <1>e DEF InsertMembers, Typed
  <2>4. QED
    BY <1>1, <2>2, <2>3 DEF InsertMembers, Typed, LocalsTyped, campfire, rows
<1>2. CASE InsertEvents(g)
  <2>1. LocalsTyped'
    BY <1>0, <1>2, <1>s, GotoTyped, OverTyped DEF InsertEvents
  <2>2. stored' \in [Events -> Versions] /\ finished' \subseteq Events
    BY <1>2, <1>e DEF InsertEvents, Typed
  <2>3. QED
    BY <1>2, <2>1, <2>2 DEF InsertEvents, Typed, LocalsTyped, campfire
<1>3. CASE InsertEventRSVPs(g)
  <2>1. [work[g] EXCEPT !.again = FALSE, !.bulk = TRUE] \in Work
    BY <1>w DEF Work
  <2>2. LocalsTyped'
    BY <1>0, <1>3, <1>s, <2>1, TakeTyped, OverTyped DEF InsertEventRSVPs
  <2>3. answers' \in [Events -> Answers]
    <3> DEFINE list == work[g].answers
               up == Upserted(work[g].target, list)
    <3>1. list \in Answers /\ answers[work[g].target] \in Answers
      BY <1>e DEF Typed
    <3>2. up \in Answers
      BY <3>1 DEF Upserted, Answers
    <3>3. answers' = [answers EXCEPT ![work[g].target] = up] \/ UNCHANGED answers
      BY <1>3 DEF InsertEventRSVPs
    <3> HIDE DEF list, up
    <3> QED BY <3>2, <3>3 DEF Typed
  <2>4. QED
    BY <1>3, <2>2, <2>3 DEF InsertEventRSVPs, Typed, LocalsTyped, campfire
<1>4. CASE ImportFails(g)
  <2>1. LocalsTyped'
    BY <1>0, <1>4, OverTyped DEF ImportFails
  <2>2. faults' \in 0..MaxFaults
    BY <1>4, SyncAssumption DEF ImportFails, Fault, Typed
  <2>3. QED
    BY <1>4, <2>1, <2>2 DEF ImportFails, Typed, LocalsTyped, campfire, rows
<1>5. QED
  BY <1>1, <1>2, <1>3, <1>4

\* All variables but the locals.
SharedTyped ==
  /\ version \in [Events -> Versions]
  /\ ended \subseteq Events /\ gone \subseteq Events
  /\ auto \in BOOLEAN
  /\ stored \in [Events -> Versions]
  /\ finished \subseteq Events
  /\ answers \in [Events -> Answers]
  /\ creators \subseteq Events
  /\ faults \in 0..MaxFaults

\* Versions, rows, and what goroutines hold are well typed in every state.
THEOREM SyncTypeCorrect == Spec => []Typed
<1>1. Init => Typed
  <2> SUFFICES ASSUME Init PROVE Typed
    OBVIOUS
  <2>1. answers \in [Events -> Answers]
    BY AnswersTyped DEF Init
  <2>2. work \in [Goroutines -> Work]
    BY NoWorkTyped DEF Init
  <2> QED BY <2>1, <2>2, SyncAssumption
          DEF Init, Typed, Nothing, Versions, Goroutines, Statements
<1>2. Typed /\ [Next]_vars => Typed'
  <2> SUFFICES ASSUME Typed, [Next]_vars PROVE Typed'
    OBVIOUS
  <2>0. LocalsTyped /\ SharedTyped
    BY DEF Typed, LocalsTyped, SharedTyped
  <2>q. SharedTyped' /\ LocalsTyped' => Typed'
    BY DEF Typed, LocalsTyped, SharedTyped
  <2>f. Fault => faults' \in 0..MaxFaults
    BY <2>0, SyncAssumption DEF Fault, SharedTyped
  <2>g. /\ "importer" \in Goroutines /\ "updater" \in Goroutines
        /\ Requests \subseteq Goroutines
    BY DEF Goroutines
  <2>1. ASSUME NEW e \in Events, Change(e) \/ Ends(e) \/ Disappears(e)
        PROVE Typed'
    <3>1. version' \in [Events -> Versions]
      <4>1. version \in [Events -> Versions]
        BY <2>0 DEF SharedTyped
      <4>2. \/ version[e] < MaxVersion /\ version' = [version EXCEPT ![e] = @ + 1]
            \/ UNCHANGED version
        BY <2>1 DEF Change, Ends, Disappears
      <4> QED BY <4>1, <4>2, SyncAssumption DEF Versions
    <3>2. QED
      BY <2>1, <3>1 DEF Change, Ends, Disappears, Typed, rows, locals
  <2>2. CASE UpdateClub
    BY <2>2 DEF UpdateClub, Typed, campfire, rows, locals
  <2>3. CASE Importer
    <3>1. CASE GetFutureEvents \/ SkipEvent \/ ImportActiveClubEventsReturns
      <4>1. listed' \in [Events -> Versions]
        <5>1. 0 \in Versions
          BY SyncAssumption DEF Versions
        <5> QED BY <2>0, <3>1, <5>1
                DEF GetFutureEvents, SkipEvent, ImportActiveClubEventsReturns,
                    SharedTyped, LocalsTyped, Nothing
      <4>2. LocalsTyped'
        BY <2>0, <2>g, <3>1, <4>1
           DEF GetFutureEvents, SkipEvent, ImportActiveClubEventsReturns,
               LocalsTyped, Statements
      <4>3. SharedTyped'
        BY <2>0, <2>f, <3>1
           DEF GetFutureEvents, SkipEvent, ImportActiveClubEventsReturns,
               SharedTyped, campfire, rows
      <4>4. QED
        BY <2>q, <4>2, <4>3
    <3>2. CASE ImportEvent
      <4>1. PICK e \in Events :
              /\ listed' = [listed EXCEPT ![e] = 0]
              /\ pc' = [pc EXCEPT !["importer"] = "members"]
              /\ work' = [work EXCEPT !["importer"] = Fetched(e, listed[e])]
        BY <3>2 DEF ImportEvent
      <4>2. Fetched(e, listed[e]) \in Work
        BY <2>0, FetchedTyped DEF LocalsTyped
      <4>3. LocalsTyped'
        BY <2>0, <2>g, <4>1, <4>2, SyncAssumption
           DEF LocalsTyped, Statements, Versions
      <4>4. SharedTyped'
        BY <2>0, <2>f, <3>2 DEF ImportEvent, SharedTyped, campfire, rows
      <4>5. QED
        BY <2>q, <4>3, <4>4
    <3>3. QED
      BY <2>3, <2>g, <3>1, <3>2, ImportTyped DEF Importer
  <2>4. CASE Updater
    <3>1. CASE GetNextUpdateEvent
      <4>1. PICK e \in Events : Take("updater", "fetch", [NoWork EXCEPT !.target = e])
        BY <3>1 DEF GetNextUpdateEvent, Unfinished
      <4>2. [NoWork EXCEPT !.target = e] \in Work
        BY NoWorkTyped, TargetTyped
      <4>3. LocalsTyped'
        BY <2>0, <2>g, <4>1, <4>2, TakeTyped DEF Statements
      <4>4. SharedTyped'
        BY <2>0, <3>1 DEF GetNextUpdateEvent, SharedTyped, campfire, rows
      <4>5. QED
        BY <2>q, <4>3, <4>4
    <3>2. CASE UpdaterGetEvent
      <4> DEFINE e == work["updater"].target
      <4>1. e \in Events /\ version[e] \in Versions
        BY <2>0, <2>g DEF LocalsTyped, SharedTyped, Work
      <4>2. Fetched(e, version[e]) \in Work
        BY <4>1, FetchedTyped
      <4>3. \/ Take("updater", "idle", NoWork)
            \/ Goto("updater", "delete")
            \/ Take("updater", "members", Fetched(e, version[e]))
            \/ Goto("updater", "stamp")
        BY <3>2 DEF UpdaterGetEvent
      <4> HIDE DEF e
      <4>4. LocalsTyped'
        BY <2>0, <2>g, <4>2, <4>3, NoWorkTyped, TakeTyped, GotoTyped DEF Statements
      <4>5. SharedTyped'
        BY <2>0, <2>f, <3>2 DEF UpdaterGetEvent, SharedTyped, campfire, rows
      <4>6. QED
        BY <2>q, <4>4, <4>5
    <3>3. CASE DeleteEvent
      <4>1. LocalsTyped'
        BY <2>0, <2>g, <3>3, GotoTyped DEF DeleteEvent, Statements
      <4>2. SharedTyped'
        <5>1. stored' \in [Events -> Versions] /\ finished' \subseteq Events
          BY <2>0, <3>3, SyncAssumption DEF DeleteEvent, SharedTyped, rows, Versions
        <5>2. answers' \in [Events -> Answers]
          BY <2>0, <3>3, AnswersTyped DEF DeleteEvent, SharedTyped, rows
        <5> QED BY <2>0, <2>f, <3>3, <5>1, <5>2
                DEF DeleteEvent, SharedTyped, campfire
      <4>3. QED
        BY <2>q, <4>1, <4>2
    <3>4. CASE UpdateEventLastAutoImported
      <4>1. LocalsTyped'
        BY <2>0, <2>g, <3>4, NoWorkTyped, TakeTyped
           DEF UpdateEventLastAutoImported, Statements
      <4>2. SharedTyped'
        BY <2>0, <2>f, <3>4 DEF UpdateEventLastAutoImported, SharedTyped, campfire
      <4>3. QED
        BY <2>q, <4>1, <4>2
    <3>5. QED
      BY <2>4, <2>g, <3>1, <3>2, <3>3, <3>4, ImportTyped DEF Updater
  <2>5. ASSUME NEW g \in Requests, Request(g) PROVE Typed'
    <3>g. g \in Goroutines
      BY <2>g
    <3>1. ASSUME NEW e \in Events, ImportRequest(g, e) PROVE Typed'
      <4>1. /\ [Fetched(e, stored[e]) EXCEPT !.answers = answers[e], !.bulk = TRUE] \in Work
            /\ [NoWork EXCEPT !.target = e, !.bulk = stored[e] = 0,
                                           !.again = stored[e] # 0] \in Work
            /\ [NoWork EXCEPT !.target = e] \in Work
        <5>1. stored[e] \in Versions /\ answers[e] \in Answers
          BY <2>0 DEF SharedTyped
        <5>2. [Fetched(e, stored[e]) EXCEPT !.answers = answers[e], !.bulk = TRUE] \in Work
          BY <5>1, FetchedTyped, VersionsTyped
        <5> DEFINE new == stored[e] = 0
                   old == stored[e] # 0
        <5>3. new \in BOOLEAN /\ old \in BOOLEAN
          OBVIOUS
        <5>4. [NoWork EXCEPT !.target = e, !.bulk = new, !.again = old] \in Work
          <6> HIDE DEF new, old
          <6> QED BY <5>3, NoWorkTyped, TargetTyped
        <5>5. [NoWork EXCEPT !.target = e] \in Work
          BY NoWorkTyped, TargetTyped
        <5>6. QED
          BY <5>2, <5>4, <5>5
      <4>2. LocalsTyped'
        BY <2>0, <3>g, <3>1, <4>1, TakeTyped DEF ImportRequest, Statements
      <4>3. SharedTyped'
        BY <2>0, <3>1 DEF ImportRequest, SharedTyped, campfire, rows
      <4>4. QED
        BY <2>q, <4>2, <4>3
    <3>2. ASSUME NEW e \in Events, RefreshRequest(g, e) PROVE Typed'
      <4>1. [Fetched(e, version[e]) EXCEPT !.bulk = TRUE] \in Work
        BY <2>0, FetchedTyped, FlagsTyped DEF SharedTyped
      <4>2. LocalsTyped'
        BY <2>0, <3>g, <3>2, <4>1, TakeTyped DEF RefreshRequest, Statements
      <4>3. SharedTyped'
        BY <2>0, <3>2 DEF RefreshRequest, SharedTyped, campfire, rows
      <4>4. QED
        BY <2>q, <4>2, <4>3
    <3>3. CASE RequestGetEvent(g)
      <4> DEFINE e == work[g].target
      <4>1. e \in Events /\ version[e] \in Versions /\ work[g] \in Work
        BY <2>0, <3>g DEF LocalsTyped, SharedTyped, Work
      <4>2. [work[g] EXCEPT !.event = version[e], !.answers = AnswersOf(version[e])] \in Work
        BY <4>1, AnswersTyped, VersionsTyped
      <4>3. LocalsTyped'
        BY <2>0, <3>g, <3>3, <4>2, TakeTyped, OverTyped DEF RequestGetEvent, Statements
      <4>4. SharedTyped'
        BY <2>0, <2>f, <3>3 DEF RequestGetEvent, SharedTyped, campfire, rows
      <4>5. QED
        BY <2>q, <4>3, <4>4
    <3>4. QED
      BY <2>5, <3>g, <3>1, <3>2, <3>3, ImportTyped DEF Request
  <2>6. CASE Restart
    <3>1. LocalsTyped'
      BY <2>0, <2>6, NoWorkTyped, SyncAssumption
         DEF Restart, LocalsTyped, Statements, Nothing, Versions
    <3>2. SharedTyped'
      BY <2>0, <2>f, <2>6 DEF Restart, SharedTyped, campfire, rows
    <3>3. QED
      BY <2>q, <3>1, <3>2
  <2>7. CASE UNCHANGED vars
    BY <2>7 DEF vars, campfire, rows, locals, Typed
  <2>8. QED
    BY <2>1, <2>2, <2>3, <2>4, <2>5, <2>6, <2>7 DEF Next
<1>3. QED
  BY <1>1, <1>2, PTL DEF Spec

-----------------------------------------------------------------------------
(***************************************************************************)
(* Published is inductive together with Typed.                               *)
(***************************************************************************)

\* Published for one goroutine.
Consistent(g) ==
  /\ HoldsPublished(g)
  /\ pc[g] = "rsvps" /\ stored[work[g].target] = 0 => work[g].target \in gone

\* Versions only grow, what is gone stays gone, only gone events lose rows.
Monotone ==
  /\ \A e \in Events : version[e] # 0 => version'[e] # 0
  /\ gone \subseteq gone'
  /\ \A e \in Events : stored[e] # 0 /\ stored'[e] = 0 => e \in gone

LEMMA SyncInvByGoroutine ==
  Published <=> RowsPublished /\ \A g \in Goroutines : Consistent(g)
  BY DEF Published, Consistent, RowAwaitsRSVPs

\* A goroutine that does not move stays consistent.
LEMMA IdleConsistent ==
  ASSUME Typed, NEW g \in Goroutines, Consistent(g), Monotone,
         pc'[g] = pc[g], work'[g] = work[g]
  PROVE  Consistent(g)'
<1>1. work[g].target \in Events
  BY DEF Typed, Work
<1>2. QED
  BY <1>1 DEF Consistent, HoldsPublished, Monotone

\* A step in which at most goroutine g moves keeps Published when it keeps
\* the rows and g consistent.
LEMMA StepConsistent ==
  ASSUME Typed, Published, Monotone, RowsPublished',
         NEW g \in Goroutines, Consistent(g)',
         \A h \in Goroutines \ {g} : pc'[h] = pc[h] /\ work'[h] = work[h]
  PROVE  Published'
<1>1. ASSUME NEW h \in Goroutines PROVE Consistent(h)'
  BY <1>1, IdleConsistent, SyncInvByGoroutine
<1>2. QED
  BY <1>1 DEF Published, Consistent, RowAwaitsRSVPs

\* Taking and leaving work moves only the goroutine itself.
LEMMA Moves ==
  ASSUME Typed, NEW g \in Goroutines
  PROVE  /\ \A s : Goto(g, s) =>
              /\ pc'[g] = s /\ work' = work /\ listed' = listed
              /\ \A h \in Goroutines \ {g} : pc'[h] = pc[h] /\ work'[h] = work[h]
         /\ \A s, w : Take(g, s, w) =>
              /\ pc'[g] = s /\ work'[g] = w /\ listed' = listed
              /\ \A h \in Goroutines \ {g} : pc'[h] = pc[h] /\ work'[h] = work[h]
  BY DEF Typed, Goto, Take

LEMMA OverConsistent ==
  ASSUME Typed, NEW g \in Goroutines, Over(g)
  PROVE  /\ Consistent(g)'
         /\ listed' = listed
         /\ \A h \in Goroutines \ {g} : pc'[h] = pc[h] /\ work'[h] = work[h]
<1>1. /\ listed' = listed
      /\ \A h \in Goroutines \ {g} : pc'[h] = pc[h] /\ work'[h] = work[h]
  BY DEF Typed, Over
<1>2. /\ pc'[g] \in {"stamp", "list", "idle"}
      /\ pc'[g] = "stamp" => g = "updater"
  BY DEF Typed, Over
<1>3. QED
  BY <1>1, <1>2 DEF Consistent, HoldsPublished

LEMMA FetchedHolds ==
  ASSUME NEW e \in Events, NEW v \in Versions
  PROVE  Fetched(e, v).target = e /\ Fetched(e, v).event = v
<1> DEFINE a == AnswersOf(v)
           w == [NoWork EXCEPT !.target = e, !.event = v, !.answers = a]
<1>1. a \in Answers
  BY AnswersTyped
<1>2. Fetched(e, v) = w
  BY DEF Fetched
<1> HIDE DEF a
<1>3. w.target = e /\ w.event = v
  BY <1>1, NoWorkTyped DEF Work
<1> HIDE DEF w
<1> QED BY <1>2, <1>3

\* The statements every import goes through keep Published.
LEMMA ImportSyncInv ==
  ASSUME Typed, Published, NEW g \in Goroutines,
         InsertMembers(g) \/ InsertEvents(g) \/ InsertEventRSVPs(g) \/ ImportFails(g)
  PROVE  Published' /\ Monotone
<1> DEFINE e == work[g].target
<1>0. e \in Events /\ work[g] \in Work
  BY DEF Typed, Work
<1>c. Consistent(g) /\ RowsPublished
  BY SyncInvByGoroutine
<1>1. CASE InsertMembers(g)
  <2>1. Monotone /\ RowsPublished'
    BY <1>1, <1>c DEF InsertMembers, Take, Monotone, RowsPublished, campfire, rows
  <2>2. /\ pc'[g] = "events"
        /\ work'[g] = [work[g] EXCEPT !.ended = e \in ended]
        /\ \A h \in Goroutines \ {g} : pc'[h] = pc[h] /\ work'[h] = work[h]
    BY <1>1, Moves DEF InsertMembers
  <2>3. work'[g].target = e /\ work'[g].event = work[g].event
    BY <2>2, <1>0 DEF Work
  <2>4. Consistent(g)'
    BY <1>1, <1>c, <2>2, <2>3
       DEF InsertMembers, Consistent, HoldsPublished, campfire, rows
  <2>5. QED
    BY <2>1, <2>2, <2>4, StepConsistent
<1>2. CASE InsertEvents(g)
  <2>0. pc[g] = "events" /\ work[g].event # 0 /\ version[e] # 0
    BY <1>2, <1>c DEF InsertEvents, Consistent, HoldsPublished
  <2>1. CASE e \in creators
    <3>1. /\ stored' = [stored EXCEPT ![e] = work[g].event]
          /\ finished' \subseteq finished \cup {e}
          /\ Goto(g, "rsvps")
          /\ UNCHANGED campfire
      BY <1>2, <2>1 DEF InsertEvents
    <3>2. Monotone /\ RowsPublished'
      BY <1>0, <1>c, <2>0, <3>1
         DEF Goto, Monotone, RowsPublished, campfire, Typed
    <3>3. Consistent(g)'
      BY <1>0, <2>0, <3>1, Moves DEF Consistent, HoldsPublished, campfire, Typed
    <3>4. QED
      BY <3>1, <3>2, <3>3, Moves, StepConsistent
  <2>2. CASE e \notin creators
    <3>1. Over(g) /\ UNCHANGED <<stored, finished, campfire>>
      BY <1>2, <2>2 DEF InsertEvents
    <3>2. Monotone /\ RowsPublished'
      BY <1>c, <3>1, OverConsistent DEF Monotone, RowsPublished, campfire
    <3>3. QED
      BY <3>1, <3>2, OverConsistent, StepConsistent
  <2>3. QED
    BY <2>1, <2>2
<1>3. CASE InsertEventRSVPs(g)
  <2>0. pc[g] = "rsvps" /\ work[g].event # 0 /\ version[e] # 0
    BY <1>3, <1>c DEF InsertEventRSVPs, Consistent, HoldsPublished
  <2>1. UNCHANGED <<stored, finished, campfire>>
    BY <1>3 DEF InsertEventRSVPs
  <2>2. \/ Over(g)
        \/ Take(g, "members", [work[g] EXCEPT !.again = FALSE, !.bulk = TRUE])
    BY <1>3 DEF InsertEventRSVPs
  <2>3. listed' = listed
    BY <2>2, Moves, OverConsistent
  <2>4. Monotone /\ RowsPublished'
    BY <1>c, <2>1, <2>3 DEF Monotone, RowsPublished, campfire
  <2>5. CASE Over(g)
    BY <2>4, <2>5, OverConsistent, StepConsistent
  <2>6. CASE Take(g, "members", [work[g] EXCEPT !.again = FALSE, !.bulk = TRUE])
    <3>1. /\ pc'[g] = "members"
          /\ work'[g] = [work[g] EXCEPT !.again = FALSE, !.bulk = TRUE]
      BY <2>6, Moves
    <3>2. work'[g].target = e /\ work'[g].event = work[g].event
      BY <3>1, <1>0 DEF Work
    <3>3. Consistent(g)'
      BY <2>0, <2>1, <3>1, <3>2 DEF Consistent, HoldsPublished, campfire
    <3>4. QED
      BY <2>4, <2>6, <3>3, Moves, StepConsistent
  <2>7. QED
    BY <2>2, <2>5, <2>6
<1>4. CASE ImportFails(g)
  <2>1. Over(g) /\ UNCHANGED <<stored, finished, campfire>>
    BY <1>4 DEF ImportFails, rows
  <2>2. Monotone /\ RowsPublished'
    BY <1>c, <2>1, OverConsistent DEF Monotone, RowsPublished, campfire
  <2>3. QED
    BY <2>1, <2>2, OverConsistent, StepConsistent
<1>5. QED
  BY <1>1, <1>2, <1>3, <1>4

\* The statements of the importer alone keep Published.
LEMMA ImporterSyncInv ==
  ASSUME Typed, Published,
         \/ GetFutureEvents \/ SkipEvent \/ ImportEvent
         \/ ImportActiveClubEventsReturns
  PROVE  Published' /\ Monotone
<1>g. "importer" \in Goroutines /\ "importer" # "updater"
  BY DEF Goroutines
<1>c. Consistent("importer") /\ RowsPublished
  BY <1>g, SyncInvByGoroutine
<1>1. UNCHANGED <<version, gone, stored, finished>> /\ Monotone
  BY DEF GetFutureEvents, SkipEvent, ImportEvent, ImportActiveClubEventsReturns,
         Monotone, campfire, rows
<1>2. \A e \in Events : listed'[e] # 0 => listed[e] # 0 \/ Returned(e)
  BY DEF GetFutureEvents, SkipEvent, ImportEvent, ImportActiveClubEventsReturns,
         Typed, Nothing
<1>3. RowsPublished'
  BY <1>c, <1>1, <1>2 DEF RowsPublished, Returned
<1>4. \A h \in Goroutines \ {"importer"} : pc'[h] = pc[h] /\ work'[h] = work[h]
  BY DEF GetFutureEvents, SkipEvent, ImportEvent, ImportActiveClubEventsReturns,
         Typed
<1>5. Consistent("importer")'
  <2>1. CASE GetFutureEvents \/ SkipEvent \/ ImportActiveClubEventsReturns
    <3>1. pc'["importer"] \in {"list", "idle"}
      BY <1>g, <2>1
         DEF GetFutureEvents, SkipEvent, ImportActiveClubEventsReturns, Typed
    <3>2. QED
      BY <1>g, <3>1 DEF Consistent, HoldsPublished
  <2>2. CASE ImportEvent
    <3>1. PICK e \in Events : /\ listed[e] # 0
                              /\ pc' = [pc EXCEPT !["importer"] = "members"]
                              /\ work' = [work EXCEPT !["importer"] = Fetched(e, listed[e])]
      BY <2>2 DEF ImportEvent
    <3>2. /\ pc'["importer"] = "members"
          /\ work'["importer"].target = e /\ work'["importer"].event = listed[e]
      BY <1>g, <3>1, FetchedHolds DEF Typed
    <3>3. QED
      BY <1>c, <1>g, <1>1, <3>1, <3>2 DEF Consistent, HoldsPublished, RowsPublished
  <2>3. QED
    BY <2>1, <2>2
<1>6. QED
  BY <1>g, <1>1, <1>3, <1>4, <1>5, StepConsistent

\* The statements of the updater alone keep Published.
LEMMA UpdaterSyncInv ==
  ASSUME Typed, Published,
         \/ GetNextUpdateEvent \/ UpdaterGetEvent \/ DeleteEvent
         \/ UpdateEventLastAutoImported
  PROVE  Published' /\ Monotone
<1> DEFINE u == "updater"
           e == work[u].target
<1>g. u \in Goroutines
  BY DEF Goroutines
<1>c. Consistent(u) /\ RowsPublished
  BY <1>g, SyncInvByGoroutine
<1>e. e \in Events /\ work[u] \in Work
  BY <1>g DEF Typed, Work
<1>1. CASE GetNextUpdateEvent
  <2>1. PICK f \in Unfinished : Take(u, "fetch", [NoWork EXCEPT !.target = f])
    BY <1>1 DEF GetNextUpdateEvent
  <2>2. f \in Events /\ version[f] # 0
    BY <1>c, <2>1 DEF Unfinished, RowsPublished
  <2>3. /\ pc'[u] = "fetch" /\ work'[u] = [NoWork EXCEPT !.target = f]
        /\ listed' = listed
        /\ \A h \in Goroutines \ {u} : pc'[h] = pc[h] /\ work'[h] = work[h]
    BY <1>g, <2>1, Moves
  <2>4. work'[u].target = f
    BY <2>3, NoWorkTyped DEF Work
  <2>5. Monotone /\ RowsPublished'
    BY <1>1, <1>c, <2>3 DEF GetNextUpdateEvent, Monotone, RowsPublished, campfire, rows
  <2>6. Consistent(u)'
    BY <1>1, <2>2, <2>3, <2>4
       DEF GetNextUpdateEvent, Consistent, HoldsPublished, campfire
  <2>7. QED
    BY <1>g, <2>3, <2>5, <2>6, StepConsistent
<1>2. CASE UpdaterGetEvent
  <2>0. pc[u] = "fetch" /\ version[e] # 0
    BY <1>2, <1>c DEF UpdaterGetEvent, Consistent, HoldsPublished
  <2>1. \/ Take(u, "idle", NoWork)
        \/ Goto(u, "delete") /\ e \in gone
        \/ Take(u, "members", Fetched(e, version[e]))
        \/ Goto(u, "stamp")
    BY <1>2 DEF UpdaterGetEvent
  <2>2. UNCHANGED <<version, gone, stored, finished>>
    BY <1>2 DEF UpdaterGetEvent, campfire, rows
  <2>3. /\ listed' = listed
        /\ \A h \in Goroutines \ {u} : pc'[h] = pc[h] /\ work'[h] = work[h]
    <3> HIDE DEF u, e
    <3> QED BY <1>g, <2>1, Moves
  <2>4. Monotone /\ RowsPublished'
    BY <1>c, <2>2, <2>3 DEF Monotone, RowsPublished
  <2>5. Consistent(u)'
    <3>1. version[e] \in Versions
      BY <1>e DEF Typed
    <3>2. \/ pc'[u] \in {"idle", "stamp"}
          \/ pc'[u] = "delete" /\ work' = work /\ e \in gone
          \/ /\ pc'[u] = "members"
             /\ work'[u].target = e /\ work'[u].event = version[e]
      <4>1. Fetched(e, version[e]).target = e /\ Fetched(e, version[e]).event = version[e]
        BY <1>e, <3>1, FetchedHolds
      <4> HIDE DEF u, e
      <4>2. QED
        BY <1>g, <2>1, <4>1, Moves
    <3>3. QED
      BY <2>0, <2>2, <3>2 DEF Consistent, HoldsPublished
  <2>6. QED
    BY <1>g, <2>3, <2>4, <2>5, StepConsistent
<1>3. CASE DeleteEvent
  <2>0. e \in gone
    BY <1>3, <1>c DEF DeleteEvent, Consistent, HoldsPublished
  <2>1. /\ pc'[u] = "stamp" /\ listed' = listed
        /\ \A h \in Goroutines \ {u} : pc'[h] = pc[h] /\ work'[h] = work[h]
    BY <1>3, <1>g, Moves DEF DeleteEvent
  <2>2. /\ UNCHANGED <<version, gone>>
        /\ \/ stored' = [stored EXCEPT ![e] = 0] /\ finished' = finished \ {e}
           \/ UNCHANGED <<stored, finished>>
    BY <1>3 DEF DeleteEvent, campfire, rows
  <2>3. Monotone /\ RowsPublished'
    BY <1>c, <1>e, <2>0, <2>1, <2>2 DEF Monotone, RowsPublished, Typed
  <2>4. Consistent(u)'
    BY <2>1 DEF Consistent, HoldsPublished
  <2>5. QED
    BY <1>g, <2>1, <2>3, <2>4, StepConsistent
<1>4. CASE UpdateEventLastAutoImported
  <2>1. /\ pc'[u] = "idle" /\ listed' = listed
        /\ \A h \in Goroutines \ {u} : pc'[h] = pc[h] /\ work'[h] = work[h]
    BY <1>4, <1>g, Moves DEF UpdateEventLastAutoImported
  <2>2. Monotone /\ RowsPublished'
    BY <1>4, <1>c, <2>1
       DEF UpdateEventLastAutoImported, Monotone, RowsPublished, campfire
  <2>3. Consistent(u)'
    BY <2>1 DEF Consistent, HoldsPublished
  <2>4. QED
    BY <1>g, <2>1, <2>2, <2>3, StepConsistent
<1>5. QED
  BY <1>1, <1>2, <1>3, <1>4

\* The statements of a request alone keep Published.
LEMMA RequestSyncInv ==
  ASSUME Typed, Published, NEW g \in Requests,
         \/ \E e \in Events : ImportRequest(g, e) \/ RefreshRequest(g, e)
         \/ RequestGetEvent(g)
  PROVE  Published' /\ Monotone
<1>g. g \in Goroutines /\ g # "updater"
  BY SyncAssumption DEF Goroutines
<1>c. Consistent(g) /\ RowsPublished
  BY <1>g, SyncInvByGoroutine
<1>1. UNCHANGED <<version, gone, stored, finished>>
  BY DEF ImportRequest, RefreshRequest, RequestGetEvent, campfire, rows
<1> DEFINE
      Outcome ==
        \/ Over(g)
        \/ \E w : Take(g, "fetch", w)
        \/ \E w : /\ Take(g, "members", w)
                  /\ w.event # 0 /\ w.target \in Events /\ version[w.target] # 0
<1>2. Outcome
  <2>1. ASSUME NEW e \in Events, ImportRequest(g, e) PROVE Outcome
    <3> DEFINE w == [Fetched(e, stored[e]) EXCEPT !.answers = answers[e], !.bulk = TRUE]
    <3>1. w.event = stored[e] /\ w.target = e
      <4>1. stored[e] \in Versions
        BY DEF Typed
      <4>2. Fetched(e, stored[e]) \in Work
        BY <4>1, FetchedTyped
      <4>3. QED
        BY <4>1, <4>2, FetchedHolds DEF Work
    <3> HIDE DEF w
    <3>2. \/ e \in finished /\ Take(g, "members", w)
          \/ \E x : Take(g, "fetch", x)
      BY <2>1 DEF ImportRequest, w
    <3>3. e \in finished => stored[e] # 0 /\ version[e] # 0
      BY <1>c DEF RowsPublished
    <3>4. QED
      BY <3>1, <3>2, <3>3
  <2>2. ASSUME NEW e \in Events, RefreshRequest(g, e) PROVE Outcome
    <3> DEFINE w == [Fetched(e, version[e]) EXCEPT !.bulk = TRUE]
    <3>1. w.event = version[e] /\ w.target = e
      <4>1. version[e] \in Versions
        BY DEF Typed
      <4>2. Fetched(e, version[e]) \in Work
        BY <4>1, FetchedTyped
      <4>3. QED
        BY <4>1, <4>2, FetchedHolds DEF Work
    <3> HIDE DEF w
    <3>2. Take(g, "members", w) /\ version[e] # 0
      BY <2>2 DEF RefreshRequest, Returned, w
    <3>3. QED
      BY <3>1, <3>2
  <2>3. CASE RequestGetEvent(g)
    <3> DEFINE e == work[g].target
               w == [work[g] EXCEPT !.event = version[e],
                                    !.answers = AnswersOf(version[e])]
    <3>1. work[g] \in Work /\ e \in Events
      BY <1>g DEF Typed, Work
    <3>2. w.event = version[e] /\ w.target = e
      BY <3>1 DEF Work
    <3> HIDE DEF w
    <3>3. \/ Over(g)
          \/ Take(g, "members", w) /\ version[e] # 0
      BY <2>3 DEF RequestGetEvent, Returned, w
    <3>4. QED
      BY <3>1, <3>2, <3>3
  <2>4. QED
    BY <2>1, <2>2, <2>3
<1>3. /\ listed' = listed
      /\ \A h \in Goroutines \ {g} : pc'[h] = pc[h] /\ work'[h] = work[h]
  BY <1>g, <1>2, Moves, OverConsistent
<1>4. Monotone /\ RowsPublished'
  BY <1>c, <1>1, <1>3 DEF Monotone, RowsPublished
<1>5. Consistent(g)'
  <2>1. CASE Over(g)
    BY <1>g, <2>1, OverConsistent
  <2>2. ASSUME NEW w, Take(g, "fetch", w) PROVE Consistent(g)'
    BY <1>g, <2>2, Moves DEF Consistent, HoldsPublished
  <2>3. ASSUME NEW w, Take(g, "members", w), w.event # 0, version[w.target] # 0
        PROVE Consistent(g)'
    BY <1>g, <1>1, <2>3, Moves DEF Consistent, HoldsPublished
  <2>4. QED
    BY <1>2, <2>1, <2>2, <2>3
<1>6. QED
  BY <1>g, <1>3, <1>4, <1>5, StepConsistent

\* Every step of the system keeps Published, and is monotone.
LEMMA NextSyncInv ==
  ASSUME Typed, Published, [Next]_vars
  PROVE  Published' /\ Monotone
<1>g. /\ "importer" \in Goroutines /\ "updater" \in Goroutines
      /\ Requests \subseteq Goroutines
  BY DEF Goroutines
<1>c. RowsPublished /\ \A g \in Goroutines : Consistent(g)
  BY SyncInvByGoroutine
\* The steps that move no goroutine.
<1>i. ASSUME Monotone, RowsPublished', UNCHANGED <<pc, work>>
      PROVE  Published'
  BY <1>c, <1>g, <1>i, StepConsistent, IdleConsistent
<1>1. ASSUME NEW e \in Events, Change(e) \/ Ends(e) \/ Disappears(e)
      PROVE  Published' /\ Monotone
  <2>1. Monotone /\ UNCHANGED <<stored, finished, pc, work, listed>>
    BY <1>1, SyncAssumption
       DEF Change, Ends, Disappears, Monotone, Typed, Versions, rows, locals
  <2>2. RowsPublished'
    BY <1>c, <2>1 DEF RowsPublished, Monotone
  <2>3. QED
    BY <1>i, <2>1, <2>2
<1>2. CASE UpdateClub \/ UNCHANGED vars
  <2>1. UNCHANGED <<version, gone, stored, finished, pc, work, listed>>
    BY <1>2 DEF UpdateClub, vars, campfire, rows, locals
  <2>2. Monotone /\ RowsPublished'
    BY <1>c, <2>1 DEF Monotone, RowsPublished
  <2>3. QED
    BY <1>i, <2>1, <2>2
<1>3. CASE Importer
  BY <1>3, <1>g, ImporterSyncInv, ImportSyncInv DEF Importer
<1>4. CASE Updater
  BY <1>4, <1>g, UpdaterSyncInv, ImportSyncInv DEF Updater
<1>5. ASSUME NEW g \in Requests, Request(g) PROVE Published' /\ Monotone
  BY <1>5, <1>g, RequestSyncInv, ImportSyncInv DEF Request
<1>6. CASE Restart
  <2>1. /\ UNCHANGED <<version, gone, stored, finished>>
        /\ \A e \in Events : listed'[e] = 0
        /\ \A g \in Goroutines : pc'[g] = "idle"
    BY <1>6 DEF Restart, Nothing, campfire, rows
  <2>2. Monotone /\ RowsPublished'
    BY <1>c, <2>1 DEF Monotone, RowsPublished
  <2>3. QED
    BY <2>1, <2>2 DEF Published, RowAwaitsRSVPs, HoldsPublished
<1>7. QED
  BY <1>1, <1>2, <1>3, <1>4, <1>5, <1>6 DEF Next

\* However importer, updater, requests and restarts interleave, what they
\* hold and write was published, and only the updater deletes.
THEOREM SyncInvariant == Spec => []Published
<1>1. Init => Published
  BY DEF Init, Nothing, Published, RowsPublished, RowAwaitsRSVPs, HoldsPublished
<1>2. Typed /\ Published /\ [Next]_vars => Published'
  BY NextSyncInv
<1>3. QED
  BY <1>1, <1>2, SyncTypeCorrect, PTL DEF Spec

\* Between the two statements that store an event and its RSVPs
\* (ProcessEventImport), the row is lost only when its event is gone.
THEOREM RowAwaitsItsRSVPs == Spec => []RowAwaitsRSVPs
<1>1. Published => RowAwaitsRSVPs
  BY DEF Published
<1>2. QED
  BY <1>1, SyncInvariant, PTL

\* importEvent deletes an event only when Campfire has deleted it.
THEOREM DeletesOnlyGone == Spec => OnlyGoneDeleted
<1> DEFINE Kept == \A e \in Events : stored[e] # 0 /\ stored'[e] = 0 => e \in gone
<1>1. Typed /\ Published /\ [Next]_vars => [Kept]_vars
  BY NextSyncInv DEF Monotone
<1>2. QED
  BY <1>1, SyncTypeCorrect, SyncInvariant, PTL DEF Spec, OnlyGoneDeleted

-----------------------------------------------------------------------------
(***************************************************************************)
(* The order of the rows by their stamps.                                  *)
(***************************************************************************)

\* Every row has one place in the order, and nothing else has.
OrderInv ==
  /\ order \in Seq(Events) /\ IsInjective(order)
  /\ ToSet(order) = {e \in Events : stored[e] # 0}

LEMMA RemovedAt ==
  ASSUME NEW s \in Seq(Events), IsInjective(s), NEW k \in DOMAIN s
  PROVE  /\ RemoveAt(s, k) \in Seq(Events) /\ IsInjective(RemoveAt(s, k))
         /\ ToSet(RemoveAt(s, k)) = ToSet(s) \ {s[k]}
<1> DEFINE n == Len(s)
           t == RemoveAt(s, k)
<1>1. n \in Nat /\ DOMAIN s = 1..n /\ k \in 1..n /\ \A i \in 1..n : s[i] \in Events
  OBVIOUS
<1>2. /\ t \in Seq(Events) /\ Len(t) = n - 1
      /\ \A i \in 1..(n - 1) : t[i] = IF i < k THEN s[i] ELSE s[i + 1]
  <2> DEFINE a == SubSeq(s, 1, k - 1)
             b == SubSeq(s, k + 1, n)
  <2>1. t = a \o b
    BY DEF RemoveAt
  <2>2. k - 1 \in 0..n /\ k \in 1..n
    BY <1>1
  <2>3. a \in Seq(Events) /\ Len(a) = k - 1 /\ \A i \in 1..(k - 1) : a[i] = s[i]
    BY <2>2
  <2>4. b \in Seq(Events) /\ Len(b) = n - k /\ \A i \in 1..(n - k) : b[i] = s[k + i]
    BY <2>2
  <2> HIDE DEF a, b, n, t
  <2>5. /\ t \in Seq(Events) /\ Len(t) = n - 1
        /\ \A i \in 1..(n - 1) : t[i] = IF i <= k - 1 THEN a[i] ELSE b[i - (k - 1)]
    <3>1. (k - 1) + (n - k) = n - 1 /\ k - 1 \in Nat /\ n - k \in Nat
      BY <1>1
    <3>2. \A x, y \in Seq(Events) :
            /\ x \o y \in Seq(Events) /\ Len(x \o y) = Len(x) + Len(y)
            /\ \A i \in 1..(Len(x) + Len(y)) :
                 (x \o y)[i] = IF i <= Len(x) THEN x[i] ELSE y[i - Len(x)]
      OBVIOUS
    <3>3. /\ a \o b \in Seq(Events) /\ Len(a \o b) = Len(a) + Len(b)
          /\ \A i \in 1..(Len(a) + Len(b)) :
               (a \o b)[i] = IF i <= Len(a) THEN a[i] ELSE b[i - Len(a)]
      BY <2>3, <2>4, <3>2
    <3>4. Len(a) + Len(b) = n - 1 /\ Len(a) = k - 1
      BY <2>3, <2>4, <3>1
    <3> QED BY <2>1, <3>3, <3>4, Zenon
  <2>6. \A i \in 1..(n - 1) : t[i] = IF i < k THEN s[i] ELSE s[i + 1]
    <3> SUFFICES ASSUME NEW i \in 1..(n - 1) PROVE t[i] = IF i < k THEN s[i] ELSE s[i + 1]
      OBVIOUS
    <3>1. CASE i < k
      BY <1>1, <2>3, <2>5, <3>1
    <3>2. CASE ~(i < k)
      <4>1. i - (k - 1) \in 1..(n - k) /\ k + (i - (k - 1)) = i + 1 /\ ~(i <= k - 1)
        BY <1>1, <3>2
      <4> QED BY <2>4, <2>5, <3>2, <4>1
    <3> QED BY <3>1, <3>2
  <2> QED BY <2>5, <2>6
<1> HIDE DEF n, t
<1>3. DOMAIN t = 1..(n - 1)
  BY <1>1, <1>2
<1>4. \A i, j \in 1..n : s[i] = s[j] => i = j
  BY <1>1 DEF IsInjective
<1>5. IsInjective(t)
  <2> SUFFICES ASSUME NEW i \in 1..(n - 1), NEW j \in 1..(n - 1), t[i] = t[j] PROVE i = j
    BY <1>3 DEF IsInjective
  <2> DEFINE at(l) == IF l < k THEN l ELSE l + 1
  <2>1. \A l \in 1..(n - 1) : at(l) \in 1..n /\ t[l] = s[at(l)]
    BY <1>1, <1>2
  <2>2. at(i) = at(j)
    <3> HIDE DEF at
    <3> QED BY <1>4, <2>1
  <2> QED BY <1>1, <2>2
<1>6. ASSUME NEW x \in ToSet(t) PROVE x \in ToSet(s) \ {s[k]}
  <2>1. PICK i \in 1..(n - 1) : t[i] = x
    BY <1>3, <1>6 DEF ToSet
  <2>2. PICK j \in 1..n : x = s[j] /\ j # k
    <3>1. CASE i < k
      BY <1>1, <1>2, <2>1, <3>1
    <3>2. CASE ~(i < k)
      <4>1. i + 1 \in 1..n /\ i + 1 # k /\ x = s[i + 1]
        BY <1>1, <1>2, <2>1, <3>2
      <4> QED BY <4>1
    <3> QED BY <3>1, <3>2
  <2>3. s[j] # s[k]
    BY <1>1, <1>4, <2>2
  <2> QED BY <1>1, <2>2, <2>3 DEF ToSet
<1>7. ASSUME NEW x \in ToSet(s) \ {s[k]} PROVE x \in ToSet(t)
  <2>1. PICK j \in 1..n : s[j] = x /\ j # k
    BY <1>1, <1>7 DEF ToSet
  <2>2. PICK i \in 1..(n - 1) : t[i] = x
    <3>1. CASE j < k
      <4>1. j \in 1..(n - 1)
        BY <1>1, <3>1
      <4> QED BY <1>2, <2>1, <3>1, <4>1
    <3>2. CASE ~(j < k)
      <4>1. j - 1 \in 1..(n - 1) /\ ~(j - 1 < k) /\ (j - 1) + 1 = j
        BY <1>1, <2>1, <3>2
      <4> QED BY <1>2, <2>1, <4>1
    <3> QED BY <3>1, <3>2
  <2> QED BY <1>3, <2>2 DEF ToSet
<1> QED BY <1>2, <1>5, <1>6, <1>7 DEF t

LEMMA AppendedLast ==
  ASSUME NEW s \in Seq(Events), IsInjective(s), NEW e \in Events \ ToSet(s)
  PROVE  /\ Append(s, e) \in Seq(Events) /\ IsInjective(Append(s, e))
         /\ ToSet(Append(s, e)) = ToSet(s) \cup {e}
<1> DEFINE n == Len(s)
           t == Append(s, e)
<1>1. /\ n \in Nat /\ DOMAIN s = 1..n /\ t \in Seq(Events) /\ DOMAIN t = 1..(n + 1)
      /\ t[n + 1] = e /\ \A i \in 1..n : t[i] = s[i]
  OBVIOUS
<1>2. \A i \in 1..n : s[i] # e
  BY <1>1 DEF ToSet
<1> HIDE DEF n, t
<1>3. \A i \in 1..(n + 1) : i \in 1..n \/ i = n + 1
  BY <1>1
<1>4. IsInjective(t)
  BY <1>1, <1>2, <1>3 DEF IsInjective
<1>5. ToSet(t) = ToSet(s) \cup {e}
  <2>1. 1..n \subseteq 1..(n + 1) /\ n + 1 \in 1..(n + 1)
    BY <1>1
  <2> QED BY <1>1, <1>3, <2>1 DEF ToSet
<1> QED BY <1>1, <1>4, <1>5 DEF t

LEMMA OthersInOrder ==
  ASSUME OrderInv, NEW e \in Events
  PROVE  /\ Others(e) \in Seq(Events) /\ IsInjective(Others(e))
         /\ ToSet(Others(e)) = {f \in Events : stored[f] # 0} \ {e}
         /\ Append(Others(e), e) \in Seq(Events) /\ IsInjective(Append(Others(e), e))
         /\ ToSet(Append(Others(e), e)) = {f \in Events : stored[f] # 0} \cup {e}
<1>1. /\ Others(e) \in Seq(Events) /\ IsInjective(Others(e))
      /\ ToSet(Others(e)) = ToSet(order) \ {e}
  <2>1. CASE e \in ToSet(order)
    <3> DEFINE k == CHOOSE i \in DOMAIN order : order[i] = e
    <3>1. k \in DOMAIN order /\ order[k] = e
      BY <2>1 DEF ToSet
    <3>2. Others(e) = RemoveAt(order, k)
      BY <2>1 DEF Others
    <3> HIDE DEF k
    <3> QED BY <3>1, <3>2, RemovedAt DEF OrderInv
  <2>2. CASE e \notin ToSet(order)
    BY <2>2 DEF Others, OrderInv
  <2> QED BY <2>1, <2>2
<1>2. /\ Append(Others(e), e) \in Seq(Events) /\ IsInjective(Append(Others(e), e))
      /\ ToSet(Append(Others(e), e)) = ToSet(Others(e)) \cup {e}
  BY <1>1, AppendedLast
<1> QED BY <1>1, <1>2 DEF OrderInv

LEMMA NextOrder ==
  ASSUME Typed, Published, OrderInv, [Next]_vars
  PROVE  OrderInv'
<1>1. CASE UNCHANGED <<order, stored>>
  BY <1>1 DEF OrderInv
<1>2. ASSUME NEW g \in Goroutines, InsertEvents(g) PROVE OrderInv'
  <2> DEFINE e == work[g].target
  <2>1. e \in Events /\ work[g].event # 0
    BY <1>2 DEF InsertEvents, Published, HoldsPublished, Typed, Work
  <2>2. \/ stored' = [stored EXCEPT ![e] = work[g].event] /\ order' = Append(Others(e), e)
        \/ UNCHANGED <<order, stored>>
    BY <1>2 DEF InsertEvents
  <2> HIDE DEF e
  <2>3. CASE stored' = [stored EXCEPT ![e] = work[g].event] /\ order' = Append(Others(e), e)
    <3>1. {f \in Events : stored'[f] # 0} = {f \in Events : stored[f] # 0} \cup {e}
      BY <2>1, <2>3 DEF Typed
    <3> QED BY <2>1, <2>3, <3>1, OthersInOrder DEF OrderInv
  <2> QED BY <1>1, <2>2, <2>3
<1>3. ASSUME NEW g \in Goroutines, InsertMembers(g) \/ InsertEventRSVPs(g) \/ ImportFails(g)
      PROVE  OrderInv'
  BY <1>1, <1>3 DEF InsertMembers, InsertEventRSVPs, ImportFails, rows
<1>4. work["updater"].target \in Events
  BY DEF Typed, Work, Goroutines
<1>5. CASE DeleteEvent
  <2> DEFINE e == work["updater"].target
  <2>1. \/ stored' = [stored EXCEPT ![e] = 0] /\ order' = Others(e)
        \/ UNCHANGED <<order, stored>>
    BY <1>5 DEF DeleteEvent, rows
  <2>2. e \in Events
    BY <1>4
  <2> HIDE DEF e
  <2>3. CASE stored' = [stored EXCEPT ![e] = 0] /\ order' = Others(e)
    <3>1. {f \in Events : stored'[f] # 0} = {f \in Events : stored[f] # 0} \ {e}
      BY <2>2, <2>3 DEF Typed
    <3> QED BY <2>2, <2>3, <3>1, OthersInOrder DEF OrderInv
  <2> QED BY <1>1, <2>1, <2>3
<1>6. CASE UpdateEventLastAutoImported
  <2> DEFINE e == work["updater"].target
  <2>1. /\ UNCHANGED stored
        /\ order' = order \/ (stored[e] # 0 /\ order' = Append(Others(e), e))
    BY <1>6 DEF UpdateEventLastAutoImported
  <2>2. e \in Events
    BY <1>4
  <2> HIDE DEF e
  <2> QED BY <1>1, <2>1, <2>2, OthersInOrder DEF OrderInv
<1>7. CASE Importer
  <2>1. "importer" \in Goroutines
    BY DEF Goroutines
  <2>2. CASE GetFutureEvents \/ SkipEvent \/ ImportEvent \/ ImportActiveClubEventsReturns
    BY <1>1, <2>2 DEF GetFutureEvents, SkipEvent, ImportEvent, ImportActiveClubEventsReturns, rows
  <2> QED BY <1>2, <1>3, <1>7, <2>1, <2>2 DEF Importer
<1>8. CASE Updater
  <2>1. "updater" \in Goroutines
    BY DEF Goroutines
  <2>2. CASE GetNextUpdateEvent \/ UpdaterGetEvent
    BY <1>1, <2>2 DEF GetNextUpdateEvent, UpdaterGetEvent, rows
  <2> QED BY <1>2, <1>3, <1>5, <1>6, <1>8, <2>1, <2>2 DEF Updater
<1>9. ASSUME NEW g \in Requests, Request(g) PROVE OrderInv'
  <2>1. g \in Goroutines
    BY DEF Goroutines
  <2>2. ASSUME NEW e \in Events, ImportRequest(g, e) \/ RefreshRequest(g, e) PROVE OrderInv'
    BY <1>1, <2>2 DEF ImportRequest, RefreshRequest, rows
  <2>3. CASE RequestGetEvent(g)
    BY <1>1, <2>3 DEF RequestGetEvent, rows
  <2> QED BY <1>2, <1>3, <1>9, <2>1, <2>2, <2>3 DEF Request
<1>10. ASSUME NEW e \in Events, Change(e) \/ Ends(e) \/ Disappears(e) PROVE OrderInv'
  BY <1>1, <1>10 DEF Change, Ends, Disappears, rows
<1>11. CASE UpdateClub \/ Restart \/ UNCHANGED vars
  BY <1>1, <1>11 DEF UpdateClub, Restart, vars, rows
<1> QED BY <1>7, <1>8, <1>9, <1>10, <1>11 DEF Next

\* The updater takes its turn by the order of the stamps: every row is in
\* it once, whoever writes, deletes and stamps rows at the same time.
THEOREM OrderInvariant == Spec => []OrderInv
<1>1. Init => OrderInv
  <2> SUFFICES ASSUME Init PROVE OrderInv
    OBVIOUS
  <2>1. {e \in Events : stored[e] # 0} = Failing
    BY SyncAssumption DEF Init
  <2>2. PICK n \in Nat : order \in Bijection(1..n, Failing)
    BY SyncAssumption, FS_CardinalityType DEF Init
  <2>3. order \in [1..n -> Failing] /\ order \in Seq(Events)
    BY <2>2, SyncAssumption DEF Bijection, Injection
  <2>4. IsInjective(order)
    BY <2>2 DEF Bijection, Injection
  <2>5. ToSet(order) = Failing
    BY <2>2, <2>3 DEF Bijection, Surjection, ToSet
  <2> QED BY <2>1, <2>3, <2>4, <2>5 DEF OrderInv
<1>2. Typed /\ Published /\ OrderInv /\ [Next]_vars => OrderInv'
  BY NextOrder
<1> QED BY <1>1, <1>2, SyncTypeCorrect, SyncInvariant, PTL DEF Spec

\* Rows, their order by stamp and what the goroutines hold fit together.
THEOREM SyncInvHolds == Spec => []SyncInv
<1>1. Typed /\ Published /\ OrderInv => SyncInv
  BY DEF SyncInv, TypeOK, OrderInv
<1> QED BY <1>1, SyncTypeCorrect, SyncInvariant, OrderInvariant, PTL
=============================================================================
