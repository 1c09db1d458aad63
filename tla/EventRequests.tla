---------------------------- MODULE EventRequests ----------------------------
(***************************************************************************)
(* Requests for several events at once: exports (getAllEvents, server/web/ *)
(* tracker/export.go) and imports (importAllEvents, event_import.go).      *)
(* Both fetch every event in a goroutine of its own (fetchEvent,           *)
(* raffle.go), which answers from the database, from Campfire, or from     *)
(* Campfire after storing what it fetched.  The first error of an export   *)
(* cancels its other goroutines; those of an import run to their end, and  *)
(* what they fetched is stored in bulk (bulkProcessEvents).                *)
(*                                                                         *)
(* What Campfire answers of an event does not change here (EventSync is    *)
(* about that).  All events belong to one club, and its creator has        *)
(* created them.                                                           *)
(***************************************************************************)
EXTENDS Integers, Sequences, FiniteSets, SequencesExt

CONSTANTS
  Members,
  Organizer,    \* who created the club and the events
  Nobody,       \* the member with the empty id
  Events,
  Listed,       \* the members Campfire lists for an event
  RSVPs,        \* the members with an RSVP, in the order of Campfire
  Before,       \* the members whose RSVP an earlier import has stored
  Ended,        \* events whose end time has passed
  Unsupported,  \* events asked for by an address Campfire no longer supports
  Exports,
  Imports,
  Asked,        \* the events of a request
  BatchSize,    \* chunk of InsertMembers
  MaxFaults     \* bound on failed statements and fetches

Requests == Exports \cup Imports

ASSUME RequestAssumption ==
  /\ IsFiniteSet(Members) /\ {Organizer, Nobody} \subseteq Members
  /\ Listed \in [Events -> Seq(Members)]
  /\ RSVPs \in [Events -> Seq(Members)]
  /\ Exports \cap Imports = {}
  /\ Asked \in [Requests -> SUBSET Events]
  /\ "bulk" \notin Events
  /\ Before \in [Events -> SUBSET Members]
  /\ BatchSize \in Nat \ {0}
  /\ MaxFaults \in Nat

VARIABLES
  name,      \* table members, see MemberTable
  call,      \* calls of InsertMembers, see MemberTable
  row,       \* table events
  rsvp,      \* table event_rsvps: the members of an event
  pc,        \* next call of each goroutine
  got,       \* the event a goroutine has fetched
  done,      \* events a request has collected, in the order they came
  answer,    \* what the request was answered
  faults,    \* failures so far
  cut,       \* events whose import stopped before the RSVPs were stored
  early,     \* goroutines that read an event before its RSVPs were stored
  shadowed   \* members a bulk import stored without the name it had fetched

Goroutines ==
  {<<r, e>> : r \in Requests, e \in Events} \cup {<<r, "bulk">> : r \in Imports}

T == INSTANCE MemberTable WITH Names <- {"name"}

locals == <<pc, got, done, answer>>
history == <<early, shadowed>>
vars == <<name, call, row, rsvp, locals, faults, cut, history>>

Fetches(r) == {<<r, e>> : e \in Asked[r]}

Terminal == {"ok", "skipped", "error"}

NoEvent == [members |-> <<>>, rsvps |-> <<>>]

Init ==
  /\ call = [g \in Goroutines |-> T!NoCall]
  /\ row \in [Events -> {"absent", "open"}]
  /\ \A e \in Unsupported : row[e] = "absent"
  /\ rsvp = [e \in Events |-> IF row[e] = "open" THEN Before[e] ELSE {}]
  /\ name = [m \in Members |-> IF m = Organizer THEN "name"
                                ELSE IF \E e \in Events : m \in rsvp[e] THEN "" ELSE "absent"]
  /\ pc = [g \in Goroutines |-> IF g[2] = "bulk" THEN "wait" ELSE "look"]
  /\ got = [g \in Goroutines |-> NoEvent]
  /\ done = [r \in Requests |-> <<>>]
  /\ answer = [r \in Requests |-> "none"]
  /\ faults = 0 /\ cut = {} /\ early = {} /\ shadowed = {}

Fault == faults < MaxFaults /\ faults' = faults + 1

-----------------------------------------------------------------------------
(* Lists of members. *)

Named(m) == [id |-> m, name |-> "name"]
Placeholder(m) == [id |-> m, name |-> ""]

Entries(Op(_), ms) == [i \in DOMAIN ms |-> Op(ms[i])]

HasMember(entries, m) == \E i \in DOMAIN entries : entries[i].id = m

\* The list after the first n of more: each is added unless it is there.
Adding(entries, more) ==
  LET all[n \in 0..Len(more)] ==
        IF n = 0 THEN entries
        ELSE IF HasMember(all[n - 1], more[n].id) THEN all[n - 1]
        ELSE Append(all[n - 1], more[n])
  IN  all

AddMissing(entries, more) == Adding(entries, more)[Len(more)]

FindMember(m, event) == HasMember(event.members, m)

OnCampfire(e) == [members |-> Entries(Named, Listed[e]), rsvps |-> RSVPs[e]]

\* The JSON of a placeholder is "{}": read back, it is a member without id.
InDatabase(e) ==
  LET stored == SetToSeq(rsvp[e])
      member(m) == IF name[m] = "" THEN Placeholder(Nobody) ELSE Named(m)
  IN  [members |-> Entries(member, stored), rsvps |-> stored]

Complete(e, members) == ToSet(RSVPs[e]) \subseteq members

-----------------------------------------------------------------------------
(* The goroutines of a request. *)

\* The context of an export ends with the request and with the first error.
Live(r) ==
  /\ answer[r] = "none"
  /\ r \in Exports => \A g \in Fetches(r) : pc[g] # "error"

Goto(g, next) == pc' = [pc EXCEPT ![g] = next]

\* The events a goroutine stores.
Writes(g) == IF g[2] = "bulk" THEN ToSet(done[g[1]]) ELSE {g[2]}

EndsWith(g, result) ==
  /\ Goto(g, result)
  /\ cut' = IF pc[g] = "rsvps" THEN cut \cup Writes(g) ELSE cut
  /\ IF call[g].pc = "insert" THEN T!InsertFails(g) ELSE UNCHANGED <<name, call>>
  /\ UNCHANGED <<row, rsvp, got, done, answer, history>>

\* Mutant: a failed event is left out like an unsupported one.
SkipFailed(g) == EndsWith(g, IF g[1] \in Exports THEN "skipped" ELSE "error")

\* An error is the answer of the goroutine, also that of storing the event,
\* which fetchEvent logs and then returns in place of what it had fetched.
Stops(g) == EndsWith(g, "error")

\* Both lock the same two rows in the opposite order: PostgreSQL fails one.
Deadlocked(g, h) ==
  LET c == T!Chunk(call[g].batch)
      d == T!Chunk(call[h].batch)
  IN  /\ call[g].pc = "insert" /\ call[h].pc = "insert"
      /\ \E i, j \in DOMAIN c, k, l \in DOMAIN d :
           i < j /\ k < l /\ c[i].id = d[l].id /\ c[j].id = d[k].id

Fails(g) ==
  \/ /\ Live(g[1]) /\ Fault
     /\ pc[g] \in {"get", "update", "creator", "members", "rsvps"}
     /\ Stops(g)
  \/ /\ Live(g[1]) /\ UNCHANGED faults
     /\ pc[g] \in {"creator", "members"}
     /\ \E h \in Goroutines : Deadlocked(g, h)
     /\ Stops(g)

\* Of a goroutine whose context has ended the next call fails.
Cancelled(g) ==
  /\ ~Live(g[1])
  /\ pc[g] \notin Terminal
  /\ Stops(g)
  /\ UNCHANGED faults

\* ResolveEventID refuses the address; an export leaves such an event out.
Resolve(r, e) ==
  /\ Live(r)
  /\ pc[<<r, e>>] = "look" /\ e \in Unsupported
  /\ Goto(<<r, e>>, IF r \in Exports THEN "skipped" ELSE "error")
  /\ UNCHANGED <<name, call, row, rsvp, got, done, answer, faults, cut, history>>

\* DB.GetEvent: a finished row is final, one that is not is updated as well.
Look(r, e) ==
  /\ Live(r)
  /\ pc[<<r, e>>] = "look" /\ e \notin Unsupported
  /\ Goto(<<r, e>>, CASE row[e] = "finished" -> "read"
                      [] row[e] = "open"     -> "update"
                      [] row[e] = "absent"   -> "get")
  /\ UNCHANGED <<name, call, row, rsvp, got, done, answer, faults, cut, history>>

\* Whatever fails in the database, Campfire is asked.
LookFails(r, e) ==
  /\ Live(r) /\ Fault
  /\ pc[<<r, e>>] \in {"look", "read"} /\ e \notin Unsupported
  /\ Goto(<<r, e>>, "get")
  /\ UNCHANGED <<name, call, row, rsvp, got, done, answer, cut, history>>

\* The goroutine returns its event; an export collects it if it has RSVPs.
Collect(r, e, event) ==
  /\ Goto(<<r, e>>, "ok")
  /\ done' = IF r \in Exports /\ event.rsvps = <<>>
               THEN done ELSE [done EXCEPT ![r] = Append(@, e)]

UnmarshalEvent(r, e) ==
  /\ Live(r)
  /\ pc[<<r, e>>] = "read"
  /\ got' = [got EXCEPT ![<<r, e>>] = InDatabase(e)]
  /\ early' = IF Complete(e, rsvp[e]) THEN early ELSE early \cup {<<r, e>>}
  /\ Collect(r, e, InDatabase(e))
  /\ UNCHANGED <<name, call, row, rsvp, answer, faults, cut, shadowed>>

GetEvent(r, e) ==
  /\ Live(r)
  /\ got' = [got EXCEPT ![<<r, e>>] = OnCampfire(e)]
  /\ \/ /\ pc[<<r, e>>] = "get"
        /\ Collect(r, e, OnCampfire(e))
        /\ UNCHANGED <<name, call>>
     \/ /\ pc[<<r, e>>] = "update"
        /\ T!InsertMembers(<<r, e>>, <<Named(Organizer)>>)
        /\ Goto(<<r, e>>, "creator")
        /\ UNCHANGED done
  /\ UNCHANGED <<row, rsvp, answer, faults, cut, history>>

-----------------------------------------------------------------------------
(* Storing events: ProcessEventImport of a goroutine, bulkProcessEvents. *)

Upsert(g) ==
  /\ Live(g[1])
  /\ pc[g] \in {"creator", "members"}
  /\ T!InsertChunk(g) \/ T!Commit(g)
  /\ UNCHANGED <<row, rsvp, locals, faults, cut, history>>

InsertListed(g) ==
  /\ Live(g[1])
  /\ pc[g] = "creator" /\ call[g].pc = "committed"
  /\ T!InsertMembers(g, AddMissing(got[g].members, Entries(Placeholder, got[g].rsvps)))
  /\ Goto(g, "members")
  /\ UNCHANGED <<row, rsvp, got, done, answer, faults, cut, history>>

InsertEvents(g) ==
  /\ Live(g[1])
  /\ pc[g] = "members" /\ call[g].pc = "committed"
  /\ row' = [e \in Events |-> IF e \notin Writes(g) THEN row[e]
                              ELSE IF e \in Ended THEN "finished" ELSE "open"]
  /\ Goto(g, "rsvps")
  /\ UNCHANGED <<name, call, rsvp, got, done, answer, faults, cut, history>>

\* Mutant: the loop over the RSVPs is that of the first event of the club.
InsertFirstRSVPs(g) ==
  /\ Live(g[1])
  /\ pc[g] = "rsvps"
  /\ LET first == IF g[2] = "bulk" THEN Head(done[g[1]]) ELSE g[2]
     IN  rsvp' = [rsvp EXCEPT ![first] = @ \cup ToSet(got[<<g[1], first>>].rsvps)]
  /\ IF g[2] = "bulk" THEN Goto(g, "ok") /\ UNCHANGED done
                      ELSE Collect(g[1], g[2], got[g])
  /\ UNCHANGED <<name, call, row, got, answer, faults, cut, history>>

InsertEventRSVPs(g) ==
  /\ Live(g[1])
  /\ pc[g] = "rsvps"
  /\ rsvp' = [e \in Events |-> IF e \in Writes(g) THEN rsvp[e] \cup ToSet(got[<<g[1], e>>].rsvps)
                               ELSE rsvp[e]]
  /\ IF g[2] = "bulk" THEN Goto(g, "ok") /\ UNCHANGED done
                      ELSE Collect(g[1], g[2], got[g])
  /\ UNCHANGED <<name, call, row, got, answer, faults, cut, history>>

\* The members bulkProcessEvents meets in the i-th event.
Meets(r, i) ==
  LET event == got[<<r, done[r][i]>>]
  IN  event.members \o (IF i = 1 THEN <<Named(Organizer)>> ELSE <<>>)
        \o Entries(Placeholder, event.rsvps)

\* The members of all events, a name never replacing an earlier placeholder.
Collecting(r) ==
  LET all[i \in 0..Len(done[r])] ==
        IF i = 0 THEN <<>> ELSE AddMissing(all[i - 1], Meets(r, i))
  IN  all

AllMembers(r) == Collecting(r)[Len(done[r])]

BulkProcessEvents(r) ==
  /\ pc[<<r, "bulk">>] = "wait"
  /\ \A g \in Fetches(r) : pc[g] = "ok"
  /\ done[r] # <<>>
  /\ T!InsertMembers(<<r, "bulk">>, AllMembers(r))
  /\ Goto(<<r, "bulk">>, "members")
  /\ shadowed' = shadowed \cup
       {m \in Members : /\ \E e \in ToSet(done[r]) : Named(m) \in ToSet(got[<<r, e>>].members)
                        /\ Named(m) \notin ToSet(AllMembers(r))}
  /\ UNCHANGED <<row, rsvp, got, done, answer, faults, cut, early>>

-----------------------------------------------------------------------------
(* Answers. *)

Export(r) ==
  /\ answer[r] = "none"
  /\ \A g \in Fetches(r) : pc[g] \in Terminal
  /\ answer' = [answer EXCEPT ![r] =
                  IF done[r] # <<>> /\ \A g \in Fetches(r) : pc[g] # "error"
                    THEN "exported" ELSE "failed"]
  /\ UNCHANGED <<name, call, row, rsvp, pc, got, done, faults, cut, history>>

Import(r) ==
  /\ answer[r] = "none"
  /\ \/ /\ pc[<<r, "bulk">>] = "ok"
        /\ answer' = [answer EXCEPT ![r] = "imported"]
     \/ /\ \A g \in Fetches(r) : pc[g] \in Terminal
        /\ \/ \E g \in Fetches(r) : pc[g] = "error"
           \/ pc[<<r, "bulk">>] = "error"
        /\ answer' = [answer EXCEPT ![r] = "failed"]
  /\ UNCHANGED <<name, call, row, rsvp, pc, got, done, faults, cut, history>>

\* The browser leaves: imports detach from the request, exports do not.
Leave(r) ==
  /\ answer[r] = "none" /\ Fault
  /\ answer' = [answer EXCEPT ![r] = "left"]
  /\ UNCHANGED <<name, call, row, rsvp, pc, got, done, cut, history>>

Next ==
  \/ \E r \in Requests, e \in Events :
       /\ e \in Asked[r]
       /\ \/ Resolve(r, e) \/ Look(r, e) \/ LookFails(r, e)
          \/ UnmarshalEvent(r, e) \/ GetEvent(r, e)
          \/ InsertListed(<<r, e>>) \/ Cancelled(<<r, e>>)
  \/ \E g \in Goroutines :
       Fails(g) \/ Upsert(g) \/ InsertEvents(g) \/ InsertEventRSVPs(g)
  \/ \E r \in Exports : Export(r) \/ Leave(r)
  \/ \E r \in Imports : BulkProcessEvents(r) \/ Import(r)

Spec == Init /\ [][Next]_vars

-----------------------------------------------------------------------------
(* Properties. *)

\* InsertMembers (members.go:89), called by all these goroutines at once.
BatchStored == T!BatchStored
NamesKept == T!NamesKept

\* What an export answers is all of what was asked: every event with RSVPs
\* that Campfire supports, every RSVP, and its member if Campfire lists it
\* (getAllEvents and getRecords, export.go).  Two things are lost on the way: a finished
\* event read before its RSVPs were there, and a name a bulk import dropped.
ExportComplete ==
  \A r \in Exports : answer[r] = "exported" =>
    \A e \in Asked[r] \ Unsupported :
      RSVPs[e] # <<>> /\ <<r, e>> \notin early =>
        /\ e \in ToSet(done[r])
        /\ Complete(e, ToSet(got[<<r, e>>].rsvps))
        /\ \A m \in (ToSet(Listed[e]) \cap ToSet(RSVPs[e])) \ shadowed :
             FindMember(m, got[<<r, e>>])

\* A row that is marked as finished is never fetched again, so its RSVPs are
\* all there, or someone is about to store them, or the import that should
\* have was stopped just then (ProcessEventImport, event_importer.go:194).
FinishedComplete ==
  \A e \in Events :
    row[e] = "finished" /\ ~Complete(e, rsvp[e]) =>
      \/ e \in cut
      \/ \E g \in Goroutines : pc[g] = "rsvps" /\ e \in Writes(g)
=============================================================================
