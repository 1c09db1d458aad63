----------------------------- MODULE RaffleDraw -----------------------------
(***************************************************************************)
(* raffleWinners (server/web/tracker/raffle.go): one goroutine per event   *)
(* adds that event's eligible RSVPs to a shared slice of tickets under a   *)
(* mutex, then tickets are drawn and removed one by one.                   *)
(*                                                                         *)
(* A ticket is a member; the order of the slice does not matter since the  *)
(* drawn index is random, so the slice is the number of tickets of each    *)
(* member.                                                                 *)
(***************************************************************************)
EXTENDS Integers, FiniteSets, Sequences

CONSTANTS
  RaffleEvents,  \* the raffle's events
  Attendees,     \* members with an RSVP in one of them
  PrizeCounts    \* values of raffle.WinnerCount

ASSUME DrawAssumption ==
  PrizeCounts \subseteq Int /\ IsFiniteSet(Attendees) /\ IsFiniteSet(RaffleEvents)

\* An RSVP of a member in an event; "UNKNOWN" stands for an RSVP whose member
\* FindMember does not find among the event's members.
Statuses == {"NONE", "DECLINED", "ACCEPTED", "CHECKED_IN", "UNKNOWN"}

VARIABLES
  rsvp,           \* the RSVPs of each event
  winnerCount,    \* raffle.WinnerCount
  onlyCheckedIn,  \* raffle.OnlyCheckedIn
  singleEntry,    \* raffle.SingleEntry
  settled,        \* confirmed winners among pastWinners
  pending,        \* events whose goroutine has not run
  tickets,        \* the slice members, as a count per member
  drawn,          \* the slice winners, in draw order
  phase           \* "collect", "draw", "done" or "failed"

raffle == <<rsvp, winnerCount, onlyCheckedIn, singleEntry, settled>>
drawVars == <<raffle, pending, tickets, drawn, phase>>

DrawTypeOK ==
  /\ rsvp \in [RaffleEvents -> [Attendees -> Statuses]]
  /\ winnerCount \in PrizeCounts
  /\ onlyCheckedIn \in BOOLEAN /\ singleEntry \in BOOLEAN
  /\ settled \subseteq Attendees
  /\ pending \subseteq RaffleEvents
  /\ tickets \in [Attendees -> 0..Cardinality(RaffleEvents)]
  /\ drawn \in Seq(Attendees)
  /\ phase \in {"collect", "draw", "done", "failed"}

DrawInit ==
  /\ rsvp \in [RaffleEvents -> [Attendees -> Statuses]]
  /\ winnerCount \in PrizeCounts
  /\ onlyCheckedIn \in BOOLEAN /\ singleEntry \in BOOLEAN
  /\ settled \in SUBSET Attendees
  /\ pending = RaffleEvents
  /\ tickets = [m \in Attendees |-> 0]
  /\ drawn = <<>>
  /\ phase = "collect"

-----------------------------------------------------------------------------

\* The filter of an RSVP, apart from the single entry rule.
Enters(e, m) ==
  /\ rsvp[e][m] \notin {"NONE", "DECLINED", "UNKNOWN"}
  /\ onlyCheckedIn => rsvp[e][m] = "CHECKED_IN"
  /\ m \notin settled

\* Mutant: the single entry rule is left out.
CollectEveryEntry(e) ==
  /\ phase = "collect"
  /\ e \in pending
  /\ pending' = pending \ {e}
  /\ tickets' = [m \in Attendees |-> IF Enters(e, m) THEN tickets[m] + 1 ELSE tickets[m]]
  /\ phase' = IF pending' = {} THEN "draw" ELSE "collect"
  /\ UNCHANGED <<raffle, drawn>>

\* The goroutine of event e, in its critical section.
CollectEvent(e) ==
  /\ phase = "collect"
  /\ e \in pending
  /\ pending' = pending \ {e}
  /\ tickets' = [m \in Attendees |->
                   IF Enters(e, m) /\ ~(singleEntry /\ tickets[m] > 0)
                     THEN tickets[m] + 1 ELSE tickets[m]]
  /\ phase' = IF pending' = {} THEN "draw" ELSE "collect"
  /\ UNCHANGED <<raffle, drawn>>

\* fetchEvent fails: eg.Wait returns its error and nothing is drawn.
FetchFails ==
  /\ phase = "collect"
  /\ pending # {}
  /\ phase' = "failed"
  /\ UNCHANGED <<raffle, pending, tickets, drawn>>

Exhausted == \A m \in Attendees : tickets[m] = 0
Complete == Exhausted \/ Len(drawn) >= winnerCount
Won == {drawn[i] : i \in 1..Len(drawn)}

\* Mutant: each ticket drawn wins.
DrawTwice(m) ==
  /\ phase = "draw"
  /\ ~Complete
  /\ tickets[m] > 0
  /\ tickets' = [tickets EXCEPT ![m] = @ - 1]
  /\ drawn' = Append(drawn, m)
  /\ UNCHANGED <<raffle, pending, phase>>

\* Mutant: the ticket of a member who has won is put back.
PutBack(m) ==
  /\ phase = "draw"
  /\ ~Complete
  /\ tickets[m] > 0
  /\ tickets' = IF m \in Won THEN tickets ELSE [tickets EXCEPT ![m] = @ - 1]
  /\ drawn' = IF m \in Won THEN drawn ELSE Append(drawn, m)
  /\ UNCHANGED <<raffle, pending, phase>>

\* One turn of the loop: a ticket is removed; the member wins unless one of
\* the member's tickets has won before.
DrawTicket(m) ==
  /\ phase = "draw"
  /\ ~Complete
  /\ tickets[m] > 0
  /\ tickets' = [tickets EXCEPT ![m] = @ - 1]
  /\ drawn' = IF m \in Won THEN drawn ELSE Append(drawn, m)
  /\ UNCHANGED <<raffle, pending, phase>>

\* A negative capacity makes make panic before the first draw.
MakePanics ==
  /\ phase = "draw"
  /\ winnerCount < 0
  /\ phase' = "failed"
  /\ UNCHANGED <<raffle, pending, tickets, drawn>>

Return ==
  /\ phase = "draw"
  /\ winnerCount >= 0
  /\ Complete
  /\ phase' = "done"
  /\ UNCHANGED <<raffle, pending, tickets, drawn>>

DrawNext ==
  \/ \E e \in RaffleEvents : CollectEvent(e)
  \/ FetchFails
  \/ \E m \in Attendees : DrawTicket(m)
  \/ MakePanics
  \/ Return

DrawSpec == DrawInit /\ [][DrawNext]_drawVars /\ WF_drawVars(DrawNext)

-----------------------------------------------------------------------------
(* Properties. *)

Entries(m) == {e \in RaffleEvents : Enters(e, m)}
EntrantPool == {m \in Attendees : Entries(m) # {}}

Outcome == INSTANCE DrawOutcome WITH
             pool <- EntrantPool,
             prizes <- winnerCount,
             outcome <- IF phase = "done" THEN {Won} ELSE {}

\* Collecting tickets event by event and drawing them one by one, repeated
\* tickets included, returns exactly what DrawOutcome allows: nobody wins
\* twice, no prize is left while an entrant has not won, nobody else wins.
ImplementsOutcome == Outcome!Spec

\* Whatever the order of the goroutines, the draw starts with one ticket per
\* event entered, or with one per entrant when only a single entry counts.
TicketsAreEntries ==
  phase = "draw" /\ drawn = <<>> =>
    \A m \in Attendees :
      tickets[m] = IF singleEntry THEN Outcome!Smaller(1, Cardinality(Entries(m)))
                                  ELSE Cardinality(Entries(m))

\* What the goroutines have collected, well typed at every step and right when
\* the draw begins.
DrawInv == DrawTypeOK /\ TicketsAreEntries

\* The loop ends although it may draw tickets of members who already won.
DrawEnds == <>(phase \in {"done", "failed"})
=============================================================================
