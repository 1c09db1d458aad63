------------------------------ MODULE Statistics ------------------------------
(***************************************************************************)
(* The pages of statistics: those of a club (server/web/tracker/           *)
(* club_stats.go, server/web/models/calc.go, internal/xtime/quarter.go)    *)
(* and those of an event that several clubs held meetups for               *)
(* (server/web/tracker/event_stats.go).  A page is computed from several   *)
(* queries, each of which sees the tables as they are then, while imports  *)
(* write clubs and RSVPs.                                                  *)
(*                                                                         *)
(* Time counts days, and months are runs of days, so that a range has the  *)
(* same number of days, elapsed and remaining, as in the code, which       *)
(* subtracts dates and divides by 24 hours.  Rates are left out.           *)
(***************************************************************************)
EXTENDS Integers, Sequences, FiniteSets, FiniteSetsExt, Functions

CONSTANTS
  Clubs,
  Club,          \* the club whose page is requested
  Members,
  Events,        \* meetups: [club, live, patterns, creator, ca, day], where
                 \* patterns are the categories one of whose patterns the
                 \* name of the live event contains
  Ordered,       \* orderedEventCategories
  Excluded,      \* DigitalCodeExcludedCategories
  LiveEvents,    \* the live events of the configured event, one for each day
  Firsts,        \* the first day of each month of two quarters, and of the next
  FirstCodes,    \* the first month with digital codes
  OneMonth,      \* the last month whose codes count three months
  Todays,        \* the days requests are made on
  Answers,       \* the statuses in event_rsvps before the first request
  Pages,         \* parameters of the page of a club: [quarter, creator, ca]
  Goals,         \* check-ins for each league
  Garbage,       \* what converting an infinity or a NaN to int may yield
  MaxWrites      \* bound on the writes of imports

Statuses == {"NONE", "DECLINED", "ACCEPTED", "CHECKED_IN"}
Months == 1..6
Creators == {e.creator : e \in Events}
Categories == {Ordered[i] : i \in DOMAIN Ordered} \cup {"Other"}
Quarters == {"q1", "q2"}
Unset == "unset"   \* an empty parameter

ASSUME StatisticsAssumption ==
  /\ IsFiniteSet(Events) /\ IsFiniteSet(Members)
  /\ Club \in Clubs
  /\ \A e \in Events : e.club \in Clubs /\ e.ca \in BOOLEAN
  /\ \A i \in Months : Firsts[i] < Firsts[i + 1]
  /\ Firsts \in [1..7 -> Int] /\ Ordered \in Seq(STRING)
  /\ FirstCodes \in Int /\ FirstCodes > 3 /\ OneMonth \in Months
  /\ \A d \in Todays : d \in Int /\ Firsts[1] <= d /\ d < Firsts[7]
  /\ Pages \subseteq [quarter : Quarters \cup {Unset}, creator : Creators \cup {Unset}, ca : BOOLEAN]
  /\ Answers \subseteq Statuses
  /\ Unset \notin Creators /\ Creators \cap Quarters = {}
  /\ Garbage \subseteq Int /\ Goals \subseteq Int

VARIABLES
  clubs,     \* the table clubs
  rsvps,     \* the table event_rsvps: the status of each member at each event
  today,
  pc,        \* what the request does next
  request,   \* its parameters
  totals,    \* accepted and check-ins of the club, as read
  counts,    \* accepted and check-ins of each event, as read
  months,    \* check-ins of each month of digital codes, as read
  league,    \* check-ins of the quarter and their projection
  refs,      \* the clubs in the list, as read
  rows,      \* [club, live, member, rank], as read
  clean,     \* no import has written since the request began
  writes     \* number of writes so far

tables == <<clubs, rsvps>>
results == <<totals, counts, months, league, refs, rows>>
vars == <<tables, today, pc, request, results, clean, writes>>

None == [accepted |-> 0, checkIns |-> 0]
NoLeague == [total |-> 0, projected |-> 0, remaining |-> 0, day |-> 0]
NoRequest == [range |-> [from |-> 0, to |-> 0], quarter |-> Unset, creator |-> Unset,
              ca |-> FALSE, month |-> 0, selected |-> {}]

-----------------------------------------------------------------------------
(* Dates. *)

MonthOf(d) == CHOOSE i \in Months : Firsts[i] <= d /\ d < Firsts[i + 1]

\* The months of a quarter, by its value or that of today.
QuarterStart(q) ==
  CASE q = "q1" -> 1
    [] q = "q2" -> 4
    [] OTHER -> IF MonthOf(today) < 4 THEN 1 ELSE 4

\* A range of days runs to the last second of its last day.
MonthsFrom(i, j) == [from |-> Firsts[i], to |-> Firsts[j] - 1]

GetRangeFromQuarter(q) == MonthsFrom(QuarterStart(q), QuarterStart(q) + 3)

\* The quarters that have begun are offered.
GetQuarters == {q \in Quarters : Firsts[QuarterStart(q)] <= today}

AllTime == [from |-> Firsts[1], to |-> Firsts[7]]

-----------------------------------------------------------------------------
(* Projection. *)

\* Whole days between the ends: one second short of the number of days.
NumDays(r) == r.to - r.from

\* Mutant: today is not counted to its end.
DaysElapsedSinceMidnight(r) == today - r.from - 1

DaysElapsed(r) == today - r.from

DaysRemaining(r) == Max({NumDays(r) - DaysElapsed(r), 0})

\* Rounded quotient of naturals.
Round(n, d) == (2 * n + d) \div (2 * d)

\* What CalcCAProjectedCheckIns may return.  On the first day of a range it
\* divides by zero, and converts an infinity or a NaN to int.
CalcCAProjectedCheckIns(r, n) ==
  IF NumDays(r) = 0 \/ DaysRemaining(r) = 0 THEN {n}
  ELSE IF DaysElapsed(r) = 0 THEN Garbage
  ELSE {Round(n * NumDays(r), DaysElapsed(r))}

-----------------------------------------------------------------------------
(* Queries. *)

\* event_creator_id is compared unless the parameter is empty.
Matches(e, r, ca, creator) ==
  /\ e.club = Club
  /\ e.day \in r.from .. r.to
  /\ ca => e.ca
  /\ creator # Unset => e.creator = creator

Accepted(e) == Cardinality({m \in Members : rsvps[e][m] \in {"ACCEPTED", "CHECKED_IN"}})
CheckIns(e) == Cardinality({m \in Members : rsvps[e][m] = "CHECKED_IN"})

GetClubTotalCheckInsAccepted(r, ca, creator) ==
  LET E == {e \in Events : Matches(e, r, ca, creator)}
  IN [accepted |-> SumFunction([e \in E |-> Accepted(e)]),
      checkIns |-> SumFunction([e \in E |-> CheckIns(e)])]

GetClubTotalExcluding(r) ==
  LET E == {e \in Events : Matches(e, r, TRUE, Unset) /\ e.patterns \cap Excluded = {}}
  IN SumFunction([e \in E |-> CheckIns(e)])

\* Mutant: the filter by creator is missing.
CountsOfAllCreators(ca, creator) ==
  [e \in {e \in Events : Matches(e, AllTime, ca, Unset)} |->
     [accepted |-> Accepted(e), checkIns |-> CheckIns(e)]]

\* Events that nobody answered have no row.
GetEventCheckInAcceptedCounts(ca, creator) ==
  [e \in {e \in Events : Matches(e, AllTime, ca, creator)
                           /\ \E m \in Members : rsvps[e][m] # "NONE"} |->
     [accepted |-> Accepted(e), checkIns |-> CheckIns(e)]]

BestRank(ranks) == Max(ranks)

StatusRank(s) == CASE s = "CHECKED_IN" -> 2 [] s = "ACCEPTED" -> 1 [] OTHER -> 0

\* One row for each club, live event and member, whatever the meetups.
GetLiveEventRSVPs(C) ==
  LET Ranks(c, l, m) ==
        {StatusRank(rsvps[e][m]) :
           e \in {f \in Events : f.club = c /\ f.live = l /\ rsvps[f][m] # "NONE"}}
  IN {[club |-> k[1], live |-> k[2], member |-> k[3],
       rank |-> BestRank(Ranks(k[1], k[2], k[3]))] :
        k \in {k \in C \X LiveEvents \X Members : Ranks(k[1], k[2], k[3]) # {}}}

-----------------------------------------------------------------------------
(* Imports. *)

InsertClub(c) ==
  /\ c \notin clubs
  /\ writes < MaxWrites
  /\ clubs' = clubs \cup {c}
  /\ clean' = FALSE /\ writes' = writes + 1
  /\ UNCHANGED <<rsvps, today, pc, request, results>>

UpsertRSVP(e, m, s) ==
  /\ e.club \in clubs
  /\ writes < MaxWrites
  /\ s # rsvps[e][m] /\ s # "NONE"
  /\ rsvps' = [rsvps EXCEPT ![e][m] = s]
  /\ clean' = FALSE /\ writes' = writes + 1
  /\ UNCHANGED <<clubs, today, pc, request, results>>

NextDay ==
  /\ today + 1 \in Todays
  /\ today' = today + 1
  /\ UNCHANGED <<tables, pc, request, results, clean, writes>>

-----------------------------------------------------------------------------
(* The page of a club. *)

TrackerClubStats(q, creator, ca) ==
  /\ pc = "idle"
  /\ request' = [NoRequest EXCEPT !.range = GetRangeFromQuarter(q), !.quarter = q,
                                   !.creator = creator, !.ca = ca]
  /\ pc' = "totals" /\ clean' = TRUE
  /\ UNCHANGED <<tables, today, results, writes>>

ReadTotals ==
  /\ pc = "totals"
  /\ totals' = GetClubTotalCheckInsAccepted(AllTime, request.ca, request.creator)
  /\ pc' = "counts"
  /\ UNCHANGED <<tables, today, request, counts, months, league, refs, rows, clean, writes>>

\* calculateDigitalCodes starts with the month after this one.
ReadCounts ==
  /\ pc = "counts"
  /\ counts' = GetEventCheckInAcceptedCounts(request.ca, request.creator)
  /\ pc' = "months" /\ request' = [request EXCEPT !.month = MonthOf(today) + 1]
  /\ UNCHANGED <<tables, today, totals, months, league, refs, rows, clean, writes>>

\* The check-ins that earn the codes of month i.
CodesRange(i) == MonthsFrom(IF i > OneMonth THEN i - 1 ELSE i - 3, i)

\* Back to the first month with codes.
ReadMonth ==
  /\ pc = "months"
  /\ LET i == request.month - Len(months) IN
       IF i >= FirstCodes
         THEN /\ \E p \in CalcCAProjectedCheckIns(CodesRange(i), GetClubTotalExcluding(CodesRange(i))) :
                   months' = Append(months,
                               [month |-> i, day |-> today, predicted |-> p,
                                checkIns |-> GetClubTotalExcluding(CodesRange(i))])
              /\ pc' = pc
         ELSE pc' = "league" /\ UNCHANGED months
  /\ UNCHANGED <<tables, today, request, totals, counts, league, refs, rows, clean, writes>>

\* calculateLeagueGoals is called with the quarter in the place of the creator.
ReadLeague ==
  /\ pc = "league"
  /\ LET r == request.range
         n == GetClubTotalCheckInsAccepted(r, TRUE, request.quarter).checkIns
     IN \E p \in CalcCAProjectedCheckIns(r, n) :
          league' = [total |-> n, projected |-> p, remaining |-> DaysRemaining(r),
                     day |-> today]
  /\ pc' = "club_page"
  /\ UNCHANGED <<tables, today, request, totals, counts, months, refs, rows, clean, writes>>

\* The patterns overlap: the first category in the order has the event.
eventCategoryFromName(e) ==
  LET fits == {i \in DOMAIN Ordered : Ordered[i] \in e.patterns}
  IN  IF fits = {} THEN "Other" ELSE Ordered[Min(fits)]

\* The categories of the page.
EventCategory(c) ==
  LET E == {e \in DOMAIN counts : eventCategoryFromName(e) = c}
  IN [accepted |-> SumFunction([e \in E |-> counts[e].accepted]),
      checkIns |-> SumFunction([e \in E |-> counts[e].checkIns])]

-----------------------------------------------------------------------------
(* The page of an event. *)

\* The clubs are those the URL names, whether they have a row or not.
TrackerEventStats(S) ==
  /\ pc = "idle"
  /\ S # {}
  /\ request' = [NoRequest EXCEPT !.selected = S]
  /\ pc' = "both" /\ clean' = TRUE
  /\ UNCHANGED <<tables, today, results, writes>>

\* The two queries run in goroutines of their own.
ReadClubOptions ==
  /\ pc \in {"both", "options"}
  /\ refs' = clubs
  /\ pc' = IF pc = "both" THEN "rsvps" ELSE "event_page"
  /\ UNCHANGED <<tables, today, request, totals, counts, months, league, rows, clean, writes>>

ReadRSVPs ==
  /\ pc \in {"both", "rsvps"}
  /\ rows' = GetLiveEventRSVPs(request.selected)
  /\ pc' = IF pc = "both" THEN "options" ELSE "event_page"
  /\ UNCHANGED <<tables, today, request, totals, counts, months, league, refs, clean, writes>>

Selected == request.selected \cap refs

\* The best rank of m at live event l among rows R, 0 without any.
RankAt(R, l, m) ==
  Max({0} \cup {w.rank : w \in {w \in R : w.live = l /\ w.member = m}})

CheckedInDays(R, m) == {l \in LiveEvents : RankAt(R, l, m) >= 2}

\* Mutant: a day counts once for each club.
ClubStatsPerRow(R) ==
  LET Number(m) == Cardinality({w \in R : w.member = m /\ w.rank >= 2})
  IN [checkIns |-> {m \in Members : Number(m) > 0},
      accepted |-> {m \in Members : \E l \in LiveEvents : RankAt(R, l, m) >= 1},
      attendedAll |-> {m \in Members : Number(m) = Cardinality(LiveEvents)}]

\* Members who checked in, who accepted, and who checked in on all days.
BuildClubStats(R) ==
  [checkIns |-> {m \in Members : CheckedInDays(R, m) # {}},
   accepted |-> {m \in Members : \E l \in LiveEvents : RankAt(R, l, m) >= 1},
   attendedAll |-> {m \in Members : CheckedInDays(R, m) = LiveEvents}]

Combined == BuildClubStats(rows)
PerClub(c) == BuildClubStats({w \in rows : w.club = c})

\* Mutant: who accepted was there.
WhereAccepted(m) == {c \in Selected : \E w \in rows : w.club = c /\ w.member = m /\ w.rank >= 1}

\* The clubs a member checked in at; the members with any make the rows.
BuildWhere(m) == {c \in Selected : \E w \in rows : w.club = c /\ w.member = m /\ w.rank >= 2}

-----------------------------------------------------------------------------

\* The page is rendered and the results are dropped.
Render ==
  /\ pc \in {"club_page", "event_page"}
  /\ pc' = "idle" /\ request' = NoRequest /\ clean' = TRUE
  /\ totals' = None /\ counts' = <<>> /\ months' = <<>> /\ league' = NoLeague
  /\ refs' = {} /\ rows' = {}
  /\ UNCHANGED <<tables, today, writes>>

Init ==
  /\ clubs \in {C \in SUBSET Clubs : Club \in C}
  /\ rsvps \in [Events -> [Members -> Answers]]
  /\ \A e \in Events, m \in Members : e.club \notin clubs => rsvps[e][m] = "NONE"
  /\ today \in Todays
  /\ pc = "idle" /\ request = NoRequest /\ clean = TRUE
  /\ totals = None /\ counts = <<>> /\ months = <<>> /\ league = NoLeague
  /\ refs = {} /\ rows = {}
  /\ writes = 0

Next ==
  \/ \E c \in Clubs : InsertClub(c)
  \/ \E e \in Events, m \in Members, s \in Statuses : UpsertRSVP(e, m, s)
  \/ NextDay
  \/ \E p \in Pages :
       p.quarter \in GetQuarters \cup {Unset} /\ TrackerClubStats(p.quarter, p.creator, p.ca)
  \/ ReadTotals \/ ReadCounts \/ ReadMonth \/ ReadLeague
  \/ \E S \in SUBSET Clubs : TrackerEventStats(S)
  \/ ReadClubOptions \/ ReadRSVPs
  \/ Render

Spec == Init /\ [][Next]_vars

-----------------------------------------------------------------------------
(* Properties. *)

Totals == [accepted : Nat, checkIns : Nat]

\* Counts are natural numbers, and the projections too but for the first day.
TypeOK ==
  /\ clubs \subseteq Clubs
  /\ rsvps \in [Events -> [Members -> Statuses]]
  /\ totals \in Totals
  /\ \A e \in DOMAIN counts : counts[e] \in Totals
  /\ league.total \in Nat /\ league.remaining \in Nat
  /\ \A i \in DOMAIN months : months[i].checkIns \in Nat
  /\ \A w \in rows : w.rank \in 0..2

\* The row of totals is the sum of the categories, although they are read by
\* different queries, unless an import writes between these.
CategoriesSumToTotal ==
  pc = "club_page" /\ clean =>
    /\ totals.accepted = SumFunction([c \in Categories |-> EventCategory(c).accepted])
    /\ totals.checkIns = SumFunction([c \in Categories |-> EventCategory(c).checkIns])

\* The tables and what a page has read of them are well typed, and its parts
\* add up.
CountsInv == TypeOK /\ CategoriesSumToTotal

\* Once the last day of a range has come, its projection is what was counted.
\* Before, but for the first day, it never falls behind what is counted: a
\* league that is reached is projected too.
ProjectionCovers ==
  /\ \A i \in DOMAIN months :
       CodesRange(months[i].month).to <= months[i].day =>
         months[i].predicted = months[i].checkIns
  /\ \A i \in DOMAIN months :
       months[i].day # CodesRange(months[i].month).from =>
         months[i].predicted >= months[i].checkIns
  /\ league.day # request.range.from =>
       \A g \in Goals : g <= league.total => g <= league.projected

\* The rows of who checked in where mark the clubs whose own statistics count
\* the member, and have nobody that the combined statistics do not count.  Who
\* is counted there without a row checked in at a club that an import stored
\* after the list of clubs was read, and the RSVPs of which were read.
WhereMatchesCombined ==
  pc = "event_page" =>
    \A m \in Members :
      /\ BuildWhere(m) = {c \in Selected : m \in PerClub(c).checkIns}
      /\ BuildWhere(m) # {} => m \in Combined.checkIns
      /\ m \in Combined.checkIns /\ BuildWhere(m) = {} =>
           ~clean /\ \E c \in clubs \ refs : m \in PerClub(c).checkIns

\* A member attended all days when every day saw the member check in at some
\* meetup of some of the clubs.
AttendedAllIsEveryDay ==
  pc = "event_page" /\ clean =>
    Combined.attendedAll =
      {m \in Members : \A l \in LiveEvents :
         \E e \in Events : /\ e.club \in request.selected /\ e.live = l
                           /\ rsvps[e][m] = "CHECKED_IN"}
=============================================================================
