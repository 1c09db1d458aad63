---------------------------- MODULE MCStatistics ----------------------------
(* Two clubs and four meetups, months of two days. *)
EXTENDS Statistics

CONSTANTS a, b, m1, sat, sun

Meetup(club, live, patterns, creator, ca, day) ==
  [club |-> club, live |-> live, patterns |-> patterns, creator |-> creator,
   ca |-> ca, day |-> day]

\* Three meetups of club a, two of them on Saturday, and one of club b.
Meetups ==
  {Meetup(a, sat, {"GO Fest", "Friendship Friday"}, "x", TRUE, 4),
   Meetup(a, sat, {"Friendship Friday", "Raid Day"}, "x", TRUE, 5),
   Meetup(a, sun, {}, "y", TRUE, 6),
   Meetup(b, sun, {"GO Fest"}, "x", FALSE, 6)}

CategoryOrder == <<"GO Fest", "Friendship Friday", "Raid Day">>

TwoDayMonths == <<0, 2, 4, 6, 8, 10, 12>>

Page(quarter, creator, ca) == [quarter |-> quarter, creator |-> creator, ca |-> ca]

\* Each parameter left out, and each chosen.
PagesAsked == {Page(Unset, Unset, FALSE), Page("q1", "x", FALSE), Page("q2", Unset, TRUE), Page(Unset, "y", TRUE)}

\* The code is built for amd64, where the conversion yields the least integer,
\* and for arm, where it yields zero or the greatest one.
AnyInt == {-99, 0, 99}
=============================================================================
