SPECIFICATION Spec
CONSTANTS
  a = a
  b = b
  m1 = m1
  sat = sat
  sun = sun
  Clubs = {a, b}
  Club = a
  Members = {m1}
  Events <- Meetups
  Ordered <- CategoryOrder
  Excluded = {"Friendship Friday"}
  LiveEvents = {sat, sun}
  Firsts <- TwoDayMonths
  FirstCodes = 4
  OneMonth = 4
  Todays = {6, 7}
  Answers = {"NONE", "ACCEPTED", "CHECKED_IN"}
  Pages <- PagesAsked
  Goals = {1, 2}
  Garbage <- AnyInt
  MaxWrites = 2
INVARIANTS CountsInv ProjectionCovers WhereMatchesCombined AttendedAllIsEveryDay
