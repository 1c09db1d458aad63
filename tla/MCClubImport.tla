---------------------------- MODULE MCClubImport ----------------------------
(* Small instances of ClubImport for TLC. *)
EXTENDS ClubImport

CONSTANTS e1, e2, e3, stuck

\* Three pages, two of which the last is empty, a club without past events,
\* and a club with an event whose members cannot be fetched.
SmallArchives == {<< <<e1, e2>>, <<e2>>, <<e3>> >>, << <<e2>>, <<>> >>, << <<>> >>, << <<stuck>> >>}

\* Two pages, of a club imported by itself.
TwoPages == {<< <<e1, e2>>, <<e3>> >>}
=============================================================================
