----------------------------- MODULE MCEventSync -----------------------------
(* A small instance of EventSync for TLC. *)
EXTENDS EventSync

CONSTANTS stays, leaves

\* The second version of the event has lost an RSVP of the first.
OneLeaves == << {stays, leaves}, {stays} >>
=============================================================================
