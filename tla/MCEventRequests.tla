--------------------------- MODULE MCEventRequests ---------------------------
(* Two events share their members but list them differently; one has ended. *)
EXTENDS EventRequests

CONSTANTS o, m1, m2, nobody, e1, e2, e3, x, i

MCListed == (e1 :> <<m1>>) @@ (e2 :> <<m2, m1>>) @@ (e3 :> <<>>)
MCRSVPs == (e1 :> <<m1, m2>>) @@ (e2 :> <<m2, m1>>) @@ (e3 :> <<>>)
MCBefore == (e1 :> {m2}) @@ (e2 :> {}) @@ (e3 :> {})
MCAsked == (x :> {e1, e2, e3}) @@ (i :> {e1, e2})
=============================================================================
