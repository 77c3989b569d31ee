--------------------------- MODULE MCHubRequests ---------------------------
(***************************************************************************)
(* HubRequests with a write, two callbacks and queues that one call fills. *)
(***************************************************************************)
EXTENDS HubRequests

CONSTANTS w, c1, c2

MCWrites    == {w}
MCCallbacks == {c1, c2}
=============================================================================
