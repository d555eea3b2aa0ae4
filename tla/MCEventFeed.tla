----------------------------- MODULE MCEventFeed -----------------------------
(* Small instances of EventFeed for TLC.                                   *)
EXTENDS EventFeed

CONSTANTS p1, p2

MCTwo == {p1, p2}

=============================================================================
