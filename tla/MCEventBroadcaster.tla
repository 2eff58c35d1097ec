-------------------------- MODULE MCEventBroadcaster --------------------------
(* Model values and bounds for EventBroadcaster. *)
EXTENDS EventBroadcaster

CONSTANTS c1, c2, b1, b2, k1, k2

MCClients == {c1, c2}
MCSenders == {b1, b2}
MCStoppers == {k1, k2}
MCCap == 1
=============================================================================
