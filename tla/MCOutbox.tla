------------------------------ MODULE MCOutbox ------------------------------
(* A leader and its standby, two events with two handlers each, one replay.   *)
EXTENDS Outbox

CONSTANTS h1, h2

TwoHandlers == <<h1, h2>>
=============================================================================
