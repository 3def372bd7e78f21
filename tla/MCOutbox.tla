---------------------------- MODULE MCOutbox ----------------------------
(* Two deliveries, for the runs that need a second row.                    *)
EXTENDS Outbox

CONSTANTS a, b

MCDeliveries == {a, b}
=============================================================================
