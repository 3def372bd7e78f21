--------------------------- MODULE MCScheduler ---------------------------
(* Values for model checking SummaryScheduler: the rooms of the retries.     *)
EXTENDS SummaryScheduler, TLC

CONSTANTS a, b, s1, s2

MCRetryRoomSame == <<a, a>>
MCRetryRoomOne == <<a>>
=============================================================================
