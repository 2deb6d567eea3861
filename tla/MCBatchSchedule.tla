--------------------------- MODULE MCBatchSchedule ---------------------------
(***************************************************************************)
(* BatchSchedule on a batch whose outputs take another name when theirs is *)
(* taken.                                                                  *)
(***************************************************************************)
EXTENDS BatchSchedule

MCUniquify == [policy : {"uniquify"}, retry_failed : {FALSE}]
=============================================================================
