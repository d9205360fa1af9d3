--------------------------- MODULE MCScheduleTransfer ---------------------------
(***************************************************************************)
(* Two requests; nothing tells them apart, and nothing checked is liveness. *)
(***************************************************************************)
EXTENDS ScheduleTransfer

RequestsAreAlike == Permutations(Requests)
================================================================================
