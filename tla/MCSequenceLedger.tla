-------------------------- MODULE MCSequenceLedger --------------------------
(* Three process incarnations that may start, race for the lock, die and     *)
(* start again any number of times, and six sequence numbers delivered in   *)
(* any order and any number of times.                                        *)
EXTENDS SequenceLedger

CONSTANTS p1, p2, p3

MCProcess == {p1, p2, p3}
=============================================================================
