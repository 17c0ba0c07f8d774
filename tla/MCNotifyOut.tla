---------------------------- MODULE MCNotifyOut ----------------------------
(* Small instances of NotifyOut for TLC. *)
EXTENDS NotifyOut

CONSTANTS z1, z2

(* z1 has two slaves, so that the dispatcher moves from one to the next. *)
SomeSlaves == [z \in Zones |-> IF z = z1 THEN 2 ELSE 1]
=============================================================================
