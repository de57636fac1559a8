---------------------------- MODULE MCLifecycle ----------------------------
(***************************************************************************)
(* Small calendars for Lifecycle.  Cloud 0 is the spare pool and the home  *)
(* of the hosts, cloud 1 wipes and cloud 2 does not.                       *)
(***************************************************************************)
EXTENDS Lifecycle

AtSpare == [h \in Hosts |-> Spare]
Slot(h, c, from, to) == [host |-> h, cloud |-> c, start |-> from, end |-> to]

OneCloud == {Slot(1, 1, 0, 3), Slot(2, 1, 0, 3)}
OneAfterTheOther == {Slot(1, 2, 0, 1), Slot(1, 1, 1, 3)}
=============================================================================
