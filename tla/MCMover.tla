------------------------------ MODULE MCMover ------------------------------
(***************************************************************************)
(* Two hosts with back-to-back schedules in two clouds, one of which       *)
(* wipes; cloud 0 is the spare pool and the home of both hosts.            *)
(***************************************************************************)
EXTENDS Mover

AtSpare == [h \in Hosts |-> Spare]
Slot(h, c, from, to) == [host |-> h, cloud |-> c, start |-> from, end |-> to]

(* Both hosts leave the pool; host 1 goes on to where host 2 is.           *)
TwoMoves == {Slot(1, 1, 0, 1), Slot(1, 2, 1, 2), Slot(2, 2, 0, 2)}
=============================================================================
