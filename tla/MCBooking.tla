----------------------------- MODULE MCBooking -----------------------------
(***************************************************************************)
(* Small databases and small sets of request bodies for Booking.  Host and *)
(* cloud names are the numbers 1 and 2; cloud 0 is the spare pool.         *)
(***************************************************************************)
EXTENDS Booking, TLC

CONSTANTS r1, r2, r3, alice, bob

RequestSymmetry == Permutations(Requests)

(* A request body with the arguments most kinds leave out.                 *)
Plain == [kind |-> "terminate", cloud |-> AnyCloud, hosts |-> <<>>, start |-> 0, end |-> 0,
          fresh |-> FALSE, user |-> alice, admin |-> TRUE, self |-> FALSE, active |-> FALSE,
          fields |-> {}]
Create(c, h, from, to) ==
  [Plain EXCEPT !.kind = "create", !.cloud = c, !.hosts = <<h>>, !.start = from, !.end = to]
Batch(c, hs, from, to, new) ==
  [Plain EXCEPT !.kind = "batch", !.cloud = c, !.hosts = hs, !.start = from, !.end = to,
                !.fresh = new]
Row(h, a, from, to) == [host |-> h, assignment |-> a, start |-> from, end |-> to]
Open(c, user, by_user, notified) ==
  [cloud |-> c, owner |-> user, self |-> by_user, active |-> TRUE, pre |-> notified]

AssignTo(c, user) == [Plain EXCEPT !.kind = "assign", !.cloud = c, !.user = user]
SelfAssign(c, user) ==
  [Plain EXCEPT !.kind = "self", !.cloud = c, !.user = user, !.admin = FALSE]
Patch(columns, from, to) ==
  [Plain EXCEPT !.kind = "patch", !.fields = columns, !.start = from, !.end = to]

Amend(columns, c) == [Plain EXCEPT !.kind = "amend", !.fields = columns, !.cloud = c]

(* Cloud 1 has an assignment and one booked host, cloud 2 is empty; cloud  *)
(* 3 is bob's, who made its assignment himself.                            *)
OneOpen == 1 :> Open(1, alice, FALSE, TRUE)
OneRow == 2 :> Row(1, 1, 0, 2)
TwoOpen == OneOpen @@ 3 :> Open(3, bob, TRUE, TRUE)

(* Administrators at work, in clouds 1 and 2 and with hosts 1 and 2.       *)
AdminBodies ==
  {Create(1, 1, 2, 3), Create(1, 2, 0, 2), Batch(1, <<2, 1>>, 2, 4, FALSE),
   Batch(2, <<1, 2>>, 1, 3, TRUE), Batch(2, <<2>>, 3, 4, TRUE), Plain,
   [Plain EXCEPT !.kind = "delete"]}

(* Users at work, in cloud 3: a second user may book into it.              *)
UserBodies ==
  {[Create(3, h, 0, 0) EXCEPT !.admin = FALSE] : h \in {2, 3}} \union
  {SelfAssign(3, alice), SelfAssign(AnyCloud, bob), AssignTo(3, alice),
   [Plain EXCEPT !.user = bob, !.admin = FALSE]}

(* Three administrators, or three users.                                   *)
AllBodies == AdminBodies \union UserBodies
AllFrom(bodies) == \A r \in Requests : body[r] \in bodies \union {None}
ScopedSpec == Init /\ [][Next /\ (AllFrom(AdminBodies) \/ AllFrom(UserBodies))']_vars

(* Bodies of every kind, two requests at a time.                           *)
MixedBodies ==
  {Create(1, 1, 2, 3), Batch(1, <<2, 1>>, 2, 4, FALSE), Batch(2, <<1, 2>>, 1, 3, TRUE),
   Patch({"end"}, 0, 3), Patch({"start", "end"}, 3, 1), SelfAssign(AnyCloud, bob),
   AssignTo(1, bob), Amend({"active"}, AnyCloud), Amend({"cloud", "owner"}, 2), Plain,
   [Plain EXCEPT !.kind = "delete"]}
=============================================================================
