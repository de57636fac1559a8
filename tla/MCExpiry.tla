------------------------------ MODULE MCExpiry ------------------------------
(***************************************************************************)
(* Instances of Expiry.  A minute is two instants, a day four, a week      *)
(* eight; 22:00 is at two; notices go out one and three days ahead.        *)
(***************************************************************************)
EXTENDS Expiry, TLC

R(h, c, s, e) == [host |-> h, cloud |-> c, start |-> s, end |-> e]

(* Two hosts of cloud 1 end together; one of them is in cloud 2 later, on a *)
(* self-schedule, which ends at odd seconds.                               *)
Together == 0 :> R(1, 1, 0, 2) @@ 1 :> R(2, 1, 0, 2) @@ 2 :> R(1, 2, 14, 17)

Blank == [kind |-> "extend", cloud |-> None, host |-> None, list |-> <<>>, omit |-> FALSE, id |-> 0, weeks |-> 0, asap |-> FALSE,
          start |-> 0, end |-> 0, fields |-> {}, flags |-> {}, up |-> FALSE]
ExtendCloud == [Blank EXCEPT !.cloud = 1, !.weeks = 1]
ExtendTo == [Blank EXCEPT !.cloud = 1, !.end = 4]
ExtendHost == [Blank EXCEPT !.host = 1, !.end = 6]
ShrinkNow == [Blank EXCEPT !.kind = "shrink", !.host = 2, !.asap = TRUE]
ShrinkTo == [Blank EXCEPT !.kind = "shrink", !.cloud = 2, !.end = 16]
ExtendSelf == [Blank EXCEPT !.cloud = 2, !.weeks = 1]
Mod == [Blank EXCEPT !.kind = "mod", !.id = 1, !.end = 8, !.fields = {"end"}]
BookTwo == [Blank EXCEPT !.kind = "book", !.cloud = 2, !.host = 2, !.start = 4, !.end = 8]
Drop == [Blank EXCEPT !.kind = "remove", !.id = 0]
Clear == [Blank EXCEPT !.kind = "modify", !.cloud = 1, !.flags = {3}]
Raise == [Clear EXCEPT !.flags = {1}, !.up = TRUE]
BookBoth == [BookTwo EXCEPT !.cloud = 1, !.host = None, !.list = <<1, 2>>, !.omit = TRUE, !.start = 6, !.end = 10]
BookTwice == [BookBoth EXCEPT !.cloud = 2, !.list = <<2, 2>>, !.omit = FALSE]
Several == {ExtendTo, Mod, ExtendCloud, ExtendHost, ExtendSelf, ShrinkNow, ShrinkTo, Drop, Clear, Raise,
            BookTwo, BookBoth, BookTwice}

(* Beside the notifier, or before it, one command runs; once a cloud is    *)
(* validated a second one, which shrinks, may follow it; both are without  *)
(* faults, and the second cloud is validated only when there are neither   *)
(* commands nor faults.  Without the notifier there are two commands at    *)
(* once, and faults.  One client always types first: they are alike.       *)
One == CHOOSE k \in Clients : TRUE
Typed == {k \in Clients : pc'[k] # "idle"}
Beside ==
  /\ Cardinality({k \in Typed : pc'[k] \in Busy}) <= 1
  /\ \A k \in Typed \ {One} : my'[k].cmd \in {ShrinkNow, None}
  /\ Typed # {} \/ faults' > 0 => 2 \notin validated'
  /\ Typed # {} => faults' = 0
Alone == n' = Idle /\ validated' = {} /\ \A c \in Clouds, f \in Flags : mails'[c][f] = 0
InOrder == Typed # {} => One \in Typed
Scope == /\ InOrder
         /\ IF Typed = Clients /\ validated = {} THEN Alone ELSE Beside \/ Alone

(* The hypothesis of the theorems about the calendar holds here.           *)
ASSUME CommandsInMinutes == WholeMinutes

ScopedSpec == Init /\ [][Next /\ Scope]_vars /\ WF_vars(Notify)

=============================================================================
