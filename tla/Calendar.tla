------------------------------ MODULE Calendar ------------------------------
(***************************************************************************)
(* What the server promises about the calendar, without requests, locks or *)
(* transactions: rows are added when they fit, rows are removed, rows are  *)
(* ended, and nothing else ever happens to a row.                          *)
(***************************************************************************)
EXTENDS Intervals

CONSTANT Rows0    \* the rows of the calendar at the start
VARIABLES now, schedules

calendar == <<now, schedules>>

Init ==
  /\ now = 0
  /\ schedules = Rows0

(* Every row that stays keeps its place.                                   *)
Unmoved(ids) == \A s \in ids : schedules'[s] = schedules[s]

(* New rows, each compatible with every other row, old or new.             *)
Reserve ==
  /\ DOMAIN schedules \subseteq DOMAIN schedules'
  /\ Unmoved(DOMAIN schedules)
  /\ \A s \in DOMAIN schedules' \ DOMAIN schedules :
       /\ schedules'[s].start < schedules'[s].end
       /\ \A t \in DOMAIN schedules' \ {s} : Compatible(schedules'[s], schedules'[t], now)
  /\ UNCHANGED now

(* Some rows end, at the present or, when the answer was slow, before it.  *)
Cut ==
  /\ DOMAIN schedules' = DOMAIN schedules
  /\ \A s \in DOMAIN schedules :
       \/ Unmoved({s})
       \/ /\ schedules'[s] = [schedules[s] EXCEPT !.end = schedules'[s].end]
          /\ schedules[s].start <= schedules'[s].end
          /\ schedules'[s].end <= now
  /\ UNCHANGED now

Remove ==
  /\ DOMAIN schedules' \subseteq DOMAIN schedules
  /\ Unmoved(DOMAIN schedules')
  /\ UNCHANGED now

Advance == now' > now /\ UNCHANGED schedules

Next == Reserve \/ Cut \/ Remove \/ Advance

Spec == Init /\ [][Next]_calendar
=============================================================================
