----------------------------- MODULE Intervals -----------------------------
(***************************************************************************)
(* The calendar arithmetic of one host.  A schedule row occupies the       *)
(* half-open interval [start, end).  Times are natural numbers: instants   *)
(* of the server's clock, compared and never formatted.                    *)
(***************************************************************************)
EXTENDS Naturals

(* Mutant: a row that ends with the interval goes unnoticed.               *)
BlocksInside(row, start, end) ==
  \/ row.start <= start /\ start < row.end
  \/ row.start < end /\ end < row.end
  \/ start < row.start /\ row.end < end

(***************************************************************************)
(* ScheduleDao.is_host_available, once the host has been found and is      *)
(* neither broken nor retired.  `rows` are all the schedules of the host,  *)
(* those of terminated assignments included.  A query whose ends coincide  *)
(* asks about an instant.                                                  *)
(***************************************************************************)
Blocks(row, start, end) ==
  \/ row.start <= start /\ start < row.end
  \/ row.start < end /\ end <= row.end
  \/ start < row.start /\ row.end < end

Available(rows, start, end) ==
  IF start = end
  THEN \A row \in rows : ~(row.start <= start /\ start < row.end)
  ELSE \A row \in rows : ~Blocks(row, start, end)

(***************************************************************************)
(* What the answer should mean: the two half-open intervals share no       *)
(* instant.                                                                *)
(***************************************************************************)
Disjoint(row, start, end) == row.end <= start \/ end <= row.start

(***************************************************************************)
(* Two rows may stand in the calendar together at time t: different hosts, *)
(* or no shared instant, or a shared part that lies entirely in the past   *)
(* (its end is the smaller of the two ends).                               *)
(***************************************************************************)
Compatible(a, b, t) ==
  \/ a.host # b.host
  \/ Disjoint(a, b.start, b.end)
  \/ a.end <= t
  \/ b.end <= t
=============================================================================
