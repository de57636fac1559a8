--------------------------- MODULE BookingProofs ---------------------------
(***************************************************************************)
(* Proofs about Booking: type correctness, the exactness of the            *)
(* availability query, NoDoubleBooking, the absence of wait cycles, one    *)
(* active assignment per cloud and the limit on self-scheduled hosts, for  *)
(* any number of requests, hosts, clouds, users and bodies.                *)
(***************************************************************************)
EXTENDS Booking, FiniteSetTheorems, TLAPS

(***************************************************************************)
(* The three overlap queries of is_host_available cover every way in which *)
(* a row can share an instant with a proper interval.                      *)
(***************************************************************************)
LEMMA BlocksExactly ==
  ASSUME NEW row, row.start \in Nat, row.end \in Nat, row.start <= row.end,
         NEW start \in Nat, NEW end \in Nat, start < end
  PROVE  Blocks(row, start, end) <=> ~Disjoint(row, start, end)
BY DEF Blocks, Disjoint

(* A request asks only for hosts there are.                                *)
LEMMA WantedHosts ==
  ASSUME NEW q, body[q] \in Bodies
  PROVE  Wanted(q) \subseteq Hosts
<1>1. body[q].hosts \in Seq(Hosts)
  BY BookingAssumption DEF Body
<1> QED
  BY <1>1 DEF Wanted

(* The database at the start, with no request in flight.                   *)
LEMMA InitInv == ASSUME Init PROVE BookingInv
<1>1. TypeOK
  BY BookingAssumption DEF Init, TypeOK, NoLocal, Local, Working, Locked, Final
<1>2. RowsOK
  <2> SUFFICES ASSUME NEW s \in DOMAIN Schedules0
               PROVE  /\ s < FirstId
                      /\ Schedules0[s].start <= Schedules0[s].end
                      /\ Schedules0[s].assignment \in DOMAIN Assignments0
    BY DEF Init, RowsOK
  <2>1. Schedules0[s] \in Schedule
    BY BookingAssumption
  <2> QED
    BY <2>1, BookingAssumption DEF Schedule
<1>3. HandlersOK /\ LocksOK /\ HoldersOK /\ GrantsOK /\ CutsOK
  BY BookingAssumption DEF Init, HandlersOK, LocksOK, HoldersOK, GrantsOK, CutsOK, Locked
<1>4. NoDoubleBooking
  BY BookingAssumption DEF Init, NoDoubleBooking
<1> QED
  BY <1>1, <1>2, <1>3, <1>4 DEF BookingInv

(* Who holds what is untouched by a request outside the transaction ...     *)
LEMMA HoldersKept ==
  ASSUME BookingInv, NEW r \in Requests, pc[r] \notin Locked, UNCHANGED locks,
         \A q \in Requests \ {r} : pc'[q] = pc[q] /\ body'[q] = body[q]
  PROVE  HoldersOK'
<1>1. \A q \in Requests \ {r} : ToLock(q)' = ToLock(q)
  BY DEF ToLock, Wanted, locks
<1> QED
  BY <1>1 DEF BookingInv, HoldersOK, Locked, locks

(* ... and by one that leaves it.                                           *)
LEMMA HoldersReleased ==
  ASSUME BookingInv, NEW r \in Requests, Release(r),
         \A q \in Requests \ {r} : pc'[q] = pc[q] /\ body'[q] = body[q]
  PROVE  HoldersOK'
<1>1. \A q \in Requests \ {r} : /\ \A c \in Clouds : cloudLock'[c] = q => cloudLock[c] = q
                              /\ \A h \in Hosts : hostLock'[h] = q <=> hostLock[h] = q
  BY BookingAssumption DEF Release
<1>2. /\ \A c \in Clouds : cloudLock'[c] # r
      /\ \A h \in Hosts : hostLock'[h] # r
  BY BookingAssumption DEF Release
<1>3. ASSUME NEW q \in Requests \ {r}, pc[q] = "hosts"
      PROVE  ToLock(q)' = ToLock(q)
  <2>1. Wanted(q) \subseteq Hosts /\ Wanted(q)' = Wanted(q)
    BY <1>3, WantedHosts DEF BookingInv, HandlersOK, Wanted
  <2> QED
    BY <1>1, <1>3, <2>1 DEF ToLock
<1> QED
  BY <1>1, <1>2, <1>3 DEF BookingInv, HoldersOK

----------------------------------------------------------------------------
(* A request is received: nothing but the request's own record changes.    *)

(* create_schedule has loaded the host and locked nothing yet.             *)
LEMMA CreateReceiveInv ==
  ASSUME BookingInv, NEW r \in Requests, NEW b \in Bodies, CreateReceive(r, b)
  PROVE  BookingInv'
<1> USE DEF CreateReceive, Receive, Goto, locks
<1>1. b \in Body /\ b.hosts # <<>> /\ b.cloud \in Clouds /\ LastHost(b) \in Hosts
  BY BookingAssumption DEF Body, BookingInv, TypeOK, AnyCloud, LastHost
<1>2. TypeOK'
  BY <1>1 DEF BookingInv, TypeOK, NoLocal, Local, Working, Locked, Final
<1>3. RowsOK' /\ NoDoubleBooking'
  BY DEF BookingInv, RowsOK, NoDoubleBooking
<1>4. HandlersOK'
  BY <1>1 DEF BookingInv, TypeOK, HandlersOK, Locked, Opens, NoLocal
<1>5. LocksOK' /\ GrantsOK' /\ CutsOK'
  BY DEF BookingInv, TypeOK, LocksOK, GrantsOK, CutsOK, Wanted
<1>6. HoldersOK'
  BY HoldersKept DEF BookingInv, TypeOK, Locked
<1> QED
  BY <1>2, <1>3, <1>4, <1>5, <1>6 DEF BookingInv

(* A batch has made its first checks, or is refused by them.               *)
LEMMA BatchReceiveInv ==
  ASSUME BookingInv, NEW r \in Requests, NEW b \in Bodies, BatchReceive(r, b)
  PROVE  BookingInv'
<1> USE DEF BatchReceive, Receive, Goto, locks
<1>1. b \in Body /\ b.hosts # <<>> /\ b.cloud \in Clouds /\ LastHost(b) \in Hosts
  BY BookingAssumption DEF Body, BookingInv, TypeOK, AnyCloud, LastHost
<1>2. TypeOK'
  BY <1>1 DEF BookingInv, TypeOK, NoLocal, Local, Working, Locked, Final
<1>3. RowsOK' /\ NoDoubleBooking'
  BY DEF BookingInv, RowsOK, NoDoubleBooking
<1>4. HandlersOK'
  BY <1>1 DEF BookingInv, TypeOK, HandlersOK, Locked, Opens, NoLocal
<1>5. LocksOK' /\ GrantsOK' /\ CutsOK'
  BY DEF BookingInv, TypeOK, LocksOK, GrantsOK, CutsOK, Wanted
<1>6. HoldersOK'
  BY HoldersKept DEF BookingInv, TypeOK, Locked
<1> QED
  BY <1>2, <1>3, <1>4, <1>5, <1>6 DEF BookingInv

(* create_assignment has found the cloud free, or is refused.              *)
LEMMA AssignReceiveInv ==
  ASSUME BookingInv, NEW r \in Requests, NEW b \in Bodies, AssignReceive(r, b)
  PROVE  BookingInv'
<1> USE DEF AssignReceive, Receive, Goto, locks
<1>1. b \in Body /\ b.cloud \in Clouds
  BY BookingAssumption DEF Body, AnyCloud
<1>2. TypeOK'
  BY <1>1 DEF BookingInv, TypeOK, NoLocal, Local, Working, Locked, Final
<1>3. RowsOK' /\ NoDoubleBooking'
  BY DEF BookingInv, RowsOK, NoDoubleBooking
<1>4. HandlersOK'
  BY <1>1 DEF BookingInv, TypeOK, HandlersOK, Locked, Opens, NoLocal
<1>5. LocksOK' /\ GrantsOK' /\ CutsOK'
  BY DEF BookingInv, TypeOK, LocksOK, GrantsOK, CutsOK, Wanted
<1>6. HoldersOK'
  BY HoldersKept DEF BookingInv, TypeOK, Locked
<1> QED
  BY <1>2, <1>3, <1>4, <1>5, <1>6 DEF BookingInv

(* create_self_assignment has picked a cloud, or is refused.               *)
LEMMA SelfReceiveInv ==
  ASSUME BookingInv, NEW r \in Requests, NEW b \in Bodies, SelfReceive(r, b)
  PROVE  BookingInv'
<1> USE DEF SelfReceive, Receive, Goto, locks
<1>1. SelfClouds(b) \subseteq Clouds
  BY DEF SelfClouds, FreeClouds
<1>2. \/ pc' = [pc EXCEPT ![r] = "error"] /\ my' = my
      \/ \E c \in Clouds : /\ pc' = [pc EXCEPT ![r] = "insert"]
                           /\ my' = [my EXCEPT ![r] = [NoLocal EXCEPT !.cloud = c]]
  BY <1>1
<1>3. TypeOK'
  <2>1. b \in Bodies /\ body' \in [Requests -> Bodies \union {None}]
    BY DEF BookingInv, TypeOK
  <2>2. my' \in [Requests -> Local]
    <3>1. CASE my' = my
      BY <3>1 DEF BookingInv, TypeOK
    <3>2. ASSUME NEW c \in Clouds, my' = [my EXCEPT ![r] = [NoLocal EXCEPT !.cloud = c]]
          PROVE  my' \in [Requests -> Local]
      BY <3>2 DEF BookingInv, TypeOK, NoLocal, Local
    <3> QED
      BY <1>2, <3>1, <3>2
  <2>3. pc' \in [Requests -> {"idle"} \union Working \union Final]
    BY <1>2 DEF BookingInv, TypeOK, Working, Final
  <2> QED
    BY <2>1, <2>2, <2>3 DEF BookingInv, TypeOK
<1>4. RowsOK' /\ NoDoubleBooking'
  BY DEF BookingInv, RowsOK, NoDoubleBooking
<1>5. HandlersOK'
  BY <1>2 DEF BookingInv, TypeOK, HandlersOK, Locked, Opens, NoLocal
<1>6. LocksOK' /\ GrantsOK' /\ CutsOK'
  BY <1>2 DEF BookingInv, TypeOK, LocksOK, GrantsOK, CutsOK, Wanted
<1>7. HoldersOK'
  BY HoldersKept DEF BookingInv, TypeOK, Locked
<1> QED
  BY <1>3, <1>4, <1>5, <1>6, <1>7 DEF BookingInv

(* The rows a terminate reads have started, so that ending them now leaves *)
(* their start before their end.                                           *)
LEMMA TerminateReceiveInv ==
  ASSUME BookingInv, NEW r \in Requests, NEW b \in Bodies, TerminateReceive(r, b)
  PROVE  BookingInv'
<1> USE DEF TerminateReceive, Receive, Goto, locks
<1>1. PICK a \in DOMAIN assignments :
        /\ Goto(r, IF b.admin \/ b.user = assignments[a].owner THEN "write" ELSE "error")
        /\ my' = [my EXCEPT ![r] = [NoLocal EXCEPT
                !.assignment = a, !.end = now,
                !.ids = {s \in CurrentSchedules : schedules[s].assignment = a}]]
  OBVIOUS
<1>2. \A s \in CurrentSchedules : s \in DOMAIN schedules /\ schedules[s].start <= now
  BY DEF CurrentSchedules
<1>3. a \in Nat /\ now \in Nat /\ CurrentSchedules \subseteq Nat
  BY <1>2 DEF BookingInv, TypeOK
<1>4. TypeOK'
  BY <1>1, <1>3 DEF BookingInv, TypeOK, NoLocal, Local, Working, Locked, Final
<1>5. RowsOK' /\ NoDoubleBooking'
  BY DEF BookingInv, RowsOK, NoDoubleBooking
<1>6. HandlersOK'
  BY <1>1 DEF BookingInv, TypeOK, HandlersOK, Locked, Opens, NoLocal
<1>7. LocksOK' /\ GrantsOK'
  BY <1>1 DEF BookingInv, TypeOK, LocksOK, GrantsOK, Wanted
<1>8. CutsOK'
  BY <1>1, <1>2, <1>3 DEF BookingInv, TypeOK, RowsOK, CutsOK, NoLocal
<1>9. HoldersOK'
  BY HoldersKept DEF BookingInv, TypeOK, Locked
<1> QED
  BY <1>4, <1>5, <1>6, <1>7, <1>8, <1>9 DEF BookingInv

(* A PATCH of an assignment reads it and writes nothing yet.               *)
LEMMA AmendReceiveInv ==
  ASSUME BookingInv, NEW r \in Requests, NEW b \in Bodies, AmendReceive(r, b)
  PROVE  BookingInv'
<1> USE DEF AmendReceive, Receive, Goto, locks
<1>1. PICK a \in DOMAIN assignments :
        my' = [my EXCEPT ![r] = [NoLocal EXCEPT
                 !.assignment = a, !.columns = Sent(b, a),
                 !.cloud = IF "cloud" \in Sent(b, a) THEN b.cloud ELSE None]]
  OBVIOUS
<1>2. b \in Body /\ a \in Nat /\ now \in Nat
  BY BookingAssumption DEF BookingInv, TypeOK
<1>3. Sent(b, a) \subseteq b.fields /\ Sent(b, a) \subseteq {"cloud", "owner", "active"}
  BY DEF Sent
<1>4. "cloud" \in Sent(b, a) => b.cloud \in Clouds
  BY <1>2, <1>3, BookingAssumption DEF Body, AnyCloud
<1>5. TypeOK'
  BY <1>1, <1>2, <1>3, <1>4 DEF BookingInv, TypeOK, NoLocal, Local, Working, Locked, Final
<1>6. RowsOK' /\ NoDoubleBooking'
  BY DEF BookingInv, RowsOK, NoDoubleBooking
<1>7. HandlersOK'
  BY <1>1, <1>3 DEF BookingInv, TypeOK, HandlersOK, Locked, Opens, NoLocal
<1>8. LocksOK' /\ GrantsOK'
  BY <1>1 DEF BookingInv, TypeOK, LocksOK, GrantsOK, Wanted
<1>9. CutsOK'
  BY <1>1, <1>2 DEF BookingInv, TypeOK, CutsOK, NoLocal
<1>10. HoldersOK'
  BY HoldersKept DEF BookingInv, TypeOK, Locked
<1> QED
  BY <1>5, <1>6, <1>7, <1>8, <1>9, <1>10 DEF BookingInv

(* Fewer rows are as compatible as more.                                   *)
LEMMA DeleteScheduleInv ==
  ASSUME BookingInv, NEW r \in Requests, NEW b \in Bodies, DeleteSchedule(r, b)
  PROVE  BookingInv'
<1> USE DEF DeleteSchedule, Receive, Goto, locks
<1>1. PICK s \in DOMAIN schedules :
        schedules' = [i \in DOMAIN schedules \ {s} |-> schedules[i]]
  OBVIOUS
<1>2. TypeOK'
  BY <1>1 DEF BookingInv, TypeOK, Working, Locked, Final
<1>3. RowsOK' /\ NoDoubleBooking'
  BY <1>1 DEF BookingInv, RowsOK, NoDoubleBooking
<1>4. HandlersOK'
  BY DEF BookingInv, TypeOK, HandlersOK, Locked, Opens
<1>5. LocksOK' /\ GrantsOK' /\ CutsOK'
  BY <1>1 DEF BookingInv, TypeOK, LocksOK, GrantsOK, CutsOK, Wanted
<1>6. HoldersOK'
  BY HoldersKept DEF BookingInv, TypeOK, Locked
<1> QED
  BY <1>2, <1>3, <1>4, <1>5, <1>6 DEF BookingInv

----------------------------------------------------------------------------
(* A request ends, or goes on to its last statement: its locks are         *)
(* released and no table changes.                                          *)

(* Letting go of rows keeps the invariant.                                 *)
LEMMA EndInv ==
  ASSUME BookingInv, NEW r \in Requests, NEW label \in {"error", "crashed", "pre"},
         pc[r] # "idle", Goto(r, label), Release(r),
         UNCHANGED <<now, out, assignments, schedules, nextId, body, my>>
  PROVE  BookingInv'
<1> USE DEF Goto
<1>1. TypeOK'
  BY DEF BookingInv, TypeOK, Release, Working, Locked, Final
<1>2. RowsOK' /\ NoDoubleBooking'
  BY DEF BookingInv, RowsOK, NoDoubleBooking
<1>3. HandlersOK'
  BY DEF BookingInv, TypeOK, HandlersOK, Locked, Opens
<1>4. LocksOK'
  <2> SUFFICES ASSUME NEW q \in Requests, pc'[q] \in {"check", "commit"}, NEW h \in Wanted(q)'
               PROVE  hostLock'[h] = q
    BY DEF LocksOK
  <2>1. q # r /\ pc[q] = pc'[q] /\ Wanted(q)' = Wanted(q)
    BY DEF BookingInv, TypeOK, Wanted
  <2>2. hostLock[h] = q
    BY <2>1 DEF BookingInv, LocksOK
  <2>3. h \in Hosts
    BY <2>1, WantedHosts DEF BookingInv, HandlersOK
  <2> QED
    BY <2>1, <2>2, <2>3 DEF Release
<1>5. GrantsOK' /\ CutsOK'
  BY DEF BookingInv, TypeOK, GrantsOK, CutsOK, Wanted
<1>6. HoldersOK'
  BY HoldersReleased DEF BookingInv, TypeOK
<1> QED
  BY <1>1, <1>2, <1>3, <1>4, <1>5, <1>6 DEF BookingInv

(* A refusal rolls back and releases.                                      *)
LEMMA RefuseInv ==
  ASSUME BookingInv, NEW r \in Requests, pc[r] # "idle", Refuse(r)
  PROVE  BookingInv'
BY EndInv DEF Refuse

----------------------------------------------------------------------------
(* The locking transaction, up to its commit.                              *)

(* Whatever LockCloud goes on with, it has found an assignment to book on, *)
(* unless the batch opens one.                                             *)
LEMMA LockCloudInv ==
  ASSUME BookingInv, NEW r \in Requests, LockCloud(r)
  PROVE  BookingInv'
<1>1. pc[r] = "cloud" /\ body[r] \in Bodies /\ my[r].cloud \in Clouds
  BY DEF LockCloud, BookingInv, HandlersOK
<1>2. CASE Refuse(r)
  BY <1>1, <1>2, RefuseInv
<1>3. ASSUME NEW a, NEW label \in {"limit", "hosts"}, BookOn(r, a, label),
             a \in DOMAIN assignments \/ (a = None /\ Opens(r))
      PROVE  BookingInv'
  <2> USE <1>3 DEF BookOn, Goto, HoldCloud
  <2>1. a \in Nat \union {None} /\ my[r] \in Local
    BY DEF BookingInv, TypeOK
  <2>2. TypeOK'
    <3>1. my' \in [Requests -> Local]
      BY <2>1 DEF BookingInv, TypeOK, Local
    <3>2. pc' \in [Requests -> {"idle"} \union Working \union Final]
      BY DEF BookingInv, TypeOK, Working, Locked
    <3>3. cloudLock' \in [Clouds -> Requests \union {None}]
      BY DEF BookingInv, TypeOK
    <3> QED
      BY <3>1, <3>2, <3>3 DEF BookingInv, TypeOK
  <2>3. RowsOK' /\ NoDoubleBooking'
    BY DEF BookingInv, RowsOK, NoDoubleBooking
  <2>4. HandlersOK'
    BY <1>1, <2>1 DEF BookingInv, TypeOK, HandlersOK, Locked, Opens, Local
  <2>5. LocksOK' /\ GrantsOK' /\ CutsOK'
    BY DEF BookingInv, TypeOK, LocksOK, GrantsOK, CutsOK, Wanted
  <2>6. HoldersOK'
    <3>1. /\ pc'[r] \in Locked
          /\ \A q \in Requests \ {r} : pc'[q] = pc[q]
          /\ \A h \in Hosts : hostLock[h] # r
      BY <1>1 DEF BookingInv, TypeOK, Locked, HoldersOK
    <3>2. \A q \in Requests : ToLock(q)' = ToLock(q)
      BY DEF ToLock, Wanted
    <3>3. \A c \in Clouds : cloudLock'[c] = cloudLock[c] \/ cloudLock'[c] = r
      BY <1>1 DEF BookingInv, TypeOK
    <3> QED
      BY <3>1, <3>2, <3>3 DEF BookingInv, HoldersOK
  <2> QED
    BY <2>2, <2>3, <2>4, <2>5, <2>6 DEF BookingInv
<1>4. \/ Refuse(r)
      \/ \E a \in ActiveAssignments(my[r].cloud) : BookOn(r, a, "limit") \/ BookOn(r, a, "hosts")
      \/ Opens(r) /\ BookOn(r, None, "hosts")
  BY DEF LockCloud
<1>5. ActiveAssignments(my[r].cloud) \subseteq DOMAIN assignments
  BY DEF ActiveAssignments
<1> QED
  BY <1>2, <1>3, <1>4, <1>5

(* The host limit is read; nothing is locked or written.                   *)
LEMMA CheckLimitInv ==
  ASSUME BookingInv, NEW r \in Requests, CheckLimit(r)
  PROVE  BookingInv'
<1>1. pc[r] = "limit"
  BY DEF CheckLimit
<1>2. CASE Refuse(r)
  BY <1>1, <1>2, RefuseInv
<1>3. CASE /\ Goto(r, "hosts")
           /\ UNCHANGED <<now, out, assignments, schedules, nextId, locks, body, my>>
  <2> USE <1>1, <1>3 DEF Goto, locks
  <2>1. TypeOK'
    BY DEF BookingInv, TypeOK, Working, Locked
  <2>2. RowsOK' /\ NoDoubleBooking'
    BY DEF BookingInv, RowsOK, NoDoubleBooking
  <2>3. HandlersOK'
    BY DEF BookingInv, TypeOK, HandlersOK, Locked, Opens
  <2>4. LocksOK' /\ GrantsOK' /\ CutsOK'
    BY DEF BookingInv, TypeOK, LocksOK, GrantsOK, CutsOK, Wanted
  <2>5. HoldersOK'
    <3>1. /\ pc'[r] \in Locked
          /\ \A q \in Requests \ {r} : pc'[q] = pc[q]
          /\ \A h \in Hosts : hostLock[h] # r
      BY DEF BookingInv, TypeOK, Locked, HoldersOK
    <3>2. \A q \in Requests : ToLock(q)' = ToLock(q)
      BY DEF ToLock, Wanted
    <3> QED
      BY <3>1, <3>2 DEF BookingInv, HoldersOK
  <2> QED
    BY <2>1, <2>2, <2>3, <2>4, <2>5 DEF BookingInv
<1> QED
  BY <1>2, <1>3 DEF CheckLimit

(* A lock is taken only when it is free, so nobody else loses one; and the *)
(* request goes on to its check with the last lock it needs.               *)
LEMMA LockHostInv ==
  ASSUME BookingInv, NEW r \in Requests, LockHost(r)
  PROVE  BookingInv'
<1> USE DEF Goto
<1>1. PICK h \in ToLock(r) :
        /\ \A g \in ToLock(r) : h <= g
        /\ hostLock[h] = None
        /\ hostLock' = [hostLock EXCEPT ![h] = r]
        /\ Goto(r, IF ToLock(r) = {h} THEN "check" ELSE "hosts")
  BY DEF LockHost
<1>2. /\ pc[r] = "hosts"
      /\ UNCHANGED <<now, out, assignments, schedules, nextId, cloudLock, body, my>>
  BY DEF LockHost
<1>3. body[r] \in Bodies /\ Wanted(r) \subseteq Hosts /\ h \in Wanted(r)
  BY <1>2, WantedHosts DEF BookingInv, HandlersOK, ToLock
<1>4. pc' \in [Requests -> {"idle"} \union Working \union Final]
  BY <1>1 DEF BookingInv, TypeOK, Working, Locked
<1>5. TypeOK'
  BY <1>1, <1>2, <1>3, <1>4 DEF BookingInv, TypeOK
<1>6. RowsOK' /\ NoDoubleBooking'
  BY <1>2 DEF BookingInv, RowsOK, NoDoubleBooking
<1>7. HandlersOK'
  BY <1>1, <1>2 DEF BookingInv, TypeOK, HandlersOK, Locked, Opens
<1>8. LocksOK'
  <2> SUFFICES ASSUME NEW q \in Requests, pc'[q] \in {"check", "commit"}, NEW g \in Wanted(q)
               PROVE  hostLock'[g] = q
    BY <1>2 DEF LocksOK, Wanted
  <2>1. CASE q = r
    <3>1. ToLock(r) = {h}
      BY <1>1, <2>1 DEF BookingInv, TypeOK
    <3>2. g = h \/ hostLock[g] = r
      BY <2>1, <3>1 DEF ToLock
    <3> QED
      BY <1>1, <1>3, <2>1, <3>2 DEF BookingInv, TypeOK
  <2>2. CASE q # r
    <3>1. pc[q] = pc'[q]
      BY <1>1, <2>2 DEF BookingInv, TypeOK
    <3>2. hostLock[g] = q
      BY <3>1 DEF BookingInv, LocksOK
    <3> QED
      BY <1>1, <1>3, <3>2, BookingAssumption DEF BookingInv, TypeOK
  <2> QED
    BY <2>1, <2>2
<1>9. GrantsOK' /\ CutsOK'
  BY <1>1, <1>2 DEF BookingInv, TypeOK, GrantsOK, CutsOK, Wanted
<1>10. HoldersOK'
  <2>1. ASSUME NEW q \in Requests \ {r}
        PROVE  /\ pc'[q] = pc[q]
               /\ \A g \in Hosts : hostLock'[g] = q <=> hostLock[g] = q
               /\ pc[q] = "hosts" => ToLock(q)' = ToLock(q)
    <3>1. pc'[q] = pc[q] /\ Wanted(q)' = Wanted(q)
      BY <1>1, <1>2 DEF BookingInv, TypeOK, Wanted
    <3>2. \A g \in Hosts : hostLock'[g] = q <=> hostLock[g] = q
      BY <1>1, <1>3, BookingAssumption DEF BookingInv, TypeOK
    <3>3. pc[q] = "hosts" => Wanted(q) \subseteq Hosts
      BY WantedHosts DEF BookingInv, HandlersOK
    <3> QED
      BY <3>1, <3>2, <3>3 DEF ToLock
  <2>2. /\ pc'[r] \in {"hosts", "check"}
        /\ \A g \in Hosts : hostLock'[g] = r <=> g = h \/ hostLock[g] = r
        /\ ToLock(r)' = ToLock(r) \ {h}
    BY <1>1, <1>2, <1>3 DEF BookingInv, TypeOK, ToLock, Wanted
  <2>3. \A g \in ToLock(r) \ {h} : h < g
    BY <1>1, <1>3, BookingAssumption DEF ToLock
  <2>4. \A f \in Hosts : hostLock[f] = r => \A g \in ToLock(r) : f < g
    BY <1>2 DEF BookingInv, HoldersOK
  <2>5. ASSUME NEW g \in Hosts, hostLock'[g] = r
        PROVE  \A f \in ToLock(r) \ {h} : g < f
    BY <2>2, <2>3, <2>4, <2>5
  <2> QED
    BY <1>2, <2>1, <2>2, <2>5 DEF BookingInv, HoldersOK, Locked
<1> QED
  BY <1>5, <1>6, <1>7, <1>8, <1>9, <1>10 DEF BookingInv

(* The check finds every wanted host free of overlapping rows.             *)
LEMMA CheckInv ==
  ASSUME BookingInv, NEW r \in Requests, Check(r)
  PROVE  BookingInv'
<1> USE DEF Goto, locks
<1>1. pc[r] = "check"
  BY DEF Check
<1>2. CASE Refuse(r)
  BY <1>1, <1>2, RefuseInv
<1>3. ASSUME NEW start, NEW end, <<start, end>> \in Asked(r), Grantable(r, start, end),
             Goto(r, "commit"),
             my' = [my EXCEPT ![r].start = start, ![r].end = end],
             UNCHANGED <<now, out, assignments, schedules, nextId, locks, body>>
      PROVE  BookingInv'
  <2> USE <1>1, <1>3
  <2>1. body[r] \in Bodies /\ Wanted(r) \subseteq Hosts
    BY WantedHosts DEF BookingInv, HandlersOK
  <2>2. start \in Nat /\ end \in Nat /\ start < end
    BY <2>1, BookingAssumption DEF Asked, Grantable, BookingInv, TypeOK, Body
  <2>3. my[r] \in Local
    BY DEF BookingInv, TypeOK
  <2>4. TypeOK'
    <3>1. my' \in [Requests -> Local]
      BY <2>2, <2>3 DEF BookingInv, TypeOK, Local
    <3> QED
      BY <3>1 DEF BookingInv, TypeOK, Working, Locked
  <2>5. RowsOK' /\ NoDoubleBooking'
    BY DEF BookingInv, RowsOK, NoDoubleBooking
  <2>6. HandlersOK'
    BY <2>3 DEF BookingInv, TypeOK, HandlersOK, Locked, Opens, Local
  <2>7. LocksOK'
    BY DEF BookingInv, TypeOK, LocksOK, Wanted
  <2>8. GrantsOK'
    <3>1. ASSUME NEW s \in DOMAIN schedules, schedules[s].host \in Wanted(r)
          PROVE  Disjoint(schedules[s], start, end)
      <4>1. schedules[s] \in Schedule /\ schedules[s].start <= schedules[s].end
        BY <3>1 DEF BookingInv, TypeOK, RowsOK
      <4>2. schedules[s] \in HostRows(schedules[s].host)
        BY <3>1 DEF HostRows
      <4>3. ~Blocks(schedules[s], start, end)
        BY <2>2, <3>1, <4>2 DEF Grantable, HostAvailable, Available
      <4> QED
        BY <2>2, <4>1, <4>3, BlocksExactly DEF Schedule
    <3>2. my'[r].start = start /\ my'[r].end = end
      BY <2>3 DEF BookingInv, TypeOK, Local
    <3> SUFFICES ASSUME NEW q \in Requests, pc'[q] = "commit"
                 PROVE  /\ my'[q].start < my'[q].end
                        /\ \A s \in DOMAIN schedules : schedules[s].host \in Wanted(q) =>
                             \/ Disjoint(schedules[s], my'[q].start, my'[q].end)
                             \/ schedules[s].end <= now
      <4>1. \A q \in Requests : Wanted(q)' = Wanted(q)
        BY DEF Wanted
      <4> QED
        BY <4>1 DEF GrantsOK, Disjoint
    <3>3. CASE q = r
      BY <2>2, <3>1, <3>2, <3>3
    <3>4. CASE q # r
      BY <3>4 DEF BookingInv, TypeOK, GrantsOK
    <3> QED
      BY <3>3, <3>4
  <2>9. CutsOK'
    BY DEF BookingInv, TypeOK, CutsOK
  <2>10. HoldersOK'
    <3>1. /\ pc'[r] = "commit"
          /\ \A q \in Requests \ {r} : pc'[q] = pc[q]
      BY DEF BookingInv, TypeOK
    <3>2. \A q \in Requests : ToLock(q)' = ToLock(q)
      BY DEF ToLock, Wanted
    <3> QED
      BY <3>1, <3>2 DEF BookingInv, HoldersOK, Locked
  <2> QED
    BY <2>4, <2>5, <2>6, <2>7, <2>8, <2>9, <2>10 DEF BookingInv
<1>4. \A span \in Asked(r) : span = <<span[1], span[2]>>
  BY DEF Asked
<1> QED
  BY <1>2, <1>3, <1>4 DEF Check

----------------------------------------------------------------------------
(* The writes.                                                             *)

(* The rows of a transaction lie on hosts it has locked: no other request  *)
(* at its own commit wants them, and no two of them are on one host.       *)
LEMMA CommitInv ==
  ASSUME BookingInv, Orderly, NEW r \in Requests, Commit(r)
  PROVE  BookingInv'
<1> DEFINE b == body[r]
           new == NewIds(r)
<1> USE DEF Goto
<1>1. /\ pc[r] = "commit" /\ b \in Bodies /\ b \in Body
      /\ my[r] \in Local /\ my[r].cloud \in Clouds
      /\ nextId \in Nat /\ now \in Nat
  BY BookingAssumption DEF Commit, BookingInv, TypeOK, HandlersOK, Locked
<1>2. /\ b.hosts \in Seq(Hosts) /\ Len(b.hosts) \in Nat
      /\ DOMAIN b.hosts = 1 .. Len(b.hosts)
  BY <1>1 DEF Body
<1>3. \A s \in new : /\ s \in Nat /\ s > nextId /\ s < nextId + Len(b.hosts) + 1
                     /\ s - nextId \in DOMAIN b.hosts
  BY <1>1, <1>2 DEF NewIds
<1>4. new \intersect DOMAIN schedules = {}
  BY <1>3, <1>1 DEF BookingInv, TypeOK, RowsOK
<1>5. /\ DOMAIN assignments \subseteq DOMAIN assignments'
      /\ DOMAIN assignments' \subseteq Nat
      /\ assignments' \in [DOMAIN assignments' -> Assignment]
      /\ NewAssignment(r) \in DOMAIN assignments'
  <2>1. CASE Opens(r)
    <3>1. assignments' = [a \in DOMAIN assignments \union {nextId} |->
                            IF a = nextId
                            THEN [cloud |-> my[r].cloud, owner |-> b.user, self |-> FALSE,
                                  active |-> TRUE, pre |-> FALSE]
                            ELSE assignments[a]]
      BY <2>1 DEF Commit, OpenAssignment
    <3> QED
      BY <1>1, <2>1, <3>1 DEF NewAssignment, BookingInv, TypeOK, Assignment, Body
  <2>2. CASE ~Opens(r)
    <3>1. my[r].assignment \in DOMAIN assignments
      BY <1>1, <2>2 DEF BookingInv, HandlersOK, Locked
    <3> QED
      BY <2>2, <3>1 DEF NewAssignment, BookingInv, TypeOK, Commit
  <2> QED
    BY <2>1, <2>2
<1>6. /\ my[r].start \in Nat /\ my[r].end \in Nat /\ my[r].start < my[r].end
      /\ NewAssignment(r) \in Nat
  BY <1>1, <1>5 DEF Local, BookingInv, GrantsOK
<1>7. /\ DOMAIN schedules' = DOMAIN schedules \union new
      /\ \A s \in DOMAIN schedules : schedules'[s] = schedules[s]
      /\ \A s \in new : schedules'[s] = NewSchedule(r, s)
  BY <1>4 DEF Commit
<1>8. \A s \in new : /\ NewSchedule(r, s) \in Schedule
                     /\ NewSchedule(r, s).host \in Wanted(r)
                     /\ NewSchedule(r, s).start = my[r].start
                     /\ NewSchedule(r, s).end = my[r].end
                     /\ NewSchedule(r, s).assignment = NewAssignment(r)
  BY <1>2, <1>3, <1>6 DEF NewSchedule, Schedule, Wanted
<1>9. nextId' = nextId + Len(b.hosts) + 1 /\ nextId' \in Nat /\ nextId' > nextId
  BY <1>1, <1>2 DEF Commit
<1>10. /\ pc' = [pc EXCEPT ![r] = "pre"]
       /\ UNCHANGED <<now, out, body>>
       /\ \A q \in Requests \ {r} : my'[q] = my[q]
  BY DEF Commit, BookingInv, TypeOK
<1>11. TypeOK'
  <2>1. schedules' \in [DOMAIN schedules' -> Schedule] /\ DOMAIN schedules' \subseteq Nat
    <3>1. \A s \in DOMAIN schedules' : schedules'[s] \in Schedule /\ s \in Nat
      BY <1>3, <1>7, <1>8 DEF BookingInv, TypeOK
    <3>2. schedules' = [s \in DOMAIN schedules' |-> schedules'[s]]
      BY DEF Commit
    <3> QED
      BY <3>1, <3>2
  <2>2. my' \in [Requests -> Local]
    <3>1. NewIds(r) \subseteq Nat
      BY <1>3
    <3> QED
      BY <1>1, <1>6, <3>1 DEF Commit, BookingInv, TypeOK, Local
  <2>3. /\ cloudLock' \in [Clouds -> Requests \union {None}]
        /\ hostLock' \in [Hosts -> Requests \union {None}]
    BY DEF Commit, Release, BookingInv, TypeOK
  <2>4. pc' \in [Requests -> {"idle"} \union Working \union Final]
    BY <1>10 DEF BookingInv, TypeOK, Working
  <2> QED
    BY <1>5, <1>9, <1>10, <2>1, <2>2, <2>3, <2>4 DEF BookingInv, TypeOK
<1>12. RowsOK'
  <2> SUFFICES ASSUME NEW s \in DOMAIN schedules'
               PROVE  /\ s < nextId'
                      /\ schedules'[s].start <= schedules'[s].end
                      /\ schedules'[s].assignment \in DOMAIN assignments'
    BY DEF RowsOK
  <2>1. CASE s \in DOMAIN schedules
    BY <1>1, <1>5, <1>7, <1>9, <2>1 DEF BookingInv, TypeOK, RowsOK
  <2>2. CASE s \in new
    BY <1>3, <1>5, <1>6, <1>7, <1>8, <1>9, <2>2
  <2> QED
    BY <1>7, <2>1, <2>2
<1>13. HandlersOK'
  <2>1. \A q \in Requests \ {r} : pc'[q] = pc[q] /\ Opens(q)' = Opens(q)
    BY <1>10 DEF BookingInv, TypeOK, Opens
  <2>2. pc'[r] = "pre"
    BY <1>10 DEF BookingInv, TypeOK
  <2> QED
    BY <1>1, <1>5, <1>10, <2>1, <2>2 DEF BookingInv, HandlersOK, Locked
<1>14. LocksOK'
  <2> SUFFICES ASSUME NEW q \in Requests, pc'[q] \in {"check", "commit"}, NEW h \in Wanted(q)
               PROVE  hostLock'[h] = q
    BY <1>10 DEF LocksOK, Wanted
  <2>1. q # r /\ pc[q] = pc'[q]
    BY <1>10 DEF BookingInv, TypeOK
  <2>2. hostLock[h] = q /\ h \in Hosts
    BY <2>1, WantedHosts DEF BookingInv, LocksOK, HandlersOK
  <2> QED
    BY <2>1, <2>2 DEF Commit, Release
<1>15. GrantsOK'
  <2>1. \A q \in Requests : Wanted(q)' = Wanted(q)
    BY <1>10 DEF Wanted
  <2> SUFFICES ASSUME NEW q \in Requests, pc'[q] = "commit"
               PROVE  /\ my'[q].start < my'[q].end
                      /\ \A s \in DOMAIN schedules' : schedules'[s].host \in Wanted(q) =>
                           \/ Disjoint(schedules'[s], my'[q].start, my'[q].end)
                           \/ schedules'[s].end <= now
    BY <1>10, <2>1 DEF GrantsOK, Disjoint
  <2>2. q # r /\ pc[q] = "commit" /\ my'[q] = my[q]
    BY <1>10 DEF BookingInv, TypeOK
  <2>3. my[q].start < my[q].end
    BY <2>2 DEF BookingInv, GrantsOK
  <2>4. \A s \in new : schedules'[s].host \notin Wanted(q)
    BY <1>1, <1>7, <1>8, <2>2 DEF BookingInv, LocksOK
  <2> QED
    BY <1>7, <2>2, <2>3, <2>4 DEF BookingInv, GrantsOK
<1>16. CutsOK'
  <2> SUFFICES ASSUME NEW q \in Requests, pc'[q] = "write"
               PROVE  /\ my'[q].end <= now
                      /\ \A s \in my'[q].ids :
                           /\ s < nextId'
                           /\ s \in DOMAIN schedules' => schedules'[s].start <= my'[q].end
    BY <1>10 DEF CutsOK
  <2>1. q # r /\ pc[q] = "write" /\ my'[q] = my[q] /\ my[q] \in Local
    BY <1>10 DEF BookingInv, TypeOK
  <2>2. my[q].end <= now /\ \A s \in my[q].ids : s \in Nat /\ s < nextId
    BY <2>1 DEF BookingInv, CutsOK, Local
  <2>3. \A s \in my[q].ids : s \notin new
    BY <1>1, <1>3, <2>2
  <2> QED
    BY <1>1, <1>7, <1>9, <2>1, <2>2, <2>3 DEF BookingInv, CutsOK
<1>17. NoDoubleBooking'
  <2> SUFFICES ASSUME NEW s \in DOMAIN schedules', NEW t \in DOMAIN schedules', s # t
               PROVE  Compatible(schedules'[s], schedules'[t], now)
    BY <1>10 DEF NoDoubleBooking, Compatible, Disjoint
  <2>1. CASE s \in DOMAIN schedules /\ t \in DOMAIN schedules
    BY <1>7, <2>1 DEF BookingInv, NoDoubleBooking
  <2>2. ASSUME NEW u \in DOMAIN schedules, NEW v \in new
        PROVE  /\ Compatible(schedules'[u], schedules'[v], now)
               /\ Compatible(schedules'[v], schedules'[u], now)
    <3>1. schedules[u].host \in Wanted(r) =>
            \/ Disjoint(schedules[u], my[r].start, my[r].end)
            \/ schedules[u].end <= now
      BY <1>1 DEF BookingInv, GrantsOK
    <3>2. schedules[u].start \in Nat /\ schedules[u].end \in Nat
      BY DEF BookingInv, TypeOK, Schedule
    <3> QED
      BY <1>6, <1>7, <1>8, <3>1, <3>2 DEF Compatible, Disjoint
  <2>3. CASE s \in new /\ t \in new
    <3>1. s - nextId # t - nextId
      BY <1>1, <1>3, <2>3
    <3>2. b.hosts[s - nextId] # b.hosts[t - nextId]
      BY <1>1, <1>3, <2>3, <3>1 DEF Orderly
    <3> QED
      BY <1>7, <2>3, <3>2 DEF NewSchedule, Compatible
  <2> QED
    BY <1>7, <2>1, <2>2, <2>3
<1>18. HoldersOK'
  BY <1>10, HoldersReleased DEF Commit, BookingInv, TypeOK
<1> QED
  BY <1>11, <1>12, <1>13, <1>14, <1>15, <1>16, <1>17, <1>18 DEF BookingInv

(* Resetting notification.pre keeps every assignment in place.             *)
LEMMA ResetPreInv ==
  ASSUME BookingInv, NEW r \in Requests, ResetPre(r)
  PROVE  BookingInv'
<1> USE DEF ResetPre, Goto, locks
<1>1. DOMAIN assignments' = DOMAIN assignments
  OBVIOUS
<1>2. TypeOK'
  <2>1. assignments' \in [DOMAIN assignments' -> Assignment]
    BY DEF BookingInv, TypeOK, Assignment
  <2> QED
    BY <1>1, <2>1 DEF BookingInv, TypeOK, Working, Final
<1>3. RowsOK' /\ NoDoubleBooking'
  BY <1>1 DEF BookingInv, RowsOK, NoDoubleBooking
<1>4. HandlersOK'
  BY <1>1 DEF BookingInv, TypeOK, HandlersOK, Locked, Opens
<1>5. LocksOK' /\ GrantsOK' /\ CutsOK'
  BY DEF BookingInv, TypeOK, LocksOK, GrantsOK, CutsOK, Wanted
<1>6. HoldersOK'
  BY HoldersKept DEF BookingInv, TypeOK, Locked
<1> QED
  BY <1>2, <1>3, <1>4, <1>5, <1>6 DEF BookingInv

(* A new assignment is a new key: no schedule refers to it.                *)
LEMMA InsertAssignmentInv ==
  ASSUME BookingInv, NEW r \in Requests, InsertAssignment(r)
  PROVE  BookingInv'
<1> USE DEF InsertAssignment, Goto, locks
<1>1. /\ pc[r] = "insert" /\ body[r] \in Body /\ my[r] \in Local /\ my[r].cloud \in Clouds
      /\ nextId \in Nat
  BY BookingAssumption DEF BookingInv, TypeOK, HandlersOK
<1>2. assignments' = [a \in DOMAIN assignments \union {nextId} |->
                        IF a = nextId
                        THEN [cloud |-> my[r].cloud, owner |-> body[r].user,
                              self |-> body[r].kind = "self" \/ body[r].self,
                              active |-> TRUE, pre |-> FALSE]
                        ELSE assignments[a]]
  BY DEF OpenAssignment
<1>3. (body[r].kind = "self" \/ body[r].self) \in BOOLEAN
  OBVIOUS
<1>4. TypeOK'
  <2>1. DOMAIN assignments' \subseteq Nat
    BY <1>1, <1>2 DEF BookingInv, TypeOK
  <2>2. assignments' \in [DOMAIN assignments' -> Assignment]
    BY <1>1, <1>2, <1>3 DEF BookingInv, TypeOK, Assignment, Body
  <2>3. my' \in [Requests -> Local]
    BY <1>1 DEF BookingInv, TypeOK, Local
  <2> QED
    BY <1>1, <2>1, <2>2, <2>3 DEF BookingInv, TypeOK, Working, Final
<1>5. RowsOK' /\ NoDoubleBooking'
  BY <1>1, <1>2 DEF BookingInv, TypeOK, RowsOK, NoDoubleBooking
<1>6. HandlersOK'
  BY <1>1, <1>2 DEF BookingInv, TypeOK, HandlersOK, Locked, Opens
<1>7. /\ pc'[r] = "ok"
      /\ \A q \in Requests \ {r} : /\ pc'[q] = pc[q] /\ my'[q] = my[q]
                                   /\ Wanted(q)' = Wanted(q)
  BY DEF BookingInv, TypeOK, Wanted
<1>8. LocksOK'
  BY <1>7 DEF BookingInv, LocksOK
<1>9. CutsOK'
  <2> SUFFICES ASSUME NEW q \in Requests, pc'[q] = "write"
               PROVE  /\ my[q].end <= now
                      /\ \A s \in my[q].ids :
                           /\ s < nextId + 1
                           /\ s \in DOMAIN schedules => schedules[s].start <= my[q].end
    BY <1>7 DEF CutsOK
  <2>1. pc[q] = "write" /\ my[q] \in Local
    BY <1>7 DEF BookingInv, TypeOK
  <2>2. \A s \in my[q].ids : s \in Nat
    BY <2>1 DEF Local
  <2> QED
    BY <1>1, <2>1, <2>2 DEF BookingInv, CutsOK
<1>10. GrantsOK'
  BY <1>7 DEF BookingInv, GrantsOK, Disjoint
<1>11. HoldersOK'
  BY <1>1, <1>7, HoldersKept DEF Locked
<1> QED
  BY <1>4, <1>5, <1>6, <1>8, <1>9, <1>10, <1>11 DEF BookingInv

(* The rows a terminate ends now lie in the past, whoever ended them first.*)
LEMMA TerminateWriteInv ==
  ASSUME BookingInv, NEW r \in Requests, TerminateWrite(r)
  PROVE  BookingInv'
<1> USE DEF Goto, locks
<1>1. /\ pc[r] = "write" /\ my[r] \in Local /\ my[r].end \in Nat /\ my[r].end <= now
      /\ now \in Nat
      /\ \A s \in my[r].ids : s \in DOMAIN schedules => schedules[s].start <= my[r].end
      /\ pc' = [pc EXCEPT ![r] = "ok"]
      /\ UNCHANGED <<now, out, nextId, locks, body, my>>
  BY DEF TerminateWrite, BookingInv, TypeOK, CutsOK, Local
<1>2. /\ DOMAIN assignments' = DOMAIN assignments
      /\ assignments' \in [DOMAIN assignments' -> Assignment]
  <2>1. CASE assignments' = [assignments EXCEPT ![my[r].assignment].active = FALSE]
    BY <2>1 DEF BookingInv, TypeOK, Assignment
  <2>2. CASE assignments' = assignments
    BY <2>2 DEF BookingInv, TypeOK
  <2> QED
    BY <2>1, <2>2 DEF TerminateWrite
<1>3. /\ DOMAIN schedules' = DOMAIN schedules
      /\ schedules' = [s \in DOMAIN schedules' |-> schedules'[s]]
  BY DEF TerminateWrite, BookingInv, TypeOK
<1>4. \A s \in DOMAIN schedules :
        \/ schedules'[s] = schedules[s]
        \/ /\ schedules'[s] = [schedules[s] EXCEPT !.end = my[r].end]
           /\ schedules[s].start <= my[r].end
  BY <1>1 DEF TerminateWrite
<1>5. \A s \in DOMAIN schedules : schedules[s] \in Schedule
  BY DEF BookingInv, TypeOK
<1>6. \A s \in DOMAIN schedules :
        /\ schedules'[s] \in Schedule
        /\ schedules'[s].host = schedules[s].host
        /\ schedules'[s].start = schedules[s].start
        /\ schedules'[s].assignment = schedules[s].assignment
        /\ \/ schedules'[s].end = schedules[s].end
           \/ schedules'[s].end <= now /\ schedules[s].start <= schedules'[s].end
  BY <1>1, <1>4, <1>5 DEF Schedule
<1>7. TypeOK'
  BY <1>1, <1>2, <1>3, <1>6 DEF BookingInv, TypeOK, Working, Final
<1>8. RowsOK'
  BY <1>1, <1>2, <1>3, <1>6 DEF BookingInv, RowsOK
<1>9. HandlersOK'
  BY <1>1, <1>2 DEF BookingInv, TypeOK, HandlersOK, Locked, Opens
<1>10. LocksOK'
  BY <1>1 DEF BookingInv, TypeOK, LocksOK, Wanted
<1>11. GrantsOK'
  <2> SUFFICES ASSUME NEW q \in Requests, pc'[q] = "commit"
               PROVE  /\ my[q].start < my[q].end
                      /\ \A s \in DOMAIN schedules : schedules'[s].host \in Wanted(q) =>
                           \/ Disjoint(schedules'[s], my[q].start, my[q].end)
                           \/ schedules'[s].end <= now
    <3>1. \A q \in Requests : Wanted(q)' = Wanted(q)
      BY <1>1 DEF Wanted
    <3> QED
      BY <1>1, <1>3, <3>1 DEF GrantsOK, Disjoint
  <2>1. pc[q] = "commit"
    BY <1>1 DEF BookingInv, TypeOK
  <2> QED
    BY <1>6, <2>1 DEF BookingInv, GrantsOK, Disjoint
<1>12. CutsOK'
  BY <1>1, <1>3, <1>6 DEF BookingInv, TypeOK, CutsOK
<1>13. NoDoubleBooking'
  <2> SUFFICES ASSUME NEW s \in DOMAIN schedules, NEW t \in DOMAIN schedules, s # t
               PROVE  Compatible(schedules'[s], schedules'[t], now)
    BY <1>1, <1>3 DEF NoDoubleBooking, Compatible, Disjoint
  <2>1. Compatible(schedules[s], schedules[t], now)
    BY DEF BookingInv, NoDoubleBooking
  <2> QED
    BY <1>6, <2>1 DEF Compatible, Disjoint
<1>14. HoldersOK'
  BY <1>1, HoldersKept DEF BookingInv, TypeOK, Locked
<1> QED
  BY <1>7, <1>8, <1>9, <1>10, <1>11, <1>12, <1>13, <1>14 DEF BookingInv

(* A PATCH changes an assignment in its place.                             *)
LEMMA AmendWriteInv ==
  ASSUME BookingInv, NEW r \in Requests, AmendWrite(r)
  PROVE  BookingInv'
<1> USE DEF AmendWrite, Goto, locks
<1>1. /\ pc[r] = "write" /\ body[r] \in Bodies /\ body[r] \in Body
      /\ my[r].assignment \in DOMAIN assignments
      /\ my[r].columns \subseteq body[r].fields
  BY BookingAssumption DEF BookingInv, HandlersOK
<1>2. DOMAIN assignments' = DOMAIN assignments
  OBVIOUS
<1>3. TypeOK'
  <2>1. "cloud" \in my[r].columns => body[r].cloud \in Clouds
    BY <1>1, BookingAssumption DEF Body, AnyCloud
  <2>2. assignments[my[r].assignment] \in Assignment
    BY <1>1 DEF BookingInv, TypeOK
  <2>3. body[r].user \in Users /\ body[r].active \in BOOLEAN
    BY <1>1 DEF Body
  <2>4. assignments' \in [DOMAIN assignments' -> Assignment]
    BY <1>1, <2>1, <2>2, <2>3 DEF BookingInv, TypeOK, Assignment
  <2> QED
    BY <1>2, <2>4 DEF BookingInv, TypeOK, Working, Final
<1>4. RowsOK' /\ NoDoubleBooking'
  BY <1>2 DEF BookingInv, RowsOK, NoDoubleBooking
<1>5. HandlersOK'
  BY <1>2 DEF BookingInv, TypeOK, HandlersOK, Locked, Opens
<1>6. LocksOK' /\ GrantsOK' /\ CutsOK'
  BY DEF BookingInv, TypeOK, LocksOK, GrantsOK, CutsOK, Wanted
<1>7. HoldersOK'
  BY <1>1, HoldersKept DEF BookingInv, TypeOK, Locked
<1> QED
  BY <1>3, <1>4, <1>5, <1>6, <1>7 DEF BookingInv

----------------------------------------------------------------------------
(* The clock and the operator.                                             *)

(* The broken and retired flags are not part of the calendar.              *)
LEMMA UpdateHostInv ==
  ASSUME BookingInv, NEW h \in FaultyHosts, UpdateHost(h)
  PROVE  BookingInv'
<1> USE DEF UpdateHost, locks
<1>1. TypeOK'
  BY BookingAssumption DEF BookingInv, TypeOK
<1>2. RowsOK' /\ NoDoubleBooking' /\ LocksOK' /\ GrantsOK' /\ CutsOK'
  BY DEF BookingInv, RowsOK, NoDoubleBooking, LocksOK, GrantsOK, CutsOK, Wanted
<1>3. HandlersOK' /\ HoldersOK'
  BY DEF BookingInv, HandlersOK, HoldersOK, Opens, ToLock, Wanted
<1> QED
  BY <1>1, <1>2, <1>3 DEF BookingInv

(* What has ended stays ended when the clock moves on.                     *)
LEMMA TickInv ==
  ASSUME BookingInv, Tick
  PROVE  BookingInv'
<1> USE DEF Tick, locks
<1>1. TypeOK' /\ now \in Nat
  BY DEF BookingInv, TypeOK
<1>2. RowsOK' /\ LocksOK' /\ HandlersOK' /\ HoldersOK'
  BY DEF BookingInv, RowsOK, LocksOK, HandlersOK, HoldersOK, Wanted, Opens, ToLock
<1>3. \A s \in DOMAIN schedules : schedules[s].end \in Nat
  BY DEF BookingInv, TypeOK, Schedule
<1>4. GrantsOK'
  BY <1>1, <1>3 DEF BookingInv, GrantsOK, Wanted, Disjoint
<1>5. CutsOK'
  <2>1. \A r \in Requests : my[r].end \in Nat
    BY DEF BookingInv, TypeOK, Local
  <2> QED
    BY <1>1, <2>1 DEF BookingInv, CutsOK
<1>6. NoDoubleBooking'
  BY <1>1, <1>3 DEF BookingInv, NoDoubleBooking, Compatible, Disjoint
<1> QED
  BY <1>1, <1>2, <1>4, <1>5, <1>6 DEF BookingInv

----------------------------------------------------------------------------
(* Every statement of every handler keeps the invariant.                   *)
LEMMA StepInv ==
  ASSUME BookingInv, Orderly, NEW r \in Requests, Step(r) \/ CommitFails(r) \/ TicketFails(r) \/ Crash(r)
  PROVE  BookingInv'
<1>1. CASE LockCloud(r)
  BY <1>1, LockCloudInv
<1>2. CASE CheckLimit(r)
  BY <1>2, CheckLimitInv
<1>3. CASE LockHost(r)
  BY <1>3, LockHostInv
<1>4. CASE Check(r)
  BY <1>4, CheckInv
<1>5. CASE Commit(r)
  BY <1>5, CommitInv
<1>6. CASE ResetPre(r)
  BY <1>6, ResetPreInv
<1>7. CASE InsertAssignment(r)
  BY <1>7, InsertAssignmentInv
<1>8. CASE TerminateWrite(r)
  BY <1>8, TerminateWriteInv
<1>9. CASE PatchWrite(r)
  BY <1>9 DEF PatchWrite, BookingInv, HandlersOK
<1>10. CASE CommitFails(r)
  BY <1>10, EndInv DEF CommitFails
<1>11. CASE Crash(r)
  BY <1>11, EndInv DEF Crash, Working, Locked
<1>12. CASE AmendWrite(r)
  BY <1>12, AmendWriteInv
<1>13. CASE TicketFails(r)
  BY <1>13, RefuseInv DEF TicketFails
<1> QED
  BY <1>1, <1>2, <1>3, <1>4, <1>5, <1>6, <1>7, <1>8, <1>9, <1>10, <1>11, <1>12, <1>13 DEF Step

(* So does the arrival of every orderly request.                           *)
LEMMA AcceptInv ==
  ASSUME BookingInv, Orderly, NEW r \in Requests, NEW b \in Bodies, Accept(r, b)
  PROVE  BookingInv'
<1>1. ~PatchReceive(r, b)
  BY DEF Orderly, PatchReceive
<1> QED
  BY <1>1, CreateReceiveInv, BatchReceiveInv, AssignReceiveInv, SelfReceiveInv,
     TerminateReceiveInv, AmendReceiveInv, DeleteScheduleInv DEF Accept

(* Hence every step of the system does.                                    *)
LEMMA NextInv ==
  ASSUME BookingInv, Orderly, [Next]_vars
  PROVE  BookingInv'
<1>1. CASE Next
  BY <1>1, StepInv, AcceptInv, UpdateHostInv, TickInv DEF Next
<1>2. CASE UNCHANGED vars
  <2> USE <1>2 DEF vars
  <2>1. TypeOK' /\ RowsOK' /\ NoDoubleBooking'
    BY DEF BookingInv, TypeOK, RowsOK, NoDoubleBooking
  <2>2. HandlersOK' /\ LocksOK' /\ HoldersOK' /\ GrantsOK' /\ CutsOK'
    BY DEF BookingInv, HandlersOK, LocksOK, HoldersOK, GrantsOK, CutsOK, Wanted, Opens, ToLock
  <2> QED
    BY <2>1, <2>2 DEF BookingInv
<1> QED
  BY <1>1, <1>2

----------------------------------------------------------------------------
(***************************************************************************)
(* The inductive invariant holds in every reachable state, when no request *)
(* is a PATCH and no batch names a host twice.                             *)
(***************************************************************************)
THEOREM BookingInvariant == Orderly /\ Spec => []BookingInv
<1> SUFFICES ASSUME Orderly PROVE Spec => []BookingInv
  OBVIOUS
<1>1. Init => BookingInv
  BY InitInv
<1>2. BookingInv /\ [Next]_vars => BookingInv'
  BY NextInv
<1> QED
  BY <1>1, <1>2, PTL DEF Spec

(* Every variable of the reservation core keeps its type.                  *)
THEOREM TypeCorrect == Orderly /\ Spec => []TypeOK
<1>1. BookingInv => TypeOK
  BY DEF BookingInv
<1> QED
  BY <1>1, BookingInvariant, PTL

(***************************************************************************)
(* However POST /schedules, POST /schedules/batch, terminate and DELETE    *)
(* interleave, crash or fail to commit, no host is promised twice.         *)
(***************************************************************************)
THEOREM NeverDoubleBooked == Orderly /\ Spec => []NoDoubleBooking
<1>1. BookingInv => NoDoubleBooking
  BY DEF BookingInv
<1> QED
  BY <1>1, BookingInvariant, PTL

(***************************************************************************)
(* is_host_available is exact on every calendar the requests can reach.    *)
(***************************************************************************)
THEOREM AvailabilityCorrect == Orderly /\ Spec => []AvailabilityIsExact
<1>1. BookingInv => AvailabilityIsExact
  <2> SUFFICES ASSUME BookingInv, NEW h \in Hosts,
                      NEW start \in 0 .. MaxTime + 1, NEW end \in 0 .. MaxTime + 1, start < end
               PROVE  Available(HostRows(h), start, end) <=>
                        \A row \in HostRows(h) : Disjoint(row, start, end)
    BY DEF AvailabilityIsExact
  <2>1. \A row \in HostRows(h) : row.start \in Nat /\ row.end \in Nat /\ row.start <= row.end
    BY DEF BookingInv, TypeOK, RowsOK, HostRows, Schedule
  <2>2. \A row \in HostRows(h) : Blocks(row, start, end) <=> ~Disjoint(row, start, end)
    BY <2>1, BlocksExactly, BookingAssumption
  <2> QED
    BY <2>2, BookingAssumption DEF Available
<1> QED
  BY <1>1, BookingInvariant, PTL

(***************************************************************************)
(* A request that holds what another one waits for never waits for         *)
(* something the other has, or will have, before: the order in which rows  *)
(* are locked rules deadlock out.                                          *)
(***************************************************************************)
THEOREM LocksOrdered == Orderly /\ Spec => []LockOrder
<1>1. BookingInv => LockOrder
  <2> SUFFICES ASSUME BookingInv, NEW r \in Requests, NEW q \in Requests, WaitsFor(r, q)
               PROVE  /\ pc[q] \notin {"cloud", "insert", "write"}
                      /\ pc[q] = "hosts" /\ pc[r] = "hosts" =>
                           \A g \in ToLock(q) : \E h \in ToLock(r) : h < g
    BY DEF LockOrder
  <2>1. CASE /\ pc[r] \in {"cloud", "insert", "write"} /\ my[r].cloud # None
             /\ cloudLock[my[r].cloud] = q
    <3>1. my[r].cloud \in Clouds
      BY <2>1 DEF BookingInv, TypeOK, Local
    <3> QED
      BY <2>1, <3>1 DEF BookingInv, HoldersOK, Locked
  <2>2. CASE pc[r] = "hosts" /\ \E h \in ToLock(r) : hostLock[h] = q
    <3>1. PICK h \in ToLock(r) : hostLock[h] = q
      BY <2>2
    <3>2. h \in Hosts
      BY <2>2, WantedHosts DEF ToLock, BookingInv, HandlersOK, Locked
    <3> QED
      BY <2>2, <3>1, <3>2 DEF BookingInv, HoldersOK
  <2> QED
    BY <2>1, <2>2 DEF WaitsFor
<1> QED
  BY <1>1, BookingInvariant, PTL

----------------------------------------------------------------------------
(* Nobody waits in a circle.                                               *)

(***************************************************************************)
(* Of the requests of a circle take one that needs the highest host, that  *)
(* is, one with the fewest hosts above it: the holder of its host needs a  *)
(* higher one.  That hosts are finitely many is what lets us take one.     *)
(***************************************************************************)
LEMMA NoCycle ==
  ASSUME BookingInv, LockOrder, IsFiniteSet(Hosts), NEW S \in SUBSET Requests, S # {}
  PROVE  \E r \in S : \A q \in S : ~WaitsFor(r, q)
<1> SUFFICES ASSUME \A r \in S : \E q \in S : WaitsFor(r, q) PROVE FALSE
  OBVIOUS
<1> DEFINE Needs(r, h) == h \in ToLock(r) /\ \A g \in ToLock(r) : h <= g
           Above(h) == {g \in Hosts : h < g}
           needed == {h \in Hosts : \E r \in S : pc[r] = "hosts" /\ Needs(r, h)}
           T == {Above(h) : h \in needed}
<1> HIDE DEF Needs
<1>1. \A r \in S : pc[r] = "hosts" =>
        \E q \in S : \E h \in ToLock(r) : Needs(r, h) /\ hostLock[h] = q /\ WaitsFor(r, q)
  BY DEF WaitsFor, Needs
<1>2. ASSUME NEW r \in S, NEW q \in S, WaitsFor(r, q)
      PROVE  pc[q] = "hosts"
  <2>1. pc[q] \notin {"cloud", "insert", "write"}
    BY <1>2 DEF LockOrder
  <2>2. PICK p \in S : WaitsFor(q, p)
    OBVIOUS
  <2> QED
    BY <2>1, <2>2 DEF WaitsFor
<1>3. \A r \in S : pc[r] = "hosts" => ToLock(r) \subseteq Hosts
  <2> TAKE r \in S
  <2> HAVE pc[r] = "hosts"
  <2>1. body[r] \in Bodies
    BY DEF BookingInv, HandlersOK
  <2> QED
    BY <2>1, WantedHosts DEF ToLock
<1>4. T # {}
  <2>1. PICK r \in S : TRUE
    OBVIOUS
  <2>2. PICK q \in S : WaitsFor(r, q)
    OBVIOUS
  <2>3. pc[q] = "hosts"
    BY <1>2, <2>2
  <2>4. PICK h \in ToLock(q) : Needs(q, h)
    BY <1>1, <2>3
  <2>5. h \in needed
    BY <1>3, <2>3, <2>4
  <2> QED
    BY <2>5
<1>5. IsWellFoundedOn(StrictSubsetOrdering(Hosts), FiniteSubsetsOf(Hosts))
  BY FS_StrictSubsetOrderingWellFounded
<1>6. T \subseteq FiniteSubsetsOf(Hosts)
  BY FS_FiniteSubsetsOfFinite
<1>7. PICK x \in T : \A y \in T : ~(<<y, x>> \in StrictSubsetOrdering(Hosts))
  BY <1>4, <1>5, <1>6, WFMin
<1>8. PICK h \in needed : x = Above(h)
  OBVIOUS
<1>9. PICK r \in S : pc[r] = "hosts" /\ Needs(r, h)
  BY <1>8
<1>10. PICK q \in S : hostLock[h] = q /\ WaitsFor(r, q)
  <2>1. PICK q \in S, f \in ToLock(r) : Needs(r, f) /\ hostLock[f] = q /\ WaitsFor(r, q)
    BY <1>1, <1>9
  <2>2. f = h
    <3>1. h \in Nat /\ f \in Nat
      BY <1>3, <1>9, BookingAssumption
    <3>2. h <= f /\ f <= h
      BY <1>9, <2>1 DEF Needs
    <3> QED
      BY <3>1, <3>2
  <2> QED
    BY <2>1, <2>2
<1>11. pc[q] = "hosts"
  BY <1>2, <1>10
<1>12. PICK g \in ToLock(q) : Needs(q, g)
  BY <1>1, <1>11
<1>13. g \in needed /\ h < g
  <2>1. g \in Hosts
    BY <1>3, <1>11, <1>12
  <2>2. \A f \in ToLock(q) : h < f
    BY <1>8, <1>10, <1>11 DEF BookingInv, HoldersOK
  <2> QED
    BY <1>11, <1>12, <2>1, <2>2
<1>14. Above(g) \subseteq Above(h) /\ Above(g) # Above(h)
  <2>1. h \in Nat /\ g \in Hosts /\ Hosts \subseteq Nat
    BY <1>8, <1>13, BookingAssumption
  <2>2. g \in Above(h) /\ g \notin Above(g)
    BY <1>13, <2>1
  <2>3. ASSUME NEW f \in Above(g) PROVE f \in Above(h)
    <3>1. f \in Nat /\ g \in Nat /\ g < f /\ h < g
      BY <1>13, <2>1
    <3> QED
      BY <2>1, <3>1
  <2> QED
    BY <2>2, <2>3
<1>15. <<Above(g), x>> \in StrictSubsetOrdering(Hosts)
  BY <1>8, <1>14 DEF StrictSubsetOrdering
<1>16. Above(g) \in T
  BY <1>13
<1> QED
  BY <1>7, <1>15, <1>16

(***************************************************************************)
(* However many requests wait for rows, one of them can go on: there is no *)
(* circle of requests, each holding the row that the one before it needs.  *)
(***************************************************************************)
THEOREM NoCircularWait == Orderly /\ IsFiniteSet(Hosts) /\ Spec => []NoWaitCycle
<1> SUFFICES ASSUME Orderly, IsFiniteSet(Hosts) PROVE Spec => []NoWaitCycle
  OBVIOUS
<1>1. BookingInv /\ LockOrder => NoWaitCycle
  <2> SUFFICES ASSUME BookingInv, LockOrder, NEW S \in SUBSET Requests, S # {}
               PROVE  \E r \in S : \A q \in S : ~WaitsFor(r, q)
    BY DEF NoWaitCycle
  <2> QED
    BY NoCycle
<1>2. Spec => []BookingInv
  BY BookingInvariant
<1>3. Spec => []LockOrder
  BY LocksOrdered
<1> QED
  BY <1>1, <1>2, <1>3, PTL

----------------------------------------------------------------------------
(* What a step changes of the requests and of the clouds they hold.        *)

(* A request that arrives is not in its locking transaction yet.           *)
LEMMA AcceptFrame ==
  ASSUME BookingInv, NEW r \in Requests, NEW b \in Bodies, Accept(r, b)
  PROVE  /\ pc[r] = "idle" /\ pc'[r] \notin Locked
         /\ \A q \in Requests \ {r} : pc'[q] = pc[q] /\ body'[q] = body[q] /\ my'[q] = my[q]
         /\ UNCHANGED <<now, assignments, nextId, cloudLock>>
<1> USE DEF Receive, Goto, locks, Locked, BookingInv, TypeOK
<1>1. CASE CreateReceive(r, b) \/ BatchReceive(r, b) \/ AssignReceive(r, b)
  BY <1>1 DEF CreateReceive, BatchReceive, AssignReceive
<1>2. CASE SelfReceive(r, b)
  BY <1>2 DEF SelfReceive
<1>3. CASE TerminateReceive(r, b) \/ AmendReceive(r, b)
  BY <1>3 DEF TerminateReceive, AmendReceive
<1>4. CASE DeleteSchedule(r, b) \/ PatchReceive(r, b)
  BY <1>4 DEF DeleteSchedule, PatchReceive
<1> QED
  BY <1>1, <1>2, <1>3, <1>4 DEF Accept

(* A statement takes its cloud, keeps it, or ends the transaction.         *)
LEMMA StepFrame ==
  ASSUME BookingInv, NEW r \in Requests,
         Step(r) \/ CommitFails(r) \/ TicketFails(r) \/ Crash(r)
  PROVE  /\ UNCHANGED <<now, body>>
         /\ \A q \in Requests \ {r} : pc'[q] = pc[q] /\ my'[q] = my[q]
         /\ \/ pc'[r] \notin Locked /\ (Release(r) \/ UNCHANGED cloudLock)
            \/ \E a, label : LockCloud(r) /\ BookOn(r, a, label)
            \/ /\ pc[r] \in Locked /\ pc'[r] \in Locked
               /\ UNCHANGED <<assignments, schedules, nextId, cloudLock>>
               /\ my'[r].cloud = my[r].cloud /\ my'[r].assignment = my[r].assignment
<1> USE DEF Goto, locks, Locked
<1>1. CASE Refuse(r) \/ Crash(r) \/ CommitFails(r)
  BY <1>1 DEF Refuse, Crash, CommitFails, BookingInv, TypeOK
<1>2. ASSUME NEW a, NEW label, LockCloud(r), BookOn(r, a, label)
      PROVE  /\ UNCHANGED <<now, body>>
             /\ \A q \in Requests \ {r} : pc'[q] = pc[q] /\ my'[q] = my[q]
  BY <1>2 DEF BookOn, BookingInv, TypeOK
<1>3. CASE LockCloud(r)
  <2>1. Refuse(r) \/ \E a, label : BookOn(r, a, label)
    BY <1>3 DEF LockCloud
  <2> QED
    BY <1>1, <1>2, <1>3, <2>1
<1>4. CASE CheckLimit(r) \/ LockHost(r)
  <2>1. CASE CheckLimit(r) /\ ~Refuse(r)
    BY <2>1 DEF CheckLimit, BookingInv, TypeOK
  <2>2. CASE LockHost(r)
    BY <2>2 DEF LockHost, BookingInv, TypeOK
  <2> QED
    BY <1>1, <1>4, <2>1, <2>2
<1>5. CASE Check(r) /\ ~Refuse(r)
  <2>1. PICK span \in Asked(r) :
          /\ Goto(r, "commit")
          /\ my' = [my EXCEPT ![r].start = span[1], ![r].end = span[2]]
          /\ UNCHANGED <<now, out, assignments, schedules, nextId, locks, body>>
    BY <1>5 DEF Check
  <2>2. pc[r] = "check" /\ my[r] \in Local
    BY <1>5 DEF Check, BookingInv, TypeOK
  <2> QED
    BY <2>1, <2>2 DEF BookingInv, TypeOK, Local
<1>6. CASE Commit(r)
  BY <1>6 DEF Commit, BookingInv, TypeOK
<1>7. CASE ResetPre(r) \/ InsertAssignment(r)
  BY <1>7 DEF ResetPre, InsertAssignment, BookingInv, TypeOK
<1>8. CASE TerminateWrite(r) \/ AmendWrite(r)
  BY <1>8 DEF TerminateWrite, AmendWrite, BookingInv, TypeOK
<1>9. CASE PatchWrite(r)
  BY <1>9 DEF PatchWrite, BookingInv, HandlersOK
<1> QED
  BY <1>1, <1>3, <1>4, <1>5, <1>6, <1>7, <1>8, <1>9 DEF Step, TicketFails

(* Each transaction holds the cloud it books on, and so no two book on one.*)
LEMMA CloudHeldStep ==
  ASSUME BookingInv, CloudHeld, [Next]_vars
  PROVE  CloudHeld'
<1>1. \A q \in Requests : pc[q] \in Locked => my[q].cloud \in Clouds
  BY DEF BookingInv, HandlersOK
<1>2. ASSUME NEW r \in Requests, NEW b \in Bodies, Accept(r, b)
      PROVE  CloudHeld'
  BY <1>2, AcceptFrame DEF CloudHeld
<1>3. ASSUME NEW r \in Requests, Step(r) \/ CommitFails(r) \/ TicketFails(r) \/ Crash(r)
      PROVE  CloudHeld'
  <2>1. \A q \in Requests \ {r} : pc'[q] = pc[q] /\ my'[q] = my[q]
    BY <1>3, StepFrame
  <2>2. CASE pc'[r] \notin Locked /\ (Release(r) \/ UNCHANGED cloudLock)
    BY <1>1, <2>1, <2>2 DEF CloudHeld, Release
  <2>3. ASSUME NEW a, NEW label, LockCloud(r), BookOn(r, a, label)
        PROVE  CloudHeld'
    <3>1. /\ cloudLock[my[r].cloud] = None /\ my[r].cloud \in Clouds
          /\ cloudLock' = [cloudLock EXCEPT ![my[r].cloud] = r]
          /\ my'[r].cloud = my[r].cloud
      BY <2>3 DEF LockCloud, BookOn, HoldCloud, BookingInv, TypeOK, HandlersOK, Local
    <3>2. cloudLock'[my[r].cloud] = r
      BY <3>1 DEF BookingInv, TypeOK
    <3>3. ASSUME NEW q \in Requests \ {r}, pc'[q] \in Locked
          PROVE  cloudLock'[my'[q].cloud] = q
      <4>1. cloudLock[my[q].cloud] = q /\ my[q].cloud \in Clouds /\ q # None
        BY <1>1, <2>1, <3>3, BookingAssumption DEF CloudHeld
      <4> QED
        BY <2>1, <3>1, <4>1 DEF BookingInv, TypeOK
    <3> QED
      BY <3>1, <3>2, <3>3 DEF CloudHeld
  <2>4. CASE /\ pc[r] \in Locked /\ pc'[r] \in Locked
             /\ UNCHANGED cloudLock /\ my'[r].cloud = my[r].cloud
    BY <2>1, <2>4 DEF CloudHeld
  <2> QED
    BY <1>3, <2>2, <2>3, <2>4, StepFrame
<1>4. CASE Tick \/ \E h \in FaultyHosts : UpdateHost(h)
  BY <1>4 DEF Tick, UpdateHost, CloudHeld, locks
<1>5. CASE UNCHANGED vars
  BY <1>5 DEF vars, CloudHeld
<1> QED
  BY <1>2, <1>3, <1>4, <1>5 DEF Next

----------------------------------------------------------------------------
(* One active assignment for each cloud.                                   *)

(* Nothing is opened unless by a batch at its commit.                      *)
LEMMA FewerActive ==
  ASSUME BookingInv, OpensByBatch, [Next]_vars,
         \A r \in Requests : ~(Commit(r) /\ Opens(r))
  PROVE  \A c \in Clouds : \A a : a \in ActiveAssignments(c)' => a \in ActiveAssignments(c)
<1>1. CASE UNCHANGED assignments
  BY <1>1 DEF ActiveAssignments
<1>2. ASSUME DOMAIN assignments' = DOMAIN assignments,
             \A a \in DOMAIN assignments :
               /\ assignments'[a].cloud = assignments[a].cloud
               /\ assignments'[a].active => assignments[a].active
      PROVE  \A c \in Clouds : \A a : a \in ActiveAssignments(c)' => a \in ActiveAssignments(c)
  BY <1>2 DEF ActiveAssignments
<1>3. \A a \in DOMAIN assignments : assignments[a] \in Assignment
  BY DEF BookingInv, TypeOK
<1>4. ASSUME NEW r \in Requests, ResetPre(r)
      PROVE  \A c \in Clouds : \A a : a \in ActiveAssignments(c)' => a \in ActiveAssignments(c)
  <2>1. assignments' = [assignments EXCEPT ![my[r].assignment].pre = FALSE]
    BY <1>4 DEF ResetPre
  <2> QED
    BY <1>2, <1>3, <2>1 DEF Assignment
<1>5. ASSUME NEW r \in Requests, TerminateWrite(r)
      PROVE  \A c \in Clouds : \A a : a \in ActiveAssignments(c)' => a \in ActiveAssignments(c)
  <2>1. \/ assignments' = [assignments EXCEPT ![my[r].assignment].active = FALSE]
        \/ UNCHANGED assignments
    BY <1>5 DEF TerminateWrite
  <2> QED
    BY <1>1, <1>2, <1>3, <2>1 DEF Assignment
<1>6. ASSUME NEW r \in Requests,
             Step(r) \/ CommitFails(r) \/ TicketFails(r) \/ Crash(r),
             ~ResetPre(r), ~TerminateWrite(r)
      PROVE  UNCHANGED assignments
  <2>1. pc[r] # "idle" => body[r].kind \notin {"assign", "self", "amend"}
    BY DEF BookingInv, HandlersOK, OpensByBatch
  <2>2. ~InsertAssignment(r) /\ ~AmendWrite(r) /\ ~PatchWrite(r)
    <3>1. pc[r] = "insert" => body[r].kind \in {"assign", "self"}
      BY DEF BookingInv, HandlersOK
    <3> QED
      BY <2>1, <3>1 DEF InsertAssignment, AmendWrite, PatchWrite, BookingInv, HandlersOK
  <2>3. CASE LockCloud(r)
    BY <2>3 DEF LockCloud, BookOn, Refuse
  <2>4. CASE CheckLimit(r) \/ LockHost(r) \/ Check(r)
    BY <2>4 DEF CheckLimit, LockHost, Check, Refuse
  <2>5. CASE Commit(r)
    BY <2>5 DEF Commit
  <2>6. CASE CommitFails(r) \/ TicketFails(r) \/ Crash(r)
    BY <2>6 DEF CommitFails, TicketFails, Crash, Refuse
  <2> QED
    BY <1>6, <2>2, <2>3, <2>4, <2>5, <2>6 DEF Step
<1>7. ASSUME NEW r \in Requests, NEW b \in Bodies, Accept(r, b)
      PROVE  UNCHANGED assignments
  BY <1>7, AcceptFrame
<1>8. CASE Tick \/ (\E h \in FaultyHosts : UpdateHost(h)) \/ UNCHANGED vars
  BY <1>1, <1>8 DEF Tick, UpdateHost, vars
<1> QED
  BY <1>1, <1>4, <1>5, <1>6, <1>7, <1>8 DEF Next

(* A batch that opens an assignment holds a cloud that has none.           *)
LEMMA OpeningsStep ==
  ASSUME BookingInv, BookingInv', OpeningsInv, OpensByBatch, [Next]_vars
  PROVE  OpeningsInv'
<1>1. CloudHeld'
  BY CloudHeldStep DEF OpeningsInv
<1>2. ASSUME \A r \in Requests : ~(Commit(r) /\ Opens(r))
      PROVE  OpeningsInv'
  <2>1. \A c \in Clouds : \A a : a \in ActiveAssignments(c)' => a \in ActiveAssignments(c)
    BY <1>2, FewerActive
  <2>2. \A c \in Clouds : \A a, d : a \in ActiveAssignments(c)' /\ d \in ActiveAssignments(c)' => a = d
    BY <2>1 DEF OpeningsInv
  <2>3. ASSUME NEW q \in Requests, pc'[q] \in Locked, Opens(q)'
        PROVE  /\ my'[q].cloud \in Clouds
               /\ ActiveAssignments(my[q].cloud)' = {}
    <3>1. my'[q].cloud \in Clouds
      BY <2>3 DEF BookingInv, HandlersOK
    <3>2. ASSUME NEW e \in Clouds, e = my'[q].cloud
          PROVE  ActiveAssignments(e) = {}
      <4>1. CASE pc[q] \in Locked /\ Opens(q) /\ my'[q].cloud = my[q].cloud
        BY <3>2, <4>1 DEF OpeningsInv
      <4>2. ASSUME NEW a, NEW label, LockCloud(q), BookOn(q, a, label)
            PROVE  ActiveAssignments(e) = {}
        <5>1. my'[q].cloud = my[q].cloud /\ body' = body
          BY <4>2 DEF BookOn, BookingInv, TypeOK, Local
        <5>2. Opens(q) /\ label = pc'[q]
          BY <2>3, <4>2, <5>1 DEF Opens, BookOn, Goto, BookingInv, TypeOK
        <5>3. label \in Locked /\ ~Refuse(q)
          BY <2>3, <5>2, <4>2 DEF Refuse, Goto, Locked, BookOn, BookingInv, TypeOK
        <5> QED
          BY <3>2, <4>2, <5>1, <5>2, <5>3 DEF LockCloud, Opens
      <4>3. ASSUME NEW r \in Requests, Step(r) \/ CommitFails(r) \/ TicketFails(r) \/ Crash(r)
            PROVE  ActiveAssignments(e) = {}
        BY <2>3, <4>1, <4>2, <4>3, StepFrame DEF Opens
      <4>4. ASSUME NEW r \in Requests, NEW b \in Bodies, Accept(r, b)
            PROVE  ActiveAssignments(e) = {}
        BY <2>3, <4>1, <4>4, AcceptFrame DEF Opens
      <4>5. CASE Tick \/ (\E h \in FaultyHosts : UpdateHost(h)) \/ UNCHANGED vars
        BY <2>3, <4>1, <4>5 DEF Tick, UpdateHost, vars, Opens
      <4> QED
        BY <4>3, <4>4, <4>5 DEF Next
    <3> QED
      BY <2>1, <3>1, <3>2 DEF ActiveAssignments
  <2> QED
    BY <1>1, <2>2, <2>3 DEF OpeningsInv
<1>3. ASSUME NEW r \in Requests, Commit(r), Opens(r)
      PROVE  OpeningsInv'
  <2>1. /\ pc[r] = "commit" /\ my[r].cloud \in Clouds /\ cloudLock[my[r].cloud] = r
        /\ ActiveAssignments(my[r].cloud) = {}
    BY <1>3 DEF Commit, OpeningsInv, CloudHeld, BookingInv, HandlersOK, Locked
  <2>2. assignments' = [a \in DOMAIN assignments \union {nextId} |->
                          IF a = nextId
                          THEN [cloud |-> my[r].cloud, owner |-> body[r].user, self |-> FALSE,
                                active |-> TRUE, pre |-> FALSE]
                          ELSE assignments[a]]
    BY <1>3 DEF Commit, OpenAssignment
  <2>3. \A c \in Clouds : \A a : a \in ActiveAssignments(c)' =>
          a \in ActiveAssignments(c) \/ (c = my[r].cloud /\ a = nextId)
    BY <2>2 DEF ActiveAssignments
  <2>4. \A c \in Clouds : \A a, d : a \in ActiveAssignments(c)' /\ d \in ActiveAssignments(c)' => a = d
    BY <2>1, <2>3 DEF OpeningsInv
  <2>5. ASSUME NEW q \in Requests, pc'[q] \in Locked, Opens(q)'
        PROVE  ActiveAssignments(my[q].cloud)' = {}
    <3>1. q # r /\ pc[q] \in Locked /\ Opens(q) /\ my'[q] = my[q]
      BY <1>3, <2>1, <2>5 DEF Commit, Goto, Opens, Locked, BookingInv, TypeOK
    <3>2. my[q].cloud \in Clouds /\ cloudLock[my[q].cloud] = q
          /\ ActiveAssignments(my[q].cloud) = {}
      BY <3>1 DEF OpeningsInv, CloudHeld, BookingInv, HandlersOK
    <3>3. my[q].cloud # my[r].cloud
      BY <2>1, <3>1, <3>2
    <3> QED
      BY <2>3, <3>1, <3>2, <3>3 DEF ActiveAssignments
  <2> QED
    BY <1>1, <2>4, <2>5 DEF OpeningsInv
<1> QED
  BY <1>2, <1>3

(***************************************************************************)
(* A cloud never has two active assignments, as long as batches are all    *)
(* that opens one: create_assignment and create_self_assignment, which ask *)
(* before they lock, and a PATCH, which does not ask, are what breaks it.  *)
(***************************************************************************)
THEOREM OneOpenAssignment == OpensByBatch /\ Spec => []OneActiveAssignment
<1> SUFFICES ASSUME OpensByBatch PROVE Spec => []OneActiveAssignment
  OBVIOUS
<1>1. Init => OpeningsInv
  BY BookingAssumption DEF Init, OpeningsInv, CloudHeld, ActiveAssignments, OpensByBatch, Locked
<1>2. BookingInv /\ BookingInv' /\ OpeningsInv /\ [Next]_vars => OpeningsInv'
  BY OpeningsStep
<1>3. Spec => []BookingInv
  BY BookingInvariant DEF OpensByBatch
<1>4. OpeningsInv => OneActiveAssignment
  <2> SUFFICES ASSUME OpeningsInv, NEW c \in Clouds
               PROVE  Cardinality(ActiveAssignments(c)) <= 1
    BY DEF OneActiveAssignment
  <2>1. \A a, d \in ActiveAssignments(c) : a = d
    BY DEF OpeningsInv
  <2>2. CASE ActiveAssignments(c) = {}
    BY <2>2, FS_EmptySet
  <2>3. ASSUME NEW a \in ActiveAssignments(c)
        PROVE  Cardinality(ActiveAssignments(c)) <= 1
    <3>1. ActiveAssignments(c) = {a}
      BY <2>1, <2>3
    <3>2. Cardinality({a}) = 1
      BY FS_Singleton, Zenon
    <3> QED
      BY <3>1, <3>2
  <2> QED
    BY <2>2, <2>3
<1> QED
  BY <1>1, <1>2, <1>3, <1>4, PTL DEF Spec

----------------------------------------------------------------------------
(* The limit on self-scheduled hosts.                                      *)

(* Keys of assignments come from the sequence, too.                        *)
LEMMA AssignmentKeysStep ==
  ASSUME BookingInv, Orderly, AssignmentKeys, [Next]_vars
  PROVE  AssignmentKeys'
<1>1. nextId \in Nat /\ DOMAIN assignments \subseteq Nat
  BY DEF BookingInv, TypeOK
<1>2. ASSUME DOMAIN assignments' = DOMAIN assignments, nextId' = nextId
      PROVE  AssignmentKeys'
  BY <1>2 DEF AssignmentKeys
<1>3. ASSUME NEW r \in Requests, Commit(r)
      PROVE  AssignmentKeys'
  <2>1. nextId' > nextId /\ nextId' \in Nat
    <3>1. body[r] \in Body
      BY <1>3, BookingAssumption DEF Commit, BookingInv, HandlersOK, Locked
    <3>2. Len(body[r].hosts) \in Nat
      BY <3>1 DEF Body
    <3> QED
      BY <1>1, <1>3, <3>2 DEF Commit
  <2>2. DOMAIN assignments' \subseteq DOMAIN assignments \union {nextId}
    BY <1>3 DEF Commit, OpenAssignment
  <2> QED
    BY <1>1, <2>1, <2>2 DEF AssignmentKeys
<1>4. ASSUME NEW r \in Requests, InsertAssignment(r)
      PROVE  AssignmentKeys'
  BY <1>1, <1>4 DEF InsertAssignment, OpenAssignment, AssignmentKeys
<1>5. ASSUME NEW r \in Requests,
             Step(r) \/ CommitFails(r) \/ TicketFails(r) \/ Crash(r),
             ~Commit(r), ~InsertAssignment(r)
      PROVE  DOMAIN assignments' = DOMAIN assignments /\ nextId' = nextId
  <2>1. CASE LockCloud(r) \/ CheckLimit(r) \/ Check(r)
    BY <2>1 DEF LockCloud, BookOn, CheckLimit, Check, Refuse
  <2>2. CASE LockHost(r) \/ ResetPre(r) \/ AmendWrite(r)
    BY <2>2 DEF LockHost, ResetPre, AmendWrite
  <2>3. CASE TerminateWrite(r)
    BY <2>3 DEF TerminateWrite
  <2>4. CASE CommitFails(r) \/ TicketFails(r) \/ Crash(r)
    BY <2>4 DEF CommitFails, TicketFails, Crash, Refuse
  <2>5. CASE PatchWrite(r)
    BY <2>5 DEF PatchWrite, BookingInv, HandlersOK
  <2> QED
    BY <1>5, <2>1, <2>2, <2>3, <2>4, <2>5 DEF Step
<1>6. ASSUME NEW r \in Requests, NEW b \in Bodies, Accept(r, b)
      PROVE  AssignmentKeys'
  BY <1>2, <1>6, AcceptFrame
<1>7. CASE Tick \/ (\E h \in FaultyHosts : UpdateHost(h)) \/ UNCHANGED vars
  BY <1>2, <1>7 DEF Tick, UpdateHost, vars
<1> QED
  BY <1>2, <1>3, <1>4, <1>5, <1>6, <1>7 DEF Next

(* No assignment moves, changes hands with the server or comes back to     *)
(* life, and no row but that of a commit becomes current.                  *)
NoneAppears ==
  /\ now <= now'
  /\ \A a \in DOMAIN assignments :
       /\ a \in DOMAIN assignments'
       /\ assignments'[a].cloud = assignments[a].cloud
       /\ assignments'[a].self = assignments[a].self
       /\ assignments'[a].active => assignments[a].active
  /\ \A s \in DOMAIN schedules' :
       /\ s \in DOMAIN schedules
       /\ schedules'[s].assignment = schedules[s].assignment
       /\ schedules'[s].start = schedules[s].start
       /\ now' < schedules'[s].end => now < schedules[s].end

(* A commit aside, that is so of every step.                               *)
LEMMA NothingAppears ==
  ASSUME BookingInv, AssignmentKeys, SelfService, [Next]_vars, \A r \in Requests : ~Commit(r)
  PROVE  NoneAppears
<1>1. /\ now \in Nat
      /\ \A s \in DOMAIN schedules : /\ schedules[s] \in Schedule
                                     /\ schedules[s].end \in Nat
      /\ \A a \in DOMAIN assignments : assignments[a] \in Assignment
  BY DEF BookingInv, TypeOK, Schedule
<1>2. CASE UNCHANGED <<now, assignments, schedules>>
  BY <1>1, <1>2 DEF NoneAppears
<1>3. ASSUME NEW r \in Requests, ResetPre(r)
      PROVE  NoneAppears
  BY <1>1, <1>3 DEF ResetPre, NoneAppears, Assignment
<1>4. ASSUME NEW r \in Requests, TerminateWrite(r)
      PROVE  NoneAppears
  <2>1. my[r].end <= now /\ my[r].end \in Nat
    BY <1>4 DEF TerminateWrite, BookingInv, CutsOK, TypeOK, Local
  <2>2. CASE /\ assignments' = [assignments EXCEPT ![my[r].assignment].active = FALSE]
             /\ schedules' = [s \in DOMAIN schedules |->
                                IF s \in my[r].ids THEN [schedules[s] EXCEPT !.end = my[r].end]
                                ELSE schedules[s]]
    <3>1. \A a \in DOMAIN assignments :
            /\ a \in DOMAIN assignments'
            /\ assignments'[a].cloud = assignments[a].cloud
            /\ assignments'[a].self = assignments[a].self
            /\ assignments'[a].active => assignments[a].active
      BY <1>1, <2>2 DEF Assignment
    <3>2. \A s \in DOMAIN schedules' :
            /\ s \in DOMAIN schedules
            /\ schedules'[s].assignment = schedules[s].assignment
            /\ schedules'[s].start = schedules[s].start
            /\ schedules'[s].end = schedules[s].end \/ schedules'[s].end = my[r].end
      BY <1>1, <2>2 DEF Schedule
    <3>3. now' = now
      BY <1>4 DEF TerminateWrite
    <3> QED
      BY <1>1, <2>1, <3>1, <3>2, <3>3 DEF NoneAppears
  <2> QED
    BY <1>2, <1>4, <2>2 DEF TerminateWrite
<1>5. ASSUME NEW r \in Requests, InsertAssignment(r)
      PROVE  NoneAppears
  <2>1. nextId \notin DOMAIN assignments
    BY DEF AssignmentKeys, BookingInv, TypeOK
  <2> QED
    BY <1>1, <1>5, <2>1 DEF InsertAssignment, OpenAssignment, NoneAppears
<1>6. ASSUME NEW r \in Requests,
             Step(r) \/ CommitFails(r) \/ TicketFails(r) \/ Crash(r),
             ~Commit(r), ~ResetPre(r), ~TerminateWrite(r), ~InsertAssignment(r)
      PROVE  UNCHANGED <<now, assignments, schedules>>
  <2>1. CASE LockCloud(r) \/ CheckLimit(r) \/ Check(r)
    BY <2>1 DEF LockCloud, BookOn, CheckLimit, Check, Refuse
  <2>2. CASE LockHost(r)
    BY <2>2 DEF LockHost
  <2>3. CASE CommitFails(r) \/ TicketFails(r) \/ Crash(r)
    BY <2>3 DEF CommitFails, TicketFails, Crash, Refuse
  <2>4. ~PatchWrite(r) /\ ~AmendWrite(r)
    BY DEF PatchWrite, AmendWrite, BookingInv, HandlersOK, SelfService
  <2> QED
    BY <1>6, <2>1, <2>2, <2>3, <2>4 DEF Step
<1>7. ASSUME NEW r \in Requests, NEW b \in Bodies, Accept(r, b)
      PROVE  NoneAppears
  <2>1. UNCHANGED <<now, assignments>>
    BY <1>7, AcceptFrame
  <2>2. CASE DeleteSchedule(r, b)
    BY <1>1, <2>1, <2>2 DEF DeleteSchedule, NoneAppears
  <2>3. CASE ~DeleteSchedule(r, b)
    <3>1. UNCHANGED schedules
      BY <1>7, <2>3 DEF Accept, CreateReceive, BatchReceive, AssignReceive, SelfReceive,
         TerminateReceive, AmendReceive, PatchReceive
    <3> QED
      BY <1>2, <2>1, <3>1
  <2> QED
    BY <2>2, <2>3
<1>8. CASE Tick
  BY <1>1, <1>8 DEF Tick, NoneAppears
<1>9. CASE (\E h \in FaultyHosts : UpdateHost(h)) \/ UNCHANGED vars
  BY <1>2, <1>9 DEF UpdateHost, vars
<1> QED
  BY <1>2, <1>3, <1>4, <1>5, <1>6, <1>7, <1>8, <1>9 DEF Next

(* Then no row of a user's becomes current, either: all have started.      *)
LEMMA SelfRowsKept ==
  ASSUME BookingInv, BookingInv', SelfRowsStarted, NoneAppears
  PROVE  /\ SelfRowsStarted'
         /\ \A c \in Clouds : \A s : s \in SelfRows(c)' => s \in SelfRows(c)
<1>1. \A s \in DOMAIN schedules : /\ schedules[s].assignment \in DOMAIN assignments
                                 /\ schedules[s].start \in Nat
  BY DEF BookingInv, RowsOK, TypeOK, Schedule
<1>2. now \in Nat /\ now' \in Nat
  BY DEF BookingInv, TypeOK
<1> QED
  BY <1>1, <1>2 DEF NoneAppears, SelfRowsStarted, SelfRows, CurrentSchedules

(* A set of rows that does not grow keeps its count below the limit.       *)
LEMMA CountsKept ==
  ASSUME IsFiniteSet(DOMAIN schedules), NEW c \in Clouds,
         \A s : s \in SelfRows(c)' => s \in SelfRows(c)
  PROVE  /\ Cardinality(SelfRows(c)) \in Nat /\ Cardinality(SelfRows(c))' \in Nat
         /\ Cardinality(SelfRows(c))' <= Cardinality(SelfRows(c))
<1>1. SelfRows(c) \in SUBSET DOMAIN schedules
  BY DEF SelfRows, CurrentSchedules
<1>2. IsFiniteSet(SelfRows(c))
  BY <1>1, FS_Subset
<1>3. SelfRows(c)' \in SUBSET SelfRows(c)
  OBVIOUS
<1>4. IsFiniteSet(SelfRows(c)') /\ Cardinality(SelfRows(c)') <= Cardinality(SelfRows(c))
  BY <1>2, <1>3, FS_Subset
<1> QED
  BY <1>2, <1>4, FS_CardinalityType

(* A request goes on with the room it has found, or finds it.              *)
LEMMA RoomLeftKept ==
  ASSUME BookingInv, BookingInv', SelfInv, SelfService, [Next]_vars, NoneAppears,
         \A c \in Clouds : \A s : s \in SelfRows(c)' => s \in SelfRows(c)
  PROVE  RoomLeft'
<1>1. ASSUME NEW q \in Requests, pc[q] \in Locked
      PROVE  /\ my[q].assignment \in DOMAIN assignments /\ my[q].cloud \in Clouds
             /\ body[q].kind = "create"
  BY <1>1 DEF BookingInv, HandlersOK, Opens, SelfService, Locked
<1>2. now \in Nat /\ now' \in Nat /\ now <= now' /\ HostLimit \in Nat
  BY BookingAssumption DEF BookingInv, TypeOK, NoneAppears
<1> DEFINE Fits(q) == /\ assignments[my[q].assignment].cloud = my[q].cloud
                      /\ assignments[my[q].assignment].self =>
                           /\ pc'[q] # "limit" => Cardinality(SelfRows(my[q].cloud)) < HostLimit
                           /\ pc'[q] = "commit" => my'[q].start <= now
<1>3. ASSUME NEW q \in Requests, pc[q] \in Locked, pc'[q] \in Locked, Fits(q),
             my'[q].cloud = my[q].cloud, my'[q].assignment = my[q].assignment
      PROVE  /\ assignments'[my'[q].assignment].cloud = my'[q].cloud
             /\ assignments'[my'[q].assignment].self =>
                  /\ pc'[q] # "limit" => Cardinality(SelfRows(my[q].cloud))' < HostLimit
                  /\ pc'[q] = "commit" => my'[q].start <= now'
  <2>1. /\ assignments'[my'[q].assignment].cloud = my'[q].cloud
        /\ assignments'[my'[q].assignment].self => assignments[my[q].assignment].self
    BY <1>1, <1>3 DEF NoneAppears
  <2>2. ASSUME NEW c \in Clouds, c = my[q].cloud, Cardinality(SelfRows(my[q].cloud)) < HostLimit
        PROVE  Cardinality(SelfRows(my[q].cloud))' < HostLimit
    <3>1. /\ Cardinality(SelfRows(c)) \in Nat /\ Cardinality(SelfRows(c))' \in Nat
          /\ Cardinality(SelfRows(c))' <= Cardinality(SelfRows(c))
      BY CountsKept DEF SelfInv
    <3>2. SelfRows(my[q].cloud)' = SelfRows(c)'
      BY <1>3, <2>2 DEF SelfRows, CurrentSchedules
    <3> QED
      BY <1>2, <2>2, <3>1, <3>2
  <2>3. my'[q].start \in Nat
    BY DEF BookingInv, TypeOK, Local
  <2> QED
    BY <1>1, <1>2, <1>3, <2>1, <2>2, <2>3
<1>4. ASSUME NEW q \in Requests, pc'[q] \in Locked, pc'[q] = pc[q], my'[q] = my[q]
      PROVE  Fits(q)
  BY <1>4 DEF SelfInv, RoomLeft
<1>5. ASSUME NEW q \in Requests, CheckLimit(q), pc'[q] \in Locked
      PROVE  /\ pc[q] \in Locked /\ Fits(q)
             /\ my'[q].cloud = my[q].cloud /\ my'[q].assignment = my[q].assignment
  <2> DEFINE booked == {s \in CurrentSchedules :
                          assignments[schedules[s].assignment].cloud = my[q].cloud}
  <2>1. pc[q] = "limit" /\ my[q].cloud \in Clouds
    BY <1>1, <1>5 DEF CheckLimit, Locked
  <2>2. ~Refuse(q)
    BY <1>5 DEF Refuse, Goto, Locked, BookingInv, TypeOK
  <2>3. /\ assignments[my[q].assignment].self => Cardinality(booked) < HostLimit
        /\ Goto(q, "hosts") /\ my' = my
    BY <1>5, <2>2 DEF CheckLimit
  <2>4. booked \in SUBSET DOMAIN schedules /\ SelfRows(my[q].cloud) \in SUBSET booked
    BY DEF SelfRows, CurrentSchedules
  <2>5. IsFiniteSet(booked)
    BY <2>4, FS_Subset DEF SelfInv
  <2>6. /\ IsFiniteSet(SelfRows(my[q].cloud))
        /\ Cardinality(SelfRows(my[q].cloud)) <= Cardinality(booked)
    BY <2>4, <2>5, FS_Subset
  <2>7. Cardinality(booked) \in Nat /\ Cardinality(SelfRows(my[q].cloud)) \in Nat
    BY <2>5, <2>6, FS_CardinalityType
  <2>8. pc'[q] = "hosts"
    BY <2>3 DEF Goto, BookingInv, TypeOK
  <2>9. assignments[my[q].assignment].cloud = my[q].cloud
    BY <2>1 DEF SelfInv, RoomLeft, Locked
  <2> QED
    BY <1>2, <2>1, <2>3, <2>6, <2>7, <2>8, <2>9 DEF Locked
<1>6. ASSUME NEW q \in Requests, LockHost(q)
      PROVE  /\ pc[q] \in Locked /\ Fits(q)
             /\ my'[q].cloud = my[q].cloud /\ my'[q].assignment = my[q].assignment
  <2>1. pc[q] = "hosts" /\ pc'[q] \in {"hosts", "check"} /\ my' = my
    BY <1>6 DEF LockHost, Goto, BookingInv, TypeOK
  <2> QED
    BY <2>1 DEF SelfInv, RoomLeft, Locked
<1>7. ASSUME NEW q \in Requests, Check(q), pc'[q] \in Locked
      PROVE  /\ pc[q] \in Locked /\ Fits(q)
             /\ my'[q].cloud = my[q].cloud /\ my'[q].assignment = my[q].assignment
  <2>1. ~Refuse(q)
    BY <1>7 DEF Refuse, Goto, Locked, BookingInv, TypeOK
  <2>2. PICK span \in Asked(q) :
          /\ Goto(q, "commit")
          /\ my' = [my EXCEPT ![q].start = span[1], ![q].end = span[2]]
    BY <1>7, <2>1 DEF Check
  <2>3. pc[q] = "check" /\ my[q] \in Local
    BY <1>7 DEF Check, BookingInv, TypeOK
  <2>4. /\ my'[q].start = span[1]
        /\ my'[q].cloud = my[q].cloud /\ my'[q].assignment = my[q].assignment
    BY <2>2, <2>3 DEF BookingInv, TypeOK, Local
  <2>5. assignments[my[q].assignment].self => span[1] = now
    BY <1>1, <2>2, <2>3 DEF Asked, SelfBooking, Locked
  <2> QED
    BY <1>2, <2>3, <2>4, <2>5 DEF SelfInv, RoomLeft, Locked
<1>8. ASSUME NEW q \in Requests, NEW a, NEW label, LockCloud(q), BookOn(q, a, label),
             pc'[q] \in Locked
      PROVE  /\ assignments'[my'[q].assignment].cloud = my'[q].cloud
             /\ pc'[q] = "limit"
  <2>1. ~Refuse(q) /\ body[q].kind = "create" /\ body' = body
    BY <1>8 DEF Refuse, BookOn, Goto, Locked, BookingInv, HandlersOK, TypeOK, LockCloud, SelfService
  <2>2. PICK d \in ActiveAssignments(my[q].cloud) : BookOn(q, d, "limit")
    BY <1>8, <2>1 DEF LockCloud, Opens
  <2>3. /\ d \in DOMAIN assignments /\ assignments[d].cloud = my[q].cloud
        /\ assignments' = assignments /\ my'[q].assignment = d /\ my'[q].cloud = my[q].cloud
        /\ pc'[q] = "limit"
    BY <2>2 DEF ActiveAssignments, BookOn, Goto, BookingInv, TypeOK, Local
  <2> QED
    BY <2>3
<1>9. ASSUME NEW q \in Requests, pc'[q] \in Locked
      PROVE  \/ /\ pc[q] \in Locked /\ Fits(q)
                /\ my'[q].cloud = my[q].cloud /\ my'[q].assignment = my[q].assignment
             \/ \E a, label : LockCloud(q) /\ BookOn(q, a, label)
  <2>1. CASE pc'[q] = pc[q] /\ my'[q] = my[q]
    BY <1>4, <1>9, <2>1
  <2>2. ASSUME NEW r \in Requests, Step(r) \/ CommitFails(r) \/ TicketFails(r) \/ Crash(r)
        PROVE  \/ pc'[q] = pc[q] /\ my'[q] = my[q]
               \/ CheckLimit(q) \/ LockHost(q) \/ Check(q)
               \/ \E a, label : LockCloud(q) /\ BookOn(q, a, label)
    <3>1. CASE q # r
      BY <2>2, <3>1, StepFrame
    <3>2. CASE q = r
      <4>1. ~Refuse(q)
        BY <1>9 DEF Refuse, Goto, Locked, BookingInv, TypeOK
      <4>2. CASE LockCloud(q)
        BY <4>1, <4>2 DEF LockCloud
      <4>3. CASE \/ Commit(q) \/ ResetPre(q) \/ InsertAssignment(q) \/ TerminateWrite(q)
                 \/ AmendWrite(q) \/ PatchWrite(q) \/ CommitFails(q) \/ Crash(q)
        BY <1>9, <4>3 DEF Commit, ResetPre, InsertAssignment, TerminateWrite, AmendWrite,
           PatchWrite, CommitFails, Crash, Goto, Locked, BookingInv, TypeOK
      <4> QED
        BY <2>2, <3>2, <4>1, <4>2, <4>3 DEF Step, TicketFails
    <3> QED
      BY <3>1, <3>2
  <2>3. ASSUME NEW r \in Requests, NEW b \in Bodies, Accept(r, b)
        PROVE  pc'[q] = pc[q] /\ my'[q] = my[q]
    BY <1>9, <2>3, AcceptFrame
  <2>4. CASE Tick \/ (\E h \in FaultyHosts : UpdateHost(h)) \/ UNCHANGED vars
    BY <2>1, <2>4 DEF Tick, UpdateHost, vars
  <2> QED
    BY <1>5, <1>6, <1>7, <1>9, <2>1, <2>2, <2>3, <2>4 DEF Next
<1> HIDE DEF Fits
<1>10. ASSUME NEW q \in Requests, pc'[q] \in Locked
       PROVE  /\ assignments'[my'[q].assignment].cloud = my'[q].cloud
              /\ assignments'[my'[q].assignment].self =>
                   /\ pc'[q] # "limit" => Cardinality(SelfRows(my[q].cloud))' < HostLimit
                   /\ pc'[q] = "commit" => my'[q].start <= now'
  <2>1. CASE /\ pc[q] \in Locked /\ Fits(q)
             /\ my'[q].cloud = my[q].cloud /\ my'[q].assignment = my[q].assignment
    BY <1>3, <1>10, <2>1
  <2>2. CASE \E a, label : LockCloud(q) /\ BookOn(q, a, label)
    BY <1>8, <1>10, <2>2
  <2> QED
    BY <1>9, <1>10, <2>1, <2>2
<1> QED
  BY <1>10 DEF RoomLeft

(* A commit adds the one row there was room for, and no other request can  *)
(* be counting on that room: it would hold the same cloud.                 *)
LEMMA CommitKeepsLimit ==
  ASSUME BookingInv, BookingInv', SelfInv, SelfService, NEW r \in Requests, Commit(r)
  PROVE  /\ SelfRowsStarted' /\ RoomLeft'
         /\ IsFiniteSet(DOMAIN schedules)'
         /\ \A c \in Clouds : Cardinality(SelfRows(c))' <= HostLimit
<1> DEFINE n == nextId + 1
           a == my[r].assignment
<1>1. /\ pc[r] = "commit" /\ body[r].kind = "create" /\ Len(body[r].hosts) = 1 /\ ~Opens(r)
      /\ body[r] \in Body /\ a \in DOMAIN assignments /\ my[r].cloud \in Clouds
      /\ cloudLock[my[r].cloud] = r
  BY BookingAssumption DEF Commit, BookingInv, HandlersOK, Locked, SelfService, Opens, SelfInv,
     CloudHeld
<1>2. /\ nextId \in Nat /\ now \in Nat /\ now' = now /\ HostLimit \in Nat
      /\ assignments' = assignments
  BY <1>1, BookingAssumption DEF Commit, BookingInv, TypeOK
<1>3. DOMAIN body[r].hosts = {1} /\ NewIds(r) = {n}
  <2>1. DOMAIN body[r].hosts = 1 .. 1
    BY <1>1 DEF Body
  <2> QED
    BY <2>1 DEF NewIds
<1>4. n \notin DOMAIN schedules
  BY <1>2 DEF BookingInv, TypeOK, RowsOK
<1>5. /\ DOMAIN schedules' = DOMAIN schedules \union {n}
      /\ \A s \in DOMAIN schedules : schedules'[s] = schedules[s]
      /\ schedules'[n].assignment = a /\ schedules'[n].start = my[r].start
  BY <1>1, <1>3, <1>4 DEF Commit, NewSchedule, NewAssignment
<1>6. /\ assignments[a].cloud = my[r].cloud
      /\ assignments[a].self => /\ Cardinality(SelfRows(my[r].cloud)) < HostLimit
                                /\ my[r].start <= now
  BY <1>1 DEF SelfInv, RoomLeft, Locked
<1>7. SelfRowsStarted'
  <2>1. \A s \in DOMAIN schedules : assignments[schedules[s].assignment].self =>
          schedules[s].start <= now
    BY DEF SelfInv, SelfRowsStarted
  <2>2. \A s \in DOMAIN schedules' : assignments[schedules'[s].assignment].self =>
          schedules'[s].start <= now
    BY <1>5, <1>6, <2>1
  <2> QED
    BY <1>2, <2>2 DEF SelfRowsStarted
<1>8. IsFiniteSet(DOMAIN schedules')
  BY <1>5, FS_AddElement DEF SelfInv
<1>9. ASSUME NEW c \in Clouds
      PROVE  /\ \A s : s \in SelfRows(c)' => s \in SelfRows(c) \union {n}
             /\ n \in SelfRows(c)' => c = my[r].cloud /\ assignments[a].self
  BY <1>2, <1>5, <1>6 DEF SelfRows, CurrentSchedules
<1>10. ASSUME NEW c \in Clouds
       PROVE  IsFiniteSet(SelfRows(c)) /\ Cardinality(SelfRows(c)) \in Nat
  <2>1. SelfRows(c) \in SUBSET DOMAIN schedules
    BY DEF SelfRows, CurrentSchedules
  <2>2. IsFiniteSet(SelfRows(c))
    BY <2>1, FS_Subset DEF SelfInv
  <2> QED
    BY <2>2, FS_CardinalityType
<1>11. ASSUME NEW c \in Clouds, n \notin SelfRows(c)'
       PROVE  /\ Cardinality(SelfRows(c))' \in Nat
              /\ Cardinality(SelfRows(c))' <= Cardinality(SelfRows(c))
  <2>1. \A s : s \in SelfRows(c)' => s \in SelfRows(c)
    BY <1>9, <1>11
  <2> QED
    BY <2>1, CountsKept DEF SelfInv
<1>12. ASSUME NEW c \in Clouds
       PROVE  Cardinality(SelfRows(c))' <= HostLimit
  <2>1. CASE n \notin SelfRows(c)'
    <3>1. Cardinality(SelfRows(c)) <= HostLimit
      BY DEF SelfInv
    <3> QED
      BY <1>2, <1>10, <1>11, <2>1, <3>1
  <2>2. CASE n \in SelfRows(c)'
    <3>1. Cardinality(SelfRows(c)) < HostLimit
      BY <1>6, <1>9, <2>2
    <3>2. IsFiniteSet(SelfRows(c)) /\ Cardinality(SelfRows(c)) \in Nat
      BY <1>10
    <3>3. /\ IsFiniteSet(SelfRows(c) \union {n})
          /\ Cardinality(SelfRows(c) \union {n}) <= Cardinality(SelfRows(c)) + 1
          /\ Cardinality(SelfRows(c) \union {n}) \in Nat
      <4>1. /\ IsFiniteSet(SelfRows(c) \union {n})
            /\ Cardinality(SelfRows(c) \union {n}) =
                 IF n \in SelfRows(c) THEN Cardinality(SelfRows(c))
                 ELSE Cardinality(SelfRows(c)) + 1
        BY <3>2, FS_AddElement
      <4> QED
        BY <3>2, <4>1
    <3>4. SelfRows(c)' \in SUBSET (SelfRows(c) \union {n})
      BY <1>9
    <3>5. /\ IsFiniteSet(SelfRows(c)')
          /\ Cardinality(SelfRows(c)') <= Cardinality(SelfRows(c) \union {n})
      BY <3>3, <3>4, FS_Subset
    <3>6. Cardinality(SelfRows(c)') \in Nat
      BY <3>5, FS_CardinalityType
    <3> QED
      BY <1>2, <3>1, <3>2, <3>3, <3>5, <3>6
  <2> QED
    BY <2>1, <2>2
<1>13. RoomLeft'
  <2> SUFFICES ASSUME NEW q \in Requests, pc'[q] \in Locked
               PROVE  /\ assignments'[my'[q].assignment].cloud = my'[q].cloud
                      /\ assignments'[my'[q].assignment].self =>
                           /\ pc'[q] # "limit" => Cardinality(SelfRows(my[q].cloud))' < HostLimit
                           /\ pc'[q] = "commit" => my'[q].start <= now'
    BY DEF RoomLeft
  <2>1. pc'[r] \notin Locked /\ \A p \in Requests \ {r} : pc'[p] = pc[p] /\ my'[p] = my[p]
    BY <1>1 DEF Commit, Goto, Locked, BookingInv, TypeOK
  <2>2. q # r /\ pc[q] \in Locked /\ pc'[q] = pc[q] /\ my'[q] = my[q]
    BY <2>1
  <2>3. my[q].cloud \in Clouds /\ my[q].cloud # my[r].cloud
    BY <1>1, <2>2 DEF SelfInv, CloudHeld, BookingInv, HandlersOK
  <2>4. /\ assignments[my[q].assignment].cloud = my[q].cloud
        /\ assignments[my[q].assignment].self =>
             /\ pc[q] # "limit" => Cardinality(SelfRows(my[q].cloud)) < HostLimit
             /\ pc[q] = "commit" => my[q].start <= now
    BY <2>2 DEF SelfInv, RoomLeft
  <2>5. ASSUME NEW c \in Clouds, c = my[q].cloud, Cardinality(SelfRows(my[q].cloud)) < HostLimit
        PROVE  Cardinality(SelfRows(my[q].cloud))' < HostLimit
    <3>1. /\ Cardinality(SelfRows(c))' \in Nat /\ Cardinality(SelfRows(c)) \in Nat
          /\ Cardinality(SelfRows(c))' <= Cardinality(SelfRows(c))
      BY <1>9, <1>10, <1>11, <2>3, <2>5
    <3>2. SelfRows(my[q].cloud)' = SelfRows(c)'
      BY <2>2, <2>5 DEF SelfRows, CurrentSchedules
    <3> QED
      BY <1>2, <2>5, <3>1, <3>2
  <2> QED
    BY <1>2, <2>2, <2>3, <2>4, <2>5
<1> QED
  BY <1>7, <1>8, <1>12, <1>13

(* Every step keeps the users' rows within the limit.                      *)
LEMMA SelfInvStep ==
  ASSUME BookingInv, BookingInv', SelfInv, SelfService, [Next]_vars
  PROVE  SelfInv'
<1>1. CloudHeld' /\ AssignmentKeys'
  BY CloudHeldStep, AssignmentKeysStep DEF SelfInv, SelfService
<1>2. ASSUME NEW r \in Requests, Commit(r)
      PROVE  SelfInv'
  BY <1>1, <1>2, CommitKeepsLimit DEF SelfInv
<1>3. CASE \A r \in Requests : ~Commit(r)
  <2>1. NoneAppears
    BY <1>3, NothingAppears DEF SelfInv
  <2>2. /\ SelfRowsStarted'
        /\ \A c \in Clouds : \A s : s \in SelfRows(c)' => s \in SelfRows(c)
    BY <2>1, SelfRowsKept DEF SelfInv
  <2>3. RoomLeft'
    BY <2>1, <2>2, RoomLeftKept
  <2>4. IsFiniteSet(DOMAIN schedules)'
    <3>1. DOMAIN schedules' \in SUBSET DOMAIN schedules
      BY <2>1 DEF NoneAppears
    <3> QED
      BY <3>1, FS_Subset DEF SelfInv
  <2>5. ASSUME NEW c \in Clouds
        PROVE  Cardinality(SelfRows(c))' <= HostLimit
    <3>1. Cardinality(SelfRows(c)) <= HostLimit /\ HostLimit \in Nat
      BY BookingAssumption DEF SelfInv
    <3>2. /\ Cardinality(SelfRows(c)) \in Nat /\ Cardinality(SelfRows(c))' \in Nat
          /\ Cardinality(SelfRows(c))' <= Cardinality(SelfRows(c))
      BY <2>2, CountsKept DEF SelfInv
    <3> QED
      BY <3>1, <3>2
  <2> QED
    BY <1>1, <2>2, <2>3, <2>4, <2>5 DEF SelfInv
<1> QED
  BY <1>2, <1>3

(* At the start the users' rows are the ones the database holds.           *)
LEMMA InitSelfInv == ASSUME Init, SelfService PROVE SelfInv
<1>1. CloudHeld /\ RoomLeft
  BY DEF Init, CloudHeld, RoomLeft, Locked
<1>2. AssignmentKeys
  BY BookingAssumption DEF Init, AssignmentKeys
<1>3. SelfRowsStarted /\ IsFiniteSet(DOMAIN schedules)
  BY DEF Init, SelfService, SelfRowsStarted
<1>4. ASSUME NEW c \in Clouds
      PROVE  Cardinality(SelfRows(c)) <= HostLimit
  <2> DEFINE rows == {s \in DOMAIN Schedules0 :
                        LET a == Assignments0[Schedules0[s].assignment]
                        IN  a.cloud = c /\ a.self /\ a.active}
  <2>1. Cardinality(rows) <= HostLimit /\ HostLimit \in Nat
    BY BookingAssumption DEF SelfService
  <2>2. SelfRows(c) \in SUBSET rows
    BY DEF Init, SelfRows, CurrentSchedules
  <2>3. IsFiniteSet(rows)
    <3>1. rows \in SUBSET DOMAIN Schedules0
      OBVIOUS
    <3>2. IsFiniteSet(DOMAIN Schedules0)
      BY DEF SelfService
    <3> QED
      BY <3>1, <3>2, FS_Subset
  <2> HIDE DEF rows
  <2>4. IsFiniteSet(SelfRows(c)) /\ Cardinality(SelfRows(c)) <= Cardinality(rows)
    BY <2>2, <2>3, FS_Subset
  <2>5. Cardinality(rows) \in Nat /\ Cardinality(SelfRows(c)) \in Nat
    BY <2>3, <2>4, FS_CardinalityType
  <2> QED
    BY <2>1, <2>4, <2>5
<1> QED
  BY <1>1, <1>2, <1>3, <1>4 DEF SelfInv

(***************************************************************************)
(* However many users ask at once, terminate or delete, a cloud never has  *)
(* more current self-scheduled hosts than ssm_host_limit.                  *)
(***************************************************************************)
THEOREM HostLimitKept == SelfService /\ Spec => []SelfHostLimit
<1> SUFFICES ASSUME SelfService PROVE Spec => []SelfHostLimit
  OBVIOUS
<1>1. Init => SelfInv
  BY InitSelfInv
<1>2. BookingInv /\ BookingInv' /\ SelfInv /\ [Next]_vars => SelfInv'
  BY SelfInvStep
<1>3. Spec => []BookingInv
  BY BookingInvariant DEF SelfService
<1>4. SelfInv => SelfHostLimit
  BY DEF SelfInv, SelfHostLimit, SelfRows
<1> QED
  BY <1>1, <1>2, <1>3, <1>4, PTL DEF Spec

----------------------------------------------------------------------------
(* Each step of a request is a step of the calendar, or leaves it alone.   *)

(* The rows of a commit fit the calendar.                                  *)
LEMMA CommitReserves ==
  ASSUME BookingInv, BookingInv', NEW r \in Requests, Commit(r)
  PROVE  Cal!Reserve
<1>1. /\ pc[r] = "commit" /\ now' = now
      /\ my[r].start < my[r].end
  BY DEF Commit, BookingInv, GrantsOK
<1>2. \A s \in NewIds(r) : s >= nextId
  BY BookingAssumption DEF NewIds, BookingInv, TypeOK, HandlersOK, Body, Locked, Commit
<1>3. NewIds(r) \intersect DOMAIN schedules = {}
  BY <1>2 DEF BookingInv, TypeOK, RowsOK
<1>4. /\ DOMAIN schedules' = DOMAIN schedules \union NewIds(r)
      /\ \A s \in DOMAIN schedules : schedules'[s] = schedules[s]
      /\ \A s \in NewIds(r) : schedules'[s] = NewSchedule(r, s)
  BY <1>3 DEF Commit
<1>5. \A s \in NewIds(r) : schedules'[s].start < schedules'[s].end
  BY <1>1, <1>4 DEF NewSchedule
<1>6. \A s, t \in DOMAIN schedules' : s # t => Compatible(schedules'[s], schedules'[t], now)
  BY <1>1 DEF BookingInv, NoDoubleBooking, Compatible, Disjoint
<1> QED
  BY <1>1, <1>3, <1>4, <1>5, <1>6 DEF Cal!Reserve, Cal!Unmoved, Cal!Compatible, Cal!Disjoint,
     Compatible, Disjoint

(* A terminate ends rows at an instant that is not ahead.                  *)
LEMMA TerminateCuts ==
  ASSUME BookingInv, NEW r \in Requests, TerminateWrite(r)
  PROVE  Cal!Cut \/ UNCHANGED <<now, schedules>>
<1>1. /\ pc[r] = "write" /\ now' = now /\ my[r].end <= now /\ my[r] \in Local
      /\ \A s \in my[r].ids : s \in DOMAIN schedules => schedules[s].start <= my[r].end
  BY DEF TerminateWrite, BookingInv, TypeOK, CutsOK
<1>2. CASE UNCHANGED schedules
  BY <1>1, <1>2
<1>3. CASE schedules' = [s \in DOMAIN schedules |->
                            IF s \in my[r].ids THEN [schedules[s] EXCEPT !.end = my[r].end]
                            ELSE schedules[s]]
  <2>1. \A s \in DOMAIN schedules : schedules[s] \in Schedule
    BY DEF BookingInv, TypeOK
  <2>2. \A s \in DOMAIN schedules :
          \/ schedules'[s] = schedules[s]
          \/ /\ schedules'[s] = [schedules[s] EXCEPT !.end = my[r].end]
             /\ schedules'[s].end = my[r].end
             /\ schedules[s].start <= my[r].end
    BY <1>1, <1>3, <2>1 DEF Schedule
  <2> QED
    BY <1>1, <1>3, <2>2 DEF Cal!Cut, Cal!Unmoved
<1> QED
  BY <1>2, <1>3 DEF TerminateWrite

(* No other statement touches the schedules table.                         *)
LEMMA StepRefines ==
  ASSUME BookingInv, BookingInv', Orderly, [Next]_vars
  PROVE  [Cal!Next]_(Cal!calendar)
<1> USE DEF Cal!calendar, Cal!Next
<1>1. CASE UNCHANGED <<now, schedules>>
  BY <1>1
<1>2. ASSUME NEW r \in Requests, Step(r) \/ CommitFails(r) \/ TicketFails(r) \/ Crash(r)
      PROVE  [Cal!Next]_(Cal!calendar)
  <2>1. CASE Commit(r)
    BY <2>1, CommitReserves
  <2>2. CASE TerminateWrite(r)
    BY <2>2, TerminateCuts
  <2>3. CASE PatchWrite(r)
    BY <2>3 DEF PatchWrite, BookingInv, HandlersOK
  <2>4. CASE LockCloud(r) \/ CheckLimit(r) \/ Check(r)
    BY <2>4 DEF LockCloud, BookOn, CheckLimit, Check, Refuse
  <2>5. CASE LockHost(r) \/ ResetPre(r) \/ InsertAssignment(r) \/ CommitFails(r) \/ Crash(r)
    BY <2>5 DEF LockHost, ResetPre, InsertAssignment, CommitFails, Crash
  <2>6. CASE AmendWrite(r) \/ TicketFails(r)
    BY <2>6 DEF AmendWrite, TicketFails, Refuse
  <2> QED
    BY <1>2, <2>1, <2>2, <2>3, <2>4, <2>5, <2>6 DEF Step
<1>3. ASSUME NEW r \in Requests, NEW b \in Bodies, Accept(r, b)
      PROVE  [Cal!Next]_(Cal!calendar)
  <2>1. CASE DeleteSchedule(r, b)
    <3>1. PICK s \in DOMAIN schedules :
            schedules' = [i \in DOMAIN schedules \ {s} |-> schedules[i]]
      BY <2>1 DEF DeleteSchedule
    <3> QED
      BY <2>1, <3>1 DEF DeleteSchedule, Cal!Remove, Cal!Unmoved
  <2>2. CASE CreateReceive(r, b) \/ BatchReceive(r, b) \/ AssignReceive(r, b)
    BY <2>2 DEF CreateReceive, BatchReceive, AssignReceive
  <2>3. CASE SelfReceive(r, b) \/ TerminateReceive(r, b) \/ AmendReceive(r, b)
             \/ PatchReceive(r, b)
    BY <2>3 DEF SelfReceive, TerminateReceive, AmendReceive, PatchReceive
  <2> QED
    BY <1>3, <2>1, <2>2, <2>3 DEF Accept
<1>4. CASE Tick
  BY <1>4 DEF Tick, Cal!Advance, BookingInv, TypeOK
<1>5. ASSUME NEW h \in FaultyHosts, UpdateHost(h)
      PROVE  [Cal!Next]_(Cal!calendar)
  BY <1>5 DEF UpdateHost
<1> QED
  BY <1>1, <1>2, <1>3, <1>4, <1>5 DEF Next, vars

(***************************************************************************)
(* The requests implement the calendar: a row appears only where it fits,  *)
(* keeps its host and its start, and changes only by being ended or        *)
(* deleted.                                                                *)
(***************************************************************************)
THEOREM ImplementsCalendar == Orderly /\ Spec => CalendarSpec
<1> SUFFICES ASSUME Orderly PROVE Spec => Cal!Spec
  BY DEF CalendarSpec
<1>1. Init => Cal!Init
  BY DEF Init, Cal!Init
<1>2. BookingInv /\ BookingInv' /\ [Next]_vars => [Cal!Next]_(Cal!calendar)
  BY StepRefines
<1>3. Spec => []BookingInv
  BY BookingInvariant
<1> QED
  BY <1>1, <1>2, <1>3, PTL DEF Spec, Cal!Spec
=============================================================================
