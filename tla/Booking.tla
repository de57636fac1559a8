------------------------------ MODULE Booking ------------------------------
(***************************************************************************)
(* The reservation core of the QUADS server: every REST request that adds, *)
(* cuts or removes a schedule or opens or closes an assignment, as the     *)
(* worker threads of quads-server run them over one PostgreSQL database.   *)
(*                                                                         *)
(* A request runs through the statements of its handler.  Each action is   *)
(* one statement, or a run of statements nothing can come between, of one  *)
(* request; other requests run in between.  Transactions are READ          *)
(* COMMITTED: a query sees what has been committed, and SELECT ... FOR     *)
(* UPDATE on a cloud row or a host row is held until commit or rollback.   *)
(***************************************************************************)
EXTENDS Intervals, FiniteSets, Sequences

CONSTANTS
  Requests,      \* the requests the workers get to handle
  Hosts,         \* host names, as numbers: rows are locked in the order of names
  Clouds,        \* cloud names, as numbers: free clouds are listed by name
  SparePool,     \* spare_pool_name, never given to a self-scheduling user
  Users,         \* owners of assignments
  Bodies,        \* the request bodies clients send
  SelfHosts,     \* hosts with can_self_schedule
  FaultyHosts,   \* hosts an operator may mark broken or retired, and repair
  HostLimit,     \* ssm_host_limit
  UserLimit,     \* ssm_user_cloud_limit
  SelfLifetime,  \* the longest a self-scheduled host is granted
  Assignments0,  \* the assignments and schedules in the database at the start
  Schedules0,
  FirstId,       \* the first key the sequences hand out
  MaxTime,       \* bound: the clock stops here
  None           \* no lock holder, no argument

AnyCloud == None    \* a self assignment that leaves the cloud to the server
Kinds == {"create", "batch", "assign", "self", "terminate", "amend", "delete", "patch"}
Assignment == [cloud : Clouds, owner : Users, self : BOOLEAN, active : BOOLEAN,
               pre : BOOLEAN]
Schedule == [host : Hosts, assignment : Nat, start : Nat, end : Nat]

(***************************************************************************)
(* `fields` are the columns a PATCH sends, `active` is the value of that   *)
(* column; `fresh` says that a batch brings description, owner and ticket  *)
(* and so opens an assignment.                                             *)
(***************************************************************************)
Body == [kind : Kinds, cloud : Clouds \union {AnyCloud}, hosts : Seq(Hosts),
         start : Nat, end : Nat, fresh : BOOLEAN, user : Users, admin : BOOLEAN,
         self : BOOLEAN, active : BOOLEAN,
         fields : SUBSET {"start", "end", "cloud", "owner", "active"}]

ASSUME BookingAssumption ==
  /\ Hosts \subseteq Nat /\ Clouds \subseteq Nat /\ SparePool \in Clouds
  /\ SelfHosts \subseteq Hosts /\ FaultyHosts \subseteq Hosts
  /\ Bodies \subseteq Body
  /\ \A b \in Bodies : b.kind \in {"create", "batch"} => b.hosts # <<>> /\ b.cloud # AnyCloud
  /\ \A b \in Bodies :
       b.kind = "assign" \/ (b.kind = "amend" /\ "cloud" \in b.fields) => b.cloud # AnyCloud
  /\ \A b \in Bodies : b.kind = "create" => Len(b.hosts) = 1
  /\ Assignments0 \in [DOMAIN Assignments0 -> Assignment]
  /\ Schedules0 \in [DOMAIN Schedules0 -> Schedule]
  /\ FirstId \in Nat
  /\ DOMAIN Assignments0 \union DOMAIN Schedules0 \subseteq 0 .. FirstId - 1
  /\ \A s \in DOMAIN Schedules0 : /\ Schedules0[s].assignment \in DOMAIN Assignments0
                                 /\ Schedules0[s].start < Schedules0[s].end
  /\ \A s, t \in DOMAIN Schedules0 : s # t => Compatible(Schedules0[s], Schedules0[t], 0)
  /\ HostLimit \in Nat /\ UserLimit \in Nat /\ SelfLifetime \in Nat /\ MaxTime \in Nat
  /\ None \notin Requests /\ None \notin Nat

VARIABLES
  now,          \* the clock, datetime.now()
  out,          \* Host.broken or Host.retired
  assignments,  \* the assignments table, by id
  schedules,    \* the schedules table, by id
  nextId,       \* the primary key sequence
  cloudLock,    \* the request whose transaction holds the row FOR UPDATE
  hostLock,
  pc,           \* where each request is in its handler
  body,         \* what it was sent
  my            \* what its handler has read: see Local

vars == <<now, out, assignments, schedules, nextId, cloudLock, hostLock, pc, body, my>>
locks == <<cloudLock, hostLock>>

(***************************************************************************)
(* A handler's locals: the cloud and the assignment it works on, the rows  *)
(* it read or inserted, an interval, the columns of the assignment it is   *)
(* to change, and `stale`, the broken-or-retired flag of the last host it  *)
(* loaded before locking, which stays in the session's identity map: a     *)
(* later query does not refresh it.                                        *)
(***************************************************************************)
Local == [cloud : Clouds \union {None}, assignment : Nat \union {None}, ids : SUBSET Nat,
          start : Nat, end : Nat, columns : SUBSET {"cloud", "owner", "active"},
          stale : BOOLEAN]
NoLocal == [cloud |-> None, assignment |-> None, ids |-> {}, start |-> 0, end |-> 0,
            columns |-> {}, stale |-> FALSE]

Locked == {"limit", "hosts", "check", "commit"}  \* inside the locking transaction
Working == Locked \union {"cloud", "insert", "write", "pre"}
Final == {"ok", "error", "crashed"}

Init ==
  /\ now = 0
  /\ out = [h \in Hosts |-> FALSE]
  /\ assignments = Assignments0
  /\ schedules = Schedules0
  /\ nextId = FirstId
  /\ cloudLock = [c \in Clouds |-> None]
  /\ hostLock = [h \in Hosts |-> None]
  /\ pc = [r \in Requests |-> "idle"]
  /\ body = [r \in Requests |-> None]
  /\ my = [r \in Requests |-> NoLocal]

----------------------------------------------------------------------------
(* What the queries of the DAOs return.                                    *)

ActiveAssignments(c) ==
  {a \in DOMAIN assignments : assignments[a].cloud = c /\ assignments[a].active}

FreeClouds == {c \in Clouds \ {SparePool} : ActiveAssignments(c) = {}}

(* Mutant: the current schedules take in the future ones.                  *)
CurrentAndFuture ==
  {s \in DOMAIN schedules : now < schedules[s].end /\ assignments[schedules[s].assignment].active}

CurrentSchedules ==
  {s \in DOMAIN schedules : /\ schedules[s].start <= now /\ now < schedules[s].end
                            /\ assignments[schedules[s].assignment].active}

HostRows(h) == {schedules[s] : s \in {i \in DOMAIN schedules : schedules[i].host = h}}

Wanted(r) == {body[r].hosts[i] : i \in DOMAIN body[r].hosts}
ToLock(r) == {h \in Wanted(r) : hostLock[h] # r}
LastHost(b) == b.hosts[Len(b.hosts)]

(* is_host_available as request r sees it, locks held.                     *)
HostAvailable(r, h, start, end) ==
  /\ ~(IF h = LastHost(body[r]) THEN my[r].stale ELSE out[h])
  /\ Available(HostRows(h), start, end)

----------------------------------------------------------------------------
(* Steps shared by the handlers.                                           *)

Goto(r, label) == pc' = [pc EXCEPT ![r] = label]

Release(r) ==
  /\ cloudLock' = [c \in Clouds |-> IF cloudLock[c] = r THEN None ELSE cloudLock[c]]
  /\ hostLock' = [h \in Hosts |-> IF hostLock[h] = r THEN None ELSE hostLock[h]]

Receive(r, b) == pc[r] = "idle" /\ body' = [body EXCEPT ![r] = b]

(* Mutant: a reply without rollback().                                     *)
RefuseHolding(r) ==
  /\ Goto(r, "error")
  /\ UNCHANGED <<now, out, assignments, schedules, nextId, locks, body, my>>

(* rollback() and a 400 or 403 reply.                                      *)
Refuse(r) ==
  /\ Goto(r, "error")
  /\ Release(r)
  /\ UNCHANGED <<now, out, assignments, schedules, nextId, body, my>>

----------------------------------------------------------------------------
(* POST /schedules and POST /schedules/batch.                              *)

CreateReceive(r, b) ==
  /\ b.kind = "create"
  /\ Receive(r, b)
  /\ Goto(r, "cloud")
  /\ my' = [my EXCEPT ![r] = [NoLocal EXCEPT !.cloud = b.cloud, !.stale = out[LastHost(b)]]]
  /\ UNCHANGED <<now, out, assignments, schedules, nextId, locks>>

(* The whole request is checked once without any lock.                     *)
BatchAcceptable(b) ==
  /\ b.start < b.end
  /\ b.fresh <=> ActiveAssignments(b.cloud) = {}
  /\ \A i \in DOMAIN b.hosts : /\ ~out[b.hosts[i]]
                               /\ Available(HostRows(b.hosts[i]), b.start, b.end)

BatchReceive(r, b) ==
  /\ b.kind = "batch"
  /\ Receive(r, b)
  /\ Goto(r, IF BatchAcceptable(b) THEN "cloud" ELSE "error")
  /\ my' = [my EXCEPT ![r] = [NoLocal EXCEPT !.cloud = b.cloud, !.stale = out[LastHost(b)]]]
  /\ UNCHANGED <<now, out, assignments, schedules, nextId, locks>>

(* Mutant: get_cloud in the place of get_cloud_for_update.                 *)
ReadCloud(r, c) == UNCHANGED cloudLock

HoldCloud(r, c) == cloudLock' = [cloudLock EXCEPT ![c] = r]

(* A batch that brings description, owner and ticket opens an assignment.  *)
Opens(r) == body[r].kind = "batch" /\ body[r].fresh

(***************************************************************************)
(* get_cloud_for_update, then get_active_cloud_assignment: `.first()`      *)
(* without an order, so any active assignment of the cloud.                *)
(***************************************************************************)
BookOn(r, a, label) ==
  /\ Goto(r, label)
  /\ HoldCloud(r, my[r].cloud)
  /\ my' = [my EXCEPT ![r].assignment = a]
  /\ UNCHANGED <<now, out, assignments, schedules, nextId, hostLock, body>>

LockCloud(r) ==
  /\ pc[r] = "cloud"
  /\ cloudLock[my[r].cloud] = None
  /\ \/ \E a \in ActiveAssignments(my[r].cloud) :
          \/ /\ body[r].kind = "create"
             /\ assignments[a].self \/ body[r].admin
             /\ BookOn(r, a, "limit")
          \/ /\ body[r].kind = "create"
             /\ ~assignments[a].self /\ ~body[r].admin
             /\ Refuse(r)
          \/ /\ body[r].kind = "batch" /\ ~body[r].fresh
             /\ BookOn(r, a, "hosts")
     \/ /\ Opens(r)
        /\ ActiveAssignments(my[r].cloud) = {}
        /\ BookOn(r, None, "hosts")
     \/ /\ Opens(r) <=> ActiveAssignments(my[r].cloud) # {}
        /\ Refuse(r)

(* ssm_host_limit, counted over the current schedules of the cloud.        *)
CheckLimit(r) ==
  LET booked == {s \in CurrentSchedules :
                   assignments[schedules[s].assignment].cloud = my[r].cloud}
  IN  /\ pc[r] = "limit"
      /\ \/ /\ assignments[my[r].assignment].self => Cardinality(booked) < HostLimit
            /\ Goto(r, "hosts")
            /\ UNCHANGED <<now, out, assignments, schedules, nextId, locks, body, my>>
         \/ /\ assignments[my[r].assignment].self /\ Cardinality(booked) >= HostLimit
            /\ Refuse(r)

(* Mutants: get_host in the place of get_hosts_for_update, and a query     *)
(* without its order_by.                                                   *)
ReadHosts(r) ==
  /\ pc[r] = "hosts"
  /\ Goto(r, "check")
  /\ UNCHANGED <<now, out, assignments, schedules, nextId, locks, body, my>>

LockHostsUnordered(r) ==
  /\ pc[r] = "hosts"
  /\ \E h \in ToLock(r) :
       /\ hostLock[h] = None
       /\ hostLock' = [hostLock EXCEPT ![h] = r]
       /\ Goto(r, IF ToLock(r) = {h} THEN "check" ELSE "hosts")
  /\ UNCHANGED <<now, out, assignments, schedules, nextId, cloudLock, body, my>>

(* get_hosts_for_update: the rows are locked one by one, in name order.    *)
LockHost(r) ==
  /\ pc[r] = "hosts"
  /\ \E h \in ToLock(r) :
       /\ \A g \in ToLock(r) : h <= g
       /\ hostLock[h] = None
       /\ hostLock' = [hostLock EXCEPT ![h] = r]
       /\ Goto(r, IF ToLock(r) = {h} THEN "check" ELSE "hosts")
  /\ UNCHANGED <<now, out, assignments, schedules, nextId, cloudLock, body, my>>

SelfBooking(r) == body[r].kind = "create" /\ assignments[my[r].assignment].self

(* Mutant: no check that the deadline lies ahead.                          *)
GrantableAtDeadline(r, start, end) ==
  /\ start <= end
  /\ SelfBooking(r) => Wanted(r) \subseteq SelfHosts
  /\ \A h \in Wanted(r) : HostAvailable(r, h, start, end)

(***************************************************************************)
(* The interval, then the availability of every host, under the locks.  A  *)
(* self-scheduled host starts now; its end is the weekly deadline or the   *)
(* default lifetime, whichever the deadline rule picks: any instant up to  *)
(* SelfLifetime away here, and `now` itself when the deadline has passed.  *)
(***************************************************************************)
Grantable(r, start, end) ==
  /\ start < end
  /\ SelfBooking(r) => Wanted(r) \subseteq SelfHosts
  /\ \A h \in Wanted(r) : HostAvailable(r, h, start, end)

Asked(r) ==
  IF SelfBooking(r) THEN {now} \X (now .. now + SelfLifetime)
                    ELSE {<<body[r].start, body[r].end>>}

Check(r) ==
  /\ pc[r] = "check"
  /\ \E span \in Asked(r) :
       \/ /\ Grantable(r, span[1], span[2])
          /\ Goto(r, "commit")
          /\ my' = [my EXCEPT ![r].start = span[1], ![r].end = span[2]]
          /\ UNCHANGED <<now, out, assignments, schedules, nextId, locks, body>>
       \/ /\ ~Grantable(r, span[1], span[2])
          /\ Refuse(r)

(* The rows of one transaction: the assignment a batch opens, and one      *)
(* schedule for each entry of the host list.                               *)

NewAssignment(r) == IF Opens(r) THEN nextId ELSE my[r].assignment
NewIds(r) == {nextId + i : i \in DOMAIN body[r].hosts}
NewSchedule(r, id) ==
  [host |-> body[r].hosts[id - nextId], assignment |-> NewAssignment(r),
   start |-> my[r].start, end |-> my[r].end]

OpenAssignment(id, c, user, self) ==
  assignments' = [a \in DOMAIN assignments \union {id} |->
                    IF a = id THEN [cloud |-> c, owner |-> user, self |-> self,
                                    active |-> TRUE, pre |-> FALSE]
                    ELSE assignments[a]]

Commit(r) ==
  /\ pc[r] = "commit"
  /\ IF Opens(r) THEN OpenAssignment(nextId, my[r].cloud, body[r].user, FALSE)
                 ELSE UNCHANGED assignments
  /\ schedules' = [s \in DOMAIN schedules \union NewIds(r) |->
                     IF s \in NewIds(r) THEN NewSchedule(r, s) ELSE schedules[s]]
  /\ nextId' = nextId + Len(body[r].hosts) + 1
  /\ my' = [my EXCEPT ![r].assignment = NewAssignment(r), ![r].ids = NewIds(r)]
  /\ Release(r)
  /\ Goto(r, "pre")
  /\ UNCHANGED <<now, out, body>>

(***************************************************************************)
(* The database refuses the transaction.  create_schedule commits through  *)
(* safe_commit, which rolls back and answers False, and the handler does   *)
(* not look; a batch commits directly and lets the error through.          *)
(***************************************************************************)
CommitFails(r) ==
  /\ pc[r] = "commit"
  /\ Release(r)
  /\ Goto(r, IF body[r].kind = "create" THEN "pre" ELSE "error")
  /\ UNCHANGED <<now, out, assignments, schedules, nextId, body, my>>

(* The notice of upcoming hosts is due again: notification.pre is reset,   *)
(* in a transaction of its own, before the reply.                          *)
ResetPre(r) ==
  /\ pc[r] = "pre"
  /\ assignments' = [assignments EXCEPT ![my[r].assignment].pre = FALSE]
  /\ Goto(r, "ok")
  /\ UNCHANGED <<now, out, schedules, nextId, locks, body, my>>

----------------------------------------------------------------------------
(* POST /assignments and POST /assignments/self: a check, then an insert.  *)

AssignReceive(r, b) ==
  /\ b.kind = "assign"
  /\ Receive(r, b)
  /\ Goto(r, IF ActiveAssignments(b.cloud) = {} THEN "insert" ELSE "error")
  /\ my' = [my EXCEPT ![r] = [NoLocal EXCEPT !.cloud = b.cloud]]
  /\ UNCHANGED <<now, out, assignments, schedules, nextId, locks>>

OwnedSelf(user) ==
  {a \in DOMAIN assignments : /\ assignments[a].active /\ assignments[a].self
                              /\ assignments[a].owner = user}

SelfClouds(b) ==
  IF b.cloud = AnyCloud THEN {c \in FreeClouds : \A d \in FreeClouds : c <= d}
                        ELSE FreeClouds \intersect {b.cloud}

SelfReceive(r, b) ==
  /\ b.kind = "self"
  /\ Receive(r, b)
  /\ IF Cardinality(OwnedSelf(b.user)) < UserLimit /\ SelfClouds(b) # {}
     THEN /\ Goto(r, "insert")
          /\ \E c \in SelfClouds(b) : my' = [my EXCEPT ![r] = [NoLocal EXCEPT !.cloud = c]]
     ELSE /\ Goto(r, "error")
          /\ UNCHANGED my
  /\ UNCHANGED <<now, out, assignments, schedules, nextId, locks>>

(* Before the insert the handler may open a Jira ticket, which can fail.   *)
TicketFails(r) ==
  /\ pc[r] = "insert" /\ body[r].kind = "self"
  /\ Refuse(r)

(* The insert takes a FOR KEY SHARE lock on the cloud row it refers to,    *)
(* and so waits for a transaction that holds that row FOR UPDATE.          *)
InsertAssignment(r) ==
  /\ pc[r] = "insert"
  /\ cloudLock[my[r].cloud] = None
  /\ OpenAssignment(nextId, my[r].cloud, body[r].user, body[r].kind = "self" \/ body[r].self)
  /\ nextId' = nextId + 1
  /\ my' = [my EXCEPT ![r].assignment = nextId]
  /\ Goto(r, "ok")
  /\ UNCHANGED <<now, out, schedules, locks, body>>

----------------------------------------------------------------------------
(* POST /assignments/terminate, PATCH /assignments, DELETE and PATCH       *)
(* /schedules: no locks.                                                   *)

(* An administrator may terminate any assignment, a user his own.  It is   *)
(* read with its current schedules, and `now` becomes their end;           *)
(* TerminateWrite commits it.                                              *)
TerminateReceive(r, b) ==
  /\ b.kind = "terminate"
  /\ Receive(r, b)
  /\ \E a \in DOMAIN assignments :
       /\ Goto(r, IF b.admin \/ b.user = assignments[a].owner THEN "write" ELSE "error")
       /\ my' = [my EXCEPT ![r] = [NoLocal EXCEPT
                !.assignment = a, !.end = now,
                !.ids = {s \in CurrentSchedules : schedules[s].assignment = a}]]
  /\ UNCHANGED <<now, out, assignments, schedules, nextId, locks>>

(***************************************************************************)
(* The UPDATEs go by primary key.  One that finds no row raises inside     *)
(* safe_commit: everything is rolled back, and the reply is 200 all the    *)
(* same.                                                                   *)
(***************************************************************************)
TerminateWrite(r) ==
  /\ pc[r] = "write" /\ body[r].kind = "terminate"
  /\ IF my[r].ids \subseteq DOMAIN schedules
     THEN /\ assignments' = [assignments EXCEPT ![my[r].assignment].active = FALSE]
          /\ schedules' = [s \in DOMAIN schedules |->
                             IF s \in my[r].ids THEN [schedules[s] EXCEPT !.end = my[r].end]
                             ELSE schedules[s]]
     ELSE UNCHANGED <<assignments, schedules>>
  /\ Goto(r, "ok")
  /\ UNCHANGED <<now, out, nextId, locks, body, my>>

(* PATCH /assignments: the columns that differ from what was read.         *)
Sent(b, a) ==
  {f \in b.fields : CASE f = "cloud" -> b.cloud # assignments[a].cloud
                      [] f = "owner" -> b.user # assignments[a].owner
                      [] f = "active" -> b.active # assignments[a].active
                      [] OTHER -> FALSE}

AmendReceive(r, b) ==
  /\ b.kind = "amend"
  /\ Receive(r, b)
  /\ Goto(r, "write")
  /\ \E a \in DOMAIN assignments :
       my' = [my EXCEPT ![r] = [NoLocal EXCEPT
                !.assignment = a, !.columns = Sent(b, a),
                !.cloud = IF "cloud" \in Sent(b, a) THEN b.cloud ELSE None]]
  /\ UNCHANGED <<now, out, assignments, schedules, nextId, locks>>

(* Whether the cloud has an active assignment already is not asked.        *)
AmendWrite(r) ==
  /\ pc[r] = "write" /\ body[r].kind = "amend"
  /\ my[r].cloud # None => cloudLock[my[r].cloud] = None
  /\ assignments' = [assignments EXCEPT ![my[r].assignment] =
       [cloud |-> IF "cloud" \in my[r].columns THEN body[r].cloud ELSE @.cloud,
        owner |-> IF "owner" \in my[r].columns THEN body[r].user ELSE @.owner,
        active |-> IF "active" \in my[r].columns THEN body[r].active ELSE @.active,
        self |-> @.self, pre |-> @.pre]]
  /\ Goto(r, "ok")
  /\ UNCHANGED <<now, out, schedules, nextId, locks, body, my>>

DeleteSchedule(r, b) ==
  /\ b.kind = "delete"
  /\ Receive(r, b)
  /\ \E s \in DOMAIN schedules :
       schedules' = [i \in DOMAIN schedules \ {s} |-> schedules[i]]
  /\ Goto(r, "ok")
  /\ UNCHANGED <<now, out, assignments, nextId, locks, my>>

(* The range is checked on the row as it was read.                         *)
PatchReceive(r, b) ==
  /\ b.kind = "patch"
  /\ Receive(r, b)
  /\ \E s \in DOMAIN schedules :
       LET row == schedules[s]
           start == IF "start" \in b.fields THEN b.start ELSE row.start
           end == IF "end" \in b.fields THEN b.end ELSE row.end
       IN  /\ my' = [my EXCEPT ![r] = [NoLocal EXCEPT
                       !.ids = {s}, !.assignment = row.assignment,
                       !.start = row.start, !.end = row.end]]
           /\ Goto(r, IF start < end /\ b.fields # {} THEN "write" ELSE "error")
  /\ UNCHANGED <<now, out, assignments, schedules, nextId, locks>>

(* Only the columns that differ from what was read are written.            *)
PatchWrite(r) ==
  /\ pc[r] = "write" /\ body[r].kind = "patch"
  /\ LET Column(s, f, sent, read) == IF f \in body[r].fields /\ sent # read
                                     THEN sent ELSE schedules[s][f]
     IN  IF my[r].ids \subseteq DOMAIN schedules
         THEN /\ schedules' = [s \in DOMAIN schedules |->
                    IF s \in my[r].ids
                    THEN [schedules[s] EXCEPT
                            !.start = Column(s, "start", body[r].start, my[r].start),
                            !.end = Column(s, "end", body[r].end, my[r].end)]
                    ELSE schedules[s]]
              /\ Goto(r, "pre")
         ELSE /\ UNCHANGED schedules
              /\ Goto(r, "error")
  /\ UNCHANGED <<now, out, assignments, nextId, locks, body, my>>

----------------------------------------------------------------------------
(* What else happens.                                                      *)

(* quads --mark-broken, --retire and their opposites; the UPDATE of the    *)
(* host row waits for a transaction that holds it FOR UPDATE.              *)
UpdateHost(h) ==
  /\ hostLock[h] = None
  /\ out' = [out EXCEPT ![h] = ~@]
  /\ UNCHANGED <<now, assignments, schedules, nextId, locks, pc, body, my>>

(* The worker dies, or its connection does: the server rolls back.         *)
Crash(r) ==
  /\ pc[r] \in Working
  /\ Release(r)
  /\ Goto(r, "crashed")
  /\ UNCHANGED <<now, out, assignments, schedules, nextId, body, my>>

Tick ==
  /\ now < MaxTime
  /\ now' = now + 1
  /\ UNCHANGED <<out, assignments, schedules, nextId, locks, pc, body, my>>

Accept(r, b) ==
  \/ CreateReceive(r, b) \/ BatchReceive(r, b) \/ AssignReceive(r, b) \/ SelfReceive(r, b)
  \/ TerminateReceive(r, b) \/ AmendReceive(r, b) \/ DeleteSchedule(r, b) \/ PatchReceive(r, b)

Step(r) ==
  \/ LockCloud(r) \/ CheckLimit(r) \/ LockHost(r) \/ Check(r) \/ Commit(r) \/ ResetPre(r)
  \/ InsertAssignment(r) \/ TerminateWrite(r) \/ AmendWrite(r) \/ PatchWrite(r)

Next ==
  \/ \E r \in Requests, b \in Bodies : Accept(r, b)
  \/ \E r \in Requests : Step(r) \/ CommitFails(r) \/ TicketFails(r) \/ Crash(r)
  \/ \E h \in FaultyHosts : UpdateHost(h)
  \/ Tick

Spec == Init /\ [][Next]_vars

(***************************************************************************)
(* A worker thread that can take its next step takes it: PostgreSQL queues *)
(* those who wait for a row, and no handler waits for anything else.       *)
(***************************************************************************)
FairSpec == Spec /\ \A r \in Requests : WF_vars(Step(r))

----------------------------------------------------------------------------
TypeOK ==
  /\ now \in Nat
  /\ out \in [Hosts -> BOOLEAN]
  /\ DOMAIN assignments \subseteq Nat
  /\ assignments \in [DOMAIN assignments -> Assignment]
  /\ DOMAIN schedules \subseteq Nat
  /\ schedules \in [DOMAIN schedules -> Schedule]
  /\ nextId \in Nat
  /\ cloudLock \in [Clouds -> Requests \union {None}]
  /\ hostLock \in [Hosts -> Requests \union {None}]
  /\ pc \in [Requests -> {"idle"} \union Working \union Final]
  /\ body \in [Requests -> Bodies \union {None}]
  /\ my \in [Requests -> Local]

(***************************************************************************)
(* No host is promised to two schedules for the same instant, from the     *)
(* present on: the point of the locks that create_schedule and             *)
(* create_schedules_batch take before they ask is_host_available.          *)
(***************************************************************************)
NoDoubleBooking ==
  \A s, t \in DOMAIN schedules : s # t => Compatible(schedules[s], schedules[t], now)

(***************************************************************************)
(* is_host_available says yes exactly when no row of the host shares an    *)
(* instant with the interval: its three overlap queries miss nothing and   *)
(* refuse nothing that would fit, at either boundary.                      *)
(***************************************************************************)
AvailabilityIsExact ==
  \A h \in Hosts, start, end \in 0 .. MaxTime + 1 :
    start < end => (Available(HostRows(h), start, end) <=>
                      \A row \in HostRows(h) : Disjoint(row, start, end))

(* A cloud has at most one active assignment, as long as batches are all   *)
(* that opens one.                                                         *)
OneActiveAssignment ==
  (\A r \in Requests : body[r] # None => body[r].kind \notin {"assign", "self", "amend"})
  => \A c \in Clouds : Cardinality(ActiveAssignments(c)) <= 1

(***************************************************************************)
(* The row that request r needs next is held by request q.                 *)
(***************************************************************************)
WaitsFor(r, q) ==
  \/ /\ pc[r] \in {"cloud", "insert", "write"} /\ my[r].cloud # None
     /\ cloudLock[my[r].cloud] = q
  \/ pc[r] = "hosts" /\ \E h \in ToLock(r) : /\ \A g \in ToLock(r) : h <= g
                                             /\ hostLock[h] = q

(***************************************************************************)
(* No set of requests waits for one another: clouds are locked before      *)
(* hosts, and hosts in the order of their names, whatever order a client   *)
(* lists them in.                                                          *)
(***************************************************************************)
NoWaitCycle ==
  \A S \in (SUBSET Requests) \ {{}} : \E r \in S : \A q \in S : ~WaitsFor(r, q)

(***************************************************************************)
(* Why there is none: whoever holds the row that r waits for waits itself  *)
(* for no cloud, and for no host up to the one r waits for.                *)
(***************************************************************************)
LockOrder ==
  \A r, q \in Requests : WaitsFor(r, q) =>
    /\ pc[q] \notin {"cloud", "insert", "write"}
    /\ pc[q] = "hosts" /\ pc[r] = "hosts" => \A g \in ToLock(q) : \E h \in ToLock(r) : h < g

(***************************************************************************)
(* The current hosts of the self-scheduled assignments of a cloud never    *)
(* exceed ssm_host_limit, however many users ask at once: the count of     *)
(* create_schedule is made under the cloud's lock.                         *)
(***************************************************************************)
SelfHostLimit ==
  \A c \in Clouds :
    Cardinality({s \in CurrentSchedules :
                   LET a == assignments[schedules[s].assignment]
                   IN  a.cloud = c /\ a.self}) <= HostLimit

(***************************************************************************)
(* Every request is answered, or its worker dies.                          *)
(***************************************************************************)
Answered == \A r \in Requests : (pc[r] \in Working) ~> (pc[r] \in Final)

(***************************************************************************)
(* The calendar the requests leave behind is the one Calendar promises.    *)
(***************************************************************************)
Cal == INSTANCE Calendar WITH Rows0 <- Schedules0
CalendarSpec == Cal!Spec

----------------------------------------------------------------------------
(***************************************************************************)
(* Why NoDoubleBooking holds when no request is a PATCH and no batch names *)
(* a host twice: the inductive invariant.                                  *)
(***************************************************************************)
Orderly ==
  \A b \in Bodies : /\ b.kind # "patch"
                    /\ \A i, j \in DOMAIN b.hosts : b.hosts[i] = b.hosts[j] => i = j

RowsOK ==
  \A s \in DOMAIN schedules : /\ s < nextId
                              /\ schedules[s].start <= schedules[s].end
                              /\ schedules[s].assignment \in DOMAIN assignments

(* What a handler knows of its own request at each step.                   *)
HandlersOK ==
  \A r \in Requests :
    /\ pc[r] # "idle" => body[r] \in Bodies
    /\ pc[r] \in Locked \union {"cloud"} => /\ body[r].kind \in {"create", "batch"}
                                            /\ my[r].cloud \in Clouds
    /\ pc[r] = "insert" => my[r].cloud \in Clouds /\ body[r].kind \in {"assign", "self"}
    /\ pc[r] = "write" => body[r].kind \in {"terminate", "amend"}
    /\ pc[r] = "write" /\ body[r].kind = "amend" =>
         my[r].assignment \in DOMAIN assignments /\ my[r].columns \subseteq body[r].fields
    /\ pc[r] \in Locked /\ ~Opens(r) => my[r].assignment \in DOMAIN assignments

(* From the check to the commit a request holds every host it asked about. *)
LocksOK ==
  \A r \in Requests : pc[r] \in {"check", "commit"} => \A h \in Wanted(r) : hostLock[h] = r

(* Whoever holds a row is inside its locking transaction, and still needs  *)
(* only hosts that come after those it holds.                              *)
HoldersOK ==
  \A r \in Requests :
    /\ \A c \in Clouds : cloudLock[c] = r => pc[r] \in Locked
    /\ \A h \in Hosts : hostLock[h] = r =>
         /\ pc[r] \in {"hosts", "check", "commit"}
         /\ pc[r] = "hosts" => \A g \in ToLock(r) : h < g

(* What the check found is still true at the commit.                       *)
GrantsOK ==
  \A r \in Requests : pc[r] = "commit" =>
    /\ my[r].start < my[r].end
    /\ \A s \in DOMAIN schedules : schedules[s].host \in Wanted(r) =>
         Disjoint(schedules[s], my[r].start, my[r].end) \/ schedules[s].end <= now

(* A terminate that has read its rows will end them in the past.           *)
CutsOK ==
  \A r \in Requests : pc[r] = "write" =>
    /\ my[r].end <= now
    /\ \A s \in my[r].ids : /\ s < nextId
                            /\ s \in DOMAIN schedules => schedules[s].start <= my[r].end

(* NoDoubleBooking is kept because of the rest: the induction's hypothesis *)
(* for POST, POST /batch and terminate running together.                   *)
BookingInv ==
  /\ TypeOK /\ RowsOK /\ HandlersOK /\ LocksOK /\ HoldersOK
  /\ GrantsOK /\ CutsOK /\ NoDoubleBooking

(***************************************************************************)
(* Why a cloud never gets two active assignments when batches are all that *)
(* opens one: the cloud is held from the query that found it free.         *)
(***************************************************************************)
OpensByBatch ==
  /\ Orderly
  /\ \A b \in Bodies : b.kind \notin {"assign", "self", "amend"}
  /\ \A a, d \in DOMAIN Assignments0 :
       Assignments0[a].active /\ Assignments0[d].active
         /\ Assignments0[a].cloud = Assignments0[d].cloud => a = d

CloudHeld == \A r \in Requests : pc[r] \in Locked => cloudLock[my[r].cloud] = r

AssignmentKeys == \A a \in DOMAIN assignments : a < nextId

OpeningsInv ==
  /\ CloudHeld
  /\ \A r \in Requests : pc[r] \in Locked /\ Opens(r) => ActiveAssignments(my[r].cloud) = {}
  /\ \A c \in Clouds : \A a, d \in ActiveAssignments(c) : a = d

(***************************************************************************)
(* Why users cannot overrun ssm_host_limit: the current rows of their      *)
(* assignments are counted with the cloud held, none of them is still to   *)
(* start, and a request adds one.                                          *)
(***************************************************************************)
SelfRows(c) ==
  {s \in CurrentSchedules : LET a == assignments[schedules[s].assignment]
                            IN  a.cloud = c /\ a.self}

SelfService ==
  /\ Orderly
  /\ \A b \in Bodies : b.kind \notin {"batch", "amend"}
  /\ IsFiniteSet(DOMAIN Schedules0)
  /\ \A s \in DOMAIN Schedules0 :
       Assignments0[Schedules0[s].assignment].self => Schedules0[s].start = 0
  /\ \A c \in Clouds :
       Cardinality({s \in DOMAIN Schedules0 :
                      LET a == Assignments0[Schedules0[s].assignment]
                      IN  a.cloud = c /\ a.self /\ a.active}) <= HostLimit

SelfRowsStarted ==
  \A s \in DOMAIN schedules :
    assignments[schedules[s].assignment].self => schedules[s].start <= now

RoomLeft ==
  \A r \in Requests : pc[r] \in Locked =>
    /\ assignments[my[r].assignment].cloud = my[r].cloud
    /\ assignments[my[r].assignment].self =>
         /\ pc[r] # "limit" => Cardinality(SelfRows(my[r].cloud)) < HostLimit
         /\ pc[r] = "commit" => my[r].start <= now

SelfInv ==
  /\ CloudHeld /\ AssignmentKeys /\ SelfRowsStarted /\ RoomLeft
  /\ IsFiniteSet(DOMAIN schedules)
  /\ \A c \in Clouds : Cardinality(SelfRows(c)) <= HostLimit

=============================================================================
