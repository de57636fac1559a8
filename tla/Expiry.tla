------------------------------- MODULE Expiry -------------------------------
(***************************************************************************)
(* How a booking nears its end.  Operators move the ends of schedules with *)
(* the command line (--extend, --shrink, --mod-schedule, ...), each command *)
(* being several REST calls, while the notifier (quads --notify, every ten *)
(* minutes) warns the tenants and keeps account of it in the notification  *)
(* flags.  A REST call is one step here; what happens inside the server is *)
(* in Booking.  The assignments stay active throughout.                    *)
(***************************************************************************)
EXTENDS Intervals, Integers, Sequences, FiniteSets, FiniteSetsExt

CONSTANTS
  Clients,      \* operators at the command line, one command each
  Commands,     \* what they may type
  Hosts, Clouds,
  Rows0,        \* the schedules at the start, by id
  FirstId,      \* the first free key
  Out,          \* hosts that are broken or retired: clients are not shown them
  Owned,        \* clouds with a tenant other than "quads"
  SelfClouds,   \* clouds of self-scheduling tenants
  SelfHosts,    \* hosts they may book
  HostLimit,    \* how many of them one cloud may hold at a time
  DeadlineDay, DeadlineHour,   \* when self-schedules end, by weekday and from midnight
  SelfLifetime, \* the most days one lasts
  Minute,       \* length of a minute, so that ends may have seconds
  Hour, Day, Week,   \* Week is what --weeks counts in; weekdays are counted by sevens
  Evening,      \* 22:00, from midnight
  Notices,      \* the days before an end at which a tenant is warned
  initial, pre_initial, pre,   \* the other notification flags
  MaxTime,      \* bound: the clock stops here
  MaxFaults,    \* bound: failed calls and dying notifiers
  None

Flags == Notices \union {initial, pre_initial, pre}
Row == [host : Hosts, cloud : Clouds, start : Nat, end : Nat]

(***************************************************************************)
(* A command: `weeks` is --weeks, 0 when a date was given; `end` is --date *)
(* or --schedule-end; `asap` is --now; `fields` are the ends that          *)
(* --mod-schedule sets, `flags` and `up` what --modify-notification says;  *)
(* --add-schedule names a host or the `list` of --host-list, in which a    *)
(* host may stand twice, and `omit` says that --omit-cloud is given.       *)
(***************************************************************************)
Kinds == {"extend", "shrink", "mod", "remove", "book", "modify"}
Command == [kind : Kinds, cloud : Clouds \union {None}, host : Hosts \union {None},
            list : Seq(Hosts), omit : BOOLEAN, id : Nat,
            weeks : Nat, asap : BOOLEAN, start : Nat, end : Nat,
            fields : SUBSET {"start", "end"}, flags : SUBSET Flags, up : BOOLEAN]

ASSUME ExpiryAssumption ==
  /\ Commands \subseteq Command
  /\ \A cmd \in Commands : /\ cmd.kind \in {"book", "modify"} => cmd.cloud # None
                           /\ cmd.kind = "book" /\ cmd.list = <<>> => cmd.host # None
                           /\ cmd.list # <<>> => cmd.kind = "book"
  /\ Rows0 \in [DOMAIN Rows0 -> Row]
  /\ FirstId \in Nat /\ DOMAIN Rows0 \subseteq 0 .. FirstId - 1
  /\ Out \subseteq Hosts /\ Owned \subseteq Clouds /\ SelfClouds \subseteq Clouds
  /\ HostLimit \in Nat /\ DeadlineDay \in 0 .. 6 /\ DeadlineHour \in Nat /\ SelfLifetime \in Nat
  /\ Minute \in Nat \ {0} /\ Hour \in Nat /\ Day \in Nat \ {0} /\ Week \in Nat
  /\ Day % Minute = 0 /\ DeadlineHour % Minute = 0
  /\ Evening \in Nat /\ Notices \subseteq Nat \ {0} /\ IsFiniteSet(Notices)
  /\ {initial, pre_initial, pre} \intersect Nat = {}
  /\ initial # pre_initial /\ initial # pre /\ pre_initial # pre
  /\ MaxTime \in Nat /\ MaxFaults \in Nat
  /\ None \notin Clouds \union Hosts

VARIABLES
  now,
  rows,        \* the schedules, by id
  nextId,
  raised,      \* the notification flags of each cloud's assignment
  validated,   \* clouds whose assignment is validated
  pc, my,      \* the commands: place and locals, see Local
  n,           \* the run of the notifier, see Run
  faults,
  mails,       \* history: mails sent per cloud and flag since the flag was cleared
  told,        \* history: hosts whose tenant was warned of their end
  unchecked,   \* history: rows moved although the check no longer held
  exempt       \* history: clouds whose warnings a command crossed or came behind

client == <<pc, my>>
history == <<mails, told, unchecked, exempt>>
vars == <<now, rows, nextId, raised, validated, pc, my, n, faults, mails, told, unchecked, exempt>>

(***************************************************************************)
(* A command's locals: what was typed, the rows as they were listed, those *)
(* still to do, whether one was refused, the time it began, and (history)  *)
(* the hosts whose rows somebody else has written since they were listed.  *)
(***************************************************************************)
Listed == [id : Nat, host : Hosts, cloud : Clouds, start : Nat, end : Nat]
Local == [cmd : Commands \union {None}, all : SUBSET Listed, left : SUBSET Listed,
          bad : BOOLEAN, began : Nat, touched : SUBSET Hosts]
NoLocal == [cmd |-> None, all |-> {}, left |-> {}, bad |-> FALSE, began |-> 0, touched |-> {}]
Busy == {"list", "future", "check", "judge", "reset", "patch", "sift", "ask", "send", "clear",
         "ticket"}
Final == {"done", "refused", "error"}

(***************************************************************************)
(* A run of the notifier: the clouds to do, the one `at` hand, the flags   *)
(* as they were read, the current schedules as they were read and when,    *)
(* the days still to look at, the notice to send to those who are leaving, *)
(* where to go on afterwards, and whether a query failed.                  *)
(***************************************************************************)
Labels == {"idle", "first", "days", "second", "later", "send", "mark"}
Run == [pc : Labels, todo : SUBSET Clouds, at : Clouds \union {None},
        flags : [Clouds -> SUBSET Flags], current : SUBSET Listed, asof : Nat,
        days : SUBSET Notices, notice : Flags \union {None}, leaving : SUBSET Hosts,
        then : Labels, missed : BOOLEAN]
Idle == [pc |-> "idle", todo |-> {}, at |-> None, flags |-> [c \in Clouds |-> {}],
         current |-> {}, asof |-> 0, days |-> {}, notice |-> None, leaving |-> {},
         then |-> "idle", missed |-> FALSE]

Init ==
  /\ now = 0
  /\ rows = Rows0
  /\ nextId = FirstId
  /\ raised = [c \in Clouds |-> {}]
  /\ validated = {}
  /\ pc = [k \in Clients |-> "idle"]
  /\ my = [k \in Clients |-> NoLocal]
  /\ n = Idle
  /\ faults = 0
  /\ mails = [c \in Clouds |-> [f \in Flags |-> 0]]
  /\ told = {}
  /\ unchecked = {}
  /\ exempt = {}

----------------------------------------------------------------------------
(* What the server answers.                                                *)

FloorMinute(t) == t - (t % Minute)
FutureDate(d) == ((now \div Day) + d) * Day + Evening

AsListed(id) == [id |-> id, host |-> rows[id].host, cloud |-> rows[id].cloud,
                 start |-> rows[id].start, end |-> rows[id].end]
Shown(ids) == {AsListed(id) : id \in {i \in ids : rows[i].host \notin Out}}
At(t) == {id \in DOMAIN rows : rows[id].start <= t /\ t < rows[id].end}
CurrentOf(c, t) == Shown({id \in At(t) : rows[id].cloud = c})
HostRows(h) == {rows[id] : id \in {i \in DOMAIN rows : rows[i].host = h}}
HostsOf(listed) == {s.host : s \in listed}

(* GET /available: an interval that is upside down asks about one minute.  *)
IsAvailable(h, start, end) ==
  /\ h \notin Out
  /\ Available(HostRows(h), start, IF start > end THEN start + Minute ELSE end)

Selected(cmd, ids) ==
  {id \in ids : IF cmd.cloud # None THEN rows[id].cloud = cmd.cloud ELSE rows[id].host = cmd.host}

----------------------------------------------------------------------------
(* Shared updates.                                                         *)

Goto(k, label) == pc' = [pc EXCEPT ![k] = label]

(* The command ends; what it knew is gone.                                 *)
Quit(k, label) == Goto(k, label) /\ my' = [my EXCEPT ![k] = NoLocal]

(* History: the commands at work learn that the rows of h have changed.    *)
Touching(k, h) ==
  [j \in Clients |-> IF j = k \/ pc[j] \notin Busy THEN my[j]
                     ELSE [my[j] EXCEPT !.touched = @ \union {h}]]

(* History: a command and the notifier work on the same cloud at once.     *)
CommandsOn(c) == {k \in Clients : pc[k] \in {"reset", "patch", "send", "clear"}
                                  /\ \E s \in my[k].all : s.cloud = c}
Crossing(c) == exempt' = IF n.pc = "idle" THEN exempt ELSE exempt \union {c}

Lower(c, flags) ==
  /\ raised' = [raised EXCEPT ![c] = @ \ flags]
  /\ mails' = [mails EXCEPT ![c] = [f \in Flags |-> IF f \in flags THEN 0 ELSE @[f]]]

(* History: an end is brought forward behind the notices: they have gone   *)
(* out, and not to this host's tenant.                                     *)
Behind(id, end) ==
  /\ end < rows[id].end /\ raised[rows[id].cloud] \intersect Notices # {}
  /\ <<rows[id].cloud, rows[id].host>> \notin told

(* PATCH of a schedule, which also lowers `pre`: refused when the interval *)
(* would be empty.                                                         *)
Acceptable(id, start, end) == id \in DOMAIN rows /\ start < end
Move(id, start, end) ==
  /\ rows' = [rows EXCEPT ![id].start = start, ![id].end = end]
  /\ Lower(rows[id].cloud, {pre})
  /\ told' = IF end > rows[id].end THEN told \ {<<rows[id].cloud, rows[id].host>>} ELSE told
  /\ exempt' = IF n.pc = "idle" /\ ~Behind(id, end) THEN exempt
               ELSE exempt \union {rows[id].cloud}

----------------------------------------------------------------------------
(* Any command.                                                            *)

First(cmd) == CASE cmd.kind \in {"extend", "shrink"} -> "list"
                [] cmd.kind \in {"mod", "remove", "modify"} -> "patch"
                [] cmd.kind = "book" /\ cmd.omit -> "sift"
                [] cmd.kind = "book" /\ ~cmd.omit -> IF cmd.list = <<>> THEN "send" ELSE "ask"

(* The schedules --add-schedule is to make, by their places in the list.   *)
Wish(cmd, place, h) ==
  [id |-> place, host |-> h, cloud |-> cmd.cloud, start |-> cmd.start, end |-> cmd.end]
Wanted(cmd) ==
  IF cmd.kind = "book" /\ cmd.list = <<>> THEN {Wish(cmd, 0, cmd.host)}
  ELSE {Wish(cmd, i, cmd.list[i]) : i \in DOMAIN cmd.list}

Type(k, cmd) ==
  /\ pc[k] = "idle"
  /\ Goto(k, First(cmd))
  /\ my' = [my EXCEPT ![k] = [NoLocal EXCEPT !.cmd = cmd, !.began = now,
                                             !.all = Wanted(cmd), !.left = Wanted(cmd)]]
  /\ UNCHANGED <<now, rows, nextId, raised, validated, n, faults, history>>

(* A call fails: extend, mod and the rest give up, shrink dies.            *)
CallFails(k) ==
  /\ pc[k] \in Busy /\ faults < MaxFaults
  /\ faults' = faults + 1
  /\ Quit(k, "error")
  /\ UNCHANGED <<now, rows, nextId, raised, validated, n, history>>

ListTo(k, ids, label, otherwise) ==
  /\ Goto(k, IF Shown(ids) = {} THEN otherwise ELSE label)
  /\ my' = [my EXCEPT ![k].all = Shown(ids), ![k].left = Shown(ids), ![k].touched = {}]
  /\ UNCHANGED <<now, rows, nextId, raised, validated, n, faults, history>>

NextStep(k) == IF my[k].cmd.kind = "extend" THEN "check" ELSE "judge"

ListCurrent(k) ==
  /\ pc[k] = "list"
  /\ ListTo(k, Selected(my[k].cmd, At(now)), NextStep(k), "future")

(* No current schedule: future ones, when the operator says yes.  This     *)
(* answer is not cleansed of broken hosts.                                 *)
ListFuture(k) ==
  /\ pc[k] = "future"
  /\ LET ids == Selected(my[k].cmd, {id \in DOMAIN rows : now <= rows[id].start})
         listed == {AsListed(id) : id \in ids}
     IN \/ /\ listed # {}
           /\ my' = [my EXCEPT ![k].all = listed, ![k].left = listed, ![k].touched = {}]
           /\ Goto(k, NextStep(k))
        \/ listed = {} /\ Quit(k, "done")
        \/ listed # {} /\ Quit(k, "refused")
  /\ UNCHANGED <<now, rows, nextId, raised, validated, n, faults, history>>

----------------------------------------------------------------------------
(* --extend.                                                               *)

Later(cmd, s) == IF cmd.weeks > 0 THEN s.end + cmd.weeks * Week ELSE cmd.end

(* Mutants: the answer of the last host decides; the order of the ends is  *)
(* not looked at.                                                          *)
VerdictOfLast(k, s) == ~IsAvailable(s.host, FloorMinute(s.end), FloorMinute(Later(my[k].cmd, s)))
VerdictNoOrder(k, s) == my[k].bad \/ VerdictOfLast(k, s)

(* Is the host free from the end of its schedule to the new end?           *)
Verdict(k, s) ==
  \/ my[k].bad
  \/ ~IsAvailable(s.host, FloorMinute(s.end), FloorMinute(Later(my[k].cmd, s)))
  \/ Later(my[k].cmd, s) < s.end

Check(k) ==
  /\ pc[k] = "check"
  /\ \E s \in my[k].left :
       LET bad == Verdict(k, s) IN
       \/ /\ my[k].left # {s}
          /\ my' = [my EXCEPT ![k].bad = bad, ![k].left = @ \ {s}]
          /\ UNCHANGED pc
       \/ /\ my[k].left = {s} /\ ~bad
          /\ my' = [my EXCEPT ![k].left = my[k].all]
          /\ Goto(k, "reset")
       \/ my[k].left = {s} /\ bad /\ Quit(k, "refused")
  /\ UNCHANGED <<now, rows, nextId, raised, validated, n, faults, history>>

(* Mutant: the flags are left as they are.                                 *)
KeepFlags(k, c) == UNCHANGED <<raised, mails>>

LowerNotices(k, c) == Lower(c, Notices)

(* The warnings already sent no longer count; all rows have one cloud or   *)
(* the flags of the first are taken.                                       *)
Reset(k) ==
  /\ pc[k] = "reset"
  /\ \E s \in my[k].all : LowerNotices(k, s.cloud) /\ Crossing(s.cloud)
  /\ Goto(k, "patch")
  /\ UNCHANGED <<now, rows, nextId, validated, my, n, faults, told, unchecked>>

(* One PATCH after another.  `end` was computed from the row as listed.    *)
PatchEnd(k, kind, end) ==
  /\ pc[k] = "patch" /\ my[k].cmd.kind = kind
  /\ \E s \in my[k].left :
       \/ /\ s.id \in DOMAIN rows /\ Acceptable(s.id, rows[s.id].start, end[s])
          /\ Move(s.id, rows[s.id].start, end[s])
          /\ unchecked' = IF s.host \in my[k].touched THEN unchecked \union {s.id} ELSE unchecked
          /\ my' = [Touching(k, rows[s.id].host) EXCEPT
                       ![k] = IF my[k].left = {s} THEN NoLocal
                              ELSE [my[k] EXCEPT !.left = @ \ {s}]]
          /\ Goto(k, IF my[k].left = {s} THEN "done" ELSE "patch")
       \/ /\ ~(s.id \in DOMAIN rows /\ Acceptable(s.id, rows[s.id].start, end[s]))
          /\ Quit(k, "error")
          /\ UNCHANGED <<rows, raised, mails, told, unchecked, exempt>>
  /\ UNCHANGED <<now, nextId, validated, n, faults>>

Extend(k) == PatchEnd(k, "extend", [s \in my[k].left |-> FloorMinute(Later(my[k].cmd, s))])

----------------------------------------------------------------------------
(* --shrink.                                                               *)

Earlier(k, s) ==
  LET cmd == my[k].cmd IN
  CASE cmd.weeks > 0 -> s.end - cmd.weeks * Week
    [] cmd.weeks = 0 /\ ~cmd.asap -> cmd.end
    [] OTHER -> my[k].began

Shrinkable(k, s) ==
  /\ s.start <= Earlier(k, s) /\ Earlier(k, s) <= s.end
  /\ my[k].cmd.asap \/ my[k].began + Hour <= Earlier(k, s)

(* Judged from the list alone; then the operator is asked.                 *)
Judge(k) ==
  /\ pc[k] = "judge"
  /\ \/ (\A s \in my[k].all : Shrinkable(k, s)) /\ Goto(k, "patch") /\ UNCHANGED my
     \/ Quit(k, "refused")
  /\ UNCHANGED <<now, rows, nextId, raised, validated, n, faults, history>>

(* Mutant: no minute is kept.                                              *)
ShrunkBare(k, s) == FloorMinute(Earlier(k, s))

ShrunkEnd(k, s) == FloorMinute(Max({Earlier(k, s), s.start + Minute}))

Shrink(k) == PatchEnd(k, "shrink", [s \in my[k].left |-> ShrunkEnd(k, s)])

----------------------------------------------------------------------------
(* --mod-schedule, --rm-schedule, --add-schedule, --modify-notification.   *)

(* Nothing is checked but the order of the two ends.                       *)
Modify(k) ==
  /\ pc[k] = "patch" /\ my[k].cmd.kind = "mod"
  /\ LET cmd == my[k].cmd
         start == IF "start" \in cmd.fields THEN cmd.start ELSE rows[cmd.id].start
         end == IF "end" \in cmd.fields THEN cmd.end ELSE rows[cmd.id].end
     IN \/ /\ cmd.id \in DOMAIN rows /\ start < end
           /\ Move(cmd.id, start, end)
           /\ unchecked' = unchecked \union {cmd.id}
           /\ my' = [Touching(k, rows[cmd.id].host) EXCEPT ![k].all = {AsListed(cmd.id)}]
           /\ Goto(k, "clear")
        \/ /\ cmd.id \in DOMAIN rows => ~(start < end)
           /\ Quit(k, "error")
           /\ UNCHANGED <<rows, raised, mails, told, unchecked, exempt>>
  /\ UNCHANGED <<now, nextId, validated, n, faults>>

(* "three_day", "five_day" and "seven_day" are no columns and are ignored. *)
ModifyReset(k) ==
  /\ pc[k] = "clear" /\ my[k].cmd.kind = "mod"
  /\ \E s \in my[k].all : Lower(s.cloud, {1, pre} \intersect Flags) /\ Crossing(s.cloud)
  /\ Quit(k, "done")
  /\ UNCHANGED <<now, rows, nextId, validated, n, faults, told, unchecked>>

Remove(k) ==
  /\ pc[k] = "patch" /\ my[k].cmd.kind = "remove"
  /\ LET id == my[k].cmd.id IN
       IF id \in DOMAIN rows
       THEN /\ rows' = [i \in DOMAIN rows \ {id} |-> rows[i]]
            /\ my' = [Touching(k, rows[id].host) EXCEPT ![k] = NoLocal]
            /\ Goto(k, "done")
            /\ Crossing(rows[id].cloud)
       ELSE Quit(k, "error") /\ UNCHANGED <<rows, exempt>>
  /\ UNCHANGED <<now, nextId, raised, validated, n, faults, mails, told, unchecked>>

(* A host may stand in a list twice.                                       *)
NamedOnce(k, s) == \A t \in my[k].all : t.host = s.host => t = s

(* --omit-cloud: each host of the list is looked up, and dropped when it   *)
(* is in that cloud now.  A single host is not booked, wherever it is.     *)
Sift(k) ==
  /\ pc[k] = "sift"
  /\ \/ my[k].cmd.list = <<>> /\ Quit(k, "done")
     \/ /\ my[k].cmd.list # <<>>
        /\ \E s \in my[k].left : \E all \in {my[k].all, my[k].all \ {s}} :
             IF my[k].left # {s}
             THEN my' = [my EXCEPT ![k].all = all, ![k].left = @ \ {s}] /\ UNCHANGED pc
             ELSE /\ my' = [my EXCEPT ![k].all = all, ![k].left = all]
                  /\ Goto(k, IF all = {} THEN "ticket" ELSE "ask")
  /\ UNCHANGED <<now, rows, nextId, raised, validated, n, faults, history>>

(* --host-list: every host is asked about before the first is booked.      *)
Ask(k) ==
  /\ pc[k] = "ask"
  /\ \E s \in my[k].left :
       LET bad == my[k].bad \/ ~IsAvailable(s.host, s.start, s.end) IN
       \/ /\ my[k].left # {s}
          /\ my' = [my EXCEPT ![k].bad = bad, ![k].left = @ \ {s}]
          /\ UNCHANGED pc
       \/ /\ my[k].left = {s} /\ ~bad
          /\ my' = [my EXCEPT ![k].left = my[k].all]
          /\ Goto(k, "send")
       \/ my[k].left = {s} /\ bad /\ Quit(k, "refused")
  /\ UNCHANGED <<now, rows, nextId, raised, validated, n, faults, history>>

(* A self-schedule starts now, and ends with the weekly deadline or, when   *)
(* that is further off, after a lifetime.                                  *)
SelfEnd ==
  LET today == now \div Day
      ahead == (DeadlineDay - today) % 7
      deadline == (today + ahead) * Day + DeadlineHour
  IN IF ahead < SelfLifetime THEN deadline ELSE Min({now + SelfLifetime * Day, deadline})

Granted(s) == IF s.cloud \in SelfClouds THEN [s EXCEPT !.start = now, !.end = SelfEnd] ELSE s

(* Into a self-scheduled cloud only so many hosts go, and only some may.   *)
SelfRefused(s) ==
  /\ s.cloud \in SelfClouds
  /\ \/ Cardinality({id \in At(now) : rows[id].cloud = s.cloud}) >= HostLimit
     \/ s.host \notin SelfHosts

(* POST /schedules: check and insert under the locks of Booking.           *)
Book(k) ==
  /\ pc[k] = "send"
  /\ \E s \in my[k].left :
       LET g == Granted(s)
           row == [host |-> g.host, cloud |-> g.cloud, start |-> g.start, end |-> g.end]
       IN IF ~SelfRefused(s) /\ g.start < g.end /\ IsAvailable(g.host, g.start, g.end)
          THEN /\ rows' = [i \in DOMAIN rows \union {nextId} |-> IF i = nextId THEN row ELSE rows[i]]
               /\ nextId' = nextId + 1
               /\ my' = [Touching(k, s.host) EXCEPT ![k].left = @ \ {s}]
               /\ Goto(k, "clear")
               /\ exempt' = exempt \union {s.cloud}
          ELSE Quit(k, "error") /\ UNCHANGED <<rows, nextId, exempt>>
  /\ UNCHANGED <<now, raised, validated, n, faults, mails, told, unchecked>>

(* The server's last write of a create; then the next host of the list.    *)
BookReset(k) ==
  /\ pc[k] = "clear" /\ my[k].cmd.kind = "book"
  /\ Lower(my[k].cmd.cloud, {pre})
  /\ IF my[k].left = {} /\ my[k].cmd.list = <<>> THEN Quit(k, "done")
     ELSE Goto(k, IF my[k].left = {} THEN "ticket" ELSE "send") /\ UNCHANGED my
  /\ UNCHANGED <<now, rows, nextId, validated, n, faults, told, unchecked, exempt>>

(* After a list, the ticket of the cloud gets a comment and a new status;  *)
(* what Jira answers changes nothing.                                      *)
Ticket(k) ==
  /\ pc[k] = "ticket"
  /\ Quit(k, "done")
  /\ UNCHANGED <<now, rows, nextId, raised, validated, n, faults, history>>

SetFlags(k) ==
  /\ pc[k] = "patch" /\ my[k].cmd.kind = "modify"
  /\ LET cmd == my[k].cmd IN
       /\ IF cmd.up
          THEN /\ raised' = [raised EXCEPT ![cmd.cloud] = @ \union cmd.flags]
               /\ UNCHANGED mails
          ELSE Lower(cmd.cloud, cmd.flags)
       /\ exempt' = exempt \union {cmd.cloud}
  /\ Quit(k, "done")
  /\ UNCHANGED <<now, rows, nextId, validated, n, faults, told, unchecked>>

----------------------------------------------------------------------------
(* The notifier.                                                           *)

Running(label) == n.pc = label
Still == UNCHANGED <<now, rows, nextId, validated, client>>

(* Mutant: only those with a tenant, as in the second loop.                *)
NStartOwned ==
  /\ Running("idle")
  /\ n' = [Idle EXCEPT !.pc = "first", !.todo = validated \intersect Owned, !.flags = raised]
  /\ Still /\ UNCHANGED <<raised, faults, history>>

(* The validated assignments with their flags.                             *)
NStart ==
  /\ Running("idle")
  /\ n' = [Idle EXCEPT !.pc = "first", !.todo = validated, !.flags = raised]
  /\ Still /\ UNCHANGED <<raised, faults, history>>

(* Go on to another cloud of the same loop, or to the days of this one.    *)
Days(label, c) == IF label = "days" /\ c \notin SelfClouds THEN Notices ELSE {}
Resume(label, c) == IF label = "days" /\ c \in SelfClouds THEN "first" ELSE label

(* The current schedules of a cloud; the first message when it is due.     *)
Turn(c, next, notice, days, then, flags) ==
  n' = [n EXCEPT !.pc = next, !.todo = @ \ {c}, !.at = c, !.current = CurrentOf(c, now),
                 !.asof = IF Running("first") THEN now ELSE 0, !.days = days, !.notice = notice, !.leaving = {},
                 !.then = then, !.missed = FALSE, !.flags[c] = flags]

FirstLoop ==
  /\ Running("first")
  /\ \E c \in n.todo :
       LET on == Resume("days", c) IN
       IF initial \in n.flags[c] THEN Turn(c, on, None, Days("days", c), on, n.flags[c])
       ELSE Turn(c, "send", initial, Days("days", c), on, n.flags[c])
  /\ Still /\ UNCHANGED <<raised, faults, history>>

(* The shortest notice first.                                              *)
NextDay == Min(n.days)

(* Some hosts are gone by 22:00 of that day, and the end of the schedule   *)
(* that happens to be listed first lies within that many days.             *)
Leaving(d) == HostsOf(n.current) \ HostsOf(CurrentOf(n.at, FutureDate(d)))

(* Mutant: the flag is not looked at.                                      *)
DueAgain(d, s) == Leaving(d) # {} /\ now + d * Day > s.end

Due(d, s) == Leaving(d) # {} /\ now + d * Day > s.end /\ d \notin n.flags[n.at]

LookAhead ==
  /\ Running("days") /\ n.days # {}
  /\ LET d == NextDay IN
       \/ /\ \E s \in n.current : Due(d, s)
          /\ n' = [n EXCEPT !.pc = "send", !.notice = d, !.leaving = Leaving(d),
                            !.days = {}, !.then = "first"]
       \/ /\ n.current = {} \/ \E s \in n.current : ~Due(d, s)
          /\ n' = [n EXCEPT !.days = @ \ {d}]
  /\ Still /\ UNCHANGED <<raised, faults, history>>

DaysDone ==
  /\ Running("days") /\ n.days = {}
  /\ n' = [n EXCEPT !.pc = "first"]
  /\ Still /\ UNCHANGED <<raised, faults, history>>

(* The second loop keeps nothing of a cloud it has done.                   *)
Afresh == n' = [Idle EXCEPT !.pc = "second", !.todo = n.todo]
Marked ==
  IF n.then = "second" THEN Afresh
  ELSE n' = [n EXCEPT !.pc = n.then, !.notice = None, !.leaving = {}]

(* The mail goes out, and only then the flag goes up.                      *)
Send ==
  /\ Running("send")
  /\ n' = [n EXCEPT !.pc = "mark"]
  /\ mails' = [mails EXCEPT ![n.at][n.notice] = @ + 1]
  /\ told' = told \union {<<n.at, h>> : h \in n.leaving}
  /\ exempt' = IF CommandsOn(n.at) = {} THEN exempt ELSE exempt \union {n.at}
  /\ Still /\ UNCHANGED <<raised, faults, unchecked>>

Mark ==
  /\ Running("mark")
  /\ raised' = [raised EXCEPT ![n.at] = @ \union {n.notice}]
  /\ Marked
  /\ Still /\ UNCHANGED <<faults, history>>

(* The second loop reads each active assignment again.                     *)
SecondStart ==
  /\ Running("first") /\ n.todo = {}
  /\ n' = [Idle EXCEPT !.pc = "second", !.todo = Owned]
  /\ Still /\ UNCHANGED <<raised, faults, history>>

SecondLoop ==
  /\ Running("second")
  /\ \E c \in n.todo :
       LET days == IF pre \notin raised[c] /\ c \in validated THEN Notices ELSE {} IN
       IF pre_initial \in raised[c] THEN Turn(c, "later", None, days, "later", raised[c])
       ELSE Turn(c, "send", pre_initial, days, "later", raised[c])
  /\ Still /\ UNCHANGED <<raised, faults, history>>

(* A change is announced when some hosts stay and others go.               *)
LookLater ==
  /\ Running("later") /\ n.days # {}
  /\ LET d == Min(n.days) IN
       n' = IF CurrentOf(n.at, FutureDate(d)) # {} /\ Leaving(d) # {}
            THEN [n EXCEPT !.pc = "send", !.notice = pre, !.days = {}, !.then = "second"]
            ELSE [n EXCEPT !.days = @ \ {d}]
  /\ Still /\ UNCHANGED <<raised, faults, history>>

LaterDone ==
  /\ Running("later") /\ n.days = {}
  /\ Afresh
  /\ Still /\ UNCHANGED <<raised, faults, history>>

NEnd ==
  /\ Running("second") /\ n.todo = {}
  /\ n' = Idle
  /\ Still /\ UNCHANGED <<raised, faults, history>>

(* A query fails: the cloud, or the day, is skipped.                       *)
Fault == faults < MaxFaults /\ faults' = faults + 1
QueryFails ==
  /\ Fault
  /\ \/ /\ n.pc \in {"first", "second"}
        /\ \E c \in n.todo : n' = [n EXCEPT !.todo = @ \ {c}, !.at = None]
     \/ /\ n.pc \in {"days", "later"} /\ n.days # {}
        /\ n' = [n EXCEPT !.days = @ \ {NextDay}, !.missed = TRUE]
  /\ Still /\ UNCHANGED <<raised, history>>

MarkFails ==
  /\ Fault /\ Running("mark")
  /\ Marked
  /\ Still /\ UNCHANGED <<raised, history>>

(* The mail server refuses, or the run is killed.                          *)
Dies ==
  /\ Fault /\ ~Running("idle")
  /\ n' = Idle
  /\ Still /\ UNCHANGED <<raised, history>>

----------------------------------------------------------------------------
(* The surroundings.                                                       *)

Validate(c) ==
  /\ c \notin validated
  /\ validated' = validated \union {c}
  /\ UNCHANGED <<now, rows, nextId, raised, client, n, faults, history>>

Tick ==
  /\ now < MaxTime
  /\ now' = now + 1
  /\ UNCHANGED <<rows, nextId, raised, validated, client, n, faults, history>>

Step(k) ==
  \/ \E cmd \in Commands : Type(k, cmd)
  \/ ListCurrent(k) \/ ListFuture(k) \/ Check(k) \/ Reset(k) \/ Extend(k)
  \/ Judge(k) \/ Shrink(k) \/ Modify(k) \/ ModifyReset(k) \/ Remove(k)
  \/ Sift(k) \/ Ask(k) \/ Book(k) \/ BookReset(k) \/ Ticket(k) \/ SetFlags(k) \/ CallFails(k)

Notify ==
  \/ NStart \/ FirstLoop \/ LookAhead \/ DaysDone \/ Send \/ Mark
  \/ SecondStart \/ SecondLoop \/ LookLater \/ LaterDone \/ NEnd

Next ==
  \/ \E k \in Clients : Step(k)
  \/ Notify \/ QueryFails \/ MarkFails \/ Dies
  \/ \E c \in Clouds : Validate(c)
  \/ Tick

Spec == Init /\ [][Next]_vars

(* cron starts the notifier again and again, and a run that is not         *)
(* disturbed goes on.                                                      *)
FairSpec == Spec /\ WF_vars(Notify)

----------------------------------------------------------------------------
(* Properties.                                                             *)

(* Two schedules of a host overlap only when one of them was moved without *)
(* a check, or somebody wrote a schedule of that host between the listing  *)
(* of --extend and its PATCH; --shrink never makes an overlap of its own.  *)
OverlapsOnlyUnchecked ==
  \A i, j \in DOMAIN rows :
    \/ i = j \/ rows[i].host # rows[j].host
    \/ Disjoint(rows[i], rows[j].start, rows[j].end)
    \/ {i, j} \intersect unchecked # {}

(* --extend never brings an end forward and --shrink never puts one off,   *)
(* whatever the rounding to minutes, unless the row was changed by others  *)
(* after it was listed.                                                    *)
EndsMoveAsAsked ==
  [][\A k \in Clients, id \in DOMAIN rows :
       (id \in DOMAIN rows' /\ rows[id].host \notin my[k].touched /\ pc[k] = "patch"
          /\ rows'[id] # rows[id]
          /\ <<pc[k], my[k].left>> # <<pc'[k], my'[k].left>>)
       => /\ my[k].cmd.kind = "extend" => rows'[id].end >= rows[id].end
          /\ my[k].cmd.kind = "shrink" => rows'[id].end <= rows[id].end]_vars

(* What was found possible is done: once its checks have passed, --extend,  *)
(* --shrink and a host list are refused half way only when somebody else   *)
(* has written the schedules of a host since it was listed.  Of a list the *)
(* check is also not enough when it names a host twice, when its interval  *)
(* is empty, or when its cloud is self-scheduled: the server then grants   *)
(* another interval than was asked about, by rules nobody asked about.     *)
OtherwiseChecked(k) ==
  LET cmd == my[k].cmd IN
  cmd.kind = "book" /\ \/ cmd.cloud \in SelfClouds \/ cmd.end <= cmd.start
                       \/ \E s \in my[k].left : ~NamedOnce(k, s)

DoneAsChecked ==
  [][\A k \in Clients :
       (/\ pc[k] \in {"patch", "send"} /\ pc'[k] = "error" /\ faults' = faults
        /\ my[k].cmd.kind \in {"extend", "shrink"} \/ my[k].cmd.list # <<>>)
       => (\E s \in my[k].left : s.host \in my[k].touched) \/ OtherwiseChecked(k)]_vars

(* A notice is sent again only for a fault: at most one mail per flag and  *)
(* time it was cleared, plus one per failed call or run that died between  *)
(* the mail and its flag.                                                  *)
RepeatsNeedFaults == \A c \in Clouds, f \in Flags : mails[c][f] <= faults + 1

(* After the notifier has been through a cloud, nobody in it is about to   *)
(* leave within a day without a warning: provided all its schedules end    *)
(* together, no command crossed the run or died half way, no booking       *)
(* joined the cloud and no schedule was brought forward behind the         *)
(* notices.  --shrink and --mod-schedule lower no flag but 1 and `pre`:    *)
(* whoever joins those that were warned in this way is not warned (Behind).*)
EndTogether(c) ==
  \A i, j \in DOMAIN rows : rows[i].cloud = c /\ rows[j].cloud = c => rows[i].end = rows[j].end
Through(c) == Running("first") /\ n.at = c /\ ~n.missed
LeavesTomorrow(s) == s.end < n.asof + Day /\ s.end <= (n.asof \div Day + 1) * Day + Evening
Unwarned(c) == {s \in n.current : LeavesTomorrow(s) /\ <<c, s.host>> \notin told}

WarnedUnlessCrossed ==
  \A c \in Clouds \ (SelfClouds \union exempt) :
    Through(c) /\ EndTogether(c) => Unwarned(c) = {}

(* Once an environment is validated its tenant is told, and it is recorded.*)
Welcomed == \A c \in Clouds : c \in validated ~> initial \in raised[c]
----------------------------------------------------------------------------
(***************************************************************************)
(* Why RepeatsNeedFaults holds: what the notifier may still send in this   *)
(* run, it has not sent since the flag was last cleared, or failed to mark *)
(* at the price of a fault.                                                *)
(***************************************************************************)
TypeOK ==
  /\ now \in Nat /\ nextId \in Nat /\ faults \in Nat
  /\ DOMAIN rows \subseteq 0 .. nextId - 1 /\ rows \in [DOMAIN rows -> Row]
  /\ raised \in [Clouds -> SUBSET Flags]
  /\ validated \subseteq Clouds
  /\ pc \in [Clients -> {"idle"} \union Busy \union Final]
  /\ my \in [Clients -> Local]
  /\ n \in Run
  /\ mails \in [Clouds -> [Flags -> Nat]]
  /\ told \subseteq Clouds \X Hosts /\ unchecked \subseteq Nat /\ exempt \subseteq Clouds

(* A command at work has been typed.                                       *)
CmdOK == \A k \in Clients : pc[k] \in Busy => my[k].cmd \in Commands

(* Where a run of the notifier is: in its first loop, or in its second.    *)
RunOK ==
  /\ n.pc \in {"days", "later", "send", "mark"} => n.at \in Clouds \ n.todo
  /\ n.pc \in {"send", "mark"} => /\ n.notice \in Flags /\ n.notice \notin n.days
                                  /\ n.then \in {"first", "days", "later", "second"}
                                  /\ n.then = "days" => n.notice = initial
                                  /\ n.then = "later" => n.notice = pre_initial
                                  /\ n.then \in {"first", "second"} => n.days = {}

InFirst == n.pc \in {"first", "days"} \/ (n.pc \in {"send", "mark"} /\ n.then \in {"first", "days"})
InSecond == n.pc = "later" \/ (n.pc \in {"send", "mark"} /\ n.then = "later")

MaySend(c, f) ==
  \/ InFirst /\ c \in n.todo /\ f \in {initial} \union Notices /\ f \notin n.flags[c]
  \/ n.pc = "send" /\ n.at = c /\ n.notice = f
  \/ InFirst /\ n.pc # "first" /\ n.at = c /\ f \in n.days /\ f \notin n.flags[c]
  \/ InSecond /\ n.at = c /\ f = pre /\ n.days # {}

MailsOK ==
  \A c \in Clouds, f \in Flags :
    /\ mails[c][f] <= faults + 1
    /\ f \notin raised[c] /\ ~(n.pc = "mark" /\ n.at = c /\ n.notice = f) => mails[c][f] <= faults
    /\ MaySend(c, f) => mails[c][f] <= faults

TypeInv == TypeOK /\ CmdOK /\ RunOK
NoticesInv == TypeInv /\ MailsOK

(***************************************************************************)
(* Why a checked command makes no overlap: what the client knows of a host *)
(* nobody else has written to is still true.  Commands are typed in whole  *)
(* minutes, --mod-schedule gives a schedule whose start it moves an end    *)
(* too, and every schedule at the start reaches the minute after its own.  *)
(***************************************************************************)
WholeMinutes ==
  /\ \A cmd \in Commands : /\ cmd.start % Minute = 0 /\ cmd.end % Minute = 0
                           /\ cmd.kind = "mod" /\ "start" \in cmd.fields => "end" \in cmd.fields
  /\ \A id \in DOMAIN Rows0 : FloorMinute(Rows0[id].start) + Minute <= Rows0[id].end
  /\ \A i, j \in DOMAIN Rows0 : \/ i = j \/ Rows0[i].host # Rows0[j].host
                                \/ Disjoint(Rows0[i], Rows0[j].start, Rows0[j].end)

RowsOK == \A id \in DOMAIN rows : FloorMinute(rows[id].start) + Minute <= rows[id].end

NewEnd(k, s) == IF my[k].cmd.kind = "extend" THEN FloorMinute(Later(my[k].cmd, s))
                                            ELSE ShrunkEnd(k, s)

(* The rows as listed, and as this command has patched them since.         *)
ListOK(k) ==
  /\ my[k].left \subseteq my[k].all
  /\ \A s, t \in my[k].all : s.id = t.id => s = t
  /\ \A s \in my[k].all :
       /\ FloorMinute(s.start) + Minute <= s.end
       /\ s.id < nextId /\ (s.id \in DOMAIN rows => rows[s.id].host = s.host)
       /\ s.host \notin my[k].touched =>
            /\ s.id \in DOMAIN rows /\ rows[s.id].start = s.start
            /\ rows[s.id].end = IF pc[k] = "patch" /\ s \notin my[k].left THEN NewEnd(k, s)
                                                                         ELSE s.end

(* The extensions found possible.                                          *)
Verified(k) == IF pc[k] # "check" THEN my[k].all
               ELSE IF my[k].bad THEN {} ELSE my[k].all \ my[k].left

Free(row, s, cmd) == Available({row}, FloorMinute(s.end), FloorMinute(Later(cmd, s)))

ExtendOK(k) ==
  \A s \in Verified(k) :
    /\ s.end <= Later(my[k].cmd, s)
    /\ s.host \notin my[k].touched =>
         /\ \A t \in my[k].all : t.host = s.host => Free(t, s, my[k].cmd)
         /\ \A id \in DOMAIN rows :
              rows[id].host = s.host /\ (\A t \in my[k].all : id # t.id) =>
                Free(rows[id], s, my[k].cmd)

(* The bookings of a list found possible and still to be made.             *)
AskedFor(k) == IF pc[k] # "ask" THEN my[k].left
               ELSE IF my[k].bad THEN {} ELSE my[k].all \ my[k].left

ListedOK(k) ==
  LET cmd == my[k].cmd IN
  /\ my[k].left \subseteq my[k].all
  /\ \A s \in my[k].all : /\ s.host \in Hosts
                          /\ s = Wish(cmd, s.id, s.host)
  /\ cmd.list # <<>> /\ pc[k] # "sift" /\ cmd.start < cmd.end =>
       \A s \in AskedFor(k) : s.host \notin my[k].touched /\ NamedOnce(k, s) =>
         s.host \notin Out /\ Available(HostRows(s.host), s.start, s.end)

KnownOK(k) ==
  LET kind == my[k].cmd.kind IN
  /\ pc[k] \in {"list", "future"} => kind \in {"extend", "shrink"}
  /\ pc[k] \in {"check", "reset"} => kind = "extend"
  /\ pc[k] = "judge" => kind = "shrink"
  /\ pc[k] \in {"reset", "judge"} => my[k].left = my[k].all
  /\ pc[k] \in {"sift", "ask", "send", "ticket"} => kind = "book"
  /\ pc[k] \in Busy \ {"list", "future"} /\ kind \in {"extend", "shrink"} => ListOK(k)
  /\ pc[k] \in {"check", "reset", "patch"} /\ kind = "extend" => ExtendOK(k)
  /\ pc[k] = "patch" /\ kind = "shrink" =>
       \A s \in my[k].all : s.start <= Earlier(k, s) /\ Earlier(k, s) <= s.end
  /\ pc[k] \in {"sift", "ask", "send", "clear"} /\ kind = "book" => ListedOK(k)

KnowledgeInv == TypeInv /\ RowsOK /\ (\A k \in Clients : KnownOK(k)) /\ OverlapsOnlyUnchecked

=============================================================================
