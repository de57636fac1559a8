# Formal models of QUADS

QUADS schedules bare-metal lab machines: hosts are booked into *clouds* for a period, moved there when the period
begins (switch ports reconfigured, machine rebuilt), validated, handed to the tenant, and moved back to the spare pool
afterwards. This directory holds TLA+ models of the parts of QUADS where concurrency, failure and boundaries decide
whether that works, the TLC configurations that check them, and TLAPS proofs. `PROJECT.json` is the index: which lines
of the source each definition models, the runs, the hazards, the theorems.

Paths below are relative to the repository root.

## 1. The system: inventory

| component | where | state it keeps | operations | what makes it hard |
|---|---|---|---|---|
| schedules API | `src/quads/server/blueprints/schedules.py`, `dao/schedule.py` | table `schedules`: host, assignment, start, end, build and move columns | POST, POST /batch, PATCH, DELETE, current and future queries, availability | check-then-insert by 17 worker processes with threads over READ COMMITTED; row locks; half-open intervals |
| assignments API | `blueprints/assignments.py`, `dao/assignment.py` | table `assignments`: cloud, owner, `active`, `provisioned`, `validated`, `wipe`, self-schedule flag; one `notification` row each | POST, POST /self, PATCH, terminate, DELETE | a look-up, then an insert, with a Jira call in between; terminate without locks |
| clouds and hosts API | `blueprints/clouds.py`, `hosts.py`, `dao/cloud.py`, `dao/host.py` | clouds; hosts with current cloud, default cloud, `broken`, `retired`, `build`, `validated`, `switch_config_applied` | CRUD, free clouds, lock queries | flags read by bookings and movers that run meanwhile |
| transactions | `dao/baseDao.py`, `server/database.py` | one SQLAlchemy session per request | `safe_commit` | errors swallowed: answers False, which most callers drop |
| command line | `src/quads/cli/cli.py`, `quads_api.py` | none: a REST client | `--extend`, `--shrink`, `--mod-*`, `--define-*`, ... | every command is several REST calls; checks go stale; partial failure |
| mover | `cli.py` `action_movehosts`, `blueprints/moves.py`, `plugins/builtin/release/standard.py` | the lifecycle flags, move status of schedules | the cron job every five minutes | switch and rebuild fail half way; retried by the next run; runs beside the validator and the API |
| validator | `cli.py` `_run_validation`, `plugins/builtin/validators/environment.py` | `validated` of hosts and assignments, notification flags | cron job under its own flock | host list read at the start, tests take minutes |
| notifier | `tools/notify.py` | the notification flags | cron job every ten minutes | sends first, sets the flag later; resets race it |
| rebuild of one machine | `plugins/builtin/release/standard.py`, `plugins/builtin/hardware`, `tools/external/{badfish,ipmi,foreman}.py` | BIOS settings, pending jobs, IPMI users, Foreman parameters: none of it in the database | `move_and_rebuild` | each request may be lost or half obeyed; the machine acts in its own time; the next run meets what this one left |
| switch plugins, VLANs | `plugins/builtin/switches`, `tools/external/{juniper,arista}.py`, `helpers/utils.py` | the switches' configuration | configure, verify, modify | Junos sessions share a candidate, EOS obeys line by line and forgets what is not saved |
| accounts, tokens, sign-in | `blueprints/auth.py`, `users.py`, `api_tokens.py`, `server/app.py`, `web/auth_helpers.py` | users, API tokens, blacklist | register, login, logout, token and account CRUD, Google sign-in | check and commit apart; ignored failures; a sign-in of five calls |
| host inventory | `blueprints/{clouds,hosts,interfaces,disks,memory,processors}.py`, metadata commands of `cli.py` | clouds, hosts and their parts | CRUD, import, export, removal | a command is many calls that clear, then fill; uniqueness by looking first |
| reports, web pages, plugin dispatchers, Jira, chat, mail | `tools/`, `web/`, `plugins/` | none | pages, I/O | I/O, not rules |

How they meet: every actor except the API workers is a REST client; all shared state is in PostgreSQL. The API workers
share nothing but the database (`systemd/quads-server.service`: gunicorn, 17 workers, gthread). The cron jobs
(`cron/quads`) each take a *different* `flock`, so the mover, the validator and the notifier exclude themselves but not
one another, and none excludes the API.

What should hold, by component:

* schedules: no host in two schedules at one instant; the availability query is exact; a refused or crashed request
  leaves neither rows nor locks behind; self-scheduling limits hold; every request is answered.
* assignments: one active assignment per cloud; terminate ends what is current and touches nothing else.
* mover and validator: hosts end up in the cloud their current schedule names; an environment is released only when
  every host was moved, built and tested.
* notifier: each notice once, and again only when a booking made it due again; an end that was put off is warned of anew.
* command line: an extension never overlaps another booking; what its checks found possible is done.
* rebuild: what is handed over is what was asked for; the last tenant is shut out while the machine is wiped; a failed
  attempt does not poison the next; every attempt ends.
* switches: a port is in the VLAN QUADS says it is in, and in no other, after any failure that was not reported.
* accounts: a token works for whom and as long as it should; nobody signs in as another.
* host inventory: commands touch only what they were asked to; no twins; an import leaves what its file says.

## 2. What is modelled

### Intervals, Calendar, Booking: the reservation core

`Intervals` is the calendar arithmetic of one host: the overlap queries of `ScheduleDao.is_host_available`
(`Blocks`, `Available`), and what they ought to mean (`Disjoint`).

`Calendar` is the abstract specification: the schedules table as a client sees it, with four kinds of step. Rows are
added when they fit every other row (`Reserve`), rows are ended at an instant not ahead of the present (`Cut`), rows are
removed (`Remove`), time passes (`Advance`). It has no requests, locks or transactions.

`Booking` is the server. A request is a process with a program counter `pc`, the body it was sent and the locals its
handler has read (`my`). The tables `assignments` and `schedules` are functions from primary keys to rows; `cloudLock`
and `hostLock` say whose transaction holds a row `FOR UPDATE`.

| action | code |
|---|---|
| `CreateReceive`, `BatchReceive` | parse the body, load the hosts, and for a batch the first round of checks, before any lock |
| `LockCloud` | `get_cloud_for_update`, then the active assignment and who may book on it |
| `CheckLimit` | `ssm_host_limit` over the current schedules of the cloud |
| `LockHost` | `get_hosts_for_update`: one row per step, in name order, waiting for each |
| `Check` | the interval (self-schedules: from now to the deadline) and `is_host_available` for each host |
| `Commit`, `CommitFails` | the inserts become visible and the locks go; or the database refuses |
| `ResetPre` | `notification.pre` in a transaction of its own, then the reply |
| `AssignReceive`, `SelfReceive`, `TicketFails`, `InsertAssignment` | `create_assignment`, `create_self_assignment`: look, ask Jira for a ticket, then insert |
| `AmendReceive`, `AmendWrite` | PATCH of an assignment: the columns that differ (`Sent`), then the write; whether the cloud has an active assignment is not asked |
| `TerminateReceive`, `TerminateWrite` | read assignment and current schedules, then write both |
| `DeleteSchedule`, `PatchReceive`, `PatchWrite` | DELETE and PATCH of a schedule, without locks |
| `UpdateHost`, `Crash`, `Tick` | an operator marks a host broken or repaired; a worker dies; time passes |

Points where the model follows the code closely because the properties depend on it:

* READ COMMITTED: each query sees the committed tables at its own moment. Only `SELECT ... FOR UPDATE` excludes. An
  `INSERT` of an assignment takes `FOR KEY SHARE` on its cloud row, so it waits for a booking on that cloud; the update
  of a host row waits for a booking on that host.
* The session's identity map: the host loaded before the locks stays in the session, and the locking query does not
  refresh it. `my[r].stale` is the flag as read first. In a batch only the last host of the loop is still referenced.
* `safe_commit` rolls back and answers False; `create_schedule` ignores it. A batch commits directly.
* UPDATE and DELETE go by primary key; one that meets a row already deleted fails the whole transaction.

Abstractions: names are numbers in name order; one key sequence serves both tables; existence checks (cloud or host not
found), date formats, what a Jira ticket says, SSH keys and mail are left out, as are the columns `build_start`, `build_end` and
the move columns; the weekly deadline rule is any end from `now` to `now + SelfLifetime`, `now` standing for a deadline
that has passed.

### Properties

| property | says |
|---|---|
| `NoDoubleBooking` | no two schedules of a host share an instant, from the present on |
| `AvailabilityIsExact` | `is_host_available` refuses exactly what overlaps |
| `OneActiveAssignment` | a cloud has at most one active assignment |
| `SelfHostLimit` | concurrent self-schedulers stay within `ssm_host_limit` |
| `NoWaitCycle`, `LockOrder` | no set of requests waits for each other; why not |
| `Answered` | every request that starts ends (liveness) |
| `CalendarSpec` | the schedules table changes only by the steps of `Calendar` |
| `BookingInv` | the inductive invariant of the proof (section 4) |

"From the present on" in `NoDoubleBooking` is needed: terminate reads its rows and writes `now` as their end later, so
two bookings that were legal at their time may share an interval that lies wholly in the past.

PATCH of a schedule neither locks nor asks for availability; the command line asks beforehand. The safety runs leave it
out, and so does the hypothesis `Orderly` of the theorems; the liveness run includes it, and `Expiry` models the clients
that ask beforehand.

What the model has and no property claims, because the code does otherwise: two POSTs of an assignment can open two
for one cloud, and so can a PATCH of one (`OneActiveAssignment` is claimed of requests that open them by batches); a batch that lists a host
twice books it twice (also excluded by `Orderly`); a host marked broken while a create waits for its locks is booked
(`stale`); a create whose commit the database refuses is answered 201 (`CommitFails`).

### Mover, Lifecycle: the two cron jobs

`Mover` is a run of `quads --move-hosts` (`action_movehosts`, `get_moves` on the server, `move_and_rebuild` of the
standard release plugin), and what happens around it. The variables are the columns the jobs meet in (`active`,
`provisioned`, `validated` of an assignment, one assignment per cloud; `cloud`, `build`, `applied`, `tested` of a host;
`status` of a schedule), two facts of the world that no column tells (`wiring`: the VLANs the ports of a host are in;
`fresh`: whether the machine was reinstalled since its last move began) and `m`, the run: its place in the code, the hosts
still to group, the group in hand, the list of the present loop, and for each host its job and the stage of its coroutine.

| action | code |
|---|---|
| `GetMoves` | `GET /moves`: the hosts whose cloud is not that of their current schedule, or home |
| `Survey`, `SweepLook`, `SweepMark`, `EndSweep` | no moves: assignments whose hosts are all built are marked as provisioned |
| `NextCloud`, `Reset`, `Unvalidate` | one group per new cloud; each host loses `build` and `switch_config_applied`, its new assignment `validated` |
| `Batch` | `start_move_batch`: which schedules to report on |
| `SwitchLook`, `Configure`, `Flag` | ports of one host after another, unless the flag says they are done |
| `EndSwitch`, `RetireLook`, `Deactivate` | old clouds without a current schedule lose their assignment |
| `StartGather`, `Ipmi`, `HardwareBegin`, `HardwareEnd`, `HardwareDirect`, `Record` | one `move_and_rebuild` per host, concurrently, the semaphore around the dispatcher |
| `Joined`, `Provision`, `Announce` | the gather is over: mark the assignment, report on the group |
| `BatchFails`, `SwitchLookFails`, `ConfigureFails`, `FlagFails`, `IpmiFails`, `HardwareFails`, `Raise`, `Crash` | calls and devices fail, coroutines raise, the run dies |
| `Terminate`, `Tick` | an owner ends an assignment early; time passes |

A coroutine that an exception of another one left behind is still there: `gather` returns at the first exception, the
event loop runs the others whenever the mover awaits again (`Running`), and they die with the run. The stages of all hosts
are kept until the run is over for that reason.

`Lifecycle` extends `Mover` by a run of `quads --validate-env` (`_run_validation`, `EnvironmentValidator.validate`),
which takes another lock and so interleaves with the mover at every REST call: `VStart`, `Promote` and `PromoteMark`
(environments whose hosts were all tested become provisioned), `List`, `Count`, `Assess`, `GraceCheck`, `System`, `Verify`,
`Rewire` and `Wired` (a host listed without its switch configuration is given one), `Network`, `MarkHost`, `HostsDone`,
`Release`, `Close`, `VEnd`; its failures are `SystemFails`, `NetworkFails`, `MarkHostFails`, `ReleaseFails`, `VCrash`.
`passed` is a history variable: the hosts that passed the tests where they are now.

Abstractions: the statuses between `pending` and the final ones are one value; the assignment of a cloud is identified
with the cloud, so that a cloud is used by one assignment in a behaviour; `wipe` is a constant of the cloud; the switch
plugins move a host's ports to the VLANs of a cloud wholly, partly (`Split`) or not at all (`Switch` has the lines they
type), and a rebuild is a few steps (`Rebuild` has its requests). Left out: `--dry-run`, `omit_network_move`,
`untouchable_hosts`, `build_start` and `build_end`, Foreman healing, PDU control, SSH keys, `--skip` options, and the
mails of the validator.

| property | says |
|---|---|
| `AppliedIsTrue` | a host recorded as built with its switch configuration applied has its ports where it is recorded |
| `FreshlyBuilt` | a host recorded as built in a cloud that wipes was reinstalled for it |
| `Settles` | once faults and clock stop, every host reaches the cloud it belongs to and stays (liveness) |
| `MoverInv` | the inductive invariant of the proof (section 4) |
| `ReleasedMeansProvisioned` | only an environment that was marked as provisioned is marked as validated |
| `Released` | once faults and clock stop, every environment due for release is released and stays so (liveness) |
| `ReleasedMeansTested` | what the README says, violated |

`AppliedIsTrue` holds of the mover alone. Beside the validator it does not: `Verify` may find the host in the cloud it is
about to leave, and `Wired` raise the flag between the mover's `Reset` and its `SwitchLook`, which then skips the switch.

### Expiry: commands and the notifier

`Expiry` has the schedules, the notification flags (`raised`) and two kinds of process. A command (`pc`, `my`) is a
sequence of REST calls of one operator; a run of the notifier (`n`) is cron's. One REST call is one step, since what
happens inside a call is `Booking`'s.

| actions | code |
|---|---|
| `Type`, `ListCurrent`, `ListFuture`, `Check`, `Reset`, `Extend` | `action_extend`: list, ask about each schedule, lower the flags, PATCH each end |
| `Judge`, `Shrink` | `action_shrink`: judged from the list alone |
| `Modify`, `ModifyReset`, `Remove`, `SetFlags` | `--mod-schedule`, `--rm-schedule`, `--modify-notification` |
| `Sift`, `Ask`, `Book`, `BookReset`, `Ticket` | `--add-schedule` with one host or a list: `--omit-cloud` first, every host asked about before the first is booked, a comment in the ticket at the end. `Book` is the POST: into a self-scheduled cloud it takes so many hosts only (`SelfRefused`), only those that may be self-scheduled, and from now to the weekly deadline whatever was asked for (`Granted`, `SelfEnd`) |
| `NStart`, `FirstLoop`, `LookAhead`, `DaysDone`, `Send`, `Mark`, `SecondStart`, `SecondLoop`, `LookLater`, `LaterDone`, `NEnd` | `notify.py` `main`: both loops, the mail first, the flag afterwards |
| `CallFails`, `QueryFails`, `MarkFails`, `Dies` | a call answered 4xx or 5xx; a query or a mark skipped; the run ends |
| `Validate`, `Tick` | the validator; time, in half minutes, so that ends may have seconds |

The history variables (`mails`, `told`, `unchecked`, `exempt`, `my.touched`) say what was sent, which rows were moved
without a check that still held, and whose warnings a command crossed, or came behind (`Behind`: an end is brought forward
after notices went out, and not to this host's tenant). A host list is a sequence, in which a host may stand twice; its
schedules (`Wish`) are told apart by their place in it. Assignments stay active throughout; wording and recipients are left out.

| property | says |
|---|---|
| `OverlapsOnlyUnchecked` | an overlap needs a row moved without a check, or written to since the check |
| `EndsMoveAsAsked` | `--extend` never brings an end forward, `--shrink` never puts one off, whatever is rounded to minutes |
| `DoneAsChecked` | what its checks found possible is not refused half way, unless somebody wrote meanwhile; of a host list also not, unless it names a host twice, its interval is empty or its cloud self-scheduled: the check looks at none of these (`OtherwiseChecked`) |
| `RepeatsNeedFaults` | a notice is repeated at most once per failed call or dead run |
| `WarnedUnlessCrossed` | after the notifier's visit nobody who leaves within a day is unwarned, if all the cloud's schedules end together, unless a command crossed the visit, a booking joined the cloud or an end came behind the notices, or a command died before it lowered the flags |
| `Welcomed` | the tenant of a validated environment is told, and that is recorded (liveness) |

What the code does otherwise, and `WarnedUnlessCrossed` therefore excuses by name: `--shrink` lowers no flag and
`--mod-schedule` only those of one day and `pre` (`cli.py` 1150), so a schedule brought forward to the end of others whose
notices have gone out is never warned of.

### Rebuild: one machine

`Rebuild` is `move_and_rebuild` request by request. `dev` is the machine (make, BMC, power, BIOS settings, those pending,
the job that applies them, virtual media, what it last started from), `foreman` what Foreman was told, `tenant` whether the
last tenant's IPMI user is enabled, `s` the run, `out` its outcome. A request has one of five fates (`Fates`): done and
answered, done without an answer, never arrived, 503, 400. The machine turns off, starts and finishes its BMC reset in its
own time (`Falls`, `Starts`, `BmcReturns`); a run may die anywhere (`Dies`) and is tried again on the machine as it was left.

| actions | code |
|---|---|
| `EnableUser`, `ConfigureUser`, `Verify`, `ReGate`, `Gate` | `_configure_and_verify_ipmi` and the gating of the tenant's user |
| `Prepare`, `InitHardware`, `HostType`, `ListJobs`, `DeleteJobs`, `DeleteEach`, `PatchBootSeq`, `CreateJob` | `change_boot` of Badfish with `clear_job_queue` |
| `Reboot`, `ForceOff`, `PollNotDown`, `PowerBackOn`, `Wake`, `PowerOn` | `reboot_server`, `polling_host_state` and the sleeps |
| `MarkForBuild`, `PutParameters`, `PutOwner` | Foreman |
| `UnmountMedia`, `DetachImage`, `PxePersistent`, `ResetOff`, `ResetOn` | media of earlier tenants; machines that are not Dell's |
| `IsOneTimeBootSet`, `CheckDevice`, `GetBootSeq`, `SendOneTimeBoot`, `ResetIdrac`, `PollOn` | `boot_to` and `patch_bios` |
| `ApplyBootmode`, `SetBootmode`, `PowerOff`, `Record`, `UpdateOnFailure` | boot mode, host going home, outcome |

`odd` is a history of what may excuse an outcome: a request of this run failed, the machine was slower than the sleep that
waits for it, the armed one-time boot was for something else, ...

| property | says |
|---|---|
| `BuiltAsAsked` | a machine handed over runs, started from the network with the order and mode asked for, without media, Foreman ready for it; whatever earlier runs left, but for a one-time boot armed before |
| `GateKept` | the last tenant cannot log in to the BMC while the machine is wiped, nor after a run that ended |
| `FailsOnlyFor` | an undisturbed run fails for two reasons only: the order was right already, or the mode was to be set while a job was scheduled |
| `Ends` | every run ends, on a machine that never turns off too (liveness) |

Consequences of the code that are exceptions in these properties, not violations: `change_boot` answers False when the order
already matches (`matched`); the default order is never set, only booted from once (`move.order = Default`); a machine that
shows a one-time boot as set is not armed again, whatever it is armed for and whatever job is still to change it (`stale`,
`standard.py` 347-362); a boot mode set after the one-time boot takes effect by a restart of its own, so that what the machine
last started from is open (`crossed`).

### Switch: the ports of one host

Each NIC is cabled to a Junos or an EOS port (`vendor`); `conf` is what the ports run, `startup` what EOS saved,
`candidate` the candidate configuration all Junos sessions share. The mover and an operator (`w`) are two processes: each
reads a port and types lines. `JuniperConfigure`, `AristaConfigure`, `JuniperVerify`, `AristaVerify`, `JuniperModify`,
`AristaModify` are the plugins' loops over the NICs; `JuniperSetPort`, `AristaSetPort` and the conversions to public VLANs
are the drivers' scripts, `Type` and `Refused` the obeying or failing of their lines, up to any of them. What a port is after
some lines is a closed form (`LastLine`, `LeftAfter`), so that it can be reasoned about: of the lines that set one thing the last
counts, and a VLAN is joined unless it was left afterwards. `Die` ends a
process, `Reboot` restarts an EOS switch from what it saved. Assignments open and close meanwhile (`Assign`, `Close`).
`CalculateVlan` and `GetVlan` are the arithmetic of `helpers/utils.py`. `doubt` and `crossed` are histories: ports edited on a guess after
a failed read or by two sessions at once; processes whose assignment or port another changed meanwhile.

| property | says |
|---|---|
| `PortsFollow` | when configure answers True the ports carry the new cloud's VLANs, however the last attempt ended |
| `OneVlan` | a Junos port is a member of no VLAN but the one it applies |
| `VerifiedRight` | when verify answers True the ports are right, found or corrected |
| `Persisted` | between sessions an EOS switch has saved what it runs |

A port left alone because its VLAN could not be read and the *guessed* one equals the new one is an exception of
`PortsFollow` (`passed`): configure takes cloud01's VLAN for an assignment that is closed. And the drivers tell the VLAN of a
port by its number alone: with a public VLAN that has the number of a calculated one, a port that carries the first passes for
one that carries the second, and TLC finds `PortsFollow` violated. `Apart` says there is none; `docs/switch-host-setup.md`
(408-440) numbers them apart.

### Access: accounts, tokens, sign-in

The tables `users`, `tokens`, `blacklist`; the login tokens handed out (`jwts`, signed, so equal claims are equal tokens);
requests (`req`) that read in one step and commit in another; browsers (`sso`) in the middle of a Google sign-in, one step
per REST call; the address each person has at Google. `CreateToken`/`InsertToken`, `DeleteToken`/`EraseToken`,
`Register`/`InsertUser`/`SetPassword`, `Login`, `Logout`/`Blacklist` are the handlers and their commits; `AddUser`,
`ModUser`, `RemoveUser`, `Disable` the administrator's edits; `Callback`, `FindUser`, `Link`, `CreateUser`, `InsertGoogleUser`,
`LastLogin`, `SignIn` the steps of `get_or_create_oauth_user`. The unique columns are checked by the commit, whose failure no
handler that uses `safe_commit` looks at. Passwords are compared, not hashed. No property speaks of them: of two
registrations of one account that cross, the later wins (`SetPassword`), and nothing in the repository promises otherwise.

| property | says |
|---|---|
| `GivenWorks`, `RevokedStops` | a token that was answered works until revoked, one revoked does not, but for failed commits and crossing requests |
| `TokensByOwner` | tokens are made and deleted by their account or an administrator |
| `SignsInAsSelf` | what the docs say of addresses that change at Google, violated |

### Inventory: clouds, hosts, parts

`clouds`, `hosts` and `parts` are rows; a request (`req`) is asked, read by its handler, and committed; a command (`cli`) is
a plan of calls, made one after another and stopped by the first refusal: `Import`, `Export`, `ModHost`, `ModInterface`,
`RemoveInterface`, `DefineHost`, `RmHost`, `RmCloud`, `DefineCloud`. `Replace` and `clear_field` are what an import and
`--rm-host-metadata` make of the list a command has read. A plan is a sequence of chapters: the removals of a field in any
order, since the server lists its rows without ORDER BY, then the creations in the file's. `Scan` is `lshw2meta` over one scan of
a host: memory and processors are replaced, the interfaces it has read are updated, and each disk is looked for among the rows as
they are at its turn (`Look`). Other clients send single requests meanwhile: POST, PATCH and DELETE of parts, hosts and clouds, and
assignments. A PATCH writes the columns that differ from the row as it was read (`Holds`, `Column`): name and other columns of an
interface or a disk, name and clouds of a host. Whether another host has the name is not asked. `Cascade` is what goes with
a host; foreign keys make other commits fail. Of a part the model keeps the kind, the handle or name its handler looks at, and
one value. `crossed` is the history of requests that looked before another's commit, and of hosts given the name of another;
`cli.renamed`, of the rows and hosts renamed while the command runs (`Rename`); `cli.doubt` is raised by a write of somebody
else to the command's host and by a failed commit of the command's own, which it is not told of.

| property | says |
|---|---|
| `TypeOK` | no row is left without what it refers to |
| `NoTwins` | two parts of one handle, only by crossing requests; two hosts of one name, only so or by a PATCH |
| `ImportedAsWritten` | an import that ends without error, uncrossed and with no commit of its own failed unseen, leaves each listed field as the file has it; so does a scan for memory and processors, and its disks are there with their counts |
| `TouchesOnlyMeant` | a command changes parts of its host that it has read and that were, as read, of its components; what it finds by name is of its components unless renamed since the command began |
| `KeepsMetadata` | what the docs say of importing again, violated: a listed field that had parts is left empty |

That an assignment keeps its cloud is not claimed: `--rm-cloud` asks whether it has one and deletes in a later call, and
`DELETE /clouds/<cloud>/` asks nothing (`clouds.py` 136-161).

## 3. The runs

Those of `Booking` are in `MCBooking.tla` with one `.cfg` each: three hosts, four clouds (0 is the spare pool), two or
three requests.

| run | checks | bounds |
|---|---|---|
| `booking` | `NoDoubleBooking`, `BookingInv`, `AvailabilityIsExact`, `OneActiveAssignment`, `NoWaitCycle`, `SelfHostLimit`, `CalendarSpec` | 3 requests of administrators (7 bodies) or of 2 users (6 bodies, host limit 1), clock 0..2: 1.03M states |
| `answered` | `Answered` | 2 requests, bodies of every kind |

`booking` runs `ScopedSpec`: the requests of a behaviour are all administrators' or all users', who work in a cloud and on
hosts of their own; bodies of both kinds meet in `answered`. Why the bounds suffice: every hazard listed is a race of two requests, the deadlocks need two hosts or a cloud and a
host, and the third request is there to find a terminate beside two bookings. The bodies have intervals that touch,
nest, cross and repeat the row that exists. The clock passes the end of one row and the start of others. Requests are
interchangeable, hence `SYMMETRY` in the safety runs; the liveness run has none. Requests are finite in number and the
clock stops at `MaxTime`, so a behaviour ends: `CHECK_DEADLOCK FALSE`. A wait cycle is caught by `NoWaitCycle` and
`Answered` instead.

Fairness (`FairSpec`): weak fairness of each request's next statement. A worker thread runs; PostgreSQL queues those who
wait for a row, so a request is not overtaken for ever; and as requests are finite and each takes a lock once, weak
fairness is enough for that. No fairness is assumed of crashes, failing commits, clients or the clock.

The two jobs are in `MCMover.tla` and `MCLifecycle.tla`:

| run | checks | bounds |
|---|---|---|
| `mover` | `AppliedIsTrue`, `FreshlyBuilt`, `MoverInv`, `Settles` | 2 hosts, 3 clouds, 3 schedules back to back, 2 faults, clock 0..1: 632k states |
| `lifecycle` | `ReleasedMeansProvisioned`, `Released` | 1 host, 3 clouds, 2 schedules back to back, 1 fault, clock 0..2: 429k states |
| `released` | violated: an environment released without one of its hosts | 2 hosts, 1 fault |

In `mover` both hosts leave the pool for different clouds, one of which wipes; then the first goes on to the cloud of the
second, so that a cloud is retired, joined by one host while it holds another, and left while the run is under way. Both
clouds may be terminated at any moment. Two faults are the least that can leave a coroutine behind *and* hit the next
group; `MaxFaults` bounds failed calls, devices and runs together. `lifecycle` has one host, as two jobs over two hosts
with liveness are beyond a few minutes; the cases of two hosts that need no liveness are in `released`.

Fairness of `Mover` and `Lifecycle`: weak fairness of the mover's steps and of the validator's steps. cron starts each
job again every few minutes, so an idle job does start, and a job that runs makes steps until it ends or dies. Faults
are not fair and are finitely many, and the clock stops: "once faults and clock stop" in the liveness properties.
A fault is never forced, and a behaviour may also have none.

The others each have a module `MC...` of their own:

| run | checks | bounds |
|---|---|---|
| `expiry` | `OverlapsOnlyUnchecked`, `RepeatsNeedFaults`, `WarnedUnlessCrossed`, `EndsMoveAsAsked`, `DoneAsChecked`, `Welcomed` | 2 hosts, 2 clouds, 3 schedules, 2 commands out of 13, 1 fault, notices 1 and 3 days ahead: 539k states |
| `rebuild` | `BuiltAsAsked`, `GateKept`, `FailsOnlyFor`, `Ends` | 15 machines, 5 moves, 2 runs, 2 tries in each loop, 2 faults: 663k states |
| `switch` | `OneVlan`, `Persisted`, `PortsFollow`, `VerifiedRight` | 2 NICs on 3 layouts, 2 clouds, 3 assignments, 1 fault, 1 command of an operator beside the mover: 1.0M states |
| `access` | `TypeOK`, `GivenWorks`, `RevokedStops`, `TokensByOwner` | 3 addresses, 2 passwords, 2 requests in flight, 3 in all, 1 edit by hand, 1 failed commit, 1 browser: 900k states |
| `signin` | violated: `SignsInAsSelf` | 2 requests at most, no edit by hand, no failed commit, 1 browser |
| `inventory` | `TypeOK`, `NoTwins`, `ImportedAsWritten`, `TouchesOnlyMeant` | 1 host of 3 parts, 2 host names, 2 clouds, 2 commands, 1 request of somebody else or failed commit (`MaxTroubles`): 1.37M states |
| `reimported` | violated: `KeepsMetadata` | the commands of `inventory` alone |

`expiry` runs `ScopedSpec`, which is `Next` within `Scope`: two commands at once, with a fault, without the notifier
(`Alone`); or the notifier, alone with a fault, or with any one command before it or beside it, followed by a `--shrink` when a
cloud is validated already, both without faults (`Beside`). The second cloud is validated only where there are neither commands
nor faults. The rest is left out because the properties of the commands do not mention flags, and those of the notifier excuse
clouds that a command crossed. The commands include bookings into the self-scheduled cloud, of one host, of a list, and of a list
that names a host twice. The schedules end together or at odd half minutes, the notices fall on the same day or on two, and the
clock passes the first end. `WholeMinutes`, the hypothesis of the theorems about the calendar, is an ASSUME of the run. Fairness is of the notifier alone (cron starts it every ten minutes); commands may stop
anywhere, as operators do.

In `rebuild`, the second run meets whatever the first left, and two faults can hit a request and its retry, or both runs.
The machines include each kind of BMC with each stale boot order, one turned off and armed for its disk, one whose BMC is down,
one with a job left scheduled, one armed from the network with a job that changes its mode, one with a boot order pending that no
job will apply, an HPE and a Supermicro. `ScheduledMachines` is the hypothesis of `BuiltRight`. Weak fairness of the run's next request: every call has a timeout or a bounded loop.
None of the machine's own steps is fair, so that it may never turn off, and `Ends` must still hold.

In `switch`, the two NICs have different vendors, or one nobody claims; the last NIC may go to a public VLAN. One fault may
be a failed read, a refused line after any prefix of a script, a dead process or a restarted switch. `PublicVlansApart` is the
hypothesis of the theorems about `PortsFollow` and `VerifiedRight`.

In `access`, both requests may be of any kind on any account; three in all let a request find the result of the first two
crossing. In `inventory`, nothing tells the two host names apart, hence
`SYMMETRY`; one trouble is enough to cross either command, or to leave the second what the first could not finish. Its `ScopedSpec` reads
a request as soon as it is made (`Prompt`: what is asked depends on nothing others write, so it might as well not have been
made before), and the second command is an import or a scan, those that replace what the first has left (`Again`). `CHECK_DEADLOCK FALSE` in these runs is for the bounds on requests, runs and commands.

What the three violations show is in `PROJECT.json` under `findings`, with the sentences they contradict.

## 4. The proofs

`BookingProofs` proves, for any number of requests, hosts, clouds, users and bodies, under `BookingAssumption` (the types
of the constants; the database at the start is consistent) and `Orderly` (no body is a PATCH, no batch repeats a host):

* `BookingInvariant`: `Spec => []BookingInv`,
* `TypeCorrect`, `NeverDoubleBooked`, `AvailabilityCorrect`, from it,
* `LocksOrdered`: whoever holds the row another waits for waits only for later rows,
* `NoCircularWait`: `Spec => []NoWaitCycle`, for finitely many hosts,
* `ImplementsCalendar`: `Spec => CalendarSpec`,

and under a narrower choice of bodies, where the properties are true at all,

* `OneOpenAssignment`: `OpensByBatch /\ Spec => []OneActiveAssignment`,
* `HostLimitKept`: `SelfService /\ Spec => []SelfHostLimit`.

The argument. `NoDoubleBooking` is not inductive: it is broken by a commit unless what the check found is still true.
`GrantsOK` says it is: between check and commit, no row of a wanted host overlaps the granted interval. It is kept
because a row for that host could only come from another commit, and a request that commits holds all its hosts
(`LocksOK`), which two requests cannot. A terminate that writes late could make a row longer or reverse it, were its
end not in the past and after the row's start: `CutsOK`. `RowsOK` keeps keys below the sequence, so that an insert never
replaces a row; `HandlersOK` says what a handler knows at each step; `HoldersOK`, that a lock is only held inside the
locking transaction and that only later hosts are still needed, gives `LocksOrdered`.

Without `Orderly` the theorem is false: a batch that lists a host twice books it twice.

`NoCircularWait`: let each of some requests wait for another of them. Each waits for a host, and whoever holds it waits for a
later one (`LockOrder`); so there is no last host waited for, which a finite set of hosts must have (by
well-foundedness of the strict subset relation on `Hosts`).

`OneOpenAssignment` rests on `OpeningsInv`: a batch holds its cloud from the query for an active assignment to its commit
(`CloudHeld`), and as long as it does and means to open one, there is none. `OpensByBatch` excludes the requests that look
before they lock, or not at all (POST and PATCH of an assignment), and assumes as much of the tables at the start.

`HostLimitKept` rests on `SelfInv`: past the count and with the cloud held, fewer than `HostLimit` rows of self-schedules are
current (`RoomLeft`), and no such row is still to start (`SelfRowsStarted`), so that neither the clock nor another request can
add one. `SelfService` excludes batches, which do not count, and PATCH of an assignment, which can move one to another cloud,
and asks that the self-scheduled rows at the start have started and are within the limit.

`ExpiryProofs` proves, for any commands, schedules, clients, faults and lengths of the minute, day and week that the module
assumes:

* `TypeCorrect` (`[]TypeInv`) and `NoticesOnce` (`[]RepeatsNeedFaults`) of `Spec`,
* `OverlapsUnchecked` (`[]OverlapsOnlyUnchecked`), `EndsMoved` (`EndsMoveAsAsked`), `CheckedIsDone` (`DoneAsChecked`) of
  `WholeMinutes /\ Spec`.

The argument for `NoticesOnce` is an account (`MailsOK`): a flag that is down and a notice the run may still send (`MaySend`)
have no more mails than faults behind them, a flag that is up at most one more; a mail uses up the run's right to send it, and
the only way to get it back is a fault, or a command that lowers the flag, when `mails` starts anew.

The other three rest on `KnowledgeInv`, which says what a command knows of the hosts nobody else has written to since it
listed them (`touched` has the others): the rows are as listed, or as the command itself has left them (`ListOK`); what the
checks found free still is, beside every other row of the host and beside the other extensions of the same command
(`ExtendOK`); the hosts asked about are free for the booking (`ListedOK`). `WholeMinutes` is what they are true of: commands are
typed in whole minutes; every schedule reaches the minute after the one it starts in, also those at the start, which do not
overlap; and a `--mod-schedule` that moves a start gives an end too. Without it a schedule can be left shorter than its
minute, and `--shrink`, which keeps one minute of a schedule, makes it longer (`cli.py` 1156-1161). A self-schedule starts
at any instant and ends with the deadline, a whole minute, so that it too reaches the minute after its own. Of host
lists the hypothesis asks only the whole minutes; an empty interval, a host named twice and a self-scheduled cloud are
exceptions of `DoneAsChecked` itself.

`MoverProofs` proves, for any number of hosts, clouds, schedules and faults, under `MoverAssumption` (types of the
constants; schedules of a host do not overlap, which is what `Booking` establishes):

* `MoverInvariant`: `Spec => []MoverInv`,
* `MoverTypes`, `WiringTold` (`[]AppliedIsTrue`), `BuiltFresh` (`[]FreshlyBuilt`), from it.

The argument. Neither property is inductive: `Record` says that a host is built in its new cloud, and only earlier steps
of its move made it so. `WiringInv` adds that a host between `Reset` and `Record` (`Marked`, `Rebuilding`) is not
recorded as built and that its flag, when it is up, already speaks of the cloud to come; `FreshInv`, that a host whose
cloud wipes carries `wipe` in its job, that the coroutine at the dispatcher holds the semaphore and is the one the
dispatcher was set to, and that a machine past it was reinstalled when it had to be. `GroupInv` keeps the loop's hosts apart
from those that coroutines left behind still work on, which is why the two never disturb each other. The lemmas
`FactsKept` and `CoroutineFacts` say what steps of the loop, and of the coroutines, leave alone. `FirstIn` (a set of hosts
has a first one) rests on the finiteness of `Hosts`.

`LifecycleProofs` proves `ReleasedProvisioned`: `LifecycleSpec => []ReleasedMeansProvisioned`, from `ReleaseInv`: what the
validator has listed was provisioned when it was listed, and neither job takes that back.

`RebuildProofs` proves, for any machines, moves, retries, faults and runs, under `RebuildAssumption`:

* `RebuildInvariant`: `Spec => []RebuildInv`,
* `RebuildTypes` (`[]TypeOK`) and `TenantShutOut` (`[]GateKept`), from it,
* `FailsWithGrounds`: `Spec => []FailsOnlyFor`,
* `BuiltRight`: `Scheduled => (Spec => []BuiltAsAsked)`.

The argument. `GateKept` speaks of a whole run, and the user is enabled and disabled only at its start. `GateInv` strengthens it:
a run under way has the outcome `running` and no other, so that the outcome of the run before excuses nothing. Every later action keeps `tenant`, `move` and `out` and takes nothing out of `odd` (`Kept`, one lemma per action), so that
only the six gating steps and the two that end a run need an argument of their own. `SeqKnown` (a boot sequence is read before
a one-time boot is armed) is what the types of a run rest on.

`FailsWithGrounds` rests on `CleanInv`, which claims something only while nothing has happened that excuses a failure: the
run is at no step that only a failed request leads to (`NoFailure`); a boot sequence is known exactly where a one-time boot is
staged with it (`Staging`); the machine is of the make, and the move of the kind, that the place in the code implies
(`Placed`); the machine is not about to change its power by itself where the code relies on that (`Resting`); and the job queue
is empty, or holds the run's own job, where the next request needs it so (`Queue`). No step that finds this answers False.

`BuiltRight` rests on `GoodInv`: `Tidy` (a mode or a one-time boot is pending only with the job that will apply it), kept by
every step of the run, of the machine and of a mover that dies; and `BuiltInv`, which follows the run: what was told to
Foreman (`Recorded`), the order that is set or staged (`Ordered`), the one-time boot that is armed or staged (`Arms`), and from
the restart on the machine that comes back with them (`Handed`). `Scheduled` is `Tidy` of the machines as they are found; QUADS
stages a mode or a one-time boot and its job together, and a machine found otherwise would restart into a mode nobody asked for.

`SwitchProofs` proves, for any NICs, layouts, clouds, assignments, VLANs, commands of the operator and faults, under the
module's assumption about its constants:

* `TypeCorrect` (`[]TypeOK`), `RestartsLoseNothing` (`[]Persisted`), `OneVlanEach` (`[]OneVlan`) of `Spec`,
* `ConfigureTold`: `Apart => (Spec => PortsFollow)`, `VerifyTold`: `Apart => (Spec => VerifiedRight)`.

The argument. Each part is an invariant of its own on top of the types (`TypeInv`: the variables, and that the script of a
process is one of its drivers' (`WorkInv`)). `Saved`: an EOS script ends in a save, so a port without an open session is saved as it runs.
`SingleInv`: a Junos port is a member of what it applies and of nothing else (`PortsSingle`); so is the candidate
of every port, once only the commit is left (`CandidateSingle`); and the lines a session still has to type leave whatever the port has
joined (`SessionsFit`). `PortInv`: native VLANs are public ones, the others plain, and the mode of an EOS port goes with
its VLAN, which makes a VLAN read from a port tell what the port is, by `Apart`. `Followed` says how far a process is: the NICs
behind it are right, and what it types, or the candidate it is about to commit, makes the NIC in hand right and no other
different; so at the last NIC all are, unless others were there (`crossed`, `doubt`). `Sound` is the conjunction. What lines make of a port is computed once, in
lemmas on each script.

`AccessProofs` proves, for any number of accounts, requests, tabs, faults and edits by hand, under `AccessConstants` (the
administrator's and the regular user's addresses differ; `None` is no address, password, name or Google id):

* `AccessInvariant`: `Spec => []AccessInv`,
* `AccessTypes`, `TokensGiven`, `TokensRevoked`, `TokensOwned`: the four properties of the
  `access` run, from it.

The argument. A request's commit acts on what its handler read a step earlier; `RequestOK` says what of that still holds: of
the tokens' owner, that the caller was the owner or an administrator; of a name or a password that was not there, that it is
not there, unless the request was crossed (`doubt`). `TabOK` says the same of a sign-in: past its look for the account nobody has
the address, or somebody has both address and Google id, or the account found still has the Google id. `GivenOK` and
`RevokedOK` tie what was answered to the rows. There is one lemma per kind of write (`AccountEdited`, `AccountLinked`,
`AccountAdded`, `AccountRemoved`, `TokenAdded`, `TokenErased`, and `NothingWritten`): it says which requests and tabs the
write leaves right and which it must cross; `CrossedRequest` says that crossing does no harm. Each action is then one of these
writes and one record put back into its table. Keys are below the sequence, so that no new row takes the place a
request in flight still means.

`InventoryProofs` proves, for any names, files, scans, drafts, clients, commands and faults, under `InventoryConstants` (the
types of the constants; the parts found at the start are complete and have no twins):

* `Types` (`[]TypeOK`), `TwinsCross` (`[]NoTwins`), `TouchesMeant` (`TouchesOnlyMeant`), `ImportedFaithfully` (`[]ImportedAsWritten`) of `Spec`.

The argument. `Basic` is what all four rest on: rows refer to rows (`Tables`), requests are requests (`Requests`), the command and
every call left in its plan are of their types (`CliType`), a request of the command line is under way only while the command
runs (`Turns`), and a part on its way into the table was accepted as complete (`Whole`). `HandlerKinds` splits the
handlers into those that read and those that write; `WritingFrame`, `WritingTables` and `RowsStep` say once what a write may do
to the tables.

`NoTwins` is about rows two requests made. `Checks` says of each request that has looked for a handle or a name, and is not in
`doubt`, that what it looked for is still not there; an insert puts every other request that has looked for the same in doubt
(`Overtaken`), and one that inserts in doubt is recorded in `crossed`. A PATCH changes the name of a host (`HostRenamed`), never a handle.

`TouchesOnlyMeant` speaks of a commit, two requests and a plan away from the GET that decided it. `Owned`: every call planned or
in flight is one the command may make - on its own host, on rows of its listing, and of the kinds the operator named
(`Own`). `Remembered`: a row of the listing that still exists is on the command's host, or on one renamed since (`Near`), and
has the kind it was listed with, and the name too unless it or its host was renamed (`Renamed`): ids are not used again, a PATCH
moves no part and changes no kind, and what it renames while the command runs is in `cli.renamed`. `Holding`: the row a handler holds
for the command is near and of what was meant, as it was read or by its name (`ByName`). The lemmas `ClearOwned`, `ReplaceOwned`, `PlanOwned` and `FoundOwned` show `Own` of what each command plans.

`ImportedAsWritten` speaks of the end of a plan of any number of calls. `Written` says of every step on the way what is done
and what is still to do, while the command is `Doing`: running its plan or done with it, not refused, not in doubt, not crossed.
`Sorted`: every call stands in the chapter of its list. `Replacing`, for a list: before the first creation the rows of the field
are exactly those whose removal is left (`Cleared`; interfaces are removed by name and counted so); afterwards no removal is
left and every part is stored as often as it is among the entries created so far (`Filled`): those taken up, less the one in flight (`Gone`, `Made`). `Counting`, for a
scan: each disk taken up is there with its count, or a call that makes it so is left or in flight. `Held`: the interface a
DELETE is about to remove has the name the call gives, the row a PATCH is about to write is of the command's host and as it was
read, and the host a POST is about to add a part to has the name the command was given. The chapters are counted by position, so that a step takes one entry or one call from the
front and no induction over the plan is needed. `NoTwins` makes the host's name stand for one host. `StartedReplacing` shows
the invariant of a plan just made, `ReplansWritten` of one whose list has a call taken from it, the `OwnWrite` lemmas of the command's own
writes; `Foreign` and `WrittenKept` say that a write of somebody else either puts the command in doubt or leaves the rows of its host alone.

Every safety property of a passing run is a theorem, but for these, which are only model-checked:

* `WarnedUnlessCrossed` of `Expiry`: the run has no failing command beside the notifier (a `--mod-schedule` that puts an end off
  and dies before it lowers the flags leaves that tenant unwarned), and for every choice of commands it needs an invariant over two
  visits of the notifier and the flags between them;
* `Answered`, `Settles`, `Released`, `Welcomed` and `Ends`: liveness, and the enabledness it needs, are out of the prover's reach.

What a theorem assumes beyond its module's ASSUME is a hypothesis in its statement (`Orderly`, `OpensByBatch`, `SelfService`,
`WholeMinutes`, `Scheduled`, `Apart`). No module reaches a RECURSIVE operator.

## 5. Not modelled, and the plan

* Of modelled components: DELETE of assignments, SSH-key routes; renaming of clouds, host columns other than those named, the VLAN table; `--mod-cloud`, the flags of `--mod-host`, `--dry-run` and `--skip`
  options; the permission tables behind roles. Each is one read and one write of one row, or a view.
* Plugin dispatchers and discovery: a look-up of a class and a call, no state across calls.
* Reports, web pages other than the sign-in, templates: they read and print.
* Jira, chat, mail, PDU and the rest of Badfish: I/O without rules of their own; where an answer matters (a mail before a
  flag, a ticket between a check and an insert) it is a step or a fault of the module that calls them.
* Conversions of file formats (how `lshw2meta` reads a scan, the YAML of exports beyond what is left out of it).

  `PATCH /hosts/<host>` drops the answer of its commit (`hosts.py` 182); that the mover's clearing of a flag is lost without a
  word is not modelled, `BatchFails` and `FlagFails` are failures it is told of.

Next, by value: a proof of `WarnedUnlessCrossed`; a lost commit behind the mover's PATCHes;
the types of the validator's run in `Lifecycle` (by splitting the lemmas of `MoverProofs` into what depends on the columns and
what does not); an abstract lifecycle of a host (booked, moving, built, released) that `Lifecycle` implements; `--mod-cloud` and
PATCH of assignments in `Lifecycle`.
