------------------------------- MODULE Mover -------------------------------
(***************************************************************************)
(* quads --move-hosts: the cron job that brings every host to the cloud    *)
(* its current schedule names, or home to its default cloud.  One run at a *)
(* time (flock); a run is a sequence of REST calls, switch sessions and    *)
(* rebuilds, each an action here, between which time passes, assignments   *)
(* are terminated, devices fail and the run itself may die.                *)
(***************************************************************************)
EXTENDS Naturals, FiniteSets

CONSTANTS
  Hosts,       \* host names, as numbers: moves are listed by name
  Clouds,
  Spare,       \* cloud01, the spare pool
  Home,        \* the default cloud of each host
  Wiped,       \* the clouds whose assignment has `wipe`
  Supermicro,  \* the hosts that raw ipmitool prepares, without dispatcher
  Schedules,   \* the schedules, with the cloud of their assignment
  Ended,       \* the clouds whose assignment may be terminated early
  MaxTime,     \* bound: the clock stops here
  MaxFaults,   \* bound: so many calls, devices and runs fail
  Split,       \* the wiring of a host whose ports are half configured
  None

Schedule == [host : Hosts, cloud : Clouds, start : Nat, end : Nat]

ASSUME MoverAssumption ==
  /\ Hosts \subseteq Nat /\ IsFiniteSet(Hosts)
  /\ Spare \in Clouds /\ Home \in [Hosts -> Clouds] /\ Wiped \subseteq Clouds
  /\ Supermicro \subseteq Hosts /\ Ended \subseteq Clouds
  /\ Schedules \subseteq Schedule /\ MaxTime \in Nat /\ MaxFaults \in Nat
  /\ \A s, t \in Schedules : s # t /\ s.host = t.host => s.end <= t.start \/ t.end <= s.start
  /\ Split \notin Clouds /\ None \notin Hosts \union Clouds /\ None \notin Schedules

VARIABLES
  now,          \* the clock
  active,       \* the assignment of each cloud: its columns
  provisioned,
  validated,
  cloud,        \* the columns of each host
  build,
  applied,      \* switch_config_applied
  tested,       \* Host.validated
  wiring,       \* the cloud whose VLANs the switch ports of a host carry
  fresh,        \* the machine was reinstalled since its last move began
  status,       \* move_status of each schedule
  faults,       \* how much failed so far
  m             \* the run: see Run

columns == <<cloud, build, applied, tested>>
assignments == <<active, provisioned, validated>>
machines == <<wiring, fresh>>
world == <<now, assignments, columns, machines, status>>
vars == <<world, m, faults>>

(***************************************************************************)
(* A run: where it is; the hosts it still has to group by cloud, and the   *)
(* group in hand; what is left to do and the item `at` hand in the present *)
(* loop; the hosts to rebuild (move_args); per host what get_moves said of *)
(* it and the stage of its move_and_rebuild; the semaphore around the      *)
(* hardware dispatcher, and the machine that dispatcher talks to.          *)
(***************************************************************************)
Job == [current : Clouds, new : Clouds, wipe : BOOLEAN, id : Schedules \union {None}]
Stages == {"none", "ipmi", "hardware", "machine", "record", "done", "failed", "raised"}
Labels == {"idle", "survey", "sweep", "mark", "group", "reset", "unvalidate", "batch", "switch",
           "configure", "flag", "retire", "deactivate", "gather", "provision", "announce"}
Run == [pc : Labels, left : SUBSET Hosts, group : SUBSET Hosts,
        todo : SUBSET (Hosts \union Clouds), at : Hosts \union Clouds \union {None},
        args : SUBSET Hosts, job : [Hosts -> Job \union {None}], stage : [Hosts -> Stages],
        semaphore : Hosts \union {None}, target : Hosts \union {None}]
Idle == [pc |-> "idle", left |-> {}, group |-> {}, todo |-> {}, at |-> None, args |-> {},
         job |-> [h \in Hosts |-> None], stage |-> [h \in Hosts |-> "none"],
         semaphore |-> None, target |-> None]
(* "underway" stands for the statuses between pending and completed.        *)
Statuses == {"pending", "underway", "completed", "failed"}

Init ==
  /\ now = 0
  /\ active = [c \in Clouds |-> c # Spare]
  /\ provisioned = [c \in Clouds |-> FALSE]
  /\ validated = [c \in Clouds |-> FALSE]
  /\ cloud = Home
  /\ build = [h \in Hosts |-> FALSE]
  /\ applied = [h \in Hosts |-> FALSE]
  /\ tested = [h \in Hosts |-> FALSE]
  /\ wiring = Home
  /\ fresh = [h \in Hosts |-> FALSE]
  /\ status = [s \in Schedules |-> "pending"]
  /\ m = Idle
  /\ faults = 0

----------------------------------------------------------------------------
(* What the queries return.                                                *)

IsCurrent(s) == s.start <= now /\ now < s.end /\ active[s.cloud]
Current(c) == {s \in Schedules : s.cloud = c /\ IsCurrent(s)}
CurrentOf(h) == {s \in Schedules : s.host = h /\ IsCurrent(s)}

WantedCloud(h) ==
  IF CurrentOf(h) = {} THEN Home[h] ELSE (CHOOSE s \in CurrentOf(h) : TRUE).cloud

First(S) == CHOOSE h \in S : \A g \in S : h <= g
At(label) == m.pc = label
Done(label, x) == m' = [m EXCEPT !.pc = label, !.todo = @ \ {x}, !.at = None]
Report(h, s) ==
  status' = [t \in Schedules |-> IF t = m.job[h].id THEN s ELSE status[t]]

----------------------------------------------------------------------------
(* Mutant: a move that failed is not tried again.                          *)
GetFreshMoves ==
  /\ At("idle")
  /\ LET moving == {h \in Hosts : /\ WantedCloud(h) # cloud[h]
                                  /\ \A s \in CurrentOf(h) : status[s] # "failed"}
     IN  m' = [Idle EXCEPT
           !.pc = IF moving = {} THEN "survey" ELSE "group",
           !.left = moving,
           !.job = [h \in Hosts |->
                      IF h \in moving THEN [current |-> cloud[h], new |-> WantedCloud(h),
                                            wipe |-> FALSE, id |-> None]
                      ELSE None]]
  /\ UNCHANGED world

(* The moves to make, or a look at what earlier runs left unfinished.      *)

GetMoves ==
  /\ At("idle")
  /\ LET moving == {h \in Hosts : WantedCloud(h) # cloud[h]}
     IN  m' = [Idle EXCEPT
           !.pc = IF moving = {} THEN "survey" ELSE "group",
           !.left = moving,
           !.job = [h \in Hosts |->
                      IF h \in moving THEN [current |-> cloud[h], new |-> WantedCloud(h),
                                            wipe |-> FALSE, id |-> None]
                      ELSE None]]
  /\ UNCHANGED world

Survey ==
  /\ At("survey")
  /\ m' = [m EXCEPT !.pc = "sweep",
             !.todo = {c \in Clouds \ {Spare} : active[c] /\ ~provisioned[c]}]
  /\ UNCHANGED world

SweepLook ==
  /\ At("sweep")
  /\ \E c \in m.todo :
       IF Current(c) # {} /\ \A s \in Current(c) : build[s.host]
       THEN m' = [m EXCEPT !.pc = "mark", !.at = c]
       ELSE Done("sweep", c)
  /\ UNCHANGED world

(* Mutant: the validator is left to mark the assignment as provisioned.    *)
MarkValidated(c) ==
  /\ validated' = [validated EXCEPT ![c] = c \notin Wiped]
  /\ UNCHANGED <<now, active, provisioned, columns, machines, status>>

MarkProvisioned(c) ==
  /\ provisioned' = [provisioned EXCEPT ![c] = TRUE]
  /\ validated' = [validated EXCEPT ![c] = c \notin Wiped]
  /\ UNCHANGED <<now, active, columns, machines, status>>

SweepMark ==
  /\ At("mark")
  /\ MarkProvisioned(m.at)
  /\ Done("sweep", m.at)

(* The next cloud to fill, or the end of the run.                          *)
NextCloud ==
  LET group == {h \in m.left : m.job[h].new = m.job[First(m.left)].new}
  IN  /\ At("group")
      /\ m' = IF m.left = {} THEN Idle
              ELSE [m EXCEPT !.pc = "reset", !.left = @ \ group, !.group = group,
                             !.todo = group, !.args = {}]
      /\ UNCHANGED world

EndSweep ==
  /\ At("sweep") /\ m.todo = {}
  /\ m' = Idle
  /\ UNCHANGED world

----------------------------------------------------------------------------
(* The hosts of a group are marked as moving, and the environment they are *)
(* to join as not validated.                                               *)

(* Mutant: the flag of an earlier move survives.                           *)
ResetKeepingFlag ==
  LET h == First(m.todo)  c == m.job[h].new
  IN  /\ At("reset")
      /\ build' = [build EXCEPT ![h] = FALSE]
      /\ fresh' = [fresh EXCEPT ![h] = FALSE]
      /\ m' = [m EXCEPT !.pc = "unvalidate", !.at = h, !.job[h].wipe = active[c] /\ c \in Wiped]
      /\ UNCHANGED <<now, assignments, cloud, applied, tested, wiring, status>>

Reset ==
  LET h == First(m.todo)  c == m.job[h].new
  IN  /\ At("reset")
      /\ build' = [build EXCEPT ![h] = FALSE]
      /\ applied' = [applied EXCEPT ![h] = FALSE]
      /\ fresh' = [fresh EXCEPT ![h] = FALSE]
      /\ m' = [m EXCEPT !.pc = "unvalidate", !.at = h, !.job[h].wipe = active[c] /\ c \in Wiped]
      /\ UNCHANGED <<now, assignments, cloud, tested, wiring, status>>

Unvalidate ==
  LET h == m.at  c == m.job[h].new
  IN  /\ At("unvalidate")
      /\ validated' = IF c # Spare /\ m.job[h].wipe /\ Current(c) # {}
                      THEN [validated EXCEPT ![c] = FALSE] ELSE validated
      /\ m' = [m EXCEPT !.pc = IF m.todo = {h} THEN "batch" ELSE "reset",
                        !.todo = @ \ {h}, !.at = None, !.args = @ \union {h}]
      /\ UNCHANGED <<now, active, provisioned, columns, machines, status>>

(* start_move_batch: a host that goes home has no schedule to report on.   *)
Batch ==
  LET reported == {h \in m.group : CurrentOf(h) # {}}
      schedule(h) == CHOOSE s \in CurrentOf(h) : TRUE
  IN  /\ At("batch")
      /\ status' = [s \in Schedules |->
                      IF s \in {schedule(h) : h \in reported} THEN "pending" ELSE status[s]]
      /\ m' = [m EXCEPT !.pc = "switch", !.todo = m.group,
                 !.job = [h \in Hosts |-> IF h \in reported
                                          THEN [@[h] EXCEPT !.id = schedule(h)] ELSE @[h]]]
      /\ UNCHANGED <<now, assignments, columns, machines>>

(* Without an answer the run goes on and reports nothing.                  *)
BatchFails ==
  /\ At("batch")
  /\ m' = [m EXCEPT !.pc = "switch", !.todo = m.group]
  /\ UNCHANGED world

----------------------------------------------------------------------------
(* The switch ports, one host after another.                               *)

SwitchLook ==
  /\ At("switch") /\ m.todo # {}
  /\ LET h == First(m.todo)
     IN  /\ Report(h, "underway")
         /\ IF applied[h] THEN Done("switch", h)
            ELSE m' = [m EXCEPT !.pc = "configure", !.at = h]
  /\ UNCHANGED <<now, assignments, columns, machines>>

(* A host the server does not answer for stays among those to rebuild.     *)
SwitchLookFails ==
  /\ At("switch") /\ m.todo # {}
  /\ Report(First(m.todo), "underway")
  /\ Done("switch", First(m.todo))
  /\ UNCHANGED <<now, assignments, columns, machines>>

Configure ==
  /\ At("configure")
  /\ wiring' = [wiring EXCEPT ![m.at] = m.job[m.at].new]
  /\ m' = [m EXCEPT !.pc = "flag"]
  /\ UNCHANGED <<now, assignments, columns, fresh, status>>

(* Some, all or none of the ports were reached; the host is not rebuilt.   *)
ConfigureFails ==
  LET h == m.at
  IN  /\ At("configure")
      /\ \E w \in {wiring[h], Split, m.job[h].new} : wiring' = [wiring EXCEPT ![h] = w]
      /\ Report(h, "failed")
      /\ m' = [m EXCEPT !.pc = "switch", !.todo = @ \ {h}, !.at = None, !.args = @ \ {h}]
      /\ UNCHANGED <<now, assignments, columns, fresh>>

Flag ==
  /\ At("flag")
  /\ applied' = [applied EXCEPT ![m.at] = TRUE]
  /\ Done("switch", m.at)
  /\ UNCHANGED <<now, assignments, cloud, build, tested, machines, status>>

FlagFails == At("flag") /\ Done("switch", m.at) /\ UNCHANGED world

EndSwitch ==
  /\ At("switch") /\ m.todo = {}
  /\ m' = [m EXCEPT !.pc = "retire", !.todo = {m.job[h].current : h \in m.group}]
  /\ UNCHANGED world

(* A cloud that the group leaves, and that has no current schedule, loses  *)
(* its assignment.                                                         *)
RetireLook ==
  /\ At("retire")
  /\ \E c \in m.todo :
       IF c # Spare /\ Current(c) = {}
       THEN m' = [m EXCEPT !.pc = "deactivate", !.at = c]
       ELSE Done("retire", c)
  /\ UNCHANGED world

Deactivate ==
  /\ At("deactivate")
  /\ active' = [active EXCEPT ![m.at] = FALSE]
  /\ Done("retire", m.at)
  /\ UNCHANGED <<now, provisioned, validated, columns, machines, status>>

StartGather ==
  /\ At("retire") /\ m.todo = {}
  /\ m' = [m EXCEPT !.pc = "gather",
             !.stage = [h \in Hosts |-> IF h \in m.args THEN "ipmi" ELSE @[h]]]
  /\ UNCHANGED world

----------------------------------------------------------------------------
(* move_and_rebuild, one coroutine per host.  They run while the loop      *)
(* does: those an exception left behind go on beside the next group's.     *)

Running == m.pc \in {"configure", "gather"}
In(h, stage) == Running /\ m.stage[h] = stage
Goes(h, stage) == m' = [m EXCEPT !.stage[h] = stage]
Reinstalls(h) == m.job[h].wipe /\ m.job[h].new # Home[h]

Left(h) == IF m.semaphore = h THEN None ELSE m.semaphore

(* _update_host_on_failure.                                                *)
Fail(h) ==
  /\ build' = [build EXCEPT ![h] = FALSE]
  /\ tested' = [tested EXCEPT ![h] = FALSE]
  /\ applied' = [applied EXCEPT ![h] = FALSE]
  /\ Report(h, "failed")
  /\ m' = [m EXCEPT !.stage[h] = "failed", !.semaphore = Left(h)]
  /\ UNCHANGED <<now, assignments, cloud, wiring, fresh>>

(* The tenant's user is enabled, given its password, and tried.            *)
Ipmi(h) ==
  /\ In(h, "ipmi")
  /\ Report(h, "underway")
  /\ Goes(h, IF m.job[h].wipe \/ m.job[h].new = Home[h] THEN "hardware" ELSE "record")
  /\ UNCHANGED <<now, assignments, columns, wiring, fresh>>

IpmiFails(h) == In(h, "ipmi") /\ Fail(h)

(* Mutant: no semaphore around the dispatcher.                             *)
HardwareEnter(h) ==
  /\ In(h, "hardware") /\ h \notin Supermicro
  /\ m' = [m EXCEPT !.stage[h] = "machine", !.target = h]
  /\ UNCHANGED world

HardwareBegin(h) ==
  /\ In(h, "hardware") /\ h \notin Supermicro
  /\ m.semaphore = None
  /\ m' = [m EXCEPT !.stage[h] = "machine", !.semaphore = h, !.target = h]
  /\ UNCHANGED world

(* A machine is prepared and rebooted to be installed, or powered off when *)
(* its host goes home.                                                     *)
Prepare(h, machine) ==
  /\ IF Reinstalls(h)
     THEN fresh' = [fresh EXCEPT ![machine] = TRUE] /\ Report(h, "underway")
     ELSE UNCHANGED <<fresh, status>>
  /\ m' = [m EXCEPT !.stage[h] = "record", !.semaphore = Left(h)]
  /\ UNCHANGED <<now, assignments, columns, wiring>>

(* The dispatcher works on the machine it was last set to.                 *)
HardwareEnd(h) == In(h, "machine") /\ Prepare(h, m.target)
HardwareDirect(h) == In(h, "hardware") /\ h \in Supermicro /\ Prepare(h, h)

HardwareFails(h) ==
  /\ In(h, "machine") \/ (In(h, "hardware") /\ h \in Supermicro)
  /\ Fail(h)

(* The host joins its new cloud.                                           *)
Record(h) ==
  /\ In(h, "record")
  /\ cloud' = [cloud EXCEPT ![h] = m.job[h].new]
  /\ build' = [build EXCEPT ![h] = TRUE]
  /\ tested' = [tested EXCEPT ![h] = FALSE]
  /\ Report(h, "underway")
  /\ Goes(h, "done")
  /\ UNCHANGED <<now, assignments, applied, machines>>

(* A REST call or a device raises out of the coroutine.                    *)
Raise(h) ==
  /\ Running /\ m.stage[h] \in {"ipmi", "hardware", "machine", "record"}
  /\ m' = [m EXCEPT !.stage[h] = "raised", !.semaphore = Left(h)]
  /\ UNCHANGED world

(* The gather ends with the first exception, or with the last coroutine.   *)
Joined ==
  /\ At("gather")
  /\ \/ \E h \in m.args : m.stage[h] = "raised"
     \/ \A h \in m.args : m.stage[h] \in {"done", "failed"}
  /\ m' = [m EXCEPT !.pc = IF \A h \in m.args : m.stage[h] = "done" THEN "provision"
                           ELSE "group"]
  /\ UNCHANGED world

Target == m.job[First(m.group)].new

Provision ==
  /\ At("provision")
  /\ IF active[Target]
     THEN MarkProvisioned(Target) /\ Done("announce", None)
     ELSE Done("group", None) /\ UNCHANGED world

(* Every host of the group is reported on, moved or not.                   *)
Announce ==
  /\ At("announce")
  /\ status' = [s \in Schedules |->
                  IF s \in {m.job[h].id : h \in m.group}
                  THEN IF Target \in Wiped THEN "underway" ELSE "completed"
                  ELSE status[s]]
  /\ Done("group", None)
  /\ UNCHANGED <<now, assignments, columns, machines>>

----------------------------------------------------------------------------
(* What else happens.                                                      *)

Crash ==
  /\ m.pc # "idle"
  /\ m' = Idle
  /\ UNCHANGED world

Terminate(c) ==
  /\ c \in Ended /\ active[c]
  /\ active' = [active EXCEPT ![c] = FALSE]
  /\ UNCHANGED <<now, provisioned, validated, columns, machines, status, m>>

Tick ==
  /\ now < MaxTime
  /\ now' = now + 1
  /\ UNCHANGED <<assignments, columns, machines, status, m>>

Rebuild(h) == Ipmi(h) \/ HardwareBegin(h) \/ HardwareEnd(h) \/ HardwareDirect(h) \/ Record(h)
Moving ==
  \/ GetMoves \/ Survey \/ SweepLook \/ SweepMark \/ EndSweep \/ NextCloud
  \/ Reset \/ Unvalidate \/ Batch \/ SwitchLook \/ Configure \/ Flag \/ EndSwitch
  \/ RetireLook \/ Deactivate \/ StartGather \/ Joined \/ Provision \/ Announce
  \/ \E h \in Hosts : Rebuild(h)
Fault ==
  \/ BatchFails \/ SwitchLookFails \/ ConfigureFails \/ FlagFails \/ Crash
  \/ \E h \in Hosts : IpmiFails(h) \/ HardwareFails(h) \/ Raise(h)

Next ==
  \/ (Moving \/ (\E c \in Clouds : Terminate(c)) \/ Tick) /\ UNCHANGED faults
  \/ faults < MaxFaults /\ Fault /\ faults' = faults + 1

Spec == Init /\ [][Next]_vars

(* cron starts run after run, and a run that lives goes on.                *)
FairSpec == Spec /\ WF_vars(Moving /\ UNCHANGED faults)

----------------------------------------------------------------------------
(* Type invariant of the records of the server and the machines, of the    *)
(* run, and of the item each label has at hand: the mover deactivates      *)
(* or sweeps any cloud but the spare pool.                                 *)
WorldOK ==
  /\ now \in 0 .. MaxTime /\ faults \in 0 .. MaxFaults
  /\ active \in [Clouds -> BOOLEAN] /\ provisioned \in [Clouds -> BOOLEAN]
  /\ validated \in [Clouds -> BOOLEAN]
  /\ cloud \in [Hosts -> Clouds]
  /\ build \in [Hosts -> BOOLEAN] /\ applied \in [Hosts -> BOOLEAN]
  /\ tested \in [Hosts -> BOOLEAN] /\ fresh \in [Hosts -> BOOLEAN]
  /\ wiring \in [Hosts -> Clouds \union {Split}]
  /\ status \in [Schedules -> Statuses]
RunOK ==
  /\ m \in Run
  /\ m.pc \in {"unvalidate", "configure", "flag"} => m.at \in m.group
  /\ m.pc \in {"mark", "deactivate"} => m.at \in Clouds \ {Spare}
TypeOK == WorldOK /\ RunOK

(* A host that is recorded as built, with its switch configuration         *)
(* applied, has its ports in the VLANs of the cloud it is recorded in,     *)
(* whatever failed or was cut short in its moves before.                   *)
AppliedIsTrue == \A h \in Hosts : build[h] /\ applied[h] => wiring[h] = cloud[h]

(* A host recorded as built in a cloud that wipes was reinstalled for that *)
(* move: no tenant gets the disks of the last one, though concurrent moves *)
(* share one hardware dispatcher.                                          *)
FreshlyBuilt ==
  \A h \in Hosts :
    build[h] /\ cloud[h] \in Wiped /\ cloud[h] # Home[h] /\ active[cloud[h]] => fresh[h]

(* Why: what is known of a host while a run handles it.  The group in hand *)
(* starts to rebuild at the gather; its marked hosts lost their flags.     *)
Before == {"reset", "unvalidate", "batch", "switch", "configure", "flag", "retire", "deactivate"}
Marked ==
  {h \in m.group : /\ m.pc \in Before
                   /\ m.pc \in {"reset", "unvalidate"} /\ h \in m.todo =>
                        m.pc = "unvalidate" /\ h = m.at}
Rebuilding == {h \in Hosts : m.stage[h] \in {"ipmi", "hardware", "machine", "record"}}

(* No host is handled twice, and no loop runs over a host outside.         *)
GroupInv ==
  /\ m.args \subseteq m.group /\ m.left \intersect m.group = {}
  /\ \A h \in m.left \union m.group : m.job[h] \in Job
  /\ \A h \in Hosts : m.stage[h] # "none" => m.job[h] \in Job
  /\ m.pc \in {"idle", "survey", "sweep", "mark"} => \A h \in Hosts : m.stage[h] = "none"
  /\ \A h \in m.left : m.stage[h] = "none"
  /\ m.pc \in Before => \A h \in m.group : m.stage[h] = "none"
  /\ m.pc \in Before \union {"gather", "provision", "announce"} => m.group # {}
  /\ m.pc \in {"reset", "unvalidate", "switch", "configure", "flag"} => m.todo \subseteq m.group
  /\ m.pc = "reset" => m.todo # {}
  /\ m.pc = "unvalidate" => m.at \in m.todo
  /\ m.pc \in {"sweep", "mark"} => m.todo \subseteq Clouds \ {Spare}
  /\ m.pc \in {"retire", "deactivate"} => m.todo \subseteq Clouds

(* A moving host is not recorded as built, and its flag already speaks of  *)
(* the cloud to come.                                                      *)
WiringInv ==
  /\ AppliedIsTrue
  /\ \A h \in Marked \union Rebuilding :
       ~build[h] /\ (applied[h] => wiring[h] = m.job[h].new)
  /\ m.pc = "configure" => ~applied[m.at]
  /\ m.pc = "flag" => wiring[m.at] = m.job[m.at].new

(* The dispatcher works for the one machine whose coroutine holds the      *)
(* semaphore, so a machine that comes back from it was installed.          *)
FreshInv ==
  /\ FreshlyBuilt
  /\ \A h \in Marked \union Rebuilding :
       m.job[h].new \in Wiped /\ active[m.job[h].new] => m.job[h].wipe
  /\ \A h \in Hosts : m.stage[h] = "machine" => m.semaphore = h /\ m.target = h
  /\ \A h \in Hosts : m.stage[h] = "record" /\ Reinstalls(h) => fresh[h]

(* The inductive invariant.                                                *)
MoverInv == TypeOK /\ GroupInv /\ WiringInv /\ FreshInv

(* Once the devices work every host reaches the cloud its schedule names,  *)
(* or home, and stays: no failure leaves a move that no run takes up.      *)
Settles == <>[](\A h \in Hosts : cloud[h] = WantedCloud(h))
=============================================================================
