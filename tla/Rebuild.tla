------------------------------- MODULE Rebuild -------------------------------
(***************************************************************************)
(* One machine moved to a new cloud: the release plugin gates the tenant's *)
(* IPMI user, sets the boot order, powers the machine on, has Foreman make *)
(* ready to build it, arms a one-time network boot, sets the boot mode and *)
(* reboots.  Each step is one request to the management controller (BMC) or *)
(* to Foreman; any of them may be lost, refused, or carried out without an *)
(* answer, and the machine does what it was told in its own time.  Mover   *)
(* has the same function as single steps, among many hosts; a run that     *)
(* fails is started again by a later run of the mover.                     *)
(***************************************************************************)
EXTENDS Naturals, FiniteSets

CONSTANTS
  Machines,     \* the machine as the move finds it
  Moves,        \* the moves asked for
  Retries,      \* Badfish's retries
  IpmiRetries,  \* ipmi_credential_retries
  MaxFaults,    \* bound: requests that go wrong, and movers that die
  MaxRuns,      \* bound: how often the move is tried
  None

Default == "foreman"   \* default_boot_order: the network Foreman builds from
Orders == {Default, "director", "other"}
Modes == {"Bios", "Uefi"}
Sources == {"none", "disk", Default, "director", "pxe"}
OneTime == [seq : Modes, device : {Default, "disk"}]

(***************************************************************************)
(* The machine: its make; whether its BMC has the DellJobService and takes *)
(* settings while a job is scheduled; the BMC answers; power, a ForceOff   *)
(* not yet carried out, a start not yet completed; the BIOS settings, those *)
(* pending and the job that applies them at the next start; the persistent *)
(* IPMI boot device, virtual media and a remote image, and what it last    *)
(* started from.                                                           *)
(***************************************************************************)
Pending == [order : Orders \union {None}, mode : Modes \union {None},
            once : OneTime \union {None}]
NoPending == [order |-> None, mode |-> None, once |-> None]
Machine == [brand : {"Dell", "HPE", "Supermicro"}, jobService : BOOLEAN, stacks : BOOLEAN,
            bmc : BOOLEAN, on : BOOLEAN, falling : BOOLEAN, starting : BOOLEAN,
            order : Orders, mode : Modes, once : OneTime \union {None},
            pending : Pending, job : BOOLEAN, pxe : BOOLEAN, media : BOOLEAN, image : BOOLEAN,
            from : Sources]
Move == [rebuild : BOOLEAN, home : BOOLEAN, order : Orders, bootmode : Modes \union {None}]

ASSUME RebuildAssumption ==
  /\ Machines \subseteq Machine /\ Moves \subseteq Move
  /\ Retries \in Nat \ {0} /\ IpmiRetries \in Nat \ {0}
  /\ MaxFaults \in Nat /\ MaxRuns \in Nat
  /\ None \notin Modes \union Orders \union OneTime

VARIABLES
  dev,      \* the machine
  foreman,  \* Foreman's record of it: marked for build, OS, owned by the cloud
  tenant,   \* the tenant's IPMI user is enabled
  move,     \* the move
  s,        \* the run of move_and_rebuild
  faults,
  runs,
  out,      \* how the last run ended
  odd       \* history: what went unusually in the last run

vars == <<dev, foreman, tenant, move, s, faults, runs, out, odd>>

Labels == {"idle", "enable", "set", "verify", "regate", "gate", "prep", "init", "type", "clear", "delete",
           "list", "order",
           "job", "reboot", "off", "poll", "on", "sleep", "power", "mark", "params", "owner",
           "media", "image", "pxe", "pxeoff", "pxeon", "once", "device", "seq", "arm", "reset", "back",
           "mode", "setmode", "home", "record", "fail"}

(***************************************************************************)
(* A run: where it is, whether in change_boot or in reboot_for_rebuild, the *)
(* tries of the loop it is in, the polls within, the boot sequence to arm, *)
(* the BMC was reset for this patch, Foreman took everything so far.       *)
(***************************************************************************)
Run == [pc : Labels, stage : {"prep", "boot"}, tries : Nat, polls : Nat,
        seq : Modes \union {None}, reset : BOOLEAN, ok : BOOLEAN]
Idle == [pc |-> "idle", stage |-> "prep", tries |-> 1, polls |-> 1, seq |-> None,
         reset |-> FALSE, ok |-> TRUE]
Oddities == {"fault", "down", "slow", "early", "stale", "crossed", "matched", "committed", "open"}

Init ==
  /\ dev \in Machines /\ move \in Moves /\ tenant \in BOOLEAN
  /\ foreman = [build |-> FALSE, os |-> FALSE, owner |-> FALSE]
  /\ s = Idle /\ faults = 0 /\ runs = 0 /\ out = "none" /\ odd = {}

At(label) == s.pc = label
Goto(label) == s' = [s EXCEPT !.pc = label]
GotoLoop(label) == s' = [s EXCEPT !.pc = label, !.tries = 1, !.polls = 1]
Quiet == UNCHANGED <<faults, odd>>

----------------------------------------------------------------------------
(* Requests.                                                               *)

(***************************************************************************)
(* What becomes of a request: done and answered; done, the answer lost;    *)
(* never sent; answered 503; answered 400.  A BMC that is down answers     *)
(* nothing, at no cost.                                                    *)
(***************************************************************************)
Fates == {"done", "lost", "unsent", "busy", "bad"}
Took(o) == o \in {"done", "lost"}
Silent(o) == o \in {"lost", "unsent"}

Sent(o, answers, what) ==
  \/ o = "done" /\ answers /\ odd' = odd \union what /\ UNCHANGED faults
  \/ o = "unsent" /\ ~answers /\ odd' = odd \union what \union {"down"} /\ UNCHANGED faults
  \/ /\ o \in Fates \ {"done"} /\ answers
     /\ faults < MaxFaults /\ faults' = faults + 1 /\ odd' = odd \union what \union {"fault"}

Asked(o, what) == Sent(o, dev.bmc, what)

(* The machine's answer to a reset request: On to a machine that is on, and *)
(* ForceOff to one that is off, are refused with 409.                      *)
ForcedOff(d) == IF d.on THEN [d EXCEPT !.falling = TRUE] ELSE d
TurnedOn(d) == IF d.on THEN d ELSE [d EXCEPT !.on = TRUE, !.starting = TRUE]

(* Settings are staged for the next start; with SettingsApplyTime they come *)
(* with the job that applies them.                                         *)
Refuses(d) == d.job /\ ~d.stacks
Staged(d, p) == [d EXCEPT !.pending = p, !.job = TRUE]

(* What is made of an answer: an ipmitool that exits with 0; Badfish's      *)
(* resources; the power state, which is Down without an answer; a BIOS     *)
(* attribute, which is None; a reset, of which 409 and 400 are no errors.  *)
Executed(o) == o = "done"
Initialized(o) == o = "done"
DevicesRead(o) == o = "done"
PowerState(o) == IF o # "done" THEN "Down" ELSE IF dev.on THEN "On" ELSE "Off"
Attribute(o, value) == IF o = "done" THEN value ELSE None
ResetRaises(o) == Silent(o) \/ o = "busy"

Fail == GotoLoop("fail")
Settled == ~dev.falling /\ ~dev.starting
Slow == IF Settled THEN {} ELSE {"slow"}
Rest == UNCHANGED <<foreman, tenant, move, runs, out>>

----------------------------------------------------------------------------
(* The tenant's IPMI user.                                                 *)

Begin ==
  /\ At("idle") /\ out # "built" /\ runs < MaxRuns
  /\ runs' = runs + 1 /\ out' = "running" /\ odd' = {}
  /\ s' = [Idle EXCEPT !.pc = "enable"]
  /\ UNCHANGED <<dev, foreman, tenant, move, faults>>

(* Variant: a user that was enabled but not verified is not disabled again. *)
AttemptOpen ==
  IF s.tries < IpmiRetries THEN s' = [s EXCEPT !.pc = "enable", !.tries = s.tries + 1]
  ELSE Goto("fail")

(* Variant: the attempts are not counted.                                  *)
AttemptForever == Goto("enable")

Attempt ==
  IF s.tries < IpmiRetries THEN s' = [s EXCEPT !.pc = "enable", !.tries = s.tries + 1]
  ELSE Goto(IF move.rebuild THEN "regate" ELSE "fail")

(* What the verified machine is in for: only a wiped machine that does not *)
(* return to its default cloud is prepared and rebuilt.                    *)
Prepared ==
  CASE move.rebuild /\ ~move.home -> IF dev.brand = "Supermicro" THEN "mark" ELSE "prep"
    [] move.home -> "home"
    [] OTHER -> "record"

EnableUser ==
  /\ At("enable")
  /\ \E o \in Fates :
       /\ Asked(o, {})
       /\ tenant' = (tenant \/ Took(o))
       /\ IF Executed(o) THEN Goto("set") ELSE Attempt
  /\ UNCHANGED <<dev, foreman, move, runs, out>>

ConfigureUser ==
  /\ At("set")
  /\ \E o \in Fates : Asked(o, {}) /\ IF Executed(o) THEN Goto("verify") ELSE Attempt
  /\ UNCHANGED <<dev, foreman, tenant, move, runs, out>>

(* The tenant's user asks for the power status: only an enabled one may.   *)
Verify ==
  /\ At("verify")
  /\ \E o \in Fates :
       /\ Asked(o, {})
       /\ IF Executed(o) /\ tenant
          THEN GotoLoop(IF move.rebuild THEN "gate" ELSE Prepared)
          ELSE Attempt
  /\ UNCHANGED <<dev, foreman, tenant, move, runs, out>>

(* A disable that is not confirmed is only logged.                         *)
Disable(then) ==
  /\ \E o \in Fates :
       /\ Asked(o, IF Executed(o) THEN {} ELSE {"open"})
       /\ tenant' = (tenant /\ ~Took(o))
  /\ GotoLoop(then)
  /\ UNCHANGED <<dev, foreman, move, runs, out>>

ReGate == At("regate") /\ Disable("fail")
Gate == At("gate") /\ Disable(Prepared)

----------------------------------------------------------------------------
(* The boot order, when the assignment asks for another than the default.  *)

Prepare ==
  /\ At("prep")
  /\ GotoLoop(IF move.order = Default THEN "power" ELSE "init")
  /\ Quiet /\ UNCHANGED dev /\ Rest

(* The vendor is only known once Badfish is initialized.                   *)
InitHardware ==
  /\ At("init")
  /\ \E o \in Fates :
       /\ Asked(o, {})
       /\ IF ~Initialized(o) THEN Fail
          ELSE GotoLoop(IF dev.brand = "Dell" THEN "type" ELSE "power")
  /\ UNCHANGED dev /\ Rest

TypeMatches == dev.order = move.order

(* change_boot: an order that already matches ends it with False, which the *)
(* release plugin takes for a failure.                                     *)
HostType ==
  /\ At("type")
  /\ \E o \in Fates :
       /\ Asked(o, Slow \union IF TypeMatches THEN {"matched"} ELSE {})
       /\ IF ~DevicesRead(o) \/ TypeMatches THEN Fail
          ELSE s' = [s EXCEPT !.pc = "clear", !.stage = "prep"]
  /\ UNCHANGED dev /\ Rest

Cleared(d) == [d EXCEPT !.job = FALSE, !.pending = IF d.job THEN NoPending ELSE @]

(***************************************************************************)
(* clear_job_queue, called by change_boot, by boot_to, and by patch_bios   *)
(* after a 400.  The ids are picked out of whatever text is answered, so   *)
(* that an error reads as an empty queue.  A BMC without DellJobService is *)
(* sent a forced delete; when it answers 400 or nothing the jobs are       *)
(* deleted one by one, any other refusal passes for success.               *)
(***************************************************************************)
AfterClear ==
  CASE s.stage = "prep" -> "order"
    [] s.stage = "boot" /\ s.seq = None -> "seq"
    [] OTHER -> IF s.reset THEN "arm" ELSE "reset"

(* Variant: the job queue is left alone.                                   *)
ListJobsOnly ==
  /\ At("clear")
  /\ \E o \in Fates : Asked(o, {}) /\ IF Silent(o) THEN Fail ELSE Goto(AfterClear)
  /\ UNCHANGED dev /\ Rest

ListJobs ==
  /\ At("clear")
  /\ \E o \in Fates :
       /\ Asked(o, {})
       /\ CASE o = "done" -> Goto(IF dev.job THEN "delete" ELSE AfterClear)
            [] o = "busy" -> Goto(AfterClear) \/ Fail
            [] o = "bad" -> Goto(AfterClear)
            [] Silent(o) -> Fail
  /\ UNCHANGED dev /\ Rest

DeleteJobs ==
  /\ At("delete")
  /\ \E o \in Fates :
       /\ Asked(o, {})
       /\ dev' = IF Took(o) THEN Cleared(dev) ELSE dev
       /\ CASE o = "done" -> Goto(AfterClear)
            [] o # "done" /\ dev.jobService -> Fail
            [] o = "busy" /\ ~dev.jobService -> Goto(AfterClear)
            [] OTHER -> Goto("list")
  /\ Rest

(* A job that is gone already is answered 404.                             *)
DeleteEach ==
  /\ At("list")
  /\ \E o \in Fates :
       /\ Asked(o, {})
       /\ dev' = IF Took(o) THEN Cleared(dev) ELSE dev
       /\ IF o = "done" /\ dev.job THEN Goto(AfterClear) ELSE Fail
  /\ Rest

Reordered(d) == [d EXCEPT !.pending.order = move.order]

(***************************************************************************)
(* patch_boot_seq: tried until it is answered with success; the answer of  *)
(* the last try decides, and none at all is not an error.                  *)
(***************************************************************************)
PatchBootSeq ==
  /\ At("order")
  /\ \E o \in Fates :
       LET refused == o \in {"busy", "bad"} \/ (o = "done" /\ Refuses(dev))
           again == s.tries < Retries
       IN /\ Asked(o, {})
          /\ dev' = IF Took(o) /\ ~Refuses(dev)
                    THEN Reordered(dev) ELSE dev
          /\ CASE o = "done" /\ ~refused -> GotoLoop("job")
               [] (refused \/ Silent(o)) /\ again -> s' = [s EXCEPT !.tries = s.tries + 1]
               [] refused /\ ~again -> Fail
               [] OTHER -> GotoLoop("job")
  /\ Rest

(* Variant: a job that is there already is an error.                       *)
CreateJobOnce ==
  /\ At("job")
  /\ \E o \in Fates :
       /\ Asked(o, {})
       /\ dev' = [dev EXCEPT !.job = @ \/ (Took(o) /\ dev.pending # NoPending)]
       /\ IF o = "done" /\ dev'.job /\ ~dev.job
          THEN GotoLoop(IF s.stage = "prep" THEN "reboot" ELSE "mode")
          ELSE Fail
  /\ Rest

(* The job for what is pending; one that is there already is as good, and  *)
(* with nothing pending it is refused.                                     *)
CreateJob ==
  /\ At("job")
  /\ \E o \in Fates :
       /\ Asked(o, {})
       /\ dev' = [dev EXCEPT !.job = @ \/ (Took(o) /\ dev.pending # NoPending)]
       /\ IF o = "done" /\ dev'.job
          THEN GotoLoop(IF s.stage = "prep" THEN "reboot" ELSE "mode")
          ELSE Fail
  /\ Rest

----------------------------------------------------------------------------
(* reboot_server.  change_boot does not look at its result, but an exception *)
(* ends both.                                                              *)

NotRebooted == IF s.stage = "prep" THEN GotoLoop("sleep") ELSE Fail
Rebooted == GotoLoop(IF s.stage = "prep" THEN "sleep" ELSE "record")

(* No answer, or one that is not a 200, is the power state Down.           *)
Reboot ==
  /\ At("reboot")
  /\ \E o \in Fates :
       /\ Asked(o, {})
       /\ CASE PowerState(o) = "Down" -> NotRebooted
            [] PowerState(o) = "On" -> GotoLoop("off")
            [] PowerState(o) = "Off" -> GotoLoop("on")
  /\ UNCHANGED dev /\ Rest

ForceOff ==
  /\ At("off")
  /\ \E o \in Fates :
       /\ Asked(o, {})
       /\ dev' = IF Took(o) THEN ForcedOff(dev) ELSE dev
       /\ IF ResetRaises(o) THEN Fail ELSE GotoLoop("poll")
  /\ Rest

(* It waits for the BMC to answer, not for the machine to be off.          *)
PollNotDown ==
  /\ At("poll")
  /\ \E o \in Fates :
       /\ Asked(o, {})
       /\ CASE PowerState(o) # "Down" -> GotoLoop("on")
            [] PowerState(o) = "Down" /\ s.polls < Retries -> s' = [s EXCEPT !.polls = @ + 1]
            [] OTHER -> NotRebooted
  /\ UNCHANGED dev /\ Rest

(* A machine that is still on refuses with 409, which is not an error.     *)
PowerBackOn ==
  /\ At("on")
  /\ \E o \in Fates :
       /\ Asked(o, IF dev.falling THEN {"early"} ELSE {})
       /\ dev' = IF Took(o) THEN TurnedOn(dev) ELSE dev
       /\ IF ResetRaises(o) THEN Fail ELSE Rebooted
  /\ Rest

(* Ten minutes for the job, whether it is done by then or not.             *)
Wake ==
  /\ At("sleep")
  /\ odd' = odd \union Slow
  /\ GotoLoop("power")
  /\ UNCHANGED <<dev, faults>> /\ Rest

(* power_on_host: Badfish is initialized if it is not yet.                 *)
PowerOn ==
  /\ At("power")
  /\ \E o \in Fates :
       /\ Asked(o, IF dev.falling THEN {"early"} ELSE {})
       /\ dev' = IF Took(o) THEN TurnedOn(dev) ELSE dev
       /\ IF ResetRaises(o) THEN Fail ELSE GotoLoop("mark")
  /\ Rest

----------------------------------------------------------------------------
(* Foreman.  A lookup that fails reads as nothing found: without an OS the *)
(* host is not prepared, without a host nothing is written, and without a  *)
(* user the host is written to be nobody's, which succeeds.                *)

Foreman(what, next) ==
  /\ \E o \in Fates :
       /\ Sent(o, TRUE, {})
       /\ foreman' = IF Took(o) THEN [foreman EXCEPT ![what] = TRUE] ELSE foreman
       /\ s' = [s EXCEPT !.pc = next, !.ok = @ /\ o = "done"]
  /\ UNCHANGED <<dev, tenant, move, runs, out>>

Missing == \E o \in Fates \ {"done"} : Sent(o, TRUE, {})

MarkForBuild ==
  /\ At("mark")
  /\ \/ Foreman("build", "params")
     \/ Missing /\ Fail /\ UNCHANGED dev /\ Rest

PutParameters == At("params") /\ Foreman("os", "owner")

AfterForeman ==
  IF ~s.ok THEN "fail" ELSE IF dev.brand = "Supermicro" THEN "pxe" ELSE "media"

PutOwner ==
  /\ At("owner")
  /\ \/ \E o \in Fates :
          /\ Sent(o, TRUE, {})
          /\ foreman' = [foreman EXCEPT !.owner = @ \/ Took(o)]
          /\ GotoLoop(IF o = "done" THEN AfterForeman ELSE "fail")
     \/ /\ Missing
        /\ foreman' = [foreman EXCEPT !.owner = FALSE]
        /\ GotoLoop(AfterForeman)
  /\ UNCHANGED <<dev, tenant, move, runs, out>>

----------------------------------------------------------------------------
(* The boot into the installer.                                            *)

(* cleanup_virtual_media: both calls may fail without consequence.         *)
UnmountMedia ==
  /\ At("media")
  /\ \E o \in Fates : Asked(o, {}) /\ dev' = [dev EXCEPT !.media = @ /\ ~Took(o)]
  /\ Goto("image") /\ Rest

DetachImage ==
  /\ At("image")
  /\ \E o \in Fates : Asked(o, {}) /\ dev' = [dev EXCEPT !.image = @ /\ ~Took(o)]
  /\ GotoLoop(IF dev.brand = "Dell" THEN "once" ELSE "pxe")
  /\ Rest

(* pxe_persistent: three commands, of which each may fail.                 *)
PxePersistent ==
  /\ At("pxe")
  /\ \E o \in Fates :
       /\ Asked(o, {})
       /\ dev' = [dev EXCEPT !.pxe = @ \/ Took(o)]
       /\ IF Executed(o) THEN Goto("pxeoff") ELSE Fail
  /\ Rest

ResetOff ==
  /\ At("pxeoff")
  /\ \E o \in Fates :
       /\ Asked(o, {})
       /\ dev' = IF Took(o) THEN ForcedOff(dev) ELSE dev
       /\ IF Executed(o) THEN Goto("pxeon") ELSE Fail
  /\ Rest

(* After ipmi_reset_sleep, whether the machine is off by then or not.      *)
ResetOn ==
  /\ At("pxeon")
  /\ \E o \in Fates :
       /\ Asked(o, IF dev.falling THEN {"early"} ELSE {})
       /\ dev' = IF Took(o) THEN TurnedOn(dev) ELSE dev
       /\ IF Executed(o) THEN Goto("record") ELSE Fail
  /\ Rest

(***************************************************************************)
(* _is_one_time_boot_set: any device will do, and the job queue is not     *)
(* looked at.  An attribute that cannot be read is None, and an unread boot *)
(* mode counts as Bios.                                                    *)
(***************************************************************************)
OneTimeSet(mode) == dev.once # None /\ dev.once.seq = mode

IsOneTimeBootSet ==
  /\ At("once")
  /\ \E o \in Fates, mode \in {dev.mode, "Bios"}, read \in BOOLEAN :
       LET skip == read /\ OneTimeSet(mode)
       IN /\ o = "done" => mode = dev.mode /\ read
          /\ Asked(o, Slow \union IF skip /\ (dev.once.device # Default \/ dev.job) THEN {"stale"} ELSE {})
          /\ s' = [s EXCEPT !.pc = IF skip THEN "mode" ELSE "device", !.stage = "boot", !.tries = 1]
  /\ UNCHANGED dev /\ Rest

CheckDevice ==
  /\ At("device")
  /\ \E o \in Fates : Asked(o, {}) /\ IF DevicesRead(o) THEN Goto("clear") ELSE Fail
  /\ UNCHANGED dev /\ Rest

(* get_boot_seq: an answer without attributes counts as Bios.              *)
GetBootSeq ==
  /\ At("seq")
  /\ \E o \in Fates :
       /\ Asked(o, {})
       /\ IF Silent(o) THEN Fail
          ELSE s' = [s EXCEPT !.pc = "arm", !.seq = IF o = "done" THEN dev.mode ELSE "Bios"]
  /\ UNCHANGED dev /\ Rest

(***************************************************************************)
(* patch_bios: 503 is tried again; after a 400, when it insists, the jobs  *)
(* are cleared and, once, the BMC is reset.  The last refusal, and any     *)
(* request without an answer, is an exception.                             *)
(***************************************************************************)
PatchBios(settings, insist, next) ==
  \E o \in Fates :
    LET bad == o = "bad" \/ (o = "done" /\ Refuses(dev))
        again == s.tries < Retries
    IN /\ Asked(o, IF s.pc = "setmode" /\ ~bad THEN {"crossed"}
                   ELSE IF ~insist /\ Refuses(dev) THEN {"committed"} ELSE {})
       /\ dev' = IF Took(o) /\ ~Refuses(dev) THEN Staged(dev, settings) ELSE dev
       /\ CASE o = "done" /\ ~bad -> Goto(next)
            [] o = "busy" /\ again -> s' = [s EXCEPT !.tries = @ + 1]
            [] bad /\ insist /\ again -> s' = [s EXCEPT !.pc = "clear", !.tries = @ + 1]
            [] OTHER -> Fail

OneTimeBoot == [seq |-> s.seq, device |-> Default]

SendOneTimeBoot ==
  /\ At("arm")
  /\ PatchBios([dev.pending EXCEPT !.once = OneTimeBoot], TRUE, "job")
  /\ Rest

ResetIdrac ==
  /\ At("reset")
  /\ \E o \in Fates :
       /\ Asked(o, {})
       /\ dev' = [dev EXCEPT !.bmc = @ /\ ~Took(o)]
       /\ IF o = "done" THEN s' = [s EXCEPT !.pc = "back", !.reset = TRUE, !.polls = 1] ELSE Fail
  /\ Rest

(* What it has waited for is not asked.                                    *)
PollOn ==
  /\ At("back")
  /\ \E o \in Fates :
       /\ Asked(o, {})
       /\ IF PowerState(o) = "On" \/ s.polls = Retries THEN Goto("arm")
          ELSE s' = [s EXCEPT !.polls = @ + 1]
  /\ UNCHANGED dev /\ Rest

ApplyBootmode ==
  /\ At("mode")
  /\ IF move.bootmode = None THEN GotoLoop("reboot") /\ Quiet
     ELSE \E o \in Fates :
            /\ Asked(o, {})
            /\ CASE Attribute(o, dev.mode) = None -> Fail
                 [] Attribute(o, dev.mode) = move.bootmode -> GotoLoop("reboot")
                 [] OTHER -> GotoLoop("setmode")
  /\ UNCHANGED dev /\ Rest

SetBootmode ==
  /\ At("setmode")
  /\ PatchBios([dev.pending EXCEPT !.mode = move.bootmode], FALSE, "reboot")
  /\ Rest

----------------------------------------------------------------------------
(* The end of a run.                                                       *)

(***************************************************************************)
(* Back in its default cloud the machine is turned off.  Badfish takes a   *)
(* power state that is not answered for "off already"; the semaphore and   *)
(* the initialization come first.                                          *)
(***************************************************************************)
PowerOff ==
  /\ At("home")
  /\ \E o \in Fates :
       /\ Asked(o, {})
       /\ dev' = IF Took(o) THEN ForcedOff(dev) ELSE dev
       /\ CASE o = "done" \/ (o = "bad" /\ dev.brand # "Supermicro") -> GotoLoop("record")
            [] o = "unsent" /\ dev.brand # "Supermicro" -> GotoLoop("record") \/ Fail
            [] OTHER -> Fail
  /\ Rest

Record ==
  /\ At("record")
  /\ s' = Idle /\ out' = "built"
  /\ Quiet /\ UNCHANGED <<dev, foreman, tenant, move, runs>>

UpdateOnFailure ==
  /\ At("fail")
  /\ s' = Idle /\ out' = "failed"
  /\ Quiet /\ UNCHANGED <<dev, foreman, tenant, move, runs>>

(* The mover dies, or its run is cancelled.                                *)
Dies ==
  /\ ~At("idle") /\ faults < MaxFaults
  /\ faults' = faults + 1
  /\ s' = Idle /\ out' = "died"
  /\ UNCHANGED <<dev, foreman, tenant, move, runs, odd>>

----------------------------------------------------------------------------
(* The machine.                                                            *)

Falls ==
  /\ dev.falling
  /\ dev' = [dev EXCEPT !.falling = FALSE, !.on = FALSE, !.starting = FALSE]
  /\ UNCHANGED <<foreman, tenant, move, s, faults, runs, out, odd>>

Given(new, old) == IF new = None THEN old ELSE new

(* A one-time boot is for one boot sequence, and is used up.               *)
Starts ==
  /\ dev.starting
  /\ LET new == IF dev.job THEN dev.pending ELSE NoPending
         mode == Given(new.mode, dev.mode)
         order == Given(new.order, dev.order)
         once == Given(new.once, dev.once)
         armed == once # None /\ once.seq = mode
     IN dev' = [dev EXCEPT
          !.starting = FALSE, !.job = FALSE, !.mode = mode, !.order = order,
          !.once = IF armed THEN None ELSE once,
          !.pending = IF dev.job THEN NoPending ELSE @,
          !.from = CASE dev.pxe -> "pxe"
                     [] ~dev.pxe /\ armed -> once.device
                     [] OTHER -> IF order = "other" THEN "disk" ELSE order]
  /\ UNCHANGED <<foreman, tenant, move, s, faults, runs, out, odd>>

BmcReturns ==
  /\ ~dev.bmc /\ dev' = [dev EXCEPT !.bmc = TRUE]
  /\ UNCHANGED <<foreman, tenant, move, s, faults, runs, out, odd>>

Step ==
  \/ Begin \/ EnableUser \/ ConfigureUser \/ Verify \/ ReGate \/ Gate
  \/ Prepare \/ InitHardware \/ HostType \/ ListJobs \/ DeleteJobs \/ DeleteEach \/ PatchBootSeq \/ CreateJob
  \/ Reboot \/ ForceOff \/ PollNotDown \/ PowerBackOn \/ Wake \/ PowerOn
  \/ MarkForBuild \/ PutParameters \/ PutOwner
  \/ UnmountMedia \/ DetachImage \/ PxePersistent \/ ResetOff \/ ResetOn
  \/ IsOneTimeBootSet \/ CheckDevice \/ GetBootSeq \/ SendOneTimeBoot \/ ResetIdrac \/ PollOn
  \/ ApplyBootmode \/ SetBootmode \/ PowerOff \/ Record \/ UpdateOnFailure

Next == Step \/ Dies \/ Falls \/ Starts \/ BmcReturns

(* The coroutine goes on; the machine and its BMC may stay as they are.    *)
Fairness == WF_vars(Step)

Spec == Init /\ [][Next]_vars /\ Fairness

----------------------------------------------------------------------------
(* Properties.                                                             *)

TypeOK ==
  /\ dev \in Machine /\ move \in Moves /\ tenant \in BOOLEAN /\ s \in Run
  /\ foreman \in [build : BOOLEAN, os : BOOLEAN, owner : BOOLEAN]
  /\ faults \in 0 .. MaxFaults /\ runs \in 0 .. MaxRuns
  /\ out \in {"none", "running", "built", "failed", "died"} /\ odd \subseteq Oddities

Wiped == move.rebuild /\ ~move.home

(* A machine is found without a boot mode or a one-time boot pending that  *)
(* no job is scheduled for: they are staged together with their job.       *)
Scheduled == \A d \in Machines : ~d.job => d.pending.mode = None /\ d.pending.once = None

(***************************************************************************)
(* A machine handed over as rebuilt is one: it runs, it started from the   *)
(* network and not from what the last tenant left, with the boot order and *)
(* the boot mode asked for, without media, and Foreman was made ready for  *)
(* it; unless a request of this run failed, the machine was slower than    *)
(* the code's sleeps, or a one-time boot that was armed already was taken  *)
(* as it was ("stale"): for another device, or with a job that changes it. *)
(* When the boot mode was set after the one-time boot, only what it starts *)
(* from is open ("crossed").  What earlier runs left undone on the machine, *)
(* in Foreman or in the job queue must not show (move_and_rebuild).        *)
(***************************************************************************)
BuiltAsAsked ==
  (out = "built" /\ odd \subseteq {"crossed"} /\ Wiped /\ Settled) =>
    /\ dev.on /\ ("crossed" \notin odd => dev.from \in {Default, "pxe"})
    /\ foreman.build /\ foreman.os /\ foreman.owner
    /\ dev.brand = "Dell" =>
         /\ dev.order = move.order \/ move.order = Default
         /\ move.bootmode # None => dev.mode = move.bootmode
    /\ dev.brand # "Supermicro" => ~dev.media /\ ~dev.image

(***************************************************************************)
(* While a machine is wiped, and after a run that failed or completed, its *)
(* last tenant cannot log in to its BMC, unless the command that shuts him *)
(* out went unconfirmed in this run (_configure_and_verify_ipmi,           *)
(* move_and_rebuild).  A mover that dies between enable and disable leaves *)
(* the user enabled.                                                       *)
(***************************************************************************)
Shut == s.pc \in Labels \ {"idle", "enable", "set", "verify", "regate", "gate"}
GateKept ==
  (move.rebuild /\ "open" \notin odd /\ (Shut \/ out \in {"built", "failed"})) => ~tenant

(***************************************************************************)
(* A run without a failed request, on a machine that keeps up with the     *)
(* code's sleeps, fails for one of two reasons only: the boot order was    *)
(* right already, or the boot mode was to be set while the job of the      *)
(* one-time boot was scheduled.  In particular what a failed or killed run *)
(* left behind never makes a later one fail otherwise (clear_job_queue,    *)
(* patch_bios, create_job).                                                *)
(***************************************************************************)
FailsOnlyFor ==
  out = "failed" => odd \intersect {"fault", "down", "matched", "committed", "slow", "early"} # {}

(* Every run comes to an end, with a BMC that never answers again and a    *)
(* machine that never turns off, too: the loops of Badfish and IPMI are    *)
(* bounded (polling_host_state, _configure_and_verify_ipmi).               *)
Ends == ~At("idle") ~> At("idle")
=============================================================================
