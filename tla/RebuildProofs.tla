---------------------------- MODULE RebuildProofs ----------------------------
(***************************************************************************)
(* Proofs about Rebuild: type correctness, GateKept, FailsOnlyFor and      *)
(* BuiltAsAsked, for any machines, moves, numbers of retries, faults and   *)
(* runs.                                                                   *)
(***************************************************************************)
EXTENDS Rebuild, TLAPS

(* A boot sequence is read before a one-time boot is armed for it.         *)
Arming == {"arm", "reset", "back"}
SeqKnown == s.pc \in Arming => s.seq # None

Charged == faults' \in 0 .. MaxFaults /\ odd' \subseteq Oddities /\ odd \subseteq odd'
Moved == s' \in Run /\ SeqKnown'

(* What every step of a run from "prep" on keeps.                          *)
Kept ==
  /\ TypeOK' /\ SeqKnown'
  /\ UNCHANGED <<tenant, move, out>> /\ odd \subseteq odd'

----------------------------------------------------------------------------
(* What a request costs, whatever becomes of it.                           *)
LEMMA SentCharged ==
  ASSUME TypeOK, NEW o, NEW answers, NEW what \in SUBSET Oddities, Sent(o, answers, what)
  PROVE  Charged
<1>1. faults' \in 0 .. MaxFaults
  BY RebuildAssumption DEF TypeOK, Sent
<1>2. odd' \subseteq Oddities /\ odd \subseteq odd'
  <2>1. odd \subseteq Oddities /\ {"down"} \subseteq Oddities /\ {"fault"} \subseteq Oddities
    BY DEF TypeOK, Oddities
  <2> QED
    BY <2>1 DEF Sent
<1> QED
  BY <1>1, <1>2 DEF Charged

(* A run stays well typed wherever it goes, as long as it arms nothing.    *)
LEMMA GoesOn ==
  ASSUME TypeOK, NEW label \in Labels \ Arming, Goto(label) \/ GotoLoop(label)
  PROVE  Moved
<1>1. s \in Run /\ label \in Labels /\ label \notin Arming
  BY DEF TypeOK
<1>2. s' \in Run /\ s'.pc = label
  <2>1. CASE Goto(label)
    BY <1>1, <2>1 DEF Goto, Run
  <2>2. CASE GotoLoop(label)
    BY <1>1, <2>2 DEF GotoLoop, Run
  <2> QED
    BY <2>1, <2>2
<1> QED
  BY <1>1, <1>2 DEF Moved, SeqKnown

LEMMA TriesAgain ==
  ASSUME TypeOK, NEW label \in Labels, NEW n \in Nat,
         s' = [s EXCEPT !.pc = label, !.tries = n]
  PROVE  s' \in Run /\ s'.pc = label
BY DEF TypeOK, Run

LEMMA NextTry ==
  ASSUME TypeOK
  PROVE  s.tries + 1 \in Nat
BY DEF TypeOK, Run

LEMMA IdleRun == Idle \in Run
BY DEF Idle, Run, Labels

LEMMA Fails ==
  ASSUME TypeOK, Fail
  PROVE  Moved
BY GoesOn DEF Fail, Labels, Arming

(* A boot is armed after the job queue was cleared for it once.            *)
LEMMA ClearedQueue ==
  ASSUME TypeOK, SeqKnown, Goto(AfterClear)
  PROVE  Moved
BY DEF TypeOK, Moved, SeqKnown, Arming, Goto, AfterClear, Run, Labels

(* What the machine does with requests.                                    *)
LEMMA MachineKept ==
  ASSUME NEW d \in Machine
  PROVE  /\ ForcedOff(d) \in Machine /\ TurnedOn(d) \in Machine /\ Cleared(d) \in Machine
         /\ \A p \in Pending : Staged(d, p) \in Machine
<1>1. NoPending \in Pending
  BY DEF NoPending, Pending
<1>2. ForcedOff(d) \in Machine
  <2>1. [d EXCEPT !.falling = TRUE] \in Machine
    BY DEF Machine
  <2> QED
    BY <2>1 DEF ForcedOff
<1>3. TurnedOn(d) \in Machine
  <2>1. [d EXCEPT !.on = TRUE, !.starting = TRUE] \in Machine
    BY DEF Machine
  <2> QED
    BY <2>1 DEF TurnedOn
<1>4. Cleared(d) \in Machine
  <2> DEFINE p == IF d.job THEN NoPending ELSE d.pending
  <2>1. p \in Pending
    BY <1>1 DEF Machine
  <2>2. Cleared(d) = [[d EXCEPT !.job = FALSE] EXCEPT !.pending = p]
    BY DEF Machine, Cleared
  <2> HIDE DEF p
  <2>3. [d EXCEPT !.job = FALSE] \in Machine
    BY DEF Machine
  <2> QED
    BY <2>1, <2>2, <2>3 DEF Machine
<1>5. ASSUME NEW p \in Pending PROVE Staged(d, p) \in Machine
  BY DEF Machine, Staged
<1> QED
  BY <1>2, <1>3, <1>4, <1>5

LEMMA ColumnKept ==
  ASSUME NEW d \in Machine, NEW b \in BOOLEAN
  PROVE  /\ [d EXCEPT !.media = b] \in Machine /\ [d EXCEPT !.image = b] \in Machine
         /\ [d EXCEPT !.pxe = b] \in Machine /\ [d EXCEPT !.job = b] \in Machine
         /\ [d EXCEPT !.bmc = b] \in Machine
BY DEF Machine

LEMMA StepKept ==
  ASSUME TypeOK, Rest, Charged, Moved, dev' \in Machine
  PROVE  Kept
BY DEF TypeOK, Rest, Charged, Moved, Kept

LEMMA PowerStates ==
  ASSUME NEW o
  PROVE  PowerState(o) \in {"Down", "On", "Off"}
BY DEF PowerState

LEMMA SlowIsOdd == Slow \subseteq Oddities
BY DEF Slow, Oddities

----------------------------------------------------------------------------
(* One lemma per action.                                                   *)

LEMMA InitHardwareKeeps ==
  ASSUME TypeOK, SeqKnown, InitHardware
  PROVE  Kept
<1>1. PICK o \in Fates :
       /\ Asked(o, {})
       /\ IF ~Initialized(o) THEN Fail
          ELSE GotoLoop(IF dev.brand = "Dell" THEN "type" ELSE "power")
  BY DEF InitHardware
<1>2. Charged
  BY <1>1, SentCharged DEF Asked, Oddities
<1>3. Moved
  BY <1>1, GoesOn, Fails DEF InitHardware, Labels, Arming
<1>4. dev' \in Machine
  BY <1>1, MachineKept DEF TypeOK, InitHardware
<1> QED
  BY <1>2, <1>3, <1>4, StepKept DEF InitHardware

LEMMA HostTypeKeeps ==
  ASSUME TypeOK, SeqKnown, HostType
  PROVE  Kept
<1>1. PICK o \in Fates :
       /\ Asked(o, Slow \union IF TypeMatches THEN {"matched"} ELSE {})
       /\ IF ~DevicesRead(o) \/ TypeMatches THEN Fail
          ELSE s' = [s EXCEPT !.pc = "clear", !.stage = "prep"]
  BY DEF HostType
<1>2. Charged
  BY <1>1, SentCharged, SlowIsOdd DEF Asked, Oddities
<1>3. Moved
  <2>1. ASSUME s' = [s EXCEPT !.pc = "clear", !.stage = "prep"] PROVE Moved
    BY <2>1 DEF TypeOK, Moved, SeqKnown, Arming, Run, Labels
  <2> QED
    BY <1>1, <2>1, Fails
<1>4. dev' \in Machine
  BY <1>1, MachineKept DEF TypeOK, Machine, HostType
<1> QED
  BY <1>2, <1>3, <1>4, StepKept DEF HostType

LEMMA ListJobsKeeps ==
  ASSUME TypeOK, SeqKnown, ListJobs
  PROVE  Kept
<1>1. PICK o \in Fates :
       /\ Asked(o, {})
       /\ CASE o = "done" -> Goto(IF dev.job THEN "delete" ELSE AfterClear)
            [] o = "busy" -> Goto(AfterClear) \/ Fail
            [] o = "bad" -> Goto(AfterClear)
            [] Silent(o) -> Fail
  BY DEF ListJobs
<1>2. Charged
  BY <1>1, SentCharged DEF Asked, Oddities
<1>3. Moved
  <2>1. CASE dev.job /\ Goto("delete")
    BY <2>1, GoesOn DEF Labels, Arming
  <2> QED
    BY <1>1, <2>1, Fails, ClearedQueue DEF Fates, Silent
<1>4. dev' \in Machine
  BY <1>1, MachineKept DEF TypeOK, ListJobs
<1> QED
  BY <1>2, <1>3, <1>4, StepKept DEF ListJobs

LEMMA DeleteJobsKeeps ==
  ASSUME TypeOK, SeqKnown, DeleteJobs
  PROVE  Kept
<1>1. PICK o \in Fates :
       /\ Asked(o, {})
       /\ dev' = IF Took(o) THEN Cleared(dev) ELSE dev
       /\ CASE o = "done" -> Goto(AfterClear)
            [] o # "done" /\ dev.jobService -> Fail
            [] o = "busy" /\ ~dev.jobService -> Goto(AfterClear)
            [] OTHER -> Goto("list")
  BY DEF DeleteJobs
<1>2. Charged
  BY <1>1, SentCharged DEF Asked, Oddities
<1>3. Moved
  BY <1>1, GoesOn, Fails, ClearedQueue DEF DeleteJobs, Labels, Arming
<1>4. dev' \in Machine
  BY <1>1, MachineKept DEF TypeOK
<1> QED
  BY <1>2, <1>3, <1>4, StepKept DEF DeleteJobs

LEMMA DeleteEachKeeps ==
  ASSUME TypeOK, SeqKnown, DeleteEach
  PROVE  Kept
<1>1. PICK o \in Fates :
       /\ Asked(o, {})
       /\ dev' = IF Took(o) THEN Cleared(dev) ELSE dev
       /\ IF o = "done" /\ dev.job THEN Goto(AfterClear) ELSE Fail
  BY DEF DeleteEach
<1>2. Charged
  BY <1>1, SentCharged DEF Asked, Oddities
<1>3. Moved
  BY <1>1, GoesOn, Fails, ClearedQueue DEF DeleteEach, Labels, Arming
<1>4. dev' \in Machine
  BY <1>1, MachineKept DEF TypeOK
<1> QED
  BY <1>2, <1>3, <1>4, StepKept DEF DeleteEach

LEMMA CreateJobKeeps ==
  ASSUME TypeOK, SeqKnown, CreateJob
  PROVE  Kept
<1>1. PICK o \in Fates :
       /\ Asked(o, {})
       /\ dev' = [dev EXCEPT !.job = @ \/ (Took(o) /\ dev.pending # NoPending)]
       /\ IF o = "done" /\ dev'.job
          THEN GotoLoop(IF s.stage = "prep" THEN "reboot" ELSE "mode")
          ELSE Fail
  BY DEF CreateJob
<1>2. Charged
  BY <1>1, SentCharged DEF Asked, Oddities
<1>3. Moved
  BY <1>1, GoesOn, Fails DEF CreateJob, Labels, Arming
<1>4. dev' \in Machine
  <2>1. dev \in Machine /\ (dev.job \/ (Took(o) /\ dev.pending # NoPending)) \in BOOLEAN
    BY DEF TypeOK
  <2> QED
    BY <1>1, <2>1, ColumnKept
<1> QED
  BY <1>2, <1>3, <1>4, StepKept DEF CreateJob

LEMMA RebootKeeps ==
  ASSUME TypeOK, SeqKnown, Reboot
  PROVE  Kept
<1>1. PICK o \in Fates :
       /\ Asked(o, {})
       /\ CASE PowerState(o) = "Down" -> NotRebooted
            [] PowerState(o) = "On" -> GotoLoop("off")
            [] PowerState(o) = "Off" -> GotoLoop("on")
  BY DEF Reboot
<1>2. Charged
  BY <1>1, SentCharged DEF Asked, Oddities
<1>3. Moved
  BY <1>1, GoesOn, Fails, PowerStates DEF Labels, Arming, NotRebooted
<1>4. dev' \in Machine
  BY <1>1, MachineKept DEF TypeOK, Reboot
<1> QED
  BY <1>2, <1>3, <1>4, StepKept DEF Reboot

LEMMA ForceOffKeeps ==
  ASSUME TypeOK, SeqKnown, ForceOff
  PROVE  Kept
<1>1. PICK o \in Fates :
       /\ Asked(o, {})
       /\ dev' = IF Took(o) THEN ForcedOff(dev) ELSE dev
       /\ IF ResetRaises(o) THEN Fail ELSE GotoLoop("poll")
  BY DEF ForceOff
<1>2. Charged
  BY <1>1, SentCharged DEF Asked, Oddities
<1>3. Moved
  BY <1>1, GoesOn, Fails DEF ForceOff, Labels, Arming
<1>4. dev' \in Machine
  BY <1>1, MachineKept DEF TypeOK
<1> QED
  BY <1>2, <1>3, <1>4, StepKept DEF ForceOff

LEMMA PollNotDownKeeps ==
  ASSUME TypeOK, SeqKnown, PollNotDown
  PROVE  Kept
<1>1. PICK o \in Fates :
       /\ Asked(o, {})
       /\ CASE PowerState(o) # "Down" -> GotoLoop("on")
            [] PowerState(o) = "Down" /\ s.polls < Retries -> s' = [s EXCEPT !.polls = @ + 1]
            [] OTHER -> NotRebooted
  BY DEF PollNotDown
<1>2. Charged
  BY <1>1, SentCharged DEF Asked, Oddities
<1>3. Moved
  <2>1. ASSUME s' = [s EXCEPT !.polls = @ + 1] PROVE Moved
    BY <2>1 DEF TypeOK, SeqKnown, Moved, Run
  <2> QED
    BY <1>1, <2>1, GoesOn, Fails DEF Labels, Arming, NotRebooted
<1>4. dev' \in Machine
  BY <1>1, MachineKept DEF TypeOK, Machine, PollNotDown
<1> QED
  BY <1>2, <1>3, <1>4, StepKept DEF PollNotDown

LEMMA PowerBackOnKeeps ==
  ASSUME TypeOK, SeqKnown, PowerBackOn
  PROVE  Kept
<1>1. PICK o \in Fates :
       /\ Asked(o, IF dev.falling THEN {"early"} ELSE {})
       /\ dev' = IF Took(o) THEN TurnedOn(dev) ELSE dev
       /\ IF ResetRaises(o) THEN Fail ELSE Rebooted
  BY DEF PowerBackOn
<1>2. Charged
  BY <1>1, SentCharged DEF Asked, Oddities
<1>3. Moved
  BY <1>1, GoesOn, Fails DEF PowerBackOn, Labels, Arming, Rebooted
<1>4. dev' \in Machine
  BY <1>1, MachineKept DEF TypeOK
<1> QED
  BY <1>2, <1>3, <1>4, StepKept DEF PowerBackOn

LEMMA PowerOnKeeps ==
  ASSUME TypeOK, SeqKnown, PowerOn
  PROVE  Kept
<1>1. PICK o \in Fates :
       /\ Asked(o, IF dev.falling THEN {"early"} ELSE {})
       /\ dev' = IF Took(o) THEN TurnedOn(dev) ELSE dev
       /\ IF ResetRaises(o) THEN Fail ELSE GotoLoop("mark")
  BY DEF PowerOn
<1>2. Charged
  BY <1>1, SentCharged DEF Asked, Oddities
<1>3. Moved
  BY <1>1, GoesOn, Fails DEF PowerOn, Labels, Arming
<1>4. dev' \in Machine
  BY <1>1, MachineKept DEF TypeOK
<1> QED
  BY <1>2, <1>3, <1>4, StepKept DEF PowerOn

LEMMA UnmountMediaKeeps ==
  ASSUME TypeOK, SeqKnown, UnmountMedia
  PROVE  Kept
<1>1. PICK o \in Fates : Asked(o, {}) /\ dev' = [dev EXCEPT !.media = @ /\ ~Took(o)]
  BY DEF UnmountMedia
<1>2. Charged
  BY <1>1, SentCharged DEF Asked
<1>3. Moved
  BY <1>1, GoesOn DEF UnmountMedia, Labels, Arming
<1>4. dev' \in Machine
  <2>1. dev \in Machine /\ (dev.media /\ ~Took(o)) \in BOOLEAN
    BY DEF TypeOK
  <2> QED
    BY <1>1, <2>1, ColumnKept
<1> QED
  BY <1>2, <1>3, <1>4, StepKept DEF UnmountMedia

LEMMA DetachImageKeeps ==
  ASSUME TypeOK, SeqKnown, DetachImage
  PROVE  Kept
<1>1. PICK o \in Fates : Asked(o, {}) /\ dev' = [dev EXCEPT !.image = @ /\ ~Took(o)]
  BY DEF DetachImage
<1>2. Charged
  BY <1>1, SentCharged DEF Asked
<1>3. Moved
  BY <1>1, GoesOn DEF DetachImage, Labels, Arming
<1>4. dev' \in Machine
  <2>1. dev \in Machine /\ (dev.image /\ ~Took(o)) \in BOOLEAN
    BY DEF TypeOK
  <2> QED
    BY <1>1, <2>1, ColumnKept
<1> QED
  BY <1>2, <1>3, <1>4, StepKept DEF DetachImage

LEMMA PxePersistentKeeps ==
  ASSUME TypeOK, SeqKnown, PxePersistent
  PROVE  Kept
<1>1. PICK o \in Fates :
       /\ Asked(o, {})
       /\ dev' = [dev EXCEPT !.pxe = @ \/ Took(o)]
       /\ IF Executed(o) THEN Goto("pxeoff") ELSE Fail
  BY DEF PxePersistent
<1>2. Charged
  BY <1>1, SentCharged DEF Asked, Oddities
<1>3. Moved
  BY <1>1, GoesOn, Fails DEF PxePersistent, Labels, Arming
<1>4. dev' \in Machine
  <2>1. dev \in Machine /\ (dev.pxe \/ Took(o)) \in BOOLEAN
    BY DEF TypeOK, Machine
  <2> QED
    BY <1>1, <2>1 DEF Machine
<1> QED
  BY <1>2, <1>3, <1>4, StepKept DEF PxePersistent

LEMMA ResetOffKeeps ==
  ASSUME TypeOK, SeqKnown, ResetOff
  PROVE  Kept
<1>1. PICK o \in Fates :
       /\ Asked(o, {})
       /\ dev' = IF Took(o) THEN ForcedOff(dev) ELSE dev
       /\ IF Executed(o) THEN Goto("pxeon") ELSE Fail
  BY DEF ResetOff
<1>2. Charged
  BY <1>1, SentCharged DEF Asked, Oddities
<1>3. Moved
  BY <1>1, GoesOn, Fails DEF ResetOff, Labels, Arming
<1>4. dev' \in Machine
  BY <1>1, MachineKept DEF TypeOK
<1> QED
  BY <1>2, <1>3, <1>4, StepKept DEF ResetOff

LEMMA ResetOnKeeps ==
  ASSUME TypeOK, SeqKnown, ResetOn
  PROVE  Kept
<1>1. PICK o \in Fates :
       /\ Asked(o, IF dev.falling THEN {"early"} ELSE {})
       /\ dev' = IF Took(o) THEN TurnedOn(dev) ELSE dev
       /\ IF Executed(o) THEN Goto("record") ELSE Fail
  BY DEF ResetOn
<1>2. Charged
  BY <1>1, SentCharged DEF Asked, Oddities
<1>3. Moved
  BY <1>1, GoesOn, Fails DEF ResetOn, Labels, Arming
<1>4. dev' \in Machine
  BY <1>1, MachineKept DEF TypeOK
<1> QED
  BY <1>2, <1>3, <1>4, StepKept DEF ResetOn

LEMMA CheckDeviceKeeps ==
  ASSUME TypeOK, SeqKnown, CheckDevice
  PROVE  Kept
<1>1. PICK o \in Fates : Asked(o, {}) /\ IF DevicesRead(o) THEN Goto("clear") ELSE Fail
  BY DEF CheckDevice
<1>2. Charged
  BY <1>1, SentCharged DEF Asked, Oddities
<1>3. Moved
  BY <1>1, GoesOn, Fails DEF CheckDevice, Labels, Arming
<1>4. dev' \in Machine
  BY <1>1, MachineKept DEF TypeOK, CheckDevice
<1> QED
  BY <1>2, <1>3, <1>4, StepKept DEF CheckDevice

LEMMA GetBootSeqKeeps ==
  ASSUME TypeOK, SeqKnown, GetBootSeq
  PROVE  Kept
<1>1. PICK o \in Fates :
       /\ Asked(o, {})
       /\ IF Silent(o) THEN Fail
          ELSE s' = [s EXCEPT !.pc = "arm", !.seq = IF o = "done" THEN dev.mode ELSE "Bios"]
  BY DEF GetBootSeq
<1>2. Charged
  BY <1>1, SentCharged DEF Asked, Oddities
<1>3. Moved
  <2>1. ASSUME NEW mode \in Modes, s' = [s EXCEPT !.pc = "arm", !.seq = mode] PROVE Moved
    <3>1. mode # None
      BY RebuildAssumption
    <3> QED
      BY <2>1, <3>1 DEF TypeOK, Moved, SeqKnown, Run, Labels
  <2>2. "Bios" \in Modes /\ dev.mode \in Modes
    BY DEF TypeOK, Machine, Modes
  <2> QED
    BY <1>1, <2>1, <2>2, Fails
<1>4. dev' \in Machine
  BY <1>1, MachineKept DEF TypeOK, Machine, GetBootSeq
<1> QED
  BY <1>2, <1>3, <1>4, StepKept DEF GetBootSeq

LEMMA ResetIdracKeeps ==
  ASSUME TypeOK, SeqKnown, ResetIdrac
  PROVE  Kept
<1>1. PICK o \in Fates :
       /\ Asked(o, {})
       /\ dev' = [dev EXCEPT !.bmc = @ /\ ~Took(o)]
       /\ IF o = "done" THEN s' = [s EXCEPT !.pc = "back", !.reset = TRUE, !.polls = 1] ELSE Fail
  BY DEF ResetIdrac
<1>2. Charged
  BY <1>1, SentCharged DEF Asked, Oddities
<1>3. Moved
  <2>1. ASSUME s' = [s EXCEPT !.pc = "back", !.reset = TRUE, !.polls = 1] PROVE Moved
    BY <2>1 DEF ResetIdrac, At, TypeOK, Moved, SeqKnown, Arming, Run, Labels
  <2> QED
    BY <1>1, <2>1, Fails
<1>4. dev' \in Machine
  <2>1. dev \in Machine /\ (dev.bmc /\ ~Took(o)) \in BOOLEAN
    BY DEF TypeOK
  <2> QED
    BY <1>1, <2>1, ColumnKept
<1> QED
  BY <1>2, <1>3, <1>4, StepKept DEF ResetIdrac

LEMMA PollOnKeeps ==
  ASSUME TypeOK, SeqKnown, PollOn
  PROVE  Kept
<1>1. PICK o \in Fates :
       /\ Asked(o, {})
       /\ IF PowerState(o) = "On" \/ s.polls = Retries THEN Goto("arm")
          ELSE s' = [s EXCEPT !.polls = @ + 1]
  BY DEF PollOn
<1>2. Charged
  BY <1>1, SentCharged DEF Asked, Oddities
<1>3. Moved
  <2>1. s.seq # None
    BY DEF PollOn, At, SeqKnown, Arming
  <2>2. ASSUME Goto("arm") \/ s' = [s EXCEPT !.polls = @ + 1] PROVE Moved
    BY <2>1, <2>2 DEF TypeOK, Moved, SeqKnown, Goto, Run, Labels
  <2> QED
    BY <1>1, <2>2
<1>4. dev' \in Machine
  BY <1>1, MachineKept DEF TypeOK, Machine, PollOn
<1> QED
  BY <1>2, <1>3, <1>4, StepKept DEF PollOn

LEMMA PowerOffKeeps ==
  ASSUME TypeOK, SeqKnown, PowerOff
  PROVE  Kept
<1>1. PICK o \in Fates :
       /\ Asked(o, {})
       /\ dev' = IF Took(o) THEN ForcedOff(dev) ELSE dev
       /\ CASE o = "done" \/ (o = "bad" /\ dev.brand # "Supermicro") -> GotoLoop("record")
            [] o = "unsent" /\ dev.brand # "Supermicro" -> GotoLoop("record") \/ Fail
            [] OTHER -> Fail
  BY DEF PowerOff
<1>2. Charged
  BY <1>1, SentCharged DEF Asked, Oddities
<1>3. Moved
  BY <1>1, GoesOn, Fails DEF PowerOff, Labels, Arming
<1>4. dev' \in Machine
  BY <1>1, MachineKept DEF TypeOK
<1> QED
  BY <1>2, <1>3, <1>4, StepKept DEF PowerOff

LEMMA PrepareKeeps ==
  ASSUME TypeOK, SeqKnown, Prepare
  PROVE  Kept
<1>1. Charged /\ dev' \in Machine
  BY DEF Prepare, Quiet, TypeOK, Charged
<1>2. Moved
  BY GoesOn DEF Prepare, Labels, Arming
<1> QED
  BY <1>1, <1>2, StepKept DEF Prepare

LEMMA PatchBootSeqKeeps ==
  ASSUME TypeOK, SeqKnown, PatchBootSeq
  PROVE  Kept
<1>1. PICK o \in Fates :
       /\ Asked(o, {})
       /\ dev' \in {dev, Reordered(dev)}
       /\ GotoLoop("job") \/ Fail \/ s' = [s EXCEPT !.tries = s.tries + 1]
  BY DEF PatchBootSeq
<1>2. Charged
  BY <1>1, SentCharged DEF Asked
<1>3. Moved
  <2>1. ASSUME s' = [s EXCEPT !.tries = s.tries + 1] PROVE Moved
    BY <2>1 DEF TypeOK, SeqKnown, Moved, Run
  <2> QED
    BY <1>1, <2>1, GoesOn, Fails DEF Labels, Arming
<1>4. dev' \in Machine
  <2>1. dev \in Machine /\ move.order \in Orders
    BY RebuildAssumption DEF TypeOK, Move
  <2>2. [dev.pending EXCEPT !.order = move.order] \in Pending
    BY <2>1 DEF Machine, Pending
  <2> QED
    BY <1>1, <2>1, <2>2 DEF Reordered, Machine
<1> QED
  BY <1>2, <1>3, <1>4, StepKept DEF PatchBootSeq

LEMMA WakeKeeps ==
  ASSUME TypeOK, SeqKnown, Wake
  PROVE  Kept
<1>1. Charged /\ dev' \in Machine
  BY SlowIsOdd DEF Wake, TypeOK, Charged
<1>2. Moved
  BY GoesOn DEF Wake, Labels, Arming
<1> QED
  BY <1>1, <1>2, StepKept DEF Wake

(* Foreman's record.                                                       *)
LEMMA ForemanKept ==
  ASSUME TypeOK, NEW what \in {"build", "os", "owner"}, NEW next \in Labels \ Arming,
         Foreman(what, next)
  PROVE  Kept
<1>1. PICK o \in Fates :
       /\ Sent(o, TRUE, {})
       /\ foreman' = IF Took(o) THEN [foreman EXCEPT ![what] = TRUE] ELSE foreman
       /\ s' = [s EXCEPT !.pc = next, !.ok = @ /\ o = "done"]
  BY DEF Foreman
<1>2. Charged
  BY <1>1, SentCharged
<1>3. Moved
  <2>1. (s.ok /\ o = "done") \in BOOLEAN /\ s \in Run
    BY DEF TypeOK
  <2>2. ASSUME NEW b \in BOOLEAN, s' = [s EXCEPT !.pc = next, !.ok = b] PROVE Moved
    BY <2>1, <2>2 DEF Moved, SeqKnown, Run
  <2> QED
    BY <1>1, <2>1, <2>2
<1>4. foreman' \in [build : BOOLEAN, os : BOOLEAN, owner : BOOLEAN]
  BY <1>1 DEF TypeOK
<1> QED
  BY <1>2, <1>3, <1>4 DEF Foreman, TypeOK, Charged, Moved, Kept

LEMMA MarkForBuildKeeps ==
  ASSUME TypeOK, SeqKnown, MarkForBuild
  PROVE  Kept
<1>1. CASE Foreman("build", "params")
  BY <1>1, ForemanKept DEF Labels, Arming
<1>2. CASE Missing /\ Fail /\ UNCHANGED dev /\ Rest
  <2>1. Charged
    BY <1>2, SentCharged DEF Missing
  <2> QED
    BY <1>2, <2>1, Fails, StepKept DEF TypeOK
<1> QED
  BY <1>1, <1>2 DEF MarkForBuild

LEMMA PutParametersKeeps ==
  ASSUME TypeOK, SeqKnown, PutParameters
  PROVE  Kept
BY ForemanKept DEF PutParameters, Labels, Arming

LEMMA PutOwnerKeeps ==
  ASSUME TypeOK, SeqKnown, PutOwner
  PROVE  Kept
<1>1. PICK o \in Fates :
       /\ Sent(o, TRUE, {})
       /\ \E b \in BOOLEAN : foreman' = [foreman EXCEPT !.owner = b]
       /\ \E label \in {AfterForeman, "fail"} : GotoLoop(label)
  <2>1. ASSUME NEW o \in Fates, foreman' = [foreman EXCEPT !.owner = @ \/ Took(o)]
        PROVE  \E b \in BOOLEAN : foreman' = [foreman EXCEPT !.owner = b]
    <3>1. (foreman.owner \/ Took(o)) \in BOOLEAN
      OBVIOUS
    <3> QED
      BY <2>1, <3>1
  <2> QED
    BY <2>1 DEF PutOwner, Missing
<1>2. Charged
  BY <1>1, SentCharged
<1>3. Moved
  BY <1>1, GoesOn DEF AfterForeman, Labels, Arming
<1>4. foreman' \in [build : BOOLEAN, os : BOOLEAN, owner : BOOLEAN]
  BY <1>1 DEF TypeOK
<1> QED
  BY <1>2, <1>3, <1>4 DEF PutOwner, TypeOK, Charged, Moved, Kept

LEMMA IsOneTimeBootSetKeeps ==
  ASSUME TypeOK, SeqKnown, IsOneTimeBootSet
  PROVE  Kept
<1>1. PICK o \in Fates, skip \in BOOLEAN :
       /\ Asked(o, Slow \union IF skip /\ (dev.once.device # Default \/ dev.job) THEN {"stale"} ELSE {})
       /\ s' = [s EXCEPT !.pc = IF skip THEN "mode" ELSE "device", !.stage = "boot", !.tries = 1]
  BY DEF IsOneTimeBootSet, OneTimeSet
<1>2. Charged
  BY <1>1, SentCharged, SlowIsOdd DEF Asked, Oddities
<1>3. Moved
  <2>1. /\ s \in Run /\ "mode" \in Labels \ Arming /\ "device" \in Labels \ Arming
        /\ "boot" \in {"prep", "boot"} /\ 1 \in Nat
    BY DEF TypeOK, Labels, Arming
  <2>2. s' \in Run /\ s'.pc \notin Arming
    BY <1>1, <2>1 DEF Run
  <2> QED
    BY <2>2 DEF Moved, SeqKnown
<1> QED
  BY <1>2, <1>3, StepKept DEF IsOneTimeBootSet, TypeOK

LEMMA PatchBiosKept ==
  ASSUME TypeOK, SeqKnown, NEW settings \in Pending, NEW insist \in BOOLEAN,
         NEW next \in Labels \ Arming, PatchBios(settings, insist, next), Rest
  PROVE  Kept
<1>1. PICK o \in Fates, what \in SUBSET Oddities :
       /\ Asked(o, what)
       /\ dev' \in {dev, Staged(dev, settings)}
       /\ \/ Goto(next) \/ Fail
          \/ s' = [s EXCEPT !.tries = @ + 1]
          \/ s' = [s EXCEPT !.pc = "clear", !.tries = @ + 1]
  <2>1. {"crossed"} \in SUBSET Oddities /\ {"committed"} \in SUBSET Oddities
    BY DEF Oddities
  <2> QED
    BY <2>1 DEF PatchBios
<1>2. Charged
  BY <1>1, SentCharged DEF Asked
<1>3. Moved
  <2>1. ASSUME s' = [s EXCEPT !.tries = @ + 1] PROVE Moved
    BY <2>1 DEF TypeOK, SeqKnown, Moved, Run
  <2>2. ASSUME s' = [s EXCEPT !.pc = "clear", !.tries = @ + 1] PROVE Moved
    <3>1. "clear" \in Labels /\ "clear" \notin Arming /\ s \in Run
      BY DEF TypeOK, Labels, Arming
    <3>2. s' \in Run /\ s'.pc = "clear"
      BY <2>2, <3>1, TriesAgain, NextTry
    <3> QED
      BY <3>1, <3>2 DEF SeqKnown, Moved
  <2> QED
    BY <1>1, <2>1, <2>2, GoesOn, Fails
<1>4. dev' \in Machine
  BY <1>1, MachineKept DEF TypeOK
<1> QED
  BY <1>2, <1>3, <1>4, StepKept

LEMMA SendOneTimeBootKeeps ==
  ASSUME TypeOK, SeqKnown, SendOneTimeBoot
  PROVE  Kept
<1>1. s.seq \in Modes /\ dev.pending \in Pending
  BY DEF SendOneTimeBoot, At, SeqKnown, Arming, TypeOK, Run, Machine
<1>2. OneTimeBoot \in OneTime
  BY <1>1 DEF OneTimeBoot, OneTime
<1>3. [dev.pending EXCEPT !.once = OneTimeBoot] \in Pending
  BY <1>1, <1>2 DEF Pending
<1> QED
  BY <1>3, PatchBiosKept DEF SendOneTimeBoot, Labels, Arming

LEMMA SetBootmodeKeeps ==
  ASSUME TypeOK, SeqKnown, SetBootmode
  PROVE  Kept
<1>1. move.bootmode \in Modes \union {None} /\ dev.pending \in Pending
  BY RebuildAssumption DEF TypeOK, Move, Machine
<1>2. [dev.pending EXCEPT !.mode = move.bootmode] \in Pending
  BY <1>1 DEF Pending
<1> QED
  BY <1>2, PatchBiosKept DEF SetBootmode, Labels, Arming

LEMMA ApplyBootmodeKeeps ==
  ASSUME TypeOK, SeqKnown, ApplyBootmode
  PROVE  Kept
<1>1. Charged
  <2>1. CASE Quiet
    BY <2>1 DEF Quiet, TypeOK, Charged
  <2>2. CASE \E o \in Fates : Asked(o, {})
    BY <2>2, SentCharged DEF Asked
  <2> QED
    BY <2>1, <2>2 DEF ApplyBootmode
<1>2. Moved
  <2>1. Fail \/ GotoLoop("reboot") \/ GotoLoop("setmode")
    BY DEF ApplyBootmode
  <2> QED
    BY <2>1, GoesOn, Fails DEF Labels, Arming
<1> QED
  BY <1>1, <1>2, StepKept DEF ApplyBootmode, TypeOK

----------------------------------------------------------------------------
(* The steps of the tenant's user and the ends of a run.                   *)

(***************************************************************************)
(* GateKept is not inductive: the user is enabled on purpose at the start  *)
(* of a run, and the end of the last one must be forgotten by then.        *)
(***************************************************************************)
GateInv == (s.pc # "idle" => out = "running") /\ GateKept
RebuildInv == TypeOK /\ SeqKnown /\ GateInv

(* The steps before the gate is shut.                                      *)
Opening == {"enable", "set", "verify", "regate", "gate"}

(* The pc a run goes to, as well as its type.                              *)
LEMMA GoesTo ==
  ASSUME TypeOK, NEW label \in Labels \ Arming, Goto(label) \/ GotoLoop(label)
  PROVE  Moved /\ s'.pc = label
<1>1. s'.pc = label
  BY DEF TypeOK, Run, Goto, GotoLoop
<1> QED
  BY <1>1, GoesOn

LEMMA PreparedLabel == Prepared \in Labels \ Arming
BY DEF Prepared, Labels, Arming

(* Another attempt, or, for a machine to be wiped, the gate.               *)
LEMMA Attempts ==
  ASSUME TypeOK, Attempt
  PROVE  /\ Moved
         /\ s'.pc \in {"enable", "regate"} \/ (s'.pc = "fail" /\ ~move.rebuild)
<1>1. CASE s.tries < IpmiRetries
  <2>1. s' = [s EXCEPT !.pc = "enable", !.tries = s.tries + 1] /\ s \in Run
    BY <1>1 DEF Attempt, TypeOK
  <2>2. s' \in Run /\ s'.pc = "enable"
    BY <2>1, TriesAgain, NextTry DEF Labels
  <2> QED
    BY <2>2 DEF Moved, SeqKnown, Arming
<1>2. CASE ~(s.tries < IpmiRetries)
  BY <1>2, GoesTo DEF Attempt, Labels, Arming
<1> QED
  BY <1>1, <1>2

(* Before the gate, a step need only keep the types and its direction.     *)
LEMMA StillOpening ==
  ASSUME RebuildInv, s.pc \in Opening, Charged, Moved, tenant' \in BOOLEAN,
         UNCHANGED <<dev, foreman, move, runs, out>>,
         s'.pc \in Opening \/ ~move.rebuild
  PROVE  RebuildInv'
<1>1. out = "running" /\ out' = out /\ move' = move
  BY DEF RebuildInv, GateInv, Opening
<1>2. TypeOK' /\ SeqKnown'
  BY DEF RebuildInv, TypeOK, Charged, Moved
<1>3. GateInv'
  BY <1>1 DEF GateInv, GateKept, Shut, Opening
<1> QED
  BY <1>2, <1>3 DEF RebuildInv

LEMMA EnableUserKeeps ==
  ASSUME RebuildInv, EnableUser
  PROVE  RebuildInv'
<1>1. PICK o \in Fates :
       /\ Asked(o, {})
       /\ tenant' = (tenant \/ Took(o))
       /\ IF Executed(o) THEN Goto("set") ELSE Attempt
  BY DEF EnableUser
<1>2. Charged /\ TypeOK
  BY <1>1, SentCharged DEF Asked, RebuildInv
<1>3. Moved /\ (s'.pc \in Opening \/ ~move.rebuild)
  BY <1>1, <1>2, GoesTo, Attempts DEF Labels, Arming, Opening
<1>4. tenant' \in BOOLEAN
  BY <1>1
<1> QED
  BY <1>2, <1>3, <1>4, StillOpening DEF EnableUser, At, Opening

LEMMA ConfigureUserKeeps ==
  ASSUME RebuildInv, ConfigureUser
  PROVE  RebuildInv'
<1>1. PICK o \in Fates : Asked(o, {}) /\ IF Executed(o) THEN Goto("verify") ELSE Attempt
  BY DEF ConfigureUser
<1>2. Charged /\ TypeOK
  BY <1>1, SentCharged DEF Asked, RebuildInv
<1>3. Moved /\ (s'.pc \in Opening \/ ~move.rebuild)
  BY <1>1, <1>2, GoesTo, Attempts DEF Labels, Arming, Opening
<1> QED
  BY <1>2, <1>3, StillOpening DEF ConfigureUser, At, Opening, TypeOK

LEMMA VerifyKeeps ==
  ASSUME RebuildInv, Verify
  PROVE  RebuildInv'
<1>1. PICK o \in Fates :
       /\ Asked(o, {})
       /\ IF Executed(o) /\ tenant
          THEN GotoLoop(IF move.rebuild THEN "gate" ELSE Prepared)
          ELSE Attempt
  BY DEF Verify
<1>2. Charged /\ TypeOK
  BY <1>1, SentCharged DEF Asked, RebuildInv
<1>3. Moved /\ (s'.pc \in Opening \/ ~move.rebuild)
  <2>1. CASE move.rebuild /\ GotoLoop("gate")
    BY <1>2, <2>1, GoesTo DEF Labels, Arming, Opening
  <2>2. CASE ~move.rebuild /\ GotoLoop(Prepared)
    BY <1>2, <2>2, GoesTo, PreparedLabel
  <2> QED
    BY <1>1, <1>2, <2>1, <2>2, Attempts DEF Opening
<1> QED
  BY <1>2, <1>3, StillOpening DEF Verify, At, Opening, TypeOK

(* The gate is shut, or known not to be.                                   *)
LEMMA DisableKeeps ==
  ASSUME RebuildInv, s.pc \in {"regate", "gate"}, NEW then \in Labels \ Arming,
         then # "idle", Disable(then)
  PROVE  RebuildInv'
<1>1. PICK o \in Fates : /\ Asked(o, IF Executed(o) THEN {} ELSE {"open"})
                         /\ tenant' = (tenant /\ ~Took(o))
  BY DEF Disable
<1>2. TypeOK /\ out = "running"
  BY DEF RebuildInv, GateInv
<1>3. Charged
  BY <1>1, <1>2, SentCharged DEF Asked, Oddities
<1>4. Moved /\ s'.pc = then
  BY <1>2, GoesTo DEF Disable
<1>5. TypeOK' /\ SeqKnown'
  BY <1>1, <1>2, <1>3, <1>4 DEF Disable, TypeOK, Charged, Moved
<1>6. "open" \in odd' \/ ~tenant'
  <2>1. CASE Executed(o)
    BY <1>1, <2>1 DEF Executed, Took
  <2>2. CASE ~Executed(o)
    BY <1>1, <2>2 DEF Asked, Sent
  <2> QED
    BY <2>1, <2>2
<1>7. GateInv'
  BY <1>2, <1>4, <1>6 DEF GateInv, GateKept, Disable
<1> QED
  BY <1>5, <1>7 DEF RebuildInv

(* Past the gate it is enough that nobody opens it.                        *)
LEMMA BehindTheGate ==
  ASSUME RebuildInv, Shut, Kept
  PROVE  RebuildInv'
<1>1. out = "running" /\ out' = out
  BY DEF RebuildInv, GateInv, Shut, Kept
<1>2. GateKept'
  BY DEF RebuildInv, GateInv, GateKept, Kept
<1> QED
  BY <1>1, <1>2 DEF RebuildInv, GateInv, Kept

LEMMA BeginKeeps ==
  ASSUME RebuildInv, Begin
  PROVE  RebuildInv'
<1>1. TypeOK'
  <2>1. s' \in Run
    BY IdleRun DEF Begin, Run, Labels
  <2>2. runs' \in 0 .. MaxRuns
    BY RebuildAssumption DEF Begin, RebuildInv, TypeOK
  <2> QED
    BY <2>1, <2>2 DEF Begin, RebuildInv, TypeOK
<1>2. s'.pc = "enable" /\ out' = "running"
  BY DEF Begin, Idle
<1> QED
  BY <1>1, <1>2 DEF RebuildInv, GateInv, GateKept, SeqKnown, Arming, Shut

(* A run that ends behind the gate leaves it shut.                         *)
LEMMA EndKeeps ==
  ASSUME RebuildInv, Record \/ UpdateOnFailure
  PROVE  RebuildInv'
<1>1. TypeOK'
  BY IdleRun DEF Record, UpdateOnFailure, Quiet, RebuildInv, TypeOK
<1>2. Shut /\ s'.pc = "idle" /\ UNCHANGED <<tenant, move, odd>>
  BY DEF Record, UpdateOnFailure, Quiet, At, Idle, Shut, Labels
<1> QED
  BY <1>1, <1>2 DEF RebuildInv, GateInv, GateKept, SeqKnown, Arming

LEMMA DiesKeeps ==
  ASSUME RebuildInv, Dies
  PROVE  RebuildInv'
<1>1. TypeOK'
  BY RebuildAssumption, IdleRun DEF Dies, RebuildInv, TypeOK
<1>2. s'.pc = "idle" /\ out' = "died"
  BY DEF Dies, Idle
<1> QED
  BY <1>1, <1>2 DEF RebuildInv, GateInv, GateKept, SeqKnown, Arming, Shut

(* The machine does what it was told; the tenant's user stays as it is.    *)
LEMMA MachineKeeps ==
  ASSUME RebuildInv, Falls \/ Starts \/ BmcReturns
  PROVE  RebuildInv'
<1>1. dev \in Machine /\ NoPending \in Pending
  BY DEF RebuildInv, TypeOK, NoPending, Pending
<1>2. dev' \in Machine
  <2>1. CASE Falls \/ BmcReturns
    <3>1. CASE Falls
      BY <1>1, <3>1 DEF Falls, Machine
    <3>2. CASE BmcReturns
      BY <1>1, <3>2 DEF BmcReturns, Machine
    <3> QED
      BY <2>1, <3>1, <3>2
  <2>2. CASE Starts
    <3> DEFINE new == IF dev.job THEN dev.pending ELSE NoPending
               mode == Given(new.mode, dev.mode)
               order == Given(new.order, dev.order)
               once == Given(new.once, dev.once)
               armed == once # None /\ once.seq = mode
               from == CASE dev.pxe -> "pxe"
                         [] ~dev.pxe /\ armed -> once.device
                         [] OTHER -> IF order = "other" THEN "disk" ELSE order
    <3>1. new \in Pending
      BY <1>1 DEF Machine
    <3>2. mode \in Modes /\ order \in Orders /\ once \in OneTime \union {None}
      BY <1>1, <3>1 DEF Machine, Pending, Given
    <3>3. from \in Sources
      BY <3>2 DEF Sources, Orders, OneTime, Default
    <3>4. (IF armed THEN None ELSE once) \in OneTime \union {None}
      BY <3>2
    <3>5. (IF dev.job THEN NoPending ELSE dev.pending) \in Pending
      BY <1>1 DEF Machine
    <3>6. dev' = [dev EXCEPT !.starting = FALSE, !.job = FALSE, !.mode = mode, !.order = order,
                    !.once = IF armed THEN None ELSE once,
                    !.pending = IF dev.job THEN NoPending ELSE dev.pending,
                    !.from = from]
      BY <2>2 DEF Starts
    <3> HIDE DEF new, mode, order, once, armed, from
    <3> QED
      BY <1>1, <3>2, <3>3, <3>4, <3>5, <3>6, ZenonT(60) DEF Machine
  <2> QED
    BY <2>1, <2>2
<1>3. UNCHANGED <<foreman, tenant, move, s, faults, runs, out, odd>>
  BY DEF Falls, Starts, BmcReturns
<1> QED
  BY <1>2, <1>3 DEF RebuildInv, TypeOK, SeqKnown, GateInv, GateKept, Shut

----------------------------------------------------------------------------
(* The theorems.                                                           *)

LEMMA InitHolds ==
  ASSUME Init
  PROVE  RebuildInv
<1>1. TypeOK
  BY RebuildAssumption, IdleRun DEF Init, TypeOK
<1> QED
  BY <1>1 DEF Init, Idle, RebuildInv, GateInv, GateKept, SeqKnown, Arming, Shut

(* The steps of a run behind the gate.                                     *)
Work ==
  \/ Prepare \/ InitHardware \/ HostType \/ ListJobs
  \/ DeleteJobs \/ DeleteEach \/ PatchBootSeq \/ CreateJob
  \/ Reboot \/ ForceOff \/ PollNotDown \/ PowerBackOn
  \/ Wake \/ PowerOn \/ MarkForBuild \/ PutParameters
  \/ PutOwner \/ UnmountMedia \/ DetachImage \/ PxePersistent
  \/ ResetOff \/ ResetOn \/ IsOneTimeBootSet \/ CheckDevice
  \/ GetBootSeq \/ SendOneTimeBoot \/ ResetIdrac \/ PollOn
  \/ ApplyBootmode \/ SetBootmode \/ PowerOff

LEMMA WorkKeeps ==
  ASSUME RebuildInv, Work
  PROVE  RebuildInv'
<1>1. TypeOK /\ SeqKnown
  BY DEF RebuildInv
<1>2. Shut
  <2>1. CASE Prepare \/ InitHardware \/ HostType \/ ListJobs
    BY <2>1 DEF At, Shut, Labels, Prepare, InitHardware, HostType, ListJobs
  <2>2. CASE DeleteJobs \/ DeleteEach \/ PatchBootSeq \/ CreateJob
    BY <2>2 DEF At, Shut, Labels, DeleteJobs, DeleteEach, PatchBootSeq, CreateJob
  <2>3. CASE Reboot \/ ForceOff \/ PollNotDown \/ PowerBackOn
    BY <2>3 DEF At, Shut, Labels, Reboot, ForceOff, PollNotDown, PowerBackOn
  <2>4. CASE Wake \/ PowerOn \/ MarkForBuild \/ PutParameters
    BY <2>4 DEF At, Shut, Labels, Wake, PowerOn, MarkForBuild, PutParameters
  <2>5. CASE PutOwner \/ UnmountMedia \/ DetachImage \/ PxePersistent
    BY <2>5 DEF At, Shut, Labels, PutOwner, UnmountMedia, DetachImage, PxePersistent
  <2>6. CASE ResetOff \/ ResetOn \/ IsOneTimeBootSet \/ CheckDevice
    BY <2>6 DEF At, Shut, Labels, ResetOff, ResetOn, IsOneTimeBootSet, CheckDevice
  <2>7. CASE GetBootSeq \/ SendOneTimeBoot \/ ResetIdrac \/ PollOn
    BY <2>7 DEF At, Shut, Labels, GetBootSeq, SendOneTimeBoot, ResetIdrac, PollOn
  <2>8. CASE ApplyBootmode \/ SetBootmode \/ PowerOff
    BY <2>8 DEF At, Shut, Labels, ApplyBootmode, SetBootmode, PowerOff
  <2> QED
    BY <2>1, <2>2, <2>3, <2>4, <2>5, <2>6, <2>7, <2>8 DEF Work
<1>3. Kept
  <2>1. CASE Prepare \/ InitHardware \/ HostType \/ ListJobs
    BY <1>1, <2>1, PrepareKeeps, InitHardwareKeeps, HostTypeKeeps, ListJobsKeeps
  <2>2. CASE DeleteJobs \/ DeleteEach \/ PatchBootSeq \/ CreateJob
    BY <1>1, <2>2, DeleteJobsKeeps, DeleteEachKeeps, PatchBootSeqKeeps, CreateJobKeeps
  <2>3. CASE Reboot \/ ForceOff \/ PollNotDown \/ PowerBackOn
    BY <1>1, <2>3, RebootKeeps, ForceOffKeeps, PollNotDownKeeps, PowerBackOnKeeps
  <2>4. CASE Wake \/ PowerOn \/ MarkForBuild \/ PutParameters
    BY <1>1, <2>4, WakeKeeps, PowerOnKeeps, MarkForBuildKeeps, PutParametersKeeps
  <2>5. CASE PutOwner \/ UnmountMedia \/ DetachImage \/ PxePersistent
    BY <1>1, <2>5, PutOwnerKeeps, UnmountMediaKeeps, DetachImageKeeps, PxePersistentKeeps
  <2>6. CASE ResetOff \/ ResetOn \/ IsOneTimeBootSet \/ CheckDevice
    BY <1>1, <2>6, ResetOffKeeps, ResetOnKeeps, IsOneTimeBootSetKeeps, CheckDeviceKeeps
  <2>7. CASE GetBootSeq \/ SendOneTimeBoot \/ ResetIdrac \/ PollOn
    BY <1>1, <2>7, GetBootSeqKeeps, SendOneTimeBootKeeps, ResetIdracKeeps, PollOnKeeps
  <2>8. CASE ApplyBootmode \/ SetBootmode \/ PowerOff
    BY <1>1, <2>8, ApplyBootmodeKeeps, SetBootmodeKeeps, PowerOffKeeps
  <2> QED
    BY <2>1, <2>2, <2>3, <2>4, <2>5, <2>6, <2>7, <2>8 DEF Work
<1> QED
  BY <1>2, <1>3, BehindTheGate

LEMMA NextKeeps ==
  ASSUME RebuildInv, [Next]_vars
  PROVE  RebuildInv'
<1>1. CASE Begin \/ EnableUser \/ ConfigureUser \/ Verify
  BY <1>1, BeginKeeps, EnableUserKeeps, ConfigureUserKeeps, VerifyKeeps
<1>2. CASE ReGate
  <2>1. s.pc = "regate" /\ Disable("fail")
    BY <1>2 DEF ReGate, At
  <2> QED
    BY <2>1, DisableKeeps DEF Labels, Arming
<1>3. CASE Gate
  <2>1. s.pc = "gate" /\ Disable(Prepared) /\ Prepared # "idle"
    BY <1>3 DEF Gate, At, Prepared
  <2> QED
    BY <2>1, DisableKeeps, PreparedLabel
<1>4. CASE Record \/ UpdateOnFailure
  BY <1>4, EndKeeps
<1>5. CASE Dies \/ Falls \/ Starts \/ BmcReturns
  BY <1>5, DiesKeeps, MachineKeeps
<1>6. CASE UNCHANGED vars
  BY <1>6 DEF vars, RebuildInv, TypeOK, SeqKnown, GateInv, GateKept, Shut
<1> QED
  BY <1>1, <1>2, <1>3, <1>4, <1>5, <1>6, WorkKeeps DEF Next, Step, Work

(* The invariant, for any machines, moves, retries, faults and runs.       *)
THEOREM RebuildInvariant == Spec => []RebuildInv
<1>1. RebuildInv /\ [Next]_vars => RebuildInv'
  BY NextKeeps
<1> QED
  BY <1>1, InitHolds, PTL DEF Spec

(* Every record of the machine, of Foreman and of the run keeps its type.  *)
THEOREM RebuildTypes == Spec => []TypeOK
<1>1. RebuildInv => TypeOK
  BY DEF RebuildInv
<1> QED
  BY <1>1, RebuildInvariant, PTL

(* While a machine is wiped, and after that, its last tenant is shut out,  *)
(* unless the command that shuts him out went unconfirmed (GateKept).      *)
THEOREM TenantShutOut == Spec => []GateKept
<1>1. RebuildInv => GateKept
  BY DEF RebuildInv, GateInv
<1> QED
  BY <1>1, RebuildInvariant, PTL

----------------------------------------------------------------------------
(***************************************************************************)
(* Why BuiltAsAsked and FailsOnlyFor hold: what a run that met nothing     *)
(* unusual knows at each request.                                          *)
(***************************************************************************)
Pc(labels) == s.pc \in labels
Stage(stage, labels) == s.stage = stage /\ s.pc \in labels

BootOnly == {"device", "seq", "arm", "mode", "setmode"}
Queueing == {"clear", "delete"}
Rebooting == {"reboot", "off", "poll", "on"}
PrepOnly == {"enable", "set", "verify", "gate", "prep", "init", "type", "order", "sleep", "power",
             "mark", "params", "owner", "media", "image", "pxe", "pxeoff", "pxeon", "once", "home"}
OnDell == {"type", "order", "job", "sleep", "once"} \union Queueing \union Rebooting \union BootOnly

(* Nothing happened that a run may fail for.                               *)
Grounds == {"fault", "down", "matched", "committed", "slow", "early"}
Clean == odd \intersect Grounds = {}

(* No step that only a failed request leads to.                            *)
NoFailure ==
  /\ ~Pc({"regate", "list", "reset", "back", "fail"})
  /\ out # "failed" /\ s.ok
  /\ Pc({"set", "verify"}) => tenant

(* Where a run is in change_boot, and where in reboot_for_rebuild.         *)
Staging ==
  /\ Pc(PrepOnly) => s.stage = "prep"
  /\ Pc(BootOnly) => s.stage = "boot"
  /\ s.stage = "prep" \/ Pc(Queueing \union {"device", "seq"}) => s.seq = None
  /\ Pc({"arm"}) \/ Stage("boot", {"job"}) => s.seq # None

(* What is known of the machine and of the move at each step.              *)
Placed ==
  /\ Pc(OnDell) => dev.brand = "Dell"
  /\ Pc({"pxe", "pxeoff", "pxeon"}) => dev.brand # "Dell"
  /\ Pc({"media", "image"}) => dev.brand # "Supermicro"
  /\ Shut /\ ~Pc({"home", "record", "fail"}) => Wiped
  /\ Pc({"home"}) => ~Wiped
  /\ Pc({"init", "type", "order", "sleep"}) \/ Stage("prep", Queueing \union {"job"} \union Rebooting)
       => move.order # Default

(* The machine does nothing by itself between the look at it and the next  *)
(* order to it.                                                            *)
Resting ==
  /\ Pc(Queueing \union {"order", "job", "reboot", "off"} \union BootOnly) => Settled
  /\ Pc({"off"}) => dev.on
  /\ Pc({"poll", "on"}) => ~dev.starting /\ (dev.on => dev.falling)
  /\ Pc({"sleep"}) => dev.on /\ ~dev.falling
  /\ Pc({"pxeon"}) => (dev.on => dev.falling)

(* The job queue was cleared before settings are staged.                   *)
Queue ==
  /\ Pc({"order", "seq", "arm"}) => ~dev.job
  /\ Stage("prep", {"job"}) => dev.pending.order = move.order
  /\ Stage("boot", {"job"}) => dev.job

CleanInv == Clean => NoFailure /\ Staging /\ Placed /\ Resting /\ Queue

(* Settings without a job are a boot order to be set: a mode and a one-time *)
(* boot come with their job.                                               *)
Tidy(d) == ~d.job => d.pending.mode = None /\ d.pending.once = None

(* What the next start makes of the machine, and what it made.             *)
NextMode == IF dev.job /\ dev.pending.mode # None THEN dev.pending.mode ELSE dev.mode
NextOnce == IF dev.job /\ dev.pending.once # None THEN dev.pending.once ELSE dev.once
Armed(mode) == [seq |-> mode, device |-> Default]
OrderOK == dev.brand = "Dell" =>
             move.order = Default \/ (dev.order = move.order /\ dev.pending.order \in {None, move.order})
(* The next start will be what was asked for.                              *)
Ready ==
  /\ OrderOK
  /\ move.bootmode # None => NextMode = move.bootmode
  /\ "crossed" \notin odd => NextOnce = Armed(NextMode)
Done ==
  /\ OrderOK
  /\ move.bootmode # None => dev.mode = move.bootmode
  /\ "crossed" \notin odd => dev.from \in {Default, "pxe"}

Booting == Pc({"once"} \union BootOnly) \/ Stage("boot", Queueing \union {"job"} \union Rebooting)
(* The run is over, or all but.                                            *)
HandedOver == Pc({"record"}) \/ out = "built"
Flashed == Pc({"pxe", "pxeoff", "pxeon"}) \/ Booting \/ HandedOver

(* What Foreman was told, and what was detached.                           *)
Recorded ==
  /\ Pc({"params", "owner", "media", "image"}) \/ Flashed => foreman.build
  /\ Pc({"owner", "media", "image"}) \/ Flashed => foreman.os
  /\ Pc({"media", "image"}) \/ Flashed => foreman.owner
  /\ dev.brand # "Supermicro" =>
       /\ Pc({"image"}) \/ Flashed => ~dev.media
       /\ Flashed => ~dev.image

(* The boot order is set, or comes with the next start.                    *)
Ordered ==
  /\ Stage("prep", {"job"} \union Rebooting) => dev.pending.order = move.order
  /\ Stage("prep", Rebooting) => dev.job
  /\ Pc({"sleep"}) => IF dev.starting THEN dev.job /\ dev.pending.order = move.order ELSE OrderOK
  /\ Pc({"power", "mark", "params", "owner", "media", "image", "once"} \union BootOnly)
       \/ Stage("boot", Queueing \union {"job"}) => OrderOK

(* The one-time boot and the boot mode of the next start.                  *)
Arms ==
  /\ Stage("prep", Rebooting) \/ ~Pc(Rebooting \union {"idle", "record", "fail"}) => "crossed" \notin odd
  /\ Pc({"arm"}) => s.seq = dev.mode
  /\ Stage("boot", {"job", "mode", "setmode"}) /\ s.seq # None =>
       dev.job /\ dev.pending.once = Armed(dev.mode) /\ dev.pending.mode = None
  /\ Pc({"mode", "setmode"}) /\ s.seq = None => ~dev.job /\ dev.once = Armed(dev.mode)
  /\ Stage("boot", Rebooting) => Ready

(* The machine that is handed over.                                        *)
Handed ==
  /\ Pc({"pxeoff", "pxeon"}) => dev.pxe
  /\ HandedOver =>
       /\ dev.on /\ ~dev.falling
       /\ dev.brand = "Dell" => IF dev.starting THEN Ready ELSE Done
       /\ dev.brand # "Dell" => dev.pxe /\ (~dev.starting => dev.from = "pxe")

ByTheBook == Wiped /\ odd \subseteq {"crossed"}
BuiltInv == ByTheBook => Recorded /\ Ordered /\ Arms /\ Handed

GoodInv == Tidy(dev) /\ BuiltInv

(* A run that is clean after a request was so before, and was answered.    *)
LEMMA CleanRequest ==
  ASSUME NEW o, NEW answers, NEW what, Sent(o, answers, what), Clean'
  PROVE  Clean /\ o = "done" /\ odd' = odd \union what
BY DEF Sent, Clean, Grounds

(* What an order to the machine leaves alone, and what it changes.         *)
AsSet ==
  /\ dev'.brand = dev.brand /\ dev'.order = dev.order /\ dev'.mode = dev.mode /\ dev'.once = dev.once
  /\ dev'.pxe = dev.pxe /\ dev'.media = dev.media /\ dev'.image = dev.image /\ dev'.from = dev.from
SamePower == dev'.on = dev.on /\ dev'.falling = dev.falling /\ dev'.starting = dev.starting
SameQueue == dev'.job = dev.job /\ dev'.pending = dev.pending

Falling == AsSet /\ SameQueue /\ dev'.on = dev.on /\ dev'.falling = (dev.on \/ dev.falling) /\ dev'.starting = dev.starting
Starting == AsSet /\ SameQueue /\ dev'.on /\ dev'.falling = dev.falling /\ dev'.starting = (dev.starting \/ ~dev.on)
Emptied == AsSet /\ SamePower /\ ~dev'.job /\ dev'.pending = IF dev.job THEN NoPending ELSE dev.pending
Queued(b, p) == AsSet /\ SamePower /\ dev'.job = b /\ dev'.pending = p

Marked(pxe, media, image) ==
  /\ dev'.brand = dev.brand /\ dev'.order = dev.order /\ dev'.mode = dev.mode /\ dev'.once = dev.once
  /\ dev'.from = dev.from /\ SamePower /\ SameQueue
  /\ dev'.pxe = pxe /\ dev'.media = media /\ dev'.image = image

(* Each order to the machine, field by field.                              *)
LEMMA OrdersToMachine ==
  ASSUME dev \in Machine
  PROVE  /\ dev' = ForcedOff(dev) => Falling
         /\ dev' = TurnedOn(dev) => Starting
         /\ dev' = Cleared(dev) => Emptied
         /\ dev' = Reordered(dev) => Queued(dev.job, [dev.pending EXCEPT !.order = move.order])
         /\ dev' = [dev EXCEPT !.job = TRUE] => Queued(TRUE, dev.pending)
         /\ \A p : dev' = Staged(dev, p) => Queued(TRUE, p)
         /\ dev' = [dev EXCEPT !.pxe = TRUE] => Marked(TRUE, dev.media, dev.image)
         /\ dev' = [dev EXCEPT !.media = FALSE] => Marked(dev.pxe, FALSE, dev.image)
         /\ dev' = [dev EXCEPT !.image = FALSE] => Marked(dev.pxe, dev.media, FALSE)
<1> USE DEF Machine, AsSet, SamePower, SameQueue
<1>1. dev' = ForcedOff(dev) => Falling
  BY DEF ForcedOff, Falling
<1>2. dev' = TurnedOn(dev) => Starting
  BY DEF TurnedOn, Starting
<1>3. dev' = Cleared(dev) => Emptied
  BY DEF Cleared, Emptied
<1>4. dev' = Reordered(dev) => Queued(dev.job, [dev.pending EXCEPT !.order = move.order])
  BY DEF Reordered, Queued
<1>5. dev' = [dev EXCEPT !.job = TRUE] => Queued(TRUE, dev.pending)
  BY DEF Queued
<1>6. \A p : dev' = Staged(dev, p) => Queued(TRUE, p)
  BY DEF Staged, Queued
<1>7. /\ dev' = [dev EXCEPT !.pxe = TRUE] => Marked(TRUE, dev.media, dev.image)
      /\ dev' = [dev EXCEPT !.media = FALSE] => Marked(dev.pxe, FALSE, dev.image)
      /\ dev' = [dev EXCEPT !.image = FALSE] => Marked(dev.pxe, dev.media, FALSE)
  BY DEF Marked
<1> QED
  BY <1>1, <1>2, <1>3, <1>4, <1>5, <1>6, <1>7

(* No order to the machine leaves a mode or a one-time boot without a job. *)
LEMMA TidyAfter ==
  ASSUME dev \in Machine, Tidy(dev), move' = move,
         \/ Falling \/ Starting \/ Emptied
         \/ Queued(dev.job, [dev.pending EXCEPT !.order = move.order]) \/ (\E p : Queued(TRUE, p))
  PROVE  Tidy(dev)'
BY DEF Falling, Starting, Emptied, Queued, SameQueue, Tidy, NoPending, Machine, Pending

(* Where a run goes, all else about it unchanged.                          *)
To(label) == s'.pc = label /\ s'.stage = s.stage /\ s'.seq = s.seq /\ s'.ok = s.ok

(* Goto and GotoLoop change nothing of a run that the invariants look at.  *)
LEMMA GoingTo ==
  ASSUME TypeOK, NEW label, Goto(label) \/ GotoLoop(label)
  PROVE  To(label)
BY DEF TypeOK, Run, Goto, GotoLoop, To

(* A clean run clears the queue once for the boot order and once for the   *)
(* one-time boot.                                                          *)
LEMMA AfterClearIs ==
  ASSUME TypeOK, Staging, s.pc \in Queueing
  PROVE  AfterClear = (IF s.stage = "prep" THEN "order" ELSE "seq")
BY DEF TypeOK, Run, Staging, AfterClear, Queueing, Pc

(* A run that went by the book did so before its last step.                *)
LEMMA BookStep ==
  ASSUME ByTheBook', move' = move, Clean' => odd \subseteq odd'
  PROVE  ByTheBook /\ Clean'
BY DEF ByTheBook, Wiped, Clean, Grounds

(* What a start makes of the machine.                                      *)
NextOrder == IF dev.job /\ dev.pending.order # None THEN dev.pending.order ELSE dev.order
MachineStarts ==
  /\ ~dev'.starting /\ ~dev'.job
  /\ dev'.mode = NextMode /\ dev'.order = NextOrder
  /\ dev'.pending = IF dev.job THEN NoPending ELSE dev.pending
  /\ dev.pxe => dev'.from = "pxe"
  /\ ~dev.pxe /\ NextOnce # None /\ NextOnce.seq = NextMode => dev'.from = NextOnce.device
  /\ UNCHANGED <<dev.brand, dev.on, dev.falling, dev.pxe, dev.media, dev.image>>

(* The same of a request to Foreman.                                       *)
LEMMA ForemanAnswers ==
  ASSUME NEW o, Sent(o, TRUE, {}), Clean'
  PROVE  Clean /\ o = "done" /\ odd' = odd
BY DEF Sent, Clean, Grounds

(* Foreman took what it was sent.                                         *)
ForemanDid(what, next) ==
  /\ foreman' = [foreman EXCEPT ![what] = TRUE]
  /\ s' = [s EXCEPT !.pc = next, !.ok = @ /\ TRUE]

(* A one-time boot is not the absence of one.                              *)
LEMMA ArmedIs == \A mode \in Modes : Armed(mode) # None
BY RebuildAssumption DEF Armed, OneTime

(* The next boot mode is one.                                              *)
LEMMA NextModeIs ==
  ASSUME dev \in Machine
  PROVE  NextMode \in Modes
BY DEF NextMode, Machine, Pending

(* A move always names a boot order.                                       *)
LEMMA OrderGiven == NoPending.order = None /\ \A m \in Moves : m.order # None
BY RebuildAssumption DEF NoPending, Move

USE DEF Pc, Stage, BootOnly, Queueing, Rebooting, PrepOnly, OnDell, Shut, Labels, Settled, Wiped,
        To, AsSet, SamePower, SameQueue, Falling, Starting, Emptied, Queued, Marked


----------------------------------------------------------------------------
(* One lemma per action: where a clean run goes from there, and that what  *)
(* it knows is still so.                                                   *)

LEMMA EnableUserGood ==
  ASSUME RebuildInv, CleanInv, EnableUser
  PROVE  CleanInv' /\ (GoodInv => GoodInv')
<1>1. /\ s.pc = "enable" /\ out = "running" /\ TypeOK /\ dev \in Machine
      /\ UNCHANGED <<dev, foreman, move, out>>
  BY DEF EnableUser, Rest, RebuildInv, GateInv, At, TypeOK
<1>2. ASSUME Clean'
      PROVE  Clean /\ odd \subseteq odd' /\ To("set") /\ tenant' /\ odd' = odd
  <2>1. PICK o \in Fates :
       /\ Asked(o, {})
       /\ tenant' = (tenant \/ Took(o))
       /\ IF Executed(o) THEN Goto("set") ELSE Attempt
    BY <1>1 DEF EnableUser
  <2>2. Clean /\ o = "done" /\ odd' = odd \union ({})
    BY <1>2, <2>1, CleanRequest DEF Asked
  <2> QED
    BY <1>1, <1>2, <2>1, <2>2, GoingTo, OrdersToMachine DEF CleanInv, NoFailure, Staging, Placed,
       Resting, Queue, Executed, Took
<1>3. CleanInv'
  BY <1>1, <1>2 DEF CleanInv, NoFailure, Staging, Placed, Resting, Queue
<1>4. ASSUME Tidy(dev) PROVE Tidy(dev)'
  BY <1>1, <1>4 DEF Tidy
<1>5. ASSUME Tidy(dev), BuiltInv, ByTheBook'
      PROVE  (Recorded /\ Ordered /\ Arms /\ Handed)'
  <2>1. ByTheBook /\ Clean'
    BY <1>1, <1>2, <1>5, BookStep
  <2>2. Recorded'
    BY <1>1, <1>2, <1>5, <2>1 DEF CleanInv, NoFailure, Staging, Placed, Resting, Queue, BuiltInv,
       ByTheBook, Recorded, Flashed, Booting, HandedOver
  <2>3. Ordered'
    BY <1>1, <1>2, <1>5, <2>1 DEF CleanInv, NoFailure, Staging, Placed, Resting, Queue, BuiltInv,
       ByTheBook, Ordered, OrderOK
  <2>4. Arms'
    BY <1>1, <1>2, <1>5, <2>1 DEF CleanInv, NoFailure, Staging, Placed, Resting, Queue, BuiltInv,
       ByTheBook, Ordered, Arms, OrderOK, Ready, NextMode, NextOnce, Armed
  <2>5. Handed'
    BY <1>1, <1>2, <1>5, <2>1 DEF CleanInv, NoFailure, Staging, Placed, Resting, Queue, BuiltInv,
       ByTheBook, Arms, Handed, HandedOver, OrderOK, Ready, Done, NextMode, NextOnce, Armed
  <2> QED
    BY <2>2, <2>3, <2>4, <2>5
<1> QED
  BY <1>3, <1>4, <1>5 DEF GoodInv, BuiltInv


LEMMA ConfigureUserGood ==
  ASSUME RebuildInv, CleanInv, ConfigureUser
  PROVE  CleanInv' /\ (GoodInv => GoodInv')
<1>1. /\ s.pc = "set" /\ out = "running" /\ TypeOK /\ dev \in Machine
      /\ UNCHANGED <<dev, foreman, tenant, move, out>>
  BY DEF ConfigureUser, Rest, RebuildInv, GateInv, At, TypeOK
<1>2. ASSUME Clean'
      PROVE  Clean /\ odd \subseteq odd' /\ To("verify") /\ odd' = odd
  <2>1. PICK o \in Fates :
       Asked(o, {}) /\ IF Executed(o) THEN Goto("verify") ELSE Attempt
    BY <1>1 DEF ConfigureUser
  <2>2. Clean /\ o = "done" /\ odd' = odd \union ({})
    BY <1>2, <2>1, CleanRequest DEF Asked
  <2> QED
    BY <1>1, <1>2, <2>1, <2>2, GoingTo, OrdersToMachine DEF CleanInv, NoFailure, Staging, Placed,
       Resting, Queue, Executed
<1>3. CleanInv'
  BY <1>1, <1>2 DEF CleanInv, NoFailure, Staging, Placed, Resting, Queue
<1>4. ASSUME Tidy(dev) PROVE Tidy(dev)'
  BY <1>1, <1>4 DEF Tidy
<1>5. ASSUME Tidy(dev), BuiltInv, ByTheBook'
      PROVE  (Recorded /\ Ordered /\ Arms /\ Handed)'
  <2>1. ByTheBook /\ Clean'
    BY <1>1, <1>2, <1>5, BookStep
  <2>2. Recorded'
    BY <1>1, <1>2, <1>5, <2>1 DEF CleanInv, NoFailure, Staging, Placed, Resting, Queue, BuiltInv,
       ByTheBook, Recorded, Flashed, Booting, HandedOver
  <2>3. Ordered'
    BY <1>1, <1>2, <1>5, <2>1 DEF CleanInv, NoFailure, Staging, Placed, Resting, Queue, BuiltInv,
       ByTheBook, Ordered, OrderOK
  <2>4. Arms'
    BY <1>1, <1>2, <1>5, <2>1 DEF CleanInv, NoFailure, Staging, Placed, Resting, Queue, BuiltInv,
       ByTheBook, Ordered, Arms, OrderOK, Ready, NextMode, NextOnce, Armed
  <2>5. Handed'
    BY <1>1, <1>2, <1>5, <2>1 DEF CleanInv, NoFailure, Staging, Placed, Resting, Queue, BuiltInv,
       ByTheBook, Arms, Handed, HandedOver, OrderOK, Ready, Done, NextMode, NextOnce, Armed
  <2> QED
    BY <2>2, <2>3, <2>4, <2>5
<1> QED
  BY <1>3, <1>4, <1>5 DEF GoodInv, BuiltInv


LEMMA VerifyGood ==
  ASSUME RebuildInv, CleanInv, Verify
  PROVE  CleanInv' /\ (GoodInv => GoodInv')
<1>1. /\ s.pc = "verify" /\ out = "running" /\ TypeOK /\ dev \in Machine
      /\ UNCHANGED <<dev, foreman, tenant, move, out>>
  BY DEF Verify, Rest, RebuildInv, GateInv, At, TypeOK
<1>2. ASSUME Clean'
      PROVE  Clean /\ odd \subseteq odd' /\ (IF move.rebuild THEN To("gate") ELSE To("home") \/ To("record")) /\ odd' = odd
  <2>1. PICK o \in Fates :
       /\ Asked(o, {})
       /\ IF Executed(o) /\ tenant
          THEN GotoLoop(IF move.rebuild THEN "gate" ELSE Prepared)
          ELSE Attempt
    BY <1>1 DEF Verify
  <2>2. Clean /\ o = "done" /\ odd' = odd \union ({})
    BY <1>2, <2>1, CleanRequest DEF Asked
  <2> QED
    BY <1>1, <1>2, <2>1, <2>2, GoingTo, OrdersToMachine DEF CleanInv, NoFailure, Staging, Placed,
       Resting, Queue, Executed, Prepared
<1>3. CleanInv'
  BY <1>1, <1>2 DEF CleanInv, NoFailure, Staging, Placed, Resting, Queue
<1>4. ASSUME Tidy(dev) PROVE Tidy(dev)'
  BY <1>1, <1>4 DEF Tidy
<1>5. ASSUME Tidy(dev), BuiltInv, ByTheBook'
      PROVE  (Recorded /\ Ordered /\ Arms /\ Handed)'
  <2>1. ByTheBook /\ Clean'
    BY <1>1, <1>2, <1>5, BookStep
  <2>2. Recorded'
    BY <1>1, <1>2, <1>5, <2>1 DEF CleanInv, NoFailure, Staging, Placed, Resting, Queue, BuiltInv,
       ByTheBook, Recorded, Flashed, Booting, HandedOver
  <2>3. Ordered'
    BY <1>1, <1>2, <1>5, <2>1 DEF CleanInv, NoFailure, Staging, Placed, Resting, Queue, BuiltInv,
       ByTheBook, Ordered, OrderOK
  <2>4. Arms'
    BY <1>1, <1>2, <1>5, <2>1 DEF CleanInv, NoFailure, Staging, Placed, Resting, Queue, BuiltInv,
       ByTheBook, Ordered, Arms, OrderOK, Ready, NextMode, NextOnce, Armed
  <2>5. Handed'
    BY <1>1, <1>2, <1>5, <2>1 DEF CleanInv, NoFailure, Staging, Placed, Resting, Queue, BuiltInv,
       ByTheBook, Arms, Handed, HandedOver, OrderOK, Ready, Done, NextMode, NextOnce, Armed
  <2> QED
    BY <2>2, <2>3, <2>4, <2>5
<1> QED
  BY <1>3, <1>4, <1>5 DEF GoodInv, BuiltInv


(* Only a failed request leads here, and to the other steps that conclude  *)
(* FALSE.                                                                  *)
LEMMA ReGateGood ==
  ASSUME RebuildInv, CleanInv, ReGate
  PROVE  CleanInv' /\ (GoodInv => GoodInv')
<1>1. /\ s.pc = "regate" /\ out = "running" /\ TypeOK /\ dev \in Machine
      /\ UNCHANGED <<dev, foreman, move, out>>
  BY DEF ReGate, Rest, RebuildInv, GateInv, At, TypeOK, Disable
<1>2. ASSUME Clean'
      PROVE  Clean /\ odd \subseteq odd' /\ FALSE
  <2>1. PICK o \in Fates : Asked(o, IF Executed(o) THEN {} ELSE {"open"})
    BY <1>1 DEF ReGate, Disable
  <2>2. Clean
    BY <1>2, <2>1, CleanRequest DEF Asked
  <2> QED
    BY <1>1, <2>2 DEF CleanInv, NoFailure
<1>3. CleanInv'
  BY <1>1, <1>2 DEF CleanInv, NoFailure, Staging, Placed, Resting, Queue
<1>4. ASSUME Tidy(dev) PROVE Tidy(dev)'
  BY <1>1, <1>4 DEF Tidy
<1>5. ASSUME Tidy(dev), BuiltInv, ByTheBook'
      PROVE  (Recorded /\ Ordered /\ Arms /\ Handed)'
  <2>1. ByTheBook /\ Clean'
    BY <1>1, <1>2, <1>5, BookStep
  <2>2. Recorded'
    BY <1>1, <1>2, <1>5, <2>1 DEF CleanInv, NoFailure, Staging, Placed, Resting, Queue, BuiltInv,
       ByTheBook, Recorded, Flashed, Booting, HandedOver
  <2>3. Ordered'
    BY <1>1, <1>2, <1>5, <2>1 DEF CleanInv, NoFailure, Staging, Placed, Resting, Queue, BuiltInv,
       ByTheBook, Ordered, OrderOK
  <2>4. Arms'
    BY <1>1, <1>2, <1>5, <2>1 DEF CleanInv, NoFailure, Staging, Placed, Resting, Queue, BuiltInv,
       ByTheBook, Ordered, Arms, OrderOK, Ready, NextMode, NextOnce, Armed
  <2>5. Handed'
    BY <1>1, <1>2, <1>5, <2>1 DEF CleanInv, NoFailure, Staging, Placed, Resting, Queue, BuiltInv,
       ByTheBook, Arms, Handed, HandedOver, OrderOK, Ready, Done, NextMode, NextOnce, Armed
  <2> QED
    BY <2>2, <2>3, <2>4, <2>5
<1> QED
  BY <1>3, <1>4, <1>5 DEF GoodInv, BuiltInv


LEMMA GateGood ==
  ASSUME RebuildInv, CleanInv, Gate
  PROVE  CleanInv' /\ (GoodInv => GoodInv')
<1>1. /\ s.pc = "gate" /\ out = "running" /\ TypeOK /\ dev \in Machine
      /\ UNCHANGED <<dev, foreman, move, out>>
  BY DEF Gate, Rest, RebuildInv, GateInv, At, TypeOK, Disable
<1>2. ASSUME Clean'
      PROVE  Clean /\ odd \subseteq odd' /\ odd' = odd
             /\ \/ Wiped /\ To(IF dev.brand = "Supermicro" THEN "mark" ELSE "prep")
                \/ ~Wiped /\ (To("home") \/ To("record"))
  <2>1. PICK o \in Fates :
       /\ Asked(o, IF Executed(o) THEN {} ELSE {"open"})
       /\ GotoLoop(Prepared)
    BY <1>1 DEF Gate, Disable
  <2>2. Clean /\ o = "done" /\ odd' = odd \union (IF Executed(o) THEN {} ELSE {"open"})
    BY <1>2, <2>1, CleanRequest DEF Asked
  <2> QED
    BY <1>1, <1>2, <2>1, <2>2, GoingTo, OrdersToMachine DEF CleanInv, NoFailure, Staging, Placed,
       Resting, Queue, Executed, Prepared
<1>3. CleanInv'
  BY <1>1, <1>2 DEF CleanInv, NoFailure, Staging, Placed, Resting, Queue
<1>4. ASSUME Tidy(dev) PROVE Tidy(dev)'
  BY <1>1, <1>4 DEF Tidy
<1>5. ASSUME Tidy(dev), BuiltInv, ByTheBook'
      PROVE  (Recorded /\ Ordered /\ Arms /\ Handed)'
  <2>1. ByTheBook /\ Clean'
    BY <1>1, <1>2, <1>5, BookStep
  <2>2. Recorded'
    BY <1>1, <1>2, <1>5, <2>1 DEF CleanInv, NoFailure, Staging, Placed, Resting, Queue, BuiltInv,
       ByTheBook, Recorded, Flashed, Booting, HandedOver
  <2>3. Ordered'
    BY <1>1, <1>2, <1>5, <2>1 DEF CleanInv, NoFailure, Staging, Placed, Resting, Queue, BuiltInv,
       ByTheBook, Ordered, OrderOK
  <2>4. Arms'
    BY <1>1, <1>2, <1>5, <2>1 DEF CleanInv, NoFailure, Staging, Placed, Resting, Queue, BuiltInv,
       ByTheBook, Ordered, Arms, OrderOK, Ready, NextMode, NextOnce, Armed
  <2>5. Handed'
    BY <1>1, <1>2, <1>5, <2>1 DEF CleanInv, NoFailure, Staging, Placed, Resting, Queue, BuiltInv,
       ByTheBook, Arms, Handed, HandedOver, OrderOK, Ready, Done, NextMode, NextOnce, Armed
  <2> QED
    BY <2>2, <2>3, <2>4, <2>5
<1> QED
  BY <1>3, <1>4, <1>5 DEF GoodInv, BuiltInv


LEMMA PrepareGood ==
  ASSUME RebuildInv, CleanInv, Prepare
  PROVE  CleanInv' /\ (GoodInv => GoodInv')
<1>1. /\ s.pc = "prep" /\ out = "running" /\ TypeOK /\ dev \in Machine
      /\ UNCHANGED <<dev, foreman, tenant, move, out, odd>>
  BY DEF Prepare, Rest, RebuildInv, GateInv, At, TypeOK, Quiet
<1>2. ASSUME Clean'
      PROVE  Clean /\ odd \subseteq odd' /\ To(IF move.order = Default THEN "power" ELSE "init")
  BY <1>1, <1>2, GoingTo DEF Prepare, Clean
<1>3. CleanInv'
  BY <1>1, <1>2 DEF CleanInv, NoFailure, Staging, Placed, Resting, Queue
<1>4. ASSUME Tidy(dev) PROVE Tidy(dev)'
  BY <1>1, <1>4 DEF Tidy
<1>5. ASSUME Tidy(dev), BuiltInv, ByTheBook'
      PROVE  (Recorded /\ Ordered /\ Arms /\ Handed)'
  <2>1. ByTheBook /\ Clean'
    BY <1>1, <1>2, <1>5, BookStep
  <2>2. Recorded'
    BY <1>1, <1>2, <1>5, <2>1 DEF CleanInv, NoFailure, Staging, Placed, Resting, Queue, BuiltInv,
       ByTheBook, Recorded, Flashed, Booting, HandedOver
  <2>3. Ordered'
    BY <1>1, <1>2, <1>5, <2>1 DEF CleanInv, NoFailure, Staging, Placed, Resting, Queue, BuiltInv,
       ByTheBook, Ordered, OrderOK
  <2>4. Arms'
    BY <1>1, <1>2, <1>5, <2>1 DEF CleanInv, NoFailure, Staging, Placed, Resting, Queue, BuiltInv,
       ByTheBook, Ordered, Arms, OrderOK, Ready, NextMode, NextOnce, Armed
  <2>5. Handed'
    BY <1>1, <1>2, <1>5, <2>1 DEF CleanInv, NoFailure, Staging, Placed, Resting, Queue, BuiltInv,
       ByTheBook, Arms, Handed, HandedOver, OrderOK, Ready, Done, NextMode, NextOnce, Armed
  <2> QED
    BY <2>2, <2>3, <2>4, <2>5
<1> QED
  BY <1>3, <1>4, <1>5 DEF GoodInv, BuiltInv


LEMMA InitHardwareGood ==
  ASSUME RebuildInv, CleanInv, InitHardware
  PROVE  CleanInv' /\ (GoodInv => GoodInv')
<1>1. /\ s.pc = "init" /\ out = "running" /\ TypeOK /\ dev \in Machine
      /\ UNCHANGED <<dev, foreman, tenant, move, out>>
  BY DEF InitHardware, Rest, RebuildInv, GateInv, At, TypeOK
<1>2. ASSUME Clean'
      PROVE  Clean /\ odd \subseteq odd' /\ To(IF dev.brand = "Dell" THEN "type" ELSE "power") /\ odd' = odd
  <2>1. PICK o \in Fates :
       /\ Asked(o, {})
       /\ IF ~Initialized(o) THEN Fail
          ELSE GotoLoop(IF dev.brand = "Dell" THEN "type" ELSE "power")
    BY <1>1 DEF InitHardware
  <2>2. Clean /\ o = "done" /\ odd' = odd \union ({})
    BY <1>2, <2>1, CleanRequest DEF Asked
  <2> QED
    BY <1>1, <1>2, <2>1, <2>2, GoingTo, OrdersToMachine DEF CleanInv, NoFailure, Staging, Placed,
       Resting, Queue, Initialized
<1>3. CleanInv'
  BY <1>1, <1>2 DEF CleanInv, NoFailure, Staging, Placed, Resting, Queue
<1>4. ASSUME Tidy(dev) PROVE Tidy(dev)'
  BY <1>1, <1>4 DEF Tidy
<1>5. ASSUME Tidy(dev), BuiltInv, ByTheBook'
      PROVE  (Recorded /\ Ordered /\ Arms /\ Handed)'
  <2>1. ByTheBook /\ Clean'
    BY <1>1, <1>2, <1>5, BookStep
  <2>2. Recorded'
    BY <1>1, <1>2, <1>5, <2>1 DEF CleanInv, NoFailure, Staging, Placed, Resting, Queue, BuiltInv,
       ByTheBook, Recorded, Flashed, Booting, HandedOver
  <2>3. Ordered'
    BY <1>1, <1>2, <1>5, <2>1 DEF CleanInv, NoFailure, Staging, Placed, Resting, Queue, BuiltInv,
       ByTheBook, Ordered, OrderOK
  <2>4. Arms'
    BY <1>1, <1>2, <1>5, <2>1 DEF CleanInv, NoFailure, Staging, Placed, Resting, Queue, BuiltInv,
       ByTheBook, Ordered, Arms, OrderOK, Ready, NextMode, NextOnce, Armed
  <2>5. Handed'
    BY <1>1, <1>2, <1>5, <2>1 DEF CleanInv, NoFailure, Staging, Placed, Resting, Queue, BuiltInv,
       ByTheBook, Arms, Handed, HandedOver, OrderOK, Ready, Done, NextMode, NextOnce, Armed
  <2> QED
    BY <2>2, <2>3, <2>4, <2>5
<1> QED
  BY <1>3, <1>4, <1>5 DEF GoodInv, BuiltInv


LEMMA HostTypeGood ==
  ASSUME RebuildInv, CleanInv, HostType
  PROVE  CleanInv' /\ (GoodInv => GoodInv')
<1>1. /\ s.pc = "type" /\ out = "running" /\ TypeOK /\ dev \in Machine
      /\ UNCHANGED <<dev, foreman, tenant, move, out>>
  BY DEF HostType, Rest, RebuildInv, GateInv, At, TypeOK
<1>2. ASSUME Clean'
      PROVE  Clean /\ odd \subseteq odd' /\ To("clear") /\ Settled /\ odd' = odd
  <2>1. PICK o \in Fates :
       /\ Asked(o, Slow \union IF TypeMatches THEN {"matched"} ELSE {})
       /\ IF ~DevicesRead(o) \/ TypeMatches THEN Fail
          ELSE s' = [s EXCEPT !.pc = "clear", !.stage = "prep"]
    BY DEF HostType
  <2>2. Clean /\ o = "done" /\ odd' = odd \union Slow \union IF TypeMatches THEN {"matched"} ELSE {}
    BY <1>2, <2>1, CleanRequest DEF Asked
  <2>3. ~TypeMatches /\ Settled
    BY <1>2, <2>2 DEF Clean, Grounds, Slow
  <2>4. To("clear")
    <3>1. s' = [s EXCEPT !.pc = "clear", !.stage = "prep"]
      BY <2>1, <2>2, <2>3 DEF DevicesRead
    <3>2. s.stage = "prep"
      BY <1>1, <2>2 DEF CleanInv, Staging
    <3> QED
      BY <1>1, <3>1, <3>2 DEF TypeOK, Run
  <2> QED
    BY <2>2, <2>3, <2>4 DEF Slow
<1>3. CleanInv'
  BY <1>1, <1>2 DEF CleanInv, NoFailure, Staging, Placed, Resting, Queue
<1>4. ASSUME Tidy(dev) PROVE Tidy(dev)'
  BY <1>1, <1>4 DEF Tidy
<1>5. ASSUME Tidy(dev), BuiltInv, ByTheBook'
      PROVE  (Recorded /\ Ordered /\ Arms /\ Handed)'
  <2>1. ByTheBook /\ Clean'
    BY <1>1, <1>2, <1>5, BookStep
  <2>2. Recorded'
    BY <1>1, <1>2, <1>5, <2>1 DEF CleanInv, NoFailure, Staging, Placed, Resting, Queue, BuiltInv,
       ByTheBook, Recorded, Flashed, Booting, HandedOver
  <2>3. Ordered'
    BY <1>1, <1>2, <1>5, <2>1 DEF CleanInv, NoFailure, Staging, Placed, Resting, Queue, BuiltInv,
       ByTheBook, Ordered, OrderOK
  <2>4. Arms'
    BY <1>1, <1>2, <1>5, <2>1 DEF CleanInv, NoFailure, Staging, Placed, Resting, Queue, BuiltInv,
       ByTheBook, Ordered, Arms, OrderOK, Ready, NextMode, NextOnce, Armed
  <2>5. Handed'
    BY <1>1, <1>2, <1>5, <2>1 DEF CleanInv, NoFailure, Staging, Placed, Resting, Queue, BuiltInv,
       ByTheBook, Arms, Handed, HandedOver, OrderOK, Ready, Done, NextMode, NextOnce, Armed
  <2> QED
    BY <2>2, <2>3, <2>4, <2>5
<1> QED
  BY <1>3, <1>4, <1>5 DEF GoodInv, BuiltInv


LEMMA ListJobsGood ==
  ASSUME RebuildInv, CleanInv, ListJobs
  PROVE  CleanInv' /\ (GoodInv => GoodInv')
<1>1. /\ s.pc = "clear" /\ out = "running" /\ TypeOK /\ dev \in Machine
      /\ UNCHANGED <<dev, foreman, tenant, move, out>>
  BY DEF ListJobs, Rest, RebuildInv, GateInv, At, TypeOK
<1>2. ASSUME Clean'
      PROVE  Clean /\ odd \subseteq odd' /\ odd' = odd
             /\ \/ dev.job /\ To("delete")
                \/ ~dev.job /\ s.stage = "prep" /\ To("order")
                \/ ~dev.job /\ s.stage = "boot" /\ To("seq")
  <2>1. PICK o \in Fates :
       /\ Asked(o, {})
       /\ o = "done" => Goto(IF dev.job THEN "delete" ELSE AfterClear)
    BY <1>1 DEF ListJobs, Silent
  <2>2. Clean /\ o = "done" /\ odd' = odd \union ({})
    BY <1>2, <2>1, CleanRequest DEF Asked
  <2> QED
    BY <1>1, <1>2, <2>1, <2>2, GoingTo, OrdersToMachine, AfterClearIs DEF CleanInv, NoFailure,
       Staging, Placed, Resting, Queue, TypeOK, Run
<1>3. CleanInv'
  BY <1>1, <1>2 DEF CleanInv, NoFailure, Staging, Placed, Resting, Queue
<1>4. ASSUME Tidy(dev) PROVE Tidy(dev)'
  BY <1>1, <1>4 DEF Tidy
<1>5. ASSUME Tidy(dev), BuiltInv, ByTheBook'
      PROVE  (Recorded /\ Ordered /\ Arms /\ Handed)'
  <2>1. ByTheBook /\ Clean'
    BY <1>1, <1>2, <1>5, BookStep
  <2>2. Recorded'
    BY <1>1, <1>2, <1>5, <2>1 DEF CleanInv, NoFailure, Staging, Placed, Resting, Queue, BuiltInv,
       ByTheBook, Recorded, Flashed, Booting, HandedOver
  <2>3. Ordered'
    BY <1>1, <1>2, <1>5, <2>1 DEF CleanInv, NoFailure, Staging, Placed, Resting, Queue, BuiltInv,
       ByTheBook, Ordered, OrderOK
  <2>4. Arms'
    BY <1>1, <1>2, <1>5, <2>1 DEF CleanInv, NoFailure, Staging, Placed, Resting, Queue, BuiltInv,
       ByTheBook, Ordered, Arms, OrderOK, Ready, NextMode, NextOnce, Armed
  <2>5. Handed'
    BY <1>1, <1>2, <1>5, <2>1 DEF CleanInv, NoFailure, Staging, Placed, Resting, Queue, BuiltInv,
       ByTheBook, Arms, Handed, HandedOver, OrderOK, Ready, Done, NextMode, NextOnce, Armed
  <2> QED
    BY <2>2, <2>3, <2>4, <2>5
<1> QED
  BY <1>3, <1>4, <1>5 DEF GoodInv, BuiltInv


LEMMA DeleteJobsGood ==
  ASSUME RebuildInv, CleanInv, DeleteJobs
  PROVE  CleanInv' /\ (GoodInv => GoodInv')
<1>1. /\ s.pc = "delete" /\ out = "running" /\ TypeOK /\ dev \in Machine
      /\ UNCHANGED <<foreman, tenant, move, out>> /\ dev' \in {dev, Cleared(dev)}
  BY DEF DeleteJobs, Rest, RebuildInv, GateInv, At, TypeOK
<1>2. ASSUME Clean'
      PROVE  Clean /\ odd \subseteq odd' /\ odd' = odd /\ Emptied
             /\ To(IF s.stage = "prep" THEN "order" ELSE "seq")
  <2>1. PICK o \in Fates :
       /\ Asked(o, {})
       /\ dev' = IF Took(o) THEN Cleared(dev) ELSE dev
       /\ o = "done" => Goto(AfterClear)
    BY <1>1 DEF DeleteJobs
  <2>2. Clean /\ o = "done" /\ odd' = odd \union ({})
    BY <1>2, <2>1, CleanRequest DEF Asked
  <2> QED
    BY <1>1, <1>2, <2>1, <2>2, GoingTo, OrdersToMachine, AfterClearIs DEF CleanInv, NoFailure,
       Staging, Placed, Resting, Queue, Took
<1>3. CleanInv'
  BY <1>1, <1>2 DEF CleanInv, NoFailure, Staging, Placed, Resting, Queue, NoPending, TypeOK, Run
<1>4. ASSUME Tidy(dev) PROVE Tidy(dev)'
  BY <1>1, <1>4, OrdersToMachine, TidyAfter DEF Tidy
<1>5. ASSUME Tidy(dev), BuiltInv, ByTheBook'
      PROVE  (Recorded /\ Ordered /\ Arms /\ Handed)'
  <2>1. ByTheBook /\ Clean'
    BY <1>1, <1>2, <1>5, BookStep
  <2>2. Recorded'
    BY <1>1, <1>2, <1>5, <2>1 DEF CleanInv, NoFailure, Staging, Placed, Resting, Queue, BuiltInv,
       ByTheBook, Recorded, Flashed, Booting, HandedOver, NoPending, TypeOK, Run
  <2>3. Ordered'
    BY <1>1, <1>2, <1>5, <2>1 DEF CleanInv, NoFailure, Staging, Placed, Resting, Queue, BuiltInv,
       ByTheBook, Ordered, OrderOK, NoPending, TypeOK, Run
  <2>4. Arms'
    BY <1>1, <1>2, <1>5, <2>1 DEF CleanInv, NoFailure, Staging, Placed, Resting, Queue, BuiltInv,
       ByTheBook, Ordered, Arms, OrderOK, Ready, NextMode, NextOnce, Armed, NoPending, TypeOK, Run
  <2>5. Handed'
    BY <1>1, <1>2, <1>5, <2>1 DEF CleanInv, NoFailure, Staging, Placed, Resting, Queue, BuiltInv,
       ByTheBook, Arms, Handed, HandedOver, OrderOK, Ready, Done, NextMode, NextOnce, Armed,
       NoPending, TypeOK, Run
  <2> QED
    BY <2>2, <2>3, <2>4, <2>5
<1> QED
  BY <1>3, <1>4, <1>5 DEF GoodInv, BuiltInv


LEMMA DeleteEachGood ==
  ASSUME RebuildInv, CleanInv, DeleteEach
  PROVE  CleanInv' /\ (GoodInv => GoodInv')
<1>1. /\ s.pc = "list" /\ out = "running" /\ TypeOK /\ dev \in Machine
      /\ UNCHANGED <<foreman, tenant, move, out>> /\ dev' \in {dev, Cleared(dev)}
  BY DEF DeleteEach, Rest, RebuildInv, GateInv, At, TypeOK
<1>2. ASSUME Clean'
      PROVE  Clean /\ odd \subseteq odd' /\ FALSE
  <2>1. PICK o \in Fates : Asked(o, {})
    BY <1>1 DEF DeleteEach
  <2>2. Clean
    BY <1>2, <2>1, CleanRequest DEF Asked
  <2> QED
    BY <1>1, <2>2 DEF CleanInv, NoFailure
<1>3. CleanInv'
  BY <1>1, <1>2 DEF CleanInv, NoFailure, Staging, Placed, Resting, Queue
<1>4. ASSUME Tidy(dev) PROVE Tidy(dev)'
  BY <1>1, <1>4, OrdersToMachine, TidyAfter DEF Tidy
<1>5. ASSUME Tidy(dev), BuiltInv, ByTheBook'
      PROVE  (Recorded /\ Ordered /\ Arms /\ Handed)'
  <2>1. ByTheBook /\ Clean'
    BY <1>1, <1>2, <1>5, BookStep
  <2>2. Recorded'
    BY <1>1, <1>2, <1>5, <2>1 DEF CleanInv, NoFailure, Staging, Placed, Resting, Queue, BuiltInv,
       ByTheBook, Recorded, Flashed, Booting, HandedOver
  <2>3. Ordered'
    BY <1>1, <1>2, <1>5, <2>1 DEF CleanInv, NoFailure, Staging, Placed, Resting, Queue, BuiltInv,
       ByTheBook, Ordered, OrderOK
  <2>4. Arms'
    BY <1>1, <1>2, <1>5, <2>1 DEF CleanInv, NoFailure, Staging, Placed, Resting, Queue, BuiltInv,
       ByTheBook, Ordered, Arms, OrderOK, Ready, NextMode, NextOnce, Armed
  <2>5. Handed'
    BY <1>1, <1>2, <1>5, <2>1 DEF CleanInv, NoFailure, Staging, Placed, Resting, Queue, BuiltInv,
       ByTheBook, Arms, Handed, HandedOver, OrderOK, Ready, Done, NextMode, NextOnce, Armed
  <2> QED
    BY <2>2, <2>3, <2>4, <2>5
<1> QED
  BY <1>3, <1>4, <1>5 DEF GoodInv, BuiltInv


LEMMA PatchBootSeqGood ==
  ASSUME RebuildInv, CleanInv, PatchBootSeq
  PROVE  CleanInv' /\ (GoodInv => GoodInv')
<1>1. /\ s.pc = "order" /\ out = "running" /\ TypeOK /\ dev \in Machine
      /\ UNCHANGED <<foreman, tenant, move, out>> /\ dev' \in {dev, Reordered(dev)}
  BY DEF PatchBootSeq, Rest, RebuildInv, GateInv, At, TypeOK
<1>2. ASSUME Clean'
      PROVE  Clean /\ odd \subseteq odd' /\ odd' = odd /\ Queued(dev.job, [dev.pending EXCEPT !.order = move.order]) /\ To("job")
  <2>1. PICK o \in Fates :
       /\ Asked(o, {})
       /\ dev' = IF Took(o) /\ ~Refuses(dev) THEN Reordered(dev) ELSE dev
       /\ o = "done" /\ ~Refuses(dev) => GotoLoop("job")
    BY <1>1 DEF PatchBootSeq, Silent
  <2>2. Clean /\ o = "done" /\ odd' = odd \union ({})
    BY <1>2, <2>1, CleanRequest DEF Asked
  <2> QED
    BY <1>1, <1>2, <2>1, <2>2, GoingTo, OrdersToMachine DEF CleanInv, NoFailure, Staging, Placed,
       Resting, Queue, Took, Refuses
<1>3. CleanInv'
  BY <1>1, <1>2 DEF CleanInv, NoFailure, Staging, Placed, Resting, Queue, Machine, Pending
<1>4. ASSUME Tidy(dev) PROVE Tidy(dev)'
  BY <1>1, <1>4, OrdersToMachine, TidyAfter DEF Tidy
<1>5. ASSUME Tidy(dev), BuiltInv, ByTheBook'
      PROVE  (Recorded /\ Ordered /\ Arms /\ Handed)'
  <2>1. ByTheBook /\ Clean'
    BY <1>1, <1>2, <1>5, BookStep
  <2>2. Recorded'
    BY <1>1, <1>2, <1>5, <2>1 DEF CleanInv, NoFailure, Staging, Placed, Resting, Queue, BuiltInv,
       ByTheBook, Recorded, Flashed, Booting, HandedOver, Machine, Pending
  <2>3. Ordered'
    BY <1>1, <1>2, <1>5, <2>1 DEF CleanInv, NoFailure, Staging, Placed, Resting, Queue, BuiltInv,
       ByTheBook, Ordered, OrderOK, Machine, Pending
  <2>4. Arms'
    BY <1>1, <1>2, <1>5, <2>1 DEF CleanInv, NoFailure, Staging, Placed, Resting, Queue, BuiltInv,
       ByTheBook, Ordered, Arms, OrderOK, Ready, NextMode, NextOnce, Armed, Machine, Pending
  <2>5. Handed'
    BY <1>1, <1>2, <1>5, <2>1 DEF CleanInv, NoFailure, Staging, Placed, Resting, Queue, BuiltInv,
       ByTheBook, Arms, Handed, HandedOver, OrderOK, Ready, Done, NextMode, NextOnce, Armed,
       Machine, Pending
  <2> QED
    BY <2>2, <2>3, <2>4, <2>5
<1> QED
  BY <1>3, <1>4, <1>5 DEF GoodInv, BuiltInv


LEMMA CreateJobGood ==
  ASSUME RebuildInv, CleanInv, CreateJob
  PROVE  CleanInv' /\ (GoodInv => GoodInv')
<1>1. /\ s.pc = "job" /\ out = "running" /\ TypeOK /\ dev \in Machine
      /\ UNCHANGED <<foreman, tenant, move, out>> /\ dev'.pending = dev.pending /\ (dev.job => dev'.job)
  BY DEF CreateJob, Rest, RebuildInv, GateInv, At, TypeOK, Machine
<1>2. ASSUME Clean'
      PROVE  Clean /\ odd \subseteq odd' /\ odd' = odd /\ Queued(TRUE, dev.pending)
             /\ To(IF s.stage = "prep" THEN "reboot" ELSE "mode")
  <2>1. PICK o \in Fates :
       /\ Asked(o, {})
       /\ dev' = [dev EXCEPT !.job = @ \/ (Took(o) /\ dev.pending # NoPending)]
       /\ IF o = "done" /\ dev'.job
          THEN GotoLoop(IF s.stage = "prep" THEN "reboot" ELSE "mode")
          ELSE Fail
    BY DEF CreateJob
  <2>2. Clean /\ o = "done" /\ odd' = odd
    BY <1>2, <2>1, CleanRequest DEF Asked
  <2>3. dev.job \/ dev.pending # NoPending
    BY <1>1, <2>2, OrderGiven DEF CleanInv, Queue, TypeOK, Run
  <2>4. dev' = [dev EXCEPT !.job = TRUE] /\ dev'.job
    BY <1>1, <2>1, <2>2, <2>3 DEF Took, Machine
  <2> QED
    BY <1>1, <2>1, <2>2, <2>4, GoingTo, OrdersToMachine
<1>3. CleanInv'
  BY <1>1, <1>2 DEF CleanInv, NoFailure, Staging, Placed, Resting, Queue, TypeOK, Run
<1>4. ASSUME Tidy(dev) PROVE Tidy(dev)'
  BY <1>1, <1>4 DEF Tidy
<1>5. ASSUME Tidy(dev), BuiltInv, ByTheBook'
      PROVE  (Recorded /\ Ordered /\ Arms /\ Handed)'
  <2>1. ByTheBook /\ Clean'
    BY <1>1, <1>2, <1>5, BookStep
  <2>2. Recorded'
    BY <1>1, <1>2, <1>5, <2>1 DEF CleanInv, NoFailure, Staging, Placed, Resting, Queue, BuiltInv,
       ByTheBook, Recorded, Flashed, Booting, HandedOver, TypeOK, Run
  <2>3. Ordered'
    <3>1. IF s.stage = "prep" THEN dev.pending.order = move.order ELSE OrderOK
      BY <1>1, <1>5, <2>1 DEF BuiltInv, Ordered, TypeOK, Run
    <3>2. s'.stage = s.stage /\ dev'.job /\ UNCHANGED move
      BY <1>1, <1>2, <2>1
    <3>3. CASE s.stage = "prep"
      BY <1>1, <1>2, <2>1, <3>1, <3>2, <3>3 DEF Ordered
    <3>4. CASE s.stage # "prep"
      <4>1. OrderOK'
        BY <1>2, <2>1, <3>1, <3>2, <3>4 DEF OrderOK
      <4> QED
        BY <1>2, <2>1, <3>2, <3>4, <4>1 DEF Ordered
    <3> QED
      BY <3>3, <3>4
  <2>4. Arms'
    BY <1>1, <1>2, <1>5, <2>1 DEF CleanInv, NoFailure, Staging, Placed, Resting, Queue, BuiltInv,
       ByTheBook, Ordered, Arms, OrderOK, Ready, NextMode, NextOnce, Armed, TypeOK, Run
  <2>5. Handed'
    BY <1>1, <1>2, <1>5, <2>1 DEF CleanInv, NoFailure, Staging, Placed, Resting, Queue, BuiltInv,
       ByTheBook, Arms, Handed, HandedOver, OrderOK, Ready, Done, NextMode, NextOnce, Armed, TypeOK,
       Run
  <2> QED
    BY <2>2, <2>3, <2>4, <2>5
<1> QED
  BY <1>3, <1>4, <1>5 DEF GoodInv, BuiltInv


LEMMA RebootGood ==
  ASSUME RebuildInv, CleanInv, Reboot
  PROVE  CleanInv' /\ (GoodInv => GoodInv')
<1>1. /\ s.pc = "reboot" /\ out = "running" /\ TypeOK /\ dev \in Machine
      /\ UNCHANGED <<dev, foreman, tenant, move, out>>
  BY DEF Reboot, Rest, RebuildInv, GateInv, At, TypeOK
<1>2. ASSUME Clean'
      PROVE  Clean /\ odd \subseteq odd' /\ To(IF dev.on THEN "off" ELSE "on") /\ odd' = odd
  <2>1. PICK o \in Fates :
       /\ Asked(o, {})
       /\ CASE PowerState(o) = "Down" -> NotRebooted
            [] PowerState(o) = "On" -> GotoLoop("off")
            [] PowerState(o) = "Off" -> GotoLoop("on")
    BY <1>1 DEF Reboot
  <2>2. Clean /\ o = "done" /\ odd' = odd \union ({})
    BY <1>2, <2>1, CleanRequest DEF Asked
  <2> QED
    BY <1>1, <1>2, <2>1, <2>2, GoingTo, OrdersToMachine DEF CleanInv, NoFailure, Staging, Placed,
       Resting, Queue, PowerState
<1>3. CleanInv'
  BY <1>1, <1>2 DEF CleanInv, NoFailure, Staging, Placed, Resting, Queue
<1>4. ASSUME Tidy(dev) PROVE Tidy(dev)'
  BY <1>1, <1>4 DEF Tidy
<1>5. ASSUME Tidy(dev), BuiltInv, ByTheBook'
      PROVE  (Recorded /\ Ordered /\ Arms /\ Handed)'
  <2>1. ByTheBook /\ Clean'
    BY <1>1, <1>2, <1>5, BookStep
  <2>2. Recorded'
    BY <1>1, <1>2, <1>5, <2>1 DEF CleanInv, NoFailure, Staging, Placed, Resting, Queue, BuiltInv,
       ByTheBook, Recorded, Flashed, Booting, HandedOver
  <2>3. Ordered'
    BY <1>1, <1>2, <1>5, <2>1 DEF CleanInv, NoFailure, Staging, Placed, Resting, Queue, BuiltInv,
       ByTheBook, Ordered, OrderOK
  <2>4. Arms'
    BY <1>1, <1>2, <1>5, <2>1 DEF CleanInv, NoFailure, Staging, Placed, Resting, Queue, BuiltInv,
       ByTheBook, Ordered, Arms, OrderOK, Ready, NextMode, NextOnce, Armed
  <2>5. Handed'
    BY <1>1, <1>2, <1>5, <2>1 DEF CleanInv, NoFailure, Staging, Placed, Resting, Queue, BuiltInv,
       ByTheBook, Arms, Handed, HandedOver, OrderOK, Ready, Done, NextMode, NextOnce, Armed
  <2> QED
    BY <2>2, <2>3, <2>4, <2>5
<1> QED
  BY <1>3, <1>4, <1>5 DEF GoodInv, BuiltInv


LEMMA ForceOffGood ==
  ASSUME RebuildInv, CleanInv, ForceOff
  PROVE  CleanInv' /\ (GoodInv => GoodInv')
<1>1. /\ s.pc = "off" /\ out = "running" /\ TypeOK /\ dev \in Machine
      /\ UNCHANGED <<foreman, tenant, move, out>> /\ dev' \in {dev, ForcedOff(dev)}
  BY DEF ForceOff, Rest, RebuildInv, GateInv, At, TypeOK
<1>2. ASSUME Clean'
      PROVE  Clean /\ odd \subseteq odd' /\ To("poll") /\ Falling /\ odd' = odd
  <2>1. PICK o \in Fates :
       /\ Asked(o, {})
       /\ dev' = IF Took(o) THEN ForcedOff(dev) ELSE dev
       /\ IF ResetRaises(o) THEN Fail ELSE GotoLoop("poll")
    BY <1>1 DEF ForceOff
  <2>2. Clean /\ o = "done" /\ odd' = odd \union ({})
    BY <1>2, <2>1, CleanRequest DEF Asked
  <2> QED
    BY <1>1, <1>2, <2>1, <2>2, GoingTo, OrdersToMachine DEF CleanInv, NoFailure, Staging, Placed,
       Resting, Queue, Took, ResetRaises, Silent
<1>3. CleanInv'
  BY <1>1, <1>2 DEF CleanInv, NoFailure, Staging, Placed, Resting, Queue
<1>4. ASSUME Tidy(dev) PROVE Tidy(dev)'
  BY <1>1, <1>4, OrdersToMachine, TidyAfter DEF Tidy
<1>5. ASSUME Tidy(dev), BuiltInv, ByTheBook'
      PROVE  (Recorded /\ Ordered /\ Arms /\ Handed)'
  <2>1. ByTheBook /\ Clean'
    BY <1>1, <1>2, <1>5, BookStep
  <2>2. Recorded'
    BY <1>1, <1>2, <1>5, <2>1 DEF CleanInv, NoFailure, Staging, Placed, Resting, Queue, BuiltInv,
       ByTheBook, Recorded, Flashed, Booting, HandedOver
  <2>3. Ordered'
    BY <1>1, <1>2, <1>5, <2>1 DEF CleanInv, NoFailure, Staging, Placed, Resting, Queue, BuiltInv,
       ByTheBook, Ordered, OrderOK
  <2>4. Arms'
    BY <1>1, <1>2, <1>5, <2>1 DEF CleanInv, NoFailure, Staging, Placed, Resting, Queue, BuiltInv,
       ByTheBook, Ordered, Arms, OrderOK, Ready, NextMode, NextOnce, Armed
  <2>5. Handed'
    BY <1>1, <1>2, <1>5, <2>1 DEF CleanInv, NoFailure, Staging, Placed, Resting, Queue, BuiltInv,
       ByTheBook, Arms, Handed, HandedOver, OrderOK, Ready, Done, NextMode, NextOnce, Armed
  <2> QED
    BY <2>2, <2>3, <2>4, <2>5
<1> QED
  BY <1>3, <1>4, <1>5 DEF GoodInv, BuiltInv


LEMMA PollNotDownGood ==
  ASSUME RebuildInv, CleanInv, PollNotDown
  PROVE  CleanInv' /\ (GoodInv => GoodInv')
<1>1. /\ s.pc = "poll" /\ out = "running" /\ TypeOK /\ dev \in Machine
      /\ UNCHANGED <<dev, foreman, tenant, move, out>>
  BY DEF PollNotDown, Rest, RebuildInv, GateInv, At, TypeOK
<1>2. ASSUME Clean'
      PROVE  Clean /\ odd \subseteq odd' /\ To("on") /\ odd' = odd
  <2>1. PICK o \in Fates :
       /\ Asked(o, {})
       /\ PowerState(o) # "Down" => GotoLoop("on")
    BY <1>1 DEF PollNotDown
  <2>2. Clean /\ o = "done" /\ odd' = odd \union ({})
    BY <1>2, <2>1, CleanRequest DEF Asked
  <2> QED
    BY <1>1, <1>2, <2>1, <2>2, GoingTo, OrdersToMachine DEF CleanInv, NoFailure, Staging, Placed,
       Resting, Queue, PowerState
<1>3. CleanInv'
  BY <1>1, <1>2 DEF CleanInv, NoFailure, Staging, Placed, Resting, Queue
<1>4. ASSUME Tidy(dev) PROVE Tidy(dev)'
  BY <1>1, <1>4 DEF Tidy
<1>5. ASSUME Tidy(dev), BuiltInv, ByTheBook'
      PROVE  (Recorded /\ Ordered /\ Arms /\ Handed)'
  <2>1. ByTheBook /\ Clean'
    BY <1>1, <1>2, <1>5, BookStep
  <2>2. Recorded'
    BY <1>1, <1>2, <1>5, <2>1 DEF CleanInv, NoFailure, Staging, Placed, Resting, Queue, BuiltInv,
       ByTheBook, Recorded, Flashed, Booting, HandedOver
  <2>3. Ordered'
    BY <1>1, <1>2, <1>5, <2>1 DEF CleanInv, NoFailure, Staging, Placed, Resting, Queue, BuiltInv,
       ByTheBook, Ordered, OrderOK
  <2>4. Arms'
    BY <1>1, <1>2, <1>5, <2>1 DEF CleanInv, NoFailure, Staging, Placed, Resting, Queue, BuiltInv,
       ByTheBook, Ordered, Arms, OrderOK, Ready, NextMode, NextOnce, Armed
  <2>5. Handed'
    BY <1>1, <1>2, <1>5, <2>1 DEF CleanInv, NoFailure, Staging, Placed, Resting, Queue, BuiltInv,
       ByTheBook, Arms, Handed, HandedOver, OrderOK, Ready, Done, NextMode, NextOnce, Armed
  <2> QED
    BY <2>2, <2>3, <2>4, <2>5
<1> QED
  BY <1>3, <1>4, <1>5 DEF GoodInv, BuiltInv


LEMMA PowerBackOnGood ==
  ASSUME RebuildInv, CleanInv, PowerBackOn
  PROVE  CleanInv' /\ (GoodInv => GoodInv')
<1>1. /\ s.pc = "on" /\ out = "running" /\ TypeOK /\ dev \in Machine
      /\ UNCHANGED <<foreman, tenant, move, out>> /\ dev' \in {dev, TurnedOn(dev)}
  BY DEF PowerBackOn, Rest, RebuildInv, GateInv, At, TypeOK
<1>2. ASSUME Clean'
      PROVE  Clean /\ odd \subseteq odd' /\ To(IF s.stage = "prep" THEN "sleep" ELSE "record") /\ Starting /\ ~dev.falling /\ odd' = odd
  <2>1. PICK o \in Fates :
       /\ Asked(o, IF dev.falling THEN {"early"} ELSE {})
       /\ dev' = IF Took(o) THEN TurnedOn(dev) ELSE dev
       /\ IF ResetRaises(o) THEN Fail ELSE Rebooted
    BY <1>1 DEF PowerBackOn
  <2>2. Clean /\ o = "done" /\ odd' = odd \union IF dev.falling THEN {"early"} ELSE {}
    BY <1>2, <2>1, CleanRequest DEF Asked
  <2>3. ~dev.falling
    BY <1>2, <2>2 DEF Clean, Grounds
  <2> QED
    BY <1>1, <2>1, <2>2, <2>3, GoingTo, OrdersToMachine DEF ResetRaises, Silent, Rebooted, Took
<1>3. CleanInv'
  BY <1>1, <1>2 DEF CleanInv, NoFailure, Staging, Placed, Resting, Queue, TypeOK, Run
<1>4. ASSUME Tidy(dev) PROVE Tidy(dev)'
  BY <1>1, <1>4, OrdersToMachine, TidyAfter DEF Tidy
<1>5. ASSUME Tidy(dev), BuiltInv, ByTheBook'
      PROVE  (Recorded /\ Ordered /\ Arms /\ Handed)'
  <2>1. ByTheBook /\ Clean'
    BY <1>1, <1>2, <1>5, BookStep
  <2>2. Recorded'
    BY <1>1, <1>2, <1>5, <2>1 DEF CleanInv, NoFailure, Staging, Placed, Resting, Queue, BuiltInv,
       ByTheBook, Recorded, Flashed, Booting, HandedOver, TypeOK, Run
  <2>3. Ordered'
    BY <1>1, <1>2, <1>5, <2>1 DEF CleanInv, NoFailure, Staging, Placed, Resting, Queue, BuiltInv,
       ByTheBook, Ordered, OrderOK, TypeOK, Run
  <2>4. Arms'
    BY <1>1, <1>2, <1>5, <2>1 DEF CleanInv, NoFailure, Staging, Placed, Resting, Queue, BuiltInv,
       ByTheBook, Ordered, Arms, OrderOK, Ready, NextMode, NextOnce, Armed, TypeOK, Run
  <2>5. Handed'
    BY <1>1, <1>2, <1>5, <2>1 DEF CleanInv, NoFailure, Staging, Placed, Resting, Queue, BuiltInv,
       ByTheBook, Arms, Handed, HandedOver, OrderOK, Ready, Done, NextMode, NextOnce, Armed, TypeOK,
       Run
  <2> QED
    BY <2>2, <2>3, <2>4, <2>5
<1> QED
  BY <1>3, <1>4, <1>5 DEF GoodInv, BuiltInv


LEMMA WakeGood ==
  ASSUME RebuildInv, CleanInv, Wake
  PROVE  CleanInv' /\ (GoodInv => GoodInv')
<1>1. /\ s.pc = "sleep" /\ out = "running" /\ TypeOK /\ dev \in Machine
      /\ UNCHANGED <<dev, foreman, tenant, move, out>>
  BY DEF Wake, Rest, RebuildInv, GateInv, At, TypeOK
<1>2. ASSUME Clean'
      PROVE  Clean /\ odd \subseteq odd' /\ Settled /\ To("power") /\ odd' = odd
  <2>1. odd' = odd \union Slow
    BY DEF Wake
  <2> QED
    BY <1>1, <1>2, <2>1, GoingTo DEF Wake, Clean, Grounds, Slow
<1>3. CleanInv'
  BY <1>1, <1>2 DEF CleanInv, NoFailure, Staging, Placed, Resting, Queue
<1>4. ASSUME Tidy(dev) PROVE Tidy(dev)'
  BY <1>1, <1>4 DEF Tidy
<1>5. ASSUME Tidy(dev), BuiltInv, ByTheBook'
      PROVE  (Recorded /\ Ordered /\ Arms /\ Handed)'
  <2>1. ByTheBook /\ Clean'
    BY <1>1, <1>2, <1>5, BookStep
  <2>2. Recorded'
    BY <1>1, <1>2, <1>5, <2>1 DEF CleanInv, NoFailure, Staging, Placed, Resting, Queue, BuiltInv,
       ByTheBook, Recorded, Flashed, Booting, HandedOver
  <2>3. Ordered'
    BY <1>1, <1>2, <1>5, <2>1 DEF CleanInv, NoFailure, Staging, Placed, Resting, Queue, BuiltInv,
       ByTheBook, Ordered, OrderOK
  <2>4. Arms'
    BY <1>1, <1>2, <1>5, <2>1 DEF CleanInv, NoFailure, Staging, Placed, Resting, Queue, BuiltInv,
       ByTheBook, Ordered, Arms, OrderOK, Ready, NextMode, NextOnce, Armed
  <2>5. Handed'
    BY <1>1, <1>2, <1>5, <2>1 DEF CleanInv, NoFailure, Staging, Placed, Resting, Queue, BuiltInv,
       ByTheBook, Arms, Handed, HandedOver, OrderOK, Ready, Done, NextMode, NextOnce, Armed
  <2> QED
    BY <2>2, <2>3, <2>4, <2>5
<1> QED
  BY <1>3, <1>4, <1>5 DEF GoodInv, BuiltInv


LEMMA PowerOnGood ==
  ASSUME RebuildInv, CleanInv, PowerOn
  PROVE  CleanInv' /\ (GoodInv => GoodInv')
<1>1. /\ s.pc = "power" /\ out = "running" /\ TypeOK /\ dev \in Machine
      /\ UNCHANGED <<foreman, tenant, move, out>> /\ dev' \in {dev, TurnedOn(dev)}
  BY DEF PowerOn, Rest, RebuildInv, GateInv, At, TypeOK
<1>2. ASSUME Clean'
      PROVE  Clean /\ odd \subseteq odd' /\ To("mark") /\ Starting /\ ~dev.falling /\ odd' = odd
  <2>1. PICK o \in Fates :
       /\ Asked(o, IF dev.falling THEN {"early"} ELSE {})
       /\ dev' = IF Took(o) THEN TurnedOn(dev) ELSE dev
       /\ IF ResetRaises(o) THEN Fail ELSE GotoLoop("mark")
    BY <1>1 DEF PowerOn
  <2>2. Clean /\ o = "done" /\ odd' = odd \union IF dev.falling THEN {"early"} ELSE {}
    BY <1>2, <2>1, CleanRequest DEF Asked
  <2>3. ~dev.falling
    BY <1>2, <2>2 DEF Clean, Grounds
  <2> QED
    BY <1>1, <2>1, <2>2, <2>3, GoingTo, OrdersToMachine DEF ResetRaises, Silent, Took
<1>3. CleanInv'
  BY <1>1, <1>2 DEF CleanInv, NoFailure, Staging, Placed, Resting, Queue, TypeOK, Run
<1>4. ASSUME Tidy(dev) PROVE Tidy(dev)'
  BY <1>1, <1>4, OrdersToMachine, TidyAfter DEF Tidy
<1>5. ASSUME Tidy(dev), BuiltInv, ByTheBook'
      PROVE  (Recorded /\ Ordered /\ Arms /\ Handed)'
  <2>1. ByTheBook /\ Clean'
    BY <1>1, <1>2, <1>5, BookStep
  <2>2. Recorded'
    BY <1>1, <1>2, <1>5, <2>1 DEF CleanInv, NoFailure, Staging, Placed, Resting, Queue, BuiltInv,
       ByTheBook, Recorded, Flashed, Booting, HandedOver, TypeOK, Run
  <2>3. Ordered'
    BY <1>1, <1>2, <1>5, <2>1 DEF CleanInv, NoFailure, Staging, Placed, Resting, Queue, BuiltInv,
       ByTheBook, Ordered, OrderOK, TypeOK, Run
  <2>4. Arms'
    BY <1>1, <1>2, <1>5, <2>1 DEF CleanInv, NoFailure, Staging, Placed, Resting, Queue, BuiltInv,
       ByTheBook, Ordered, Arms, OrderOK, Ready, NextMode, NextOnce, Armed, TypeOK, Run
  <2>5. Handed'
    BY <1>1, <1>2, <1>5, <2>1 DEF CleanInv, NoFailure, Staging, Placed, Resting, Queue, BuiltInv,
       ByTheBook, Arms, Handed, HandedOver, OrderOK, Ready, Done, NextMode, NextOnce, Armed, TypeOK,
       Run
  <2> QED
    BY <2>2, <2>3, <2>4, <2>5
<1> QED
  BY <1>3, <1>4, <1>5 DEF GoodInv, BuiltInv


LEMMA MarkForBuildGood ==
  ASSUME RebuildInv, CleanInv, MarkForBuild
  PROVE  CleanInv' /\ (GoodInv => GoodInv')
<1>1. /\ s.pc = "mark" /\ out = "running" /\ TypeOK /\ dev \in Machine
      /\ UNCHANGED <<dev, tenant, move, out>>
  BY DEF MarkForBuild, Rest, RebuildInv, GateInv, At, TypeOK, Foreman, Missing
<1>2. ASSUME Clean'
      PROVE  Clean /\ odd \subseteq odd' /\ To("params") /\ foreman' = [foreman EXCEPT !.build = TRUE] /\ odd' = odd
  <2>1. PICK o \in Fates : Sent(o, TRUE, {}) /\ (o = "done" => ForemanDid("build", "params"))
    BY <1>1 DEF MarkForBuild, Foreman, ForemanDid, Took, Missing
  <2>2. Clean /\ o = "done" /\ odd' = odd
    BY <1>2, <2>1, ForemanAnswers
  <2> QED
    BY <1>1, <2>1, <2>2 DEF ForemanDid, TypeOK, Run, CleanInv, NoFailure
<1>3. CleanInv'
  BY <1>1, <1>2 DEF CleanInv, NoFailure, Staging, Placed, Resting, Queue, TypeOK
<1>4. ASSUME Tidy(dev) PROVE Tidy(dev)'
  BY <1>1, <1>4 DEF Tidy
<1>5. ASSUME Tidy(dev), BuiltInv, ByTheBook'
      PROVE  (Recorded /\ Ordered /\ Arms /\ Handed)'
  <2>1. ByTheBook /\ Clean'
    BY <1>1, <1>2, <1>5, BookStep
  <2>2. Recorded'
    BY <1>1, <1>2, <1>5, <2>1 DEF CleanInv, NoFailure, Staging, Placed, Resting, Queue, BuiltInv,
       ByTheBook, Recorded, Flashed, Booting, HandedOver, TypeOK
  <2>3. Ordered'
    BY <1>1, <1>2, <1>5, <2>1 DEF CleanInv, NoFailure, Staging, Placed, Resting, Queue, BuiltInv,
       ByTheBook, Ordered, OrderOK, TypeOK
  <2>4. Arms'
    BY <1>1, <1>2, <1>5, <2>1 DEF CleanInv, NoFailure, Staging, Placed, Resting, Queue, BuiltInv,
       ByTheBook, Ordered, Arms, OrderOK, Ready, NextMode, NextOnce, Armed, TypeOK
  <2>5. Handed'
    BY <1>1, <1>2, <1>5, <2>1 DEF CleanInv, NoFailure, Staging, Placed, Resting, Queue, BuiltInv,
       ByTheBook, Arms, Handed, HandedOver, OrderOK, Ready, Done, NextMode, NextOnce, Armed, TypeOK
  <2> QED
    BY <2>2, <2>3, <2>4, <2>5
<1> QED
  BY <1>3, <1>4, <1>5 DEF GoodInv, BuiltInv


LEMMA PutParametersGood ==
  ASSUME RebuildInv, CleanInv, PutParameters
  PROVE  CleanInv' /\ (GoodInv => GoodInv')
<1>1. /\ s.pc = "params" /\ out = "running" /\ TypeOK /\ dev \in Machine
      /\ UNCHANGED <<dev, tenant, move, out>>
  BY DEF PutParameters, Rest, RebuildInv, GateInv, At, TypeOK, Foreman, Missing
<1>2. ASSUME Clean'
      PROVE  Clean /\ odd \subseteq odd' /\ To("owner") /\ foreman' = [foreman EXCEPT !.os = TRUE] /\ odd' = odd
  <2>1. PICK o \in Fates : Sent(o, TRUE, {}) /\ (o = "done" => ForemanDid("os", "owner"))
    BY <1>1 DEF PutParameters, Foreman, ForemanDid, Took, Missing
  <2>2. Clean /\ o = "done" /\ odd' = odd
    BY <1>2, <2>1, ForemanAnswers
  <2> QED
    BY <1>1, <2>1, <2>2 DEF ForemanDid, TypeOK, Run, CleanInv, NoFailure
<1>3. CleanInv'
  BY <1>1, <1>2 DEF CleanInv, NoFailure, Staging, Placed, Resting, Queue, TypeOK
<1>4. ASSUME Tidy(dev) PROVE Tidy(dev)'
  BY <1>1, <1>4 DEF Tidy
<1>5. ASSUME Tidy(dev), BuiltInv, ByTheBook'
      PROVE  (Recorded /\ Ordered /\ Arms /\ Handed)'
  <2>1. ByTheBook /\ Clean'
    BY <1>1, <1>2, <1>5, BookStep
  <2>2. Recorded'
    BY <1>1, <1>2, <1>5, <2>1 DEF CleanInv, NoFailure, Staging, Placed, Resting, Queue, BuiltInv,
       ByTheBook, Recorded, Flashed, Booting, HandedOver, TypeOK
  <2>3. Ordered'
    BY <1>1, <1>2, <1>5, <2>1 DEF CleanInv, NoFailure, Staging, Placed, Resting, Queue, BuiltInv,
       ByTheBook, Ordered, OrderOK, TypeOK
  <2>4. Arms'
    BY <1>1, <1>2, <1>5, <2>1 DEF CleanInv, NoFailure, Staging, Placed, Resting, Queue, BuiltInv,
       ByTheBook, Ordered, Arms, OrderOK, Ready, NextMode, NextOnce, Armed, TypeOK
  <2>5. Handed'
    BY <1>1, <1>2, <1>5, <2>1 DEF CleanInv, NoFailure, Staging, Placed, Resting, Queue, BuiltInv,
       ByTheBook, Arms, Handed, HandedOver, OrderOK, Ready, Done, NextMode, NextOnce, Armed, TypeOK
  <2> QED
    BY <2>2, <2>3, <2>4, <2>5
<1> QED
  BY <1>3, <1>4, <1>5 DEF GoodInv, BuiltInv


LEMMA PutOwnerGood ==
  ASSUME RebuildInv, CleanInv, PutOwner
  PROVE  CleanInv' /\ (GoodInv => GoodInv')
<1>1. /\ s.pc = "owner" /\ out = "running" /\ TypeOK /\ dev \in Machine
      /\ UNCHANGED <<dev, tenant, move, out>>
  BY DEF PutOwner, Rest, RebuildInv, GateInv, At, TypeOK, Missing
<1>2. ASSUME Clean'
      PROVE  Clean /\ odd \subseteq odd' /\ To(IF dev.brand = "Supermicro" THEN "pxe" ELSE "media")
             /\ foreman' = [foreman EXCEPT !.owner = TRUE] /\ odd' = odd
  <2>1. PICK o \in Fates :
       /\ Sent(o, TRUE, {})
       /\ o = "done" => foreman' = [foreman EXCEPT !.owner = TRUE] /\ GotoLoop(AfterForeman)
    BY <1>1 DEF PutOwner, Took, Missing
  <2>2. Clean /\ o = "done" /\ odd' = odd
    BY <1>2, <2>1, ForemanAnswers
  <2> QED
    BY <1>1, <2>1, <2>2, GoingTo DEF AfterForeman, CleanInv, NoFailure
<1>3. CleanInv'
  BY <1>1, <1>2 DEF CleanInv, NoFailure, Staging, Placed, Resting, Queue, TypeOK
<1>4. ASSUME Tidy(dev) PROVE Tidy(dev)'
  BY <1>1, <1>4 DEF Tidy
<1>5. ASSUME Tidy(dev), BuiltInv, ByTheBook'
      PROVE  (Recorded /\ Ordered /\ Arms /\ Handed)'
  <2>1. ByTheBook /\ Clean'
    BY <1>1, <1>2, <1>5, BookStep
  <2>2. Recorded'
    BY <1>1, <1>2, <1>5, <2>1 DEF CleanInv, NoFailure, Staging, Placed, Resting, Queue, BuiltInv,
       ByTheBook, Recorded, Flashed, Booting, HandedOver, TypeOK
  <2>3. Ordered'
    BY <1>1, <1>2, <1>5, <2>1 DEF CleanInv, NoFailure, Staging, Placed, Resting, Queue, BuiltInv,
       ByTheBook, Ordered, OrderOK, TypeOK
  <2>4. Arms'
    BY <1>1, <1>2, <1>5, <2>1 DEF CleanInv, NoFailure, Staging, Placed, Resting, Queue, BuiltInv,
       ByTheBook, Ordered, Arms, OrderOK, Ready, NextMode, NextOnce, Armed, TypeOK
  <2>5. Handed'
    BY <1>1, <1>2, <1>5, <2>1 DEF CleanInv, NoFailure, Staging, Placed, Resting, Queue, BuiltInv,
       ByTheBook, Arms, Handed, HandedOver, OrderOK, Ready, Done, NextMode, NextOnce, Armed, TypeOK
  <2> QED
    BY <2>2, <2>3, <2>4, <2>5
<1> QED
  BY <1>3, <1>4, <1>5 DEF GoodInv, BuiltInv


LEMMA UnmountMediaGood ==
  ASSUME RebuildInv, CleanInv, UnmountMedia
  PROVE  CleanInv' /\ (GoodInv => GoodInv')
<1>1. /\ s.pc = "media" /\ out = "running" /\ TypeOK /\ dev \in Machine
      /\ UNCHANGED <<foreman, tenant, move, out>> /\ SameQueue
  BY DEF UnmountMedia, Rest, RebuildInv, GateInv, At, TypeOK, Machine
<1>2. ASSUME Clean'
      PROVE  Clean /\ odd \subseteq odd' /\ To("image") /\ Marked(dev.pxe, FALSE, dev.image) /\ odd' = odd
  <2>1. PICK o \in Fates :
       /\ Asked(o, {}) /\ dev' = [dev EXCEPT !.media = @ /\ ~Took(o)]
       /\ Goto("image")
    BY <1>1 DEF UnmountMedia
  <2>2. Clean /\ o = "done" /\ odd' = odd
    BY <1>2, <2>1, CleanRequest DEF Asked
  <2>3. dev' = [dev EXCEPT !.media = FALSE]
    BY <1>1, <2>1, <2>2 DEF Took, Machine
  <2> QED
    BY <1>1, <2>1, <2>2, <2>3, GoingTo, OrdersToMachine
<1>3. CleanInv'
  BY <1>1, <1>2 DEF CleanInv, NoFailure, Staging, Placed, Resting, Queue
<1>4. ASSUME Tidy(dev) PROVE Tidy(dev)'
  BY <1>1, <1>4 DEF Tidy
<1>5. ASSUME Tidy(dev), BuiltInv, ByTheBook'
      PROVE  (Recorded /\ Ordered /\ Arms /\ Handed)'
  <2>1. ByTheBook /\ Clean'
    BY <1>1, <1>2, <1>5, BookStep
  <2>2. Recorded'
    BY <1>1, <1>2, <1>5, <2>1 DEF CleanInv, NoFailure, Staging, Placed, Resting, Queue, BuiltInv,
       ByTheBook, Recorded, Flashed, Booting, HandedOver
  <2>3. Ordered'
    BY <1>1, <1>2, <1>5, <2>1 DEF CleanInv, NoFailure, Staging, Placed, Resting, Queue, BuiltInv,
       ByTheBook, Ordered, OrderOK
  <2>4. Arms'
    BY <1>1, <1>2, <1>5, <2>1 DEF CleanInv, NoFailure, Staging, Placed, Resting, Queue, BuiltInv,
       ByTheBook, Ordered, Arms, OrderOK, Ready, NextMode, NextOnce, Armed
  <2>5. Handed'
    BY <1>1, <1>2, <1>5, <2>1 DEF CleanInv, NoFailure, Staging, Placed, Resting, Queue, BuiltInv,
       ByTheBook, Arms, Handed, HandedOver, OrderOK, Ready, Done, NextMode, NextOnce, Armed
  <2> QED
    BY <2>2, <2>3, <2>4, <2>5
<1> QED
  BY <1>3, <1>4, <1>5 DEF GoodInv, BuiltInv


LEMMA DetachImageGood ==
  ASSUME RebuildInv, CleanInv, DetachImage
  PROVE  CleanInv' /\ (GoodInv => GoodInv')
<1>1. /\ s.pc = "image" /\ out = "running" /\ TypeOK /\ dev \in Machine
      /\ UNCHANGED <<foreman, tenant, move, out>> /\ SameQueue
  BY DEF DetachImage, Rest, RebuildInv, GateInv, At, TypeOK, Machine
<1>2. ASSUME Clean'
      PROVE  Clean /\ odd \subseteq odd' /\ To(IF dev.brand = "Dell" THEN "once" ELSE "pxe") /\ Marked(dev.pxe, dev.media, FALSE) /\ odd' = odd
  <2>1. PICK o \in Fates :
       /\ Asked(o, {}) /\ dev' = [dev EXCEPT !.image = @ /\ ~Took(o)]
       /\ GotoLoop(IF dev.brand = "Dell" THEN "once" ELSE "pxe")
    BY <1>1 DEF DetachImage
  <2>2. Clean /\ o = "done" /\ odd' = odd
    BY <1>2, <2>1, CleanRequest DEF Asked
  <2>3. dev' = [dev EXCEPT !.image = FALSE]
    BY <1>1, <2>1, <2>2 DEF Took, Machine
  <2> QED
    BY <1>1, <2>1, <2>2, <2>3, GoingTo, OrdersToMachine
<1>3. CleanInv'
  BY <1>1, <1>2 DEF CleanInv, NoFailure, Staging, Placed, Resting, Queue
<1>4. ASSUME Tidy(dev) PROVE Tidy(dev)'
  BY <1>1, <1>4 DEF Tidy
<1>5. ASSUME Tidy(dev), BuiltInv, ByTheBook'
      PROVE  (Recorded /\ Ordered /\ Arms /\ Handed)'
  <2>1. ByTheBook /\ Clean'
    BY <1>1, <1>2, <1>5, BookStep
  <2>2. Recorded'
    BY <1>1, <1>2, <1>5, <2>1 DEF CleanInv, NoFailure, Staging, Placed, Resting, Queue, BuiltInv,
       ByTheBook, Recorded, Flashed, Booting, HandedOver
  <2>3. Ordered'
    BY <1>1, <1>2, <1>5, <2>1 DEF CleanInv, NoFailure, Staging, Placed, Resting, Queue, BuiltInv,
       ByTheBook, Ordered, OrderOK
  <2>4. Arms'
    BY <1>1, <1>2, <1>5, <2>1 DEF CleanInv, NoFailure, Staging, Placed, Resting, Queue, BuiltInv,
       ByTheBook, Ordered, Arms, OrderOK, Ready, NextMode, NextOnce, Armed
  <2>5. Handed'
    BY <1>1, <1>2, <1>5, <2>1 DEF CleanInv, NoFailure, Staging, Placed, Resting, Queue, BuiltInv,
       ByTheBook, Arms, Handed, HandedOver, OrderOK, Ready, Done, NextMode, NextOnce, Armed
  <2> QED
    BY <2>2, <2>3, <2>4, <2>5
<1> QED
  BY <1>3, <1>4, <1>5 DEF GoodInv, BuiltInv


LEMMA PxePersistentGood ==
  ASSUME RebuildInv, CleanInv, PxePersistent
  PROVE  CleanInv' /\ (GoodInv => GoodInv')
<1>1. /\ s.pc = "pxe" /\ out = "running" /\ TypeOK /\ dev \in Machine
      /\ UNCHANGED <<foreman, tenant, move, out>> /\ SameQueue
  BY DEF PxePersistent, Rest, RebuildInv, GateInv, At, TypeOK, Machine
<1>2. ASSUME Clean'
      PROVE  Clean /\ odd \subseteq odd' /\ To("pxeoff") /\ Marked(TRUE, dev.media, dev.image) /\ odd' = odd
  <2>1. PICK o \in Fates :
       /\ Asked(o, {}) /\ dev' = [dev EXCEPT !.pxe = @ \/ Took(o)]
       /\ IF Executed(o) THEN Goto("pxeoff") ELSE Fail
    BY <1>1 DEF PxePersistent
  <2>2. Clean /\ o = "done" /\ odd' = odd
    BY <1>2, <2>1, CleanRequest DEF Asked
  <2>3. dev' = [dev EXCEPT !.pxe = TRUE]
    BY <1>1, <2>1, <2>2 DEF Took, Machine
  <2> QED
    BY <1>1, <2>1, <2>2, <2>3, GoingTo, OrdersToMachine DEF Executed
<1>3. CleanInv'
  BY <1>1, <1>2 DEF CleanInv, NoFailure, Staging, Placed, Resting, Queue
<1>4. ASSUME Tidy(dev) PROVE Tidy(dev)'
  BY <1>1, <1>4 DEF Tidy
<1>5. ASSUME Tidy(dev), BuiltInv, ByTheBook'
      PROVE  (Recorded /\ Ordered /\ Arms /\ Handed)'
  <2>1. ByTheBook /\ Clean'
    BY <1>1, <1>2, <1>5, BookStep
  <2>2. Recorded'
    BY <1>1, <1>2, <1>5, <2>1 DEF CleanInv, NoFailure, Staging, Placed, Resting, Queue, BuiltInv,
       ByTheBook, Recorded, Flashed, Booting, HandedOver
  <2>3. Ordered'
    BY <1>1, <1>2, <1>5, <2>1 DEF CleanInv, NoFailure, Staging, Placed, Resting, Queue, BuiltInv,
       ByTheBook, Ordered, OrderOK
  <2>4. Arms'
    BY <1>1, <1>2, <1>5, <2>1 DEF CleanInv, NoFailure, Staging, Placed, Resting, Queue, BuiltInv,
       ByTheBook, Ordered, Arms, OrderOK, Ready, NextMode, NextOnce, Armed
  <2>5. Handed'
    BY <1>1, <1>2, <1>5, <2>1 DEF CleanInv, NoFailure, Staging, Placed, Resting, Queue, BuiltInv,
       ByTheBook, Arms, Handed, HandedOver, OrderOK, Ready, Done, NextMode, NextOnce, Armed
  <2> QED
    BY <2>2, <2>3, <2>4, <2>5
<1> QED
  BY <1>3, <1>4, <1>5 DEF GoodInv, BuiltInv


LEMMA ResetOffGood ==
  ASSUME RebuildInv, CleanInv, ResetOff
  PROVE  CleanInv' /\ (GoodInv => GoodInv')
<1>1. /\ s.pc = "pxeoff" /\ out = "running" /\ TypeOK /\ dev \in Machine
      /\ UNCHANGED <<foreman, tenant, move, out>> /\ dev' \in {dev, ForcedOff(dev)}
  BY DEF ResetOff, Rest, RebuildInv, GateInv, At, TypeOK
<1>2. ASSUME Clean'
      PROVE  Clean /\ odd \subseteq odd' /\ To("pxeon") /\ Falling /\ odd' = odd
  <2>1. PICK o \in Fates :
       /\ Asked(o, {})
       /\ dev' = IF Took(o) THEN ForcedOff(dev) ELSE dev
       /\ IF Executed(o) THEN Goto("pxeon") ELSE Fail
    BY <1>1 DEF ResetOff
  <2>2. Clean /\ o = "done" /\ odd' = odd \union ({})
    BY <1>2, <2>1, CleanRequest DEF Asked
  <2> QED
    BY <1>1, <1>2, <2>1, <2>2, GoingTo, OrdersToMachine DEF CleanInv, NoFailure, Staging, Placed,
       Resting, Queue, Took, Executed
<1>3. CleanInv'
  BY <1>1, <1>2 DEF CleanInv, NoFailure, Staging, Placed, Resting, Queue
<1>4. ASSUME Tidy(dev) PROVE Tidy(dev)'
  BY <1>1, <1>4, OrdersToMachine, TidyAfter DEF Tidy
<1>5. ASSUME Tidy(dev), BuiltInv, ByTheBook'
      PROVE  (Recorded /\ Ordered /\ Arms /\ Handed)'
  <2>1. ByTheBook /\ Clean'
    BY <1>1, <1>2, <1>5, BookStep
  <2>2. Recorded'
    BY <1>1, <1>2, <1>5, <2>1 DEF CleanInv, NoFailure, Staging, Placed, Resting, Queue, BuiltInv,
       ByTheBook, Recorded, Flashed, Booting, HandedOver
  <2>3. Ordered'
    BY <1>1, <1>2, <1>5, <2>1 DEF CleanInv, NoFailure, Staging, Placed, Resting, Queue, BuiltInv,
       ByTheBook, Ordered, OrderOK
  <2>4. Arms'
    BY <1>1, <1>2, <1>5, <2>1 DEF CleanInv, NoFailure, Staging, Placed, Resting, Queue, BuiltInv,
       ByTheBook, Ordered, Arms, OrderOK, Ready, NextMode, NextOnce, Armed
  <2>5. Handed'
    BY <1>1, <1>2, <1>5, <2>1 DEF CleanInv, NoFailure, Staging, Placed, Resting, Queue, BuiltInv,
       ByTheBook, Arms, Handed, HandedOver, OrderOK, Ready, Done, NextMode, NextOnce, Armed
  <2> QED
    BY <2>2, <2>3, <2>4, <2>5
<1> QED
  BY <1>3, <1>4, <1>5 DEF GoodInv, BuiltInv


LEMMA ResetOnGood ==
  ASSUME RebuildInv, CleanInv, ResetOn
  PROVE  CleanInv' /\ (GoodInv => GoodInv')
<1>1. /\ s.pc = "pxeon" /\ out = "running" /\ TypeOK /\ dev \in Machine
      /\ UNCHANGED <<foreman, tenant, move, out>> /\ dev' \in {dev, TurnedOn(dev)}
  BY DEF ResetOn, Rest, RebuildInv, GateInv, At, TypeOK
<1>2. ASSUME Clean'
      PROVE  Clean /\ odd \subseteq odd' /\ To("record") /\ Starting /\ ~dev.falling /\ odd' = odd
  <2>1. PICK o \in Fates :
       /\ Asked(o, IF dev.falling THEN {"early"} ELSE {})
       /\ dev' = IF Took(o) THEN TurnedOn(dev) ELSE dev
       /\ IF Executed(o) THEN Goto("record") ELSE Fail
    BY <1>1 DEF ResetOn
  <2>2. Clean /\ o = "done" /\ odd' = odd \union IF dev.falling THEN {"early"} ELSE {}
    BY <1>2, <2>1, CleanRequest DEF Asked
  <2>3. ~dev.falling
    BY <1>2, <2>2 DEF Clean, Grounds
  <2> QED
    BY <1>1, <2>1, <2>2, <2>3, GoingTo, OrdersToMachine DEF Executed, Took
<1>3. CleanInv'
  BY <1>1, <1>2 DEF CleanInv, NoFailure, Staging, Placed, Resting, Queue, TypeOK, Run
<1>4. ASSUME Tidy(dev) PROVE Tidy(dev)'
  BY <1>1, <1>4, OrdersToMachine, TidyAfter DEF Tidy
<1>5. ASSUME Tidy(dev), BuiltInv, ByTheBook'
      PROVE  (Recorded /\ Ordered /\ Arms /\ Handed)'
  <2>1. ByTheBook /\ Clean'
    BY <1>1, <1>2, <1>5, BookStep
  <2>2. Recorded'
    BY <1>1, <1>2, <1>5, <2>1 DEF CleanInv, NoFailure, Staging, Placed, Resting, Queue, BuiltInv,
       ByTheBook, Recorded, Flashed, Booting, HandedOver, TypeOK, Run
  <2>3. Ordered'
    BY <1>1, <1>2, <1>5, <2>1 DEF CleanInv, NoFailure, Staging, Placed, Resting, Queue, BuiltInv,
       ByTheBook, Ordered, OrderOK, TypeOK, Run
  <2>4. Arms'
    BY <1>1, <1>2, <1>5, <2>1 DEF CleanInv, NoFailure, Staging, Placed, Resting, Queue, BuiltInv,
       ByTheBook, Ordered, Arms, OrderOK, Ready, NextMode, NextOnce, Armed, TypeOK, Run
  <2>5. Handed'
    BY <1>1, <1>2, <1>5, <2>1 DEF CleanInv, NoFailure, Staging, Placed, Resting, Queue, BuiltInv,
       ByTheBook, Arms, Handed, HandedOver, OrderOK, Ready, Done, NextMode, NextOnce, Armed, TypeOK,
       Run
  <2> QED
    BY <2>2, <2>3, <2>4, <2>5
<1> QED
  BY <1>3, <1>4, <1>5 DEF GoodInv, BuiltInv


(* A one-time boot that is set already counts only without a job.          *)
LEMMA IsOneTimeBootSetGood ==
  ASSUME RebuildInv, CleanInv, IsOneTimeBootSet
  PROVE  CleanInv' /\ (GoodInv => GoodInv')
<1>1. /\ s.pc = "once" /\ out = "running" /\ TypeOK /\ dev \in Machine
      /\ UNCHANGED <<dev, foreman, tenant, move, out>>
  BY DEF IsOneTimeBootSet, Rest, RebuildInv, GateInv, At, TypeOK
<1>2. ASSUME Clean'
      PROVE  Clean /\ odd \subseteq odd' /\ Settled
             /\ odd' = odd \union Slow \union (IF OneTimeSet(dev.mode) /\ (dev.once.device # Default \/ dev.job) THEN {"stale"} ELSE {})
             /\ s'.pc = (IF OneTimeSet(dev.mode) THEN "mode" ELSE "device")
             /\ s'.stage = "boot" /\ s'.seq = s.seq /\ s'.ok = s.ok
  <2>1. PICK o \in Fates, mode \in {dev.mode, "Bios"}, read \in BOOLEAN :
       /\ o = "done" => mode = dev.mode /\ read
       /\ Asked(o, Slow \union IF read /\ OneTimeSet(mode) /\ (dev.once.device # Default \/ dev.job) THEN {"stale"} ELSE {})
       /\ s' = [s EXCEPT !.pc = IF read /\ OneTimeSet(mode) THEN "mode" ELSE "device", !.stage = "boot", !.tries = 1]
    BY DEF IsOneTimeBootSet
  <2>2. Clean /\ o = "done" /\ odd' = odd \union Slow \union (IF OneTimeSet(dev.mode) /\ (dev.once.device # Default \/ dev.job) THEN {"stale"} ELSE {})
    BY <1>2, <2>1, CleanRequest DEF Asked
  <2>3. Settled
    BY <1>2, <2>2 DEF Clean, Grounds, Slow
  <2>4. s' = [s EXCEPT !.pc = IF OneTimeSet(dev.mode) THEN "mode" ELSE "device", !.stage = "boot", !.tries = 1]
    BY <2>1, <2>2
  <2>5. /\ s'.pc = (IF OneTimeSet(dev.mode) THEN "mode" ELSE "device")
        /\ s'.stage = "boot" /\ s'.seq = s.seq /\ s'.ok = s.ok
    BY <1>1, <2>4 DEF TypeOK, Run
  <2> QED
    BY <2>2, <2>3, <2>5
<1>3. CleanInv'
  BY <1>1, <1>2 DEF CleanInv, NoFailure, Staging, Placed, Resting, Queue
<1>4. ASSUME Tidy(dev) PROVE Tidy(dev)'
  BY <1>1, <1>4 DEF Tidy
<1>5. ASSUME Tidy(dev), BuiltInv, ByTheBook'
      PROVE  (Recorded /\ Ordered /\ Arms /\ Handed)'
  <2>1. ByTheBook /\ Clean'
    BY <1>1, <1>2, <1>5, BookStep
  <2>2a. OneTimeSet(dev.mode) => ~dev.job /\ dev.once = Armed(dev.mode)
    <3>1. "stale" \notin odd'
      BY <1>5 DEF ByTheBook
    <3>2. OneTimeSet(dev.mode) => ~dev.job /\ dev.once.device = Default /\ dev.once \in OneTime /\ dev.once.seq = dev.mode
      BY <1>1, <1>2, <2>1, <3>1 DEF OneTimeSet, Machine
    <3> QED
      BY <3>2 DEF OneTime, Armed
  <2>2. Recorded'
    BY <1>1, <1>2, <1>5, <2>1, <2>2a DEF CleanInv, NoFailure, Staging, Placed, Resting, Queue,
       BuiltInv, ByTheBook, Recorded, Flashed, Booting, HandedOver
  <2>3. Ordered'
    BY <1>1, <1>2, <1>5, <2>1, <2>2a DEF CleanInv, NoFailure, Staging, Placed, Resting, Queue,
       BuiltInv, ByTheBook, Ordered, OrderOK
  <2>4. Arms'
    <3>1. OneTimeSet(dev.mode) \/ s'.pc = "device"
      BY <1>2, <2>1
    <3>2. s'.seq = None /\ s'.stage = "boot" /\ "crossed" \notin odd'
      BY <1>1, <1>2, <1>5, <2>1 DEF BuiltInv, Arms, CleanInv, Staging, Slow
    <3> QED
      BY <1>1, <1>2, <2>1, <2>2a, <3>1, <3>2 DEF Arms, Armed
  <2>5. Handed'
    BY <1>1, <1>2, <1>5, <2>1, <2>2a DEF CleanInv, NoFailure, Staging, Placed, Resting, Queue,
       BuiltInv, ByTheBook, Arms, Handed, HandedOver, OrderOK, Ready, Done, NextMode, NextOnce,
       Armed
  <2> QED
    BY <2>2, <2>3, <2>4, <2>5
<1> QED
  BY <1>3, <1>4, <1>5 DEF GoodInv, BuiltInv


LEMMA CheckDeviceGood ==
  ASSUME RebuildInv, CleanInv, CheckDevice
  PROVE  CleanInv' /\ (GoodInv => GoodInv')
<1>1. /\ s.pc = "device" /\ out = "running" /\ TypeOK /\ dev \in Machine
      /\ UNCHANGED <<dev, foreman, tenant, move, out>>
  BY DEF CheckDevice, Rest, RebuildInv, GateInv, At, TypeOK
<1>2. ASSUME Clean'
      PROVE  Clean /\ odd \subseteq odd' /\ To("clear") /\ odd' = odd
  <2>1. PICK o \in Fates :
       Asked(o, {}) /\ IF DevicesRead(o) THEN Goto("clear") ELSE Fail
    BY <1>1 DEF CheckDevice
  <2>2. Clean /\ o = "done" /\ odd' = odd \union ({})
    BY <1>2, <2>1, CleanRequest DEF Asked
  <2> QED
    BY <1>1, <1>2, <2>1, <2>2, GoingTo, OrdersToMachine DEF CleanInv, NoFailure, Staging, Placed,
       Resting, Queue, DevicesRead
<1>3. CleanInv'
  BY <1>1, <1>2 DEF CleanInv, NoFailure, Staging, Placed, Resting, Queue
<1>4. ASSUME Tidy(dev) PROVE Tidy(dev)'
  BY <1>1, <1>4 DEF Tidy
<1>5. ASSUME Tidy(dev), BuiltInv, ByTheBook'
      PROVE  (Recorded /\ Ordered /\ Arms /\ Handed)'
  <2>1. ByTheBook /\ Clean'
    BY <1>1, <1>2, <1>5, BookStep
  <2>2. Recorded'
    BY <1>1, <1>2, <1>5, <2>1 DEF CleanInv, NoFailure, Staging, Placed, Resting, Queue, BuiltInv,
       ByTheBook, Recorded, Flashed, Booting, HandedOver
  <2>3. Ordered'
    BY <1>1, <1>2, <1>5, <2>1 DEF CleanInv, NoFailure, Staging, Placed, Resting, Queue, BuiltInv,
       ByTheBook, Ordered, OrderOK
  <2>4. Arms'
    BY <1>1, <1>2, <1>5, <2>1 DEF CleanInv, NoFailure, Staging, Placed, Resting, Queue, BuiltInv,
       ByTheBook, Ordered, Arms, OrderOK, Ready, NextMode, NextOnce, Armed
  <2>5. Handed'
    BY <1>1, <1>2, <1>5, <2>1 DEF CleanInv, NoFailure, Staging, Placed, Resting, Queue, BuiltInv,
       ByTheBook, Arms, Handed, HandedOver, OrderOK, Ready, Done, NextMode, NextOnce, Armed
  <2> QED
    BY <2>2, <2>3, <2>4, <2>5
<1> QED
  BY <1>3, <1>4, <1>5 DEF GoodInv, BuiltInv


LEMMA GetBootSeqGood ==
  ASSUME RebuildInv, CleanInv, GetBootSeq
  PROVE  CleanInv' /\ (GoodInv => GoodInv')
<1>1. /\ s.pc = "seq" /\ out = "running" /\ TypeOK /\ dev \in Machine
      /\ UNCHANGED <<dev, foreman, tenant, move, out>>
  BY DEF GetBootSeq, Rest, RebuildInv, GateInv, At, TypeOK
<1>2. ASSUME Clean'
      PROVE  Clean /\ odd \subseteq odd' /\ odd' = odd /\ s'.pc = "arm" /\ s'.stage = s.stage /\ s'.seq = dev.mode /\ s'.ok = s.ok
  <2>1. PICK o \in Fates :
       /\ Asked(o, {})
       /\ o = "done" => s' = [s EXCEPT !.pc = "arm", !.seq = dev.mode]
    BY <1>1 DEF GetBootSeq, Silent
  <2>2. Clean /\ o = "done" /\ odd' = odd \union ({})
    BY <1>2, <2>1, CleanRequest DEF Asked
  <2> QED
    BY <1>1, <1>2, <2>1, <2>2, GoingTo, OrdersToMachine DEF CleanInv, NoFailure, Staging, Placed,
       Resting, Queue, TypeOK, Run
<1>3. CleanInv'
  BY <1>1, <1>2, RebuildAssumption DEF CleanInv, NoFailure, Staging, Placed, Resting, Queue, Machine
<1>4. ASSUME Tidy(dev) PROVE Tidy(dev)'
  BY <1>1, <1>4 DEF Tidy
<1>5. ASSUME Tidy(dev), BuiltInv, ByTheBook'
      PROVE  (Recorded /\ Ordered /\ Arms /\ Handed)'
  <2>1. ByTheBook /\ Clean'
    BY <1>1, <1>2, <1>5, BookStep
  <2>2. Recorded'
    BY <1>1, <1>2, <1>5, <2>1, RebuildAssumption DEF CleanInv, NoFailure, Staging, Placed, Resting,
       Queue, BuiltInv, ByTheBook, Recorded, Flashed, Booting, HandedOver, Machine
  <2>3. Ordered'
    BY <1>1, <1>2, <1>5, <2>1, RebuildAssumption DEF CleanInv, NoFailure, Staging, Placed, Resting,
       Queue, BuiltInv, ByTheBook, Ordered, OrderOK, Machine
  <2>4. Arms'
    BY <1>1, <1>2, <1>5, <2>1, RebuildAssumption DEF CleanInv, NoFailure, Staging, Placed, Resting,
       Queue, BuiltInv, ByTheBook, Ordered, Arms, OrderOK, Ready, NextMode, NextOnce, Armed, Machine
  <2>5. Handed'
    BY <1>1, <1>2, <1>5, <2>1, RebuildAssumption DEF CleanInv, NoFailure, Staging, Placed, Resting,
       Queue, BuiltInv, ByTheBook, Arms, Handed, HandedOver, OrderOK, Ready, Done, NextMode,
       NextOnce, Armed, Machine
  <2> QED
    BY <2>2, <2>3, <2>4, <2>5
<1> QED
  BY <1>3, <1>4, <1>5 DEF GoodInv, BuiltInv


(* The queue is empty, so that nothing else comes with the one-time boot.  *)
LEMMA SendOneTimeBootGood ==
  ASSUME RebuildInv, CleanInv, SendOneTimeBoot
  PROVE  CleanInv' /\ (GoodInv => GoodInv')
<1>1. /\ s.pc = "arm" /\ out = "running" /\ TypeOK /\ dev \in Machine
      /\ UNCHANGED <<foreman, tenant, move, out>> /\ \E p : dev' \in {dev, Staged(dev, p)}
  BY DEF SendOneTimeBoot, Rest, RebuildInv, GateInv, At, TypeOK, PatchBios
<1>2. ASSUME Clean'
      PROVE  Clean /\ odd \subseteq odd' /\ To("job") /\ Queued(TRUE, [dev.pending EXCEPT !.once = OneTimeBoot]) /\ odd' = odd
  <2>1. PICK o \in Fates :
       /\ Asked(o, IF s.pc = "setmode" /\ ~(o = "bad" \/ (o = "done" /\ Refuses(dev))) THEN {"crossed"}
                   ELSE IF ~TRUE /\ Refuses(dev) THEN {"committed"} ELSE {})
       /\ dev' = IF Took(o) /\ ~Refuses(dev) THEN Staged(dev, [dev.pending EXCEPT !.once = OneTimeBoot]) ELSE dev
       /\ o = "done" /\ ~Refuses(dev) => Goto("job")
    BY <1>1 DEF SendOneTimeBoot, PatchBios
  <2>2. Clean /\ o = "done" /\ odd' = odd \union IF s.pc = "setmode" /\ ~(o = "bad" \/ (o = "done" /\ Refuses(dev))) THEN {"crossed"}
                   ELSE IF ~TRUE /\ Refuses(dev) THEN {"committed"} ELSE {}
    BY <1>2, <2>1, CleanRequest DEF Asked
  <2>3. ~Refuses(dev)
    BY <1>1, <1>2, <2>2 DEF Refuses, CleanInv, Queue
  <2> QED
    BY <1>1, <1>2, <2>1, <2>2, <2>3, GoingTo, OrdersToMachine DEF Took
<1>3. CleanInv'
  BY <1>1, <1>2 DEF CleanInv, NoFailure, Staging, Placed, Resting, Queue, OneTimeBoot, Armed,
     TypeOK, Machine, Pending
<1>4. ASSUME Tidy(dev) PROVE Tidy(dev)'
  BY <1>1, <1>4, OrdersToMachine, TidyAfter DEF Tidy
<1>5. ASSUME Tidy(dev), BuiltInv, ByTheBook'
      PROVE  (Recorded /\ Ordered /\ Arms /\ Handed)'
  <2>1. ByTheBook /\ Clean'
    BY <1>1, <1>2, <1>5, BookStep
  <2>2. Recorded'
    BY <1>1, <1>2, <1>5, <2>1 DEF CleanInv, NoFailure, Staging, Placed, Resting, Queue, BuiltInv,
       ByTheBook, Recorded, Flashed, Booting, HandedOver, OneTimeBoot, Armed, TypeOK, Machine,
       Pending, Tidy, NextMode, NextOnce
  <2>3. Ordered'
    BY <1>1, <1>2, <1>5, <2>1 DEF CleanInv, NoFailure, Staging, Placed, Resting, Queue, BuiltInv,
       ByTheBook, Ordered, OrderOK, OneTimeBoot, Armed, TypeOK, Machine, Pending, Tidy, NextMode,
       NextOnce
  <2>4. Arms'
    <3>1. s.seq = dev.mode /\ "crossed" \notin odd /\ dev.pending.mode = None
      BY <1>1, <1>2, <1>5, <2>1 DEF BuiltInv, Arms, CleanInv, Queue, Tidy
    <3>2. /\ dev'.job /\ dev'.mode = dev.mode
          /\ dev'.pending = [dev.pending EXCEPT !.once = [seq |-> s.seq, device |-> Default]]
      BY <1>2, <2>1 DEF OneTimeBoot
    <3>3. dev'.pending.mode = None /\ dev'.pending.once = Armed(dev.mode)
      BY <1>1, <3>1, <3>2 DEF Machine, Pending, Armed
    <3> QED
      BY <1>1, <1>2, <2>1, <3>1, <3>2, <3>3 DEF Arms, Armed
  <2>5. Handed'
    BY <1>1, <1>2, <1>5, <2>1 DEF CleanInv, NoFailure, Staging, Placed, Resting, Queue, BuiltInv,
       ByTheBook, Arms, Handed, HandedOver, OrderOK, Ready, Done, NextMode, NextOnce, Armed,
       OneTimeBoot, TypeOK, Machine, Pending, Tidy
  <2> QED
    BY <2>2, <2>3, <2>4, <2>5
<1> QED
  BY <1>3, <1>4, <1>5 DEF GoodInv, BuiltInv


(* From here on the one-time boot may be for another mode.                 *)
LEMMA SetBootmodeGood ==
  ASSUME RebuildInv, CleanInv, SetBootmode
  PROVE  CleanInv' /\ (GoodInv => GoodInv')
<1>1. /\ s.pc = "setmode" /\ out = "running" /\ TypeOK /\ dev \in Machine
      /\ UNCHANGED <<foreman, tenant, move, out>> /\ \E p : dev' \in {dev, Staged(dev, p)}
  BY DEF SetBootmode, Rest, RebuildInv, GateInv, At, TypeOK, PatchBios
<1>2. ASSUME Clean'
      PROVE  Clean /\ odd \subseteq odd' /\ To("reboot") /\ Queued(TRUE, [dev.pending EXCEPT !.mode = move.bootmode]) /\ odd' = odd \union {"crossed"}
  <2>1. PICK o \in Fates :
       /\ Asked(o, IF s.pc = "setmode" /\ ~(o = "bad" \/ (o = "done" /\ Refuses(dev))) THEN {"crossed"}
                   ELSE IF ~FALSE /\ Refuses(dev) THEN {"committed"} ELSE {})
       /\ dev' = IF Took(o) /\ ~Refuses(dev) THEN Staged(dev, [dev.pending EXCEPT !.mode = move.bootmode]) ELSE dev
       /\ o = "done" /\ ~Refuses(dev) => Goto("reboot")
    BY <1>1 DEF SetBootmode, PatchBios
  <2>2. Clean /\ o = "done" /\ odd' = odd \union IF s.pc = "setmode" /\ ~(o = "bad" \/ (o = "done" /\ Refuses(dev))) THEN {"crossed"}
                   ELSE IF ~FALSE /\ Refuses(dev) THEN {"committed"} ELSE {}
    BY <1>2, <2>1, CleanRequest DEF Asked
  <2>3. ~Refuses(dev)
    BY <1>1, <1>2, <2>2 DEF Clean, Grounds
  <2> QED
    BY <1>1, <1>2, <2>1, <2>2, <2>3, GoingTo, OrdersToMachine DEF Took
<1>3. CleanInv'
  BY <1>1, <1>2 DEF CleanInv, NoFailure, Staging, Placed, Resting, Queue, OneTimeBoot, Armed,
     TypeOK, Machine, Pending
<1>4. ASSUME Tidy(dev) PROVE Tidy(dev)'
  BY <1>1, <1>4, OrdersToMachine, TidyAfter DEF Tidy
<1>5. ASSUME Tidy(dev), BuiltInv, ByTheBook'
      PROVE  (Recorded /\ Ordered /\ Arms /\ Handed)'
  <2>1. ByTheBook /\ Clean'
    BY <1>1, <1>2, <1>5, BookStep
  <2>2. Recorded'
    BY <1>1, <1>2, <1>5, <2>1 DEF CleanInv, NoFailure, Staging, Placed, Resting, Queue, BuiltInv,
       ByTheBook, Recorded, Flashed, Booting, HandedOver, OneTimeBoot, Armed, TypeOK, Machine,
       Pending, Tidy, NextMode, NextOnce
  <2>3. Ordered'
    BY <1>1, <1>2, <1>5, <2>1 DEF CleanInv, NoFailure, Staging, Placed, Resting, Queue, BuiltInv,
       ByTheBook, Ordered, OrderOK, OneTimeBoot, Armed, TypeOK, Machine, Pending, Tidy, NextMode,
       NextOnce
  <2>4. Arms'
    <3>1. /\ dev'.job /\ dev'.pending.mode = move.bootmode
          /\ dev'.pending.order = dev.pending.order /\ AsSet /\ "crossed" \in odd'
      BY <1>1, <1>2, <2>1 DEF Machine, Pending
    <3>2. OrderOK
      BY <1>1, <1>5, <2>1 DEF BuiltInv, Ordered
    <3>3. Ready'
      BY <1>1, <3>1, <3>2 DEF Ready, OrderOK, NextMode
    <3>4. s'.stage = "boot" /\ s'.pc = "reboot"
      BY <1>1, <1>2, <2>1 DEF CleanInv, Staging
    <3> QED
      BY <3>3, <3>4 DEF Arms
  <2>5. Handed'
    BY <1>1, <1>2, <1>5, <2>1 DEF CleanInv, NoFailure, Staging, Placed, Resting, Queue, BuiltInv,
       ByTheBook, Arms, Handed, HandedOver, OrderOK, Ready, Done, NextMode, NextOnce, Armed,
       OneTimeBoot, TypeOK, Machine, Pending, Tidy
  <2> QED
    BY <2>2, <2>3, <2>4, <2>5
<1> QED
  BY <1>3, <1>4, <1>5 DEF GoodInv, BuiltInv


LEMMA ResetIdracGood ==
  ASSUME RebuildInv, CleanInv, ResetIdrac
  PROVE  CleanInv' /\ (GoodInv => GoodInv')
<1>1. /\ s.pc = "reset" /\ out = "running" /\ TypeOK /\ dev \in Machine
      /\ UNCHANGED <<foreman, tenant, move, out>> /\ SameQueue
  BY DEF ResetIdrac, Rest, RebuildInv, GateInv, At, TypeOK, Machine
<1>2. ASSUME Clean'
      PROVE  Clean /\ odd \subseteq odd' /\ FALSE
  <2>1. PICK o \in Fates : Asked(o, {})
    BY <1>1 DEF ResetIdrac
  <2>2. Clean
    BY <1>2, <2>1, CleanRequest DEF Asked
  <2> QED
    BY <1>1, <2>2 DEF CleanInv, NoFailure
<1>3. CleanInv'
  BY <1>1, <1>2 DEF CleanInv, NoFailure, Staging, Placed, Resting, Queue
<1>4. ASSUME Tidy(dev) PROVE Tidy(dev)'
  BY <1>1, <1>4 DEF Tidy
<1>5. ASSUME Tidy(dev), BuiltInv, ByTheBook'
      PROVE  (Recorded /\ Ordered /\ Arms /\ Handed)'
  <2>1. ByTheBook /\ Clean'
    BY <1>1, <1>2, <1>5, BookStep
  <2>2. Recorded'
    BY <1>1, <1>2, <1>5, <2>1 DEF CleanInv, NoFailure, Staging, Placed, Resting, Queue, BuiltInv,
       ByTheBook, Recorded, Flashed, Booting, HandedOver
  <2>3. Ordered'
    BY <1>1, <1>2, <1>5, <2>1 DEF CleanInv, NoFailure, Staging, Placed, Resting, Queue, BuiltInv,
       ByTheBook, Ordered, OrderOK
  <2>4. Arms'
    BY <1>1, <1>2, <1>5, <2>1 DEF CleanInv, NoFailure, Staging, Placed, Resting, Queue, BuiltInv,
       ByTheBook, Ordered, Arms, OrderOK, Ready, NextMode, NextOnce, Armed
  <2>5. Handed'
    BY <1>1, <1>2, <1>5, <2>1 DEF CleanInv, NoFailure, Staging, Placed, Resting, Queue, BuiltInv,
       ByTheBook, Arms, Handed, HandedOver, OrderOK, Ready, Done, NextMode, NextOnce, Armed
  <2> QED
    BY <2>2, <2>3, <2>4, <2>5
<1> QED
  BY <1>3, <1>4, <1>5 DEF GoodInv, BuiltInv


LEMMA PollOnGood ==
  ASSUME RebuildInv, CleanInv, PollOn
  PROVE  CleanInv' /\ (GoodInv => GoodInv')
<1>1. /\ s.pc = "back" /\ out = "running" /\ TypeOK /\ dev \in Machine
      /\ UNCHANGED <<dev, foreman, tenant, move, out>>
  BY DEF PollOn, Rest, RebuildInv, GateInv, At, TypeOK
<1>2. ASSUME Clean'
      PROVE  Clean /\ odd \subseteq odd' /\ FALSE
  <2>1. PICK o \in Fates : Asked(o, {})
    BY <1>1 DEF PollOn
  <2>2. Clean
    BY <1>2, <2>1, CleanRequest DEF Asked
  <2> QED
    BY <1>1, <2>2 DEF CleanInv, NoFailure
<1>3. CleanInv'
  BY <1>1, <1>2 DEF CleanInv, NoFailure, Staging, Placed, Resting, Queue
<1>4. ASSUME Tidy(dev) PROVE Tidy(dev)'
  BY <1>1, <1>4 DEF Tidy
<1>5. ASSUME Tidy(dev), BuiltInv, ByTheBook'
      PROVE  (Recorded /\ Ordered /\ Arms /\ Handed)'
  <2>1. ByTheBook /\ Clean'
    BY <1>1, <1>2, <1>5, BookStep
  <2>2. Recorded'
    BY <1>1, <1>2, <1>5, <2>1 DEF CleanInv, NoFailure, Staging, Placed, Resting, Queue, BuiltInv,
       ByTheBook, Recorded, Flashed, Booting, HandedOver
  <2>3. Ordered'
    BY <1>1, <1>2, <1>5, <2>1 DEF CleanInv, NoFailure, Staging, Placed, Resting, Queue, BuiltInv,
       ByTheBook, Ordered, OrderOK
  <2>4. Arms'
    BY <1>1, <1>2, <1>5, <2>1 DEF CleanInv, NoFailure, Staging, Placed, Resting, Queue, BuiltInv,
       ByTheBook, Ordered, Arms, OrderOK, Ready, NextMode, NextOnce, Armed
  <2>5. Handed'
    BY <1>1, <1>2, <1>5, <2>1 DEF CleanInv, NoFailure, Staging, Placed, Resting, Queue, BuiltInv,
       ByTheBook, Arms, Handed, HandedOver, OrderOK, Ready, Done, NextMode, NextOnce, Armed
  <2> QED
    BY <2>2, <2>3, <2>4, <2>5
<1> QED
  BY <1>3, <1>4, <1>5 DEF GoodInv, BuiltInv


(* The mode that is read is the one the machine will start with.           *)
LEMMA ApplyBootmodeGood ==
  ASSUME RebuildInv, CleanInv, ApplyBootmode
  PROVE  CleanInv' /\ (GoodInv => GoodInv')
<1>1. /\ s.pc = "mode" /\ out = "running" /\ TypeOK /\ dev \in Machine
      /\ UNCHANGED <<dev, foreman, tenant, move, out>>
  BY DEF ApplyBootmode, Rest, RebuildInv, GateInv, At, TypeOK, Quiet
<1>2. ASSUME Clean'
      PROVE  Clean /\ odd \subseteq odd' /\ odd' = odd
             /\ \/ To("reboot") /\ move.bootmode \in {None, dev.mode}
                \/ To("setmode")
  <2>1. CASE move.bootmode = None
    BY <1>1, <1>2, <2>1, GoingTo DEF ApplyBootmode, Quiet, Clean
  <2>2. CASE move.bootmode # None
    <3>1. PICK o \in Fates :
         /\ Asked(o, {})
         /\ o = "done" => IF dev.mode = None THEN Fail
                          ELSE IF dev.mode = move.bootmode THEN GotoLoop("reboot") ELSE GotoLoop("setmode")
      BY <1>1, <2>2 DEF ApplyBootmode, Attribute
    <3>2. Clean /\ o = "done" /\ odd' = odd
      BY <1>2, <3>1, CleanRequest DEF Asked
    <3> QED
      BY <1>1, <3>1, <3>2, GoingTo, RebuildAssumption DEF Machine
  <2> QED
    BY <2>1, <2>2
<1>3. CleanInv'
  BY <1>1, <1>2, RebuildAssumption DEF CleanInv, NoFailure, Staging, Placed, Resting, Queue
<1>4. ASSUME Tidy(dev) PROVE Tidy(dev)'
  BY <1>1, <1>4 DEF Tidy
<1>5. ASSUME Tidy(dev), BuiltInv, ByTheBook'
      PROVE  (Recorded /\ Ordered /\ Arms /\ Handed)'
  <2>1. ByTheBook /\ Clean'
    BY <1>1, <1>2, <1>5, BookStep
  <2>2. Recorded'
    BY <1>1, <1>2, <1>5, <2>1, RebuildAssumption DEF CleanInv, NoFailure, Staging, Placed, Resting,
       Queue, BuiltInv, ByTheBook, Recorded, Flashed, Booting, HandedOver, NextMode, NextOnce,
       Armed, Machine
  <2>3. Ordered'
    BY <1>1, <1>2, <1>5, <2>1, RebuildAssumption DEF CleanInv, NoFailure, Staging, Placed, Resting,
       Queue, BuiltInv, ByTheBook, Ordered, OrderOK, NextMode, NextOnce, Armed, Machine
  <2>4. Arms'
    <3>1. "crossed" \notin odd' /\ s.stage = "boot" /\ s'.stage = "boot" /\ s'.seq = s.seq /\ OrderOK
      BY <1>1, <1>2, <1>5, <2>1 DEF BuiltInv, Arms, Ordered, CleanInv, Staging
    <3>2. /\ s.seq # None => dev.job /\ dev.pending.once = Armed(dev.mode) /\ dev.pending.mode = None
          /\ s.seq = None => ~dev.job /\ dev.once = Armed(dev.mode)
      BY <1>1, <1>5, <2>1, <3>1 DEF BuiltInv, Arms
    <3>3. NextMode = dev.mode /\ NextOnce = Armed(dev.mode)
      BY <1>1, <3>2, ArmedIs DEF NextMode, NextOnce, Machine
    <3>4. CASE To("reboot") /\ move.bootmode \in {None, dev.mode}
      <4>1. Ready'
        BY <1>1, <3>1, <3>3, <3>4 DEF Ready, OrderOK, NextMode, NextOnce, Armed
      <4> QED
        BY <3>1, <3>4, <4>1 DEF Arms
    <3>5. CASE To("setmode")
      BY <1>1, <3>1, <3>2, <3>5 DEF Arms, Armed
    <3> QED
      BY <1>2, <2>1, <3>4, <3>5
  <2>5. Handed'
    BY <1>1, <1>2, <1>5, <2>1, RebuildAssumption DEF CleanInv, NoFailure, Staging, Placed, Resting,
       Queue, BuiltInv, ByTheBook, Arms, Handed, HandedOver, OrderOK, Ready, Done, NextMode,
       NextOnce, Armed, Machine
  <2> QED
    BY <2>2, <2>3, <2>4, <2>5
<1> QED
  BY <1>3, <1>4, <1>5 DEF GoodInv, BuiltInv


LEMMA PowerOffGood ==
  ASSUME RebuildInv, CleanInv, PowerOff
  PROVE  CleanInv' /\ (GoodInv => GoodInv')
<1>1. /\ s.pc = "home" /\ out = "running" /\ TypeOK /\ dev \in Machine
      /\ UNCHANGED <<foreman, tenant, move, out>> /\ dev' \in {dev, ForcedOff(dev)}
  BY DEF PowerOff, Rest, RebuildInv, GateInv, At, TypeOK
<1>2. ASSUME Clean'
      PROVE  Clean /\ odd \subseteq odd' /\ To("record") /\ Falling /\ odd' = odd
  <2>1. PICK o \in Fates :
       /\ Asked(o, {})
       /\ dev' = IF Took(o) THEN ForcedOff(dev) ELSE dev
       /\ o = "done" => GotoLoop("record")
    BY <1>1 DEF PowerOff
  <2>2. Clean /\ o = "done" /\ odd' = odd \union ({})
    BY <1>2, <2>1, CleanRequest DEF Asked
  <2> QED
    BY <1>1, <1>2, <2>1, <2>2, GoingTo, OrdersToMachine DEF CleanInv, NoFailure, Staging, Placed,
       Resting, Queue, Took
<1>3. CleanInv'
  BY <1>1, <1>2 DEF CleanInv, NoFailure, Staging, Placed, Resting, Queue
<1>4. ASSUME Tidy(dev) PROVE Tidy(dev)'
  BY <1>1, <1>4, OrdersToMachine, TidyAfter DEF Tidy
<1>5. ASSUME Tidy(dev), BuiltInv, ByTheBook'
      PROVE  (Recorded /\ Ordered /\ Arms /\ Handed)'
  <2>1. ByTheBook /\ Clean'
    BY <1>1, <1>2, <1>5, BookStep
  <2>2. Recorded'
    BY <1>1, <1>2, <1>5, <2>1 DEF CleanInv, NoFailure, Staging, Placed, Resting, Queue, BuiltInv,
       ByTheBook, Recorded, Flashed, Booting, HandedOver
  <2>3. Ordered'
    BY <1>1, <1>2, <1>5, <2>1 DEF CleanInv, NoFailure, Staging, Placed, Resting, Queue, BuiltInv,
       ByTheBook, Ordered, OrderOK
  <2>4. Arms'
    BY <1>1, <1>2, <1>5, <2>1 DEF CleanInv, NoFailure, Staging, Placed, Resting, Queue, BuiltInv,
       ByTheBook, Ordered, Arms, OrderOK, Ready, NextMode, NextOnce, Armed
  <2>5. Handed'
    BY <1>1, <1>2, <1>5, <2>1 DEF CleanInv, NoFailure, Staging, Placed, Resting, Queue, BuiltInv,
       ByTheBook, Arms, Handed, HandedOver, OrderOK, Ready, Done, NextMode, NextOnce, Armed
  <2> QED
    BY <2>2, <2>3, <2>4, <2>5
<1> QED
  BY <1>3, <1>4, <1>5 DEF GoodInv, BuiltInv


LEMMA RecordGood ==
  ASSUME RebuildInv, CleanInv, Record
  PROVE  CleanInv' /\ (GoodInv => GoodInv')
<1>1. /\ s.pc = "record" /\ out = "running" /\ TypeOK /\ dev \in Machine
      /\ UNCHANGED <<dev, foreman, tenant, move, odd>>
  BY DEF Record, Rest, RebuildInv, GateInv, At, TypeOK, Quiet
<1>2. ASSUME Clean'
      PROVE  Clean /\ odd \subseteq odd' /\ s'.pc = "idle" /\ s'.stage = "prep" /\ s'.seq = None /\ s'.ok /\ out' = "built"
  BY <1>1, <1>2 DEF Record, Idle, Clean
<1>3. CleanInv'
  BY <1>1, <1>2 DEF CleanInv, NoFailure, Staging, Placed, Resting, Queue
<1>4. ASSUME Tidy(dev) PROVE Tidy(dev)'
  BY <1>1, <1>4 DEF Tidy
<1>5. ASSUME Tidy(dev), BuiltInv, ByTheBook'
      PROVE  (Recorded /\ Ordered /\ Arms /\ Handed)'
  <2>1. ByTheBook /\ Clean'
    BY <1>1, <1>2, <1>5, BookStep
  <2>2. Recorded'
    BY <1>1, <1>2, <1>5, <2>1 DEF CleanInv, NoFailure, Staging, Placed, Resting, Queue, BuiltInv,
       ByTheBook, Recorded, Flashed, Booting, HandedOver
  <2>3. Ordered'
    BY <1>1, <1>2, <1>5, <2>1 DEF CleanInv, NoFailure, Staging, Placed, Resting, Queue, BuiltInv,
       ByTheBook, Ordered, OrderOK
  <2>4. Arms'
    BY <1>1, <1>2, <1>5, <2>1 DEF CleanInv, NoFailure, Staging, Placed, Resting, Queue, BuiltInv,
       ByTheBook, Ordered, Arms, OrderOK, Ready, NextMode, NextOnce, Armed
  <2>5. Handed'
    BY <1>1, <1>2, <1>5, <2>1 DEF CleanInv, NoFailure, Staging, Placed, Resting, Queue, BuiltInv,
       ByTheBook, Arms, Handed, HandedOver, OrderOK, Ready, Done, NextMode, NextOnce, Armed
  <2> QED
    BY <2>2, <2>3, <2>4, <2>5
<1> QED
  BY <1>3, <1>4, <1>5 DEF GoodInv, BuiltInv


LEMMA UpdateOnFailureGood ==
  ASSUME RebuildInv, CleanInv, UpdateOnFailure
  PROVE  CleanInv' /\ (GoodInv => GoodInv')
<1>1. /\ s.pc = "fail" /\ out = "running" /\ TypeOK /\ dev \in Machine
      /\ UNCHANGED <<dev, foreman, tenant, move, odd>>
  BY DEF UpdateOnFailure, Rest, RebuildInv, GateInv, At, TypeOK, Quiet
<1>2. ASSUME Clean'
      PROVE  Clean /\ odd \subseteq odd' /\ FALSE
  BY <1>1, <1>2 DEF CleanInv, NoFailure, Clean
<1>3. CleanInv'
  BY <1>1, <1>2 DEF CleanInv, NoFailure, Staging, Placed, Resting, Queue
<1>4. ASSUME Tidy(dev) PROVE Tidy(dev)'
  BY <1>1, <1>4 DEF Tidy
<1>5. ASSUME Tidy(dev), BuiltInv, ByTheBook'
      PROVE  (Recorded /\ Ordered /\ Arms /\ Handed)'
  <2>1. ByTheBook /\ Clean'
    BY <1>1, <1>2, <1>5, BookStep
  <2>2. Recorded'
    BY <1>1, <1>2, <1>5, <2>1 DEF CleanInv, NoFailure, Staging, Placed, Resting, Queue, BuiltInv,
       ByTheBook, Recorded, Flashed, Booting, HandedOver
  <2>3. Ordered'
    BY <1>1, <1>2, <1>5, <2>1 DEF CleanInv, NoFailure, Staging, Placed, Resting, Queue, BuiltInv,
       ByTheBook, Ordered, OrderOK
  <2>4. Arms'
    BY <1>1, <1>2, <1>5, <2>1 DEF CleanInv, NoFailure, Staging, Placed, Resting, Queue, BuiltInv,
       ByTheBook, Ordered, Arms, OrderOK, Ready, NextMode, NextOnce, Armed
  <2>5. Handed'
    BY <1>1, <1>2, <1>5, <2>1 DEF CleanInv, NoFailure, Staging, Placed, Resting, Queue, BuiltInv,
       ByTheBook, Arms, Handed, HandedOver, OrderOK, Ready, Done, NextMode, NextOnce, Armed
  <2> QED
    BY <2>2, <2>3, <2>4, <2>5
<1> QED
  BY <1>3, <1>4, <1>5 DEF GoodInv, BuiltInv


LEMMA DiesGood ==
  ASSUME RebuildInv, CleanInv, Dies
  PROVE  CleanInv' /\ (GoodInv => GoodInv')
<1>1. /\ s'.pc = "idle" /\ s'.stage = "prep" /\ s'.seq = None /\ s'.ok /\ out' = "died" /\ TypeOK /\ dev \in Machine
      /\ UNCHANGED <<dev, foreman, tenant, move, odd>>
  BY DEF Dies, Rest, RebuildInv, GateInv, At, TypeOK, Idle
<1>2. ASSUME Clean'
      PROVE  Clean /\ odd \subseteq odd' /\ TRUE
  BY <1>1, <1>2 DEF Clean
<1>3. CleanInv'
  BY <1>1, <1>2 DEF CleanInv, NoFailure, Staging, Placed, Resting, Queue
<1>4. ASSUME Tidy(dev) PROVE Tidy(dev)'
  BY <1>1, <1>4 DEF Tidy
<1>5. ASSUME Tidy(dev), BuiltInv, ByTheBook'
      PROVE  (Recorded /\ Ordered /\ Arms /\ Handed)'
  <2>1. ByTheBook /\ Clean'
    BY <1>1, <1>2, <1>5, BookStep
  <2>2. Recorded'
    BY <1>1, <1>2, <1>5, <2>1 DEF CleanInv, NoFailure, Staging, Placed, Resting, Queue, BuiltInv,
       ByTheBook, Recorded, Flashed, Booting, HandedOver
  <2>3. Ordered'
    BY <1>1, <1>2, <1>5, <2>1 DEF CleanInv, NoFailure, Staging, Placed, Resting, Queue, BuiltInv,
       ByTheBook, Ordered, OrderOK
  <2>4. Arms'
    BY <1>1, <1>2, <1>5, <2>1 DEF CleanInv, NoFailure, Staging, Placed, Resting, Queue, BuiltInv,
       ByTheBook, Ordered, Arms, OrderOK, Ready, NextMode, NextOnce, Armed
  <2>5. Handed'
    BY <1>1, <1>2, <1>5, <2>1 DEF CleanInv, NoFailure, Staging, Placed, Resting, Queue, BuiltInv,
       ByTheBook, Arms, Handed, HandedOver, OrderOK, Ready, Done, NextMode, NextOnce, Armed
  <2> QED
    BY <2>2, <2>3, <2>4, <2>5
<1> QED
  BY <1>3, <1>4, <1>5 DEF GoodInv, BuiltInv


LEMMA FallsGood ==
  ASSUME RebuildInv, CleanInv, Falls
  PROVE  CleanInv' /\ (GoodInv => GoodInv')
<1>1. /\ dev' = [dev EXCEPT !.falling = FALSE, !.on = FALSE, !.starting = FALSE] /\ dev.falling /\ TypeOK /\ dev \in Machine
      /\ UNCHANGED <<foreman, tenant, move, s, out, odd>>
  BY DEF Falls, Rest, RebuildInv, GateInv, At, TypeOK
<1>2. ASSUME Clean'
      PROVE  Clean /\ odd \subseteq odd' /\ TRUE
  BY <1>1, <1>2 DEF Clean
<1>3. CleanInv'
  BY <1>1, <1>2 DEF CleanInv, NoFailure, Staging, Placed, Resting, Queue, Machine
<1>4. ASSUME Tidy(dev) PROVE Tidy(dev)'
  BY <1>1, <1>4 DEF Tidy, Machine
<1>5. ASSUME Tidy(dev), BuiltInv, ByTheBook'
      PROVE  (Recorded /\ Ordered /\ Arms /\ Handed)'
  <2>1. ByTheBook /\ Clean'
    BY <1>1, <1>2, <1>5, BookStep
  <2>2. Recorded'
    BY <1>1, <1>2, <1>5, <2>1 DEF CleanInv, NoFailure, Staging, Placed, Resting, Queue, BuiltInv,
       ByTheBook, Recorded, Flashed, Booting, HandedOver, Machine, NextMode, NextOnce, Armed, Tidy
  <2>3. Ordered'
    BY <1>1, <1>2, <1>5, <2>1 DEF CleanInv, NoFailure, Staging, Placed, Resting, Queue, BuiltInv,
       ByTheBook, Ordered, OrderOK, Machine, NextMode, NextOnce, Armed, Tidy
  <2>4. Arms'
    BY <1>1, <1>2, <1>5, <2>1 DEF CleanInv, NoFailure, Staging, Placed, Resting, Queue, BuiltInv,
       ByTheBook, Ordered, Arms, OrderOK, Ready, NextMode, NextOnce, Armed, Machine, Tidy
  <2>5. Handed'
    BY <1>1, <1>2, <1>5, <2>1 DEF CleanInv, NoFailure, Staging, Placed, Resting, Queue, BuiltInv,
       ByTheBook, Arms, Handed, HandedOver, OrderOK, Ready, Done, NextMode, NextOnce, Armed,
       Machine, Tidy
  <2> QED
    BY <2>2, <2>3, <2>4, <2>5
<1> QED
  BY <1>3, <1>4, <1>5 DEF GoodInv, BuiltInv


LEMMA BmcReturnsGood ==
  ASSUME RebuildInv, CleanInv, BmcReturns
  PROVE  CleanInv' /\ (GoodInv => GoodInv')
<1>1. /\ dev' = [dev EXCEPT !.bmc = TRUE] /\ TypeOK /\ dev \in Machine
      /\ UNCHANGED <<foreman, tenant, move, s, out, odd>>
  BY DEF BmcReturns, Rest, RebuildInv, GateInv, At, TypeOK
<1>2. ASSUME Clean'
      PROVE  Clean /\ odd \subseteq odd' /\ TRUE
  BY <1>1, <1>2 DEF Clean
<1>3. CleanInv'
  BY <1>1, <1>2 DEF CleanInv, NoFailure, Staging, Placed, Resting, Queue, Machine
<1>4. ASSUME Tidy(dev) PROVE Tidy(dev)'
  BY <1>1, <1>4 DEF Tidy, Machine
<1>5. ASSUME Tidy(dev), BuiltInv, ByTheBook'
      PROVE  (Recorded /\ Ordered /\ Arms /\ Handed)'
  <2>1. ByTheBook /\ Clean'
    BY <1>1, <1>2, <1>5, BookStep
  <2>2. Recorded'
    BY <1>1, <1>2, <1>5, <2>1 DEF CleanInv, NoFailure, Staging, Placed, Resting, Queue, BuiltInv,
       ByTheBook, Recorded, Flashed, Booting, HandedOver, Machine, NextMode, NextOnce, Armed, Done
  <2>3. Ordered'
    BY <1>1, <1>2, <1>5, <2>1 DEF CleanInv, NoFailure, Staging, Placed, Resting, Queue, BuiltInv,
       ByTheBook, Ordered, OrderOK, Machine, NextMode, NextOnce, Armed, Done
  <2>4. Arms'
    BY <1>1, <1>2, <1>5, <2>1 DEF CleanInv, NoFailure, Staging, Placed, Resting, Queue, BuiltInv,
       ByTheBook, Ordered, Arms, OrderOK, Ready, NextMode, NextOnce, Armed, Machine, Done
  <2>5. Handed'
    BY <1>1, <1>2, <1>5, <2>1 DEF CleanInv, NoFailure, Staging, Placed, Resting, Queue, BuiltInv,
       ByTheBook, Arms, Handed, HandedOver, OrderOK, Ready, Done, NextMode, NextOnce, Armed, Machine
  <2> QED
    BY <2>2, <2>3, <2>4, <2>5
<1> QED
  BY <1>3, <1>4, <1>5 DEF GoodInv, BuiltInv


(* The machine starts with what its job was to set.                        *)
LEMMA StartsGood ==
  ASSUME RebuildInv, CleanInv, Starts
  PROVE  CleanInv' /\ (GoodInv => GoodInv')
<1>1. /\ dev.starting /\ MachineStarts /\ TypeOK /\ dev \in Machine
      /\ UNCHANGED <<foreman, tenant, move, s, out, odd>>
  BY DEF Starts, Rest, RebuildInv, GateInv, At, TypeOK, MachineStarts, NextMode, NextOnce,
     NextOrder, Given, NoPending, Machine
<1>2. ASSUME Clean'
      PROVE  Clean /\ odd \subseteq odd' /\ TRUE
  BY <1>1, <1>2 DEF Clean
<1>3. CleanInv'
  BY <1>1, <1>2 DEF CleanInv, NoFailure, Staging, Placed, Resting, Queue, MachineStarts, NextOrder,
     NoPending, Given, TypeOK, Machine
<1>4. ASSUME Tidy(dev) PROVE Tidy(dev)'
  BY <1>1, <1>4 DEF Tidy, MachineStarts, NoPending
<1>5. ASSUME Tidy(dev), BuiltInv, ByTheBook'
      PROVE  (Recorded /\ Ordered /\ Arms /\ Handed)'
  <2>1. ByTheBook /\ Clean'
    BY <1>1, <1>2, <1>5, BookStep
  <2>2. Recorded'
    BY <1>1, <1>2, <1>5, <2>1 DEF CleanInv, NoFailure, Staging, Placed, Resting, Queue, BuiltInv,
       ByTheBook, Recorded, Flashed, Booting, HandedOver, MachineStarts, NextOrder, NoPending,
       Given, TypeOK, Machine, NextMode, NextOnce, Armed, Done, OrderOK
  <2>3. Ordered'
    <3>1. CASE s.pc = "sleep"
      BY <1>1, <1>2, <1>5, <2>1, <3>1, OrderGiven DEF BuiltInv, Ordered, OrderOK, MachineStarts,
         NextOrder, NoPending, TypeOK
    <3>2. CASE s.pc # "sleep"
      BY <1>1, <1>2, <1>5, <2>1, <3>2, OrderGiven DEF BuiltInv, Ordered, OrderOK, MachineStarts,
         NextOrder, NoPending, TypeOK, CleanInv, Resting
    <3> QED
      BY <3>1, <3>2
  <2>4. Arms'
    BY <1>1, <1>2, <1>5, <2>1 DEF CleanInv, NoFailure, Staging, Placed, Resting, Queue, BuiltInv,
       ByTheBook, Ordered, Arms, OrderOK, Ready, NextMode, NextOnce, Armed, MachineStarts,
       NextOrder, NoPending, Given, TypeOK, Machine, Done
  <2>5. Handed'
    <3>1. Pc({"pxeoff", "pxeon"}) => dev'.pxe
      BY <1>1, <1>5, <2>1 DEF BuiltInv, Handed, MachineStarts
    <3>2. ASSUME HandedOver
          PROVE  /\ dev'.on /\ ~dev'.falling
                 /\ dev.brand = "Dell" => Done'
                 /\ dev.brand # "Dell" => dev'.pxe /\ dev'.from = "pxe"
      <4>1. dev.on /\ ~dev.falling /\ (dev.brand = "Dell" => Ready) /\ (dev.brand # "Dell" => dev.pxe)
        BY <1>1, <1>5, <2>1, <3>2 DEF BuiltInv, Handed
      <4>2. ASSUME dev.brand = "Dell" PROVE Done'
        <5>1. Ready
          BY <4>1, <4>2
        <5>2. OrderOK'
          BY <1>1, <5>1, OrderGiven DEF Ready, OrderOK, MachineStarts, NextOrder, NoPending, TypeOK
        <5>3. "crossed" \notin odd' => dev'.from \in {Default, "pxe"}
          BY <1>1, <5>1, ArmedIs, NextModeIs DEF Ready, MachineStarts, Armed
        <5> QED
          BY <1>1, <5>1, <5>2, <5>3 DEF Ready, Done, MachineStarts
      <4> QED
        BY <1>1, <4>1, <4>2 DEF MachineStarts
    <3> QED
      BY <1>1, <3>1, <3>2 DEF Handed, HandedOver, MachineStarts
  <2> QED
    BY <2>2, <2>3, <2>4, <2>5
<1> QED
  BY <1>3, <1>4, <1>5 DEF GoodInv, BuiltInv


LEMMA BeginGood ==
  ASSUME RebuildInv, Begin
  PROVE  CleanInv' /\ (GoodInv => GoodInv')
<1>1. /\ UNCHANGED <<dev, foreman, tenant, move>> /\ out' = "running" /\ odd' = {}
      /\ s'.pc = "enable" /\ s'.stage = "prep" /\ s'.seq = None /\ s'.ok
  BY DEF Begin, Idle
<1>2. CleanInv'
  BY <1>1 DEF CleanInv, NoFailure, Staging, Placed, Resting, Queue
<1>3. (Recorded /\ Ordered /\ Arms /\ Handed)'
  BY <1>1 DEF Recorded, Ordered, Arms, Handed, Flashed, Booting, HandedOver
<1> QED
  BY <1>1, <1>2, <1>3 DEF GoodInv, BuiltInv, Tidy

(* Every step keeps what a clean run knows.                                *)
LEMMA NextGood ==
  ASSUME RebuildInv, CleanInv, [Next]_vars
  PROVE  CleanInv' /\ (GoodInv => GoodInv')
<1>1. CASE EnableUser \/ ConfigureUser \/ Verify \/ ReGate \/ Gate
  BY <1>1, EnableUserGood, ConfigureUserGood, VerifyGood, ReGateGood, GateGood
<1>2. CASE Prepare \/ InitHardware \/ HostType \/ ListJobs \/ DeleteJobs
  BY <1>2, PrepareGood, InitHardwareGood, HostTypeGood, ListJobsGood, DeleteJobsGood
<1>3. CASE DeleteEach \/ PatchBootSeq \/ CreateJob \/ Reboot \/ ForceOff
  BY <1>3, DeleteEachGood, PatchBootSeqGood, CreateJobGood, RebootGood, ForceOffGood
<1>4. CASE PollNotDown \/ PowerBackOn \/ Wake \/ PowerOn \/ MarkForBuild
  BY <1>4, PollNotDownGood, PowerBackOnGood, WakeGood, PowerOnGood, MarkForBuildGood
<1>5. CASE PutParameters \/ PutOwner \/ UnmountMedia \/ DetachImage \/ PxePersistent
  BY <1>5, PutParametersGood, PutOwnerGood, UnmountMediaGood, DetachImageGood, PxePersistentGood
<1>6. CASE ResetOff \/ ResetOn \/ IsOneTimeBootSet \/ CheckDevice \/ GetBootSeq
  BY <1>6, ResetOffGood, ResetOnGood, IsOneTimeBootSetGood, CheckDeviceGood, GetBootSeqGood
<1>7. CASE SendOneTimeBoot \/ SetBootmode \/ ResetIdrac \/ PollOn \/ ApplyBootmode
  BY <1>7, SendOneTimeBootGood, SetBootmodeGood, ResetIdracGood, PollOnGood, ApplyBootmodeGood
<1>8. CASE PowerOff \/ Record \/ UpdateOnFailure \/ Begin
  BY <1>8, PowerOffGood, RecordGood, UpdateOnFailureGood, BeginGood
<1>9. CASE Falls \/ Starts \/ BmcReturns \/ Dies
  BY <1>9, FallsGood, StartsGood, BmcReturnsGood, DiesGood
<1>10. CASE UNCHANGED vars
  <2> USE <1>10 DEF vars
  <2>1. CleanInv'
    BY DEF CleanInv, Clean, NoFailure, Staging, Placed, Resting, Queue
  <2>2. Tidy(dev)' = Tidy(dev)
    BY DEF Tidy
  <2>3. BuiltInv' = BuiltInv
    BY DEF BuiltInv, ByTheBook, Recorded, Ordered, Arms, Handed, Flashed, Booting, HandedOver,
       OrderOK, Ready, Done, NextMode, NextOnce
  <2> QED
    BY <2>1, <2>2, <2>3 DEF GoodInv
<1> QED
  BY <1>1, <1>2, <1>3, <1>4, <1>5, <1>6, <1>7, <1>8, <1>9, <1>10 DEF Next, Step

(* Nothing has run yet.                                                    *)
LEMMA InitGood ==
  ASSUME Init
  PROVE  CleanInv /\ (Scheduled => GoodInv)
<1>1. CleanInv
  BY DEF Init, Idle, CleanInv, NoFailure, Staging, Placed, Resting, Queue
<1>2. BuiltInv
  BY DEF Init, Idle, BuiltInv, Recorded, Ordered, Arms, Handed, Flashed, Booting, HandedOver
<1>3. Scheduled => Tidy(dev)
  BY DEF Init, Scheduled, Tidy, NoPending
<1> QED
  BY <1>1, <1>2, <1>3 DEF GoodInv

(* A run without a failed request, on a machine that keeps up with the     *)
(* code's sleeps, fails only because the boot order was right already, or  *)
(* because the boot mode was to be set while a job was scheduled           *)
(* (FailsOnlyFor): whatever earlier runs, failed or killed, left behind.   *)
THEOREM FailsWithGrounds == Spec => []FailsOnlyFor
<1>1. Init => RebuildInv /\ CleanInv
  BY InitHolds, InitGood
<1>2. RebuildInv /\ CleanInv /\ [Next]_vars => (RebuildInv /\ CleanInv)'
  BY NextKeeps, NextGood
<1>3. CleanInv => FailsOnlyFor
  BY DEF CleanInv, NoFailure, Clean, Grounds, FailsOnlyFor
<1> QED
  BY <1>1, <1>2, <1>3, PTL DEF Spec

(* A machine handed over as rebuilt runs, was started from the network,    *)
(* with the boot order and the boot mode asked for, without media, and     *)
(* made ready in Foreman (BuiltAsAsked), whatever was left on it.          *)
THEOREM BuiltRight == Scheduled => (Spec => []BuiltAsAsked)
<1> SUFFICES ASSUME Scheduled PROVE Spec => []BuiltAsAsked
  OBVIOUS
<1>1. Init => RebuildInv /\ CleanInv /\ GoodInv
  BY InitHolds, InitGood
<1>2. RebuildInv /\ CleanInv /\ GoodInv /\ [Next]_vars => (RebuildInv /\ CleanInv /\ GoodInv)'
  BY NextKeeps, NextGood
<1>3. RebuildInv /\ GoodInv => BuiltAsAsked
  <2> SUFFICES ASSUME RebuildInv, GoodInv, out = "built", odd \subseteq {"crossed"}, Wiped, Settled
               PROVE  /\ dev.on /\ ("crossed" \notin odd => dev.from \in {Default, "pxe"})
                      /\ foreman.build /\ foreman.os /\ foreman.owner
                      /\ dev.brand = "Dell" =>
                           /\ dev.order = move.order \/ move.order = Default
                           /\ move.bootmode # None => dev.mode = move.bootmode
                      /\ dev.brand # "Supermicro" => ~dev.media /\ ~dev.image
    BY DEF BuiltAsAsked
  <2>1. HandedOver /\ Flashed /\ Recorded /\ Handed
    BY DEF GoodInv, BuiltInv, ByTheBook, HandedOver, Flashed
  <2>2. dev.on /\ (dev.brand = "Dell" => Done) /\ (dev.brand # "Dell" => dev.from = "pxe")
    BY <2>1 DEF Handed
  <2> QED
    BY <2>1, <2>2 DEF Recorded, Done, OrderOK
<1> QED
  BY <1>1, <1>2, <1>3, PTL DEF Spec
=============================================================================
