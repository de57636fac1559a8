-------------------------- MODULE LifecycleProofs --------------------------
(***************************************************************************)
(* Proofs about Lifecycle: neither job, whatever the order of their calls, *)
(* releases an environment that is not provisioned.                        *)
(***************************************************************************)
EXTENDS Lifecycle, TLAPS

(* The validator works on environments that were provisioned when it       *)
(* listed them, and nothing takes that back.                               *)
Listing == {"count", "assess", "grace", "system", "verify", "rewire", "wired", "hosts",
            "assignment", "close"}
FlagsOK == provisioned \in [Clouds -> BOOLEAN] /\ validated \in [Clouds -> BOOLEAN]
VRunOK ==
  /\ v = [pc |-> v.pc, todo |-> v.todo, at |-> v.at, hosts |-> v.hosts, bare |-> v.bare,
          left |-> v.left, target |-> v.target, ok |-> v.ok]
  /\ v.todo \subseteq Clouds
  /\ v.pc \in Listing \ {"count"} => v.at \in Clouds
  /\ v.pc \in Listing => \A c \in v.todo : provisioned[c]
  /\ v.pc \in Listing \ {"count"} => provisioned[v.at]
ReleaseInv == FlagsOK /\ ReleasedMeansProvisioned /\ VRunOK

LEMMA ReleaseInit == LifecycleInit => ReleaseInv
BY DEF LifecycleInit, Init, VIdle, ReleaseInv, FlagsOK, ReleasedMeansProvisioned, VRunOK, Listing

(* Marking an assignment as provisioned, or calling it no longer validated,*)
(* is all that the mover does to the two flags.                            *)
LEMMA MoverFlags ==
  ASSUME FlagsOK, Next
  PROVE  \/ UNCHANGED <<provisioned, validated>>
         \/ \E c : MarkProvisioned(c)
         \/ Unvalidate
<1>1. CASE \E h \in Hosts : Rebuild(h) \/ IpmiFails(h) \/ HardwareFails(h) \/ Raise(h)
  <2>1. PICK h \in Hosts : Rebuild(h) \/ IpmiFails(h) \/ HardwareFails(h) \/ Raise(h)
    BY <1>1
  <2>2. CASE Rebuild(h)
    BY <2>2 DEF Rebuild, Ipmi, HardwareBegin, HardwareEnd, HardwareDirect, Prepare, Record,
                world, assignments
  <2>3. CASE IpmiFails(h) \/ HardwareFails(h) \/ Raise(h)
    BY <2>3 DEF IpmiFails, HardwareFails, Fail, Raise, world, assignments
  <2> QED
    BY <2>1, <2>2, <2>3
<1>2. CASE SweepMark \/ Provision
  BY <1>2 DEF SweepMark, Provision, world, assignments
<1>3. CASE \/ GetMoves \/ Survey \/ SweepLook \/ EndSweep \/ NextCloud \/ Reset \/ Batch
           \/ SwitchLook \/ Configure \/ Flag \/ EndSwitch
  BY <1>3 DEF GetMoves, Survey, SweepLook, EndSweep, NextCloud, Reset, Batch, SwitchLook,
              Configure, Flag, EndSwitch, world, assignments
<1>4. CASE RetireLook \/ Deactivate \/ StartGather \/ Joined \/ Announce
  BY <1>4 DEF RetireLook, Deactivate, StartGather, Joined, Announce, world, assignments
<1>5. CASE BatchFails \/ SwitchLookFails \/ ConfigureFails \/ FlagFails \/ Crash
  BY <1>5 DEF BatchFails, SwitchLookFails, ConfigureFails, FlagFails, Crash, world, assignments
<1>6. CASE Tick \/ \E c \in Clouds : Terminate(c)
  BY <1>6 DEF Tick, Terminate, assignments
<1> QED
  BY <1>1, <1>2, <1>3, <1>4, <1>5, <1>6 DEF Next, Moving, Fault

LEMMA MoverReleases ==
  ASSUME ReleaseInv, MoverStep
  PROVE  ReleaseInv'
<1>1. FlagsOK /\ ReleasedMeansProvisioned /\ VRunOK /\ Next /\ v' = v
  BY DEF ReleaseInv, MoverStep
<1>2. /\ FlagsOK' /\ ReleasedMeansProvisioned'
      /\ \A c \in Clouds : provisioned[c] => provisioned'[c]
  <2>1. CASE UNCHANGED <<provisioned, validated>>
    BY <1>1, <2>1 DEF FlagsOK, ReleasedMeansProvisioned
  <2>2. CASE \E c : MarkProvisioned(c)
    BY <1>1, <2>2 DEF MarkProvisioned, FlagsOK, ReleasedMeansProvisioned
  <2>3. CASE Unvalidate
    BY <1>1, <2>3 DEF Unvalidate, FlagsOK, ReleasedMeansProvisioned
  <2> QED
    BY <1>1, <2>1, <2>2, <2>3, MoverFlags
<1>3. VRunOK'
  BY <1>1, <1>2 DEF VRunOK
<1> QED
  BY <1>2, <1>3 DEF ReleaseInv

(* The validator turns to the next of its environments.                    *)
LEMMA Turned ==
  ASSUME VRunOK, FlagsOK, NEW label \in {"promote", "count"}, NEW c, NextOf(label, c),
         label = "count" => v.pc \in Listing,
         \A d \in Clouds : provisioned[d] => provisioned'[d]
  PROVE  VRunOK'
<1>1. /\ v'.pc = label /\ v'.todo = v.todo \ {c}
      /\ v' = [pc |-> v'.pc, todo |-> v'.todo, at |-> v'.at, hosts |-> v'.hosts,
               bare |-> v'.bare, left |-> v'.left, target |-> v'.target, ok |-> v'.ok]
  BY DEF NextOf, VIdle
<1> QED
  BY <1>1 DEF VRunOK, Listing

(* It goes on with the one it has at hand.                                 *)
OnlyTested ==
  /\ v'.todo = v.todo /\ v'.at = v.at
  /\ v' = [pc |-> v'.pc, todo |-> v'.todo, at |-> v'.at, hosts |-> v'.hosts, bare |-> v'.bare,
           left |-> v'.left, target |-> v'.target, ok |-> v'.ok]

LEMMA WentOn ==
  ASSUME VRunOK, UNCHANGED provisioned, OnlyTested, v.pc \in Listing \ {"count"}
  PROVE  VRunOK'
BY DEF VRunOK, OnlyTested

(* It is not at work.                                                      *)
LEMMA VOver == v' = VIdle => VRunOK'
BY DEF VIdle, VRunOK, Listing

LEMMA ListingReleases ==
  ASSUME ReleaseInv,
         \/ VStart \/ Promote \/ PromoteMark \/ List \/ Count \/ VEnd \/ VCrash
  PROVE  ReleaseInv'
<1>1. FlagsOK /\ ReleasedMeansProvisioned /\ VRunOK
  BY DEF ReleaseInv
<1>2. CASE VStart
  <2>1. UNCHANGED <<provisioned, validated>>
    BY <1>2 DEF VStart, vars, world, assignments
  <2>2. /\ v'.pc = "promote" /\ v'.todo \subseteq Clouds
        /\ v' = [pc |-> v'.pc, todo |-> v'.todo, at |-> v'.at, hosts |-> v'.hosts,
                 bare |-> v'.bare, left |-> v'.left, target |-> v'.target, ok |-> v'.ok]
    BY <1>1, <1>2 DEF VStart, Others, VRunOK
  <2>3. VRunOK'
    BY <1>1, <2>1, <2>2 DEF VRunOK, Listing
  <2> QED
    BY <1>1, <2>1, <2>3 DEF ReleaseInv, FlagsOK, ReleasedMeansProvisioned
<1>3. CASE Promote
  <2>1. PICK c \in v.todo : \/ v' = [v EXCEPT !.pc = "promoting", !.at = c]
                            \/ NextOf("promote", c)
    BY <1>3 DEF Promote
  <2>2. UNCHANGED <<provisioned, validated>>
    BY <1>3 DEF Promote, vars, world, assignments
  <2>3. VRunOK'
    <3>1. CASE NextOf("promote", c)
      BY <1>1, <2>2, <3>1, Turned
    <3>2. CASE v' = [v EXCEPT !.pc = "promoting", !.at = c]
      BY <1>1, <3>2 DEF VRunOK, Listing
    <3> QED
      BY <2>1, <3>1, <3>2
  <2> QED
    BY <1>1, <2>2, <2>3 DEF ReleaseInv, FlagsOK, ReleasedMeansProvisioned
<1>4. CASE PromoteMark
  <2>1. /\ provisioned' = [provisioned EXCEPT ![v.at] = TRUE] /\ validated' = validated
        /\ NextOf("promote", v.at)
    BY <1>4 DEF PromoteMark
  <2>2. \A d \in Clouds : provisioned[d] => provisioned'[d]
    BY <1>1, <2>1 DEF FlagsOK
  <2>3. VRunOK'
    BY <1>1, <2>1, <2>2, Turned
  <2> QED
    BY <1>1, <2>1, <2>2, <2>3 DEF ReleaseInv, FlagsOK, ReleasedMeansProvisioned
<1>5. CASE List
  <2>1. /\ v' = [v EXCEPT !.pc = "count", !.todo = v'.todo] /\ v'.todo \subseteq Clouds
        /\ \A c \in v'.todo : provisioned[c]
        /\ UNCHANGED <<provisioned, validated>>
    BY <1>1, <1>5 DEF List, Others, VRunOK, vars, world, assignments
  <2>2. VRunOK'
    BY <1>1, <2>1 DEF VRunOK, Listing
  <2> QED
    BY <1>1, <2>1, <2>2 DEF ReleaseInv, FlagsOK, ReleasedMeansProvisioned
<1>6. CASE Count
  <2>1. PICK c \in v.todo : \/ v' = [v EXCEPT !.pc = "assess", !.at = c]
                            \/ NextOf("count", c)
    BY <1>6 DEF Count
  <2>2. v.pc = "count" /\ UNCHANGED <<provisioned, validated>>
    BY <1>6 DEF Count, VAt, vars, world, assignments
  <2>3. VRunOK'
    <3>1. CASE NextOf("count", c)
      BY <1>1, <2>2, <3>1, Turned DEF Listing
    <3>2. CASE v' = [v EXCEPT !.pc = "assess", !.at = c]
      BY <1>1, <2>2, <3>2 DEF VRunOK, Listing
    <3> QED
      BY <2>1, <3>1, <3>2
  <2> QED
    BY <1>1, <2>2, <2>3 DEF ReleaseInv, FlagsOK, ReleasedMeansProvisioned
<1>7. CASE VEnd \/ VCrash
  <2>1. v' = VIdle /\ UNCHANGED <<provisioned, validated>>
    BY <1>7 DEF VEnd, VCrash, vars, world, assignments
  <2> QED
    BY <1>1, <2>1, VOver DEF ReleaseInv, FlagsOK, ReleasedMeansProvisioned
<1> QED
  BY <1>2, <1>3, <1>4, <1>5, <1>6, <1>7

(* An environment is marked as validated when it is at hand.               *)
LEMMA ReleasesProvisioned ==
  ASSUME ReleaseInv, v.pc \in Listing \ {"count"},
         validated' \in {validated, [validated EXCEPT ![v.at] = TRUE]},
         UNCHANGED provisioned, VRunOK'
  PROVE  ReleaseInv'
BY DEF ReleaseInv, FlagsOK, ReleasedMeansProvisioned, VRunOK

LEMMA TestingReleases ==
  ASSUME ReleaseInv,
         \/ Assess \/ GraceCheck \/ System \/ SystemFails \/ Verify \/ Rewire \/ Wired
         \/ Network \/ NetworkFails \/ MarkHost \/ MarkHostFails \/ HostsDone
         \/ Release \/ ReleaseFails \/ Close
  PROVE  ReleaseInv'
<1>1. FlagsOK /\ VRunOK
  BY DEF ReleaseInv
<1>2. /\ v.pc \in Listing \ {"count"} /\ UNCHANGED provisioned
      /\ validated' \in {validated, [validated EXCEPT ![v.at] = TRUE]}
  BY DEF Assess, GraceCheck, System, SystemFails, Verify, Rewire, Wired, Network, NetworkFails,
         MarkHost, MarkHostFails, HostsDone, Release, ReleaseFails, Close, VAt, Listing,
         vars, world, assignments
<1>3. v' = VIdle \/ NextOf("count", v.at) \/ OnlyTested
  <2>1. CASE VGo(v'.pc)
    BY <1>1, <2>1 DEF VRunOK, VGo, OnlyTested
  <2>2. ASSUME NEW l \in {"hosts", "system", "verify", "wired", "assignment", "close"}, VGo(l)
        PROVE  VGo(v'.pc)
    BY <1>1, <2>2 DEF VGo, VRunOK
  <2>3. CASE Assess
    BY <1>1, <2>3 DEF Assess, VRunOK, OnlyTested
  <2>4. CASE GraceCheck \/ System \/ Rewire \/ HostsDone \/ Release
    BY <2>1, <2>2, <2>4 DEF GraceCheck, System, Rewire, HostsDone, Release
  <2>5. CASE Network \/ NetworkFails \/ ReleaseFails \/ Close
    BY <2>1, <2>2, <2>5 DEF Network, NetworkFails, ReleaseFails, Close
  <2>6. CASE SystemFails \/ Verify \/ Wired
    BY <1>1, <2>6 DEF SystemFails, Verify, Wired, VRunOK, OnlyTested
  <2>7. CASE MarkHost \/ MarkHostFails
    BY <1>1, <2>7 DEF MarkHost, MarkHostFails, VRunOK, OnlyTested
  <2> QED
    BY <2>3, <2>4, <2>5, <2>6, <2>7
<1>4. VRunOK'
  <2>1. CASE v' = VIdle
    BY <2>1, VOver
  <2>2. CASE NextOf("count", v.at)
    BY <1>1, <1>2, <2>2, Turned
  <2>3. CASE OnlyTested
    BY <1>1, <1>2, <2>3, WentOn
  <2> QED
    BY <1>3, <2>1, <2>2, <2>3
<1> QED
  BY <1>2, <1>4, ReleasesProvisioned

LEMMA ReleaseStep == ReleaseInv /\ [LifecycleNext]_all => ReleaseInv'
<1> SUFFICES ASSUME ReleaseInv, [LifecycleNext]_all PROVE ReleaseInv'
  OBVIOUS
<1>1. CASE MoverStep
  BY <1>1, MoverReleases
<1>2. CASE Validating
  BY <1>2, ListingReleases, TestingReleases, Zenon DEF Validating
<1>3. CASE VFault
  BY <1>3, ListingReleases, TestingReleases, Zenon DEF VFault
<1>4. CASE UNCHANGED all
  BY <1>4 DEF all, vars, world, assignments, ReleaseInv, FlagsOK, ReleasedMeansProvisioned, VRunOK
<1> QED
  BY <1>1, <1>2, <1>3, <1>4 DEF LifecycleNext

(* No environment counts as validated that neither job has marked as       *)
(* provisioned, for any number of clouds and faults, and in whatever order *)
(* the calls of the two jobs reach the server.                             *)
THEOREM ReleasedProvisioned == LifecycleSpec => []ReleasedMeansProvisioned
<1>1. ReleaseInv => ReleasedMeansProvisioned
  BY DEF ReleaseInv
<1> QED
  BY <1>1, ReleaseInit, ReleaseStep, PTL DEF LifecycleSpec
=============================================================================
