----------------------------- MODULE Lifecycle -----------------------------
(***************************************************************************)
(* An environment from booking to release: quads --move-hosts and quads    *)
(* --validate-env run beside each other, each under a lock of its own, and *)
(* meet only in the flags of hosts and assignments.  This module adds the  *)
(* validator to Mover.                                                     *)
(***************************************************************************)
EXTENDS Mover

CONSTANT Grace   \* validation_grace_period

ASSUME LifecycleAssumption == Grace \in Nat

VARIABLES
  v,        \* the run of the validator: see VRun
  passed    \* history: the hosts that passed the tests where they are now

all == <<vars, v, passed>>

(***************************************************************************)
(* A run of the validator: where it is, the clouds to do and the one       *)
(* `at` hand, its hosts as they were listed, those of them whose switch    *)
(* configuration was missing, those still to mark, the cloud the switch    *)
(* plugin found the host in, and whether nothing failed so far.            *)
(***************************************************************************)
VLabels == {"idle", "promote", "promoting", "count", "assess", "grace", "system", "verify",
            "rewire", "wired", "hosts", "assignment", "close"}
VRun == [pc : VLabels, todo : SUBSET Clouds, at : Clouds \union {None},
         hosts : SUBSET Hosts, bare : SUBSET Hosts, left : SUBSET Hosts,
         target : Clouds \union {None}, ok : BOOLEAN]
VIdle == [pc |-> "idle", todo |-> {}, at |-> None, hosts |-> {}, bare |-> {}, left |-> {},
          target |-> None, ok |-> TRUE]

LifecycleInit == Init /\ v = VIdle /\ passed = {}

VAt(label) == v.pc = label
VGo(label) == v' = [v EXCEPT !.pc = label]
Others == {c \in Clouds \ {Spare} : active[c] /\ ~validated[c]}

(* The run turns to the next cloud.                                        *)
NextOf(label, c) == v' = [VIdle EXCEPT !.pc = label, !.todo = v.todo \ {c}]

----------------------------------------------------------------------------
(* Assignments whose hosts have all been tested are marked as provisioned. *)

VStart ==
  /\ VAt("idle")
  /\ v' = [v EXCEPT !.pc = "promote", !.todo = {c \in Others : ~provisioned[c]}]
  /\ UNCHANGED <<vars, passed>>

(* A cloud without current schedules has no host that was not tested.      *)
Promote ==
  /\ VAt("promote")
  /\ \E c \in v.todo :
       IF \A s \in Current(c) : tested[s.host]
       THEN v' = [v EXCEPT !.pc = "promoting", !.at = c]
       ELSE NextOf("promote", c)
  /\ UNCHANGED <<vars, passed>>

PromoteMark ==
  /\ VAt("promoting")
  /\ provisioned' = [provisioned EXCEPT ![v.at] = TRUE]
  /\ NextOf("promote", v.at)
  /\ UNCHANGED <<now, active, validated, columns, machines, status, m, faults, passed>>

----------------------------------------------------------------------------
(* The environments to validate.                                           *)

(* Mutant: the filter on `provisioned` is dropped.                         *)
ListAll ==
  /\ VAt("promote") /\ v.todo = {}
  /\ v' = [v EXCEPT !.pc = "count", !.todo = Others]
  /\ UNCHANGED <<vars, passed>>

List ==
  /\ VAt("promote") /\ v.todo = {}
  /\ v' = [v EXCEPT !.pc = "count", !.todo = {c \in Others : provisioned[c]}]
  /\ UNCHANGED <<vars, passed>>

Count ==
  /\ VAt("count")
  /\ \E c \in v.todo :
       IF Current(c) = {} THEN NextOf("count", c)
       ELSE v' = [v EXCEPT !.pc = "assess", !.at = c]
  /\ UNCHANGED <<vars, passed>>

(* The hosts to test are those recorded in the cloud.                      *)
Listed == {h \in Hosts : cloud[h] = v.at /\ ~tested[h] /\ CurrentOf(h) # {}}

(* An assignment that was terminated meanwhile is None, and the run dies   *)
(* of it.                                                                  *)
Assess ==
  /\ VAt("assess")
  /\ \/ /\ ~active[v.at]
        /\ v' = VIdle
        /\ UNCHANGED validated
     \/ /\ active[v.at] /\ v.at \in Wiped
        /\ v' = [v EXCEPT !.pc = "grace", !.hosts = Listed, !.left = Listed,
                          !.bare = {h \in Listed : ~applied[h]}]
        /\ UNCHANGED validated
     \/ /\ active[v.at] /\ v.at \notin Wiped
        /\ validated' = [validated EXCEPT ![v.at] = TRUE]
        /\ NextOf("count", v.at)
  /\ UNCHANGED <<now, active, provisioned, columns, machines, status, m, faults, passed>>

VReport(s) ==
  status' = [t \in Schedules |->
               IF t.host \in v.hosts /\ t \in CurrentOf(t.host) THEN s ELSE status[t]]

(* The first of the cloud's schedules that the server lists decides.       *)
Exceeded(s) == now > s.start + Grace
GraceCheck ==
  /\ VAt("grace")
  /\ VReport("underway")
  /\ \/ /\ \E s \in Current(v.at) : Exceeded(s)
        /\ VGo(IF v.hosts = {} THEN "hosts" ELSE "system")
     \/ /\ Current(v.at) = {} \/ \E s \in Current(v.at) : ~Exceeded(s)
        /\ NextOf("count", v.at)
  /\ UNCHANGED <<now, assignments, columns, machines, m, faults, passed>>

----------------------------------------------------------------------------
(* The tests.  The network test is run even when the system test failed.   *)

System == VAt("system") /\ VGo("verify") /\ UNCHANGED <<vars, passed>>
SystemFails ==
  /\ VAt("system")
  /\ v' = [v EXCEPT !.pc = "verify", !.ok = FALSE]
  /\ UNCHANGED <<world, m, passed>>

(* A host that was listed without its switch configuration gets the one of *)
(* the cloud it is now found in.                                           *)
Verify ==
  /\ VAt("verify") /\ v.bare # {} /\ active[cloud[First(v.bare)]]
  /\ v' = [v EXCEPT !.pc = "rewire", !.target = cloud[First(v.bare)]]
  /\ UNCHANGED <<vars, passed>>

Rewire ==
  /\ VAt("rewire")
  /\ wiring' = [wiring EXCEPT ![First(v.bare)] = v.target]
  /\ VGo("wired")
  /\ UNCHANGED <<now, assignments, columns, fresh, status, m, faults, passed>>

Wired ==
  /\ VAt("wired")
  /\ applied' = [applied EXCEPT ![First(v.bare)] = TRUE]
  /\ v' = [v EXCEPT !.pc = "verify", !.bare = @ \ {First(v.bare)}, !.target = None]
  /\ UNCHANGED <<now, assignments, cloud, build, tested, machines, status, m, faults, passed>>

Network ==
  /\ VAt("verify") /\ v.bare = {}
  /\ IF v.ok THEN VGo("hosts") /\ passed' = passed \union v.hosts
     ELSE NextOf("count", v.at) /\ UNCHANGED passed
  /\ UNCHANGED vars

(* A host is down or unreachable, has no switch configuration and no       *)
(* assignment to take it from, or could not be flagged.                    *)
Unverifiable == v.bare # {} /\ ~active[cloud[First(v.bare)]]
NetworkFails ==
  /\ v.pc \in {"verify", "rewire", "wired"}
  /\ NextOf("count", v.at)
  /\ UNCHANGED <<world, m, passed>>

----------------------------------------------------------------------------
(* The release: hosts, then the assignment, each in a call that may fail.  *)

MarkHost ==
  /\ VAt("hosts") /\ v.left # {}
  /\ tested' = [tested EXCEPT ![First(v.left)] = TRUE]
  /\ v' = [v EXCEPT !.left = @ \ {First(v.left)}]
  /\ UNCHANGED <<now, assignments, cloud, build, applied, machines, status, m, faults, passed>>

MarkHostFails ==
  /\ VAt("hosts") /\ v.left # {}
  /\ v' = [v EXCEPT !.left = @ \ {First(v.left)}, !.ok = FALSE]
  /\ UNCHANGED <<world, m, passed>>

HostsDone ==
  /\ VAt("hosts") /\ v.left = {}
  /\ VGo("assignment")
  /\ UNCHANGED <<vars, passed>>

Release ==
  /\ VAt("assignment")
  /\ validated' = [validated EXCEPT ![v.at] = TRUE]
  /\ VGo("close")
  /\ UNCHANGED <<now, active, provisioned, columns, machines, status, m, faults, passed>>

ReleaseFails == VAt("assignment") /\ NextOf("count", v.at) /\ UNCHANGED <<world, m, passed>>

Close ==
  /\ VAt("close")
  /\ IF v.ok THEN VReport("completed") ELSE UNCHANGED status
  /\ NextOf("count", v.at)
  /\ UNCHANGED <<now, assignments, columns, machines, m, faults, passed>>

VEnd == VAt("count") /\ v.todo = {} /\ v' = VIdle /\ UNCHANGED <<vars, passed>>

VCrash == v.pc # "idle" /\ v' = VIdle /\ UNCHANGED <<world, m, passed>>

----------------------------------------------------------------------------
(* The two jobs together.  A host that starts to move, or fails to, is to  *)
(* be tested again.                                                        *)

Validating ==
  \/ VStart \/ Promote \/ PromoteMark \/ List \/ Count \/ Assess \/ GraceCheck
  \/ System \/ Verify \/ Rewire \/ Wired \/ Network
  \/ (Unverifiable /\ NetworkFails /\ UNCHANGED faults)
  \/ MarkHost \/ HostsDone \/ Release \/ Close \/ VEnd
VFault == SystemFails \/ NetworkFails \/ MarkHostFails \/ ReleaseFails \/ VCrash

MoverStep ==
  /\ Next
  /\ passed' = {h \in passed : build'[h] /\ cloud'[h] = cloud[h]}
  /\ UNCHANGED v

LifecycleNext ==
  \/ MoverStep
  \/ Validating
  \/ faults < MaxFaults /\ VFault /\ faults' = faults + 1

LifecycleSpec ==
  LifecycleInit /\ [][LifecycleNext]_all
  /\ WF_all(MoverStep /\ Moving /\ UNCHANGED faults) /\ WF_all(Validating)

----------------------------------------------------------------------------

(* No environment counts as validated that neither job has marked as       *)
(* provisioned, in whatever order their calls reach the server.            *)
ReleasedMeansProvisioned == \A c \in Clouds : validated[c] => provisioned[c]

(* Once the devices work, every environment whose schedules have outlived  *)
(* the grace period is released and stays so: no failure, and no order of  *)
(* the two jobs, leaves one that neither of them takes up again.           *)
Due(c) == c # Spare /\ Current(c) # {} /\ \A s \in Current(c) : Exceeded(s)
Released == <>[](\A c \in Clouds : Due(c) => validated[c])

(* README.md: "two main validation tests that occur before a cloud         *)
(* environment is automatically released": an environment that is wiped is *)
(* released only when each of its hosts has passed the tests.              *)
ReleasedMeansTested ==
  [][\A c \in Wiped : ~validated[c] /\ validated'[c] =>
       \A s \in Current(c) : s.host \in passed]_all
=============================================================================
