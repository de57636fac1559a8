---------------------------- MODULE MoverProofs ----------------------------
(***************************************************************************)
(* Proofs about Mover: type correctness, AppliedIsTrue and FreshlyBuilt,   *)
(* for any number of hosts, clouds, schedules and faults.                  *)
(***************************************************************************)
EXTENDS Mover, FiniteSetTheorems, WellFoundedInduction, TLAPS

(* A set of hosts has a first one: the least of the finitely many sets of  *)
(* hosts up to one of its members.                                         *)
LEMMA FirstIn ==
  ASSUME NEW S, S \subseteq Hosts, S # {}
  PROVE  First(S) \in S
<1> DEFINE UpTo(h) == {g \in S : g <= h}
           Sections == {UpTo(h) : h \in S}
<1>1. S \subseteq Nat /\ IsFiniteSet(Hosts)
  BY MoverAssumption
<1>2. IsWellFoundedOn(StrictSubsetOrdering(Hosts), FiniteSubsetsOf(Hosts))
  BY <1>1, FS_StrictSubsetOrderingWellFounded
<1>3. Sections \subseteq FiniteSubsetsOf(Hosts) /\ Sections # {}
  <2>1. \A h \in S : UpTo(h) \subseteq Hosts
    OBVIOUS
  <2>2. \A h \in S : IsFiniteSet(UpTo(h))
    BY <1>1, <2>1, FS_Subset
  <2> QED
    BY <2>1, <2>2 DEF FiniteSubsetsOf
<1> HIDE DEF Sections
<1>4. PICK x \in Sections : \A y \in Sections : <<y, x>> \notin StrictSubsetOrdering(Hosts)
  BY <1>2, <1>3, WFMin
<1> USE DEF Sections
<1>5. PICK h \in S : x = UpTo(h)
  OBVIOUS
<1>6. ASSUME NEW g \in S PROVE h <= g
  <2>1. CASE g < h
    <3>0. g \in Nat /\ h \in Nat
      BY <1>1
    <3>1. UpTo(g) \subseteq UpTo(h) /\ h \in UpTo(h) /\ h \notin UpTo(g)
      <4>1. ASSUME NEW k \in S, k <= g PROVE k <= h
        BY <1>1, <2>1, <3>0, <4>1
      <4>2. h <= h /\ ~(h <= g)
        BY <2>1, <3>0
      <4> QED
        BY <4>1, <4>2, Zenon
    <3>2. UpTo(g) \in Sections /\ UpTo(g) \in SUBSET Hosts /\ x \in SUBSET Hosts
      BY <1>5
    <3> QED
      BY <1>4, <1>5, <3>1, <3>2 DEF StrictSubsetOrdering
  <2> QED
    BY <1>1, <2>1
<1> QED
  BY <1>6 DEF First

----------------------------------------------------------------------------
(* Frames: what a step keeps because of what it leaves alone.              *)

(* The records of the server stay well typed when a step leaves them.      *)
LEMMA WorldKept ==
  ASSUME WorldOK, UNCHANGED world, faults' \in 0 .. MaxFaults
  PROVE  WorldOK'
BY DEF WorldOK, world, columns, assignments, machines

(* One turn of a loop of the run changes its label and its list only.      *)
LEMMA DoneFields ==
  ASSUME m \in Run, NEW label \in Labels, NEW x, Done(label, x)
  PROVE  /\ m' \in Run
         /\ m'.pc = label /\ m'.todo = m.todo \ {x} /\ m'.at = None
         /\ m'.left = m.left /\ m'.group = m.group /\ m'.args = m.args
         /\ m'.job = m.job /\ m'.stage = m.stage
         /\ m'.semaphore = m.semaphore /\ m'.target = m.target
BY DEF Run, Done

(* Where a loop of the run can go on or leave an item.                     *)
Turns == {<<"sweep", "sweep">>, <<"mark", "sweep">>, <<"switch", "switch">>,
          <<"flag", "switch">>, <<"retire", "retire">>, <<"deactivate", "retire">>,
          <<"provision", "announce">>, <<"provision", "group">>, <<"announce", "group">>}

LEMMA TurnGroup ==
  ASSUME RunOK, GroupInv, NEW label \in Labels, NEW x, Done(label, x),
         <<m.pc, label>> \in Turns
  PROVE  /\ RunOK' /\ GroupInv'
         /\ m'.job = m.job /\ m'.stage = m.stage
         /\ m'.semaphore = m.semaphore /\ m'.target = m.target
         /\ m'.pc \notin {"configure", "flag"}
         /\ Marked' \subseteq Marked /\ Rebuilding' = Rebuilding
<1>1. m \in Run
  BY DEF RunOK
<1>2. /\ m' \in Run
      /\ m'.pc = label /\ m'.todo = m.todo \ {x} /\ m'.at = None
      /\ m'.left = m.left /\ m'.group = m.group /\ m'.args = m.args
      /\ m'.job = m.job /\ m'.stage = m.stage
      /\ m'.semaphore = m.semaphore /\ m'.target = m.target
  BY <1>1, DoneFields
<1>3. /\ label \notin {"configure", "flag", "mark", "deactivate", "unvalidate", "reset", "idle"}
      /\ m.pc \notin {"reset", "unvalidate"}
      /\ label \in Before => m.pc \in Before
      /\ label \in {"sweep"} => m.pc \in {"sweep", "mark"}
      /\ label = "switch" => m.pc \in {"switch", "flag"}
      /\ label = "retire" => m.pc \in {"retire", "deactivate"}
      /\ label \in {"announce"} => m.pc = "provision"
      /\ label # "survey" /\ label \notin {"gather", "provision"}
  BY DEF Turns, Before
<1>4. RunOK'
  BY <1>2, <1>3 DEF RunOK
<1>5. GroupInv'
  BY <1>2, <1>3 DEF GroupInv, Before
<1>6. Marked' \subseteq Marked /\ Rebuilding' = Rebuilding
  BY <1>2, <1>3 DEF Marked, Rebuilding
<1> QED
  BY <1>2, <1>3, <1>4, <1>5, <1>6

(* A step that leaves the columns and the machines alone keeps WiringInv   *)
(* and FreshInv when it neither takes up nor hands over a host.            *)
LEMMA FactsKept ==
  ASSUME TypeOK, WiringInv, FreshInv,
         UNCHANGED <<columns, machines>>, \A c \in Clouds : active'[c] => active[c],
         \A h \in (Marked \union Rebuilding)' :
            /\ h \in Marked \union Rebuilding /\ m.job[h] \in Job
            /\ m'.job[h].new = m.job[h].new /\ m'.job[h].wipe = m.job[h].wipe,
         m'.pc = "configure" => ~applied[m'.at],
         m'.pc = "flag" => wiring[m'.at] = m'.job[m'.at].new,
         \A h \in Hosts : m'.stage[h] = "machine" => m'.semaphore = h /\ m'.target = h,
         \A h \in Hosts : m'.stage[h] = "record" /\ Reinstalls(h)' => fresh[h]
  PROVE  WiringInv' /\ FreshInv'
<1>1. AppliedIsTrue'
  BY DEF WiringInv, AppliedIsTrue, columns, machines
<1>2. FreshlyBuilt'
  BY DEF TypeOK, WorldOK, FreshInv, FreshlyBuilt, columns, machines
<1>3. WiringInv'
  BY <1>1 DEF WiringInv, columns, machines
<1>4. \A h \in (Marked \union Rebuilding)' :
        m'.job[h].new \in Wiped /\ active'[m'.job[h].new] => m'.job[h].wipe
  BY DEF FreshInv, Job
<1>5. FreshInv'
  BY <1>2, <1>4 DEF FreshInv, columns, machines
<1> QED
  BY <1>3, <1>5

----------------------------------------------------------------------------
(* Between two looks at the world the run changes nothing but itself: a    *)
(* step of its loops that moves no host.                                   *)

(* No host is in hand, nor was left behind, before the moves are known.    *)
LEMMA NoneInHand ==
  ASSUME RunOK, GroupInv, m.pc \in {"idle", "survey", "sweep", "mark"}
  PROVE  Marked = {} /\ Rebuilding = {} /\ \A h \in Hosts : m.stage[h] = "none"
BY DEF GroupInv, Marked, Rebuilding, Before

(* A run that is over, or dead, knows nothing.                             *)
LEMMA IdleInv ==
  ASSUME TypeOK, WiringInv, FreshInv, m' = Idle, UNCHANGED world
  PROVE  RunOK' /\ GroupInv' /\ WiringInv' /\ FreshInv'
<1>1. RunOK'
  BY DEF RunOK, Run, Idle, Labels, Stages
<1>2. GroupInv'
  BY DEF GroupInv, Idle, Before
<1>3. (Marked \union Rebuilding)' = {}
  BY DEF Marked, Rebuilding, Idle
<1>4. UNCHANGED <<columns, machines>> /\ active' = active
  BY DEF world, assignments
<1>5. m'.pc = "idle" /\ \A h \in Hosts : m'.stage[h] = "none"
  BY DEF Idle
<1>6. WiringInv' /\ FreshInv'
  BY <1>3, <1>4, <1>5, FactsKept
<1> QED
  BY <1>1, <1>2, <1>6

LEMMA GetMovesInv ==
  ASSUME MoverInv, GetMoves
  PROVE  RunOK' /\ GroupInv' /\ WiringInv' /\ FreshInv'
<1>0. TypeOK /\ RunOK /\ WorldOK /\ GroupInv /\ WiringInv /\ FreshInv
  BY DEF MoverInv, TypeOK
<1> DEFINE moving == {h \in Hosts : WantedCloud(h) # cloud[h]}
<1>1. \A h \in Hosts : WantedCloud(h) \in Clouds /\ cloud[h] \in Clouds
  <2>1. \A h \in Hosts : CurrentOf(h) # {} => (CHOOSE s \in CurrentOf(h) : TRUE) \in Schedule
    BY MoverAssumption DEF CurrentOf
  <2> QED
    BY <1>0, <2>1, MoverAssumption DEF WantedCloud, Schedule, WorldOK
<1> DEFINE job == [h \in Hosts |->
                     IF h \in moving THEN [current |-> cloud[h], new |-> WantedCloud(h),
                                           wipe |-> FALSE, id |-> None]
                     ELSE None]
<1>2. job \in [Hosts -> Job \union {None}] /\ \A h \in moving : job[h] \in Job
  <2>1. \A h \in moving : job[h] \in Job
    BY <1>1 DEF Job
  <2> QED
    BY <2>1
<1>3. m' = [Idle EXCEPT !.pc = IF moving = {} THEN "survey" ELSE "group",
                        !.left = moving, !.job = job]
  BY DEF GetMoves
<1> HIDE DEF moving, job
<1>4. /\ m'.pc \in {"survey", "group"} /\ m'.left = moving /\ m'.job = job
      /\ m'.group = {} /\ m'.todo = {} /\ m'.at = None /\ m'.args = {}
      /\ m'.stage = [h \in Hosts |-> "none"] /\ m'.semaphore = None /\ m'.target = None
      /\ m' = [pc |-> m'.pc, left |-> m'.left, group |-> m'.group, todo |-> m'.todo,
               at |-> m'.at, args |-> m'.args, job |-> m'.job, stage |-> m'.stage,
               semaphore |-> m'.semaphore, target |-> m'.target]
  BY <1>3 DEF Idle
<1>5. moving \subseteq Hosts
  BY DEF moving
<1>6. m' \in Run
  BY <1>2, <1>4, <1>5 DEF Run, Labels, Stages
<1>7. RunOK'
  BY <1>4, <1>6 DEF RunOK
<1>8. GroupInv'
  BY <1>2, <1>4, <1>5 DEF GroupInv, Before
<1>9. (Marked \union Rebuilding)' = {}
  BY <1>4 DEF Marked, Rebuilding
<1>10. UNCHANGED <<columns, machines>> /\ active' = active
  BY DEF GetMoves, world, assignments
<1>11. WiringInv' /\ FreshInv'
  BY <1>0, <1>4, <1>9, <1>10, FactsKept
<1> QED
  BY <1>7, <1>8, <1>11

LEMMA SurveyInv ==
  ASSUME MoverInv, Survey
  PROVE  RunOK' /\ GroupInv' /\ WiringInv' /\ FreshInv'
<1>0. TypeOK /\ RunOK /\ GroupInv /\ WiringInv /\ FreshInv /\ m \in Run
  BY DEF MoverInv, TypeOK, RunOK
<1>1. /\ m.pc = "survey"
      /\ m'.pc = "sweep" /\ m'.todo \subseteq Clouds \ {Spare} /\ m' \in Run
      /\ m'.left = m.left /\ m'.group = m.group /\ m'.args = m.args
      /\ m'.job = m.job /\ m'.stage = m.stage
  BY <1>0 DEF Survey, At, Run, Labels
<1>2. RunOK' /\ GroupInv'
  BY <1>0, <1>1 DEF RunOK, GroupInv, Before
<1>3. (Marked \union Rebuilding)' = {} /\ \A h \in Hosts : m'.stage[h] = "none"
  BY <1>0, <1>1, <1>2 DEF Marked, Rebuilding, GroupInv, Before
<1>4. UNCHANGED <<columns, machines>> /\ active' = active
  BY DEF Survey, world, assignments
<1>5. WiringInv' /\ FreshInv'
  BY <1>0, <1>1, <1>3, <1>4, FactsKept
<1> QED
  BY <1>2, <1>5

(* A turn of a loop that leaves the columns and the machines alone.        *)
LEMMA TurnInv ==
  ASSUME MoverInv, NEW label \in Labels, NEW x, Done(label, x), <<m.pc, label>> \in Turns,
         UNCHANGED <<columns, machines>>, \A c \in Clouds : active'[c] => active[c]
  PROVE  RunOK' /\ GroupInv' /\ WiringInv' /\ FreshInv'
<1>0. TypeOK /\ RunOK /\ GroupInv /\ WiringInv /\ FreshInv /\ m \in Run
  BY DEF MoverInv, TypeOK, RunOK
<1>1. /\ RunOK' /\ GroupInv'
      /\ m'.job = m.job /\ m'.stage = m.stage
      /\ m'.semaphore = m.semaphore /\ m'.target = m.target
      /\ m'.pc \notin {"configure", "flag"}
      /\ Marked' \subseteq Marked /\ Rebuilding' = Rebuilding
  BY <1>0, TurnGroup
<1>2. \A h \in Marked \union Rebuilding : m.job[h] \in Job
  BY <1>0 DEF Marked, Rebuilding, GroupInv, Run
<1>3. \A h \in Hosts : m'.stage[h] = "machine" => m'.semaphore = h /\ m'.target = h
  BY <1>0, <1>1 DEF FreshInv
<1>4. \A h \in Hosts : m'.stage[h] = "record" /\ Reinstalls(h)' => fresh[h]
  BY <1>0, <1>1 DEF FreshInv, Reinstalls
<1>5. WiringInv' /\ FreshInv'
  BY <1>0, <1>1, <1>2, <1>3, <1>4, FactsKept
<1> QED
  BY <1>1, <1>5

(* Looks and marks of the sweep over what earlier runs left unfinished.    *)
LEMMA SweepInv ==
  ASSUME MoverInv, SweepLook \/ SweepMark \/ EndSweep
  PROVE  RunOK' /\ GroupInv' /\ WiringInv' /\ FreshInv'
<1>0. TypeOK /\ RunOK /\ GroupInv /\ WiringInv /\ FreshInv /\ m \in Run
  BY DEF MoverInv, TypeOK, RunOK
<1>1. CASE SweepLook
  <2>1. PICK c \in m.todo : m' = [m EXCEPT !.pc = "mark", !.at = c] \/ Done("sweep", c)
    BY <1>1 DEF SweepLook
  <2>2. m.pc = "sweep" /\ c \in Clouds \ {Spare} /\ UNCHANGED <<columns, machines, active>>
    BY <1>0, <1>1 DEF SweepLook, At, GroupInv, world, assignments
  <2>3. CASE Done("sweep", c)
    BY <2>2, <2>3, TurnInv DEF Turns, Labels
  <2>4. CASE m' = [m EXCEPT !.pc = "mark", !.at = c]
    <3>1. /\ m' \in Run /\ m'.pc = "mark" /\ m'.at = c
          /\ m'.left = m.left /\ m'.group = m.group /\ m'.todo = m.todo /\ m'.args = m.args
          /\ m'.job = m.job /\ m'.stage = m.stage
      BY <1>0, <2>2, <2>4 DEF Run, Labels
    <3>2. RunOK' /\ GroupInv'
      BY <1>0, <2>2, <3>1 DEF RunOK, GroupInv, Before
    <3>3. (Marked \union Rebuilding)' = {} /\ \A h \in Hosts : m'.stage[h] = "none"
      BY <1>0, <2>2, <3>1 DEF GroupInv, Marked, Rebuilding, Before
    <3>4. WiringInv' /\ FreshInv'
      BY <1>0, <2>2, <3>1, <3>3, FactsKept
    <3> QED
      BY <3>2, <3>4
  <2> QED
    BY <2>1, <2>3, <2>4
<1>2. CASE SweepMark
  BY <1>2, TurnInv DEF SweepMark, MarkProvisioned, Turns, Labels, At
<1>3. CASE EndSweep
  BY <1>0, <1>3, IdleInv DEF EndSweep
<1> QED
  BY <1>1, <1>2, <1>3

LEMMA NextCloudInv ==
  ASSUME MoverInv, NextCloud
  PROVE  RunOK' /\ GroupInv' /\ WiringInv' /\ FreshInv'
<1>0. TypeOK /\ RunOK /\ GroupInv /\ WiringInv /\ FreshInv /\ m \in Run
  BY DEF MoverInv, TypeOK, RunOK
<1>1. m.pc = "group" /\ UNCHANGED world /\ UNCHANGED <<columns, machines, active>>
  BY DEF NextCloud, At, world, assignments
<1>2. CASE m.left = {}
  BY <1>0, <1>1, <1>2, IdleInv DEF NextCloud
<1>3. CASE m.left # {}
  <2> DEFINE group == {h \in m.left : m.job[h].new = m.job[First(m.left)].new}
  <2>1. First(m.left) \in m.left
    BY <1>0, <1>3, FirstIn DEF Run
  <2>2. group # {} /\ group \subseteq m.left /\ m.left \subseteq Hosts
    BY <1>0, <2>1 DEF Run
  <2>3. m' = [m EXCEPT !.pc = "reset", !.left = m.left \ group, !.group = group,
                       !.todo = group, !.args = {}]
    BY <1>3 DEF NextCloud
  <2> HIDE DEF group
  <2>4. /\ m' \in Run /\ m'.pc = "reset" /\ m'.left = m.left \ group /\ m'.group = group
        /\ m'.todo = group /\ m'.args = {} /\ m'.job = m.job /\ m'.stage = m.stage
        /\ m'.semaphore = m.semaphore /\ m'.target = m.target
    BY <1>0, <2>2, <2>3 DEF Run, Labels
  <2>5. RunOK' /\ GroupInv'
    BY <1>0, <1>1, <2>2, <2>4 DEF RunOK, GroupInv, Before
  <2>6. Marked' = {} /\ Rebuilding' = Rebuilding
    BY <2>4 DEF Marked, Rebuilding
  <2>7. \A h \in Rebuilding : m.job[h] \in Job
    BY <1>0 DEF Rebuilding, GroupInv
  <2>8. \A h \in Hosts : /\ m'.stage[h] = "machine" => m'.semaphore = h /\ m'.target = h
                         /\ m'.stage[h] = "record" /\ Reinstalls(h)' => fresh[h]
    BY <1>0, <2>4 DEF FreshInv, Reinstalls
  <2>9. WiringInv' /\ FreshInv'
    BY <1>0, <1>1, <2>4, <2>6, <2>7, <2>8, FactsKept
  <2> QED
    BY <2>5, <2>9
<1> QED
  BY <1>2, <1>3

(* The first host of the list is marked: its flags fall, and the wipe its  *)
(* environment asks for is noted.                                          *)
LEMMA ResetInv ==
  ASSUME MoverInv, Reset
  PROVE  RunOK' /\ GroupInv' /\ WiringInv' /\ FreshInv'
<1>0. TypeOK /\ WorldOK /\ RunOK /\ GroupInv /\ WiringInv /\ FreshInv /\ m \in Run
  BY DEF MoverInv, TypeOK, RunOK
<1> DEFINE h == First(m.todo)
           wiped == active[m.job[h].new] /\ m.job[h].new \in Wiped
<1>1. m.pc = "reset" /\ m.todo # {} /\ m.todo \subseteq m.group /\ m.group \subseteq Hosts
  BY <1>0 DEF Reset, At, GroupInv, Run
<1>2. h \in m.todo /\ h \in m.group /\ h \in Hosts
  BY <1>1, FirstIn
<1>3. m.job[h] \in Job /\ m.stage[h] = "none" /\ h \notin m.left
  BY <1>0, <1>1, <1>2 DEF GroupInv, Before
<1>4. /\ build' = [build EXCEPT ![h] = FALSE] /\ applied' = [applied EXCEPT ![h] = FALSE]
      /\ fresh' = [fresh EXCEPT ![h] = FALSE]
      /\ m' = [m EXCEPT !.pc = "unvalidate", !.at = h, !.job[h].wipe = wiped]
      /\ UNCHANGED <<active, cloud, wiring>>
  BY DEF Reset, assignments
<1>5. wiped \in BOOLEAN
  BY <1>0, <1>3 DEF WorldOK, Job
<1> HIDE DEF h, wiped
<1>6. /\ m'.pc = "unvalidate" /\ m'.at = h /\ m'.left = m.left /\ m'.group = m.group
      /\ m'.todo = m.todo /\ m'.args = m.args /\ m'.stage = m.stage
      /\ m'.semaphore = m.semaphore /\ m'.target = m.target
      /\ m'.job = [m.job EXCEPT ![h].wipe = wiped]
      /\ m' = [pc |-> m'.pc, left |-> m'.left, group |-> m'.group, todo |-> m'.todo,
               at |-> m'.at, args |-> m'.args, job |-> m'.job, stage |-> m'.stage,
               semaphore |-> m'.semaphore, target |-> m'.target]
  BY <1>0, <1>4 DEF Run
<1>7. /\ m'.job \in [Hosts -> Job \union {None}]
      /\ m'.job[h].new = m.job[h].new /\ m'.job[h].wipe = wiped
      /\ m'.job[h] \in Job
      /\ \A g \in Hosts \ {h} : m'.job[g] = m.job[g]
  <2>1. m.job \in [Hosts -> Job \union {None}]
    BY <1>0 DEF Run
  <2>2. [m.job[h] EXCEPT !.wipe = wiped] \in Job
    BY <1>3, <1>5 DEF Job
  <2>3. m'.job[h] = [m.job[h] EXCEPT !.wipe = wiped]
    BY <1>2, <1>6, <2>1
  <2>4. m'.job[h].new = m.job[h].new /\ m'.job[h].wipe = wiped
    BY <1>3, <2>3 DEF Job
  <2>5. \A g \in Hosts \ {h} : m'.job[g] = m.job[g]
    BY <1>6, <2>1
  <2>6. DOMAIN m'.job = Hosts /\ m'.job = [g \in Hosts |-> m'.job[g]]
    BY <1>6, <2>1
  <2>7. \A g \in Hosts : m'.job[g] \in Job \union {None}
    BY <2>1, <2>2, <2>3, <2>5
  <2> QED
    BY <2>2, <2>3, <2>4, <2>5, <2>6, <2>7
<1>8. m' \in Run
  BY <1>0, <1>2, <1>6, <1>7 DEF Run, Labels
<1>9. RunOK' /\ GroupInv'
  BY <1>0, <1>1, <1>2, <1>6, <1>7, <1>8 DEF RunOK, GroupInv, Before
<1>10. Marked' \subseteq Marked \union {h} /\ Rebuilding' = Rebuilding /\ h \notin Rebuilding
  BY <1>1, <1>3, <1>6 DEF Marked, Rebuilding, Before
<1>11. Marked \union Rebuilding \subseteq Hosts
  BY <1>1 DEF Marked, Rebuilding
<1>12. WiringInv'
  <2>1. AppliedIsTrue'
    BY <1>0, <1>2, <1>4 DEF WorldOK, WiringInv, AppliedIsTrue
  <2>2. \A g \in (Marked \union Rebuilding)' :
          ~build'[g] /\ (applied'[g] => wiring'[g] = m'.job[g].new)
    BY <1>0, <1>2, <1>4, <1>7, <1>10, <1>11 DEF WorldOK, WiringInv
  <2> QED
    BY <1>6, <2>1, <2>2 DEF WiringInv
<1>13. FreshInv'
  <2>1. FreshlyBuilt'
    BY <1>0, <1>2, <1>4 DEF WorldOK, FreshInv, FreshlyBuilt
  <2>2. \A g \in (Marked \union Rebuilding)' :
          m'.job[g].new \in Wiped /\ active'[m'.job[g].new] => m'.job[g].wipe
    BY <1>0, <1>2, <1>4, <1>7, <1>10, <1>11 DEF FreshInv, wiped
  <2>3. \A g \in Hosts : m'.stage[g] = "machine" => m'.semaphore = g /\ m'.target = g
    BY <1>0, <1>6 DEF FreshInv
  <2>4. \A g \in Hosts : m'.stage[g] = "record" /\ Reinstalls(g)' => fresh'[g]
    BY <1>0, <1>3, <1>4, <1>6, <1>7 DEF WorldOK, FreshInv, Reinstalls
  <2> QED
    BY <2>1, <2>2, <2>3, <2>4 DEF FreshInv
<1> QED
  BY <1>9, <1>12, <1>13

LEMMA UnvalidateInv ==
  ASSUME MoverInv, Unvalidate
  PROVE  RunOK' /\ GroupInv' /\ WiringInv' /\ FreshInv'
<1>0. TypeOK /\ RunOK /\ GroupInv /\ WiringInv /\ FreshInv /\ m \in Run
  BY DEF MoverInv, TypeOK, RunOK
<1>1. m.pc = "unvalidate" /\ m.at \in m.todo /\ m.at \in m.group /\ m.todo \subseteq m.group
  BY <1>0 DEF Unvalidate, At, GroupInv, RunOK
<1>2. UNCHANGED <<columns, machines, active>>
  BY DEF Unvalidate
<1>3. /\ m'.pc = IF m.todo = {m.at} THEN "batch" ELSE "reset"
      /\ m'.todo = m.todo \ {m.at} /\ m'.at = None /\ m'.args = m.args \union {m.at}
      /\ m'.left = m.left /\ m'.group = m.group /\ m'.job = m.job /\ m'.stage = m.stage
      /\ m'.semaphore = m.semaphore /\ m'.target = m.target /\ m' \in Run
  BY <1>0, <1>1 DEF Unvalidate, Run, Labels
<1>4. RunOK' /\ GroupInv'
  BY <1>0, <1>1, <1>3 DEF RunOK, GroupInv, Before
<1>5. Marked' \subseteq Marked /\ Rebuilding' = Rebuilding
  BY <1>1, <1>3 DEF Marked, Rebuilding, Before
<1>6. \A h \in Marked \union Rebuilding : m.job[h] \in Job
  BY <1>0 DEF Marked, Rebuilding, GroupInv, Run
<1>7. \A h \in Hosts : /\ m'.stage[h] = "machine" => m'.semaphore = h /\ m'.target = h
                       /\ m'.stage[h] = "record" /\ Reinstalls(h)' => fresh[h]
  BY <1>0, <1>3 DEF FreshInv, Reinstalls
<1>8. WiringInv' /\ FreshInv'
  BY <1>0, <1>2, <1>3, <1>5, <1>6, <1>7, FactsKept
<1> QED
  BY <1>4, <1>8

(* The batch names the schedules to report on, when the server answers.    *)
LEMMA BatchInv ==
  ASSUME MoverInv, Batch \/ BatchFails
  PROVE  RunOK' /\ GroupInv' /\ WiringInv' /\ FreshInv'
<1>0. TypeOK /\ RunOK /\ GroupInv /\ WiringInv /\ FreshInv /\ m \in Run
  BY DEF MoverInv, TypeOK, RunOK
<1>1. m.pc = "batch" /\ m.group \subseteq Hosts /\ UNCHANGED <<columns, machines, active>>
  BY <1>0 DEF Batch, BatchFails, At, Run, world, assignments
<1>2. \A h \in m.group : m.job[h] \in Job
  BY <1>0 DEF GroupInv
<1>3. /\ m'.pc = "switch" /\ m'.todo = m.group /\ m'.at = m.at /\ m'.left = m.left
      /\ m'.group = m.group /\ m'.args = m.args /\ m'.stage = m.stage
      /\ m'.semaphore = m.semaphore /\ m'.target = m.target
      /\ m' = [pc |-> m'.pc, left |-> m'.left, group |-> m'.group, todo |-> m'.todo,
               at |-> m'.at, args |-> m'.args, job |-> m'.job, stage |-> m'.stage,
               semaphore |-> m'.semaphore, target |-> m'.target]
  BY <1>0 DEF Batch, BatchFails, Run
<1>4. /\ m'.job \in [Hosts -> Job \union {None}]
      /\ \A h \in Hosts : m.job[h] \in Job =>
            /\ m'.job[h] \in Job
            /\ m'.job[h].new = m.job[h].new /\ m'.job[h].wipe = m.job[h].wipe
  <2>1. CASE BatchFails
    BY <1>0, <2>1 DEF BatchFails, Run
  <2>2. CASE Batch
    <3> DEFINE reported == {h \in m.group : CurrentOf(h) # {}}
               schedule(h) == CHOOSE s \in CurrentOf(h) : TRUE
    <3>1. \A h \in reported : schedule(h) \in Schedules /\ h \in m.group
      BY DEF CurrentOf
    <3>2. m'.job = [h \in Hosts |-> IF h \in reported
                                    THEN [m.job[h] EXCEPT !.id = schedule(h)] ELSE m.job[h]]
      BY <1>0, <2>2 DEF Batch, Run
    <3> HIDE DEF reported, schedule
    <3>3. \A h \in reported : /\ [m.job[h] EXCEPT !.id = schedule(h)] \in Job
                              /\ [m.job[h] EXCEPT !.id = schedule(h)].new = m.job[h].new
                              /\ [m.job[h] EXCEPT !.id = schedule(h)].wipe = m.job[h].wipe
      BY <1>2, <3>1 DEF Job
    <3>4. \A h \in Hosts : m.job[h] \in Job \union {None}
      BY <1>0 DEF Run
    <3> QED
      BY <3>2, <3>3, <3>4
  <2> QED
    BY <2>1, <2>2
<1>5. m' \in Run
  BY <1>0, <1>3, <1>4 DEF Run, Labels
<1>6. RunOK' /\ GroupInv'
  BY <1>0, <1>1, <1>3, <1>4, <1>5 DEF RunOK, GroupInv, Before, Run
<1>7. Marked' \subseteq Marked /\ Rebuilding' = Rebuilding
  BY <1>1, <1>3 DEF Marked, Rebuilding, Before
<1>8. \A h \in Marked \union Rebuilding : h \in Hosts /\ m.job[h] \in Job
  BY <1>0 DEF Marked, Rebuilding, GroupInv, Run
<1>9. \A h \in Hosts : /\ m'.stage[h] = "machine" => m'.semaphore = h /\ m'.target = h
                       /\ m'.stage[h] = "record" /\ Reinstalls(h)' => fresh[h]
  <2>1. \A h \in Hosts : m.stage[h] # "none" => m.job[h] \in Job
    BY <1>0 DEF GroupInv
  <2> QED
    BY <1>0, <1>3, <1>4, <2>1 DEF FreshInv, Reinstalls
<1>10. WiringInv' /\ FreshInv'
  BY <1>0, <1>1, <1>3, <1>4, <1>7, <1>8, <1>9, FactsKept
<1> QED
  BY <1>6, <1>10

(* The first of the hosts whose switch ports are to be configured.         *)
LEMMA SwitchFirst ==
  ASSUME RunOK, GroupInv, m.pc = "switch", m.todo # {}
  PROVE  /\ First(m.todo) \in m.todo /\ First(m.todo) \in m.group /\ First(m.todo) \in Hosts
BY FirstIn DEF RunOK, GroupInv, Run

LEMMA SwitchLookInv ==
  ASSUME MoverInv, SwitchLook \/ SwitchLookFails
  PROVE  RunOK' /\ GroupInv' /\ WiringInv' /\ FreshInv'
<1>0. TypeOK /\ RunOK /\ GroupInv /\ WiringInv /\ FreshInv /\ m \in Run
  BY DEF MoverInv, TypeOK, RunOK
<1>1. PICK h : h = First(m.todo)
  OBVIOUS
<1>2. m.pc = "switch" /\ m.todo # {} /\ UNCHANGED <<columns, machines, active>>
  BY DEF SwitchLook, SwitchLookFails, At, assignments
<1>3. h \in m.todo /\ h \in m.group /\ h \in Hosts
  BY <1>0, <1>1, <1>2, SwitchFirst
<1>4. Done("switch", h) \/ (~applied[h] /\ m' = [m EXCEPT !.pc = "configure", !.at = h])
  BY <1>1 DEF SwitchLook, SwitchLookFails
<1>5. CASE Done("switch", h)
  BY <1>2, <1>5, TurnInv DEF Turns, Labels
<1>6. CASE ~applied[h] /\ m' = [m EXCEPT !.pc = "configure", !.at = h]
  <2>1. /\ m' \in Run /\ m'.pc = "configure" /\ m'.at = h
        /\ m'.left = m.left /\ m'.group = m.group /\ m'.todo = m.todo /\ m'.args = m.args
        /\ m'.job = m.job /\ m'.stage = m.stage
        /\ m'.semaphore = m.semaphore /\ m'.target = m.target
    BY <1>0, <1>3, <1>6 DEF Run, Labels
  <2>2. RunOK' /\ GroupInv'
    BY <1>0, <1>2, <1>3, <2>1 DEF RunOK, GroupInv, Before
  <2>3. Marked' \subseteq Marked /\ Rebuilding' = Rebuilding
    BY <1>2, <2>1 DEF Marked, Rebuilding, Before
  <2>4. \A g \in Marked \union Rebuilding : m.job[g] \in Job
    BY <1>0 DEF Marked, Rebuilding, GroupInv, Run
  <2>5. \A g \in Hosts : /\ m'.stage[g] = "machine" => m'.semaphore = g /\ m'.target = g
                         /\ m'.stage[g] = "record" /\ Reinstalls(g)' => fresh[g]
    BY <1>0, <2>1 DEF FreshInv, Reinstalls
  <2>6. WiringInv' /\ FreshInv'
    BY <1>0, <1>2, <1>6, <2>1, <2>3, <2>4, <2>5, FactsKept
  <2> QED
    BY <2>2, <2>6
<1> QED
  BY <1>4, <1>5, <1>6

(* While a host of the group has its ports configured, it is marked.       *)
LEMMA AtMarked ==
  ASSUME RunOK, GroupInv, m.pc \in {"configure", "flag"}
  PROVE  /\ m.at \in m.group /\ m.at \in Hosts /\ m.at \in Marked
         /\ m.job[m.at] \in Job /\ m.stage[m.at] = "none" /\ m.at \notin Rebuilding
BY DEF RunOK, Run, GroupInv, Marked, Before, Rebuilding

(* The ports of the host at hand are rewired: as its job says, partly or   *)
(* not at all, on a host whose flag is down.                               *)
LEMMA RewiredInv ==
  ASSUME MoverInv, m.pc = "configure", NEW w, wiring' = [wiring EXCEPT ![m.at] = w],
         UNCHANGED <<columns, active, fresh>>,
         m'.job = m.job, m'.stage = m.stage, m'.semaphore = m.semaphore, m'.target = m.target,
         Marked' \subseteq Marked, m'.pc # "configure",
         m'.pc = "flag" => m'.at = m.at /\ w = m.job[m.at].new
  PROVE  WiringInv' /\ FreshInv'
<1>0. TypeOK /\ WorldOK /\ RunOK /\ GroupInv /\ WiringInv /\ FreshInv
  BY DEF MoverInv, TypeOK
<1>1. m.at \in Hosts /\ m.at \in Marked /\ ~applied[m.at] /\ ~build[m.at]
  BY <1>0, AtMarked DEF WiringInv
<1>2. Rebuilding' = Rebuilding
  BY DEF Rebuilding
<1>3. WiringInv'
  <2>1. AppliedIsTrue'
    BY <1>0, <1>1 DEF WorldOK, WiringInv, AppliedIsTrue, columns
  <2>2. \A g \in (Marked \union Rebuilding)' :
          ~build'[g] /\ (applied'[g] => wiring'[g] = m'.job[g].new)
    BY <1>0, <1>1, <1>2 DEF WorldOK, WiringInv, columns
  <2>3. m'.pc = "flag" => wiring'[m'.at] = m'.job[m'.at].new
    BY <1>0, <1>1 DEF WorldOK
  <2> QED
    BY <2>1, <2>2, <2>3 DEF WiringInv
<1>4. FreshInv'
  BY <1>0, <1>2 DEF FreshInv, FreshlyBuilt, columns, Reinstalls
<1> QED
  BY <1>3, <1>4

LEMMA ConfigureInv ==
  ASSUME MoverInv, Configure \/ ConfigureFails
  PROVE  RunOK' /\ GroupInv' /\ WiringInv' /\ FreshInv'
<1>0. TypeOK /\ RunOK /\ GroupInv /\ WiringInv /\ FreshInv /\ m \in Run
  BY DEF MoverInv, TypeOK, RunOK
<1>1. m.pc = "configure" /\ UNCHANGED <<columns, active, fresh>>
  BY DEF Configure, ConfigureFails, At, assignments
<1>2. m.at \in m.group /\ m.at \in Hosts
  BY <1>0, <1>1, AtMarked
<1>3. CASE Configure
  <2>1. m' = [m EXCEPT !.pc = "flag"] /\ wiring' = [wiring EXCEPT ![m.at] = m.job[m.at].new]
    BY <1>3 DEF Configure
  <2>2. /\ m' \in Run /\ m'.pc = "flag" /\ m'.at = m.at
        /\ m'.left = m.left /\ m'.group = m.group /\ m'.todo = m.todo /\ m'.args = m.args
        /\ m'.job = m.job /\ m'.stage = m.stage
        /\ m'.semaphore = m.semaphore /\ m'.target = m.target
    BY <1>0, <2>1 DEF Run, Labels
  <2>3. RunOK' /\ GroupInv'
    BY <1>0, <1>1, <1>2, <2>2 DEF RunOK, GroupInv, Before
  <2>4. Marked' \subseteq Marked
    BY <1>1, <2>2 DEF Marked, Before
  <2>5. WiringInv' /\ FreshInv'
    BY <1>1, <2>1, <2>2, <2>4, RewiredInv
  <2> QED
    BY <2>3, <2>5
<1>4. CASE ConfigureFails
  <2>1. /\ \E w : wiring' = [wiring EXCEPT ![m.at] = w]
        /\ m' = [m EXCEPT !.pc = "switch", !.todo = m.todo \ {m.at}, !.at = None,
                          !.args = m.args \ {m.at}]
    BY <1>4 DEF ConfigureFails
  <2>2. /\ m' \in Run /\ m'.pc = "switch" /\ m'.at = None /\ m'.todo = m.todo \ {m.at}
        /\ m'.left = m.left /\ m'.group = m.group /\ m'.args = m.args \ {m.at}
        /\ m'.job = m.job /\ m'.stage = m.stage
        /\ m'.semaphore = m.semaphore /\ m'.target = m.target
    BY <1>0, <2>1 DEF Run, Labels
  <2>3. RunOK' /\ GroupInv'
    BY <1>0, <1>1, <1>2, <2>2 DEF RunOK, GroupInv, Before
  <2>4. Marked' \subseteq Marked
    BY <1>1, <2>2 DEF Marked, Before
  <2>5. WiringInv' /\ FreshInv'
    BY <1>1, <2>1, <2>2, <2>4, RewiredInv
  <2> QED
    BY <2>3, <2>5
<1> QED
  BY <1>3, <1>4

(* The flag goes up on a host whose ports carry what its job says.         *)
LEMMA FlagInv ==
  ASSUME MoverInv, Flag \/ FlagFails
  PROVE  RunOK' /\ GroupInv' /\ WiringInv' /\ FreshInv'
<1>0. TypeOK /\ WorldOK /\ RunOK /\ GroupInv /\ WiringInv /\ FreshInv /\ m \in Run
  BY DEF MoverInv, TypeOK, RunOK
<1>1. m.pc = "flag" /\ Done("switch", m.at) /\ UNCHANGED <<active, cloud, build, machines>>
  BY DEF Flag, FlagFails, At, world, assignments, columns
<1>2. /\ RunOK' /\ GroupInv'
      /\ m'.job = m.job /\ m'.stage = m.stage
      /\ m'.semaphore = m.semaphore /\ m'.target = m.target
      /\ m'.pc \notin {"configure", "flag"}
      /\ Marked' \subseteq Marked /\ Rebuilding' = Rebuilding
  BY <1>0, <1>1, TurnGroup DEF Turns, Labels
<1>3. /\ m.at \in Hosts /\ m.at \in Marked /\ ~build[m.at] /\ wiring[m.at] = m.job[m.at].new
  BY <1>0, <1>1, AtMarked DEF WiringInv
<1>4. applied' = [applied EXCEPT ![m.at] = TRUE] \/ applied' = applied
  BY DEF Flag, FlagFails, world, columns
<1>5. WiringInv'
  <2>1. AppliedIsTrue'
    BY <1>0, <1>1, <1>3, <1>4 DEF WorldOK, WiringInv, AppliedIsTrue, machines
  <2>2. \A g \in (Marked \union Rebuilding)' :
          ~build'[g] /\ (applied'[g] => wiring'[g] = m'.job[g].new)
    <3>1. Marked \union Rebuilding \subseteq Hosts
      BY <1>0 DEF Marked, Rebuilding, Run
    <3> QED
      BY <1>0, <1>1, <1>2, <1>3, <1>4, <3>1 DEF WorldOK, WiringInv, machines
  <2> QED
    BY <1>2, <2>1, <2>2 DEF WiringInv
<1>6. FreshInv'
  BY <1>0, <1>1, <1>2 DEF FreshInv, FreshlyBuilt, machines, Reinstalls
<1> QED
  BY <1>2, <1>5, <1>6

LEMMA EndSwitchInv ==
  ASSUME MoverInv, EndSwitch
  PROVE  RunOK' /\ GroupInv' /\ WiringInv' /\ FreshInv'
<1>0. TypeOK /\ RunOK /\ GroupInv /\ WiringInv /\ FreshInv /\ m \in Run
  BY DEF MoverInv, TypeOK, RunOK
<1>1. m.pc = "switch" /\ UNCHANGED <<columns, machines, active>>
  BY DEF EndSwitch, At, world, assignments
<1>2. {m.job[h].current : h \in m.group} \subseteq Clouds
  BY <1>0 DEF GroupInv, Job
<1>3. /\ m' \in Run /\ m'.pc = "retire" /\ m'.at = m.at /\ m'.todo \subseteq Clouds
      /\ m'.left = m.left /\ m'.group = m.group /\ m'.args = m.args
      /\ m'.job = m.job /\ m'.stage = m.stage
      /\ m'.semaphore = m.semaphore /\ m'.target = m.target
  BY <1>0, <1>2 DEF EndSwitch, Run, Labels
<1>4. RunOK' /\ GroupInv'
  BY <1>0, <1>1, <1>3 DEF RunOK, GroupInv, Before
<1>5. Marked' \subseteq Marked /\ Rebuilding' = Rebuilding
  BY <1>1, <1>3 DEF Marked, Rebuilding, Before
<1>6. \A h \in Marked \union Rebuilding : m.job[h] \in Job
  BY <1>0 DEF Marked, Rebuilding, GroupInv, Run
<1>7. \A h \in Hosts : /\ m'.stage[h] = "machine" => m'.semaphore = h /\ m'.target = h
                       /\ m'.stage[h] = "record" /\ Reinstalls(h)' => fresh[h]
  BY <1>0, <1>3 DEF FreshInv, Reinstalls
<1>8. WiringInv' /\ FreshInv'
  BY <1>0, <1>1, <1>3, <1>5, <1>6, <1>7, FactsKept
<1> QED
  BY <1>4, <1>8

(* An assignment that ends here asks for no wipe any more.                 *)
LEMMA RetireInv ==
  ASSUME MoverInv, RetireLook \/ Deactivate
  PROVE  RunOK' /\ GroupInv' /\ WiringInv' /\ FreshInv'
<1>0. TypeOK /\ WorldOK /\ RunOK /\ GroupInv /\ WiringInv /\ FreshInv /\ m \in Run
  BY DEF MoverInv, TypeOK, RunOK
<1>1. CASE Deactivate
  <2>1. /\ m.pc = "deactivate" /\ Done("retire", m.at) /\ UNCHANGED <<columns, machines>>
        /\ \A c \in Clouds : active'[c] => active[c]
    BY <1>0, <1>1 DEF Deactivate, At, WorldOK
  <2> QED
    BY <2>1, TurnInv DEF Turns, Labels
<1>2. CASE RetireLook
  <2>1. PICK c \in m.todo : \/ Done("retire", c)
                            \/ c # Spare /\ m' = [m EXCEPT !.pc = "deactivate", !.at = c]
    BY <1>2 DEF RetireLook
  <2>2. m.pc = "retire" /\ c \in Clouds /\ UNCHANGED <<columns, machines, active>>
    BY <1>0, <1>2 DEF RetireLook, At, GroupInv, world, assignments
  <2>3. CASE Done("retire", c)
    BY <2>2, <2>3, TurnInv DEF Turns, Labels
  <2>4. CASE c # Spare /\ m' = [m EXCEPT !.pc = "deactivate", !.at = c]
    <3>1. /\ m' \in Run /\ m'.pc = "deactivate" /\ m'.at = c
          /\ m'.left = m.left /\ m'.group = m.group /\ m'.todo = m.todo /\ m'.args = m.args
          /\ m'.job = m.job /\ m'.stage = m.stage
          /\ m'.semaphore = m.semaphore /\ m'.target = m.target
      BY <1>0, <2>2, <2>4 DEF Run, Labels
    <3>2. RunOK' /\ GroupInv'
      BY <1>0, <2>2, <2>4, <3>1 DEF RunOK, GroupInv, Before
    <3>3. Marked' \subseteq Marked /\ Rebuilding' = Rebuilding
      BY <2>2, <3>1 DEF Marked, Rebuilding, Before
    <3>4. \A h \in Marked \union Rebuilding : m.job[h] \in Job
      BY <1>0 DEF Marked, Rebuilding, GroupInv, Run
    <3>5. \A h \in Hosts : /\ m'.stage[h] = "machine" => m'.semaphore = h /\ m'.target = h
                           /\ m'.stage[h] = "record" /\ Reinstalls(h)' => fresh[h]
      BY <1>0, <3>1 DEF FreshInv, Reinstalls
    <3>6. WiringInv' /\ FreshInv'
      BY <1>0, <2>2, <3>1, <3>3, <3>4, <3>5, FactsKept
    <3> QED
      BY <3>2, <3>6
  <2> QED
    BY <2>1, <2>3, <2>4
<1> QED
  BY <1>1, <1>2

(* The marked hosts that still are to be rebuilt start to be.              *)
LEMMA StartGatherInv ==
  ASSUME MoverInv, StartGather
  PROVE  RunOK' /\ GroupInv' /\ WiringInv' /\ FreshInv'
<1>0. TypeOK /\ RunOK /\ GroupInv /\ WiringInv /\ FreshInv /\ m \in Run
  BY DEF MoverInv, TypeOK, RunOK
<1>1. /\ m.pc = "retire" /\ m.args \subseteq m.group /\ m.group \subseteq Hosts
      /\ UNCHANGED <<columns, machines, active>>
  BY <1>0 DEF StartGather, At, GroupInv, Run, world, assignments
<1>2. /\ m'.pc = "gather" /\ m'.at = m.at /\ m'.todo = m.todo
      /\ m'.left = m.left /\ m'.group = m.group /\ m'.args = m.args /\ m'.job = m.job
      /\ m'.stage = [h \in Hosts |-> IF h \in m.args THEN "ipmi" ELSE m.stage[h]]
      /\ m'.semaphore = m.semaphore /\ m'.target = m.target
      /\ m' = [pc |-> m'.pc, left |-> m'.left, group |-> m'.group, todo |-> m'.todo,
               at |-> m'.at, args |-> m'.args, job |-> m'.job, stage |-> m'.stage,
               semaphore |-> m'.semaphore, target |-> m'.target]
  BY <1>0 DEF StartGather, Run
<1>3. m' \in Run
  BY <1>0, <1>2 DEF Run, Labels, Stages
<1>4. RunOK' /\ GroupInv'
  <2>1. RunOK'
    BY <1>0, <1>2, <1>3 DEF RunOK
  <2>2. m.left \subseteq Hosts /\ \A h \in m.left : m.stage[h] = "none" /\ h \notin m.args
    BY <1>0, <1>1 DEF GroupInv, Run
  <2>3. \A h \in m.left : m'.stage[h] = "none"
    BY <1>2, <2>2
  <2>4. \A h \in Hosts : m'.stage[h] # "none" => m'.job[h] \in Job
    BY <1>0, <1>1, <1>2 DEF GroupInv
  <2>5. GroupInv'
    BY <1>0, <1>1, <1>2, <2>3, <2>4 DEF GroupInv, Before
  <2> QED
    BY <2>1, <2>5
<1>5. (Marked \union Rebuilding)' \subseteq Marked \union Rebuilding
  <2>1. Marked' = {}
    BY <1>2 DEF Marked, Before
  <2>2. m.args \subseteq Marked
    BY <1>1 DEF Marked, Before
  <2>3. Rebuilding' \subseteq Rebuilding \union m.args
    BY <1>2 DEF Rebuilding
  <2> QED
    BY <2>1, <2>2, <2>3
<1>6. \A h \in Marked \union Rebuilding : m.job[h] \in Job
  BY <1>0 DEF Marked, Rebuilding, GroupInv, Run
<1>7. \A h \in Hosts : /\ m'.stage[h] = "machine" => m'.semaphore = h /\ m'.target = h
                       /\ m'.stage[h] = "record" /\ Reinstalls(h)' => fresh[h]
  BY <1>0, <1>2 DEF FreshInv, Reinstalls
<1>8. WiringInv' /\ FreshInv'
  BY <1>0, <1>1, <1>2, <1>5, <1>6, <1>7, FactsKept
<1> QED
  BY <1>4, <1>8

----------------------------------------------------------------------------
(* The coroutines.                                                         *)

(* A coroutine that runs is of a host the loop does not mark.              *)
LEMMA CoroutineHost ==
  ASSUME RunOK, GroupInv, Running, NEW h \in Rebuilding
  PROVE  /\ h \in Hosts /\ h \notin Marked /\ h \notin m.left
         /\ m.job[h] \in Job /\ m.stage[h] # "none"
         /\ m.pc \in Before => h \notin m.group
         /\ m.pc = "configure" => m.at # h
BY DEF RunOK, Rebuilding, Marked, GroupInv, Running, Before

StepTo(h, s, x, y) == m' = [m EXCEPT !.stage[h] = s, !.semaphore = x, !.target = y]

(* A step of one touches nothing of the loop.                              *)
LEMMA CoroutineRun ==
  ASSUME RunOK, GroupInv, Running, NEW h \in Rebuilding,
         NEW s \in Stages \ {"none"},
         NEW x \in Hosts \union {None}, NEW y \in Hosts \union {None},
         StepTo(h, s, x, y)
  PROVE  /\ RunOK' /\ GroupInv'
         /\ m'.pc = m.pc /\ m'.at = m.at /\ m'.job = m.job
         /\ m'.stage = [m.stage EXCEPT ![h] = s] /\ m'.stage \in [Hosts -> Stages]
         /\ m'.semaphore = x /\ m'.target = y
         /\ Marked' = Marked
<1>0. m \in Run /\ m.pc \in {"configure", "gather"}
  BY DEF RunOK, Running
<1>1. /\ h \in Hosts /\ h \notin m.left /\ m.stage[h] # "none" /\ m.job[h] \in Job
      /\ m.pc \in Before => h \notin m.group
  BY CoroutineHost
<1>2. /\ m'.pc = m.pc /\ m'.at = m.at /\ m'.todo = m.todo
      /\ m'.left = m.left /\ m'.group = m.group /\ m'.args = m.args /\ m'.job = m.job
      /\ m'.stage = [m.stage EXCEPT ![h] = s] /\ m'.semaphore = x /\ m'.target = y
      /\ m' = [pc |-> m'.pc, left |-> m'.left, group |-> m'.group, todo |-> m'.todo,
               at |-> m'.at, args |-> m'.args, job |-> m'.job, stage |-> m'.stage,
               semaphore |-> m'.semaphore, target |-> m'.target]
  BY <1>0 DEF Run, StepTo
<1>3. m.stage \in [Hosts -> Stages]
  BY <1>0 DEF Run
<1>4. m'.stage \in [Hosts -> Stages]
  BY <1>2, <1>3
<1>5. m' \in Run
  BY <1>0, <1>2, <1>4 DEF Run
<1>6. RunOK'
  BY <1>0, <1>2, <1>5 DEF RunOK
<1>7. GroupInv'
  BY <1>0, <1>1, <1>2, <1>3 DEF GroupInv, Before
<1>8. Marked' = Marked
  BY <1>2 DEF Marked
<1> QED
  BY <1>2, <1>4, <1>6, <1>7, <1>8

(* It leaves the switches and the other hosts alone, records its own host  *)
(* as built at its end only, reinstalled if it must be, and leaves the     *)
(* dispatcher to the coroutine that holds the semaphore.                   *)
LEMMA CoroutineFacts ==
  ASSUME RunOK, GroupInv, WiringInv, FreshInv, Running, NEW h \in Rebuilding,
         m'.pc = m.pc, m'.at = m.at, m'.job = m.job, Marked' = Marked,
         active' = active, wiring' = wiring,
         \A g \in Hosts \ {h} : /\ cloud'[g] = cloud[g] /\ build'[g] = build[g]
                                /\ applied'[g] = applied[g] /\ fresh'[g] = fresh[g]
                                /\ m'.stage[g] = m.stage[g],
         applied'[h] => applied[h],
         build'[h] => /\ m.stage[h] = "record" /\ m'.stage[h] = "done"
                      /\ cloud'[h] = m.job[h].new /\ fresh'[h] = fresh[h],
         m'.stage[h] = "record" /\ Reinstalls(h) => fresh'[h],
         \A g \in Hosts : m'.stage[g] = "machine" => m'.semaphore = g /\ m'.target = g
  PROVE  WiringInv' /\ FreshInv'
<1>1. /\ h \in Hosts /\ h \notin Marked /\ m.job[h] \in Job
      /\ m.pc \in {"configure", "gather"} /\ (m.pc = "configure" => m.at # h)
  BY CoroutineHost DEF Running
<1>2. m.pc = "configure" => m.at \in Hosts
  BY AtMarked
<1>3. /\ (Marked \union Rebuilding)' \subseteq Marked \union Rebuilding
      /\ Marked \union Rebuilding \subseteq Hosts
      /\ h \in Rebuilding' => ~build'[h]
  BY <1>1 DEF RunOK, Run, Rebuilding, Marked
<1>4. WiringInv'
  <2>1. AppliedIsTrue'
    BY <1>1 DEF WiringInv, AppliedIsTrue
  <2>2. \A g \in (Marked \union Rebuilding)' :
          ~build'[g] /\ (applied'[g] => wiring'[g] = m'.job[g].new)
    BY <1>1, <1>3 DEF WiringInv
  <2> QED
    BY <1>1, <1>2, <2>1, <2>2 DEF WiringInv
<1>5. FreshInv'
  <2>1. m.job[h].new \in Wiped /\ active[m.job[h].new] => m.job[h].wipe
    BY DEF FreshInv
  <2>2. build'[h] /\ m.job[h].new \in Wiped /\ m.job[h].new # Home[h] /\ active[m.job[h].new]
          => fresh'[h]
    BY <1>1, <2>1 DEF FreshInv, Reinstalls
  <2>3. FreshlyBuilt'
    BY <2>2 DEF FreshInv, FreshlyBuilt
  <2>4. \A g \in (Marked \union Rebuilding)' :
          m'.job[g].new \in Wiped /\ active'[m'.job[g].new] => m'.job[g].wipe
    BY <1>3 DEF FreshInv
  <2>5. \A g \in Hosts : m'.stage[g] = "record" /\ Reinstalls(g)' => fresh'[g]
    BY DEF FreshInv, Reinstalls
  <2> QED
    BY <2>3, <2>4, <2>5 DEF FreshInv
<1> QED
  BY <1>4, <1>5

(* A coroutine that is not at the dispatcher frees its semaphore, and no   *)
(* other.                                                                  *)
LEMMA OthersKept ==
  ASSUME FreshInv, NEW h \in Hosts, m'.stage[h] # "machine",
         \A g \in Hosts \ {h} : m'.stage[g] = m.stage[g],
         m'.semaphore \in {m.semaphore, Left(h)}, m'.target = m.target
  PROVE  \A g \in Hosts : m'.stage[g] = "machine" => m'.semaphore = g /\ m'.target = g
BY DEF FreshInv, Left

(* From one stage to the next with nothing to show for it.                 *)
LEMMA StageInv ==
  ASSUME MoverInv, Running, NEW h \in Rebuilding, NEW s \in Stages \ {"none", "machine"},
         NEW x \in {m.semaphore, Left(h)},
         StepTo(h, s, x, m.target),
         active' = active, wiring' = wiring, cloud' = cloud, fresh' = fresh,
         \/ build' = build /\ applied' = applied
         \/ build' = [build EXCEPT ![h] = FALSE] /\ applied' = [applied EXCEPT ![h] = FALSE],
         s = "record" => ~m.job[h].wipe
  PROVE  RunOK' /\ GroupInv' /\ WiringInv' /\ FreshInv'
<1>0. WorldOK /\ RunOK /\ GroupInv /\ WiringInv /\ FreshInv /\ h \in Hosts
  BY DEF MoverInv, TypeOK, Rebuilding
<1>1. x \in Hosts \union {None} /\ m.target \in Hosts \union {None}
  BY <1>0 DEF RunOK, Run, Left
<1>2. /\ RunOK' /\ GroupInv'
      /\ m'.pc = m.pc /\ m'.at = m.at /\ m'.job = m.job
      /\ m'.stage = [m.stage EXCEPT ![h] = s] /\ m'.stage \in [Hosts -> Stages]
      /\ m'.semaphore = x /\ m'.target = m.target
      /\ Marked' = Marked
  BY <1>0, <1>1, CoroutineRun
<1>3. m'.stage[h] = s /\ \A g \in Hosts \ {h} : m'.stage[g] = m.stage[g]
  BY <1>0, <1>2 DEF RunOK, Run
<1>4. /\ ~build'[h] /\ (applied'[h] => applied[h])
      /\ \A g \in Hosts \ {h} : build'[g] = build[g] /\ applied'[g] = applied[g]
  BY <1>0 DEF WorldOK, WiringInv
<1>5. \A g \in Hosts : m'.stage[g] = "machine" => m'.semaphore = g /\ m'.target = g
  BY <1>0, <1>2, <1>3, OthersKept
<1>6. m'.stage[h] = "record" /\ Reinstalls(h) => fresh'[h]
  BY <1>3 DEF Reinstalls
<1>7. WiringInv' /\ FreshInv'
  BY <1>0, <1>2, <1>3, <1>4, <1>5, <1>6, CoroutineFacts
<1> QED
  BY <1>2, <1>7

LEMMA IpmiInv ==
  ASSUME MoverInv, NEW h \in Hosts, Ipmi(h) \/ Raise(h)
  PROVE  RunOK' /\ GroupInv' /\ WiringInv' /\ FreshInv'
<1>0. m \in Run
  BY DEF MoverInv, TypeOK, RunOK
<1>1. Running /\ h \in Rebuilding /\ UNCHANGED <<active, wiring, cloud, fresh, build, applied>>
  BY DEF Ipmi, Raise, In, Rebuilding, world, assignments, columns, machines
<1>2. CASE Ipmi(h)
  <2>1. PICK s \in {"hardware", "record"} :
          m' = [m EXCEPT !.stage[h] = s] /\ (s = "record" => ~m.job[h].wipe)
    BY <1>2 DEF Ipmi, Goes
  <2>2. StepTo(h, s, m.semaphore, m.target)
    BY <1>0, <2>1 DEF Run, StepTo
  <2> QED
    BY <1>1, <2>1, <2>2, StageInv DEF Stages
<1>3. CASE Raise(h)
  <2>1. StepTo(h, "raised", Left(h), m.target)
    BY <1>0, <1>3 DEF Raise, Run, StepTo
  <2> QED
    BY <1>1, <2>1, StageInv DEF Stages
<1> QED
  BY <1>2, <1>3

LEMMA FailInv ==
  ASSUME MoverInv, NEW h \in Hosts, IpmiFails(h) \/ HardwareFails(h)
  PROVE  RunOK' /\ GroupInv' /\ WiringInv' /\ FreshInv'
<1>0. m \in Run
  BY DEF MoverInv, TypeOK, RunOK
<1>1. Running /\ h \in Rebuilding /\ Fail(h)
  BY DEF IpmiFails, HardwareFails, In, Rebuilding
<1>2. /\ UNCHANGED <<active, wiring, cloud, fresh>>
      /\ build' = [build EXCEPT ![h] = FALSE] /\ applied' = [applied EXCEPT ![h] = FALSE]
      /\ StepTo(h, "failed", Left(h), m.target)
  BY <1>0, <1>1 DEF Fail, Run, assignments, StepTo
<1> QED
  BY <1>1, <1>2, StageInv DEF Stages

(* The semaphore was free, so no other coroutine is at the dispatcher.     *)
LEMMA HardwareBeginInv ==
  ASSUME MoverInv, NEW h \in Hosts, HardwareBegin(h)
  PROVE  RunOK' /\ GroupInv' /\ WiringInv' /\ FreshInv'
<1>0. TypeOK /\ RunOK /\ GroupInv /\ WiringInv /\ FreshInv /\ m \in Run
  BY DEF MoverInv, TypeOK, RunOK
<1>1. /\ Running /\ h \in Rebuilding /\ m.semaphore = None /\ StepTo(h, "machine", h, h)
      /\ UNCHANGED <<active, columns, machines>>
  BY <1>0 DEF HardwareBegin, In, Rebuilding, world, assignments, StepTo, Run
<1>2. "machine" \in Stages \ {"none"} /\ h \in Hosts \union {None}
  BY DEF Stages
<1>3. /\ RunOK' /\ GroupInv'
      /\ m'.pc = m.pc /\ m'.at = m.at /\ m'.job = m.job
      /\ m'.stage = [m.stage EXCEPT ![h] = "machine"] /\ m'.stage \in [Hosts -> Stages]
      /\ m'.semaphore = h /\ m'.target = h
      /\ Marked' = Marked
  BY <1>0, <1>1, <1>2, CoroutineRun
<1>4. m'.stage[h] = "machine" /\ \A g \in Hosts \ {h} : m'.stage[g] = m.stage[g]
  BY <1>0, <1>3 DEF Run
<1>5. \A g \in Hosts : m'.stage[g] = "machine" => m'.semaphore = g /\ m'.target = g
  <2>1. None \notin Hosts
    BY MoverAssumption
  <2> QED
    BY <1>0, <1>1, <1>3, <1>4, <2>1 DEF FreshInv
<1>6. ~build[h]
  BY <1>0, <1>1 DEF WiringInv
<1>7. WiringInv' /\ FreshInv'
  BY <1>0, <1>1, <1>3, <1>4, <1>5, <1>6, CoroutineFacts DEF columns, machines
<1> QED
  BY <1>3, <1>7

(* The machine that the dispatcher prepared is the coroutine's own.        *)
LEMMA PrepareInv ==
  ASSUME MoverInv, NEW h \in Hosts, HardwareEnd(h) \/ HardwareDirect(h)
  PROVE  RunOK' /\ GroupInv' /\ WiringInv' /\ FreshInv'
<1>0. WorldOK /\ RunOK /\ GroupInv /\ WiringInv /\ FreshInv /\ m \in Run
  BY DEF MoverInv, TypeOK, RunOK
<1>1. Running /\ h \in Rebuilding /\ Prepare(h, h)
  BY <1>0 DEF HardwareEnd, HardwareDirect, In, Rebuilding, FreshInv
<1>2. /\ UNCHANGED <<active, cloud, build, applied, wiring>>
      /\ fresh' = IF Reinstalls(h) THEN [fresh EXCEPT ![h] = TRUE] ELSE fresh
      /\ StepTo(h, "record", Left(h), m.target)
  BY <1>0, <1>1 DEF Prepare, assignments, columns, Run, StepTo
<1>3. /\ "record" \in Stages \ {"none"} /\ Left(h) \in Hosts \union {None}
      /\ m.target \in Hosts \union {None}
  BY <1>0 DEF Stages, Left, Run
<1>4. /\ RunOK' /\ GroupInv'
      /\ m'.pc = m.pc /\ m'.at = m.at /\ m'.job = m.job
      /\ m'.stage = [m.stage EXCEPT ![h] = "record"] /\ m'.stage \in [Hosts -> Stages]
      /\ m'.semaphore = Left(h) /\ m'.target = m.target
      /\ Marked' = Marked
  BY <1>0, <1>1, <1>2, <1>3, CoroutineRun
<1>5. m'.stage[h] = "record" /\ \A g \in Hosts \ {h} : m'.stage[g] = m.stage[g]
  BY <1>0, <1>4 DEF Run
<1>6. \A g \in Hosts : m'.stage[g] = "machine" => m'.semaphore = g /\ m'.target = g
  BY <1>0, <1>4, <1>5, OthersKept
<1>7. ~build[h]
  BY <1>0, <1>1 DEF WiringInv
<1>8. (Reinstalls(h) => fresh'[h]) /\ \A g \in Hosts \ {h} : fresh'[g] = fresh[g]
  BY <1>0, <1>2 DEF WorldOK
<1>9. WiringInv' /\ FreshInv'
  BY <1>0, <1>1, <1>2, <1>4, <1>5, <1>6, <1>7, <1>8, CoroutineFacts
<1> QED
  BY <1>4, <1>9

(* The host joins the cloud its ports and its machine were prepared for.   *)
LEMMA RecordInv ==
  ASSUME MoverInv, NEW h \in Hosts, Record(h)
  PROVE  RunOK' /\ GroupInv' /\ WiringInv' /\ FreshInv'
<1>0. WorldOK /\ RunOK /\ GroupInv /\ WiringInv /\ FreshInv /\ m \in Run
  BY DEF MoverInv, TypeOK, RunOK
<1>1. /\ Running /\ h \in Rebuilding /\ m.stage[h] = "record"
      /\ UNCHANGED <<active, applied, fresh, wiring>>
      /\ cloud' = [cloud EXCEPT ![h] = m.job[h].new] /\ build' = [build EXCEPT ![h] = TRUE]
      /\ StepTo(h, "done", m.semaphore, m.target)
  BY <1>0 DEF Record, In, Goes, Rebuilding, assignments, machines, Run, StepTo
<1>2. /\ "done" \in Stages \ {"none"} /\ m.semaphore \in Hosts \union {None}
      /\ m.target \in Hosts \union {None}
  BY <1>0 DEF Stages, Run
<1>3. /\ RunOK' /\ GroupInv'
      /\ m'.pc = m.pc /\ m'.at = m.at /\ m'.job = m.job
      /\ m'.stage = [m.stage EXCEPT ![h] = "done"] /\ m'.stage \in [Hosts -> Stages]
      /\ m'.semaphore = m.semaphore /\ m'.target = m.target
      /\ Marked' = Marked
  BY <1>0, <1>1, <1>2, CoroutineRun
<1>4. m'.stage[h] = "done" /\ \A g \in Hosts \ {h} : m'.stage[g] = m.stage[g]
  BY <1>0, <1>3 DEF Run
<1>5. \A g \in Hosts : m'.stage[g] = "machine" => m'.semaphore = g /\ m'.target = g
  BY <1>0, <1>3, <1>4, OthersKept
<1>6. /\ cloud'[h] = m.job[h].new
      /\ \A g \in Hosts \ {h} : cloud'[g] = cloud[g] /\ build'[g] = build[g]
  BY <1>0, <1>1 DEF WorldOK
<1>7. WiringInv' /\ FreshInv'
  BY <1>0, <1>1, <1>3, <1>4, <1>5, <1>6, CoroutineFacts
<1> QED
  BY <1>3, <1>7

----------------------------------------------------------------------------
(* The end of a group.                                                     *)

LEMMA JoinedInv ==
  ASSUME MoverInv, Joined
  PROVE  RunOK' /\ GroupInv' /\ WiringInv' /\ FreshInv'
<1>0. TypeOK /\ RunOK /\ GroupInv /\ WiringInv /\ FreshInv /\ m \in Run
  BY DEF MoverInv, TypeOK, RunOK
<1>1. m.pc = "gather" /\ UNCHANGED <<columns, machines, active>>
  BY DEF Joined, At, world, assignments
<1>2. /\ m' \in Run /\ m'.pc \in {"provision", "group"} /\ m'.at = m.at /\ m'.todo = m.todo
      /\ m'.left = m.left /\ m'.group = m.group /\ m'.args = m.args
      /\ m'.job = m.job /\ m'.stage = m.stage
      /\ m'.semaphore = m.semaphore /\ m'.target = m.target
  BY <1>0 DEF Joined, Run, Labels
<1>3. RunOK' /\ GroupInv'
  BY <1>0, <1>1, <1>2 DEF RunOK, GroupInv, Before
<1>4. Marked' = {} /\ Rebuilding' = Rebuilding
  BY <1>2 DEF Marked, Rebuilding, Before
<1>5. \A h \in Rebuilding : m.job[h] \in Job
  BY <1>0 DEF Rebuilding, GroupInv
<1>6. \A h \in Hosts : /\ m'.stage[h] = "machine" => m'.semaphore = h /\ m'.target = h
                       /\ m'.stage[h] = "record" /\ Reinstalls(h)' => fresh[h]
  BY <1>0, <1>2 DEF FreshInv, Reinstalls
<1>7. WiringInv' /\ FreshInv'
  BY <1>0, <1>1, <1>2, <1>4, <1>5, <1>6, FactsKept
<1> QED
  BY <1>3, <1>7

LEMMA ProvisionInv ==
  ASSUME MoverInv, Provision \/ Announce
  PROVE  RunOK' /\ GroupInv' /\ WiringInv' /\ FreshInv'
<1>1. UNCHANGED <<columns, machines, active>>
  BY DEF Provision, Announce, MarkProvisioned, world, assignments
<1>2. CASE Provision
  <2>1. m.pc = "provision" /\ (Done("announce", None) \/ Done("group", None))
    BY <1>2 DEF Provision, At
  <2> QED
    BY <1>1, <2>1, TurnInv DEF Turns, Labels
<1>3. CASE Announce
  <2>1. m.pc = "announce" /\ Done("group", None)
    BY <1>3 DEF Announce, At
  <2> QED
    BY <1>1, <2>1, TurnInv DEF Turns, Labels
<1> QED
  BY <1>2, <1>3

(* Time, the end of an assignment: the run is not touched.                 *)
LEMMA OutsideInv ==
  ASSUME MoverInv, m' = m, UNCHANGED <<columns, machines>>,
         \A c \in Clouds : active'[c] => active[c]
  PROVE  RunOK' /\ GroupInv' /\ WiringInv' /\ FreshInv'
<1>0. TypeOK /\ RunOK /\ GroupInv /\ WiringInv /\ FreshInv
  BY DEF MoverInv, TypeOK
<1>1. RunOK' /\ GroupInv'
  BY <1>0 DEF RunOK, GroupInv
<1>2. Marked' = Marked /\ Rebuilding' = Rebuilding
  BY DEF Marked, Rebuilding
<1>3. \A h \in Marked \union Rebuilding : m.job[h] \in Job
  BY <1>0 DEF Marked, Rebuilding, GroupInv, RunOK, Run
<1>4. \A h \in Hosts : /\ m'.stage[h] = "machine" => m'.semaphore = h /\ m'.target = h
                       /\ m'.stage[h] = "record" /\ Reinstalls(h)' => fresh[h]
  BY <1>0 DEF FreshInv, Reinstalls
<1>5. /\ m'.pc = "configure" => ~applied[m'.at]
      /\ m'.pc = "flag" => wiring[m'.at] = m'.job[m'.at].new
  BY <1>0 DEF WiringInv
<1>6. WiringInv' /\ FreshInv'
  BY <1>0, <1>2, <1>3, <1>4, <1>5, FactsKept
<1> QED
  BY <1>1, <1>6

----------------------------------------------------------------------------
(* The records of the server and of the machines.                          *)

LEMMA ReportType ==
  ASSUME status \in [Schedules -> Statuses], NEW h, NEW s \in Statuses, Report(h, s)
  PROVE  status' \in [Schedules -> Statuses]
BY DEF Report

LEMMA MarkedProvisionedType ==
  ASSUME WorldOK, NEW c, MarkProvisioned(c)
  PROVE  /\ provisioned' \in [Clouds -> BOOLEAN] /\ validated' \in [Clouds -> BOOLEAN]
         /\ UNCHANGED <<now, active, cloud, build, applied, tested, wiring, fresh, status>>
BY DEF WorldOK, MarkProvisioned, columns, machines

(* What the coroutines record.                                             *)
LEMMA CoroutineWorld ==
  ASSUME MoverInv, NEW h \in Hosts, faults' \in 0 .. MaxFaults,
         Rebuild(h) \/ IpmiFails(h) \/ HardwareFails(h) \/ Raise(h)
  PROVE  WorldOK'
<1>0. WorldOK /\ GroupInv /\ FreshInv /\ m \in Run
  BY DEF MoverInv, TypeOK, RunOK
<1>1. CASE Ipmi(h)
  <2>1. status' \in [Schedules -> Statuses]
    BY <1>0, <1>1, ReportType DEF Ipmi, WorldOK, Statuses
  <2> QED
    BY <1>0, <1>1, <2>1 DEF Ipmi, WorldOK, assignments, columns
<1>2. CASE HardwareBegin(h) \/ Raise(h)
  BY <1>0, <1>2, WorldKept DEF HardwareBegin, Raise
<1>3. CASE HardwareEnd(h) \/ HardwareDirect(h)
  <2>1. PICK g : Prepare(h, g)
    BY <1>3 DEF HardwareEnd, HardwareDirect
  <2>2. status' \in [Schedules -> Statuses]
    BY <1>0, <2>1, ReportType DEF Prepare, WorldOK, Statuses
  <2>3. fresh' \in [Hosts -> BOOLEAN]
    BY <1>0, <2>1 DEF Prepare, WorldOK
  <2> QED
    BY <1>0, <2>1, <2>2, <2>3 DEF Prepare, WorldOK, assignments, columns
<1>4. CASE Record(h)
  <2>1. status' \in [Schedules -> Statuses]
    BY <1>0, <1>4, ReportType DEF Record, WorldOK, Statuses
  <2>2. m.job[h].new \in Clouds
    BY <1>0, <1>4 DEF Record, In, GroupInv, Job
  <2> QED
    BY <1>0, <1>4, <2>1, <2>2 DEF Record, WorldOK, assignments, machines
<1>5. CASE IpmiFails(h) \/ HardwareFails(h)
  <2>1. Fail(h)
    BY <1>5 DEF IpmiFails, HardwareFails
  <2>2. status' \in [Schedules -> Statuses]
    BY <1>0, <2>1, ReportType DEF Fail, WorldOK, Statuses
  <2> QED
    BY <1>0, <2>1, <2>2 DEF Fail, WorldOK, assignments
<1> QED
  BY <1>1, <1>2, <1>3, <1>4, <1>5 DEF Rebuild

(* What the loop records of a host.                                        *)
LEMMA SwitchWorld ==
  ASSUME MoverInv, faults' \in 0 .. MaxFaults,
         \/ Reset \/ SwitchLook \/ SwitchLookFails
         \/ Configure \/ ConfigureFails \/ Flag \/ FlagFails
  PROVE  WorldOK'
<1>0. WorldOK /\ RunOK /\ GroupInv /\ m \in Run
  BY DEF MoverInv, TypeOK, RunOK
<1>1. CASE Reset
  BY <1>0, <1>1 DEF Reset, WorldOK, assignments
<1>2. CASE SwitchLook \/ SwitchLookFails
  <2>1. status' \in [Schedules -> Statuses]
    BY <1>0, <1>2, ReportType DEF SwitchLook, SwitchLookFails, WorldOK, Statuses
  <2> QED
    BY <1>0, <1>2, <2>1
       DEF SwitchLook, SwitchLookFails, WorldOK, assignments, columns, machines
<1>3. CASE Configure \/ ConfigureFails
  <2>1. m.at \in Hosts /\ m.job[m.at].new \in Clouds
    BY <1>0, <1>3, AtMarked DEF Configure, ConfigureFails, At, Job
  <2>2. wiring' \in [Hosts -> Clouds \union {Split}]
    BY <1>0, <1>3, <2>1 DEF Configure, ConfigureFails, WorldOK
  <2>3. status' \in [Schedules -> Statuses]
    BY <1>0, <1>3, ReportType DEF Configure, ConfigureFails, WorldOK, Statuses
  <2> QED
    BY <1>0, <1>3, <2>2, <2>3 DEF Configure, ConfigureFails, WorldOK, assignments, columns
<1>4. CASE Flag
  BY <1>0, <1>4 DEF Flag, WorldOK, assignments, machines
<1>5. CASE FlagFails
  BY <1>0, <1>5, WorldKept DEF FlagFails
<1> QED
  BY <1>1, <1>2, <1>3, <1>4, <1>5

(* What the loop records of an assignment or a schedule.                   *)
LEMMA GroupWorld ==
  ASSUME MoverInv, faults' \in 0 .. MaxFaults,
         SweepMark \/ Unvalidate \/ Batch \/ Deactivate \/ Provision \/ Announce
  PROVE  WorldOK'
<1>0. WorldOK
  BY DEF MoverInv, TypeOK
<1>1. CASE SweepMark
  BY <1>0, <1>1, MarkedProvisionedType DEF SweepMark, WorldOK
<1>2. CASE Unvalidate
  BY <1>0, <1>2 DEF Unvalidate, WorldOK, columns, machines
<1>3. CASE Batch
  <2>1. status' \in [Schedules -> Statuses]
    BY <1>0, <1>3 DEF Batch, WorldOK, Statuses
  <2> QED
    BY <1>0, <1>3, <2>1 DEF Batch, WorldOK, assignments, columns, machines
<1>4. CASE Deactivate
  BY <1>0, <1>4 DEF Deactivate, WorldOK, columns, machines
<1>5. CASE Provision
  <2>1. CASE UNCHANGED world
    BY <1>0, <2>1, WorldKept
  <2>2. CASE MarkProvisioned(Target)
    BY <1>0, <2>2, MarkedProvisionedType DEF WorldOK
  <2> QED
    BY <1>5, <2>1, <2>2 DEF Provision
<1>6. CASE Announce
  <2>1. status' \in [Schedules -> Statuses]
    BY <1>0, <1>6 DEF Announce, WorldOK, Statuses
  <2> QED
    BY <1>0, <1>6, <2>1 DEF Announce, WorldOK, assignments, columns, machines
<1> QED
  BY <1>1, <1>2, <1>3, <1>4, <1>5, <1>6

----------------------------------------------------------------------------
(* The invariant is inductive.                                             *)

LEMMA MoverInit == Init => MoverInv
<1> SUFFICES ASSUME Init PROVE MoverInv
  OBVIOUS
<1> USE DEF Init
<1>1. WorldOK
  BY MoverAssumption DEF WorldOK, Statuses
<1>2. RunOK
  BY DEF RunOK, Run, Idle, Labels, Stages
<1>3. GroupInv
  BY DEF GroupInv, Idle, Before
<1>4. Marked = {} /\ Rebuilding = {}
  BY DEF Marked, Rebuilding, Idle
<1>5. WiringInv
  BY <1>4 DEF WiringInv, AppliedIsTrue, Idle
<1>6. FreshInv
  BY <1>4 DEF FreshInv, FreshlyBuilt, Idle
<1> QED
  BY <1>1, <1>2, <1>3, <1>5, <1>6 DEF MoverInv, TypeOK

LEMMA MovingInv ==
  ASSUME MoverInv, Moving, faults' \in 0 .. MaxFaults
  PROVE  MoverInv'
<1>0. WorldOK
  BY DEF MoverInv, TypeOK
<1> USE DEF MoverInv, TypeOK
<1>1. CASE \E h \in Hosts : Rebuild(h)
  <2>1. PICK h \in Hosts : Rebuild(h)
    BY <1>1
  <2>2. WorldOK'
    BY <2>1, CoroutineWorld
  <2>3. RunOK' /\ GroupInv' /\ WiringInv' /\ FreshInv'
    BY <2>1, IpmiInv, HardwareBeginInv, PrepareInv, RecordInv, Zenon DEF Rebuild
  <2> QED
    BY <2>2, <2>3
<1>2. CASE GetMoves
  BY <1>0, <1>2, WorldKept, GetMovesInv DEF GetMoves
<1>3. CASE Survey
  BY <1>0, <1>3, WorldKept, SurveyInv DEF Survey
<1>4. CASE SweepLook \/ EndSweep
  BY <1>0, <1>4, WorldKept, SweepInv DEF SweepLook, EndSweep
<1>5. CASE SweepMark
  BY <1>5, GroupWorld, SweepInv
<1>6. CASE NextCloud
  BY <1>0, <1>6, WorldKept, NextCloudInv DEF NextCloud
<1>7. CASE Reset
  BY <1>7, SwitchWorld, ResetInv
<1>8. CASE Unvalidate
  BY <1>8, GroupWorld, UnvalidateInv
<1>9. CASE Batch
  BY <1>9, GroupWorld, BatchInv
<1>10. CASE SwitchLook
  BY <1>10, SwitchWorld, SwitchLookInv
<1>11. CASE Configure
  BY <1>11, SwitchWorld, ConfigureInv
<1>12. CASE Flag
  BY <1>12, SwitchWorld, FlagInv
<1>13. CASE EndSwitch
  BY <1>0, <1>13, WorldKept, EndSwitchInv DEF EndSwitch
<1>14. CASE RetireLook
  BY <1>0, <1>14, WorldKept, RetireInv DEF RetireLook
<1>15. CASE Deactivate
  BY <1>15, GroupWorld, RetireInv
<1>16. CASE StartGather
  BY <1>0, <1>16, WorldKept, StartGatherInv DEF StartGather
<1>17. CASE Joined
  BY <1>0, <1>17, WorldKept, JoinedInv DEF Joined
<1>18. CASE Provision \/ Announce
  BY <1>18, GroupWorld, ProvisionInv
<1> QED
  BY <1>1, <1>2, <1>3, <1>4, <1>5, <1>6, <1>7, <1>8, <1>9, <1>10, <1>11, <1>12, <1>13,
     <1>14, <1>15, <1>16, <1>17, <1>18 DEF Moving

LEMMA FaultInv ==
  ASSUME MoverInv, Fault, faults' \in 0 .. MaxFaults
  PROVE  MoverInv'
<1>0. WorldOK
  BY DEF MoverInv, TypeOK
<1> USE DEF MoverInv, TypeOK
<1>1. CASE BatchFails
  BY <1>0, <1>1, WorldKept, BatchInv DEF BatchFails
<1>2. CASE SwitchLookFails
  BY <1>2, SwitchWorld, SwitchLookInv
<1>3. CASE ConfigureFails
  BY <1>3, SwitchWorld, ConfigureInv
<1>4. CASE FlagFails
  BY <1>4, SwitchWorld, FlagInv
<1>5. CASE Crash
  BY <1>0, <1>5, WorldKept, IdleInv DEF Crash
<1>6. CASE \E h \in Hosts : IpmiFails(h) \/ HardwareFails(h) \/ Raise(h)
  <2>1. PICK h \in Hosts : IpmiFails(h) \/ HardwareFails(h) \/ Raise(h)
    BY <1>6
  <2>2. WorldOK'
    BY <2>1, CoroutineWorld
  <2>3. RunOK' /\ GroupInv' /\ WiringInv' /\ FreshInv'
    BY <2>1, IpmiInv, FailInv
  <2> QED
    BY <2>2, <2>3
<1> QED
  BY <1>1, <1>2, <1>3, <1>4, <1>5, <1>6 DEF Fault

LEMMA MoverInductive == MoverInv /\ [Next]_vars => MoverInv'
<1> SUFFICES ASSUME MoverInv, [Next]_vars PROVE MoverInv'
  OBVIOUS
<1>0. WorldOK /\ faults \in 0 .. MaxFaults /\ now \in 0 .. MaxTime
  BY DEF MoverInv, TypeOK, WorldOK
<1>1. CASE Moving /\ UNCHANGED faults
  BY <1>0, <1>1, MovingInv
<1>2. CASE Fault /\ faults < MaxFaults /\ faults' = faults + 1
  <2>1. faults' \in 0 .. MaxFaults
    BY <1>0, <1>2, MoverAssumption
  <2> QED
    BY <1>2, <2>1, FaultInv
<1>3. CASE Tick /\ UNCHANGED faults
  <2>1. now' \in 0 .. MaxTime
    BY <1>0, <1>3, MoverAssumption DEF Tick
  <2>2. WorldOK'
    BY <1>0, <1>3, <2>1 DEF Tick, WorldOK, assignments, columns, machines
  <2>3. RunOK' /\ GroupInv' /\ WiringInv' /\ FreshInv'
    BY <1>3, OutsideInv DEF Tick, assignments
  <2> QED
    BY <2>2, <2>3 DEF MoverInv, TypeOK
<1>4. CASE (\E c \in Clouds : Terminate(c)) /\ UNCHANGED faults
  <2>1. PICK c \in Clouds : Terminate(c)
    BY <1>4
  <2>2. WorldOK'
    BY <1>0, <1>4, <2>1 DEF Terminate, WorldOK, columns, machines
  <2>3. \A d \in Clouds : active'[d] => active[d]
    BY <1>0, <2>1 DEF Terminate, WorldOK
  <2>4. RunOK' /\ GroupInv' /\ WiringInv' /\ FreshInv'
    BY <2>1, <2>3, OutsideInv DEF Terminate
  <2> QED
    BY <2>2, <2>4 DEF MoverInv, TypeOK
<1>5. CASE UNCHANGED vars
  <2>1. UNCHANGED <<world, m, faults>> /\ UNCHANGED <<columns, machines, active>>
    BY <1>5 DEF vars, world, assignments
  <2>2. WorldOK'
    BY <1>0, <2>1, WorldKept
  <2>3. RunOK' /\ GroupInv' /\ WiringInv' /\ FreshInv'
    BY <2>1, OutsideInv
  <2> QED
    BY <2>2, <2>3 DEF MoverInv, TypeOK
<1> QED
  BY <1>1, <1>2, <1>3, <1>4, <1>5 DEF Next

THEOREM MoverInvariant == Spec => []MoverInv
BY MoverInit, MoverInductive, PTL DEF Spec

(* The records of the server and of the run keep their types.              *)
THEOREM MoverTypes == Spec => []TypeOK
<1>1. MoverInv => TypeOK
  BY DEF MoverInv
<1> QED
  BY <1>1, MoverInvariant, PTL

(* A host recorded as built, its switch configuration applied, has its     *)
(* ports in the VLANs of the cloud it is recorded in.                      *)
THEOREM WiringTold == Spec => []AppliedIsTrue
<1>1. MoverInv => AppliedIsTrue
  BY DEF MoverInv, WiringInv
<1> QED
  BY <1>1, MoverInvariant, PTL

(* A host recorded as built in a cloud that wipes was reinstalled for it.  *)
THEOREM BuiltFresh == Spec => []FreshlyBuilt
<1>1. MoverInv => FreshlyBuilt
  BY DEF MoverInv, FreshInv
<1> QED
  BY <1>1, MoverInvariant, PTL
=============================================================================
