------------------------------- MODULE Switch -------------------------------
(***************************************************************************)
(* The switch plugins: what `quads --move-hosts` (configure) and an        *)
(* operator (`--verify-switch-conf`, `--mod-switch-conf`) do to the ports  *)
(* of one host.  Each NIC is cabled to a Junos or an EOS switch.  Junos    *)
(* collects edits in one candidate configuration, shared by all sessions,  *)
(* until a commit; EOS runs every line at once, and forgets at a reboot    *)
(* what was not saved.  The mover and the operator are two processes, each *)
(* a sequence of reads and typed lines; either may fail at every line.     *)
(***************************************************************************)
EXTENDS Integers, Sequences, FiniteSets

CONSTANTS
  Nics,       \* the interfaces of the host, by name: 1..n
  Layouts,    \* the switch_vendor of each NIC: the hosts to consider
  Clouds,     \* cloud numbers
  Spare,      \* cloud01
  Offers,     \* the assignments each cloud may be given
  VlanFirst,  \* sw_vlan_first
  Asked,      \* the (NIC, VLAN) an operator may ask for
  MaxFaults,  \* bound: so many reads, lines and processes fail
  MaxCalls,   \* bound: so many operator commands
  None

Plugins == <<"juniper", "arista">>
Vendors == {"juniper", "arista", "legacy", "typo"}

ASSUME SwitchAssumption ==
  /\ \E n \in 1..5 : Nics = 1..n        \* OFFSETS names five
  /\ Layouts \subseteq [Nics -> Vendors]
  /\ Clouds \subseteq Nat \ {0} /\ Spare \in Clouds /\ VlanFirst \in Nat \ {0}
  /\ Offers \in [Clouds -> SUBSET [qinq : {0, 1}, vlan : Nat]]
  /\ Asked \subseteq Nics \X (Nat \ {0}) /\ MaxFaults \in Nat /\ MaxCalls \in Nat
  /\ None \notin [qinq : {0, 1}, vlan : Nat]

VARIABLES
  vendor,     \* switch_vendor of each NIC
  assignment, \* the active assignment of each cloud
  cloud,      \* the cloud of the host
  want,       \* the cloud its current schedule names
  conf,       \* the running configuration of each port
  startup,    \* what EOS saved of it
  candidate,  \* Junos: the candidate configuration
  w,          \* the two processes: see Work
  doubt,      \* history: ports edited on a guess, or in overlapping sessions
  calls,
  faults

ports == <<conf, startup, candidate>>
demand == <<vendor, assignment, want>>
vars == <<demand, cloud, ports, w, doubt, calls, faults>>

LastNic(p) == p + 1 \notin Nics

(***************************************************************************)
(* helpers.utils: the VLAN of the index-th NIC under an assignment, which  *)
(* may be missing: then it is cloud01's.                                   *)
(***************************************************************************)
CalculateVlan(c, qinq, p) == VlanFirst - 10 + 10 * c + (IF qinq = 1 THEN 0 ELSE p - 1)

Public(a, p) == a # None /\ a.vlan # 0 /\ LastNic(p)

GetVlan(a, p) ==
  IF Public(a, p) THEN a.vlan
  ELSE IF a = None THEN CalculateVlan(1, 0, p)
  ELSE CalculateVlan(a.cloud, a.qinq, p)

(* The VLANs calculated or asked for, and those of public assignments.     *)
(* The drivers tell a port's VLAN by its number alone: see Apart.          *)
PlainVlans == {CalculateVlan(c, q, p) : c \in Clouds \union {1}, q \in {0, 1}, p \in Nics}
                \union {a[2] : a \in Asked}
PublicVlans == {o.vlan : o \in UNION {Offers[c] : c \in Clouds}} \ {0}
Vlans == {0} \union PlainVlans \union PublicVlans
Apart == PlainVlans \intersect PublicVlans = {}

----------------------------------------------------------------------------
(* Ports.  One on Junos has a group (the VLAN of its apply-group, 0: none), *)
(* a native VLAN and the members it has joined; one on EOS a mode (tunnel  *)
(* or trunk), an access and a native VLAN, the VLANs allowed (0: all), and *)
(* whether speed and RS-FEC are as recorded.                               *)

(* Which plugin is responsible for a NIC: an untagged one is Juniper's.    *)
Owns(plugin, p) == vendor[p] = plugin \/ (vendor[p] = "legacy" /\ plugin = "juniper")
Unclaimed == {p \in Nics : \A i \in DOMAIN Plugins : ~Owns(Plugins[i], p)}

Carries(c, p, a) ==
  LET v == GetVlan(a, p)
  IN  CASE Owns("juniper", p) /\ Public(a, p) -> c.native = v /\ c.group = 0
        [] Owns("juniper", p) /\ ~Public(a, p) -> c.group = v /\ v \in c.members
        [] Owns("arista", p) /\ Public(a, p) -> c.mode = "trunk" /\ c.native = v
        [] Owns("arista", p) /\ ~Public(a, p) -> c.mode = "tunnel" /\ c.access = v
        [] OTHER -> TRUE

(***************************************************************************)
(* A process: the operation and its arguments; the plugin at work and the  *)
(* NIC in hand; the assignments that plugin read; the outcome so far; the  *)
(* lines still to type at the switch.  crossed and passed are history: the *)
(* other process or a closed assignment interfered; the NICs left alone    *)
(* because a guessed VLAN was the wanted one.                              *)
(***************************************************************************)
Processes == {"mover", "operator"}
Other(self) == IF self = "mover" THEN "operator" ELSE "mover"
Edit == [do : {"rollback", "delete", "group", "leave", "join", "public", "commit",
               "clear", "native", "allowed", "access", "tunnel", "trunk", "slow", "speed", "save"},
         vlan : Vlans]
Assignments == UNION {{[cloud |-> c, qinq |-> o.qinq, vlan |-> o.vlan] : o \in Offers[c]} : c \in Clouds}
Work == [op : {"idle", "configure", "verify", "modify", "done"},
         change : BOOLEAN, ask : Nics \X Vlans, new : Clouds,
         plugin : DOMAIN Plugins, nic : Nat,
         was : Assignments \union {None}, will : Assignments \union {None},
         ok : BOOLEAN, script : Seq(Edit), crossed : BOOLEAN, passed : SUBSET Nics]

Idle == [op |-> "idle", change |-> FALSE, ask |-> <<1, 0>>, new |-> Spare, plugin |-> 1, nic |-> 0,
         was |-> None, will |-> None, ok |-> FALSE, script |-> <<>>, crossed |-> FALSE, passed |-> {}]

Plugin(self) == Plugins[w[self].plugin]
NextOwned(plugin, i) ==
  LET later == {p \in Nics : p >= i /\ Owns(plugin, p)}
  IN  IF later = {} THEN Cardinality(Nics) + 1
      ELSE CHOOSE p \in later : \A q \in later : p <= q

Init ==
  /\ vendor \in Layouts
  /\ assignment = [c \in Clouds |-> None]
  /\ cloud = Spare /\ want = Spare
  /\ conf = [p \in Nics |->
       IF Owns("arista", p)
       THEN [mode |-> "tunnel", access |-> GetVlan(None, p), native |-> 0, allowed |-> 0, speed |-> TRUE]
       ELSE [group |-> GetVlan(None, p), native |-> 0, members |-> {GetVlan(None, p)}]]
  /\ startup = conf /\ candidate = conf
  /\ w = [q \in Processes |-> Idle]
  /\ doubt = {} /\ calls = 0 /\ faults = 0

----------------------------------------------------------------------------
(* Clouds are assigned and their assignments end, whatever runs.           *)

Cross(W) ==
  [q \in Processes |-> IF W[q].op \in {"idle", "done"} THEN W[q] ELSE [W[q] EXCEPT !.crossed = TRUE]]

Assign(c) ==
  /\ c # Spare /\ assignment[c] = None /\ want = Spare
  /\ \E o \in Offers[c] :
       assignment' = [assignment EXCEPT ![c] = [cloud |-> c, qinq |-> o.qinq, vlan |-> o.vlan]]
  /\ want' = c
  /\ w' = Cross(w)
  /\ UNCHANGED <<vendor, cloud, ports, doubt, calls, faults>>

Close(c) ==
  /\ assignment[c] # None
  /\ assignment' = [assignment EXCEPT ![c] = None]
  /\ want' = IF want = c THEN Spare ELSE want
  /\ w' = Cross(w)
  /\ UNCHANGED <<vendor, cloud, ports, doubt, calls, faults>>

----------------------------------------------------------------------------
(* The calls and the dispatcher.                                           *)

Busy(self) == w[self].op \in {"configure", "verify", "modify"}

(* One process changes what the other, if it runs, has read or is typing.  *)
Meddle(self, W) ==
  IF Busy(Other(self)) THEN [W EXCEPT ![Other(self)].crossed = TRUE] ELSE W

MoveHost ==
  /\ w["mover"].op = "idle"
  /\ want # cloud
  /\ w' = [w EXCEPT !["mover"] = [Idle EXCEPT !.op = "configure", !.new = want, !.ok = TRUE]]
  /\ UNCHANGED <<demand, cloud, ports, doubt, calls, faults>>

(* switch_config_applied is set and the rebuild runs; the host has moved.  *)
Land ==
  /\ w["mover"].op = "done"
  /\ cloud' = w["mover"].new
  /\ w' = Meddle("mover", [w EXCEPT !["mover"] = Idle])
  /\ UNCHANGED <<demand, ports, doubt, calls, faults>>

Command(op, change, ask) ==
  /\ w["operator"].op \in {"idle", "done"} /\ calls < MaxCalls
  /\ w' = [w EXCEPT !["operator"] = [Idle EXCEPT !.op = op, !.change = change, !.ask = ask, !.ok = TRUE]]
  /\ calls' = calls + 1
  /\ UNCHANGED <<demand, cloud, ports, doubt, faults>>

VerifySwitchConf == \E change \in BOOLEAN : Command("verify", change, <<1, 0>>)
ModSwitchConf == \E change \in BOOLEAN, ask \in Asked : Command("modify", change, ask)

(* A plugin has answered: configure and modify stop at the first failure,  *)
(* verify asks every plugin.                                               *)
Answer(self, x, ok) ==
  LET good == x.ok /\ ok
  IN  [w EXCEPT ![self] =
         IF x.plugin < Len(Plugins) /\ (good \/ x.op = "verify")
         THEN [x EXCEPT !.plugin = @ + 1, !.nic = 0, !.ok = good, !.script = <<>>,
                        !.was = None, !.will = None]
         ELSE IF good THEN [Idle EXCEPT !.op = "done", !.new = x.new, !.passed = x.passed]
         ELSE Idle]

(* The NIC in hand is dealt with.  After the last one the plugin answers.  *)
Pass(self, x) ==
  LET next == NextOwned(Plugins[x.plugin], x.nic + 1)
  IN  IF next \in Nics THEN [w EXCEPT ![self] = [x EXCEPT !.nic = next, !.script = <<>>]]
      ELSE Answer(self, x, TRUE)

(* A plugin begins: it reads the host and the assignments, and refuses a   *)
(* host with a port nobody claims.                                         *)
Begin(self) ==
  /\ Busy(self) /\ w[self].nic = 0
  /\ LET x == w[self]
         will == assignment[IF x.op = "configure" THEN x.new ELSE cloud]
     IN  w' = IF Unclaimed # {} \/ (x.op = "verify" /\ will = None) THEN Answer(self, x, FALSE)
              ELSE IF NextOwned(Plugin(self), 1) \notin Nics THEN Answer(self, x, TRUE)
              ELSE [w EXCEPT ![self].nic = NextOwned(Plugin(self), 1),
                             ![self].was = IF x.op = "configure" THEN assignment[cloud] ELSE None,
                             ![self].will = IF x.op = "modify" THEN None ELSE will]
  /\ UNCHANGED <<demand, cloud, ports, doubt, calls, faults>>

Reading(self, plugin, op) ==
  /\ w[self].op = op /\ Plugin(self) = plugin
  /\ w[self].nic \in Nics /\ w[self].script = <<>>

Drive(self, script) == [w EXCEPT ![self].script = script]
Fault == faults < MaxFaults /\ faults' = faults + 1

----------------------------------------------------------------------------
(* What the switch tells of a port: the VLAN, or 0 when there is none.     *)

JuniperConfigured(c) == c.group        \* the name without its first seven letters
JuniperInterface(c) == IF c.group # 0 THEN c.group ELSE c.native
JuniperMembers(c) == IF c.members = {} THEN {0} ELSE c.members
SpeedOk(c) == c.speed
AristaVlan(c) == IF c.access # 0 THEN c.access ELSE c.native

----------------------------------------------------------------------------
(* The lines the drivers type.                                             *)

Line(do, vlan) == [do |-> do, vlan |-> vlan]

(* Mutant: the old membership stays.                                       *)
JuniperSetPortKeep(old, new) ==
  << Line("rollback", 0), Line("delete", 0), Line("group", new), Line("join", new), Line("commit", 0) >>

JuniperSetPort(old, new) ==
  << Line("rollback", 0), Line("delete", 0), Line("group", new), Line("leave", old),
     Line("join", new), Line("commit", 0) >>

JuniperConvertPublic(old, new) ==
  IF old = new
  THEN << Line("rollback", 0), Line("delete", 0), Line("public", new), Line("commit", 0) >>
  ELSE << Line("rollback", 0), Line("delete", 0), Line("public", new), Line("leave", old),
          Line("commit", 0) >>

(* Mutants: the mode stays; nothing is saved.                              *)
AristaSetPortBare(new) ==
  << Line("clear", 0), Line("access", new), Line("slow", 0), Line("speed", 0), Line("save", 0) >>
AristaSetPortUnsaved(new) ==
  << Line("clear", 0), Line("tunnel", 0), Line("access", new), Line("slow", 0), Line("speed", 0) >>

AristaSetPort(new) ==
  << Line("clear", 0), Line("tunnel", 0), Line("access", new), Line("slow", 0), Line("speed", 0),
     Line("save", 0) >>

AristaConvertPublic(new) ==
  << Line("access", 0), Line("trunk", 0), Line("native", new), Line("allowed", new),
     Line("slow", 0), Line("speed", 0), Line("save", 0) >>

(* What a port is after some lines: of the lines that set one thing the    *)
(* last one counts, and a VLAN is joined unless it was left afterwards.    *)
LastLine(lines, dos, before) ==
  IF \E i \in DOMAIN lines : lines[i].do \in dos
  THEN lines[CHOOSE i \in DOMAIN lines :
               lines[i].do \in dos /\ \A j \in DOMAIN lines : j > i => lines[j].do \notin dos]
  ELSE before

LeftAfter(lines, vlan, i) == \E j \in DOMAIN lines : j > i /\ lines[j] = Line("leave", vlan)

JuniperEdited(c, lines) ==
  [group   |-> LastLine(lines, {"delete", "group"}, Line("group", c.group)).vlan,
   native  |-> LastLine(lines, {"delete", "public"}, Line("public", c.native)).vlan,
   members |-> {v \in c.members : ~LeftAfter(lines, v, 0)} \union
               {lines[i].vlan : i \in {k \in DOMAIN lines :
                  lines[k].do = "join" /\ ~LeftAfter(lines, lines[k].vlan, k)}}]

AristaEdited(c, lines) ==
  [mode    |-> LastLine(lines, {"tunnel", "trunk"}, Line(c.mode, 0)).do,
   access  |-> LastLine(lines, {"access"}, Line("access", c.access)).vlan,
   native  |-> LastLine(lines, {"clear", "native"}, Line("native", c.native)).vlan,
   allowed |-> LastLine(lines, {"clear", "allowed"}, Line("allowed", c.allowed)).vlan,
   speed   |-> LastLine(lines, {"slow", "speed"}, Line(IF c.speed THEN "speed" ELSE "slow", 0)).do = "speed"]

(***************************************************************************)
(* What a switch makes of some lines of a session.  The edits of a Junos   *)
(* session start from the running configuration, and the candidate is for  *)
(* all sessions: they are one step, and the commit another.                *)
(***************************************************************************)
Juniper == {q \in Nics : Owns("juniper", q)}
Over(f, g, S) == [q \in Nics |-> IF q \in S THEN f[q] ELSE g[q]]

JuniperTypes(p, lines) ==
  /\ candidate' = IF lines = <<>> \/ lines[1].do = "commit" THEN candidate
                  ELSE Over([conf EXCEPT ![p] = JuniperEdited(@, lines)], candidate, Juniper)
  /\ conf' = IF lines # <<>> /\ lines[1].do = "commit" THEN Over(candidate, conf, Juniper) ELSE conf
  /\ UNCHANGED startup

AristaTypes(p, lines) ==
  /\ conf' = [conf EXCEPT ![p] = AristaEdited(@, lines)]
  /\ startup' = IF lines # <<>> /\ lines[Len(lines)].do = "save" THEN Over(startup, conf', Juniper) ELSE startup
  /\ UNCHANGED candidate

Types(self, lines) ==
  IF Plugin(self) = "juniper" THEN JuniperTypes(w[self].nic, lines) ELSE AristaTypes(w[self].nic, lines)

(* The lines up to the next point where another session may come between.  *)
Stretch(script) ==
  IF Len(script) > 1 /\ \E i \in DOMAIN script : script[i].do = "commit"
  THEN Len(script) - 1 ELSE Len(script)

(* Two sessions at a Junos switch, or at one EOS port: an edit of one may  *)
(* be lost, undone or committed by the other.                              *)
Overlaps(self) ==
  /\ Busy(Other(self)) /\ Plugin(Other(self)) = Plugin(self) /\ w[Other(self)].script # <<>>
  /\ Plugin(self) = "juniper" \/ w[Other(self)].nic = w[self].nic

(* Lines are typed: the switch obeys them and answers.  After the last one *)
(* the next NIC is in hand.                                                *)
Type(self) ==
  /\ Busy(self) /\ w[self].script # <<>>
  /\ LET x == w[self]
         n == Stretch(x.script)
     IN  /\ Types(self, SubSeq(x.script, 1, n))
         /\ w' = Meddle(self, IF n = Len(x.script) THEN Pass(self, x)
                               ELSE [w EXCEPT ![self].script = SubSeq(@, n + 1, Len(@))])
  /\ doubt' = IF Overlaps(self) THEN doubt \union {w[self].nic, w[Other(self)].nic} ELSE doubt
  /\ UNCHANGED <<demand, cloud, calls, faults>>

(* The driver reports a failure after any number of lines: the connection  *)
(* or a line was refused, or an answer did not come in time, though the    *)
(* line was obeyed.  configure gives up, verify and modify go on with the  *)
(* next NIC.                                                               *)
Refused(self) ==
  /\ Busy(self) /\ w[self].script # <<>> /\ Fault
  /\ \E n \in 0..Stretch(w[self].script) : Types(self, SubSeq(w[self].script, 1, n))
  /\ w' = Meddle(self, IF w[self].op = "configure" THEN Answer(self, w[self], FALSE)
                        ELSE Pass(self, [w[self] EXCEPT !.ok = FALSE]))
  /\ doubt' = IF Overlaps(self) THEN doubt \union {w[self].nic, w[Other(self)].nic} ELSE doubt
  /\ UNCHANGED <<demand, cloud, calls>>

----------------------------------------------------------------------------
(* configure: bring each port from the VLAN it is seen to have to the VLAN *)
(* of the new cloud.  A port whose VLAN cannot be read is taken to have    *)
(* the one the old assignment gives it; a port that has the right VLAN is  *)
(* left alone.                                                             *)

ConfigureScript(plugin, a, p, old, new) ==
  CASE plugin = "juniper" /\ Public(a, p) -> JuniperConvertPublic(old, new)
    [] plugin = "juniper" /\ ~Public(a, p) -> JuniperSetPort(old, new)
    [] plugin = "arista" /\ Public(a, p) -> AristaConvertPublic(new)
    [] plugin = "arista" /\ ~Public(a, p) -> AristaSetPort(new)

Configure(self, seen, blind) ==
  LET x == w[self]
      p == x.nic
      old == IF seen # 0 THEN seen ELSE GetVlan(x.was, p)
      new == GetVlan(x.will, p)
  IN  /\ w' = IF old = new
              THEN Pass(self, IF seen = 0 THEN [x EXCEPT !.passed = @ \union {p}] ELSE x)
              ELSE Drive(self, ConfigureScript(Plugin(self), x.will, p, old, new))
      /\ doubt' = IF blind /\ old # new THEN doubt \union {p} ELSE doubt
      /\ UNCHANGED <<demand, cloud, ports, calls>>

(* The switch does not answer, or what it says is not understood.          *)
Raise(self, op) ==
  /\ w[self].op = op /\ w[self].nic \in Nics /\ w[self].script = <<>> /\ Fault
  /\ w' = Answer(self, w[self], FALSE)
  /\ UNCHANGED <<demand, cloud, ports, doubt, calls>>

JuniperConfigure(self) ==
  /\ Reading(self, "juniper", "configure")
  /\ \/ Configure(self, JuniperConfigured(conf[w[self].nic]), FALSE) /\ UNCHANGED faults
     \/ Configure(self, 0, TRUE) /\ Fault

AristaConfigure(self) ==
  /\ Reading(self, "arista", "configure")
  /\ \/ Configure(self, AristaVlan(conf[w[self].nic]), FALSE) /\ UNCHANGED faults
     \/ Configure(self, 0, TRUE) /\ Fault

----------------------------------------------------------------------------
(* verify: compare each port with the assignment of the host's cloud, and  *)
(* with --change correct it.  A port found wrong spoils the answer unless  *)
(* it was corrected.                                                       *)

Judge(self, right, script, blind) ==
  LET x == w[self]
  IN  /\ w' = IF right THEN Pass(self, x)
              ELSE IF ~x.change THEN Pass(self, [x EXCEPT !.ok = FALSE])
              ELSE IF script = <<>> THEN Pass(self, x)
              ELSE Drive(self, script)
      /\ doubt' = IF blind /\ ~right /\ x.change THEN doubt \union {x.nic} ELSE doubt
      /\ UNCHANGED <<demand, cloud, ports, calls>>

(* A Junos port is judged by its membership, which for a public port is    *)
(* its native VLAN; what its interface says only shows in the log, and     *)
(* spares a public port that has the right native VLAN.                    *)
JuniperCompare(self, seen, m, blind) ==
  LET p == w[self].nic
      a == w[self].will
      vlan == GetVlan(a, p)
      member == IF m = 0 /\ Public(a, p) /\ seen # 0 THEN conf[p].native ELSE m
  IN  Judge(self, member = vlan,
            IF ~Public(a, p) THEN JuniperSetPort(member, vlan)
            ELSE IF vlan # seen THEN JuniperConvertPublic(seen, vlan)
            ELSE <<>>, blind)

JuniperVerify(self) ==
  /\ Reading(self, "juniper", "verify")
  /\ LET c == conf[w[self].nic]
     IN  \/ \E m \in JuniperMembers(c) : JuniperCompare(self, JuniperInterface(c), m, FALSE) /\ UNCHANGED faults
         \/ JuniperCompare(self, JuniperInterface(c), 0, TRUE) /\ Fault
         \/ \E m \in JuniperMembers(c) : JuniperCompare(self, 0, m, TRUE) /\ Fault

(* Mutant: the VLAN is all that is judged.                                 *)
AristaVerifyVlan(self) ==
  /\ Reading(self, "arista", "verify")
  /\ LET p == w[self].nic
         a == w[self].will
         vlan == GetVlan(a, p)
         Compare(seen, blind) ==
           Judge(self, seen = vlan,
                 IF Public(a, p) THEN AristaConvertPublic(vlan) ELSE AristaSetPort(vlan), blind)
     IN  \/ Compare(AristaVlan(conf[p]), FALSE) /\ UNCHANGED faults
         \/ Compare(0, TRUE) /\ Fault

(* An EOS port is judged by its VLAN, its speed and its RS-FEC; one that   *)
(* cannot be read has no VLAN, hence not the right one.                    *)
AristaCompare(self, seen, blind) ==
  LET p == w[self].nic
      a == w[self].will
      vlan == GetVlan(a, p)
  IN  Judge(self, seen = vlan /\ SpeedOk(conf[p]),
            IF Public(a, p) THEN AristaConvertPublic(vlan) ELSE AristaSetPort(vlan), blind)

AristaVerify(self) ==
  /\ Reading(self, "arista", "verify")
  /\ \/ AristaCompare(self, AristaVlan(conf[w[self].nic]), FALSE) /\ UNCHANGED faults
     \/ AristaCompare(self, 0, TRUE) /\ Fault

----------------------------------------------------------------------------
(* modify: the NIC the operator names gets the VLAN the operator names.    *)

(* The port keeps what it has: it was not named, or has the VLAN already.  *)
Kept(x, seen) == x.ask[1] # x.nic \/ seen = x.ask[2] \/ ~x.change

JuniperModify(self) ==
  /\ Reading(self, "juniper", "modify")
  /\ \E m \in {0} \union JuniperMembers(conf[w[self].nic]) :
       LET x == w[self]
           blind == m \notin JuniperMembers(conf[x.nic])
       IN  /\ w' = IF Kept(x, m) THEN Pass(self, x) ELSE Drive(self, JuniperSetPort(m, x.ask[2]))
           /\ doubt' = IF blind /\ ~Kept(x, m) THEN doubt \union {x.nic} ELSE doubt
           /\ IF blind THEN x.ask[1] = x.nic /\ Fault ELSE UNCHANGED faults
  /\ UNCHANGED <<demand, cloud, ports, calls>>

AristaModify(self) ==
  /\ Reading(self, "arista", "modify")
  /\ \E seen \in {0, AristaVlan(conf[w[self].nic])} :
       LET x == w[self]
       IN  /\ w' = IF Kept(x, seen) THEN Pass(self, x) ELSE Drive(self, AristaSetPort(x.ask[2]))
           /\ IF seen = AristaVlan(conf[x.nic]) THEN UNCHANGED faults ELSE x.ask[1] = x.nic /\ Fault
  /\ UNCHANGED <<demand, cloud, ports, doubt, calls>>

----------------------------------------------------------------------------
(* Crashes: a process dies, its session with it; an EOS switch restarts    *)
(* with what was saved (a session it cuts off is refused first).           *)

Die(self) ==
  /\ Busy(self) /\ Fault
  /\ w' = [w EXCEPT ![self] = Idle]
  /\ UNCHANGED <<demand, cloud, ports, doubt, calls>>

Reboot ==
  /\ startup # conf /\ Fault
  /\ \A q \in Processes : w[q].script # <<>> => Plugin(q) = "juniper"
  /\ conf' = [p \in Nics |-> IF Owns("arista", p) THEN startup[p] ELSE conf[p]]
  /\ w' = Cross(w)
  /\ UNCHANGED <<demand, cloud, startup, candidate, doubt, calls>>

Step(self) ==
  \/ Begin(self) \/ Type(self) \/ Refused(self)
  \/ \E op \in {"configure", "verify", "modify"} : Raise(self, op)
  \/ JuniperConfigure(self) \/ AristaConfigure(self)
  \/ JuniperVerify(self) \/ AristaVerify(self)
  \/ JuniperModify(self) \/ AristaModify(self)

Next ==
  \/ \E c \in Clouds : Assign(c) \/ Close(c)
  \/ MoveHost \/ Land \/ VerifySwitchConf \/ ModSwitchConf
  \/ \E self \in Processes : Step(self) \/ Die(self)
  \/ Reboot

Spec == Init /\ [][Next]_vars

----------------------------------------------------------------------------

JuniperPort == [group : Vlans, native : Vlans, members : SUBSET Vlans]
AristaPort == [mode : {"tunnel", "trunk"}, access : Vlans, native : Vlans, allowed : Vlans,
               speed : BOOLEAN]
Switches == {f \in [Nics -> JuniperPort \union AristaPort] :
               \A p \in Nics : f[p] \in IF Owns("arista", p) THEN AristaPort ELSE JuniperPort}

(* The types of the variables, and what a process at rest, between NICs or *)
(* at the port of a NIC has in hand.                                       *)
TypeOK ==
  /\ vendor \in Layouts /\ cloud \in Clouds /\ want \in Clouds
  /\ assignment \in [Clouds -> Assignments \union {None}]
  /\ {conf, startup, candidate} \subseteq Switches
  /\ w \in [Processes -> Work]
  /\ \A q \in Processes :
       /\ w[q].nic # 0 => Busy(q) /\ w[q].nic \in Nics /\ Owns(Plugin(q), w[q].nic)
       /\ w[q].script # <<>> => w[q].nic # 0
  /\ doubt \subseteq Nics /\ calls \in 0..MaxCalls /\ faults \in 0..MaxFaults

Answers(self, op) == w[self].op = op /\ w'[self].op = "done"

(* When configure answers True, every port of the host carries the VLAN of *)
(* the new cloud, however the last attempt ended: but for ports left alone *)
(* on a guess, and for what another session or a closed assignment did     *)
(* meanwhile (switches/arista.py, switches/juniper.py: configure).         *)
PortsFollow ==
  [][Answers("mover", "configure") /\ ~w["mover"].crossed
       => \A p \in Nics \ (w'["mover"].passed \union doubt) :
            Carries(conf'[p], p, assignment[w["mover"].new])]_vars

(* A Junos port is a member of no VLAN but the one its interface applies:  *)
(* no host is in two clouds' VLANs at once, whichever session failed or    *)
(* died where, as long as no port was edited on a guess after a failed     *)
(* read or by two sessions at once (tools/external/juniper.py: set_port).  *)
OneVlan ==
  \A p \in Nics \ doubt :
    Owns("juniper", p) => conf[p].members \subseteq {conf[p].group} \ {0}

(* When verify answers True, the ports carry the VLANs of the host's cloud *)
(* at their recorded speed, whether it found or corrected them.            *)
VerifiedRight ==
  [][Answers("operator", "verify") /\ ~w["operator"].crossed
       => \A p \in Nics \ doubt :
            /\ Carries(conf'[p], p, assignment[cloud])
            /\ Owns("arista", p) => conf'[p].speed]_vars

(* An EOS switch has saved what it runs whenever no session is open, if    *)
(* none has failed: a restart of the switch loses nothing.                 *)
Persisted ==
  faults = 0 /\ (\A q \in Processes : w[q].script = <<>>)
    => \A p \in Nics : Owns("arista", p) => startup[p] = conf[p]
=============================================================================
