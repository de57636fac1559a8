---------------------------- MODULE SwitchProofs ----------------------------
(***************************************************************************)
(* Proofs about Switch: type correctness, Persisted, OneVlan, PortsFollow  *)
(* and VerifiedRight, for any NICs up to five, clouds, VLANs, commands and *)
(* faults.                                                                 *)
(***************************************************************************)
EXTENDS Switch, FiniteSetTheorems, TLAPS

(* The sessions there are: what set_port and convert_port_public type.     *)
JuniperScripts == {JuniperSetPort(o, n) : o \in Vlans, n \in PlainVlans}
                   \union {JuniperConvertPublic(o, n) : o \in Vlans, n \in PublicVlans}
AristaScripts == {AristaSetPort(n) : n \in PlainVlans} \union {AristaConvertPublic(n) : n \in PublicVlans}

ScriptsOf(plugin) == IF plugin = "juniper" THEN JuniperScripts ELSE AristaScripts
IsCommit(s) == s \in Seq(Edit) /\ Len(s) = 1 /\ s[1].do = "commit"

(* A process types such a session, or what is left of one: its commit; an  *)
(* operator asks for no public VLAN of a plain port.                       *)
Scripted ==
  \A q \in Processes :
    /\ w[q].op = "modify" => w[q].ask[2] \in PlainVlans
    /\ w[q].script # <<>> =>
         \/ w[q].script \in ScriptsOf(Plugin(q))
         \/ Plugin(q) = "juniper" /\ IsCommit(w[q].script)

(* No line has failed: every session so far has ended with its save.       *)
Saved == faults = 0 => \A p \in Nics : Owns("arista", p) => startup[p] = conf[p]

(* The lines of a session fit the port they are meant for: it leaves every *)
(* VLAN the port has joined; so does what the candidate holds when only    *)
(* the commit is left, for all Junos ports at once.                        *)
Single(c) == c.members = {c.group} \ {0}
Committing(q) == Plugin(q) = "juniper" /\ IsCommit(w[q].script)
Fits(s, c) ==
  \/ IsCommit(s)
  \/ \E o \in Vlans, n \in PlainVlans : s = JuniperSetPort(o, n) /\ c.members \subseteq {o}
  \/ \E o \in Vlans, n \in PublicVlans :
       s = JuniperConvertPublic(o, n) /\ c.members \subseteq (IF o = n THEN {} ELSE {o})

PortsSingle == \A p \in Nics \ doubt : Owns("juniper", p) => Single(conf[p])
CandidateSingle ==
  \A q \in Processes : Committing(q) => \A p \in Nics \ doubt : Owns("juniper", p) => Single(candidate[p])
SessionsFit ==
  \A q \in Processes :
    w[q].script # <<>> /\ Plugin(q) = "juniper" /\ w[q].nic \notin doubt => Fits(w[q].script, conf[w[q].nic])
SingleInv == PortsSingle /\ CandidateSingle /\ SessionsFit

(* Native VLANs are public and the others are not; a VLAN goes with its    *)
(* mode, in the running, the saved and the candidate configuration.        *)
PlainPort(c) ==
  /\ c.group \in PlainVlans \union {0} /\ c.native \in PublicVlans \union {0}
  /\ c.native # 0 => c.group = 0
Settled(c) ==
  /\ c.access \in PlainVlans \union {0} /\ c.native \in PublicVlans \union {0}
  /\ c.access # 0 => c.mode = "tunnel"
  /\ c.native # 0 => c.mode = "trunk"
PortInv ==
  \A p \in Nics :
     /\ Owns("juniper", p) => PlainPort(conf[p]) /\ PlainPort(candidate[p])
     /\ Owns("arista", p) => Settled(conf[p]) /\ Settled(startup[p])

(* What a process is after, the ports it has behind it, and what they then *)
(* are; and its session, or the candidate it is about to commit, gives the *)
(* port in hand the VLAN it read, and changes no other.                    *)
Target(x) == assignment[IF x.op = "configure" THEN x.new ELSE cloud]
Behind(x) == {p \in Nics : \/ x.plugin = 2 /\ Owns("juniper", p)
                           \/ Owns(Plugins[x.plugin], p) /\ p < x.nic}
RightAt(c, a, op, p) == Carries(c, p, a) /\ (op = "verify" /\ Owns("arista", p) => c.speed)
Says(s, a, p, plugin) ==
  LET v == GetVlan(a, p)
  IN  IF plugin = "juniper"
      THEN \E o \in Vlans : s = IF Public(a, p) THEN JuniperConvertPublic(o, v) ELSE JuniperSetPort(o, v)
      ELSE s = IF Public(a, p) THEN AristaConvertPublic(v) ELSE AristaSetPort(v)
Aimed(x) ==
  x.script # <<>> =>
    \/ Says(x.script, x.will, x.nic, Plugins[x.plugin])
    \/ /\ IsCommit(x.script)
       /\ Carries(candidate[x.nic], x.nic, x.will)
       /\ \A r \in Nics \ {x.nic} : Owns("juniper", r) => candidate[r] = conf[r]
FollowedBy(x) ==
  /\ x.op = "verify" => x.passed = {}
  /\ x.op \in {"configure", "verify"} /\ x.ok /\ ~x.crossed =>
       /\ x.nic # 0 => x.will = Target(x)
       /\ \A p \in Behind(x) \ (x.passed \union doubt) : RightAt(conf[p], Target(x), x.op, p)
       /\ Aimed(x)
Followed == \A q \in Processes : FollowedBy(w[q])


----------------------------------------------------------------------------
(* Processes, NICs, VLANs.                                                 *)

LEMMA TwoProcesses ==
  ASSUME NEW self \in Processes
  PROVE  /\ Other(self) \in Processes /\ Other(self) # self /\ Other(Other(self)) = self
         /\ \A q \in Processes : q = self \/ q = Other(self)
BY DEF Processes, Other

LEMMA NicNumbers ==
  /\ IsFiniteSet(Nics) /\ Nics \subseteq 1..5 /\ 1 \in Nics
  /\ Cardinality(Nics) + 1 \in Nat \ (Nics \union {0})
  /\ \A p \in Nics, q \in 1..5 : q < p => q \in Nics
<1>1. PICK n \in 1..5 : Nics = 1..n
  BY SwitchAssumption DEF SwitchAssumption
<1>2. IsFiniteSet(Nics) /\ Cardinality(Nics) = n
  <2>1. n = n - 1 + 1 /\ 1 \in Int /\ n \in Int
    OBVIOUS
  <2>2. IsFiniteSet(1..n) /\ Cardinality(1..n) = (IF 1 > n THEN 0 ELSE n - 1 + 1)
    BY <2>1, FS_Interval
  <2> QED  BY <1>1, <2>1, <2>2
<1> QED  BY <1>1, <1>2

LEMMA PluginNames == DOMAIN Plugins = {1, 2} /\ Plugins[1] = "juniper" /\ Plugins[2] = "arista" /\ Len(Plugins) = 2
BY DEF Plugins

LEMMA OneOwner ==
  ASSUME NEW p, Owns("juniper", p), Owns("arista", p)
  PROVE  FALSE
BY DEF Owns

LEMMA SmallestOf ==
  ASSUME NEW S \in SUBSET (1..5), S # {}
  PROVE  \E p \in S : \A q \in S : p <= q
<1>1. CASE 1 \in S  BY <1>1
<1>2. CASE 1 \notin S /\ 2 \in S  BY <1>2
<1>3. CASE 1 \notin S /\ 2 \notin S /\ 3 \in S  BY <1>3
<1>4. CASE 1 \notin S /\ 2 \notin S /\ 3 \notin S /\ 4 \in S  BY <1>4
<1>5. CASE 1 \notin S /\ 2 \notin S /\ 3 \notin S /\ 4 \notin S
  <2>1. \A p \in S : p = 5  BY <1>5
  <2>2. PICK p \in S : TRUE
    OBVIOUS
  <2> QED  BY <2>1, <2>2
<1> QED  BY <1>1, <1>2, <1>3, <1>4, <1>5

LEMMA NextNic ==
  ASSUME NEW plugin, NEW i \in Nat, NEW n, n = NextOwned(plugin, i)
  PROVE  /\ n \in Nat /\ n # 0
         /\ n \in Nics => Owns(plugin, n) /\ i <= n
         /\ \A p \in Nics : Owns(plugin, p) /\ i <= p => n \in Nics /\ n <= p
<1> DEFINE later == {p \in Nics : p >= i /\ Owns(plugin, p)}
<1>1. later \subseteq 1..5 /\ Nics \subseteq 1..5
  BY NicNumbers
<1>2. CASE later = {}
  <2>1. n = Cardinality(Nics) + 1
    BY <1>2 DEF NextOwned
  <2>2. \A p \in Nics : ~(Owns(plugin, p) /\ i <= p)
    BY <1>1, <1>2
  <2> QED  BY <1>2, <2>1, <2>2, NicNumbers
<1>3. CASE later # {}
  <2>1. \E p \in later : \A q \in later : p <= q
    BY <1>1, <1>3, SmallestOf
  <2>2. n \in later /\ \A q \in later : n <= q
    BY <1>3, <2>1 DEF NextOwned
  <2> QED  BY <1>1, <2>2
<1> QED  BY <1>2, <1>3

LEMMA VlanNumbers ==
  /\ PlainVlans \subseteq Nat \ {0} /\ PublicVlans \subseteq Nat \ {0}
  /\ PlainVlans \subseteq Vlans /\ PublicVlans \subseteq Vlans /\ 0 \in Vlans
<1>1. \A c \in Clouds \union {1}, q \in {0, 1}, p \in Nics : CalculateVlan(c, q, p) \in Nat \ {0}
  BY SwitchAssumption, NicNumbers DEF SwitchAssumption, CalculateVlan
<1>2. \A a \in Asked : a[2] \in Nat \ {0}
  BY SwitchAssumption DEF SwitchAssumption
<1>3. \A c \in Clouds : \A o \in Offers[c] : o.vlan \in Nat
  BY SwitchAssumption DEF SwitchAssumption
<1> QED  BY <1>1, <1>2, <1>3 DEF PlainVlans, PublicVlans, Vlans

LEMMA AssignmentFields ==
  ASSUME NEW a \in Assignments
  PROVE  a.cloud \in Clouds /\ a.qinq \in {0, 1} /\ a.vlan \in PublicVlans \union {0}
<1>1. PICK c \in Clouds : a \in {[cloud |-> c, qinq |-> o.qinq, vlan |-> o.vlan] : o \in Offers[c]}
  BY DEF Assignments
<1>2. PICK o \in Offers[c] : a = [cloud |-> c, qinq |-> o.qinq, vlan |-> o.vlan]
  BY <1>1
<1>3. o \in [qinq : {0, 1}, vlan : Nat]
  BY SwitchAssumption DEF SwitchAssumption
<1> QED  BY <1>2, <1>3 DEF PublicVlans

LEMMA VlanOf ==
  ASSUME NEW a \in Assignments \union {None}, NEW p \in Nics
  PROVE  /\ Public(a, p) => GetVlan(a, p) \in PublicVlans
         /\ ~Public(a, p) => GetVlan(a, p) \in PlainVlans
         /\ GetVlan(a, p) \in Vlans /\ GetVlan(a, p) \in Nat \ {0}
<1>1. Public(a, p) => GetVlan(a, p) \in PublicVlans
  BY AssignmentFields DEF Public, GetVlan
<1>2. ~Public(a, p) => GetVlan(a, p) \in PlainVlans
  <2>1. CASE a = None
    BY <2>1 DEF Public, GetVlan, PlainVlans
  <2>2. CASE a # None
    BY <2>2, AssignmentFields DEF GetVlan, PlainVlans
  <2> QED  BY <2>1, <2>2
<1> QED  BY <1>1, <1>2, VlanNumbers

----------------------------------------------------------------------------
(* The lines of a session.                                                 *)

LEMMA LastIs ==
  ASSUME NEW lines, NEW dos, NEW before, NEW k \in Nat, DOMAIN lines = 1..k,
         NEW i \in 1..k, lines[i].do \in dos,
         \A j \in 1..k : j > i => lines[j].do \notin dos
  PROVE  LastLine(lines, dos, before) = lines[i]
<1> DEFINE P(n) == lines[n].do \in dos /\ \A j \in DOMAIN lines : j > n => lines[j].do \notin dos
<1>1. \A n \in DOMAIN lines : P(n) => n = i
  OBVIOUS
<1>2. P(i)
  OBVIOUS
<1>3. (CHOOSE n \in DOMAIN lines : P(n)) = i
  BY <1>1, <1>2
<1> QED  BY <1>3 DEF LastLine

LEMMA LastNone ==
  ASSUME NEW lines, NEW dos, NEW before, \A j \in DOMAIN lines : lines[j].do \notin dos
  PROVE  LastLine(lines, dos, before) = before
BY DEF LastLine

FirstOf(t, s, k) == t = SubSeq(s, 1, k)

LEMMA Prefix ==
  ASSUME NEW s \in Seq(Edit), NEW k \in 0..Len(s),
         NEW t, FirstOf(t, s, k)
  PROVE  /\ t \in Seq(Edit) /\ Len(t) = k /\ DOMAIN t = 1..k /\ (k = 0 <=> t = <<>>)
         /\ \A i \in 1..k : t[i] = s[i]
BY DEF FirstOf

LEMMA LineIsEdit ==
  ASSUME NEW d \in {"rollback", "delete", "group", "leave", "join", "public", "commit",
               "clear", "native", "allowed", "access", "tunnel", "trunk", "slow", "speed", "save"},
         NEW v \in Vlans
  PROVE  Line(d, v) \in Edit /\ Line(d, v).do = d /\ Line(d, v).vlan = v
BY DEF Line, Edit

LEMMA ScriptTypes ==
  ASSUME NEW o \in Vlans, NEW n \in Vlans
  PROVE  /\ JuniperSetPort(o, n) \in Seq(Edit) /\ Len(JuniperSetPort(o, n)) = 6
         /\ JuniperConvertPublic(o, n) \in Seq(Edit)
         /\ Len(JuniperConvertPublic(o, n)) = (IF o = n THEN 4 ELSE 5)
         /\ AristaSetPort(n) \in Seq(Edit) /\ Len(AristaSetPort(n)) = 6
         /\ AristaConvertPublic(n) \in Seq(Edit) /\ Len(AristaConvertPublic(n)) = 7
         /\ <<Line("commit", 0)>> \in Seq(Edit) /\ Len(<<Line("commit", 0)>>) = 1
BY LineIsEdit, VlanNumbers DEF JuniperSetPort, JuniperConvertPublic, AristaSetPort, AristaConvertPublic

(* What the first k lines of each session leave.                           *)
LEMMA SetPortLines ==
  ASSUME NEW o \in Vlans, NEW n \in Vlans, NEW k \in 0..5, NEW c,
         NEW t, FirstOf(t, JuniperSetPort(o, n), k)
  PROVE  /\ k # 0 => t # <<>> /\ t[1].do # "commit"
         /\ k = 0 => t = <<>>
         /\ JuniperEdited(c, t).group = (IF k >= 3 THEN n ELSE IF k = 2 THEN 0 ELSE c.group)
         /\ JuniperEdited(c, t).native = (IF k >= 2 THEN 0 ELSE c.native)
         /\ JuniperEdited(c, t).members =
              (c.members \ (IF k >= 4 THEN {o} ELSE {})) \union (IF k = 5 THEN {n} ELSE {})
<1>1. DOMAIN t = 1..k /\ Len(t) = k /\ (\A j \in 1..k : t[j] = JuniperSetPort(o, n)[j]) /\ k \in 0..5 /\ (k = 0 <=> t = <<>>)
  <2>1. JuniperSetPort(o, n) \in Seq(Edit) /\ k \in 0..Len(JuniperSetPort(o, n)) /\ k \in 0..5
    <3>1. JuniperSetPort(o, n) \in Seq(Edit) /\ Len(JuniperSetPort(o, n)) = 6
      BY ScriptTypes
    <3> QED  BY <3>1
  <2> QED  BY <2>1, Prefix
<1>0. k \in Nat /\ DOMAIN t = 1..k
  BY <1>1
<1>2. \A j \in 1..k :
        /\ j \in 1..5
        /\ j = 1 => t[j] = Line("rollback", 0) /\ t[j].do = "rollback" /\ t[j].vlan = 0
        /\ j = 2 => t[j] = Line("delete", 0) /\ t[j].do = "delete" /\ t[j].vlan = 0
        /\ j = 3 => t[j] = Line("group", n) /\ t[j].do = "group" /\ t[j].vlan = n
        /\ j = 4 => t[j] = Line("leave", o) /\ t[j].do = "leave" /\ t[j].vlan = o
        /\ j = 5 => t[j] = Line("join", n) /\ t[j].do = "join" /\ t[j].vlan = n
  BY <1>1 DEF JuniperSetPort, Line
<1>3. LastLine(t, {"delete", "group"}, Line("group", c.group)).vlan = (IF k >= 3 THEN n ELSE IF k = 2 THEN 0 ELSE c.group)
  <2> DEFINE last == LastLine(t, {"delete", "group"}, Line("group", c.group))
  <2>1. CASE k >= 3
    <3>1. 3 \in 1..k /\ t[3].do \in {"delete", "group"} /\ \A j \in 1..k : j > 3 => t[j].do \notin {"delete", "group"}
      BY <1>1, <1>2, <2>1
    <3>2. last = t[3]
      <4> DEFINE dos == {"delete", "group"}
      <4>1. 3 \in 1..k /\ t[3].do \in dos /\ \A j \in 1..k : j > 3 => t[j].do \notin dos
        BY <3>1
      <4> HIDE DEF dos
      <4>2. LastLine(t, dos, Line("group", c.group)) = t[3]
        BY <1>0, <4>1, LastIs
      <4> QED  BY <4>2 DEF dos
    <3> QED  BY <1>1, <1>2, <2>1, <3>1, <3>2 DEF Line
  <2>2. CASE k = 2
    <3>1. 2 \in 1..k /\ t[2].do \in {"delete", "group"} /\ \A j \in 1..k : j > 2 => t[j].do \notin {"delete", "group"}
      BY <1>1, <1>2, <2>2
    <3>2. last = t[2]
      <4> DEFINE dos == {"delete", "group"}
      <4>1. 2 \in 1..k /\ t[2].do \in dos /\ \A j \in 1..k : j > 2 => t[j].do \notin dos
        BY <3>1
      <4> HIDE DEF dos
      <4>2. LastLine(t, dos, Line("group", c.group)) = t[2]
        BY <1>0, <4>1, LastIs
      <4> QED  BY <4>2 DEF dos
    <3> QED  BY <1>1, <1>2, <2>2, <3>1, <3>2 DEF Line
  <2>3. CASE k < 2
    <3>1. \A j \in DOMAIN t : t[j].do \notin {"delete", "group"}
      BY <1>1, <1>2, <2>3
    <3>2. last = Line("group", c.group)
      BY <3>1, LastNone
    <3> QED  BY <1>1, <1>2, <2>3, <3>1, <3>2 DEF Line
  <2> QED  BY <1>1, <2>1, <2>2, <2>3
<1>4. LastLine(t, {"delete", "public"}, Line("public", c.native)).vlan = (IF k >= 2 THEN 0 ELSE c.native)
  <2> DEFINE last == LastLine(t, {"delete", "public"}, Line("public", c.native))
  <2>1. CASE k >= 2
    <3>1. 2 \in 1..k /\ t[2].do \in {"delete", "public"} /\ \A j \in 1..k : j > 2 => t[j].do \notin {"delete", "public"}
      BY <1>1, <1>2, <2>1
    <3>2. last = t[2]
      <4> DEFINE dos == {"delete", "public"}
      <4>1. 2 \in 1..k /\ t[2].do \in dos /\ \A j \in 1..k : j > 2 => t[j].do \notin dos
        BY <3>1
      <4> HIDE DEF dos
      <4>2. LastLine(t, dos, Line("public", c.native)) = t[2]
        BY <1>0, <4>1, LastIs
      <4> QED  BY <4>2 DEF dos
    <3> QED  BY <1>1, <1>2, <2>1, <3>1, <3>2 DEF Line
  <2>2. CASE k < 2
    <3>1. \A j \in DOMAIN t : t[j].do \notin {"delete", "public"}
      BY <1>1, <1>2, <2>2
    <3>2. last = Line("public", c.native)
      BY <3>1, LastNone
    <3> QED  BY <1>1, <1>2, <2>2, <3>1, <3>2 DEF Line
  <2> QED  BY <1>1, <2>1, <2>2
<1>5. \A v : LeftAfter(t, v, 0) <=> k >= 4 /\ v = o
  <2>1. \A v : \A j \in 1..k : t[j] = Line("leave", v) <=> j = 4 /\ v = o
    BY <1>2 DEF Line
  <2> QED  BY <1>1, <2>1 DEF LeftAfter
<1>6. {t[i].vlan : i \in {j \in DOMAIN t : t[j].do = "join" /\ ~LeftAfter(t, t[j].vlan, j)}}
        = (IF k = 5 THEN {n} ELSE {})
  <2>1. \A j \in DOMAIN t : t[j].do = "join" <=> j = 5
    BY <1>1, <1>2
  <2>2. k = 5 => ~LeftAfter(t, t[5].vlan, 5) /\ t[5].vlan = n
    BY <1>1, <1>2 DEF LeftAfter
  <2> QED  BY <1>1, <2>1, <2>2
<1> QED
  <2>1. k # 0 => t # <<>> /\ t[1].do # "commit"
    BY <1>1, <1>2
  <2>2. k = 0 => t = <<>>
    BY <1>1
  <2>3. {v \in c.members : ~LeftAfter(t, v, 0)} = c.members \ (IF k >= 4 THEN {o} ELSE {})
    BY <1>5
  <2> QED  BY <1>3, <1>4, <1>6, <2>1, <2>2, <2>3 DEF JuniperEdited

LEMMA ConvertPublicLines ==
  ASSUME NEW o \in Vlans, NEW n \in Vlans, NEW k \in 0..4, k = 4 => o # n, NEW c,
         NEW t, FirstOf(t, JuniperConvertPublic(o, n), k)
  PROVE  /\ k # 0 => t # <<>> /\ t[1].do # "commit"
         /\ k = 0 => t = <<>>
         /\ JuniperEdited(c, t).group = (IF k >= 2 THEN 0 ELSE c.group)
         /\ JuniperEdited(c, t).native = (IF k >= 3 THEN n ELSE IF k = 2 THEN 0 ELSE c.native)
         /\ JuniperEdited(c, t).members = c.members \ (IF k = 4 THEN {o} ELSE {})
<1>1. DOMAIN t = 1..k /\ Len(t) = k /\ (\A j \in 1..k : t[j] = JuniperConvertPublic(o, n)[j]) /\ k \in 0..4 /\ (k = 0 <=> t = <<>>) /\ (k = 4 => o # n)
  <2>1. JuniperConvertPublic(o, n) \in Seq(Edit) /\ k \in 0..Len(JuniperConvertPublic(o, n)) /\ k \in 0..4
    <3>1. JuniperConvertPublic(o, n) \in Seq(Edit) /\ Len(JuniperConvertPublic(o, n)) = (IF o = n THEN 4 ELSE 5)
      BY ScriptTypes
    <3> QED  BY <3>1
  <2> QED  BY <2>1, Prefix
<1>0. k \in Nat /\ DOMAIN t = 1..k
  BY <1>1
<1>2. \A j \in 1..k :
        /\ j \in 1..4
        /\ j = 1 => t[j] = Line("rollback", 0) /\ t[j].do = "rollback" /\ t[j].vlan = 0
        /\ j = 2 => t[j] = Line("delete", 0) /\ t[j].do = "delete" /\ t[j].vlan = 0
        /\ j = 3 => t[j] = Line("public", n) /\ t[j].do = "public" /\ t[j].vlan = n
        /\ j = 4 => t[j] = Line("leave", o) /\ t[j].do = "leave" /\ t[j].vlan = o
  BY <1>1 DEF JuniperConvertPublic, Line
<1>3. LastLine(t, {"delete", "public"}, Line("public", c.native)).vlan = (IF k >= 3 THEN n ELSE IF k = 2 THEN 0 ELSE c.native)
  <2> DEFINE last == LastLine(t, {"delete", "public"}, Line("public", c.native))
  <2>1. CASE k >= 3
    <3>1. 3 \in 1..k /\ t[3].do \in {"delete", "public"} /\ \A j \in 1..k : j > 3 => t[j].do \notin {"delete", "public"}
      BY <1>1, <1>2, <2>1
    <3>2. last = t[3]
      <4> DEFINE dos == {"delete", "public"}
      <4>1. 3 \in 1..k /\ t[3].do \in dos /\ \A j \in 1..k : j > 3 => t[j].do \notin dos
        BY <3>1
      <4> HIDE DEF dos
      <4>2. LastLine(t, dos, Line("public", c.native)) = t[3]
        BY <1>0, <4>1, LastIs
      <4> QED  BY <4>2 DEF dos
    <3> QED  BY <1>1, <1>2, <2>1, <3>1, <3>2 DEF Line
  <2>2. CASE k = 2
    <3>1. 2 \in 1..k /\ t[2].do \in {"delete", "public"} /\ \A j \in 1..k : j > 2 => t[j].do \notin {"delete", "public"}
      BY <1>1, <1>2, <2>2
    <3>2. last = t[2]
      <4> DEFINE dos == {"delete", "public"}
      <4>1. 2 \in 1..k /\ t[2].do \in dos /\ \A j \in 1..k : j > 2 => t[j].do \notin dos
        BY <3>1
      <4> HIDE DEF dos
      <4>2. LastLine(t, dos, Line("public", c.native)) = t[2]
        BY <1>0, <4>1, LastIs
      <4> QED  BY <4>2 DEF dos
    <3> QED  BY <1>1, <1>2, <2>2, <3>1, <3>2 DEF Line
  <2>3. CASE k < 2
    <3>1. \A j \in DOMAIN t : t[j].do \notin {"delete", "public"}
      BY <1>1, <1>2, <2>3
    <3>2. last = Line("public", c.native)
      BY <3>1, LastNone
    <3> QED  BY <1>1, <1>2, <2>3, <3>1, <3>2 DEF Line
  <2> QED  BY <1>1, <2>1, <2>2, <2>3
<1>4. LastLine(t, {"delete", "group"}, Line("group", c.group)).vlan = (IF k >= 2 THEN 0 ELSE c.group)
  <2> DEFINE last == LastLine(t, {"delete", "group"}, Line("group", c.group))
  <2>1. CASE k >= 2
    <3>1. 2 \in 1..k /\ t[2].do \in {"delete", "group"} /\ \A j \in 1..k : j > 2 => t[j].do \notin {"delete", "group"}
      BY <1>1, <1>2, <2>1
    <3>2. last = t[2]
      <4> DEFINE dos == {"delete", "group"}
      <4>1. 2 \in 1..k /\ t[2].do \in dos /\ \A j \in 1..k : j > 2 => t[j].do \notin dos
        BY <3>1
      <4> HIDE DEF dos
      <4>2. LastLine(t, dos, Line("group", c.group)) = t[2]
        BY <1>0, <4>1, LastIs
      <4> QED  BY <4>2 DEF dos
    <3> QED  BY <1>1, <1>2, <2>1, <3>1, <3>2 DEF Line
  <2>2. CASE k < 2
    <3>1. \A j \in DOMAIN t : t[j].do \notin {"delete", "group"}
      BY <1>1, <1>2, <2>2
    <3>2. last = Line("group", c.group)
      BY <3>1, LastNone
    <3> QED  BY <1>1, <1>2, <2>2, <3>1, <3>2 DEF Line
  <2> QED  BY <1>1, <2>1, <2>2
<1>5. \A v : LeftAfter(t, v, 0) <=> k = 4 /\ v = o
  <2>1. \A v : \A j \in 1..k : t[j] = Line("leave", v) <=> j = 4 /\ v = o
    BY <1>2 DEF Line
  <2> QED  BY <1>1, <2>1 DEF LeftAfter
<1>6. {t[i].vlan : i \in {j \in DOMAIN t : t[j].do = "join" /\ ~LeftAfter(t, t[j].vlan, j)}} = {}
  <2>1. \A j \in DOMAIN t : t[j].do # "join"
    BY <1>1, <1>2
  <2> QED  BY <2>1
<1> QED
  <2>1. k # 0 => t # <<>> /\ t[1].do # "commit"
    BY <1>1, <1>2
  <2>2. k = 0 => t = <<>>
    BY <1>1
  <2>3. {v \in c.members : ~LeftAfter(t, v, 0)} = c.members \ (IF k = 4 THEN {o} ELSE {})
    BY <1>5
  <2> QED  BY <1>3, <1>4, <1>6, <2>1, <2>2, <2>3 DEF JuniperEdited

LEMMA AristaSetPortLines ==
  ASSUME NEW n \in Vlans, NEW k \in 0..6, NEW c, c.speed \in BOOLEAN,
         NEW t, FirstOf(t, AristaSetPort(n), k), NEW d, d = AristaEdited(c, t)
  PROVE  /\ k = 0 <=> t = <<>>
         /\ k # 0 => (t[Len(t)].do = "save" <=> k = 6)
         /\ d.mode = (IF k >= 2 THEN "tunnel" ELSE c.mode)
         /\ d.access = (IF k >= 3 THEN n ELSE c.access)
         /\ d.native = (IF k >= 1 THEN 0 ELSE c.native)
         /\ d.allowed = (IF k >= 1 THEN 0 ELSE c.allowed)
         /\ d.speed \in BOOLEAN /\ (k >= 5 => d.speed)
<1>1. DOMAIN t = 1..k /\ Len(t) = k /\ (\A j \in 1..k : t[j] = AristaSetPort(n)[j]) /\ k \in 0..6 /\ (k = 0 <=> t = <<>>)
  <2>1. AristaSetPort(n) \in Seq(Edit) /\ k \in 0..Len(AristaSetPort(n)) /\ k \in 0..6
    BY ScriptTypes
  <2> QED  BY <2>1, Prefix
<1>0. k \in Nat /\ DOMAIN t = 1..k
  BY <1>1
<1>2. \A j \in 1..k :
        /\ j \in 1..6
        /\ j = 1 => t[j].do = "clear" /\ t[j].vlan = 0
        /\ j = 2 => t[j].do = "tunnel" /\ t[j].vlan = 0
        /\ j = 3 => t[j].do = "access" /\ t[j].vlan = n
        /\ j = 4 => t[j].do = "slow" /\ t[j].vlan = 0
        /\ j = 5 => t[j].do = "speed" /\ t[j].vlan = 0
        /\ j = 6 => t[j].do = "save" /\ t[j].vlan = 0
  BY <1>1 DEF AristaSetPort, Line
<1>3. d.mode = (IF k >= 2 THEN "tunnel" ELSE c.mode)
  <2> DEFINE last == LastLine(t, {"tunnel", "trunk"}, Line(c.mode, 0))
  <2>1. CASE k >= 2
    <3>1. 2 \in 1..k /\ t[2].do \in {"tunnel", "trunk"} /\ \A j \in 1..k : j > 2 => t[j].do \notin {"tunnel", "trunk"}
      BY <1>1, <1>2, <2>1
    <3>2. last = t[2]
      <4> DEFINE dos == {"tunnel", "trunk"}
      <4>1. 2 \in 1..k /\ t[2].do \in dos /\ \A j \in 1..k : j > 2 => t[j].do \notin dos
        BY <3>1
      <4> HIDE DEF dos
      <4>2. LastLine(t, dos, Line(c.mode, 0)) = t[2]
        BY <1>0, <4>1, LastIs
      <4> QED  BY <4>2 DEF dos
    <3> QED  BY <1>1, <1>2, <2>1, <3>1, <3>2 DEF Line, AristaEdited
  <2>2. CASE k < 2
    <3>1. \A j \in DOMAIN t : t[j].do \notin {"tunnel", "trunk"}
      BY <1>1, <1>2, <2>2
    <3>2. last = Line(c.mode, 0)
      BY <3>1, LastNone
    <3> QED  BY <1>1, <1>2, <2>2, <3>1, <3>2 DEF Line, AristaEdited
  <2> QED  BY <1>1, <2>1, <2>2
<1>4. d.access = (IF k >= 3 THEN n ELSE c.access)
  <2> DEFINE last == LastLine(t, {"access"}, Line("access", c.access))
  <2>1. CASE k >= 3
    <3>1. 3 \in 1..k /\ t[3].do \in {"access"} /\ \A j \in 1..k : j > 3 => t[j].do \notin {"access"}
      BY <1>1, <1>2, <2>1
    <3>2. last = t[3]
      <4> DEFINE dos == {"access"}
      <4>1. 3 \in 1..k /\ t[3].do \in dos /\ \A j \in 1..k : j > 3 => t[j].do \notin dos
        BY <3>1
      <4> HIDE DEF dos
      <4>2. LastLine(t, dos, Line("access", c.access)) = t[3]
        BY <1>0, <4>1, LastIs
      <4> QED  BY <4>2 DEF dos
    <3> QED  BY <1>1, <1>2, <2>1, <3>1, <3>2 DEF Line, AristaEdited
  <2>2. CASE k < 3
    <3>1. \A j \in DOMAIN t : t[j].do \notin {"access"}
      BY <1>1, <1>2, <2>2
    <3>2. last = Line("access", c.access)
      BY <3>1, LastNone
    <3> QED  BY <1>1, <1>2, <2>2, <3>1, <3>2 DEF Line, AristaEdited
  <2> QED  BY <1>1, <2>1, <2>2
<1>5. d.native = (IF k >= 1 THEN 0 ELSE c.native)
  <2> DEFINE last == LastLine(t, {"clear", "native"}, Line("native", c.native))
  <2>1. CASE k >= 1
    <3>1. 1 \in 1..k /\ t[1].do \in {"clear", "native"} /\ \A j \in 1..k : j > 1 => t[j].do \notin {"clear", "native"}
      BY <1>1, <1>2, <2>1
    <3>2. last = t[1]
      <4> DEFINE dos == {"clear", "native"}
      <4>1. 1 \in 1..k /\ t[1].do \in dos /\ \A j \in 1..k : j > 1 => t[j].do \notin dos
        BY <3>1
      <4> HIDE DEF dos
      <4>2. LastLine(t, dos, Line("native", c.native)) = t[1]
        BY <1>0, <4>1, LastIs
      <4> QED  BY <4>2 DEF dos
    <3> QED  BY <1>1, <1>2, <2>1, <3>1, <3>2 DEF Line, AristaEdited
  <2>2. CASE k = 0
    <3>1. \A j \in DOMAIN t : t[j].do \notin {"clear", "native"}
      BY <1>1, <1>2, <2>2
    <3>2. last = Line("native", c.native)
      BY <3>1, LastNone
    <3> QED  BY <1>1, <1>2, <2>2, <3>1, <3>2 DEF Line, AristaEdited
  <2> QED  BY <1>1, <2>1, <2>2
<1>6. d.allowed = (IF k >= 1 THEN 0 ELSE c.allowed)
  <2> DEFINE last == LastLine(t, {"clear", "allowed"}, Line("allowed", c.allowed))
  <2>1. CASE k >= 1
    <3>1. 1 \in 1..k /\ t[1].do \in {"clear", "allowed"} /\ \A j \in 1..k : j > 1 => t[j].do \notin {"clear", "allowed"}
      BY <1>1, <1>2, <2>1
    <3>2. last = t[1]
      <4> DEFINE dos == {"clear", "allowed"}
      <4>1. 1 \in 1..k /\ t[1].do \in dos /\ \A j \in 1..k : j > 1 => t[j].do \notin dos
        BY <3>1
      <4> HIDE DEF dos
      <4>2. LastLine(t, dos, Line("allowed", c.allowed)) = t[1]
        BY <1>0, <4>1, LastIs
      <4> QED  BY <4>2 DEF dos
    <3> QED  BY <1>1, <1>2, <2>1, <3>1, <3>2 DEF Line, AristaEdited
  <2>2. CASE k = 0
    <3>1. \A j \in DOMAIN t : t[j].do \notin {"clear", "allowed"}
      BY <1>1, <1>2, <2>2
    <3>2. last = Line("allowed", c.allowed)
      BY <3>1, LastNone
    <3> QED  BY <1>1, <1>2, <2>2, <3>1, <3>2 DEF Line, AristaEdited
  <2> QED  BY <1>1, <2>1, <2>2
<1>7. d.speed \in BOOLEAN /\ (k >= 5 => d.speed)
  <2> DEFINE last == LastLine(t, {"slow", "speed"}, Line(IF c.speed THEN "speed" ELSE "slow", 0))
  <2>1. CASE k >= 5
    <3>1. 5 \in 1..k /\ t[5].do \in {"slow", "speed"} /\ \A j \in 1..k : j > 5 => t[j].do \notin {"slow", "speed"}
      BY <1>1, <1>2, <2>1
    <3>2. last = t[5]
      <4> DEFINE dos == {"slow", "speed"}
      <4>1. 5 \in 1..k /\ t[5].do \in dos /\ \A j \in 1..k : j > 5 => t[j].do \notin dos
        BY <3>1
      <4> HIDE DEF dos
      <4>2. LastLine(t, dos, Line(IF c.speed THEN "speed" ELSE "slow", 0)) = t[5]
        BY <1>0, <4>1, LastIs
      <4> QED  BY <4>2 DEF dos
    <3>3. last.do = "speed"
      BY <1>1, <1>2, <2>1, <3>1, <3>2
    <3> QED  BY <2>1, <3>3 DEF AristaEdited
  <2>2. d.speed \in BOOLEAN
    BY DEF AristaEdited
  <2> QED  BY <1>1, <2>1, <2>2
<1>8. (k = 0 <=> t = <<>>) /\ (k # 0 => (t[Len(t)].do = "save" <=> k = 6))
  BY <1>1, <1>2
<1> QED  BY <1>3, <1>4, <1>5, <1>6, <1>7, <1>8

LEMMA AristaConvertPublicLines ==
  ASSUME NEW n \in Vlans, NEW k \in 0..7, NEW c, c.speed \in BOOLEAN,
         NEW t, FirstOf(t, AristaConvertPublic(n), k), NEW d, d = AristaEdited(c, t)
  PROVE  /\ k = 0 <=> t = <<>>
         /\ k # 0 => (t[Len(t)].do = "save" <=> k = 7)
         /\ d.mode = (IF k >= 2 THEN "trunk" ELSE c.mode)
         /\ d.access = (IF k >= 1 THEN 0 ELSE c.access)
         /\ d.native = (IF k >= 3 THEN n ELSE c.native)
         /\ d.allowed = (IF k >= 4 THEN n ELSE c.allowed)
         /\ d.speed \in BOOLEAN /\ (k >= 6 => d.speed)
<1>1. DOMAIN t = 1..k /\ Len(t) = k /\ (\A j \in 1..k : t[j] = AristaConvertPublic(n)[j]) /\ k \in 0..7 /\ (k = 0 <=> t = <<>>)
  <2>1. AristaConvertPublic(n) \in Seq(Edit) /\ k \in 0..Len(AristaConvertPublic(n)) /\ k \in 0..7
    BY ScriptTypes
  <2> QED  BY <2>1, Prefix
<1>0. k \in Nat /\ DOMAIN t = 1..k
  BY <1>1
<1>2. \A j \in 1..k :
        /\ j \in 1..7
        /\ j = 1 => t[j].do = "access" /\ t[j].vlan = 0
        /\ j = 2 => t[j].do = "trunk" /\ t[j].vlan = 0
        /\ j = 3 => t[j].do = "native" /\ t[j].vlan = n
        /\ j = 4 => t[j].do = "allowed" /\ t[j].vlan = n
        /\ j = 5 => t[j].do = "slow" /\ t[j].vlan = 0
        /\ j = 6 => t[j].do = "speed" /\ t[j].vlan = 0
        /\ j = 7 => t[j].do = "save" /\ t[j].vlan = 0
  BY <1>1 DEF AristaConvertPublic, Line
<1>3. d.mode = (IF k >= 2 THEN "trunk" ELSE c.mode)
  <2> DEFINE last == LastLine(t, {"tunnel", "trunk"}, Line(c.mode, 0))
  <2>1. CASE k >= 2
    <3>1. 2 \in 1..k /\ t[2].do \in {"tunnel", "trunk"} /\ \A j \in 1..k : j > 2 => t[j].do \notin {"tunnel", "trunk"}
      BY <1>1, <1>2, <2>1
    <3>2. last = t[2]
      <4> DEFINE dos == {"tunnel", "trunk"}
      <4>1. 2 \in 1..k /\ t[2].do \in dos /\ \A j \in 1..k : j > 2 => t[j].do \notin dos
        BY <3>1
      <4> HIDE DEF dos
      <4>2. LastLine(t, dos, Line(c.mode, 0)) = t[2]
        BY <1>0, <4>1, LastIs
      <4> QED  BY <4>2 DEF dos
    <3> QED  BY <1>1, <1>2, <2>1, <3>1, <3>2 DEF Line, AristaEdited
  <2>2. CASE k < 2
    <3>1. \A j \in DOMAIN t : t[j].do \notin {"tunnel", "trunk"}
      BY <1>1, <1>2, <2>2
    <3>2. last = Line(c.mode, 0)
      BY <3>1, LastNone
    <3> QED  BY <1>1, <1>2, <2>2, <3>1, <3>2 DEF Line, AristaEdited
  <2> QED  BY <1>1, <2>1, <2>2
<1>4. d.access = (IF k >= 1 THEN 0 ELSE c.access)
  <2> DEFINE last == LastLine(t, {"access"}, Line("access", c.access))
  <2>1. CASE k >= 1
    <3>1. 1 \in 1..k /\ t[1].do \in {"access"} /\ \A j \in 1..k : j > 1 => t[j].do \notin {"access"}
      BY <1>1, <1>2, <2>1
    <3>2. last = t[1]
      <4> DEFINE dos == {"access"}
      <4>1. 1 \in 1..k /\ t[1].do \in dos /\ \A j \in 1..k : j > 1 => t[j].do \notin dos
        BY <3>1
      <4> HIDE DEF dos
      <4>2. LastLine(t, dos, Line("access", c.access)) = t[1]
        BY <1>0, <4>1, LastIs
      <4> QED  BY <4>2 DEF dos
    <3> QED  BY <1>1, <1>2, <2>1, <3>1, <3>2 DEF Line, AristaEdited
  <2>2. CASE k = 0
    <3>1. \A j \in DOMAIN t : t[j].do \notin {"access"}
      BY <1>1, <1>2, <2>2
    <3>2. last = Line("access", c.access)
      BY <3>1, LastNone
    <3> QED  BY <1>1, <1>2, <2>2, <3>1, <3>2 DEF Line, AristaEdited
  <2> QED  BY <1>1, <2>1, <2>2
<1>5. d.native = (IF k >= 3 THEN n ELSE c.native)
  <2> DEFINE last == LastLine(t, {"clear", "native"}, Line("native", c.native))
  <2>1. CASE k >= 3
    <3>1. 3 \in 1..k /\ t[3].do \in {"clear", "native"} /\ \A j \in 1..k : j > 3 => t[j].do \notin {"clear", "native"}
      BY <1>1, <1>2, <2>1
    <3>2. last = t[3]
      <4> DEFINE dos == {"clear", "native"}
      <4>1. 3 \in 1..k /\ t[3].do \in dos /\ \A j \in 1..k : j > 3 => t[j].do \notin dos
        BY <3>1
      <4> HIDE DEF dos
      <4>2. LastLine(t, dos, Line("native", c.native)) = t[3]
        BY <1>0, <4>1, LastIs
      <4> QED  BY <4>2 DEF dos
    <3> QED  BY <1>1, <1>2, <2>1, <3>1, <3>2 DEF Line, AristaEdited
  <2>2. CASE k < 3
    <3>1. \A j \in DOMAIN t : t[j].do \notin {"clear", "native"}
      BY <1>1, <1>2, <2>2
    <3>2. last = Line("native", c.native)
      BY <3>1, LastNone
    <3> QED  BY <1>1, <1>2, <2>2, <3>1, <3>2 DEF Line, AristaEdited
  <2> QED  BY <1>1, <2>1, <2>2
<1>6. d.allowed = (IF k >= 4 THEN n ELSE c.allowed)
  <2> DEFINE last == LastLine(t, {"clear", "allowed"}, Line("allowed", c.allowed))
  <2>1. CASE k >= 4
    <3>1. 4 \in 1..k /\ t[4].do \in {"clear", "allowed"} /\ \A j \in 1..k : j > 4 => t[j].do \notin {"clear", "allowed"}
      BY <1>1, <1>2, <2>1
    <3>2. last = t[4]
      <4> DEFINE dos == {"clear", "allowed"}
      <4>1. 4 \in 1..k /\ t[4].do \in dos /\ \A j \in 1..k : j > 4 => t[j].do \notin dos
        BY <3>1
      <4> HIDE DEF dos
      <4>2. LastLine(t, dos, Line("allowed", c.allowed)) = t[4]
        BY <1>0, <4>1, LastIs
      <4> QED  BY <4>2 DEF dos
    <3> QED  BY <1>1, <1>2, <2>1, <3>1, <3>2 DEF Line, AristaEdited
  <2>2. CASE k < 4
    <3>1. \A j \in DOMAIN t : t[j].do \notin {"clear", "allowed"}
      BY <1>1, <1>2, <2>2
    <3>2. last = Line("allowed", c.allowed)
      BY <3>1, LastNone
    <3> QED  BY <1>1, <1>2, <2>2, <3>1, <3>2 DEF Line, AristaEdited
  <2> QED  BY <1>1, <2>1, <2>2
<1>7. d.speed \in BOOLEAN /\ (k >= 6 => d.speed)
  <2> DEFINE last == LastLine(t, {"slow", "speed"}, Line(IF c.speed THEN "speed" ELSE "slow", 0))
  <2>1. CASE k >= 6
    <3>1. 6 \in 1..k /\ t[6].do \in {"slow", "speed"} /\ \A j \in 1..k : j > 6 => t[j].do \notin {"slow", "speed"}
      BY <1>1, <1>2, <2>1
    <3>2. last = t[6]
      <4> DEFINE dos == {"slow", "speed"}
      <4>1. 6 \in 1..k /\ t[6].do \in dos /\ \A j \in 1..k : j > 6 => t[j].do \notin dos
        BY <3>1
      <4> HIDE DEF dos
      <4>2. LastLine(t, dos, Line(IF c.speed THEN "speed" ELSE "slow", 0)) = t[6]
        BY <1>0, <4>1, LastIs
      <4> QED  BY <4>2 DEF dos
    <3>3. last.do = "speed"
      BY <1>1, <1>2, <2>1, <3>1, <3>2
    <3> QED  BY <2>1, <3>3 DEF AristaEdited
  <2>2. d.speed \in BOOLEAN
    BY DEF AristaEdited
  <2> QED  BY <1>1, <2>1, <2>2
<1>8. (k = 0 <=> t = <<>>) /\ (k # 0 => (t[Len(t)].do = "save" <=> k = 7))
  BY <1>1, <1>2
<1> QED  BY <1>3, <1>4, <1>5, <1>6, <1>7, <1>8

LEMMA LastEdit ==
  ASSUME NEW s \in Seq(Edit), NEW m \in 1..Len(s), s[m].do = "commit"
  PROVE  IsCommit(SubSeq(s, m, m))
<1>1. SubSeq(s, m, m) \in Seq(Edit) /\ Len(SubSeq(s, m, m)) = 1 /\ SubSeq(s, m, m)[1] = s[m]
  OBVIOUS
<1> QED  BY <1>1 DEF IsCommit

LEMMA NotEmpty ==
  ASSUME NEW s \in Seq(Edit), Len(s) # 0
  PROVE  s # <<>>
OBVIOUS

(* How far a session is typed before another one may come between.         *)
LEMMA JuniperStretch ==
  ASSUME NEW s \in JuniperScripts
  PROVE  /\ s \in Seq(Edit) /\ s # <<>> /\ s[1].do # "commit"
         /\ Stretch(s) \in 1..5 /\ Len(s) = Stretch(s) + 1
         /\ IsCommit(SubSeq(s, Stretch(s) + 1, Len(s)))
<1>1. CASE \E o \in Vlans, n \in PlainVlans : s = JuniperSetPort(o, n)
  <2>1. PICK o \in Vlans, n \in PlainVlans : s = JuniperSetPort(o, n)
    BY <1>1
  <2>2. s \in Seq(Edit) /\ Len(s) = 6
    BY <2>1, ScriptTypes, VlanNumbers
  <2>3. /\ s[1].do = "rollback" /\ s[2].do = "delete" /\ s[3].do = "group"
        /\ s[4].do = "leave" /\ s[5].do = "join" /\ s[6] = Line("commit", 0)
    BY <2>1 DEF JuniperSetPort, Line
  <2> HIDE <2>1
  <2>5. Stretch(s) = 5
    <3>1. 6 \in DOMAIN s /\ s[6].do = "commit"
      BY <2>2, <2>3 DEF Line
    <3> QED  BY <2>2, <3>1 DEF Stretch
  <2>6. IsCommit(SubSeq(s, 6, 6))
    <3>1. s[6].do = "commit" /\ 6 \in 1..Len(s)
      BY <2>2, <2>3 DEF Line
    <3> QED  BY <2>2, <3>1, LastEdit
  <2>7. s # <<>>
    <3>1. Len(s) # 0
      BY <2>2
    <3> QED  BY <2>2, <3>1, NotEmpty, Zenon
  <2>8. Stretch(s) + 1 = 6 /\ Len(s) = 6
    BY <2>2, <2>5
  <2>9. IsCommit(SubSeq(s, Stretch(s) + 1, Len(s)))
    BY <2>6, <2>8
  <2> QED  BY <2>2, <2>3, <2>5, <2>7, <2>8, <2>9
<1>2. CASE \E o \in Vlans, n \in PublicVlans : s = JuniperConvertPublic(o, n)
  <2>1. PICK o \in Vlans, n \in PublicVlans : s = JuniperConvertPublic(o, n)
    BY <1>2
  <2> DEFINE m == IF o = n THEN 4 ELSE 5
  <2>2. s \in Seq(Edit) /\ Len(s) = m
    BY <2>1, ScriptTypes, VlanNumbers
  <2>3. /\ s[1].do = "rollback" /\ s[2].do = "delete" /\ s[3].do = "public"
        /\ m = 5 => s[4].do = "leave"
        /\ s[m] = Line("commit", 0)
    BY <2>1 DEF JuniperConvertPublic, Line
  <2>m. m \in {4, 5}
    OBVIOUS
  <2> HIDE <2>1 DEF m
  <2>5. Stretch(s) = m - 1
    <3>1. m \in DOMAIN s /\ s[m].do = "commit"
      BY <2>2, <2>3, <2>m DEF Line
    <3> QED  BY <2>2, <2>m, <3>1 DEF Stretch
  <2>6. IsCommit(SubSeq(s, m, m))
    <3>1. s[m].do = "commit" /\ m \in 1..Len(s)
      BY <2>2, <2>3, <2>m DEF Line
    <3> QED  BY <2>2, <3>1, LastEdit
  <2>7. s # <<>>
    <3>1. Len(s) # 0
      BY <2>2, <2>m
    <3> QED  BY <2>2, <3>1, NotEmpty, Zenon
  <2>8. Stretch(s) + 1 = m /\ Len(s) = m
    BY <2>2, <2>5, <2>m
  <2>9. IsCommit(SubSeq(s, Stretch(s) + 1, Len(s)))
    BY <2>6, <2>8
  <2> QED  BY <2>2, <2>3, <2>5, <2>7, <2>8, <2>9, <2>m
<1> QED  BY <1>1, <1>2 DEF JuniperScripts

LEMMA CommitStretch ==
  ASSUME NEW s, IsCommit(s)
  PROVE  s \in Seq(Edit) /\ s # <<>> /\ Stretch(s) = 1 /\ Len(s) = 1
BY SMTT(30) DEF IsCommit, Stretch

LEMMA AristaStretch ==
  ASSUME NEW s \in AristaScripts
  PROVE  /\ s \in Seq(Edit) /\ s # <<>>
         /\ Stretch(s) = Len(s) /\ Len(s) \in {6, 7}
<1>1. CASE \E n \in PlainVlans : s = AristaSetPort(n)
  <2>1. PICK n \in PlainVlans : s = AristaSetPort(n)
    BY <1>1
  <2>2. s \in Seq(Edit) /\ Len(s) = 6
    BY <2>1, ScriptTypes, VlanNumbers
  <2>3. /\ s[1].do = "clear" /\ s[2].do = "tunnel" /\ s[3].do = "access"
        /\ s[4].do = "slow" /\ s[5].do = "speed" /\ s[6].do = "save"
    BY <2>1 DEF AristaSetPort, Line
  <2> HIDE <2>1
  <2>4. \A i \in DOMAIN s : s[i].do # "commit"
    <3>1. DOMAIN s = 1..6
      BY <2>2
    <3> QED  BY <2>3, <3>1
  <2>5. Stretch(s) = Len(s)
    BY <2>4 DEF Stretch
  <2>6. s # <<>>
    <3>1. Len(s) # 0
      BY <2>2
    <3> QED  BY <2>2, <3>1, NotEmpty, Zenon
  <2> QED  BY <2>2, <2>5, <2>6
<1>2. CASE \E n \in PublicVlans : s = AristaConvertPublic(n)
  <2>1. PICK n \in PublicVlans : s = AristaConvertPublic(n)
    BY <1>2
  <2>2. s \in Seq(Edit) /\ Len(s) = 7
    BY <2>1, ScriptTypes, VlanNumbers
  <2>3. /\ s[1].do = "access" /\ s[2].do = "trunk" /\ s[3].do = "native" /\ s[4].do = "allowed"
        /\ s[5].do = "slow" /\ s[6].do = "speed" /\ s[7].do = "save"
    BY <2>1 DEF AristaConvertPublic, Line
  <2> HIDE <2>1
  <2>4. \A i \in DOMAIN s : s[i].do # "commit"
    <3>1. DOMAIN s = 1..7
      BY <2>2
    <3> QED  BY <2>3, <3>1
  <2>5. Stretch(s) = Len(s)
    BY <2>4 DEF Stretch
  <2>6. s # <<>>
    <3>1. Len(s) # 0
      BY <2>2
    <3> QED  BY <2>2, <3>1, NotEmpty, Zenon
  <2> QED  BY <2>2, <2>5, <2>6
<1> QED  BY <1>1, <1>2 DEF AristaScripts

(* What a session makes of a port.                                         *)
Typed(t, s, k) == k \in 0..Stretch(s) /\ FirstOf(t, s, k)

LEMMA JuniperPortAfter ==
  ASSUME NEW c \in JuniperPort, NEW s \in JuniperScripts, NEW k, NEW t, Typed(t, s, k),
         NEW d, d = JuniperEdited(c, t)
  PROVE  /\ d \in JuniperPort /\ (PlainPort(c) => PlainPort(d))
         /\ k = 0 => t = <<>>
         /\ k # 0 => t # <<>> /\ t[1].do # "commit"
<1>0. c.group \in Vlans /\ c.native \in Vlans /\ c.members \in SUBSET Vlans /\ 0 \in Vlans
  BY VlanNumbers DEF JuniperPort
<1>1. CASE \E o \in Vlans, n \in PlainVlans : s = JuniperSetPort(o, n)
  <2>1. PICK o \in Vlans, n \in PlainVlans : s = JuniperSetPort(o, n)
    BY <1>1
  <2>2. n \in Vlans /\ k \in 0..5 /\ FirstOf(t, JuniperSetPort(o, n), k)
    <3>1. n \in Vlans
      BY VlanNumbers
    <3>2. Stretch(s) \in 1..5 /\ Len(s) = Stretch(s) + 1
      BY JuniperStretch
    <3>3. Len(s) = 6
      BY <2>1, <3>1, ScriptTypes
    <3> QED  BY <2>1, <3>1, <3>2, <3>3 DEF Typed
  <2>3. /\ k # 0 => t # <<>> /\ t[1].do # "commit"
        /\ k = 0 => t = <<>>
        /\ d.group = (IF k >= 3 THEN n ELSE IF k = 2 THEN 0 ELSE c.group)
        /\ d.native = (IF k >= 2 THEN 0 ELSE c.native)
        /\ d.members = (c.members \ (IF k >= 4 THEN {o} ELSE {})) \union (IF k = 5 THEN {n} ELSE {})
    BY <2>2, SetPortLines
  <2>4. d.group \in Vlans /\ d.native \in Vlans /\ d.members \in SUBSET Vlans
    BY <1>0, <2>2, <2>3
  <2>5. d \in JuniperPort
    BY <2>4 DEF JuniperEdited, JuniperPort
  <2>6. PlainPort(c) => PlainPort(d)
    BY <2>2, <2>3 DEF PlainPort
  <2> QED  BY <2>3, <2>5, <2>6
<1>2. CASE \E o \in Vlans, n \in PublicVlans : s = JuniperConvertPublic(o, n)
  <2>1. PICK o \in Vlans, n \in PublicVlans : s = JuniperConvertPublic(o, n)
    BY <1>2
  <2>2. n \in Vlans /\ k \in 0..4 /\ (k = 4 => o # n) /\ FirstOf(t, JuniperConvertPublic(o, n), k)
    <3>1. n \in Vlans
      BY VlanNumbers
    <3>2. Len(s) = (IF o = n THEN 4 ELSE 5)
      BY <2>1, <3>1, ScriptTypes
    <3>3. Stretch(s) \in 1..5 /\ Len(s) = Stretch(s) + 1
      BY JuniperStretch
    <3> QED  BY <2>1, <3>1, <3>2, <3>3 DEF Typed
  <2>3. /\ k # 0 => t # <<>> /\ t[1].do # "commit"
        /\ k = 0 => t = <<>>
        /\ d.group = (IF k >= 2 THEN 0 ELSE c.group)
        /\ d.native = (IF k >= 3 THEN n ELSE IF k = 2 THEN 0 ELSE c.native)
        /\ d.members = c.members \ (IF k = 4 THEN {o} ELSE {})
    BY <2>2, ConvertPublicLines
  <2>4. d.group \in Vlans /\ d.native \in Vlans /\ d.members \in SUBSET Vlans
    BY <1>0, <2>2, <2>3
  <2>5. d \in JuniperPort
    BY <2>4 DEF JuniperEdited, JuniperPort
  <2>6. PlainPort(c) => PlainPort(d)
    BY <2>2, <2>3 DEF PlainPort
  <2> QED  BY <2>3, <2>5, <2>6
<1> QED  BY <1>1, <1>2 DEF JuniperScripts

LEMMA AristaPortAfter ==
  ASSUME NEW c \in AristaPort, NEW s \in AristaScripts, NEW k, NEW t, Typed(t, s, k),
         NEW d, d = AristaEdited(c, t)
  PROVE  /\ d \in AristaPort /\ (Settled(c) => Settled(d))
         /\ k = Len(s) => t # <<>> /\ t[Len(t)].do = "save"
<1>0. /\ c.mode \in {"tunnel", "trunk"} /\ c.access \in Vlans /\ c.native \in Vlans
      /\ c.allowed \in Vlans /\ c.speed \in BOOLEAN /\ 0 \in Vlans
  BY VlanNumbers DEF AristaPort
<1>1. CASE \E n \in PlainVlans : s = AristaSetPort(n)
  <2>1. PICK n \in PlainVlans : s = AristaSetPort(n)
    BY <1>1
  <2>2. n \in Vlans /\ n # 0 /\ k \in 0..6 /\ FirstOf(t, AristaSetPort(n), k) /\ Len(s) = 6
    <3>1. n \in Vlans /\ n # 0
      BY VlanNumbers
    <3>2. Stretch(s) = Len(s)
      BY AristaStretch
    <3>3. Len(s) = 6
      BY <2>1, <3>1, ScriptTypes
    <3> QED  BY <2>1, <3>1, <3>2, <3>3 DEF Typed
  <2>3. /\ k = 0 <=> t = <<>>
        /\ k # 0 => (t[Len(t)].do = "save" <=> k = 6)
        /\ d.mode = (IF k >= 2 THEN "tunnel" ELSE c.mode)
        /\ d.access = (IF k >= 3 THEN n ELSE c.access)
        /\ d.native = (IF k >= 1 THEN 0 ELSE c.native)
        /\ d.allowed = (IF k >= 1 THEN 0 ELSE c.allowed)
        /\ d.speed \in BOOLEAN
    BY <1>0, <2>2, AristaSetPortLines
  <2>4. d \in AristaPort
    <3>1. d.mode \in {"tunnel", "trunk"} /\ d.access \in Vlans /\ d.native \in Vlans /\ d.allowed \in Vlans
      BY <1>0, <2>2, <2>3
    <3> QED  BY <2>3, <3>1 DEF AristaEdited, AristaPort
  <2>5. Settled(c) => Settled(d)
    BY <2>2, <2>3 DEF Settled
  <2> QED  BY <2>2, <2>3, <2>4, <2>5
<1>2. CASE \E n \in PublicVlans : s = AristaConvertPublic(n)
  <2>1. PICK n \in PublicVlans : s = AristaConvertPublic(n)
    BY <1>2
  <2>2. n \in Vlans /\ n # 0 /\ k \in 0..7 /\ FirstOf(t, AristaConvertPublic(n), k) /\ Len(s) = 7
    <3>1. n \in Vlans /\ n # 0
      BY VlanNumbers
    <3>2. Stretch(s) = Len(s)
      BY AristaStretch
    <3>3. Len(s) = 7
      BY <2>1, <3>1, ScriptTypes
    <3> QED  BY <2>1, <3>1, <3>2, <3>3 DEF Typed
  <2>3. /\ k = 0 <=> t = <<>>
        /\ k # 0 => (t[Len(t)].do = "save" <=> k = 7)
        /\ d.mode = (IF k >= 2 THEN "trunk" ELSE c.mode)
        /\ d.access = (IF k >= 1 THEN 0 ELSE c.access)
        /\ d.native = (IF k >= 3 THEN n ELSE c.native)
        /\ d.allowed = (IF k >= 4 THEN n ELSE c.allowed)
        /\ d.speed \in BOOLEAN
    BY <1>0, <2>2, AristaConvertPublicLines
  <2>4. d \in AristaPort
    <3>1. d.mode \in {"tunnel", "trunk"} /\ d.access \in Vlans /\ d.native \in Vlans /\ d.allowed \in Vlans
      BY <1>0, <2>2, <2>3
    <3> QED  BY <2>3, <3>1 DEF AristaEdited, AristaPort
  <2>5. Settled(c) => Settled(d)
    BY <2>2, <2>3 DEF Settled
  <2> QED  BY <2>2, <2>3, <2>4, <2>5
<1> QED  BY <1>1, <1>2 DEF AristaScripts

----------------------------------------------------------------------------
(* What becomes of a process.                                              *)

Answered(x, ok) ==
  LET good == x.ok /\ ok
  IN  IF x.plugin < Len(Plugins) /\ (good \/ x.op = "verify")
      THEN [x EXCEPT !.plugin = @ + 1, !.nic = 0, !.ok = good, !.script = <<>>,
                     !.was = None, !.will = None]
      ELSE IF good THEN [Idle EXCEPT !.op = "done", !.new = x.new, !.passed = x.passed]
      ELSE Idle

Passed(x) ==
  LET next == NextOwned(Plugins[x.plugin], x.nic + 1)
  IN  IF next \in Nics THEN [x EXCEPT !.nic = next, !.script = <<>>] ELSE Answered(x, TRUE)

Ops == {"configure", "verify", "modify"}

WorkOK(x) ==
  /\ x \in Work
  /\ x.nic # 0 => x.op \in Ops /\ x.nic \in Nics /\ Owns(Plugins[x.plugin], x.nic)
  /\ x.script # <<>> => x.nic # 0

LEMMA AnswerIs ==
  ASSUME NEW self, NEW x
  PROVE  /\ Answer(self, x, TRUE) = [w EXCEPT ![self] = Answered(x, TRUE)]
         /\ Answer(self, x, FALSE) = [w EXCEPT ![self] = Answered(x, FALSE)]
         /\ Pass(self, x) = [w EXCEPT ![self] = Passed(x)]
BY DEF Answer, Answered, Pass, Passed

LEMMA WorkOKs ==
  /\ TypeOK => w \in [Processes -> Work] /\ \A q \in Processes : WorkOK(w[q])
  /\ (w \in [Processes -> Work] /\ \A q \in Processes : WorkOK(w[q])) =>
       \A q \in Processes :
         /\ w[q].nic # 0 => Busy(q) /\ w[q].nic \in Nics /\ Owns(Plugin(q), w[q].nic)
         /\ w[q].script # <<>> => w[q].nic # 0
BY DEF TypeOK, WorkOK, Busy, Plugin, Ops

LEMMA NoLines == <<>> \in Seq(Edit)
OBVIOUS

LEMMA WorkNext ==
  ASSUME NEW x \in Work, NEW n \in DOMAIN Plugins, NEW ok \in BOOLEAN, NEW s \in Seq(Edit)
  PROVE  [x EXCEPT !.plugin = n, !.nic = 0, !.ok = ok, !.script = s, !.was = None, !.will = None] \in Work
BY DEF Work

LEMMA WorkNic ==
  ASSUME NEW x \in Work, NEW n \in Nat, NEW s \in Seq(Edit)
  PROVE  [x EXCEPT !.nic = n, !.script = s] \in Work
BY DEF Work

LEMMA WorkScript ==
  ASSUME NEW x \in Work, NEW s \in Seq(Edit)
  PROVE  [x EXCEPT !.script = s] \in Work
BY DEF Work

LEMMA WorkFlag ==
  ASSUME NEW x \in Work, NEW b \in BOOLEAN, NEW S \in SUBSET Nics
  PROVE  [x EXCEPT !.crossed = b] \in Work /\ [x EXCEPT !.ok = b] \in Work /\ [x EXCEPT !.passed = S] \in Work
BY DEF Work

LEMMA IdleOK ==
  WorkOK(Idle) /\ Idle \in Work /\ Idle.script = <<>> /\ Idle.nic = 0 /\ Idle.op = "idle"
    /\ Idle.passed = {} /\ Idle.crossed = FALSE /\ Idle.plugin = 1 /\ Idle.ok = FALSE
BY VlanNumbers, NicNumbers, PluginNames, SwitchAssumption DEF Idle, Work, WorkOK, SwitchAssumption

(* A process that answered: with the next plugin, done, or at rest.        *)
MovesOn(x, y, ok) ==
  /\ x.plugin = 1 /\ y.plugin = 2 /\ y.op = x.op /\ y.ask = x.ask /\ y.new = x.new
  /\ y.passed = x.passed
  /\ y.crossed = x.crossed /\ (y.ok <=> x.ok /\ ok) /\ (x.op # "verify" => y.ok)
Finishes(x, y, ok) ==
  y.op = "done" /\ y.new = x.new /\ y.passed = x.passed /\ x.plugin = 2 /\ x.ok /\ ok

LEMMA AnsweredWell ==
  ASSUME NEW x \in Work, NEW y, y = Answered(x, TRUE)
  PROVE  /\ WorkOK(y) /\ y.script = <<>> /\ y.nic = 0
         /\ MovesOn(x, y, TRUE) \/ Finishes(x, y, TRUE) \/ y = Idle
<1>0. /\ x.plugin \in {1, 2} /\ x.ok \in BOOLEAN /\ x.new \in Clouds /\ x.passed \in SUBSET Nics
      /\ x.op \in {"idle", "configure", "verify", "modify", "done"}
  BY PluginNames DEF Work
<1>1. CASE x.plugin = 1 /\ (x.ok \/ x.op = "verify")
  <2>1. y = [x EXCEPT !.plugin = 2, !.nic = 0, !.ok = x.ok /\ TRUE, !.script = <<>>,
                     !.was = None, !.will = None]
    BY <1>1, PluginNames DEF Answered
  <2>2. y \in Work /\ y.script = <<>> /\ y.nic = 0
    <3> DEFINE ok == x.ok /\ TRUE
    <3>1. ok \in BOOLEAN /\ 2 \in DOMAIN Plugins
      BY <1>0, PluginNames
    <3>3. y = [x EXCEPT !.plugin = 2, !.nic = 0, !.ok = ok, !.script = <<>>, !.was = None, !.will = None]
      BY <2>1
    <3> HIDE DEF ok
    <3>4. [x EXCEPT !.plugin = 2, !.nic = 0, !.ok = ok, !.script = <<>>, !.was = None, !.will = None] \in Work
      BY <3>1, NoLines, WorkNext, Zenon
    <3>2. y \in Work
      BY <3>3, <3>4, Zenon
    <3> QED  BY <2>1, <3>2 DEF Work
  <2>3. MovesOn(x, y, TRUE)
    BY <1>0, <1>1, <2>1, ZenonT(40) DEF MovesOn, Work
  <2> QED  BY <2>2, <2>3 DEF WorkOK
<1>2. CASE x.plugin = 2 /\ x.ok
  <2>1. y = [Idle EXCEPT !.op = "done", !.new = x.new, !.passed = x.passed]
    BY <1>2, PluginNames DEF Answered
  <2>2. y \in Work
    BY <1>0, <2>1, IdleOK DEF Work
  <2>3. y.script = <<>> /\ y.nic = 0 /\ y.op = "done" /\ y.new = x.new /\ y.passed = x.passed
    BY <2>1 DEF Idle
  <2> QED  BY <1>2, <2>2, <2>3 DEF WorkOK, Finishes
<1>3. CASE ~x.ok /\ ~(x.plugin = 1 /\ x.op = "verify")
  <2>1. y = Idle
    BY <1>0, <1>3, PluginNames DEF Answered
  <2> QED  BY <2>1, IdleOK
<1> QED  BY <1>0, <1>1, <1>2, <1>3

LEMMA AnsweredBadly ==
  ASSUME NEW x \in Work, NEW y, y = Answered(x, FALSE)
  PROVE  /\ WorkOK(y) /\ y.script = <<>> /\ y.nic = 0
         /\ (MovesOn(x, y, FALSE) /\ ~y.ok /\ x.op = "verify") \/ y = Idle
<1>0. x.plugin \in {1, 2} /\ x.ok \in BOOLEAN
  BY PluginNames DEF Work
<1>1. CASE x.plugin = 1 /\ x.op = "verify"
  <2>1. y = [x EXCEPT !.plugin = 2, !.nic = 0, !.ok = x.ok /\ FALSE, !.script = <<>>,
                     !.was = None, !.will = None]
    BY <1>1, PluginNames DEF Answered
  <2>2. y \in Work /\ y.script = <<>> /\ y.nic = 0
    <3> DEFINE ok == x.ok /\ FALSE
    <3>1. ok \in BOOLEAN /\ 2 \in DOMAIN Plugins
      BY <1>0, PluginNames
    <3>3. y = [x EXCEPT !.plugin = 2, !.nic = 0, !.ok = ok, !.script = <<>>, !.was = None, !.will = None]
      BY <2>1
    <3> HIDE DEF ok
    <3>4. [x EXCEPT !.plugin = 2, !.nic = 0, !.ok = ok, !.script = <<>>, !.was = None, !.will = None] \in Work
      BY <3>1, NoLines, WorkNext, Zenon
    <3>2. y \in Work
      BY <3>3, <3>4, Zenon
    <3> QED  BY <2>1, <3>2 DEF Work
  <2>3. MovesOn(x, y, FALSE) /\ ~y.ok
    BY <1>0, <1>1, <2>1 DEF MovesOn, Work
  <2> QED  BY <1>1, <2>2, <2>3 DEF WorkOK
<1>2. CASE ~(x.plugin = 1 /\ x.op = "verify")
  <2>1. y = Idle
    BY <1>0, <1>2, PluginNames DEF Answered
  <2> QED  BY <2>1, IdleOK
<1> QED  BY <1>1, <1>2

(* The NICs a plugin has dealt with when the one in hand is dealt with.    *)
LEMMA PassedWell ==
  ASSUME NEW x \in Work, x.op \in Ops, NEW y, y = Passed(x)
  PROVE  /\ WorkOK(y) /\ y.script = <<>>
         /\ \/ /\ y.nic # 0 /\ y.plugin = x.plugin /\ y.op = x.op /\ y.ask = x.ask /\ y.new = x.new
               /\ y.passed = x.passed
               /\ y.crossed = x.crossed /\ y.ok = x.ok /\ y.was = x.was /\ y.will = x.will
               /\ \A p \in Nics : Owns(Plugins[x.plugin], p) /\ p < y.nic => p <= x.nic
            \/ /\ y.nic = 0
               /\ MovesOn(x, y, TRUE) \/ Finishes(x, y, TRUE) \/ y = Idle
               /\ \A p \in Nics : Owns(Plugins[x.plugin], p) => p <= x.nic
<1> DEFINE next == NextOwned(Plugins[x.plugin], x.nic + 1)
<1>0. x.nic \in Nat /\ x.nic + 1 \in Nat /\ Nics \subseteq Nat
  BY NicNumbers DEF Work
<1>1. /\ next \in Nat /\ next # 0
      /\ next \in Nics => Owns(Plugins[x.plugin], next) /\ x.nic + 1 <= next
      /\ \A p \in Nics : Owns(Plugins[x.plugin], p) /\ x.nic + 1 <= p => next \in Nics /\ next <= p
  BY <1>0, NextNic
<1> HIDE DEF next
<1>2. CASE next \in Nics
  <2>1. y = [x EXCEPT !.nic = next, !.script = <<>>]
    BY <1>2 DEF Passed, next
  <2>2. y \in Work
    <3>1. next \in Nat
      BY <1>1
    <3>2. [x EXCEPT !.nic = next, !.script = <<>>] \in Work
      BY <3>1, NoLines, WorkNic, Zenon
    <3> QED  BY <2>1, <3>2, Zenon
  <2>3. /\ y.nic = next /\ y.script = <<>> /\ y.ask = x.ask /\ y.plugin = x.plugin /\ y.op = x.op /\ y.new = x.new
        /\ y.passed = x.passed /\ y.crossed = x.crossed /\ y.ok = x.ok /\ y.was = x.was /\ y.will = x.will
    BY <2>1 DEF Work
  <2>4. ASSUME NEW p \in Nics, Owns(Plugins[x.plugin], p), p < next
        PROVE  p <= x.nic
    <3>1. ~(x.nic + 1 <= p)
      <4>1. ~(next <= p)
        BY <1>0, <1>1, <2>4
      <4> QED  BY <1>1, <2>4, <4>1, Zenon
    <3> QED  BY <1>0, <3>1
  <2> QED  BY <1>1, <1>2, <2>2, <2>3, <2>4 DEF WorkOK
<1>3. CASE next \notin Nics
  <2>1. y = Answered(x, TRUE)
    BY <1>3 DEF Passed, next
  <2>2. ASSUME NEW p \in Nics, Owns(Plugins[x.plugin], p)
        PROVE  p <= x.nic
    <3>1. ~(x.nic + 1 <= p)
      BY <1>1, <1>3, <2>2, Zenon
    <3> QED  BY <1>0, <3>1
  <2> QED  BY <2>1, <2>2, AnsweredWell
<1> QED  BY <1>2, <1>3

(* The other process only learns that it was crossed.                      *)
Alike(x, y) ==
  /\ y.op = x.op /\ y.change = x.change /\ y.ask = x.ask /\ y.new = x.new /\ y.plugin = x.plugin
  /\ y.nic = x.nic /\ y.was = x.was /\ y.will = x.will /\ y.ok = x.ok /\ y.script = x.script
  /\ y.passed = x.passed /\ (x.crossed => y.crossed)

LEMMA Meddled ==
  ASSUME w \in [Processes -> Work], NEW self \in Processes, NEW y \in Work,
         w' = Meddle(self, [w EXCEPT ![self] = y])
  PROVE  /\ w' \in [Processes -> Work] /\ w'[self] = y
         /\ Alike(w[Other(self)], w'[Other(self)])
         /\ Busy(Other(self)) => w'[Other(self)].crossed
<1>1. Other(self) \in Processes /\ Other(self) # self
  BY TwoProcesses
<1>2. CASE Busy(Other(self))
  <2>1. w' = [[w EXCEPT ![self] = y] EXCEPT ![Other(self)].crossed = TRUE]
    BY <1>2 DEF Meddle
  <2>2. w'[Other(self)] = [w[Other(self)] EXCEPT !.crossed = TRUE] /\ w'[self] = y
    BY <1>1, <2>1
  <2>3. w' \in [Processes -> Work]
    <3>1. [w[Other(self)] EXCEPT !.crossed = TRUE] \in Work
      BY <1>1, WorkFlag
    <3>2. w' = [[w EXCEPT ![self] = y] EXCEPT ![Other(self)] = [w[Other(self)] EXCEPT !.crossed = TRUE]]
      BY <1>1, <2>1
    <3> QED  BY <1>1, <3>1, <3>2
  <2> QED  BY <1>1, <2>2, <2>3, ZenonT(40) DEF Alike, Work
<1>3. CASE ~Busy(Other(self))
  <2>1. w' = [w EXCEPT ![self] = y]
    BY <1>3 DEF Meddle
  <2> QED  BY <1>1, <1>3, <2>1 DEF Alike
<1> QED  BY <1>2, <1>3

LEMMA AlikeOK ==
  ASSUME NEW x, WorkOK(x), NEW y \in Work, Alike(x, y)
  PROVE  WorkOK(y)
BY DEF WorkOK, Alike

LEMMA Crossed ==
  ASSUME w \in [Processes -> Work], w' = Cross(w)
  PROVE  /\ w' \in [Processes -> Work]
         /\ \A q \in Processes : Alike(w[q], w'[q]) /\ (Busy(q) => w'[q].crossed)
<1>1. \A q \in Processes : w'[q] = IF w[q].op \in {"idle", "done"} THEN w[q] ELSE [w[q] EXCEPT !.crossed = TRUE]
  BY DEF Cross
<1>2. w' = [q \in Processes |-> w'[q]]
  BY DEF Cross
<1>3. \A q \in Processes : w'[q] \in Work
  BY <1>1, WorkFlag, ZenonT(40)
<1>4. \A q \in Processes : Alike(w[q], w'[q]) /\ (Busy(q) => w'[q].crossed)
  <2> SUFFICES ASSUME NEW q \in Processes
               PROVE  Alike(w[q], w'[q]) /\ (Busy(q) => w'[q].crossed)
    OBVIOUS
  <2>1. CASE w[q].op \in {"idle", "done"}
    BY <1>1, <2>1 DEF Alike, Busy
  <2>2. CASE w[q].op \notin {"idle", "done"}
    <3>1. w'[q] = [w[q] EXCEPT !.crossed = TRUE]
      BY <1>1, <2>2
    <3> QED  BY <3>1 DEF Alike, Busy, Work
  <2> QED  BY <2>1, <2>2
<1> QED  BY <1>2, <1>3, <1>4

----------------------------------------------------------------------------
(* Reading a port: the NIC is dealt with, or lines are to be typed.        *)

Eased(x, y) ==
  /\ y \in Work
  /\ y.op = x.op /\ y.ask = x.ask /\ y.plugin = x.plugin /\ y.nic = x.nic /\ y.new = x.new
  /\ y.was = x.was /\ y.will = x.will /\ y.crossed = x.crossed
  /\ y.ok => x.ok
  /\ x.op # "verify" => y.ok = x.ok
  /\ x.passed \subseteq y.passed /\ y.passed \subseteq x.passed \union {x.nic}
  /\ x.op # "configure" => y.passed = x.passed

Steers(self) ==
  \/ \E x \in Work : Eased(w[self], x) /\ w' = Pass(self, x)
  \/ \E s \in ScriptsOf(Plugin(self)) : w' = Drive(self, s)

AtPort(self) ==
  /\ Busy(self) /\ w[self].nic \in Nics /\ Owns(Plugin(self), w[self].nic) /\ w[self].script = <<>>

Looks(self) ==
  /\ AtPort(self) /\ Steers(self)
  /\ UNCHANGED <<vendor, assignment, want, cloud, conf, startup, candidate, calls>>
  /\ doubt' \in {doubt, doubt \union {w[self].nic}}
  /\ faults' \in 0..MaxFaults /\ faults' \in {faults, faults + 1}

LEMMA EasedItself ==
  ASSUME NEW x \in Work
  PROVE  /\ Eased(x, x)
         /\ x.op = "verify" => Eased(x, [x EXCEPT !.ok = FALSE])
         /\ x.op = "configure" /\ x.nic \in Nics => Eased(x, [x EXCEPT !.passed = @ \union {x.nic}])
<1>1. Eased(x, x)
  BY DEF Eased
<1>2. ASSUME x.op = "verify"
      PROVE  Eased(x, [x EXCEPT !.ok = FALSE])
  <2>1. [x EXCEPT !.ok = FALSE] \in Work
    BY WorkFlag
  <2> QED  BY <1>2, <2>1 DEF Eased, Work
<1>3. ASSUME x.op = "configure", x.nic \in Nics
      PROVE  Eased(x, [x EXCEPT !.passed = @ \union {x.nic}])
  <2> DEFINE S == x.passed \union {x.nic}
  <2>1. S \in SUBSET Nics
    BY <1>3 DEF Work
  <2> HIDE DEF S
  <2>2. [x EXCEPT !.passed = S] \in Work
    BY <2>1, WorkFlag
  <2> USE DEF S
  <2> QED  BY <1>3, <2>2 DEF Eased, Work
<1> QED  BY <1>1, <1>2, <1>3

LEMMA JuniperLines ==
  ASSUME NEW o \in Vlans
  PROVE  /\ \A n \in PlainVlans : JuniperSetPort(o, n) \in JuniperScripts /\ AristaSetPort(n) \in AristaScripts
         /\ \A n \in PublicVlans : JuniperConvertPublic(o, n) \in JuniperScripts
                                    /\ AristaConvertPublic(n) \in AristaScripts
BY DEF JuniperScripts, AristaScripts

LEMMA AtWork ==
  ASSUME TypeOK, NEW self \in Processes
  PROVE  /\ w[self] \in Work /\ w[self].nic \in Nat
         /\ w[self].was \in Assignments \union {None} /\ w[self].will \in Assignments \union {None}
         /\ w[self].new \in Clouds /\ w[self].passed \in SUBSET Nics /\ w[self].ok \in BOOLEAN
         /\ w[self].change \in BOOLEAN /\ w[self].crossed \in BOOLEAN
         /\ w[self].plugin \in {1, 2} /\ Plugin(self) \in {"juniper", "arista"}
         /\ (Plugin(self) = "juniper" <=> w[self].plugin = 1)
         /\ w[self].ask \in Nics \X Vlans
         /\ w[self].op \in {"idle", "configure", "verify", "modify", "done"}
<1>1. w[self] \in Work
  BY DEF TypeOK
<1> QED  BY <1>1, PluginNames DEF Work, Plugin

LEMMA PortTypes ==
  ASSUME TypeOK, NEW p \in Nics
  PROVE  /\ Owns("juniper", p) => conf[p] \in JuniperPort /\ candidate[p] \in JuniperPort
         /\ Owns("arista", p) => conf[p] \in AristaPort /\ startup[p] \in AristaPort
<1>1. conf \in Switches /\ startup \in Switches /\ candidate \in Switches
  BY DEF TypeOK
<1> QED  BY <1>1, OneOwner DEF Switches

LEMMA ConfigureSteers ==
  ASSUME TypeOK, NEW self \in Processes, w[self].nic \in Nics, w[self].op = "configure",
         NEW seen \in Vlans, Configure(self, seen, TRUE) \/ Configure(self, seen, FALSE)
  PROVE  /\ Steers(self) /\ doubt' \in {doubt, doubt \union {w[self].nic}}
         /\ UNCHANGED <<vendor, assignment, want, cloud, conf, startup, candidate, calls>>
<1> DEFINE x == w[self]
           p == x.nic
           old == IF seen # 0 THEN seen ELSE GetVlan(x.was, p)
           new == GetVlan(x.will, p)
           s == ConfigureScript(Plugin(self), x.will, p, old, new)
<1>1. /\ x \in Work /\ x.was \in Assignments \union {None} /\ x.will \in Assignments \union {None}
      /\ Plugin(self) \in {"juniper", "arista"}
  BY AtWork
<1>2. old \in Vlans /\ GetVlan(x.was, p) \in Vlans
  BY <1>1, VlanOf
<1>3. s \in ScriptsOf(Plugin(self))
  <2>1. Public(x.will, p) => new \in PublicVlans
    BY <1>1, VlanOf
  <2>2. ~Public(x.will, p) => new \in PlainVlans
    BY <1>1, VlanOf
  <2> HIDE DEF old, new, x, p
  <2> QED  BY <1>1, <1>2, <2>1, <2>2, JuniperLines DEF ConfigureScript, ScriptsOf, s
<1>4. w' = IF old = new
           THEN Pass(self, IF seen = 0 THEN [x EXCEPT !.passed = @ \union {p}] ELSE x)
           ELSE Drive(self, s)
  BY DEF Configure
<1>5. Steers(self)
  <2>1. Eased(x, x) /\ Eased(x, [x EXCEPT !.passed = @ \union {p}])
    BY <1>1, EasedItself
  <2>2. x \in Work /\ [x EXCEPT !.passed = @ \union {p}] \in Work
    BY <2>1 DEF Eased
  <2> HIDE DEF s, old, new
  <2>3. CASE old = new /\ seen = 0
    BY <1>4, <2>1, <2>2, <2>3 DEF Steers
  <2>4. CASE old = new /\ seen # 0
    BY <1>4, <2>1, <2>2, <2>4 DEF Steers
  <2>5. CASE old # new
    BY <1>3, <1>4, <2>5 DEF Steers
  <2> QED  BY <2>3, <2>4, <2>5
<1> QED  BY <1>5 DEF Configure, demand, ports

LEMMA FaultCount ==
  ASSUME TypeOK, (UNCHANGED faults) \/ Fault
  PROVE  faults' \in 0..MaxFaults /\ faults' \in {faults, faults + 1}
BY SwitchAssumption DEF TypeOK, Fault, SwitchAssumption

LEMMA ReadingAt ==
  ASSUME TypeOK, NEW self \in Processes, NEW plugin, NEW op \in Ops, Reading(self, plugin, op)
  PROVE  AtPort(self) /\ w[self].op = op /\ w[self].nic \in Nics /\ Owns(plugin, w[self].nic) /\ Plugin(self) = plugin
<1>1. w[self].nic \in Nics /\ w[self].nic # 0 /\ w[self].op = op /\ Plugin(self) = plugin /\ w[self].script = <<>>
  BY NicNumbers DEF Reading
<1>2. Owns(Plugin(self), w[self].nic)
  BY <1>1 DEF TypeOK
<1> QED  BY <1>1, <1>2 DEF AtPort, Busy, Ops

LEMMA JuniperConfigureLooks ==
  ASSUME TypeOK, NEW self \in Processes, JuniperConfigure(self)
  PROVE  Looks(self)
<1>1. AtPort(self) /\ w[self].op = "configure" /\ w[self].nic \in Nics /\ Owns("juniper", w[self].nic)
  BY ReadingAt DEF JuniperConfigure, Ops
<1>2. JuniperConfigured(conf[w[self].nic]) \in Vlans /\ 0 \in Vlans
  BY <1>1, PortTypes, VlanNumbers DEF JuniperConfigured, JuniperPort
<1>3. PICK seen \in Vlans : (Configure(self, seen, TRUE) \/ Configure(self, seen, FALSE)) /\ ((UNCHANGED faults) \/ Fault)
  BY <1>2, Zenon DEF JuniperConfigure
<1> QED  BY <1>1, <1>3, ConfigureSteers, FaultCount DEF Looks

LEMMA AristaConfigureLooks ==
  ASSUME TypeOK, NEW self \in Processes, AristaConfigure(self)
  PROVE  Looks(self)
<1>1. AtPort(self) /\ w[self].op = "configure" /\ w[self].nic \in Nics /\ Owns("arista", w[self].nic)
  BY ReadingAt DEF AristaConfigure, Ops
<1>2. AristaVlan(conf[w[self].nic]) \in Vlans /\ 0 \in Vlans
  BY <1>1, PortTypes, VlanNumbers DEF AristaVlan, AristaPort
<1>3. PICK seen \in Vlans : (Configure(self, seen, TRUE) \/ Configure(self, seen, FALSE)) /\ ((UNCHANGED faults) \/ Fault)
  BY <1>2, Zenon DEF AristaConfigure
<1> QED  BY <1>1, <1>3, ConfigureSteers, FaultCount DEF Looks

(* A verdict, whichever it is.                                             *)
LEMMA VerdictSteers ==
  ASSUME TypeOK, NEW self \in Processes, w[self].op = "verify",
         NEW s, s # <<>> => s \in ScriptsOf(Plugin(self)),
         \/ w' = Pass(self, w[self])
         \/ w' = Pass(self, [w[self] EXCEPT !.ok = FALSE])
         \/ s # <<>> /\ w' = Drive(self, s)
  PROVE  Steers(self)
<1> DEFINE x == w[self]
<1>1. x \in Work
  BY AtWork
<1>3. Eased(x, x) /\ Eased(x, [x EXCEPT !.ok = FALSE])
  BY <1>1, EasedItself
<1>4. [x EXCEPT !.ok = FALSE] \in Work
  BY <1>3 DEF Eased
<1>5. CASE w' = Pass(self, x)
  BY <1>1, <1>3, <1>5 DEF Steers
<1>6. CASE w' = Pass(self, [x EXCEPT !.ok = FALSE])
  BY <1>3, <1>4, <1>6 DEF Steers
<1>7. CASE s # <<>> /\ w' = Drive(self, s)
  BY <1>7 DEF Steers
<1> QED  BY <1>5, <1>6, <1>7

LEMMA JuniperCompareSteers ==
  ASSUME TypeOK, NEW self \in Processes, w[self].nic \in Nics, Owns("juniper", w[self].nic),
         w[self].op = "verify", Plugin(self) = "juniper", NEW seen \in Vlans, NEW m \in Vlans,
         JuniperCompare(self, seen, m, TRUE) \/ JuniperCompare(self, seen, m, FALSE)
  PROVE  /\ Steers(self) /\ doubt' \in {doubt, doubt \union {w[self].nic}}
         /\ UNCHANGED <<vendor, assignment, want, cloud, conf, startup, candidate, calls>>
<1> DEFINE p == w[self].nic
           a == w[self].will
           vlan == GetVlan(a, p)
           member == IF m = 0 /\ Public(a, p) /\ seen # 0 THEN conf[p].native ELSE m
           s == IF ~Public(a, p) THEN JuniperSetPort(member, vlan)
                ELSE IF vlan # seen THEN JuniperConvertPublic(seen, vlan)
                ELSE <<>>
<1>1. member \in Vlans
  BY PortTypes DEF JuniperPort
<1>2. a \in Assignments \union {None}
  BY AtWork
<1>3. (Public(a, p) => vlan \in PublicVlans) /\ (~Public(a, p) => vlan \in PlainVlans)
  BY <1>2, VlanOf
<1>4. s # <<>> => s \in ScriptsOf(Plugin(self))
  <2> HIDE DEF member, vlan, a, p
  <2> QED  BY <1>1, <1>3, JuniperLines DEF ScriptsOf, s
<1>5. Judge(self, member = vlan, s, TRUE) \/ Judge(self, member = vlan, s, FALSE)
  BY Zenon DEF JuniperCompare
<1> HIDE DEF s, member, vlan
<1>6. \/ w' = Pass(self, w[self])
      \/ w' = Pass(self, [w[self] EXCEPT !.ok = FALSE])
      \/ s # <<>> /\ w' = Drive(self, s)
  BY <1>5 DEF Judge
<1>7. /\ doubt' \in {doubt, doubt \union {w[self].nic}}
      /\ UNCHANGED <<vendor, assignment, want, cloud, conf, startup, candidate, calls>>
  BY <1>5 DEF Judge, demand, ports
<1> QED  BY <1>4, <1>6, <1>7, VerdictSteers

LEMMA JuniperVerifyLooks ==
  ASSUME TypeOK, NEW self \in Processes, JuniperVerify(self)
  PROVE  Looks(self)
<1>1. /\ AtPort(self) /\ w[self].op = "verify" /\ w[self].nic \in Nics /\ Owns("juniper", w[self].nic)
      /\ Plugin(self) = "juniper"
  BY ReadingAt DEF JuniperVerify, Ops
<1>2. JuniperInterface(conf[w[self].nic]) \in Vlans /\ 0 \in Vlans /\ JuniperMembers(conf[w[self].nic]) \subseteq Vlans
  BY <1>1, PortTypes, VlanNumbers DEF JuniperInterface, JuniperMembers, JuniperPort
<1>3. PICK seen \in Vlans, m \in Vlans :
         (JuniperCompare(self, seen, m, TRUE) \/ JuniperCompare(self, seen, m, FALSE)) /\ ((UNCHANGED faults) \/ Fault)
  BY <1>2, Zenon DEF JuniperVerify
<1> QED  BY <1>1, <1>3, JuniperCompareSteers, FaultCount DEF Looks

LEMMA AristaCompareSteers ==
  ASSUME TypeOK, NEW self \in Processes, w[self].nic \in Nics,
         w[self].op = "verify", Plugin(self) = "arista", NEW seen \in Vlans,
         AristaCompare(self, seen, TRUE) \/ AristaCompare(self, seen, FALSE)
  PROVE  /\ Steers(self) /\ doubt' \in {doubt, doubt \union {w[self].nic}}
         /\ UNCHANGED <<vendor, assignment, want, cloud, conf, startup, candidate, calls>>
<1> DEFINE p == w[self].nic
           a == w[self].will
           vlan == GetVlan(a, p)
           s == IF Public(a, p) THEN AristaConvertPublic(vlan) ELSE AristaSetPort(vlan)
           right == seen = vlan /\ SpeedOk(conf[p])
<1>2. a \in Assignments \union {None}
  BY AtWork
<1>3. (Public(a, p) => vlan \in PublicVlans) /\ (~Public(a, p) => vlan \in PlainVlans)
  BY <1>2, VlanOf
<1>4. s # <<>> => s \in ScriptsOf(Plugin(self))
  <2> HIDE DEF vlan, a, p
  <2> QED  BY <1>3, JuniperLines DEF ScriptsOf, s
<1>5. Judge(self, right, s, TRUE) \/ Judge(self, right, s, FALSE)
  BY Zenon DEF AristaCompare
<1> HIDE DEF s, vlan
<1>6. \/ w' = Pass(self, w[self])
      \/ w' = Pass(self, [w[self] EXCEPT !.ok = FALSE])
      \/ s # <<>> /\ w' = Drive(self, s)
  BY <1>5 DEF Judge
<1>7. /\ doubt' \in {doubt, doubt \union {w[self].nic}}
      /\ UNCHANGED <<vendor, assignment, want, cloud, conf, startup, candidate, calls>>
  BY <1>5 DEF Judge, demand, ports
<1> QED  BY <1>4, <1>6, <1>7, VerdictSteers

LEMMA AristaVerifyLooks ==
  ASSUME TypeOK, NEW self \in Processes, AristaVerify(self)
  PROVE  Looks(self)
<1>1. /\ AtPort(self) /\ w[self].op = "verify" /\ w[self].nic \in Nics /\ Owns("arista", w[self].nic)
      /\ Plugin(self) = "arista"
  BY ReadingAt DEF AristaVerify, Ops
<1>2. AristaVlan(conf[w[self].nic]) \in Vlans /\ 0 \in Vlans
  BY <1>1, PortTypes, VlanNumbers DEF AristaVlan, AristaPort
<1>3. PICK seen \in Vlans :
         (AristaCompare(self, seen, TRUE) \/ AristaCompare(self, seen, FALSE)) /\ ((UNCHANGED faults) \/ Fault)
  BY <1>2, Zenon DEF AristaVerify
<1> QED  BY <1>1, <1>3, AristaCompareSteers, FaultCount DEF Looks

(* What an operator asks for is the VLAN of an ordinary port.              *)
LEMMA AskedVlan ==
  ASSUME Scripted, NEW self \in Processes, w[self].op = "modify"
  PROVE  w[self].ask[2] \in PlainVlans
BY DEF Scripted

LEMMA JuniperModifyLooks ==
  ASSUME TypeOK, Scripted, NEW self \in Processes, JuniperModify(self)
  PROVE  Looks(self)
<1> DEFINE x == w[self]
<1>1. /\ AtPort(self) /\ x.op = "modify" /\ x.nic \in Nics /\ Owns("juniper", x.nic)
      /\ Plugin(self) = "juniper"
  BY ReadingAt DEF JuniperModify, Ops
<1>2. JuniperMembers(conf[x.nic]) \subseteq Vlans /\ 0 \in Vlans
  BY <1>1, PortTypes, VlanNumbers DEF JuniperMembers, JuniperPort
<1>3. PICK m \in {0} \union JuniperMembers(conf[x.nic]) :
        /\ w' = IF Kept(x, m) THEN Pass(self, x) ELSE Drive(self, JuniperSetPort(m, x.ask[2]))
        /\ doubt' \in {doubt, doubt \union {x.nic}}
        /\ (UNCHANGED faults) \/ Fault
  BY DEF JuniperModify
<1>4. JuniperSetPort(m, x.ask[2]) \in ScriptsOf(Plugin(self))
  BY <1>1, <1>2, AskedVlan, JuniperLines DEF ScriptsOf
<1>5. Steers(self)
  <2>1. Eased(x, x) /\ x \in Work
    BY EasedItself, AtWork
  <2> QED  BY <1>3, <1>4, <2>1 DEF Steers
<1>6. UNCHANGED <<vendor, assignment, want, cloud, conf, startup, candidate, calls>>
  BY DEF JuniperModify, demand, ports
<1> QED  BY <1>1, <1>3, <1>5, <1>6, FaultCount DEF Looks

LEMMA AristaModifyLooks ==
  ASSUME TypeOK, Scripted, NEW self \in Processes, AristaModify(self)
  PROVE  Looks(self)
<1> DEFINE x == w[self]
<1>1. /\ AtPort(self) /\ x.op = "modify" /\ x.nic \in Nics /\ Owns("arista", x.nic)
      /\ Plugin(self) = "arista"
  BY ReadingAt DEF AristaModify, Ops
<1>3. PICK seen \in {0, AristaVlan(conf[x.nic])} :
        /\ w' = IF Kept(x, seen) THEN Pass(self, x) ELSE Drive(self, AristaSetPort(x.ask[2]))
        /\ (UNCHANGED faults) \/ Fault
  BY DEF AristaModify
<1>4. AristaSetPort(x.ask[2]) \in ScriptsOf(Plugin(self))
  BY <1>1, AskedVlan, VlanNumbers, JuniperLines DEF ScriptsOf
<1>5. Steers(self)
  <2>1. Eased(x, x) /\ x \in Work
    BY EasedItself, AtWork
  <2> QED  BY <1>3, <1>4, <2>1 DEF Steers
<1>6. UNCHANGED <<vendor, assignment, want, cloud, conf, startup, candidate, calls, doubt>>
  BY DEF AristaModify, demand, ports
<1> QED  BY <1>1, <1>3, <1>5, <1>6, FaultCount DEF Looks

LEMMA LooksStep ==
  ASSUME TypeOK, Scripted, NEW self \in Processes,
         \/ JuniperConfigure(self) \/ AristaConfigure(self)
         \/ JuniperVerify(self) \/ AristaVerify(self)
         \/ JuniperModify(self) \/ AristaModify(self)
  PROVE  Looks(self)
BY JuniperConfigureLooks, AristaConfigureLooks, JuniperVerifyLooks, AristaVerifyLooks,
   JuniperModifyLooks, AristaModifyLooks

----------------------------------------------------------------------------
(* What typed lines do to the ports.                                       *)

Lines(self) == w[self].script
Port(self) == w[self].nic

Edits(self, t, k) ==
  /\ Plugin(self) = "juniper" /\ Lines(self) \in JuniperScripts
  /\ conf' = conf /\ startup' = startup
  /\ k = 0 => candidate' = candidate
  /\ k # 0 => candidate' = Over([conf EXCEPT ![Port(self)] = JuniperEdited(conf[Port(self)], t)], candidate, Juniper)

Commits(self, k) ==
  /\ Plugin(self) = "juniper" /\ IsCommit(Lines(self))
  /\ candidate' = candidate /\ startup' = startup
  /\ k = 0 => conf' = conf
  /\ k # 0 => conf' = Over(candidate, conf, Juniper)

Runs(self, t, k) ==
  /\ Plugin(self) = "arista" /\ Lines(self) \in AristaScripts
  /\ candidate' = candidate
  /\ conf' = [conf EXCEPT ![Port(self)] = AristaEdited(conf[Port(self)], t)]
  /\ startup' \in {startup, Over(startup, conf', Juniper)}
  /\ k = Len(Lines(self)) => startup' = Over(startup, conf', Juniper)

LEMMA TypesWhat ==
  ASSUME TypeOK, Scripted, NEW self \in Processes, w[self].script # <<>>,
         NEW k, NEW t, Typed(t, w[self].script, k), Types(self, t)
  PROVE  /\ Port(self) \in Nics /\ Owns(Plugin(self), Port(self))
         /\ Edits(self, t, k) \/ Commits(self, k) \/ Runs(self, t, k)
<1> DEFINE s == w[self].script
<1>1. Port(self) \in Nics /\ Owns(Plugin(self), Port(self))
  BY DEF TypeOK, Port
<1>2. CASE Plugin(self) = "juniper" /\ s \in JuniperScripts
  <2>1. conf[Port(self)] \in JuniperPort
    BY <1>1, <1>2, PortTypes
  <2>2. (k = 0 => t = <<>>) /\ (k # 0 => t # <<>> /\ t[1].do # "commit")
    BY <1>2, <2>1, JuniperPortAfter
  <2>3. JuniperTypes(Port(self), t)
    BY <1>2 DEF Types, Port
  <2>4. Edits(self, t, k)
    BY <1>2, <2>2, <2>3 DEF Edits, JuniperTypes, Lines
  <2> QED  BY <1>1, <2>4
<1>3. CASE Plugin(self) = "juniper" /\ IsCommit(s)
  <2>1. s \in Seq(Edit) /\ Stretch(s) = 1 /\ Len(s) = 1
    BY <1>3, CommitStretch
  <2>2. k \in 0..1 /\ FirstOf(t, s, k)
    BY <2>1 DEF Typed
  <2>3. (k = 0 <=> t = <<>>) /\ (k = 1 => t[1] = s[1])
    BY <2>1, <2>2, Prefix
  <2>4. k # 0 => t # <<>> /\ t[1].do = "commit"
    BY <1>3, <2>2, <2>3 DEF IsCommit
  <2>5. JuniperTypes(Port(self), t)
    BY <1>3 DEF Types, Port
  <2>6. Commits(self, k)
    BY <1>3, <2>2, <2>3, <2>4, <2>5 DEF Commits, JuniperTypes, Lines
  <2> QED  BY <1>1, <2>6
<1>4. CASE Plugin(self) = "arista" /\ s \in AristaScripts
  <2>1. conf[Port(self)] \in AristaPort
    BY <1>1, <1>4, PortTypes
  <2>2. k = Len(s) => t # <<>> /\ t[Len(t)].do = "save"
    BY <1>4, <2>1, AristaPortAfter
  <2>3. AristaTypes(Port(self), t)
    BY <1>4 DEF Types, Port
  <2>4. Runs(self, t, k)
    BY <1>4, <2>2, <2>3 DEF Runs, AristaTypes, Lines
  <2> QED  BY <1>1, <2>4
<1>5. Plugin(self) \in {"juniper", "arista"}
  BY AtWork
<1> QED  BY <1>2, <1>3, <1>4, <1>5 DEF Scripted, ScriptsOf

LEMMA OverSwitches ==
  ASSUME NEW f \in Switches, NEW g \in Switches, NEW S
  PROVE  Over(f, g, S) \in Switches
BY DEF Over, Switches

LEMMA PortInSwitches ==
  ASSUME NEW f \in Switches, NEW p \in Nics, NEW c,
         Owns("juniper", p) => c \in JuniperPort, Owns("arista", p) => c \in AristaPort,
         Owns("juniper", p) \/ Owns("arista", p)
  PROVE  [f EXCEPT ![p] = c] \in Switches
BY OneOwner DEF Switches

LEMMA TypesKeep ==
  ASSUME TypeOK, Scripted, NEW self \in Processes, w[self].script # <<>>,
         NEW k, NEW t, Typed(t, w[self].script, k), Types(self, t)
  PROVE  {conf', startup', candidate'} \subseteq Switches
<1> DEFINE p == Port(self)
<1>0. /\ conf \in Switches /\ startup \in Switches /\ candidate \in Switches
      /\ p \in Nics /\ Owns(Plugin(self), p)
  BY TypesWhat DEF TypeOK
<1>1. CASE Edits(self, t, k)
  <2> DEFINE d == JuniperEdited(conf[p], t)
  <2>1. d \in JuniperPort
    BY <1>0, <1>1, PortTypes, JuniperPortAfter DEF Edits, Lines
  <2>2. Owns("juniper", p) /\ ~Owns("arista", p)
    BY <1>0, <1>1, OneOwner DEF Edits
  <2> HIDE DEF d
  <2>3. [conf EXCEPT ![p] = d] \in Switches
    BY <1>0, <2>1, <2>2, PortInSwitches
  <2>4. candidate' \in Switches
    BY <1>0, <1>1, <2>3, OverSwitches DEF Edits, d
  <2> QED  BY <1>0, <1>1, <2>4 DEF Edits
<1>2. CASE Commits(self, k)
  BY <1>0, <1>2, OverSwitches DEF Commits
<1>3. CASE Runs(self, t, k)
  <2> DEFINE d == AristaEdited(conf[p], t)
  <2>1. d \in AristaPort
    BY <1>0, <1>3, PortTypes, AristaPortAfter DEF Runs, Lines
  <2>2. Owns("arista", p) /\ ~Owns("juniper", p)
    BY <1>0, <1>3, OneOwner DEF Runs
  <2> HIDE DEF d
  <2>3. [conf EXCEPT ![p] = d] \in Switches
    BY <1>0, <2>1, <2>2, PortInSwitches
  <2>4. conf' \in Switches
    BY <1>3, <2>3 DEF Runs, d
  <2> QED  BY <1>0, <1>3, <2>4, OverSwitches DEF Runs
<1> QED  BY <1>1, <1>2, <1>3, TypesWhat

----------------------------------------------------------------------------
(* Types and scripts are kept by every step.                               *)

(* One process has become y; the other may have been crossed.              *)
Turn(self, y) ==
  /\ w' \in [Processes -> Work] /\ w'[self] = y
  /\ Alike(w[Other(self)], w'[Other(self)])

WellScripted(y) ==
  /\ WorkOK(y)
  /\ y.op = "modify" => y.ask[2] \in PlainVlans
  /\ y.script # <<>> =>
       \/ y.script \in ScriptsOf(Plugins[y.plugin])
       \/ Plugins[y.plugin] = "juniper" /\ IsCommit(y.script)

WorkInv == w \in [Processes -> Work] /\ \A q \in Processes : WellScripted(w[q])

Rest ==
  /\ vendor \in Layouts /\ cloud \in Clouds /\ want \in Clouds
  /\ assignment \in [Clouds -> Assignments \union {None}]
  /\ {conf, startup, candidate} \subseteq Switches
  /\ doubt \subseteq Nics /\ calls \in 0..MaxCalls /\ faults \in 0..MaxFaults

TypeInv == Rest /\ WorkInv

LEMMA TypeInvIs == TypeInv => TypeOK /\ Scripted
BY DEF TypeInv, TypeOK, Scripted, Rest, WorkInv, WellScripted, WorkOK, Busy, Plugin, Ops

LEMMA AlikeScripted ==
  ASSUME NEW x, WellScripted(x), NEW y \in Work, Alike(x, y)
  PROVE  WellScripted(y)
BY AlikeOK DEF WellScripted, Alike

LEMMA TurnKeeps ==
  ASSUME TypeInv, vendor' = vendor, NEW self \in Processes, NEW y, Turn(self, y), WellScripted(y)
  PROVE  WorkInv'
<1>1. \A q \in Processes : WellScripted(w'[q])
  BY TwoProcesses, AlikeScripted DEF TypeInv, WorkInv, Turn
<1> QED  BY <1>1 DEF WorkInv, Turn, WellScripted, WorkOK, Owns

LEMMA PutIsTurn ==
  ASSUME w \in [Processes -> Work], NEW self \in Processes, NEW y \in Work, w' = [w EXCEPT ![self] = y]
  PROVE  Turn(self, y) /\ w'[Other(self)] = w[Other(self)]
BY TwoProcesses DEF Turn, Alike

LEMMA MeddleIsTurn ==
  ASSUME w \in [Processes -> Work], NEW self \in Processes, NEW y \in Work,
         w' = Meddle(self, [w EXCEPT ![self] = y])
  PROVE  Turn(self, y) /\ (Busy(Other(self)) => w'[Other(self)].crossed)
BY Meddled DEF Turn

(* The next NIC, the next plugin, or rest.                                 *)
LEMMA PassedScripted ==
  ASSUME NEW x \in Work, x.op \in Ops, x.op = "modify" => x.ask[2] \in PlainVlans
  PROVE  WellScripted(Passed(x)) /\ Passed(x) \in Work
BY PassedWell, IdleOK DEF WellScripted, WorkOK, MovesOn, Finishes

LEMMA AnsweredScripted ==
  ASSUME NEW x \in Work, x.op \in Ops, x.op = "modify" => x.ask[2] \in PlainVlans
  PROVE  /\ WellScripted(Answered(x, TRUE)) /\ WellScripted(Answered(x, FALSE))
         /\ Answered(x, TRUE) \in Work /\ Answered(x, FALSE) \in Work
<1> DEFINE y == Answered(x, TRUE)
           z == Answered(x, FALSE)
<1>1. /\ WorkOK(y) /\ y.script = <<>>
      /\ MovesOn(x, y, TRUE) \/ Finishes(x, y, TRUE) \/ y = Idle
  BY AnsweredWell
<1>2. /\ WorkOK(z) /\ z.script = <<>>
      /\ (MovesOn(x, z, FALSE) /\ ~z.ok /\ x.op = "verify") \/ z = Idle
  BY AnsweredBadly
<1> HIDE DEF y, z
<1>3. WellScripted(y)
  BY <1>1, IdleOK DEF WellScripted, MovesOn, Finishes
<1>4. WellScripted(z)
  BY <1>2, IdleOK DEF WellScripted, MovesOn
<1> QED  BY <1>1, <1>2, <1>3, <1>4 DEF WorkOK, y, z

LEMMA StretchOf ==
  ASSUME NEW y, WellScripted(y), y.script # <<>>
  PROVE  /\ Stretch(y.script) \in 1..7
         /\ \/ /\ Stretch(y.script) = Len(y.script)
               /\ y.script \notin JuniperScripts \/ Plugins[y.plugin] # "juniper"
            \/ /\ Stretch(y.script) # Len(y.script)
               /\ y.script \in JuniperScripts /\ Plugins[y.plugin] = "juniper"
<1>1. CASE Plugins[y.plugin] = "juniper" /\ y.script \in JuniperScripts
  <2>1. Stretch(y.script) \in 1..5 /\ Len(y.script) = Stretch(y.script) + 1
    BY <1>1, JuniperStretch
  <2> QED  BY <1>1, <2>1
<1>2. CASE Plugins[y.plugin] = "juniper" /\ IsCommit(y.script)
  <2>1. Stretch(y.script) = 1 /\ Len(y.script) = 1
    BY <1>2, CommitStretch
  <2>2. y.script \notin JuniperScripts
    <3>1. y.script[1].do = "commit"
      BY <1>2 DEF IsCommit
    <3> QED  BY <3>1, JuniperStretch
  <2> QED  BY <2>1, <2>2
<1>3. CASE Plugins[y.plugin] # "juniper" /\ y.script \in AristaScripts
  <2>1. Stretch(y.script) = Len(y.script) /\ Len(y.script) \in {6, 7}
    BY <1>3, AristaStretch
  <2> QED  BY <1>3, <2>1
<1> QED  BY <1>1, <1>2, <1>3 DEF WellScripted, ScriptsOf

LEMMA ScriptedNow ==
  ASSUME TypeInv, NEW self \in Processes
  PROVE  /\ w \in [Processes -> Work] /\ WellScripted(w[self]) /\ w[self] \in Work
         /\ w[self].op = "modify" => w[self].ask[2] \in PlainVlans
         /\ Busy(self) <=> w[self].op \in Ops
         /\ w[self].script # <<>> => w[self].nic # 0
         /\ w[self].nic # 0 => w[self].op \in Ops /\ w[self].nic \in Nics /\ Owns(Plugin(self), w[self].nic)
         /\ Idle \in Work /\ WellScripted(Idle)
BY IdleOK DEF TypeInv, WorkInv, WellScripted, WorkOK, Busy, Ops, Plugin

(* The process after it read a port.                                       *)
LEMMA LooksTurn ==
  ASSUME TypeInv, NEW self \in Processes, Looks(self)
  PROVE  \E y : /\ WellScripted(y) /\ Turn(self, y) /\ w'[Other(self)] = w[Other(self)]
                /\ \/ y.script = <<>> /\ \E x \in Work : Eased(w[self], x) /\ y = Passed(x)
                   \/ \E s \in ScriptsOf(Plugin(self)) : y = [w[self] EXCEPT !.script = s] /\ s # <<>>
<1>0. /\ w \in [Processes -> Work] /\ w[self] \in Work /\ w[self].op \in Ops /\ WellScripted(w[self])
      /\ w[self].nic \in Nics /\ w[self].nic # 0 /\ Owns(Plugin(self), w[self].nic)
      /\ w[self].op = "modify" => w[self].ask[2] \in PlainVlans
  BY ScriptedNow, NicNumbers DEF Looks, AtPort
<1>1. CASE \E x \in Work : Eased(w[self], x) /\ w' = Pass(self, x)
  <2>1. PICK x \in Work : Eased(w[self], x) /\ w' = Pass(self, x)
    BY <1>1
  <2>2. w' = [w EXCEPT ![self] = Passed(x)]
    BY <2>1, AnswerIs
  <2>3. x.op \in Ops /\ (x.op = "modify" => x.ask[2] \in PlainVlans)
    BY <1>0, <2>1 DEF Eased
  <2>4. WellScripted(Passed(x)) /\ Passed(x) \in Work /\ Passed(x).script = <<>>
    BY <2>3, PassedScripted, PassedWell
  <2> QED  BY <1>0, <2>1, <2>2, <2>4, PutIsTurn
<1>2. CASE \E s \in ScriptsOf(Plugin(self)) : w' = Drive(self, s)
  <2>1. PICK s \in ScriptsOf(Plugin(self)) : w' = Drive(self, s)
    BY <1>2
  <2> DEFINE y == [w[self] EXCEPT !.script = s]
  <2>2. s \in Seq(Edit) /\ s # <<>>
    BY JuniperStretch, AristaStretch DEF ScriptsOf
  <2>3. y \in Work
    BY <1>0, <2>2, WorkScript
  <2>4. w' = [w EXCEPT ![self] = y]
    BY <1>0, <2>1 DEF Drive
  <2>5. y.script = s /\ y.op = w[self].op /\ y.nic = w[self].nic /\ y.plugin = w[self].plugin /\ y.ask = w[self].ask
    BY <1>0 DEF Work
  <2> HIDE DEF y
  <2>6. WellScripted(y)
    BY <1>0, <2>1, <2>3, <2>5 DEF WellScripted, WorkOK, Plugin
  <2>7. Turn(self, y) /\ w'[Other(self)] = w[Other(self)]
    BY <1>0, <2>3, <2>4, PutIsTurn
  <2> QED  BY <2>1, <2>2, <2>6, <2>7 DEF y
<1> QED  BY <1>1, <1>2 DEF Looks, Steers

LEMMA LooksType ==
  ASSUME TypeInv, NEW self \in Processes, Looks(self)
  PROVE  TypeInv'
<1>1. Rest'
  BY DEF TypeInv, Rest, Looks, AtPort, Switches, Owns
<1>2. vendor' = vendor
  BY DEF Looks
<1>3. PICK y : WellScripted(y) /\ Turn(self, y)
  BY LooksTurn
<1> QED  BY <1>1, <1>2, <1>3, TurnKeeps DEF TypeInv

(* The process after a stretch of lines: they are done, or a commit is to  *)
(* follow.                                                                 *)
LEMMA TypeTurn ==
  ASSUME TypeInv, NEW self \in Processes, Type(self)
  PROVE  \E y, k, t :
           /\ WellScripted(y) /\ Turn(self, y) /\ (Busy(Other(self)) => w'[Other(self)].crossed)
           /\ k # 0 /\ k = Stretch(w[self].script) /\ Typed(t, w[self].script, k) /\ Types(self, t)
           /\ \/ /\ w[self].script \in JuniperScripts /\ Plugin(self) = "juniper"
                 /\ \E s : IsCommit(s) /\ y = [w[self] EXCEPT !.script = s]
              \/ /\ w[self].script \notin JuniperScripts \/ Plugin(self) # "juniper"
                 /\ k = Len(w[self].script) /\ y = Passed(w[self])
<1> DEFINE x == w[self]
           k == Stretch(x.script)
           t == SubSeq(x.script, 1, k)
<1>0. /\ w \in [Processes -> Work] /\ x \in Work /\ x.op \in Ops /\ WellScripted(x)
      /\ x.script # <<>> /\ x.nic # 0 /\ x.nic \in Nics
      /\ x.op = "modify" => x.ask[2] \in PlainVlans
  BY ScriptedNow DEF Type
<1>1. /\ Types(self, t)
      /\ w' = Meddle(self, IF k = Len(x.script) THEN Pass(self, x)
                            ELSE [w EXCEPT ![self].script = SubSeq(@, k + 1, Len(@))])
  BY DEF Type
<1>2. /\ k \in 1..7 /\ Plugin(self) = Plugins[x.plugin]
      /\ \/ k = Len(x.script) /\ (x.script \notin JuniperScripts \/ Plugin(self) # "juniper")
         \/ k # Len(x.script) /\ x.script \in JuniperScripts /\ Plugin(self) = "juniper"
  BY <1>0, StretchOf DEF Plugin
<1>t. Typed(t, x.script, k)
  BY <1>2 DEF Typed, FirstOf
<1>k. k = Stretch(x.script)
  OBVIOUS
<1> HIDE DEF k
<1>3. CASE k = Len(x.script)
  <2>1. w' = Meddle(self, [w EXCEPT ![self] = Passed(x)])
    BY <1>1, <1>3, AnswerIs
  <2>2. WellScripted(Passed(x)) /\ Passed(x) \in Work
    BY <1>0, PassedScripted
  <2>3. Turn(self, Passed(x)) /\ (Busy(Other(self)) => w'[Other(self)].crossed)
    BY <1>0, <2>1, <2>2, MeddleIsTurn
  <2>4. k # 0
    BY <1>2
  <2>6. x.script \notin JuniperScripts \/ Plugin(self) # "juniper"
    BY <1>2, <1>3, Zenon
  <2> HIDE DEF t
  <2>5. WITNESS Passed(x), k, t
  <2> QED  BY <1>1, <1>3, <1>k, <1>t, <2>2, <2>3, <2>4, <2>6
<1>4. CASE k # Len(x.script)
  <2> DEFINE s == SubSeq(x.script, k + 1, Len(x.script))
             y == [x EXCEPT !.script = s]
  <2>1. x.script \in JuniperScripts /\ Plugin(self) = "juniper" /\ k # 0
    BY <1>2, <1>4
  <2>2. IsCommit(s)
    BY <2>1, JuniperStretch DEF k
  <2>3. s \in Seq(Edit)
    BY <2>2 DEF IsCommit
  <2>4. w' = Meddle(self, [w EXCEPT ![self] = y])
    BY <1>0, <1>1, <1>4
  <2> HIDE DEF s
  <2>5. y \in Work
    BY <1>0, <2>3, WorkScript
  <2>6. y.script = s /\ y.op = x.op /\ y.nic = x.nic /\ y.plugin = x.plugin /\ y.ask = x.ask
    BY <1>0 DEF Work
  <2>7. WellScripted(y)
    <3> HIDE DEF y, t
    <3> QED  BY <1>0, <2>1, <2>2, <2>5, <2>6 DEF WellScripted, WorkOK, Plugin
  <2>8. Turn(self, y) /\ (Busy(Other(self)) => w'[Other(self)].crossed)
    BY <1>0, <2>4, <2>5, MeddleIsTurn
  <2> HIDE DEF t
  <2>9. \E z : IsCommit(z) /\ y = [x EXCEPT !.script = z]
    BY <2>2
  <2> HIDE DEF y
  <2>10. WITNESS y, k, t
  <2> QED  BY <1>1, <1>k, <1>t, <2>1, <2>7, <2>8, <2>9
<1> QED  BY <1>3, <1>4

LEMMA RefusedTurn ==
  ASSUME TypeInv, NEW self \in Processes, Refused(self)
  PROVE  \E y, k, t :
           /\ WellScripted(y) /\ Turn(self, y) /\ (Busy(Other(self)) => w'[Other(self)].crossed)
           /\ y.script = <<>> /\ y.op # "done" /\ ~y.ok
           /\ y.op = "verify" => w[self].op = "verify" /\ y.passed = w[self].passed
           /\ w[self].script # <<>> /\ Typed(t, w[self].script, k) /\ Types(self, t)
<1> DEFINE x == w[self]
<1>0. /\ w \in [Processes -> Work] /\ x \in Work /\ x.op \in Ops /\ x.script # <<>>
      /\ x.op = "modify" => x.ask[2] \in PlainVlans
  BY ScriptedNow DEF Refused
<1>1. PICK k \in 0..Stretch(x.script) : Types(self, SubSeq(x.script, 1, k))
  BY DEF Refused
<1>2. Typed(SubSeq(x.script, 1, k), x.script, k)
  BY <1>1 DEF Typed, FirstOf
<1>3. CASE x.op = "configure"
  <2>1. w' = Meddle(self, [w EXCEPT ![self] = Answered(x, FALSE)])
    BY <1>3, AnswerIs DEF Refused
  <2>2. WellScripted(Answered(x, FALSE)) /\ Answered(x, FALSE) \in Work /\ Answered(x, FALSE).script = <<>>
    BY <1>0, AnsweredScripted, AnsweredBadly
  <2>3. Answered(x, FALSE).op # "done" /\ ~Answered(x, FALSE).ok /\ Answered(x, FALSE).op # "verify"
    BY <1>0, <1>3, AnsweredBadly, IdleOK
  <2> QED  BY <1>0, <1>1, <1>2, <2>1, <2>2, <2>3, MeddleIsTurn
<1>4. CASE x.op # "configure"
  <2> DEFINE z == [x EXCEPT !.ok = FALSE]
  <2>1. z \in Work
    BY <1>0, WorkFlag
  <2>2. z.op = x.op /\ z.ask = x.ask /\ ~z.ok /\ z.passed = x.passed
    BY <1>0 DEF Work
  <2>3. w' = Meddle(self, [w EXCEPT ![self] = Passed(z)])
    BY <1>4, AnswerIs DEF Refused
  <2> HIDE DEF z
  <2>4. WellScripted(Passed(z)) /\ Passed(z) \in Work /\ Passed(z).script = <<>>
    BY <1>0, <2>1, <2>2, PassedScripted, PassedWell
  <2>5. Passed(z).op # "done" /\ ~Passed(z).ok /\ (Passed(z).op = "verify" => x.op = "verify" /\ Passed(z).passed = x.passed)
    <3> DEFINE y == Passed(z)
    <3>1. z.op \in Ops /\ z.op # "done"
      BY <1>0, <2>2 DEF Ops
    <3>2. \/ y.op = z.op /\ y.passed = z.passed /\ y.ok = z.ok
          \/ MovesOn(z, y, TRUE) \/ Finishes(z, y, TRUE) \/ y = Idle
      BY <2>1, <3>1, PassedWell
    <3> HIDE DEF y
    <3>3. CASE y.op = z.op /\ y.passed = z.passed /\ y.ok = z.ok
      BY <2>2, <3>1, <3>3 DEF y
    <3>4. CASE MovesOn(z, y, TRUE)
      BY <2>2, <3>1, <3>4 DEF y, MovesOn
    <3>5. CASE Finishes(z, y, TRUE)
      BY <2>2, <3>5 DEF Finishes
    <3>6. CASE y = Idle
      BY <3>6, IdleOK DEF y
    <3> QED  BY <3>2, <3>3, <3>4, <3>5, <3>6
  <2> QED  BY <1>0, <1>1, <1>2, <2>3, <2>4, <2>5, MeddleIsTurn
<1> QED  BY <1>3, <1>4

LEMMA MoverStarts ==
  ASSUME NEW new \in Clouds, NEW y, y = [Idle EXCEPT !.op = "configure", !.new = new, !.ok = TRUE]
  PROVE  /\ WellScripted(y) /\ y \in Work /\ y.script = <<>> /\ y.nic = 0 /\ y.op = "configure" /\ y.ok
         /\ y.plugin = 1 /\ y.passed = {}
<1>1. y \in Work
  BY IdleOK DEF Work
<1>2. /\ y.script = <<>> /\ y.nic = 0 /\ y.op = "configure" /\ y.ok /\ y.plugin = 1 /\ y.passed = {}
  BY DEF Idle
<1> QED  BY <1>1, <1>2 DEF WellScripted, WorkOK

(* A step of a process that types nothing: what it has become.             *)
Still == UNCHANGED <<vendor, conf, startup, candidate, doubt>>

LEMMA MoveHostTurn ==
  ASSUME TypeInv, MoveHost
  PROVE  \E y : /\ WellScripted(y) /\ Turn("mover", y) /\ y.script = <<>> /\ Still /\ Rest'
                /\ w'["operator"] = w["operator"] /\ UNCHANGED <<assignment, cloud, faults>>
                /\ y.nic = 0 /\ y.op = "configure" /\ y.ok /\ y.plugin = 1 /\ y.passed = {}
<1> DEFINE y == [Idle EXCEPT !.op = "configure", !.new = want, !.ok = TRUE]
<1>0. want \in Clouds
  BY DEF TypeInv, Rest
<1>1. w' = [w EXCEPT !["mover"] = y]
  BY DEF MoveHost
<1>3. /\ WellScripted(y) /\ y \in Work /\ y.script = <<>> /\ y.nic = 0 /\ y.op = "configure" /\ y.ok
      /\ y.plugin = 1 /\ y.passed = {}
  BY <1>0, MoverStarts
<1> HIDE DEF y
<1>4. Turn("mover", y) /\ w'["operator"] = w["operator"]
  BY <1>1, <1>3, PutIsTurn DEF TypeInv, WorkInv, Processes, Other
<1>5. Rest' /\ Still /\ UNCHANGED <<assignment, cloud, faults>>
  BY DEF TypeInv, Rest, Still, MoveHost, demand, ports, Switches, Owns
<1> QED  BY <1>3, <1>4, <1>5

LEMMA CommandTurn ==
  ASSUME TypeInv, VerifySwitchConf \/ ModSwitchConf
  PROVE  \E y : /\ WellScripted(y) /\ Turn("operator", y) /\ y.script = <<>> /\ Still /\ Rest'
                /\ w'["mover"] = w["mover"] /\ UNCHANGED <<assignment, cloud, faults>>
                /\ y.nic = 0 /\ y.op \in {"verify", "modify"} /\ y.ok /\ y.plugin = 1 /\ y.passed = {}
<1>1. PICK op \in {"verify", "modify"}, change \in BOOLEAN, ask \in Nics \X Vlans :
        Command(op, change, ask) /\ (op = "modify" => ask[2] \in PlainVlans)
  <2>1. CASE VerifySwitchConf
    BY <2>1, NicNumbers, VlanNumbers DEF VerifySwitchConf
  <2>2. CASE ModSwitchConf
    <3>1. PICK change \in BOOLEAN, ask \in Asked : Command("modify", change, ask)
      BY <2>2 DEF ModSwitchConf
    <3>2. ask[2] \in PlainVlans
      BY DEF PlainVlans
    <3>3. ask \in Nics \X Vlans
      BY <3>2, VlanNumbers, SwitchAssumption DEF SwitchAssumption
    <3> QED  BY <3>1, <3>2, <3>3
  <2> QED  BY <2>1, <2>2
<1> DEFINE y == [Idle EXCEPT !.op = op, !.change = change, !.ask = ask, !.ok = TRUE]
<1>2. w' = [w EXCEPT !["operator"] = y]
  BY <1>1 DEF Command
<1>4. /\ WellScripted(y) /\ y \in Work /\ y.script = <<>> /\ y.nic = 0 /\ y.op = op /\ y.ok
      /\ y.plugin = 1 /\ y.passed = {}
  <2>1. y = [Idle EXCEPT !.op = op, !.change = change, !.ask = ask, !.ok = TRUE]
    OBVIOUS
  <2> HIDE DEF y
  <2>2. op = "modify" => ask[2] \in PlainVlans
    BY <1>1
  <2>3. y \in Work
    BY <2>1, IdleOK DEF Work
  <2>4. /\ y.script = <<>> /\ y.nic = 0 /\ y.op = op /\ y.ok /\ y.plugin = 1 /\ y.passed = {} /\ y.ask = ask
    BY <2>1 DEF Idle
  <2> QED  BY <2>2, <2>3, <2>4 DEF WellScripted, WorkOK
<1> HIDE DEF y
<1>5. Turn("operator", y) /\ w'["mover"] = w["mover"]
  BY <1>2, <1>4, PutIsTurn DEF TypeInv, WorkInv, Processes, Other
<1>6. Rest' /\ Still /\ UNCHANGED <<assignment, cloud, faults>>
  BY <1>1, SwitchAssumption, SMTT(30) DEF TypeInv, Rest, Still, Command, demand, ports, Switches, Owns, SwitchAssumption
<1> QED  BY <1>1, <1>4, <1>5, <1>6

LEMMA LandTurn ==
  ASSUME TypeInv, Land
  PROVE  /\ WellScripted(Idle) /\ Turn("mover", Idle) /\ Still /\ Rest'
         /\ Busy("operator") => w'["operator"].crossed
         /\ UNCHANGED <<assignment, faults>>
<1>1. w' = Meddle("mover", [w EXCEPT !["mover"] = Idle]) /\ "mover" \in Processes /\ Other("mover") = "operator"
  BY DEF Land, Processes, Other
<1>2. WellScripted(Idle) /\ Idle \in Work
  BY <1>1, ScriptedNow
<1>3. Turn("mover", Idle) /\ (Busy("operator") => w'["operator"].crossed)
  BY <1>1, <1>2, MeddleIsTurn DEF TypeInv, WorkInv
<1>4. w["mover"].new \in Clouds
  BY <1>1, TypeInvIs, AtWork
<1>5. Rest' /\ Still /\ UNCHANGED <<assignment, faults>>
  BY <1>4 DEF TypeInv, Rest, Still, Land, demand, ports, Switches, Owns
<1> QED  BY <1>2, <1>3, <1>5

(* A plugin begins: it has refused, or has nothing to do here, or the      *)
(* first of its NICs is in hand.                                           *)
LEMMA BeginTurn ==
  ASSUME TypeInv, NEW self \in Processes, Begin(self)
  PROVE  \E y : /\ WellScripted(y) /\ Turn(self, y) /\ y.script = <<>> /\ Still /\ Rest'
                /\ w'[Other(self)] = w[Other(self)] /\ UNCHANGED <<assignment, cloud, faults>>
                /\ w[self].nic = 0 /\ w[self].op \in Ops /\ w[self].script = <<>>
                /\ \/ y = Answered(w[self], FALSE)
                   \/ y = Answered(w[self], TRUE) /\ \A p \in Nics : ~Owns(Plugin(self), p)
                   \/ /\ y.nic # 0 /\ \A p \in Nics : Owns(Plugin(self), p) => y.nic <= p
                      /\ y.plugin = w[self].plugin /\ y.op = w[self].op /\ y.new = w[self].new
                      /\ y.ok = w[self].ok /\ y.passed = w[self].passed /\ y.crossed = w[self].crossed
                      /\ y.op \in {"configure", "verify"} => y.will = Target(y)
                      /\ y.op = "verify" => y.will # None
<1> DEFINE x == w[self]
           n == NextOwned(Plugin(self), 1)
           will == assignment[IF x.op = "configure" THEN x.new ELSE cloud]
           was == IF x.op = "configure" THEN assignment[cloud] ELSE None
           now == IF x.op = "modify" THEN None ELSE will
           y == [x EXCEPT !.nic = n, !.was = was, !.will = now]
<1>0. /\ w \in [Processes -> Work] /\ x \in Work /\ WellScripted(x) /\ x.op \in Ops /\ x.nic = 0 /\ x.script = <<>>
      /\ x.op = "modify" => x.ask[2] \in PlainVlans
  BY ScriptedNow DEF Begin
<1>1. Rest' /\ Still /\ UNCHANGED <<assignment, cloud, faults>>
  BY DEF TypeInv, Rest, Still, Begin, demand, ports, Switches, Owns
<1>2. /\ WellScripted(Answered(x, TRUE)) /\ Answered(x, TRUE) \in Work /\ Answered(x, TRUE).script = <<>>
      /\ WellScripted(Answered(x, FALSE)) /\ Answered(x, FALSE) \in Work /\ Answered(x, FALSE).script = <<>>
  BY <1>0, AnsweredScripted, AnsweredWell, AnsweredBadly
<1>3. /\ n \in Nat /\ n # 0
      /\ n \in Nics => Owns(Plugin(self), n)
      /\ \A p \in Nics : Owns(Plugin(self), p) => n \in Nics /\ n <= p
  <2>1. /\ n \in Nat /\ n # 0
        /\ n \in Nics => Owns(Plugin(self), n)
        /\ \A p \in Nics : Owns(Plugin(self), p) /\ 1 <= p => n \in Nics /\ n <= p
    BY NextNic
  <2> HIDE DEF n
  <2> QED  BY <2>1, NicNumbers
<1>4. will \in Assignments \union {None} /\ was \in Assignments \union {None} /\ now \in Assignments \union {None}
  <2>1. x.new \in Clouds /\ cloud \in Clouds /\ assignment \in [Clouds -> Assignments \union {None}]
    BY <1>0 DEF Work, TypeInv, Rest
  <2> QED  BY <2>1
<1>5. CASE w' = Answer(self, x, FALSE)
  <2>1. Turn(self, Answered(x, FALSE)) /\ w'[Other(self)] = w[Other(self)]
    BY <1>0, <1>2, <1>5, AnswerIs, PutIsTurn
  <2> QED  BY <1>0, <1>1, <1>2, <2>1
<1>6. CASE w' = Answer(self, x, TRUE) /\ n \notin Nics
  <2>1. Turn(self, Answered(x, TRUE)) /\ w'[Other(self)] = w[Other(self)]
    BY <1>0, <1>2, <1>6, AnswerIs, PutIsTurn, ZenonT(40)
  <2>2. \A p \in Nics : ~Owns(Plugin(self), p)
    BY <1>3, <1>6
  <2> QED  BY <1>0, <1>1, <1>2, <2>1, <2>2
<1>7. CASE /\ n \in Nics /\ ~(x.op = "verify" /\ will = None)
           /\ w' = [w EXCEPT ![self].nic = n, ![self].was = was, ![self].will = now]
  <2>1. w' = [w EXCEPT ![self] = y]
    BY <1>0, <1>7
  <2>2. /\ y \in Work /\ y.nic = n /\ y.was = was /\ y.will = now /\ y.op = x.op /\ y.new = x.new /\ y.ask = x.ask
        /\ y.plugin = x.plugin /\ y.ok = x.ok /\ y.script = x.script /\ y.passed = x.passed
        /\ y.crossed = x.crossed
    <3>1. n \in Nat
      BY <1>3
    <3> HIDE DEF n, was, now, y
    <3>2. y = [x EXCEPT !.nic = n, !.was = was, !.will = now]
      BY DEF y
    <3>3. x \in Work
      BY <1>0
    <3> HIDE DEF x
    <3>4. was \in Assignments \union {None} /\ now \in Assignments \union {None}
      BY <1>4
    <3> QED  BY <3>1, <3>2, <3>3, <3>4 DEF Work
  <2>3. Turn(self, y) /\ w'[Other(self)] = w[Other(self)]
    <3> HIDE DEF y
    <3> QED  BY <1>0, <2>1, <2>2, PutIsTurn
  <2>4. /\ y.op \in {"configure", "verify"} => y.will = Target(y)
        /\ y.op = "verify" => y.will # None
    <3> HIDE DEF y
    <3> QED  BY <1>0, <1>7, <2>2 DEF Target, Ops
  <2> HIDE DEF y
  <2>5. WellScripted(y)
    <3> HIDE DEF n
    <3> QED  BY <1>0, <1>3, <1>7, <2>2 DEF WellScripted, WorkOK, Plugin
  <2>6. /\ y.nic # 0 /\ \A p \in Nics : Owns(Plugin(self), p) => y.nic <= p
    <3> HIDE DEF n
    <3> QED  BY <1>3, <2>2
  <2>7. y.script = <<>>
    BY <1>0, <2>2
  <2> HIDE DEF n, will, was, now
  <2> QED  BY <1>0, <1>1, <2>2, <2>3, <2>4, <2>5, <2>6, <2>7
<1>8. \/ w' = Answer(self, x, FALSE)
      \/ w' = Answer(self, x, TRUE) /\ n \notin Nics
      \/ /\ n \in Nics /\ ~(x.op = "verify" /\ will = None)
         /\ w' = [w EXCEPT ![self].nic = n, ![self].was = was, ![self].will = now]
  BY Zenon DEF Begin
<1> QED  BY <1>5, <1>6, <1>7, <1>8

(* The switch does not answer, or the process dies: at rest, or, verifying,*)
(* with the next plugin and a bad answer.                                  *)
LEMMA FailTurn ==
  ASSUME TypeInv, NEW self \in Processes, Die(self) \/ \E op \in Ops : Raise(self, op)
  PROVE  \E y : /\ WellScripted(y) /\ Turn(self, y) /\ y.script = <<>> /\ Still /\ Rest'
                /\ w'[Other(self)] = w[Other(self)] /\ UNCHANGED <<assignment, cloud>>
                /\ y.op # "done" /\ ~y.ok /\ faults' = faults + 1
                /\ y.op = "verify" => w[self].op = "verify" /\ y.passed = w[self].passed
                /\ y.op # "configure"
<1> DEFINE x == w[self]
<1>0. /\ w \in [Processes -> Work] /\ x \in Work /\ WellScripted(x)
      /\ x.op = "modify" => x.ask[2] \in PlainVlans
      /\ Idle \in Work /\ WellScripted(Idle)
  BY ScriptedNow
<1>1. Rest' /\ Still /\ UNCHANGED <<assignment, cloud>> /\ faults' = faults + 1
  <2>1. faults' \in 0..MaxFaults /\ faults' = faults + 1
    <3>1. Fault
      BY DEF Die, Raise
    <3> QED  BY <3>1, SwitchAssumption DEF TypeInv, Rest, Fault, SwitchAssumption
  <2>2. UNCHANGED <<vendor, assignment, want, cloud, conf, startup, candidate, doubt, calls>>
    BY DEF Die, Raise, demand, ports
  <2> QED  BY <2>1, <2>2 DEF TypeInv, Rest, Still, Switches, Owns
<1>2. CASE Die(self)
  <2>1. w' = [w EXCEPT ![self] = Idle]
    BY <1>2 DEF Die
  <2>2. Turn(self, Idle) /\ w'[Other(self)] = w[Other(self)]
    BY <1>0, <2>1, PutIsTurn
  <2> QED  BY <1>0, <1>1, <2>2, IdleOK
<1>3. CASE \E op \in Ops : Raise(self, op)
  <2> DEFINE y == Answered(x, FALSE)
  <2>0. x.op \in Ops /\ w' = Answer(self, x, FALSE)
    BY <1>3 DEF Raise
  <2>1. w' = [w EXCEPT ![self] = y]
    BY <2>0, AnswerIs
  <2>2. /\ WellScripted(y) /\ y \in Work /\ y.script = <<>>
        /\ (MovesOn(x, y, FALSE) /\ ~y.ok /\ x.op = "verify") \/ y = Idle
    BY <1>0, <2>0, AnsweredScripted, AnsweredBadly
  <2> HIDE DEF y
  <2>3. Turn(self, y) /\ w'[Other(self)] = w[Other(self)]
    BY <1>0, <2>1, <2>2, PutIsTurn
  <2>4. y.op # "done" /\ ~y.ok /\ (y.op = "verify" => x.op = "verify" /\ y.passed = x.passed) /\ y.op # "configure"
    BY <2>2, IdleOK DEF MovesOn
  <2> QED  BY <1>1, <2>2, <2>3, <2>4
<1> QED  BY <1>2, <1>3

(* Whatever is assigned or closed, and a restart of a switch.              *)
LEMMA CloudsTurn ==
  ASSUME TypeInv, NEW c \in Clouds, Assign(c) \/ Close(c)
  PROVE  /\ w' \in [Processes -> Work] /\ \A q \in Processes : Alike(w[q], w'[q]) /\ (Busy(q) => w'[q].crossed)
         /\ Still /\ Rest' /\ UNCHANGED faults
<1>1. w \in [Processes -> Work] /\ w' = Cross(w)
  BY DEF TypeInv, WorkInv, Assign, Close
<1>2. /\ Still /\ UNCHANGED <<cloud, calls, faults>>
  BY DEF Assign, Close, Still, ports
<1>3. want' \in Clouds
  BY SwitchAssumption DEF Assign, Close, TypeInv, Rest, SwitchAssumption
<1>4. assignment' \in [Clouds -> Assignments \union {None}]
  <2>1. CASE Assign(c)
    <3>1. PICK o \in Offers[c] : assignment' = [assignment EXCEPT ![c] = [cloud |-> c, qinq |-> o.qinq, vlan |-> o.vlan]]
      BY <2>1 DEF Assign
    <3>2. [cloud |-> c, qinq |-> o.qinq, vlan |-> o.vlan] \in Assignments
      BY DEF Assignments
    <3> QED  BY <3>1, <3>2 DEF TypeInv, Rest
  <2>2. CASE Close(c)
    BY <2>2 DEF Close, TypeInv, Rest
  <2> QED  BY <2>1, <2>2
<1>5. Rest'
  BY <1>2, <1>3, <1>4 DEF Still, TypeInv, Rest, Switches, Owns
<1> QED  BY <1>1, <1>2, <1>5, Crossed

LEMMA RebootTurn ==
  ASSUME TypeInv, Reboot
  PROVE  /\ w' \in [Processes -> Work] /\ \A q \in Processes : Alike(w[q], w'[q]) /\ (Busy(q) => w'[q].crossed)
         /\ UNCHANGED <<vendor, assignment, want, cloud, startup, candidate, doubt, calls>> /\ Rest'
         /\ conf' = [p \in Nics |-> IF Owns("arista", p) THEN startup[p] ELSE conf[p]]
         /\ faults' = faults + 1
<1>1. w \in [Processes -> Work] /\ w' = Cross(w)
  BY DEF TypeInv, WorkInv, Reboot
<1>2. /\ UNCHANGED <<vendor, assignment, want, cloud, startup, candidate, doubt, calls>>
      /\ conf' = [p \in Nics |-> IF Owns("arista", p) THEN startup[p] ELSE conf[p]]
      /\ faults' = faults + 1
  BY DEF Reboot, Fault, demand
<1>3. conf' \in Switches
  BY <1>2 DEF TypeInv, Rest, Switches, Owns
<1>4. faults' \in 0..MaxFaults
  BY SwitchAssumption DEF Reboot, Fault, TypeInv, Rest, SwitchAssumption
<1>5. Rest'
  BY <1>2, <1>3, <1>4 DEF TypeInv, Rest, Switches, Owns
<1> QED  BY <1>1, <1>2, <1>5, Crossed

----------------------------------------------------------------------------
(* Every step is one of these.                                             *)

Quiet(self) ==
  /\ Still /\ Rest' /\ faults' \in {faults, faults + 1}
  /\ \E y : WellScripted(y) /\ Turn(self, y) /\ y.script = <<>>

Typing(self) ==
  /\ w[self].script # <<>> /\ vendor' = vendor /\ faults' \in {faults, faults + 1}
  /\ doubt' = IF Overlaps(self) THEN doubt \union {w[self].nic, w[Other(self)].nic} ELSE doubt
  /\ \E y, k, t :
       /\ WellScripted(y) /\ Turn(self, y)
       /\ Typed(t, w[self].script, k) /\ Types(self, t)
       /\ faults' = faults /\ Plugin(self) = "arista" => k = Len(w[self].script)
       /\ \/ y.script = <<>>
          \/ /\ w[self].script \in JuniperScripts /\ Plugin(self) = "juniper" /\ k = Stretch(w[self].script)
             /\ \E s : IsCommit(s) /\ y = [w[self] EXCEPT !.script = s]

Shift ==
  /\ UNCHANGED <<vendor, startup, candidate, doubt>> /\ Rest'
  /\ w' \in [Processes -> Work] /\ \A q \in Processes : Alike(w[q], w'[q]) /\ (Busy(q) => w'[q].crossed)
  /\ \/ conf' = conf /\ faults' = faults
     \/ /\ faults' = faults + 1
        /\ \A p \in Nics : conf'[p] = conf[p] \/ (Owns("arista", p) /\ conf'[p] = startup[p])

LEMMA QuietStep ==
  ASSUME TypeInv,
         \/ MoveHost \/ Land \/ VerifySwitchConf \/ ModSwitchConf
         \/ \E self \in Processes : Begin(self) \/ Die(self) \/ \E op \in Ops : Raise(self, op)
  PROVE  \E self \in Processes : Quiet(self)
<1>0. "mover" \in Processes /\ "operator" \in Processes
  BY DEF Processes
<1>1. CASE MoveHost
  BY <1>0, <1>1, MoveHostTurn DEF Quiet
<1>2. CASE Land
  BY <1>0, <1>2, LandTurn, IdleOK DEF Quiet
<1>3. CASE VerifySwitchConf \/ ModSwitchConf
  BY <1>0, <1>3, CommandTurn DEF Quiet
<1>4. CASE \E self \in Processes : Begin(self)
  BY <1>4, BeginTurn, ZenonT(40) DEF Quiet
<1>5. CASE \E self \in Processes : Die(self) \/ \E op \in Ops : Raise(self, op)
  BY <1>5, FailTurn DEF Quiet
<1> QED  BY <1>1, <1>2, <1>3, <1>4, <1>5

LEMMA TypingStep ==
  ASSUME TypeInv, NEW self \in Processes, Type(self) \/ Refused(self)
  PROVE  Typing(self) /\ UNCHANGED <<assignment, want, cloud, calls>> /\ faults' \in 0..MaxFaults
<1>1. CASE Type(self)
  <2>1. /\ w[self].script # <<>> /\ vendor' = vendor /\ faults' = faults
        /\ doubt' = IF Overlaps(self) THEN doubt \union {w[self].nic, w[Other(self)].nic} ELSE doubt
        /\ UNCHANGED <<assignment, want, cloud, calls>>
    BY <1>1 DEF Type, demand
  <2>2. PICK y, k, t :
           /\ WellScripted(y) /\ Turn(self, y)
           /\ k # 0 /\ k = Stretch(w[self].script) /\ Typed(t, w[self].script, k) /\ Types(self, t)
           /\ \/ /\ w[self].script \in JuniperScripts /\ Plugin(self) = "juniper"
                 /\ \E s : IsCommit(s) /\ y = [w[self] EXCEPT !.script = s]
              \/ /\ w[self].script \notin JuniperScripts \/ Plugin(self) # "juniper"
                 /\ k = Len(w[self].script) /\ y = Passed(w[self])
    BY <1>1, TypeTurn
  <2>3. w[self] \in Work /\ w[self].op \in Ops
    BY <1>1, ScriptedNow DEF Type
  <2>4. Passed(w[self]).script = <<>>
    BY <2>3, PassedWell
  <2>5. Plugin(self) = "arista" => k = Len(w[self].script)
    BY <2>2
  <2>6. faults' \in 0..MaxFaults
    BY <2>1 DEF TypeInv, Rest
  <2> QED  BY <2>1, <2>2, <2>4, <2>5, <2>6 DEF Typing
<1>2. CASE Refused(self)
  <2>1. /\ w[self].script # <<>> /\ vendor' = vendor /\ faults' = faults + 1 /\ faults' \in 0..MaxFaults
        /\ doubt' = IF Overlaps(self) THEN doubt \union {w[self].nic, w[Other(self)].nic} ELSE doubt
        /\ UNCHANGED <<assignment, want, cloud, calls>>
    BY <1>2, SwitchAssumption DEF Refused, demand, Fault, TypeInv, Rest, SwitchAssumption
  <2>2. PICK y, k, t :
           /\ WellScripted(y) /\ Turn(self, y) /\ y.script = <<>>
           /\ Typed(t, w[self].script, k) /\ Types(self, t)
    BY <1>2, RefusedTurn
  <2>3. faults' # faults
    BY <2>1 DEF TypeInv, Rest
  <2> QED  BY <2>1, <2>2, <2>3 DEF Typing
<1> QED  BY <1>1, <1>2

LEMMA ShiftStep ==
  ASSUME TypeInv, Reboot \/ \E c \in Clouds : Assign(c) \/ Close(c)
  PROVE  Shift
<1>1. CASE Reboot
  BY <1>1, RebootTurn, OneOwner DEF Shift
<1>2. CASE \E c \in Clouds : Assign(c) \/ Close(c)
  BY <1>2, CloudsTurn DEF Shift, Still
<1> QED  BY <1>1, <1>2

LEMMA StepCases ==
  ASSUME TypeInv, Next
  PROVE  \/ \E self \in Processes : Quiet(self)
         \/ \E self \in Processes : Typing(self) /\ UNCHANGED <<assignment, want, cloud, calls>> /\ faults' \in 0..MaxFaults
         \/ \E self \in Processes : \/ JuniperConfigure(self) \/ AristaConfigure(self)
                                    \/ JuniperVerify(self) \/ AristaVerify(self)
                                    \/ JuniperModify(self) \/ AristaModify(self)
         \/ Shift
<1>1. CASE MoveHost \/ Land \/ VerifySwitchConf \/ ModSwitchConf
  BY <1>1, QuietStep
<1>2. ASSUME NEW self \in Processes, Step(self) \/ Die(self)
      PROVE  \/ Type(self) \/ Refused(self)
             \/ Begin(self) \/ Die(self) \/ \E op \in Ops : Raise(self, op)
             \/ JuniperConfigure(self) \/ AristaConfigure(self)
             \/ JuniperVerify(self) \/ AristaVerify(self)
             \/ JuniperModify(self) \/ AristaModify(self)
  BY <1>2, Zenon DEF Step, Ops
<1>3. CASE \E self \in Processes : Step(self) \/ Die(self)
  <2>1. PICK self \in Processes : Step(self) \/ Die(self)
    BY <1>3
  <2>2. CASE Type(self) \/ Refused(self)
    BY <2>2, TypingStep
  <2>3. CASE Begin(self) \/ Die(self) \/ \E op \in Ops : Raise(self, op)
    BY <2>3, QuietStep
  <2> QED  BY <1>2, <2>1, <2>2, <2>3
<1>4. CASE Reboot \/ \E c \in Clouds : Assign(c) \/ Close(c)
  BY <1>4, ShiftStep
<1> QED  BY <1>1, <1>3, <1>4, Zenon DEF Next

LEMMA ShiftKeeps ==
  ASSUME TypeInv, Shift
  PROVE  WorkInv'
<1>1. \A q \in Processes : WellScripted(w'[q])
  BY AlikeScripted DEF TypeInv, WorkInv, Shift
<1> QED  BY <1>1 DEF WorkInv, Shift, WellScripted, WorkOK, Owns

LEMMA TypingKeeps ==
  ASSUME TypeInv, NEW self \in Processes, Typing(self), UNCHANGED <<assignment, want, cloud, calls>>,
         faults' \in 0..MaxFaults
  PROVE  TypeInv'
<1>1. PICK y, k, t : WellScripted(y) /\ Turn(self, y) /\ Typed(t, w[self].script, k) /\ Types(self, t)
  BY DEF Typing
<1>2. {conf', startup', candidate'} \subseteq Switches
  BY <1>1, TypesKeep, TypeInvIs DEF Typing
<1>3. doubt' \subseteq Nics
  <2>1. w[self].nic \in Nics
    BY ScriptedNow DEF Typing
  <2>2. Overlaps(self) => w[Other(self)].nic \in Nics
    BY ScriptedNow, TwoProcesses DEF Overlaps
  <2> QED  BY <2>1, <2>2 DEF Typing, TypeInv, Rest
<1>4. vendor' = vendor
  BY DEF Typing
<1>5. Rest'
  BY <1>2, <1>3, <1>4 DEF TypeInv, Rest, Switches, Owns
<1> QED  BY <1>1, <1>4, <1>5, TurnKeeps DEF TypeInv

LEMMA TypeStep ==
  ASSUME TypeInv, [Next]_vars
  PROVE  TypeInv'
<1>1. CASE \E self \in Processes : Quiet(self)
  <2>1. PICK self \in Processes : Quiet(self)
    BY <1>1
  <2>2. vendor' = vendor
    BY <2>1 DEF Quiet, Still
  <2> QED  BY <2>1, <2>2, TurnKeeps DEF TypeInv, Quiet
<1>2. CASE \E self \in Processes : Typing(self) /\ UNCHANGED <<assignment, want, cloud, calls>> /\ faults' \in 0..MaxFaults
  BY <1>2, TypingKeeps
<1>3. CASE \E self \in Processes : \/ JuniperConfigure(self) \/ AristaConfigure(self)
                                   \/ JuniperVerify(self) \/ AristaVerify(self)
                                   \/ JuniperModify(self) \/ AristaModify(self)
  BY <1>3, LooksStep, LooksType, TypeInvIs
<1>4. CASE Shift
  BY <1>4, ShiftKeeps DEF TypeInv, Shift
<1>5. CASE UNCHANGED vars
  BY <1>5 DEF vars, demand, ports, TypeInv, Rest, WorkInv, WellScripted, WorkOK, Switches, Owns
<1> QED  BY <1>1, <1>2, <1>3, <1>4, <1>5, StepCases

LEMMA TypeInit == Init => TypeInv
<1> SUFFICES ASSUME Init
             PROVE  TypeInv
  OBVIOUS
<1>1. /\ vendor \in Layouts /\ cloud \in Clouds /\ want \in Clouds
      /\ assignment \in [Clouds -> Assignments \union {None}]
      /\ doubt \subseteq Nics /\ calls \in 0..MaxCalls /\ faults \in 0..MaxFaults
  BY SwitchAssumption DEF Init, SwitchAssumption
<1>2. conf \in Switches
  <2>1. \A p \in Nics : GetVlan(None, p) \in Vlans
    BY VlanOf
  <2>2. \A p \in Nics : conf[p] \in IF Owns("arista", p) THEN AristaPort ELSE JuniperPort
    BY <2>1, VlanNumbers DEF Init, JuniperPort, AristaPort
  <2>3. conf = [p \in Nics |-> conf[p]]
    BY DEF Init
  <2> QED  BY <2>2, <2>3 DEF Switches
<1>3. startup = conf /\ candidate = conf
  BY DEF Init
<1>4. WellScripted(Idle) /\ Idle \in Work
  BY IdleOK DEF WellScripted
<1>5. WorkInv
  BY <1>4 DEF Init, WorkInv
<1> QED  BY <1>1, <1>2, <1>3, <1>5 DEF TypeInv, Rest

(* Types: the variables stay what they are meant to be, and a process at   *)
(* rest or between NICs has no lines to type (Switch: TypeOK).             *)
THEOREM TypeCorrect == Spec => []TypeOK
<1>1. Init => TypeInv
  BY TypeInit
<1>2. TypeInv /\ [Next]_vars => TypeInv'
  BY TypeStep
<1>3. TypeInv => TypeOK
  BY TypeInvIs
<1> QED  BY <1>1, <1>2, <1>3, PTL DEF Spec

----------------------------------------------------------------------------
(* What EOS saved: an edit and its saving are one session.                 *)

(* A session touches the ports of its own vendor only, and one that types  *)
(* all its lines on EOS saves them.                                        *)
LEMMA TypingPorts ==
  ASSUME TypeInv, NEW self \in Processes, Typing(self)
  PROVE  /\ Plugin(self) = "juniper" =>
              startup' = startup /\ \A p \in Nics : Owns("arista", p) => conf'[p] = conf[p]
         /\ Plugin(self) = "arista" =>
              candidate' = candidate /\ \A p \in Nics : Owns("juniper", p) => conf'[p] = conf[p]
         /\ Plugin(self) = "arista" /\ faults' = faults =>
              \A p \in Nics : Owns("arista", p) => startup'[p] = conf'[p]
<1>1. PICK y, k, t :
        /\ Typed(t, w[self].script, k) /\ Types(self, t)
        /\ faults' = faults /\ Plugin(self) = "arista" => k = Len(w[self].script)
  BY DEF Typing
<1>2. /\ Port(self) \in Nics /\ Owns(Plugin(self), Port(self))
      /\ Edits(self, t, k) \/ Commits(self, k) \/ Runs(self, t, k)
  BY <1>1, TypesWhat, TypeInvIs DEF Typing
<1>3. /\ \A p \in Nics : Owns("juniper", p) <=> p \in Juniper
      /\ \A p \in Nics : Owns("arista", p) => p \notin Juniper
  BY OneOwner DEF Juniper
<1>c. conf \in [Nics -> JuniperPort \union AristaPort]
  BY DEF TypeInv, Rest, Switches
<1>4. CASE Edits(self, t, k)
  BY <1>4 DEF Edits
<1>5. CASE Commits(self, k)
  <2>1. Plugin(self) = "juniper" /\ startup' = startup
    BY <1>5 DEF Commits
  <2>2. conf' = conf \/ conf' = Over(candidate, conf, Juniper)
    BY <1>5 DEF Commits
  <2>3. \A p \in Nics : Owns("arista", p) => conf'[p] = conf[p]
    BY <1>3, <2>2 DEF Over
  <2> QED  BY <2>1, <2>3
<1>6. CASE Runs(self, t, k)
  <2>1. Plugin(self) = "arista" /\ candidate' = candidate
    BY <1>6 DEF Runs
  <2>2. conf' = [conf EXCEPT ![Port(self)] = AristaEdited(conf[Port(self)], t)]
    BY <1>6 DEF Runs
  <2>3. \A p \in Nics : Owns("juniper", p) => conf'[p] = conf[p]
    <3>1. ~Owns("juniper", Port(self))
      BY <1>2, <2>1, OneOwner
    <3> QED  BY <1>c, <2>2, <3>1
  <2>4. ASSUME faults' = faults
        PROVE  \A p \in Nics : Owns("arista", p) => startup'[p] = conf'[p]
    <3>1. startup' = Over(startup, conf', Juniper)
      BY <1>1, <1>6, <2>1, <2>4 DEF Runs, Lines
    <3> QED  BY <1>3, <3>1 DEF Over
  <2> QED  BY <2>1, <2>3, <2>4
<1> QED  BY <1>2, <1>4, <1>5, <1>6

LEMMA SavedStep ==
  ASSUME TypeInv, Saved, [Next]_vars
  PROVE  Saved'
<1>n. faults \in Nat
  BY SwitchAssumption DEF TypeInv, Rest, SwitchAssumption
<1>1. CASE \E self \in Processes : Quiet(self)
  <2>1. UNCHANGED <<vendor, conf, startup>> /\ faults' \in {faults, faults + 1}
    BY <1>1 DEF Quiet, Still
  <2> QED  BY <1>n, <2>1 DEF Saved, Owns
<1>2. CASE \E self \in Processes : Typing(self)
  <2>1. PICK self \in Processes : Typing(self)
    BY <1>2
  <2>2. vendor' = vendor /\ faults' \in {faults, faults + 1}
    BY <2>1 DEF Typing
  <2>3. Plugin(self) \in {"juniper", "arista"}
    BY AtWork, TypeInvIs
  <2>4. ASSUME faults' = 0, NEW p \in Nics, Owns("arista", p)
        PROVE  startup'[p] = conf'[p]
    <3>1. faults' = faults /\ faults = 0
      BY <1>n, <2>2, <2>4
    <3> QED  BY <2>1, <2>3, <2>4, <3>1, TypingPorts DEF Saved
  <2> QED  BY <2>2, <2>4 DEF Saved, Owns
<1>3. CASE \E self \in Processes : Looks(self)
  <2>1. UNCHANGED <<vendor, conf, startup>> /\ faults' \in {faults, faults + 1}
    BY <1>3 DEF Looks
  <2> QED  BY <1>n, <2>1 DEF Saved, Owns
<1>4. CASE Shift
  BY <1>4, <1>n DEF Saved, Shift, Owns
<1>5. CASE UNCHANGED vars
  BY <1>5 DEF vars, demand, ports, Saved, Owns
<1> QED  BY <1>1, <1>2, <1>3, <1>4, <1>5, StepCases, LooksStep, TypeInvIs

(* A restart of an EOS switch loses nothing, as long as nothing has failed *)
(* and no session is open (Switch: Persisted).                             *)
THEOREM RestartsLoseNothing == Spec => []Persisted
<1>1. Init => TypeInv /\ Saved
  BY TypeInit DEF Init, Saved
<1>2. TypeInv /\ Saved /\ [Next]_vars => TypeInv' /\ Saved'
  BY TypeStep, SavedStep
<1>3. Saved => Persisted
  BY DEF Saved, Persisted
<1> QED  BY <1>1, <1>2, <1>3, PTL DEF Spec

----------------------------------------------------------------------------
(* One VLAN on a Junos port.  A session that is to set a port removes the  *)
(* one VLAN it saw there, so what it saw must be what is there until it    *)
(* commits: SessionsFit; and what a commit makes the configuration of the  *)
(* switch is the candidate of all sessions: CandidateSingle.               *)

(* A step of a process that reads a Junos port keeps the session fitting.  *)
Fitting(self) ==
  \/ \E x \in Work : Eased(w[self], x) /\ w' = Pass(self, x)
  \/ \E s \in ScriptsOf(Plugin(self)) : w' = Drive(self, s) /\ Fits(s, conf[w[self].nic])

LEMMA ConfigureFits ==
  ASSUME TypeInv, PortsSingle, NEW self \in Processes, JuniperConfigure(self), w[self].nic \notin doubt'
  PROVE  Fitting(self)
<1> DEFINE x == w[self]
           p == x.nic
           seen == JuniperConfigured(conf[p])
           new == GetVlan(x.will, p)
           old == IF seen # 0 THEN seen ELSE GetVlan(x.was, p)
           s == ConfigureScript(Plugin(self), x.will, p, old, new)
<1>1. /\ x.op = "configure" /\ p \in Nics /\ Owns("juniper", p) /\ Plugin(self) = "juniper"
  BY ReadingAt, TypeInvIs DEF JuniperConfigure, Ops
<1>2. /\ x \in Work /\ x.was \in Assignments \union {None} /\ x.will \in Assignments \union {None}
  BY AtWork, TypeInvIs
<1>3. Eased(x, x) /\ Eased(x, [x EXCEPT !.passed = @ \union {p}]) /\ [x EXCEPT !.passed = @ \union {p}] \in Work
  <2>1. Eased(x, x) /\ Eased(x, [x EXCEPT !.passed = @ \union {p}])
    BY <1>1, <1>2, EasedItself
  <2> QED  BY <2>1 DEF Eased
<1>4. CASE Configure(self, 0, TRUE)
  <2> DEFINE guess == GetVlan(x.was, p)
  <2>1. /\ guess = new => w' = Pass(self, [x EXCEPT !.passed = @ \union {p}])
        /\ guess # new => doubt' = doubt \union {p}
    BY <1>4 DEF Configure
  <2> HIDE DEF guess, new
  <2>2. w' = Pass(self, [x EXCEPT !.passed = @ \union {p}])
    BY <2>1
  <2> QED  BY <1>3, <2>2 DEF Fitting
<1>5. CASE Configure(self, seen, FALSE)
  <2>1. /\ old = new => \/ w' = Pass(self, x)
                        \/ w' = Pass(self, [x EXCEPT !.passed = @ \union {p}])
        /\ old # new => w' = Drive(self, s)
        /\ doubt' = doubt
    BY <1>5 DEF Configure
  <2>2. CASE old = new
    BY <1>2, <1>3, <2>1, <2>2 DEF Fitting
  <2>3. CASE old # new
    <3>1. conf[p].members = {seen} \ {0} /\ seen \in Vlans
      BY <1>1, <2>1, PortTypes, TypeInvIs DEF PortsSingle, Single, JuniperConfigured, JuniperPort
    <3>2. conf[p].members \subseteq {old} /\ old \in Vlans
      BY <1>1, <1>2, <3>1, VlanOf
    <3>3. (Public(x.will, p) => new \in PublicVlans) /\ (~Public(x.will, p) => new \in PlainVlans)
      BY <1>1, <1>2, VlanOf
    <3>4. w' = Drive(self, s)
      BY <2>1, <2>3
    <3>5. s = IF Public(x.will, p) THEN JuniperConvertPublic(old, new) ELSE JuniperSetPort(old, new)
      BY <1>1 DEF ConfigureScript
    <3> HIDE DEF s, old, new, seen
    <3>6. CASE Public(x.will, p)
      <4>1. s = JuniperConvertPublic(old, new) /\ new \in PublicVlans
        BY <3>3, <3>5, <3>6
      <4>2. Fits(s, conf[p])
        BY <2>3, <3>2, <4>1 DEF Fits
      <4>3. s \in ScriptsOf(Plugin(self))
        BY <1>1, <3>2, <4>1, JuniperLines DEF ScriptsOf
      <4> QED  BY <3>4, <4>2, <4>3 DEF Fitting
    <3>7. CASE ~Public(x.will, p)
      <4>1. s = JuniperSetPort(old, new) /\ new \in PlainVlans
        BY <3>3, <3>5, <3>7
      <4>2. Fits(s, conf[p])
        BY <3>2, <4>1 DEF Fits
      <4>3. s \in ScriptsOf(Plugin(self))
        BY <1>1, <3>2, <4>1, JuniperLines DEF ScriptsOf
      <4> QED  BY <3>4, <4>2, <4>3 DEF Fitting
    <3> QED  BY <3>6, <3>7
  <2> QED  BY <2>2, <2>3
<1> QED  BY <1>4, <1>5, Zenon DEF JuniperConfigure

LEMMA CompareFits ==
  ASSUME TypeInv, PortsSingle, NEW self \in Processes, w[self].nic \in Nics, Owns("juniper", w[self].nic),
         w[self].op = "verify", Plugin(self) = "juniper", NEW m \in JuniperMembers(conf[w[self].nic]),
         JuniperCompare(self, JuniperInterface(conf[w[self].nic]), m, FALSE), w[self].nic \notin doubt'
  PROVE  Fitting(self)
<1> DEFINE x == w[self]
           p == x.nic
           a == x.will
           seen == JuniperInterface(conf[p])
           vlan == GetVlan(a, p)
           member == IF m = 0 /\ Public(a, p) /\ seen # 0 THEN conf[p].native ELSE m
           s == IF ~Public(a, p) THEN JuniperSetPort(member, vlan)
                ELSE IF vlan # seen THEN JuniperConvertPublic(seen, vlan)
                ELSE <<>>
<1>1. a \in Assignments \union {None} /\ x \in Work /\ Eased(x, x) /\ Eased(x, [x EXCEPT !.ok = FALSE])
      /\ [x EXCEPT !.ok = FALSE] \in Work
  <2>1. x \in Work /\ a \in Assignments \union {None}
    BY AtWork, TypeInvIs
  <2>2. Eased(x, x) /\ Eased(x, [x EXCEPT !.ok = FALSE])
    BY <2>1, EasedItself
  <2> QED  BY <2>1, <2>2 DEF Eased
<1>2. (Public(a, p) => vlan \in PublicVlans) /\ (~Public(a, p) => vlan \in PlainVlans)
  BY <1>1, VlanOf
<1>3. Judge(self, member = vlan, s, FALSE)
  BY Zenon DEF JuniperCompare
<1>4. /\ \/ w' = Pass(self, x)
         \/ w' = Pass(self, [x EXCEPT !.ok = FALSE])
         \/ s # <<>> /\ w' = Drive(self, s)
      /\ doubt' = doubt
  <2> HIDE DEF s, member, vlan
  <2> QED  BY <1>3 DEF Judge
<1>5. conf[p].members = {conf[p].group} \ {0} /\ conf[p] \in JuniperPort
  BY <1>4, PortTypes, TypeInvIs DEF PortsSingle, Single
<1>6. CASE s # <<>> /\ w' = Drive(self, s)
  <2>1. CASE ~Public(a, p)
    <3>1. member = m /\ s = JuniperSetPort(m, vlan)
      BY <2>1
    <3>2. conf[p].members \subseteq {m} /\ m \in Vlans
      BY <1>5, VlanNumbers DEF JuniperMembers, JuniperPort
    <3> HIDE DEF s, member, vlan, p
    <3>3. Fits(s, conf[p])
      BY <1>2, <2>1, <3>1, <3>2 DEF Fits
    <3>4. s \in ScriptsOf(Plugin(self))
      BY <1>2, <2>1, <3>1, <3>2, JuniperLines DEF ScriptsOf
    <3> QED  BY <1>6, <3>3, <3>4 DEF Fitting, p
  <2>2. CASE Public(a, p)
    <3>1. s = JuniperConvertPublic(seen, vlan) /\ vlan # seen
      BY <1>6, <2>2
    <3>2. conf[p].members \subseteq {seen} /\ seen \in Vlans
      BY <1>5 DEF JuniperInterface, JuniperPort
    <3> HIDE DEF s, member, vlan, p, seen
    <3>3. Fits(s, conf[p])
      BY <1>2, <2>2, <3>1, <3>2 DEF Fits
    <3>4. s \in ScriptsOf(Plugin(self))
      BY <1>2, <2>2, <3>1, <3>2, JuniperLines DEF ScriptsOf
    <3> QED  BY <1>6, <3>3, <3>4 DEF Fitting, p
  <2> QED  BY <2>1, <2>2
<1> QED  BY <1>1, <1>4, <1>6 DEF Fitting

(* A port that could not be read is corrected in doubt.                    *)
LEMMA BlindFits ==
  ASSUME TypeInv, NEW self \in Processes, w[self].op = "verify", NEW seen \in Vlans, NEW m \in Vlans,
         JuniperCompare(self, seen, m, TRUE), w[self].nic \notin doubt'
  PROVE  Fitting(self)
<1> DEFINE x == w[self]
           p == x.nic
           a == x.will
           vlan == GetVlan(a, p)
           member == IF m = 0 /\ Public(a, p) /\ seen # 0 THEN conf[p].native ELSE m
           right == member = vlan
           s == IF ~Public(a, p) THEN JuniperSetPort(member, vlan)
                ELSE IF vlan # seen THEN JuniperConvertPublic(seen, vlan)
                ELSE <<>>
<1>1. x \in Work /\ Eased(x, x) /\ Eased(x, [x EXCEPT !.ok = FALSE])
      /\ [x EXCEPT !.ok = FALSE] \in Work
  <2>1. x \in Work
    BY AtWork, TypeInvIs
  <2>2. Eased(x, x) /\ Eased(x, [x EXCEPT !.ok = FALSE])
    BY <2>1, EasedItself
  <2> QED  BY <2>1, <2>2 DEF Eased
<1>2. Judge(self, right, s, TRUE)
  BY Zenon DEF JuniperCompare
<1> HIDE DEF s, right
<1>3. CASE ~right /\ x.change
  <2>1. doubt' = doubt \union {p}
    BY <1>2, <1>3 DEF Judge
  <2> QED  BY <2>1
<1>4. CASE right
  BY <1>1, <1>2, <1>4 DEF Judge, Fitting
<1>5. CASE ~right /\ ~x.change
  BY <1>1, <1>2, <1>5 DEF Judge, Fitting
<1> QED  BY <1>3, <1>4, <1>5

LEMMA VerifyFits ==
  ASSUME TypeInv, PortsSingle, NEW self \in Processes, JuniperVerify(self), w[self].nic \notin doubt'
  PROVE  Fitting(self)
<1>1. /\ w[self].op = "verify" /\ w[self].nic \in Nics /\ Owns("juniper", w[self].nic)
      /\ Plugin(self) = "juniper"
  BY ReadingAt, TypeInvIs DEF JuniperVerify, Ops
<1>2. JuniperInterface(conf[w[self].nic]) \in Vlans /\ 0 \in Vlans /\ JuniperMembers(conf[w[self].nic]) \subseteq Vlans
  BY <1>1, PortTypes, VlanNumbers, TypeInvIs DEF JuniperInterface, JuniperMembers, JuniperPort
<1>3. \/ \E m \in JuniperMembers(conf[w[self].nic]) :
            JuniperCompare(self, JuniperInterface(conf[w[self].nic]), m, FALSE)
      \/ \E seen \in Vlans, m \in Vlans : JuniperCompare(self, seen, m, TRUE)
  BY <1>2, Zenon DEF JuniperVerify
<1>4. CASE \E m \in JuniperMembers(conf[w[self].nic]) :
            JuniperCompare(self, JuniperInterface(conf[w[self].nic]), m, FALSE)
  BY <1>1, <1>4, CompareFits
<1>5. CASE \E seen \in Vlans, m \in Vlans : JuniperCompare(self, seen, m, TRUE)
  BY <1>1, <1>5, BlindFits
<1> QED  BY <1>3, <1>4, <1>5

LEMMA ModifyFits ==
  ASSUME TypeInv, PortsSingle, NEW self \in Processes, JuniperModify(self), w[self].nic \notin doubt'
  PROVE  Fitting(self)
<1> DEFINE x == w[self]
           p == x.nic
<1>1. /\ x.op = "modify" /\ p \in Nics /\ Owns("juniper", p) /\ Plugin(self) = "juniper"
  BY ReadingAt, TypeInvIs DEF JuniperModify, Ops
<1>2. x \in Work /\ Eased(x, x) /\ x.ask[2] \in PlainVlans
  BY <1>1, ScriptedNow, EasedItself
<1>3. PICK m \in {0} \union JuniperMembers(conf[p]) :
        LET blind == m \notin JuniperMembers(conf[p])
        IN  /\ w' = IF Kept(x, m) THEN Pass(self, x) ELSE Drive(self, JuniperSetPort(m, x.ask[2]))
            /\ doubt' = IF blind /\ ~Kept(x, m) THEN doubt \union {p} ELSE doubt
  BY DEF JuniperModify
<1>4. CASE Kept(x, m)
  BY <1>2, <1>3, <1>4 DEF Fitting
<1>5. CASE ~Kept(x, m)
  <2>1. m \in JuniperMembers(conf[p]) /\ doubt' = doubt /\ w' = Drive(self, JuniperSetPort(m, x.ask[2]))
    BY <1>3, <1>5
  <2>2. conf[p].members = {conf[p].group} \ {0} /\ conf[p] \in JuniperPort
    BY <1>1, <2>1, PortTypes, TypeInvIs DEF PortsSingle, Single
  <2>3. conf[p].members \subseteq {m} /\ m \in Vlans
    BY <2>1, <2>2, VlanNumbers DEF JuniperMembers, JuniperPort
  <2> DEFINE s == JuniperSetPort(m, x.ask[2])
  <2>4. Fits(s, conf[p])
    BY <1>2, <2>3 DEF Fits
  <2>5. s \in ScriptsOf(Plugin(self))
    BY <1>1, <1>2, <2>3, JuniperLines DEF ScriptsOf
  <2> HIDE DEF s
  <2> QED  BY <2>1, <2>4, <2>5 DEF Fitting, s
<1> QED  BY <1>4, <1>5

LEMMA NoCommit == ~IsCommit(<<>>) /\ \A s \in JuniperScripts : ~IsCommit(s)
<1>1. ~IsCommit(<<>>)
  BY DEF IsCommit
<1>2. ASSUME NEW s \in JuniperScripts
      PROVE  ~IsCommit(s)
  <2>1. s[1].do # "commit"
    BY JuniperStretch
  <2> QED  BY <2>1 DEF IsCommit
<1> QED  BY <1>1, <1>2

Whole(k, s) == k = Stretch(s)

LEMMA EditedSingle ==
  ASSUME NEW c \in JuniperPort, NEW s \in JuniperScripts, Fits(s, c), NEW k, NEW t, Typed(t, s, k), Whole(k, s),
         NEW d, d = JuniperEdited(c, t)
  PROVE  Single(d)
<1>0. ~IsCommit(s)
  BY NoCommit
<1>1. CASE \E o \in Vlans, n \in PlainVlans : s = JuniperSetPort(o, n) /\ c.members \subseteq {o}
  <2>1. PICK o \in Vlans, n \in PlainVlans : s = JuniperSetPort(o, n) /\ c.members \subseteq {o}
    BY <1>1
  <2>2. n \in Vlans /\ n # 0 /\ k = 5 /\ FirstOf(t, JuniperSetPort(o, n), k)
    <3>1. n \in Vlans /\ n # 0
      BY VlanNumbers
    <3>2. Stretch(s) \in 1..5 /\ Len(s) = Stretch(s) + 1
      BY JuniperStretch
    <3>3. Len(s) = 6
      BY <2>1, <3>1, ScriptTypes
    <3>6. Stretch(s) = 5
      <4> DEFINE m == Stretch(s)
      <4>1. m \in 1..5 /\ m + 1 = 6
        BY <3>2, <3>3, Zenon
      <4> HIDE DEF m
      <4>2. m = 5
        BY <4>1
      <4> QED  BY <4>2 DEF m
    <3>4. k = 5
      BY <3>6 DEF Whole
    <3>5. FirstOf(t, JuniperSetPort(o, n), k)
      BY <2>1 DEF Typed
    <3> QED  BY <3>1, <3>4, <3>5
  <2>3. k \in 0..5
    BY <2>2
  <2>4. /\ d.group = (IF k >= 3 THEN n ELSE IF k = 2 THEN 0 ELSE c.group)
        /\ d.members = (c.members \ (IF k >= 4 THEN {o} ELSE {})) \union (IF k = 5 THEN {n} ELSE {})
    BY <2>2, <2>3, SetPortLines
  <2> QED  BY <2>1, <2>2, <2>4 DEF Single
<1>2. CASE \E o \in Vlans, n \in PublicVlans :
             s = JuniperConvertPublic(o, n) /\ c.members \subseteq (IF o = n THEN {} ELSE {o})
  <2>1. PICK o \in Vlans, n \in PublicVlans :
             s = JuniperConvertPublic(o, n) /\ c.members \subseteq (IF o = n THEN {} ELSE {o})
    BY <1>2
  <2>2. n \in Vlans /\ k \in 0..4 /\ k = (IF o = n THEN 3 ELSE 4) /\ FirstOf(t, JuniperConvertPublic(o, n), k)
    <3>1. n \in Vlans
      BY VlanNumbers
    <3>2. Len(s) = (IF o = n THEN 4 ELSE 5)
      BY <2>1, <3>1, ScriptTypes
    <3>3. Stretch(s) \in 1..5 /\ Len(s) = Stretch(s) + 1
      BY JuniperStretch
    <3>6. Stretch(s) = (IF o = n THEN 3 ELSE 4)
      <4> DEFINE m == Stretch(s)
      <4>1. m \in 1..5 /\ m + 1 = (IF o = n THEN 4 ELSE 5)
        BY <3>2, <3>3, Zenon
      <4> HIDE DEF m
      <4>2. m = (IF o = n THEN 3 ELSE 4)
        BY <4>1
      <4> QED  BY <4>2 DEF m
    <3>4. k = (IF o = n THEN 3 ELSE 4)
      BY <3>6 DEF Whole
    <3>5. FirstOf(t, JuniperConvertPublic(o, n), k)
      BY <2>1 DEF Typed
    <3> QED  BY <3>1, <3>4, <3>5
  <2>3. k = 4 => o # n
    BY <2>2
  <2>4. /\ d.group = (IF k >= 2 THEN 0 ELSE c.group)
        /\ d.members = c.members \ (IF k = 4 THEN {o} ELSE {})
    BY <2>2, <2>3, ConvertPublicLines
  <2> QED  BY <2>1, <2>2, <2>4 DEF Single
<1> QED  BY <1>0, <1>1, <1>2 DEF Fits

(* A step that changes no Junos port and starts no commit.                 *)
LEMMA SingleKept ==
  ASSUME TypeInv, SingleInv, vendor' = vendor, candidate' = candidate, doubt \subseteq doubt',
         \A p \in Nics : Owns("juniper", p) => conf'[p] = conf[p],
         \A q \in Processes :
           \/ w'[q].script = <<>>
           \/ Alike(w[q], w'[q])
           \/ Plugins[w'[q].plugin] # "juniper"
           \/ w'[q].script \in JuniperScripts /\ w'[q].nic = w[q].nic /\ w[q].nic \in Nics
                /\ Owns("juniper", w[q].nic) /\ Fits(w'[q].script, conf[w[q].nic])
           \/ w'[q].script \in JuniperScripts /\ w'[q].nic \in doubt'
  PROVE  SingleInv'
<1>0. /\ ~IsCommit(<<>>) /\ \A s \in JuniperScripts : ~IsCommit(s)
  BY NoCommit
<1>1. PortsSingle'
  BY DEF SingleInv, PortsSingle, Owns
<1>2. CandidateSingle'
  <2>1. \A q \in Processes : Committing(q)' => Committing(q)
    BY <1>0 DEF Committing, Alike, Plugin
  <2> QED  BY <2>1 DEF SingleInv, CandidateSingle, Owns
<1>3. SessionsFit'
  <2> SUFFICES ASSUME NEW q \in Processes, w'[q].script # <<>>, Plugins[w'[q].plugin] = "juniper", w'[q].nic \notin doubt'
               PROVE  Fits(w'[q].script, conf'[w'[q].nic])
    BY DEF SessionsFit, Plugin
  <2>1. CASE Alike(w[q], w'[q])
    <3>1. /\ w[q].script # <<>> /\ w[q].nic = w'[q].nic /\ w[q].script = w'[q].script /\ Plugin(q) = "juniper"
      BY <2>1 DEF Alike, Plugin
    <3>2. w[q].nic \in Nics /\ Owns("juniper", w[q].nic)
      BY <3>1, ScriptedNow
    <3>3. Fits(w[q].script, conf[w[q].nic])
      BY <3>1 DEF SingleInv, SessionsFit
    <3> QED  BY <3>1, <3>2, <3>3
  <2>2. CASE w'[q].nic = w[q].nic /\ w[q].nic \in Nics
             /\ Owns("juniper", w[q].nic) /\ Fits(w'[q].script, conf[w[q].nic])
    BY <2>2
  <2> QED  BY <2>1, <2>2
<1> QED  BY <1>1, <1>2, <1>3 DEF SingleInv

LEMMA SingleLooks ==
  ASSUME TypeInv, SingleInv, NEW self \in Processes,
         \/ JuniperConfigure(self) \/ AristaConfigure(self)
         \/ JuniperVerify(self) \/ AristaVerify(self)
         \/ JuniperModify(self) \/ AristaModify(self)
  PROVE  SingleInv'
<1>1. Looks(self)
  BY LooksStep, TypeInvIs
<1>2. /\ UNCHANGED <<vendor, conf, candidate>> /\ doubt \subseteq doubt'
      /\ w[self].nic \in Nics /\ Owns(Plugin(self), w[self].nic)
      /\ Plugin(self) \in {"juniper", "arista"}
  BY <1>1, AtWork, TypeInvIs DEF Looks, AtPort
<1>3. PICK y : /\ Turn(self, y) /\ w'[Other(self)] = w[Other(self)]
               /\ \/ y.script = <<>>
                  \/ \E s \in ScriptsOf(Plugin(self)) : y = [w[self] EXCEPT !.script = s]
  BY <1>1, LooksTurn
<1>w. w[self] \in Work
  BY ScriptedNow
<1>4. Alike(w[Other(self)], w'[Other(self)]) /\ w'[self] = y
  BY <1>3 DEF Turn
<1>5. \/ w'[self].script = <<>>
      \/ Plugins[w'[self].plugin] # "juniper"
      \/ w'[self].script \in JuniperScripts /\ w'[self].nic = w[self].nic
           /\ Owns("juniper", w[self].nic) /\ (w[self].nic \in doubt' \/ Fits(w'[self].script, conf[w[self].nic]))
  <2>1. CASE y.script = <<>>
    BY <1>4, <2>1
  <2>2. CASE \E s \in ScriptsOf(Plugin(self)) : y = [w[self] EXCEPT !.script = s]
    <3>1. PICK s \in ScriptsOf(Plugin(self)) : y = [w[self] EXCEPT !.script = s]
      BY <2>2
    <3>2. y.script = s /\ y.nic = w[self].nic /\ y.plugin = w[self].plugin
      BY <1>w, <3>1 DEF Work
    <3>3. CASE Plugin(self) = "arista"
      BY <1>4, <3>2, <3>3 DEF Plugin
    <3>4. CASE Plugin(self) = "juniper" /\ w[self].nic \in doubt'
      BY <1>2, <1>4, <3>2, <3>4 DEF ScriptsOf
    <3>5. CASE Plugin(self) = "juniper" /\ w[self].nic \notin doubt'
      <4>1. JuniperConfigure(self) \/ JuniperVerify(self) \/ JuniperModify(self)
        BY <3>5 DEF AristaConfigure, AristaVerify, AristaModify, Reading
      <4>2. Fitting(self)
        BY <3>5, <4>1, ConfigureFits, VerifyFits, ModifyFits DEF SingleInv
      <4>3. CASE \E x \in Work : Eased(w[self], x) /\ w' = Pass(self, x)
        <5>1. PICK x \in Work : Eased(w[self], x) /\ w' = Pass(self, x)
          BY <4>3
        <5>2. x.op \in Ops /\ w \in [Processes -> Work]
          BY <1>1, <5>1, ScriptedNow DEF Eased, Looks, AtPort
        <5>3. w' = [w EXCEPT ![self] = Passed(x)]
          BY <5>1, AnswerIs
        <5>4. Passed(x).script = <<>>
          BY <5>2, PassedWell
        <5> QED  BY <5>2, <5>3, <5>4
      <4>4. CASE \E z \in ScriptsOf(Plugin(self)) : w' = Drive(self, z) /\ Fits(z, conf[w[self].nic])
        <5>1. PICK z \in ScriptsOf(Plugin(self)) : w' = Drive(self, z) /\ Fits(z, conf[w[self].nic])
          BY <4>4
        <5>2. w'[self].script = z
          <6>1. w \in [Processes -> Work]
            BY ScriptedNow
          <6>2. w'[self] = [w[self] EXCEPT !.script = z]
            BY <5>1, <6>1 DEF Drive
          <6> QED  BY <1>w, <6>2 DEF Work
        <5> QED  BY <1>2, <1>4, <3>2, <3>5, <5>1, <5>2 DEF ScriptsOf
      <4> QED  BY <4>2, <4>3, <4>4 DEF Fitting
    <3> QED  BY <1>2, <3>3, <3>4, <3>5
  <2> QED  BY <1>3, <2>1, <2>2
<1>6. \A q \in Processes :
           \/ w'[q].script = <<>>
           \/ Alike(w[q], w'[q])
           \/ Plugins[w'[q].plugin] # "juniper"
           \/ w'[q].script \in JuniperScripts /\ w'[q].nic = w[q].nic /\ w[q].nic \in Nics
                /\ Owns("juniper", w[q].nic) /\ Fits(w'[q].script, conf[w[q].nic])
           \/ w'[q].script \in JuniperScripts /\ w'[q].nic \in doubt'
  BY <1>2, <1>4, <1>5, TwoProcesses
<1> QED  BY <1>2, <1>6, SingleKept

LEMMA SingleTyping ==
  ASSUME TypeInv, SingleInv, NEW self \in Processes, Typing(self)
  PROVE  SingleInv'
<1>0. /\ vendor' = vendor /\ w[self].script # <<>>
      /\ doubt' = IF Overlaps(self) THEN doubt \union {w[self].nic, w[Other(self)].nic} ELSE doubt
  BY DEF Typing
<1>1. PICK y, k, t :
       /\ WellScripted(y) /\ Turn(self, y)
       /\ Typed(t, w[self].script, k) /\ Types(self, t)
       /\ \/ y.script = <<>>
          \/ /\ w[self].script \in JuniperScripts /\ Plugin(self) = "juniper" /\ k = Stretch(w[self].script)
             /\ \E s : IsCommit(s) /\ y = [w[self] EXCEPT !.script = s]
  BY DEF Typing
<1>2. /\ Port(self) \in Nics /\ Owns(Plugin(self), Port(self))
      /\ Edits(self, t, k) \/ Commits(self, k) \/ Runs(self, t, k)
  BY <1>0, <1>1, TypesWhat, TypeInvIs
<1>3. Alike(w[Other(self)], w'[Other(self)]) /\ w'[self] = y
  BY <1>1 DEF Turn
<1>4. doubt \subseteq doubt'
  BY <1>0
<1>5. /\ ~IsCommit(<<>>) /\ \A s \in JuniperScripts : ~IsCommit(s)
  BY NoCommit
(* The other session at a Junos switch is in doubt.                        *)
<1>6. ASSUME Plugin(self) = "juniper", Plugin(Other(self)) = "juniper", w[Other(self)].script # <<>>
      PROVE  w[self].nic \in doubt' /\ w[Other(self)].nic \in doubt'
  <2>1. Busy(Other(self))
    BY <1>6, ScriptedNow, TwoProcesses
  <2> QED  BY <1>0, <1>6, <2>1 DEF Overlaps
<1>j. \A p \in Nics : Owns("juniper", p) <=> p \in Juniper
  BY DEF Juniper
<1>7. CASE Edits(self, t, k)
  <2> DEFINE p == Port(self)
             d == JuniperEdited(conf[p], t)
  <2>0. Plugin(self) = "juniper" /\ w[self].script \in JuniperScripts /\ conf' = conf /\ p = w[self].nic
    BY <1>7 DEF Edits, Lines, Port
  <2>c. conf \in [Nics -> JuniperPort \union AristaPort]
    BY DEF TypeInv, Rest, Switches
  <2>1. PortsSingle'
    BY <1>0, <1>4, <2>0 DEF SingleInv, PortsSingle, Owns
  <2>2. ASSUME NEW r \in Nics \ {p}, Owns("juniper", r), k # 0
        PROVE  candidate'[r] = conf[r]
    <3>1. candidate' = Over([conf EXCEPT ![p] = d], candidate, Juniper)
      BY <1>7, <2>2 DEF Edits
    <3> HIDE DEF d
    <3> QED  BY <1>j, <2>2, <2>c, <3>1 DEF Over
  <2>3. k # 0 => candidate'[p] = d
    <3>1. k # 0 => candidate' = Over([conf EXCEPT ![p] = d], candidate, Juniper)
      BY <1>7 DEF Edits
    <3> HIDE DEF d
    <3> QED  BY <1>2, <1>j, <2>0, <2>c, <3>1 DEF Over
  <2>4. CandidateSingle'
    <3> SUFFICES ASSUME NEW q \in Processes, Committing(q)', NEW r \in Nics \ doubt', Owns("juniper", r)'
                 PROVE  Single(candidate'[r])
      BY DEF CandidateSingle
    <3>0. Owns("juniper", r) /\ r \notin doubt
      BY <1>0, <1>4 DEF Owns
    <3>1. CASE q = self
      <4>1. k = Stretch(w[self].script)
        BY <1>1, <1>3, <1>5, <3>1 DEF Committing
      <4>2. k # 0
        BY <2>0, <4>1, JuniperStretch
      <4>3. CASE r = p
        <5>1. Fits(w[self].script, conf[p])
          BY <1>0, <2>0, <3>0, <4>3 DEF SingleInv, SessionsFit
        <5>2. conf[p] \in JuniperPort
          BY <1>2, <2>0, PortTypes, TypeInvIs
        <5>3. Single(d)
          BY <1>1, <2>0, <4>1, <5>1, <5>2, EditedSingle DEF Whole
        <5> QED  BY <2>3, <4>2, <4>3, <5>3
      <4>4. CASE r # p
        BY <2>2, <3>0, <4>2, <4>4 DEF SingleInv, PortsSingle
      <4> QED  BY <4>3, <4>4
    <3>2. CASE q = Other(self)
      <4>1. Committing(q)
        BY <1>3, <3>2 DEF Committing, Alike, Plugin
      <4>2. p \in doubt'
        BY <1>5, <1>6, <2>0, <3>2, <4>1 DEF Committing
      <4>3. CASE k # 0
        BY <2>2, <3>0, <4>2, <4>3 DEF SingleInv, PortsSingle
      <4>4. CASE k = 0
        <5>1. candidate' = candidate
          BY <1>7, <4>4 DEF Edits
        <5> QED  BY <3>0, <4>1, <5>1 DEF SingleInv, CandidateSingle
      <4> QED  BY <4>3, <4>4
    <3> QED  BY <3>1, <3>2, TwoProcesses
  <2>5. SessionsFit'
    <3> SUFFICES ASSUME NEW q \in Processes, w'[q].script # <<>>, Plugins[w'[q].plugin] = "juniper", w'[q].nic \notin doubt'
                 PROVE  Fits(w'[q].script, conf'[w'[q].nic])
      BY DEF SessionsFit, Plugin
    <3>1. CASE q = self
      <4>1. PICK s : IsCommit(s) /\ y = [w[self] EXCEPT !.script = s]
        BY <1>1, <1>3, <3>1
      <4>2. y.script = s
        BY <4>1, ScriptedNow DEF Work
      <4> QED  BY <1>3, <3>1, <4>1, <4>2 DEF Fits
    <3>2. CASE q = Other(self)
      BY <1>3, <1>4, <2>0, <3>2 DEF SingleInv, SessionsFit, Alike, Plugin
    <3> QED  BY <3>1, <3>2, TwoProcesses
  <2> QED  BY <2>1, <2>4, <2>5 DEF SingleInv
<1>8. CASE Commits(self, k)
  <2>0. Plugin(self) = "juniper" /\ IsCommit(w[self].script) /\ candidate' = candidate /\ w'[self].script = <<>>
    BY <1>1, <1>3, <1>5, <1>8 DEF Commits, Lines
  <2>1. PortsSingle'
    <3> SUFFICES ASSUME NEW r \in Nics \ doubt', Owns("juniper", r)'
                 PROVE  Single(conf'[r])
      BY DEF PortsSingle
    <3>0. Owns("juniper", r) /\ r \notin doubt
      BY <1>0, <1>4 DEF Owns
    <3>1. conf'[r] = conf[r] \/ conf'[r] = candidate[r]
      BY <1>8, <1>j, <3>0 DEF Commits, Over
    <3>2. Single(conf[r]) /\ Single(candidate[r])
      BY <2>0, <3>0 DEF SingleInv, PortsSingle, CandidateSingle, Committing
    <3> QED  BY <3>1, <3>2
  <2>2. CandidateSingle'
    <3>1. \A q \in Processes : Committing(q)' => Committing(q)
      BY <1>3, <1>5, <2>0, TwoProcesses DEF Committing, Alike, Plugin
    <3> QED  BY <1>0, <1>4, <2>0, <3>1 DEF SingleInv, CandidateSingle, Owns
  <2>3. SessionsFit'
    <3> SUFFICES ASSUME NEW q \in Processes, w'[q].script # <<>>, Plugins[w'[q].plugin] = "juniper", w'[q].nic \notin doubt'
                 PROVE  FALSE
      BY DEF SessionsFit, Plugin
    <3>1. q = Other(self)
      BY <2>0, TwoProcesses
    <3>2. Plugin(q) = "juniper" /\ w[q].script # <<>> /\ w[q].nic = w'[q].nic
      BY <1>3, <3>1 DEF Alike, Plugin
    <3> QED  BY <1>6, <2>0, <3>1, <3>2
  <2> QED  BY <2>1, <2>2, <2>3 DEF SingleInv
<1>9. CASE Runs(self, t, k)
  <2>1. Plugin(self) = "arista"
    BY <1>9 DEF Runs
  <2>2. w'[self].script = <<>>
    BY <1>1, <1>3, <2>1
  <2>3. candidate' = candidate /\ \A p \in Nics : Owns("juniper", p) => conf'[p] = conf[p]
    BY <2>1, TypingPorts
  <2>4. \A q \in Processes : w'[q].script = <<>> \/ Alike(w[q], w'[q])
    BY <1>3, <2>2, TwoProcesses
  <2> QED  BY <1>0, <1>4, <2>3, <2>4, SingleKept
<1> QED  BY <1>2, <1>7, <1>8, <1>9

LEMMA SingleStep ==
  ASSUME TypeInv, SingleInv, [Next]_vars
  PROVE  SingleInv'
<1>1. CASE \E self \in Processes : Quiet(self)
  <2>1. PICK self \in Processes : Quiet(self)
    BY <1>1
  <2>2. PICK y : Turn(self, y) /\ y.script = <<>>
    BY <2>1 DEF Quiet
  <2>3. UNCHANGED <<vendor, conf, candidate, doubt>>
    BY <2>1 DEF Quiet, Still
  <2>4. \A q \in Processes : w'[q].script = <<>> \/ Alike(w[q], w'[q])
    BY <2>2, TwoProcesses DEF Turn
  <2> QED  BY <2>3, <2>4, SingleKept
<1>2. CASE \E self \in Processes : Typing(self)
  BY <1>2, SingleTyping
<1>3. CASE \E self \in Processes : \/ JuniperConfigure(self) \/ AristaConfigure(self)
                                   \/ JuniperVerify(self) \/ AristaVerify(self)
                                   \/ JuniperModify(self) \/ AristaModify(self)
  BY <1>3, SingleLooks
<1>4. CASE Shift
  BY <1>4, SingleKept, OneOwner DEF Shift
<1>5. CASE UNCHANGED vars
  BY <1>5 DEF vars, demand, ports, SingleInv, PortsSingle, CandidateSingle, SessionsFit, Committing, Plugin, Owns
<1> QED  BY <1>1, <1>2, <1>3, <1>4, <1>5, StepCases

LEMMA SingleInit == Init => SingleInv
<1> SUFFICES ASSUME Init
             PROVE  SingleInv
  OBVIOUS
<1>1. \A p \in Nics : GetVlan(None, p) # 0
  BY VlanOf
<1>2. PortsSingle
  BY <1>1, OneOwner DEF Init, PortsSingle, Single
<1>3. \A q \in Processes : w[q].script = <<>>
  BY DEF Init, Idle
<1>4. ~IsCommit(<<>>)
  BY DEF IsCommit
<1> QED  BY <1>2, <1>3, <1>4 DEF SingleInv, CandidateSingle, SessionsFit, Committing

(* No Junos port is a member of a VLAN its interface does not apply,       *)
(* outside the ports edited on a guess or by two sessions (Switch:         *)
(* OneVlan).                                                               *)
THEOREM OneVlanEach == Spec => []OneVlan
<1>1. Init => TypeInv /\ SingleInv
  BY TypeInit, SingleInit
<1>2. TypeInv /\ SingleInv /\ [Next]_vars => TypeInv' /\ SingleInv'
  BY TypeStep, SingleStep
<1>3. SingleInv => OneVlan
  BY DEF SingleInv, PortsSingle, Single, OneVlan
<1> QED  BY <1>1, <1>2, <1>3, PTL DEF Spec

----------------------------------------------------------------------------
(* What a port can be: the group of a Junos port is an ordinary VLAN and   *)
(* its native VLAN a public one, never both; an EOS port is a tunnel when  *)
(* it has an access VLAN and a trunk when it has a native one, also after  *)
(* part of a session.                                                      *)
LEMMA PortStep ==
  ASSUME TypeInv, PortInv, [Next]_vars
  PROVE  PortInv'
<1>1. CASE UNCHANGED <<vendor, conf, candidate, startup>>
  BY <1>1 DEF PortInv, Owns
<1>2. CASE Shift
  BY <1>2, OneOwner DEF Shift, PortInv, Owns
<1>3. CASE \E self \in Processes : Typing(self)
  <2>1. PICK self \in Processes : Typing(self)
    BY <1>3
  <2>2. PICK k, t : Typed(t, w[self].script, k) /\ Types(self, t)
    BY <2>1 DEF Typing
  <2>3. /\ Port(self) \in Nics /\ Owns(Plugin(self), Port(self))
        /\ Edits(self, t, k) \/ Commits(self, k) \/ Runs(self, t, k)
    BY <2>1, <2>2, TypesWhat, TypeInvIs DEF Typing
  <2>v. vendor' = vendor
    BY <2>1 DEF Typing
  <2>j. \A p \in Nics : Owns("juniper", p) <=> p \in Juniper
    BY DEF Juniper
  <2>c. conf \in [Nics -> JuniperPort \union AristaPort]
    BY DEF TypeInv, Rest, Switches
  <2> DEFINE p == Port(self)
  <2>4. CASE Edits(self, t, k)
    <3> DEFINE d == JuniperEdited(conf[p], t)
    <3>1. Owns("juniper", p) /\ w[self].script \in JuniperScripts /\ conf' = conf /\ startup' = startup
      BY <2>3, <2>4 DEF Edits, Lines
    <3>2. PlainPort(d)
      <4>1. conf[p] \in JuniperPort /\ PlainPort(conf[p])
        BY <2>3, <3>1, PortTypes, TypeInvIs DEF PortInv
      <4> QED  BY <2>2, <3>1, <4>1, JuniperPortAfter
    <3>3. candidate' = candidate \/ candidate' = Over([conf EXCEPT ![p] = d], candidate, Juniper)
      BY <2>4 DEF Edits
    <3> HIDE DEF d
    <3>4. \A r \in Nics : Owns("juniper", r) => candidate'[r] = candidate[r] \/ candidate'[r] = conf[r] \/ candidate'[r] = d
      BY <2>3, <2>c, <2>j, <3>3 DEF Over
    <3> QED  BY <2>v, <3>1, <3>2, <3>4 DEF PortInv, Owns
  <2>5. CASE Commits(self, k)
    <3>1. candidate' = candidate /\ startup' = startup /\ (conf' = conf \/ conf' = Over(candidate, conf, Juniper))
      BY <2>5 DEF Commits
    <3>2. \A r \in Nics : /\ Owns("juniper", r) => conf'[r] = conf[r] \/ conf'[r] = candidate[r]
                          /\ Owns("arista", r) => conf'[r] = conf[r]
      BY <2>j, <3>1, OneOwner DEF Over
    <3> QED  BY <2>v, <3>1, <3>2 DEF PortInv, Owns
  <2>6. CASE Runs(self, t, k)
    <3> DEFINE d == AristaEdited(conf[p], t)
    <3>1. Owns("arista", p) /\ w[self].script \in AristaScripts /\ candidate' = candidate
      BY <2>3, <2>6 DEF Runs, Lines
    <3>2. Settled(d)
      <4>1. conf[p] \in AristaPort /\ Settled(conf[p])
        BY <2>3, <3>1, PortTypes, TypeInvIs DEF PortInv
      <4> QED  BY <2>2, <3>1, <4>1, AristaPortAfter
    <3>3. conf' = [conf EXCEPT ![p] = d] /\ startup' \in {startup, Over(startup, conf', Juniper)}
      BY <2>6 DEF Runs
    <3> HIDE DEF d
    <3>4. \A r \in Nics : /\ Owns("juniper", r) => conf'[r] = conf[r]
                          /\ Owns("arista", r) => conf'[r] = conf[r] \/ conf'[r] = d
      BY <2>3, <2>c, <3>1, <3>3, OneOwner
    <3>5. \A r \in Nics : Owns("arista", r) => startup'[r] = startup[r] \/ startup'[r] = conf'[r]
      BY <2>j, <3>3, OneOwner DEF Over
    <3> QED  BY <2>v, <3>1, <3>2, <3>4, <3>5 DEF PortInv, Owns
  <2> QED  BY <2>3, <2>4, <2>5, <2>6
<1>4. UNCHANGED vars => UNCHANGED <<vendor, conf, candidate, startup>>
  BY DEF vars, demand, ports
<1>5. ASSUME NEW self \in Processes, Quiet(self)
      PROVE  UNCHANGED <<vendor, conf, candidate, startup>>
  BY <1>5 DEF Quiet, Still
<1>6. ASSUME NEW self \in Processes, Looks(self)
      PROVE  UNCHANGED <<vendor, conf, candidate, startup>>
  BY <1>6 DEF Looks
<1> QED  BY <1>1, <1>2, <1>3, <1>4, <1>5, <1>6, StepCases, LooksStep, TypeInvIs

LEMMA PortInit == Init => PortInv
<1> SUFFICES ASSUME Init
             PROVE  PortInv
  OBVIOUS
<1>1. \A p \in Nics : ~Public(None, p) /\ GetVlan(None, p) \in PlainVlans
  <2>1. \A p \in Nics : ~Public(None, p)
    BY DEF Public
  <2> QED  BY <2>1, VlanOf
<1>2. \A p \in Nics : /\ Owns("juniper", p) => conf[p].group = GetVlan(None, p) /\ conf[p].native = 0
                      /\ Owns("arista", p) => /\ conf[p].mode = "tunnel" /\ conf[p].native = 0
                                              /\ conf[p].access = GetVlan(None, p)
  BY OneOwner DEF Init
<1>3. candidate = conf /\ startup = conf
  BY DEF Init
<1>4. \A p \in Nics : Owns("juniper", p) => PlainPort(conf[p])
  BY <1>1, <1>2 DEF PlainPort
<1>5. \A p \in Nics : Owns("arista", p) => Settled(conf[p])
  BY <1>1, <1>2 DEF Settled
<1> QED  BY <1>3, <1>4, <1>5 DEF PortInv

----------------------------------------------------------------------------
(* What is left alone is right, and what is typed is what is wanted, where *)
(* the public VLANs are apart from the others.                             *)

RightNow(self, x) ==
  LET p == w[self].nic
  IN  p \in doubt \union x.passed \/ RightAt(conf[p], w[self].will, w[self].op, p)

Told(self) ==
  \/ \E x \in Work : Eased(w[self], x) /\ w' = Pass(self, x) /\ (x.ok => RightNow(self, x))
  \/ \E s : w' = Drive(self, s) /\ Says(s, w[self].will, w[self].nic, Plugin(self))

LEMMA CarriesIs ==
  ASSUME NEW c, NEW p, NEW a
  PROVE  /\ Owns("juniper", p) =>
              (Carries(c, p, a) <=>
                 IF Public(a, p) THEN c.native = GetVlan(a, p) /\ c.group = 0
                 ELSE c.group = GetVlan(a, p) /\ GetVlan(a, p) \in c.members)
         /\ Owns("arista", p) =>
              (Carries(c, p, a) <=>
                 IF Public(a, p) THEN c.mode = "trunk" /\ c.native = GetVlan(a, p)
                 ELSE c.mode = "tunnel" /\ c.access = GetVlan(a, p))
         /\ ~Owns("juniper", p) /\ ~Owns("arista", p) => Carries(c, p, a)
<1>1. ASSUME Owns("juniper", p)
      PROVE  Carries(c, p, a) <=>
                 IF Public(a, p) THEN c.native = GetVlan(a, p) /\ c.group = 0
                 ELSE c.group = GetVlan(a, p) /\ GetVlan(a, p) \in c.members
  <2>1. ~Owns("arista", p)
    BY <1>1, OneOwner
  <2>2. CASE Public(a, p)
    BY <1>1, <2>1, <2>2 DEF Carries
  <2>3. CASE ~Public(a, p)
    BY <1>1, <2>1, <2>3 DEF Carries
  <2> QED  BY <2>2, <2>3
<1>2. ASSUME Owns("arista", p)
      PROVE  Carries(c, p, a) <=>
                 IF Public(a, p) THEN c.mode = "trunk" /\ c.native = GetVlan(a, p)
                 ELSE c.mode = "tunnel" /\ c.access = GetVlan(a, p)
  <2>1. ~Owns("juniper", p)
    BY <1>2, OneOwner
  <2>2. CASE Public(a, p)
    BY <1>2, <2>1, <2>2 DEF Carries
  <2>3. CASE ~Public(a, p)
    BY <1>2, <2>1, <2>3 DEF Carries
  <2> QED  BY <2>2, <2>3
<1>3. ASSUME ~Owns("juniper", p), ~Owns("arista", p)
      PROVE  Carries(c, p, a)
  BY <1>3 DEF Carries
<1> QED  BY <1>1, <1>2, <1>3

LEMMA ApartVlans ==
  ASSUME Apart, NEW a \in Assignments \union {None}, NEW p \in Nics, NEW v, v = GetVlan(a, p)
  PROVE  /\ v # 0
         /\ Public(a, p) => v \in PublicVlans /\ v \notin PlainVlans
         /\ ~Public(a, p) => v \in PlainVlans /\ v \notin PublicVlans
BY VlanOf DEF Apart

(* A Junos port whose only VLAN is the wanted one carries it.              *)
LEMMA JuniperRight ==
  ASSUME Apart, NEW a \in Assignments \union {None}, NEW p \in Nics, Owns("juniper", p),
         NEW c, PlainPort(c), NEW v, v = GetVlan(a, p)
  PROVE  /\ c.group = v /\ v \in c.members => Carries(c, p, a)
         /\ c.native = v => Carries(c, p, a)
<1>1. /\ v # 0
      /\ Public(a, p) => v \in PublicVlans /\ v \notin PlainVlans
      /\ ~Public(a, p) => v \in PlainVlans /\ v \notin PublicVlans
  BY ApartVlans
<1>2. Carries(c, p, a) <=>
        IF Public(a, p) THEN c.native = v /\ c.group = 0 ELSE c.group = v /\ v \in c.members
  BY CarriesIs
<1> QED  BY <1>1, <1>2 DEF PlainPort

LEMMA AristaRight ==
  ASSUME Apart, NEW a \in Assignments \union {None}, NEW p \in Nics, Owns("arista", p),
         NEW c, Settled(c), AristaVlan(c) = GetVlan(a, p)
  PROVE  Carries(c, p, a)
<1> DEFINE v == GetVlan(a, p)
<1>1. /\ v # 0
      /\ Public(a, p) => v \in PublicVlans /\ v \notin PlainVlans
      /\ ~Public(a, p) => v \in PlainVlans /\ v \notin PublicVlans
  BY ApartVlans
<1>2. Carries(c, p, a) <=>
        IF Public(a, p) THEN c.mode = "trunk" /\ c.native = v ELSE c.mode = "tunnel" /\ c.access = v
  BY CarriesIs
<1> HIDE DEF v
<1>3. IF c.access # 0 THEN c.access = v ELSE c.native = v
  BY DEF AristaVlan, v
<1> QED  BY <1>1, <1>2, <1>3 DEF Settled

LEMMA JuniperConfigureTells ==
  ASSUME TypeInv, PortInv, PortsSingle, Apart, NEW self \in Processes, JuniperConfigure(self)
  PROVE  Told(self)
<1> DEFINE x == w[self]
           p == x.nic
           a == x.will
           seen == JuniperConfigured(conf[p])
           new == GetVlan(a, p)
<1>1. /\ x.op = "configure" /\ p \in Nics /\ Owns("juniper", p) /\ Plugin(self) = "juniper"
  BY ReadingAt, TypeInvIs DEF JuniperConfigure, Ops
<1>2. /\ x \in Work /\ x.was \in Assignments \union {None} /\ a \in Assignments \union {None}
  BY AtWork, TypeInvIs
<1>3. /\ Eased(x, x) /\ Eased(x, [x EXCEPT !.passed = @ \union {p}]) /\ [x EXCEPT !.passed = @ \union {p}] \in Work
      /\ p \in [x EXCEPT !.passed = @ \union {p}].passed
  <2>1. Eased(x, x) /\ Eased(x, [x EXCEPT !.passed = @ \union {p}])
    BY <1>1, <1>2, EasedItself
  <2>2. p \in [x EXCEPT !.passed = @ \union {p}].passed
    BY <1>2 DEF Work
  <2> QED  BY <2>1, <2>2 DEF Eased
<1>4. PICK see \in {0, seen} : Configure(self, see, FALSE) \/ Configure(self, see, TRUE)
  BY Zenon DEF JuniperConfigure
<1> DEFINE old == IF see # 0 THEN see ELSE GetVlan(x.was, p)
           s == ConfigureScript(Plugin(self), a, p, old, new)
<1>5. see \in Vlans /\ old \in Vlans
  <2>1. seen \in Vlans /\ 0 \in Vlans
    BY <1>1, PortTypes, TypeInvIs, VlanNumbers DEF JuniperConfigured, JuniperPort
  <2>2. see \in Vlans
    BY <1>4, <2>1
  <2> QED  BY <1>1, <1>2, <2>2, VlanOf
<1>6. /\ old = new => IF see = 0 THEN w' = Pass(self, [x EXCEPT !.passed = @ \union {p}]) ELSE w' = Pass(self, x)
      /\ old # new => w' = Drive(self, s)
  BY <1>4 DEF Configure
<1>7. CASE old = new /\ see = 0
  <2>1. RightNow(self, [x EXCEPT !.passed = @ \union {p}])
    BY <1>3 DEF RightNow
  <2> QED  BY <1>3, <1>6, <1>7, <2>1 DEF Told
<1>8. CASE old = new /\ see # 0
  <2>1. see = seen /\ seen = new /\ new # 0
    BY <1>4, <1>8
  <2>2. p \notin doubt => conf[p].members = {conf[p].group} \ {0}
    BY <1>1 DEF PortsSingle, Single
  <2>3. conf[p].group = new
    BY <2>1 DEF JuniperConfigured
  <2>4. PlainPort(conf[p])
    BY <1>1 DEF PortInv
  <2>5. p \notin doubt => Carries(conf[p], p, a)
    <3>1. p \notin doubt => new \in conf[p].members
      BY <2>1, <2>2, <2>3
    <3> QED  BY <1>1, <1>2, <2>3, <2>4, <3>1, JuniperRight
  <2>6. RightNow(self, x)
    BY <1>1, <2>5 DEF RightNow, RightAt
  <2> QED  BY <1>2, <1>3, <1>6, <1>8, <2>6 DEF Told
<1>9. CASE old # new
  <2>1. s = IF Public(a, p) THEN JuniperConvertPublic(old, new) ELSE JuniperSetPort(old, new)
    BY <1>1 DEF ConfigureScript
  <2>2. Says(s, a, p, Plugin(self))
    <3> HIDE DEF s, old
    <3> QED  BY <1>1, <1>5, <2>1 DEF Says
  <2> HIDE DEF s
  <2> QED  BY <1>6, <1>9, <2>2 DEF Told
<1> QED  BY <1>7, <1>8, <1>9

LEMMA AristaConfigureTells ==
  ASSUME TypeInv, PortInv, Apart, NEW self \in Processes, AristaConfigure(self)
  PROVE  Told(self)
<1> DEFINE x == w[self]
           p == x.nic
           a == x.will
           seen == AristaVlan(conf[p])
           new == GetVlan(a, p)
<1>1. /\ x.op = "configure" /\ p \in Nics /\ Owns("arista", p) /\ Plugin(self) = "arista"
  BY ReadingAt, TypeInvIs DEF AristaConfigure, Ops
<1>2. /\ x \in Work /\ a \in Assignments \union {None}
  BY AtWork, TypeInvIs
<1>3. /\ Eased(x, x) /\ Eased(x, [x EXCEPT !.passed = @ \union {p}]) /\ [x EXCEPT !.passed = @ \union {p}] \in Work
      /\ p \in [x EXCEPT !.passed = @ \union {p}].passed
  <2>1. Eased(x, x) /\ Eased(x, [x EXCEPT !.passed = @ \union {p}])
    BY <1>1, <1>2, EasedItself
  <2>2. p \in [x EXCEPT !.passed = @ \union {p}].passed
    BY <1>2 DEF Work
  <2> QED  BY <2>1, <2>2 DEF Eased
<1>4. PICK see \in {0, seen} : Configure(self, see, FALSE) \/ Configure(self, see, TRUE)
  BY Zenon DEF AristaConfigure
<1> DEFINE old == IF see # 0 THEN see ELSE GetVlan(x.was, p)
           s == ConfigureScript(Plugin(self), a, p, old, new)
<1>6. /\ old = new => IF see = 0 THEN w' = Pass(self, [x EXCEPT !.passed = @ \union {p}]) ELSE w' = Pass(self, x)
      /\ old # new => w' = Drive(self, s)
  BY <1>4 DEF Configure
<1>7. CASE old = new /\ see = 0
  <2>1. RightNow(self, [x EXCEPT !.passed = @ \union {p}])
    BY <1>3 DEF RightNow
  <2> QED  BY <1>3, <1>6, <1>7, <2>1 DEF Told
<1>8. CASE old = new /\ see # 0
  <2>1. AristaVlan(conf[p]) = GetVlan(a, p)
    BY <1>4, <1>8
  <2>4. Settled(conf[p])
    BY <1>1 DEF PortInv
  <2>5. Carries(conf[p], p, a)
    BY <1>1, <1>2, <2>1, <2>4, AristaRight
  <2>6. RightNow(self, x)
    BY <1>1, <2>5 DEF RightNow, RightAt
  <2> QED  BY <1>2, <1>3, <1>6, <1>8, <2>6 DEF Told
<1>9. CASE old # new
  <2>1. s = IF Public(a, p) THEN AristaConvertPublic(new) ELSE AristaSetPort(new)
    BY <1>1 DEF ConfigureScript
  <2>2. Says(s, a, p, Plugin(self))
    <3> HIDE DEF s, old
    <3> QED  BY <1>1, <2>1 DEF Says
  <2> HIDE DEF s
  <2> QED  BY <1>6, <1>9, <2>2 DEF Told
<1> QED  BY <1>7, <1>8, <1>9

LEMMA JuniperVerifyTells ==
  ASSUME TypeInv, PortInv, PortsSingle, Apart, NEW self \in Processes, JuniperVerify(self)
  PROVE  Told(self)
<1> DEFINE x == w[self]
           p == x.nic
           a == x.will
           c == conf[p]
           vlan == GetVlan(a, p)
<1>1. /\ x.op = "verify" /\ p \in Nics /\ Owns("juniper", p) /\ Plugin(self) = "juniper"
  BY ReadingAt, TypeInvIs DEF JuniperVerify, Ops
<1>2. /\ x \in Work /\ a \in Assignments \union {None} /\ c \in JuniperPort
  BY <1>1, AtWork, PortTypes, TypeInvIs
<1>3. /\ Eased(x, x) /\ Eased(x, [x EXCEPT !.ok = FALSE]) /\ [x EXCEPT !.ok = FALSE] \in Work
      /\ ~[x EXCEPT !.ok = FALSE].ok
  <2>1. Eased(x, x) /\ Eased(x, [x EXCEPT !.ok = FALSE])
    BY <1>1, <1>2, EasedItself
  <2>2. ~[x EXCEPT !.ok = FALSE].ok
    BY <1>2 DEF Work
  <2> QED  BY <2>1, <2>2 DEF Eased
<1>4. PICK see \in {0, JuniperInterface(c)}, m \in {0} \union JuniperMembers(c) :
        JuniperCompare(self, see, m, FALSE) \/ JuniperCompare(self, see, m, TRUE)
  BY Zenon DEF JuniperVerify
<1> DEFINE member == IF m = 0 /\ Public(a, p) /\ see # 0 THEN c.native ELSE m
           right == member = vlan
           s == IF ~Public(a, p) THEN JuniperSetPort(member, vlan)
                ELSE IF vlan # see THEN JuniperConvertPublic(see, vlan)
                ELSE <<>>
<1>5. Judge(self, right, s, TRUE) \/ Judge(self, right, s, FALSE)
  BY <1>4, Zenon DEF JuniperCompare
<1>6. /\ see \in Vlans /\ m \in Vlans /\ member \in Vlans
      /\ m # 0 => m \in c.members
  BY <1>2, <1>4, VlanNumbers DEF JuniperInterface, JuniperMembers, JuniperPort
<1>7. /\ vlan # 0
      /\ Public(a, p) => vlan \in PublicVlans /\ vlan \notin PlainVlans
      /\ ~Public(a, p) => vlan \in PlainVlans /\ vlan \notin PublicVlans
  BY <1>1, <1>2, ApartVlans
<1>8. PlainPort(c)
  BY <1>1 DEF PortInv
<1>9. ASSUME c.native = vlan \/ (vlan \in c.members /\ m = vlan)
      PROVE  RightNow(self, x)
  <2>1. CASE c.native = vlan
    <3>1. Carries(c, p, a)
      BY <1>1, <1>2, <1>8, <2>1, JuniperRight
    <3> QED  BY <1>1, <3>1, OneOwner DEF RightNow, RightAt
  <2>2. CASE vlan \in c.members
    <3>1. p \notin doubt => c.members = {c.group} \ {0}
      BY <1>1 DEF PortsSingle, Single
    <3>2. p \notin doubt => c.group = vlan
      BY <2>2, <3>1
    <3>3. p \notin doubt => Carries(c, p, a)
      BY <1>1, <1>2, <1>8, <2>2, <3>2, JuniperRight
    <3> QED  BY <1>1, <3>3, OneOwner DEF RightNow, RightAt
  <2> QED  BY <1>9, <2>1, <2>2
<1>10. CASE right /\ w' = Pass(self, x)
  <2>1. RightNow(self, x)
    BY <1>6, <1>7, <1>9, <1>10
  <2> QED  BY <1>2, <1>3, <1>10, <2>1 DEF Told
<1>11. CASE w' = Pass(self, [x EXCEPT !.ok = FALSE])
  BY <1>3, <1>11 DEF Told
<1>12. CASE s = <<>> /\ w' = Pass(self, x)
  <2>1. Public(a, p) /\ vlan = see
    <3>1. ~Public(a, p) => JuniperSetPort(member, vlan) \in JuniperScripts
      BY <1>6, <1>7, JuniperLines
    <3>2. Public(a, p) => JuniperConvertPublic(see, vlan) \in JuniperScripts
      BY <1>6, <1>7, JuniperLines
    <3>3. \A z \in JuniperScripts : z # <<>>
      BY JuniperStretch
    <3> HIDE DEF member, vlan
    <3> QED  BY <1>12, <3>1, <3>2, <3>3
  <2>2. c.native = vlan
    <3>1. vlan = JuniperInterface(c)
      BY <1>4, <1>7, <2>1
    <3> HIDE DEF vlan
    <3> QED  BY <1>7, <1>8, <2>1, <3>1 DEF JuniperInterface, PlainPort
  <2>3. RightNow(self, x)
    BY <1>9, <2>2
  <2> QED  BY <1>2, <1>3, <1>12, <2>3 DEF Told
<1>13. CASE s # <<>> /\ w' = Drive(self, s)
  <2>1. Says(s, a, p, Plugin(self))
    <3> HIDE DEF member, vlan
    <3>1. s = IF Public(a, p) THEN JuniperConvertPublic(see, vlan) ELSE JuniperSetPort(member, vlan)
      BY <1>13
    <3> HIDE DEF s
    <3> QED  BY <1>1, <1>6, <3>1 DEF Says, vlan
  <2> HIDE DEF s
  <2> QED  BY <1>13, <2>1 DEF Told
<1>14. \/ right /\ w' = Pass(self, x)
       \/ w' = Pass(self, [x EXCEPT !.ok = FALSE])
       \/ s = <<>> /\ w' = Pass(self, x)
       \/ s # <<>> /\ w' = Drive(self, s)
  <2> HIDE DEF s, right
  <2> QED  BY <1>5 DEF Judge
<1> QED  BY <1>10, <1>11, <1>12, <1>13, <1>14

LEMMA AristaVerifyTells ==
  ASSUME TypeInv, PortInv, Apart, NEW self \in Processes, AristaVerify(self)
  PROVE  Told(self)
<1> DEFINE x == w[self]
           p == x.nic
           a == x.will
           c == conf[p]
           vlan == GetVlan(a, p)
           s == IF Public(a, p) THEN AristaConvertPublic(vlan) ELSE AristaSetPort(vlan)
<1>1. /\ x.op = "verify" /\ p \in Nics /\ Owns("arista", p) /\ Plugin(self) = "arista"
  BY ReadingAt, TypeInvIs DEF AristaVerify, Ops
<1>2. /\ x \in Work /\ a \in Assignments \union {None}
  BY <1>1, AtWork, TypeInvIs
<1>3. /\ Eased(x, x) /\ Eased(x, [x EXCEPT !.ok = FALSE]) /\ [x EXCEPT !.ok = FALSE] \in Work
      /\ ~[x EXCEPT !.ok = FALSE].ok
  <2>1. Eased(x, x) /\ Eased(x, [x EXCEPT !.ok = FALSE])
    BY <1>1, <1>2, EasedItself
  <2>2. ~[x EXCEPT !.ok = FALSE].ok
    BY <1>2 DEF Work
  <2> QED  BY <2>1, <2>2 DEF Eased
<1>4. PICK see \in {0, AristaVlan(c)} : AristaCompare(self, see, FALSE) \/ AristaCompare(self, see, TRUE)
  BY Zenon DEF AristaVerify
<1> DEFINE right == see = vlan /\ SpeedOk(c)
<1>5. Judge(self, right, s, TRUE) \/ Judge(self, right, s, FALSE)
  BY <1>4, Zenon DEF AristaCompare
<1>7. vlan # 0
  BY <1>1, <1>2, VlanOf
<1>8. Settled(c)
  BY <1>1 DEF PortInv
<1>9. s # <<>>
  <2>1. s \in AristaScripts
    <3>1. (Public(a, p) => vlan \in PublicVlans) /\ (~Public(a, p) => vlan \in PlainVlans)
      BY <1>1, <1>2, VlanOf
    <3> HIDE DEF vlan
    <3> QED  BY <3>1, VlanNumbers, JuniperLines
  <2> QED  BY <2>1, AristaStretch
<1>10. CASE right /\ w' = Pass(self, x)
  <2>1. AristaVlan(c) = GetVlan(a, p) /\ c.speed
    BY <1>4, <1>7, <1>10 DEF SpeedOk
  <2>2. Carries(c, p, a)
    BY <1>1, <1>2, <1>8, <2>1, AristaRight
  <2>3. RightNow(self, x)
    BY <2>1, <2>2 DEF RightNow, RightAt
  <2> QED  BY <1>2, <1>3, <1>10, <2>3 DEF Told
<1>11. CASE w' = Pass(self, [x EXCEPT !.ok = FALSE])
  BY <1>3, <1>11 DEF Told
<1>12. CASE w' = Drive(self, s)
  <2>1. Says(s, a, p, Plugin(self))
    BY <1>1 DEF Says
  <2> HIDE DEF s
  <2> QED  BY <1>12, <2>1 DEF Told
<1>13. \/ right /\ w' = Pass(self, x)
       \/ w' = Pass(self, [x EXCEPT !.ok = FALSE])
       \/ w' = Drive(self, s)
  <2> HIDE DEF s, right
  <2> QED  BY <1>5, <1>9 DEF Judge
<1> QED  BY <1>10, <1>11, <1>12, <1>13

(* What a whole session makes of the port it is aimed at.                  *)
LEMMA JuniperDone ==
  ASSUME NEW c \in JuniperPort, NEW p \in Nics, Owns("juniper", p), NEW a \in Assignments \union {None},
         NEW s, Says(s, a, p, "juniper"), NEW k, NEW t, Typed(t, s, k), Whole(k, s), NEW d, d = JuniperEdited(c, t)
  PROVE  Carries(d, p, a) /\ s \in JuniperScripts /\ k # 0
<1> DEFINE n == GetVlan(a, p)
<1>0. (Public(a, p) => n \in PublicVlans) /\ (~Public(a, p) => n \in PlainVlans) /\ n \in Vlans
  BY VlanOf
<1>1. PICK o \in Vlans : s = IF Public(a, p) THEN JuniperConvertPublic(o, n) ELSE JuniperSetPort(o, n)
  BY DEF Says
<1>2. s \in JuniperScripts
  <2> HIDE DEF n
  <2> QED  BY <1>0, <1>1, JuniperLines
<1>3. Stretch(s) \in 1..5 /\ Len(s) = Stretch(s) + 1
  BY <1>2, JuniperStretch
<1> DEFINE m == Stretch(s)
<1>m. k = m /\ m \in 1..5 /\ Len(s) = m + 1
  BY <1>3, Zenon DEF Whole
<1> HIDE DEF n
<1>4. CASE Public(a, p)
  <2>1. s = JuniperConvertPublic(o, n)
    BY <1>1, <1>4
  <2>2. Len(s) = (IF o = n THEN 4 ELSE 5)
    BY <1>0, <2>1, ScriptTypes
  <2>3. m + 1 = (IF o = n THEN 4 ELSE 5)
    BY <1>m, <2>2, Zenon
  <2>4. FirstOf(t, JuniperConvertPublic(o, n), k)
    BY <2>1 DEF Typed
  <2>5. k \in 0..4 /\ (k = 4 => o # n) /\ k >= 3
    <3> HIDE DEF m
    <3> QED  BY <1>m, <2>3
  <2>6. d.group = 0 /\ d.native = n
    <3>1. /\ d.group = (IF k >= 2 THEN 0 ELSE c.group)
          /\ d.native = (IF k >= 3 THEN n ELSE IF k = 2 THEN 0 ELSE c.native)
      BY <1>0, <2>4, <2>5, ConvertPublicLines
    <3> QED  BY <2>5, <3>1
  <2>7. Carries(d, p, a)
    BY <1>4, <2>6, CarriesIs DEF n
  <2>8. k # 0
    BY <2>5
  <2> QED  BY <1>2, <2>7, <2>8
<1>5. CASE ~Public(a, p)
  <2>1. s = JuniperSetPort(o, n)
    BY <1>1, <1>5
  <2>2. Len(s) = 6
    BY <1>0, <2>1, ScriptTypes
  <2>3. m + 1 = 6
    BY <1>m, <2>2, Zenon
  <2>4. FirstOf(t, JuniperSetPort(o, n), k)
    BY <2>1 DEF Typed
  <2>5. k \in 0..5 /\ k = 5
    <3> HIDE DEF m
    <3> QED  BY <1>m, <2>3
  <2>6. d.group = n /\ n \in d.members
    <3>1. /\ d.group = (IF k >= 3 THEN n ELSE IF k = 2 THEN 0 ELSE c.group)
          /\ d.members = (c.members \ (IF k >= 4 THEN {o} ELSE {})) \union (IF k = 5 THEN {n} ELSE {})
      BY <1>0, <2>4, <2>5, SetPortLines
    <3> QED  BY <2>5, <3>1
  <2>7. Carries(d, p, a)
    BY <1>5, <2>6, CarriesIs DEF n
  <2>8. k # 0
    BY <2>5
  <2> QED  BY <1>2, <2>7, <2>8
<1> QED  BY <1>4, <1>5

LEMMA AristaDone ==
  ASSUME NEW c \in AristaPort, NEW p \in Nics, Owns("arista", p), NEW a \in Assignments \union {None},
         NEW s, Says(s, a, p, "arista"), NEW k, NEW t, Typed(t, s, k), Whole(k, s), NEW d, d = AristaEdited(c, t)
  PROVE  Carries(d, p, a) /\ d.speed
<1> DEFINE n == GetVlan(a, p)
<1>0. /\ (Public(a, p) => n \in PublicVlans) /\ (~Public(a, p) => n \in PlainVlans) /\ n \in Vlans
      /\ c.speed \in BOOLEAN
  BY VlanOf DEF AristaPort
<1>1. s = IF Public(a, p) THEN AristaConvertPublic(n) ELSE AristaSetPort(n)
  BY DEF Says
<1>2. s \in AristaScripts
  <2> HIDE DEF n
  <2> QED  BY <1>0, <1>1, VlanNumbers, JuniperLines
<1>3. Stretch(s) = Len(s)
  BY <1>2, AristaStretch
<1>m. k = Len(s)
  BY <1>3, Zenon DEF Whole
<1> HIDE DEF n
<1>4. CASE Public(a, p)
  <2>1. s = AristaConvertPublic(n)
    BY <1>1, <1>4
  <2>2. Len(s) = 7
    BY <1>0, <2>1, ScriptTypes
  <2>3. k = 7
    BY <1>m, <2>2, Zenon
  <2>4. FirstOf(t, AristaConvertPublic(n), k)
    BY <2>1 DEF Typed
  <2>5. k \in 0..7
    BY <2>3
  <2>6. /\ d.mode = (IF k >= 2 THEN "trunk" ELSE c.mode)
        /\ d.native = (IF k >= 3 THEN n ELSE c.native)
        /\ k >= 6 => d.speed
    BY <1>0, <2>4, <2>5, AristaConvertPublicLines
  <2>7. d.mode = "trunk" /\ d.native = n /\ d.speed
    BY <2>3, <2>6
  <2> QED  BY <1>4, <2>7, CarriesIs DEF n
<1>5. CASE ~Public(a, p)
  <2>1. s = AristaSetPort(n)
    BY <1>1, <1>5
  <2>2. Len(s) = 6
    BY <1>0, <2>1, ScriptTypes
  <2>3. k = 6
    BY <1>m, <2>2, Zenon
  <2>4. FirstOf(t, AristaSetPort(n), k)
    BY <2>1 DEF Typed
  <2>5. k \in 0..6
    BY <2>3
  <2>6. /\ d.mode = (IF k >= 2 THEN "tunnel" ELSE c.mode)
        /\ d.access = (IF k >= 3 THEN n ELSE c.access)
        /\ k >= 5 => d.speed
    BY <1>0, <2>4, <2>5, AristaSetPortLines
  <2>7. d.mode = "tunnel" /\ d.access = n /\ d.speed
    BY <2>3, <2>6
  <2> QED  BY <1>5, <2>7, CarriesIs DEF n
<1> QED  BY <1>4, <1>5

----------------------------------------------------------------------------
(* What a process has dealt with is right, until another one interferes.   *)

Judges == {"configure", "verify"}

(* The ports a process has behind it.                                      *)
LEMMA BehindIs ==
  ASSUME NEW x
  PROVE  /\ Behind(x) \subseteq Nics
         /\ \A p \in Nics : p \in Behind(x) <=> ((x.plugin = 2 /\ Owns("juniper", p))
                                                \/ (Owns(Plugins[x.plugin], p) /\ p < x.nic))
BY Zenon DEF Behind

LEMMA RightLater ==
  ASSUME vendor' = vendor, NEW p \in Nics, NEW y, NEW z, z.op = y.op, Target(z)' = Target(y),
         RightAt(conf'[p], Target(y), y.op, p)
  PROVE  RightAt(conf[p], Target(z), z.op, p)'
BY DEF RightAt, Carries, Owns

LEMMA Untouched ==
  ASSUME NEW x, FollowedBy(x), UNCHANGED <<vendor, assignment, cloud, conf, candidate>>, doubt \subseteq doubt'
  PROVE  FollowedBy(x)'
<1>1. Target(x)' = Target(x)
  BY DEF Target
<1>2. \A p \in Nics : RightAt(conf[p], Target(x), x.op, p) => RightAt(conf[p], Target(x), x.op, p)'
  BY <1>1 DEF RightAt, Carries, Owns
<1>3. Behind(x)' = Behind(x)
  BY DEF Behind, Owns
<1>4. Aimed(x) => Aimed(x)'
  BY DEF Aimed, Carries, Owns
<1>5. Behind(x) \subseteq Nics
  BY DEF Behind
<1> QED  BY <1>1, <1>2, <1>3, <1>4, <1>5 DEF FollowedBy

LEMMA CrossedFollows ==
  ASSUME NEW x, FollowedBy(x), NEW z, Alike(x, z), z.crossed \/ x.op \notin Judges
  PROVE  FollowedBy(z)'
BY DEF FollowedBy, Alike, Judges

LEMMA FailedFollows ==
  ASSUME NEW z, ~z.ok \/ z.op \notin Judges, z.op = "verify" => z.passed = {}
  PROVE  FollowedBy(z)'
BY DEF FollowedBy, Judges

(* The NIC in hand is dealt with.                                          *)
LEMMA PassedFollows ==
  ASSUME TypeInv, NEW y \in Work, y.op \in Judges, y.op = "verify" => y.passed = {}, y.nic \in Nics,
         NEW z, z = Passed(y), UNCHANGED <<vendor, assignment, cloud>>, doubt \subseteq doubt',
         y.ok /\ ~y.crossed =>
           /\ y.will = Target(y)
           /\ \A r \in (Behind(y) \union {y.nic}) \ (y.passed \union doubt) : RightAt(conf'[r], Target(y), y.op, r)
  PROVE  /\ FollowedBy(z)'
         /\ z.op = "done" => z.passed = y.passed
         /\ z.op = "done" /\ ~y.crossed =>
              \A r \in Nics \ (z.passed \union doubt) : RightAt(conf'[r], Target(y), y.op, r)
<1>0. /\ y.op \in Ops /\ y.plugin \in {1, 2} /\ Nics \subseteq Nat /\ y.op # "done"
      /\ Plugins[1] = "juniper" /\ Plugins[2] = "arista"
  BY PluginNames, NicNumbers DEF Judges, Ops, Work
<1>1. /\ z.script = <<>>
      /\ \/ /\ z.nic # 0 /\ z.plugin = y.plugin /\ z.op = y.op /\ z.new = y.new
            /\ z.passed = y.passed
            /\ z.crossed = y.crossed /\ z.ok = y.ok /\ z.will = y.will /\ z.nic \in Nics
            /\ \A p \in Nics : Owns(Plugins[y.plugin], p) /\ p < z.nic => p <= y.nic
         \/ /\ z.nic = 0
            /\ MovesOn(y, z, TRUE) \/ Finishes(y, z, TRUE) \/ z = Idle
            /\ \A p \in Nics : Owns(Plugins[y.plugin], p) => p <= y.nic
  BY <1>0, PassedWell, ZenonT(40) DEF WorkOK
<1>2. ASSUME z.op = y.op, z.new = y.new, z.passed = y.passed, z.crossed = y.crossed, z.ok => y.ok,
             z.nic # 0 => z.will = y.will,
             Behind(z) \subseteq Behind(y) \union {y.nic}
      PROVE  FollowedBy(z)'
  <2>1. Target(z)' = Target(y) /\ Target(z) = Target(y)
    BY <1>2 DEF Target
  <2>2. Behind(z)' = Behind(z) /\ Behind(z) \subseteq Nics
    BY DEF Behind, Owns
  <2>3. Aimed(z)'
    BY <1>1 DEF Aimed
  <2> SUFFICES ASSUME z.ok, ~z.crossed
               PROVE  /\ z.nic # 0 => z.will = Target(z)'
                      /\ \A p \in Behind(z) \ (z.passed \union doubt') : RightAt(conf[p], Target(z), z.op, p)'
    BY <1>2, <2>2, <2>3 DEF FollowedBy
  <2>4. ASSUME NEW p \in Behind(z) \ (z.passed \union doubt')
        PROVE  RightAt(conf[p], Target(z), z.op, p)'
    <3>1. RightAt(conf'[p], Target(y), y.op, p)
      BY <1>2, <2>4
    <3> QED  BY <1>2, <2>1, <2>2, <2>4, <3>1, RightLater
  <2> QED  BY <1>2, <2>1, <2>4
<1>3. CASE z.nic # 0
  <2>0. z.plugin = y.plugin /\ \A p \in Nics : Owns(Plugins[y.plugin], p) /\ p < z.nic => p <= y.nic
    BY <1>1, <1>3
  <2>1. Behind(z) \subseteq Behind(y) \union {y.nic}
    <3> SUFFICES ASSUME NEW p \in Behind(z)
                 PROVE  p \in Behind(y) \union {y.nic}
      OBVIOUS
    <3>1. p \in Nics
      BY BehindIs, Zenon
    <3>2. \/ y.plugin = 2 /\ Owns("juniper", p)
          \/ Owns(Plugins[y.plugin], p) /\ p < z.nic
      BY <2>0, <3>1, BehindIs, Zenon
    <3>3. \/ y.plugin = 2 /\ Owns("juniper", p)
          \/ Owns(Plugins[y.plugin], p) /\ p < y.nic
          \/ p = y.nic
      <4>1. p \in Nat /\ y.nic \in Nat
        BY <1>0, <3>1
      <4>2. p <= y.nic => p < y.nic \/ p = y.nic
        BY <4>1
      <4> QED  BY <2>0, <3>1, <3>2, <4>2, Zenon
    <3> QED  BY <3>1, <3>3, BehindIs, Zenon
  <2> QED  BY <1>0, <1>1, <1>2, <1>3, <2>1
<1>4. CASE z.nic = 0 /\ MovesOn(y, z, TRUE)
  <2>1. z.plugin = 2 /\ y.plugin = 1 /\ z.op = y.op /\ z.new = y.new /\ z.passed = y.passed
        /\ z.crossed = y.crossed /\ (z.ok => y.ok)
    BY <1>4 DEF MovesOn
  <2>2. Behind(z) \subseteq Behind(y) \union {y.nic}
    <3> SUFFICES ASSUME NEW p \in Behind(z)
                 PROVE  p \in Behind(y) \union {y.nic}
      OBVIOUS
    <3>1. p \in Nics
      BY BehindIs, Zenon
    <3>0. \A n \in Nat : ~(n < 0)
      OBVIOUS
    <3>2. p \in Nat /\ y.nic \in Nat /\ z.nic = 0 /\ ~(p < 0)
      BY <1>0, <1>4, <3>0, <3>1
    <3>3. Owns("juniper", p)
      BY <3>1, <3>2, BehindIs, Zenon
    <3>4. Owns(Plugins[y.plugin], p)
      BY <1>0, <2>1, <3>3, Zenon
    <3>5. p <= y.nic
      BY <1>1, <1>4, <3>1, <3>4
    <3>6. p < y.nic \/ p = y.nic
      BY <3>2, <3>5
    <3> QED  BY <3>1, <3>4, <3>6, BehindIs, Zenon
  <2> QED  BY <1>0, <1>2, <1>4, <2>1, <2>2
<1>5. CASE z.nic = 0 /\ Finishes(y, z, TRUE)
  <2>1. z.op = "done" /\ z.passed = y.passed /\ y.plugin = 2 /\ y.ok
    BY <1>5 DEF Finishes
  <2>2. FollowedBy(z)'
    BY <2>1, FailedFollows DEF Judges
  <2>3. ASSUME ~y.crossed, NEW r \in Nics \ (z.passed \union doubt)
        PROVE  RightAt(conf'[r], Target(y), y.op, r)
    <3>1. CASE Owns("juniper", r)
      <4>1. r \in Behind(y)
        BY <2>1, <2>3, <3>1, BehindIs, Zenon
      <4> QED  BY <2>1, <2>3, <4>1
    <3>2. CASE Owns("arista", r)
      <4>1. r <= y.nic
        BY <1>0, <1>1, <1>5, <2>1, <3>2
      <4>2. r \in Nat /\ y.nic \in Nat
        BY <1>0, <2>3
      <4>3. r < y.nic \/ r = y.nic
        BY <4>1, <4>2
      <4>4. Owns(Plugins[y.plugin], r)
        BY <1>0, <2>1, <3>2, Zenon
      <4>5. r \in Behind(y) \union {y.nic}
        BY <2>3, <4>3, <4>4, BehindIs, Zenon
      <4> QED  BY <2>1, <2>3, <4>5
    <3>3. CASE ~Owns("juniper", r) /\ ~Owns("arista", r)
      BY <3>3, CarriesIs DEF RightAt
    <3> QED  BY <3>1, <3>2, <3>3
  <2> QED  BY <2>1, <2>2, <2>3
<1>6. CASE z = Idle
  BY <1>6, IdleOK, FailedFollows DEF Judges
<1> QED  BY <1>1, <1>3, <1>4, <1>5, <1>6

----------------------------------------------------------------------------
(* What a step leaves of both processes, and an answer it gives.           *)

DoneWell(self) ==
  w'[self].op = "done" /\ w[self].op \in Judges =>
    /\ w[self].op = "verify" => w'[self].passed = {}
    /\ ~w[self].crossed => \A r \in Nics \ (w'[self].passed \union doubt) : RightAt(conf'[r], Target(w[self]), w[self].op, r)

Fine == Followed' /\ \A q \in Processes : DoneWell(q)

(* The other process is left alone, or crossed.                            *)
Spared(self) ==
  \/ Busy(Other(self)) => w'[Other(self)].crossed
  \/ /\ w'[Other(self)] = w[Other(self)] /\ doubt \subseteq doubt'
     /\ UNCHANGED <<vendor, assignment, cloud, conf, candidate>>

LEMMA FollowedNow ==
  ASSUME NEW q, NEW z, w'[q] = z, FollowedBy(z)'
  PROVE  FollowedBy(w[q])'
BY DEF FollowedBy, Target, Behind, Aimed

LEMMA SparedFollows ==
  ASSUME NEW x, FollowedBy(x), NEW z, z = x, doubt \subseteq doubt',
         UNCHANGED <<vendor, assignment, cloud, conf, candidate>>
  PROVE  FollowedBy(z)'
BY Untouched

LEMMA TurnFine ==
  ASSUME TypeInv, Followed, NEW self \in Processes, NEW y, Turn(self, y), Spared(self), FollowedBy(y)',
         DoneWell(self)
  PROVE  Fine
<1> DEFINE o == Other(self)
<1>0. o \in Processes /\ \A q \in Processes : q = self \/ q = o
  BY TwoProcesses
<1>1. w'[self] = y /\ Alike(w[o], w'[o])
  BY DEF Turn
<1>2. FollowedBy(w[self])'
  BY <1>1, FollowedNow
<1>3. FollowedBy(w[o])'
  <2>1. FollowedBy(w[o])
    BY <1>0 DEF Followed
  <2>2. PICK z : z = w'[o]
    OBVIOUS
  <2>3. CASE Busy(o) => w'[o].crossed
    <3>1. z.crossed \/ w[o].op \notin Judges
      BY <2>2, <2>3 DEF Busy, Judges
    <3>2. FollowedBy(z)'
      BY <1>1, <2>1, <2>2, <3>1, CrossedFollows
    <3> QED  BY <2>2, <3>2, FollowedNow
  <2>4. CASE ~(Busy(o) => w'[o].crossed)
    <3>1. w'[o] = w[o] /\ doubt \subseteq doubt' /\ UNCHANGED <<vendor, assignment, cloud, conf, candidate>>
      BY <2>4 DEF Spared
    <3>3. PICK x : x = w[o]
      OBVIOUS
    <3>2. FollowedBy(z)'
      BY <2>1, <2>2, <3>1, <3>3, SparedFollows
    <3> QED  BY <2>2, <3>2, FollowedNow
  <2> QED  BY <2>3, <2>4
<1>4. Followed'
  BY <1>0, <1>2, <1>3, Zenon DEF Followed
<1>5. DoneWell(o)
  BY <1>1 DEF DoneWell, Alike, Judges
<1> QED  BY <1>0, <1>4, <1>5, Zenon DEF Fine

(* A process that neither judges nor answers.                              *)
LEMMA IdleFine ==
  ASSUME TypeInv, Followed, NEW self \in Processes, NEW y, Turn(self, y), Spared(self),
         ~y.ok \/ y.op \notin Judges, y.op # "done" \/ w[self].op \notin Judges,
         y.op = "verify" => y.passed = {}
  PROVE  Fine
<1>1. FollowedBy(y)'
  BY FailedFollows
<1>2. DoneWell(self)
  BY DEF DoneWell, Turn
<1> QED  BY <1>1, <1>2, TurnFine

LEMMA FollowedOne ==
  ASSUME TypeInv, Followed, NEW self \in Processes
  PROVE  /\ FollowedBy(w[self]) /\ w[self] \in Work /\ WellScripted(w[self])
         /\ w[self].op = "verify" => w[self].passed = {}
BY ScriptedNow DEF Followed, FollowedBy

LEMMA CallsFine ==
  ASSUME TypeInv, Followed, MoveHost \/ VerifySwitchConf \/ ModSwitchConf \/ Land
  PROVE  Fine
<1>0. "mover" \in Processes /\ "operator" \in Processes /\ Other("mover") = "operator" /\ Other("operator") = "mover"
  BY DEF Processes, Other
<1>1. ASSUME NEW y, y.script = <<>>, y.nic = 0, y.plugin = 1, y.passed = {}
      PROVE  FollowedBy(y)'
  <2>2. Behind(y)' = {}
    <3>1. ASSUME NEW p \in Nics
          PROVE  ~(p < y.nic)
      BY <1>1, <3>1, NicNumbers
    <3>2. y.plugin # 2
      BY <1>1
    <3> QED  BY <3>1, <3>2, Zenon DEF Behind
  <2>3. Aimed(y)'
    BY <1>1 DEF Aimed
  <2> QED  BY <1>1, <2>2, <2>3 DEF FollowedBy
<1>2. CASE MoveHost
  <2>1. PICK y : /\ WellScripted(y) /\ Turn("mover", y) /\ y.script = <<>> /\ Still
                 /\ w'["operator"] = w["operator"] /\ UNCHANGED <<assignment, cloud, faults>>
                 /\ y.nic = 0 /\ y.op = "configure" /\ y.ok /\ y.plugin = 1 /\ y.passed = {}
    BY <1>2, MoveHostTurn
  <2>2. Spared("mover")
    BY <1>0, <2>1 DEF Spared, Still
  <2>3. DoneWell("mover")
    BY <2>1 DEF DoneWell, Turn
  <2> QED  BY <1>0, <1>1, <2>1, <2>2, <2>3, TurnFine
<1>3. CASE VerifySwitchConf \/ ModSwitchConf
  <2>1. PICK y : /\ WellScripted(y) /\ Turn("operator", y) /\ y.script = <<>> /\ Still
                 /\ w'["mover"] = w["mover"] /\ UNCHANGED <<assignment, cloud, faults>>
                 /\ y.nic = 0 /\ y.op \in {"verify", "modify"} /\ y.ok /\ y.plugin = 1 /\ y.passed = {}
    BY <1>3, CommandTurn
  <2>2. Spared("operator")
    BY <1>0, <2>1 DEF Spared, Still
  <2>3. DoneWell("operator")
    BY <2>1 DEF DoneWell, Turn
  <2> QED  BY <1>0, <1>1, <2>1, <2>2, <2>3, TurnFine
<1>4. CASE Land
  <2>1. Turn("mover", Idle) /\ (Busy("operator") => w'["operator"].crossed)
    BY <1>4, LandTurn
  <2>2. Spared("mover")
    BY <1>0, <2>1 DEF Spared
  <2> QED  BY <1>0, <2>1, <2>2, IdleOK, IdleFine DEF Judges
<1> QED  BY <1>2, <1>3, <1>4

LEMMA FailFine ==
  ASSUME TypeInv, Followed, NEW self \in Processes, Die(self) \/ Refused(self) \/ \E op \in Ops : Raise(self, op)
  PROVE  Fine
<1>0. w[self].op = "verify" => w[self].passed = {}
  BY FollowedOne
<1>1. CASE Refused(self)
  <2>1. PICK y : /\ Turn(self, y) /\ (Busy(Other(self)) => w'[Other(self)].crossed)
                 /\ y.op # "done" /\ ~y.ok
                 /\ y.op = "verify" => w[self].op = "verify" /\ y.passed = w[self].passed
    BY <1>1, RefusedTurn
  <2>2. Spared(self)
    BY <2>1 DEF Spared
  <2> QED  BY <1>0, <2>1, <2>2, IdleFine
<1>2. CASE Die(self) \/ \E op \in Ops : Raise(self, op)
  <2>1. PICK y : /\ Turn(self, y) /\ Still
                 /\ w'[Other(self)] = w[Other(self)] /\ UNCHANGED <<assignment, cloud>>
                 /\ y.op # "done" /\ ~y.ok
                 /\ y.op = "verify" => w[self].op = "verify" /\ y.passed = w[self].passed
    BY <1>2, FailTurn
  <2>2. Spared(self)
    BY <2>1 DEF Spared, Still
  <2> QED  BY <1>0, <2>1, <2>2, IdleFine
<1> QED  BY <1>1, <1>2

LEMMA ShiftFine ==
  ASSUME TypeInv, Followed, Shift
  PROVE  Fine
<1>1. ASSUME NEW q \in Processes
      PROVE  FollowedBy(w[q])' /\ DoneWell(q)
  <2>1. Alike(w[q], w'[q]) /\ (Busy(q) => w'[q].crossed)
    BY DEF Shift
  <2>2. FollowedBy(w[q])
    BY DEF Followed
  <2>3. PICK z : z = w'[q]
    OBVIOUS
  <2>4. z.crossed \/ w[q].op \notin Judges
    BY <2>1, <2>3 DEF Busy, Judges
  <2>5. FollowedBy(z)'
    BY <2>1, <2>2, <2>3, <2>4, CrossedFollows
  <2>6. DoneWell(q)
    BY <2>1 DEF DoneWell, Alike, Judges
  <2> QED  BY <2>3, <2>5, <2>6, FollowedNow
<1> QED  BY <1>1 DEF Fine, Followed

LEMMA StutterFine ==
  ASSUME Followed, UNCHANGED vars
  PROVE  Fine
<1>1. ASSUME NEW q \in Processes
      PROVE  FollowedBy(w[q])' /\ DoneWell(q)
  <2>1. w' = w /\ UNCHANGED <<vendor, assignment, cloud, conf, candidate, doubt>>
    BY DEF vars, demand, ports
  <2>2. FollowedBy(w[q])
    BY DEF Followed
  <2>3. PICK z : z = w[q]
    OBVIOUS
  <2>4. FollowedBy(z)'
    BY <2>1, <2>2, <2>3, SparedFollows
  <2>5. DoneWell(q)
    BY <2>1 DEF DoneWell, Judges
  <2> QED  BY <2>1, <2>3, <2>4, <2>5, FollowedNow
<1> QED  BY <1>1 DEF Fine, Followed

(* A plugin begins: none of its ports are behind the first one.            *)
LEMMA KeepsBehind ==
  ASSUME NEW x, FollowedBy(x), NEW z, z.op = x.op, z.new = x.new, z.passed = x.passed,
         z.crossed = x.crossed, z.ok => x.ok, z.script = <<>>, z.nic # 0 /\ z.op \in Judges => z.will = Target(z),
         Behind(z) \subseteq Behind(x), UNCHANGED <<vendor, assignment, cloud, conf, doubt>>
  PROVE  FollowedBy(z)'
<1>1. Target(z)' = Target(x) /\ Target(z) = Target(x)
  BY DEF Target
<1>2. Behind(z)' = Behind(z) /\ Behind(z) \subseteq Nics
  BY DEF Behind, Owns
<1>3. Aimed(z)'
  BY DEF Aimed
<1> SUFFICES ASSUME z.op \in Judges, z.ok, ~z.crossed
             PROVE  \A p \in Behind(z) \ (z.passed \union doubt') : RightAt(conf[p], Target(z), z.op, p)'
  BY <1>1, <1>2, <1>3 DEF FollowedBy, Judges
<1>4. ASSUME NEW p \in Behind(z) \ (z.passed \union doubt')
      PROVE  RightAt(conf[p], Target(z), z.op, p)'
  <2>1. RightAt(conf'[p], Target(x), x.op, p)
    BY <1>4 DEF FollowedBy, Judges
  <2> QED  BY <1>1, <1>2, <1>4, <2>1, RightLater
<1> QED  BY <1>4

LEMMA BeginFine ==
  ASSUME TypeInv, Followed, NEW self \in Processes, Begin(self)
  PROVE  Fine
<1> DEFINE x == w[self]
<1>0. /\ FollowedBy(x) /\ x \in Work /\ (x.op = "verify" => x.passed = {}) /\ x.plugin \in {1, 2}
      /\ Nics \subseteq Nat /\ Plugins[1] = "juniper" /\ Plugins[2] = "arista" /\ Plugin(self) = Plugins[x.plugin]
  BY FollowedOne, NicNumbers, PluginNames DEF Work, Plugin
<1>1. PICK y : /\ Turn(self, y) /\ y.script = <<>> /\ Still
               /\ w'[Other(self)] = w[Other(self)] /\ UNCHANGED <<assignment, cloud, faults>>
               /\ x.nic = 0 /\ x.op \in Ops /\ x.script = <<>>
               /\ \/ y = Answered(x, FALSE)
                  \/ y = Answered(x, TRUE) /\ \A p \in Nics : ~Owns(Plugin(self), p)
                  \/ /\ y.nic # 0 /\ \A p \in Nics : Owns(Plugin(self), p) => y.nic <= p
                     /\ y.plugin = x.plugin /\ y.op = x.op /\ y.new = x.new
                     /\ y.ok = x.ok /\ y.passed = x.passed /\ y.crossed = x.crossed
                     /\ y.op \in {"configure", "verify"} => y.will = Target(y)
                     /\ WellScripted(y)
  BY BeginTurn
<1>2. Spared(self)
  BY <1>1 DEF Spared, Still
<1>3. UNCHANGED <<vendor, assignment, cloud, conf, doubt>>
  BY <1>1 DEF Still
<1>4. CASE y = Answered(x, FALSE)
  <2>1. (MovesOn(x, y, FALSE) /\ ~y.ok /\ x.op = "verify") \/ y = Idle
    BY <1>0, <1>4, AnsweredBadly
  <2>2. (~y.ok \/ y.op \notin Judges) /\ y.op # "done" /\ (y.op = "verify" => y.passed = {})
    BY <1>0, <2>1, IdleOK DEF MovesOn, Judges
  <2> QED  BY <1>1, <1>2, <2>2, IdleFine
<1>5. CASE y = Answered(x, TRUE) /\ \A p \in Nics : ~Owns(Plugin(self), p)
  <2>0. y.nic = 0 /\ (MovesOn(x, y, TRUE) \/ Finishes(x, y, TRUE) \/ y = Idle)
    BY <1>0, <1>5, AnsweredWell
  <2>1. CASE MovesOn(x, y, TRUE)
    <3>1. /\ y.plugin = 2 /\ x.plugin = 1 /\ y.op = x.op /\ y.new = x.new /\ y.passed = x.passed
          /\ y.crossed = x.crossed /\ (y.ok => x.ok)
      BY <2>1 DEF MovesOn
    <3>2. Behind(y) \subseteq Behind(x)
      <4> SUFFICES ASSUME NEW p \in Behind(y)
                   PROVE  FALSE
        OBVIOUS
      <4>1. p \in Nics /\ ~(p < y.nic)
        <5>1. p \in Nics
          BY BehindIs, Zenon
        <5>2. p \in Nat /\ y.nic = 0
          BY <1>0, <2>0, <5>1
        <5> QED  BY <5>1, <5>2
      <4>2. Owns("juniper", p)
        BY <4>1, BehindIs, Zenon
      <4> QED  BY <1>0, <1>5, <3>1, <4>1, <4>2
    <3>3. FollowedBy(y)'
      BY <1>0, <1>1, <1>3, <2>0, <3>1, <3>2, KeepsBehind
    <3>4. DoneWell(self)
      BY <1>1, <3>1 DEF DoneWell, Turn, Ops
    <3> QED  BY <1>1, <1>2, <3>3, <3>4, TurnFine
  <2>2. CASE Finishes(x, y, TRUE)
    <3>1. y.op = "done" /\ y.passed = x.passed /\ x.plugin = 2 /\ x.ok
      BY <2>2 DEF Finishes
    <3>2. FollowedBy(y)'
      BY <3>1, FailedFollows DEF Judges
    <3>3. ASSUME x.op \in Judges, ~x.crossed, NEW r \in Nics \ (y.passed \union doubt)
          PROVE  RightAt(conf'[r], Target(x), x.op, r)
      <4>1. CASE Owns("juniper", r)
        <5>1. r \in Behind(x)
          BY <3>1, <3>3, <4>1, BehindIs, Zenon
        <5> QED  BY <1>0, <1>3, <3>1, <3>3, <5>1 DEF FollowedBy, Judges
      <4>2. CASE ~Owns("juniper", r)
        <5>1. ~Owns("arista", r)
          BY <1>0, <1>5, <3>1, <3>3
        <5> QED  BY <4>2, <5>1, CarriesIs DEF RightAt
      <4> QED  BY <4>1, <4>2
    <3>4. DoneWell(self)
      BY <1>0, <1>1, <3>1, <3>3 DEF DoneWell, Turn
    <3> QED  BY <1>1, <1>2, <3>2, <3>4, TurnFine
  <2>3. CASE y = Idle
    <3>1. y.op # "done" /\ y.op \notin Judges
      BY <2>3, IdleOK DEF Judges
    <3> QED  BY <1>1, <1>2, <3>1, IdleFine DEF Judges
  <2> QED  BY <2>0, <2>1, <2>2, <2>3
<1>6. CASE /\ y.nic # 0 /\ \A p \in Nics : Owns(Plugin(self), p) => y.nic <= p
           /\ y.plugin = x.plugin /\ y.op = x.op /\ y.new = x.new
           /\ y.ok = x.ok /\ y.passed = x.passed /\ y.crossed = x.crossed
           /\ y.op \in {"configure", "verify"} => y.will = Target(y)
           /\ WellScripted(y)
  <2>1. Behind(y) \subseteq Behind(x)
    <3> SUFFICES ASSUME NEW p \in Behind(y)
                 PROVE  p \in Behind(x)
      OBVIOUS
    <3>1. p \in Nics
      BY BehindIs, Zenon
    <3>2. CASE Owns(Plugins[x.plugin], p)
      <4>1. y.nic <= p /\ y.nic \in Nat /\ p \in Nat
        BY <1>0, <1>6, <3>1, <3>2 DEF WellScripted, WorkOK, Work
      <4>2. ~(p < y.nic)
        BY <4>1
      <4> QED  BY <1>6, <3>1, <4>2, BehindIs, Zenon
    <3>3. CASE ~Owns(Plugins[x.plugin], p)
      BY <1>6, <3>1, <3>3, BehindIs, Zenon
    <3> QED  BY <3>2, <3>3
  <2>2. FollowedBy(y)'
    BY <1>0, <1>1, <1>3, <1>6, <2>1, KeepsBehind DEF Judges
  <2>3. DoneWell(self)
    BY <1>1, <1>6 DEF DoneWell, Turn, Ops
  <2> QED  BY <1>1, <1>2, <2>2, <2>3, TurnFine
<1> QED  BY <1>1, <1>4, <1>5, <1>6

(* The ports are read: the one in hand is right, or will be told.          *)
LEMMA LooksFine ==
  ASSUME TypeInv, PortsSingle, PortInv, Followed, Apart, NEW self \in Processes,
         \/ JuniperConfigure(self) \/ AristaConfigure(self)
         \/ JuniperVerify(self) \/ AristaVerify(self)
         \/ JuniperModify(self) \/ AristaModify(self)
  PROVE  Fine
<1> DEFINE x == w[self]
<1>0. /\ FollowedBy(x) /\ x \in Work /\ WellScripted(x) /\ (x.op = "verify" => x.passed = {})
      /\ w \in [Processes -> Work]
  BY FollowedOne, ScriptedNow
<1>1. Looks(self)
  BY TypeInvIs, LooksStep
<1>2. /\ UNCHANGED <<vendor, assignment, cloud, conf, candidate>> /\ doubt \subseteq doubt'
      /\ x.nic \in Nics /\ x.op \in Ops /\ x.nic # 0
  BY <1>1, NicNumbers DEF Looks, AtPort, Busy, Ops
<1>3. w' \in [Processes -> Work]
  BY <1>1, LooksType DEF TypeInv, WorkInv
<1>4. CASE JuniperModify(self) \/ AristaModify(self)
  <2>1. x.op = "modify"
    BY <1>4 DEF JuniperModify, AristaModify, Reading
  <2>2. PICK y : /\ Turn(self, y) /\ w'[Other(self)] = w[Other(self)]
                 /\ \/ y.script = <<>> /\ \E z \in Work : Eased(x, z) /\ y = Passed(z)
                    \/ \E s \in ScriptsOf(Plugin(self)) : y = [x EXCEPT !.script = s] /\ s # <<>>
    BY <1>1, LooksTurn
  <2>3. y.op \notin Judges
    <3>1. CASE \E z \in Work : Eased(x, z) /\ y = Passed(z)
      <4>1. PICK z \in Work : Eased(x, z) /\ y = Passed(z)
        BY <3>1
      <4>2. z.op = "modify" /\ z.op \in Ops
        BY <2>1, <4>1 DEF Eased, Ops
      <4>3. y.op = z.op \/ MovesOn(z, y, TRUE) \/ Finishes(z, y, TRUE) \/ y = Idle
        BY <4>1, <4>2, PassedWell
      <4> QED  BY <4>2, <4>3, IdleOK DEF MovesOn, Finishes, Judges
    <3>2. CASE \E s \in ScriptsOf(Plugin(self)) : y = [x EXCEPT !.script = s] /\ s # <<>>
      BY <1>0, <2>1, <3>2 DEF Work, Judges
    <3> QED  BY <2>2, <3>1, <3>2
  <2>4. Spared(self)
    BY <1>2, <2>2 DEF Spared
  <2> QED  BY <2>1, <2>2, <2>3, <2>4, IdleFine DEF Judges
<1>5. CASE \/ JuniperConfigure(self) \/ AristaConfigure(self)
           \/ JuniperVerify(self) \/ AristaVerify(self)
  <2>0. x.op \in Judges
    BY <1>5 DEF JuniperConfigure, AristaConfigure, JuniperVerify, AristaVerify, Reading, Judges
  <2>1. Told(self)
    BY <1>5, JuniperConfigureTells, AristaConfigureTells, JuniperVerifyTells, AristaVerifyTells
  <2>2. CASE \E z \in Work : Eased(x, z) /\ w' = Pass(self, z) /\ (z.ok => RightNow(self, z))
    <3>1. PICK z \in Work : Eased(x, z) /\ w' = Pass(self, z) /\ (z.ok => RightNow(self, z))
      BY <2>2
    <3>2. w' = [w EXCEPT ![self] = Passed(z)]
      BY <3>1, AnswerIs
    <3>3. PICK y : y = Passed(z)
      OBVIOUS
    <3>4. /\ z.op = x.op /\ z.plugin = x.plugin /\ z.nic = x.nic /\ z.new = x.new /\ z.will = x.will
          /\ z.crossed = x.crossed /\ (z.ok => x.ok) /\ x.passed \subseteq z.passed
          /\ (x.op # "configure" => z.passed = x.passed)
      BY <3>1 DEF Eased
    <3>5. y \in Work
      BY <1>2, <3>1, <3>3, <3>4, PassedWell DEF WorkOK
    <3>6. Turn(self, y) /\ w'[Other(self)] = w[Other(self)]
      BY <1>0, <3>2, <3>3, <3>5, PutIsTurn
    <3>7. Spared(self)
      BY <1>2, <3>6 DEF Spared
    <3>8. Target(z) = Target(x) /\ Behind(z) = Behind(x)
      BY <3>4 DEF Target, Behind
    <3>9. z.ok /\ ~z.crossed =>
            /\ z.will = Target(z)
            /\ \A r \in (Behind(z) \union {z.nic}) \ (z.passed \union doubt) : RightAt(conf'[r], Target(z), z.op, r)
      <4> SUFFICES ASSUME z.ok, ~z.crossed
                   PROVE  /\ z.will = Target(z)
                          /\ \A r \in (Behind(z) \union {z.nic}) \ (z.passed \union doubt) :
                               RightAt(conf'[r], Target(z), z.op, r)
        OBVIOUS
      <4>1. x.will = Target(x) /\ \A p \in Behind(x) \ (x.passed \union doubt) : RightAt(conf[p], Target(x), x.op, p)
        BY <1>0, <1>2, <2>0, <3>4 DEF FollowedBy, Judges
      <4>2. x.nic \in doubt \union z.passed \/ RightAt(conf[x.nic], x.will, x.op, x.nic)
        BY <3>1 DEF RightNow
      <4>3. conf' = conf
        BY <1>2
      <4>4. ASSUME NEW r \in (Behind(z) \union {z.nic}) \ (z.passed \union doubt)
            PROVE  RightAt(conf'[r], Target(z), z.op, r)
        <5>1. CASE r = x.nic
          BY <3>4, <3>8, <4>1, <4>2, <4>3, <4>4, <5>1
        <5>2. CASE r # x.nic
          <6>1. r \in Behind(x) \ (x.passed \union doubt)
            BY <3>4, <3>8, <4>4, <5>2
          <6>2. RightAt(conf[r], Target(x), x.op, r)
            BY <4>1, <6>1
          <6> QED  BY <3>4, <3>8, <4>3, <6>2
        <5> QED  BY <5>1, <5>2
      <4> QED  BY <3>4, <3>8, <4>1, <4>4
    <3>10. /\ FollowedBy(y)'
           /\ y.op = "done" => y.passed = z.passed
           /\ y.op = "done" /\ ~z.crossed =>
                \A r \in Nics \ (y.passed \union doubt) : RightAt(conf'[r], Target(z), z.op, r)
      <4>1. z.op \in Judges /\ (z.op = "verify" => z.passed = {}) /\ z.nic \in Nics
        BY <1>0, <1>2, <2>0, <3>4
      <4>2. UNCHANGED <<vendor, assignment, cloud>>
        BY <1>2
      <4> QED  BY <1>2, <3>3, <3>9, <4>1, <4>2, PassedFollows
    <3>11. DoneWell(self)
      BY <1>0, <3>4, <3>6, <3>8, <3>10 DEF DoneWell, Turn
    <3> QED  BY <3>6, <3>7, <3>10, <3>11, TurnFine
  <2>3. CASE \E s : w' = Drive(self, s) /\ Says(s, x.will, x.nic, Plugin(self))
    <3>1. PICK s : w' = Drive(self, s) /\ Says(s, x.will, x.nic, Plugin(self))
      BY <2>3
    <3>2. PICK y : y = [x EXCEPT !.script = s]
      OBVIOUS
    <3>3. /\ y.op = x.op /\ y.plugin = x.plugin /\ y.nic = x.nic /\ y.new = x.new /\ y.will = x.will
          /\ y.crossed = x.crossed /\ y.ok = x.ok /\ y.passed = x.passed /\ y.script = s
      BY <1>0, <3>2 DEF Work
    <3>4. w' = [w EXCEPT ![self] = y]
      BY <3>1, <3>2 DEF Drive
    <3>5. Turn(self, y) /\ w'[Other(self)] = w[Other(self)]
      <4>1. w'[self] = y /\ w'[Other(self)] = w[Other(self)]
        BY <1>0, <3>4, TwoProcesses
      <4>2. y \in Work
        BY <1>3, <4>1
      <4> QED  BY <1>0, <3>4, <4>2, PutIsTurn
    <3>6. Spared(self)
      BY <1>2, <3>5 DEF Spared
    <3>7. Target(y)' = Target(x) /\ Behind(y)' = Behind(x)
      BY <1>2, <3>3 DEF Target, Behind, Owns
    <3>8. Aimed(y)'
      BY <3>1, <3>3 DEF Aimed, Plugin
    <3>9. FollowedBy(y)'
      <4>1. y.op = "verify" => y.passed = {}
        BY <1>0, <3>3
      <4> SUFFICES ASSUME y.op \in {"configure", "verify"}, y.ok, ~y.crossed
                   PROVE  /\ y.will = Target(y)'
                          /\ \A p \in Behind(x) \ (y.passed \union doubt') : RightAt(conf[p], Target(y), y.op, p)'
        BY <3>7, <3>8, <4>1 DEF FollowedBy
      <4>2. x.will = Target(x) /\ \A p \in Behind(x) \ (x.passed \union doubt) : RightAt(conf[p], Target(x), x.op, p)
        BY <1>0, <1>2, <3>3 DEF FollowedBy
      <4>3. ASSUME NEW p \in Behind(x) \ (y.passed \union doubt')
            PROVE  RightAt(conf[p], Target(y), y.op, p)'
        <5>1. p \in Nics
          BY BehindIs
        <5>2. RightAt(conf[p], Target(x), x.op, p)
          BY <1>2, <3>3, <4>2, <4>3
        <5>3. RightAt(conf'[p], Target(x), x.op, p)
          BY <1>2, <5>2
        <5> QED  BY <1>2, <3>3, <3>7, <5>1, <5>3, RightLater
      <4> QED  BY <3>3, <3>7, <4>2, <4>3
    <3>10. DoneWell(self)
      BY <1>2, <3>3, <3>5 DEF DoneWell, Turn, Ops
    <3> QED  BY <3>5, <3>6, <3>9, <3>10, TurnFine
  <2> QED  BY <2>1, <2>2, <2>3 DEF Told
<1> QED  BY <1>4, <1>5

(* Lines are typed: after the last one the port carries what it was told.  *)
LEMMA SaysScript ==
  ASSUME NEW p \in Nics, NEW a \in Assignments \union {None}, NEW s
  PROVE  /\ Says(s, a, p, "juniper") => s \in JuniperScripts
         /\ Says(s, a, p, "arista") => s \in AristaScripts
<1> DEFINE n == GetVlan(a, p)
<1>0. (Public(a, p) => n \in PublicVlans) /\ (~Public(a, p) => n \in PlainVlans)
  BY VlanOf
<1> HIDE DEF n
<1>1. ASSUME Says(s, a, p, "juniper")
      PROVE  s \in JuniperScripts
  <2>1. PICK o \in Vlans : s = IF Public(a, p) THEN JuniperConvertPublic(o, n) ELSE JuniperSetPort(o, n)
    BY <1>1 DEF Says, n
  <2> QED  BY <1>0, <2>1, JuniperLines
<1>2. ASSUME Says(s, a, p, "arista")
      PROVE  s \in AristaScripts
  <2>1. s = IF Public(a, p) THEN AristaConvertPublic(n) ELSE AristaSetPort(n)
    BY <1>2 DEF Says, n
  <2> QED  BY <1>0, <2>1, VlanNumbers, JuniperLines
<1> QED  BY <1>1, <1>2

LEMMA NotCommit == \A s \in AristaScripts : ~IsCommit(s)
<1>1. ASSUME NEW s \in AristaScripts
      PROVE  Len(s) # 1
  <2>1. Len(s) \in {6, 7}
    BY AristaStretch, Zenon
  <2> QED  BY <2>1
<1> QED  BY <1>1 DEF IsCommit

LEMMA TypeFine ==
  ASSUME TypeInv, Followed, NEW self \in Processes, Type(self)
  PROVE  Fine
<1> DEFINE x == w[self]
           s == x.script
           p == x.nic
<1>0. /\ FollowedBy(x) /\ x \in Work /\ WellScripted(x) /\ (x.op = "verify" => x.passed = {})
      /\ s # <<>> /\ p \in Nics /\ p # 0 /\ x.op \in Ops /\ Owns(Plugin(self), p)
      /\ x.will \in Assignments \union {None} /\ Plugin(self) \in {"juniper", "arista"}
      /\ Plugin(self) = Plugins[x.plugin]
  BY FollowedOne, ScriptedNow, AtWork, TypeInvIs DEF Type, Plugin
<1>1. UNCHANGED <<vendor, assignment, cloud>> /\ doubt \subseteq doubt'
  BY DEF Type, demand
<1>2. PICK y, k, t :
        /\ WellScripted(y) /\ Turn(self, y) /\ (Busy(Other(self)) => w'[Other(self)].crossed)
        /\ k # 0 /\ Whole(k, s) /\ Typed(t, s, k) /\ Types(self, t)
        /\ \/ /\ s \in JuniperScripts /\ Plugin(self) = "juniper"
              /\ \E c : IsCommit(c) /\ y = [x EXCEPT !.script = c]
           \/ /\ s \notin JuniperScripts \/ Plugin(self) # "juniper"
              /\ y = Passed(x)
  BY TypeTurn DEF Whole
<1>3. Spared(self)
  BY <1>2 DEF Spared
<1>4. Edits(self, t, k) \/ Commits(self, k) \/ Runs(self, t, k)
  BY <1>0, <1>2, TypeInvIs, TypesWhat
<1>5. /\ Owns("juniper", p) => conf[p] \in JuniperPort
      /\ Owns("arista", p) => conf[p] \in AristaPort
  BY <1>0, TypeInvIs, PortTypes
<1>c. candidate \in [Nics -> JuniperPort \union AristaPort] /\ conf \in [Nics -> JuniperPort \union AristaPort]
  BY DEF TypeInv, Rest, Switches
<1> HIDE DEF x, s, p
<1>6. CASE s \in JuniperScripts /\ Plugin(self) = "juniper"
  <2>1. PICK c : IsCommit(c) /\ y = [x EXCEPT !.script = c]
    BY <1>2, <1>6
  <2>2. /\ y.op = x.op /\ y.plugin = x.plugin /\ y.nic = p /\ y.new = x.new /\ y.will = x.will
        /\ y.crossed = x.crossed /\ y.ok = x.ok /\ y.passed = x.passed /\ y.script = c
    BY <1>0, <2>1 DEF Work, p
  <2>3. Edits(self, t, k)
    <3>1. ~IsCommit(s)
      BY <1>6, NoCommit
    <3> QED  BY <1>4, <1>6, <3>1 DEF Commits, Runs, Lines, x, s
  <2>4. conf' = conf /\ candidate' = Over([conf EXCEPT ![p] = JuniperEdited(conf[p], t)], candidate, Juniper)
    BY <1>2, <2>3 DEF Edits, Port, x, p
  <2>5. Target(y)' = Target(x) /\ Behind(y)' = Behind(x)
    BY <1>1, <2>2 DEF Target, Behind, Owns, p
  <2>6. ASSUME y.op \in {"configure", "verify"}, y.ok, ~y.crossed
        PROVE  /\ y.will = Target(y)'
               /\ \A r \in Behind(x) \ (y.passed \union doubt') : RightAt(conf[r], Target(y), y.op, r)'
               /\ Aimed(y)'
    <3>1. /\ x.will = Target(x) /\ Aimed(x)
          /\ \A r \in Behind(x) \ (x.passed \union doubt) : RightAt(conf[r], Target(x), x.op, r)
      BY <1>0, <2>2, <2>6 DEF FollowedBy, p
    <3>2. ASSUME NEW r \in Behind(x) \ (y.passed \union doubt')
          PROVE  RightAt(conf[r], Target(y), y.op, r)'
      <4>1. r \in Nics
        BY BehindIs
      <4>2. RightAt(conf[r], Target(x), x.op, r)
        BY <1>1, <2>2, <3>1, <3>2
      <4>3. RightAt(conf'[r], Target(x), x.op, r)
        BY <2>4, <4>2
      <4> QED  BY <1>1, <2>2, <2>5, <4>1, <4>3, RightLater
    <3>3. Aimed(y)'
      <4>1. Says(s, x.will, p, "juniper")
        <5>1. ~IsCommit(s)
          BY <1>6, NoCommit
        <5> QED  BY <1>0, <1>6, <3>1, <5>1 DEF Aimed, s, p
      <4>2. Owns("juniper", p)
        BY <1>0, <1>6
      <4>3. Carries(JuniperEdited(conf[p], t), p, x.will)
        BY <1>0, <1>2, <1>5, <4>1, <4>2, JuniperDone
      <4>4. candidate'[p] = JuniperEdited(conf[p], t)
        BY <1>0, <1>c, <2>4, <4>2 DEF Over, Juniper
      <4>5. \A r \in Nics \ {p} : Owns("juniper", r) => candidate'[r] = conf'[r]
        BY <1>c, <2>4 DEF Over, Juniper
      <4>6. Carries(candidate'[p], p, x.will)
        BY <4>3, <4>4
      <4>7. (Carries(candidate[y.nic], y.nic, y.will))'
        BY <1>1, <2>2, <4>6 DEF Carries, Owns
      <4>8. \A r \in Nics \ {y.nic} : (Owns("juniper", r) => candidate[r] = conf[r])'
        BY <1>1, <2>2, <4>5 DEF Owns
      <4> QED  BY <2>1, <2>2, <4>7, <4>8 DEF Aimed
    <3> QED  BY <2>2, <2>5, <3>1, <3>2, <3>3
  <2>7. FollowedBy(y)'
    <3>1. y.op = "verify" => y.passed = {}
      BY <1>0, <2>2
    <3> QED  BY <2>5, <2>6, <3>1 DEF FollowedBy
  <2>8. DoneWell(self)
    BY <1>0, <1>2, <2>2 DEF DoneWell, Turn, Ops
  <2> QED  BY <1>2, <1>3, <2>7, <2>8, TurnFine
<1>7. CASE (s \notin JuniperScripts \/ Plugin(self) # "juniper") /\ y = Passed(x)
  <2>1. CASE x.op \notin Judges
    <3>1. y.op \notin Judges
      <4>1. y.op = x.op \/ MovesOn(x, y, TRUE) \/ Finishes(x, y, TRUE) \/ y = Idle
        BY <1>0, <1>7, PassedWell
      <4> QED  BY <2>1, <4>1, IdleOK DEF MovesOn, Finishes, Judges
    <3> QED  BY <1>2, <1>3, <2>1, <3>1, IdleFine DEF Judges, x
  <2>2. CASE x.op \in Judges
    <3>1. ASSUME x.ok, ~x.crossed
          PROVE  /\ x.will = Target(x)
                 /\ \A r \in (Behind(x) \union {p}) \ (x.passed \union doubt) : RightAt(conf'[r], Target(x), x.op, r)
      <4>1. /\ x.will = Target(x) /\ Aimed(x)
            /\ \A r \in Behind(x) \ (x.passed \union doubt) : RightAt(conf[r], Target(x), x.op, r)
        BY <1>0, <2>2, <3>1 DEF FollowedBy, p, Judges
      <4>2. RightAt(conf'[p], Target(x), x.op, p) /\ \A r \in Nics \ {p} : conf'[r] = conf[r]
        <5>1. CASE Plugin(self) = "juniper"
          <6>1. IsCommit(s) /\ s \notin JuniperScripts
            BY <1>0, <1>7, <5>1 DEF WellScripted, ScriptsOf, s
          <6>2. ~Says(s, x.will, p, "juniper")
            BY <1>0, <6>1, SaysScript
          <6>3. /\ Carries(candidate[p], p, x.will)
                /\ \A r \in Nics \ {p} : Owns("juniper", r) => candidate[r] = conf[r]
            BY <1>0, <4>1, <5>1, <6>2 DEF Aimed, s, p
          <6>4. Commits(self, k)
            BY <1>4, <5>1, <6>1 DEF Edits, Runs, Lines, x, s
          <6>5. conf' = Over(candidate, conf, Juniper)
            BY <1>2, <6>4 DEF Commits
          <6>6. Owns("juniper", p) /\ ~Owns("arista", p)
            BY <1>0, <5>1, OneOwner
          <6>7. conf'[p] = candidate[p] /\ \A r \in Nics \ {p} : conf'[r] = conf[r]
            BY <1>0, <6>3, <6>5, <6>6 DEF Over, Juniper
          <6> QED  BY <4>1, <6>3, <6>6, <6>7 DEF RightAt
        <5>2. CASE Plugin(self) = "arista"
          <6>1. s \in AristaScripts
            BY <1>0, <5>2 DEF WellScripted, ScriptsOf, s
          <6>2. Says(s, x.will, p, "arista")
            BY <1>0, <4>1, <5>2, <6>1, NotCommit DEF Aimed, s, p
          <6>3. Runs(self, t, k)
            BY <1>4, <5>2 DEF Edits, Commits
          <6>4. conf' = [conf EXCEPT ![p] = AristaEdited(conf[p], t)]
            BY <6>3 DEF Runs, Port, x, p
          <6>5. Carries(AristaEdited(conf[p], t), p, x.will) /\ AristaEdited(conf[p], t).speed
            BY <1>0, <1>2, <1>5, <5>2, <6>2, AristaDone
          <6>6. conf'[p] = AristaEdited(conf[p], t) /\ \A r \in Nics \ {p} : conf'[r] = conf[r]
            BY <1>0, <1>c, <6>4
          <6> QED  BY <4>1, <6>5, <6>6 DEF RightAt
        <5> QED  BY <1>0, <5>1, <5>2
      <4>3. ASSUME NEW r \in (Behind(x) \union {p}) \ (x.passed \union doubt)
            PROVE  RightAt(conf'[r], Target(x), x.op, r)
        <5>1. CASE r = p
          BY <4>2, <5>1
        <5>2. CASE r # p
          <6>1. r \in Behind(x) \ (x.passed \union doubt) /\ r \in Nics
            BY <4>3, <5>2, BehindIs
          <6> QED  BY <4>1, <4>2, <5>2, <6>1
        <5> QED  BY <5>1, <5>2
      <4> QED  BY <4>1, <4>3
    <3>2. /\ FollowedBy(y)'
          /\ y.op = "done" => y.passed = x.passed
          /\ y.op = "done" /\ ~x.crossed =>
               \A r \in Nics \ (y.passed \union doubt) : RightAt(conf'[r], Target(x), x.op, r)
      <4>1. x.nic \in Nics
        BY <1>0 DEF p
      <4> QED  BY <1>0, <1>1, <1>7, <2>2, <3>1, <4>1, PassedFollows DEF p
    <3>3. DoneWell(self)
      BY <1>0, <1>2, <3>2 DEF DoneWell, Turn, x
    <3> QED  BY <1>2, <1>3, <3>2, <3>3, TurnFine
  <2> QED  BY <2>1, <2>2
<1> QED  BY <1>2, <1>6, <1>7

LEMMA FineStep ==
  ASSUME TypeInv, PortsSingle, PortInv, Followed, Apart, [Next]_vars
  PROVE  Fine
<1>1. CASE MoveHost \/ Land \/ VerifySwitchConf \/ ModSwitchConf
  BY <1>1, CallsFine
<1>2. CASE Reboot \/ \E c \in Clouds : Assign(c) \/ Close(c)
  BY <1>2, ShiftStep, ShiftFine
<1>3. CASE \E self \in Processes : Step(self) \/ Die(self)
  <2>1. PICK self \in Processes : Step(self) \/ Die(self)
    BY <1>3
  <2>2. \/ Begin(self) \/ Type(self)
        \/ Die(self) \/ Refused(self) \/ \E op \in Ops : Raise(self, op)
        \/ JuniperConfigure(self) \/ AristaConfigure(self)
        \/ JuniperVerify(self) \/ AristaVerify(self)
        \/ JuniperModify(self) \/ AristaModify(self)
    BY <2>1, Zenon DEF Step, Ops
  <2>3. CASE Begin(self)
    BY <2>3, BeginFine
  <2>4. CASE Type(self)
    BY <2>4, TypeFine
  <2>5. CASE Die(self) \/ Refused(self) \/ \E op \in Ops : Raise(self, op)
    BY <2>5, FailFine
  <2> QED  BY <2>2, <2>3, <2>4, <2>5, LooksFine
<1>4. CASE UNCHANGED vars
  BY <1>4, StutterFine
<1> QED  BY <1>1, <1>2, <1>3, <1>4, Zenon DEF Next

LEMMA FineInit == Init => Followed
<1> SUFFICES ASSUME Init
             PROVE  Followed
  OBVIOUS
<1>1. \A q \in Processes : w[q] = Idle
  BY DEF Init
<1>2. Idle.op = "idle"
  BY DEF Idle
<1> QED  BY <1>1, <1>2 DEF Followed, FollowedBy

Sound == TypeInv /\ SingleInv /\ PortInv /\ Followed

LEMMA SoundStep ==
  ASSUME Apart, Sound, [Next]_vars
  PROVE  Sound' /\ \A q \in Processes : DoneWell(q)
BY TypeStep, SingleStep, PortStep, FineStep DEF Sound, SingleInv, Fine

LEMMA SoundInit == Init => Sound
BY TypeInit, SingleInit, PortInit, FineInit DEF Sound

(* When configure answers True, the ports of the host carry the VLANs of   *)
(* the new cloud, but for ports left alone or edited on a guess, and but   *)
(* for what others did meanwhile.  Hypothesis: no public VLAN has the      *)
(* number of one that is calculated (Switch: PortsFollow).                 *)
THEOREM ConfigureTold == Apart => (Spec => PortsFollow)
<1> SUFFICES ASSUME Apart
             PROVE  Spec => PortsFollow
  OBVIOUS
<1>1. Init => Sound
  BY SoundInit
<1>2. Sound /\ [Next]_vars => Sound'
  BY SoundStep
<1>3. Sound /\ [Next]_vars
        => (Answers("mover", "configure") /\ ~w["mover"].crossed
              => \A p \in Nics \ (w'["mover"].passed \union doubt) :
                   Carries(conf'[p], p, assignment[w["mover"].new]))
  <2> SUFFICES ASSUME Sound, [Next]_vars, Answers("mover", "configure"), ~w["mover"].crossed,
                      NEW p \in Nics \ (w'["mover"].passed \union doubt)
               PROVE  Carries(conf'[p], p, assignment[w["mover"].new])
    OBVIOUS
  <2>1. DoneWell("mover")
    BY SoundStep DEF Processes
  <2>2. w["mover"].op = "configure" /\ w'["mover"].op = "done"
    BY DEF Answers
  <2> QED  BY <2>1, <2>2 DEF DoneWell, RightAt, Target, Judges
<1> QED  BY <1>1, <1>2, <1>3, PTL DEF Spec, PortsFollow

(* When verify answers True, the ports carry the VLANs of the host's cloud *)
(* at their recorded speed.  Hypothesis: as above (Switch: VerifiedRight). *)
THEOREM VerifyTold == Apart => (Spec => VerifiedRight)
<1> SUFFICES ASSUME Apart
             PROVE  Spec => VerifiedRight
  OBVIOUS
<1>1. Init => Sound
  BY SoundInit
<1>2. Sound /\ [Next]_vars => Sound'
  BY SoundStep
<1>3. Sound /\ [Next]_vars
        => (Answers("operator", "verify") /\ ~w["operator"].crossed
              => \A p \in Nics \ doubt :
                   /\ Carries(conf'[p], p, assignment[cloud])
                   /\ Owns("arista", p) => conf'[p].speed)
  <2> SUFFICES ASSUME Sound, [Next]_vars, Answers("operator", "verify"), ~w["operator"].crossed,
                      NEW p \in Nics \ doubt
               PROVE  /\ Carries(conf'[p], p, assignment[cloud])
                      /\ Owns("arista", p) => conf'[p].speed
    OBVIOUS
  <2>1. DoneWell("operator")
    BY SoundStep DEF Processes
  <2>2. w["operator"].op = "verify" /\ w'["operator"].op = "done"
    BY DEF Answers
  <2>3. w'["operator"].passed = {}
    BY <2>1, <2>2 DEF DoneWell, Judges
  <2> QED  BY <2>1, <2>2, <2>3 DEF DoneWell, RightAt, Target, Judges
<1> QED  BY <1>1, <1>2, <1>3, PTL DEF Spec, VerifiedRight
=============================================================================
