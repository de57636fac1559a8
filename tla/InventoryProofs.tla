-------------------------- MODULE InventoryProofs --------------------------
EXTENDS Inventory, FiniteSetTheorems, SequenceTheorems, TLAPS

(***************************************************************************)
(* Types                                                                   *)
(***************************************************************************)
HostCalls ==
  [op : {"create_host"}, host : Hostnames, home : Clouds, full : BOOLEAN]
    \cup [op : {"delete_host"}, host : Hostnames]
    \cup [op : {"update_host"}, host : Hostnames, name : Hostnames \cup {None},
             cloud : Clouds \cup {None}, home : Clouds \cup {None}]
PartCalls ==
  [op : {"create_part"}, host : Hostnames, part : Part]
    \cup [op : {"update_part"}, host : Hostnames, id : Nat, name : Names \cup {None},
             value : Values \cup {None}]
    \cup [op : {"delete_part"}, id : Nat]
    \cup [op : {"delete_interface"}, host : Hostnames, name : Names, id : Nat \cup {None}]
CloudCalls ==
  [op : {"get_cloud", "update_cloud", "create_cloud", "delete_cloud", "assign"}, cloud : Clouds]
Calls == HostCalls \cup PartCalls \cup CloudCalls
Lookups == [op : Finding, part : Part]

HostRow == [name : Hostnames, cloud : Clouds, home : Clouds]
Request == [at : {"idle", "asked", "read", "ok", "refused", "error"},
            call : Calls \cup {None}, seen : Nat \cup {None},
            held : Part \cup HostRow \cup {None}, doubt : BOOLEAN]
Busy(r) == req[r].at \in {"asked", "read"}

Ids == {i \in Nat : i < env.row}

Tables ==
  /\ env \in [row : Nat, jobs : Nat, troubles : Nat]
  /\ hosts \in [DOMAIN hosts -> [name : Hostnames, cloud : clouds, home : clouds]]
  /\ parts \in [DOMAIN parts -> [host : DOMAIN hosts, part : Part]]
  /\ active \in [DOMAIN active -> clouds \cup {None}]
  /\ clouds \subseteq Clouds /\ booked \subseteq DOMAIN hosts
  /\ DOMAIN hosts \subseteq Ids /\ DOMAIN parts \subseteq Ids /\ DOMAIN active \subseteq Ids
  /\ IsFiniteSet(DOMAIN parts)
  /\ \A p \in DOMAIN parts : parts[p].part.full
  /\ exported \in File \cup {None}

Requests ==
  /\ req \in [Slots -> Request]
  /\ \A r \in Slots : Busy(r) => req[r].call \in Calls
  /\ \A r \in Slots : req[r].seen \in Ids \cup {None}

Args(cmd) ==
  CASE cmd = "import" -> [file : File, force : BOOLEAN]
    [] cmd = "lshw2meta" -> [file : Hardware, force : {TRUE}]
    [] cmd = "mod_host" -> Seq(UNION Components)
    [] cmd = "mod_interface" -> [name : Names, value : Values]
    [] cmd = "rm_interface" -> [name : Names]
    [] cmd = "rm_cloud" -> Clouds
    [] OTHER -> {None}

Commands == {"import", "mod_host", "lshw2meta", "mod_interface", "rm_interface", "define_host",
             "rm_host", "rm_cloud", "define_cloud", "export"}
OfHost == {"import", "mod_host", "lshw2meta", "mod_interface", "rm_interface", "define_host", "rm_host"}
Readers == {"import", "mod_host", "lshw2meta", "mod_interface", "rm_interface"}

Chapters == [any : SUBSET Calls, calls : Seq(Calls \cup Lookups)]

Places == {"idle", "read", "run", "done", "stopped"}

CliType ==
  /\ DOMAIN cli = {"cmd", "host", "at", "arg", "plan", "then", "read", "renamed", "doubt"}
  /\ cli.cmd \in Commands \cup {"none"} /\ cli.host \in Hostnames \cup {None} /\ cli.at \in Places
  /\ cli.arg \in Args(cli.cmd) /\ cli.plan \in Seq(Chapters) /\ cli.then \in {"read", "done"}
  /\ cli.doubt \in BOOLEAN /\ (cli.renamed # {} => cli.doubt)
  /\ cli.at = "idle" => cli.host = None
  /\ DOMAIN cli.read \subseteq Ids /\ \A p \in DOMAIN cli.read : cli.read[p] \in Part
  /\ cli.cmd \in OfHost => cli.host \in Hostnames
  /\ cli.at = "read" => cli.cmd \in Readers
  /\ cli.then = "read" => cli.cmd = "import"

(***************************************************************************)
(* The command line and its request                                        *)
(***************************************************************************)
Turns ==
  /\ req[Cli].at # "idle" => cli.at = "run"
  /\ \A r \in Clients : req[r].at \in {"idle", "asked", "read"}

(* A part that is about to be created is complete.                         *)
Complete(r) == Read(r, {"create_part"}) => req[r].call.part.full
Whole == \A r \in Slots : Complete(r)

(* A row of the command's host, or of one that was renamed meanwhile; and  *)
(* a row that the command may touch.                                       *)
Near(p) == hosts[parts[p].host].name = cli.host \/ parts[p].host \in cli.renamed
Renamed(p) == {p, parts[p].host} \cap cli.renamed # {}
May(p) ==
  /\ Near(p)
  /\ \/ p \in DOMAIN cli.read /\ Meant(cli.read[p])
     \/ ByName(parts[p].part.kind) /\ (Meant(parts[p].part) \/ Renamed(p))

MeantAll(kind, name) == \A q \in Part : q.kind = kind /\ q.name = name => Meant(q)

Own(c) ==
  /\ c.op \in {"create_part", "update_part", "delete_interface", "delete_host", "create_host"} => c.host = cli.host
  /\ c.op = "delete_cloud" => cli.cmd = "rm_cloud" /\ c.cloud = cli.arg
  /\ c.op = "delete_host" => cli.cmd = "rm_host"
  /\ c.op = "create_host" => cli.cmd = "define_host" \/ cli.then = "read"
  /\ c.op \in {"delete_part", "update_part"} => c.id < env.row /\ (c.id \in DOMAIN parts => May(c.id))
  /\ c.op = "update_host" => c.name \in {None, cli.host}
  /\ c.op = "update_part" =>
       /\ cli.cmd \in {"mod_interface", "lshw2meta"}
       /\ c.id \in DOMAIN parts => parts[c.id].part.kind \in {"interface", "disk"}
  /\ c.op = "delete_interface" =>
       cli.cmd \in {"import", "mod_host", "rm_interface"} /\ MeantAll("interface", c.name)
  /\ c.op \in Finding => /\ MeantAll(c.part.kind, c.part.name)
                         /\ c.part.kind = IF c.op = "find_interface" THEN "interface" ELSE "disk"

Planned == UNION {cli.plan[i].any \cup ToSet(cli.plan[i].calls) : i \in DOMAIN cli.plan}
Flight == IF Busy(Cli) THEN {req[Cli].call} ELSE {}

Owned == \A c \in Planned \cup Flight : Own(c)

(* What a command has read of a row is still true of it, as long as the    *)
(* row is there: only its value may change, and its name by a renaming.    *)
Remembered ==
  \A x \in DOMAIN cli.read \cap DOMAIN parts :
    /\ Near(x) /\ parts[x].part.kind = cli.read[x].kind
    /\ parts[x].part.name = cli.read[x].name \/ Renamed(x)

Holding ==
  req[Cli].at = "read" /\ req[Cli].call.op \in {"delete_part", "delete_interface", "update_part"} =>
    /\ req[Cli].seen \in Nat
    /\ req[Cli].seen \in DOMAIN parts => May(req[Cli].seen)
    /\ req[Cli].call.op # "delete_interface" => req[Cli].seen = req[Cli].call.id

(***************************************************************************)
(* What the handlers have looked up                                        *)
(***************************************************************************)
Check(r) ==
  /\ Read(r, {"create_host"}) /\ ~req[r].doubt => HostNamed(req[r].call.host) = {}
  /\ Read(r, {"create_part"}) =>
       /\ req[r].seen \in Nat
       /\ ~req[r].doubt /\ Field(req[r].call.part.kind) \in Handled
            => ~HandleTaken(req[r].seen, req[r].call.part)
  /\ Read(r, {"update_part"}) /\ req[r].seen \in DOMAIN parts
       => Field(parts[req[r].seen].part.kind) \notin Handled
Checks == \A r \in Slots : Check(r)

(***************************************************************************)
(* Lemmas about the operators of the model.                                *)
(***************************************************************************)
LEMMA SetToSeqType ==
  ASSUME NEW S, IsFiniteSet(S)
  PROVE  Cardinality(S) \in Nat /\ SetToSeq(S) \in [1..Cardinality(S) -> S] /\ IsInjective(SetToSeq(S))
<1>1. Cardinality(S) \in Nat /\ ExistsBijection(1..Cardinality(S), S)
  BY FS_CardinalityType
<1>2. \E f \in [1..Cardinality(S) -> S] : IsInjective(f)
  BY <1>1 DEF ExistsBijection, Bijection, Injection, IsInjective
<1> QED
  BY <1>1, <1>2 DEF SetToSeq

LEMMA Inserted ==
  ASSUME NEW table, NEW row
  PROVE  /\ DOMAIN Insert(table, row) = DOMAIN table \cup {env.row}
         /\ Insert(table, row)[env.row] = row
         /\ \A id \in DOMAIN table : id # env.row => Insert(table, row)[id] = table[id]
  BY DEF Insert

LEMMA CallFields ==
  ASSUME NEW c \in Calls
  PROVE  /\ c.op = "create_host" => c.host \in Hostnames /\ c.home \in Clouds /\ c.full \in BOOLEAN
         /\ c.op = "delete_host" => c.host \in Hostnames
         /\ c.op = "update_host" => /\ c.host \in Hostnames /\ c.name \in Hostnames \cup {None}
                                    /\ c.cloud \in Clouds \cup {None} /\ c.home \in Clouds \cup {None}
         /\ c.op = "create_part" => c.host \in Hostnames /\ c.part \in Part
         /\ c.op = "update_part" => /\ c.host \in Hostnames /\ c.id \in Nat
                                    /\ c.name \in Names \cup {None} /\ c.value \in Values \cup {None}
         /\ c.op = "delete_part" => c.id \in Nat
         /\ c.op = "delete_interface" => c.host \in Hostnames /\ c.name \in Names /\ c.id \in Nat \cup {None}
         /\ c.op \in {"get_cloud", "update_cloud", "create_cloud", "delete_cloud", "assign"}
              => c.cloud \in Clouds
         /\ c.op \notin Finding
<1>1. CASE c \in HostCalls  BY <1>1 DEF HostCalls, Finding
<1>2. CASE c \in PartCalls  BY <1>2 DEF PartCalls, Finding
<1>3. CASE c \in CloudCalls  BY <1>3 DEF CloudCalls, Finding
<1> QED
  BY <1>1, <1>2, <1>3 DEF Calls

LEMMA CallTypes ==
  /\ \A n \in Hostnames, c \in Clouds, full \in BOOLEAN : CallHost(n, c, full) \in Calls
  /\ \A n \in Hostnames, p \in Part : CallPart(n, p) \in Calls
  /\ \A n \in Hostnames, id \in Nat, x \in Names \cup {None}, v \in Values \cup {None} :
       CallUpdate(n, id, x, v) \in Calls
  /\ \A op \in {"get_cloud", "update_cloud", "create_cloud", "delete_cloud", "assign"}, c \in Clouds :
       CallCloud(op, c) \in Calls
  /\ \A n \in Hostnames, m \in Hostnames \cup {None}, c, home \in Clouds \cup {None} :
       CallStore(n, m, c, home) \in Calls
  /\ \A n \in Hostnames, x \in Names, id \in Nat \cup {None} : CallDrop(n, x, id) \in Calls
  /\ \A id \in Nat : [op |-> "delete_part", id |-> id] \in Calls
  /\ \A n \in Hostnames : [op |-> "delete_host", host |-> n] \in Calls
<1>1. /\ \A n \in Hostnames, c \in Clouds, full \in BOOLEAN : CallHost(n, c, full) \in HostCalls
      /\ \A n \in Hostnames, m \in Hostnames \cup {None}, c, home \in Clouds \cup {None} :
           CallStore(n, m, c, home) \in HostCalls
      /\ \A n \in Hostnames : [op |-> "delete_host", host |-> n] \in HostCalls
  BY DEF HostCalls, CallHost, CallStore
<1>2. /\ \A n \in Hostnames, p \in Part : CallPart(n, p) \in PartCalls
      /\ \A n \in Hostnames, id \in Nat, x \in Names \cup {None}, v \in Values \cup {None} :
           CallUpdate(n, id, x, v) \in PartCalls
      /\ \A n \in Hostnames, x \in Names, id \in Nat \cup {None} : CallDrop(n, x, id) \in PartCalls
      /\ \A id \in Nat : [op |-> "delete_part", id |-> id] \in PartCalls
  BY DEF PartCalls, CallPart, CallUpdate, CallDrop
<1>3. \A op \in {"get_cloud", "update_cloud", "create_cloud", "delete_cloud", "assign"}, c \in Clouds :
        CallCloud(op, c) \in CloudCalls
  BY DEF CloudCalls, CallCloud
<1> QED
  BY <1>1, <1>2, <1>3 DEF Calls

(***************************************************************************)
(* What a handler does to its request.                                     *)
(***************************************************************************)
LEMMA AskTyped ==
  ASSUME Requests, env.row \in Nat, env'.row = env.row, NEW r \in Slots, NEW c \in Calls, Ask(r, c)
  PROVE  Requests'
<1>1. [Idle EXCEPT !.at = "asked", !.call = c] \in Request
  BY DEF Idle, Request
<1> QED
  BY <1>1 DEF Requests, Ask, Busy, Ids, Idle

LEMMA AnswerTyped ==
  ASSUME Requests, env.row \in Nat, env'.row \in {env.row, env.row + 1}, NEW r \in Slots,
         NEW a \in {"ok", "refused", "error"}, Answer(r, a)
  PROVE  Requests'
<1>1. Answered(r, a) \in Request /\ Answered(r, a).at \notin {"asked", "read"} /\ Answered(r, a).seen = None
  BY DEF Answered, Idle, Request
<1> QED
  BY <1>1 DEF Requests, Answer, Busy, Ids

LEMMA OvertakenTyped ==
  ASSUME Requests, env.row \in Nat, env'.row \in {env.row, env.row + 1}, NEW r \in Slots,
         NEW key, req' = Overtaken(r, key)
  PROVE  Requests'
<1>1. Answered(r, "ok") \in Request /\ Answered(r, "ok").at \notin {"asked", "read"} /\ Answered(r, "ok").seen = None
  BY DEF Answered, Idle, Request
<1>2. \A x \in Slots : [req[x] EXCEPT !.doubt = TRUE] \in Request
  BY DEF Requests, Request
<1> QED
  BY <1>1, <1>2 DEF Requests, Overtaken, Busy, Ids, Request

LEMMA CheckedTyped ==
  ASSUME Requests, env.row \in Nat, UNCHANGED env, NEW r \in Slots, Busy(r), NEW row, NEW accepted,
         accepted => row \in Ids \cup {None}, Checked(r, row, accepted)
  PROVE  Requests'
<1>1. CASE accepted
  <2>1. [req[r] EXCEPT !.at = "read", !.seen = row] \in Request
    BY <1>1 DEF Requests, Request, Ids
  <2>2. req' = [req EXCEPT ![r] = [req[r] EXCEPT !.at = "read", !.seen = row]] /\ Ids' = Ids
    BY <1>1 DEF Checked, Requests, Ids
  <2> DEFINE new == [req[r] EXCEPT !.at = "read", !.seen = row]
  <2>3. new.call = req[r].call /\ new.seen = row
    BY DEF Requests, Request
  <2>4. \A x \in Slots : req'[x] = IF x = r THEN new ELSE req[x]
    BY <2>2 DEF Requests
  <2>5. req' \in [Slots -> Request]
    BY <2>1, <2>2 DEF Requests
  <2> HIDE DEF new
  <2> QED
    BY <1>1, <2>2, <2>3, <2>4, <2>5 DEF Requests, Busy
<1>2. CASE ~accepted
  BY <1>2, AnswerTyped DEF Checked
<1> QED
  BY <1>1, <1>2

LEMMA HoldsTyped ==
  ASSUME Requests, env.row \in Nat, UNCHANGED env, NEW r \in Slots, Busy(r), NEW id, NEW row, NEW accepted,
         accepted => id \in Ids /\ row \in Part \cup HostRow, Holds(r, id, row, accepted)
  PROVE  Requests'
<1>1. CASE accepted
  <2> DEFINE new == [req[r] EXCEPT !.at = "read", !.seen = id, !.held = row]
  <2>1. new \in Request /\ new.call = req[r].call /\ new.seen = id
    BY <1>1 DEF Requests, Request, Ids
  <2>2. req' = [req EXCEPT ![r] = new] /\ Ids' = Ids
    BY <1>1 DEF Holds, Requests, Ids
  <2>3. /\ \A x \in Slots : req'[x] = IF x = r THEN new ELSE req[x]
        /\ req' \in [Slots -> Request]
    BY <2>1, <2>2 DEF Requests
  <2> HIDE DEF new
  <2> QED
    BY <1>1, <2>1, <2>2, <2>3 DEF Requests, Busy
<1>2. CASE ~accepted
  BY <1>2, AnswerTyped DEF Holds
<1> QED
  BY <1>1, <1>2

LEMMA FirstOf ==
  ASSUME NEW S, NEW x \in First(S), x # None
  PROVE  x \in S
  BY DEF First

LEMMA Known ==
  ASSUME Tables
  PROVE  /\ \A n : HostNamed(n) \subseteq Ids
         /\ \A h : PartsOf(h) \subseteq Ids
         /\ \A h, f : FieldOf(h, f) \subseteq Ids
         /\ env.row \in Nat
  BY DEF Tables, HostNamed, PartsOf, FieldOf

(***************************************************************************)
(* The handlers keep the types.                                            *)
(***************************************************************************)
Basic == Tables /\ Requests /\ CliType /\ Turns /\ Whole

Reading(r) ==
  \/ CreatePart(r) \/ DeletePart(r) \/ DeleteInterface(r) \/ UpdatePart(r) \/ CreateHost(r)
  \/ DeleteHost(r) \/ UpdateHost(r) \/ CreateCloud(r) \/ FindCloud(r) \/ DeleteCloud(r)
Writing(r) ==
  \/ InsertPart(r) \/ ErasePart(r) \/ StorePart(r) \/ InsertHost(r) \/ RemoveHost(r) \/ StoreHost(r)
  \/ InsertCloud(r) \/ RemoveCloud(r) \/ Assign(r)

LEMMA HandlerKinds == \A r : Handle(r) <=> Reading(r) \/ Writing(r)
  BY DEF Handle, Reading, Writing

LEMMA ReadingTyped ==
  ASSUME Tables, Requests, NEW r \in Slots, Reading(r)
  PROVE  /\ Requests' /\ UNCHANGED <<rows, cli, exported, crossed, env>> /\ Busy(r)
<1>0. env.row \in Nat
  BY Known
<1>1. UNCHANGED <<rows, cli, exported, crossed, env>> /\ Busy(r)
  BY DEF Reading, CreatePart, DeletePart, DeleteInterface, UpdatePart, CreateHost, DeleteHost,
         UpdateHost, CreateCloud, FindCloud, DeleteCloud, Asked, Busy
<1>2. req[r].call \in Calls
  BY <1>1 DEF Requests
<1>3. CASE CreatePart(r)
  <2>1. PICK h \in First(HostNamed(req[r].call.host)) :
          Checked(r, h, h # None /\ Accepts(h, req[r].call.part))
    BY <1>3 DEF CreatePart
  <2>2. h # None => h \in Ids
    BY <2>1, FirstOf, Known
  <2> QED
    BY <1>0, <1>1, <2>1, <2>2, CheckedTyped
<1>4. CASE DeletePart(r)
  <2>1. req[r].call.id \in DOMAIN parts => req[r].call.id \in Ids
    BY DEF Tables
  <2> QED
    BY <1>0, <1>1, <1>4, <2>1, CheckedTyped DEF DeletePart
<1>5. CASE DeleteInterface(r)
  <2>1. PICK h \in First(HostNamed(req[r].call.host)) :
          \E p \in First({x \in FieldOf(h, "interfaces") : parts[x].part.name = req[r].call.name}) :
            Checked(r, p, h # None /\ p # None)
    BY <1>5 DEF DeleteInterface
  <2>2. PICK p \in First({x \in FieldOf(h, "interfaces") : parts[x].part.name = req[r].call.name}) :
            Checked(r, p, h # None /\ p # None)
    BY <2>1
  <2>3. p # None => p \in FieldOf(h, "interfaces")
    BY <2>2, FirstOf
  <2>4. p # None => p \in Ids
    BY <2>3, Known
  <2> QED
    BY <1>0, <1>1, <2>2, <2>4, CheckedTyped
<1>6. CASE UpdatePart(r)
  <2> DEFINE id == req[r].call.id
  <2>1. \/ Answer(r, "refused")
        \/ id \in DOMAIN parts /\ Holds(r, id, parts[id].part, HostNamed(req[r].call.host) # {})
    BY <1>6 DEF UpdatePart
  <2>2. id \in DOMAIN parts => id \in Ids /\ parts[id].part \in Part
    BY DEF Tables
  <2> QED
    BY <1>0, <1>1, <2>1, <2>2, AnswerTyped, HoldsTyped
<1>7. CASE UpdateHost(r)
  <2> DEFINE given == {req[r].call.cloud, req[r].call.home} \subseteq clouds \cup {None}
  <2>1. Answer(r, "refused") \/ \E h \in HostNamed(req[r].call.host) : Holds(r, h, hosts[h], given)
    BY <1>7 DEF UpdateHost
  <2>2. \A h \in HostNamed(req[r].call.host) : h \in Ids /\ hosts[h] \in HostRow
    BY Known DEF Tables, HostNamed, HostRow
  <2> HIDE DEF given
  <2> QED
    BY <1>0, <1>1, <2>1, <2>2, AnswerTyped, HoldsTyped
<1>8. CASE CreateHost(r)
  BY <1>0, <1>1, <1>8, CheckedTyped DEF CreateHost
<1>9. CASE DeleteHost(r)
  BY <1>0, <1>1, <1>9, CheckedTyped DEF DeleteHost
<1>10. CASE CreateCloud(r)
  BY <1>0, <1>1, <1>10, CheckedTyped DEF CreateCloud
<1>11. CASE DeleteCloud(r)
  BY <1>0, <1>1, <1>11, CheckedTyped DEF DeleteCloud
<1>12. CASE FindCloud(r)
  BY <1>0, <1>1, <1>12, AnswerTyped DEF FindCloud
<1> QED
  BY <1>1, <1>3, <1>4, <1>5, <1>6, <1>7, <1>8, <1>9, <1>10, <1>11, <1>12 DEF Reading

(* What every write leaves alone: of the command only its doubt changes,   *)
(* rows are numbered on, and the request is answered.                      *)
Doubtful ==
  \/ cli' = cli \/ cli' = [cli EXCEPT !.doubt = TRUE]
  \/ \E id : cli' = [cli EXCEPT !.doubt = TRUE, !.renamed = @ \cup {id}]

LEMMA WritingFrame ==
  ASSUME Tables, Requests, NEW r \in Slots, Writing(r)
  PROVE  /\ Busy(r) /\ req[r].at = (IF Assign(r) THEN "asked" ELSE "read")
         /\ UNCHANGED exported /\ Doubtful /\ crossed \subseteq crossed'
         /\ env' \in [row : Nat, jobs : Nat, troubles : Nat]
         /\ env'.row \in {env.row, env.row + 1}
         /\ (\E a \in {"ok", "refused", "error"} : Answer(r, a)) \/ \E key : req' = Overtaken(r, key)
<1>1. env \in [row : Nat, jobs : Nat, troubles : Nat]
  BY DEF Tables
<1> DEFINE Env == [row : Nat, jobs : Nat, troubles : Nat]
           Replied == (\E a \in {"ok", "refused", "error"} : Answer(r, a)) \/ \E key : req' = Overtaken(r, key)
<1>2. /\ [env EXCEPT !.row = @ + 1] \in Env /\ [env EXCEPT !.row = @ + 1].row = env.row + 1
      /\ [env EXCEPT !.troubles = @ + 1] \in Env /\ [env EXCEPT !.troubles = @ + 1].row = env.row
  BY <1>1
<1>3. /\ \A n : Disturb(n) \/ Disturbed(r, n) => Doubtful
      /\ \A n, id : Rename(n, id) => Doubtful
  BY DEF Disturb, Disturbed, Rename, Doubtful
<1>4. CASE InsertPart(r)
  BY <1>1, <1>2, <1>3, <1>4 DEF InsertPart, Assign, Fault, Trouble, Busy, Read, Asked
<1>5. CASE ErasePart(r)
  BY <1>1, <1>2, <1>3, <1>5 DEF ErasePart, Assign, Fault, Trouble, Busy, Read, Asked
<1>6. CASE StorePart(r)
  <2>1. Replied
    BY <1>6 DEF StorePart
  <2>2. Doubtful
    BY <1>3, <1>6 DEF StorePart, Doubtful
  <2> QED
    BY <1>1, <1>2, <1>6, <2>1, <2>2 DEF StorePart, Assign, Fault, Trouble, Busy, Read, Asked
<1>7. CASE InsertHost(r)
  BY <1>1, <1>2, <1>3, <1>7 DEF InsertHost, Assign, Fault, Trouble, Busy, Read, Asked
<1>8. CASE RemoveHost(r)
  <2>1. PICK h \in First(HostNamed(req[r].call.host)) :
         IF h = None THEN Answer(r, "error") /\ UNCHANGED <<hosts, parts, cli, env>>
         ELSE /\ Answer(r, "ok")
              /\ \/ /\ h \notin booked
                    /\ hosts' = Restrict(hosts, DOMAIN hosts \ {h})
                    /\ parts' = Cascade(h)
                    /\ Disturbed(r, req[r].call.host) /\ UNCHANGED env
                 \/ /\ IF h \in booked THEN UNCHANGED env ELSE Fault
                    /\ Disturb(req[r].call.host) /\ UNCHANGED <<hosts, parts>>
    BY <1>8 DEF RemoveHost
  <2>2. Replied
    BY <2>1
  <2>3. Doubtful
    BY <1>3, <2>1 DEF Doubtful
  <2> QED
    BY <1>1, <1>2, <1>8, <2>1, <2>2, <2>3 DEF RemoveHost, Assign, Fault, Trouble, Busy, Read, Asked
<1>9. CASE StoreHost(r)
  <2>1. Doubtful /\ Replied
    BY <1>3, <1>9 DEF StoreHost, Doubtful
  <2> QED
    BY <1>1, <1>2, <1>9, <2>1 DEF StoreHost, Assign, Fault, Trouble, Busy, Read, Asked
<1>10. CASE InsertCloud(r)
  <2>1. Doubtful /\ Replied
    BY <1>10 DEF InsertCloud, Doubtful
  <2> QED
    BY <1>1, <1>2, <1>10, <2>1 DEF InsertCloud, Assign, Fault, Trouble, Busy, Read, Asked
<1>11. CASE RemoveCloud(r)
  <2>1. Doubtful /\ Replied
    BY <1>11 DEF RemoveCloud, Doubtful
  <2> QED
    BY <1>1, <1>2, <1>11, <2>1 DEF RemoveCloud, Assign, Fault, Trouble, Busy, Read, Asked
<1>12. CASE Assign(r)
  <2>1. Doubtful /\ Replied
    BY <1>12 DEF Assign, Doubtful
  <2> QED
    BY <1>1, <1>2, <1>12, <2>1 DEF Assign, Busy, Asked
<1> QED
  BY <1>4, <1>5, <1>6, <1>7, <1>8, <1>9, <1>10, <1>11, <1>12 DEF Writing

LEMMA WritingRequests ==
  ASSUME Tables, Requests, NEW r \in Slots, Writing(r)
  PROVE  Requests'
<1>1. env.row \in Nat
  BY Known
<1> QED
  BY <1>1, WritingFrame, AnswerTyped, OvertakenTyped

LEMMA IdsGrow ==
  ASSUME Tables, env'.row \in {env.row, env.row + 1}
  PROVE  /\ Ids \subseteq Ids' /\ env.row \notin Ids
         /\ env'.row = env.row + 1 => env.row \in Ids'
  BY DEF Ids, Tables

LEMMA ColumnOf ==
  ASSUME NEW new, NEW was, NEW now
  PROVE  Column(new, was, now) = now \/ (Column(new, was, now) = new /\ new # None)
  BY DEF Column

(* A PATCH of a part changes its name and value, a PATCH of a host its     *)
(* name and clouds, of the one row that its handler holds.                 *)
LEMMA PartStored ==
  ASSUME Tables, Requests, NEW r \in Slots, StorePart(r),
         ~UNCHANGED parts \/ (req[r].seen \in DOMAIN parts /\ ~Disturb(req[r].call.host))
  PROVE  LET q == req[r]
             p == q.seen
             n == hosts[parts[p].host].name
         IN /\ Read(r, {"update_part"}) /\ p \in DOMAIN parts /\ DOMAIN parts' = DOMAIN parts
            /\ \A x \in DOMAIN parts : x # p => parts'[x] = parts[x]
            /\ parts'[p] \in [host : DOMAIN hosts, part : Part]
            /\ parts'[p].host = parts[p].host /\ parts'[p].part.kind = parts[p].part.kind
            /\ parts'[p].part.full = parts[p].part.full
            /\ parts'[p].part.name = Column(q.call.name, q.held.name, parts[p].part.name)
            /\ parts'[p].part.value = Column(q.call.value, q.held.value, parts[p].part.value)
            /\ IF parts'[p].part.name = parts[p].part.name THEN Disturbed(r, n) ELSE Rename({n}, p)
            /\ Answer(r, "ok") /\ UNCHANGED <<clouds, hosts, booked, active, exported, crossed, env>>
<1> DEFINE q == req[r]
           p == q.seen
           row == parts[p]
           n == hosts[parts[p].host].name
           name == Column(q.call.name, q.held.name, row.part.name)
           value == Column(q.call.value, q.held.value, row.part.value)
           new == [row.part EXCEPT !.name = name, !.value = value]
<1>1. Read(r, {"update_part"}) /\ p \in DOMAIN parts
  BY DEF StorePart
<1>2. /\ parts' = [parts EXCEPT ![p].part = new] /\ Answer(r, "ok") /\ UNCHANGED env
      /\ IF new.name = row.part.name THEN Disturbed(r, n) ELSE Rename({n}, p)
      /\ UNCHANGED <<clouds, hosts, booked, active, exported, crossed>>
  BY <1>1 DEF StorePart
<1>3. req[r].call \in Calls /\ req[r].call.op = "update_part"
  BY <1>1 DEF Requests, Busy, Read
<1>4. row \in [host : DOMAIN hosts, part : Part] /\ row.part \in Part
  BY <1>1 DEF Tables
<1>5. name \in Names /\ value \in Values
  <2>1. /\ q.call.name \in Names \cup {None} /\ q.call.value \in Values \cup {None}
        /\ row.part.name \in Names /\ row.part.value \in Values
    BY <1>3, <1>4, CallFields DEF Part
  <2> QED
    BY <2>1, ColumnOf
<1> HIDE DEF name, value
<1>6. new \in Part /\ new.kind = row.part.kind /\ new.full = row.part.full /\ new.name = name /\ new.value = value
  BY <1>4, <1>5 DEF Part
<1> HIDE DEF new
<1>7. /\ DOMAIN parts' = DOMAIN parts /\ \A x \in DOMAIN parts : x # p => parts'[x] = parts[x]
      /\ parts'[p] = [row EXCEPT !.part = new]
  BY <1>1, <1>2 DEF Tables
<1>8. /\ parts'[p] \in [host : DOMAIN hosts, part : Part] /\ parts'[p].host = row.host
      /\ parts'[p].part = new
  BY <1>4, <1>6, <1>7
<1> QED
  BY <1>1, <1>2, <1>6, <1>7, <1>8 DEF name, value

LEMMA HostStored ==
  ASSUME Tables, Requests, NEW r \in Slots, StoreHost(r), ~UNCHANGED hosts
  PROVE  LET h == req[r].seen
             m == hosts'[h].name
         IN /\ Read(r, {"update_host"}) /\ h \in DOMAIN hosts /\ DOMAIN hosts' = DOMAIN hosts
            /\ \A x \in DOMAIN hosts : x # h => hosts'[x] = hosts[x]
            /\ hosts' \in [DOMAIN hosts -> [name : Hostnames, cloud : clouds, home : clouds]]
            /\ m = Column(req[r].call.name, req[r].held.name, hosts[h].name)
            /\ \/ m = hosts[h].name /\ Answer(r, "ok") /\ UNCHANGED <<cli, crossed>>
               \/ /\ m # hosts[h].name /\ req' = Overtaken(r, <<m>>)
                  /\ crossed \subseteq crossed' /\ (HostNamed(m) # {} => <<m>> \in crossed')
                  /\ Rename({hosts[h].name, m}, h)
            /\ UNCHANGED <<clouds, parts, booked, active, exported, env>>
<1> DEFINE q == req[r]
           h == q.seen
           old == hosts[h]
           name == Column(q.call.name, q.held.name, old.name)
           cloud == Column(q.call.cloud, q.held.cloud, old.cloud)
           home == Column(q.call.home, q.held.home, old.home)
           new == [name |-> name, cloud |-> cloud, home |-> home]
<1>1. /\ Read(r, {"update_host"}) /\ h \in DOMAIN hosts /\ {cloud, home} \subseteq clouds
      /\ hosts' = [hosts EXCEPT ![h] = new]
      /\ UNCHANGED <<clouds, parts, booked, active, exported, env>>
      /\ IF name = old.name THEN Answer(r, "ok") /\ UNCHANGED <<cli, crossed>>
         ELSE /\ req' = Overtaken(r, <<name>>)
              /\ crossed' = IF HostNamed(name) = {} THEN crossed ELSE crossed \cup {<<name>>}
              /\ Rename({old.name, name}, h)
  BY DEF StoreHost
<1>2. req[r].call \in Calls /\ req[r].call.op = "update_host"
  BY <1>1 DEF Requests, Busy, Read
<1>3. name \in Hostnames
  <2>1. q.call.name \in Hostnames \cup {None} /\ old.name \in Hostnames
    BY <1>1, <1>2, CallFields DEF Tables
  <2> QED
    BY <2>1, ColumnOf
<1> HIDE DEF name, cloud, home
<1>4. new \in [name : Hostnames, cloud : clouds, home : clouds] /\ new.name = name
  BY <1>1, <1>3
<1> HIDE DEF new
<1>5. /\ DOMAIN hosts' = DOMAIN hosts /\ \A x \in DOMAIN hosts : x # h => hosts'[x] = hosts[x]
      /\ hosts'[h] = new /\ hosts' \in [DOMAIN hosts -> [name : Hostnames, cloud : clouds, home : clouds]]
  BY <1>1, <1>4 DEF Tables
<1> QED
  BY <1>1, <1>4, <1>5 DEF name

LEMMA WritingTables ==
  ASSUME Tables, Requests, NEW r \in Slots, Writing(r), Complete(r)
  PROVE  Tables'
<1>0. /\ env.row \in Nat /\ Ids \subseteq Ids' /\ env.row \notin Ids
      /\ env'.row = env.row + 1 => env.row \in Ids'
      /\ UNCHANGED exported /\ env' \in [row : Nat, jobs : Nat, troubles : Nat]
  BY WritingFrame, IdsGrow, Known
<1>1. req[r].call \in Calls
  BY WritingFrame DEF Requests
<1> DEFINE c == req[r].call
<1>2. CASE UNCHANGED rows
  BY <1>0, <1>2 DEF Tables, rows
<1>3. CASE /\ InsertPart(r) /\ req[r].seen \in DOMAIN hosts /\ env'.row = env.row + 1
           /\ parts' = Insert(parts, [host |-> req[r].seen, part |-> c.part])
           /\ UNCHANGED <<clouds, hosts, booked, active>>
  <2>1. c.op = "create_part" /\ c.part.full
    BY <1>3 DEF InsertPart, Read, Complete
  <2>2. [host |-> req[r].seen, part |-> c.part] \in [host : DOMAIN hosts, part : Part]
    BY <1>1, <1>3, <2>1, CallFields
  <2>3. parts' \in [DOMAIN parts' -> [host : DOMAIN hosts', part : Part]]
    BY <1>3, <2>2 DEF Insert, Tables
  <2> DEFINE row == [host |-> req[r].seen, part |-> c.part]
  <2> HIDE DEF row
  <2>6. /\ DOMAIN Insert(parts, row) = DOMAIN parts \cup {env.row} /\ Insert(parts, row)[env.row] = row
        /\ \A id \in DOMAIN parts : id # env.row => Insert(parts, row)[id] = parts[id]
    BY DEF Insert
  <2>7. row.part.full
    BY <2>1 DEF row
  <2>8. IsFiniteSet(DOMAIN parts) /\ DOMAIN parts \subseteq Ids /\ \A p \in DOMAIN parts : parts[p].part.full
    BY DEF Tables
  <2>9. IsFiniteSet(DOMAIN parts \cup {env.row})
    BY <2>8, FS_AddElement
  <2>4. IsFiniteSet(DOMAIN parts') /\ DOMAIN parts' \subseteq Ids'
    BY <1>0, <1>3, <2>6, <2>8, <2>9 DEF row
  <2>10. \A p \in DOMAIN Insert(parts, row) : Insert(parts, row)[p].part.full
    BY <2>6, <2>7, <2>8
  <2>5. \A p \in DOMAIN parts' : parts'[p].part.full
    BY <1>3, <2>10 DEF row
  <2> QED
    BY <1>0, <1>3, <2>3, <2>4, <2>5 DEF Tables
<1>4. CASE ErasePart(r) /\ parts' = Restrict(parts, DOMAIN parts \ {req[r].seen})
  <2>1. parts' \in [DOMAIN parts' -> [host : DOMAIN hosts, part : Part]]
    BY <1>4 DEF Restrict, Tables
  <2>2. DOMAIN parts' = DOMAIN parts \ {req[r].seen} /\ \A p \in DOMAIN parts' : parts'[p] = parts[p]
    BY <1>4 DEF Restrict
  <2>6. IsFiniteSet(DOMAIN parts)
    BY DEF Tables
  <2>7. IsFiniteSet(DOMAIN parts \ {req[r].seen})
    BY <2>6, FS_RemoveElement
  <2>3. IsFiniteSet(DOMAIN parts')
    BY <2>2, <2>7
  <2>4. UNCHANGED <<clouds, hosts, booked, active>>
    BY <1>4 DEF ErasePart
  <2> QED
    BY <1>0, <2>1, <2>2, <2>3, <2>4 DEF Tables
<1>5. CASE StorePart(r) /\ ~UNCHANGED parts
  <2>1. /\ DOMAIN parts' = DOMAIN parts /\ UNCHANGED <<clouds, hosts, booked, active>>
        /\ \A p \in DOMAIN parts : parts'[p] = parts[p] \/ parts'[p].part.full = parts[p].part.full
        /\ \A p \in DOMAIN parts : parts'[p] \in [host : DOMAIN hosts, part : Part]
    BY <1>5, PartStored DEF Tables
  <2>2. parts' = [p \in DOMAIN parts' |-> parts'[p]]
    BY <1>5 DEF StorePart, Tables
  <2>3. parts' \in [DOMAIN parts' -> [host : DOMAIN hosts, part : Part]]
    BY <2>1, <2>2
  <2> QED
    BY <1>0, <2>1, <2>3 DEF Tables
<1>6. CASE /\ InsertHost(r) /\ c.home \in clouds /\ env'.row = env.row + 1
           /\ hosts' = Insert(hosts, [name |-> c.host, cloud |-> c.home, home |-> c.home])
           /\ UNCHANGED <<clouds, parts, booked, active>>
  <2>1. c.op = "create_host"
    BY <1>6 DEF InsertHost, Read
  <2>2. [name |-> c.host, cloud |-> c.home, home |-> c.home] \in [name : Hostnames, cloud : clouds, home : clouds]
    BY <1>1, <1>6, <2>1, CallFields
  <2>3. hosts' \in [DOMAIN hosts' -> [name : Hostnames, cloud : clouds, home : clouds]]
    BY <1>6, <2>2 DEF Insert, Tables
  <2>4. DOMAIN hosts' = DOMAIN hosts \cup {env.row}
    BY <1>6, Inserted
  <2> QED
    BY <1>0, <1>6, <2>3, <2>4 DEF Tables
<1>7. CASE RemoveHost(r) /\ ~UNCHANGED <<hosts, parts>>
  <2>1. PICK h : /\ h \notin booked /\ hosts' = Restrict(hosts, DOMAIN hosts \ {h}) /\ parts' = Cascade(h)
    BY <1>7 DEF RemoveHost
  <2>2. UNCHANGED <<clouds, booked, active>>
    BY <1>7 DEF RemoveHost
  <2>3. /\ DOMAIN hosts' = DOMAIN hosts \ {h} /\ \A g \in DOMAIN hosts' : hosts'[g] = hosts[g]
        /\ hosts' \in [DOMAIN hosts' -> [name : Hostnames, cloud : clouds, home : clouds]]
    BY <2>1 DEF Restrict, Tables
  <2>4. /\ DOMAIN parts' = DOMAIN parts \ PartsOf(h) /\ \A p \in DOMAIN parts' : parts'[p] = parts[p]
        /\ parts' = [p \in DOMAIN parts' |-> parts[p]]
    BY <2>1 DEF Restrict, Cascade
  <2>5. \A p \in DOMAIN parts' : parts[p].host \in DOMAIN hosts'
    BY <2>3, <2>4 DEF PartsOf, Tables
  <2>6. \A p \in DOMAIN parts' : parts[p] \in [host : DOMAIN hosts', part : Part]
    BY <2>4, <2>5 DEF Tables
  <2>7. parts' \in [DOMAIN parts' -> [host : DOMAIN hosts', part : Part]]
    BY <2>4, <2>6
  <2>8. IsFiniteSet(DOMAIN parts')
    BY <2>4, FS_Subset, SMTT(40) DEF Tables
  <2> QED
    BY <1>0, <2>1, <2>2, <2>3, <2>4, <2>7, <2>8 DEF Tables
<1>8. CASE StoreHost(r) /\ ~UNCHANGED hosts
  <2>1. /\ DOMAIN hosts' = DOMAIN hosts /\ UNCHANGED <<clouds, parts, booked, active>>
        /\ hosts' \in [DOMAIN hosts -> [name : Hostnames, cloud : clouds, home : clouds]]
    BY <1>8, HostStored
  <2> QED
    BY <1>0, <2>1 DEF Tables
<1>9. CASE InsertCloud(r) /\ clouds' = clouds \cup {c.cloud}
  <2>1. c.cloud \in Clouds /\ UNCHANGED <<hosts, parts, booked, active>>
    BY <1>1, <1>9, CallFields DEF InsertCloud, Read
  <2>2. \A h \in DOMAIN hosts : hosts[h] \in [name : Hostnames, cloud : clouds', home : clouds']
    BY <1>9 DEF Tables
  <2> QED
    BY <1>0, <1>9, <2>1, <2>2 DEF Tables
<1>10. CASE RemoveCloud(r) /\ ~UNCHANGED <<clouds, active>>
  <2>1. /\ ~ \E h \in DOMAIN hosts : c.cloud \in {hosts[h].cloud, hosts[h].home}
        /\ clouds' = clouds \ {c.cloud}
        /\ active' = [a \in DOMAIN active |-> IF active[a] = c.cloud THEN None ELSE active[a]]
        /\ UNCHANGED <<hosts, parts, booked>>
    BY <1>10 DEF RemoveCloud
  <2>2. \A h \in DOMAIN hosts : hosts[h] \in [name : Hostnames, cloud : clouds', home : clouds']
    BY <2>1 DEF Tables
  <2>3. \A a \in DOMAIN active : active'[a] \in clouds' \cup {None}
    BY <2>1 DEF Tables
  <2> QED
    BY <1>0, <2>1, <2>2, <2>3 DEF Tables
<1>11. CASE /\ Assign(r) /\ env'.row = env.row + 1 /\ c.cloud \in clouds /\ active' = Insert(active, c.cloud)
            /\ UNCHANGED <<clouds, hosts, parts, booked>>
  <2>1. DOMAIN active' = DOMAIN active \cup {env.row} /\ active' \in [DOMAIN active' -> clouds \cup {None}]
    BY <1>11 DEF Insert, Tables
  <2> QED
    BY <1>0, <1>11, <2>1 DEF Tables
<1>20. env \in [row : Nat, jobs : Nat, troubles : Nat]
  BY DEF Tables
<1>21. CASE InsertPart(r)
  BY <1>2, <1>3, <1>20, <1>21 DEF InsertPart, rows
<1>22. CASE ErasePart(r)
  <2>1. \/ parts' = Restrict(parts, DOMAIN parts \ {req[r].seen})
        \/ UNCHANGED parts
    BY <1>22 DEF ErasePart
  <2>2. UNCHANGED <<clouds, hosts, booked, active>>
    BY <1>22 DEF ErasePart
  <2> QED
    BY <1>2, <1>4, <1>22, <2>1, <2>2 DEF rows
<1>23. CASE StorePart(r)
  BY <1>2, <1>5, <1>23 DEF StorePart, rows
<1>24. CASE InsertHost(r)
  BY <1>2, <1>6, <1>20, <1>24 DEF InsertHost, rows
<1>25. CASE RemoveHost(r)
  BY <1>2, <1>7, <1>25 DEF RemoveHost, rows
<1>26. CASE StoreHost(r)
  BY <1>2, <1>8, <1>26 DEF StoreHost, rows
<1>27. CASE InsertCloud(r)
  BY <1>2, <1>9, <1>27 DEF InsertCloud, rows
<1>28. CASE RemoveCloud(r)
  BY <1>2, <1>10, <1>28 DEF RemoveCloud, rows
<1>29. CASE Assign(r)
  BY <1>2, <1>11, <1>20, <1>29 DEF Assign, rows
<1> QED
  BY <1>21, <1>22, <1>23, <1>24, <1>25, <1>26, <1>27, <1>28, <1>29 DEF Writing

(***************************************************************************)
(* The plans of commands keep the types.                                   *)
(***************************************************************************)
LEMMA ChapterTyped ==
  ASSUME NEW any \in SUBSET Calls, NEW calls \in Seq(Calls \cup Lookups)
  PROVE  Chapter(any, calls) \in Chapters
  BY DEF Chapter, Chapters

LEMMA Single ==
  ASSUME NEW c \in Calls \cup Lookups
  PROVE  <<c>> \in Seq(Calls \cup Lookups)
  OBVIOUS

LEMMA JustTyped ==
  ASSUME NEW calls \in Seq(Calls \cup Lookups)
  PROVE  Just(calls) \in Seq(Chapters)
<1>1. Chapter({}, calls) \in Chapters
  BY ChapterTyped
<1> QED
  BY <1>1 DEF Just

LEMMA ListFields ==
  ASSUME NEW list \in List
  PROVE  /\ list.field \in Fields \cup {"default_cloud"} /\ list.entries \in Seq(Part)
         /\ DOMAIN list.entries = 1..Len(list.entries) /\ Len(list.entries) \in Nat
         /\ \A i \in DOMAIN list.entries : list.entries[i] \in Part /\ Field(list.entries[i].kind) = list.field
<1>1. /\ list \in [field : Fields \cup {"default_cloud"}, entries : Seq(Part)]
      /\ \A i \in DOMAIN list.entries : Field(list.entries[i].kind) = list.field
  BY DEF List
<1>2. list.entries \in Seq(Part)
  BY <1>1
<1> QED
  BY <1>1, <1>2, LenProperties, ElementOfSeq

LEMMA FileFields ==
  ASSUME NEW f \in File
  PROVE  /\ f.home \in Clouds /\ f.full \in BOOLEAN /\ f.lists \in Seq(List)
         /\ DOMAIN f.lists = 1..Len(f.lists) /\ Len(f.lists) \in Nat
         /\ \A i \in DOMAIN f.lists : f.lists[i] \in List
         /\ \A i, j \in DOMAIN f.lists : f.lists[i].field = f.lists[j].field => i = j
<1>1. /\ f \in [home : Clouds, full : BOOLEAN, lists : Seq(List)]
      /\ \A i, j \in DOMAIN f.lists : f.lists[i].field = f.lists[j].field => i = j
  BY DEF File
<1>2. f.lists \in Seq(List)
  BY <1>1
<1> QED
  BY <1>1, <1>2, LenProperties, ElementOfSeq

LEMMA ScanFields ==
  ASSUME NEW s \in Hardware
  PROVE  /\ s.lists \in Seq(List) /\ DOMAIN s.lists = 1..4
         /\ \A i \in DOMAIN s.lists : s.lists[i] \in List
         /\ s.lists[1].field = "interfaces" /\ s.lists[2].field = "disks"
         /\ s.lists[3].field = "memory" /\ s.lists[4].field = "processors"
         /\ \A i, j \in DOMAIN s.lists : s.lists[i].field = s.lists[j].field => i = j
         /\ \A i, j \in DOMAIN s.lists[2].entries :
              /\ s.lists[2].entries[i].full
              /\ s.lists[2].entries[i].name = s.lists[2].entries[j].name => i = j
<1>1. /\ s \in [lists : Seq(List)] /\ [i \in DOMAIN s.lists |-> s.lists[i].field] = Scanned
      /\ \A i, j \in DOMAIN s.lists[2].entries :
           /\ s.lists[2].entries[i].full
           /\ s.lists[2].entries[i].name = s.lists[2].entries[j].name => i = j
  BY DEF Hardware
<1>2. s.lists \in Seq(List)
  BY <1>1
<1>3. DOMAIN s.lists = 1..4 /\ \A i \in 1..4 : s.lists[i].field = Scanned[i]
  <2>1. DOMAIN Scanned = 1..4
    BY DEF Scanned
  <2>2. DOMAIN [i \in DOMAIN s.lists |-> s.lists[i].field] = DOMAIN s.lists
    OBVIOUS
  <2>3. \A i \in DOMAIN s.lists : [j \in DOMAIN s.lists |-> s.lists[j].field][i] = s.lists[i].field
    OBVIOUS
  <2> QED
    BY <1>1, <2>1, <2>2, <2>3
<1>4. Scanned[1] = "interfaces" /\ Scanned[2] = "disks" /\ Scanned[3] = "memory" /\ Scanned[4] = "processors"
  BY DEF Scanned
<1>5. \A i \in DOMAIN s.lists : s.lists[i] \in List
  BY <1>2, LenProperties, ElementOfSeq
<1>6. \A i \in 1..4 : i = 1 \/ i = 2 \/ i = 3 \/ i = 4
  OBVIOUS
<1>7. \A i, j \in DOMAIN s.lists : s.lists[i].field = s.lists[j].field => i = j
  BY <1>3, <1>4, <1>6
<1> QED
  BY <1>1, <1>2, <1>3, <1>4, <1>5, <1>7

LEMMA ClearTyped ==
  ASSUME NEW n \in Hostnames, NEW D \in SUBSET Nat, NEW read \in [D -> Part], NEW field, NEW type
  PROVE  clear_field(n, read, field, type) \in SUBSET Calls
<1>1. ASSUME NEW p \in D
      PROVE  CallDrop(n, read[p].name, p) \in Calls /\ [op |-> "delete_part", id |-> p] \in Calls
  <2>1. read[p].name \in Names /\ p \in Nat
    BY DEF Part
  <2> QED
    BY <2>1, CallTypes
<1> QED
  BY <1>1 DEF clear_field

LEMMA CreatesTyped ==
  ASSUME NEW n \in Hostnames, NEW list \in List
  PROVE  /\ Creates(n, list) \in Seq(Calls \cup Lookups)
         /\ Len(Creates(n, list)) = Len(list.entries)
         /\ DOMAIN Creates(n, list) = 1..Len(list.entries)
         /\ \A i \in 1..Len(list.entries) : Creates(n, list)[i] = CallPart(n, list.entries[i])
<1>1. /\ DOMAIN list.entries = 1..Len(list.entries) /\ Len(list.entries) \in Nat
      /\ \A i \in 1..Len(list.entries) : list.entries[i] \in Part
  BY ListFields
<1>2. \A i \in 1..Len(list.entries) : CallPart(n, list.entries[i]) \in Calls \cup Lookups
  BY <1>1, CallTypes
<1> QED
  BY <1>1, <1>2 DEF Creates

LEMMA ReplaceTyped ==
  ASSUME NEW n \in Hostnames, NEW D \in SUBSET Nat, NEW read \in [D -> Part], NEW list \in List
  PROVE  Replace(n, read, list) \in Chapters
  BY ClearTyped, CreatesTyped, ChapterTyped DEF Replace

LEMMA ImportTyped ==
  ASSUME NEW n \in Hostnames, NEW D \in SUBSET Nat, NEW read \in [D -> Part], NEW file \in File,
         NEW force \in BOOLEAN
  PROVE  /\ define_host_metadata(n, read, file, force) \in Seq(Chapters)
         /\ force =>
              /\ DOMAIN define_host_metadata(n, read, file, force) = 1..(Len(file.lists) + 1)
              /\ \A i \in 1..Len(file.lists) : define_host_metadata(n, read, file, force)[i] =
                   IF file.lists[i].field = "default_cloud"
                     THEN Chapter({}, <<CallCloud("get_cloud", file.home)>>)
                     ELSE Replace(n, read, file.lists[i])
              /\ define_host_metadata(n, read, file, force)[Len(file.lists) + 1]
                   = Chapter({}, <<CallStore(n, None, None, file.home)>>)
<1> DEFINE OfKey(list) == IF list.field = "default_cloud"
                            THEN Chapter({}, <<CallCloud("get_cloud", file.home)>>)
                            ELSE Replace(n, read, list)
           s == [i \in DOMAIN file.lists |-> OfKey(file.lists[i])]
           last == Chapter({}, <<CallStore(n, None, None, file.home)>>)
<1>1. /\ file.home \in Clouds /\ DOMAIN file.lists = 1..Len(file.lists) /\ Len(file.lists) \in Nat
      /\ \A i \in 1..Len(file.lists) : file.lists[i] \in List
  BY FileFields
<1>2. <<CallCloud("get_cloud", file.home)>> \in Seq(Calls \cup Lookups) /\ <<CallStore(n, None, None, file.home)>> \in Seq(Calls \cup Lookups)
  <2>1. CallCloud("get_cloud", file.home) \in Calls /\ CallStore(n, None, None, file.home) \in Calls
    BY <1>1, CallTypes
  <2> QED
    BY <2>1
<1>3. last \in Chapters /\ Chapter({}, <<CallCloud("get_cloud", file.home)>>) \in Chapters
  BY <1>2, ChapterTyped
<1>4. \A i \in 1..Len(file.lists) : OfKey(file.lists[i]) \in Chapters
  BY <1>1, <1>3, ReplaceTyped
<1>5. s \in Seq(Chapters) /\ Len(s) = Len(file.lists) /\ \A i \in 1..Len(file.lists) : s[i] = OfKey(file.lists[i])
  BY <1>1, <1>4
<1>6. CASE force
  <2>1. define_host_metadata(n, read, file, force) = Append(s, last)
    BY <1>6 DEF define_host_metadata
  <2> HIDE DEF s, last
  <2>2. /\ Append(s, last) \in Seq(Chapters) /\ Len(Append(s, last)) = Len(file.lists) + 1
        /\ \A i \in 1..Len(file.lists) : Append(s, last)[i] = s[i]
        /\ Append(s, last)[Len(file.lists) + 1] = last
    BY <1>3, <1>5, AppendProperties
  <2>3. DOMAIN Append(s, last) = 1..(Len(file.lists) + 1)
    BY <2>2, LenProperties
  <2> QED
    BY <1>5, <2>1, <2>2, <2>3 DEF last
<1>7. CASE ~force
  BY <1>7 DEF define_host_metadata
<1> QED
  BY <1>6, <1>7

(* What is planned for a scan, a chapter a list.                           *)
Scanning(n, read, scan, plan) ==
  /\ DOMAIN plan = 1..4
  /\ \A i \in {3, 4} : plan[i] = Replace(n, read, scan.lists[i])
  /\ \A i \in {1, 2} :
       /\ plan[i].any = {}
       /\ plan[i].calls \in Seq(Calls \cup Lookups)
       /\ Len(plan[i].calls) = Len(scan.lists[i].entries)
       /\ \A m \in 1..Len(scan.lists[i].entries) :
            plan[i].calls[m] = [op |-> Finds(scan.lists[i].field), part |-> scan.lists[i].entries[m]]

LEMMA ScanTyped ==
  ASSUME NEW n \in Hostnames, NEW D \in SUBSET Nat, NEW read \in [D -> Part], NEW scan \in Hardware
  PROVE  /\ lshw2meta(n, read, scan) \in Seq(Chapters)
         /\ Scanning(n, read, scan, lshw2meta(n, read, scan))
<1> DEFINE Find(list) == [i \in DOMAIN list.entries |->
                            [op |-> Finds(list.field), part |-> list.entries[i]]]
           s == [i \in DOMAIN scan.lists |->
                   IF scan.lists[i].field \in Handled THEN Replace(n, read, scan.lists[i])
                   ELSE Chapter({}, Find(scan.lists[i]))]
<1>1. /\ DOMAIN scan.lists = 1..4 /\ \A i \in 1..4 : scan.lists[i] \in List
      /\ scan.lists[1].field = "interfaces" /\ scan.lists[2].field = "disks"
      /\ scan.lists[3].field = "memory" /\ scan.lists[4].field = "processors"
  BY ScanFields
<1>2. ASSUME NEW list \in List
      PROVE  /\ Find(list) \in Seq(Calls \cup Lookups) /\ Len(Find(list)) = Len(list.entries)
             /\ \A m \in 1..Len(list.entries) : Find(list)[m] = [op |-> Finds(list.field), part |-> list.entries[m]]
  <2>1. /\ DOMAIN list.entries = 1..Len(list.entries) /\ Len(list.entries) \in Nat
        /\ \A i \in 1..Len(list.entries) : list.entries[i] \in Part
    BY ListFields
  <2>2. \A i \in 1..Len(list.entries) : [op |-> Finds(list.field), part |-> list.entries[i]] \in Calls \cup Lookups
    BY <2>1 DEF Lookups, Finds, Finding
  <2> QED
    BY <2>1, <2>2
<1>3. \A i \in 1..4 : Replace(n, read, scan.lists[i]) \in Chapters
  BY <1>1, ReplaceTyped
<1>4. \A i \in 1..4 : Chapter({}, Find(scan.lists[i])) \in Chapters
  <2> HIDE DEF Find
  <2> QED
    BY <1>1, <1>2, ChapterTyped
<1>5. s \in Seq(Chapters) /\ DOMAIN s = 1..4
  BY <1>1, <1>3, <1>4
<1>6. lshw2meta(n, read, scan) = s
  BY DEF lshw2meta
<1>7. /\ \A i \in {3, 4} : s[i] = Replace(n, read, scan.lists[i])
      /\ \A i \in {1, 2} : s[i] = Chapter({}, Find(scan.lists[i]))
  BY <1>1 DEF Handled
<1> HIDE DEF s, Find
<1>8. \A i \in {1, 2} : s[i].any = {} /\ s[i].calls = Find(scan.lists[i])
  BY <1>7 DEF Chapter
<1>9. \A i \in {1, 2} : /\ Find(scan.lists[i]) \in Seq(Calls \cup Lookups)
                       /\ Len(Find(scan.lists[i])) = Len(scan.lists[i].entries)
                       /\ \A m \in 1..Len(scan.lists[i].entries) : Find(scan.lists[i])[m]
                            = [op |-> Finds(scan.lists[i].field), part |-> scan.lists[i].entries[m]]
  <2> SUFFICES ASSUME NEW i \in {1, 2}, NEW list, list = scan.lists[i]
               PROVE  /\ Find(list) \in Seq(Calls \cup Lookups) /\ Len(Find(list)) = Len(list.entries)
                      /\ \A m \in 1..Len(list.entries) :
                           Find(list)[m] = [op |-> Finds(list.field), part |-> list.entries[m]]
    OBVIOUS
  <2>1. list \in List
    BY <1>1
  <2> QED
    BY <1>2, <2>1
<1>10. Scanning(n, read, scan, s)
  BY <1>5, <1>7, <1>8, <1>9, SMTT(40) DEF Scanning
<1> QED
  BY <1>5, <1>6, <1>10

(***************************************************************************)
(* Commands keep the types.                                                *)
(***************************************************************************)
LEMMA JobTyped ==
  ASSUME NEW cmd \in Commands, NEW n \in Hostnames \cup {None}, cmd \in OfHost => n \in Hostnames,
         NEW at \in Places \ {"idle"}, at = "read" => cmd \in Readers, NEW arg \in Args(cmd),
         NEW plan \in Seq(Chapters), cli' = Job(cmd, n, at, arg, plan)
  PROVE  CliType'
<1>1. DOMAIN <<>> = {}
  OBVIOUS
<1>2. /\ DOMAIN cli' = {"cmd", "host", "at", "arg", "plan", "then", "read", "renamed", "doubt"}
      /\ cli'.cmd = cmd /\ cli'.host = n /\ cli'.at = at /\ cli'.arg = arg /\ cli'.plan = plan
      /\ cli'.then = "done" /\ cli'.read = <<>> /\ cli'.doubt = FALSE
      /\ cli'.renamed = {}
  BY DEF Job
<1> QED
  BY <1>1, <1>2 DEF CliType

LEMMA JobThenTyped ==
  ASSUME NEW n \in Hostnames, NEW at \in {"run"}, NEW arg \in Args("import"), NEW plan \in Seq(Chapters),
         cli' = [Job("import", n, at, arg, plan) EXCEPT !.then = "read"]
  PROVE  CliType'
<1>1. DOMAIN <<>> = {}
  OBVIOUS
<1>2. /\ DOMAIN cli' = {"cmd", "host", "at", "arg", "plan", "then", "read", "renamed", "doubt"}
      /\ cli'.cmd = "import" /\ cli'.host = n /\ cli'.at = at /\ cli'.arg = arg /\ cli'.plan = plan
      /\ cli'.then = "read" /\ cli'.read = <<>> /\ cli'.doubt = FALSE
      /\ cli'.renamed = {}
  BY DEF Job
<1> QED
  BY <1>1, <1>2 DEF CliType, Places, Commands, OfHost, Readers

LEMMA NoPlan == <<>> \in Seq(Chapters)
  BY EmptySeq

Begins ==
  \/ \E n \in Hostnames :
       \/ \E f \in Files \cup ({exported} \ {None}), force \in BOOLEAN : Import(n, f, force)
       \/ \E c \in Components : ModHost(n, c)
       \/ \E s \in Scans : Scan(n, s)
       \/ \E x \in Names : RemoveInterface(n, x) \/ \E v \in Values : ModInterface(n, x, v)
       \/ RmHost(n) \/ \E c \in Clouds : DefineHost(n, c)
  \/ \E c \in Clouds : RmCloud(c) \/ \E ticket \in BOOLEAN : DefineCloud(c, ticket)
  \/ \E h \in DOMAIN hosts : Export(h)

LEMMA CommandKinds == Command <=> Begins \/ ReadHost \/ Look \/ Proceed \/ Stop
  BY DEF Command, Begins

(* A command that begins: nothing is in flight, nothing is written.        *)
LEMMA BeginsFrame ==
  ASSUME Tables, Begins
  PROVE  /\ UNCHANGED <<rows, req, crossed>> /\ req[Cli].at = "idle"
         /\ cli.at \in {"idle", "done", "stopped"}
         /\ env' \in [row : Nat, jobs : Nat, troubles : Nat] /\ env'.row = env.row
<1>1. Begun
  BY DEF Begins, Import, ModHost, Scan, RemoveInterface, ModInterface, RmHost, DefineHost, RmCloud,
         DefineCloud, Export, Begin
<1>2. env \in [row : Nat, jobs : Nat, troubles : Nat]
  BY DEF Tables
<1> QED
  BY <1>1, <1>2 DEF Begun

LEMMA BeginsTyped ==
  ASSUME Tables, Begins, InventoryConstants
  PROVE  CliType'
<1>1. ASSUME NEW n \in Hostnames, NEW f \in Files \cup ({exported} \ {None}), NEW force \in BOOLEAN,
             Import(n, f, force)
      PROVE  CliType'
  <2> DEFINE arg == [file |-> f, force |-> force]
             create == Just(<<CallHost(n, f.home, f.full)>>)
  <2>1. f \in File
    BY DEF InventoryConstants, Tables
  <2>2. arg \in Args("import")
    BY <2>1 DEF Args
  <2>3. create \in Seq(Chapters)
    <3>1. CallHost(n, f.home, f.full) \in Calls
      BY <2>1, FileFields, CallTypes
    <3>2. <<CallHost(n, f.home, f.full)>> \in Seq(Calls \cup Lookups)
      BY <3>1
    <3> QED
      BY <3>2, JustTyped
  <2>4. cli' = IF HostNamed(n) # {} THEN Job("import", n, "read", arg, <<>>)
               ELSE IF force THEN [Job("import", n, "run", arg, create) EXCEPT !.then = "read"]
               ELSE Job("import", n, "done", arg, <<>>)
    BY <1>1 DEF Import
  <2> HIDE DEF arg, create
  <2>5. CASE HostNamed(n) # {}
    BY <2>2, <2>4, <2>5, JobTyped, NoPlan DEF Commands, Readers, Places
  <2>6. CASE HostNamed(n) = {} /\ force
    BY <2>2, <2>3, <2>4, <2>6, JobThenTyped
  <2>7. CASE HostNamed(n) = {} /\ ~force
    BY <2>2, <2>4, <2>7, JobTyped, NoPlan DEF Commands, Readers, Places
  <2> QED
    BY <2>5, <2>6, <2>7
<1>2. ASSUME NEW n \in Hostnames, NEW C \in Components, ModHost(n, C)
      PROVE  CliType'
  <2>1. PICK order \in SetToSeqs(C) : cli' = Job("mod_host", n, "read", order, <<>>)
    BY <1>2 DEF ModHost
  <2>2. Cardinality(C) \in Nat
    BY FS_CardinalityType DEF InventoryConstants
  <2>3. order \in Seq(C)
    BY <2>1, <2>2 DEF SetToSeqs
  <2>4. order \in Seq(UNION Components)
    BY <2>3, SeqMonotonic
  <2>5. order \in Args("mod_host")
    BY <2>4 DEF Args
  <2> QED
    BY <2>1, <2>5, JobTyped, NoPlan DEF Commands, OfHost, Readers, Places
<1>3. ASSUME NEW n \in Hostnames, NEW s \in Scans, Scan(n, s)
      PROVE  CliType'
  <2>1. [file |-> s, force |-> TRUE] \in Args("lshw2meta")
    BY DEF Args, InventoryConstants
  <2>2. cli' = Job("lshw2meta", n, "read", [file |-> s, force |-> TRUE], <<>>)
    BY <1>3 DEF Scan
  <2> QED
    BY <2>1, <2>2, JobTyped, NoPlan DEF Commands, OfHost, Readers, Places
<1>4. ASSUME NEW n \in Hostnames, NEW x \in Names, RemoveInterface(n, x)
      PROVE  CliType'
  <2>1. [name |-> x] \in Args("rm_interface")
    BY DEF Args
  <2>2. cli' = Job("rm_interface", n, "read", [name |-> x], <<>>)
    BY <1>4 DEF RemoveInterface
  <2> QED
    BY <2>1, <2>2, JobTyped, NoPlan DEF Commands, OfHost, Readers, Places
<1>5. ASSUME NEW n \in Hostnames, NEW x \in Names, NEW v \in Values, ModInterface(n, x, v)
      PROVE  CliType'
  <2>1. [name |-> x, value |-> v] \in Args("mod_interface")
    BY DEF Args
  <2>2. cli' = Job("mod_interface", n, "read", [name |-> x, value |-> v], <<>>)
    BY <1>5 DEF ModInterface
  <2> QED
    BY <2>1, <2>2, JobTyped, NoPlan DEF Commands, OfHost, Readers, Places
<1>6. ASSUME NEW n \in Hostnames, RmHost(n)
      PROVE  CliType'
  <2>1. [op |-> "delete_host", host |-> n] \in Calls
    BY CallTypes
  <2>2. <<[op |-> "delete_host", host |-> n]>> \in Seq(Calls \cup Lookups)
    BY <2>1, Single
  <2>3. Just(<<[op |-> "delete_host", host |-> n]>>) \in Seq(Chapters) /\ None \in Args("rm_host")
    BY <2>2, JustTyped DEF Args
  <2>4. cli' = Job("rm_host", n, "run", None, Just(<<[op |-> "delete_host", host |-> n]>>))
    BY <1>6 DEF RmHost
  <2> QED
    BY <2>3, <2>4, JobTyped DEF Commands, OfHost, Readers, Places
<1>7. ASSUME NEW n \in Hostnames, NEW c \in Clouds, DefineHost(n, c)
      PROVE  CliType'
  <2>1. CallHost(n, c, TRUE) \in Calls
    BY CallTypes
  <2>2. <<CallHost(n, c, TRUE)>> \in Seq(Calls \cup Lookups)
    BY <2>1, Single
  <2>3. Just(<<CallHost(n, c, TRUE)>>) \in Seq(Chapters) /\ None \in Args("define_host")
    BY <2>2, JustTyped DEF Args
  <2>4. cli' = Job("define_host", n, "run", None, Just(<<CallHost(n, c, TRUE)>>))
    BY <1>7 DEF DefineHost
  <2> QED
    BY <2>3, <2>4, JobTyped DEF Commands, OfHost, Readers, Places
<1>8. ASSUME NEW c \in Clouds, RmCloud(c)
      PROVE  CliType'
  <2>1. CallCloud("delete_cloud", c) \in Calls
    BY CallTypes
  <2>2. <<CallCloud("delete_cloud", c)>> \in Seq(Calls \cup Lookups)
    BY <2>1, Single
  <2>3. Just(<<CallCloud("delete_cloud", c)>>) \in Seq(Chapters) /\ c \in Args("rm_cloud")
    BY <2>2, JustTyped DEF Args
  <2>4. \E at \in {"stopped", "run"} :
          cli' = Job("rm_cloud", None, at, c, Just(<<CallCloud("delete_cloud", c)>>))
    BY <1>8 DEF RmCloud
  <2> QED
    BY <2>3, <2>4, JobTyped DEF Commands, OfHost, Readers, Places
<1>9. ASSUME NEW c \in Clouds, NEW ticket \in BOOLEAN, DefineCloud(c, ticket)
      PROVE  CliType'
  <2> DEFINE If(cond, op) == IF cond THEN <<CallCloud(op, c)>> ELSE <<>>
  <2>1. ASSUME NEW cond, NEW op \in {"create_cloud", "assign", "update_cloud"}
        PROVE  If(cond, op) \in Seq(Calls \cup Lookups)
    <3>1. CallCloud(op, c) \in Calls
      BY CallTypes
    <3>2. CASE cond
      BY <3>1, <3>2, Single
    <3>3. CASE ~cond
      BY <3>3, EmptySeq
    <3> QED
      BY <3>2, <3>3
  <2>2. \E at, p, q, s : at \in {"stopped", "run"} /\ cli' = Job("define_cloud", None, at, None,
          Just(If(p, "create_cloud") \o If(q, "assign") \o If(s, "update_cloud")))
    <3>1. PICK taken, p, q, s :
            cli' = Job("define_cloud", None, IF taken THEN "stopped" ELSE "run", None,
                       Just(If(p, "create_cloud") \o If(q, "assign") \o If(s, "update_cloud")))
      BY <1>9 DEF DefineCloud
    <3>2. PICK at : at = IF taken THEN "stopped" ELSE "run"
      OBVIOUS
    <3>3. at \in {"stopped", "run"}
      BY <3>2
    <3>4. cli' = Job("define_cloud", None, at, None,
                     Just(If(p, "create_cloud") \o If(q, "assign") \o If(s, "update_cloud")))
      BY <3>1, <3>2
    <3> HIDE DEF If
    <3> QED
      BY <3>3, <3>4
  <2>3. PICK at, p, q, s : at \in {"stopped", "run"} /\ cli' = Job("define_cloud", None, at, None,
          Just(If(p, "create_cloud") \o If(q, "assign") \o If(s, "update_cloud")))
    BY <2>2
  <2> HIDE DEF If
  <2>4. If(p, "create_cloud") \o If(q, "assign") \o If(s, "update_cloud") \in Seq(Calls \cup Lookups)
    BY <2>1, ConcatProperties
  <2>5. Just(If(p, "create_cloud") \o If(q, "assign") \o If(s, "update_cloud")) \in Seq(Chapters) /\ None \in Args("define_cloud")
    BY <2>4, JustTyped DEF Args
  <2> QED
    BY <2>3, <2>5, JobTyped DEF Commands, OfHost, Readers, Places
<1>10. ASSUME NEW h \in DOMAIN hosts, Export(h)
       PROVE  CliType'
  <2>1. hosts[h].name \in Hostnames /\ None \in Args("export")
    BY DEF Tables, Args
  <2>2. cli' = Job("export", hosts[h].name, "done", None, <<>>)
    BY <1>10 DEF Export
  <2> QED
    BY <2>1, <2>2, JobTyped, NoPlan DEF Commands, OfHost, Readers, Places
<1> QED
  BY <1>1, <1>2, <1>3, <1>4, <1>5, <1>6, <1>7, <1>8, <1>9, <1>10 DEF Begins


(***************************************************************************)
(* An export is a metadata file again.                                     *)
(***************************************************************************)
Keys(lists) == {lists[i].field : i \in DOMAIN lists}
Distinct(lists) == \A i, j \in DOMAIN lists : lists[i].field = lists[j].field => i = j

LEMMA Joined ==
  ASSUME NEW s \in Seq(List), NEW t \in Seq(List), Distinct(s), Distinct(t), Keys(s) \cap Keys(t) = {}
  PROVE  s \o t \in Seq(List) /\ Distinct(s \o t) /\ Keys(s \o t) = Keys(s) \cup Keys(t)
<1>1. /\ Len(s) \in Nat /\ Len(t) \in Nat /\ DOMAIN s = 1..Len(s) /\ DOMAIN t = 1..Len(t)
  BY LenProperties
<1>2. /\ s \o t \in Seq(List) /\ DOMAIN (s \o t) = 1..(Len(s) + Len(t))
      /\ \A i \in 1..(Len(s) + Len(t)) : (s \o t)[i] = IF i <= Len(s) THEN s[i] ELSE t[i - Len(s)]
  <2>1. s \o t \in Seq(List) /\ Len(s \o t) = Len(s) + Len(t)
    BY ConcatProperties
  <2>2. \A i \in 1..(Len(s) + Len(t)) : (s \o t)[i] = IF i <= Len(s) THEN s[i] ELSE t[i - Len(s)]
    BY ConcatProperties
  <2> QED
    BY <2>1, <2>2, LenProperties
<1> DEFINE u == s \o t
<1> HIDE DEF u
<1>3. \A i \in DOMAIN u : \/ i \in DOMAIN s /\ u[i] = s[i]
                          \/ i - Len(s) \in DOMAIN t /\ u[i] = t[i - Len(s)] /\ i \in Int
  BY <1>1, <1>2 DEF u
<1>4. Distinct(u)
  <2> SUFFICES ASSUME NEW i \in DOMAIN u, NEW j \in DOMAIN u, u[i].field = u[j].field
               PROVE  i = j
    BY DEF Distinct
  <2>1. i \in Int /\ j \in Int
    BY <1>1, <1>2 DEF u
  <2>2. CASE i \in DOMAIN s /\ u[i] = s[i] /\ j \in DOMAIN s /\ u[j] = s[j]
    BY <2>2 DEF Distinct
  <2>3. CASE i \in DOMAIN s /\ u[i] = s[i] /\ j - Len(s) \in DOMAIN t /\ u[j] = t[j - Len(s)]
    BY <2>3 DEF Keys
  <2>4. CASE j \in DOMAIN s /\ u[j] = s[j] /\ i - Len(s) \in DOMAIN t /\ u[i] = t[i - Len(s)]
    BY <2>4 DEF Keys
  <2>5. CASE i - Len(s) \in DOMAIN t /\ u[i] = t[i - Len(s)] /\ j - Len(s) \in DOMAIN t /\ u[j] = t[j - Len(s)]
    <3>1. i - Len(s) = j - Len(s)
      BY <2>5 DEF Distinct
    <3> QED
      BY <1>1, <2>1, <3>1
  <2> QED
    BY <1>3, <2>2, <2>3, <2>4, <2>5
<1>5. Keys(u) \subseteq Keys(s) \cup Keys(t)
  BY <1>3 DEF Keys
<1>6. Keys(s) \subseteq Keys(u)
  <2>1. \A i \in DOMAIN s : i \in DOMAIN u /\ u[i] = s[i]
    BY <1>1, <1>2 DEF u
  <2> QED
    BY <2>1 DEF Keys
<1>7. Keys(t) \subseteq Keys(u)
  <2>1. ASSUME NEW i \in DOMAIN t
        PROVE  i + Len(s) \in DOMAIN u /\ u[i + Len(s)] = t[i]
    BY <1>1, <1>2 DEF u
  <2> QED
    BY <2>1 DEF Keys
<1> QED
  BY <1>2, <1>4, <1>5, <1>6, <1>7 DEF u

LEMMA ExportTyped ==
  ASSUME Tables, NEW h \in DOMAIN hosts, Export(h)
  PROVE  exported' \in File
<1> DEFINE Entry(p) == IF Field(parts[p].part.kind) = "processors"
                         THEN [parts[p].part EXCEPT !.kind = "untyped"] ELSE parts[p].part
           Entries(ids) == [i \in DOMAIN ids |-> Entry(ids[i])]
           Of(f) == IF FieldOf(h, f) = {} THEN <<>>
                    ELSE <<[field |-> f, entries |-> Entries(SetToSeq(FieldOf(h, f)))]>>
           Key0 == <<[field |-> "default_cloud", entries |-> <<>>]>>
<1>1. exported' = [home |-> hosts[h].home, full |-> FALSE,
                   lists |-> Key0 \o Of("disks") \o Of("interfaces") \o Of("memory") \o Of("processors")]
  BY DEF Export
<1>2. ASSUME NEW f \in Fields
      PROVE  Of(f) \in Seq(List) /\ Distinct(Of(f)) /\ Keys(Of(f)) \subseteq {f}
  <2> DEFINE ids == SetToSeq(FieldOf(h, f))
             entries == Entries(ids)
  <2>1. IsFiniteSet(FieldOf(h, f)) /\ FieldOf(h, f) \subseteq DOMAIN parts
    <3>1. FieldOf(h, f) \subseteq DOMAIN parts
      BY DEF FieldOf, PartsOf
    <3>2. IsFiniteSet(DOMAIN parts)
      BY DEF Tables
    <3> QED
      BY <3>1, <3>2, FS_Subset
  <2>2. ids \in [1..Cardinality(FieldOf(h, f)) -> FieldOf(h, f)] /\ Cardinality(FieldOf(h, f)) \in Nat
    BY <2>1, SetToSeqType
  <2>3. ASSUME NEW p \in FieldOf(h, f)
        PROVE  Entry(p) \in Part /\ Field(Entry(p).kind) = f
    <3>1. parts[p].part \in Part /\ Field(parts[p].part.kind) = f
      BY <2>1 DEF FieldOf, Tables
    <3> DEFINE q == parts[p].part
    <3>2. /\ [q EXCEPT !.kind = "untyped"] \in Part
          /\ [q EXCEPT !.kind = "untyped"].kind = "untyped"
      BY <3>1 DEF Part, Kinds
    <3>3. Field("untyped") = "processors"
      BY DEF Field
    <3> QED
      BY <3>1, <3>2, <3>3
  <2> HIDE DEF ids, Entry
  <2>4. \A i \in 1..Cardinality(FieldOf(h, f)) : ids[i] \in FieldOf(h, f)
    BY <2>2
  <2>5. entries \in Seq(Part) /\ DOMAIN entries = 1..Cardinality(FieldOf(h, f))
    BY <2>2, <2>3, <2>4
  <2>6. \A i \in DOMAIN entries : Field(entries[i].kind) = f
    BY <2>2, <2>3, <2>4, <2>5
  <2> DEFINE list == [field |-> f, entries |-> entries]
  <2>7. list \in List /\ list.field = f
    BY <2>5, <2>6 DEF List
  <2>8. Of(f) = <<>> \/ Of(f) = <<list>>
    BY DEF ids
  <2> HIDE DEF list, Of
  <2>9. CASE Of(f) = <<>>
    BY <2>9 DEF Distinct, Keys
  <2>10. CASE Of(f) = <<list>>
    BY <2>7, <2>10 DEF Distinct, Keys
  <2> QED
    BY <2>8, <2>9, <2>10
<1>3. Key0 \in Seq(List) /\ Distinct(Key0) /\ Keys(Key0) = {"default_cloud"}
  <2> DEFINE none == [field |-> "default_cloud", entries |-> <<>>]
  <2>1. none \in List /\ none.field = "default_cloud"
    BY DEF List
  <2> HIDE DEF none
  <2> QED
    BY <2>1 DEF none, Distinct, Keys
<1> HIDE DEF Of, Key0
<1> DEFINE s1 == Key0 \o Of("disks")
           s2 == s1 \o Of("interfaces")
           s3 == s2 \o Of("memory")
           s4 == s3 \o Of("processors")
<1>4. s1 \in Seq(List) /\ Distinct(s1) /\ Keys(s1) \subseteq {"default_cloud", "disks"}
  <2>1. Keys(Key0) \cap Keys(Of("disks")) = {}
    BY <1>2, <1>3 DEF Fields
  <2> QED
    BY <1>2, <1>3, <2>1, Joined DEF Fields
<1>5. s2 \in Seq(List) /\ Distinct(s2) /\ Keys(s2) \subseteq {"default_cloud", "disks", "interfaces"}
  <2> HIDE DEF s1
  <2>1. Keys(s1) \cap Keys(Of("interfaces")) = {}
    BY <1>2, <1>4 DEF Fields
  <2> QED
    BY <1>2, <1>4, <2>1, Joined DEF Fields
<1>6. s3 \in Seq(List) /\ Distinct(s3) /\ Keys(s3) \subseteq {"default_cloud", "disks", "interfaces", "memory"}
  <2> HIDE DEF s2
  <2>1. Keys(s2) \cap Keys(Of("memory")) = {}
    BY <1>2, <1>5 DEF Fields
  <2> QED
    BY <1>2, <1>5, <2>1, Joined DEF Fields
<1>7. s4 \in Seq(List) /\ Distinct(s4)
  <2> HIDE DEF s3
  <2>1. Keys(s3) \cap Keys(Of("processors")) = {}
    BY <1>2, <1>6 DEF Fields
  <2> QED
    BY <1>2, <1>6, <2>1, Joined DEF Fields
<1>8. hosts[h].home \in Clouds
  BY DEF Tables
<1> QED
  BY <1>1, <1>7, <1>8 DEF File, Distinct

LEMMA ArgFields ==
  ASSUME CliType
  PROVE  /\ cli.cmd = "import" => /\ cli.arg.file \in File /\ cli.arg.force \in BOOLEAN
         /\ cli.cmd = "lshw2meta" => /\ cli.arg.file \in Hardware /\ cli.arg.force = TRUE
         /\ cli.cmd = "mod_interface" => cli.arg.name \in Names /\ cli.arg.value \in Values
         /\ cli.cmd = "rm_interface" => cli.arg.name \in Names
         /\ cli.cmd = "mod_host" => cli.arg \in Seq(UNION Components)
         /\ cli.cmd = "rm_cloud" => cli.arg \in Clouds
         /\ cli.cmd \in {"import", "lshw2meta", "mod_interface", "rm_interface"} => cli.arg # <<>>
<1>1. cli.arg \in Args(cli.cmd)
  BY DEF CliType
<1>2. DOMAIN <<>> = {}
  OBVIOUS
<1>3. cli.cmd \in {"import", "lshw2meta"} => DOMAIN cli.arg = {"file", "force"}
  BY <1>1 DEF Args
<1>4. cli.cmd = "mod_interface" => DOMAIN cli.arg = {"name", "value"}
  BY <1>1 DEF Args
<1>5. cli.cmd = "rm_interface" => DOMAIN cli.arg = {"name"}
  BY <1>1 DEF Args
<1>6. cli.cmd \in {"import", "lshw2meta", "mod_interface", "rm_interface"} => cli.arg # <<>>
  BY <1>2, <1>3, <1>4, <1>5
<1> QED
  BY <1>1, <1>6 DEF Args

LEMMA PlansTyped ==
  ASSUME CliType, cli.at = "read", NEW D \in SUBSET Nat, NEW read \in [D -> Part],
         NEW plan \in Plans(cli.host, read)
  PROVE  plan \in Seq(Chapters)
<1> DEFINE n == cli.host
<1>1. n \in Hostnames /\ cli.cmd \in Readers
  BY DEF CliType, Readers, OfHost
<1>2. CASE cli.cmd = "import"
  <2>1. plan = define_host_metadata(n, read, cli.arg.file, cli.arg.force)
    BY <1>2, ArgFields DEF Plans
  <2> QED
    BY <1>1, <1>2, <2>1, ArgFields, ImportTyped
<1>3. CASE cli.cmd = "lshw2meta"
  <2>1. plan = lshw2meta(n, read, cli.arg.file)
    BY <1>3, ArgFields DEF Plans
  <2> QED
    BY <1>1, <1>3, <2>1, ArgFields, ScanTyped
<1>4. CASE cli.cmd = "mod_interface"
  <2>1. plan \in mod_interface(n, read, cli.arg.name, cli.arg.value)
    BY <1>4, ArgFields DEF Plans
  <2>2. PICK p \in D : plan = Just(<<CallUpdate(n, p, None, cli.arg.value)>>)
    BY <2>1 DEF mod_interface
  <2>3. CallUpdate(n, p, None, cli.arg.value) \in Calls
    BY <1>1, <1>4, <2>2, ArgFields, CallTypes
  <2> QED
    BY <2>2, <2>3, Single, JustTyped
<1>5. CASE cli.cmd = "rm_interface"
  <2>1. plan = Just(<<CallDrop(n, cli.arg.name, None)>>)
    BY <1>5, ArgFields DEF Plans
  <2>2. CallDrop(n, cli.arg.name, None) \in Calls
    BY <1>1, <1>5, ArgFields, CallTypes
  <2> QED
    BY <2>1, <2>2, Single, JustTyped
<1>6. CASE cli.cmd = "mod_host" /\ cli.arg = <<>>
  <2>1. plan = Just(<<CallStore(n, n, None, None)>>)
    BY <1>6 DEF Plans
  <2>2. CallStore(n, n, None, None) \in Calls
    BY <1>1, CallTypes
  <2> QED
    BY <2>1, <2>2, Single, JustTyped
<1>7. CASE cli.cmd = "mod_host" /\ cli.arg # <<>>
  <2> DEFINE Clear(i) == LET c == parse_metadata_components(cli.arg[i])
                         IN Chapter(clear_field(n, read, c[1], c[2]), <<>>)
  <2>1. plan = [i \in DOMAIN cli.arg |-> Clear(i)]
    BY <1>7 DEF Plans
  <2>2. DOMAIN cli.arg = 1..Len(cli.arg) /\ Len(cli.arg) \in Nat
    BY <1>7, ArgFields, LenProperties
  <2>3. ASSUME NEW i
        PROVE  Clear(i) \in Chapters
    <3> DEFINE c == parse_metadata_components(cli.arg[i])
    <3> HIDE DEF c
    <3>1. clear_field(n, read, c[1], c[2]) \in SUBSET Calls
      BY <1>1, ClearTyped
    <3>2. Chapter(clear_field(n, read, c[1], c[2]), <<>>) \in Chapters
      BY <3>1, ChapterTyped, EmptySeq
    <3> QED
      BY <3>2 DEF c
  <2> HIDE DEF Clear
  <2> QED
    BY <2>1, <2>2, <2>3
<1> QED
  BY <1>1, <1>2, <1>3, <1>4, <1>5, <1>6, <1>7 DEF Readers

LEMMA ReadHostTyped ==
  ASSUME Tables, CliType, ReadHost
  PROVE  CliType' /\ UNCHANGED <<rows, req, exported, crossed, env>>
<1>1. UNCHANGED <<rows, req, exported, crossed, env>> /\ cli.at = "read"
  BY ZenonT(30) DEF ReadHost
<1>2. PICK h \in First(HostNamed(cli.host)) :
       IF h = None \/ Plans(cli.host, Listing(h)) = {}
         THEN cli' = [cli EXCEPT !.at = "stopped"]
         ELSE \E plan \in Plans(cli.host, Listing(h)) :
                cli' = [cli EXCEPT !.at = "run", !.then = "done", !.plan = plan, !.read = Listing(h)]
  BY ZenonT(30) DEF ReadHost
<1>3. PartsOf(h) \in SUBSET Nat /\ PartsOf(h) \subseteq Ids /\ PartsOf(h) \subseteq DOMAIN parts
  BY Known DEF PartsOf, Ids
<1>4. Listing(h) \in [PartsOf(h) -> Part] /\ DOMAIN Listing(h) = PartsOf(h)
  BY <1>3 DEF Tables, Listing
<1>0. Ids' = Ids
  BY <1>1 DEF Ids
<1>5. CASE cli' = [cli EXCEPT !.at = "stopped"]
  BY <1>0, <1>1, <1>5 DEF CliType, Places
<1>6. ASSUME NEW plan \in Plans(cli.host, Listing(h)),
             cli' = [cli EXCEPT !.at = "run", !.then = "done", !.plan = plan, !.read = Listing(h)]
      PROVE  CliType'
  <2>1. plan \in Seq(Chapters)
    BY <1>1, <1>3, <1>4, <1>6, PlansTyped
  <2>2. /\ DOMAIN cli' = DOMAIN cli /\ cli'.at = "run" /\ cli'.then = "done" /\ cli'.plan = plan
        /\ cli'.read = Listing(h) /\ cli'.cmd = cli.cmd /\ cli'.host = cli.host /\ cli'.arg = cli.arg
        /\ cli'.doubt = cli.doubt /\ cli'.renamed = cli.renamed
    BY <1>6 DEF CliType
  <2> QED
    BY <1>0, <1>1, <1>3, <1>4, <2>1, <2>2 DEF CliType, Places
<1> QED
  BY ZenonT(30), <1>1, <1>2, <1>5, <1>6

LEMMA PlanFields ==
  ASSUME CliType, NEW i \in DOMAIN cli.plan
  PROVE  /\ cli.plan[i] \in Chapters /\ cli.plan[i].any \in SUBSET Calls
         /\ cli.plan[i].calls \in Seq(Calls \cup Lookups) /\ DOMAIN cli.plan[i] = {"any", "calls"}
         /\ cli.plan[i] # Through /\ cli.plan[i].any = {} => cli.plan[i].calls # <<>>
<1>1. cli.plan[i] \in Chapters
  BY LenProperties, ElementOfSeq DEF CliType
<1>2. cli.plan[i] = [any |-> cli.plan[i].any, calls |-> cli.plan[i].calls]
  BY <1>1 DEF Chapters
<1> QED
  BY <1>1, <1>2 DEF Chapters, Through, Chapter

LEMMA HeadTyped ==
  ASSUME CliType, NEW i \in DOMAIN cli.plan, cli.plan[i] # Through, cli.plan[i].any = {}
  PROVE  /\ Head(cli.plan[i].calls) \in Calls \cup Lookups /\ Tail(cli.plan[i].calls) \in Seq(Calls \cup Lookups)
         /\ Head(cli.plan[i].calls).op \in Finding => Head(cli.plan[i].calls) \in Lookups
         /\ Head(cli.plan[i].calls).op \notin Finding => Head(cli.plan[i].calls) \in Calls
<1>1. cli.plan[i].calls \in Seq(Calls \cup Lookups) /\ cli.plan[i].calls # <<>>
  BY PlanFields
<1>2. Head(cli.plan[i].calls) \in Calls \cup Lookups /\ Tail(cli.plan[i].calls) \in Seq(Calls \cup Lookups)
  BY <1>1, HeadTailProperties
<1>3. \A c \in Lookups : c.op \in Finding
  BY DEF Lookups
<1> QED
  BY <1>2, <1>3, CallFields

LEMMA ReplanTyped ==
  ASSUME CliType, NEW i \in DOMAIN cli.plan, NEW ch \in Chapters, env'.row = env.row,
         cli' = [cli EXCEPT !.plan = [cli.plan EXCEPT ![i] = ch]]
  PROVE  CliType'
<1>1. [cli.plan EXCEPT ![i] = ch] \in Seq(Chapters)
  BY LenProperties, ExceptSeq DEF CliType
<1>2. /\ DOMAIN cli' = DOMAIN cli /\ cli'.at = cli.at /\ cli'.then = cli.then
      /\ cli'.plan = [cli.plan EXCEPT ![i] = ch]
      /\ cli'.read = cli.read /\ cli'.cmd = cli.cmd /\ cli'.host = cli.host /\ cli'.arg = cli.arg
      /\ cli'.doubt = cli.doubt
  BY DEF CliType
<1> QED
  BY <1>1, <1>2 DEF CliType, Ids

LEMMA Replanned ==
  ASSUME CliType, NEW i \in DOMAIN cli.plan
  PROVE  /\ \A ch : [cli EXCEPT !.plan[i] = ch] = [cli EXCEPT !.plan = [cli.plan EXCEPT ![i] = ch]]
         /\ \A s : [cli EXCEPT !.plan[i].any = s]
                     = [cli EXCEPT !.plan = [cli.plan EXCEPT ![i] = Chapter(s, cli.plan[i].calls)]]
         /\ \A s : [cli EXCEPT !.plan[i].calls = s]
                     = [cli EXCEPT !.plan = [cli.plan EXCEPT ![i] = Chapter(cli.plan[i].any, s)]]
<1>1. cli.plan[i] = [any |-> cli.plan[i].any, calls |-> cli.plan[i].calls]
  <2>1. cli.plan[i] \in Chapters
    BY PlanFields
  <2> QED
    BY <2>1 DEF Chapters
<1>2. /\ \A s : [cli.plan[i] EXCEPT !.any = s] = Chapter(s, cli.plan[i].calls)
      /\ \A s : [cli.plan[i] EXCEPT !.calls = s] = Chapter(cli.plan[i].any, s)
  BY <1>1 DEF Chapter
<1>3. DOMAIN cli = {"cmd", "host", "at", "arg", "plan", "then", "read", "renamed", "doubt"}
  BY DEF CliType
<1> QED
  BY <1>2, <1>3

LEMMA FoundTyped ==
  ASSUME Tables, CliType, cli.cmd = "lshw2meta", NEW call \in Lookups, NEW found \in Found(call)
  PROVE  found \in SUBSET Calls
<1> DEFINE p == call.part
           interfaces == {x \in DOMAIN cli.read : cli.read[x].kind = p.kind /\ cli.read[x].name = p.name}
           disks == {x \in DOMAIN parts : /\ hosts[parts[x].host].name = cli.host
                                          /\ parts[x].part.kind = "disk" /\ parts[x].part.name = p.name}
<1>1. p \in Part /\ p.name \in Names /\ p.value \in Values
  BY DEF Lookups, Part
<1>2. cli.host \in Hostnames /\ \A x \in interfaces \cup disks : x \in Nat
  BY DEF CliType, OfHost, Ids, Tables
<1>3. \A x \in interfaces \cup disks : CallUpdate(cli.host, x, p.name, p.value) \in Calls
  BY <1>1, <1>2, CallTypes
<1>4. CallPart(cli.host, p) \in Calls
  BY <1>1, <1>2, CallTypes
<1>5. \/ found = {CallUpdate(cli.host, x, p.name, p.value) : x \in interfaces}
      \/ found = {CallPart(cli.host, p)}
      \/ \E x \in disks : found = IF parts[x].part.value = p.value THEN {} ELSE {CallUpdate(cli.host, x, p.name, p.value)}
  BY DEF Found
<1> HIDE DEF interfaces, disks, p
<1> QED
  BY <1>3, <1>4, <1>5

(* A look puts what it has found in front of the rest of its chapter.      *)
LEMMA Looks ==
  ASSUME CliType, Look
  PROVE  /\ UNCHANGED <<rows, req, exported, crossed, env>> /\ cli.cmd = "lshw2meta" /\ cli.at = "run"
         /\ \E i \in DOMAIN cli.plan :
              /\ Ready(i) /\ cli.plan[i].any = {} /\ Head(cli.plan[i].calls) \in Lookups
              /\ Head(cli.plan[i].calls) \in Calls \cup Lookups
              /\ Tail(cli.plan[i].calls) \in Seq(Calls \cup Lookups)
              /\ \E found \in Found(Head(cli.plan[i].calls)) :
                   cli' = [cli EXCEPT !.plan = [cli.plan EXCEPT ![i] = Chapter(found, Tail(cli.plan[i].calls))]]
<1>1. UNCHANGED <<rows, req, exported, crossed, env>> /\ cli.cmd = "lshw2meta"
  BY DEF Look
<1>2. PICK i \in DOMAIN cli.plan :
        /\ Ready(i) /\ cli.plan[i].any = {} /\ Head(cli.plan[i].calls).op \in Finding
        /\ \E found \in Found(Head(cli.plan[i].calls)) :
             cli' = [cli EXCEPT !.plan[i] = Chapter(found, Tail(cli.plan[i].calls))]
  BY DEF Look
<1>3. Head(cli.plan[i].calls) \in Lookups /\ Tail(cli.plan[i].calls) \in Seq(Calls \cup Lookups)
  BY <1>2, HeadTyped DEF Ready
<1> QED
  BY <1>1, <1>2, <1>3, Replanned DEF Ready

LEMMA LookTyped ==
  ASSUME Tables, CliType, Look
  PROVE  CliType'
<1>1. PICK i \in DOMAIN cli.plan :
         /\ Head(cli.plan[i].calls) \in Lookups /\ Tail(cli.plan[i].calls) \in Seq(Calls \cup Lookups)
         /\ \E found \in Found(Head(cli.plan[i].calls)) :
              cli' = [cli EXCEPT !.plan = [cli.plan EXCEPT ![i] = Chapter(found, Tail(cli.plan[i].calls))]]
  BY Looks
<1>2. PICK found \in Found(Head(cli.plan[i].calls)) :
         cli' = [cli EXCEPT !.plan = [cli.plan EXCEPT ![i] = Chapter(found, Tail(cli.plan[i].calls))]]
  BY <1>1
<1>3. found \in SUBSET Calls
  BY <1>1, <1>2, Looks, FoundTyped
<1>4. Chapter(found, Tail(cli.plan[i].calls)) \in Chapters
  BY <1>1, <1>3, ChapterTyped
<1>5. env'.row = env.row
  BY Looks
<1> QED
  BY <1>2, <1>4, <1>5, ReplanTyped

(* The next call, taken from the chapter it was planned in, or the end.    *)
Asking(i, c) ==
  /\ Ready(i) /\ c \in Calls /\ Ask(Cli, c)
  /\ \/ /\ c \in cli.plan[i].any
        /\ cli' = [cli EXCEPT !.plan = [cli.plan EXCEPT ![i] = Chapter(cli.plan[i].any \ {c}, cli.plan[i].calls)]]
     \/ /\ cli.plan[i].any = {} /\ cli.plan[i].calls # <<>> /\ c = Head(cli.plan[i].calls) /\ c.op \notin Finding
        /\ cli' = [cli EXCEPT !.plan = [cli.plan EXCEPT ![i] = Chapter({}, Tail(cli.plan[i].calls))]]
Through_ == /\ cli.at = "run" /\ req[Cli].at \in {"idle", "ok"} /\ \A i \in DOMAIN cli.plan : cli.plan[i] = Through
            /\ cli' = [cli EXCEPT !.at = cli.then] /\ req' = [req EXCEPT ![Cli] = Idle]

LEMMA Proceeds ==
  ASSUME CliType, Proceed
  PROVE  /\ UNCHANGED <<rows, exported, crossed, env>>
         /\ Through_ \/ \E i \in DOMAIN cli.plan, c \in Calls : Asking(i, c)
<1>1. UNCHANGED <<rows, exported, crossed, env>>
  BY DEF Proceed
<1>2. CASE Through_
  BY <1>1, <1>2
<1>3. ASSUME NEW i \in DOMAIN cli.plan, Ready(i), NEW call \in cli.plan[i].any,
             Ask(Cli, call), cli' = [cli EXCEPT !.plan[i].any = @ \ {call}]
      PROVE  Asking(i, call) /\ call \in Calls
  <2>1. call \in Calls
    BY <1>3, PlanFields
  <2> QED
    BY <1>3, <2>1, Replanned DEF Asking
<1>4. ASSUME NEW i \in DOMAIN cli.plan, Ready(i), cli.plan[i].any = {},
             Head(cli.plan[i].calls).op \notin Finding, Ask(Cli, Head(cli.plan[i].calls)),
             cli' = [cli EXCEPT !.plan[i].calls = Tail(@)]
      PROVE  Asking(i, Head(cli.plan[i].calls)) /\ Head(cli.plan[i].calls) \in Calls
  <2>1. Head(cli.plan[i].calls) \in Calls /\ cli.plan[i].calls # <<>>
    BY <1>4, HeadTyped, PlanFields DEF Ready
  <2>2. cli' = [cli EXCEPT !.plan[i].calls = Tail(cli.plan[i].calls)]
    BY <1>4
  <2> DEFINE rest == Tail(cli.plan[i].calls)
  <2> HIDE DEF rest
  <2>4. [cli EXCEPT !.plan[i].calls = rest]
          = [cli EXCEPT !.plan = [cli.plan EXCEPT ![i] = Chapter(cli.plan[i].any, rest)]]
    BY Replanned
  <2>3. cli' = [cli EXCEPT !.plan = [cli.plan EXCEPT ![i] = Chapter({}, Tail(cli.plan[i].calls))]]
    BY <1>4, <2>2, <2>4 DEF rest
  <2> QED
    BY <1>4, <2>1, <2>3 DEF Asking
<1> QED
  BY <1>1, <1>2, <1>3, <1>4 DEF Proceed, Through_

LEMMA AskingTyped ==
  ASSUME Tables, CliType, UNCHANGED env, NEW i \in DOMAIN cli.plan, NEW c \in Calls, Asking(i, c)
  PROVE  CliType'
<1>1. /\ cli.plan[i].any \in SUBSET Calls /\ cli.plan[i].calls \in Seq(Calls \cup Lookups)
  BY PlanFields
<1>2. cli.plan[i].calls # <<>> => Tail(cli.plan[i].calls) \in Seq(Calls \cup Lookups)
  BY <1>1, HeadTailProperties
<1>3. /\ Chapter(cli.plan[i].any \ {c}, cli.plan[i].calls) \in Chapters
      /\ cli.plan[i].calls # <<>> => Chapter({}, Tail(cli.plan[i].calls)) \in Chapters
  BY <1>1, <1>2, ChapterTyped
<1> QED
  BY <1>3, ReplanTyped DEF Asking

LEMMA ProceedTyped ==
  ASSUME Tables, Requests, CliType, Cli \in Slots, Proceed
  PROVE  CliType' /\ Requests'
<1>1. UNCHANGED env /\ env.row \in Nat /\ Ids' = Ids
  BY Proceeds, Known DEF Ids
<1>2. ASSUME NEW i \in DOMAIN cli.plan, NEW c \in Calls, Asking(i, c)
      PROVE  CliType' /\ Requests'
  BY <1>1, <1>2, AskingTyped, AskTyped DEF Asking
<1>3. CASE Through_
  <2>1. CliType'
    BY <1>1, <1>3 DEF Through_, CliType, Places, Readers
  <2>2. Idle \in Request
    BY DEF Idle, Request
  <2> QED
    BY <1>1, <1>3, <2>1, <2>2 DEF Through_, Requests, Busy, Idle
<1> QED
  BY <1>2, <1>3, Proceeds

LEMMA StopTyped ==
  ASSUME Tables, Requests, CliType, Stop
  PROVE  CliType' /\ Requests' /\ UNCHANGED <<rows, exported, crossed, env>>
<1>1. UNCHANGED <<rows, exported, crossed, env>>
  BY DEF Stop
<1>2. cli' = [cli EXCEPT !.at = "stopped"] /\ req' = [req EXCEPT ![Cli] = Idle]
  BY DEF Stop
<1>3. Ids' = Ids
  BY <1>1 DEF Ids
<1>4. Idle \in Request
  BY DEF Idle, Request
<1>5. CliType'
  BY <1>2, <1>3 DEF CliType, Places
<1>6. Requests'
  BY <1>2, <1>3, <1>4 DEF Requests, Busy, Idle
<1> QED
  BY <1>1, <1>5, <1>6

LEMMA DoubtTyped ==
  ASSUME Tables, CliType, Doubtful, env'.row \in {env.row, env.row + 1}
  PROVE  CliType'
<1>1. Ids \subseteq Ids'
  BY IdsGrow
<1>2. /\ DOMAIN cli' = DOMAIN cli /\ cli'.at = cli.at /\ cli'.then = cli.then /\ cli'.plan = cli.plan
      /\ cli'.read = cli.read /\ cli'.cmd = cli.cmd /\ cli'.host = cli.host /\ cli'.arg = cli.arg
      /\ cli'.doubt \in BOOLEAN /\ (cli'.renamed # {} => cli'.doubt)
  BY DEF Doubtful, CliType
<1> QED
  BY <1>1, <1>2 DEF CliType

(***************************************************************************)
(* One request at a time: the other slots keep what they hold.             *)
(***************************************************************************)
Same(x) == /\ req'[x].at = req[x].at /\ req'[x].call = req[x].call
           /\ req'[x].seen = req[x].seen /\ req'[x].held = req[x].held
Replied(r) == \E a \in {"ok", "refused", "error"} : req'[r] = Answered(r, a)

LEMMA WritingReplies ==
  ASSUME Tables, Requests, NEW r \in Slots, Writing(r)
  PROVE  /\ Replied(r)
         /\ \A x \in Slots : x # r => Same(x) /\ (req[x].doubt => req'[x].doubt)
         /\ \A x \in Slots : x # r /\ (\A key : req' # Overtaken(r, key)) => req'[x] = req[x]
<1>1. CASE \E a \in {"ok", "refused", "error"} : Answer(r, a)
  BY <1>1 DEF Answer, Requests, Same, Replied
<1>2. CASE \E key : req' = Overtaken(r, key)
  <2>1. req'[r] = Answered(r, "ok") /\ \A x \in Slots : x # r => req'[x] \in {req[x], [req[x] EXCEPT !.doubt = TRUE]}
    BY <1>2 DEF Overtaken
  <2>2. \A x \in Slots : req[x] \in Request
    BY DEF Requests
  <2>3. \A q \in Request : /\ [q EXCEPT !.doubt = TRUE].at = q.at /\ [q EXCEPT !.doubt = TRUE].call = q.call
                           /\ [q EXCEPT !.doubt = TRUE].seen = q.seen /\ [q EXCEPT !.doubt = TRUE].held = q.held
                           /\ [q EXCEPT !.doubt = TRUE].doubt
    BY DEF Request
  <2>4. \A x \in Slots : x # r => Same(x) /\ (req[x].doubt => req'[x].doubt)
    <3> SUFFICES ASSUME NEW x \in Slots, x # r
                 PROVE  Same(x) /\ (req[x].doubt => req'[x].doubt)
      OBVIOUS
    <3>1. CASE req'[x] = req[x]
      BY <3>1 DEF Same
    <3>2. CASE req'[x] = [req[x] EXCEPT !.doubt = TRUE]
      <4>1. req[x] \in Request
        BY <2>2
      <4> QED
        BY <2>3, <3>2, <4>1 DEF Same
    <3> QED
      BY <2>1, <3>1, <3>2
  <2> QED
    BY <1>2, <2>1, <2>4 DEF Replied
<1> QED
  BY <1>1, <1>2, WritingFrame

LEMMA ReadingReplies ==
  ASSUME Tables, Requests, NEW r \in Slots, Reading(r)
  PROVE  /\ req[r].at = "asked"
         /\ \/ req'[r].at = "read" /\ req'[r].call = req[r].call /\ req'[r].doubt = req[r].doubt
            \/ Replied(r)
         /\ \A x \in Slots : x # r => req'[x] = req[x]
<1>1. ASSUME NEW row, NEW accepted, Checked(r, row, accepted)
      PROVE  /\ \/ req'[r].at = "read" /\ req'[r].call = req[r].call /\ req'[r].doubt = req[r].doubt
                \/ Replied(r)
             /\ \A x \in Slots : x # r => req'[x] = req[x]
  <2>1. CASE accepted
    <3>1. req' = [req EXCEPT ![r] = [req[r] EXCEPT !.at = "read", !.seen = row]] /\ req[r] \in Request
      BY <1>1, <2>1 DEF Checked, Requests
    <3>2. \A q \in Request : LET n == [q EXCEPT !.at = "read", !.seen = row]
                             IN n.at = "read" /\ n.call = q.call /\ n.doubt = q.doubt
      BY DEF Request
    <3> QED
      BY <3>1, <3>2 DEF Requests
  <2>2. CASE ~accepted
    BY <1>1, <2>2 DEF Checked, Answer, Requests, Replied
  <2> QED
    BY <2>1, <2>2
<1>7. ASSUME NEW id, NEW row, NEW accepted, Holds(r, id, row, accepted)
      PROVE  /\ \/ req'[r].at = "read" /\ req'[r].call = req[r].call /\ req'[r].doubt = req[r].doubt
                \/ Replied(r)
             /\ \A x \in Slots : x # r => req'[x] = req[x]
  <2>1. CASE accepted
    <3>1. req' = [req EXCEPT ![r] = [req[r] EXCEPT !.at = "read", !.seen = id, !.held = row]] /\ req[r] \in Request
      BY <1>7, <2>1 DEF Holds, Requests
    <3>2. \A q \in Request : LET n == [q EXCEPT !.at = "read", !.seen = id, !.held = row]
                             IN n.at = "read" /\ n.call = q.call /\ n.doubt = q.doubt
      BY DEF Request
    <3> QED
      BY <3>1, <3>2 DEF Requests
  <2>2. CASE ~accepted
    BY <1>7, <2>2 DEF Holds, Answer, Requests, Replied
  <2> QED
    BY <2>1, <2>2
<1>8. Answer(r, "refused") => Replied(r) /\ \A x \in Slots : x # r => req'[x] = req[x]
  BY DEF Answer, Requests, Replied
<1>2. req[r].at = "asked"
  BY DEF Reading, CreatePart, DeletePart, DeleteInterface, UpdatePart, CreateHost, DeleteHost,
         UpdateHost, CreateCloud, FindCloud, DeleteCloud, Asked
<1>3. CASE FindCloud(r)
  BY <1>2, <1>3 DEF FindCloud, Answer, Requests, Replied
<1>4. CASE CreatePart(r)
  BY <1>1, <1>2, <1>4 DEF CreatePart
<1>9. CASE UpdatePart(r) \/ UpdateHost(r)
  <2>1. Answer(r, "refused") \/ \E id, row, accepted : Holds(r, id, row, accepted)
    BY <1>9 DEF UpdatePart, UpdateHost
  <2> QED
    BY <1>2, <1>7, <1>8, <2>1
<1>5. CASE DeleteInterface(r)
  <2>1. \E row, accepted : Checked(r, row, accepted)
    BY <1>5 DEF DeleteInterface
  <2> QED
    BY <1>1, <1>2, <2>1
<1>6. CASE DeletePart(r) \/ CreateHost(r) \/ DeleteHost(r) \/ CreateCloud(r) \/ DeleteCloud(r)
  BY <1>1, <1>2, <1>6 DEF DeletePart, CreateHost, DeleteHost, CreateCloud, DeleteCloud
<1> QED
  BY <1>3, <1>4, <1>5, <1>6, <1>9 DEF Reading

(* What another client submits is a call.                                  *)
LEMMA Submits ==
  ASSUME Tables, InventoryConstants, NEW r \in Clients, Submit(r)
  PROVE  /\ UNCHANGED <<rows, cli, exported, crossed>> /\ req[r].at = "idle"
         /\ env' \in [row : Nat, jobs : Nat, troubles : Nat] /\ env'.row = env.row
         /\ \E c \in Calls : Ask(r, c)
<1>1. /\ UNCHANGED <<rows, cli, exported, crossed>> /\ req[r].at = "idle"
      /\ env' = [env EXCEPT !.troubles = @ + 1]
  BY DEF Submit, Trouble
<1>2. env' \in [row : Nat, jobs : Nat, troubles : Nat] /\ env'.row = env.row
  BY <1>1 DEF Tables
<1>3. /\ \A n \in Hostnames, p \in Drafts : CallPart(n, p) \in Calls
      /\ \A n \in Hostnames, x \in Names : CallDrop(n, x, None) \in Calls
      /\ \A n \in Hostnames, p \in DOMAIN parts, x \in Names \cup {None}, v \in Values \cup {None} :
           CallUpdate(n, p, x, v) \in Calls
      /\ \A n \in Hostnames, c \in Clouds : CallHost(n, c, TRUE) \in Calls
      /\ \A n \in Hostnames, m \in Hostnames \cup {None}, c, d \in Clouds \cup {None} :
           CallStore(n, m, c, d) \in Calls
      /\ \A n \in Hostnames : [op |-> "delete_host", host |-> n] \in Calls
      /\ \A p \in DOMAIN parts : [op |-> "delete_part", id |-> p] \in Calls
      /\ \A c \in Clouds : \A op \in {"create_cloud", "delete_cloud", "assign"} : CallCloud(op, c) \in Calls
  BY CallTypes DEF InventoryConstants, Tables, Ids
<1>4. \E c \in Calls : Ask(r, c)
  BY <1>3 DEF Submit
<1> QED
  BY <1>1, <1>2, <1>4

LEMMA ElsewhereFrame ==
  ASSUME Tables, Elsewhere
  PROVE  /\ UNCHANGED <<clouds, hosts, parts, req, cli, exported, crossed, env>>
         /\ DOMAIN active' \subseteq DOMAIN active /\ \A a \in DOMAIN active' : active'[a] = active[a]
         /\ Tables'
<1>1. UNCHANGED <<clouds, hosts, parts, req, cli, exported, crossed, env>>
  BY DEF Elsewhere
<1>2. CASE UNCHANGED active /\ \E h \in DOMAIN hosts : booked' \in {booked \cup {h}, booked \ {h}}
  BY <1>1, <1>2 DEF Tables, Ids
<1>3. ASSUME NEW a \in DOMAIN active, active' = Restrict(active, DOMAIN active \ {a}), UNCHANGED booked
      PROVE  /\ DOMAIN active' \subseteq DOMAIN active /\ \A x \in DOMAIN active' : active'[x] = active[x]
             /\ Tables'
  <2>1. /\ DOMAIN active' \subseteq DOMAIN active /\ \A x \in DOMAIN active' : active'[x] = active[x]
        /\ active' \in [DOMAIN active' -> clouds \cup {None}]
    BY <1>3 DEF Restrict, Tables
  <2> QED
    BY <1>1, <1>3, <2>1 DEF Tables, Ids
<1> QED
  BY <1>1, <1>2, <1>3 DEF Elsewhere

(***************************************************************************)
(* Every step keeps the types, and init has them.                          *)
(***************************************************************************)
LEMMA Slotted == InventoryConstants => Cli \in Slots /\ Cli \notin Clients /\ Clients \subseteq Slots
  BY DEF InventoryConstants, Slots

LEMMA ReadingBasic ==
  ASSUME Basic, InventoryConstants, NEW r \in Slots, Reading(r)
  PROVE  Basic' /\ UNCHANGED <<rows, cli, exported, crossed, env>>
<1>1. Requests' /\ UNCHANGED <<rows, cli, exported, crossed, env>> /\ Busy(r)
  BY ReadingTyped DEF Basic
<1>2. Ids' = Ids
  BY <1>1 DEF Ids
<1>3. Tables'
  BY <1>1, <1>2 DEF Basic, Tables, rows
<1>4. CliType'
  BY <1>1, <1>2 DEF Basic, CliType
<1>5. /\ \/ req'[r].at = "read" /\ req'[r].call = req[r].call /\ req'[r].doubt = req[r].doubt
         \/ Replied(r)
      /\ \A x \in Slots : x # r => req'[x] = req[x]
  BY ReadingReplies DEF Basic
<1>6. Turns'
  <2>1. \A a \in {"ok", "refused", "error"} : r # Cli => Answered(r, a).at = "idle"
    BY DEF Answered, Idle
  <2>2. r = Cli => cli.at = "run"
    BY <1>1 DEF Busy, Basic, Turns
  <2>3. r # Cli => r \in Clients
    BY DEF Slots
  <2> QED
    BY <1>1, <1>5, <2>1, <2>2, <2>3, Slotted DEF Basic, Turns, Busy, Replied
<1>7. Whole'
  <2>1. \A a \in {"ok", "refused", "error"} : Answered(r, a).at # "read"
    BY DEF Answered, Idle
  <2>2. req'[r].at = "read" /\ req[r].call.op = "create_part" => req[r].call.part.full
    <3>1. CASE CreatePart(r)
      <4>1. PICK h \in First(HostNamed(req[r].call.host)) :
              Checked(r, h, h # None /\ Accepts(h, req[r].call.part))
        BY <3>1 DEF CreatePart
      <4>2. Accepts(h, req[r].call.part) => req[r].call.part.full
        BY DEF Accepts, create_processor, create_memory, create_disks, create_interface
      <4>3. CASE ~(h # None /\ Accepts(h, req[r].call.part))
        <5>1. req'[r] = Answered(r, "refused")
          BY <4>1, <4>3 DEF Checked, Answer, Basic, Requests
        <5> QED
          BY <2>1, <5>1
      <4> QED
        BY <4>2, <4>3
    <3>2. CASE ~CreatePart(r)
      BY <3>2 DEF Reading, DeletePart, DeleteInterface, UpdatePart, CreateHost, DeleteHost, UpdateHost,
                  CreateCloud, FindCloud, DeleteCloud, Asked
    <3> QED
      BY <3>1, <3>2
  <2> QED
    BY <1>5, <2>1, <2>2 DEF Whole, Complete, Basic, Read, Replied
<1> QED
  BY <1>1, <1>3, <1>4, <1>6, <1>7 DEF Basic

LEMMA WritingBasic ==
  ASSUME Basic, InventoryConstants, NEW r \in Slots, Writing(r)
  PROVE  Basic'
<1>1. Tables'
  BY WritingTables DEF Basic, Whole
<1>2. Requests'
  BY WritingRequests DEF Basic
<1>3. CliType'
  BY DoubtTyped, WritingFrame DEF Basic
<1>4. Replied(r) /\ \A x \in Slots : x # r => Same(x)
  BY WritingReplies DEF Basic
<1>5. cli'.at = cli.at
  BY WritingFrame DEF Doubtful, Basic, CliType
<1>6. \A a \in {"ok", "refused", "error"} : /\ Answered(r, a).at \notin {"asked", "read"}
                                            /\ r # Cli => Answered(r, a).at = "idle"
  BY DEF Answered, Idle
<1>7. Turns'
  <2>1. r = Cli => cli.at = "run"
    BY WritingFrame DEF Busy, Basic, Turns
  <2>2. r # Cli => r \in Clients
    BY DEF Slots
  <2> QED
    BY <1>4, <1>5, <1>6, <2>1, <2>2, Slotted DEF Basic, Turns, Busy, Replied, Same
<1>8. Whole'
  BY <1>4, <1>6 DEF Basic, Whole, Complete, Read, Replied, Same
<1> QED
  BY <1>1, <1>2, <1>3, <1>7, <1>8 DEF Basic

LEMMA BeginsBasic ==
  ASSUME Basic, InventoryConstants, Begins
  PROVE  Basic'
<1>1. /\ UNCHANGED <<rows, req, crossed>> /\ req[Cli].at = "idle"
      /\ env' \in [row : Nat, jobs : Nat, troubles : Nat] /\ env'.row = env.row
  BY BeginsFrame DEF Basic
<1>2. CliType'
  BY BeginsTyped DEF Basic
<1>3. Ids' = Ids
  BY <1>1 DEF Ids
<1>4. exported' \in File \cup {None}
  <2>1. CASE UNCHANGED exported
    BY <2>1 DEF Basic, Tables
  <2>2. CASE \E h \in DOMAIN hosts : Export(h)
    BY <2>2, ExportTyped DEF Basic
  <2> QED
    BY <2>1, <2>2 DEF Begins, Import, ModHost, Scan, RemoveInterface, ModInterface, RmHost, DefineHost,
                      RmCloud, DefineCloud, Begin
<1>5. Tables'
  BY <1>1, <1>3, <1>4 DEF Basic, Tables, rows
<1>6. Requests' /\ Turns' /\ Whole'
  BY <1>1, <1>3 DEF Basic, Requests, Turns, Busy, Whole, Complete, Read
<1> QED
  BY <1>2, <1>5, <1>6 DEF Basic

LEMMA TablesKept ==
  ASSUME Tables, UNCHANGED <<rows, exported>>, env'.row = env.row,
         env' \in [row : Nat, jobs : Nat, troubles : Nat]
  PROVE  Tables' /\ Ids' = Ids
  BY DEF Tables, rows, Ids

LEMMA ReadHostBasic ==
  ASSUME Basic, InventoryConstants, ReadHost
  PROVE  Basic'
<1>1. CliType' /\ UNCHANGED <<rows, req, exported, crossed, env>>
  BY ReadHostTyped DEF Basic
<1>2. req[Cli].at = "idle"
  BY ZenonT(30) DEF ReadHost, Basic, Turns
<1>3. Tables' /\ Ids' = Ids
  BY <1>1, TablesKept DEF Basic, Tables
<1>4. Requests' /\ Turns' /\ Whole'
  BY <1>1, <1>2, <1>3 DEF Basic, Requests, Turns, Busy, Whole, Complete, Read
<1> QED
  BY <1>1, <1>3, <1>4 DEF Basic

LEMMA LookBasic ==
  ASSUME Basic, InventoryConstants, Look
  PROVE  Basic'
<1>1. UNCHANGED <<rows, req, exported, crossed, env>> /\ cli.at = "run" /\ CliType'
  BY Looks, LookTyped DEF Basic
<1>2. cli'.at = "run"
  BY <1>1, Looks DEF Basic, CliType
<1>3. Tables' /\ Ids' = Ids
  BY <1>1, TablesKept DEF Basic, Tables
<1>4. Requests' /\ Turns' /\ Whole'
  BY <1>1, <1>2, <1>3 DEF Basic, Requests, Turns, Busy, Whole, Complete, Read
<1> QED
  BY <1>1, <1>3, <1>4 DEF Basic

LEMMA ProceedBasic ==
  ASSUME Basic, InventoryConstants, Proceed
  PROVE  Basic'
<1>1. UNCHANGED <<rows, exported, crossed, env>> /\ CliType' /\ Requests'
  BY Proceeds, ProceedTyped, Slotted DEF Basic
<1>2. Tables'
  BY <1>1, TablesKept DEF Basic, Tables
<1>3. \/ /\ req'[Cli].at = "idle" /\ \A r \in Slots : r # Cli => req'[r] = req[r]
      \/ /\ req'[Cli].at = "asked" /\ cli'.at = "run" /\ \A r \in Slots : r # Cli => req'[r] = req[r]
  <2>1. CASE Through_
    BY <2>1, Slotted DEF Through_, Idle, Basic, Requests
  <2>2. ASSUME NEW i \in DOMAIN cli.plan, NEW c \in Calls, Asking(i, c)
        PROVE  req'[Cli].at = "asked" /\ cli'.at = "run" /\ \A r \in Slots : r # Cli => req'[r] = req[r]
    <3>1. cli'.at = cli.at /\ cli.at = "run"
      BY <2>2 DEF Asking, Ready, Basic, CliType
    <3>2. [Idle EXCEPT !.at = "asked", !.call = c].at = "asked"
      BY DEF Idle
    <3> QED
      BY <2>2, <3>1, <3>2, Slotted DEF Asking, Ask, Basic, Requests
  <2> QED
    BY <2>1, <2>2, Proceeds DEF Basic
<1>4. Turns' /\ Whole'
  BY <1>3, Slotted DEF Basic, Turns, Busy, Whole, Complete, Read
<1> QED
  BY <1>1, <1>2, <1>4 DEF Basic

LEMMA StopBasic ==
  ASSUME Basic, InventoryConstants, Stop
  PROVE  Basic'
<1>1. CliType' /\ Requests' /\ UNCHANGED <<rows, exported, crossed, env>>
  BY StopTyped DEF Basic
<1>2. Tables'
  BY <1>1, TablesKept DEF Basic, Tables
<1>3. req'[Cli].at = "idle" /\ \A r \in Slots : r # Cli => req'[r] = req[r]
  BY Slotted DEF Stop, Idle, Basic, Requests
<1>4. Turns' /\ Whole'
  BY <1>3, Slotted DEF Basic, Turns, Busy, Whole, Complete, Read
<1> QED
  BY <1>1, <1>2, <1>4 DEF Basic

LEMMA SubmitBasic ==
  ASSUME Basic, InventoryConstants, NEW r \in Clients, Submit(r)
  PROVE  Basic'
<1>1. /\ UNCHANGED <<rows, cli, exported, crossed>> /\ req[r].at = "idle"
      /\ env' \in [row : Nat, jobs : Nat, troubles : Nat] /\ env'.row = env.row
      /\ \E c \in Calls : Ask(r, c)
  BY Submits DEF Basic
<1>2. Tables' /\ Ids' = Ids
  BY <1>1, TablesKept DEF Basic
<1>3. CliType'
  BY <1>1, <1>2 DEF Basic, CliType
<1>4. PICK c \in Calls : Ask(r, c)
  BY <1>1
<1>5. r \in Slots /\ env.row \in Nat
  BY Slotted, Known DEF Basic
<1>6. Requests'
  BY <1>1, <1>4, <1>5, AskTyped DEF Basic
<1>7. req'[r].at = "asked" /\ req'[r].call = c /\ \A x \in Slots : x # r => req'[x] = req[x]
  BY <1>4, <1>5 DEF Ask, Basic, Requests, Idle
<1>8. Turns' /\ Whole'
  BY <1>1, <1>4, <1>7, Slotted DEF Basic, Turns, Busy, Whole, Complete, Read
<1> QED
  BY <1>2, <1>3, <1>6, <1>8 DEF Basic

LEMMA ElsewhereBasic ==
  ASSUME Basic, Elsewhere
  PROVE  Basic'
<1>1. UNCHANGED <<clouds, hosts, parts, req, cli, exported, crossed, env>> /\ Tables'
  BY ElsewhereFrame DEF Basic
<1>2. Ids' = Ids
  BY <1>1 DEF Ids
<1> QED
  BY <1>1, <1>2 DEF Basic, CliType, Requests, Turns, Busy, Whole, Complete, Read

LEMMA InitBasic ==
  ASSUME Init, InventoryConstants
  PROVE  Basic
<1>1. IsFiniteSet(Stock) /\ Stock \subseteq Part /\ \A p \in Stock : p.full
  BY DEF InventoryConstants
<1> DEFINE N == Cardinality(Stock)
           all == SetToSeq(Stock)
<1>2. N \in Nat /\ all \in [1..N -> Stock]
  BY <1>1, SetToSeqType
<1>3. parts = [i \in 2..(N + 1) |-> [host |-> 1, part |-> all[i - 1]]]
  BY DEF Init
<1>4. /\ env = [row |-> N + 2, jobs |-> 0, troubles |-> 0]
  BY DEF Init
<1> HIDE DEF all, N
<1>5. \A i \in 2..(N + 1) : all[i - 1] \in Stock
  BY <1>2
<1>6. parts \in [2..(N + 1) -> [host : {1}, part : Part]] /\ \A p \in DOMAIN parts : parts[p].part.full
  BY <1>1, <1>3, <1>5
<1>7. DOMAIN parts = 2..(N + 1) /\ IsFiniteSet(2..(N + 1))
  BY <1>2, <1>3, FS_Interval
<1>8. env \in [row : Nat, jobs : Nat, troubles : Nat] /\ env.row = N + 2
  BY <1>2, <1>4
<1>9. Ids = 0..(N + 1)
  BY <1>2, <1>8 DEF Ids
<1>10. /\ hosts \in [{1} -> [name : Hostnames, cloud : clouds, home : clouds]] /\ DOMAIN hosts = {1}
       /\ clouds \subseteq Clouds
  BY DEF Init
<1>11. booked = {} /\ active = <<>> /\ exported = None /\ DOMAIN <<>> = {}
  BY DEF Init
<1>12. active \in [DOMAIN active -> clouds \cup {None}] /\ DOMAIN active = {}
  <2>1. active \in Seq(clouds) /\ DOMAIN active = {}
    BY <1>11, EmptySeq
  <2> QED
    BY <1>11, <2>1, EmptySeq, LenProperties
<1>13. Tables
  BY <1>2, <1>6, <1>7, <1>8, <1>9, <1>10, <1>11, <1>12 DEF Tables
<1>14. Idle \in Request /\ Idle.at = "idle" /\ Idle.seen = None
  BY DEF Idle, Request
<1>15. req = [r \in Slots |-> Idle]
  BY DEF Init
<1>16. Requests /\ Turns /\ Whole
  BY <1>14, <1>15, Slotted DEF Requests, Turns, Whole, Complete, Read, Busy
<1>17. CliType
  <2>1. cli = Job("none", None, "idle", None, <<>>)
    BY DEF Init
  <2>2. /\ DOMAIN cli = {"cmd", "host", "at", "arg", "plan", "then", "read", "renamed", "doubt"}
        /\ cli.cmd = "none" /\ cli.host = None /\ cli.at = "idle" /\ cli.arg = None /\ cli.plan = <<>>
        /\ cli.then = "done" /\ cli.read = <<>> /\ cli.doubt = FALSE
        /\ cli.renamed = {}
    BY <2>1 DEF Job
  <2> QED
    BY <1>11, <2>2, EmptySeq DEF CliType, Places, Args, OfHost, Readers
<1> QED
  BY <1>13, <1>16, <1>17 DEF Basic

LEMMA BasicStep ==
  ASSUME Basic, InventoryConstants, [Next]_vars
  PROVE  Basic'
<1>1. CASE UNCHANGED vars
  <2>1. Ids' = Ids
    BY <1>1 DEF vars, Ids
  <2> QED
    BY <1>1, <2>1 DEF vars, Basic, Tables, CliType, Requests, Turns, Busy, Whole, Complete, Read
<1>2. CASE Command
  BY <1>2, CommandKinds, BeginsBasic, ReadHostBasic, LookBasic, ProceedBasic, StopBasic
<1>3. CASE \E r \in Slots : Handle(r)
  BY <1>3, HandlerKinds, ReadingBasic, WritingBasic
<1> QED
  BY <1>1, <1>2, <1>3, SubmitBasic, ElsewhereBasic DEF Next

LEMMA BasicImplies == Basic => TypeOK
<1> SUFFICES ASSUME Basic
             PROVE  TypeOK
  OBVIOUS
<1>1. \A r \in Slots : req[r] \in Request
  BY DEF Basic, Requests
<1> QED
  BY <1>1 DEF Basic, Tables, CliType, Places, TypeOK, Request

(* Every part belongs to a host, every host to clouds that exist, every    *)
(* booking to a host, whatever is removed and whatever fails.              *)
THEOREM Types == Spec => []TypeOK
<1>1. Init => Basic
  BY InitBasic, InventoryConstants
<1>2. Basic /\ [Next]_vars => Basic'
  BY BasicStep, InventoryConstants
<1> QED
  BY <1>1, <1>2, BasicImplies, PTL DEF Spec

(***************************************************************************)
(* Rows come one at a time, are renamed one at a time, and go.             *)
(***************************************************************************)
RowsKept(r) ==
  /\ DOMAIN hosts' \subseteq DOMAIN hosts /\ DOMAIN parts' \subseteq DOMAIN parts
  /\ \A h \in DOMAIN hosts' : hosts'[h].name = hosts[h].name
  /\ \A p \in DOMAIN parts' :
       /\ parts'[p].host = parts[p].host /\ parts'[p].part.kind = parts[p].part.kind
       /\ \/ parts'[p].part.name = parts[p].part.name
          \/ Read(r, {"update_part"}) /\ p = req[r].seen /\ Rename({hosts[parts[p].host].name}, p)
HostRenamed(r) ==
  LET h == req[r].seen
      m == hosts'[h].name
  IN /\ Read(r, {"update_host"}) /\ h \in DOMAIN hosts /\ DOMAIN hosts' = DOMAIN hosts
     /\ \A x \in DOMAIN hosts : x # h => hosts'[x] = hosts[x]
     /\ m # hosts[h].name /\ req' = Overtaken(r, <<m>>) /\ UNCHANGED parts
     /\ HostNamed(m) # {} => <<m>> \in crossed'
     /\ Rename({hosts[h].name, m}, h)
NewHost(r) ==
  LET q == req[r]
  IN /\ Read(r, {"create_host"}) /\ q.call.home \in clouds
     /\ hosts' = Insert(hosts, [name |-> q.call.host, cloud |-> q.call.home, home |-> q.call.home])
     /\ env' = [env EXCEPT !.row = @ + 1] /\ req' = Overtaken(r, Key(q)) /\ UNCHANGED parts
     /\ q.doubt => Key(q) \in crossed'
     /\ Disturbed(r, q.call.host)
NewPart(r) ==
  LET q == req[r]
  IN /\ Read(r, {"create_part"}) /\ q.seen \in DOMAIN hosts
     /\ parts' = Insert(parts, [host |-> q.seen, part |-> q.call.part])
     /\ env' = [env EXCEPT !.row = @ + 1] /\ req' = Overtaken(r, Key(q)) /\ UNCHANGED hosts
     /\ q.doubt => Key(q) \in crossed'
     /\ Disturbed(r, hosts[q.seen].name)

LEMMA RowsStep ==
  ASSUME Tables, Requests, NEW r \in Slots, Writing(r)
  PROVE  RowsKept(r) \/ NewHost(r) \/ NewPart(r) \/ HostRenamed(r)
<1>1. CASE UNCHANGED <<hosts, parts>>
  BY <1>1 DEF RowsKept
<1>2. CASE InsertPart(r)
  BY <1>1, <1>2 DEF InsertPart, NewPart
<1>3. CASE InsertHost(r)
  BY <1>1, <1>3 DEF InsertHost, NewHost
<1>4. CASE ErasePart(r)
  <2>1. UNCHANGED hosts /\ (parts' = Restrict(parts, DOMAIN parts \ {req[r].seen}) \/ UNCHANGED parts)
    BY <1>4 DEF ErasePart
  <2> QED
    BY <2>1 DEF RowsKept, Restrict
<1>5. CASE StorePart(r)
  <2>1. UNCHANGED hosts
    BY <1>5 DEF StorePart
  <2>2. CASE UNCHANGED parts
    BY <1>1, <2>1, <2>2
  <2>3. CASE ~UNCHANGED parts
    BY <1>5, <2>1, <2>3, PartStored DEF RowsKept
  <2> QED
    BY <2>2, <2>3
<1>6. CASE RemoveHost(r)
  <2>1. \/ UNCHANGED <<hosts, parts>>
        \/ \E h : hosts' = Restrict(hosts, DOMAIN hosts \ {h}) /\ parts' = Cascade(h)
    BY <1>6 DEF RemoveHost
  <2> QED
    BY <1>1, <2>1 DEF RowsKept, Restrict, Cascade
<1>7. CASE StoreHost(r) /\ ~UNCHANGED hosts
  <2> DEFINE h == req[r].seen
  <2>1. /\ h \in DOMAIN hosts /\ DOMAIN hosts' = DOMAIN hosts /\ UNCHANGED parts
        /\ \A x \in DOMAIN hosts : x # h => hosts'[x] = hosts[x]
    BY <1>7, HostStored
  <2>2. CASE hosts'[h].name = hosts[h].name
    BY <2>1, <2>2 DEF RowsKept
  <2>3. CASE hosts'[h].name # hosts[h].name
    BY <1>7, <2>3, HostStored DEF HostRenamed
  <2> QED
    BY <2>2, <2>3
<1>8. CASE StoreHost(r) /\ UNCHANGED hosts
  <2>1. UNCHANGED <<hosts, parts>>
    BY <1>8 DEF StoreHost
  <2> QED
    BY <1>1, <2>1
<1>9. CASE InsertCloud(r) \/ RemoveCloud(r) \/ Assign(r)
  <2>1. UNCHANGED <<hosts, parts>>
    BY <1>9 DEF InsertCloud, RemoveCloud, Assign
  <2> QED
    BY <1>1, <2>1
<1> QED
  BY <1>2, <1>3, <1>4, <1>5, <1>6, <1>7, <1>8, <1>9 DEF Writing

(* Every other step leaves the rows of hosts and parts as they are.        *)
LEMMA OtherRows ==
  ASSUME Basic, InventoryConstants, [Next]_vars, ~ \E r \in Slots : Writing(r)
  PROVE  UNCHANGED <<hosts, parts, crossed>>
<1>1. CASE Command
  <2>1. Begins => UNCHANGED <<hosts, parts, crossed>>
    BY BeginsFrame DEF rows, Basic
  <2>2. ReadHost => UNCHANGED <<hosts, parts, crossed>>
    BY ReadHostTyped DEF rows, Basic
  <2>3. Look => UNCHANGED <<hosts, parts, crossed>>
    BY Looks DEF rows, Basic
  <2>4. Proceed => UNCHANGED <<hosts, parts, crossed>>
    BY Proceeds DEF rows, Basic
  <2>5. Stop => UNCHANGED <<hosts, parts, crossed>>
    BY StopTyped DEF rows, Basic
  <2> QED
    BY <1>1, <2>1, <2>2, <2>3, <2>4, <2>5, CommandKinds
<1>2. CASE \E r \in Slots : Handle(r)
  <2>1. \A r \in Slots : Reading(r) => UNCHANGED <<hosts, parts, crossed>>
    BY ReadingBasic DEF rows
  <2> QED
    BY <1>2, <2>1, HandlerKinds
<1>3. CASE \E r \in Clients : Submit(r)
  BY <1>3, Submits DEF rows, Basic
<1>4. CASE Elsewhere
  BY <1>4, ElsewhereFrame DEF Basic
<1> QED
  BY <1>1, <1>2, <1>3, <1>4 DEF Next, vars

(***************************************************************************)
(* Twins                                                                   *)
(***************************************************************************)
LEMMA FieldOfOther ==
  ASSUME Tables, NEW h, h \notin DOMAIN hosts
  PROVE  PartsOf(h) = {} /\ \A f : FieldOf(h, f) = {}
  BY DEF Tables, PartsOf, FieldOf

LEMMA TwinsWritten ==
  ASSUME Basic, Checks, NoTwins, NEW r \in Slots, Writing(r)
  PROVE  NoTwins'
<1>1. crossed \subseteq crossed' /\ env.row \notin DOMAIN hosts /\ env.row \notin DOMAIN parts
  BY WritingFrame DEF Basic, Tables, Ids
<1>2. CASE RowsKept(r)
  <2>1. ASSUME NEW h \in DOMAIN hosts', NEW g \in DOMAIN hosts', h # g, hosts'[h].name = hosts'[g].name
        PROVE  <<hosts'[h].name>> \in crossed'
    BY <1>1, <1>2, <2>1 DEF RowsKept, NoTwins
  <2>2. ASSUME NEW h \in DOMAIN hosts', NEW f \in Handled, NEW p \in FieldOf(h, f)', NEW q \in FieldOf(h, f)',
               p # q, parts'[p].part.name = parts'[q].part.name
        PROVE  <<h, f, parts'[p].part.name>> \in crossed'
    <3>1. FieldOf(h, f)' \subseteq FieldOf(h, f)
      BY <1>2 DEF RowsKept, FieldOf, PartsOf
    <3>2. /\ p \in DOMAIN parts' /\ Field(parts'[p].part.kind) \in Handled
          /\ q \in DOMAIN parts' /\ Field(parts'[q].part.kind) \in Handled
      BY DEF FieldOf, PartsOf
    <3>4. \A x \in DOMAIN parts' : Field(parts'[x].part.kind) \in Handled
            => parts'[x].part.name = parts[x].part.name
      BY <1>2 DEF RowsKept, Checks, Check
    <3>3. parts'[p].part.name = parts[p].part.name /\ parts'[q].part.name = parts[q].part.name
          /\ h \in DOMAIN hosts
      BY <1>2, <3>2, <3>4 DEF RowsKept
    <3> QED
      BY <1>1, <2>2, <3>1, <3>3 DEF NoTwins
  <2> QED
    BY <2>1, <2>2 DEF NoTwins
<1>3. CASE NewHost(r)
  <2> DEFINE c == req[r].call
             row == [name |-> c.host, cloud |-> c.home, home |-> c.home]
  <2>1. /\ DOMAIN hosts' = DOMAIN hosts \cup {env.row} /\ hosts'[env.row] = row /\ row.name = c.host
        /\ \A h \in DOMAIN hosts : h # env.row => hosts'[h] = hosts[h]
    <3>1. hosts' = Insert(hosts, row) /\ row.name = c.host
      BY <1>3 DEF NewHost
    <3> HIDE DEF row
    <3> QED
      BY <3>1, Inserted
  <2>2. parts' = parts /\ c.op = "create_host" /\ Key(req[r]) = <<c.host>>
    BY <1>3 DEF NewHost, Read, Key
  <2>3. (\E h \in DOMAIN hosts : hosts[h].name = c.host) => <<c.host>> \in crossed'
    <3>1. HostNamed(c.host) # {} => req[r].doubt
      BY <1>3 DEF Checks, Check, NewHost
    <3> QED
      BY <1>3, <2>2, <3>1 DEF HostNamed, NewHost
  <2> HIDE DEF row, c
  <2>4. ASSUME NEW h \in DOMAIN hosts', NEW g \in DOMAIN hosts', h # g, hosts'[h].name = hosts'[g].name
        PROVE  <<hosts'[h].name>> \in crossed'
    <3>1. CASE h \in DOMAIN hosts /\ g \in DOMAIN hosts
      BY <1>1, <2>1, <2>4, <3>1 DEF NoTwins
    <3>2. CASE h = env.row
      BY <1>1, <2>1, <2>3, <2>4, <3>2
    <3>3. CASE g = env.row
      BY <1>1, <2>1, <2>3, <2>4, <3>3
    <3> QED
      BY <2>1, <3>1, <3>2, <3>3
  <2>5. ASSUME NEW h \in DOMAIN hosts', NEW f \in Handled, NEW p \in FieldOf(h, f)', NEW q \in FieldOf(h, f)',
               p # q, parts'[p].part.name = parts'[q].part.name
        PROVE  <<h, f, parts'[p].part.name>> \in crossed'
    <3>1. FieldOf(h, f)' = FieldOf(h, f)
      BY <2>2 DEF FieldOf, PartsOf
    <3>2. h \in DOMAIN hosts
      BY <1>1, <2>1, <3>1, FieldOfOther DEF Basic
    <3> QED
      BY <1>1, <2>1, <2>2, <2>5, <3>1, <3>2 DEF NoTwins
  <2> QED
    BY <2>4, <2>5 DEF NoTwins
<1>4. CASE NewPart(r)
  <2> DEFINE c == req[r].call
             s == req[r].seen
             row == [host |-> s, part |-> c.part]
  <2>1. /\ DOMAIN parts' = DOMAIN parts \cup {env.row} /\ parts'[env.row] = row
        /\ row.host = s /\ row.part = c.part
        /\ \A p \in DOMAIN parts : p # env.row => parts'[p] = parts[p]
    <3>1. parts' = Insert(parts, row) /\ row.host = s /\ row.part = c.part
      BY <1>4 DEF NewPart
    <3> HIDE DEF row, s, c
    <3>2. /\ DOMAIN Insert(parts, row) = DOMAIN parts \cup {env.row} /\ Insert(parts, row)[env.row] = row
          /\ \A id \in DOMAIN parts : id # env.row => Insert(parts, row)[id] = parts[id]
      BY DEF Insert
    <3> QED
      BY <3>1, <3>2
  <2>2. hosts' = hosts /\ c.op = "create_part" /\ Key(req[r]) = <<s, Field(c.part.kind), c.part.name>>
        /\ s \in DOMAIN hosts
    BY <1>4 DEF NewPart, Read, Key
  <2>3. req[r].doubt => Key(req[r]) \in crossed'
    BY <1>4 DEF NewPart
  <2>4. ASSUME NEW p \in FieldOf(s, Field(c.part.kind)), Field(c.part.kind) \in Handled,
               parts[p].part.name = c.part.name
        PROVE  <<s, Field(c.part.kind), c.part.name>> \in crossed'
    <3>1. HandleTaken(s, c.part)
      BY <2>4 DEF HandleTaken
    <3>2. req[r].doubt
      BY <1>4, <2>4, <3>1 DEF Checks, Check, NewPart
    <3> QED
      BY <2>2, <2>3, <3>2
  <2> HIDE DEF row, c, s
  <2>5. ASSUME NEW h \in DOMAIN hosts', NEW f \in Handled, NEW p \in FieldOf(h, f)', NEW q \in FieldOf(h, f)',
               p # q, parts'[p].part.name = parts'[q].part.name
        PROVE  <<h, f, parts'[p].part.name>> \in crossed'
    <3>1. /\ p \in DOMAIN parts' /\ parts'[p].host = h /\ Field(parts'[p].part.kind) = f
          /\ q \in DOMAIN parts' /\ parts'[q].host = h /\ Field(parts'[q].part.kind) = f
      BY DEF FieldOf, PartsOf
    <3>2. \A x \in DOMAIN parts : x # env.row /\ parts'[x] = parts[x]
      BY <1>1, <2>1
    <3>3. \A x \in DOMAIN parts : parts[x].host = h /\ Field(parts[x].part.kind) = f => x \in FieldOf(h, f)
      BY DEF FieldOf, PartsOf
    <3>4. CASE p \in DOMAIN parts /\ q \in DOMAIN parts
      BY <1>1, <2>2, <2>5, <3>1, <3>2, <3>3, <3>4 DEF NoTwins
    <3>5. CASE p = env.row
      <4>1. q \in DOMAIN parts /\ h = s /\ f = Field(c.part.kind) /\ q \in FieldOf(h, f)
            /\ parts'[p].part.name = c.part.name /\ parts[q].part.name = c.part.name
        BY <2>1, <2>5, <3>1, <3>2, <3>3, <3>5
      <4> QED
        BY <2>2, <2>3, <2>4, <4>1
    <3>6. CASE q = env.row
      <4>1. p \in DOMAIN parts /\ h = s /\ f = Field(c.part.kind) /\ p \in FieldOf(h, f)
            /\ parts'[q].part.name = c.part.name /\ parts[p].part.name = c.part.name
        BY <2>1, <2>5, <3>1, <3>2, <3>3, <3>6
      <4> QED
        BY <2>2, <2>3, <2>4, <2>5, <4>1
    <3> QED
      BY <2>1, <3>1, <3>4, <3>5, <3>6
  <2> QED
    BY <1>1, <2>2, <2>5 DEF NoTwins
<1>5. CASE HostRenamed(r)
  <2> DEFINE s == req[r].seen
  <2>1. /\ s \in DOMAIN hosts /\ DOMAIN hosts' = DOMAIN hosts /\ UNCHANGED parts
        /\ \A x \in DOMAIN hosts : x # s => hosts'[x] = hosts[x]
        /\ hosts'[s].name # hosts[s].name
        /\ HostNamed(hosts'[s].name) # {} => <<hosts'[s].name>> \in crossed'
    BY <1>5 DEF HostRenamed
  <2> HIDE DEF s
  <2>2. ASSUME NEW h \in DOMAIN hosts', NEW g \in DOMAIN hosts', h # g, hosts'[h].name = hosts'[g].name
        PROVE  <<hosts'[h].name>> \in crossed'
    <3>1. CASE h # s /\ g # s
      BY <1>1, <2>1, <2>2, <3>1 DEF NoTwins
    <3>2. CASE h = s \/ g = s
      <4>1. \E x \in DOMAIN hosts : hosts[x].name = hosts'[s].name
        BY <2>1, <2>2, <3>2
      <4> QED
        BY <2>1, <2>2, <3>2, <4>1 DEF HostNamed
    <3> QED
      BY <3>1, <3>2
  <2>3. ASSUME NEW h \in DOMAIN hosts', NEW f \in Handled, NEW p \in FieldOf(h, f)', NEW q \in FieldOf(h, f)',
               p # q, parts'[p].part.name = parts'[q].part.name
        PROVE  <<h, f, parts'[p].part.name>> \in crossed'
    <3>1. FieldOf(h, f)' = FieldOf(h, f)
      BY <2>1 DEF FieldOf, PartsOf
    <3> QED
      BY <1>1, <2>1, <2>3, <3>1 DEF NoTwins
  <2> QED
    BY <2>2, <2>3 DEF NoTwins
<1> QED
  BY <1>2, <1>3, <1>4, <1>5, RowsStep DEF Basic

(* What a request has looked up holds, or it has been overtaken.           *)
LEMMA CheckKept ==
  ASSUME UNCHANGED <<hosts, parts>>, NEW x, Check(x), req'[x] = req[x] \/ req'[x].at # "read"
  PROVE  Check(x)'
  BY DEF Check, Read, HostNamed, HandleTaken, FieldOf, PartsOf

(* A PATCH of a part that goes on holds a row that is neither memory nor a *)
(* processor.                                                              *)
LEMMA HeldRow ==
  ASSUME Requests, NEW r \in Slots, UpdatePart(r), req'[r].at = "read"
  PROVE  LET c == req[r].call
         IN /\ c.op = "update_part" /\ c.id \in DOMAIN parts /\ Field(parts[c.id].part.kind) \notin Handled
            /\ req'[r].call = c /\ req'[r].seen = c.id /\ req'[r].held = parts[c.id].part
<1> DEFINE c == req[r].call
           new == [req[r] EXCEPT !.at = "read", !.seen = c.id, !.held = parts[c.id].part]
<1>1. req'[r] # Answered(r, "refused")
  BY DEF Answered, Idle
<1>2. ~Answer(r, "refused")
  BY <1>1 DEF Answer, Requests
<1>3. /\ c.op = "update_part" /\ c.id \in DOMAIN parts /\ Field(parts[c.id].part.kind) \notin Handled
      /\ req' = [req EXCEPT ![r] = new]
  BY <1>2, ZenonT(30) DEF UpdatePart, Holds, Asked
<1>4. req'[r] = new
  BY <1>3 DEF Requests
<1>5. req[r] \in Request
  BY DEF Requests
<1>6. new.call = c /\ new.seen = c.id /\ new.held = parts[c.id].part
  BY <1>5 DEF Request
<1> HIDE DEF new
<1> QED
  BY <1>3, <1>4, <1>6

LEMMA ChecksRead ==
  ASSUME Basic, InventoryConstants, Checks, NEW r \in Slots, Reading(r)
  PROVE  Checks'
<1>1. UNCHANGED <<hosts, parts>> /\ Requests
  BY ReadingBasic DEF rows, Basic
<1>2. \A x \in Slots : x # r => req'[x] = req[x]
  BY ReadingReplies DEF Basic
<1>3. \A x \in Slots : x # r => Check(x)'
  BY <1>1, <1>2, CheckKept DEF Checks
<1>4. CASE req'[r].at # "read"
  BY <1>1, <1>3, <1>4, CheckKept DEF Checks
<1>5. CASE req'[r].at = "read"
  <2>1. req'[r].call = req[r].call
    <3>1. \A a \in {"ok", "refused", "error"} : Answered(r, a).at # "read"
      BY DEF Answered, Idle
    <3> QED
      BY <1>5, <3>1, ReadingReplies DEF Basic, Replied
  <2>2. CASE CreatePart(r)
    <3>0. PICK c \in Calls : c = req[r].call
      BY <1>1, ReadingTyped DEF Basic, Requests
    <3>1. PICK h \in First(HostNamed(c.host)) : Checked(r, h, h # None /\ Accepts(h, c.part))
      BY <2>2, <3>0 DEF CreatePart
    <3>2. h # None /\ Accepts(h, c.part)
      <4>1. Answered(r, "refused").at # "read"
        BY DEF Answered, Idle
      <4> QED
        BY <1>1, <1>5, <3>1, <4>1 DEF Checked, Answer, Requests
    <3>3. req'[r].seen = h
      <4>1. req'[r] = [req[r] EXCEPT !.at = "read", !.seen = h] /\ req[r] \in Request
        BY <1>1, <3>1, <3>2 DEF Checked, Requests
      <4> QED
        BY <4>1 DEF Request
    <3>4. h \in HostNamed(c.host)
      BY <3>1, <3>2, FirstOf
    <3>5. h \in Nat
      BY <3>4, Known DEF Basic, Ids
    <3>6. Field(c.part.kind) \in Handled => ~HandleTaken(h, c.part)
      BY <3>2 DEF Accepts, create_processor, create_memory, Handled
    <3>7. c.op = "create_part"
      BY <2>2, <3>0 DEF CreatePart, Asked
    <3>8. HandleTaken(h, c.part)' => HandleTaken(h, c.part)
      BY <1>1 DEF HandleTaken, FieldOf, PartsOf
    <3>9. Check(r)'
      <4>1. ~Read(r, {"create_host"})' /\ ~Read(r, {"update_part"})'
        BY <2>1, <3>0, <3>7 DEF Read
      <4>2. req'[r].call = c /\ req'[r].seen = h
        BY <2>1, <3>0, <3>3
      <4>3. HandleTaken(req[r].seen, req[r].call.part)' <=> HandleTaken(h, c.part)'
        BY <4>2 DEF HandleTaken, FieldOf, PartsOf
      <4> QED
        BY <1>1, <3>5, <3>6, <3>8, <4>1, <4>2, <4>3 DEF Check
    <3> QED
      BY <1>3, <3>9 DEF Checks
  <2>3. CASE CreateHost(r)
    <3> DEFINE c == req[r].call
    <3>1. Checked(r, None, /\ c.full /\ HostNamed(c.host) = {} /\ c.home \in clouds) /\ c.op = "create_host"
      BY <2>3 DEF CreateHost, Asked
    <3>2. HostNamed(c.host) = {}
      <4>1. Answered(r, "refused").at # "read"
        BY DEF Answered, Idle
      <4> QED
        BY <1>1, <1>5, <3>1, <4>1 DEF Checked, Answer, Requests
    <3>3. Check(r)'
      BY <1>1, <2>1, <3>1, <3>2 DEF Check, Read, HostNamed
    <3> QED
      BY <1>3, <3>3 DEF Checks
  <2>5. CASE UpdatePart(r)
    <3>1. Check(r)'
      BY <1>1, <1>5, <2>5, HeldRow DEF Check, Read, Basic
    <3> QED
      BY <1>3, <3>1 DEF Checks
  <2>4. CASE ~CreatePart(r) /\ ~CreateHost(r) /\ ~UpdatePart(r)
    <3>1. req[r].call.op \notin {"create_host", "create_part", "update_part"}
      BY <2>4 DEF Reading, DeletePart, DeleteInterface, DeleteHost, UpdateHost, CreateCloud,
                  FindCloud, DeleteCloud, Asked
    <3>2. Check(r)'
      BY <2>1, <3>1 DEF Check, Read
    <3> QED
      BY <1>3, <3>2 DEF Checks
  <2> QED
    BY <2>2, <2>3, <2>4, <2>5
<1> QED
  BY <1>4, <1>5

LEMMA HandleKept ==
  ASSUME NEW r \in Slots, Checks, RowsKept(r), NEW h, NEW p, Field(p.kind) \in Handled
  PROVE  HandleTaken(h, p)' => HandleTaken(h, p)
<1>1. FieldOf(h, Field(p.kind))' \subseteq FieldOf(h, Field(p.kind))
  BY DEF RowsKept, FieldOf, PartsOf
<1>2. \A x \in FieldOf(h, Field(p.kind))' : parts'[x].part.name = parts[x].part.name
  BY DEF RowsKept, FieldOf, PartsOf, Checks, Check
<1> QED
  BY <1>1, <1>2 DEF HandleTaken

LEMMA ChecksWritten ==
  ASSUME Basic, InventoryConstants, Checks, NEW r \in Slots, Writing(r)
  PROVE  Checks'
<1>1. /\ req'[r].at # "read"
      /\ \A x \in Slots : x # r => Same(x) /\ (req[x].doubt => req'[x].doubt)
      /\ \A x \in Slots : req[x] \in Request
  <2>1. \A a \in {"ok", "refused", "error"} : Answered(r, a).at # "read"
    BY DEF Answered, Idle
  <2> QED
    BY <2>1, WritingReplies DEF Replied, Basic, Requests
<1>2. env.row \notin DOMAIN hosts /\ env.row \notin DOMAIN parts /\ env.row \in Nat
  BY DEF Basic, Tables, Ids
<1>3. Check(r)'
  BY <1>1 DEF Check, Read
<1> SUFFICES ASSUME NEW x \in Slots, x # r, req[x].at = "read"
             PROVE  Check(x)'
  BY <1>1, <1>3 DEF Checks, Check, Read, Same
<1>4. PICK c, s : c \in Calls /\ c = req[x].call /\ s = req[x].seen
  BY DEF Basic, Requests, Busy
<1>5. /\ req'[x].at = "read" /\ req'[x].call = c /\ req'[x].seen = s /\ (~req'[x].doubt => ~req[x].doubt)
      /\ s # env.row /\ Check(x)
  <2>1. /\ req'[x].at = "read" /\ req'[x].call = c /\ req'[x].seen = s /\ (~req'[x].doubt => ~req[x].doubt)
    BY <1>1, <1>4 DEF Same, Request
  <2>2. s \in Ids \cup {None} /\ req'[x].seen = s
    BY <1>4, <2>1 DEF Basic, Requests
  <2>3. s # env.row
    BY <1>2, <2>2 DEF Ids, InventoryConstants
  <2>4. Check(x)
    BY DEF Checks
  <2> QED
    BY <2>1, <2>3, <2>4
<1>6. /\ HandleTaken(req[x].seen, req[x].call.part) <=> HandleTaken(s, c.part)
      /\ HandleTaken(req[x].seen, req[x].call.part)' <=> HandleTaken(s, c.part)'
  BY <1>4, <1>5 DEF HandleTaken, FieldOf, PartsOf
<1>7. CASE RowsKept(r)
  <2>1. HostNamed(c.host)' \subseteq HostNamed(c.host)
    BY <1>7 DEF RowsKept, HostNamed
  <2>2. s \in DOMAIN parts' => s \in DOMAIN parts /\ parts'[s].part.kind = parts[s].part.kind
    BY <1>7 DEF RowsKept
  <2>3. Field(c.part.kind) \in Handled /\ HandleTaken(s, c.part)' => HandleTaken(s, c.part)
    BY <1>7, HandleKept
  <2>4. HostNamed(req[x].call.host)' = HostNamed(c.host)' /\ HostNamed(req[x].call.host) = HostNamed(c.host)
    BY <1>4, <1>5 DEF HostNamed
  <2> QED
    BY <1>4, <1>5, <1>6, <2>1, <2>2, <2>3, <2>4 DEF Check, Read
<1>8. PICK d \in Calls : d = req[r].call
  BY WritingFrame DEF Basic, Requests
<1>9. c.op = "create_host" => HostNamed(req[x].call.host) = HostNamed(c.host) /\ HostNamed(req[x].call.host)' = HostNamed(c.host)'
  BY <1>4, <1>5 DEF HostNamed
<1>10. CASE NewHost(r)
  <2>1. UNCHANGED parts /\ DOMAIN hosts' = DOMAIN hosts \cup {env.row}
        /\ (\A h \in DOMAIN hosts : hosts'[h] = hosts[h]) /\ hosts'[env.row].name = d.host
    <3> DEFINE row == [name |-> d.host, cloud |-> d.home, home |-> d.home]
    <3>1. hosts' = Insert(hosts, row) /\ row.name = d.host /\ UNCHANGED parts
      BY <1>8, <1>10 DEF NewHost
    <3> HIDE DEF row
    <3>2. /\ DOMAIN Insert(hosts, row) = DOMAIN hosts \cup {env.row} /\ Insert(hosts, row)[env.row] = row
          /\ \A id \in DOMAIN hosts : id # env.row => Insert(hosts, row)[id] = hosts[id]
      BY DEF Insert
    <3> QED
      BY <1>2, <3>1, <3>2
  <2>2. c.op = "create_host" /\ ~req'[x].doubt => c.host # d.host
    <3>1. d.op = "create_host" /\ req' = Overtaken(r, Key(req[r]))
      BY <1>8, <1>10 DEF NewHost, Read
    <3>2. ASSUME c.op = "create_host", c.host = d.host
          PROVE  req'[x].doubt
      <4>1. Key(req[x]) = Key(req[r]) /\ Read(x, {"create_host", "create_part"})
        BY <1>4, <1>8, <3>1, <3>2 DEF Key, Read
      <4>2. req'[x] = [req[x] EXCEPT !.doubt = TRUE]
        BY <3>1, <4>1 DEF Overtaken
      <4> QED
        BY <1>1, <4>2 DEF Request
    <3> QED
      BY <3>2
  <2>3. c.host # d.host => HostNamed(c.host)' = HostNamed(c.host)
    BY <1>2, <2>1 DEF HostNamed
  <2>4. UNCHANGED parts
    BY <2>1
  <2>5. HandleTaken(s, c.part)' <=> HandleTaken(s, c.part)
    BY <2>1 DEF HandleTaken, FieldOf, PartsOf
  <2> QED
    BY <1>4, <1>5, <1>6, <1>9, <2>2, <2>3, <2>4, <2>5 DEF Check, Read
<1>11. CASE NewPart(r)
  <2>1. UNCHANGED hosts /\ DOMAIN parts' = DOMAIN parts \cup {env.row}
        /\ (\A p \in DOMAIN parts : parts'[p] = parts[p])
        /\ parts'[env.row].host = req[r].seen /\ parts'[env.row].part = d.part
    <3> DEFINE row == [host |-> req[r].seen, part |-> d.part]
    <3>1. parts' = Insert(parts, row) /\ row.host = req[r].seen /\ row.part = d.part /\ UNCHANGED hosts
      BY <1>8, <1>11 DEF NewPart
    <3> HIDE DEF row
    <3>2. /\ DOMAIN Insert(parts, row) = DOMAIN parts \cup {env.row} /\ Insert(parts, row)[env.row] = row
          /\ \A id \in DOMAIN parts : id # env.row => Insert(parts, row)[id] = parts[id]
      BY DEF Insert
    <3> QED
      BY <1>2, <3>1, <3>2
  <2>2. d.op = "create_part" /\ req' = Overtaken(r, Key(req[r])) /\ req[r].seen \in DOMAIN hosts
    BY <1>8, <1>11 DEF NewPart, Read
  <2>3. HostNamed(c.host)' = HostNamed(c.host)
    BY <2>1 DEF HostNamed
  <2>4. ASSUME c.op = "create_part", ~req'[x].doubt, HandleTaken(s, c.part)', ~HandleTaken(s, c.part)
        PROVE  FALSE
    <3>1. PICK y \in FieldOf(s, Field(c.part.kind))' : parts'[y].part.name = c.part.name
      BY <2>4 DEF HandleTaken
    <3>2. y \in DOMAIN parts' /\ parts'[y].host = s /\ Field(parts'[y].part.kind) = Field(c.part.kind)
      BY <3>1 DEF FieldOf, PartsOf
    <3>3. y \notin DOMAIN parts
      BY <2>1, <2>4, <3>1, <3>2 DEF HandleTaken, FieldOf, PartsOf
    <3>4. y = env.row /\ req[r].seen = s /\ d.part.name = c.part.name /\ Field(d.part.kind) = Field(c.part.kind)
      BY <2>1, <3>1, <3>2, <3>3
    <3>6. Key(req[x]) = Key(req[r]) /\ Read(x, {"create_host", "create_part"})
      BY <1>4, <1>8, <2>2, <2>4, <3>4 DEF Key, Read
    <3>7. req'[x] = [req[x] EXCEPT !.doubt = TRUE]
      BY <2>2, <3>6 DEF Overtaken
    <3> QED
      BY <1>1, <2>4, <3>7 DEF Request
  <2>5. s \in DOMAIN parts' => s \in DOMAIN parts /\ parts'[s] = parts[s]
    BY <1>5, <2>1
  <2> QED
    BY <1>4, <1>5, <1>6, <1>9, <2>1, <2>3, <2>4, <2>5 DEF Check, Read
<1>12. CASE HostRenamed(r)
  <2> DEFINE h == req[r].seen
             m == hosts'[h].name
  <2>1. /\ UNCHANGED parts /\ DOMAIN hosts' = DOMAIN hosts /\ req' = Overtaken(r, <<m>>)
        /\ \A g \in DOMAIN hosts : g # h => hosts'[g] = hosts[g]
    BY <1>12 DEF HostRenamed
  <2>2. c.op = "create_host" /\ ~req'[x].doubt => c.host # m
    <3>1. ASSUME c.op = "create_host", c.host = m
          PROVE  req'[x].doubt
      <4>1. Key(req[x]) = <<m>> /\ Read(x, {"create_host", "create_part"})
        BY <1>4, <3>1 DEF Key, Read
      <4>2. req'[x] = [req[x] EXCEPT !.doubt = TRUE]
        BY <2>1, <4>1 DEF Overtaken
      <4> QED
        BY <1>1, <4>2 DEF Request
    <3> QED
      BY <3>1
  <2>3. c.host # m => HostNamed(c.host)' \subseteq HostNamed(c.host)
    BY <2>1 DEF HostNamed
  <2>4. HandleTaken(s, c.part)' <=> HandleTaken(s, c.part)
    BY <2>1 DEF HandleTaken, FieldOf, PartsOf
  <2> QED
    BY <1>4, <1>5, <1>6, <1>9, <2>1, <2>2, <2>3, <2>4 DEF Check, Read
<1> QED
  BY <1>7, <1>10, <1>11, <1>12, RowsStep DEF Basic

LEMMA ChecksInit == Init /\ InventoryConstants => Checks
<1> SUFFICES ASSUME Init, InventoryConstants PROVE Checks
  OBVIOUS
<1>1. \A r \in Slots : req[r].at = "idle"
  BY DEF Init, Idle
<1> QED
  BY <1>1 DEF Checks, Check, Read

LEMMA TwinsInit ==
  ASSUME Init, InventoryConstants
  PROVE  NoTwins
<1>1. /\ IsFiniteSet(Stock)
      /\ \A p, q \in Stock :
           Field(p.kind) = Field(q.kind) /\ Field(p.kind) \in Handled /\ p.name = q.name => p = q
  BY DEF InventoryConstants
<1> DEFINE N == Cardinality(Stock)
           all == SetToSeq(Stock)
<1>2. N \in Nat /\ all \in [1..N -> Stock] /\ IsInjective(all)
  BY <1>1, SetToSeqType
<1>3. parts = [i \in 2..(N + 1) |-> [host |-> 1, part |-> all[i - 1]]] /\ DOMAIN hosts = {1}
  BY DEF Init
<1> HIDE DEF all, N
<1>4. \A h \in DOMAIN hosts, g \in DOMAIN hosts : h = g
  BY <1>3
<1>5. ASSUME NEW h \in DOMAIN hosts, NEW f \in Handled, NEW p \in FieldOf(h, f), NEW q \in FieldOf(h, f),
             parts[p].part.name = parts[q].part.name
      PROVE  p = q
  <2>1. p \in 2..(N + 1) /\ q \in 2..(N + 1) /\ Field(parts[p].part.kind) = f /\ Field(parts[q].part.kind) = f
    BY <1>3 DEF FieldOf, PartsOf
  <2>2. parts[p].part = all[p - 1] /\ parts[q].part = all[q - 1]
    BY <1>3, <2>1
  <2>3. p - 1 \in 1..N /\ q - 1 \in 1..N
    BY <1>2, <2>1
  <2>4. all[p - 1] = all[q - 1]
    BY <1>1, <1>2, <1>5, <2>1, <2>2, <2>3
  <2>5. p - 1 = q - 1
    BY <1>2, <2>3, <2>4 DEF IsInjective
  <2> QED
    BY <1>2, <2>1, <2>5
<1> QED
  BY <1>4, <1>5 DEF NoTwins

(***************************************************************************)
(* The other steps: no row of a host or a part is written, and no request  *)
(* begins to hold one.                                                     *)
(***************************************************************************)
LEMMA OtherRequests ==
  ASSUME Basic, InventoryConstants, [Next]_vars, ~ \E r \in Slots : Handle(r), NEW x \in Slots
  PROVE  req'[x] = req[x] \/ req'[x].at \notin {"read"}
<1>1. Cli \in Slots
  BY Slotted
<1>2. \A r, c : Ask(r, c) => req'[x] = req[x] \/ req'[x].at = "asked"
  BY DEF Ask, Basic, Requests, Idle
<1>3. CASE UNCHANGED req
  BY <1>3
<1>4. CASE Proceed
  <2>1. Through_ => req'[x] = req[x] \/ req'[x].at = "idle"
    BY DEF Through_, Basic, Requests, Idle
  <2> QED
    BY <1>2, <1>4, <2>1, Proceeds DEF Basic, Asking
<1>5. CASE Stop
  BY <1>5 DEF Stop, Basic, Requests, Idle
<1>6. CASE \E r \in Clients : Submit(r)
  BY <1>2, <1>6, Submits DEF Basic
<1>7. Begins \/ ReadHost \/ Look \/ Elsewhere => UNCHANGED req
  BY BeginsFrame, ReadHostTyped, Looks, ElsewhereFrame DEF Basic
<1> QED
  BY <1>3, <1>4, <1>5, <1>6, <1>7, CommandKinds DEF Next, vars

LEMMA TwinsStep ==
  ASSUME Basic, InventoryConstants, Checks, NoTwins, [Next]_vars
  PROVE  Checks' /\ NoTwins'
<1>1. CASE \E r \in Slots : Writing(r)
  BY <1>1, TwinsWritten, ChecksWritten
<1>2. CASE ~ \E r \in Slots : Writing(r)
  <2>1. UNCHANGED <<hosts, parts, crossed>>
    BY <1>2, OtherRows
  <2>2. NoTwins'
    BY <2>1 DEF NoTwins, FieldOf, PartsOf
  <2>3. CASE \E r \in Slots : Reading(r)
    BY <2>2, <2>3, ChecksRead
  <2>4. CASE ~ \E r \in Slots : Reading(r)
    <3>1. ~ \E r \in Slots : Handle(r)
      BY <1>2, <2>4, HandlerKinds
    <3> QED
      BY <2>1, <2>2, <3>1, OtherRequests, CheckKept DEF Checks
  <2> QED
    BY <2>3, <2>4
<1> QED
  BY <1>1, <1>2

(* Two hosts of one name are there only because two requests made them at  *)
(* once, or because a PATCH renamed one; two processors or memory modules  *)
(* of a host with one handle only because two requests made them at once,  *)
(* whatever commands are stopped and repeated and whatever is renamed.     *)
THEOREM TwinsCross == Spec => []NoTwins
<1>1. Init => Basic /\ Checks /\ NoTwins
  BY InitBasic, ChecksInit, TwinsInit, InventoryConstants
<1>2. Basic /\ Checks /\ NoTwins /\ [Next]_vars => Basic' /\ Checks' /\ NoTwins'
  BY BasicStep, TwinsStep, InventoryConstants
<1> QED
  BY <1>1, <1>2, PTL DEF Spec

(***************************************************************************)
(* What a command is about to touch is what it was asked to.               *)
(***************************************************************************)
(* No id is used again, a row near the command stays near, and it keeps    *)
(* its name or is remembered as renamed.                                   *)
RowsLike ==
  \A p \in DOMAIN parts' : p \in Ids =>
    /\ p \in DOMAIN parts /\ parts'[p].host = parts[p].host
    /\ parts'[p].part.kind = parts[p].part.kind
    /\ Near(p) => Near(p)' /\ (parts'[p].part.name = parts[p].part.name \/ Renamed(p)')

CliLike ==
  /\ cli'.cmd = cli.cmd /\ cli'.host = cli.host /\ cli'.arg = cli.arg
  /\ cli'.then = cli.then /\ cli'.read = cli.read /\ cli.renamed \subseteq cli'.renamed

LEMMA RenameRecorded ==
  ASSUME CliType, InventoryConstants, NEW n, NEW id, Rename(n, id), cli.host \in n, cli.host \in Hostnames
  PROVE  id \in cli'.renamed
<1>1. cli.at # "idle"
  BY DEF CliType, InventoryConstants
<1> QED
  BY <1>1 DEF Rename, CliType

LEMMA RowsLikely ==
  ASSUME Tables, Tables', CliType, InventoryConstants, CliLike,
         UNCHANGED <<hosts, parts>>
           \/ \E r \in Slots : RowsKept(r) \/ NewHost(r) \/ NewPart(r) \/ HostRenamed(r)
  PROVE  RowsLike
<1>1. /\ env.row \notin Ids
      /\ \A p \in DOMAIN parts : parts[p].host \in DOMAIN hosts
      /\ \A p \in DOMAIN parts' : parts'[p].host \in DOMAIN hosts'
      /\ \A h \in DOMAIN hosts : hosts[h].name \in Hostnames
      /\ env.row \notin DOMAIN hosts
  BY DEF Tables, Ids
<1>2. CASE UNCHANGED <<hosts, parts>>
  BY <1>2 DEF RowsLike, CliLike, Near
<1>3. ASSUME NEW r \in Slots, RowsKept(r)
      PROVE  RowsLike
  <2> SUFFICES ASSUME NEW p \in DOMAIN parts', p \in Ids
               PROVE  /\ p \in DOMAIN parts /\ parts'[p].host = parts[p].host
                      /\ parts'[p].part.kind = parts[p].part.kind
                      /\ Near(p) => Near(p)' /\ (parts'[p].part.name = parts[p].part.name \/ Renamed(p)')
    BY DEF RowsLike
  <2> DEFINE h == parts[p].host
  <2>1. /\ p \in DOMAIN parts /\ parts'[p].host = h /\ parts'[p].part.kind = parts[p].part.kind
        /\ h \in DOMAIN hosts /\ h \in DOMAIN hosts' /\ hosts'[h].name = hosts[h].name
        /\ parts'[p].part.name = parts[p].part.name \/ Rename({hosts[h].name}, p)
    BY <1>1, <1>3 DEF RowsKept
  <2>2. Near(p) => Near(p)'
    BY <2>1 DEF Near, CliLike
  <2>3. Near(p) /\ Rename({hosts[h].name}, p) => Renamed(p)'
    <3>1. CASE hosts[h].name = cli.host
      BY <1>1, <2>1, <3>1, RenameRecorded DEF Renamed
    <3>2. CASE h \in cli.renamed
      BY <2>1, <3>2 DEF Renamed, CliLike
    <3> QED
      BY <3>1, <3>2 DEF Near
  <2> QED
    BY <2>1, <2>2, <2>3
<1>6. ASSUME NEW r \in Slots, HostRenamed(r)
      PROVE  RowsLike
  <2> DEFINE h == req[r].seen
  <2>1. /\ h \in DOMAIN hosts /\ UNCHANGED parts /\ \A x \in DOMAIN hosts : x # h => hosts'[x] = hosts[x]
        /\ Rename({hosts[h].name, hosts'[h].name}, h)
    BY <1>6 DEF HostRenamed
  <2>2. hosts[h].name = cli.host => h \in cli'.renamed
    BY <1>1, <2>1, RenameRecorded
  <2> QED
    BY <1>1, <2>1, <2>2 DEF RowsLike, CliLike, Near
<1>4. ASSUME NEW r \in Slots, NewHost(r)
      PROVE  RowsLike
  <2> DEFINE row == [name |-> req[r].call.host, cloud |-> req[r].call.home, home |-> req[r].call.home]
  <2>1. hosts' = Insert(hosts, row) /\ parts' = parts
    BY <1>4 DEF NewHost
  <2> HIDE DEF row
  <2>2. \A h \in DOMAIN hosts : hosts'[h] = hosts[h]
    BY <1>1, <2>1 DEF Insert
  <2> QED
    BY <1>1, <2>1, <2>2 DEF RowsLike, CliLike, Near
<1>5. ASSUME NEW r \in Slots, NewPart(r)
      PROVE  RowsLike
  <2> DEFINE row == [host |-> req[r].seen, part |-> req[r].call.part]
  <2>1. parts' = Insert(parts, row) /\ hosts' = hosts
    BY <1>5 DEF NewPart
  <2> HIDE DEF row
  <2>2. /\ DOMAIN parts' = DOMAIN parts \cup {env.row}
        /\ \A p \in DOMAIN parts : p # env.row => parts'[p] = parts[p]
    BY <2>1 DEF Insert
  <2> QED
    BY <1>1, <2>1, <2>2 DEF RowsLike, CliLike, Near
<1> QED
  BY <1>2, <1>3, <1>4, <1>5, <1>6

LEMMA MeantKind ==
  ASSUME NEW p, NEW q, p.kind = q.kind, p.name = q.name
  PROVE  Meant(p) <=> Meant(q)
<1>1. CASE cli.cmd = "import"
  BY <1>1 DEF Meant
<1>2. CASE cli.cmd = "mod_host"
  BY <1>2 DEF Meant
<1>3. CASE cli.cmd = "lshw2meta"
  BY <1>3 DEF Meant
<1>4. CASE cli.cmd \notin {"import", "mod_host", "lshw2meta"}
  BY <1>4 DEF Meant
<1> QED
  BY <1>1, <1>2, <1>3, <1>4

LEMMA MeantKept ==
  ASSUME cli'.cmd = cli.cmd, cli'.arg = cli.arg, NEW p
  PROVE  Meant(p)' <=> Meant(p)
<1>1. CASE cli.cmd = "import"
  BY <1>1 DEF Meant
<1>2. CASE cli.cmd = "mod_host"
  BY <1>2 DEF Meant
<1>3. CASE cli.cmd = "lshw2meta"
  BY <1>3 DEF Meant
<1>4. CASE cli.cmd \notin {"import", "mod_host", "lshw2meta"}
  BY <1>4 DEF Meant
<1> QED
  BY <1>1, <1>2, <1>3, <1>4

LEMMA MayKept ==
  ASSUME RowsLike, CliLike, NEW p \in DOMAIN parts', p \in Ids, p \in DOMAIN parts => May(p)
  PROVE  May(p)'
<1>1. /\ p \in DOMAIN parts /\ parts'[p].host = parts[p].host /\ parts'[p].part.kind = parts[p].part.kind
      /\ Near(p) /\ Near(p)' /\ (parts'[p].part.name = parts[p].part.name \/ Renamed(p)')
  BY DEF RowsLike, May
<1>2. \A q : Meant(q)' <=> Meant(q)
  BY MeantKept DEF CliLike
<1>3. CASE p \in DOMAIN cli.read /\ Meant(cli.read[p])
  <2>1. PICK q : q = cli.read[p]
    OBVIOUS
  <2>2. Meant(q)' /\ p \in DOMAIN cli'.read /\ q = cli'.read[p]
    BY <1>2, <1>3, <2>1 DEF CliLike
  <2>3. Meant(cli.read[p])'
    BY <2>2 DEF Meant
  <2> QED
    BY <1>1, <2>2, <2>3 DEF May
<1>4. CASE ByName(parts[p].part.kind) /\ (Meant(parts[p].part) \/ Renamed(p))
  <2>1. ByName(parts[p].part.kind)'
    BY <1>1, <1>4 DEF ByName, CliLike
  <2>2. CASE Renamed(p) \/ Renamed(p)'
    <3>1. Renamed(p)'
      BY <1>1, <2>2 DEF Renamed, CliLike
    <3> QED
      BY <1>1, <2>1, <3>1 DEF May
  <2>3. CASE Meant(parts[p].part) /\ parts'[p].part.name = parts[p].part.name
    <3>1. PICK old, new : old = parts[p].part /\ new = parts'[p].part
      OBVIOUS
    <3>2. Meant(new)
      BY <1>1, <2>3, <3>1, MeantKind
    <3>3. Meant(new)'
      BY <1>2, <3>2
    <3>4. Meant(parts[p].part)'
      BY <3>1, <3>3 DEF Meant
    <3> QED
      BY <1>1, <2>1, <3>4 DEF May
  <2> QED
    BY <1>1, <1>4, <2>2, <2>3
<1> QED
  BY <1>1, <1>3, <1>4 DEF May

LEMMA OwnKept ==
  ASSUME Tables, RowsLike, CliLike, env'.row \in {env.row, env.row + 1},
         NEW c \in Calls \cup Lookups, Own(c)
  PROVE  Own(c)'
<1>1. \A k, x : MeantAll(k, x) => MeantAll(k, x)'
  BY MeantKept DEF MeantAll, CliLike
<1>2. env.row \in Nat /\ Ids \subseteq Ids'
  BY IdsGrow, Known
<1>3. c.op \in {"delete_part", "update_part"} => c.id \in Nat
  <2>1. c \in Lookups => c.op \notin {"delete_part", "update_part"}
    BY DEF Lookups, Finding
  <2> QED
    BY <2>1, CallFields
<1>4. c.op \in {"delete_part", "update_part"} => c.id < env'.row /\ (c.id \in DOMAIN parts' => May(c.id)')
  <2>1. c.op \in {"delete_part", "update_part"} => c.id \in Ids /\ (c.id \in DOMAIN parts => May(c.id))
    BY <1>3 DEF Own, Ids
  <2>2. c.op \in {"delete_part", "update_part"} => (c.id \in DOMAIN parts' => May(c.id)')
    BY <2>1, MayKept
  <2> QED
    BY <1>2, <1>3, <2>1, <2>2 DEF Ids
<1>8. Own(c) /\ cli'.cmd = cli.cmd /\ cli'.host = cli.host
  BY DEF CliLike
<1>5. c.op = "update_part" => (c.id \in DOMAIN parts' => parts'[c.id].part.kind \in {"interface", "disk"})
  BY <1>3 DEF Own, RowsLike, Ids
<1>6. c.op = "delete_interface" => MeantAll("interface", c.name)'
  BY <1>1 DEF Own
<1>7. c.op \in Finding => MeantAll(c.part.kind, c.part.name)'
  BY <1>1 DEF Own
<1> QED
  BY <1>4, <1>5, <1>6, <1>7 DEF Own, CliLike

LEMMA PlannedTyped ==
  ASSUME CliType, Requests
  PROVE  Planned \cup Flight \subseteq Calls \cup Lookups
<1>1. \A i \in DOMAIN cli.plan : cli.plan[i].any \in SUBSET Calls /\ cli.plan[i].calls \in Seq(Calls \cup Lookups)
  BY PlanFields
<1>2. \A i \in DOMAIN cli.plan : ToSet(cli.plan[i].calls) \subseteq Calls \cup Lookups
  BY <1>1, LenProperties, ElementOfSeq DEF ToSet
<1>3. Planned \subseteq Calls \cup Lookups
  BY <1>1, <1>2 DEF Planned
<1>4. Flight \subseteq Calls
  BY DEF Flight, Requests, Busy, Slots
<1> QED
  BY <1>3, <1>4

LEMMA OwnedKept ==
  ASSUME Basic, RowsLike, CliLike, env'.row \in {env.row, env.row + 1}, Owned,
         (Planned \cup Flight)' \subseteq Planned \cup Flight
  PROVE  Owned'
<1> SUFFICES ASSUME NEW c \in (Planned \cup Flight)'
             PROVE  Own(c)'
  BY DEF Owned
<1>1. c \in Planned \cup Flight /\ c \in Calls \cup Lookups
  BY PlannedTyped DEF Basic
<1> QED
  BY <1>1, OwnKept DEF Owned, Basic

LEMMA RememberedKept ==
  ASSUME Tables, CliType, RowsLike, CliLike, Remembered
  PROVE  Remembered'
<1> SUFFICES ASSUME NEW x \in (DOMAIN cli.read \cap DOMAIN parts)'
             PROVE  (/\ Near(x) /\ parts[x].part.kind = cli.read[x].kind
                     /\ parts[x].part.name = cli.read[x].name \/ Renamed(x))'
  BY DEF Remembered
<1>1. x \in DOMAIN cli.read /\ cli'.read[x] = cli.read[x] /\ x \in Ids
  BY DEF CliLike, CliType
<1>2. /\ x \in DOMAIN parts /\ parts'[x].host = parts[x].host /\ parts'[x].part.kind = parts[x].part.kind
      /\ Near(x) => Near(x)' /\ (parts'[x].part.name = parts[x].part.name \/ Renamed(x)')
  BY <1>1 DEF RowsLike
<1>3. /\ Near(x) /\ parts[x].part.kind = cli.read[x].kind
      /\ parts[x].part.name = cli.read[x].name \/ Renamed(x)
  BY <1>1, <1>2 DEF Remembered
<1>4. Renamed(x) => Renamed(x)'
  BY <1>2 DEF Renamed, CliLike
<1> QED
  BY <1>1, <1>2, <1>3, <1>4

(***************************************************************************)
(* What a command plans once it has read its host.                         *)
(***************************************************************************)
ReadsFrom(h, plan) ==
  /\ h \in HostNamed(cli.host) /\ plan \in Plans(cli.host, Listing(h)) /\ plan \in Seq(Chapters)
  /\ cli.at = "read" /\ cli.cmd \in Readers /\ cli.host \in Hostnames
  /\ cli' = [cli EXCEPT !.at = "run", !.then = "done", !.plan = plan, !.read = Listing(h)]
  /\ cli'.at = "run" /\ cli'.then = "done" /\ cli'.plan = plan /\ cli'.read = Listing(h)
  /\ cli'.cmd = cli.cmd /\ cli'.host = cli.host /\ cli'.arg = cli.arg /\ cli'.doubt = cli.doubt
  /\ cli'.renamed = cli.renamed
  /\ PartsOf(h) \in SUBSET Nat /\ Listing(h) \in [PartsOf(h) -> Part] /\ DOMAIN Listing(h) = PartsOf(h)

LEMMA Readings ==
  ASSUME Tables, CliType, ReadHost
  PROVE  /\ UNCHANGED <<rows, req, exported, crossed, env>> /\ Ids' = Ids
         /\ \/ cli' = [cli EXCEPT !.at = "stopped"]
            \/ \E h, plan : ReadsFrom(h, plan)
<1>1. UNCHANGED <<rows, req, exported, crossed, env>> /\ cli.at = "read"
  BY ZenonT(30) DEF ReadHost
<1>2. PICK h \in First(HostNamed(cli.host)) :
       IF h = None \/ Plans(cli.host, Listing(h)) = {}
         THEN cli' = [cli EXCEPT !.at = "stopped"]
         ELSE \E plan \in Plans(cli.host, Listing(h)) :
                cli' = [cli EXCEPT !.at = "run", !.then = "done", !.plan = plan, !.read = Listing(h)]
  BY ZenonT(30) DEF ReadHost
<1>3. PartsOf(h) \in SUBSET Nat /\ PartsOf(h) \subseteq DOMAIN parts
  BY Known DEF PartsOf, Ids
<1>4. Listing(h) \in [PartsOf(h) -> Part] /\ DOMAIN Listing(h) = PartsOf(h)
  BY <1>3 DEF Tables, Listing
<1>5. cli.cmd \in Readers /\ cli.host \in Hostnames
  BY <1>1 DEF CliType, Readers, OfHost
<1>6. ASSUME h # None, NEW plan \in Plans(cli.host, Listing(h)),
             cli' = [cli EXCEPT !.at = "run", !.then = "done", !.plan = plan, !.read = Listing(h)]
      PROVE  ReadsFrom(h, plan)
  <2>1. h \in HostNamed(cli.host)
    <3>1. h \in First(HostNamed(cli.host))
      BY ZenonT(30), <1>2
    <3> QED
      BY <1>6, <3>1, FirstOf
  <2>2. plan \in Seq(Chapters)
    BY <1>1, <1>3, <1>4, PlansTyped
  <2>3. /\ cli'.at = "run" /\ cli'.then = "done" /\ cli'.plan = plan /\ cli'.read = Listing(h)
        /\ cli'.cmd = cli.cmd /\ cli'.host = cli.host /\ cli'.arg = cli.arg /\ cli'.doubt = cli.doubt
        /\ cli'.renamed = cli.renamed
    BY <1>6 DEF CliType
  <2> QED
    BY <1>1, <1>3, <1>4, <1>5, <1>6, <2>1, <2>2, <2>3 DEF ReadsFrom
<1>7. Ids' = Ids
  BY <1>1 DEF Ids
<1> QED
  BY ZenonT(30), <1>1, <1>2, <1>6, <1>7

(* The calls of a plan, chapter by chapter.                                *)
CallsOf(ch) == ch.any \cup ToSet(ch.calls)

LEMMA ChapterCalls ==
  /\ \A any, calls : /\ Chapter(any, calls).any = any /\ Chapter(any, calls).calls = calls
                     /\ CallsOf(Chapter(any, calls)) = any \cup ToSet(calls)
  /\ \A calls : CallsOf(Chapter({}, calls)) = ToSet(calls)
  /\ ToSet(<<>>) = {}
  /\ \A c : ToSet(<<c>>) = {c}
<1>1. \A any, calls : Chapter(any, calls).any = any /\ Chapter(any, calls).calls = calls
  BY DEF Chapter
<1>2. ToSet(<<>>) = {}
  BY DEF ToSet
<1>3. \A c : ToSet(<<c>>) = {c}
  BY DEF ToSet
<1> QED
  BY <1>1, <1>2, <1>3 DEF CallsOf

LEMMA ListCalls ==
  ASSUME NEW n \in Hostnames, NEW list \in List
  PROVE  \A c \in ToSet(Creates(n, list)) : \E m \in 1..Len(list.entries) : c = CallPart(n, list.entries[m])
  BY CreatesTyped DEF ToSet

LEMMA FieldKind ==
  \A k : /\ Field(k) = "interfaces" <=> k = "interface"
         /\ Field(k) = "disks" <=> k = "disk"
         /\ Field(k) = "memory" <=> k = "memory"
         /\ Field(k) \in Fields
  BY DEF Field, Fields

(* Clearing a field deletes only what was read of it.                      *)
LEMMA ClearOwned ==
  ASSUME Tables, CliType, UNCHANGED <<hosts, parts, env>>, NEW h, NEW plan, ReadsFrom(h, plan),
         NEW field, NEW type,
         \A q \in Part : Wanted(q, field, type) => Meant(q),
         field = "interfaces" => type = None /\ cli.cmd \in {"import", "mod_host"},
         NEW c \in clear_field(cli.host, Listing(h), field, type)
  PROVE  Own(c)'
<1> DEFINE read == Listing(h)
<1>1. PICK p \in DOMAIN read :
        /\ Wanted(read[p], field, type)
        /\ c = IF field = "interfaces" THEN CallDrop(cli.host, read[p].name, p)
                                       ELSE [op |-> "delete_part", id |-> p]
  BY DEF clear_field
<1>2. p \in DOMAIN parts /\ p \in Ids /\ parts[p].host = h /\ read[p] = parts[p].part /\ read[p] \in Part
  BY <1>1 DEF ReadsFrom, Listing, PartsOf, Tables
<1>3. hosts[h].name = cli.host
  BY DEF ReadsFrom, HostNamed
<1>4. PICK q \in Part : q = read[p]
  BY <1>2
<1>5. Meant(q)
  BY <1>1, <1>4
<1>6. Meant(q)'
  BY <1>5, MeantKept DEF ReadsFrom
<1>7. CASE field = "interfaces"
  <2>1. c = CallDrop(cli.host, q.name, p) /\ type = None
    BY <1>1, <1>4, <1>7
  <2>2. \A s \in Part : s.kind = "interface" => Wanted(s, field, type)
    BY <1>7, <2>1, FieldKind DEF Wanted
  <2>3. \A s \in Part : s.kind = "interface" => Meant(s)'
    BY <2>2, MeantKept DEF ReadsFrom
  <2>4. MeantAll("interface", q.name)'
    BY <2>3 DEF MeantAll
  <2>5. c.op = "delete_interface" /\ c.host = cli.host /\ c.name = q.name
    BY <2>1 DEF CallDrop
  <2> QED
    BY <1>7, <2>4, <2>5 DEF Own, Finding, ReadsFrom
<1>8. CASE field # "interfaces"
  <2>1. c.op = "delete_part" /\ c.id = p
    BY <1>1, <1>8
  <2>2. May(p)'
    <3>1. p \in DOMAIN cli'.read /\ cli'.read[p] = q /\ cli'.host = cli.host
      BY <1>1, <1>4 DEF ReadsFrom
    <3>2. Meant(cli.read[p])'
      BY <1>6, <3>1 DEF Meant
    <3>3. Near(p)'
      BY <1>2, <1>3, <3>1 DEF Near
    <3> QED
      BY <3>1, <3>2, <3>3 DEF May
  <2> QED
    BY <1>2, <2>1, <2>2 DEF Own, Finding, Ids
<1> QED
  BY <1>7, <1>8

LEMMA ReplaceOwned ==
  ASSUME Tables, CliType, UNCHANGED <<hosts, parts, env>>, NEW h, NEW plan, ReadsFrom(h, plan),
         NEW list \in List, \A q \in Part : Field(q.kind) = list.field => Meant(q),
         list.field = "interfaces" => cli.cmd = "import",
         NEW c \in CallsOf(Replace(cli.host, Listing(h), list))
  PROVE  Own(c)'
<1>1. c \in clear_field(cli.host, Listing(h), list.field, None) \/ c \in ToSet(Creates(cli.host, list))
  BY ChapterCalls DEF Replace
<1>2. CASE c \in clear_field(cli.host, Listing(h), list.field, None)
  <2>1. \A q \in Part : Wanted(q, list.field, None) => Meant(q)
    BY DEF Wanted
  <2> QED
    BY <1>2, <2>1, ClearOwned
<1>3. CASE c \in ToSet(Creates(cli.host, list))
  <2>1. c.op = "create_part" /\ c.host = cli.host
    BY <1>3, ListCalls DEF CallPart, ReadsFrom
  <2> QED
    BY <2>1 DEF Own, Finding, ReadsFrom
<1> QED
  BY <1>1, <1>2, <1>3

LEMMA PlanOwned ==
  ASSUME Tables, CliType, UNCHANGED <<hosts, parts, env>>, NEW h, NEW plan, ReadsFrom(h, plan),
         NEW i \in DOMAIN plan, NEW c \in CallsOf(plan[i])
  PROVE  Own(c)'
<1> DEFINE n == cli.host
           read == Listing(h)
<1>0. PartsOf(h) \in SUBSET Nat /\ read \in [PartsOf(h) -> Part] /\ n \in Hostnames /\ cli'.host = n
      /\ plan \in Plans(n, read) /\ cli'.cmd = cli.cmd
  BY DEF ReadsFrom
<1>1. CASE cli.cmd = "import"
  <2> DEFINE file == cli.arg.file
  <2>1. plan = define_host_metadata(n, read, file, cli.arg.force) /\ file \in File
    BY <1>0, <1>1, ArgFields DEF Plans
  <2> HIDE DEF file, read
  <2>2. CASE ~cli.arg.force
    <3>1. plan = <<>>
      BY <2>1, <2>2 DEF define_host_metadata
    <3>2. DOMAIN <<>> = {}
      OBVIOUS
    <3> QED
      BY <3>1, <3>2
  <2>3. CASE cli.arg.force
    <3>0. PICK D \in SUBSET Nat : read \in [D -> Part]
      BY <1>0
    <3>1. /\ DOMAIN plan = 1..(Len(file.lists) + 1) /\ Len(file.lists) \in Nat
          /\ \A j \in 1..Len(file.lists) : plan[j] =
               IF file.lists[j].field = "default_cloud"
                 THEN Chapter({}, <<CallCloud("get_cloud", file.home)>>)
                 ELSE Replace(n, read, file.lists[j])
          /\ plan[Len(file.lists) + 1] = Chapter({}, <<CallStore(n, None, None, file.home)>>)
          /\ \A j \in 1..Len(file.lists) : file.lists[j] \in List
          /\ DOMAIN file.lists = 1..Len(file.lists)
      <4>1. PICK force \in BOOLEAN : force = cli.arg.force
        BY <1>1, ArgFields
      <4>2. plan = define_host_metadata(n, read, file, force) /\ force
        BY <2>1, <2>3, <4>1
      <4> HIDE DEF n
      <4>3. /\ DOMAIN plan = 1..(Len(file.lists) + 1)
            /\ \A j \in 1..Len(file.lists) : plan[j] =
                 IF file.lists[j].field = "default_cloud"
                   THEN Chapter({}, <<CallCloud("get_cloud", file.home)>>)
                   ELSE Replace(n, read, file.lists[j])
            /\ plan[Len(file.lists) + 1] = Chapter({}, <<CallStore(n, None, None, file.home)>>)
        <5> DEFINE steps == define_host_metadata(n, read, file, force)
        <5>1. n \in Hostnames /\ file \in File
          BY <1>0, <2>1
        <5>2. force =>
                /\ DOMAIN steps = 1..(Len(file.lists) + 1)
                /\ \A j \in 1..Len(file.lists) : steps[j] =
                     IF file.lists[j].field = "default_cloud"
                       THEN Chapter({}, <<CallCloud("get_cloud", file.home)>>)
                       ELSE Replace(n, read, file.lists[j])
                /\ steps[Len(file.lists) + 1] = Chapter({}, <<CallStore(n, None, None, file.home)>>)
          BY <3>0, <4>1, <5>1, ImportTyped
        <5> HIDE DEF steps
        <5> QED
          BY <4>2, <5>2 DEF steps
      <4>4. /\ Len(file.lists) \in Nat /\ \A j \in 1..Len(file.lists) : file.lists[j] \in List
            /\ DOMAIN file.lists = 1..Len(file.lists)
        BY <2>1, FileFields
      <4> QED
        BY <4>3, <4>4
    <3>5. i \in 1..Len(file.lists) \/ i = Len(file.lists) + 1
      BY <3>1
    <3>2. CASE i = Len(file.lists) + 1
      <4>1. c = CallStore(n, None, None, file.home)
        BY <3>1, <3>2, ChapterCalls
      <4>2. c.op = "update_host" /\ c.name = None
        BY <4>1 DEF CallStore
      <4> QED
        BY <4>2 DEF Own, Finding
    <3>3. CASE i \in 1..Len(file.lists) /\ file.lists[i].field = "default_cloud"
      <4>1. c = CallCloud("get_cloud", file.home)
        BY <3>1, <3>3, ChapterCalls
      <4>2. c.op = "get_cloud"
        BY <4>1 DEF CallCloud
      <4> QED
        BY <4>2 DEF Own, Finding
    <3>4. CASE i \in 1..Len(file.lists) /\ file.lists[i].field # "default_cloud"
      <4>1. c \in CallsOf(Replace(n, read, file.lists[i])) /\ file.lists[i] \in List
        BY <3>1, <3>4
      <4>2. \A q \in Part : Field(q.kind) = file.lists[i].field => Meant(q)
        BY <1>1, <3>1, <3>4 DEF Meant, file
      <4> QED
        BY <1>1, <4>1, <4>2, ReplaceOwned DEF read
    <3> QED
      BY <3>2, <3>3, <3>4, <3>5
  <2> QED
    BY <2>2, <2>3
<1>2. CASE cli.cmd = "lshw2meta"
  <2> DEFINE scan == cli.arg.file
  <2>1. plan = lshw2meta(n, read, scan) /\ scan \in Hardware
    BY <1>0, <1>2, ArgFields DEF Plans
  <2>2. /\ DOMAIN plan = 1..4
        /\ \A j \in {3, 4} : plan[j] = Replace(n, read, scan.lists[j])
        /\ \A j \in {1, 2} :
             /\ plan[j].any = {} /\ plan[j].calls \in Seq(Calls \cup Lookups)
             /\ Len(plan[j].calls) = Len(scan.lists[j].entries)
             /\ \A m \in 1..Len(scan.lists[j].entries) : plan[j].calls[m]
                  = [op |-> Finds(scan.lists[j].field), part |-> scan.lists[j].entries[m]]
    <3>0. PICK D \in SUBSET Nat : read \in [D -> Part]
      BY <1>0
    <3>1. n \in Hostnames /\ scan \in Hardware
      BY <1>0, <2>1
    <3> HIDE DEF n, read, scan
    <3>2. Scanning(n, read, scan, plan)
      BY <2>1, <3>0, <3>1, ScanTyped
    <3> QED
      BY <3>2 DEF Scanning
  <2>3. /\ \A j \in 1..4 : scan.lists[j] \in List
        /\ DOMAIN scan.lists = 1..4
        /\ scan.lists[1].field = "interfaces" /\ scan.lists[2].field = "disks"
        /\ scan.lists[3].field = "memory" /\ scan.lists[4].field = "processors"
    BY <2>1, ScanFields, SMTT(40)
  <2>4. CASE i \in {3, 4}
    <3>1. c \in CallsOf(Replace(n, read, scan.lists[i])) /\ scan.lists[i] \in List
      BY <2>2, <2>3, <2>4
    <3>2. /\ \A q \in Part : Field(q.kind) = scan.lists[i].field => Meant(q)
          /\ scan.lists[i].field # "interfaces"
      BY <1>2, <2>3, <2>4 DEF Meant
    <3> QED
      BY <3>1, <3>2, ReplaceOwned
  <2>5. CASE i \in {1, 2}
    <3>1. PICK m \in 1..Len(scan.lists[i].entries) :
            c = [op |-> Finds(scan.lists[i].field), part |-> scan.lists[i].entries[m]]
      <4> HIDE DEF scan
      <4>1. /\ plan[i].any = {} /\ plan[i].calls \in Seq(Calls \cup Lookups)
            /\ Len(plan[i].calls) = Len(scan.lists[i].entries)
            /\ \A m \in 1..Len(scan.lists[i].entries) : plan[i].calls[m]
                 = [op |-> Finds(scan.lists[i].field), part |-> scan.lists[i].entries[m]]
        BY <2>2, <2>5
      <4>2. DOMAIN plan[i].calls = 1..Len(scan.lists[i].entries)
        BY <4>1, LenProperties
      <4>3. c \in ToSet(plan[i].calls)
        BY <4>1 DEF CallsOf
      <4> QED
        BY <4>1, <4>2, <4>3 DEF ToSet
    <3>2. /\ DOMAIN scan.lists[i].entries = 1..Len(scan.lists[i].entries)
          /\ scan.lists[i].entries[m] \in Part /\ Field(scan.lists[i].entries[m].kind) = scan.lists[i].field
      BY <2>3, <2>5, <3>1, ListFields, SMTT(40)
    <3>3. PICK q \in Part : q = scan.lists[i].entries[m]
      BY <3>2
    <3>4. c.part = q /\ c.op \in Finding
          /\ q.kind = IF c.op = "find_interface" THEN "interface" ELSE "disk"
      BY <2>3, <2>5, <3>1, <3>2, <3>3, FieldKind DEF Finds, Finding
    <3>5. \A s \in Part : s.kind = q.kind /\ s.name = q.name => Meant(s)
      <4>1. q \in ToSet(scan.lists[i].entries) /\ i \in DOMAIN scan.lists
        <5>1. m \in DOMAIN scan.lists[i].entries
          BY <3>1, <3>2
        <5>2. i \in DOMAIN scan.lists
          BY <2>3, <2>5
        <5> QED
          BY <3>3, <5>1, <5>2 DEF ToSet
      <4> QED
        BY <1>2, <4>1 DEF Meant
    <3>6. \A s \in Part : s.kind = q.kind /\ s.name = q.name => Meant(s)'
      BY <3>5, MeantKept DEF ReadsFrom
    <3>7. MeantAll(c.part.kind, c.part.name)'
      BY <3>4, <3>6 DEF MeantAll
    <3> QED
      BY <3>4, <3>7 DEF Own, Finding
  <2> QED
    BY <2>2, <2>4, <2>5
<1>3. CASE cli.cmd = "mod_interface"
  <2>1. PICK p \in {p \in DOMAIN read : Field(read[p].kind) = "interfaces" /\ read[p].name = cli.arg.name} :
          plan = Just(<<CallUpdate(n, p, None, cli.arg.value)>>)
    BY <1>0, <1>3, ArgFields DEF Plans, mod_interface
  <2>2. c = CallUpdate(n, p, None, cli.arg.value)
    BY <2>1, ChapterCalls DEF Just
  <2>3. c.op = "update_part" /\ c.host = n /\ c.id = p
    BY <2>2 DEF CallUpdate
  <2>4. /\ p \in DOMAIN parts /\ p \in Ids /\ parts[p].host = h /\ read[p] = parts[p].part /\ p \in DOMAIN cli'.read
        /\ parts[p].part.kind = "interface" /\ parts[p].part.name = cli.arg.name
    BY <2>1, FieldKind DEF ReadsFrom, Listing, PartsOf, Tables
  <2>5. hosts[h].name = n
    BY DEF ReadsFrom, HostNamed
  <2>6. May(p)'
    <3>1. Near(p)'
      BY <1>0, <2>4, <2>5 DEF Near
    <3>2. p \in DOMAIN cli'.read /\ cli'.read[p] = read[p] /\ cli'.arg = cli.arg /\ cli'.cmd = cli.cmd
      BY <2>4 DEF ReadsFrom
    <3>3. Meant(cli.read[p])'
      BY <1>3, <2>4, <3>2 DEF Meant
    <3> QED
      BY <3>1, <3>2, <3>3 DEF May
  <2> QED
    BY <1>0, <1>3, <2>3, <2>4, <2>6 DEF Own, Finding, Ids
<1>4. CASE cli.cmd = "rm_interface"
  <2>1. plan = Just(<<CallDrop(n, cli.arg.name, None)>>)
    BY <1>0, <1>4, ArgFields DEF Plans
  <2>2. c = CallDrop(n, cli.arg.name, None)
    BY <2>1, ChapterCalls DEF Just
  <2>3. c.op = "delete_interface" /\ c.host = n /\ c.name = cli.arg.name
    BY <2>2 DEF CallDrop
  <2>4. MeantAll("interface", c.name)'
    BY <1>4, <2>3 DEF MeantAll, Meant, ReadsFrom
  <2> QED
    BY <1>0, <1>4, <2>3, <2>4 DEF Own, Finding
<1>5. CASE cli.cmd = "mod_host" /\ cli.arg = <<>>
  <2>1. plan = Just(<<CallStore(n, n, None, None)>>)
    BY <1>0, <1>5 DEF Plans
  <2>2. c = CallStore(n, n, None, None)
    BY <2>1, ChapterCalls DEF Just
  <2>3. c.op = "update_host" /\ c.name = n
    BY <2>2 DEF CallStore
  <2> QED
    BY <1>0, <2>3 DEF Own, Finding
<1>6. CASE cli.cmd = "mod_host" /\ cli.arg # <<>>
  <2> DEFINE k == parse_metadata_components(cli.arg[i])
             Clear(j) == LET e == parse_metadata_components(cli.arg[j])
                         IN Chapter(clear_field(n, read, e[1], e[2]), <<>>)
  <2>1. plan = [j \in DOMAIN cli.arg |-> Clear(j)]
    BY <1>0, <1>6 DEF Plans
  <2>2. plan[i] = Clear(i) /\ i \in DOMAIN cli.arg
    BY <2>1
  <2>3. c \in clear_field(n, read, k[1], k[2])
    BY <2>2, ChapterCalls
  <2>4. \A q \in Part : Wanted(q, k[1], k[2]) => Meant(q)
    BY <1>6, <2>2 DEF Wanted, Meant
  <2>5. k[1] = "interfaces" => k[2] = None
    BY DEF parse_metadata_components
  <2> HIDE DEF k
  <2> QED
    BY <1>6, <2>3, <2>4, <2>5, ClearOwned
<1> QED
  BY <1>1, <1>2, <1>3, <1>4, <1>5, <1>6 DEF ReadsFrom, Readers

LEMMA PlannedAt ==
  /\ \A c : c \in Planned <=> \E i \in DOMAIN cli.plan : c \in CallsOf(cli.plan[i])
  /\ \A c : c \in Planned' <=> \E i \in DOMAIN cli'.plan : c \in CallsOf(cli'.plan[i])
<1>1. \A c : c \in Planned <=> \E i \in DOMAIN cli.plan : c \in CallsOf(cli.plan[i])
  BY DEF Planned, CallsOf
<1>2. \A c : c \in Planned' <=> \E i \in DOMAIN cli'.plan : c \in CallsOf(cli'.plan[i])
  BY DEF Planned, CallsOf
<1> QED
  BY <1>1, <1>2

LEMMA JustPlanned ==
  ASSUME NEW calls, cli'.plan = Just(calls)
  PROVE  Planned' = ToSet(calls)
<1>1. DOMAIN Just(calls) = {1} /\ Just(calls)[1] = Chapter({}, calls)
  BY DEF Just
<1>2. CallsOf(Chapter({}, calls)) = ToSet(calls)
  BY ChapterCalls
<1>3. \A c : c \in Planned' <=> \E i \in DOMAIN cli'.plan : c \in CallsOf(cli'.plan[i])
  BY PlannedAt
<1> QED
  BY <1>1, <1>2, <1>3

LEMMA NothingPlanned ==
  ASSUME cli'.plan = <<>>
  PROVE  Planned' = {}
<1>1. DOMAIN <<>> = {}
  OBVIOUS
<1> QED
  BY <1>1, PlannedAt

(* A command that begins has read nothing, and plans one call or none, but *)
(* for --define-cloud, whose calls are about a cloud.                      *)
LEMMA BeginsPlans ==
  ASSUME Tables, InventoryConstants, Begins
  PROVE  /\ cli'.read = <<>> /\ \A c \in Planned' : Own(c)'
         /\ cli'.cmd = "rm_cloud" /\ cli'.at = "run" => \A a \in DOMAIN active : active[a] # cli'.arg
         /\ ~cli'.doubt /\ (cli'.at = "done" /\ cli'.cmd = "import" => ~cli'.arg.force)
         /\ cli'.cmd \in {"import", "lshw2meta"} => cli'.at # "run" \/ cli'.then # "done"
         /\ cli'.cmd = "lshw2meta" => cli'.at = "read"
<1>1. ASSUME NEW n \in Hostnames, NEW f \in Files \cup ({exported} \ {None}), NEW force \in BOOLEAN,
             Import(n, f, force)
      PROVE  /\ cli'.read = <<>> /\ (\A c \in Planned' : Own(c)') /\ ~cli'.doubt /\ cli'.cmd = "import"
             /\ \/ cli'.at = "read"
                \/ cli'.at = "done" /\ ~cli'.arg.force
                \/ cli'.at = "run" /\ cli'.then = "read"
  <2> DEFINE arg == [file |-> f, force |-> force]
             call == CallHost(n, f.home, f.full)
  <2>1. cli' = IF HostNamed(n) # {} THEN Job("import", n, "read", arg, <<>>)
               ELSE IF force THEN [Job("import", n, "run", arg, Just(<<call>>)) EXCEPT !.then = "read"]
               ELSE Job("import", n, "done", arg, <<>>)
    BY <1>1 DEF Import
  <2>2. call.op = "create_host" /\ call.host = n /\ arg.force = force
    BY DEF CallHost
  <2> HIDE DEF arg, call
  <2>3. CASE cli' = Job("import", n, "read", arg, <<>>)
    <3>1. /\ cli'.cmd = "import" /\ cli'.plan = <<>> /\ cli'.arg = arg /\ cli'.read = <<>> /\ cli'.doubt = FALSE
          /\ cli'.at = "read"
      BY <2>3 DEF Job
    <3>2. Planned' = {}
      BY <3>1, NothingPlanned
    <3> QED
      BY <2>2, <2>3, <3>1, <3>2
  <2>4. CASE cli' = Job("import", n, "done", arg, <<>>) /\ ~force
    <3>1. /\ cli'.cmd = "import" /\ cli'.plan = <<>> /\ cli'.arg = arg /\ cli'.read = <<>> /\ cli'.doubt = FALSE
          /\ cli'.at = "done"
      BY <2>4 DEF Job
    <3>2. Planned' = {}
      BY <3>1, NothingPlanned
    <3> QED
      BY <2>2, <2>4, <3>1, <3>2
  <2>5. CASE cli' = [Job("import", n, "run", arg, Just(<<call>>)) EXCEPT !.then = "read"]
    <3>1. /\ cli'.cmd = "import" /\ cli'.host = n /\ cli'.at = "run" /\ cli'.plan = Just(<<call>>)
          /\ cli'.then = "read" /\ cli'.read = <<>> /\ cli'.doubt = FALSE
      BY <2>5 DEF Job
    <3>2. Planned' = {call}
      BY <3>1, JustPlanned, ChapterCalls
    <3>3. ASSUME NEW c, c = call
          PROVE  Own(c)'
      BY <2>2, <3>1, <3>3 DEF Own, Finding
    <3> QED
      BY <3>1, <3>2, <3>3
  <2> QED
    BY <2>1, <2>3, <2>4, <2>5
<1>2. ASSUME NEW cmd, NEW n, NEW arg, cmd \in {"mod_host", "lshw2meta", "rm_interface", "mod_interface"},
             cli' = Job(cmd, n, "read", arg, <<>>)
      PROVE  /\ cli'.read = <<>> /\ Planned' = {} /\ ~cli'.doubt /\ cli'.cmd = cmd /\ cli'.at = "read"
  BY <1>2, NothingPlanned DEF Job
<1>3. CASE \E n \in Hostnames : \/ \E c \in Components : ModHost(n, c)
                                \/ \E s \in Scans : Scan(n, s)
                                \/ \E x \in Names : RemoveInterface(n, x) \/ \E v \in Values : ModInterface(n, x, v)
  <2>1. \A n, C : ModHost(n, C) => \E arg : cli' = Job("mod_host", n, "read", arg, <<>>)
    BY DEF ModHost
  <2>2. \A n, s : Scan(n, s) => \E arg : cli' = Job("lshw2meta", n, "read", arg, <<>>)
    BY DEF Scan
  <2>3. \A n, x : RemoveInterface(n, x) => \E arg : cli' = Job("rm_interface", n, "read", arg, <<>>)
    BY DEF RemoveInterface
  <2>4. \A n, x, v : ModInterface(n, x, v) => \E arg : cli' = Job("mod_interface", n, "read", arg, <<>>)
    BY DEF ModInterface
  <2>5. \E cmd, n, arg : /\ cmd \in {"mod_host", "lshw2meta", "rm_interface", "mod_interface"}
                         /\ cli' = Job(cmd, n, "read", arg, <<>>)
    BY <1>3, <2>1, <2>2, <2>3, <2>4
  <2>6. PICK cmd, n, arg : /\ cmd \in {"mod_host", "lshw2meta", "rm_interface", "mod_interface"}
                           /\ cli' = Job(cmd, n, "read", arg, <<>>)
    BY <2>5
  <2>7. /\ cli'.read = <<>> /\ Planned' = {} /\ ~cli'.doubt /\ cli'.cmd = cmd /\ cli'.at = "read"
    BY <1>2, <2>6
  <2> QED
    BY <2>6, <2>7
<1>4. ASSUME NEW n \in Hostnames, RmHost(n)
      PROVE  /\ cli'.read = <<>> /\ (\A c \in Planned' : Own(c)') /\ ~cli'.doubt /\ cli'.cmd = "rm_host"
  <2> DEFINE call == [op |-> "delete_host", host |-> n]
  <2>1. call.op = "delete_host" /\ call.host = n
    OBVIOUS
  <2>2. cli' = Job("rm_host", n, "run", None, Just(<<call>>))
    BY <1>4 DEF RmHost
  <2> HIDE DEF call
  <2>3. /\ cli'.cmd = "rm_host" /\ cli'.host = n /\ cli'.plan = Just(<<call>>)
        /\ cli'.read = <<>> /\ cli'.doubt = FALSE
    BY <2>2 DEF Job
  <2>4. Planned' = {call}
    BY <2>3, JustPlanned, ChapterCalls
  <2>5. ASSUME NEW c, c = call
        PROVE  Own(c)'
    BY <2>1, <2>3, <2>5 DEF Own, Finding
  <2> QED
    BY <2>3, <2>4, <2>5
<1>5. ASSUME NEW n \in Hostnames, NEW x \in Clouds, DefineHost(n, x)
      PROVE  /\ cli'.read = <<>> /\ (\A c \in Planned' : Own(c)') /\ ~cli'.doubt /\ cli'.cmd = "define_host"
  <2> DEFINE call == CallHost(n, x, TRUE)
  <2>1. call.op = "create_host" /\ call.host = n
    BY DEF CallHost
  <2>2. cli' = Job("define_host", n, "run", None, Just(<<call>>))
    BY <1>5 DEF DefineHost
  <2> HIDE DEF call
  <2>3. /\ cli'.cmd = "define_host" /\ cli'.host = n /\ cli'.plan = Just(<<call>>)
        /\ cli'.read = <<>> /\ cli'.doubt = FALSE
    BY <2>2 DEF Job
  <2>4. Planned' = {call}
    BY <2>3, JustPlanned, ChapterCalls
  <2>5. ASSUME NEW c, c = call
        PROVE  Own(c)'
    BY <2>1, <2>3, <2>5 DEF Own, Finding
  <2> QED
    BY <2>3, <2>4, <2>5
<1>6. ASSUME NEW x \in Clouds, RmCloud(x)
      PROVE  /\ cli'.read = <<>> /\ (\A c \in Planned' : Own(c)') /\ ~cli'.doubt /\ cli'.cmd = "rm_cloud"
             /\ cli'.at = "run" => \A a \in DOMAIN active : active[a] # cli'.arg
  <2> DEFINE call == CallCloud("delete_cloud", x)
             at == IF \E a \in DOMAIN active : active[a] = x THEN "stopped" ELSE "run"
  <2>1. call.op = "delete_cloud" /\ call.cloud = x
    BY DEF CallCloud
  <2>2. cli' = Job("rm_cloud", None, at, x, Just(<<call>>))
    BY <1>6 DEF RmCloud
  <2>6. at = "run" => \A a \in DOMAIN active : active[a] # x
    OBVIOUS
  <2> HIDE DEF call, at
  <2>3. /\ cli'.cmd = "rm_cloud" /\ cli'.arg = x /\ cli'.plan = Just(<<call>>) /\ cli'.at = at
        /\ cli'.read = <<>> /\ cli'.doubt = FALSE
    BY <2>2 DEF Job
  <2>4. Planned' = {call}
    BY <2>3, JustPlanned, ChapterCalls
  <2>5. ASSUME NEW c, c = call
        PROVE  Own(c)'
    BY <2>1, <2>3, <2>5 DEF Own, Finding
  <2> QED
    BY <2>3, <2>4, <2>5, <2>6
<1>7. ASSUME NEW x \in Clouds, NEW ticket \in BOOLEAN, DefineCloud(x, ticket)
      PROVE  /\ cli'.read = <<>> /\ (\A c \in Planned' : Own(c)') /\ ~cli'.doubt /\ cli'.cmd = "define_cloud"
  <2> DEFINE If(cond, op) == IF cond THEN <<CallCloud(op, x)>> ELSE <<>>
             ops == {"create_cloud", "assign", "update_cloud"}
             some == {CallCloud(op, x) : op \in ops}
  <2>1. \E at, p, q, s : cli' = Job("define_cloud", None, at, None,
          Just(If(p, "create_cloud") \o If(q, "assign") \o If(s, "update_cloud")))
    BY <1>7 DEF DefineCloud
  <2>2. ASSUME NEW cond, NEW op \in ops
        PROVE  If(cond, op) \in Seq(some)
    <3>1. CallCloud(op, x) \in some
      OBVIOUS
    <3>2. CASE cond
      BY <3>1, <3>2
    <3>3. CASE ~cond
      BY <3>3, EmptySeq
    <3> QED
      BY <3>2, <3>3
  <2> HIDE DEF If, some
  <2>3. PICK at, p, q, s : cli' = Job("define_cloud", None, at, None,
          Just(If(p, "create_cloud") \o If(q, "assign") \o If(s, "update_cloud")))
    BY <2>1
  <2>4. PICK calls : calls = If(p, "create_cloud") \o If(q, "assign") \o If(s, "update_cloud")
    OBVIOUS
  <2>5. calls \in Seq(some)
    BY <2>2, <2>4, ConcatProperties
  <2>6. ToSet(calls) \subseteq some
    BY <2>5, LenProperties, ElementOfSeq DEF ToSet
  <2>7. cli'.cmd = "define_cloud" /\ cli'.plan = Just(calls) /\ cli'.read = <<>> /\ cli'.doubt = FALSE
    BY <2>3, <2>4 DEF Job
  <2>8. Planned' \subseteq some
    BY <2>6, <2>7, JustPlanned
  <2>9. ASSUME NEW c \in some
        PROVE  Own(c)'
    <3>1. c.op \in ops
      BY DEF some, CallCloud
    <3> QED
      BY <3>1 DEF Own, Finding
  <2> QED
    BY <2>7, <2>8, <2>9
<1>8. ASSUME NEW h \in DOMAIN hosts, Export(h)
      PROVE  /\ cli'.read = <<>> /\ Planned' = {} /\ ~cli'.doubt /\ cli'.cmd = "export"
  <2>1. cli' = Job("export", hosts[h].name, "done", None, <<>>)
    BY <1>8 DEF Export
  <2> QED
    BY <2>1, NothingPlanned DEF Job
<1>9. \/ \E n \in Hostnames, f \in Files \cup ({exported} \ {None}), force \in BOOLEAN : Import(n, f, force)
      \/ \E n \in Hostnames : \/ \E c \in Components : ModHost(n, c)
                              \/ \E s \in Scans : Scan(n, s)
                              \/ \E x \in Names : RemoveInterface(n, x) \/ \E v \in Values : ModInterface(n, x, v)
      \/ \E n \in Hostnames : RmHost(n) \/ \E c \in Clouds : DefineHost(n, c)
      \/ \E c \in Clouds : RmCloud(c) \/ \E ticket \in BOOLEAN : DefineCloud(c, ticket)
      \/ \E h \in DOMAIN hosts : Export(h)
  BY DEF Begins
<1>10. CASE \E n \in Hostnames, f \in Files \cup ({exported} \ {None}), force \in BOOLEAN : Import(n, f, force)
  BY <1>1, <1>10
<1>11. CASE \E n \in Hostnames : RmHost(n) \/ \E c \in Clouds : DefineHost(n, c)
  BY <1>4, <1>5, <1>11
<1>12. CASE \E c \in Clouds : RmCloud(c) \/ \E ticket \in BOOLEAN : DefineCloud(c, ticket)
  BY <1>6, <1>7, <1>12
<1>13. CASE \E h \in DOMAIN hosts : Export(h)
  BY <1>8, <1>13
<1> QED
  BY <1>3, <1>9, <1>10, <1>11, <1>12, <1>13

LEMMA FlightKept ==
  ASSUME Requests, InventoryConstants,
         \/ req'[Cli].at \notin {"asked", "read"}
         \/ Busy(Cli) /\ req'[Cli].call = req[Cli].call
  PROVE  Flight' \subseteq Flight
  BY DEF Flight, Busy

LEMMA CliFrame ==
  ASSUME CliType, Doubtful \/ cli' = [cli EXCEPT !.at = "stopped"] \/ cli' = [cli EXCEPT !.at = cli.then]
  PROVE  /\ CliLike /\ cli'.plan = cli.plan /\ Planned' = Planned
         /\ cli' # cli => cli'.at # cli.at \/ cli'.doubt \/ cli'.at \in {"stopped", cli.then}
<1>1. CliLike /\ cli'.plan = cli.plan
  BY DEF CliType, CliLike, Doubtful
<1>2. cli' # cli => cli'.at # cli.at \/ cli'.doubt \/ cli'.at \in {"stopped", cli.then}
  BY DEF CliType, Doubtful
<1> QED
  BY <1>1, <1>2 DEF Planned

Aware == Basic /\ Owned /\ Remembered /\ Holding

LEMMA HandleAware ==
  ASSUME Basic, Basic', InventoryConstants, Owned, Remembered, NEW r \in Slots, Handle(r)
  PROVE  Owned' /\ Remembered' /\ CliLike /\ RowsLike
<1>1. Cli \in Slots
  BY Slotted
<1>2. CASE Reading(r)
  <2>1. UNCHANGED <<rows, cli, exported, crossed, env>>
    BY <1>2, ReadingBasic
  <2>2. RowsLike /\ CliLike /\ Planned' = Planned
    BY <2>1, RowsLikely DEF Basic, rows, CliLike, Planned
  <2>3. Flight' \subseteq Flight
    <3>1. CASE r = Cli
      <4>1. \A a \in {"ok", "refused", "error"} : Answered(r, a).at \notin {"asked", "read"}
        BY DEF Answered, Idle
      <4> QED
        BY <1>2, <3>1, <4>1, ReadingReplies, FlightKept DEF Basic, Busy, Replied
    <3>2. CASE r # Cli
      <4>1. req'[Cli] = req[Cli]
        BY <1>1, <1>2, <3>2, ReadingReplies DEF Basic
      <4> QED
        BY <4>1 DEF Flight, Busy
    <3> QED
      BY <3>1, <3>2
  <2>4. env.row \in Nat /\ env'.row \in {env.row, env.row + 1}
    BY <2>1, Known DEF Basic
  <2> QED
    BY <2>2, <2>3, <2>4, OwnedKept, RememberedKept DEF Basic
<1>3. CASE Writing(r)
  <2>2. CliLike /\ Planned' = Planned /\ env'.row \in {env.row, env.row + 1}
    BY <1>3, WritingFrame, CliFrame DEF Basic
  <2>1. RowsLike
    BY <1>3, <2>2, RowsStep, RowsLikely DEF Basic
  <2>3. Flight' \subseteq Flight
    <3>1. CASE r = Cli
      <4>1. \A a \in {"ok", "refused", "error"} : Answered(r, a).at \notin {"asked", "read"}
        BY DEF Answered, Idle
      <4> QED
        BY <1>3, <3>1, <4>1, WritingReplies, FlightKept DEF Basic, Replied
    <3>2. CASE r # Cli
      <4>1. Same(Cli)
        BY <1>1, <1>3, <3>2, WritingReplies DEF Basic
      <4> QED
        BY <4>1 DEF Flight, Busy, Same
    <3> QED
      BY <3>1, <3>2
  <2> QED
    BY <2>1, <2>2, <2>3, OwnedKept, RememberedKept DEF Basic
<1> QED
  BY <1>2, <1>3, HandlerKinds

LEMMA BeginsAware ==
  ASSUME Basic, Basic', InventoryConstants, Begins
  PROVE  Owned' /\ Remembered'
<1>1. Flight' = {}
  BY BeginsFrame DEF Basic, Flight, Busy
<1>2. Owned'
  BY <1>1, BeginsPlans DEF Basic, Owned
<1>3. cli'.read = <<>> /\ DOMAIN <<>> = {}
  BY BeginsPlans DEF Basic
<1>4. DOMAIN cli'.read = {}
  BY <1>3
<1> QED
  BY <1>2, <1>4 DEF Remembered

LEMMA ReadHostAware ==
  ASSUME Basic, Basic', InventoryConstants, Owned, Remembered, ReadHost
  PROVE  Owned' /\ Remembered'
<1>1. UNCHANGED <<rows, req, env>>
  BY Readings DEF Basic
<1>2. UNCHANGED <<hosts, parts>>
  BY <1>1 DEF rows
<1>3. Flight' = Flight
  BY <1>1 DEF Flight, Busy
<1>4. CASE cli' = [cli EXCEPT !.at = "stopped"]
  <2>1. CliLike /\ Planned' = Planned
    BY <1>4, CliFrame DEF Basic
  <2>2. RowsLike /\ env'.row \in {env.row, env.row + 1}
    BY <1>1, <1>2, <2>1, RowsLikely DEF Basic
  <2> QED
    BY <1>2, <1>3, <2>1, <2>2, OwnedKept, RememberedKept DEF Basic
<1>5. ASSUME NEW h, NEW plan, ReadsFrom(h, plan)
      PROVE  Owned' /\ Remembered'
  <2>1. Flight' = {}
    BY <1>3, <1>5 DEF ReadsFrom, Flight, Busy, Basic, Turns
  <2>2. \A c \in Planned' : \E i \in DOMAIN plan : c \in CallsOf(plan[i])
    BY <1>5, PlannedAt DEF ReadsFrom
  <2>3. \A c \in Planned' : Own(c)'
    BY <1>1, <1>2, <1>5, <2>2, PlanOwned DEF Basic
  <2>4. Owned'
    BY <2>1, <2>3 DEF Owned
  <2>5. Remembered'
    BY <1>2, <1>5 DEF Remembered, Near, ReadsFrom, Listing, PartsOf, HostNamed
  <2> QED
    BY <2>4, <2>5
<1> QED
  BY <1>4, <1>5, Readings DEF Basic

(* The chapters a step does not touch keep their calls.                    *)
LEMMA ReplanCalls ==
  ASSUME CliType, NEW i \in DOMAIN cli.plan, NEW ch,
         cli' = [cli EXCEPT !.plan = [cli.plan EXCEPT ![i] = ch]]
  PROVE  /\ CliLike /\ cli'.at = cli.at /\ cli'.doubt = cli.doubt /\ DOMAIN cli'.plan = DOMAIN cli.plan
         /\ cli'.plan[i] = ch /\ \A j \in DOMAIN cli.plan : j # i => cli'.plan[j] = cli.plan[j]
         /\ Planned' \subseteq Planned \cup CallsOf(ch)
<1>1. cli'.plan = [cli.plan EXCEPT ![i] = ch] /\ CliLike /\ cli'.at = cli.at /\ cli'.doubt = cli.doubt
  BY DEF CliType, CliLike
<1>2. /\ DOMAIN cli'.plan = DOMAIN cli.plan /\ cli'.plan[i] = ch
      /\ \A j \in DOMAIN cli.plan : j # i => cli'.plan[j] = cli.plan[j]
  BY <1>1
<1> QED
  BY <1>1, <1>2, PlannedAt

LEMMA HeadTail ==
  ASSUME NEW s \in Seq(Calls \cup Lookups), s # <<>>
  PROVE  Head(s) \in ToSet(s) /\ ToSet(Tail(s)) \subseteq ToSet(s)
<1>1. /\ Len(s) \in Nat /\ Len(s) > 0 /\ DOMAIN s = 1..Len(s)
      /\ Head(s) = s[1] /\ Tail(s) \in Seq(Calls \cup Lookups) /\ Len(Tail(s)) = Len(s) - 1
      /\ \A i \in 1..(Len(s) - 1) : Tail(s)[i] = s[i + 1]
  <2>1. Len(s) \in Nat /\ DOMAIN s = 1..Len(s) /\ Len(s) # 0
    BY LenProperties, EmptySeq
  <2>2. /\ Head(s) = s[1] /\ Tail(s) \in Seq(Calls \cup Lookups) /\ Len(Tail(s)) = Len(s) - 1
        /\ \A i \in 1..(Len(s) - 1) : Tail(s)[i] = s[i + 1]
    BY HeadTailProperties
  <2> QED
    BY <2>1, <2>2
<1>2. DOMAIN Tail(s) = 1..(Len(s) - 1)
  BY <1>1, LenProperties
<1> QED
  BY <1>1, <1>2 DEF ToSet

LEMMA FoundOwned ==
  ASSUME Basic, Owned, Remembered, cli.cmd = "lshw2meta", NEW call \in Lookups, Own(call),
         NEW found \in Found(call), NEW c \in found
  PROVE  Own(c)
<1> DEFINE p == call.part
           interfaces == {x \in DOMAIN cli.read : cli.read[x].kind = p.kind /\ cli.read[x].name = p.name}
           disks == {x \in DOMAIN parts : /\ hosts[parts[x].host].name = cli.host
                                          /\ parts[x].part.kind = "disk" /\ parts[x].part.name = p.name}
<1>1. /\ MeantAll(p.kind, p.name) /\ call.op \in Finding
      /\ p.kind = IF call.op = "find_interface" THEN "interface" ELSE "disk"
  BY DEF Own, Lookups
<1>2. \/ call.op = "find_interface" /\ \E x \in interfaces : c = CallUpdate(cli.host, x, p.name, p.value)
      \/ call.op # "find_interface" /\ c = CallPart(cli.host, p)
      \/ call.op # "find_interface" /\ \E x \in disks : c = CallUpdate(cli.host, x, p.name, p.value)
  BY DEF Found
<1>3. \A x \in DOMAIN parts : parts[x].part \in Part
  BY DEF Basic, Tables
<1>4. ASSUME NEW x \in interfaces, call.op = "find_interface", c = CallUpdate(cli.host, x, p.name, p.value)
      PROVE  Own(c)
  <2>1. c.op = "update_part" /\ c.host = cli.host /\ c.id = x
    BY <1>4 DEF CallUpdate
  <2>2. x < env.row
    BY DEF Basic, CliType, Ids
  <2>3. cli.read[x] \in Part /\ Meant(cli.read[x])
    BY <1>1, <1>4 DEF MeantAll, Basic, CliType
  <2>4. x \in DOMAIN parts => May(x) /\ parts[x].part.kind = "interface"
    BY <1>1, <1>4, <2>3 DEF Remembered, May
  <2> QED
    BY <2>1, <2>2, <2>4 DEF Own, Finding
<1>5. ASSUME NEW x \in disks, call.op # "find_interface", c = CallUpdate(cli.host, x, p.name, p.value)
      PROVE  Own(c)
  <2>1. c.op = "update_part" /\ c.host = cli.host /\ c.id = x
    BY <1>5 DEF CallUpdate
  <2>2. x < env.row
    BY DEF Basic, Tables, Ids
  <2>3. May(x) /\ parts[x].part.kind = "disk"
    BY <1>1, <1>3, <1>5 DEF May, MeantAll, Near, ByName
  <2> QED
    BY <2>1, <2>2, <2>3 DEF Own, Finding
<1>6. ASSUME c = CallPart(cli.host, p)
      PROVE  Own(c)
  <2>1. c.op = "create_part" /\ c.host = cli.host
    BY <1>6 DEF CallPart
  <2> QED
    BY <2>1 DEF Own, Finding
<1> QED
  BY <1>2, <1>4, <1>5, <1>6

LEMMA LookAware ==
  ASSUME Basic, Basic', InventoryConstants, Owned, Remembered, Look
  PROVE  Owned' /\ Remembered'
<1>1. PICK i \in DOMAIN cli.plan :
         /\ Ready(i) /\ cli.plan[i].any = {} /\ Head(cli.plan[i].calls) \in Lookups
         /\ \E found \in Found(Head(cli.plan[i].calls)) :
              cli' = [cli EXCEPT !.plan = [cli.plan EXCEPT ![i] = Chapter(found, Tail(cli.plan[i].calls))]]
  BY Looks DEF Basic
<1>2. PICK found \in Found(Head(cli.plan[i].calls)) :
         cli' = [cli EXCEPT !.plan = [cli.plan EXCEPT ![i] = Chapter(found, Tail(cli.plan[i].calls))]]
  BY <1>1
<1>3. UNCHANGED <<rows, req, env>> /\ cli.cmd = "lshw2meta"
  BY Looks DEF Basic
<1>4. cli.plan[i].calls \in Seq(Calls \cup Lookups) /\ cli.plan[i].calls # <<>>
  BY <1>1, PlanFields DEF Ready, Basic
<1>5. Head(cli.plan[i].calls) \in Planned /\ ToSet(Tail(cli.plan[i].calls)) \subseteq Planned
  BY <1>1, <1>4, HeadTail, PlannedAt DEF CallsOf
<1>6. \A c \in found : Own(c)
  BY <1>1, <1>2, <1>3, <1>5, FoundOwned DEF Owned
<1>7. \A c \in found : c \in Calls
  BY <1>1, <1>2, <1>3, FoundTyped DEF Basic
<1>8. CallsOf(Chapter(found, Tail(cli.plan[i].calls))) = found \cup ToSet(Tail(cli.plan[i].calls))
  BY ChapterCalls
<1>9. CliLike /\ Planned' \subseteq Planned \cup found
  BY <1>2, <1>5, <1>8, ReplanCalls DEF Basic
<1>10. RowsLike /\ env'.row \in {env.row, env.row + 1} /\ Flight' = Flight
  BY <1>3, <1>9, RowsLikely DEF rows, Basic, Flight, Busy
<1>11. ASSUME NEW c \in (Planned \cup Flight)'
       PROVE  Own(c)'
  <2>1. Own(c) /\ c \in Calls \cup Lookups
    BY <1>6, <1>7, <1>9, <1>10, <1>11, PlannedTyped DEF Owned, Basic
  <2> QED
    BY <1>9, <1>10, <2>1, OwnKept DEF Basic
<1> QED
  BY <1>9, <1>10, <1>11, RememberedKept DEF Owned, Basic

LEMMA ProceedAware ==
  ASSUME Basic, Basic', InventoryConstants, Owned, Remembered, Proceed
  PROVE  Owned' /\ Remembered'
<1>1. UNCHANGED <<rows, env>> /\ Cli \in Slots
  BY Proceeds, Slotted DEF Basic
<1>2. CliLike => RowsLike /\ env'.row \in {env.row, env.row + 1}
  BY <1>1, RowsLikely DEF rows, Basic
<1>3. CASE Through_
  <2>1. req'[Cli] = Idle
    BY <1>1, <1>3 DEF Through_, Basic, Requests
  <2>2. Flight' \subseteq Flight /\ CliLike /\ Planned' = Planned
    BY <1>3, <2>1, FlightKept, CliFrame DEF Through_, Basic, Idle
  <2> QED
    BY <1>2, <2>2, OwnedKept, RememberedKept DEF Basic
<1>4. ASSUME NEW i \in DOMAIN cli.plan, NEW c \in Calls, Asking(i, c)
      PROVE  Owned' /\ Remembered'
  <2>1. req'[Cli].call = c
    BY <1>1, <1>4 DEF Asking, Ask, Basic, Requests, Idle
  <2>2. Flight' \subseteq {c}
    BY <2>1 DEF Flight
  <2>3. /\ cli.plan[i].any \in SUBSET Calls /\ cli.plan[i].calls \in Seq(Calls \cup Lookups)
        /\ CallsOf(cli.plan[i]) \subseteq Planned
    BY PlanFields, PlannedAt DEF Basic
  <2>4. c \in Planned /\ CliLike /\ Planned' \subseteq Planned
    <3>1. CASE /\ c \in cli.plan[i].any
               /\ cli' = [cli EXCEPT !.plan = [cli.plan EXCEPT ![i] = Chapter(cli.plan[i].any \ {c}, cli.plan[i].calls)]]
      <4>1. CallsOf(Chapter(cli.plan[i].any \ {c}, cli.plan[i].calls)) \subseteq CallsOf(cli.plan[i])
        BY ChapterCalls DEF CallsOf
      <4>2. CliLike /\ Planned' \subseteq Planned \cup CallsOf(Chapter(cli.plan[i].any \ {c}, cli.plan[i].calls))
        BY <3>1, ReplanCalls DEF Basic
      <4> QED
        BY <2>3, <3>1, <4>1, <4>2 DEF CallsOf
    <3>2. CASE /\ cli.plan[i].any = {} /\ cli.plan[i].calls # <<>> /\ c = Head(cli.plan[i].calls)
               /\ cli' = [cli EXCEPT !.plan = [cli.plan EXCEPT ![i] = Chapter({}, Tail(cli.plan[i].calls))]]
      <4>1. CallsOf(Chapter({}, Tail(cli.plan[i].calls))) \subseteq CallsOf(cli.plan[i]) /\ c \in CallsOf(cli.plan[i])
        BY <2>3, <3>2, HeadTail, ChapterCalls, SMTT(40) DEF CallsOf
      <4>2. CliLike /\ Planned' \subseteq Planned \cup CallsOf(Chapter({}, Tail(cli.plan[i].calls)))
        BY <3>2, ReplanCalls DEF Basic
      <4> QED
        BY <2>3, <4>1, <4>2
    <3> QED
      BY <1>4, <3>1, <3>2 DEF Asking
  <2> QED
    BY <1>2, <2>2, <2>4, OwnedKept, RememberedKept DEF Basic
<1> QED
  BY <1>3, <1>4, Proceeds DEF Basic

LEMMA OtherAware ==
  ASSUME Basic, Basic', InventoryConstants, Owned, Remembered,
         Stop \/ Elsewhere \/ UNCHANGED vars \/ \E r \in Clients : Submit(r)
  PROVE  Owned' /\ Remembered'
<1>1. Cli \in Slots /\ Cli \notin Clients
  BY Slotted
<1>2. CASE Stop
  <2>1. UNCHANGED <<rows, env>> /\ cli' = [cli EXCEPT !.at = "stopped"] /\ req'[Cli] = Idle
    BY <1>1, <1>2, StopTyped DEF Stop, Basic, Requests
  <2>3. Flight' \subseteq Flight /\ CliLike /\ Planned' = Planned
    BY <2>1, FlightKept, CliFrame DEF Basic, Idle
  <2>2. RowsLike /\ env'.row \in {env.row, env.row + 1}
    BY <2>1, <2>3, RowsLikely DEF rows, Basic
  <2> QED
    BY <2>2, <2>3, OwnedKept, RememberedKept DEF Basic
<1>3. CASE Elsewhere \/ UNCHANGED vars \/ \E r \in Clients : Submit(r)
  <2>1. UNCHANGED <<hosts, parts, cli>> /\ env'.row = env.row /\ req'[Cli] = req[Cli]
    <3>1. CASE Elsewhere
      BY <3>1, ElsewhereFrame DEF Basic
    <3>2. CASE UNCHANGED vars
      BY <3>2 DEF vars
    <3>3. CASE \E r \in Clients : Submit(r)
      <4>1. PICK r \in Clients : Submit(r)
        BY <3>3
      <4>2. UNCHANGED <<rows, cli>> /\ env'.row = env.row /\ \E c \in Calls : Ask(r, c)
        BY <4>1, Submits DEF Basic
      <4>3. req'[Cli] = req[Cli]
        BY <1>1, <4>2 DEF Ask, Basic, Requests
      <4> QED
        BY <4>2, <4>3 DEF rows
    <3> QED
      BY <1>3, <3>1, <3>2, <3>3
  <2>3. Flight' = Flight /\ CliLike /\ Planned' = Planned
    BY <2>1, CliFrame DEF Basic, Flight, Busy, Doubtful
  <2>2. RowsLike /\ env'.row \in {env.row, env.row + 1}
    BY <2>1, <2>3, RowsLikely DEF Basic
  <2> QED
    BY <2>2, <2>3, OwnedKept, RememberedKept DEF Basic
<1> QED
  BY <1>2, <1>3

LEMMA AwareInit ==
  ASSUME Init, InventoryConstants
  PROVE  Aware
<1>1. /\ req[Cli] = Idle /\ cli = Job("none", None, "idle", None, <<>>)
  BY Slotted DEF Init
<1>2. Flight = {} /\ Holding
  BY <1>1 DEF Flight, Busy, Idle, Holding
<1>3. DOMAIN cli.plan = {} /\ DOMAIN cli.read = {}
  BY <1>1 DEF Job
<1>4. Planned = {}
  BY <1>3, PlannedAt
<1> QED
  BY <1>2, <1>3, <1>4, InitBasic DEF Aware, Owned, Remembered

(* The row a request of the command line holds is one it may touch.        *)
LEMMA HoldingRead ==
  ASSUME Basic, Basic', InventoryConstants, Owned, Reading(Cli)
  PROVE  Holding'
<1> SUFFICES ASSUME req'[Cli].at = "read", req'[Cli].call.op \in {"delete_part", "delete_interface", "update_part"},
                    NEW s, s = req'[Cli].seen
             PROVE  /\ s \in Nat /\ (s \in DOMAIN parts' => May(s)')
                    /\ req'[Cli].call.op # "delete_interface" => s = req'[Cli].call.id
  BY DEF Holding, May
<1>1. UNCHANGED <<hosts, parts, cli>> /\ Cli \in Slots /\ req[Cli] \in Request
  BY ReadingBasic, Slotted DEF rows, Basic, Requests
<1>2. req'[Cli].call = req[Cli].call /\ req[Cli].at = "asked"
  <2>1. \A a \in {"ok", "refused", "error"} : Answered(Cli, a).at # "read"
    BY DEF Answered, Idle
  <2> QED
    BY <1>1, <2>1, ReadingReplies DEF Basic, Replied
<1>3. PICK c \in Calls : c = req[Cli].call /\ Own(c)
  BY <1>1, <1>2 DEF Basic, Requests, Busy, Owned, Flight
<1>4. \A p \in DOMAIN parts : May(p) => May(p)'
  <2> SUFFICES ASSUME NEW p \in DOMAIN parts, May(p)
               PROVE  May(p)'
    OBVIOUS
  <2>2. CliLike /\ p \in Ids
    BY <1>1 DEF Basic, CliLike, Tables
  <2>1. RowsLike /\ CliLike /\ p \in Ids
    BY <1>1, <2>2, RowsLikely DEF Basic
  <2> QED
    BY <1>1, <2>1, MayKept
<1>5. ASSUME NEW row, NEW accepted, Checked(Cli, row, accepted)
      PROVE  accepted /\ req'[Cli].seen = row
  <2>1. accepted
    BY <1>1, <1>5 DEF Checked, Answer, Answered, Idle, Basic, Requests
  <2> QED
    <3>1. req'[Cli] = [req[Cli] EXCEPT !.at = "read", !.seen = row]
      BY <1>1, <1>5, <2>1 DEF Checked, Basic, Requests
    <3> QED
      BY <1>1, <2>1, <3>1 DEF Request
<1>6. CASE c.op = "delete_part"
  <2>1. DeletePart(Cli)
    BY <1>2, <1>3, <1>6 DEF Reading, CreatePart, DeleteInterface, UpdatePart, CreateHost, DeleteHost, UpdateHost,
                            CreateCloud, FindCloud, DeleteCloud, Asked
  <2>2. req'[Cli].seen = c.id
    BY <1>3, <1>5, <2>1 DEF DeletePart
  <2>3. c.id \in Nat /\ (c.id \in DOMAIN parts => May(c.id))
    BY <1>3, <1>6, CallFields DEF Own
  <2> QED
    BY <1>1, <1>2, <1>3, <1>4, <2>2, <2>3
<1>7. CASE c.op = "update_part"
  <2>1. UpdatePart(Cli)
    BY <1>2, <1>3, <1>7 DEF Reading, CreatePart, DeleteInterface, DeletePart, CreateHost, DeleteHost, UpdateHost,
                            CreateCloud, FindCloud, DeleteCloud, Asked
  <2>2. req'[Cli].seen = c.id
    BY <1>1, <1>3, <2>1, HeldRow DEF Basic
  <2>3. c.id \in Nat /\ (c.id \in DOMAIN parts => May(c.id))
    BY <1>3, <1>7, CallFields DEF Own
  <2> QED
    BY <1>1, <1>2, <1>3, <1>4, <2>2, <2>3
<1>8. CASE c.op = "delete_interface"
  <2>1. DeleteInterface(Cli)
    BY <1>2, <1>3, <1>8 DEF Reading, CreatePart, UpdatePart, DeletePart, CreateHost, DeleteHost, UpdateHost,
                            CreateCloud, FindCloud, DeleteCloud, Asked
  <2>2. PICK h \in First(HostNamed(c.host)) :
          \E p \in First({x \in FieldOf(h, "interfaces") : parts[x].part.name = c.name}) :
            Checked(Cli, p, h # None /\ p # None)
    BY <1>3, <2>1 DEF DeleteInterface
  <2>3. PICK p \in First({x \in FieldOf(h, "interfaces") : parts[x].part.name = c.name}) :
          Checked(Cli, p, h # None /\ p # None)
    BY <2>2
  <2>4. h # None /\ p # None /\ req'[Cli].seen = p
    BY <1>5, <2>3
  <2>5. h \in HostNamed(c.host) /\ p \in FieldOf(h, "interfaces") /\ parts[p].part.name = c.name
    BY <2>2, <2>3, <2>4 DEF First
  <2>6. p \in DOMAIN parts /\ parts[p].host = h /\ hosts[h].name = c.host /\ parts[p].part.kind = "interface"
    BY <2>5, FieldKind DEF FieldOf, PartsOf, HostNamed
  <2>7. /\ c.host = cli.host /\ MeantAll("interface", c.name) /\ p \in Nat /\ parts[p].part \in Part
        /\ cli.cmd \in {"import", "mod_host", "rm_interface"}
    BY <1>3, <1>8, <2>6 DEF Own, Basic, Tables, Ids
  <2>8. May(p)
    BY <2>5, <2>6, <2>7 DEF May, MeantAll, Near, ByName
  <2> QED
    BY <1>1, <1>2, <1>3, <1>4, <1>8, <2>4, <2>7, <2>8
<1> QED
  BY <1>2, <1>3, <1>6, <1>7, <1>8

LEMMA HoldingKept ==
  ASSUME Basic, RowsLike, CliLike, Holding, req'[Cli].at = "read" => Same(Cli), Cli \in Slots
  PROVE  Holding'
<1> SUFFICES ASSUME req'[Cli].at = "read", req'[Cli].call.op \in {"delete_part", "delete_interface", "update_part"},
                    NEW s, s = req'[Cli].seen
             PROVE  /\ s \in Nat /\ (s \in DOMAIN parts' => May(s)')
                    /\ req'[Cli].call.op # "delete_interface" => s = req'[Cli].call.id
  BY DEF Holding, May
<1>1. /\ s = req[Cli].seen /\ s \in Nat /\ (s \in DOMAIN parts => May(s))
      /\ req[Cli].call.op # "delete_interface" => s = req[Cli].call.id
  BY DEF Holding, Same, May
<1>2. s \in Ids
  <2>1. req[Cli].seen \in Ids \cup {None}
    BY DEF Basic, Requests
  <2> QED
    BY <1>1, <2>1, InventoryConstants DEF InventoryConstants
<1>3. s \in DOMAIN parts' => May(s)'
  BY <1>1, <1>2, MayKept
<1> QED
  BY <1>1, <1>3 DEF Same

(* While its request is being handled the command stays as it is.          *)
LEMMA HandledMeanwhile ==
  ASSUME Basic, InventoryConstants, [Next]_vars, ~ \E r \in Slots : Handle(r), req[Cli].at = "read"
  PROVE  UNCHANGED <<hosts, parts, cli>> /\ req'[Cli] = req[Cli]
<1>1. UNCHANGED <<hosts, parts>> /\ Cli \in Slots /\ cli.at = "run"
  BY OtherRows, HandlerKinds, Slotted DEF Basic, Turns
<1>2. ~Begins
  BY <1>1, BeginsFrame DEF Basic
<1>3. ~ReadHost
  BY <1>1, ZenonT(30) DEF ReadHost
<1>4. ~Look
  BY Looks DEF Basic, Ready
<1>5. ~Proceed
  BY Proceeds DEF Basic, Through_, Asking, Ready
<1>6. ~Stop
  BY DEF Stop
<1>7. CASE \E r \in Clients : Submit(r)
  <2>1. PICK r \in Clients : Submit(r)
    BY <1>7
  <2>2. UNCHANGED cli /\ \E c \in Calls : Ask(r, c)
    BY <2>1, Submits DEF Basic
  <2>3. req'[Cli] = req[Cli]
    BY <2>2, Slotted DEF Ask, Basic, Requests
  <2> QED
    BY <1>1, <2>2, <2>3
<1>8. CASE Elsewhere \/ UNCHANGED vars
  BY <1>1, <1>8, ElsewhereFrame DEF Basic, vars
<1> QED
  BY <1>2, <1>3, <1>4, <1>5, <1>6, <1>7, <1>8, CommandKinds DEF Next

LEMMA AwareStep ==
  ASSUME Aware, InventoryConstants, [Next]_vars
  PROVE  Aware'
<1>1. Basic /\ Basic' /\ Owned /\ Remembered /\ Holding /\ Cli \in Slots
  BY BasicStep, Slotted DEF Aware
<1>2. ASSUME NEW r \in Slots, Handle(r)
      PROVE  Owned' /\ Remembered' /\ Holding'
  <2>1. Owned' /\ Remembered' /\ CliLike /\ RowsLike
    BY <1>1, <1>2, HandleAware
  <2>2. CASE r = Cli /\ Reading(r)
    BY <1>1, <2>1, <2>2, HoldingRead
  <2>3. CASE r # Cli \/ Writing(r)
    <3>1. req'[Cli].at = "read" => Same(Cli)
      <4>1. \A a \in {"ok", "refused", "error"} : Answered(Cli, a).at # "read"
        BY DEF Answered, Idle
      <4>2. CASE Writing(r)
        BY <1>1, <4>1, <4>2, WritingReplies DEF Basic, Replied
      <4>3. CASE r # Cli /\ Reading(r)
        BY <1>1, <4>3, ReadingReplies DEF Basic, Same
      <4> QED
        BY <1>2, <2>3, <4>2, <4>3, HandlerKinds
    <3> QED
      BY <1>1, <2>1, <3>1, HoldingKept
  <2> QED
    BY <1>2, <2>1, <2>2, <2>3, HandlerKinds
<1>3. CASE ~ \E r \in Slots : Handle(r)
  <2>1. Owned' /\ Remembered'
    BY <1>1, <1>3, BeginsAware, ReadHostAware, LookAware, ProceedAware, OtherAware, CommandKinds DEF Next
  <2>2. CASE req'[Cli].at # "read"
    BY <1>1, <2>1, <2>2 DEF Aware, Holding, May
  <2>3. CASE req'[Cli].at = "read"
    <3>1. req[Cli].at = "read"
      BY <1>1, <1>3, <2>3, OtherRequests
    <3>2. UNCHANGED <<hosts, parts, cli>> /\ req'[Cli] = req[Cli]
      BY <1>1, <1>3, <3>1, HandledMeanwhile
    <3>3. CliLike /\ Same(Cli)
      BY <3>2 DEF CliLike, Same
    <3>4. RowsLike
      BY <1>1, <3>2, <3>3, RowsLikely DEF Basic
    <3> QED
      BY <1>1, <2>1, <3>3, <3>4, HoldingKept DEF Aware
  <2> QED
    BY <2>1, <2>2, <2>3
<1> QED
  BY <1>1, <1>2, <1>3 DEF Aware

LEMMA TouchStep ==
  ASSUME Aware, InventoryConstants, [Next]_vars, req[Cli].at = "read", req'[Cli].at # "read",
         NEW p \in DOMAIN parts, p \notin DOMAIN parts' \/ parts'[p] # parts[p]
  PROVE  May(p)
<1>1. Basic /\ Holding /\ Owned /\ Cli \in Slots
  BY Slotted DEF Aware
<1>2. PICK r \in Slots : Writing(r)
  BY <1>1, OtherRows
<1>3. r = Cli
  BY <1>1, <1>2, WritingReplies DEF Basic, Same
<1>4. p # env.row /\ parts[p].host \in DOMAIN hosts
  BY <1>1 DEF Basic, Tables, Ids
<1>5. PICK c \in Calls : c = req[Cli].call /\ Own(c)
  BY <1>1 DEF Basic, Requests, Busy, Owned, Flight
<1>6. CASE UNCHANGED parts
  BY <1>6
<1>7. CASE InsertPart(r)
  <2> DEFINE row == [host |-> req[r].seen, part |-> req[r].call.part]
  <2>1. UNCHANGED parts \/ parts' = Insert(parts, row)
    BY <1>7 DEF InsertPart
  <2> HIDE DEF row
  <2>2. parts' = Insert(parts, row) => p \in DOMAIN parts' /\ parts'[p] = parts[p]
    BY <1>4 DEF Insert
  <2> QED
    BY <1>6, <2>1, <2>2
<1>8. CASE ErasePart(r)
  <2>1. /\ UNCHANGED parts \/ parts' = Restrict(parts, DOMAIN parts \ {req[Cli].seen})
        /\ c.op \in {"delete_part", "delete_interface"}
    BY <1>3, <1>5, <1>8 DEF ErasePart, Read
  <2>2. p = req[Cli].seen
    BY <1>6, <2>1 DEF Restrict
  <2> QED
    BY <1>1, <1>5, <2>1, <2>2 DEF Holding
<1>9. CASE StorePart(r)
  <2>1. CASE ~UNCHANGED parts
    <3>1. c.op = "update_part" /\ p = req[Cli].seen
      BY <1>1, <1>3, <1>5, <1>9, <2>1, PartStored DEF Basic, Read
    <3> QED
      BY <1>1, <1>5, <3>1 DEF Holding
  <2> QED
    BY <1>6, <2>1
<1>10. CASE RemoveHost(r)
  <2>1. PICK h \in First(HostNamed(c.host)) : UNCHANGED parts \/ (h # None /\ parts' = Cascade(h))
    BY <1>3, <1>5, <1>10 DEF RemoveHost
  <2>2. h # None /\ p \in PartsOf(h) /\ c.op = "delete_host"
    BY <1>3, <1>5, <1>6, <1>10, <2>1 DEF Cascade, Restrict, RemoveHost, Read
  <2>3. hosts[parts[p].host].name = c.host
    BY <2>1, <2>2 DEF First, HostNamed, PartsOf
  <2>4. c.host = cli.host /\ cli.cmd = "rm_host"
    BY <1>5, <2>2 DEF Own
  <2> QED
    BY <2>3, <2>4 DEF May, Meant, Near, ByName
<1>11. CASE InsertHost(r) \/ StoreHost(r) \/ InsertCloud(r) \/ RemoveCloud(r) \/ Assign(r)
  BY <1>6, <1>11 DEF InsertHost, StoreHost, InsertCloud, RemoveCloud, Assign
<1> QED
  BY <1>2, <1>7, <1>8, <1>9, <1>10, <1>11 DEF Writing

(* Whatever other clients write, rename or remove meanwhile, and whatever  *)
(* of its own fails, a command removes and changes only parts of its own   *)
(* host (or of one that was renamed since) that it has read itself, and    *)
(* that were of the components it was given when it did; or, where it goes *)
(* by the name - interfaces, the disks of a scan, the parts of a host it   *)
(* removes - that are of those components unless they were renamed.        *)
THEOREM TouchesMeant == Spec => TouchesOnlyMeant
<1>1. Init => Aware
  BY AwareInit, InventoryConstants
<1>2. Aware /\ [Next]_vars => Aware'
  BY AwareStep, InventoryConstants
<1>3. Aware /\ [Next]_vars =>
        [req[Cli].at = "read" /\ req'[Cli].at # "read" =>
           \A p \in DOMAIN parts :
             p \notin DOMAIN parts' \/ parts'[p] # parts[p] =>
               /\ hosts[parts[p].host].name = cli.host \/ parts[p].host \in cli.renamed
               /\ \/ p \in DOMAIN cli.read /\ Meant(cli.read[p])
                  \/ /\ ByName(parts[p].part.kind)
                     /\ Meant(parts[p].part) \/ {p, parts[p].host} \cap cli.renamed # {}]_vars
  BY TouchStep, InventoryConstants DEF May, Near, Renamed
<1> QED
  BY <1>1, <1>2, <1>3, PTL DEF Spec, TouchesOnlyMeant

(***************************************************************************)
(* What an import and a scan leave behind.                                 *)
(***************************************************************************)
TheLists == cli.arg.file.lists

(* A command that replaces lists, from its listing to its end, as long as  *)
(* nothing has been refused, failed, or crossed by somebody else's write.  *)
Doing ==
  /\ \/ cli.at = "done"
     \/ cli.at = "run" /\ cli.then = "done"
  /\ cli.cmd \in {"import", "lshw2meta"} /\ cli.arg.force
  /\ ~cli.doubt /\ <<cli.host>> \notin crossed /\ req[Cli].at \notin {"refused", "error"}

Replaces(i) == /\ i \in DOMAIN TheLists /\ TheLists[i].field # "default_cloud"
               /\ cli.cmd = "import" \/ TheLists[i].field \in Handled

(* The list a call works on.                                               *)
Parting == {"delete_part", "delete_interface", "create_part"} \cup Finding
CallField(c) ==
  CASE c.op = "delete_part" -> Field(cli.read[c.id].kind)
    [] c.op = "delete_interface" -> "interfaces"
    [] OTHER -> Field(c.part.kind)
Mine(i) == {c \in Flight : c.op \in Parting /\ CallField(c) = TheLists[i].field}

DropOp(i) == IF TheLists[i].field = "interfaces" THEN "delete_interface" ELSE "delete_part"

(* The removals that are left, the entries taken up, the rows created.     *)
Left(i) == cli.plan[i].any \cup {c \in Mine(i) : c.op # "create_part"}
Gone(i) == Len(TheLists[i].entries) - Len(cli.plan[i].calls)
Made(i) == IF \E c \in Mine(i) : c.op = "create_part" THEN Gone(i) - 1 ELSE Gone(i)

Interfaces(h, name) == {p \in FieldOf(h, "interfaces") : parts[p].part.name = name}

Cleared(i) ==
  \A h \in HostNamed(cli.host) :
    IF TheLists[i].field = "interfaces"
      THEN \A name \in Names : Cardinality(Interfaces(h, name)) = Cardinality({c \in Left(i) : c.name = name})
      ELSE FieldOf(h, TheLists[i].field) = {c.id : c \in Left(i)}

\* How often a part is among the first k entries of a list.
Among(e, k, p) == Cardinality({m \in 1..k : e[m] = p})
Filled(i) ==
  \A h \in HostNamed(cli.host), p \in Part :
    Count(h, TheLists[i].field, p) = Among(TheLists[i].entries, Made(i), p)

Replacing(i) ==
  /\ Gone(i) \in Nat
  /\ \A m \in DOMAIN cli.plan[i].calls : cli.plan[i].calls[m] = CallPart(cli.host, TheLists[i].entries[Gone(i) + m])
  /\ IsFiniteSet(cli.plan[i].any)
  /\ \A c \in cli.plan[i].any : c.op = DropOp(i) /\ c \notin Mine(i)
  /\ \A c \in Mine(i) : \/ c.op = DropOp(i)
                        \/ c.op = "create_part" /\ Gone(i) > 0 /\ c.part = TheLists[i].entries[Gone(i)]
  /\ IF Gone(i) = 0 THEN Cleared(i) ELSE Left(i) = {} /\ Filled(i)

(* What a scan does to the disks.                                          *)
Fixes(h, c, p) ==
  \/ c = CallPart(cli.host, p)
  \/ \E d \in FieldOf(h, "disks") : c = CallUpdate(cli.host, d, p.name, p.value) /\ parts[d].part.name = p.name
Have(h, p) == \E d \in FieldOf(h, "disks") : parts[d].part = p

DiskCall(h, c) == \/ c.op = "create_part" /\ c.part.kind = "disk"
                  \/ c.op = "update_part" /\ c.id \in FieldOf(h, "disks")
Fixing(h) == cli.plan[2].any \cup {c \in Flight : DiskCall(h, c)}
Counting ==
  /\ Gone(2) \in Nat
  /\ \A m \in DOMAIN cli.plan[2].calls :
       cli.plan[2].calls[m] = [op |-> "find_disk", part |-> TheLists[2].entries[Gone(2) + m]]
  /\ \A c \in cli.plan[1].any : c.op = "update_part" /\ c.id \in DOMAIN cli.read /\ cli.read[c.id].kind = "interface"
  /\ DOMAIN cli.plan = 1..4 /\ \A c \in ToSet(cli.plan[1].calls) : c.op = "find_interface"
  /\ \A c \in Flight \cup cli.plan[2].any : c.op = "delete_part" => CallField(c) # "disks"
  /\ \A h \in HostNamed(cli.host) :
       /\ \A c \in Fixing(h) : Gone(2) > 0 /\ Fixes(h, c, TheLists[2].entries[Gone(2)])
       /\ \A m \in 1..Gone(2) : \/ Have(h, TheLists[2].entries[m])
                                \/ m = Gone(2) /\ \E c \in Fixing(h) : Fixes(h, c, TheLists[2].entries[m])

(* Every call is planned in the chapter of its list.                       *)
Sorted ==
  /\ DOMAIN TheLists \subseteq DOMAIN cli.plan
  /\ cli.at = "done" => \A i \in DOMAIN cli.plan : cli.plan[i] = Through
  /\ \A i \in DOMAIN cli.plan : \A c \in CallsOf(cli.plan[i]) :
       c.op \in Parting => i \in DOMAIN TheLists /\ CallField(c) = TheLists[i].field
  /\ \A c \in Planned \cup Flight : c.op = "delete_part" => c.id \in DOMAIN cli.read

(* The row that the handler of the command's call holds.                   *)
Held ==
  req[Cli].at = "read" =>
    /\ req[Cli].call.op = "delete_interface" =>
         \A h \in HostNamed(cli.host) : req[Cli].seen \in Interfaces(h, req[Cli].call.name)
    /\ req[Cli].call.op = "create_part" => req[Cli].seen \in HostNamed(cli.host)
    /\ req[Cli].call.op = "update_part" =>
         \E h \in HostNamed(cli.host) :
           req[Cli].seen \in PartsOf(h) /\ req[Cli].held = parts[req[Cli].seen].part

Written ==
  Doing => /\ Sorted /\ Held
           /\ \A i \in DOMAIN TheLists : Replaces(i) => Replacing(i)
           /\ cli.cmd = "lshw2meta" => Counting

(***************************************************************************)
(* Steps that leave a list alone.                                          *)
(***************************************************************************)
FieldSame(f) ==
  /\ HostNamed(cli.host)' = HostNamed(cli.host)
  /\ \A h \in HostNamed(cli.host) : /\ FieldOf(h, f)' = FieldOf(h, f)
                                    /\ \A p \in FieldOf(h, f) : parts'[p].part = parts[p].part
RowsSame ==
  /\ HostNamed(cli.host)' = HostNamed(cli.host)
  /\ \A h \in HostNamed(cli.host) : /\ PartsOf(h)' = PartsOf(h)
                                    /\ \A p \in PartsOf(h) : parts'[p].part = parts[p].part

LEMMA RowsFields ==
  ASSUME RowsSame
  PROVE  \A f : FieldSame(f)
<1> SUFFICES ASSUME NEW f
             PROVE  FieldSame(f)
  OBVIOUS
<1>1. ASSUME NEW h \in HostNamed(cli.host)
      PROVE  FieldOf(h, f)' = FieldOf(h, f) /\ \A p \in FieldOf(h, f) : parts'[p].part = parts[p].part
  BY DEF RowsSame, FieldOf
<1> QED
  BY <1>1 DEF RowsSame, FieldSame

LEMMA TablesSame ==
  ASSUME UNCHANGED <<hosts, parts>>, CliLike
  PROVE  RowsSame
  BY DEF RowsSame, HostNamed, PartsOf, CliLike

LEMMA FieldsKept ==
  ASSUME CliLike
  PROVE  (\A c : CallField(c)' = CallField(c)) /\ TheLists' = TheLists /\ (\A i : DropOp(i)' = DropOp(i))
         /\ (\A i : Replaces(i)' <=> Replaces(i))
<1>1. TheLists' = TheLists
  BY DEF CliLike, TheLists
<1>2. \A c : CallField(c)' = CallField(c)
  BY DEF CliLike, CallField
<1> QED
  BY <1>1, <1>2 DEF DropOp, Replaces, CliLike

LEMMA MineKept ==
  ASSUME CliLike
  PROVE  /\ Flight' = Flight => \A i : Mine(i)' = Mine(i)
         /\ \A c, i : (Flight = {c} /\ (c.op \in Parting => CallField(c) # TheLists[i].field)) => Mine(i) = {}
         /\ \A c, i : (Flight' = {c} /\ (c.op \in Parting => CallField(c) # TheLists[i].field)) => Mine(i)' = {}
         /\ \A i : Flight = {} => Mine(i) = {}
         /\ \A i : Flight' = {} => Mine(i)' = {}
<1>1. /\ (\A c : CallField(c)' = CallField(c)) /\ TheLists' = TheLists
  BY FieldsKept
<1>2. \A i : Mine(i)' = {c \in Flight' : c.op \in Parting /\ CallField(c) = TheLists[i].field}
  BY <1>1 DEF Mine
<1> QED
  BY <1>2 DEF Mine

LEMMA ReplacingKept ==
  ASSUME CliLike, NEW i, cli'.plan[i] = cli.plan[i], Mine(i)' = Mine(i),
         NEW f, f = TheLists[i].field, FieldSame(f), Replacing(i)
  PROVE  Replacing(i)'
<1>1. TheLists' = TheLists /\ DropOp(i)' = DropOp(i) /\ cli'.host = cli.host
  BY FieldsKept DEF CliLike
<1>2. Gone(i)' = Gone(i) /\ Left(i)' = Left(i) /\ Made(i)' = Made(i)
  BY <1>1 DEF Gone, Left, Made
<1>3. ASSUME Cleared(i)
      PROVE  Cleared(i)'
  <2> SUFFICES ASSUME NEW h \in HostNamed(cli.host)
               PROVE  IF f = "interfaces"
                        THEN \A name \in Names : Cardinality(Interfaces(h, name)') = Cardinality({c \in Left(i) : c.name = name})
                        ELSE FieldOf(h, f)' = {c.id : c \in Left(i)}
    BY <1>1, <1>2 DEF Cleared, FieldSame
  <2>1. FieldOf(h, f)' = FieldOf(h, f) /\ \A p \in FieldOf(h, f) : parts'[p].part = parts[p].part
    BY DEF FieldSame
  <2>2. f = "interfaces" => \A name : Interfaces(h, name)' = Interfaces(h, name)
    BY <2>1 DEF Interfaces
  <2> QED
    BY <1>3, <2>1, <2>2 DEF Cleared
<1>4. ASSUME Filled(i)
      PROVE  Filled(i)'
  <2> SUFFICES ASSUME NEW h \in HostNamed(cli.host), NEW p \in Part
               PROVE  Count(h, f, p)' = Among(TheLists[i].entries, Made(i), p)
    BY <1>1, <1>2 DEF Filled, FieldSame
  <2>1. {x \in FieldOf(h, f) : parts[x].part = p}' = {x \in FieldOf(h, f) : parts[x].part = p}
    BY DEF FieldSame
  <2>2. Count(h, f, p)' = Count(h, f, p)
    BY <2>1 DEF Count
  <2> QED
    BY <1>4, <2>2 DEF Filled
<1> QED
  BY <1>1, <1>2, <1>3, <1>4 DEF Replacing

LEMMA SortedKept ==
  ASSUME CliLike, cli'.plan = cli.plan, cli'.at = cli.at, Flight' \subseteq Flight, Sorted
  PROVE  Sorted'
<1>1. /\ TheLists' = TheLists /\ \A c : CallField(c)' = CallField(c)
  BY FieldsKept
<1>2. Planned' = Planned
  BY DEF Planned
<1> QED
  BY <1>1, <1>2 DEF Sorted, CliLike

LEMMA FixesKept ==
  ASSUME CliLike, FieldSame("disks")
  PROVE  /\ HostNamed(cli.host)' = HostNamed(cli.host)
         /\ \A h \in HostNamed(cli.host) : \A c :
              (DiskCall(h, c)' <=> DiskCall(h, c)) /\ \A p : Fixes(h, c, p)' <=> Fixes(h, c, p)
         /\ \A h \in HostNamed(cli.host) : \A p : Have(h, p)' <=> Have(h, p)
<1>1. /\ HostNamed(cli.host)' = HostNamed(cli.host) /\ cli'.host = cli.host
      /\ \A h \in HostNamed(cli.host) : /\ FieldOf(h, "disks")' = FieldOf(h, "disks")
                                        /\ \A p \in FieldOf(h, "disks") : parts'[p].part = parts[p].part
  BY DEF FieldSame, CliLike
<1> QED
  BY <1>1 DEF DiskCall, Fixes, Have

LEMMA CountingStays ==
  ASSUME CliLike, FieldSame("disks"), cli'.plan[2].calls = cli.plan[2].calls,
         \A c \in cli'.plan[1].any : c.op = "update_part" /\ c.id \in DOMAIN cli.read /\ cli.read[c.id].kind = "interface",
         DOMAIN cli'.plan = DOMAIN cli.plan, ToSet(cli'.plan[1].calls) \subseteq ToSet(cli.plan[1].calls),
         \A c \in Flight' \cup cli'.plan[2].any : c.op = "delete_part" => CallField(c) # "disks",
         \A h \in HostNamed(cli.host) : Fixing(h)' = Fixing(h),
         Counting
  PROVE  Counting'
<1>1. TheLists' = TheLists /\ Gone(2)' = Gone(2) /\ cli'.read = cli.read
  BY FieldsKept DEF Gone, CliLike
<1>2. /\ HostNamed(cli.host)' = HostNamed(cli.host)
      /\ \A h \in HostNamed(cli.host) : \A c :
           (DiskCall(h, c)' <=> DiskCall(h, c)) /\ \A p : Fixes(h, c, p)' <=> Fixes(h, c, p)
      /\ \A h \in HostNamed(cli.host) : \A p : Have(h, p)' <=> Have(h, p)
  BY FixesKept
<1>4. ASSUME NEW h \in HostNamed(cli.host)
      PROVE  /\ \A c \in Fixing(h)' : Gone(2) > 0 /\ Fixes(h, c, TheLists[2].entries[Gone(2)])'
             /\ \A m \in 1..Gone(2) : \/ Have(h, TheLists[2].entries[m])'
                                      \/ m = Gone(2) /\ \E c \in Fixing(h)' : Fixes(h, c, TheLists[2].entries[m])'
  <2>1. /\ \A c \in Fixing(h) : Gone(2) > 0 /\ Fixes(h, c, TheLists[2].entries[Gone(2)])
        /\ \A m \in 1..Gone(2) : \/ Have(h, TheLists[2].entries[m])
                                 \/ m = Gone(2) /\ \E c \in Fixing(h) : Fixes(h, c, TheLists[2].entries[m])
    BY DEF Counting
  <2>2. \A m, p : p = TheLists[2].entries[m] => (Have(h, TheLists[2].entries[m])' <=> Have(h, p)')
    BY <1>1 DEF Have
  <2>3. \A m, p, c : p = TheLists[2].entries[m] => (Fixes(h, c, TheLists[2].entries[m])' <=> Fixes(h, c, p)')
    BY <1>1 DEF Fixes
  <2>5. PICK p : p = TheLists[2].entries[Gone(2)]
    OBVIOUS
  <2>6. \A c : Fixes(h, c, TheLists[2].entries[Gone(2)])' <=> Fixes(h, c, p)'
    <3>1. (TheLists[2].entries[Gone(2)])' = p
      BY <1>1, <2>5
    <3> QED
      BY <3>1 DEF Fixes
  <2>4. \A c : Fixes(h, c, TheLists[2].entries[Gone(2)])' <=> Fixes(h, c, TheLists[2].entries[Gone(2)])
    BY <1>2, <2>5, <2>6
  <2> QED
    BY <1>2, <2>1, <2>2, <2>3, <2>4
<1>6. /\ DOMAIN cli'.plan = 1..4 /\ \A c \in ToSet(cli'.plan[1].calls) : c.op = "find_interface"
      /\ \A c \in Flight' \cup cli'.plan[2].any : c.op = "delete_part" => CallField(c)' # "disks"
  BY FieldsKept DEF Counting
<1>5. /\ Gone(2)' \in Nat
      /\ \A m \in DOMAIN cli'.plan[2].calls :
           cli'.plan[2].calls[m] = [op |-> "find_disk", part |-> TheLists[2].entries[Gone(2) + m]]
      /\ \A c \in cli'.plan[1].any : c.op = "update_part" /\ c.id \in DOMAIN cli'.read /\ cli'.read[c.id].kind = "interface"
  BY <1>1 DEF Counting
<1> QED
  BY <1>1, <1>2, <1>4, <1>5, <1>6 DEF Counting

LEMMA CountingKept ==
  ASSUME CliLike, FieldSame("disks"), cli'.plan[2] = cli.plan[2], cli'.plan[1].any \subseteq cli.plan[1].any,
         DOMAIN cli'.plan = DOMAIN cli.plan, ToSet(cli'.plan[1].calls) \subseteq ToSet(cli.plan[1].calls),
         \A c \in Flight' : c.op = "delete_part" => CallField(c) # "disks",
         \A h \in HostNamed(cli.host) : {c \in Flight' : DiskCall(h, c)} = {c \in Flight : DiskCall(h, c)},
         Counting
  PROVE  Counting'
<1>1. \A h \in HostNamed(cli.host) : Fixing(h)' = Fixing(h)
  BY FixesKept DEF Fixing
<1>2. \A c \in Flight' \cup cli'.plan[2].any : c.op = "delete_part" => CallField(c) # "disks"
  BY DEF Counting
<1>3. \A c \in cli'.plan[1].any : c.op = "update_part" /\ c.id \in DOMAIN cli.read /\ cli.read[c.id].kind = "interface"
  BY DEF Counting
<1> QED
  BY <1>1, <1>2, <1>3, CountingStays

(* A write of somebody else that does not make the command doubt.          *)
LEMMA Foreign ==
  ASSUME Basic, NEW r \in Slots, r # Cli, Writing(r), cli' = cli, ~cli.doubt, cli.at # "idle"
  PROVE  RowsSame
<1>1. /\ \A n : Disturb(n) \/ Disturbed(r, n) => cli.host # n
      /\ \A n, id : Rename(n, id) => cli.host \notin n
  BY DEF Disturb, Disturbed, Rename, Basic, CliType
<1>2. CliLike
  BY DEF CliLike
<1>3. /\ env.row \notin DOMAIN hosts /\ env.row \notin DOMAIN parts
      /\ \A p \in DOMAIN parts : parts[p].host \in DOMAIN hosts
  BY DEF Basic, Tables, Ids
<1>4. CASE UNCHANGED <<hosts, parts>>
  BY <1>2, <1>4, TablesSame
<1>5. CASE InsertPart(r)
  <2> DEFINE row == [host |-> req[r].seen, part |-> req[r].call.part]
  <2>1. /\ UNCHANGED hosts
        /\ \/ UNCHANGED parts
           \/ req[r].seen \in DOMAIN hosts /\ parts' = Insert(parts, row) /\ Disturbed(r, hosts[req[r].seen].name)
    BY <1>5 DEF InsertPart
  <2>2. CASE req[r].seen \in DOMAIN hosts /\ parts' = Insert(parts, row) /\ Disturbed(r, hosts[req[r].seen].name)
    <3>1. hosts[req[r].seen].name # cli.host
      BY <1>1, <2>2
    <3>2. row.host = req[r].seen
      OBVIOUS
    <3> HIDE DEF row
    <3>3. /\ DOMAIN parts' = DOMAIN parts \cup {env.row} /\ parts'[env.row] = row
          /\ \A p \in DOMAIN parts : parts'[p] = parts[p]
      BY <1>3, <2>2 DEF Insert
    <3> QED
      BY <2>1, <3>1, <3>2, <3>3 DEF RowsSame, HostNamed, PartsOf
  <2> QED
    BY <1>4, <2>1, <2>2
<1>6. CASE ErasePart(r)
  <2> DEFINE p == req[r].seen
             n == IF p \in DOMAIN parts THEN hosts[parts[p].host].name ELSE None
  <2>1. /\ UNCHANGED hosts
        /\ \/ UNCHANGED parts
           \/ parts' = Restrict(parts, DOMAIN parts \ {p}) /\ Disturbed(r, n)
    BY <1>6 DEF ErasePart
  <2>2. CASE parts' = Restrict(parts, DOMAIN parts \ {p}) /\ Disturbed(r, n)
    <3>1. p \in DOMAIN parts => hosts[parts[p].host].name # cli.host
      BY <1>1, <2>2
    <3>2. /\ DOMAIN parts' = DOMAIN parts \ {p} /\ \A x \in DOMAIN parts' : parts'[x] = parts[x]
      BY <2>2 DEF Restrict
    <3> HIDE DEF p, n
    <3> QED
      BY <2>1, <3>1, <3>2 DEF RowsSame, HostNamed, PartsOf
  <2> QED
    BY <1>4, <2>1, <2>2
<1>7. CASE StorePart(r)
  <2> DEFINE p == req[r].seen
  <2>1. UNCHANGED hosts
    BY <1>7 DEF StorePart
  <2>2. CASE ~UNCHANGED parts
    <3>1. /\ p \in DOMAIN parts /\ DOMAIN parts' = DOMAIN parts
          /\ \A x \in DOMAIN parts : x # p => parts'[x] = parts[x]
          /\ parts'[p].host = parts[p].host
          /\ Disturbed(r, hosts[parts[p].host].name) \/ Rename({hosts[parts[p].host].name}, p)
      BY <1>7, <2>2, PartStored, SMTT(40) DEF Basic
    <3>2. hosts[parts[p].host].name # cli.host
      BY <1>1, <3>1
    <3> HIDE DEF p
    <3> QED
      BY <2>1, <3>1, <3>2 DEF RowsSame, HostNamed, PartsOf
  <2> QED
    BY <1>4, <2>1, <2>2
<1>8. CASE InsertHost(r)
  <2> DEFINE row == [name |-> req[r].call.host, cloud |-> req[r].call.home, home |-> req[r].call.home]
  <2>1. /\ UNCHANGED parts
        /\ \/ UNCHANGED hosts
           \/ hosts' = Insert(hosts, row) /\ Disturbed(r, req[r].call.host)
    BY <1>8 DEF InsertHost
  <2>2. CASE hosts' = Insert(hosts, row) /\ Disturbed(r, req[r].call.host)
    <3>1. row.name # cli.host
      BY <1>1, <2>2
    <3> HIDE DEF row
    <3>2. /\ DOMAIN hosts' = DOMAIN hosts \cup {env.row} /\ hosts'[env.row] = row
          /\ \A h \in DOMAIN hosts : hosts'[h] = hosts[h]
      BY <1>3, <2>2 DEF Insert
    <3> QED
      BY <2>1, <3>1, <3>2 DEF RowsSame, HostNamed, PartsOf
  <2> QED
    BY <1>4, <2>1, <2>2
<1>9. CASE RemoveHost(r)
  <2>1. PICK h \in First(HostNamed(req[r].call.host)) :
          \/ UNCHANGED <<hosts, parts>>
          \/ /\ h # None /\ hosts' = Restrict(hosts, DOMAIN hosts \ {h}) /\ parts' = Cascade(h)
             /\ Disturbed(r, req[r].call.host)
    BY <1>9 DEF RemoveHost
  <2>2. CASE /\ h # None /\ hosts' = Restrict(hosts, DOMAIN hosts \ {h}) /\ parts' = Cascade(h)
             /\ Disturbed(r, req[r].call.host)
    <3>1. hosts[h].name # cli.host
      BY <1>1, <2>1, <2>2 DEF First, HostNamed
    <3>2. /\ DOMAIN hosts' = DOMAIN hosts \ {h} /\ \A x \in DOMAIN hosts' : hosts'[x] = hosts[x]
          /\ DOMAIN parts' = DOMAIN parts \ PartsOf(h) /\ \A x \in DOMAIN parts' : parts'[x] = parts[x]
      BY <2>2 DEF Restrict, Cascade
    <3> QED
      BY <3>1, <3>2 DEF RowsSame, HostNamed, PartsOf
  <2> QED
    BY <1>4, <2>1, <2>2
<1>10. CASE StoreHost(r)
  <2> DEFINE h == req[r].seen
             m == hosts'[h].name
  <2>1. UNCHANGED parts
    BY <1>10 DEF StoreHost
  <2>2. CASE ~UNCHANGED hosts
    <3>1. /\ h \in DOMAIN hosts /\ DOMAIN hosts' = DOMAIN hosts
          /\ \A x \in DOMAIN hosts : x # h => hosts'[x] = hosts[x]
          /\ m = hosts[h].name \/ Rename({hosts[h].name, m}, h)
      BY <1>10, <2>2, HostStored, ZenonT(40) DEF Basic
    <3>2. m = hosts[h].name \/ cli.host \notin {hosts[h].name, m}
      BY <1>1, <3>1
    <3> HIDE DEF h
    <3> QED
      BY <2>1, <3>1, <3>2 DEF RowsSame, HostNamed, PartsOf
  <2> QED
    BY <1>4, <2>1, <2>2
<1>11. CASE InsertCloud(r) \/ RemoveCloud(r) \/ Assign(r)
  <2>1. UNCHANGED <<hosts, parts>>
    BY <1>11 DEF InsertCloud, RemoveCloud, Assign
  <2> QED
    BY <1>4, <2>1
<1> QED
  BY <1>5, <1>6, <1>7, <1>8, <1>9, <1>10, <1>11 DEF Writing

(* Nothing that a list is about changes.                                   *)
LEMMA WrittenKept ==
  ASSUME Basic, Doing, CliLike, cli'.plan = cli.plan, cli'.at = cli.at, RowsSame,
         \/ Flight' = Flight
         \/ Flight' = {} /\ \A c \in Flight : c.op \notin Parting \cup {"update_part"},
         Sorted, Held', \A i \in DOMAIN TheLists : Replaces(i) => Replacing(i),
         cli.cmd = "lshw2meta" => Counting
  PROVE  Written'
<1>1. Sorted'
  BY SortedKept
<1>2. \A i : Mine(i)' = Mine(i)
  <2>1. CASE Flight' = Flight
    BY <2>1, MineKept
  <2>2. CASE Flight' = {} /\ \A c \in Flight : c.op \notin Parting
    BY <2>2, MineKept DEF Mine
  <2> QED
    BY <2>1, <2>2
<1>3. ASSUME NEW i \in DOMAIN TheLists, Replaces(i)
      PROVE  Replacing(i)'
  <2>1. PICK f : f = TheLists[i].field
    OBVIOUS
  <2>2. FieldSame(f) /\ Replacing(i)
    BY <1>3, RowsFields
  <2> QED
    BY <1>2, <2>1, <2>2, ReplacingKept
<1>4. ASSUME cli.cmd = "lshw2meta"
      PROVE  Counting'
  <2>1. FieldSame("disks")
    BY RowsFields
  <2>2. ASSUME NEW h
        PROVE  {c \in Flight' : DiskCall(h, c)} = {c \in Flight : DiskCall(h, c)}
    BY DEF DiskCall, Parting
  <2>3. Flight' \subseteq Flight
    OBVIOUS
  <2>4. \A c \in Flight' : c.op = "delete_part" => CallField(c) # "disks"
    BY <1>4, <2>3 DEF Counting
  <2> QED
    BY <1>4, <2>1, <2>2, <2>4, CountingKept
<1>5. TheLists' = TheLists /\ (\A i : Replaces(i)' <=> Replaces(i)) /\ cli'.cmd = cli.cmd
  BY FieldsKept DEF CliLike
<1> QED
  BY <1>1, <1>3, <1>4, <1>5 DEF Written

LEMMA OneHost ==
  ASSUME NoTwins, Doing
  PROVE  \A h, g \in HostNamed(cli.host) : h = g
  BY DEF NoTwins, Doing, HostNamed

LEMMA DoingBefore ==
  ASSUME CliLike, cli'.at = cli.at, crossed \subseteq crossed', ~cli'.doubt => ~cli.doubt, Doing',
         req[Cli].at \notin {"refused", "error"}
  PROVE  Doing
  BY DEF Doing, CliLike

LEMMA HeldKept ==
  ASSUME Held, CliLike, RowsSame, req'[Cli].at = "read" => Same(Cli)
  PROVE  Held'
<1> SUFFICES ASSUME req'[Cli].at = "read"
             PROVE  Held'
  BY DEF Held
<1>1. /\ req[Cli].at = "read" /\ req'[Cli].call = req[Cli].call
      /\ req'[Cli].seen = req[Cli].seen /\ req'[Cli].held = req[Cli].held
  BY DEF Same
<1>2. /\ HostNamed(cli.host)' = HostNamed(cli.host) /\ cli'.host = cli.host
      /\ \A h \in HostNamed(cli.host) : /\ PartsOf(h)' = PartsOf(h)
                                        /\ \A p \in PartsOf(h) : parts'[p].part = parts[p].part
  BY DEF RowsSame, CliLike
<1>3. \A h \in HostNamed(cli.host) : \A name : Interfaces(h, name)' = Interfaces(h, name)
  <2>1. FieldSame("interfaces")
    BY RowsFields
  <2> QED
    BY <2>1 DEF FieldSame, Interfaces
<1> QED
  BY <1>1, <1>2, <1>3 DEF Held

(* Somebody else's request.                                                *)
LEMMA OthersWritten ==
  ASSUME Basic, InventoryConstants, Written, NEW r \in Slots, r # Cli, Handle(r)
  PROVE  Written'
<1> SUFFICES ASSUME Doing'
             PROVE  Written'
  BY DEF Written
<1>0. Cli \in Slots
  BY Slotted
<1>1. CASE Reading(r)
  <2>1. UNCHANGED <<rows, cli, crossed>> /\ req'[Cli] = req[Cli]
    BY <1>0, <1>1, ReadingBasic, ReadingReplies DEF Basic
  <2>2. CliLike /\ Doing /\ UNCHANGED <<hosts, parts>>
    BY <2>1, DoingBefore DEF CliLike, rows, Doing
  <2>3. RowsSame
    BY <2>2, TablesSame
  <2>4. Held'
    BY <2>1, <2>2, <2>3, HeldKept DEF Written, Same
  <2>5. Flight' = Flight
    BY <2>1 DEF Flight, Busy
  <2> QED
    BY <2>1, <2>2, <2>3, <2>4, <2>5, WrittenKept DEF Written
<1>2. CASE Writing(r)
  <2>1. Doubtful /\ crossed \subseteq crossed' /\ Same(Cli)
    BY <1>0, <1>2, WritingFrame, WritingReplies DEF Basic
  <2>2. cli' = cli
    BY <2>1 DEF Doubtful, Doing, Basic, CliType
  <2>3. CliLike /\ Doing
    <3>1. CliLike
      BY <2>2 DEF CliLike
    <3>2. req[Cli].at \notin {"refused", "error"}
      BY <2>1 DEF Doing, Same
    <3> QED
      BY <2>1, <2>2, <3>1, <3>2, DoingBefore
  <2>4. RowsSame
    BY <1>2, <2>2, <2>3, Foreign DEF Doing
  <2>5. Held'
    BY <2>1, <2>3, <2>4, HeldKept DEF Written
  <2>6. Flight' = Flight
    BY <2>1 DEF Flight, Busy, Same
  <2> QED
    BY <2>2, <2>3, <2>4, <2>5, <2>6, WrittenKept DEF Written
<1> QED
  BY <1>1, <1>2, HandlerKinds

(* The command's own request, until it writes.                             *)
LEMMA OwnRead ==
  ASSUME Basic, NoTwins, InventoryConstants, Written, Owned, Reading(Cli)
  PROVE  Written'
<1> SUFFICES ASSUME Doing'
             PROVE  Written'
  BY DEF Written
<1>0. Cli \in Slots /\ UNCHANGED <<rows, cli, crossed>> /\ req[Cli].at = "asked" /\ UNCHANGED <<hosts, parts>>
  BY Slotted, ReadingBasic, ReadingReplies DEF Basic, rows
<1>1. CliLike /\ Doing /\ RowsSame
  <2>1. CliLike
    BY <1>0 DEF CliLike
  <2> QED
    BY <1>0, <2>1, DoingBefore, TablesSame
<1>2. PICK c \in Calls : c = req[Cli].call /\ Own(c) /\ Flight = {c}
  BY <1>0 DEF Basic, Requests, Busy, Owned, Flight
<1>3. CASE req'[Cli].at = "read" /\ req'[Cli].call = req[Cli].call
  <2>1. Flight' = Flight
    BY <1>0, <1>3 DEF Flight, Busy
  <2>2. ASSUME NEW row, NEW accepted, Checked(Cli, row, accepted)
        PROVE  accepted /\ req'[Cli].seen = row
    <3>1. accepted
      BY <1>0, <1>3, <2>2 DEF Checked, Answer, Answered, Idle, Basic, Requests
    <3>2. req'[Cli] = [req[Cli] EXCEPT !.at = "read", !.seen = row] /\ req[Cli] \in Request
      BY <1>0, <2>2, <3>1 DEF Checked, Basic, Requests
    <3> QED
      BY <3>1, <3>2 DEF Request
  <2>3. ASSUME c.op = "delete_interface", NEW h \in HostNamed(cli.host)
        PROVE  req'[Cli].seen \in Interfaces(h, c.name)
    <3>1. DeleteInterface(Cli)
      BY <1>0, <1>2, <2>3 DEF Reading, CreatePart, UpdatePart, DeletePart, CreateHost, DeleteHost, UpdateHost,
                        CreateCloud, FindCloud, DeleteCloud, Asked
    <3>2. PICK g \in First(HostNamed(c.host)) :
            \E p \in First({x \in FieldOf(g, "interfaces") : parts[x].part.name = c.name}) :
              Checked(Cli, p, g # None /\ p # None)
      BY <1>2, <3>1 DEF DeleteInterface
    <3>3. PICK p \in First({x \in FieldOf(g, "interfaces") : parts[x].part.name = c.name}) :
            Checked(Cli, p, g # None /\ p # None)
      BY <3>2
    <3>4. g # None /\ p # None /\ req'[Cli].seen = p
      BY <2>2, <3>3
    <3>5. g \in HostNamed(cli.host) /\ p \in FieldOf(g, "interfaces") /\ parts[p].part.name = c.name
      BY <1>2, <2>3, <3>2, <3>3, <3>4 DEF First, Own
    <3>6. g = h
      BY <1>1, <2>3, <3>5, OneHost
    <3> QED
      BY <3>4, <3>5, <3>6 DEF Interfaces
  <2>4. ASSUME c.op = "create_part"
        PROVE  req'[Cli].seen \in HostNamed(cli.host)
    <3>1. CreatePart(Cli)
      BY <1>0, <1>2, <2>4 DEF Reading, DeleteInterface, UpdatePart, DeletePart, CreateHost, DeleteHost, UpdateHost,
                        CreateCloud, FindCloud, DeleteCloud, Asked
    <3>2. PICK g \in First(HostNamed(c.host)) : Checked(Cli, g, g # None /\ Accepts(g, c.part))
      BY <1>2, <3>1 DEF CreatePart
    <3>3. g # None /\ req'[Cli].seen = g
      BY <2>2, <3>2
    <3> QED
      BY <1>2, <2>4, <3>2, <3>3 DEF First, Own
  <2>5. ASSUME c.op = "update_part"
        PROVE  /\ req'[Cli].seen = c.id /\ req'[Cli].held = parts[c.id].part
               /\ \E h \in HostNamed(cli.host) : c.id \in PartsOf(h)
    <3>1. UpdatePart(Cli)
      BY <1>0, <1>2, <2>5 DEF Reading, CreatePart, DeleteInterface, DeletePart, CreateHost, DeleteHost, UpdateHost,
                        CreateCloud, FindCloud, DeleteCloud, Asked
    <3>2. c.id \in DOMAIN parts /\ req'[Cli].seen = c.id /\ req'[Cli].held = parts[c.id].part
      BY <1>0, <1>2, <1>3, <3>1, HeldRow DEF Basic
    <3>3. Near(c.id) /\ cli.renamed = {} /\ parts[c.id].host \in DOMAIN hosts
      BY <1>1, <1>2, <2>5, <3>2 DEF Own, May, Doing, Basic, CliType, Tables
    <3> QED
      BY <3>2, <3>3 DEF Near, HostNamed, PartsOf
  <2>6. Held'
    <3>1. /\ HostNamed(cli.host)' = HostNamed(cli.host)
          /\ \A h : PartsOf(h)' = PartsOf(h) /\ Interfaces(h, c.name)' = Interfaces(h, c.name)
      BY <1>0 DEF HostNamed, PartsOf, Interfaces, FieldOf
    <3> QED
      BY <1>0, <1>2, <1>3, <2>3, <2>4, <2>5, <3>1 DEF Held
  <2> QED
    BY <1>0, <1>1, <2>1, <2>6, WrittenKept DEF Written
<1>4. CASE Replied(Cli)
  <2>1. PICK a \in {"ok", "refused", "error"} : req'[Cli] = Answered(Cli, a)
    BY <1>4 DEF Replied
  <2>2. a = "ok" /\ req'[Cli].at = "ok" /\ Flight' = {}
    BY <2>1 DEF Answered, Idle, Doing, Flight, Busy
  <2>3. FindCloud(Cli)
    <3>1. \A row, accepted : ~Checked(Cli, row, accepted)
      <4> SUFFICES ASSUME NEW row, NEW accepted, Checked(Cli, row, accepted)
                   PROVE  FALSE
        OBVIOUS
      <4>1. CASE accepted
        <5>1. req'[Cli] = [req[Cli] EXCEPT !.at = "read", !.seen = row] /\ req[Cli] \in Request
          BY <1>0, <4>1 DEF Checked, Basic, Requests
        <5>2. req'[Cli].at = "read"
          BY <5>1 DEF Request
        <5> QED
          BY <2>2, <5>2
      <4>2. CASE ~accepted
        BY <1>0, <2>2, <4>2 DEF Checked, Answer, Answered, Idle, Basic, Requests
      <4> QED
        BY <4>1, <4>2
    <3>2. \A id, row, accepted : ~Holds(Cli, id, row, accepted)
      <4> SUFFICES ASSUME NEW id, NEW row, NEW accepted, Holds(Cli, id, row, accepted)
                   PROVE  FALSE
        OBVIOUS
      <4>1. CASE accepted
        <5>1. req'[Cli] = [req[Cli] EXCEPT !.at = "read", !.seen = id, !.held = row] /\ req[Cli] \in Request
          BY <1>0, <4>1 DEF Holds, Basic, Requests
        <5>2. req'[Cli].at = "read"
          BY <5>1 DEF Request
        <5> QED
          BY <2>2, <5>2
      <4>2. CASE ~accepted
        BY <1>0, <2>2, <4>2 DEF Holds, Answer, Answered, Idle, Basic, Requests
      <4> QED
        BY <4>1, <4>2
    <3>3. ~Answer(Cli, "refused")
      BY <1>0, <2>2 DEF Answer, Answered, Idle, Basic, Requests
    <3>4. ~UpdatePart(Cli) /\ ~UpdateHost(Cli)
      <4>1. ~UpdatePart(Cli)
        BY <3>2, <3>3 DEF UpdatePart
      <4>2. ~UpdateHost(Cli)
        BY <3>2, <3>3 DEF UpdateHost
      <4> QED
        BY <4>1, <4>2
    <3> QED
      BY <3>1, <3>4 DEF Reading, CreatePart, DeleteInterface, DeletePart, CreateHost, DeleteHost, CreateCloud, DeleteCloud
  <2>4. c.op \notin Parting \cup {"update_part"}
    BY <1>2, <2>3 DEF FindCloud, Asked, Parting, Finding
  <2>5. Held'
    BY <2>2 DEF Held
  <2> QED
    BY <1>0, <1>1, <1>2, <2>2, <2>4, <2>5, WrittenKept DEF Written
<1> QED
  BY <1>0, <1>3, <1>4, ReadingReplies DEF Basic

(* The command's own write: one field of its host changes.                 *)
LEMMA LoneWritten ==
  ASSUME Basic, Doing, CliLike, cli'.plan = cli.plan, cli'.at = cli.at, Written,
         req'[Cli].at \notin {"asked", "read"}, NEW c, Flight = {c}, NEW g,
         c.op \in Parting => CallField(c) = g,
         \A f : f # g => FieldSame(f),
         \A i \in DOMAIN TheLists : Replaces(i) /\ TheLists[i].field = g => Replacing(i)',
         cli.cmd = "lshw2meta" => Counting'
  PROVE  Written'
<1>1. Flight' = {}
  BY DEF Flight, Busy
<1>2. Sorted' /\ Held'
  BY <1>1, SortedKept DEF Written, Held
<1>3. ASSUME NEW i \in DOMAIN TheLists, Replaces(i), TheLists[i].field # g
      PROVE  Replacing(i)'
  <2>1. PICK f : f = TheLists[i].field /\ f # g
    BY <1>3
  <2>2. Mine(i) = {} /\ Mine(i)' = {}
    BY <1>1, <2>1, MineKept
  <2>3. FieldSame(f) /\ Replacing(i)
    BY <1>3, <2>1 DEF Written
  <2> QED
    BY <2>1, <2>2, <2>3, ReplacingKept
<1>4. TheLists' = TheLists /\ (\A i : Replaces(i)' <=> Replaces(i)) /\ cli'.cmd = cli.cmd
  BY FieldsKept DEF CliLike
<1> QED
  BY <1>2, <1>3, <1>4 DEF Written

(* A row more.                                                             *)
LEMMA Grown ==
  ASSUME Basic, CliLike, UNCHANGED hosts, NEW row, parts' = Insert(parts, row),
         NEW h \in HostNamed(cli.host), row.host = h, \A k \in HostNamed(cli.host) : k = h,
         NEW g, g = Field(row.part.kind)
  PROVE  /\ HostNamed(cli.host)' = HostNamed(cli.host)
         /\ \A f : f # g => FieldSame(f)
         /\ FieldOf(h, g)' = FieldOf(h, g) \cup {env.row}
         /\ env.row \notin FieldOf(h, g) /\ parts'[env.row] = row
         /\ \A p \in FieldOf(h, g) : parts'[p] = parts[p]
         /\ IsFiniteSet(FieldOf(h, g))
<1>1. /\ env.row \notin DOMAIN parts /\ IsFiniteSet(DOMAIN parts)
  BY DEF Basic, Tables, Ids
<1>2. /\ DOMAIN parts' = DOMAIN parts \cup {env.row} /\ parts'[env.row] = row
      /\ \A p \in DOMAIN parts : parts'[p] = parts[p]
  BY <1>1 DEF Insert
<1>3. HostNamed(cli.host)' = HostNamed(cli.host)
  BY DEF HostNamed, CliLike
<1>4. PartsOf(h)' = PartsOf(h) \cup {env.row}
  BY <1>2 DEF PartsOf
<1>5. \A f : FieldOf(h, f)' = IF f = g THEN FieldOf(h, f) \cup {env.row} ELSE FieldOf(h, f)
  BY <1>1, <1>2, <1>4 DEF FieldOf, PartsOf
<1>6. \A f : FieldOf(h, f) \subseteq DOMAIN parts
  BY DEF FieldOf, PartsOf
<1>7. \A f : f # g => FieldSame(f)
  BY <1>2, <1>3, <1>5, <1>6 DEF FieldSame
<1>8. IsFiniteSet(FieldOf(h, g))
  BY <1>1, <1>6, FS_Subset
<1> QED
  BY <1>1, <1>2, <1>3, <1>5, <1>6, <1>7, <1>8

(* One more of what is counted.                                            *)
LEMMA CountMore ==
  ASSUME NEW h, NEW f, NEW x, IsFiniteSet(FieldOf(h, f)), FieldOf(h, f)' = FieldOf(h, f) \cup {x},
         x \notin FieldOf(h, f), \A p \in FieldOf(h, f) : parts'[p] = parts[p], NEW q, q = parts'[x].part
  PROVE  \A p : /\ Count(h, f, p) \in Nat
                /\ Count(h, f, p)' = IF p = q THEN Count(h, f, p) + 1 ELSE Count(h, f, p)
<1> SUFFICES ASSUME NEW p
             PROVE  /\ Count(h, f, p) \in Nat
                    /\ Count(h, f, p)' = IF p = q THEN Count(h, f, p) + 1 ELSE Count(h, f, p)
  OBVIOUS
<1> DEFINE had == {y \in FieldOf(h, f) : parts[y].part = p}
           has == {y \in FieldOf(h, f)' : parts'[y].part = p}
<1>1. IsFiniteSet(had) /\ x \notin had
  BY FS_Subset
<1>2. has = IF p = q THEN had \cup {x} ELSE had
  OBVIOUS
<1>3. Cardinality(had) \in Nat /\ Cardinality(had \cup {x}) = Cardinality(had) + 1
  BY <1>1, FS_CardinalityType, FS_AddElement
<1>4. Count(h, f, p) = Cardinality(had) /\ Count(h, f, p)' = Cardinality(has)
  BY DEF Count
<1> QED
  BY <1>2, <1>3, <1>4

LEMMA ListMore ==
  ASSUME NEW e, NEW k \in Nat, NEW p
  PROVE  /\ Among(e, k, p) \in Nat
         /\ Among(e, k + 1, p) = IF p = e[k + 1] THEN Among(e, k, p) + 1 ELSE Among(e, k, p)
<1> DEFINE A == {m \in 1..k : e[m] = p}
<1>1. IsFiniteSet(A) /\ (k + 1) \notin A
  <2>1. IsFiniteSet(1..k)
    BY FS_Interval
  <2> QED
    BY <2>1, FS_Subset
<1>2. {m \in 1..(k + 1) : e[m] = p} = IF p = e[k + 1] THEN A \cup {k + 1} ELSE A
  OBVIOUS
<1>3. Cardinality(A) \in Nat /\ Cardinality(A \cup {k + 1}) = Cardinality(A) + 1
  BY <1>1, FS_CardinalityType, FS_AddElement
<1> QED
  BY <1>2, <1>3 DEF Among

(* The entry a create was made for is there now.                           *)
LEMMA FilledMore ==
  ASSUME Basic, Doing, CliLike, cli'.plan = cli.plan, NEW i \in DOMAIN TheLists, Replacing(i),
         NEW c, Flight = {c}, c.op = "create_part", Mine(i) = {c}, Flight' = {},
         NEW g, g = TheLists[i].field, NEW h, \A k \in HostNamed(cli.host) : k = h,
         HostNamed(cli.host)' = HostNamed(cli.host),
         NEW x, FieldOf(h, g)' = FieldOf(h, g) \cup {x}, x \notin FieldOf(h, g), parts'[x].part = c.part,
         \A p \in FieldOf(h, g) : parts'[p] = parts[p], IsFiniteSet(FieldOf(h, g))
  PROVE  Replacing(i)'
<1>1. TheLists' = TheLists /\ DropOp(i)' = DropOp(i) /\ cli'.host = cli.host /\ Mine(i)' = {}
  BY FieldsKept, MineKept DEF CliLike
<1>2. Gone(i)' = Gone(i) /\ DropOp(i) # "create_part"
  BY <1>1 DEF Gone, DropOp
<1>3. /\ Gone(i) \in Nat /\ Gone(i) > 0 /\ c.part = TheLists[i].entries[Gone(i)]
      /\ Left(i) = {} /\ Filled(i)
  BY <1>2 DEF Replacing
<1>4. Made(i) = Gone(i) - 1 /\ Made(i)' = Gone(i)
  BY <1>1, <1>2 DEF Made
<1>5. Left(i)' = {} /\ cli.plan[i].any = {}
  BY <1>1, <1>3 DEF Left
<1>6. ASSUME NEW p \in Part, h \in HostNamed(cli.host)
      PROVE  Count(h, g, p)' = Among(TheLists[i].entries, Gone(i), p)
  <2>0. PICK e : e = TheLists[i].entries
    OBVIOUS
  <2>1. Count(h, g, p) = Among(e, Made(i), p)
    BY <1>3, <1>6, <2>0 DEF Filled
  <2>2. PICK k \in Nat : k = Made(i) /\ Gone(i) = k + 1
    BY <1>3, <1>4
  <2>3. PICK q : q = c.part /\ q = e[k + 1]
    BY <1>3, <2>0, <2>2
  <2>4. Count(h, g, p)' = IF p = q THEN Count(h, g, p) + 1 ELSE Count(h, g, p)
    BY <2>3, CountMore
  <2>5. Among(e, k + 1, p) = IF p = e[k + 1] THEN Among(e, k, p) + 1 ELSE Among(e, k, p)
    BY ListMore
  <2> QED
    BY <2>0, <2>1, <2>2, <2>3, <2>4, <2>5
<1>7. Filled(i)'
  BY <1>1, <1>4, <1>6 DEF Filled
<1> QED
  BY <1>1, <1>2, <1>3, <1>5, <1>7 DEF Replacing

\* The command's own write, as it is while nothing has failed.
OwnWrite ==
  /\ Basic /\ Checks /\ NoTwins /\ InventoryConstants /\ Owned /\ Remembered /\ Holding /\ Written
  /\ Writing(Cli) /\ Doing /\ CliLike /\ cli' = cli /\ req'[Cli].at = "ok"
  /\ cli.at = "run" /\ cli.then = "done" /\ cli.host # None

LEMMA OwnWrites ==
  ASSUME Basic, Checks, NoTwins, InventoryConstants, Owned, Remembered, Holding, Written, Writing(Cli), Doing'
  PROVE  OwnWrite
<1>0. Cli \in Slots
  BY Slotted
<1>1. Busy(Cli) /\ Doubtful /\ crossed \subseteq crossed' /\ Replied(Cli)
  BY <1>0, WritingFrame, WritingReplies DEF Basic
<1>2. cli' = cli
  BY <1>1 DEF Doubtful, Doing, Basic, CliType
<1>3. CliLike /\ req[Cli].at \notin {"refused", "error"} /\ cli.at = "run"
  BY <1>1, <1>2 DEF CliLike, Busy, Basic, Turns
<1>4. Doing
  BY <1>1, <1>2, <1>3, DoingBefore
<1>5. req'[Cli].at = "ok"
  BY <1>1 DEF Replied, Answered, Idle, Doing
<1>6. cli.then = "done" /\ cli.host # None
  BY <1>3, <1>4 DEF Doing, Basic, CliType, OfHost, InventoryConstants
<1> QED
  BY <1>2, <1>3, <1>4, <1>5, <1>6 DEF OwnWrite

LEMMA InsertWritten ==
  ASSUME OwnWrite, InsertPart(Cli)
  PROVE  Written'
<1>0. Cli \in Slots
  BY Slotted DEF OwnWrite
<1>1. PICK c \in Calls : c = req[Cli].call /\ Own(c) /\ Flight = {c} /\ c.op = "create_part"
  BY <1>0 DEF OwnWrite, InsertPart, Read, Basic, Requests, Busy, Owned, Flight
<1>2. Flight' = {} /\ req'[Cli].at \notin {"asked", "read"}
  BY DEF OwnWrite, Flight, Busy
<1>3. PICK row : row = [host |-> req[Cli].seen, part |-> c.part]
  OBVIOUS
<1>4. req[Cli].seen \in DOMAIN hosts /\ parts' = Insert(parts, row) /\ UNCHANGED hosts
  <2>1. ~Disturb(req[Cli].call.host)
    <3>1. req[Cli].call.host = cli.host
      BY <1>1 DEF Own
    <3> QED
      BY <3>1 DEF Disturb, OwnWrite, Doing, Basic, CliType
  <2> QED
    BY <1>1, <1>3, <2>1 DEF InsertPart
<1>5. PICK h \in HostNamed(cli.host) : h = req[Cli].seen
  <2>1. hosts[req[Cli].seen].name = cli.host
    BY <1>1 DEF OwnWrite, Written, Held, InsertPart, Read, HostNamed
  <2> QED
    BY <1>4, <2>1 DEF HostNamed
<1>6. \A k \in HostNamed(cli.host) : k = h
  BY <1>5, OneHost DEF OwnWrite
<1>7. PICK g : g = Field(c.part.kind)
  OBVIOUS
<1>8. row.host = h /\ row.part = c.part /\ g = Field(row.part.kind)
  BY <1>3, <1>5, <1>7
<1>9. /\ HostNamed(cli.host)' = HostNamed(cli.host)
      /\ \A f : f # g => FieldSame(f)
      /\ FieldOf(h, g)' = FieldOf(h, g) \cup {env.row}
      /\ env.row \notin FieldOf(h, g) /\ parts'[env.row] = row
      /\ \A p \in FieldOf(h, g) : parts'[p] = parts[p]
      /\ IsFiniteSet(FieldOf(h, g))
  BY <1>4, <1>6, <1>8, Grown DEF OwnWrite
<1>10. c.op \in Parting /\ CallField(c) = g
  BY <1>1, <1>7 DEF Parting, CallField
<1>11. ASSUME NEW i \in DOMAIN TheLists, Replaces(i), TheLists[i].field = g
       PROVE  Replacing(i)'
  <2>1. Mine(i) = {c}
    BY <1>1, <1>10, <1>11 DEF Mine
  <2>2. Replacing(i) /\ parts'[env.row].part = c.part /\ cli'.plan = cli.plan
    BY <1>8, <1>9, <1>11 DEF OwnWrite, Written
  <2> QED
    BY <1>1, <1>2, <1>6, <1>9, <1>11, <2>1, <2>2, FilledMore DEF OwnWrite
<1>12. ASSUME cli.cmd = "lshw2meta"
       PROVE  Counting'
  <2>1. Counting /\ cli'.plan = cli.plan
    BY <1>12 DEF OwnWrite, Written
  <2>2. CASE g # "disks"
    <3>1. FieldSame("disks")
      BY <1>9, <2>2
    <3>2. ~\E k : DiskCall(k, c)
      BY <1>1, <1>7, <2>2, FieldKind DEF DiskCall
    <3>3. \A k : {d \in Flight' : DiskCall(k, d)} = {d \in Flight : DiskCall(k, d)}
      BY <1>1, <1>2, <3>2
    <3> QED
      BY <1>2, <2>1, <3>1, <3>3, CountingKept DEF OwnWrite
  <2>3. CASE g = "disks"
    <3>1. TheLists' = TheLists /\ Gone(2)' = Gone(2) /\ cli'.read = cli.read /\ cli'.host = cli.host
      BY <2>1, FieldsKept DEF Gone, OwnWrite, CliLike
    <3>2. PICK last : last = TheLists[2].entries[Gone(2)]
      OBVIOUS
    <3>3. /\ \A d \in Fixing(h) : Gone(2) > 0 /\ Fixes(h, d, last)
          /\ \A m \in 1..Gone(2) : \/ Have(h, TheLists[2].entries[m])
                                   \/ m = Gone(2) /\ \E d \in Fixing(h) : Fixes(h, d, TheLists[2].entries[m])
      BY <2>1, <3>2 DEF Counting
    <3>4. DiskCall(h, c) /\ c \in Fixing(h)
      <4>1. c.part.kind = "disk"
        BY <1>7, <2>3 DEF Field
      <4>2. DiskCall(h, c)
        BY <1>1, <4>1 DEF DiskCall
      <4> QED
        BY <1>1, <4>2 DEF Fixing
    <3>5. c.part = last
      <4>1. Fixes(h, c, last)
        BY <3>3, <3>4
      <4> QED
        <5>1. \A d, m, v : CallUpdate(cli.host, d, m, v).op = "update_part"
          BY DEF CallUpdate
        <5>2. c = CallPart(cli.host, last)
          BY <1>1, <4>1, <5>1 DEF Fixes
        <5> QED
          BY <5>2 DEF CallPart
    <3>6. Have(h, last)'
      BY <1>8, <1>9, <2>3, <3>5 DEF Have
    <3>7. \A p : Have(h, p) => Have(h, p)'
      BY <1>9, <2>3 DEF Have
    <3>8. \A p, d : Fixes(h, d, p) => Fixes(h, d, p)'
      BY <1>9, <2>3, <3>1 DEF Fixes
    <3>9. Fixing(h)' \subseteq Fixing(h)
      BY <1>2, <2>1 DEF Fixing
    <3>10. ASSUME NEW d \in Fixing(h)'
           PROVE  Gone(2)' > 0 /\ Fixes(h, d, TheLists[2].entries[Gone(2)])'
      <4>1. Gone(2) > 0 /\ Fixes(h, d, last)'
        BY <3>3, <3>8, <3>9, <3>10
      <4>2. (TheLists[2].entries[Gone(2)])' = last
        BY <3>1, <3>2
      <4> QED
        BY <3>1, <4>1, <4>2 DEF Fixes
    <3>11. ASSUME NEW m \in 1..Gone(2)
           PROVE  Have(h, TheLists[2].entries[m])'
      <4>1. PICK p : p = TheLists[2].entries[m]
        OBVIOUS
      <4>2. (TheLists[2].entries[m])' = p
        BY <3>1, <4>1
      <4>3. Have(h, p) \/ p = last
        BY <3>2, <3>3, <4>1 DEF Have
      <4>4. Have(h, p)'
        BY <3>6, <3>7, <4>3 DEF Have
      <4> QED
        BY <4>2, <4>4 DEF Have
    <3>12. /\ Gone(2)' \in Nat
           /\ \A m \in DOMAIN cli'.plan[2].calls :
                cli'.plan[2].calls[m] = [op |-> "find_disk", part |-> TheLists[2].entries[Gone(2) + m]]
           /\ \A d \in cli'.plan[1].any : d.op = "update_part" /\ d.id \in DOMAIN cli'.read /\ cli'.read[d.id].kind = "interface"
           /\ DOMAIN cli'.plan = 1..4 /\ \A d \in ToSet(cli'.plan[1].calls) : d.op = "find_interface"
           /\ \A d \in cli'.plan[2].any : d.op = "delete_part" => CallField(d)' # "disks"
      BY <2>1, <3>1, FieldsKept DEF Counting, OwnWrite
    <3>13. \A k \in HostNamed(cli.host)' : k = h
      BY <1>6, <1>9
    <3> QED
      BY <1>2, <3>1, <3>10, <3>11, <3>12, <3>13 DEF Counting
  <2> QED
    BY <2>2, <2>3
<1>13. Basic /\ Doing /\ CliLike /\ cli'.plan = cli.plan /\ cli'.at = cli.at /\ Written
  BY DEF OwnWrite
<1> QED
  BY <1>1, <1>2, <1>9, <1>10, <1>11, <1>12, <1>13, LoneWritten

(* A row less.                                                             *)
LEMMA Shrunk ==
  ASSUME OwnWrite, ErasePart(Cli), NEW x, x = req[Cli].seen
  PROVE  /\ UNCHANGED hosts /\ HostNamed(cli.host)' = HostNamed(cli.host)
         /\ \A h, f : FieldOf(h, f)' = FieldOf(h, f) \ {x}
         /\ \A h, f : \A p \in FieldOf(h, f)' : parts'[p] = parts[p]
         /\ \A f : (\A h \in HostNamed(cli.host) : x \notin FieldOf(h, f)) => FieldSame(f)
<1> DEFINE n == IF x \in DOMAIN parts THEN hosts[parts[x].host].name ELSE None
<1>1. /\ UNCHANGED hosts /\ req[Cli].at = "read" /\ req[Cli].call.op \in {"delete_part", "delete_interface"}
      /\ \/ parts' = Restrict(parts, DOMAIN parts \ {x})
         \/ Disturb(n) /\ UNCHANGED parts
  BY DEF ErasePart, Read
<1>2. x \in DOMAIN parts => n = cli.host
  BY <1>1 DEF OwnWrite, Holding, May, Near, Doing, Basic, CliType
<1>3. Disturb(n) => n # cli.host
  BY DEF Disturb, OwnWrite, Doing, Basic, CliType
<1>4. DOMAIN parts' = DOMAIN parts \ {x} /\ \A p \in DOMAIN parts' : parts'[p] = parts[p]
  BY <1>1, <1>2, <1>3 DEF Restrict
<1>5. HostNamed(cli.host)' = HostNamed(cli.host)
  BY <1>1 DEF HostNamed, OwnWrite
<1>6. \A h : PartsOf(h)' = PartsOf(h) \ {x}
  BY <1>4 DEF PartsOf
<1>7. \A h, f : FieldOf(h, f)' = FieldOf(h, f) \ {x}
  BY <1>4, <1>6 DEF FieldOf, PartsOf
<1>8. \A h, f : \A p \in FieldOf(h, f)' : parts'[p] = parts[p]
  BY <1>4 DEF FieldOf, PartsOf
<1>9. ASSUME NEW f, \A h \in HostNamed(cli.host) : x \notin FieldOf(h, f)
      PROVE  FieldSame(f)
  <2>1. \A h \in HostNamed(cli.host) : FieldOf(h, f)' = FieldOf(h, f)
    BY <1>7, <1>9
  <2>2. \A h \in HostNamed(cli.host) : \A p \in FieldOf(h, f) : parts'[p].part = parts[p].part
    BY <1>8, <2>1
  <2> QED
    BY <1>5, <2>1, <2>2 DEF FieldSame
<1> QED
  BY <1>1, <1>5, <1>7, <1>8, <1>9

LEMMA DropById ==
  ASSUME NEW d \in Calls, d.op = "delete_part"
  PROVE  d = [op |-> "delete_part", id |-> d.id]
<1>1. d \notin HostCalls
  BY DEF HostCalls
<1>2. d \notin CloudCalls
  BY DEF CloudCalls
<1>3. d \in PartCalls
  BY <1>1, <1>2 DEF Calls
<1> QED
  BY <1>3 DEF PartCalls

(* The removal that is done is not left any more.                          *)
LEMMA Dropping ==
  ASSUME OwnWrite, NEW i \in DOMAIN TheLists, Replacing(i), NEW c, Mine(i) = {c}, c.op # "create_part", Flight' = {}
  PROVE  /\ c.op = DropOp(i) /\ Gone(i) = 0 /\ Cleared(i) /\ c \notin cli.plan[i].any
         /\ Left(i) = cli.plan[i].any \cup {c} /\ Left(i)' = cli.plan[i].any
         /\ Cleared(i)' => Replacing(i)'
<1>1. TheLists' = TheLists /\ DropOp(i)' = DropOp(i) /\ cli'.host = cli.host /\ Mine(i)' = {} /\ cli'.plan = cli.plan
  BY FieldsKept, MineKept DEF OwnWrite, CliLike
<1>2. Gone(i)' = Gone(i)
  BY <1>1 DEF Gone
<1>3. Left(i) = cli.plan[i].any \cup {c} /\ Left(i)' = cli.plan[i].any
  BY <1>1 DEF Left
<1>4. c.op = DropOp(i) /\ c \notin cli.plan[i].any /\ Gone(i) = 0 /\ Cleared(i)
  BY <1>3 DEF Replacing
<1>5. Cleared(i)' => Replacing(i)'
  BY <1>1, <1>2, <1>4 DEF Replacing
<1> QED
  BY <1>3, <1>4, <1>5

LEMMA EraseById ==
  ASSUME OwnWrite, ErasePart(Cli), NEW c \in Calls, c = req[Cli].call, Flight = {c}, c.op = "delete_part",
         NEW i \in DOMAIN TheLists, Replaces(i), TheLists[i].field = CallField(c), Flight' = {}
  PROVE  Replacing(i)'
<1>1. Mine(i) = {c} /\ Replacing(i) /\ TheLists' = TheLists
  BY FieldsKept DEF Mine, Parting, OwnWrite, Written
<1>2. PICK f, any : f = TheLists[i].field /\ any = cli.plan[i].any
  OBVIOUS
<1>3. /\ c.op = DropOp(i) /\ Cleared(i) /\ c \notin any /\ Left(i) = any \cup {c} /\ Left(i)' = any
      /\ Cleared(i)' => Replacing(i)'
  BY <1>1, <1>2, Dropping
<1>4. f # "interfaces" /\ DropOp(i) = "delete_part"
  BY <1>2, <1>3 DEF DropOp
<1>5. req[Cli].seen = c.id
  BY DEF OwnWrite, Holding, ErasePart, Read
<1>6. \A d \in any : d \in Calls /\ d.op = "delete_part"
  <2>1. i \in DOMAIN cli.plan
    BY DEF OwnWrite, Written, Sorted
  <2> QED
    BY <1>1, <1>2, <1>4, <2>1, PlanFields DEF Replacing, OwnWrite, Basic
<1>7. \A d \in any : d.id # c.id
  <2> SUFFICES ASSUME NEW d \in any, d.id = c.id
               PROVE  FALSE
    OBVIOUS
  <2>1. d = [op |-> "delete_part", id |-> d.id] /\ c = [op |-> "delete_part", id |-> c.id]
    BY <1>6, DropById
  <2> QED
    BY <1>3, <2>1
<1>8. ASSUME NEW h \in HostNamed(cli.host)
      PROVE  FieldOf(h, f)' = {d.id : d \in any}
  <2>1. FieldOf(h, f) = {d.id : d \in any \cup {c}}
    BY <1>2, <1>3, <1>4 DEF Cleared
  <2>2. FieldOf(h, f)' = FieldOf(h, f) \ {c.id}
    BY <1>5, Shrunk
  <2> QED
    BY <1>7, <2>1, <2>2
<1>9. HostNamed(cli.host)' = HostNamed(cli.host) /\ cli'.host = cli.host
  BY Shrunk DEF OwnWrite
<1>10. Cleared(i)'
  BY <1>1, <1>2, <1>3, <1>4, <1>8, <1>9 DEF Cleared
<1> QED
  BY <1>3, <1>10

LEMMA EraseByName ==
  ASSUME OwnWrite, ErasePart(Cli), NEW c \in Calls, c = req[Cli].call, Flight = {c}, c.op = "delete_interface",
         NEW i \in DOMAIN TheLists, Replaces(i), TheLists[i].field = CallField(c), Flight' = {}
  PROVE  Replacing(i)'
<1>1. Mine(i) = {c} /\ Replacing(i) /\ TheLists' = TheLists /\ TheLists[i].field = "interfaces"
  BY FieldsKept DEF Mine, Parting, OwnWrite, Written, CallField
<1>2. PICK any, x : any = cli.plan[i].any /\ x = req[Cli].seen
  OBVIOUS
<1>3. /\ Cleared(i) /\ c \notin any /\ Left(i) = any \cup {c} /\ Left(i)' = any
      /\ Cleared(i)' => Replacing(i)'
  BY <1>1, <1>2, Dropping
<1>4. IsFiniteSet(any) /\ IsFiniteSet(DOMAIN parts)
  BY <1>1, <1>2 DEF Replacing, OwnWrite, Basic, Tables
<1>5. ASSUME NEW h \in HostNamed(cli.host), NEW name \in Names
      PROVE  Cardinality(Interfaces(h, name)') = Cardinality({d \in any : d.name = name})
  <2> DEFINE had == Interfaces(h, name)
             left == {d \in any : d.name = name}
             all == {d \in any \cup {c} : d.name = name}
  <2>1. Cardinality(had) = Cardinality(all)
    BY <1>1, <1>3 DEF Cleared
  <2>2. x \in Interfaces(h, c.name)
    BY <1>2 DEF OwnWrite, Written, Held, ErasePart, Read
  <2>3. Interfaces(h, name)' = had \ {x}
    <3>1. /\ FieldOf(h, "interfaces")' = FieldOf(h, "interfaces") \ {x}
          /\ \A p \in FieldOf(h, "interfaces")' : parts'[p] = parts[p]
      BY <1>2, Shrunk
    <3> QED
      BY <3>1 DEF Interfaces
  <2>4. IsFiniteSet(had) /\ IsFiniteSet(left)
    <3>1. had \subseteq DOMAIN parts
      BY DEF Interfaces, FieldOf, PartsOf
    <3> QED
      BY <1>4, <3>1, FS_Subset
  <2>5. x \in had <=> c.name = name
    BY <2>2 DEF Interfaces
  <2>6. all = IF c.name = name THEN left \cup {c} ELSE left
    OBVIOUS
  <2>7. Cardinality(left) \in Nat /\ Cardinality(had) \in Nat
    BY <2>4, FS_CardinalityType
  <2>8. CASE c.name = name
    <3>1. Cardinality(left \cup {c}) = Cardinality(left) + 1
      BY <1>3, <2>4, FS_AddElement
    <3>2. Cardinality(had \ {x}) = Cardinality(had) - 1
      BY <2>4, <2>5, <2>8, FS_RemoveElement
    <3> HIDE DEF had, left, all
    <3>3. Cardinality(had \ {x}) = Cardinality(left)
      BY <2>1, <2>6, <2>7, <2>8, <3>1, <3>2
    <3> QED
      BY <2>3, <3>3 DEF left
  <2>9. CASE c.name # name
    BY <2>1, <2>3, <2>5, <2>6, <2>9, ZenonT(40)
  <2> QED
    BY <2>8, <2>9
<1>6. HostNamed(cli.host)' = HostNamed(cli.host) /\ cli'.host = cli.host
  BY Shrunk DEF OwnWrite
<1>7. Cleared(i)'
  BY <1>1, <1>3, <1>5, <1>6 DEF Cleared
<1> QED
  BY <1>3, <1>7

LEMMA EraseWritten ==
  ASSUME OwnWrite, ErasePart(Cli)
  PROVE  Written'
<1>0. Cli \in Slots
  BY Slotted DEF OwnWrite
<1>1. PICK c \in Calls : c = req[Cli].call /\ Own(c) /\ Flight = {c} /\ c.op \in {"delete_part", "delete_interface"}
  BY <1>0 DEF OwnWrite, ErasePart, Read, Basic, Requests, Busy, Owned, Flight
<1>2. Flight' = {} /\ req'[Cli].at \notin {"asked", "read"}
  BY DEF OwnWrite, Flight, Busy
<1>3. PICK g, x : g = CallField(c) /\ x = req[Cli].seen
  OBVIOUS
<1>4. ASSUME NEW f, f # g, NEW h \in HostNamed(cli.host)
      PROVE  x \notin FieldOf(h, f)
  <2>1. CASE c.op = "delete_part"
    <3>1. x = c.id /\ x \in DOMAIN cli.read
      BY <1>1, <1>3, <2>1 DEF OwnWrite, Holding, ErasePart, Read, Written, Sorted
    <3>2. x \in DOMAIN parts => parts[x].part.kind = cli.read[x].kind
      BY <3>1 DEF OwnWrite, Remembered
    <3>3. g = Field(cli.read[x].kind)
      BY <1>3, <2>1, <3>1 DEF CallField
    <3> QED
      BY <1>4, <3>2, <3>3 DEF FieldOf, PartsOf
  <2>2. CASE c.op = "delete_interface"
    <3>1. x \in FieldOf(h, "interfaces")
      BY <1>1, <1>3, <2>2 DEF OwnWrite, Written, Held, ErasePart, Read, Interfaces
    <3>2. g = "interfaces"
      BY <1>3, <2>2 DEF CallField
    <3> QED
      BY <1>4, <3>1, <3>2 DEF FieldOf
  <2> QED
    BY <1>1, <2>1, <2>2
<1>5. \A f : f # g => FieldSame(f)
  BY <1>3, <1>4, Shrunk
<1>6. ASSUME NEW i \in DOMAIN TheLists, Replaces(i), TheLists[i].field = g
      PROVE  Replacing(i)'
  BY <1>1, <1>2, <1>3, <1>6, EraseById, EraseByName
<1>7. ASSUME cli.cmd = "lshw2meta"
      PROVE  Counting'
  <2>1. Counting /\ cli'.plan = cli.plan
    BY <1>7 DEF OwnWrite, Written
  <2>2. g # "disks"
    BY <1>1, <1>3, <2>1 DEF Counting, CallField
  <2>3. FieldSame("disks")
    BY <1>5, <2>2
  <2>4. \A k : {d \in Flight' : DiskCall(k, d)} = {d \in Flight : DiskCall(k, d)}
    BY <1>1, <1>2 DEF DiskCall
  <2> QED
    BY <1>2, <2>1, <2>3, <2>4, CountingKept DEF OwnWrite
<1>8. c.op \in Parting => CallField(c) = g
  BY <1>3
<1>9. Basic /\ Doing /\ CliLike /\ cli'.plan = cli.plan /\ cli'.at = cli.at /\ Written
  BY DEF OwnWrite
<1> QED
  BY <1>1, <1>2, <1>5, <1>6, <1>7, <1>8, <1>9, LoneWritten

(* A row changed.                                                          *)
LEMMA Stored ==
  ASSUME OwnWrite, StorePart(Cli), NEW c \in Calls, c = req[Cli].call, Own(c), c.op = "update_part"
  PROVE  /\ cli.cmd = "lshw2meta" /\ UNCHANGED hosts /\ HostNamed(cli.host)' = HostNamed(cli.host)
         /\ c.id \in DOMAIN parts /\ DOMAIN parts' = DOMAIN parts
         /\ \A p \in DOMAIN parts : p # c.id => parts'[p] = parts[p]
         /\ parts'[c.id].host = parts[c.id].host /\ parts[c.id].host \in HostNamed(cli.host)
         /\ parts'[c.id].part \in Part /\ parts'[c.id].part.kind = parts[c.id].part.kind
         /\ parts'[c.id].part.name = parts[c.id].part.name
         /\ parts'[c.id].part.full = parts[c.id].part.full
         /\ c.value # None => parts'[c.id].part.value = c.value
         /\ parts[c.id].part.kind \in {"interface", "disk"}
<1> DEFINE x == c.id
           n == hosts[parts[x].host].name
<1>0. Cli \in Slots
  BY Slotted DEF OwnWrite
<1>1. c.host = cli.host /\ cli.cmd \in {"mod_interface", "lshw2meta"}
  BY DEF Own
<1>2. cli.cmd = "lshw2meta"
  BY <1>1 DEF OwnWrite, Doing
<1>3. req[Cli].seen = x /\ req[Cli].at = "read" /\ req[Cli].call.op = "update_part"
  BY DEF OwnWrite, Holding, StorePart, Read
<1>4. ~Disturb(cli.host) /\ \A id : ~Rename({cli.host}, id)
  BY DEF Disturb, Rename, OwnWrite, Doing, Basic, CliType
<1>5. ~Answer(Cli, "error")
  BY <1>0 DEF Answer, Answered, Idle, OwnWrite, Basic, Requests
<1>6. x \in DOMAIN parts /\ ~Disturb(req[Cli].call.host)
  BY <1>1, <1>3, <1>4, <1>5 DEF StorePart
<1>7. n = cli.host /\ parts[x].host \in HostNamed(cli.host) /\ req[Cli].held = parts[x].part
  BY <1>3 DEF OwnWrite, Written, Held, PartsOf, HostNamed
<1>8. /\ DOMAIN parts' = DOMAIN parts /\ \A p \in DOMAIN parts : p # x => parts'[p] = parts[p]
      /\ parts'[x] \in [host : DOMAIN hosts, part : Part]
      /\ parts'[x].host = parts[x].host /\ parts'[x].part.kind = parts[x].part.kind
      /\ parts'[x].part.full = parts[x].part.full
      /\ parts'[x].part.value = Column(c.value, parts[x].part.value, parts[x].part.value)
      /\ parts'[x].part.name = parts[x].part.name \/ Rename({n}, x)
      /\ UNCHANGED hosts
  BY <1>0, <1>3, <1>6, <1>7, PartStored DEF OwnWrite, Basic
<1>9. parts'[x].part.name = parts[x].part.name /\ parts'[x].part \in Part
  BY <1>4, <1>7, <1>8
<1>10. c.value # None => parts'[x].part.value = c.value
  BY <1>8 DEF Column
<1>11. parts[x].part.kind \in {"interface", "disk"}
  BY <1>6, SMTT(40) DEF Own
<1>12. HostNamed(cli.host)' = HostNamed(cli.host)
  BY <1>8 DEF HostNamed, OwnWrite
<1> QED
  BY <1>2, <1>6, <1>7, <1>8, <1>9, <1>10, <1>11, <1>12

LEMMA StoredFields ==
  ASSUME OwnWrite, StorePart(Cli), NEW c \in Calls, c = req[Cli].call, Own(c), c.op = "update_part"
  PROVE  /\ \A h, f : FieldOf(h, f)' = FieldOf(h, f)
         /\ \A f : f # Field(parts[c.id].part.kind) => FieldSame(f)
         /\ parts'[c.id].part.kind = parts[c.id].part.kind /\ parts'[c.id].part.name = parts[c.id].part.name
         /\ parts'[c.id].part.full /\ parts'[c.id].part \in Part
         /\ c.value # None => parts'[c.id].part.value = c.value
<1>1. /\ HostNamed(cli.host)' = HostNamed(cli.host) /\ c.id \in DOMAIN parts /\ DOMAIN parts' = DOMAIN parts
      /\ \A p \in DOMAIN parts : p # c.id => parts'[p] = parts[p]
      /\ parts'[c.id].host = parts[c.id].host
  BY Stored
<1>2. parts[c.id].part.full
  BY <1>1 DEF OwnWrite, Basic, Tables
<1>3. /\ parts'[c.id].part.kind = parts[c.id].part.kind /\ parts'[c.id].part.name = parts[c.id].part.name
      /\ parts'[c.id].part.full /\ parts'[c.id].part \in Part
      /\ c.value # None => parts'[c.id].part.value = c.value
  BY <1>2, Stored
<1>4. \A h : PartsOf(h)' = PartsOf(h)
  BY <1>1 DEF PartsOf
<1>5. \A h, f : FieldOf(h, f)' = FieldOf(h, f)
  <2>1. \A p \in DOMAIN parts : parts'[p].part.kind = parts[p].part.kind
    BY <1>1, <1>3
  <2>2. \A h : PartsOf(h) \subseteq DOMAIN parts
    BY DEF PartsOf
  <2> QED
    BY <1>4, <2>1, <2>2 DEF FieldOf
<1>6. ASSUME NEW f, f # Field(parts[c.id].part.kind)
      PROVE  FieldSame(f)
  <2>1. \A h : \A p \in FieldOf(h, f) : p \in DOMAIN parts /\ p # c.id
    BY <1>6 DEF FieldOf, PartsOf
  <2> QED
    BY <1>1, <1>5, <2>1 DEF FieldSame
<1>7. \A f : f # Field(parts[c.id].part.kind) => FieldSame(f)
  BY <1>6
<1> QED
  BY ZenonT(30), <1>3, <1>5, <1>7

(* The disk that a scan gives its count.                                   *)
LEMMA StoredDisk ==
  ASSUME OwnWrite, StorePart(Cli), NEW c \in Calls, c = req[Cli].call, Own(c), c.op = "update_part",
         Flight = {c}, Flight' = {}, parts[c.id].part.kind = "disk", Counting
  PROVE  Counting'
<1>1. /\ cli.cmd = "lshw2meta" /\ HostNamed(cli.host)' = HostNamed(cli.host)
      /\ c.id \in DOMAIN parts /\ DOMAIN parts' = DOMAIN parts
      /\ \A p \in DOMAIN parts : p # c.id => parts'[p] = parts[p]
      /\ parts[c.id].host \in HostNamed(cli.host)
  BY Stored
<1>2. PICK h \in HostNamed(cli.host) : h = parts[c.id].host
  BY <1>1
<1>3. \A k \in HostNamed(cli.host) : k = h
  BY OneHost DEF OwnWrite
<1>4. /\ FieldOf(h, "disks")' = FieldOf(h, "disks")
      /\ parts'[c.id].part.kind = "disk" /\ parts'[c.id].part.name = parts[c.id].part.name
      /\ parts'[c.id].part.full /\ parts'[c.id].part \in Part
      /\ c.value # None => parts'[c.id].part.value = c.value
  BY StoredFields
<1>5. c.id \in FieldOf(h, "disks")
  BY <1>1, <1>2 DEF FieldOf, PartsOf, Field
<1>6. TheLists' = TheLists /\ Gone(2)' = Gone(2) /\ cli'.read = cli.read /\ cli'.host = cli.host /\ cli'.plan = cli.plan
  BY FieldsKept DEF Gone, OwnWrite, CliLike
<1>7. PICK e : e = TheLists[2].entries
  OBVIOUS
<1>8. cli.arg.file \in Hardware
  BY <1>1, ArgFields DEF OwnWrite, Basic
<1>9. /\ \A i, j \in DOMAIN e : e[i].full /\ (e[i].name = e[j].name => i = j)
      /\ DOMAIN e = 1..Len(e) /\ Len(e) \in Nat
      /\ \A i \in DOMAIN e : e[i] \in Part /\ e[i].kind = "disk"
  <2>1. /\ TheLists[2] \in List /\ TheLists[2].field = "disks"
        /\ \A i, j \in DOMAIN e : e[i].full /\ (e[i].name = e[j].name => i = j)
    BY <1>7, <1>8, ScanFields DEF TheLists
  <2>2. /\ DOMAIN e = 1..Len(e) /\ Len(e) \in Nat
        /\ \A i \in DOMAIN e : e[i] \in Part /\ Field(e[i].kind) = "disks"
    BY <1>7, <2>1, ListFields
  <2>3. \A i \in DOMAIN e : e[i].kind = "disk"
    BY <2>2 DEF Field
  <2> QED
    BY <2>1, <2>2, <2>3, SMTT(40)
<1>10. Gone(2) \in Nat /\ Gone(2) <= Len(e)
  <2>1. Gone(2) = Len(e) - Len(cli.plan[2].calls) /\ Gone(2) \in Nat /\ 2 \in DOMAIN cli.plan
    BY <1>7 DEF Gone, Counting
  <2>2. Len(cli.plan[2].calls) \in Nat
    BY <2>1, PlanFields, LenProperties DEF OwnWrite, Basic
  <2> QED
    BY <1>9, <2>1, <2>2
<1>11. PICK last : last = e[Gone(2)]
  OBVIOUS
<1>12. /\ \A d \in Fixing(h) : Gone(2) > 0 /\ Fixes(h, d, last)
       /\ \A m \in 1..Gone(2) : Have(h, e[m]) \/ m = Gone(2)
  <2>1. /\ \A d \in Fixing(h) : Gone(2) > 0 /\ Fixes(h, d, TheLists[2].entries[Gone(2)])
        /\ \A m \in 1..Gone(2) : Have(h, TheLists[2].entries[m]) \/ m = Gone(2)
    BY DEF Counting
  <2> QED
    BY <1>7, <1>11, <2>1
<1>13. c \in Fixing(h)
  BY <1>5 DEF Fixing, DiskCall
<1>14. Gone(2) \in DOMAIN e /\ c.value = last.value /\ parts[c.id].part.name = last.name
  <2>1. Gone(2) \in DOMAIN e /\ Fixes(h, c, last)
    BY <1>9, <1>10, <1>12, <1>13
  <2>2. \A p : CallPart(cli.host, p).op = "create_part"
    BY DEF CallPart
  <2>3. PICK d \in FieldOf(h, "disks") : c = CallUpdate(cli.host, d, last.name, last.value) /\ parts[d].part.name = last.name
    BY <2>1, <2>2 DEF Fixes
  <2>4. c.id = d /\ c.value = last.value
    BY <2>3 DEF CallUpdate
  <2> QED
    BY <2>1, <2>3, <2>4
<1>15. parts'[c.id].part = last
  <2>1. last \in Part /\ last.kind = "disk" /\ last.full /\ c.value # None
    BY <1>9, <1>11, <1>14 DEF Part, OwnWrite, InventoryConstants
  <2>2. PICK q \in Part : q = parts'[c.id].part
    BY <1>4
  <2>3. q.kind = last.kind /\ q.name = last.name /\ q.value = last.value /\ q.full /\ last.full
    BY <1>4, <1>14, <2>1, <2>2
  <2>4. q.full \in BOOLEAN /\ last.full \in BOOLEAN
    BY <2>1 DEF Part
  <2>5. q = last
    <3>1. q.full = last.full
      BY <2>3, <2>4
    <3> QED
      BY <2>1, <2>3, <3>1 DEF Part
  <2> QED
    BY <2>2, <2>5
<1>16. Have(h, last)'
  BY <1>4, <1>5, <1>15 DEF Have
<1>17. \A p : Have(h, p) /\ p.name # last.name => Have(h, p)'
  <2> SUFFICES ASSUME NEW p, Have(h, p), p.name # last.name
               PROVE  Have(h, p)'
    OBVIOUS
  <2>1. PICK d \in FieldOf(h, "disks") : parts[d].part = p
    BY DEF Have
  <2>2. d # c.id /\ d \in DOMAIN parts
    BY <1>14, <2>1 DEF FieldOf, PartsOf
  <2> QED
    BY <1>1, <1>4, <2>1, <2>2 DEF Have
<1>18. \A p, d : Fixes(h, d, p) => Fixes(h, d, p)'
  <2>1. \A x \in FieldOf(h, "disks") : parts'[x].part.name = parts[x].part.name
    BY <1>1, <1>4 DEF FieldOf, PartsOf
  <2> QED
    BY <1>4, <1>6, <2>1 DEF Fixes
<1>19. Fixing(h)' \subseteq Fixing(h)
  BY <1>6 DEF Fixing
<1>20. ASSUME NEW d \in Fixing(h)'
       PROVE  Gone(2)' > 0 /\ Fixes(h, d, TheLists[2].entries[Gone(2)])'
  <2>1. Gone(2) > 0 /\ Fixes(h, d, last)'
    BY <1>12, <1>18, <1>19, <1>20
  <2>2. (TheLists[2].entries[Gone(2)])' = last
    BY <1>6, <1>7, <1>11
  <2> QED
    BY <1>6, <2>1, <2>2 DEF Fixes
<1>21. ASSUME NEW m \in 1..Gone(2)
       PROVE  Have(h, TheLists[2].entries[m])'
  <2>1. PICK p : p = e[m]
    OBVIOUS
  <2>2. (TheLists[2].entries[m])' = p
    BY <1>6, <1>7, <2>1
  <2>3. CASE m = Gone(2)
    BY <1>11, <1>16, <2>1, <2>2, <2>3 DEF Have
  <2>4. CASE m # Gone(2)
    <3>1. Have(h, p)
      BY <1>12, <2>1, <2>4
    <3>2. p.name # last.name
      BY <1>9, <1>10, <1>11, <1>14, <2>1, <2>4
    <3>3. Have(h, p)'
      BY <1>17, <3>1, <3>2
    <3> QED
      BY <2>2, <3>3 DEF Have
  <2> QED
    BY <2>3, <2>4
<1>22. /\ Gone(2)' \in Nat
       /\ \A m \in DOMAIN cli'.plan[2].calls :
            cli'.plan[2].calls[m] = [op |-> "find_disk", part |-> TheLists[2].entries[Gone(2) + m]]
       /\ \A d \in cli'.plan[1].any : d.op = "update_part" /\ d.id \in DOMAIN cli'.read /\ cli'.read[d.id].kind = "interface"
       /\ DOMAIN cli'.plan = 1..4 /\ \A d \in ToSet(cli'.plan[1].calls) : d.op = "find_interface"
       /\ \A d \in cli'.plan[2].any : d.op = "delete_part" => CallField(d)' # "disks"
  BY <1>6, FieldsKept DEF Counting, OwnWrite
<1> QED
  BY <1>1, <1>3, <1>6, <1>20, <1>21, <1>22 DEF Counting

LEMMA StoreWritten ==
  ASSUME OwnWrite, StorePart(Cli)
  PROVE  Written'
<1>0. Cli \in Slots
  BY Slotted DEF OwnWrite
<1>1. PICK c \in Calls : c = req[Cli].call /\ Own(c) /\ Flight = {c} /\ c.op = "update_part"
  BY <1>0 DEF OwnWrite, StorePart, Read, Basic, Requests, Busy, Owned, Flight
<1>2. Flight' = {} /\ req'[Cli].at \notin {"asked", "read"}
  BY DEF OwnWrite, Flight, Busy
<1>3. PICK g : g = Field(parts[c.id].part.kind)
  BY SMTT(40)
<1>4. /\ cli.cmd = "lshw2meta" /\ g \in {"interfaces", "disks"} /\ \A f : f # g => FieldSame(f)
      /\ parts[c.id].part.kind \in {"interface", "disk"}
  BY <1>1, <1>3, Stored, StoredFields DEF Field
<1>5. ASSUME NEW i \in DOMAIN TheLists, Replaces(i), TheLists[i].field = g
      PROVE  Replacing(i)'
  BY <1>4, <1>5 DEF Replaces, Handled
<1>6. Counting /\ cli'.plan = cli.plan
  BY <1>4 DEF OwnWrite, Written
<1>7. CASE parts[c.id].part.kind = "disk"
  <2>1. Counting'
    BY <1>1, <1>2, <1>6, <1>7, StoredDisk
  <2>2. c.op \notin Parting
    BY <1>1 DEF Parting, Finding
  <2>3. Basic /\ Doing /\ CliLike /\ cli'.at = cli.at /\ Written
    BY DEF OwnWrite
  <2> QED
    BY <1>1, <1>2, <1>4, <1>5, <1>6, <2>1, <2>2, <2>3, LoneWritten
<1>8. CASE parts[c.id].part.kind = "interface"
  <2>1. FieldSame("disks") /\ g = "interfaces"
    BY <1>3, <1>4, <1>8 DEF Field
  <2>2. \A k : ~DiskCall(k, c)
    BY <1>1, <1>3, <2>1 DEF DiskCall, FieldOf
  <2>3. \A k : {d \in Flight' : DiskCall(k, d)} = {d \in Flight : DiskCall(k, d)}
    BY <1>1, <1>2, <2>2
  <2>4. Counting'
    BY <1>2, <1>6, <2>1, <2>3, CountingKept DEF OwnWrite
  <2>5. c.op \notin Parting
    BY <1>1 DEF Parting, Finding
  <2>6. Basic /\ Doing /\ CliLike /\ cli'.at = cli.at /\ Written
    BY DEF OwnWrite
  <2> QED
    BY <1>1, <1>2, <1>4, <1>5, <1>6, <2>4, <2>5, <2>6, LoneWritten
<1> QED
  BY <1>4, <1>7, <1>8

(* The command's own request, when it writes.                              *)
LEMMA OwnWritten ==
  ASSUME Basic, Checks, NoTwins, InventoryConstants, Owned, Remembered, Holding, Written, Writing(Cli)
  PROVE  Written'
<1> SUFFICES ASSUME Doing'
             PROVE  Written'
  BY DEF Written
<1>1. OwnWrite
  BY OwnWrites
<1>2. CASE InsertPart(Cli)
  BY <1>1, <1>2, InsertWritten
<1>3. CASE ErasePart(Cli)
  BY <1>1, <1>3, EraseWritten
<1>4. CASE StorePart(Cli)
  BY <1>1, <1>4, StoreWritten
<1>5. CASE InsertHost(Cli) \/ RemoveHost(Cli) \/ StoreHost(Cli) \/ InsertCloud(Cli) \/ RemoveCloud(Cli) \/ Assign(Cli)
  <2>0. Cli \in Slots
    BY Slotted
  <2>1. PICK c \in Calls : c = req[Cli].call /\ Own(c) /\ Flight = {c}
    <3>1. Busy(Cli)
      BY <2>0, WritingFrame, SMTT(40) DEF Basic
    <3> QED
      BY <2>0, <3>1 DEF Basic, Requests, Owned, Flight
  <2>2. c.op \in {"create_host", "delete_host", "update_host", "create_cloud", "delete_cloud", "assign"}
    BY <1>5, <2>1 DEF InsertHost, RemoveHost, StoreHost, InsertCloud, RemoveCloud, Assign, Read, Asked
  <2>3. c.op \notin {"create_host", "delete_host"}
    BY <1>1, <2>1 DEF Own, OwnWrite, Doing
  <2>4. RowsSame
    <3>1. CASE StoreHost(Cli)
      <4> DEFINE h == req[Cli].seen
                 m == hosts'[h].name
      <4>1. UNCHANGED parts
        BY <3>1 DEF StoreHost
      <4>2. CASE UNCHANGED hosts
        BY <1>1, <4>1, <4>2, TablesSame DEF OwnWrite
      <4>3. CASE ~UNCHANGED hosts
        <5>1. /\ h \in DOMAIN hosts /\ DOMAIN hosts' = DOMAIN hosts
              /\ \A x \in DOMAIN hosts : x # h => hosts'[x] = hosts[x]
              /\ m = Column(req[Cli].call.name, req[Cli].held.name, hosts[h].name)
              /\ m = hosts[h].name \/ Rename({hosts[h].name, m}, h)
              /\ req[Cli].call.op = "update_host"
          BY <2>0, <3>1, <4>3, HostStored, ZenonT(40) DEF Basic, Read
        <5>2. c.name \in {None, cli.host}
          BY <2>1, <5>1 DEF Own
        <5>3. m = hosts[h].name \/ m = cli.host
          BY <2>1, <5>1, <5>2, ColumnOf
        <5>4. ~Rename({hosts[h].name, cli.host}, h)
          BY <1>1 DEF Rename, OwnWrite, Doing, Basic, CliType
        <5>5. m = hosts[h].name
          BY <5>1, <5>3, <5>4
        <5> HIDE DEF h
        <5> QED
          BY <1>1, <4>1, <5>1, <5>5 DEF RowsSame, HostNamed, PartsOf, OwnWrite
      <4> QED
        BY <4>2, <4>3
    <3>2. CASE InsertCloud(Cli) \/ RemoveCloud(Cli) \/ Assign(Cli)
      <4>1. UNCHANGED <<hosts, parts>>
        BY <3>2 DEF InsertCloud, RemoveCloud, Assign
      <4> QED
        BY <1>1, <4>1, TablesSame DEF OwnWrite
    <3>3. CASE InsertHost(Cli) \/ RemoveHost(Cli)
      BY <2>1, <2>3, <3>3 DEF InsertHost, RemoveHost, Read
    <3> QED
      BY <1>5, <3>1, <3>2, <3>3
  <2>5. Flight' = {} /\ Held'
    BY <1>1 DEF OwnWrite, Flight, Busy, Held
  <2>6. c.op \notin Parting \cup {"update_part"}
    BY <2>2 DEF Parting, Finding
  <2>7. \A d \in Flight : d.op \notin Parting \cup {"update_part"}
    BY <2>1, <2>6
  <2> QED
    BY <1>1, <2>4, <2>5, <2>7, WrittenKept DEF OwnWrite, Written
<1> QED
  BY <1>2, <1>3, <1>4, <1>5 DEF Writing

(***************************************************************************)
(* The steps of the command itself.                                        *)
(***************************************************************************)
\* The command goes on with a plan that differs in one chapter.
Replans(i, ch) ==
  /\ Basic /\ InventoryConstants /\ Owned /\ Remembered /\ Written /\ Doing /\ NoTwins
  /\ i \in DOMAIN cli.plan /\ Ready(i) /\ UNCHANGED <<hosts, parts>> /\ Flight = {}
  /\ CliLike /\ cli'.at = cli.at /\ DOMAIN cli'.plan = DOMAIN cli.plan
  /\ cli'.plan[i] = ch /\ (\A j \in DOMAIN cli.plan : j # i => cli'.plan[j] = cli.plan[j])
  /\ req'[Cli].at # "read"

LEMMA ReplansSorted ==
  ASSUME NEW i, NEW ch, Replans(i, ch),
         \A c \in CallsOf(ch) : c.op \in Parting => i \in DOMAIN TheLists /\ CallField(c) = TheLists[i].field,
         \A c \in CallsOf(ch) \cup Flight' : c.op = "delete_part" => c.id \in DOMAIN cli.read
  PROVE  Sorted'
<1>1. TheLists' = TheLists /\ (\A c : CallField(c)' = CallField(c)) /\ cli'.read = cli.read
  BY FieldsKept DEF Replans, CliLike
<1>2. Sorted /\ cli.at = "run" /\ cli'.at = cli.at /\ DOMAIN cli'.plan = DOMAIN cli.plan
  BY DEF Replans, Written, Ready
<1>3. \A j \in DOMAIN cli.plan : cli'.plan[j] = IF j = i THEN ch ELSE cli.plan[j]
  BY DEF Replans
<1>4. \A j \in DOMAIN cli.plan : \A c \in CallsOf(cli'.plan[j]) :
        c.op \in Parting => j \in DOMAIN TheLists /\ CallField(c) = TheLists[j].field
  BY <1>2, <1>3 DEF Sorted
<1>5. \A c \in Planned' : c.op = "delete_part" => c.id \in DOMAIN cli.read
  <2> SUFFICES ASSUME NEW c \in Planned', c.op = "delete_part"
               PROVE  c.id \in DOMAIN cli.read
    OBVIOUS
  <2>1. PICK j \in DOMAIN cli.plan : c \in CallsOf(cli'.plan[j])
    BY <1>2 DEF Planned, CallsOf
  <2>2. CASE j = i
    BY <1>3, <2>1, <2>2
  <2>3. CASE j # i
    <3>1. c \in Planned
      BY <1>3, <2>1, <2>3 DEF Planned, CallsOf
    <3> QED
      BY <1>2, <3>1 DEF Sorted
  <2> QED
    BY <2>2, <2>3
<1> QED
  BY <1>1, <1>2, <1>4, <1>5 DEF Sorted

(* The other lists are as they were.                                       *)
LEMMA ReplansOthers ==
  ASSUME NEW i, NEW ch, Replans(i, ch), NEW j \in DOMAIN TheLists, j # i, Replaces(j),
         \A c \in Flight' : c.op \in Parting => i \in DOMAIN TheLists /\ CallField(c) = TheLists[i].field
  PROVE  Replacing(j)'
<1>1. \A k \in DOMAIN TheLists : TheLists[k].field = TheLists[j].field => k = j
  <2>1. \/ cli.cmd = "import" /\ cli.arg.file \in File
        \/ cli.cmd = "lshw2meta" /\ cli.arg.file \in Hardware
    BY ArgFields DEF Replans, Doing, Basic
  <2> QED
    BY <2>1, FileFields, ScanFields DEF TheLists
<1>2. TheLists' = TheLists /\ (\A c : CallField(c)' = CallField(c))
  BY FieldsKept DEF Replans
<1>3. Mine(j) = {} /\ Mine(j)' = {}
  BY <1>1, <1>2 DEF Replans, Mine
<1>4. PICK f : f = TheLists[j].field
  OBVIOUS
<1>5. FieldSame(f)
  BY TablesSame, RowsFields DEF Replans
<1>6. cli'.plan[j] = cli.plan[j] /\ Replacing(j) /\ CliLike
  BY DEF Replans, Written, Sorted
<1> QED
  BY <1>3, <1>4, <1>5, <1>6, ReplacingKept

LEMMA ReplansWritten ==
  ASSUME NEW i, NEW ch, Replans(i, ch),
         \A c \in CallsOf(ch) \cup Flight' : c.op \in Parting => i \in DOMAIN TheLists /\ CallField(c) = TheLists[i].field,
         \A c \in CallsOf(ch) \cup Flight' : c.op = "delete_part" => c.id \in DOMAIN cli.read,
         i \in DOMAIN TheLists /\ Replaces(i) => Replacing(i)',
         cli.cmd = "lshw2meta" => Counting'
  PROVE  Written'
<1>1. Sorted' /\ Held'
  BY ReplansSorted DEF Replans, Held
<1>2. \A j \in DOMAIN TheLists : Replaces(j) => Replacing(j)'
  BY ReplansOthers
<1>3. TheLists' = TheLists /\ (\A j : Replaces(j)' <=> Replaces(j)) /\ cli'.cmd = cli.cmd
  BY FieldsKept DEF Replans, CliLike
<1> QED
  BY <1>1, <1>2, <1>3 DEF Written

LEMMA TailOf ==
  ASSUME NEW s \in Seq(Calls \cup Lookups), s # <<>>
  PROVE  /\ Head(s) = s[1] /\ 1 \in DOMAIN s /\ Len(s) \in Nat /\ Len(s) > 0 /\ Len(Tail(s)) = Len(s) - 1
         /\ DOMAIN s = 1..Len(s) /\ DOMAIN Tail(s) = 1..(Len(s) - 1)
         /\ \A m \in DOMAIN Tail(s) : Tail(s)[m] = s[m + 1] /\ m + 1 \in DOMAIN s
<1>1. Len(s) \in Nat /\ DOMAIN s = 1..Len(s) /\ Len(s) # 0
  BY LenProperties, EmptySeq
<1>2. /\ Head(s) = s[1] /\ Tail(s) \in Seq(Calls \cup Lookups) /\ Len(Tail(s)) = Len(s) - 1
      /\ \A m \in 1..(Len(s) - 1) : Tail(s)[m] = s[m + 1]
  BY HeadTailProperties
<1>3. DOMAIN Tail(s) = 1..(Len(s) - 1)
  BY <1>1, <1>2, LenProperties
<1> QED
  BY <1>1, <1>2, <1>3

(* The fields are unchanged while the command asks.                        *)
LEMMA StillCleared ==
  ASSUME NEW i, NEW ch, Replans(i, ch), NEW j, Left(j)' = Left(j), Cleared(j)
  PROVE  Cleared(j)'
<1>1. /\ TheLists' = TheLists /\ HostNamed(cli.host)' = HostNamed(cli.host)
      /\ (\A h, f : FieldOf(h, f)' = FieldOf(h, f)) /\ \A h, n : Interfaces(h, n)' = Interfaces(h, n)
  BY FieldsKept DEF Replans, HostNamed, FieldOf, PartsOf, Interfaces, CliLike
<1> QED
  BY <1>1 DEF Cleared

LEMMA StillFilled ==
  ASSUME NEW i, NEW ch, Replans(i, ch), NEW j, Made(j)' = Made(j), Filled(j)
  PROVE  Filled(j)'
<1>1. /\ TheLists' = TheLists /\ HostNamed(cli.host)' = HostNamed(cli.host)
      /\ \A h, f, p : Count(h, f, p)' = Count(h, f, p)
  BY FieldsKept DEF Replans, HostNamed, FieldOf, PartsOf, Count, CliLike
<1> QED
  BY <1>1 DEF Filled

(* A field that has been cleared has none of the entries.                  *)
LEMMA ClearedFilled ==
  ASSUME Basic, NEW i \in DOMAIN TheLists, Cleared(i), Left(i) = {}, Made(i) = 0
  PROVE  Filled(i)
<1> SUFFICES ASSUME NEW h \in HostNamed(cli.host), NEW p \in Part
             PROVE  Count(h, TheLists[i].field, p) = Among(TheLists[i].entries, 0, p)
  BY DEF Filled
<1>1. Among(TheLists[i].entries, 0, p) = 0
  <2>1. {m \in 1..0 : TheLists[i].entries[m] = p} = {}
    OBVIOUS
  <2> QED
    BY <2>1, FS_EmptySet DEF Among
<1>2. FieldOf(h, TheLists[i].field) = {}
  <2>1. CASE TheLists[i].field = "interfaces"
    <3> SUFFICES ASSUME NEW x \in FieldOf(h, "interfaces")
                 PROVE  FALSE
      BY <2>1
    <3>1. x \in DOMAIN parts /\ parts[x].part.name \in Names
      BY DEF FieldOf, PartsOf, Basic, Tables, Part
    <3>2. PICK name \in Names : name = parts[x].part.name
      BY <3>1
    <3>3. {c \in Left(i) : c.name = name} = {}
      OBVIOUS
    <3>4. Cardinality(Interfaces(h, name)) = 0
      BY <2>1, <3>3, FS_EmptySet DEF Cleared
    <3>5. IsFiniteSet(Interfaces(h, name))
      <4>1. Interfaces(h, name) \subseteq DOMAIN parts /\ IsFiniteSet(DOMAIN parts)
        BY DEF Interfaces, FieldOf, PartsOf, Basic, Tables
      <4> QED
        BY <4>1, FS_Subset
    <3>6. Interfaces(h, name) = {}
      BY <3>4, <3>5, FS_EmptySet
    <3> QED
      BY <3>2, <3>6 DEF Interfaces
  <2>2. CASE TheLists[i].field # "interfaces"
    BY <2>2 DEF Cleared
  <2> QED
    BY <2>1, <2>2
<1>3. {x \in FieldOf(h, TheLists[i].field) : parts[x].part = p} = {}
  BY <1>2
<1> QED
  BY <1>1, <1>3, FS_EmptySet DEF Count

LEMMA AskingReplans ==
  ASSUME Basic, InventoryConstants, Owned, Remembered, Written, NoTwins, Doing', UNCHANGED <<rows, crossed, env>>,
         NEW i \in DOMAIN cli.plan, NEW c \in Calls, Asking(i, c)
  PROVE  /\ Flight' = {c} /\ c \in CallsOf(cli.plan[i]) /\ Own(c)
         /\ \/ c \in cli.plan[i].any /\ Replans(i, Chapter(cli.plan[i].any \ {c}, cli.plan[i].calls))
            \/ /\ cli.plan[i].any = {} /\ cli.plan[i].calls # <<>> /\ c = Head(cli.plan[i].calls) /\ c.op \notin Finding
               /\ Replans(i, Chapter({}, Tail(cli.plan[i].calls)))
<1>0. Cli \in Slots
  BY Slotted
<1>1. req'[Cli].at = "asked" /\ req'[Cli].call = c /\ req[Cli].at \in {"idle", "ok"}
  BY <1>0 DEF Asking, Ask, Ready, Idle, Basic, Requests
<1>2. Flight' = {c} /\ Flight = {}
  BY <1>1 DEF Flight, Busy
<1>3. ASSUME NEW ch, cli' = [cli EXCEPT !.plan = [cli.plan EXCEPT ![i] = ch]]
      PROVE  Replans(i, ch)
  <2>1. /\ CliLike /\ cli'.at = cli.at /\ cli'.doubt = cli.doubt /\ DOMAIN cli'.plan = DOMAIN cli.plan
        /\ cli'.plan[i] = ch /\ \A j \in DOMAIN cli.plan : j # i => cli'.plan[j] = cli.plan[j]
    BY <1>3, ReplanCalls DEF Basic
  <2>2. Doing
    BY <1>1, <2>1, DoingBefore
  <2>3. Ready(i) /\ req'[Cli].at # "read" /\ UNCHANGED <<hosts, parts>>
    BY <1>1 DEF Asking, rows
  <2> QED
    BY <1>2, <2>1, <2>2, <2>3 DEF Replans
<1>4. c \in CallsOf(cli.plan[i])
  BY PlanFields, HeadTail DEF Asking, CallsOf, Basic
<1>5. Own(c)
  BY <1>4, PlannedAt DEF Owned
<1> QED
  BY <1>2, <1>3, <1>4, <1>5 DEF Asking

(* A removal goes out.                                                     *)
LEMMA AskedDrop ==
  ASSUME NEW i, NEW c, NEW any, any = cli.plan[i].any, c \in any,
         Replans(i, Chapter(any \ {c}, cli.plan[i].calls)), Flight' = {c},
         i \in DOMAIN TheLists, Replaces(i)
  PROVE  Replacing(i)'
<1>1. /\ cli'.plan[i].any = any \ {c} /\ cli'.plan[i].calls = cli.plan[i].calls
      /\ CallsOf(cli.plan[i]) = any \cup ToSet(cli.plan[i].calls)
  BY ChapterCalls DEF Replans, CallsOf
<1>2. Replacing(i) /\ Sorted /\ CliLike
  BY DEF Replans, Written
<1>3. /\ TheLists' = TheLists /\ DropOp(i)' = DropOp(i) /\ cli'.host = cli.host /\ \A d : CallField(d)' = CallField(d)
  BY <1>2, FieldsKept DEF CliLike
<1>4. c.op = DropOp(i) /\ c.op \in Parting /\ c.op # "create_part"
  BY <1>2 DEF Replacing, DropOp, Parting
<1>5. CallField(c) = TheLists[i].field
  BY <1>1, <1>2, <1>4 DEF Sorted, Replans
<1>6. Mine(i) = {} /\ Mine(i)' = {c}
  BY <1>3, <1>4, <1>5 DEF Mine, Replans
<1>7. Gone(i)' = Gone(i)
  BY <1>1, <1>3 DEF Gone
<1>8. Left(i)' = Left(i) /\ c \in Left(i)
  BY <1>1, <1>4, <1>6 DEF Left
<1>9. Gone(i) = 0 /\ Cleared(i)
  BY <1>2, <1>8 DEF Replacing
<1>10. Cleared(i)'
  BY <1>8, <1>9, StillCleared
<1>11. IsFiniteSet(any \ {c})
  BY <1>2, FS_Subset DEF Replacing
<1>12. /\ \A m \in DOMAIN cli'.plan[i].calls : cli'.plan[i].calls[m] = CallPart(cli.host, TheLists[i].entries[Gone(i) + m])
       /\ \A d \in any \ {c} : d.op = DropOp(i) /\ d \notin Mine(i)'
  BY <1>1, <1>2, <1>6 DEF Replacing
<1> QED
  BY <1>1, <1>3, <1>4, <1>6, <1>7, <1>9, <1>10, <1>11, <1>12 DEF Replacing

(* A creation goes out.                                                    *)
LEMMA AskedCreate ==
  ASSUME NEW i, NEW c, cli.plan[i].any = {}, cli.plan[i].calls # <<>>, c = Head(cli.plan[i].calls),
         Replans(i, Chapter({}, Tail(cli.plan[i].calls))), Flight' = {c},
         i \in DOMAIN TheLists, Replaces(i)
  PROVE  Replacing(i)'
<1>1. PICK calls \in Seq(Calls \cup Lookups) : calls = cli.plan[i].calls
  BY PlanFields DEF Replans, Basic
<1>2. cli'.plan[i].any = {} /\ cli'.plan[i].calls = Tail(calls)
  BY <1>1, ChapterCalls DEF Replans
<1>3. /\ c = calls[1] /\ 1 \in DOMAIN calls /\ Len(calls) \in Nat /\ Len(calls) > 0 /\ Len(Tail(calls)) = Len(calls) - 1
      /\ \A m \in DOMAIN Tail(calls) : Tail(calls)[m] = calls[m + 1] /\ m + 1 \in DOMAIN calls
      /\ DOMAIN Tail(calls) \subseteq Nat
  BY <1>1, TailOf
<1>4. Replacing(i) /\ CliLike /\ Basic
  BY DEF Replans, Written
<1>5. /\ TheLists' = TheLists /\ DropOp(i)' = DropOp(i) /\ cli'.host = cli.host /\ \A d : CallField(d)' = CallField(d)
  BY <1>4, FieldsKept DEF CliLike
<1>6. Gone(i) \in Nat /\ \A m \in DOMAIN calls : calls[m] = CallPart(cli.host, TheLists[i].entries[Gone(i) + m])
  BY <1>1, <1>4 DEF Replacing
<1>7. Gone(i)' = Gone(i) + 1
  <2>1. Len(TheLists[i].entries) \in Nat
    <3>1. \/ cli.cmd = "import" /\ cli.arg.file \in File
          \/ cli.cmd = "lshw2meta" /\ cli.arg.file \in Hardware
      BY ArgFields DEF Replans, Doing, Basic
    <3>2. TheLists[i] \in List
      BY <3>1, FileFields, ScanFields DEF TheLists
    <3> QED
      BY <3>2, ListFields
  <2>2. Gone(i) = Len(TheLists[i].entries) - Len(calls)
    BY <1>1 DEF Gone
  <2>3. Gone(i)' = Len(TheLists[i].entries) - Len(Tail(calls))
    BY <1>2, <1>5 DEF Gone
  <2>4. PICK L \in Nat : L = Len(TheLists[i].entries)
    BY <2>1
  <2>5. PICK k \in Nat : k = Len(calls)
    BY <1>3
  <2>6. L - (k - 1) = (L - k) + 1
    OBVIOUS
  <2>7. Gone(i) = L - k /\ Gone(i)' = L - (k - 1)
    BY <1>3, <2>2, <2>3, <2>4, <2>5
  <2> QED
    BY <2>6, <2>7
<1>8. c = CallPart(cli.host, TheLists[i].entries[Gone(i) + 1])
  BY <1>3, <1>6
<1>9. c.op = "create_part" /\ c.part = TheLists[i].entries[Gone(i) + 1]
  BY <1>8 DEF CallPart
<1>10. Mine(i) = {} /\ Left(i) = {} /\ Made(i) = Gone(i)
  <2>1. Mine(i) = {}
    BY DEF Replans, Mine
  <2> QED
    BY <2>1 DEF Left, Made
<1>11. CallField(c) = TheLists[i].field
  <2>1. c \in CallsOf(cli.plan[i])
    BY <1>1, <1>3 DEF CallsOf, ToSet
  <2> QED
    BY <1>9, <2>1 DEF Replans, Written, Sorted, Parting
<1>12. Mine(i)' = {c}
  BY <1>5, <1>9, <1>11 DEF Mine, Parting
<1>13. Left(i)' = {} /\ Made(i)' = Gone(i)
  <2>1. Left(i)' = {}
    BY <1>2, <1>9, <1>12 DEF Left
  <2>2. Made(i)' = Gone(i)' - 1
    BY <1>9, <1>12 DEF Made
  <2> QED
    BY <1>6, <1>7, <2>1, <2>2
<1>14. Filled(i)
  BY <1>4, <1>10, ClearedFilled DEF Replacing
<1>15. Filled(i)'
  BY <1>10, <1>13, <1>14, StillFilled
<1>16. \A m \in DOMAIN Tail(calls) : Tail(calls)[m] = CallPart(cli.host, TheLists[i].entries[(Gone(i) + 1) + m])
  <2> SUFFICES ASSUME NEW m \in DOMAIN Tail(calls)
               PROVE  Tail(calls)[m] = CallPart(cli.host, TheLists[i].entries[(Gone(i) + 1) + m])
    OBVIOUS
  <2>1. Tail(calls)[m] = calls[m + 1] /\ m + 1 \in DOMAIN calls /\ m \in Nat
    BY <1>3
  <2>2. calls[m + 1] = CallPart(cli.host, TheLists[i].entries[Gone(i) + (m + 1)])
    BY <1>6, <2>1
  <2>3. Gone(i) + (m + 1) = (Gone(i) + 1) + m
    BY <1>6, <2>1
  <2> QED
    BY <2>1, <2>2, <2>3
<1>17. IsFiniteSet({}) /\ Gone(i)' \in Nat /\ Gone(i)' > 0
  BY <1>6, <1>7, FS_EmptySet, SMTT(40)
<1> QED
  BY <1>2, <1>5, <1>7, <1>9, <1>12, <1>13, <1>15, <1>16, <1>17 DEF Replacing

(* The lists of a scan.                                                    *)
LEMMA ScanLists ==
  ASSUME CliType, cli.cmd = "lshw2meta"
  PROVE  /\ DOMAIN TheLists = 1..4
         /\ TheLists[1].field = "interfaces" /\ TheLists[2].field = "disks"
         /\ TheLists[3].field = "memory" /\ TheLists[4].field = "processors"
         /\ ~Replaces(1) /\ ~Replaces(2) /\ Replaces(3) /\ Replaces(4)
         /\ \A i, j \in DOMAIN TheLists : TheLists[i].field = TheLists[j].field => i = j
         /\ \A i \in DOMAIN TheLists : TheLists[i] \in List
         /\ \A i, j \in DOMAIN TheLists[2].entries :
              /\ TheLists[2].entries[i].full
              /\ TheLists[2].entries[i].name = TheLists[2].entries[j].name => i = j
<1>1. PICK s \in Hardware : s = cli.arg.file /\ TheLists = s.lists
  BY ArgFields DEF TheLists
<1> QED
  BY <1>1, ScanFields, SMTT(40) DEF Replaces, Handled

(* Nothing that goes out of another chapter is about a disk.               *)
LEMMA OtherChapter ==
  ASSUME Basic, Written, Doing, Remembered, cli.cmd = "lshw2meta", NEW i \in DOMAIN cli.plan, i # 2,
         NEW c \in CallsOf(cli.plan[i]), c \in Calls, c \in cli.plan[1].any \/ i # 1
  PROVE  /\ \A h \in HostNamed(cli.host) : ~DiskCall(h, c)
         /\ c.op = "delete_part" => CallField(c) # "disks"
<1>1. Counting /\ Sorted /\ DOMAIN cli.plan = 1..4
  BY DEF Written, Counting
<1>2. CASE c \in cli.plan[1].any
  <2>1. c.op = "update_part" /\ c.id \in DOMAIN cli.read /\ cli.read[c.id].kind = "interface"
    BY <1>1, <1>2 DEF Counting
  <2>2. ASSUME NEW h, c.id \in FieldOf(h, "disks")
        PROVE  FALSE
    <3>1. c.id \in DOMAIN parts /\ Field(parts[c.id].part.kind) = "disks"
      BY <2>2 DEF FieldOf, PartsOf
    <3>2. parts[c.id].part.kind = "interface"
      BY <2>1, <3>1 DEF Remembered
    <3> QED
      BY <3>1, <3>2 DEF Field
  <2> QED
    BY <2>1, <2>2 DEF DiskCall
<1>3. CASE i \in {3, 4}
  <2>1. Replaces(i) /\ Replacing(i) /\ i \in DOMAIN TheLists /\ TheLists[i].field \in {"memory", "processors"}
    BY <1>3, ScanLists DEF Written, Basic
  <2>2. c.op \in {"delete_part", "create_part"}
    <3>1. CASE c \in cli.plan[i].any
      BY <2>1, <3>1 DEF Replacing, DropOp
    <3>2. CASE c \in ToSet(cli.plan[i].calls)
      <4>1. PICK m \in DOMAIN cli.plan[i].calls : c = cli.plan[i].calls[m]
        BY <3>2 DEF ToSet
      <4>2. c = CallPart(cli.host, TheLists[i].entries[Gone(i) + m])
        BY <2>1, <4>1 DEF Replacing
      <4> QED
        BY <4>2 DEF CallPart
    <3> QED
      BY <3>1, <3>2 DEF CallsOf
  <2>3. CallField(c) = TheLists[i].field
    BY <1>1, <2>2 DEF Sorted, Parting
  <2>4. c.op = "create_part" => Field(c.part.kind) # "disks"
    BY <2>1, <2>3 DEF CallField
  <2> QED
    BY <2>1, <2>2, <2>3, <2>4 DEF DiskCall, Field
<1> QED
  BY <1>1, <1>2, <1>3

LEMMA AskCounting ==
  ASSUME Basic, InventoryConstants, Owned, Remembered, Written, NoTwins, Doing', UNCHANGED <<rows, crossed, env>>,
         NEW i \in DOMAIN cli.plan, NEW c \in Calls, Asking(i, c), cli.cmd = "lshw2meta"
  PROVE  Counting'
<1>1. /\ Flight' = {c} /\ c \in CallsOf(cli.plan[i]) /\ Own(c)
      /\ \/ c \in cli.plan[i].any /\ Replans(i, Chapter(cli.plan[i].any \ {c}, cli.plan[i].calls))
         \/ /\ cli.plan[i].any = {} /\ cli.plan[i].calls # <<>> /\ c = Head(cli.plan[i].calls) /\ c.op \notin Finding
            /\ Replans(i, Chapter({}, Tail(cli.plan[i].calls)))
  BY AskingReplans
<1>2. PICK ch : /\ Replans(i, ch) /\ ch.any = cli.plan[i].any \ {c}
                /\ \/ c \in cli.plan[i].any /\ ch.calls = cli.plan[i].calls
                   \/ /\ cli.plan[i].any = {} /\ cli.plan[i].calls # <<>> /\ c = Head(cli.plan[i].calls)
                      /\ c.op \notin Finding
  BY <1>1, ChapterCalls
<1>3. /\ Counting /\ Sorted /\ Doing /\ CliLike /\ DOMAIN cli.plan = 1..4 /\ DOMAIN cli'.plan = DOMAIN cli.plan
      /\ cli'.plan[i] = ch /\ (\A j \in DOMAIN cli.plan : j # i => cli'.plan[j] = cli.plan[j])
      /\ Flight = {} /\ UNCHANGED <<hosts, parts>>
  BY <1>2 DEF Written, Counting, Replans
<1>4. i \in {1, 2} => c \in cli.plan[i].any /\ ch.calls = cli.plan[i].calls
  <2> SUFFICES ASSUME i \in {1, 2}, c \notin cli.plan[i].any
               PROVE  FALSE
    BY <1>2
  <2>1. PICK calls \in Seq(Calls \cup Lookups) : calls = cli.plan[i].calls /\ calls # <<>> /\ c = Head(calls)
    BY <1>2, PlanFields DEF Basic
  <2>2. c = calls[1] /\ 1 \in DOMAIN calls
    BY <2>1, TailOf, SMTT(40)
  <2>3. CASE i = 1
    BY <1>2, <1>3, <2>1, <2>2, <2>3 DEF Counting, ToSet, Finding
  <2>4. CASE i = 2
    <3>1. c = [op |-> "find_disk", part |-> TheLists[2].entries[Gone(2) + 1]]
      BY <1>3, <2>1, <2>2, <2>4 DEF Counting
    <3>2. c.op = "find_disk"
      BY <3>1
    <3> QED
      BY <1>2, <2>4, <3>2 DEF Finding
  <2> QED
    BY <2>3, <2>4
<1>5. FieldSame("disks")
  BY <1>3, TablesSame, RowsFields
<1>6. \A h \in HostNamed(cli.host) : \A d : DiskCall(h, d)' <=> DiskCall(h, d)
  BY <1>3, <1>5, FixesKept
<1>7. ASSUME NEW h \in HostNamed(cli.host)
      PROVE  Fixing(h)' = Fixing(h)
  <2>1. Fixing(h)' = cli'.plan[2].any \cup {d \in {c} : DiskCall(h, d)}
    BY <1>1, <1>6 DEF Fixing
  <2>2. Fixing(h) = cli.plan[2].any
    BY <1>3 DEF Fixing
  <2>3. CASE i = 2
    <3>1. c \in cli.plan[2].any
      BY <1>4, <2>3
    <3>2. PICK p : Fixes(h, c, p) /\ p = TheLists[2].entries[Gone(2)] /\ Gone(2) > 0 /\ Gone(2) \in Nat
      BY <1>3, <2>2, <3>1 DEF Counting
    <3>3. DiskCall(h, c)
      <4>1. CASE c = CallPart(cli.host, p)
        <5>1. c.op = "create_part" /\ c.part = p
          BY <4>1 DEF CallPart
        <5>2. CallField(c) = "disks"
          BY <1>1, <1>3, <2>3, <5>1, ScanLists DEF Sorted, Parting, Basic
        <5>3. Field(c.part.kind) = "disks"
          BY <5>1, <5>2 DEF CallField
        <5> QED
          BY <5>1, <5>3, FieldKind DEF DiskCall
      <4>2. CASE \E d \in FieldOf(h, "disks") : c = CallUpdate(cli.host, d, p.name, p.value)
        BY <4>2 DEF DiskCall, CallUpdate
      <4> QED
        BY <3>2, <4>1, <4>2 DEF Fixes
    <3> QED
      BY <1>2, <1>3, <2>1, <2>2, <2>3, <3>1, <3>3
  <2>4. CASE i # 2
    <3>1. ~DiskCall(h, c)
      BY <1>1, <1>3, <1>4, <2>4, OtherChapter
    <3> QED
      BY <1>3, <2>1, <2>2, <2>4, <3>1
  <2> QED
    BY <2>3, <2>4
<1>8. \A d \in Flight' \cup cli'.plan[2].any : d.op = "delete_part" => CallField(d) # "disks"
  <2>1. \A d \in cli.plan[2].any : d.op = "delete_part" => CallField(d) # "disks"
    BY <1>3 DEF Counting
  <2>2. c.op = "delete_part" => CallField(c) # "disks"
    BY <1>1, <1>3, <1>4, <2>1, OtherChapter
  <2> QED
    BY <1>1, <1>2, <1>3, <2>1, <2>2
<1>9. /\ cli'.plan[2].calls = cli.plan[2].calls /\ cli'.plan[1].any \subseteq cli.plan[1].any
      /\ ToSet(cli'.plan[1].calls) = ToSet(cli.plan[1].calls)
  BY <1>2, <1>3, <1>4
<1>10. \A d \in cli'.plan[1].any : d.op = "update_part" /\ d.id \in DOMAIN cli.read /\ cli.read[d.id].kind = "interface"
  BY <1>3, <1>9 DEF Counting
<1> QED
  BY <1>3, <1>5, <1>7, <1>8, <1>9, <1>10, CountingStays

LEMMA AskingWritten ==
  ASSUME Basic, InventoryConstants, Owned, Remembered, Written, NoTwins, UNCHANGED <<rows, crossed, env>>,
         NEW i \in DOMAIN cli.plan, NEW c \in Calls, Asking(i, c)
  PROVE  Written'
<1> SUFFICES ASSUME Doing'
             PROVE  Written'
  BY DEF Written
<1>1. /\ Flight' = {c} /\ c \in CallsOf(cli.plan[i]) /\ Own(c)
      /\ \/ c \in cli.plan[i].any /\ Replans(i, Chapter(cli.plan[i].any \ {c}, cli.plan[i].calls))
         \/ /\ cli.plan[i].any = {} /\ cli.plan[i].calls # <<>> /\ c = Head(cli.plan[i].calls) /\ c.op \notin Finding
            /\ Replans(i, Chapter({}, Tail(cli.plan[i].calls)))
  BY AskingReplans
<1>2. cli.cmd = "lshw2meta" => Counting'
  BY AskCounting
<1>3. ASSUME NEW ch, Replans(i, ch), CallsOf(ch) \subseteq CallsOf(cli.plan[i]),
             i \in DOMAIN TheLists /\ Replaces(i) => Replacing(i)'
      PROVE  Written'
  <2>1. Sorted
    BY <1>3 DEF Replans, Written
  <2>2. CallsOf(ch) \cup Flight' \subseteq CallsOf(cli.plan[i]) /\ CallsOf(cli.plan[i]) \subseteq Planned
    BY <1>1, <1>3, PlannedAt
  <2>3. \A d \in CallsOf(ch) \cup Flight' : d.op \in Parting => i \in DOMAIN TheLists /\ CallField(d) = TheLists[i].field
    BY <2>1, <2>2 DEF Sorted
  <2>4. \A d \in CallsOf(ch) \cup Flight' : d.op = "delete_part" => d.id \in DOMAIN cli.read
    BY <2>1, <2>2 DEF Sorted
  <2> QED
    BY <1>2, <1>3, <2>3, <2>4, ReplansWritten
<1>4. CASE c \in cli.plan[i].any /\ Replans(i, Chapter(cli.plan[i].any \ {c}, cli.plan[i].calls))
  <2>1. CallsOf(Chapter(cli.plan[i].any \ {c}, cli.plan[i].calls)) \subseteq CallsOf(cli.plan[i])
    BY ChapterCalls DEF CallsOf
  <2>2. i \in DOMAIN TheLists /\ Replaces(i) => Replacing(i)'
    BY <1>1, <1>4, AskedDrop
  <2> QED
    BY <1>3, <1>4, <2>1, <2>2
<1>5. CASE /\ cli.plan[i].any = {} /\ cli.plan[i].calls # <<>> /\ c = Head(cli.plan[i].calls)
           /\ Replans(i, Chapter({}, Tail(cli.plan[i].calls)))
  <2>1. CallsOf(Chapter({}, Tail(cli.plan[i].calls))) \subseteq CallsOf(cli.plan[i])
    BY <1>5, ChapterCalls, PlanFields, HeadTail DEF CallsOf, Basic
  <2>2. i \in DOMAIN TheLists /\ Replaces(i) => Replacing(i)'
    BY <1>1, <1>5, AskedCreate
  <2> QED
    BY <1>3, <1>5, <2>1, <2>2
<1> QED
  BY <1>1, <1>4, <1>5

LEMMA LookReplans ==
  ASSUME Basic, InventoryConstants, Owned, Remembered, Written, NoTwins, Doing', Look
  PROVE  \E i \in DOMAIN cli.plan, call \in Lookups, tail \in Seq(Calls \cup Lookups) : \E found \in Found(call) :
           /\ Replans(i, Chapter(found, tail)) /\ Own(call) /\ cli.plan[i].any = {} /\ cli.plan[i].calls # <<>>
           /\ tail = Tail(cli.plan[i].calls) /\ call = Head(cli.plan[i].calls)
           /\ Flight' = {} /\ Flight = {} /\ found \in SUBSET Calls /\ cli.cmd = "lshw2meta"
<1>1. PICK i \in DOMAIN cli.plan :
         /\ Ready(i) /\ cli.plan[i].any = {} /\ Head(cli.plan[i].calls) \in Lookups
         /\ Tail(cli.plan[i].calls) \in Seq(Calls \cup Lookups)
         /\ \E found \in Found(Head(cli.plan[i].calls)) :
              cli' = [cli EXCEPT !.plan = [cli.plan EXCEPT ![i] = Chapter(found, Tail(cli.plan[i].calls))]]
  BY Looks DEF Basic
<1>2. PICK found \in Found(Head(cli.plan[i].calls)) :
         cli' = [cli EXCEPT !.plan = [cli.plan EXCEPT ![i] = Chapter(found, Tail(cli.plan[i].calls))]]
  BY <1>1
<1>3. UNCHANGED <<rows, req, crossed>> /\ cli.cmd = "lshw2meta"
  BY Looks DEF Basic
<1>4. req[Cli].at \in {"idle", "ok"}
  BY <1>1 DEF Ready
<1>5. PICK ch : ch = Chapter(found, Tail(cli.plan[i].calls))
  OBVIOUS
<1>6. /\ CliLike /\ cli'.at = cli.at /\ cli'.doubt = cli.doubt /\ DOMAIN cli'.plan = DOMAIN cli.plan
      /\ cli'.plan[i] = ch /\ \A j \in DOMAIN cli.plan : j # i => cli'.plan[j] = cli.plan[j]
  BY <1>2, <1>5, ReplanCalls DEF Basic
<1>7. Doing
  BY <1>3, <1>4, <1>6, DoingBefore
<1>8. Flight' = {} /\ Flight = {}
  BY <1>3, <1>4 DEF Flight, Busy
<1>9. UNCHANGED <<hosts, parts>> /\ req'[Cli].at # "read"
  BY <1>3, <1>4 DEF rows
<1>10. Replans(i, ch)
  BY <1>1, <1>6, <1>7, <1>8, <1>9 DEF Replans
<1>14. cli.plan[i].calls # <<>>
  BY <1>1, PlanFields DEF Ready, Basic
<1>11. Head(cli.plan[i].calls) \in CallsOf(cli.plan[i])
  BY <1>1, <1>14, HeadTail, PlanFields DEF CallsOf, Basic
<1>12. Own(Head(cli.plan[i].calls))
  BY <1>11, PlannedAt DEF Owned
<1>13. found \in SUBSET Calls
  BY <1>1, <1>3, FoundTyped DEF Basic
<1> QED
  BY <1>1, <1>3, <1>5, <1>8, <1>10, <1>12, <1>13, <1>14

(* What a lookup finds.                                                    *)
LEMMA LookFound ==
  ASSUME Basic, NEW call \in Lookups, Own(call), cli.cmd = "lshw2meta", NEW found \in Found(call)
  PROVE  /\ \A c \in found : \/ c.op = "update_part"
                             \/ call.op = "find_disk" /\ c = CallPart(cli.host, call.part) /\ call.part.kind = "disk"
         /\ call.op = "find_interface" => \A c \in found : /\ c.op = "update_part" /\ c.id \in DOMAIN cli.read
                                                           /\ cli.read[c.id].kind = "interface"
<1> DEFINE p == call.part
           interfaces == {x \in DOMAIN cli.read : cli.read[x].kind = p.kind /\ cli.read[x].name = p.name}
           disks == {x \in DOMAIN parts : /\ hosts[parts[x].host].name = cli.host
                                          /\ parts[x].part.kind = "disk" /\ parts[x].part.name = p.name}
<1>1. /\ call.op \in {"find_interface", "find_disk"}
      /\ p.kind = IF call.op = "find_interface" THEN "interface" ELSE "disk"
  BY DEF Own, Lookups, Finding
<1>2. ASSUME NEW c \in found
      PROVE  \/ call.op = "find_interface" /\ \E x \in interfaces : c = CallUpdate(cli.host, x, p.name, p.value)
             \/ call.op # "find_interface" /\ c = CallPart(cli.host, p)
             \/ call.op # "find_interface" /\ \E x \in disks : c = CallUpdate(cli.host, x, p.name, p.value)
  BY <1>2 DEF Found
<1>3. \A x, m, v : CallUpdate(cli.host, x, m, v).op = "update_part" /\ CallUpdate(cli.host, x, m, v).id = x
  BY DEF CallUpdate
<1> QED
  BY <1>1, <1>2, <1>3

(* A disk that is looked for is counted, or there is a call to count it.   *)
LEMMA FoundFixes ==
  ASSUME Basic, NEW call \in Lookups, Own(call), call.op = "find_disk", call.part.full, NEW found \in Found(call),
         NEW h \in HostNamed(cli.host), \A k \in HostNamed(cli.host) : k = h
  PROVE  /\ \A c \in found : Fixes(h, c, call.part)
         /\ Have(h, call.part) \/ \E c \in found : Fixes(h, c, call.part)
<1> DEFINE p == call.part
           disks == {x \in DOMAIN parts : /\ hosts[parts[x].host].name = cli.host
                                          /\ parts[x].part.kind = "disk" /\ parts[x].part.name = p.name}
<1>1. p \in Part /\ p.kind = "disk"
  BY DEF Own, Lookups, Finding
<1>2. \A x \in disks : x \in FieldOf(h, "disks") /\ parts[x].part \in Part /\ parts[x].part.full
  <2> SUFFICES ASSUME NEW x \in disks
               PROVE  x \in FieldOf(h, "disks") /\ parts[x].part \in Part /\ parts[x].part.full
    OBVIOUS
  <2>1. parts[x].host \in DOMAIN hosts /\ parts[x].part \in Part /\ parts[x].part.full
    BY DEF Basic, Tables
  <2>2. parts[x].host = h
    BY <2>1 DEF HostNamed
  <2> QED
    BY <2>1, <2>2 DEF FieldOf, PartsOf, Field
<1>3. \/ disks = {} /\ found = {CallPart(cli.host, p)}
      \/ \E x \in disks : found = IF parts[x].part.value = p.value THEN {} ELSE {CallUpdate(cli.host, x, p.name, p.value)}
  BY DEF Found
<1>4. CASE found = {CallPart(cli.host, p)}
  BY <1>4 DEF Fixes
<1>5. ASSUME NEW x \in disks, found = IF parts[x].part.value = p.value THEN {} ELSE {CallUpdate(cli.host, x, p.name, p.value)}
      PROVE  /\ \A c \in found : Fixes(h, c, p)
             /\ Have(h, p) \/ \E c \in found : Fixes(h, c, p)
  <2>1. x \in FieldOf(h, "disks") /\ parts[x].part \in Part /\ parts[x].part.full
    BY <1>2
  <2>2. parts[x].part.kind = "disk" /\ parts[x].part.name = p.name
    OBVIOUS
  <2>3. CASE parts[x].part.value = p.value
    <3>1. parts[x].part = p
      BY <1>1, <2>1, <2>2, <2>3 DEF Part
    <3> QED
      BY <1>5, <2>1, <2>3, <3>1 DEF Have
  <2>4. CASE parts[x].part.value # p.value
    <3>1. Fixes(h, CallUpdate(cli.host, x, p.name, p.value), p)
      BY <2>1, <2>2 DEF Fixes
    <3> QED
      BY <1>5, <2>4, <3>1
  <2> QED
    BY <2>3, <2>4
<1> QED
  BY <1>3, <1>4, <1>5

(* The head of the chapter, and what it means for the entries taken up.    *)
LEMMA TakenUp ==
  ASSUME NEW i, NEW ch, Replans(i, ch), cli.plan[i].calls # <<>>, ch.calls = Tail(cli.plan[i].calls),
         i \in DOMAIN TheLists
  PROVE  /\ Gone(i) \in Int /\ Gone(i)' = Gone(i) + 1
         /\ Head(cli.plan[i].calls) = cli.plan[i].calls[1] /\ 1 \in DOMAIN cli.plan[i].calls
         /\ \A m \in DOMAIN ch.calls : /\ m \in Nat /\ m + 1 \in DOMAIN cli.plan[i].calls
                                       /\ ch.calls[m] = cli.plan[i].calls[m + 1]
<1>1. PICK calls \in Seq(Calls \cup Lookups) : calls = cli.plan[i].calls
  BY PlanFields DEF Replans, Basic
<1>2. /\ Head(calls) = calls[1] /\ 1 \in DOMAIN calls /\ Len(calls) \in Nat /\ Len(Tail(calls)) = Len(calls) - 1
      /\ \A m \in DOMAIN Tail(calls) : Tail(calls)[m] = calls[m + 1] /\ m + 1 \in DOMAIN calls
      /\ DOMAIN Tail(calls) \subseteq Nat
  BY <1>1, TailOf
<1>3. TheLists' = TheLists /\ cli'.plan[i] = ch
  BY FieldsKept DEF Replans
<1>4. PICK L \in Nat : L = Len(TheLists[i].entries)
  <2>1. \/ cli.cmd = "import" /\ cli.arg.file \in File
        \/ cli.cmd = "lshw2meta" /\ cli.arg.file \in Hardware
    BY ArgFields DEF Replans, Doing, Basic
  <2>2. TheLists[i] \in List
    BY <2>1, FileFields, ScanFields DEF TheLists
  <2> QED
    BY <2>2, ListFields
<1>5. PICK k \in Nat : k = Len(calls)
  BY <1>2
<1>6. Gone(i) = L - k /\ Gone(i)' = L - (k - 1)
  BY <1>1, <1>2, <1>3, <1>4, <1>5 DEF Gone
<1>7. L - (k - 1) = (L - k) + 1 /\ L - k \in Int
  OBVIOUS
<1> QED
  BY <1>1, <1>2, <1>6, <1>7

LEMMA LookInterface ==
  ASSUME NEW i, NEW call \in Lookups, NEW tail \in Seq(Calls \cup Lookups), NEW found \in Found(call), i = 1,
         Replans(i, Chapter(found, tail)), Own(call), call.op = "find_interface", cli.cmd = "lshw2meta",
         tail = Tail(cli.plan[i].calls), Flight' = {}, cli.plan[i].calls # <<>>
  PROVE  Counting'
<1>1. /\ Counting /\ Doing /\ CliLike /\ Basic /\ DOMAIN cli'.plan = DOMAIN cli.plan /\ i \in DOMAIN cli.plan
      /\ cli'.plan[i] = Chapter(found, tail) /\ (\A j \in DOMAIN cli.plan : j # i => cli'.plan[j] = cli.plan[j])
      /\ Flight = {} /\ UNCHANGED <<hosts, parts>>
  BY DEF Replans, Written
<1>2. /\ cli'.plan[1].any = found /\ cli'.plan[1].calls = tail /\ cli'.plan[2] = cli.plan[2]
      /\ DOMAIN cli.plan = 1..4
  BY <1>1, ChapterCalls DEF Counting
<1>3. FieldSame("disks")
  BY <1>1, TablesSame, RowsFields
<1>4. \A c \in cli'.plan[1].any : c.op = "update_part" /\ c.id \in DOMAIN cli.read /\ cli.read[c.id].kind = "interface"
  BY <1>1, <1>2, LookFound
<1>5. ToSet(cli'.plan[1].calls) \subseteq ToSet(cli.plan[1].calls)
  BY <1>1, <1>2, PlanFields, HeadTail DEF Basic
<1>6. \A h \in HostNamed(cli.host) : Fixing(h)' = Fixing(h)
  BY <1>1, <1>2 DEF Fixing
<1>7. \A c \in Flight' \cup cli'.plan[2].any : c.op = "delete_part" => CallField(c) # "disks"
  BY <1>1, <1>2 DEF Counting
<1> QED
  BY <1>1, <1>2, <1>3, <1>4, <1>5, <1>6, <1>7, CountingStays

LEMMA LookDisk ==
  ASSUME NEW i, NEW call \in Lookups, NEW tail \in Seq(Calls \cup Lookups), NEW found \in Found(call), i = 2,
         Replans(i, Chapter(found, tail)), Own(call), cli.cmd = "lshw2meta", cli.plan[i].any = {},
         call = Head(cli.plan[i].calls), tail = Tail(cli.plan[i].calls), Flight' = {}, cli.plan[i].calls # <<>>
  PROVE  Counting'
<1>1. /\ Counting /\ Doing /\ CliLike /\ Basic /\ NoTwins /\ DOMAIN cli'.plan = DOMAIN cli.plan
      /\ cli'.plan[i] = Chapter(found, tail) /\ (\A j \in DOMAIN cli.plan : j # i => cli'.plan[j] = cli.plan[j])
      /\ Flight = {} /\ UNCHANGED <<hosts, parts>>
  BY DEF Replans, Written
<1>2. /\ cli'.plan[2].any = found /\ cli'.plan[2].calls = tail /\ cli'.plan[1] = cli.plan[1]
      /\ DOMAIN cli.plan = 1..4 /\ Chapter(found, tail).calls = tail
  BY <1>1, ChapterCalls DEF Counting
<1>3. PICK k, e : k = Gone(2) /\ e = TheLists[2].entries
  OBVIOUS
<1>4. k \in Nat /\ \A m \in DOMAIN cli.plan[2].calls : cli.plan[2].calls[m] = [op |-> "find_disk", part |-> e[k + m]]
  BY <1>1, <1>3 DEF Counting
<1>5. /\ Gone(2)' = k + 1 /\ call = cli.plan[2].calls[1] /\ 1 \in DOMAIN cli.plan[2].calls
      /\ \A m \in DOMAIN tail : m \in Nat /\ m + 1 \in DOMAIN cli.plan[2].calls /\ tail[m] = cli.plan[2].calls[m + 1]
  <2>1. 2 \in DOMAIN TheLists
    BY <1>1, ScanLists DEF Basic
  <2>2. PICK ch : ch = Chapter(found, tail) /\ ch.calls = Tail(cli.plan[2].calls)
    BY <1>2
  <2>3. Replans(2, ch) /\ cli.plan[2].calls # <<>>
    BY <2>2
  <2>4. /\ Gone(2)' = Gone(2) + 1 /\ Head(cli.plan[2].calls) = cli.plan[2].calls[1] /\ 1 \in DOMAIN cli.plan[2].calls
        /\ \A m \in DOMAIN ch.calls : /\ m \in Nat /\ m + 1 \in DOMAIN cli.plan[2].calls
                                      /\ ch.calls[m] = cli.plan[2].calls[m + 1]
    BY <2>1, <2>2, <2>3, TakenUp
  <2> QED
    BY <1>3, <2>2, <2>4
<1>6. call.op = "find_disk" /\ call.part = e[k + 1]
  <2>1. call = [op |-> "find_disk", part |-> e[k + 1]]
    BY <1>4, <1>5
  <2> QED
    BY <2>1
<1>7. TheLists' = TheLists /\ cli'.read = cli.read /\ cli'.host = cli.host /\ \A c : CallField(c)' = CallField(c)
  BY <1>1, FieldsKept DEF CliLike
<1>8. ASSUME NEW m \in DOMAIN tail
      PROVE  tail[m] = [op |-> "find_disk", part |-> e[(k + 1) + m]]
  <2>1. m \in Nat /\ tail[m] = [op |-> "find_disk", part |-> e[k + (m + 1)]]
    BY <1>4, <1>5
  <2>2. k + (m + 1) = (k + 1) + m
    BY <1>4, <2>1
  <2> QED
    BY <2>1, <2>2
<1>9. FieldSame("disks") /\ \A h \in HostNamed(cli.host) : \A g \in HostNamed(cli.host) : g = h
  BY <1>1, TablesSame, RowsFields, OneHost
<1>10. /\ HostNamed(cli.host)' = HostNamed(cli.host)
       /\ \A h \in HostNamed(cli.host) : \A c :
            (DiskCall(h, c)' <=> DiskCall(h, c)) /\ \A p : Fixes(h, c, p)' <=> Fixes(h, c, p)
       /\ \A h \in HostNamed(cli.host) : \A p : Have(h, p)' <=> Have(h, p)
  BY <1>1, <1>9, FixesKept
<1>11. ASSUME NEW h \in HostNamed(cli.host)
       PROVE  /\ \A c \in Fixing(h)' : Gone(2)' > 0 /\ Fixes(h, c, TheLists[2].entries[Gone(2)])'
              /\ \A m \in 1..Gone(2)' : \/ Have(h, TheLists[2].entries[m])'
                                        \/ m = Gone(2)' /\ \E c \in Fixing(h)' : Fixes(h, c, TheLists[2].entries[m])'
  <2>1. Fixing(h)' = found /\ Fixing(h) = {}
    BY <1>1, <1>2 DEF Fixing
  <2>2. call.part.full
    <3>0. TheLists[2] \in List /\ \A m \in DOMAIN e : e[m].full
      BY <1>1, <1>3, ScanLists DEF Basic
    <3>1. Len(e) \in Nat /\ DOMAIN e = 1..Len(e) /\ \A m \in DOMAIN e : e[m].full
      BY <1>3, <3>0, ListFields
    <3>2. k = Len(e) - Len(cli.plan[2].calls) /\ Len(cli.plan[2].calls) \in Nat /\ Len(cli.plan[2].calls) > 0
      <4>1. PICK calls \in Seq(Calls \cup Lookups) : calls = cli.plan[2].calls
        BY <1>1, <1>2, PlanFields DEF Basic
      <4> QED
        BY <1>3, <4>1, TailOf DEF Gone
    <3>3. k + 1 \in DOMAIN e
      <4>1. PICK L, n : L = Len(e) /\ n = Len(cli.plan[2].calls)
        OBVIOUS
      <4>2. L \in Nat /\ n \in Nat /\ n > 0 /\ k = L - n /\ DOMAIN e = 1..L
        BY <3>1, <3>2, <4>1, ZenonT(40)
      <4>3. k + 1 \in 1..L
        BY <1>4, <4>2
      <4> QED
        BY <4>2, <4>3
    <3> QED
      BY <1>6, <3>1, <3>3
  <2>3. /\ \A c \in found : Fixes(h, c, call.part)
        /\ Have(h, call.part) \/ \E c \in found : Fixes(h, c, call.part)
    BY <1>1, <1>6, <1>9, <2>2, FoundFixes
  <2>4. \A m \in 1..k : Have(h, e[m])
    BY <1>1, <1>3, <2>1 DEF Counting
  <2>5. PICK p : p = call.part
    OBVIOUS
  <2>6. \A c : Fixes(h, c, TheLists[2].entries[Gone(2)])' <=> Fixes(h, c, p)'
    <3>1. (TheLists[2].entries[Gone(2)])' = p
      BY <1>3, <1>5, <1>6, <1>7, <2>5
    <3> QED
      BY <3>1 DEF Fixes
  <2>7. ASSUME NEW m \in 1..(k + 1)
        PROVE  \/ Have(h, TheLists[2].entries[m])'
               \/ m = k + 1 /\ \E c \in found : Fixes(h, c, TheLists[2].entries[m])'
    <3>1. PICK q : q = e[m]
      OBVIOUS
    <3>2. (TheLists[2].entries[m])' = q
      BY <1>3, <1>7, <3>1
    <3>3. CASE m \in 1..k
      <4>1. Have(h, q)'
        BY <1>10, <2>4, <3>1, <3>3
      <4> QED
        BY <3>2, <4>1 DEF Have
    <3>4. CASE m = k + 1
      <4>1. q = p
        BY <1>6, <2>5, <3>1, <3>4
      <4>2. Have(h, q)' \/ \E c \in found : Fixes(h, c, q)'
        BY <1>10, <2>3, <2>5, <4>1
      <4>3. Have(h, q)' => Have(h, TheLists[2].entries[m])'
        BY <3>2 DEF Have
      <4>4. \A c : Fixes(h, c, q)' => Fixes(h, c, TheLists[2].entries[m])'
        BY <3>2 DEF Fixes
      <4> QED
        BY <3>4, <4>2, <4>3, <4>4
    <3> QED
      BY <1>4, <3>3, <3>4
  <2>8. \A c \in found : Fixes(h, c, p)'
    BY <1>10, <2>3, <2>5
  <2> QED
    BY <1>4, <1>5, <2>1, <2>6, <2>7, <2>8
<1>12. \A c \in found : c.op # "delete_part"
  BY <1>1, LookFound, SMTT(40) DEF CallPart
<1>13. /\ Gone(2)' \in Nat
       /\ \A m \in DOMAIN cli'.plan[2].calls :
            cli'.plan[2].calls[m] = [op |-> "find_disk", part |-> TheLists[2].entries[Gone(2)' + m]]
  BY <1>2, <1>3, <1>4, <1>5, <1>8
<1>14. /\ \A c \in cli'.plan[1].any : c.op = "update_part" /\ c.id \in DOMAIN cli'.read /\ cli'.read[c.id].kind = "interface"
       /\ DOMAIN cli'.plan = 1..4 /\ \A c \in ToSet(cli'.plan[1].calls) : c.op = "find_interface"
       /\ \A c \in Flight' \cup cli'.plan[2].any : c.op = "delete_part" => CallField(c)' # "disks"
  BY <1>1, <1>2, <1>7, <1>12 DEF Counting
<1> QED
  BY <1>7, <1>10, <1>11, <1>13, <1>14 DEF Counting

LEMMA LookWritten ==
  ASSUME Basic, InventoryConstants, Owned, Remembered, Written, NoTwins, Look
  PROVE  Written'
<1> SUFFICES ASSUME Doing'
             PROVE  Written'
  BY DEF Written
<1>1. PICK i \in DOMAIN cli.plan, call \in Lookups, tail \in Seq(Calls \cup Lookups) : \E found \in Found(call) :
        /\ Replans(i, Chapter(found, tail)) /\ Own(call) /\ cli.plan[i].any = {} /\ cli.plan[i].calls # <<>>
        /\ tail = Tail(cli.plan[i].calls) /\ call = Head(cli.plan[i].calls)
        /\ Flight' = {} /\ Flight = {} /\ found \in SUBSET Calls /\ cli.cmd = "lshw2meta"
  BY LookReplans
<1>2. PICK found \in Found(call) :
        /\ Replans(i, Chapter(found, tail)) /\ Own(call) /\ cli.plan[i].any = {} /\ cli.plan[i].calls # <<>>
        /\ tail = Tail(cli.plan[i].calls) /\ call = Head(cli.plan[i].calls)
        /\ Flight' = {} /\ Flight = {} /\ found \in SUBSET Calls /\ cli.cmd = "lshw2meta"
  BY <1>1
<1>3. Counting /\ Sorted /\ DOMAIN cli.plan = 1..4 /\ Basic
  BY <1>2 DEF Replans, Written, Counting
<1>4. call.op \in Finding /\ call = cli.plan[i].calls[1] /\ 1 \in DOMAIN cli.plan[i].calls
  <2>1. PICK calls \in Seq(Calls \cup Lookups) : calls = cli.plan[i].calls
    BY <1>3, PlanFields DEF Basic
  <2> QED
    BY <1>2, <2>1, TailOf DEF Lookups
<1>5. ~ i \in {3, 4}
  <2> SUFFICES ASSUME i \in {3, 4}
               PROVE  FALSE
    OBVIOUS
  <2>1. Replaces(i) /\ i \in DOMAIN TheLists /\ Replacing(i)
    BY <1>2, <1>3, ScanLists DEF Replans, Written, Basic
  <2>2. call = CallPart(cli.host, TheLists[i].entries[Gone(i) + 1])
    BY <1>4, <2>1 DEF Replacing
  <2> QED
    BY <1>4, <2>2 DEF CallPart, Finding
<1>6. i \in {1, 2} /\ ~Replaces(i) /\ i \in DOMAIN TheLists
  BY <1>2, <1>3, <1>5, ScanLists DEF Basic
<1>7. i = 1 => call.op = "find_interface"
  BY <1>3, <1>4 DEF Counting, ToSet
<1>8. i = 2 => call.op = "find_disk"
  <2>1. i = 2 => call = [op |-> "find_disk", part |-> TheLists[2].entries[Gone(2) + 1]]
    BY <1>3, <1>4 DEF Counting
  <2> QED
    BY <2>1
<1>9. Counting'
  BY <1>2, <1>6, <1>7, LookInterface, LookDisk
<1>10. CallsOf(Chapter(found, tail)) = found \cup ToSet(tail) /\ ToSet(tail) \subseteq CallsOf(cli.plan[i])
  <2>1. PICK calls \in Seq(Calls \cup Lookups) : calls = cli.plan[i].calls /\ calls # <<>> /\ tail = Tail(calls)
    BY <1>2, <1>3, PlanFields DEF Basic
  <2>2. ToSet(tail) \subseteq ToSet(calls)
    BY <2>1, HeadTail
  <2> QED
    BY <2>1, <2>2, ChapterCalls DEF CallsOf
<1>11. \A c \in found : /\ c.op # "delete_part"
                        /\ c.op \in Parting => CallField(c) = TheLists[i].field
  <2> SUFFICES ASSUME NEW c \in found
               PROVE  c.op # "delete_part" /\ (c.op \in Parting => CallField(c) = TheLists[i].field)
    OBVIOUS
  <2>1. CASE c.op = "update_part"
    BY <2>1 DEF Parting, Finding
  <2>2. CASE call.op = "find_disk" /\ c = CallPart(cli.host, call.part) /\ call.part.kind = "disk"
    <3>1. c.op = "create_part" /\ c.part.kind = "disk"
      BY <2>2 DEF CallPart
    <3>2. CallField(c) = "disks"
      BY <3>1, SMTT(40) DEF CallField, Field
    <3>3. i = 2 /\ TheLists[i].field = "disks"
      BY <1>2, <1>3, <1>6, <1>7, <2>2, ScanLists DEF Basic
    <3> QED
      BY <3>1, <3>2, <3>3
  <2> QED
    BY <1>2, <1>3, <2>1, <2>2, LookFound
<1>12. \A c \in ToSet(tail) : /\ c.op = "delete_part" => c.id \in DOMAIN cli.read
                              /\ c.op \in Parting => CallField(c) = TheLists[i].field
  BY <1>3, <1>10, PlannedAt DEF Sorted
<1> QED
  BY <1>2, <1>6, <1>9, <1>10, <1>11, <1>12, ReplansWritten

(* The end of a plan.                                                      *)
LEMMA ThroughWritten ==
  ASSUME Basic, InventoryConstants, Written, NoTwins, UNCHANGED <<rows, crossed>>, Through_
  PROVE  Written'
<1> SUFFICES ASSUME Doing'
             PROVE  Written'
  BY DEF Written
<1>0. Cli \in Slots
  BY Slotted
<1>1. /\ cli.at = "run" /\ req[Cli].at \in {"idle", "ok"} /\ req'[Cli].at = "idle" /\ cli'.at = cli.then
      /\ cli'.plan = cli.plan /\ CliLike /\ cli'.doubt = cli.doubt
      /\ \A i \in DOMAIN cli.plan : cli.plan[i] = Through
  BY <1>0 DEF Through_, Basic, CliType, Requests, Idle, CliLike
<1>2. cli.then = "done" /\ cli'.at = "done"
  BY <1>1 DEF Doing, Basic, CliType
<1>3. Doing
  BY <1>1, <1>2 DEF Doing, CliLike
<1>4. Sorted /\ (\A i \in DOMAIN TheLists : Replaces(i) => Replacing(i)) /\ (cli.cmd = "lshw2meta" => Counting)
  BY <1>3 DEF Written
<1>5. Flight = {} /\ Flight' = {}
  BY <1>1 DEF Flight, Busy
<1>6. /\ TheLists' = TheLists /\ (\A c : CallField(c)' = CallField(c)) /\ (\A i : Replaces(i)' <=> Replaces(i))
      /\ \A i : Mine(i)' = {} /\ Mine(i) = {}
  BY <1>1, <1>5, FieldsKept, MineKept
<1>7. RowsSame /\ \A f : FieldSame(f)
  <2>1. RowsSame
    BY <1>1, TablesSame DEF rows
  <2> QED
    BY <2>1, RowsFields
<1>8. Planned' = Planned
  BY <1>1 DEF Planned
<1>9. Sorted'
  BY <1>1, <1>4, <1>5, <1>6, <1>8 DEF Sorted, CliLike
<1>10. Held'
  BY <1>1 DEF Held
<1>11. ASSUME NEW i \in DOMAIN TheLists, Replaces(i)
       PROVE  Replacing(i)'
  <2>1. PICK f : f = TheLists[i].field
    OBVIOUS
  <2>2. Replacing(i) /\ cli'.plan[i] = cli.plan[i] /\ Mine(i)' = Mine(i)
    BY <1>1, <1>4, <1>6, <1>11
  <2> QED
    BY <1>1, <1>7, <2>1, <2>2, ReplacingKept
<1>12. cli.cmd = "lshw2meta" => Counting'
  <2>1. \A h : {c \in Flight' : DiskCall(h, c)} = {c \in Flight : DiskCall(h, c)}
    BY <1>5
  <2> QED
    BY <1>1, <1>4, <1>5, <1>7, <2>1, CountingKept
<1> QED
  BY <1>1, <1>6, <1>9, <1>10, <1>11, <1>12 DEF Written, CliLike

(* Nothing of the command's changes.                                       *)
LEMMA QuietWritten ==
  ASSUME Basic, Written, UNCHANGED <<hosts, parts, cli, crossed>>, req'[Cli] = req[Cli]
  PROVE  Written'
<1> SUFFICES ASSUME Doing'
             PROVE  Written'
  BY DEF Written
<1>1. CliLike /\ Doing
  BY DEF CliLike, Doing
<1>2. RowsSame
  BY <1>1, TablesSame
<1>3. Held'
  BY <1>1, <1>2, HeldKept DEF Written, Same
<1>4. Flight' = Flight
  BY DEF Flight, Busy
<1> QED
  BY <1>1, <1>2, <1>3, <1>4, WrittenKept DEF Written

LEMMA NotDoing ==
  ASSUME Basic, InventoryConstants, Begins \/ Stop
  PROVE  ~Doing'
<1>1. CASE Begins
  BY <1>1, BeginsPlans DEF Doing, Basic
<1>2. CASE Stop
  <2>1. cli'.at = "stopped"
    BY <1>2 DEF Stop, Basic, CliType
  <2> QED
    BY <2>1 DEF Doing
<1> QED
  BY <1>1, <1>2

(***************************************************************************)
(* The plan a command makes of what it reads.                              *)
(***************************************************************************)
ReadOf(read, f) == {x \in DOMAIN read : Field(read[x].kind) = f}
NamedOf(read, S, name) == {x \in S : read[x].name = name}
DropsOf(any, name) == {c \in any : c.name = name}

(* One removal for every part of a field.                                  *)
LEMMA ClearCalls ==
  ASSUME NEW n, NEW read, NEW f, NEW S, S = ReadOf(read, f), IsFiniteSet(S),
         NEW any, any = clear_field(n, read, f, None)
  PROVE  /\ IsFiniteSet(any)
         /\ f # "interfaces" => (\A c \in any : c.op = "delete_part" /\ c.id \in S) /\ S = {c.id : c \in any}
         /\ f = "interfaces" =>
              /\ \A c \in any : c.op = "delete_interface"
              /\ \A name : Cardinality(NamedOf(read, S, name)) = Cardinality(DropsOf(any, name))
<1> DEFINE Drop(x) == IF f = "interfaces" THEN CallDrop(n, read[x].name, x) ELSE [op |-> "delete_part", id |-> x]
           drops == [x \in S |-> Drop(x)]
<1>1. any = {Drop(x) : x \in S}
  BY DEF clear_field, Wanted, ReadOf
<1>2. \A x : Drop(x).id = x /\ Drop(x).op = IF f = "interfaces" THEN "delete_interface" ELSE "delete_part"
  BY DEF CallDrop
<1>3. f = "interfaces" => \A x : Drop(x).name = read[x].name
  BY DEF CallDrop
<1> HIDE DEF Drop
<1>4. ASSUME NEW T \in SUBSET S
      PROVE  IsFiniteSet({Drop(x) : x \in T}) /\ Cardinality({Drop(x) : x \in T}) = Cardinality(T)
  <2> DEFINE g == [x \in T |-> Drop(x)]
             D == {Drop(x) : x \in T}
  <2>1. IsFiniteSet(T)
    BY FS_Subset
  <2>2. g \in Bijection(T, D)
    <3>1. g \in [T -> D] /\ \A x \in T : g[x] = Drop(x)
      OBVIOUS
    <3>2. \A x, y \in T : g[x] = g[y] => x = y
      BY <1>2, <3>1
    <3>3. \A d \in D : \E x \in T : g[x] = d
      BY <3>1
    <3> HIDE DEF g, D
    <3> QED
      BY <3>1, <3>2, <3>3 DEF Bijection, Injection, IsInjective, Surjection
  <2>3. ExistsBijection(T, D)
    BY <2>2 DEF ExistsBijection
  <2> HIDE DEF D
  <2>4. IsFiniteSet(D) /\ Cardinality(D) = Cardinality(T)
    BY <2>1, <2>3, FS_Bijection
  <2> QED
    BY <2>4 DEF D
<1>5. IsFiniteSet(any)
  BY <1>1, <1>4
<1>6. ASSUME f # "interfaces"
      PROVE  (\A c \in any : c.op = "delete_part" /\ c.id \in S) /\ S = {c.id : c \in any}
  BY <1>1, <1>2, <1>6
<1>7. ASSUME f = "interfaces", NEW name
      PROVE  Cardinality(NamedOf(read, S, name)) = Cardinality(DropsOf(any, name))
  <2> DEFINE T == {x \in S : read[x].name = name}
  <2>1. {c \in any : c.name = name} = {Drop(x) : x \in T}
    BY <1>1, <1>3, <1>7
  <2>2. T \in SUBSET S
    OBVIOUS
  <2>3. Cardinality({Drop(x) : x \in T}) = Cardinality(T)
    BY <1>4, <2>2
  <2> QED
    BY <2>1, <2>3 DEF NamedOf, DropsOf
<1>8. f = "interfaces" => \A c \in any : c.op = "delete_interface"
  BY <1>1, <1>2
<1> QED
  BY <1>5, <1>6, <1>7, <1>8

(* A command has read the one host of its name and is going to run.        *)
Started(h, plan) ==
  /\ Basic /\ InventoryConstants /\ ReadsFrom(h, plan) /\ UNCHANGED <<rows, req, crossed>>
  /\ Flight' = {} /\ cli.cmd \in {"import", "lshw2meta"} /\ cli.arg.force
  /\ \A k \in HostNamed(cli.host) : k = h

LEMMA StartedFrame ==
  ASSUME NEW h, NEW plan, Started(h, plan)
  PROVE  /\ TheLists' = TheLists /\ cli'.host = cli.host /\ cli'.cmd = cli.cmd /\ cli'.read = Listing(h)
         /\ cli'.plan = plan /\ cli'.at = "run" /\ \A i : Mine(i)' = {}
         /\ (\A i : DropOp(i)' = DropOp(i)) /\ (\A i : Replaces(i)' <=> Replaces(i))
         /\ HostNamed(cli.host)' = HostNamed(cli.host) /\ UNCHANGED <<hosts, parts>>
         /\ (\A k, f : FieldOf(k, f)' = FieldOf(k, f)) /\ \A k, name : Interfaces(k, name)' = Interfaces(k, name)
         /\ DOMAIN Listing(h) = PartsOf(h) /\ \A p \in PartsOf(h) : Listing(h)[p] = parts[p].part
         /\ \A f : FieldOf(h, f) = ReadOf(Listing(h), f)
<1>1. /\ cli'.host = cli.host /\ cli'.cmd = cli.cmd /\ cli'.arg = cli.arg /\ cli'.read = Listing(h)
      /\ cli'.plan = plan /\ cli'.at = "run" /\ UNCHANGED <<hosts, parts>> /\ Flight' = {}
  BY DEF Started, ReadsFrom, rows
<1>2. TheLists' = TheLists /\ (\A i : DropOp(i)' = DropOp(i)) /\ (\A i : Replaces(i)' <=> Replaces(i))
  BY <1>1 DEF TheLists, DropOp, Replaces
<1>3. /\ HostNamed(cli.host)' = HostNamed(cli.host)
      /\ (\A k, f : FieldOf(k, f)' = FieldOf(k, f)) /\ \A k, name : Interfaces(k, name)' = Interfaces(k, name)
  BY <1>1 DEF HostNamed, FieldOf, PartsOf, Interfaces
<1>4. \A i : Mine(i)' = {}
  BY <1>1 DEF Mine
<1>5. DOMAIN Listing(h) = PartsOf(h) /\ \A p \in PartsOf(h) : Listing(h)[p] = parts[p].part
  BY DEF Listing
<1>6. \A f : FieldOf(h, f) = ReadOf(Listing(h), f)
  BY <1>5 DEF FieldOf, ReadOf
<1> QED
  BY <1>1, <1>2, <1>3, <1>4, <1>5, <1>6

LEMMA StartedReplacing ==
  ASSUME NEW h, NEW plan, Started(h, plan), NEW i \in DOMAIN TheLists, NEW list \in List, list = TheLists[i],
         plan[i] = Replace(cli.host, Listing(h), list)
  PROVE  Replacing(i)'
<1>1. /\ TheLists' = TheLists /\ cli'.host = cli.host /\ cli'.plan = plan /\ Mine(i)' = {} /\ DropOp(i)' = DropOp(i)
      /\ HostNamed(cli.host)' = HostNamed(cli.host) /\ \A k \in HostNamed(cli.host) : k = h
      /\ (\A k, f : FieldOf(k, f)' = FieldOf(k, f)) /\ \A k, name : Interfaces(k, name)' = Interfaces(k, name)
      /\ DOMAIN Listing(h) = PartsOf(h) /\ \A p \in PartsOf(h) : Listing(h)[p] = parts[p].part
  BY StartedFrame DEF Started
<1>2. PICK f, any : f = list.field /\ any = clear_field(cli.host, Listing(h), f, None)
  OBVIOUS
<1>3. plan[i].any = any /\ plan[i].calls = Creates(cli.host, list)
  BY <1>2, ChapterCalls DEF Replace
<1>4. /\ Len(Creates(cli.host, list)) = Len(list.entries) /\ Len(list.entries) \in Nat
      /\ DOMAIN Creates(cli.host, list) = 1..Len(list.entries)
      /\ \A m \in 1..Len(list.entries) : Creates(cli.host, list)[m] = CallPart(cli.host, list.entries[m])
  BY CreatesTyped, ListFields DEF Started, ReadsFrom
<1>5. Gone(i)' = 0
  BY <1>1, <1>3, <1>4 DEF Gone
<1>6. PICK S : S = FieldOf(h, f) /\ S = ReadOf(Listing(h), f) /\ IsFiniteSet(S)
  <2>1. FieldOf(h, f) \subseteq DOMAIN parts /\ IsFiniteSet(DOMAIN parts)
    BY DEF FieldOf, PartsOf, Started, Basic, Tables
  <2>2. IsFiniteSet(FieldOf(h, f))
    BY <2>1, FS_Subset
  <2> QED
    BY <2>2, StartedFrame
<1>7. /\ IsFiniteSet(any)
      /\ f # "interfaces" => (\A c \in any : c.op = "delete_part" /\ c.id \in S) /\ S = {c.id : c \in any}
      /\ f = "interfaces" =>
           /\ \A c \in any : c.op = "delete_interface"
           /\ \A name : Cardinality(NamedOf(Listing(h), S, name)) = Cardinality(DropsOf(any, name))
  BY <1>2, <1>6, ClearCalls
<1>8. Left(i)' = any
  BY <1>1, <1>3 DEF Left
<1>9. Cleared(i)'
  <2> SUFFICES ASSUME NEW k \in HostNamed(cli.host)
               PROVE  IF f = "interfaces"
                        THEN \A name \in Names : Cardinality(Interfaces(k, name)) = Cardinality(DropsOf(any, name))
                        ELSE FieldOf(k, f) = {c.id : c \in any}
    BY <1>1, <1>2, <1>8 DEF Cleared, DropsOf
  <2>1. k = h
    BY <1>1
  <2>2. ASSUME f = "interfaces", NEW name
        PROVE  Interfaces(h, name) = NamedOf(Listing(h), S, name)
    BY <1>1, <1>6, <2>2 DEF Interfaces, FieldOf, NamedOf
  <2> QED
    BY <1>6, <1>7, <2>1, <2>2
<1>10. \A c \in any : c.op = DropOp(i)
  BY <1>2, <1>7 DEF DropOp
<1>11. ASSUME NEW m \in DOMAIN cli'.plan[i].calls
       PROVE  cli'.plan[i].calls[m] = CallPart(cli.host, list.entries[0 + m])
  <2>1. m \in 1..Len(list.entries) /\ 0 + m = m
    BY <1>1, <1>3, <1>4
  <2> QED
    BY <1>1, <1>3, <1>4, <2>1
<1> QED
  BY <1>1, <1>3, <1>5, <1>7, <1>9, <1>10, <1>11 DEF Replacing

(* What every chapter of such a plan is.                                   *)
Fresh(h, plan, i) ==
  \/ i \in DOMAIN TheLists /\ TheLists[i] \in List /\ plan[i] = Replace(cli.host, Listing(h), TheLists[i])
  \/ ~Replaces(i) /\ \A c \in CallsOf(plan[i]) : c.op \notin Parting
  \/ /\ ~Replaces(i) /\ i \in DOMAIN TheLists
     /\ \A c \in CallsOf(plan[i]) : c.op \in Finding /\ Field(c.part.kind) = TheLists[i].field

LEMMA FreshImport ==
  ASSUME NEW h, NEW plan, Started(h, plan), cli.cmd = "import"
  PROVE  DOMAIN TheLists \subseteq DOMAIN plan /\ \A i \in DOMAIN plan : Fresh(h, plan, i)
<1>1. PICK n, read, file, D :
        /\ n = cli.host /\ read = Listing(h) /\ file = cli.arg.file /\ D = PartsOf(h)
  OBVIOUS
<1>2. /\ n \in Hostnames /\ D \in SUBSET Nat /\ read \in [D -> Part] /\ file \in File /\ TheLists = file.lists
      /\ plan = define_host_metadata(n, read, file, TRUE)
  <2>1. cli.arg.file \in File /\ cli.arg.force = TRUE
    BY ArgFields DEF Started, Basic
  <2>2. plan = define_host_metadata(cli.host, Listing(h), cli.arg.file, cli.arg.force)
    <3>1. plan \in Plans(cli.host, Listing(h))
      BY DEF Started, ReadsFrom
    <3> QED
      BY <3>1, ArgFields DEF Plans, Started, Basic
  <2> QED
    BY <1>1, <2>1, <2>2 DEF Started, ReadsFrom, TheLists
<1>3. /\ Len(file.lists) \in Nat /\ (\A j \in DOMAIN file.lists : file.lists[j] \in List)
      /\ DOMAIN file.lists = 1..Len(file.lists)
  BY <1>2, FileFields
<1>4. /\ DOMAIN plan = 1..(Len(file.lists) + 1)
      /\ \A i \in 1..Len(file.lists) : plan[i] =
           IF file.lists[i].field = "default_cloud"
             THEN Chapter({}, <<CallCloud("get_cloud", file.home)>>)
             ELSE Replace(n, read, file.lists[i])
      /\ plan[Len(file.lists) + 1] = Chapter({}, <<CallStore(n, None, None, file.home)>>)
  BY <1>2, ImportTyped, ZenonT(40)
<1>5. ASSUME NEW i \in DOMAIN plan
      PROVE  Fresh(h, plan, i)
  <2>1. CASE i = Len(file.lists) + 1
    <3>1. CallsOf(plan[i]) = {CallStore(n, None, None, file.home)}
      BY <1>4, <2>1, ChapterCalls
    <3>2. CallStore(n, None, None, file.home).op = "update_host"
      BY DEF CallStore
    <3>3. ~Replaces(i)
      BY <1>2, <1>3, <2>1 DEF Replaces
    <3> QED
      BY <3>1, <3>2, <3>3 DEF Fresh, Parting, Finding
  <2>2. CASE i \in 1..Len(file.lists) /\ file.lists[i].field = "default_cloud"
    <3>1. CallsOf(plan[i]) = {CallCloud("get_cloud", file.home)}
      BY <1>4, <2>2, ChapterCalls
    <3>2. CallCloud("get_cloud", file.home).op = "get_cloud"
      BY DEF CallCloud
    <3>3. ~Replaces(i)
      BY <1>2, <2>2 DEF Replaces
    <3> QED
      BY <3>1, <3>2, <3>3 DEF Fresh, Parting, Finding
  <2>3. CASE i \in 1..Len(file.lists) /\ file.lists[i].field # "default_cloud"
    BY <1>1, <1>2, <1>3, <1>4, <2>3 DEF Fresh
  <2> QED
    BY <1>3, <1>4, <2>1, <2>2, <2>3
<1> QED
  <2>1. DOMAIN file.lists \subseteq DOMAIN plan
    BY <1>3, <1>4
  <2> QED
    BY <1>2, <1>5, <2>1

LEMMA FreshScan ==
  ASSUME NEW h, NEW plan, Started(h, plan), cli.cmd = "lshw2meta"
  PROVE  /\ DOMAIN TheLists \subseteq DOMAIN plan /\ \A i \in DOMAIN plan : Fresh(h, plan, i)
         /\ DOMAIN plan = 1..4
         /\ plan[1].any = {} /\ \A c \in ToSet(plan[1].calls) : c.op = "find_interface"
         /\ plan[2].any = {} /\ DOMAIN plan[2].calls = 1..Len(TheLists[2].entries)
         /\ Len(plan[2].calls) = Len(TheLists[2].entries) /\ Len(TheLists[2].entries) \in Nat
         /\ \A m \in DOMAIN plan[2].calls : plan[2].calls[m] = [op |-> "find_disk", part |-> TheLists[2].entries[m]]
<1>1. PICK n, read, scan, D :
        /\ n = cli.host /\ read = Listing(h) /\ scan = cli.arg.file /\ D = PartsOf(h)
  OBVIOUS
<1>2. /\ n \in Hostnames /\ D \in SUBSET Nat /\ read \in [D -> Part] /\ scan \in Hardware /\ TheLists = scan.lists
      /\ plan = lshw2meta(n, read, scan)
  <2>1. cli.arg.file \in Hardware
    BY ArgFields DEF Started, Basic
  <2>2. plan = lshw2meta(cli.host, Listing(h), cli.arg.file)
    <3>1. plan \in Plans(cli.host, Listing(h))
      BY DEF Started, ReadsFrom
    <3> QED
      BY <3>1, ArgFields DEF Plans, Started, Basic
  <2> QED
    BY <1>1, <2>1, <2>2 DEF Started, ReadsFrom, TheLists
<1>3. /\ DOMAIN TheLists = 1..4 /\ TheLists[1].field = "interfaces" /\ TheLists[2].field = "disks"
      /\ ~Replaces(1) /\ ~Replaces(2) /\ \A i \in DOMAIN TheLists : TheLists[i] \in List
  BY ScanLists DEF Started, Basic
<1>4. Scanning(n, read, scan, plan)
  BY <1>2, ScanTyped
<1>5. /\ DOMAIN plan = 1..4 /\ \A i \in {3, 4} : plan[i] = Replace(n, read, TheLists[i])
  BY <1>2, <1>4 DEF Scanning
<1>6. ASSUME NEW i \in {1, 2}
      PROVE  /\ plan[i].any = {} /\ DOMAIN plan[i].calls = 1..Len(TheLists[i].entries)
             /\ Len(plan[i].calls) = Len(TheLists[i].entries) /\ Len(TheLists[i].entries) \in Nat
             /\ \A m \in DOMAIN plan[i].calls :
                  plan[i].calls[m] = [op |-> Finds(TheLists[i].field), part |-> TheLists[i].entries[m]]
  <2>1. /\ plan[i].any = {} /\ plan[i].calls \in Seq(Calls \cup Lookups)
        /\ Len(plan[i].calls) = Len(TheLists[i].entries)
        /\ \A m \in 1..Len(TheLists[i].entries) :
             plan[i].calls[m] = [op |-> Finds(TheLists[i].field), part |-> TheLists[i].entries[m]]
    BY <1>2, <1>4 DEF Scanning
  <2>2. DOMAIN plan[i].calls = 1..Len(plan[i].calls) /\ Len(plan[i].calls) \in Nat
    BY <2>1, LenProperties
  <2> QED
    BY <2>1, <2>2
<1>7. ASSUME NEW i \in {1, 2}, NEW c \in ToSet(plan[i].calls)
      PROVE  c.op = Finds(TheLists[i].field) /\ Field(c.part.kind) = TheLists[i].field
  <2>0. PICK m \in DOMAIN plan[i].calls : c = plan[i].calls[m]
    BY DEF ToSet
  <2>1. c = [op |-> Finds(TheLists[i].field), part |-> TheLists[i].entries[m]]
    BY <1>6, <2>0
  <2>2. /\ c.op = Finds(TheLists[i].field) /\ c.part = TheLists[i].entries[m]
    BY <2>1
  <2>3. TheLists[i] \in List /\ m \in DOMAIN TheLists[i].entries
    BY <1>3, <1>6, ListFields
  <2> QED
    BY <2>2, <2>3, ListFields
<1>8. ASSUME NEW i \in DOMAIN plan
      PROVE  Fresh(h, plan, i)
  <2>1. CASE i \in {3, 4}
    BY <1>1, <1>3, <1>5, <2>1 DEF Fresh
  <2>2. CASE i \in {1, 2}
    BY <1>3, <1>6, <1>7, <2>2 DEF Fresh, CallsOf, Finds, Finding
  <2> QED
    BY <1>5, <2>1, <2>2
<1>9. \A c \in ToSet(plan[1].calls) : c.op = "find_interface"
  BY <1>3, <1>7 DEF Finds
<1>10. \A m \in DOMAIN plan[2].calls : plan[2].calls[m] = [op |-> "find_disk", part |-> TheLists[2].entries[m]]
  <2>1. Finds(TheLists[2].field) = "find_disk"
    BY <1>3 DEF Finds
  <2> QED
    BY <1>6, <2>1
<1> QED
  BY <1>3, <1>5, <1>6, <1>8, <1>9, <1>10

LEMMA StartedSorted ==
  ASSUME NEW h, NEW plan, Started(h, plan),
         DOMAIN TheLists \subseteq DOMAIN plan, \A i \in DOMAIN plan : Fresh(h, plan, i)
  PROVE  Sorted'
<1>1. /\ TheLists' = TheLists /\ cli'.read = Listing(h) /\ cli'.plan = plan /\ cli'.at = "run" /\ Flight' = {}
      /\ DOMAIN Listing(h) = PartsOf(h) /\ cli.host \in Hostnames
      /\ \A f : FieldOf(h, f) = ReadOf(Listing(h), f)
  <2>1. Flight' = {} /\ cli.host \in Hostnames
    BY DEF Started, ReadsFrom
  <2> QED
    BY <2>1, StartedFrame
<1>2. \A c : CallField(c)' = CASE c.op = "delete_part" -> Field(Listing(h)[c.id].kind)
                               [] c.op = "delete_interface" -> "interfaces"
                               [] OTHER -> Field(c.part.kind)
  BY <1>1 DEF CallField
<1>3. ASSUME NEW i \in DOMAIN plan, NEW c \in CallsOf(plan[i])
      PROVE  /\ c.op \in Parting => i \in DOMAIN TheLists /\ CallField(c)' = TheLists[i].field
             /\ c.op = "delete_part" => c.id \in DOMAIN Listing(h)
  <2>1. CASE i \in DOMAIN TheLists /\ TheLists[i] \in List /\ plan[i] = Replace(cli.host, Listing(h), TheLists[i])
    <3>1. PICK f, any : f = TheLists[i].field /\ any = clear_field(cli.host, Listing(h), f, None)
      OBVIOUS
    <3>2. CallsOf(plan[i]) = any \cup ToSet(Creates(cli.host, TheLists[i]))
      BY <2>1, <3>1, ChapterCalls DEF Replace
    <3>3. CASE c \in any
      <4>1. IsFiniteSet(FieldOf(h, f))
        <5>1. FieldOf(h, f) \subseteq DOMAIN parts /\ IsFiniteSet(DOMAIN parts)
          BY DEF FieldOf, PartsOf, Started, Basic, Tables
        <5> QED
          BY <5>1, FS_Subset
      <4>2. PICK S : S = ReadOf(Listing(h), f) /\ IsFiniteSet(S)
        BY <1>1, <4>1
      <4>3. /\ f # "interfaces" => c.op = "delete_part" /\ c.id \in S
            /\ f = "interfaces" => c.op = "delete_interface"
        BY <3>1, <3>3, <4>2, ClearCalls
      <4> QED
        BY <1>2, <2>1, <3>1, <4>2, <4>3 DEF ReadOf
    <3>4. CASE c \in ToSet(Creates(cli.host, TheLists[i]))
      <4>1. PICK m \in 1..Len(TheLists[i].entries) : c = CallPart(cli.host, TheLists[i].entries[m])
        BY <1>1, <2>1, <3>4, ListCalls
      <4>2. c.op = "create_part" /\ c.part = TheLists[i].entries[m]
        BY <4>1 DEF CallPart
      <4>3. Field(c.part.kind) = TheLists[i].field
        BY <2>1, <4>2, ListFields
      <4> QED
        BY <1>2, <2>1, <4>2, <4>3
    <3> QED
      BY <3>2, <3>3, <3>4
  <2>2. CASE \A d \in CallsOf(plan[i]) : d.op \notin Parting
    BY <2>2 DEF Parting
  <2>3. CASE /\ i \in DOMAIN TheLists
             /\ \A d \in CallsOf(plan[i]) : d.op \in Finding /\ Field(d.part.kind) = TheLists[i].field
    BY <1>2, <2>3 DEF Finding
  <2> QED
    BY <2>1, <2>2, <2>3 DEF Fresh
<1>4. \A c \in Planned' : \E i \in DOMAIN plan : c \in CallsOf(plan[i])
  BY <1>1, PlannedAt
<1> QED
  BY <1>1, <1>3, <1>4 DEF Sorted

LEMMA ReadHostWritten ==
  ASSUME Basic, InventoryConstants, NoTwins, ReadHost
  PROVE  Written'
<1> SUFFICES ASSUME Doing'
             PROVE  Written'
  BY DEF Written
<1>1. UNCHANGED <<rows, req, crossed>> /\ cli.at = "read"
  <2>1. cli.at = "read"
    BY ZenonT(30) DEF ReadHost
  <2> QED
    BY <2>1, Readings DEF Basic
<1>2. cli' # [cli EXCEPT !.at = "stopped"]
  BY DEF Doing, Basic, CliType
<1>3. PICK h, plan : ReadsFrom(h, plan)
  BY <1>2, Readings DEF Basic
<1>4. Flight' = {} /\ req'[Cli].at = "idle"
  BY <1>1 DEF Flight, Busy, Basic, Turns
<1>5. Started(h, plan)
  <2>1. cli.cmd \in {"import", "lshw2meta"} /\ cli.arg.force /\ <<cli.host>> \notin crossed
    BY <1>1, <1>3 DEF Doing, ReadsFrom
  <2>2. \A k \in HostNamed(cli.host) : k = h
    BY <1>3, <2>1 DEF NoTwins, HostNamed, ReadsFrom
  <2> QED
    BY <1>1, <1>3, <1>4, <2>1, <2>2 DEF Started
<1>6. DOMAIN TheLists \subseteq DOMAIN plan /\ \A i \in DOMAIN plan : Fresh(h, plan, i)
  BY <1>5, FreshImport, FreshScan DEF Started
<1>7. Sorted' /\ Held'
  BY <1>4, <1>5, <1>6, StartedSorted DEF Held
<1>8. ASSUME NEW i \in DOMAIN TheLists, Replaces(i)
      PROVE  Replacing(i)'
  <2>1. TheLists[i] \in List /\ plan[i] = Replace(cli.host, Listing(h), TheLists[i])
    BY <1>6, <1>8 DEF Fresh
  <2> QED
    BY <1>5, <2>1, StartedReplacing
<1>9. /\ TheLists' = TheLists /\ (\A i : Replaces(i)' <=> Replaces(i)) /\ cli'.cmd = cli.cmd /\ cli'.plan = plan
      /\ cli'.host = cli.host
  BY <1>5, StartedFrame
<1>10. ASSUME cli.cmd = "lshw2meta"
       PROVE  Counting'
  <2>1. /\ DOMAIN plan = 1..4
        /\ plan[1].any = {} /\ \A c \in ToSet(plan[1].calls) : c.op = "find_interface"
        /\ plan[2].any = {}
        /\ Len(plan[2].calls) = Len(TheLists[2].entries) /\ Len(TheLists[2].entries) \in Nat
        /\ DOMAIN plan[2].calls = 1..Len(TheLists[2].entries)
        /\ \A m \in DOMAIN plan[2].calls : plan[2].calls[m] = [op |-> "find_disk", part |-> TheLists[2].entries[m]]
    BY <1>5, <1>10, FreshScan, ZenonT(40)
  <2>2. Gone(2)' = 0
    BY <1>9, <2>1 DEF Gone
  <2>3. \A h1 : Fixing(h1)' = {}
    BY <1>4, <1>9, <2>1 DEF Fixing
  <2>4. \A m \in DOMAIN plan[2].calls : plan[2].calls[m] = [op |-> "find_disk", part |-> TheLists[2].entries[0 + m]]
    <3>1. \A m \in DOMAIN plan[2].calls : 0 + m = m
      BY <2>1
    <3> QED
      BY <2>1, <3>1
  <2> QED
    BY <1>4, <1>9, <2>1, <2>2, <2>3, <2>4 DEF Counting
<1> QED
  BY <1>7, <1>8, <1>9, <1>10 DEF Written

LEMMA WrittenInit ==
  ASSUME Init
  PROVE  Written
<1>1. cli.at = "idle"
  BY DEF Init, Job
<1> QED
  BY <1>1 DEF Written, Doing

LEMMA WrittenStep ==
  ASSUME Aware, Checks, NoTwins, Written, InventoryConstants, [Next]_vars
  PROVE  Written'
<1>0. Cli \in Slots /\ Cli \notin Clients /\ Basic
  BY Slotted DEF Aware
<1>1. ASSUME NEW r \in Slots, Handle(r)
      PROVE  Written'
  <2>1. CASE r # Cli
    BY <1>0, <1>1, <2>1, OthersWritten
  <2>2. CASE r = Cli
    BY <1>1, <2>2, HandlerKinds, OwnRead, OwnWritten DEF Aware
  <2> QED
    BY <2>1, <2>2
<1>2. CASE Begins \/ Stop
  BY <1>0, <1>2, NotDoing DEF Written
<1>3. CASE ReadHost
  BY <1>0, <1>3, ReadHostWritten
<1>4. CASE Look
  BY <1>4, LookWritten DEF Aware
<1>5. CASE Proceed
  <2>1. /\ UNCHANGED <<rows, exported, crossed, env>>
        /\ Through_ \/ \E i \in DOMAIN cli.plan, c \in Calls : Asking(i, c)
    BY <1>0, <1>5, Proceeds DEF Basic
  <2> QED
    BY <2>1, ThroughWritten, AskingWritten DEF Aware
<1>6. CASE Elsewhere
  <2>1. UNCHANGED <<hosts, parts, cli, crossed>> /\ req'[Cli] = req[Cli]
    BY <1>0, <1>6, ElsewhereFrame DEF Basic
  <2> QED
    BY <1>0, <2>1, QuietWritten
<1>7. ASSUME NEW r \in Clients, Submit(r)
      PROVE  Written'
  <2>1. UNCHANGED <<rows, cli, crossed>> /\ \E c \in Calls : Ask(r, c)
    BY <1>0, <1>7, Submits DEF Basic
  <2>2. req'[Cli] = req[Cli]
    BY <1>0, <2>1 DEF Ask, Basic, Requests
  <2> QED
    BY <1>0, <2>1, <2>2, QuietWritten DEF rows
<1>8. CASE UNCHANGED vars
  BY <1>0, <1>8, QuietWritten DEF vars
<1> QED
  BY <1>1, <1>2, <1>3, <1>4, <1>5, <1>6, <1>7, <1>8, CommandKinds DEF Next

(* The list that a command has worked off.                                 *)
LEMMA WorkedOff ==
  ASSUME Basic, Doing, cli.at = "done", NEW i \in DOMAIN TheLists, Sorted, TheLists[i] \in List
  PROVE  /\ Flight = {} /\ cli.plan[i].any = {} /\ Mine(i) = {} /\ Left(i) = {} /\ i \in DOMAIN cli.plan
         /\ Gone(i) = Len(TheLists[i].entries) /\ Made(i) = Gone(i) /\ Gone(i) \in Nat
<1>1. req[Cli].at = "idle" /\ Flight = {}
  BY DEF Basic, Turns, Flight, Busy
<1>2. i \in DOMAIN cli.plan /\ cli.plan[i] = Through
  BY DEF Sorted
<1>3. cli.plan[i].any = {} /\ cli.plan[i].calls = <<>> /\ Len(<<>>) = 0
  BY <1>2, ChapterCalls DEF Through
<1>4. Len(TheLists[i].entries) \in Nat
  BY ListFields
<1>5. Gone(i) = Len(TheLists[i].entries)
  BY <1>3, <1>4 DEF Gone
<1>6. Mine(i) = {}
  BY <1>1 DEF Mine
<1> QED
  BY <1>1, <1>2, <1>3, <1>4, <1>5, <1>6 DEF Left, Made

LEMMA ReplacedAll ==
  ASSUME Basic, Doing, cli.at = "done", NEW i \in DOMAIN TheLists, Sorted, NEW list \in List, list = TheLists[i],
         Replacing(i), NEW h \in HostNamed(cli.host), NEW p \in Part
  PROVE  Count(h, list.field, p) = Listed(list, p)
<1>1. Left(i) = {} /\ Gone(i) = Len(list.entries) /\ Made(i) = Gone(i) /\ Gone(i) \in Nat
  BY WorkedOff
<1>2. Filled(i)
  <2>1. CASE Gone(i) = 0
    BY <1>1, <2>1, ClearedFilled DEF Replacing
  <2>2. CASE Gone(i) # 0
    BY <2>2 DEF Replacing
  <2> QED
    BY <2>1, <2>2
<1>3. Count(h, list.field, p) = Among(list.entries, Len(list.entries), p)
  BY <1>1, <1>2 DEF Filled
<1>4. Among(list.entries, Len(list.entries), p) = Listed(list, p)
  <2>1. DOMAIN list.entries = 1..Len(list.entries)
    BY ListFields
  <2> QED
    BY <2>1 DEF Among, Listed
<1> QED
  BY <1>3, <1>4

LEMMA CountedAll ==
  ASSUME Basic, Doing, cli.at = "done", cli.cmd = "lshw2meta", Sorted, Counting,
         NEW h \in HostNamed(cli.host), NEW p \in ToSet(TheLists[2].entries)
  PROVE  Count(h, "disks", p) > 0
<1>1. 2 \in DOMAIN TheLists /\ TheLists[2] \in List
  BY ScanLists DEF Basic
<1>2. Flight = {} /\ cli.plan[2].any = {} /\ Gone(2) = Len(TheLists[2].entries)
  BY <1>1, WorkedOff
<1>3. Fixing(h) = {}
  BY <1>2 DEF Fixing
<1>4. PICK m \in 1..Gone(2) : p = TheLists[2].entries[m]
  <2>1. DOMAIN TheLists[2].entries = 1..Len(TheLists[2].entries)
    BY <1>1, ListFields
  <2> QED
    BY <1>2, <2>1 DEF ToSet
<1>5. Have(h, p)
  BY <1>3, <1>4 DEF Counting
<1>6. PICK d \in FieldOf(h, "disks") : parts[d].part = p
  BY <1>5 DEF Have
<1>7. PICK S : S = {x \in FieldOf(h, "disks") : parts[x].part = p}
  OBVIOUS
<1>8. IsFiniteSet(S) /\ S # {}
  <2>1. S \subseteq DOMAIN parts /\ IsFiniteSet(DOMAIN parts)
    BY <1>7 DEF FieldOf, PartsOf, Basic, Tables
  <2> QED
    BY <1>6, <1>7, <2>1, FS_Subset
<1>9. Cardinality(S) \in Nat /\ Cardinality(S) # 0
  BY <1>8, FS_CardinalityType, FS_EmptySet
<1>10. Count(h, "disks", p) = Cardinality(S)
  BY <1>7 DEF Count
<1> QED
  BY <1>9, <1>10

LEMMA WrittenImplies ==
  ASSUME Basic, Written
  PROVE  ImportedAsWritten
<1> SUFFICES ASSUME (Ended("import", {"done"}) /\ cli.arg.force) \/ Ended("lshw2meta", {"done"}),
                    NEW h \in HostNamed(cli.host), NEW i \in DOMAIN TheLists, NEW list, list = TheLists[i]
             PROVE  CASE cli.cmd = "lshw2meta" /\ list.field = "interfaces" -> TRUE
                      [] cli.cmd = "lshw2meta" /\ list.field = "disks" ->
                           \A p \in ToSet(list.entries) : Count(h, list.field, p) > 0
                      [] OTHER ->
                           \A p \in {parts[x].part : x \in FieldOf(h, list.field)} \cup ToSet(list.entries) :
                             Count(h, list.field, p) = Listed(list, p)
  BY DEF ImportedAsWritten, TheLists
<1>1. cli.at = "done" /\ cli.cmd \in {"import", "lshw2meta"} /\ ~cli.doubt /\ <<cli.host>> \notin crossed
  BY DEF Ended
<1>2. cli.arg.force
  BY ArgFields DEF Ended, Basic
<1>3. req[Cli].at = "idle"
  BY <1>1 DEF Basic, Turns
<1>4. Doing
  BY <1>1, <1>2, <1>3 DEF Doing
<1>5. Sorted /\ (Replaces(i) => Replacing(i)) /\ (cli.cmd = "lshw2meta" => Counting)
  BY <1>4 DEF Written
<1>6. list \in List
  <2>1. \/ cli.arg.file \in File
        \/ cli.arg.file \in Hardware
    BY <1>1, ArgFields DEF Basic
  <2> QED
    BY <2>1, FileFields, ScanFields DEF TheLists
<1>7. \A p \in {parts[x].part : x \in FieldOf(h, list.field)} \cup ToSet(list.entries) :
        p \in Part /\ Field(p.kind) = list.field
  <2>1. \A x \in FieldOf(h, list.field) : parts[x].part \in Part /\ Field(parts[x].part.kind) = list.field
    BY DEF FieldOf, PartsOf, Basic, Tables
  <2>2. \A p \in ToSet(list.entries) : p \in Part /\ Field(p.kind) = list.field
    BY <1>6, ListFields DEF ToSet
  <2> QED
    BY <2>1, <2>2
<1>8. CASE Replaces(i)
  <2>1. \A p \in Part : Count(h, list.field, p) = Listed(list, p)
    BY <1>1, <1>4, <1>5, <1>6, <1>8, ReplacedAll
  <2>2. ~(cli.cmd = "lshw2meta" /\ list.field \in {"interfaces", "disks"})
    BY <1>8 DEF Replaces, Handled
  <2> QED
    BY <1>7, <2>1, <2>2
<1>9. CASE list.field = "default_cloud"
  <2>1. \A k : Field(k) # "default_cloud"
    BY FieldKind DEF Fields
  <2> QED
    BY <1>7, <1>9, <2>1
<1>10. CASE cli.cmd = "lshw2meta" /\ list.field \notin Handled
  <2>1. list.field = "interfaces" \/ (i = 2 /\ list.field = "disks")
    BY <1>10, ScanLists DEF Basic, Handled
  <2>2. i = 2 => \A p \in ToSet(list.entries) : Count(h, "disks", p) > 0
    BY <1>1, <1>4, <1>5, <1>10, CountedAll
  <2> QED
    BY <1>10, <2>1, <2>2
<1> QED
  BY <1>1, <1>8, <1>9, <1>10 DEF Replaces

\* An import with --force, or a scan, that ends without an error, that no
\* other writer crossed and none of whose own commits failed unseen leaves
\* each list as it was written: whatever the
\* host had before, in whatever order the server lists it, and whatever
\* the other clients do to other hosts meanwhile.
THEOREM ImportedFaithfully == Spec => []ImportedAsWritten
<1>1. Init => Aware /\ Checks /\ NoTwins /\ Written
  BY InventoryConstants, AwareInit, ChecksInit, TwinsInit, WrittenInit
<1>2. Aware /\ Checks /\ NoTwins /\ Written /\ [Next]_vars => (Aware /\ Checks /\ NoTwins /\ Written)'
  BY InventoryConstants, AwareStep, TwinsStep, WrittenStep DEF Aware
<1>3. Aware /\ Written => ImportedAsWritten
  BY WrittenImplies DEF Aware
<1> QED
  BY <1>1, <1>2, <1>3, PTL DEF Spec
=============================================================================
