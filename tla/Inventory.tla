----------------------------- MODULE Inventory -----------------------------
(***************************************************************************)
(* What QUADS knows of its machines: clouds, hosts and the parts of a host *)
(* (interfaces, disks, memory, processors), the REST resources that keep   *)
(* them, and the commands of quads-cli that edit them: import, export and  *)
(* removal of host metadata, --mod-host, --mod-interface, --rm-interface,  *)
(* --define-host, --rm-host and --rm-cloud; and lshw2meta, which takes the *)
(* parts from a hardware scan.                                             *)
(*                                                                         *)
(* A REST request reads in one step and commits in another; a command is   *)
(* one REST call after another, stopped by the first that is not answered  *)
(* 200 or 201.  No handler looks at the result of safe_commit(): a commit  *)
(* that fails is answered as if it had succeeded.                          *)
(* Of a part the model keeps its kind, the handle or name its handler      *)
(* looks at, and one value for the other columns.  Left out: host columns  *)
(* other than name and clouds, VLAN rows and the read-only views.          *)
(***************************************************************************)
EXTENDS Integers, FiniteSets, Functions, Sequences, SequencesExt

CONSTANTS Hostnames, Clouds,
          Spare,       \* Config["spare_pool_name"]
          Names,       \* handles of memory and processors, interface names, disk types
          Values,      \* the other columns of a part
          Stock,       \* the parts of the first host before anything happens
          Drafts,      \* the parts other clients ask to create
          Files,       \* the metadata files an operator may write
          Scans,       \* what lshw reports: one list a field, in the order of Scanned
          Components,  \* the sets of components an operator may remove
          Clients,     \* request slots of other clients
          Cli,         \* the request slot of the command line
          None,
          MaxRows, MaxJobs,   \* bounds of the instance
          MaxTroubles  \* requests of other clients and failed commits, together

\* "untyped" is a processor without processor_type: only files have it.
Kinds == {"interface", "disk", "memory", "CPU", "GPU", "untyped"}
Part == [kind : Kinds, name : Names, value : Values, full : BOOLEAN]

Fields == {"interfaces", "disks", "memory", "processors"}

Field(kind) ==
  CASE kind = "interface" -> "interfaces" [] kind = "disk" -> "disks"
    [] kind = "memory" -> "memory" [] OTHER -> "processors"

\* One list of a file, "default_cloud" for the key that is none; the keys
\* of a host in a file are different from each other.
List == {l \in [field : Fields \cup {"default_cloud"}, entries : Seq(Part)] :
           \A i \in DOMAIN l.entries : Field(l.entries[i].kind) = l.field}
File == {f \in [home : Clouds, full : BOOLEAN, lists : Seq(List)] :
           \A i, j \in DOMAIN f.lists : f.lists[i].field = f.lists[j].field => i = j}

\* The order in which a scan is worked off; its disks are counted by type
\* and size, the key of a dictionary.
Scanned == <<"interfaces", "disks", "memory", "processors">>
Hardware == {s \in [lists : Seq(List)] :
           /\ [i \in DOMAIN s.lists |-> s.lists[i].field] = Scanned
           /\ \A i, j \in DOMAIN s.lists[2].entries :
                /\ s.lists[2].entries[i].full
                /\ s.lists[2].entries[i].name = s.lists[2].entries[j].name => i = j}

\* Handles that a check guards.
Handled == {"memory", "processors"}

ASSUME InventoryConstants ==
  /\ Spare \in Clouds /\ Cli \notin Clients /\ None \notin Clouds \cup Hostnames \cup Names \cup Values \cup Nat
  /\ Drafts \subseteq Part /\ \A f \in Files : f \in File
  /\ \A s \in Scans : s \in Hardware
  /\ Stock \subseteq Part /\ IsFiniteSet(Stock) /\ \A p \in Stock : p.full
  /\ \A p, q \in Stock :
       Field(p.kind) = Field(q.kind) /\ Field(p.kind) \in Handled /\ p.name = q.name => p = q
  /\ \A C \in Components : IsFiniteSet(C)
  /\ {MaxRows, MaxJobs, MaxTroubles} \subseteq Nat

VARIABLES
  clouds,   \* the names of the cloud rows
  hosts,    \* row id -> [name, cloud, home]; home is default_cloud
  parts,    \* row id -> the part and the row id of its host
  booked,   \* hosts that schedule rows name
  active,   \* row id -> the cloud of an active assignment, None once SET NULL
  req,      \* slot -> [at, call, seen, held, doubt]: the id of the row its handler
            \* holds and, in a PATCH, the row as it was when it was read
  cli,      \* the command being run, or the last one: see Job
  exported, \* what --export-host-details wrote
  crossed,  \* history: inserted next to a twin that its handler could not see,
            \* or given a name that another host has
  env       \* [row, jobs, troubles]: the sequence of ids and the counters

vars == <<clouds, hosts, parts, booked, active, req, cli, exported, crossed, env>>
rows == <<clouds, hosts, parts, booked, active>>

Idle == [at |-> "idle", call |-> None, seen |-> None, held |-> None, doubt |-> FALSE]
Slots == Clients \cup {Cli}

\* A table with a row more.
Insert(table, row) ==
  [id \in DOMAIN table \cup {env.row} |-> IF id = env.row THEN row ELSE table[id]]

HostNamed(n) == {h \in DOMAIN hosts : hosts[h].name = n}
PartsOf(h) == {p \in DOMAIN parts : parts[p].host = h}
FieldOf(h, f) == {p \in PartsOf(h) : Field(parts[p].part.kind) = f}

\* query(...).first(): any of the rows, None when there is none.
First(S) == IF S = {} THEN {None} ELSE S

(***************************************************************************)
(* A request: asked, read by its handler, answered.                        *)
(***************************************************************************)
Ask(r, call) == req' = [req EXCEPT ![r] = [Idle EXCEPT !.at = "asked", !.call = call]]

\* The command line looks at the answer, the other clients throw it away.
Answered(r, a) == IF r = Cli THEN [Idle EXCEPT !.at = a] ELSE Idle
Answer(r, a) == req' = [req EXCEPT ![r] = Answered(r, a)]

\* The handler has read: it goes on with the row it holds or answers 400.
Checked(r, row, accepted) ==
  IF accepted THEN req' = [req EXCEPT ![r] = [@ EXCEPT !.at = "read", !.seen = row]]
              ELSE Answer(r, "refused")

Asked(r, ops) == req[r].at = "asked" /\ req[r].call.op \in ops
Read(r, ops) == req[r].at = "read" /\ req[r].call.op \in ops

\* What crosses a command, as often as the instance allows.
Trouble == /\ env.troubles < MaxTroubles
           /\ env' = [env EXCEPT !.troubles = @ + 1]

\* A commit the database refuses.
Fault == Trouble

\* The command doubts what it reads when somebody else writes to its host,
\* or when a commit of its own fails: a history, no code reads it.
Disturb(n) == cli' = IF cli.at # "idle" /\ cli.host = n
                       THEN [cli EXCEPT !.doubt = TRUE] ELSE cli
Disturbed(r, n) == IF r = Cli THEN UNCHANGED cli ELSE Disturb(n)

\* So it does when a row of its host is given another name, or a host its
\* name: the rows are remembered.
Rename(n, id) == cli' = IF cli.at # "idle" /\ cli.host \in n
                          THEN [cli EXCEPT !.doubt = TRUE, !.renamed = @ \cup {id}] ELSE cli

\* What the check for an existing row compares.
Key(q) == IF q.call.op = "create_host" THEN <<q.call.host>>
          ELSE <<q.seen, Field(q.call.part.kind), q.call.part.name>>

\* Requests that have looked for a row with this key can no longer know.
Overtaken(r, key) ==
  [x \in Slots |->
     IF x = r THEN Answered(r, "ok")
     ELSE IF Read(x, {"create_host", "create_part"}) /\ Key(req[x]) = key
       THEN [req[x] EXCEPT !.doubt = TRUE] ELSE req[x]]

\* The handler of a PATCH holds the row.  The ORM writes the columns that
\* then differ from what was read; None is a column the PATCH leaves alone.
Holds(r, id, row, accepted) ==
  IF accepted THEN req' = [req EXCEPT ![r] = [@ EXCEPT !.at = "read", !.seen = id, !.held = row]]
              ELSE Answer(r, "refused")
Column(new, was, now) == IF new \in {None, was} THEN now ELSE new

(***************************************************************************)
(* Parts                                                                   *)
(***************************************************************************)
\* A handle is checked by reading: the columns have no unique constraint.
HandleTaken(h, p) ==
  \E x \in FieldOf(h, Field(p.kind)) : parts[x].part.name = p.name

\* A form of create_processor in which the handle is not looked up.
create_processor_unchecked(h, p) == p.full /\ p.kind # "untyped"

create_processor(h, p) == p.full /\ p.kind # "untyped" /\ ~HandleTaken(h, p)
create_memory(h, p) == p.full /\ ~HandleTaken(h, p)
create_disks(h, p) == p.full
create_interface(h, p) == p.full

Accepts(h, p) ==
  CASE Field(p.kind) = "processors" -> create_processor(h, p)
    [] Field(p.kind) = "memory" -> create_memory(h, p)
    [] Field(p.kind) = "disks" -> create_disks(h, p)
    [] OTHER -> create_interface(h, p)

CreatePart(r) ==
  /\ Asked(r, {"create_part"})
  /\ \E h \in First(HostNamed(req[r].call.host)) :
       Checked(r, h, h # None /\ Accepts(h, req[r].call.part))
  /\ UNCHANGED <<rows, cli, exported, crossed, env>>

\* 201 whether the row is stored or not: host_id is a foreign key.
InsertPart(r) ==
  LET q == req[r]
  IN /\ Read(r, {"create_part"}) /\ env.row <= MaxRows
     /\ \/ /\ q.seen \in DOMAIN hosts
           /\ parts' = Insert(parts, [host |-> q.seen, part |-> q.call.part])
           /\ env' = [env EXCEPT !.row = @ + 1]
           /\ req' = Overtaken(r, Key(q))
           /\ crossed' = IF q.doubt THEN crossed \cup {Key(q)} ELSE crossed
           /\ Disturbed(r, hosts[q.seen].name)
        \/ /\ IF q.seen \in DOMAIN hosts THEN Fault ELSE UNCHANGED env
           /\ Answer(r, "ok") /\ Disturb(q.call.host)
           /\ UNCHANGED <<parts, crossed>>
     /\ UNCHANGED <<clouds, hosts, booked, active, exported>>

\* DELETE of a disk, memory or processor names the row.
DeletePart(r) ==
  /\ Asked(r, {"delete_part"})
  /\ Checked(r, req[r].call.id, req[r].call.id \in DOMAIN parts)
  /\ UNCHANGED <<rows, cli, exported, crossed, env>>

\* DELETE of an interface names the host and the interface: one of that name.
DeleteInterface(r) ==
  /\ Asked(r, {"delete_interface"})
  /\ \E h \in First(HostNamed(req[r].call.host)) :
     \E p \in First({x \in FieldOf(h, "interfaces") : parts[x].part.name = req[r].call.name}) :
       Checked(r, p, h # None /\ p # None)
  /\ UNCHANGED <<rows, cli, exported, crossed, env>>

\* Deleting a row that is gone already is no error.
ErasePart(r) ==
  LET p == req[r].seen
      n == IF p \in DOMAIN parts THEN hosts[parts[p].host].name ELSE None
  IN /\ Read(r, {"delete_part", "delete_interface"})
     /\ Answer(r, "ok")
     /\ \/ parts' = Restrict(parts, DOMAIN parts \ {p}) /\ Disturbed(r, n) /\ UNCHANGED env
        \/ Fault /\ Disturb(n) /\ UNCHANGED parts
     /\ UNCHANGED <<clouds, hosts, booked, active, exported, crossed>>

\* PATCH of an interface or a disk: the host must exist, but the row is
\* taken by its id and may be another host's.
UpdatePart(r) ==
  LET id == req[r].call.id
      known == id \in DOMAIN parts /\ Field(parts[id].part.kind) \notin Handled
  IN /\ Asked(r, {"update_part"})
     /\ IF known THEN Holds(r, id, parts[id].part, HostNamed(req[r].call.host) # {})
                 ELSE Answer(r, "refused")
     /\ UNCHANGED <<rows, cli, exported, crossed, env>>

\* An UPDATE that matches no row fails, and reading the row again with it.
StorePart(r) ==
  LET q == req[r]
      p == q.seen
      n == hosts[parts[p].host].name
      new == [parts[p].part EXCEPT !.name = Column(q.call.name, q.held.name, @),
                                   !.value = Column(q.call.value, q.held.value, @)]
  IN /\ Read(r, {"update_part"})
     /\ IF p \notin DOMAIN parts
          THEN Answer(r, "error") /\ UNCHANGED <<parts, cli, env>>
          ELSE /\ Answer(r, "ok")
               /\ \/ /\ parts' = [parts EXCEPT ![p].part = new] /\ UNCHANGED env
                     /\ IF new.name = parts[p].part.name THEN Disturbed(r, n) ELSE Rename({n}, p)
                  \/ Fault /\ Disturb(q.call.host) /\ UNCHANGED parts
     /\ UNCHANGED <<clouds, hosts, booked, active, exported, crossed>>

(***************************************************************************)
(* Hosts and clouds                                                        *)
(***************************************************************************)
CreateHost(r) ==
  /\ Asked(r, {"create_host"})
  /\ Checked(r, None, /\ req[r].call.full
                      /\ HostNamed(req[r].call.host) = {}
                      /\ req[r].call.home \in clouds)
  /\ UNCHANGED <<rows, cli, exported, crossed, env>>

\* The name of a host is not unique in the database.
InsertHost(r) ==
  LET q == req[r]
  IN /\ Read(r, {"create_host"}) /\ env.row <= MaxRows
     /\ \/ /\ q.call.home \in clouds
           /\ hosts' = Insert(hosts, [name |-> q.call.host, cloud |-> q.call.home, home |-> q.call.home])
           /\ env' = [env EXCEPT !.row = @ + 1]
           /\ req' = Overtaken(r, Key(q))
           /\ crossed' = IF q.doubt THEN crossed \cup {Key(q)} ELSE crossed
           /\ Disturbed(r, q.call.host)
        \/ /\ IF q.call.home \in clouds THEN Fault ELSE UNCHANGED env
           /\ Answer(r, "ok") /\ Disturb(q.call.host)
           /\ UNCHANGED <<hosts, crossed>>
     /\ UNCHANGED <<clouds, parts, booked, active, exported>>

DeleteHost(r) ==
  /\ Asked(r, {"delete_host"})
  /\ Checked(r, None, HostNamed(req[r].call.host) # {})
  /\ UNCHANGED <<rows, cli, exported, crossed, env>>

\* A form of Cascade in which the parts of a host stay.
CascadeNot(h) == parts

\* cascade="all, delete-orphan": the parts go with the host.
Cascade(h) == Restrict(parts, DOMAIN parts \ PartsOf(h))

\* HostDao.remove_host looks for the host again.  Schedules have a foreign
\* key to the host and are not part of the cascade: the commit fails.
RemoveHost(r) ==
  /\ Read(r, {"delete_host"})
  /\ \E h \in First(HostNamed(req[r].call.host)) :
       IF h = None THEN Answer(r, "error") /\ UNCHANGED <<hosts, parts, cli, env>>
       ELSE /\ Answer(r, "ok")
            /\ \/ /\ h \notin booked
                  /\ hosts' = Restrict(hosts, DOMAIN hosts \ {h})
                  /\ parts' = Cascade(h)
                  /\ Disturbed(r, req[r].call.host) /\ UNCHANGED env
               \/ /\ IF h \in booked THEN UNCHANGED env ELSE Fault
                  /\ Disturb(req[r].call.host) /\ UNCHANGED <<hosts, parts>>
  /\ UNCHANGED <<clouds, booked, active, exported, crossed>>

\* PATCH of a host.
UpdateHost(r) ==
  /\ Asked(r, {"update_host"})
  /\ IF HostNamed(req[r].call.host) = {} THEN Answer(r, "refused")
     ELSE \E h \in HostNamed(req[r].call.host) :
            Holds(r, h, hosts[h], {req[r].call.cloud, req[r].call.home} \subseteq clouds \cup {None})
  /\ UNCHANGED <<rows, cli, exported, crossed, env>>

\* Nobody asks whether another host has the name already.
StoreHost(r) ==
  LET q == req[r]
      h == q.seen
      new == [name |-> Column(q.call.name, q.held.name, hosts[h].name),
              cloud |-> Column(q.call.cloud, q.held.cloud, hosts[h].cloud),
              home |-> Column(q.call.home, q.held.home, hosts[h].home)]
      kept == {new.cloud, new.home} \subseteq clouds
  IN /\ Read(r, {"update_host"})
     /\ \/ /\ h \in DOMAIN hosts /\ kept /\ UNCHANGED env
           /\ hosts' = [hosts EXCEPT ![h] = new]
           /\ IF new.name = hosts[h].name THEN Answer(r, "ok") /\ UNCHANGED <<cli, crossed>>
              ELSE /\ req' = Overtaken(r, <<new.name>>)
                   /\ crossed' = IF HostNamed(new.name) = {} THEN crossed
                                 ELSE crossed \cup {<<new.name>>}
                   /\ Rename({hosts[h].name, new.name}, h)
        \/ /\ Answer(r, IF h \in DOMAIN hosts THEN "ok" ELSE "error")
           /\ IF h \in DOMAIN hosts /\ kept THEN Fault ELSE UNCHANGED env
           /\ UNCHANGED <<hosts, cli, crossed>>
     /\ UNCHANGED <<clouds, parts, booked, active, exported>>

CreateCloud(r) ==
  /\ Asked(r, {"create_cloud"})
  /\ Checked(r, None, req[r].call.cloud \notin clouds)
  /\ UNCHANGED <<rows, cli, exported, crossed, env>>

\* CloudDao.create_cloud looks again: EntryExisting is caught nowhere.  The
\* name is unique in the database.
InsertCloud(r) ==
  /\ Read(r, {"create_cloud"})
  /\ \/ clouds' = clouds \cup {req[r].call.cloud} /\ Answer(r, "ok") /\ UNCHANGED env
     \/ req[r].call.cloud \in clouds /\ Answer(r, "error") /\ UNCHANGED <<clouds, env>>
     \/ req[r].call.cloud \notin clouds /\ Fault /\ Answer(r, "ok") /\ UNCHANGED clouds
  /\ UNCHANGED <<hosts, parts, booked, active, cli, exported, crossed>>

\* GET of a cloud, and the PATCH of last_redefined, which is not modelled.
FindCloud(r) ==
  /\ Asked(r, {"get_cloud", "update_cloud"})
  /\ Answer(r, IF req[r].call.cloud \in clouds THEN "ok" ELSE "refused")
  /\ UNCHANGED <<rows, cli, exported, crossed, env>>

DeleteCloud(r) ==
  /\ Asked(r, {"delete_cloud"})
  /\ Checked(r, None, req[r].call.cloud \in clouds)
  /\ UNCHANGED <<rows, cli, exported, crossed, env>>

\* A host's clouds are foreign keys; the cloud of an assignment is set to
\* NULL when its row goes.
RemoveCloud(r) ==
  LET c == req[r].call.cloud
      used == \E h \in DOMAIN hosts : c \in {hosts[h].cloud, hosts[h].home}
  IN /\ Read(r, {"delete_cloud"})
     /\ IF c \notin clouds THEN Answer(r, "error") /\ UNCHANGED <<clouds, active, env>>
        ELSE /\ Answer(r, "ok")
             /\ \/ /\ ~used
                   /\ clouds' = clouds \ {c}
                   /\ active' = [a \in DOMAIN active |-> IF active[a] = c THEN None ELSE active[a]]
                   /\ UNCHANGED env
                \/ (IF used THEN UNCHANGED env ELSE Fault) /\ UNCHANGED <<clouds, active>>
     /\ UNCHANGED <<hosts, parts, booked, cli, exported, crossed>>

\* The POST of an assignment; module Booking has its races.
Assign(r) ==
  LET c == req[r].call.cloud
      free == c \in clouds /\ \A a \in DOMAIN active : active[a] # c
  IN /\ Asked(r, {"assign"}) /\ env.row <= MaxRows
     /\ IF free
          THEN /\ active' = Insert(active, c)
               /\ env' = [env EXCEPT !.row = @ + 1]
               /\ Answer(r, "ok")
          ELSE Answer(r, "refused") /\ UNCHANGED <<active, env>>
     /\ UNCHANGED <<clouds, hosts, parts, booked, cli, exported, crossed>>

\* Bookings begin and end, assignments are terminated: module Booking.
Elsewhere ==
  /\ \/ \E h \in DOMAIN hosts : booked' \in {booked \cup {h}, booked \ {h}} /\ UNCHANGED active
     \/ \E a \in DOMAIN active : active' = Restrict(active, DOMAIN active \ {a}) /\ UNCHANGED booked
  /\ UNCHANGED <<clouds, hosts, parts, req, cli, exported, crossed, env>>

(***************************************************************************)
(* The command line                                                        *)
(***************************************************************************)
CallHost(n, home, full) == [op |-> "create_host", host |-> n, home |-> home, full |-> full]
CallPart(n, p) == [op |-> "create_part", host |-> n, part |-> p]
CallUpdate(n, id, name, value) ==
  [op |-> "update_part", host |-> n, id |-> id, name |-> name, value |-> value]
CallCloud(op, c) == [op |-> op, cloud |-> c]
CallStore(n, name, c, home) ==
  [op |-> "update_host", host |-> n, name |-> name, cloud |-> c, home |-> home]

\* The URL has the name of the interface; id is the row the client means by
\* it, None when it has looked at none.
CallDrop(n, name, id) == [op |-> "delete_interface", host |-> n, name |-> name, id |-> id]

\* What a command will do is a sequence of chapters: calls whose order the
\* server's list decides (it is read without ORDER BY), then calls in order.
Chapter(any, calls) == [any |-> any, calls |-> calls]
Through == Chapter({}, <<>>)
Just(calls) == <<Chapter({}, calls)>>

\* A form of Wanted in which the type of a processor is not looked at.
WantedAny(p, field, type) == Field(p.kind) = field

Wanted(p, field, type) == Field(p.kind) = field /\ (type = None \/ p.kind = type)

\* One DELETE for each part of the field that the command has read.
clear_field(n, read, field, type) ==
  {IF field = "interfaces" THEN CallDrop(n, read[p].name, p)
                           ELSE [op |-> "delete_part", id |-> p] :
   p \in {x \in DOMAIN read : Wanted(read[x], field, type)}}

\* --rm-host-metadata: processors are cleared by type, everything else whole.
parse_metadata_components(c) ==
  CASE c = "cpus" -> <<"processors", "CPU">> [] c = "gpus" -> <<"processors", "GPU">>
    [] OTHER -> <<c, None>>

Creates(n, list) == [i \in DOMAIN list.entries |-> CallPart(n, list.entries[i])]

\* A form of Replace that adds to what is there.
ReplaceNot(n, read, list) == Chapter({}, Creates(n, list))

\* One list of a metadata file: the field is cleared, then filled again.
Replace(n, read, list) ==
  Chapter(clear_field(n, read, list.field, None), Creates(n, list))

\* What an import calls for one host of the file: without --force nothing,
\* because every list of a host is defined, if only as the empty list.
define_host_metadata(n, read, file, force) ==
  LET OfKey(list) == IF list.field = "default_cloud"
                       THEN Chapter({}, <<CallCloud("get_cloud", file.home)>>)
                       ELSE Replace(n, read, list)
  IN IF force THEN Append([i \in DOMAIN file.lists |-> OfKey(file.lists[i])],
                          Chapter({}, <<CallStore(n, None, None, file.home)>>))
     ELSE <<>>

\* A scan looks for interfaces and disks one by one and replaces memory and
\* processors.
Finds(field) == IF field = "interfaces" THEN "find_interface" ELSE "find_disk"
lshw2meta(n, read, scan) ==
  LET Find(list) == [i \in DOMAIN list.entries |->
                       [op |-> Finds(list.field), part |-> list.entries[i]]]
  IN [i \in DOMAIN scan.lists |->
        IF scan.lists[i].field \in Handled THEN Replace(n, read, scan.lists[i])
        ELSE Chapter({}, Find(scan.lists[i]))]

\* --mod-interface edits one interface of that name, {} when there is none.
mod_interface(n, read, name, value) ==
  LET named == {p \in DOMAIN read : Field(read[p].kind) = "interfaces" /\ read[p].name = name}
  IN {Just(<<CallUpdate(n, p, None, value)>>) : p \in named}

\* arg is what the operator gave, then where it goes from "run", read what
\* it found at the host.
Job(cmd, n, at, arg, plan) ==
  [cmd |-> cmd, host |-> n, at |-> at, arg |-> arg, plan |-> plan, then |-> "done",
   read |-> <<>>, renamed |-> {}, doubt |-> FALSE]

Begun ==
  /\ cli.at \in {"idle", "done", "stopped"} /\ req[Cli].at = "idle"
  /\ env.jobs < MaxJobs /\ env' = [env EXCEPT !.jobs = @ + 1]
  /\ UNCHANGED <<rows, req, crossed>>
Begin == Begun /\ UNCHANGED exported

\* --define-host-details: a host that is missing is created with --force.
Import(n, file, force) ==
  LET arg == [file |-> file, force |-> force]
      create == Just(<<CallHost(n, file.home, file.full)>>)
  IN Begin /\ cli' = IF HostNamed(n) # {} THEN Job("import", n, "read", arg, <<>>)
                     ELSE IF force THEN [Job("import", n, "run", arg, create) EXCEPT !.then = "read"]
                     ELSE Job("import", n, "done", arg, <<>>)

\* --mod-host, with the components --rm-host-metadata names in any order.
\* Without it the PATCH carries neither of the clouds that were given, and
\* the name the host has.
ModHost(n, components) ==
  \E order \in SetToSeqs(components) : Begin /\ cli' = Job("mod_host", n, "read", order, <<>>)

\* lshw2meta, for one of the scans it finds on disk.
Scan(n, scan) ==
  Begin /\ cli' = Job("lshw2meta", n, "read", [file |-> scan, force |-> TRUE], <<>>)

ModInterface(n, name, value) ==
  Begin /\ cli' = Job("mod_interface", n, "read", [name |-> name, value |-> value], <<>>)

RemoveInterface(n, name) ==
  Begin /\ cli' = Job("rm_interface", n, "read", [name |-> name], <<>>)

\* --define-host and --rm-host are one call each.
DefineHost(n, c) ==
  Begin /\ cli' = Job("define_host", n, "run", None, Just(<<CallHost(n, c, TRUE)>>))
RmHost(n) ==
  Begin /\ cli' = Job("rm_host", n, "run", None, Just(<<[op |-> "delete_host", host |-> n]>>))

\* --rm-cloud asks for an active assignment, then removes the cloud.
RmCloud(c) ==
  Begin /\ cli' = Job("rm_cloud", None, IF \E a \in DOMAIN active : active[a] = c THEN "stopped" ELSE "run",
                      c, Just(<<CallCloud("delete_cloud", c)>>))

\* --define-cloud: with an active assignment it ends whether the cloud is
\* still locked or not.
DefineCloud(c, ticket) ==
  LET known == c \in clouds
      taken == known /\ c # Spare /\ \E a \in DOMAIN active : active[a] = c
      assigns == ticket /\ c # Spare
      If(cond, op) == IF cond THEN <<CallCloud(op, c)>> ELSE <<>>
  IN Begin /\ cli' = Job("define_cloud", None, IF taken THEN "stopped" ELSE "run", None,
       Just(If(~known, "create_cloud") \o If(assigns, "assign") \o If(assigns /\ known, "update_cloud")))

\* --export-host-details: the lists that are not empty, keys in the order
\* the YAML writer sorts them; processor_type is not written.
Export(h) ==
  LET Entry(p) == IF Field(parts[p].part.kind) = "processors"
                    THEN [parts[p].part EXCEPT !.kind = "untyped"] ELSE parts[p].part
      Entries(ids) == [i \in DOMAIN ids |-> Entry(ids[i])]
      Listed(f) == IF FieldOf(h, f) = {} THEN <<>>
                   ELSE <<[field |-> f, entries |-> Entries(SetToSeq(FieldOf(h, f)))]>>
  IN /\ exported' = [home |-> hosts[h].home, full |-> FALSE,
                     lists |-> <<[field |-> "default_cloud", entries |-> <<>>]>>
                       \o Listed("disks") \o Listed("interfaces")
                       \o Listed("memory") \o Listed("processors")]
     /\ Begun /\ cli' = Job("export", hosts[h].name, "done", None, <<>>)

\* What a command plans for the host it has read, {} when it finds nothing
\* to do and says so.
Plans(n, read) ==
  CASE cli.cmd = "import" -> {define_host_metadata(n, read, cli.arg.file, cli.arg.force)}
    [] cli.cmd = "lshw2meta" -> {lshw2meta(n, read, cli.arg.file)}
    [] cli.cmd = "mod_interface" -> mod_interface(n, read, cli.arg.name, cli.arg.value)
    [] cli.cmd = "rm_interface" -> {Just(<<CallDrop(n, cli.arg.name, None)>>)}
    [] cli.arg = <<>> -> {Just(<<CallStore(n, n, None, None)>>)}
    [] OTHER -> {[i \in DOMAIN cli.arg |->
                   LET c == parse_metadata_components(cli.arg[i])
                   IN Chapter(clear_field(n, read, c[1], c[2]), <<>>)]}

\* GET of the host the command is about: what it then removes is this list.
Listing(h) == [p \in PartsOf(h) |-> parts[p].part]
ReadHost ==
  /\ cli.at = "read"
  /\ \E h \in First(HostNamed(cli.host)) :
       IF h = None \/ Plans(cli.host, Listing(h)) = {}
         THEN cli' = [cli EXCEPT !.at = "stopped"]
         ELSE \E plan \in Plans(cli.host, Listing(h)) :
                cli' = [cli EXCEPT !.at = "run", !.then = "done", !.plan = plan, !.read = Listing(h)]
  /\ UNCHANGED <<rows, req, exported, crossed, env>>

\* The command goes on where it has calls left, once it has its answer.
Ready(i) ==
  /\ cli.at = "run" /\ req[Cli].at \in {"idle", "ok"}
  /\ i \in DOMAIN cli.plan /\ cli.plan[i] # Through
  /\ \A j \in 1..(i - 1) : cli.plan[j] = Through

\* The interfaces the command has read whose MAC address - here their name -
\* was scanned; a disk of the scan is looked for in the database as it is
\* now, and the first of its type and size given the count that was found.
\* Both are PATCHed whole, with the name they were found by.
Found(call) ==
  LET p == call.part
      interfaces == {x \in DOMAIN cli.read : cli.read[x].kind = p.kind /\ cli.read[x].name = p.name}
      disks == {x \in DOMAIN parts : /\ hosts[parts[x].host].name = cli.host
                                     /\ parts[x].part.kind = "disk" /\ parts[x].part.name = p.name}
  IN IF call.op = "find_interface" THEN {{CallUpdate(cli.host, x, p.name, p.value) : x \in interfaces}}
     ELSE IF disks = {} THEN {{CallPart(cli.host, p)}}
     ELSE {IF parts[x].part.value = p.value THEN {} ELSE {CallUpdate(cli.host, x, p.name, p.value)} : x \in disks}

Finding == {"find_interface", "find_disk"}
Look ==
  /\ cli.cmd = "lshw2meta"
  /\ \E i \in DOMAIN cli.plan :
       /\ Ready(i) /\ cli.plan[i].any = {} /\ Head(cli.plan[i].calls).op \in Finding
       /\ \E found \in Found(Head(cli.plan[i].calls)) :
            cli' = [cli EXCEPT !.plan[i] = Chapter(found, Tail(@.calls))]
  /\ UNCHANGED <<rows, req, exported, crossed, env>>

\* The next call, or the end of the plan.
Proceed ==
  /\ \/ \E i \in DOMAIN cli.plan :
          /\ Ready(i)
          /\ \/ \E call \in cli.plan[i].any :
                  Ask(Cli, call) /\ cli' = [cli EXCEPT !.plan[i].any = @ \ {call}]
             \/ /\ cli.plan[i].any = {} /\ Head(cli.plan[i].calls).op \notin Finding
                /\ Ask(Cli, Head(cli.plan[i].calls))
                /\ cli' = [cli EXCEPT !.plan[i].calls = Tail(@)]
     \/ /\ cli.at = "run" /\ req[Cli].at \in {"idle", "ok"}
        /\ \A i \in DOMAIN cli.plan : cli.plan[i] = Through
        /\ cli' = [cli EXCEPT !.at = cli.then] /\ req' = [req EXCEPT ![Cli] = Idle]
  /\ UNCHANGED <<rows, exported, crossed, env>>

\* QuadsApi raises on 400 and 500: the calls that are left are not made.
Stop ==
  /\ cli.at = "run" /\ req[Cli].at \in {"refused", "error"}
  /\ cli' = [cli EXCEPT !.at = "stopped"]
  /\ req' = [req EXCEPT ![Cli] = Idle]
  /\ UNCHANGED <<rows, exported, crossed, env>>

(***************************************************************************)
(* Other clients: one request at a time.                                   *)
(***************************************************************************)
Submit(r) ==
  /\ req[r].at = "idle" /\ Trouble
  /\ \/ \E n \in Hostnames :
          \/ \E p \in Drafts : Ask(r, CallPart(n, p))
          \/ \E x \in Names : Ask(r, CallDrop(n, x, None))
          \/ \E p \in {x \in DOMAIN parts : Field(parts[x].part.kind) \notin Handled} :
               \/ \E v \in Values : Ask(r, CallUpdate(n, p, None, v))
               \/ \E x \in Names : Ask(r, CallUpdate(n, p, x, None))
          \/ \E c \in Clouds :
               \/ Ask(r, CallHost(n, c, TRUE))
               \/ Ask(r, CallStore(n, None, c, None)) \/ Ask(r, CallStore(n, None, None, c))
          \/ \E m \in Hostnames : Ask(r, CallStore(n, m, None, None))
          \/ Ask(r, [op |-> "delete_host", host |-> n])
     \/ \E p \in DOMAIN parts : Ask(r, [op |-> "delete_part", id |-> p])
     \/ \E c \in Clouds : \E op \in {"create_cloud", "delete_cloud", "assign"} : Ask(r, CallCloud(op, c))
  /\ UNCHANGED <<rows, cli, exported, crossed>>

Init ==
  /\ clouds \in {C \in SUBSET Clouds : Spare \in C}
  /\ \E n \in Hostnames : hosts = [h \in {1} |-> [name |-> n, cloud |-> Spare, home |-> Spare]]
  /\ LET all == SetToSeq(Stock)
     IN parts = [i \in 2..(Cardinality(Stock) + 1) |-> [host |-> 1, part |-> all[i - 1]]]
  /\ booked = {} /\ active = <<>>
  /\ req = [r \in Slots |-> Idle] /\ cli = Job("none", None, "idle", None, <<>>)
  /\ exported = None /\ crossed = {}
  /\ env = [row |-> Cardinality(Stock) + 2, jobs |-> 0, troubles |-> 0]

Handle(r) ==
  \/ CreatePart(r) \/ InsertPart(r) \/ DeletePart(r) \/ DeleteInterface(r) \/ ErasePart(r)
  \/ UpdatePart(r) \/ StorePart(r) \/ CreateHost(r) \/ InsertHost(r) \/ DeleteHost(r)
  \/ RemoveHost(r) \/ UpdateHost(r) \/ StoreHost(r) \/ CreateCloud(r) \/ InsertCloud(r)
  \/ FindCloud(r) \/ DeleteCloud(r) \/ RemoveCloud(r) \/ Assign(r)

Command ==
  \/ \E n \in Hostnames :
       \/ \E f \in Files \cup ({exported} \ {None}), force \in BOOLEAN : Import(n, f, force)
       \/ \E c \in Components : ModHost(n, c)
       \/ \E s \in Scans : Scan(n, s)
       \/ \E x \in Names : RemoveInterface(n, x) \/ \E v \in Values : ModInterface(n, x, v)
       \/ RmHost(n) \/ \E c \in Clouds : DefineHost(n, c)
  \/ \E c \in Clouds : RmCloud(c) \/ \E ticket \in BOOLEAN : DefineCloud(c, ticket)
  \/ \E h \in DOMAIN hosts : Export(h)
  \/ ReadHost \/ Look \/ Proceed \/ Stop

Next == Command \/ Elsewhere \/ (\E r \in Slots : Handle(r)) \/ \E r \in Clients : Submit(r)

Spec == Init /\ [][Next]_vars

(***************************************************************************)
(* Properties                                                              *)
(***************************************************************************)
\* Every part belongs to a host, every host to clouds that exist, every
\* booking to a host: nothing the handlers delete leaves a row behind.
TypeOK ==
  /\ clouds \subseteq Clouds /\ booked \subseteq DOMAIN hosts
  /\ \A h \in DOMAIN hosts : hosts[h] \in [name : Hostnames, cloud : clouds, home : clouds]
  /\ \A p \in DOMAIN parts : parts[p] \in [host : DOMAIN hosts, part : Part]
  /\ \A a \in DOMAIN active : active[a] \in clouds \cup {None}
  /\ \A r \in Slots : req[r].at \in {"idle", "asked", "read", "ok", "refused", "error"}
  /\ cli.at \in {"idle", "read", "run", "done", "stopped"}

\* Two hosts have one name only when two requests made them at once, or a
\* PATCH gave a host the name of another; two processors or memory modules
\* of a host have one handle only when two requests made them at once.  The
\* handlers check by reading, and an import that is repeated or crosses does
\* too.
NoTwins ==
  /\ \A h, g \in DOMAIN hosts :
       h # g /\ hosts[h].name = hosts[g].name => <<hosts[h].name>> \in crossed
  /\ \A h \in DOMAIN hosts : \A f \in Handled : \A p, q \in FieldOf(h, f) :
       p # q /\ parts[p].part.name = parts[q].part.name
         => <<h, f, parts[p].part.name>> \in crossed

Ended(cmd, ends) ==
  cli.at \in ends /\ cli.cmd = cmd /\ ~cli.doubt /\ <<cli.host>> \notin crossed

Count(h, field, p) == Cardinality({x \in FieldOf(h, field) : parts[x].part = p})
Listed(list, p) == Cardinality({i \in DOMAIN list.entries : list.entries[i] = p})

\* An import with --force that ends without an error, that nobody else's
\* write to its host crossed, and none of whose own commits failed unseen
\* leaves each listed field of the host exactly as the file has it, whatever
\* the host had before and whatever stopped earlier.
\* A scan does so for memory and processors; of every type of disk it has
\* found there is one with the count it found.
ImportedAsWritten ==
  (Ended("import", {"done"}) /\ cli.arg.force) \/ Ended("lshw2meta", {"done"}) =>
    \A h \in HostNamed(cli.host) : \A i \in DOMAIN cli.arg.file.lists :
      LET list == cli.arg.file.lists[i]
      IN CASE cli.cmd = "lshw2meta" /\ list.field = "interfaces" -> TRUE
           [] cli.cmd = "lshw2meta" /\ list.field = "disks" ->
                \A p \in ToSet(list.entries) : Count(h, list.field, p) > 0
           [] OTHER ->
                \A p \in {parts[x].part : x \in FieldOf(h, list.field)} \cup ToSet(list.entries) :
                  Count(h, list.field, p) = Listed(list, p)

\* What the command being run was asked to touch.
Meant(p) ==
  CASE cli.cmd = "import" -> \E i \in DOMAIN cli.arg.file.lists : cli.arg.file.lists[i].field = Field(p.kind)
    [] cli.cmd = "mod_host" -> \E i \in DOMAIN cli.arg :
         LET c == parse_metadata_components(cli.arg[i])
         IN Field(p.kind) = c[1] /\ c[2] \in {None, p.kind}
    [] cli.cmd = "lshw2meta" ->
         \/ Field(p.kind) \in {"memory", "processors"}
         \/ \E i \in DOMAIN cli.arg.file.lists : \E q \in ToSet(cli.arg.file.lists[i].entries) :
              q.kind = p.kind /\ q.name = p.name
    [] cli.cmd \in {"mod_interface", "rm_interface"} -> p.kind = "interface" /\ p.name = cli.arg.name
    [] OTHER -> cli.cmd = "rm_host"

\* Rows that a command finds by what they are called, not by what it has
\* read: the parts of a host that is removed, the disks a scan looks for, and
\* interfaces, which are deleted by name.
ByName(kind) ==
  \/ cli.cmd = "rm_host"
  \/ cli.cmd = "lshw2meta" /\ kind = "disk"
  \/ cli.cmd \in {"import", "mod_host", "rm_interface"} /\ kind = "interface"

\* A command removes and changes parts of its own host only, and only rows
\* that it has read itself and that, as it read them, are of the components
\* it was given: what others put there meanwhile stays.  What it finds by
\* name is of those components unless somebody renamed it, or its host,
\* after the command began.
TouchesOnlyMeant ==
  [][req[Cli].at = "read" /\ req'[Cli].at # "read" =>
       \A p \in DOMAIN parts :
         p \notin DOMAIN parts' \/ parts'[p] # parts[p] =>
           /\ hosts[parts[p].host].name = cli.host \/ parts[p].host \in cli.renamed
           /\ \/ p \in DOMAIN cli.read /\ Meant(cli.read[p])
              \/ /\ ByName(parts[p].part.kind)
                 /\ Meant(parts[p].part) \/ {p, parts[p].host} \cap cli.renamed # {}]_vars

\* docs/quads-host-metadata-search.md:88: importing "does not remove metadata
\* from the QUADS database": a listed field of which the host had parts is
\* not left empty by an import.
KeepsMetadata ==
  Ended("import", {"done", "stopped"}) =>
    \A h \in HostNamed(cli.host) : \A i \in DOMAIN cli.arg.file.lists :
      LET list == cli.arg.file.lists[i]
          had == {p \in DOMAIN cli.read : Field(cli.read[p].kind) = list.field}
      IN had # {} => FieldOf(h, list.field) # {}

=============================================================================
