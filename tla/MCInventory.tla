---------------------------- MODULE MCInventory ----------------------------
(* Small instances of Inventory.                                           *)
EXTENDS Inventory

CONSTANTS h1, h2, spare, lab, x, y, old, fresh, c1, cmd, none

\* Nothing tells the two names apart.
MCHostnames == {h1, h2}
MCSymmetry == Permutations(MCHostnames)

P(kind, name, value) == [kind |-> kind, name |-> name, value |-> value, full |-> TRUE]

\* A CPU and a GPU and an interface.
MCStock == {P("CPU", x, old), P("GPU", y, old), P("interface", x, old)}
\* What others create: a GPU, a memory module, a second interface of that
\* name (POST does not check it), and a disk of no size.
MCDrafts == {P("GPU", x, old), P("memory", x, old), P("interface", x, fresh),
             [P("disk", x, old) EXCEPT !.full = FALSE]}

L(field, entries) == [field |-> field, entries |-> entries]
MCFiles ==
  {[home |-> lab, full |-> TRUE,
    lists |-> <<L("interfaces", <<P("interface", x, fresh)>>),
                L("processors", <<P("CPU", x, fresh), P("GPU", x, fresh)>>),
                L("default_cloud", <<>>)>>],
   [home |-> spare, full |-> TRUE,
    lists |-> <<L("disks", <<P("disk", x, fresh)>>), L("default_cloud", <<>>),
                L("memory", <<P("memory", x, fresh)>>)>>]}

\* One disk, one CPU, and no memory that tells its size.
MCScans ==
  {[lists |-> <<L("interfaces", <<P("interface", x, fresh)>>), L("disks", <<P("disk", x, old)>>),
                L("memory", <<>>), L("processors", <<P("CPU", y, fresh)>>)>>]}

\* No component at all: --mod-host without --rm-host-metadata.
MCComponents == {{}, {"cpus", "interfaces"}}

\* A request is read at once: until then it might as well not have been made,
\* since what is asked depends on nothing that others write.
Prompt == \A r \in Slots : req[r].at = "asked" => req'[r] # req[r]
\* The second command is one that replaces what the first has left.
Again == env.jobs = 1 /\ env'.jobs = 2 => cli'.cmd \in {"import", "lshw2meta"}
ScopedSpec == Init /\ [][Next /\ Prompt /\ Again]_vars
=============================================================================
