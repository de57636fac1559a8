------------------------------ MODULE MCRebuild ------------------------------
(***************************************************************************)
(* Machines and moves for Rebuild: Dell machines of all kinds of BMC as a  *)
(* tenant may leave them, and one each of the other makes.                 *)
(***************************************************************************)
EXTENDS Rebuild

Found == [brand |-> "Dell", jobService |-> TRUE, stacks |-> FALSE, bmc |-> TRUE, on |-> TRUE,
          falling |-> FALSE, starting |-> FALSE, order |-> Default, mode |-> "Bios", once |-> None,
          pending |-> NoPending, job |-> FALSE, pxe |-> FALSE, media |-> TRUE, image |-> TRUE,
          from |-> "disk"]

MCMachines ==
  {[Found EXCEPT !.jobService = j, !.stacks = k, !.order = o] :
     j, k \in BOOLEAN, o \in {"director", "other"}}
    \union {[Found EXCEPT !.on = FALSE, !.once = [seq |-> "Bios", device |-> "disk"]],
            [Found EXCEPT !.mode = "Uefi", !.job = TRUE, !.stacks = TRUE, !.order = "other",
                          !.pending = [NoPending EXCEPT !.mode = "Bios"]],
            [Found EXCEPT !.mode = "Uefi", !.once = [seq |-> "Uefi", device |-> Default],
                          !.job = TRUE, !.pending = [NoPending EXCEPT !.mode = "Bios"]],
            [Found EXCEPT !.pending = [NoPending EXCEPT !.order = "other"]],
            [Found EXCEPT !.bmc = FALSE],
            [Found EXCEPT !.brand = "HPE"], [Found EXCEPT !.brand = "Supermicro"]}

(* What BuiltRight is proved from.                                         *)
ASSUME ScheduledMachines == Scheduled

MCMoves ==
  {[rebuild |-> TRUE, home |-> FALSE, order |-> "director", bootmode |-> None],
   [rebuild |-> TRUE, home |-> FALSE, order |-> Default, bootmode |-> "Uefi"],
   [rebuild |-> TRUE, home |-> FALSE, order |-> "director", bootmode |-> "Uefi"],
   [rebuild |-> TRUE, home |-> TRUE, order |-> Default, bootmode |-> None],
   [rebuild |-> FALSE, home |-> FALSE, order |-> Default, bootmode |-> None]}
=============================================================================
