---------------------------- MODULE MCHypervisor ----------------------------
(***************************************************************************)
(* The sets of traps the runs of Hypervisor consider.                      *)
(***************************************************************************)
EXTENDS Hypervisor

\* Everything a guest can do.
AllOps == TrapKind

\* The traps that use the clock.
ClockOps == {"fault", "load", "store", "wfi"}
=============================================================================
