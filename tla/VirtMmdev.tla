----------------------------- MODULE VirtMmdev -----------------------------
(***************************************************************************)
(* The memory-mapped devices of the guest: src/virtmmdev.c.  Only the      *)
(* clint has state; the uart and the plic accept the accesses below and    *)
(* forget them.  An access of another width, or to another address, is     *)
(* refused.                                                                *)
(***************************************************************************)
EXTENDS Timer

VARIABLE mtime_reg          \* what the guest last read from clint.mtime

Register == {"clint.mtimecmp", "clint.mtime", "uart.ier", "uart.lsr",
             "uart.rbr", "uart.thr", "plic.enable", "plic.priority",
             "plic.threshold", "unknown"}

Width == {8, 16, 32, 64}

\* The width in which a register can be loaded or stored.
Loadable == {<<"clint.mtimecmp", 64>>, <<"clint.mtime", 64>>,
             <<"uart.ier", 8>>, <<"uart.lsr", 8>>, <<"uart.rbr", 8>>,
             <<"plic.enable", 32>>}

Storable == {<<"clint.mtimecmp", 64>>, <<"uart.ier", 8>>, <<"uart.thr", 8>>,
             <<"plic.enable", 32>>, <<"plic.priority", 32>>,
             <<"plic.threshold", 32>>}

\* virtual_mmdev_load with result VMMAR_SUCCESS.  Of the values read only that
\* of mtime matters: it is the clock at the moment of the access, and lost if
\* the destination is x0 (reg_ptr is NULL).
virtual_mmdev_load(register, width) ==
    /\ <<register, width>> \in Loadable
    /\ \/ register = "clint.mtime" /\ mtime_reg' = timer_get_time_virtual
       \/ UNCHANGED mtime_reg
    /\ UNCHANGED timer_vars

\* virtual_mmdev_store with result VMMAR_SUCCESS.
virtual_mmdev_store(register, width, value) ==
    /\ <<register, width>> \in Storable
    /\ IF register = "clint.mtimecmp"
       THEN timer_deadline' = value /\ timer_scheduled' = TRUE
       ELSE UNCHANGED <<timer_deadline, timer_scheduled>>
    /\ UNCHANGED <<mtime, mtimecmp, mtie, interrupt_target,
                   timer_suspended_at, timer_adjustment, mtime_reg>>

=============================================================================
