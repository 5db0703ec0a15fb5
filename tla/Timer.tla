------------------------------- MODULE Timer -------------------------------
(***************************************************************************)
(* The timer of the hypervisor: src/timer.c and timer_compare of           *)
(* src/timer.h.  One host comparator (clint.mtimecmp) serves the           *)
(* hypervisor's own periodic interrupt and the guest's virtual timer.  The *)
(* guest's clock is mtime minus timer_adjustment, the time spent outside   *)
(* the guest.                                                              *)
(*                                                                         *)
(* Times are 64-bit words: Word stands for 2^64.                           *)
(***************************************************************************)
EXTENDS GuestPrivilege, Integers

CONSTANTS Word,               \* 2^64
          Quantum,            \* MILLISECONDS(200)
          AdditionalCycles    \* additional_cycles of timer_resume_virtual

ASSUME TimerAssumption == /\ Word \in Nat \ {0}
                          /\ Quantum \in 0 .. Word - 1
                          /\ AdditionalCycles \in 0 .. Word - 1

VARIABLES thr,                \* the guest thread (GuestPrivilege)
          mtime,              \* clint0->mtime
          mtimecmp,           \* clint0->mtimecmp
          mtie,               \* MIE_MTIE in the host's mie
          interrupt_target,   \* "none" or "guest", the only guest thread
          timer_scheduled,
          timer_deadline,
          timer_suspended_at,
          timer_adjustment

timer_vars == <<mtime, mtimecmp, mtie, interrupt_target, timer_scheduled,
                timer_deadline, timer_suspended_at, timer_adjustment>>

Time == 0 .. Word - 1

\* Variant with a mistake: no wrap-around.
Add_NoWrap(a, b) == a + b

\* uint64_t addition and subtraction.
Add(a, b) == IF a + b < Word THEN a + b ELSE a + b - Word
Sub(a, b) == IF a >= b THEN a - b ELSE a - b + Word

\* Variant with a mistake: the operands are exchanged.
timer_compare_lt_Exchanged(lhs, rhs) == 2 * Sub(rhs, lhs) >= Word

\* timer_compare(lhs, rhs) = CMP_LT: the difference as int64_t is negative.
timer_compare_lt(lhs, rhs) == 2 * Sub(lhs, rhs) >= Word

timer_get_time_virtual == Sub(mtime, timer_adjustment)

\* The clint raises the machine timer interrupt (an unsigned comparison).
InterruptPending == mtie /\ mtime >= mtimecmp

TimerInit == /\ mtime = 0
             /\ mtimecmp = 0
             /\ mtie = FALSE
             /\ interrupt_target = "none"
             /\ timer_scheduled = FALSE
             /\ timer_deadline = 0
             /\ timer_suspended_at = 0
             /\ timer_adjustment = 0

\* Variant with a mistake: the moment of the trap is not noted.
timer_suspend_virtual_Missing ==
    UNCHANGED <<thr, timer_vars>>

timer_suspend_virtual ==
    /\ timer_suspended_at' = mtime
    /\ UNCHANGED <<thr, mtime, mtimecmp, mtie, interrupt_target,
                   timer_scheduled, timer_deadline, timer_adjustment>>

timer_resume_virtual ==
    /\ timer_adjustment' =
          Add(timer_adjustment,
              Add(Sub(mtime, timer_suspended_at), AdditionalCycles))
    /\ UNCHANGED <<thr, mtime, mtimecmp, mtie, interrupt_target,
                   timer_scheduled, timer_deadline, timer_suspended_at>>

\* Variant with a mistake: the deadline is not translated to host time.
HostDeadline_Untranslated == timer_deadline

\* The guest's deadline in host time.
HostDeadline == Add(timer_deadline, timer_adjustment)

\* timer_interrupt_at for the periodic interrupt, then timer_interrupt_sooner
\* for the guest's deadline.
timer_reschedule ==
    LET periodic == Add(mtime, Quantum)
        sooner == timer_scheduled /\ timer_compare_lt(HostDeadline, periodic)
    IN  /\ mtimecmp' = IF sooner THEN HostDeadline ELSE periodic
        /\ interrupt_target' = IF sooner THEN "guest" ELSE "none"
        /\ mtie' = TRUE
        /\ UNCHANGED <<thr, mtime, timer_scheduled, timer_deadline,
                       timer_suspended_at, timer_adjustment>>

\* Variant with a mistake: the deadline stays scheduled.
timer_on_interrupt_StaysScheduled ==
    /\ IF interrupt_target = "none"
       THEN UNCHANGED thr
       ELSE thr' = guest_defer_exception(thr, "timer")
    /\ UNCHANGED timer_vars

timer_on_interrupt ==
    /\ IF interrupt_target = "none"
       THEN UNCHANGED <<thr, timer_scheduled>>
       ELSE /\ timer_scheduled' = FALSE
            /\ thr' = guest_defer_exception(thr, "timer")
    /\ UNCHANGED <<mtime, mtimecmp, mtie, interrupt_target, timer_deadline,
                   timer_suspended_at, timer_adjustment>>

=============================================================================
