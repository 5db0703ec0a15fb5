----------------------------- MODULE Hypervisor -----------------------------
(***************************************************************************)
(* The hypervisor as a whole, on its one hart with its one guest thread:   *)
(* boot_main and exception of src/hypervisor.c, the handlers of            *)
(* src/exchandlers.c, the entry and exit of src/hypenterleave.S, over the  *)
(* components GuestPrivilege, VirtCsr, Timer and VirtMmdev.                *)
(*                                                                         *)
(* A trap is a sequence of steps, because mtime runs on between them:      *)
(*                                                                         *)
(*   guest --trap--> trapped --timer_suspend_virtual--> handle             *)
(*     --handler--> resume --timer_resume_virtual--> resched               *)
(*     --timer_reschedule--> return --enter_guest--> guest                 *)
(*                                                                         *)
(* The handler itself runs with interrupts disabled and is one step.       *)
(***************************************************************************)
EXTENDS VirtCsr, VirtMmdev

CONSTANTS Ops,              \* the traps the guest can cause
          Deadlines,        \* the values the guest writes to clint.mtimecmp
          MaxTime,          \* bound on mtime
          EntryTicks,       \* least time from a trap to timer_suspend_virtual
          ExitTicks         \* least time from timer_reschedule to mret

VARIABLES phase,            \* where the hart is
          op,               \* the trap being handled (the last one, in guest)
          mapped            \* the page of the guest's entry has been mapped

vars == <<thr, timer_vars, mtime_reg, phase, op, mapped>>

\* The traps of guest code.  "fault" is a page fault that handle_page_fault
\* resolves, "load" and "store" one that reaches the device registers, and
\* "fatal" any of the exceptions the handlers answer with panic().
IllegalInstruction == {"csrrw", "csrrs", "sfence", "mret", "wfi"}
PageFault == {"fault", "load", "store"}
TrapKind == IllegalInstruction \union PageFault \union {"ecall", "fatal"}

Phase == {"boot", "guest", "trapped", "handle", "resume", "resched",
          "return", "halted"}

\* The last conjunct but one is what the comment on additional_cycles claims
\* for the 50 of the code, taken in ticks of mtime, because the code adds the
\* number to a difference of mtime as it is; the comment speaks of cycles.  No
\* run checks it.  The last conjunct keeps mtime in the lower half of its range.
ASSUME HypervisorAssumption ==
    /\ Ops \subseteq TrapKind
    /\ Deadlines \subseteq Time
    /\ MaxTime \in Nat
    /\ EntryTicks \in Nat
    /\ ExitTicks \in Nat
    /\ AdditionalCycles <= EntryTicks + ExitTicks
    /\ 2 * (MaxTime + Quantum + ExitTicks) < Word

Init == /\ thr = ThreadInit
        /\ TimerInit
        /\ mtime_reg = 0
        /\ phase = "boot"
        /\ op = "none"
        /\ mapped = FALSE

-----------------------------------------------------------------------------
boot_main ==
    /\ phase = "boot"
    /\ thr' = [thr EXCEPT !.mepc = Entry, !.satp = "machine"]
    /\ phase' = "guest"
    /\ UNCHANGED <<timer_vars, mtime_reg, op, mapped>>

\* Time passes, up to MaxTime; the exit from the handler still has to fit.
Tick ==
    /\ phase \notin {"boot", "halted"}
    /\ phase = "guest" => mapped
    /\ mtime + (IF phase = "guest" THEN 1 ELSE 1 + ExitTicks) <= MaxTime
    /\ mtime' = mtime + 1
    /\ UNCHANGED <<thr, mtimecmp, mtie, interrupt_target, timer_scheduled,
                   timer_deadline, timer_suspended_at, timer_adjustment,
                   mtime_reg, phase, op, mapped>>

\* The guest executes instructions that do not trap.
GuestRun ==
    /\ phase = "guest"
    /\ mapped
    /\ \E pc \in PC : thr' = [thr EXCEPT !.mepc = pc]
    /\ UNCHANGED <<timer_vars, mtime_reg, phase, op, mapped>>

\* What the hart writes to mtval.
TrapValue(kind) == IF kind \in {"timer", "ecall"} THEN "zero" ELSE "info"

\* _exc_entry: the hart leaves the guest and its registers are saved.
Leave(kind) ==
    /\ phase = "guest"
    /\ mtime + EntryTicks + ExitTicks <= MaxTime
    /\ mtime' = mtime + EntryTicks
    /\ thr' = [thr EXCEPT !.mtval = TrapValue(kind)]
    /\ phase' = "trapped"
    /\ op' = kind
    /\ UNCHANGED <<mtimecmp, mtie, interrupt_target, timer_scheduled,
                   timer_deadline, timer_suspended_at, timer_adjustment,
                   mtime_reg, mapped>>

\* An exception.  Nothing but the fetch of its entry can trap in a guest that
\* has not run yet.
Trap(kind) ==
    /\ mapped \/ kind = "fault"
    /\ Leave(kind)

TimerTrap == InterruptPending /\ Leave("timer")

-----------------------------------------------------------------------------
\* exception(): timer_suspend_virtual
Suspend ==
    /\ phase = "trapped"
    /\ timer_suspend_virtual
    /\ phase' = "handle"
    /\ UNCHANGED <<mtime_reg, op, mapped>>

Handling(kind) == phase = "handle" /\ op = kind

\* A handler leaves the thread as t: it returns, unless it has panicked.
Finish(t) == /\ thr' = t
             /\ phase' = IF Panicked(t) THEN "halted" ELSE "resume"
             /\ op' = op

\* handle_interrupt.  The host enables no interrupt but the timer's.
HandleInterrupt ==
    /\ Handling("timer")
    /\ timer_on_interrupt
    /\ Finish(thr')
    /\ UNCHANGED <<mtime_reg, mapped>>

HandleCsrrw ==
    /\ Handling("csrrw")
    /\ \E csr \in CSRNumber : \E value \in CsrValue(csr) :
          Finish(csrrw(thr, csr, value))
    /\ UNCHANGED <<timer_vars, mtime_reg, mapped>>

HandleCsrrs ==
    /\ Handling("csrrs")
    /\ \E csr \in CSRNumber :
          \/ Finish(csrr(thr, csr))
          \/ \E operand \in CsrValue(csr) :
                \E t \in csrrs(thr, csr, operand) : Finish(t)
    /\ UNCHANGED <<timer_vars, mtime_reg, mapped>>

\* sfence.vma: flush_shadow_pagetable, whose entries are not modelled here.
HandleSfence ==
    /\ Handling("sfence")
    /\ Finish(Retire(thr))
    /\ UNCHANGED <<timer_vars, mtime_reg, mapped>>

HandleMret ==
    /\ Handling("mret")
    /\ Finish(guest_mret(thr))
    /\ UNCHANGED <<timer_vars, mtime_reg, mapped>>

\* The host sleeps in the wfi it executes on behalf of the guest, for as long
\* as the comparator has not been reached.
Sleep ==
    /\ Handling("wfi")
    /\ ~InterruptPending
    /\ UNCHANGED vars

\* It wakes up; mepc of the guest stays.
HandleWfi ==
    /\ Handling("wfi")
    /\ InterruptPending
    /\ Finish(thr)
    /\ UNCHANGED <<timer_vars, mtime_reg, mapped>>

HandleEcall ==
    /\ Handling("ecall")
    /\ Finish(guest_exception(thr, "ecall"))
    /\ UNCHANGED <<timer_vars, mtime_reg, mapped>>

\* The page tables are completed and the instruction is executed again.
HandleFault ==
    /\ Handling("fault")
    /\ Finish(thr)
    /\ mapped' = TRUE
    /\ UNCHANGED <<timer_vars, mtime_reg>>

\* A load or a store below the RAM is emulated; a refused one is a panic.
HandleLoad ==
    /\ Handling("load")
    /\ \E register \in Register, width \in Width :
          \/ /\ virtual_mmdev_load(register, width)
             /\ Finish(Retire(thr))
          \/ /\ <<register, width>> \notin Loadable
             /\ Finish(Panic(thr, "unhandled trap"))
             /\ UNCHANGED <<timer_vars, mtime_reg>>
    /\ UNCHANGED mapped

HandleStore ==
    /\ Handling("store")
    /\ \E register \in Register, width \in Width :
          \/ /\ \E value \in Deadlines :
                   virtual_mmdev_store(register, width, value)
             /\ Finish(Retire(thr))
          \/ /\ <<register, width>> \notin Storable
             /\ Finish(Panic(thr, "unhandled trap"))
             /\ UNCHANGED <<timer_vars, mtime_reg>>
    /\ UNCHANGED mapped

HandleFatal ==
    /\ Handling("fatal")
    /\ Finish(Panic(thr, "unhandled trap"))
    /\ UNCHANGED <<timer_vars, mtime_reg, mapped>>

\* handle_interrupt and handle_guest_exception
Handle == \/ HandleInterrupt \/ HandleCsrrw \/ HandleCsrrs \/ HandleSfence
          \/ HandleMret \/ HandleWfi \/ HandleEcall \/ HandleFault
          \/ HandleLoad \/ HandleStore \/ HandleFatal

\* exception(): timer_resume_virtual
Resume ==
    /\ phase = "resume"
    /\ timer_resume_virtual
    /\ phase' = "resched"
    /\ UNCHANGED <<mtime_reg, op, mapped>>

\* exception(): timer_reschedule
Reschedule ==
    /\ phase = "resched"
    /\ timer_reschedule
    /\ phase' = "return"
    /\ UNCHANGED <<mtime_reg, op, mapped>>

enter_guest ==
    /\ phase = "return"
    /\ mtime' = mtime + ExitTicks
    /\ phase' = "guest"
    /\ UNCHANGED <<thr, mtimecmp, mtie, interrupt_target, timer_scheduled,
                   timer_deadline, timer_suspended_at, timer_adjustment,
                   mtime_reg, op, mapped>>

\* The loop a panic ends in: mie is cleared and nothing wakes the wfi.
halt_thread ==
    /\ phase = "halted"
    /\ mtie' = FALSE
    /\ UNCHANGED <<thr, mtime, mtimecmp, interrupt_target, timer_scheduled,
                   timer_deadline, timer_suspended_at, timer_adjustment,
                   mtime_reg, phase, op, mapped>>

-----------------------------------------------------------------------------
Next == \/ boot_main
        \/ Tick
        \/ GuestRun
        \/ \E kind \in Ops : Trap(kind)
        \/ TimerTrap
        \/ Suspend
        \/ Handle
        \/ Sleep
        \/ Resume
        \/ Reschedule
        \/ enter_guest
        \/ halt_thread

Spec == Init /\ [][Next]_vars

\* The hart executes the hypervisor's code, mtime runs, and an interrupt that
\* is pending again and again while the guest runs is taken.
Fairness == /\ WF_vars(Suspend \/ Handle \/ Resume \/ Reschedule \/ enter_guest)
            /\ WF_vars(Tick)
            /\ SF_vars(TimerTrap)

FairSpec == Spec /\ Fairness

-----------------------------------------------------------------------------
(* The guest's clock.  While the guest runs it is what clint.mtime promises *)
(* to be; in the hypervisor it is the value it will at least have when the *)
(* guest runs again.                                                       *)
GuestClock ==
    CASE phase \in {"boot", "guest"} -> mtime - timer_adjustment
      [] phase = "trapped" ->
           mtime + ExitTicks - AdditionalCycles - timer_adjustment
      [] phase \in {"handle", "resume", "halted"} ->
           timer_suspended_at + ExitTicks - AdditionalCycles - timer_adjustment
      [] phase \in {"resched", "return"} -> mtime + ExitTicks - timer_adjustment

(* Where guest user mode goes on: the program counter in GU, the guest's    *)
(* mepc in GM.                                                             *)
Continuation == IF thr.user_mode THEN thr.mepc ELSE thr.guest_mepc

(* The step of a handler that returns, and the traps it answers by         *)
(* executing the instruction.                                              *)
Handled == phase = "handle" /\ phase' = "resume"
Emulated == {"csrrw", "csrrs", "sfence", "load", "store"}

(* A step that changes the level of the guest.                             *)
EntersGU == ~thr.user_mode /\ thr'.user_mode
EntersGM == thr.user_mode /\ ~thr'.user_mode

(* A deadline so far from 2^63 that the signed comparison is exact.        *)
NearDeadline == 2 * (timer_deadline + ExitTicks) < Word

(* The guest's clock has reached the deadline, without an interrupt so far. *)
Overdue == timer_scheduled /\ NearDeadline /\ GuestClock >= timer_deadline

-----------------------------------------------------------------------------
(* The types of the variables (GuestThreadContext, the clint registers and  *)
(* the progress of exception()).                                           *)
TypeOK == /\ thr \in Thread
          /\ mtime \in 0 .. MaxTime
          /\ mtimecmp \in Time
          /\ mtie \in BOOLEAN
          /\ interrupt_target \in {"none", "guest"}
          /\ timer_scheduled \in BOOLEAN
          /\ timer_deadline \in Time
          /\ timer_suspended_at \in 0 .. MaxTime
          /\ timer_adjustment \in Time
          /\ mtime_reg \in Time
          /\ phase \in Phase
          /\ op \in TrapKind \union {"none", "timer"}
          /\ mapped \in BOOLEAN

(* GM never runs with MDT clear, whatever the guest writes to its CSRs: the *)
(* check of guest_check_deferred on MDT stands for a check of the level.   *)
MdtInGM == ~thr.user_mode => thr.mstatus_mdt

(* The host's satp and shadow_pt_active never disagree, GM never runs on    *)
(* the shadow table, and a shadow table that is in use exists.             *)
SatpMatchesLevel ==
    phase # "boot" =>
        /\ thr.satp = IF thr.shadow_pt_active THEN "shadow" ELSE "machine"
        /\ thr.shadow_pt_active => thr.user_mode /\ thr.shadow_page_table

(* The host's satp follows every change of the guest's level, and nothing   *)
(* else: an mret into GU ends on the shadow table if the guest's satp has  *)
(* Sv39 and on GM's table if it has no paging, an exception from GU on GM's *)
(* table, and between them, whatever the guest writes to its satp, the     *)
(* table stays.                                                            *)
TableFollowsLevel ==
    [][phase # "boot" /\ ~Panicked(thr') =>
         /\ EntersGU => thr'.satp = IF thr.satp_mode = "sv39" THEN "shadow"
                                                             ELSE "machine"
         /\ EntersGM => thr'.satp = "machine"
         /\ ~EntersGU /\ ~EntersGM => thr'.satp = thr.satp]_vars

(* An exception that can be delivered has been: when a handler returns no   *)
(* deferred exception waits in a guest that accepts interrupts.            *)
NoDeliverablePending ==
    phase # "halted" =>
        ~(thr.deferred_exception /\ thr.mstatus_mie /\ ~thr.mstatus_mdt)

(* The "GM exception" panic is only reached by an ecall of GM itself: the   *)
(* delivery of a deferred timer exception never finds the guest in GM.     *)
DeferredNeverPanics == thr.panic = "GM exception" => op = "ecall"

(* The guest's user code goes on where it was, through every exception,     *)
(* mret and deferred delivery: an emulated instruction of GU is stepped    *)
(* over exactly once, one that is to be executed again is not, and only GM *)
(* can move the continuation, by writing its mepc.                         *)
ContinuationKept ==
    [][\/ Continuation' = IF Handled /\ thr.user_mode /\ op \in Emulated
                          THEN NextPc(Continuation)
                          ELSE Continuation
       \/ phase = "guest" /\ thr.user_mode
       \/ Handled /\ ~thr.user_mode /\ op \in {"csrrw", "csrrs"}
      ]_vars

(* A timer exception reaches the guest: once it is raised it is deferred or *)
(* delivered at once, and a deferred one stays until the guest's handler   *)
(* is entered for it, whatever traps come in between; a second one that    *)
(* guest_defer_exception drops meanwhile is the same exception.            *)
Delivered == ~thr.user_mode /\ thr.mcause = "timer" /\ thr.mepc = thr.mtvec
Raised == timer_scheduled /\ ~timer_scheduled'
TimerKept ==
    [][thr.deferred_exception \/ Raised
         => \/ thr'.deferred_exception /\ thr'.deferred_mcause = "timer"
            \/ Delivered']_vars

(* Traps never set the guest's clock back: timer_resume_virtual takes away  *)
(* no more time than the trap has taken.                                   *)
GuestClockMonotone == [][GuestClock' >= GuestClock]_vars

(* From the first trap on the host's timer interrupt is enabled whenever    *)
(* the guest runs or sleeps in a wfi, and comes after the period at the    *)
(* latest, and no later than the deadline of a guest timer that is set.    *)
ComparatorCovers ==
    phase \in {"return", "guest", "trapped", "handle"} /\ mapped =>
        /\ mtie
        /\ NearDeadline => mtimecmp <= mtime + Quantum
        /\ NearDeadline /\ timer_scheduled =>
                mtimecmp <= timer_deadline + timer_adjustment

(* The guest's timer interrupt is not raised before the guest's own clock   *)
(* has reached the deadline it wrote to mtimecmp.                          *)
TimerNotEarly ==
    [][timer_scheduled /\ ~timer_scheduled' /\ NearDeadline
         => GuestClock >= timer_deadline]_vars

(* What the guest reads from clint.mtime never goes backwards.             *)
MtimeReadsMonotone == [][mtime_reg' >= mtime_reg]_vars

(* A sleep that has to end: the guest's deadline, if it has set one, is     *)
(* near, and the period after the trap still lies within MaxTime.  For a   *)
(* far deadline nothing is promised: timer_interrupt_sooner takes one in   *)
(* the upper half of the word for an earlier one and puts it in place of   *)
(* the period, so that the host's wfi sleeps on.                           *)
SleepEnds == /\ timer_scheduled => NearDeadline
             /\ mtime + Quantum + ExitTicks <= MaxTime

(* Every trap ends: the guest runs again or the hypervisor has panicked.    *)
(* A wfi too, whose sleep only the comparator can end: the one the last    *)
(* trap has set is enabled and not later than a period.                    *)
TrapsEnd ==
    phase = "trapped" /\ (op = "wfi" => SleepEnds)
        ~> phase \in {"guest", "halted"}

(* A guest timer whose deadline has passed is raised, unless the guest      *)
(* moves the deadline or the hypervisor panics.                            *)
TimerRaised == Overdue ~> (~Overdue \/ phase = "halted")
=============================================================================
