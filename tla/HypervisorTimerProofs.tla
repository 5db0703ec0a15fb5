----------------------- MODULE HypervisorTimerProofs -----------------------
(***************************************************************************)
(* Proofs about the clock of the guest, its timer and the exceptions that  *)
(* the timer raises, for every value of the constants of Hypervisor.       *)
(***************************************************************************)
EXTENDS HypervisorProofs

\* The guest's clock is not negative, and the trap lies in the past; before
\* the guest runs nothing is mapped and no interrupt is meant for it.
ClockInv ==
    /\ phase = "boot" => ~mapped /\ interrupt_target = "none"
    /\ phase \in {"boot", "guest"} => timer_adjustment <= mtime
    /\ phase = "trapped" =>
          timer_adjustment + AdditionalCycles <= mtime + ExitTicks
    /\ phase \in {"handle", "resume", "halted"} =>
          timer_adjustment + AdditionalCycles <= timer_suspended_at + ExitTicks
    /\ phase \in {"handle", "resume"} => timer_suspended_at <= mtime
    /\ phase \in {"resched", "return"} => timer_adjustment <= mtime + ExitTicks

(* timer_resume_virtual does not wrap around: it takes away the time since  *)
(* timer_suspend_virtual and AdditionalCycles.                             *)
LEMMA ResumeExact ==
    ASSUME ClockTypeOK, ClockInv, Resume
    PROVE  timer_adjustment' = timer_adjustment + (mtime - timer_suspended_at)
                                 + AdditionalCycles
<1>1. /\ mtime \in Nat /\ timer_suspended_at \in Nat /\ timer_adjustment \in Nat
      /\ AdditionalCycles \in Nat /\ ExitTicks \in Nat
      /\ timer_suspended_at <= mtime
      /\ timer_adjustment + AdditionalCycles <= timer_suspended_at + ExitTicks
      /\ mtime + ExitTicks < Word
      /\ MaxTime \in Nat /\ Quantum \in Nat /\ Word \in Nat
  BY HypervisorAssumption, TimerAssumption
     DEF ClockTypeOK, ClockInv, Resume, Time, InHypervisor
<1>2. Sub(mtime, timer_suspended_at) = mtime - timer_suspended_at
  BY <1>1 DEF Sub
<1>3. Add(mtime - timer_suspended_at, AdditionalCycles)
        = mtime - timer_suspended_at + AdditionalCycles
  BY <1>1 DEF Add
<1>4. Add(timer_adjustment, mtime - timer_suspended_at + AdditionalCycles)
        = timer_adjustment + (mtime - timer_suspended_at) + AdditionalCycles
  BY <1>1 DEF Add
<1> QED BY <1>2, <1>3, <1>4 DEF Resume, timer_resume_virtual

(* ClockInv is inductive, and no step sets the guest's clock back.         *)
LEMMA ClockStep ==
    ClockTypeOK /\ ClockInv /\ [Next]_vars
       => ClockInv' /\ GuestClock' >= GuestClock
<1> SUFFICES ASSUME ClockTypeOK, ClockInv, [Next]_vars
             PROVE  ClockInv' /\ GuestClock' >= GuestClock
  OBVIOUS
<1>0. /\ mtime \in Nat /\ timer_suspended_at \in Nat /\ timer_adjustment \in Nat
      /\ AdditionalCycles \in Nat /\ ExitTicks \in Nat /\ EntryTicks \in Nat
      /\ AdditionalCycles <= EntryTicks + ExitTicks
      /\ phase \in Phase
  BY HypervisorAssumption, TimerAssumption DEF ClockTypeOK, Time
<1>1. CASE boot_main
  BY <1>0, <1>1 DEF boot_main, timer_vars, ClockInv, GuestClock
<1>2. CASE Tick
  BY <1>0, <1>2 DEF Tick, ClockInv, GuestClock, Phase
<1>3. CASE GuestRun
  BY <1>0, <1>3 DEF GuestRun, timer_vars, ClockInv, GuestClock
<1>4. ASSUME NEW kind, Leave(kind)
      PROVE  ClockInv' /\ GuestClock' >= GuestClock
  BY <1>0, <1>4 DEF Leave, ClockInv, GuestClock
<1>5. CASE Suspend
  BY <1>0, <1>5 DEF Suspend, timer_suspend_virtual, ClockInv, GuestClock
<1>6. CASE Handle
  BY <1>0, <1>6, HandleClock DEF HandlerLeaves, ClockInv, GuestClock
<1>7. CASE Resume
  <2>1. timer_adjustment' = timer_adjustment + (mtime - timer_suspended_at)
                              + AdditionalCycles
    BY <1>7, ResumeExact
  <2>2. phase = "resume" /\ phase' = "resched"
        /\ UNCHANGED <<mtime, timer_suspended_at>>
    BY <1>7 DEF Resume, timer_resume_virtual
  <2> QED BY <1>0, <2>1, <2>2 DEF ClockInv, GuestClock
<1>8. CASE Reschedule
  BY <1>0, <1>8 DEF Reschedule, timer_reschedule, ClockInv, GuestClock
<1>9. CASE enter_guest
  BY <1>0, <1>9 DEF enter_guest, ClockInv, GuestClock
<1>10. CASE halt_thread
  BY <1>0, <1>10 DEF halt_thread, ClockInv, GuestClock
<1>11. CASE Sleep \/ UNCHANGED vars
  BY <1>0, <1>11 DEF Sleep, vars, timer_vars, ClockInv, GuestClock, Phase
<1> QED BY <1>1, <1>2, <1>3, <1>4, <1>5, <1>6, <1>7, <1>8, <1>9, <1>10, <1>11
        DEF Next, Trap, TimerTrap

(* ClockInv holds in every reachable state.                                *)
THEOREM ClockInvHolds == Spec => []ClockInv
<1>1. Init => ClockInv
  BY HypervisorAssumption, TimerAssumption DEF Init, TimerInit, ClockInv
<1>2. ClockTypeOK /\ ClockInv /\ [Next]_vars => ClockInv'
  BY ClockStep
<1> QED BY <1>1, <1>2, Invariants, PTL DEF Spec

(* No step, whatever the lengths of the guest's and of the hypervisor's     *)
(* turns, sets the guest's clock back.                                     *)
THEOREM GuestClockMonotoneHolds == Spec => GuestClockMonotone
<1>1. ClockTypeOK /\ ClockInv /\ [Next]_vars => [GuestClock' >= GuestClock]_vars
  BY ClockStep
<1> QED BY <1>1, Invariants, ClockInvHolds, PTL DEF Spec, GuestClockMonotone

-----------------------------------------------------------------------------
\* The phases from timer_reschedule to the end of the next handler, in which
\* the comparator agrees with timer_deadline and timer_adjustment.
Armed == {"return", "guest", "trapped", "handle"}

\* For a near deadline timer_reschedule takes the minimum, and what the timer
\* interrupt of a guest deadline says of the guest's clock.
DeadlineInv ==
    /\ phase \in Armed /\ NearDeadline /\ interrupt_target = "guest" =>
          mtimecmp = timer_deadline + timer_adjustment
    /\ phase \in {"trapped", "handle"} /\ op = "timer" =>
          GuestClock + timer_adjustment >= mtimecmp

(* The signed comparison of timer_compare is exact for near deadlines: the  *)
(* comparator is set to the earlier one of the two times.                  *)
LEMMA RescheduleExact ==
    ASSUME ClockTypeOK, ClockInv, Reschedule, NearDeadline
    PROVE  /\ mtimecmp' <= mtime + Quantum
           /\ timer_scheduled => mtimecmp' <= timer_deadline + timer_adjustment
           /\ interrupt_target' = "guest" =>
                mtimecmp' = timer_deadline + timer_adjustment
<1> DEFINE D == timer_deadline + timer_adjustment
           P == mtime + Quantum
<1>1. /\ mtime \in Nat /\ timer_adjustment \in Nat /\ timer_deadline \in Nat
      /\ MaxTime \in Nat /\ ExitTicks \in Nat /\ Quantum \in Nat /\ Word \in Nat
      /\ timer_adjustment <= mtime + ExitTicks
      /\ mtime + ExitTicks <= MaxTime
      /\ 2 * (timer_deadline + ExitTicks) < Word
      /\ 2 * (MaxTime + Quantum + ExitTicks) < Word
  BY HypervisorAssumption, TimerAssumption
     DEF ClockTypeOK, ClockInv, Reschedule, Time, InHypervisor, NearDeadline
<1>2. Add(mtime, Quantum) = P /\ P \in Nat
  BY <1>1 DEF Add
<1>3. HostDeadline = D /\ D \in Nat
  BY <1>1 DEF Add, HostDeadline
<1>4. timer_compare_lt(D, P) <=> D < P
  <2>1. CASE D >= P
    <3>1. Sub(D, P) = D - P
      BY <1>2, <1>3, <2>1 DEF Sub
    <3>2. 2 * (D - P) < Word
      BY <1>1
    <3> QED BY <1>1, <1>2, <1>3, <2>1, <3>1, <3>2 DEF timer_compare_lt
  <2>2. CASE D < P
    <3>1. Sub(D, P) = D - P + Word
      BY <1>2, <1>3, <2>2 DEF Sub
    <3>2. 2 * (D - P + Word) >= Word
      BY <1>1
    <3> QED BY <2>2, <3>1, <3>2 DEF timer_compare_lt
  <2> QED BY <1>2, <1>3, <2>1, <2>2
<1>5. /\ mtimecmp' = IF timer_scheduled /\ timer_compare_lt(D, P) THEN D ELSE P
      /\ interrupt_target' = IF timer_scheduled /\ timer_compare_lt(D, P)
                             THEN "guest" ELSE "none"
  BY <1>2, <1>3 DEF Reschedule, timer_reschedule
<1>6. CASE timer_scheduled /\ D < P
  <2>1. mtimecmp' = D
    BY <1>4, <1>5, <1>6
  <2> QED BY <1>2, <1>3, <1>6, <2>1
<1>7. CASE ~(timer_scheduled /\ D < P)
  <2>1. mtimecmp' = P /\ interrupt_target' = "none"
    BY <1>4, <1>5, <1>7
  <2>2. timer_scheduled => P <= D
    BY <1>2, <1>3, <1>7
  <2> HIDE DEF D, P
  <2> QED BY <1>2, <2>1, <2>2 DEF D, P
<1> QED BY <1>6, <1>7

(* ComparatorCovers is inductive.                                          *)
LEMMA ComparatorStep ==
    ClockTypeOK /\ ClockInv /\ ComparatorCovers /\ [Next]_vars
       => ComparatorCovers'
<1> SUFFICES ASSUME ClockTypeOK, ClockInv, ComparatorCovers, [Next]_vars
             PROVE  ComparatorCovers'
  OBVIOUS
<1>0. /\ mtime \in Nat /\ mtimecmp \in Nat /\ Quantum \in Nat
      /\ EntryTicks \in Nat /\ ExitTicks \in Nat
  BY HypervisorAssumption, TimerAssumption DEF ClockTypeOK, Time
<1>1. CASE boot_main
  BY <1>1 DEF boot_main, timer_vars, ComparatorCovers, ClockInv
<1>2. CASE Tick
  BY <1>0, <1>2 DEF Tick, ComparatorCovers, NearDeadline
<1>3. CASE GuestRun
  BY <1>3 DEF GuestRun, timer_vars, ComparatorCovers, NearDeadline
<1>4. ASSUME NEW kind, Leave(kind) PROVE ComparatorCovers'
  BY <1>0, <1>4 DEF Leave, ComparatorCovers, NearDeadline
<1>5. CASE Suspend
  BY <1>5 DEF Suspend, timer_suspend_virtual, ComparatorCovers, NearDeadline
<1>6. CASE Handle
  BY <1>6, HandleClock DEF HandlerLeaves, ComparatorCovers
<1>7. CASE Resume
  BY <1>7 DEF Resume, ComparatorCovers
<1>8. CASE Reschedule
  <2>1. /\ mtie' = TRUE
        /\ UNCHANGED <<mtime, timer_scheduled, timer_deadline,
                       timer_adjustment>>
    BY <1>8 DEF Reschedule, timer_reschedule
  <2>2. NearDeadline' = NearDeadline
    BY <2>1 DEF NearDeadline
  <2>3. NearDeadline => /\ mtimecmp' <= mtime + Quantum
                        /\ timer_scheduled =>
                              mtimecmp' <= timer_deadline + timer_adjustment
    BY <1>8, RescheduleExact
  <2> QED BY <2>1, <2>2, <2>3 DEF ComparatorCovers
<1>9. CASE enter_guest
  BY <1>0, <1>9 DEF enter_guest, ComparatorCovers, NearDeadline
<1>10. CASE halt_thread
  BY <1>10 DEF halt_thread, ComparatorCovers
<1>11. CASE Sleep \/ UNCHANGED vars
  BY <1>11 DEF Sleep, vars, timer_vars, ComparatorCovers, NearDeadline
<1> QED BY <1>1, <1>2, <1>3, <1>4, <1>5, <1>6, <1>7, <1>8, <1>9, <1>10, <1>11
        DEF Next, Trap, TimerTrap

(* DeadlineInv is inductive.                                               *)
LEMMA DeadlineStep ==
    ClockTypeOK /\ ClockInv /\ DeadlineInv /\ [Next]_vars => DeadlineInv'
<1> SUFFICES ASSUME ClockTypeOK, ClockInv, DeadlineInv, [Next]_vars
             PROVE  DeadlineInv'
  OBVIOUS
<1>0. /\ mtime \in Nat /\ mtimecmp \in Nat /\ timer_suspended_at \in Nat
      /\ timer_adjustment \in Nat
      /\ AdditionalCycles \in Nat /\ EntryTicks \in Nat /\ ExitTicks \in Nat
      /\ AdditionalCycles <= EntryTicks + ExitTicks
  BY HypervisorAssumption, TimerAssumption DEF ClockTypeOK, Time
<1>1. CASE boot_main
  BY <1>1 DEF boot_main, timer_vars, DeadlineInv, Armed, NearDeadline,
              ClockInv
<1>2. CASE Tick
  BY <1>0, <1>2 DEF Tick, DeadlineInv, NearDeadline, GuestClock
<1>3. CASE GuestRun
  BY <1>3 DEF GuestRun, timer_vars, DeadlineInv, NearDeadline
<1>4. CASE TimerTrap
  BY <1>0, <1>4 DEF TimerTrap, InterruptPending, Leave, DeadlineInv, Armed,
                    NearDeadline, GuestClock
<1>5. ASSUME NEW kind \in Ops, Trap(kind) PROVE DeadlineInv'
  <2>1. kind # "timer"
    BY HypervisorAssumption DEF TrapKind, IllegalInstruction, PageFault
  <2> QED BY <1>5, <2>1 DEF Trap, Leave, DeadlineInv, Armed, NearDeadline
<1>6. CASE Suspend
  BY <1>0, <1>6 DEF Suspend, timer_suspend_virtual, DeadlineInv, Armed,
                    NearDeadline, GuestClock
<1>7. CASE Handle
  BY <1>7, HandleClock DEF HandlerLeaves, DeadlineInv, Armed
<1>8. CASE Resume
  BY <1>8 DEF Resume, DeadlineInv, Armed
<1>9. CASE Reschedule
  <2>1. UNCHANGED <<timer_deadline, timer_adjustment>> /\ phase' = "return"
    BY <1>9 DEF Reschedule, timer_reschedule
  <2>2. NearDeadline' = NearDeadline
    BY <2>1 DEF NearDeadline
  <2>3. NearDeadline /\ interrupt_target' = "guest" =>
           mtimecmp' = timer_deadline + timer_adjustment
    BY <1>9, RescheduleExact
  <2> QED BY <2>1, <2>2, <2>3 DEF DeadlineInv
<1>10. CASE enter_guest
  BY <1>10 DEF enter_guest, DeadlineInv, Armed, NearDeadline
<1>11. CASE halt_thread
  BY <1>11 DEF halt_thread, DeadlineInv, Armed
<1>12. CASE Sleep \/ UNCHANGED vars
  BY <1>12 DEF Sleep, vars, timer_vars, DeadlineInv, NearDeadline, GuestClock
<1> QED BY <1>1, <1>2, <1>3, <1>4, <1>5, <1>6, <1>7, <1>8, <1>9, <1>10, <1>11,
           <1>12 DEF Next

(* From the first trap on the guest never runs, and never sleeps, without a *)
(* timer interrupt ahead that is as early as its deadline asks for.        *)
THEOREM ComparatorCoversHolds == Spec => []ComparatorCovers
<1>1. Init => ComparatorCovers
  BY DEF Init, ComparatorCovers
<1> QED BY <1>1, ComparatorStep, Invariants, ClockInvHolds, PTL DEF Spec

(* The guest's timer interrupt is never early on the guest's own clock.    *)
THEOREM TimerNotEarlyHolds == Spec => TimerNotEarly
<1> DEFINE NotEarly == timer_scheduled /\ ~timer_scheduled' /\ NearDeadline
                          => GuestClock >= timer_deadline
<1>1. Init => DeadlineInv
  BY DEF Init, DeadlineInv, Armed
<1>2. ClockTypeOK /\ DeadlineInv /\ [Next]_vars => [NotEarly]_vars
  <2> SUFFICES ASSUME ClockTypeOK, DeadlineInv, Next,
                      timer_scheduled, ~timer_scheduled', NearDeadline
               PROVE  GuestClock >= timer_deadline
    OBVIOUS
  <2>1. Handle
    BY DEF Next, boot_main, Tick, GuestRun, Trap, TimerTrap, Leave, Suspend,
           Resume, Reschedule, enter_guest, halt_thread, Sleep, vars,
           timer_vars, timer_suspend_virtual, timer_resume_virtual,
           timer_reschedule
  <2>2. phase = "handle" /\ op = "timer" /\ interrupt_target = "guest"
    BY <2>1, HandleClock DEF HandlerLeaves
  <2>3. /\ mtimecmp = timer_deadline + timer_adjustment
        /\ GuestClock + timer_adjustment >= mtimecmp
    BY <2>2 DEF DeadlineInv, Armed
  <2>4. /\ timer_deadline \in Int /\ timer_adjustment \in Int
        /\ GuestClock \in Int
    BY <2>2, HypervisorAssumption, TimerAssumption DEF ClockTypeOK, Time,
                                                       GuestClock
  <2> HIDE DEF GuestClock
  <2> QED BY <2>3, <2>4
<1> QED BY <1>1, <1>2, DeadlineStep, Invariants, ClockInvHolds, PTL
        DEF Spec, TimerNotEarly

-----------------------------------------------------------------------------
(* No timer exception is lost: the proof of TimerKept.                     *)

\* Only timer exceptions are ever deferred.
OnlyTimer(t) == t.deferred_exception => t.deferred_mcause = "timer"

\* The guest's handler is about to run for a timer exception.
DeliveredTo(t) == ~t.user_mode /\ t.mcause = "timer" /\ t.mepc = t.mtvec

\* The change of a thread from t to r loses no exception.
Keeps(t, r) ==
    /\ OnlyTimer(r)
    /\ t.deferred_exception => r.deferred_exception \/ DeliveredTo(r)

\* The deferred exception is not touched.
SameDeferred(t, r) ==
    /\ r.deferred_exception = t.deferred_exception
    /\ r.deferred_mcause = t.deferred_mcause

-----------------------------------------------------------------------------
(* What does not touch the deferred exception keeps it.                    *)
LEMMA SameDeferredKeeps ==
    ASSUME NEW t, NEW r, OnlyTimer(t), SameDeferred(t, r)
    PROVE  Keeps(t, r)
BY DEF Keeps, OnlyTimer, SameDeferred

(* Nor does it matter what happens after such a change.                    *)
LEMMA SameDeferredFirst ==
    ASSUME NEW t, NEW u, NEW r, SameDeferred(t, u), Keeps(u, r)
    PROVE  Keeps(t, r)
BY DEF Keeps, SameDeferred

(* guest_exception, Retire and panic() leave the deferred exception alone. *)
LEMMA SimpleSame ==
    ASSUME NEW t, Good(t), NEW c, NEW reason
    PROVE  /\ SameDeferred(t, guest_exception(t, c))
           /\ SameDeferred(t, Retire(t))
           /\ SameDeferred(t, Panic(t, reason))
BY DEF SameDeferred, Good, Thread, guest_exception, Retire, Panic

(* A write of a CSR does, too.                                             *)
LEMMA SetCsrSame ==
    ASSUME NEW t, Good(t), NEW csr \in CSRNumber, NEW v
    PROVE  SameDeferred(t, set_virtual_csr(t, csr, v))
<1>1. CASE csr \in {"mstatus", "mie"}
  BY <1>1 DEF set_virtual_csr, SameDeferred, Good, Thread
<1>2. CASE csr \in {"mtvec", "satp", "mepc", "mcause", "mtval", "data"}
  BY <1>2 DEF set_virtual_csr, SameDeferred, Good, Thread
<1>3. CASE csr = "unsupported"
  <2>1. set_virtual_csr(t, csr, v) = Panic(t, "unsupported csr")
    BY <1>3 DEF set_virtual_csr
  <2> QED BY <2>1, SimpleSame
<1> QED BY <1>1, <1>2, <1>3 DEF CSRNumber

(* guest_check_deferred gives up the exception only to deliver it: in GU,   *)
(* where the delivery enters the guest's handler.                          *)
LEMMA CheckDeferredKeeps ==
    ASSUME NEW t, Good(t), OnlyTimer(t)
    PROVE  Keeps(t, guest_check_deferred(t))
<1> DEFINE r == guest_check_deferred(t)
           u == [t EXCEPT !.deferred_exception = FALSE]
<1>1. CASE t.mstatus_mie /\ ~t.mstatus_mdt /\ t.deferred_exception
  <2>1. r = guest_exception(u, "timer")
    BY <1>1 DEF guest_check_deferred, OnlyTimer
  <2>2. u.user_mode /\ ~u.deferred_exception /\ u \in Thread
    BY <1>1 DEF Good, Thread
  <2> HIDE DEF r, u
  <2>3. DeliveredTo(r) /\ ~r.deferred_exception
    BY <2>1, <2>2 DEF guest_exception, DeliveredTo, Thread
  <2> QED BY <2>3 DEF Keeps, OnlyTimer, r
<1>2. CASE ~(t.mstatus_mie /\ ~t.mstatus_mdt /\ t.deferred_exception)
  BY <1>2 DEF guest_check_deferred, Keeps
<1> QED BY <1>1, <1>2

(* A raised timer exception is deferred or delivered, and one that is       *)
(* dropped finds another one waiting.                                      *)
LEMMA DeferKeeps ==
    ASSUME NEW t, Good(t), OnlyTimer(t)
    PROVE  /\ OnlyTimer(guest_defer_exception(t, "timer"))
           /\ \/ guest_defer_exception(t, "timer").deferred_exception
              \/ DeliveredTo(guest_defer_exception(t, "timer"))
<1> DEFINE u == [t EXCEPT !.deferred_exception = TRUE,
                          !.deferred_mcause = "timer"]
<1>1. CASE t.deferred_exception
  BY <1>1 DEF guest_defer_exception
<1>2. CASE ~t.deferred_exception
  <2>1. guest_defer_exception(t, "timer") = guest_check_deferred(u)
    BY <1>2 DEF guest_defer_exception
  <2>2. Good(u) /\ OnlyTimer(u) /\ u.deferred_exception
    BY DEF Good, Thread, OnlyTimer, Cause
  <2> HIDE DEF u
  <2> QED BY <2>1, <2>2, CheckDeferredKeeps DEF Keeps
<1> QED BY <1>1, <1>2

(* guest_mret looks at the deferred exception once the guest is in GU.     *)
LEMMA MretKeeps ==
    ASSUME NEW t, Good(t), OnlyTimer(t)
    PROVE  Keeps(t, guest_mret(t))
<1> DEFINE user == [t EXCEPT !.user_mode = TRUE,
                             !.mepc = t.guest_mepc,
                             !.mstatus_mdt = FALSE]
           paged == [user EXCEPT !.shadow_pt_active = TRUE,
                                 !.shadow_page_table = TRUE,
                                 !.satp = "shadow"]
<1>0. t.satp_mode \in {"none", "sv39", "other"}
  BY DEF Good, Thread, SatpMode
<1>1. CASE t.user_mode
  <2>1. guest_mret(t) = Panic(t, "mret from user mode")
    BY <1>1 DEF guest_mret
  <2> QED BY <2>1, SimpleSame, SameDeferredKeeps
<1>2. CASE ~t.user_mode
  <2>1. Good(user) /\ SameDeferred(t, user) /\ OnlyTimer(user)
    BY <1>2 DEF Good, Thread, SameDeferred, OnlyTimer
  <2>2. Good(paged) /\ SameDeferred(t, paged) /\ OnlyTimer(paged)
    BY <1>2 DEF Good, Thread, SameDeferred, OnlyTimer, HostSatp
  <2>3. CASE t.satp_mode = "none"
    <3>1. guest_mret(t) = guest_check_deferred(user)
      BY <1>2, <2>3 DEF guest_mret
    <3> HIDE DEF user, paged
    <3> QED BY <3>1, <2>1, CheckDeferredKeeps, SameDeferredFirst
  <2>4. CASE t.satp_mode = "sv39"
    <3>1. guest_mret(t) = guest_check_deferred(paged)
      BY <1>2, <2>4 DEF guest_mret
    <3> HIDE DEF user, paged
    <3> QED BY <3>1, <2>2, CheckDeferredKeeps, SameDeferredFirst
  <2>5. CASE t.satp_mode = "other"
    <3>1. guest_mret(t) = Panic(user, "Unsupported pagetable mode")
      BY <1>2, <2>5 DEF guest_mret
    <3> HIDE DEF user, paged
    <3> QED BY <3>1, <2>1, SimpleSame, SameDeferredKeeps, SameDeferredFirst
  <2> QED BY <1>0, <2>3, <2>4, <2>5
<1> QED BY <1>1, <1>2

(* The end of a csr instruction.                                           *)
LEMMA FinishCsrKeeps ==
    ASSUME NEW t, Good(t), OnlyTimer(t)
    PROVE  Keeps(t, FinishCsr(t))
<1>1. CASE Panicked(t)
  BY <1>1, SameDeferredKeeps DEF FinishCsr, SameDeferred
<1>2. CASE ~Panicked(t)
  <2>1. FinishCsr(t) = guest_check_deferred(Retire(t))
    BY <1>2 DEF FinishCsr
  <2>2. Good(Retire(t)) /\ SameDeferred(t, Retire(t))
    BY RetireGood, SimpleSame
  <2>3. OnlyTimer(Retire(t))
    BY <2>2 DEF OnlyTimer, SameDeferred
  <2> QED BY <2>1, <2>2, <2>3, CheckDeferredKeeps, SameDeferredFirst
<1> QED BY <1>1, <1>2

(* csrrw, and with it csrrs.                                               *)
LEMMA CsrrwKeeps ==
    ASSUME NEW t, Good(t), t.panic = "none", OnlyTimer(t),
           NEW csr \in CSRNumber, NEW v \in CsrValue(csr)
    PROVE  Keeps(t, csrrw(t, csr, v))
<1> DEFINE u == set_virtual_csr(t, csr, v)
<1>1. Good(u) /\ SameDeferred(t, u)
  BY SetCsrGood, SetCsrSame
<1>2. csrrw(t, csr, v) = FinishCsr(u)
  BY DEF csrrw
<1> HIDE DEF u
<1>3. OnlyTimer(u)
  BY <1>1 DEF OnlyTimer, SameDeferred
<1> QED BY <1>1, <1>2, <1>3, FinishCsrKeeps, SameDeferredFirst

(* csrrs with rs1 = x0 *)
LEMMA CsrrKeeps ==
    ASSUME NEW t, Good(t), OnlyTimer(t), NEW csr \in CSRNumber
    PROVE  Keeps(t, csrr(t, csr))
<1> DEFINE u == IF csr = "unsupported" THEN Panic(t, "unsupported csr") ELSE t
<1>1. Good(u)
  BY PanicGood DEF PanicReason
<1>2. SameDeferred(t, u)
  BY SimpleSame DEF SameDeferred
<1>3. csrr(t, csr) = FinishCsr(u)
  BY DEF csrr
<1> HIDE DEF u
<1>4. OnlyTimer(u)
  BY <1>2 DEF OnlyTimer, SameDeferred
<1> QED BY <1>1, <1>2, <1>3, <1>4, FinishCsrKeeps, SameDeferredFirst

-----------------------------------------------------------------------------
\* A step loses no exception that waits, nor one that it raises.
StepKeeps ==
    /\ Keeps(thr, thr')
    /\ Raised => thr'.deferred_exception \/ DeliveredTo(thr')

(* No handler loses one.                                                   *)
LEMMA HandleKeeps ==
    ASSUME ClockTypeOK, ThreadInv, OnlyTimer(thr), Handle
    PROVE  StepKeeps
<1>1. phase = "handle"
  BY DEF Handle, HandleInterrupt, HandleCsrrw, HandleCsrrs, HandleSfence,
         HandleMret, HandleWfi, HandleEcall, HandleFault, HandleLoad,
         HandleStore, HandleFatal, Handling
<1>2. Good(thr) /\ thr.panic = "none"
  BY <1>1 DEF ThreadInv
<1>3. CASE HandleInterrupt
  <2>1. CASE interrupt_target = "none"
    <3>1. thr' = thr /\ timer_scheduled' = timer_scheduled
      BY <1>3, <2>1 DEF HandleInterrupt, timer_on_interrupt
    <3>2. ~Raised
      BY <3>1 DEF Raised
    <3>3. Keeps(thr, thr')
      BY <3>1, SameDeferredKeeps DEF SameDeferred
    <3> QED BY <3>2, <3>3 DEF StepKeeps
  <2>2. CASE interrupt_target # "none"
    <3>1. thr' = guest_defer_exception(thr, "timer")
      BY <1>3, <2>2 DEF HandleInterrupt, timer_on_interrupt
    <3> QED BY <3>1, <1>2, DeferKeeps DEF StepKeeps, Keeps
  <2> QED BY <2>1, <2>2
<1>4. ASSUME ~HandleInterrupt PROVE ~Raised
  <2>1. op # "timer"
    BY <1>4 DEF Handle, HandleCsrrw, HandleCsrrs, HandleSfence, HandleMret,
                HandleWfi, HandleEcall, HandleFault, HandleLoad, HandleStore,
                HandleFatal, Handling
  <2> QED BY <2>1, HandleClock DEF HandlerLeaves, Raised
<1>5. ASSUME ~HandleInterrupt PROVE Keeps(thr, thr')
  <2>1. CASE HandleCsrrw
    <3>1. PICK csr \in CSRNumber : \E value \in CsrValue(csr) :
             thr' = csrrw(thr, csr, value)
      BY <2>1 DEF HandleCsrrw, Finish
    <3> QED BY <3>1, <1>2, CsrrwKeeps
  <2>2. CASE HandleCsrrs
    <3>1. PICK csr \in CSRNumber :
             \/ thr' = csrr(thr, csr)
             \/ \E operand \in CsrValue(csr) : thr' \in csrrs(thr, csr, operand)
      BY <2>2 DEF HandleCsrrs, Finish
    <3>2. CASE thr' = csrr(thr, csr)
      BY <3>2, <1>2, CsrrKeeps
    <3>3. ASSUME NEW operand \in CsrValue(csr), thr' \in csrrs(thr, csr, operand)
          PROVE  Keeps(thr, thr')
      <4>1. PICK v \in CsrOr(csr, get_virtual_csr(thr, csr), operand) :
               thr' = csrrw(thr, csr, v)
        BY <3>3 DEF csrrs
      <4>2. v \in CsrValue(csr)
        BY <1>2, CsrOrType
      <4> QED BY <4>1, <4>2, <1>2, CsrrwKeeps
    <3> QED BY <3>1, <3>2, <3>3
  <2>3. CASE HandleMret
    <3>1. thr' = guest_mret(thr)
      BY <2>3 DEF HandleMret, Finish
    <3> QED BY <3>1, <1>2, MretKeeps
  <2>4. CASE HandleEcall
    <3>1. thr' = guest_exception(thr, "ecall")
      BY <2>4 DEF HandleEcall, Finish
    <3> QED BY <3>1, <1>2, SimpleSame, SameDeferredKeeps
  <2>5. CASE \/ HandleSfence \/ HandleWfi \/ HandleFault \/ HandleLoad
             \/ HandleStore \/ HandleFatal
    <3>1. thr' \in {thr, Retire(thr), Panic(thr, "unhandled trap")}
      BY <2>5 DEF HandleSfence, HandleWfi, HandleFault, HandleLoad, HandleStore,
                  HandleFatal, Finish
    <3>2. SameDeferred(thr, thr)
      BY DEF SameDeferred
    <3> QED BY <3>1, <3>2, <1>2, SimpleSame, SameDeferredKeeps
  <2> QED BY <1>5, <2>1, <2>2, <2>3, <2>4, <2>5 DEF Handle
<1> QED BY <1>3, <1>4, <1>5 DEF StepKeeps

(* No step loses one.                                                      *)
LEMMA NextKeeps ==
    ASSUME ClockTypeOK, ThreadInv, OnlyTimer(thr), [Next]_vars
    PROVE  StepKeeps
<1>1. CASE Handle
  BY <1>1, HandleKeeps
<1>2. ASSUME SameDeferred(thr, thr'), timer_scheduled' = timer_scheduled
      PROVE  StepKeeps
  BY <1>2, SameDeferredKeeps DEF StepKeeps, Raised
<1>3. CASE boot_main
  <2>1. thr = ThreadInit /\ timer_scheduled' = timer_scheduled
    BY <1>3 DEF boot_main, ThreadInv, timer_vars
  <2>2. thr \in Thread
    BY <2>1, ThreadInitType
  <2>3. SameDeferred(thr, thr')
    BY <1>3, <2>2 DEF boot_main, SameDeferred, Thread
  <2> QED BY <1>2, <2>1, <2>3
<1>4. CASE GuestRun
  <2>1. Good(thr) /\ timer_scheduled' = timer_scheduled
    BY <1>4 DEF GuestRun, ThreadInv, timer_vars
  <2>2. SameDeferred(thr, thr')
    BY <1>4, <2>1 DEF GuestRun, SameDeferred, Good, Thread
  <2> QED BY <1>2, <2>1, <2>2
<1>5. ASSUME NEW kind, Leave(kind) PROVE StepKeeps
  <2>1. Good(thr) /\ timer_scheduled' = timer_scheduled
    BY <1>5 DEF Leave, ThreadInv
  <2>2. SameDeferred(thr, thr')
    BY <1>5, <2>1 DEF Leave, SameDeferred, Good, Thread
  <2> QED BY <1>2, <2>1, <2>2
<1>6. CASE \/ Tick \/ Suspend \/ Resume \/ Reschedule \/ enter_guest
           \/ halt_thread \/ Sleep \/ UNCHANGED vars
  <2>1. thr' = thr /\ timer_scheduled' = timer_scheduled
    BY <1>6 DEF Tick, Suspend, Resume, Reschedule, enter_guest, halt_thread,
                timer_suspend_virtual, timer_resume_virtual, timer_reschedule,
                Sleep, vars, timer_vars
  <2> QED BY <1>2, <2>1 DEF SameDeferred
<1> QED BY <1>1, <1>3, <1>4, <1>5, <1>6 DEF Next, Trap, TimerTrap

(* Nothing but a timer exception is ever deferred.                         *)
LEMMA OnlyTimerHolds == Spec => []OnlyTimer(thr)
<1>1. Init => OnlyTimer(thr)
  BY DEF Init, OnlyTimer, ThreadInit
<1>2. ClockTypeOK /\ ThreadInv /\ OnlyTimer(thr) /\ [Next]_vars => OnlyTimer(thr)'
  <2>1. StepKeeps => OnlyTimer(thr)'
    BY DEF StepKeeps, Keeps, OnlyTimer
  <2> QED BY <2>1, NextKeeps
<1> QED BY <1>1, <1>2, Invariants, PTL DEF Spec

(* A timer exception that is raised stays deferred until the guest's        *)
(* handler is entered for it, through every trap in between.               *)
THEOREM TimerKeptHolds == Spec => TimerKept
<1> DEFINE Kept == thr.deferred_exception \/ Raised
                     => \/ thr'.deferred_exception /\ thr'.deferred_mcause = "timer"
                        \/ Delivered'
<1>1. ClockTypeOK /\ ThreadInv /\ OnlyTimer(thr) /\ [Next]_vars => [Kept]_vars
  <2>1. StepKeeps => Kept
    BY DEF StepKeeps, Keeps, OnlyTimer, DeliveredTo, Delivered
  <2> QED BY <2>1, NextKeeps
<1> QED BY <1>1, Invariants, OnlyTimerHolds, PTL DEF Spec, TimerKept
=============================================================================
