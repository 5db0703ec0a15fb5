-------------------------- MODULE HypervisorProofs --------------------------
(***************************************************************************)
(* Proofs about Hypervisor, for every value of its constants.              *)
(***************************************************************************)
EXTENDS Hypervisor, TLAPS

\* What the handlers of guest exceptions keep true of the thread.
Good(t) ==
    /\ t \in Thread
    /\ ~t.user_mode => t.mstatus_mdt
    /\ t.satp = IF t.shadow_pt_active THEN "shadow" ELSE "machine"
    /\ t.shadow_pt_active => t.user_mode /\ t.shadow_page_table

\* No deferred exception waits although the guest accepts it.
Settled(t) == ~(t.deferred_exception /\ t.mstatus_mie /\ ~t.mstatus_mdt)

\* GU is not entered, and keeps its table if it is not left.
Stays(t, u) == u.user_mode => t.user_mode /\ u.satp = t.satp

\* Continuation, of any thread.
ContinuationOf(t) == IF t.user_mode THEN t.mepc ELSE t.guest_mepc

-----------------------------------------------------------------------------
(* guest_exception keeps the thread good and the continuation in place, and *)
(* does not panic in GU.                                                   *)
LEMMA GuestExceptionGood ==
    ASSUME NEW t, Good(t), NEW c \in Cause
    PROVE  /\ Good(guest_exception(t, c))
           /\ guest_exception(t, c).deferred_exception = t.deferred_exception
           /\ t.user_mode => /\ guest_exception(t, c).panic = t.panic
                             /\ guest_exception(t, c).mstatus_mdt
           /\ ~t.user_mode => guest_exception(t, c).panic # "none"
           /\ ContinuationOf(guest_exception(t, c)) = ContinuationOf(t)
           /\ Stays(t, guest_exception(t, c))
BY DEF Good, Thread, guest_exception, Panic, PanicReason, HostSatp,
       ContinuationOf, Stays

(* guest_check_deferred never panics: it delivers only with MDT clear, and  *)
(* then the guest is in GU.                                                *)
LEMMA CheckDeferredGood ==
    ASSUME NEW t, Good(t)
    PROVE  /\ Good(guest_check_deferred(t))
           /\ Settled(guest_check_deferred(t))
           /\ guest_check_deferred(t).panic = t.panic
           /\ ContinuationOf(guest_check_deferred(t)) = ContinuationOf(t)
           /\ Stays(t, guest_check_deferred(t))
<1> DEFINE u == [t EXCEPT !.deferred_exception = FALSE]
<1>1. /\ Good(u)
      /\ u.deferred_exception = FALSE
      /\ u.panic = t.panic
      /\ u.user_mode = t.user_mode /\ u.satp = t.satp
      /\ ContinuationOf(u) = ContinuationOf(t)
  BY DEF Good, Thread, ContinuationOf
<1>2. t.deferred_mcause \in Cause
  BY DEF Good, Thread
<1>3. CASE t.mstatus_mie /\ ~t.mstatus_mdt /\ t.deferred_exception
  <2>1. guest_check_deferred(t) = guest_exception(u, t.deferred_mcause)
    BY <1>3 DEF guest_check_deferred
  <2>2. u.user_mode
    BY <1>3, <1>1 DEF Good
  <2> HIDE DEF u
  <2> QED BY <2>1, <2>2, <1>1, <1>2, GuestExceptionGood DEF Settled, Stays
<1>4. CASE ~(t.mstatus_mie /\ ~t.mstatus_mdt /\ t.deferred_exception)
  BY <1>4 DEF guest_check_deferred, Settled, Stays
<1> QED BY <1>3, <1>4

(* guest_defer_exception: likewise.                                        *)
LEMMA DeferExceptionGood ==
    ASSUME NEW t, Good(t), Settled(t), NEW c \in Cause
    PROVE  /\ Good(guest_defer_exception(t, c))
           /\ Settled(guest_defer_exception(t, c))
           /\ guest_defer_exception(t, c).panic = t.panic
           /\ ContinuationOf(guest_defer_exception(t, c)) = ContinuationOf(t)
           /\ Stays(t, guest_defer_exception(t, c))
<1> DEFINE u == [t EXCEPT !.deferred_exception = TRUE, !.deferred_mcause = c]
<1>1. /\ Good(u) /\ u.panic = t.panic /\ ContinuationOf(u) = ContinuationOf(t)
      /\ u.user_mode = t.user_mode /\ u.satp = t.satp
  BY DEF Good, Thread, ContinuationOf
<1>2. CASE t.deferred_exception
  BY <1>2 DEF guest_defer_exception, Stays
<1>3. CASE ~t.deferred_exception
  <2>1. guest_defer_exception(t, c) = guest_check_deferred(u)
    BY <1>3 DEF guest_defer_exception
  <2> HIDE DEF u
  <2> QED BY <2>1, <1>1, CheckDeferredGood DEF Stays
<1> QED BY <1>2, <1>3

(* panic() changes nothing but the reason.                                 *)
LEMMA PanicGood ==
    ASSUME NEW t, Good(t), NEW reason \in PanicReason
    PROVE  /\ Good(Panic(t, reason))
           /\ Panic(t, reason).panic = reason
           /\ ContinuationOf(Panic(t, reason)) = ContinuationOf(t)
           /\ Stays(t, Panic(t, reason))
BY DEF Good, Thread, Panic, ContinuationOf, Stays

(* guest_mret: GU starts with the shadow table exactly if paging is on, and *)
(* goes on at the guest's mepc even if a deferred exception comes first.   *)
LEMMA MretGood ==
    ASSUME NEW t, Good(t), t.panic = "none"
    PROVE  /\ Good(guest_mret(t))
           /\ Panicked(guest_mret(t)) \/ Settled(guest_mret(t))
           /\ guest_mret(t).panic # "GM exception"
           /\ ContinuationOf(guest_mret(t)) = ContinuationOf(t)
           /\ ~Panicked(guest_mret(t)) => ~t.user_mode
           /\ ~Panicked(guest_mret(t)) /\ guest_mret(t).user_mode =>
                 guest_mret(t).satp =
                    IF t.satp_mode = "sv39" THEN "shadow" ELSE "machine"
<1> DEFINE user == [t EXCEPT !.user_mode = TRUE,
                             !.mepc = t.guest_mepc,
                             !.mstatus_mdt = FALSE]
           paged == [user EXCEPT !.shadow_pt_active = TRUE,
                                 !.shadow_page_table = TRUE,
                                 !.satp = "shadow"]
<1>0. t.satp_mode \in {"none", "sv39", "other"}
  BY DEF Good, Thread, SatpMode
<1>1. CASE t.user_mode
  <2>1. guest_mret(t) = Panic(t, "mret from user mode")
    BY <1>1 DEF guest_mret
  <2> QED BY <2>1 DEF Panic, Panicked, Good, Thread, PanicReason, ContinuationOf
<1>2. CASE ~t.user_mode
  <2>1. /\ Good(user)
        /\ user.panic = "none" /\ user.satp = "machine"
        /\ ContinuationOf(user) = ContinuationOf(t)
    BY <1>2 DEF Good, Thread, ContinuationOf
  <2>2. /\ Good(paged)
        /\ paged.panic = "none" /\ paged.satp = "shadow"
        /\ ContinuationOf(paged) = ContinuationOf(t)
    <3>1. user.user_mode /\ user \in Thread
      BY <2>1 DEF Good, Thread
    <3> HIDE DEF user
    <3>2. /\ paged \in Thread /\ paged.user_mode /\ paged.satp = "shadow"
          /\ paged.shadow_pt_active /\ paged.shadow_page_table
          /\ paged.panic = user.panic
          /\ paged.mepc = user.mepc
      BY <3>1 DEF Thread, HostSatp
    <3> HIDE DEF paged
    <3>3. Good(paged)
      BY <3>2 DEF Good
    <3>4. ContinuationOf(paged) = ContinuationOf(user)
      BY <3>1, <3>2 DEF ContinuationOf
    <3> QED BY <2>1, <3>2, <3>3, <3>4
  <2>3. CASE t.satp_mode = "none"
    <3>1. guest_mret(t) = guest_check_deferred(user)
      BY <1>2, <2>3 DEF guest_mret
    <3> HIDE DEF user, paged
    <3>2. /\ Good(guest_mret(t)) /\ Settled(guest_mret(t))
          /\ guest_mret(t).panic = "none"
          /\ ContinuationOf(guest_mret(t)) = ContinuationOf(t)
          /\ Stays(user, guest_mret(t))
      BY <3>1, <2>1, CheckDeferredGood
    <3>3. guest_mret(t).user_mode => guest_mret(t).satp = "machine"
      BY <2>1, <3>2 DEF Stays
    <3> QED BY <1>2, <2>3, <3>2, <3>3
  <2>4. CASE t.satp_mode = "sv39"
    <3>1. guest_mret(t) = guest_check_deferred(paged)
      BY <1>2, <2>4 DEF guest_mret
    <3> HIDE DEF user, paged
    <3>2. /\ Good(guest_mret(t)) /\ Settled(guest_mret(t))
          /\ guest_mret(t).panic = "none"
          /\ ContinuationOf(guest_mret(t)) = ContinuationOf(t)
          /\ Stays(paged, guest_mret(t))
      BY <3>1, <2>2, CheckDeferredGood
    <3>3. guest_mret(t).user_mode => guest_mret(t).satp = "shadow"
      BY <2>2, <3>2 DEF Stays
    <3> QED BY <1>2, <2>4, <3>2, <3>3
  <2>5. CASE t.satp_mode = "other"
    <3>1. guest_mret(t) = Panic(user, "Unsupported pagetable mode")
      BY <1>2, <2>5 DEF guest_mret
    <3>2. "Unsupported pagetable mode" \in PanicReason
      BY DEF PanicReason
    <3> HIDE DEF user, paged
    <3>3. Good(user) /\ ContinuationOf(user) = ContinuationOf(t)
      BY <2>1, Zenon
    <3>4. /\ Good(Panic(user, "Unsupported pagetable mode"))
          /\ Panic(user, "Unsupported pagetable mode").panic =
                "Unsupported pagetable mode"
          /\ ContinuationOf(Panic(user, "Unsupported pagetable mode")) =
                ContinuationOf(user)
      BY <3>2, <3>3, PanicGood, Zenon
    <3> QED BY <3>1, <3>3, <3>4 DEF Panicked
  <2> QED BY <1>0, <2>3, <2>4, <2>5
<1> QED BY <1>1, <1>2

(* The next program counter is one.                                        *)
LEMMA NextPcType == ASSUME NEW p \in PC PROVE NextPc(p) \in PC
BY NPcAssumption DEF PC, NextPc

(* Retire steps over one instruction.                                      *)
LEMMA RetireGood ==
    ASSUME NEW t, Good(t)
    PROVE  /\ Good(Retire(t))
           /\ Retire(t).panic = t.panic
           /\ Settled(t) => Settled(Retire(t))
           /\ Stays(t, Retire(t))
           /\ ContinuationOf(Retire(t)) =
                IF t.user_mode THEN NextPc(ContinuationOf(t))
                               ELSE ContinuationOf(t)
<1>1. t.mepc \in PC
  BY DEF Good, Thread
<1>2. NextPc(t.mepc) \in PC
  BY <1>1, NextPcType
<1> QED BY <1>2 DEF Good, Thread, Retire, Settled, ContinuationOf, Stays

(* set_virtual_csr cannot clear MDT, and moves the continuation only in GM. *)
LEMMA SetCsrGood ==
    ASSUME NEW t, Good(t), t.panic = "none",
           NEW csr \in CSRNumber, NEW v \in CsrValue(csr)
    PROVE  /\ Good(set_virtual_csr(t, csr, v))
           /\ set_virtual_csr(t, csr, v).panic # "GM exception"
           /\ set_virtual_csr(t, csr, v).user_mode = t.user_mode
           /\ set_virtual_csr(t, csr, v).satp = t.satp
           /\ t.user_mode \/ Panicked(set_virtual_csr(t, csr, v)) =>
                ContinuationOf(set_virtual_csr(t, csr, v)) = ContinuationOf(t)
<1>1. CASE csr = "mstatus"
  <2>1. v \in [mie : BOOLEAN, mdt : BOOLEAN]
    BY <1>1 DEF CsrValue
  <2>2. v.mie \in BOOLEAN /\ v.mdt \in BOOLEAN
    BY <2>1
  <2>3. set_virtual_csr(t, csr, v) =
           [t EXCEPT !.mstatus_mie = v.mie,
                     !.mstatus_mdt = t.mstatus_mdt \/ v.mdt]
    BY <1>1 DEF set_virtual_csr
  <2>4. Good(set_virtual_csr(t, csr, v))
    <3>1. (t.mstatus_mdt \/ v.mdt) \in BOOLEAN
      OBVIOUS
    <3>2. set_virtual_csr(t, csr, v) \in Thread
      BY <2>2, <2>3, <3>1 DEF Good, Thread
    <3> QED BY <2>3, <3>2 DEF Good, Thread
  <2>5. /\ set_virtual_csr(t, csr, v).panic = t.panic
        /\ set_virtual_csr(t, csr, v).user_mode = t.user_mode
        /\ set_virtual_csr(t, csr, v).satp = t.satp
        /\ set_virtual_csr(t, csr, v).mepc = t.mepc
        /\ set_virtual_csr(t, csr, v).guest_mepc = t.guest_mepc
    BY <2>3 DEF Good, Thread
  <2> QED BY <2>4, <2>5 DEF ContinuationOf
<1>2. CASE csr = "mie"
  <2>1. v \in [mtie : BOOLEAN, unhandled : BOOLEAN]
    BY <1>2 DEF CsrValue
  <2>2. v.mtie \in BOOLEAN
    BY <2>1
  <2>3. set_virtual_csr(t, csr, v) =
           [t EXCEPT !.mie_mtie = v.mtie,
                     !.panic = IF v.unhandled THEN "Unhandled mie fields"
                                              ELSE t.panic]
    BY <1>2 DEF set_virtual_csr
  <2> QED BY <2>2, <2>3 DEF Good, Thread, ContinuationOf, Panicked, PanicReason
<1>3. CASE csr = "mtvec"
  BY <1>3 DEF CsrValue, set_virtual_csr, Good, Thread, ContinuationOf, Panicked
<1>4. CASE csr = "satp"
  BY <1>4 DEF CsrValue, set_virtual_csr, Good, Thread, ContinuationOf, Panicked
<1>5. CASE csr = "mepc"
  BY <1>5 DEF CsrValue, set_virtual_csr, Good, Thread, ContinuationOf, Panicked
<1>6. CASE csr = "mcause"
  BY <1>6 DEF CsrValue, set_virtual_csr, Good, Thread, ContinuationOf, Panicked
<1>7. CASE csr = "mtval"
  BY <1>7 DEF CsrValue, set_virtual_csr, Good, Thread, ContinuationOf, Panicked
<1>8. CASE csr = "data"
  BY <1>8 DEF set_virtual_csr, Panicked
<1>9. CASE csr = "unsupported"
  <2>1. set_virtual_csr(t, csr, v) = Panic(t, "unsupported csr")
    BY <1>9 DEF set_virtual_csr
  <2> QED BY <2>1 DEF Good, Thread, ContinuationOf, PanicReason, Panic, Panicked
<1> QED BY <1>1, <1>2, <1>3, <1>4, <1>5, <1>6, <1>7, <1>8, <1>9 DEF CSRNumber

(* A csr instruction that does not panic advances mepc and settles the      *)
(* deferred exceptions, in that order.                                     *)
LEMMA FinishCsrGood ==
    ASSUME NEW t, Good(t), t.panic # "GM exception"
    PROVE  /\ Good(FinishCsr(t))
           /\ Panicked(FinishCsr(t)) \/ Settled(FinishCsr(t))
           /\ FinishCsr(t).panic # "GM exception"
           /\ t.user_mode /\ ~Panicked(FinishCsr(t)) =>
                ContinuationOf(FinishCsr(t)) = NextPc(ContinuationOf(t))
           /\ Panicked(FinishCsr(t)) => FinishCsr(t) = t
           /\ Stays(t, FinishCsr(t))
<1>1. CASE Panicked(t)
  BY <1>1 DEF FinishCsr, Stays
<1>2. CASE ~Panicked(t)
  <2>1. FinishCsr(t) = guest_check_deferred(Retire(t))
    BY <1>2 DEF FinishCsr
  <2>2. /\ Good(Retire(t))
        /\ Retire(t).panic = t.panic
        /\ Stays(t, Retire(t))
        /\ t.user_mode =>
              ContinuationOf(Retire(t)) = NextPc(ContinuationOf(t))
    BY RetireGood
  <2> QED BY <1>2, <2>1, <2>2, CheckDeferredGood DEF Panicked, Stays
<1> QED BY <1>1, <1>2

\* What the emulation of a csr instruction guarantees.
CsrEmulated(t, r) ==
    /\ Good(r)
    /\ Panicked(r) \/ Settled(r)
    /\ r.panic # "GM exception"
    /\ Panicked(r) => ContinuationOf(r) = ContinuationOf(t)
    /\ ~Panicked(r) /\ t.user_mode =>
          ContinuationOf(r) = NextPc(ContinuationOf(t))
    /\ Stays(t, r)

(* csrrw *)
LEMMA CsrrwGood ==
    ASSUME NEW t, Good(t), t.panic = "none",
           NEW csr \in CSRNumber, NEW v \in CsrValue(csr)
    PROVE  CsrEmulated(t, csrrw(t, csr, v))
<1> DEFINE u == set_virtual_csr(t, csr, v)
<1>1. /\ Good(u)
      /\ u.panic # "GM exception"
      /\ u.user_mode = t.user_mode /\ u.satp = t.satp
      /\ t.user_mode \/ Panicked(u) => ContinuationOf(u) = ContinuationOf(t)
  BY SetCsrGood
<1>2. csrrw(t, csr, v) = FinishCsr(u)
  BY DEF csrrw
<1> HIDE DEF u
<1>3. /\ Good(FinishCsr(u))
      /\ Panicked(FinishCsr(u)) \/ Settled(FinishCsr(u))
      /\ FinishCsr(u).panic # "GM exception"
      /\ u.user_mode /\ ~Panicked(FinishCsr(u)) =>
            ContinuationOf(FinishCsr(u)) = NextPc(ContinuationOf(u))
      /\ Panicked(FinishCsr(u)) => FinishCsr(u) = u
      /\ Stays(u, FinishCsr(u))
  BY <1>1, FinishCsrGood
<1>4. Stays(t, FinishCsr(u))
  BY <1>1, <1>3, Zenon DEF Stays
<1> QED BY <1>1, <1>2, <1>3, <1>4 DEF CsrEmulated

(* csrrs with rs1 = x0 *)
LEMMA CsrrGood ==
    ASSUME NEW t, Good(t), t.panic = "none", NEW csr \in CSRNumber
    PROVE  CsrEmulated(t, csrr(t, csr))
<1> DEFINE u == IF csr = "unsupported" THEN Panic(t, "unsupported csr") ELSE t
<1>1. /\ Good(u)
      /\ u.panic # "GM exception"
      /\ u.user_mode = t.user_mode /\ u.satp = t.satp
      /\ ContinuationOf(u) = ContinuationOf(t)
  BY DEF Good, Thread, Panic, PanicReason, ContinuationOf
<1>2. csrr(t, csr) = FinishCsr(u)
  BY DEF csrr
<1> HIDE DEF u
<1>3. /\ Good(FinishCsr(u))
      /\ Panicked(FinishCsr(u)) \/ Settled(FinishCsr(u))
      /\ FinishCsr(u).panic # "GM exception"
      /\ u.user_mode /\ ~Panicked(FinishCsr(u)) =>
            ContinuationOf(FinishCsr(u)) = NextPc(ContinuationOf(u))
      /\ Panicked(FinishCsr(u)) => FinishCsr(u) = u
      /\ Stays(u, FinishCsr(u))
  BY <1>1, FinishCsrGood
<1>4. Stays(t, FinishCsr(u))
  BY <1>1, <1>3, Zenon DEF Stays
<1> QED BY <1>1, <1>2, <1>3, <1>4 DEF CsrEmulated

(* The bitwise or of two values of a register is one.                      *)
LEMMA CsrOrType ==
    ASSUME NEW t, Good(t), NEW csr \in CSRNumber, NEW operand \in CsrValue(csr)
    PROVE  CsrOr(csr, get_virtual_csr(t, csr), operand) \subseteq CsrValue(csr)
<1> DEFINE value == get_virtual_csr(t, csr)
<1>1. CASE csr = "mstatus"
  BY <1>1 DEF CsrOr, CsrValue, get_virtual_csr, Good, Thread
<1>2. CASE csr = "mie"
  BY <1>2 DEF CsrOr, CsrValue, get_virtual_csr, Good, Thread
<1>3. CASE csr = "satp"
  <2>1. value \in SatpMode /\ operand \in SatpMode
    BY <1>3 DEF CsrValue, get_virtual_csr, Good, Thread
  <2>2. CsrOr(csr, value, operand) = WordOr(value, operand, "none", {"other"})
    BY <1>3 DEF CsrOr
  <2>3. CsrValue(csr) = SatpMode
    BY <1>3 DEF CsrValue
  <2> HIDE DEF value
  <2>4. WordOr(value, operand, "none", {"other"}) \subseteq SatpMode
    BY <2>1 DEF WordOr, SatpMode
  <2> QED BY <2>2, <2>3, <2>4 DEF value
<1>4. CASE csr \in {"mtvec", "mepc"}
  <2>1. value \in PC /\ operand \in PC
    BY <1>4 DEF CsrValue, get_virtual_csr, Good, Thread
  <2>2. CsrOr(csr, value, operand) = WordOr(value, operand, 0, PC)
    BY <1>4 DEF CsrOr
  <2>3. CsrValue(csr) = PC
    BY <1>4 DEF CsrValue
  <2> HIDE DEF value
  <2>4. WordOr(value, operand, 0, PC) \subseteq PC
    BY <2>1 DEF WordOr
  <2> QED BY <2>2, <2>3, <2>4 DEF value
<1>5. CASE csr = "mcause"
  <2>1. value \in Cause /\ operand \in Cause
    BY <1>5 DEF CsrValue, get_virtual_csr, Good, Thread
  <2>2. CsrOr(csr, value, operand) = WordOr(value, operand, "none", Cause)
    BY <1>5 DEF CsrOr
  <2>3. CsrValue(csr) = Cause
    BY <1>5 DEF CsrValue
  <2> HIDE DEF value
  <2>4. WordOr(value, operand, "none", Cause) \subseteq Cause
    BY <2>1 DEF WordOr
  <2> QED BY <2>2, <2>3, <2>4 DEF value
<1>6. CASE csr = "mtval"
  <2>1. value \in TVal /\ operand \in TVal
    BY <1>6 DEF CsrValue, get_virtual_csr, Good, Thread
  <2>2. CsrOr(csr, value, operand) = WordOr(value, operand, "zero", TVal)
    BY <1>6 DEF CsrOr
  <2>3. CsrValue(csr) = TVal
    BY <1>6 DEF CsrValue
  <2> HIDE DEF value
  <2>4. WordOr(value, operand, "zero", TVal) \subseteq TVal
    BY <2>1 DEF WordOr
  <2> QED BY <2>2, <2>3, <2>4 DEF value
<1>7. CASE csr \in {"data", "unsupported"}
  BY <1>7 DEF CsrOr, CsrValue
<1> QED BY <1>1, <1>2, <1>3, <1>4, <1>5, <1>6, <1>7 DEF CSRNumber

(* csrrs *)
LEMMA CsrrsGood ==
    ASSUME NEW t, Good(t), t.panic = "none",
           NEW csr \in CSRNumber, NEW operand \in CsrValue(csr),
           NEW r \in csrrs(t, csr, operand)
    PROVE  CsrEmulated(t, r)
<1>1. PICK v \in CsrOr(csr, get_virtual_csr(t, csr), operand) :
         r = csrrw(t, csr, v)
  BY DEF csrrs
<1>2. v \in CsrValue(csr)
  BY CsrOrType
<1> QED BY <1>1, <1>2, CsrrwGood

-----------------------------------------------------------------------------
InHypervisor == {"trapped", "handle", "resume", "resched", "return"}

\* The inductive invariant of the privilege levels: a thread that has not
\* panicked is good and settled between any two steps.
ThreadInv ==
    /\ phase = "boot" => thr = ThreadInit
    /\ phase # "boot" => Good(thr)
    /\ phase # "halted" => thr.panic = "none" /\ Settled(thr)
    /\ DeferredNeverPanics

\* What a handler does to the thread.
HandlerStep ==
    /\ phase = "handle"
    /\ phase' = IF Panicked(thr') THEN "halted" ELSE "resume"
    /\ op' = op
    /\ Good(thr')
    /\ Panicked(thr') \/ Settled(thr')
    /\ thr'.panic = "GM exception" => op = "ecall"
    /\ \/ Stays(thr, thr')
       \/ Panicked(thr')
       \/ /\ ~thr.user_mode
          /\ thr'.user_mode =>
                thr'.satp = IF thr.satp_mode = "sv39" THEN "shadow"
                                                     ELSE "machine"
    /\ \/ /\ thr.user_mode
          /\ ContinuationOf(thr') =
               IF op \in Emulated /\ ~Panicked(thr')
               THEN NextPc(ContinuationOf(thr))
               ELSE ContinuationOf(thr)
       \/ ~thr.user_mode /\ ContinuationOf(thr') = ContinuationOf(thr)
       \/ ~thr.user_mode /\ ~Panicked(thr') /\ op \in {"csrrw", "csrrs"}

(* Every handler keeps the thread good and its user code's place.          *)
LEMMA HandleThread == ThreadInv /\ Handle => HandlerStep
<1> SUFFICES ASSUME ThreadInv, Handle PROVE HandlerStep
  OBVIOUS
<1>1. phase = "handle"
  BY DEF Handle, Handling, HandleInterrupt, HandleCsrrw, HandleCsrrs,
         HandleSfence, HandleMret, HandleWfi, HandleEcall, HandleFault,
         HandleLoad, HandleStore, HandleFatal
<1>2. Good(thr) /\ thr.panic = "none" /\ Settled(thr)
  BY <1>1 DEF ThreadInv
<1>3. CASE HandleInterrupt
  <2>1. thr' = thr \/ thr' = guest_defer_exception(thr, "timer")
    BY <1>3 DEF HandleInterrupt, timer_on_interrupt
  <2>2. Good(thr') /\ Settled(thr') /\ thr'.panic = "none"
        /\ ContinuationOf(thr') = ContinuationOf(thr) /\ Stays(thr, thr')
    BY <1>2, <2>1, DeferExceptionGood DEF Cause, Stays
  <2>3. op = "timer" /\ Finish(thr')
    BY <1>3 DEF HandleInterrupt, Handling
  <2> QED BY <1>1, <2>2, <2>3 DEF HandlerStep, Finish, Emulated
<1>4. CASE HandleCsrrw
  <2>1. PICK csr \in CSRNumber : \E v \in CsrValue(csr) :
           Finish(csrrw(thr, csr, v))
    BY <1>4 DEF HandleCsrrw
  <2>2. PICK v \in CsrValue(csr) : Finish(csrrw(thr, csr, v))
    BY <2>1
  <2>3. CsrEmulated(thr, thr')
    BY <1>2, <2>2, CsrrwGood DEF Finish
  <2>4. op = "csrrw"
    BY <1>4 DEF HandleCsrrw, Handling
  <2> QED BY <1>1, <2>2, <2>3, <2>4 DEF HandlerStep, Finish, Emulated,
                                        CsrEmulated
<1>5. CASE HandleCsrrs
  <2>1. PICK csr \in CSRNumber :
           \/ Finish(csrr(thr, csr))
           \/ \E operand \in CsrValue(csr) :
                 \E t \in csrrs(thr, csr, operand) : Finish(t)
    BY <1>5 DEF HandleCsrrs
  <2>2. CsrEmulated(thr, thr') /\ Finish(thr')
    <3>1. CASE Finish(csrr(thr, csr))
      BY <1>2, <3>1, CsrrGood DEF Finish
    <3>2. ASSUME NEW operand \in CsrValue(csr),
                 NEW t \in csrrs(thr, csr, operand), Finish(t)
          PROVE  CsrEmulated(thr, thr') /\ Finish(thr')
      BY <1>2, <3>2, CsrrsGood DEF Finish
    <3> QED BY <2>1, <3>1, <3>2
  <2>3. op = "csrrs"
    BY <1>5 DEF HandleCsrrs, Handling
  <2> QED BY <1>1, <2>2, <2>3 DEF HandlerStep, Finish, Emulated, CsrEmulated
<1>6. CASE HandleSfence
  <2>1. op = "sfence" /\ Finish(Retire(thr))
    BY <1>6 DEF HandleSfence, Handling
  <2> QED BY <1>1, <1>2, <2>1, RetireGood DEF HandlerStep, Finish, Emulated,
                                              Panicked
<1>7. CASE HandleMret
  <2>1. op = "mret" /\ Finish(guest_mret(thr))
    BY <1>7 DEF HandleMret, Handling
  <2> QED BY <1>1, <1>2, <2>1, MretGood DEF HandlerStep, Finish, Emulated
<1>8. CASE HandleWfi \/ HandleFault
  <2>1. op \in {"wfi", "fault"} /\ Finish(thr)
    BY <1>8 DEF HandleWfi, HandleFault, Handling
  <2> QED BY <1>1, <1>2, <2>1 DEF HandlerStep, Finish, Emulated, Stays
<1>9. CASE HandleEcall
  <2>1. op = "ecall" /\ Finish(guest_exception(thr, "ecall"))
    BY <1>9 DEF HandleEcall, Handling
  <2>2. Good(thr') /\ ContinuationOf(thr') = ContinuationOf(thr)
        /\ Stays(thr, thr')
    BY <1>2, <2>1, GuestExceptionGood DEF Finish, Cause
  <2>3. Panicked(thr') \/ Settled(thr')
    <3>1. CASE thr.user_mode
      BY <1>2, <2>1, <3>1, GuestExceptionGood DEF Finish, Cause, Settled
    <3>2. CASE ~thr.user_mode
      BY <1>2, <2>1, <3>2, GuestExceptionGood DEF Finish, Cause, Panicked
    <3> QED BY <3>1, <3>2
  <2> QED BY <1>1, <2>1, <2>2, <2>3 DEF HandlerStep, Finish, Emulated
<1>10. CASE HandleLoad \/ HandleStore
  <2>1. /\ op \in {"load", "store"}
        /\ \/ Finish(Retire(thr))
           \/ Finish(Panic(thr, "unhandled trap"))
    BY <1>10 DEF HandleLoad, HandleStore, Handling
  <2>2. CASE Finish(Retire(thr))
    BY <1>1, <1>2, <2>1, <2>2, RetireGood DEF HandlerStep, Finish, Emulated,
                                              Panicked
  <2>3. CASE Finish(Panic(thr, "unhandled trap"))
    BY <1>1, <1>2, <2>1, <2>3, PanicGood DEF HandlerStep, Finish, Emulated,
                                             Panicked, PanicReason
  <2> QED BY <2>1, <2>2, <2>3
<1>11. CASE HandleFatal
  <2>1. op = "fatal" /\ Finish(Panic(thr, "unhandled trap"))
    BY <1>11 DEF HandleFatal, Handling
  <2> QED BY <1>1, <1>2, <2>1, PanicGood DEF HandlerStep, Finish, Emulated,
                                             Panicked, PanicReason
<1> QED BY <1>3, <1>4, <1>5, <1>6, <1>7, <1>8, <1>9, <1>10, <1>11 DEF Handle

-----------------------------------------------------------------------------
(* 64-bit arithmetic stays within 64 bits.                                 *)
LEMMA WordArithmetic ==
    ASSUME NEW a \in Time, NEW b \in Time
    PROVE  Add(a, b) \in Time /\ Sub(a, b) \in Time
BY TimerAssumption DEF Time, Add, Sub

\* The variables other than the thread have their types, and the way back to
\* the guest still fits below MaxTime.
ClockTypeOK ==
    /\ mtime \in 0 .. MaxTime
    /\ mtimecmp \in Time
    /\ mtie \in BOOLEAN
    /\ interrupt_target \in {"none", "guest"}
    /\ timer_scheduled \in BOOLEAN
    /\ timer_deadline \in Time
    /\ timer_suspended_at \in 0 .. MaxTime
    /\ timer_adjustment \in Time
    /\ mtime_reg \in Time
    /\ phase \in Phase
    /\ op \in TrapKind \union {"none", "timer"}
    /\ mapped \in BOOLEAN
    /\ phase \in InHypervisor => mtime + ExitTicks <= MaxTime

(* mtime is below 2^63.                                                    *)
LEMMA MtimeIsTime == ClockTypeOK => mtime \in Time /\ timer_suspended_at \in Time
BY HypervisorAssumption, TimerAssumption DEF ClockTypeOK, Time

\* The part of the timer no handler touches.
HandlerLeaves ==
    /\ phase = "handle"
    /\ phase' \in {"resume", "halted"}
    /\ op' = op
    /\ UNCHANGED <<mtime, mtimecmp, mtie, interrupt_target,
                   timer_suspended_at, timer_adjustment>>
    /\ timer_scheduled /\ ~timer_scheduled' =>
          op = "timer" /\ interrupt_target = "guest"

(* A handler moves neither the clock nor the comparator, and only the timer *)
(* interrupt of the guest clears timer_scheduled.                          *)
LEMMA HandleClock == ClockTypeOK /\ Handle => ClockTypeOK' /\ HandlerLeaves
<1> SUFFICES ASSUME ClockTypeOK, Handle PROVE ClockTypeOK' /\ HandlerLeaves
  OBVIOUS
<1> DEFINE Rest == /\ phase = "handle"
                   /\ phase' \in {"resume", "halted"}
                   /\ op' = op
<1>1. CASE HandleInterrupt
  <2>1. Rest /\ timer_on_interrupt /\ UNCHANGED <<mtime_reg, mapped>>
        /\ op = "timer"
    BY <1>1 DEF HandleInterrupt, Handling, Finish
  <2> QED BY <2>1 DEF timer_on_interrupt, ClockTypeOK, HandlerLeaves, Phase,
                      InHypervisor
<1>2. CASE \/ HandleCsrrw \/ HandleCsrrs \/ HandleSfence \/ HandleMret
           \/ HandleWfi \/ HandleEcall \/ HandleFault \/ HandleFatal
  <2>1. /\ Rest
        /\ UNCHANGED <<timer_vars, mtime_reg>>
        /\ mapped' \in {mapped, TRUE}
    BY <1>2 DEF HandleCsrrw, HandleCsrrs, HandleSfence, HandleMret, HandleWfi,
                HandleEcall, HandleFault, HandleFatal, Handling, Finish
  <2> QED BY <2>1 DEF timer_vars, ClockTypeOK, HandlerLeaves, Phase,
                      InHypervisor
<1>3. CASE HandleLoad
  <2>1. /\ Rest
        /\ UNCHANGED <<timer_vars, mapped>>
        /\ mtime_reg' \in {mtime_reg, timer_get_time_virtual}
    BY <1>3 DEF HandleLoad, Handling, Finish, virtual_mmdev_load
  <2>2. timer_get_time_virtual \in Time
    BY MtimeIsTime, WordArithmetic DEF ClockTypeOK, timer_get_time_virtual
  <2> QED BY <2>1, <2>2 DEF timer_vars, ClockTypeOK, HandlerLeaves, Phase,
                            InHypervisor
<1>4. CASE HandleStore
  <2>1. /\ Rest
        /\ UNCHANGED <<mtime, mtimecmp, mtie, interrupt_target,
                       timer_suspended_at, timer_adjustment, mtime_reg, mapped>>
        /\ \/ UNCHANGED <<timer_deadline, timer_scheduled>>
           \/ timer_deadline' \in Deadlines /\ timer_scheduled' = TRUE
    BY <1>4 DEF HandleStore, Handling, Finish, virtual_mmdev_store, timer_vars
  <2>2. timer_deadline' \in Time
    BY <2>1, HypervisorAssumption DEF ClockTypeOK
  <2>3. timer_scheduled' \in BOOLEAN /\ (timer_scheduled => timer_scheduled')
    <3>1. timer_scheduled \in BOOLEAN
      BY DEF ClockTypeOK
    <3>2. CASE timer_scheduled' = timer_scheduled
      BY <3>1, <3>2, Zenon
    <3>3. CASE timer_scheduled' = TRUE
      BY <3>3, Zenon
    <3> QED BY <2>1, <3>2, <3>3, Zenon
  <2> QED BY <2>1, <2>2, <2>3 DEF ClockTypeOK, HandlerLeaves, Phase,
                                  InHypervisor
<1> QED BY <1>1, <1>2, <1>3, <1>4 DEF Handle

(* ClockTypeOK is inductive.                                               *)
LEMMA ClockTypeStep == ClockTypeOK /\ [Next]_vars => ClockTypeOK'
<1> SUFFICES ASSUME ClockTypeOK, [Next]_vars PROVE ClockTypeOK'
  OBVIOUS
<1> USE HypervisorAssumption, TimerAssumption
<1>1. CASE boot_main
  BY <1>1 DEF boot_main, timer_vars, ClockTypeOK, Phase, InHypervisor
<1>2. CASE Tick
  BY <1>2 DEF Tick, ClockTypeOK, Phase, InHypervisor
<1>3. CASE GuestRun
  BY <1>3 DEF GuestRun, timer_vars, ClockTypeOK, Phase, InHypervisor
<1>4. ASSUME NEW kind \in Ops \union {"timer"}, Leave(kind)
      PROVE  ClockTypeOK'
  BY <1>4 DEF Leave, ClockTypeOK, Phase, InHypervisor
<1>5. CASE Suspend
  BY <1>5 DEF Suspend, timer_suspend_virtual, ClockTypeOK, Phase, InHypervisor
<1>6. CASE Handle
  BY <1>6, HandleClock
<1>7. CASE Resume
  <2>1. timer_adjustment' \in Time
    <3>1. Sub(mtime, timer_suspended_at) \in Time
      BY MtimeIsTime, WordArithmetic
    <3>2. Add(Sub(mtime, timer_suspended_at), AdditionalCycles) \in Time
      BY <3>1, WordArithmetic DEF Time
    <3> QED BY <1>7, <3>2, WordArithmetic DEF Resume, timer_resume_virtual,
                                              ClockTypeOK
  <2> QED BY <1>7, <2>1 DEF Resume, timer_resume_virtual, ClockTypeOK, Phase,
                            InHypervisor
<1>8. CASE Reschedule
  <2>1. Add(mtime, Quantum) \in Time
    BY MtimeIsTime, WordArithmetic DEF Time
  <2>2. HostDeadline \in Time
    BY WordArithmetic DEF ClockTypeOK, HostDeadline
  <2> QED BY <1>8, <2>1, <2>2 DEF Reschedule, timer_reschedule, ClockTypeOK,
                                  Phase, InHypervisor
<1>9. CASE enter_guest
  BY <1>9 DEF enter_guest, ClockTypeOK, Phase, InHypervisor
<1>10. CASE halt_thread
  BY <1>10 DEF halt_thread, ClockTypeOK
<1>11. CASE Sleep \/ UNCHANGED vars
  BY <1>11 DEF Sleep, vars, timer_vars, ClockTypeOK
<1> QED BY <1>1, <1>2, <1>3, <1>4, <1>5, <1>6, <1>7, <1>8, <1>9, <1>10, <1>11
        DEF Next, Trap, TimerTrap

(* A thread that has just been initialized is one.                         *)
LEMMA ThreadInitType == ThreadInit \in Thread
BY NPcAssumption DEF ThreadInit, Thread, PC, Cause, TVal, SatpMode, HostSatp,
                     PanicReason

(* ThreadInv is inductive.                                                 *)
LEMMA ThreadStep == ThreadInv /\ [Next]_vars => ThreadInv'
<1> SUFFICES ASSUME ThreadInv, [Next]_vars PROVE ThreadInv'
  OBVIOUS
<1>1. CASE boot_main
  <2>1. /\ thr = ThreadInit
        /\ thr' = [ThreadInit EXCEPT !.mepc = Entry, !.satp = "machine"]
        /\ phase' = "guest" /\ op' = op
    BY <1>1 DEF boot_main, ThreadInv
  <2>2. Good(thr') /\ thr'.panic = "none" /\ Settled(thr')
    <3> DEFINE t == ThreadInit
    <3>1. t \in Thread
      BY ThreadInitType
    <3>2. /\ t.mstatus_mdt /\ ~t.shadow_pt_active /\ ~t.deferred_exception
          /\ t.panic = "none"
      BY Zenon DEF ThreadInit
    <3>3. Entry \in PC /\ "machine" \in HostSatp
      BY NPcAssumption DEF Entry, PC, HostSatp
    <3>4. thr' = [t EXCEPT !.mepc = Entry, !.satp = "machine"]
      BY <2>1
    <3> HIDE DEF t
    <3> QED BY <3>1, <3>2, <3>3, <3>4 DEF Good, Thread, Settled
  <2> QED BY <2>1, <2>2 DEF ThreadInv, DeferredNeverPanics
<1>2. CASE GuestRun
  <2>1. PICK pc \in PC : thr' = [thr EXCEPT !.mepc = pc]
    BY <1>2 DEF GuestRun
  <2>2. phase = "guest" /\ phase' = "guest" /\ op' = op
    BY <1>2 DEF GuestRun
  <2>3. Good(thr) /\ thr.panic = "none" /\ Settled(thr)
    BY <2>2 DEF ThreadInv
  <2>4. Good(thr') /\ thr'.panic = "none" /\ Settled(thr')
    BY <2>1, <2>3 DEF Good, Thread, Settled
  <2> QED BY <2>2, <2>4 DEF ThreadInv, DeferredNeverPanics
<1>3. ASSUME NEW kind, Leave(kind)
      PROVE  ThreadInv'
  <2>1. /\ phase = "guest" /\ phase' = "trapped"
        /\ thr' = [thr EXCEPT !.mtval = TrapValue(kind)]
    BY <1>3 DEF Leave
  <2>2. Good(thr) /\ thr.panic = "none" /\ Settled(thr)
    BY <2>1 DEF ThreadInv
  <2>3. TrapValue(kind) \in TVal
    BY DEF TrapValue, TVal
  <2>4. Good(thr') /\ thr'.panic = "none" /\ Settled(thr')
    BY <2>1, <2>2, <2>3 DEF Good, Thread, Settled
  <2> QED BY <2>1, <2>4 DEF ThreadInv, DeferredNeverPanics
<1>4. CASE Handle
  BY <1>4, HandleThread DEF HandlerStep, ThreadInv, DeferredNeverPanics,
                            Panicked
<1>5. CASE Tick
  BY <1>5 DEF Tick, ThreadInv, DeferredNeverPanics
<1>6. CASE Suspend \/ Resume \/ Reschedule \/ enter_guest
  <2>1. /\ thr' = thr /\ op' = op
        /\ phase \notin {"boot", "halted"}
        /\ phase' \notin {"boot", "halted"}
    BY <1>6 DEF Suspend, Resume, Reschedule, enter_guest, timer_suspend_virtual,
                timer_resume_virtual, timer_reschedule
  <2> QED BY <2>1 DEF ThreadInv, DeferredNeverPanics
<1>7. CASE halt_thread
  BY <1>7 DEF halt_thread, ThreadInv, DeferredNeverPanics
<1>8. CASE Sleep \/ UNCHANGED vars
  BY <1>8 DEF Sleep, vars, ThreadInv, DeferredNeverPanics
<1> QED BY <1>1, <1>2, <1>3, <1>4, <1>5, <1>6, <1>7, <1>8
        DEF Next, Trap, TimerTrap

(* Both hold in the initial state.                                         *)
LEMMA InitInv == Init => ClockTypeOK /\ ThreadInv
<1> SUFFICES ASSUME Init PROVE ClockTypeOK /\ ThreadInv
  OBVIOUS
<1>1. ClockTypeOK
  <2>1. mtie \in BOOLEAN /\ timer_scheduled \in BOOLEAN /\ mapped \in BOOLEAN
    BY Zenon DEF Init, TimerInit
  <2> QED BY <2>1, HypervisorAssumption, TimerAssumption
          DEF Init, TimerInit, ClockTypeOK, Time, Phase, InHypervisor
<1>2. ThreadInv
  BY DEF Init, ThreadInv, DeferredNeverPanics, ThreadInit, Settled
<1> QED BY <1>1, <1>2

(* The two inductive invariants hold in every reachable state.             *)
THEOREM Invariants == Spec => [](ClockTypeOK /\ ThreadInv)
<1>1. ClockTypeOK /\ ThreadInv /\ [Next]_vars => (ClockTypeOK /\ ThreadInv)'
  BY ClockTypeStep, ThreadStep
<1> QED BY <1>1, InitInv, PTL DEF Spec

(* Every variable has its type: in particular no operation on the 64-bit    *)
(* times leaves 64 bits, and mtime stays within the bound.                 *)
THEOREM TypeCorrect == Spec => []TypeOK
<1>1. ClockTypeOK /\ ThreadInv => TypeOK
  <2> SUFFICES ASSUME ClockTypeOK, ThreadInv PROVE TypeOK
    OBVIOUS
  <2>1. thr \in Thread
    BY ThreadInitType DEF ThreadInv, Good
  <2> QED BY <2>1 DEF TypeOK, ClockTypeOK
<1> QED BY <1>1, Invariants, PTL

(* GM never runs with MDT clear.                                           *)
THEOREM MdtInGMHolds == Spec => []MdtInGM
<1>1. ThreadInv => MdtInGM
  BY DEF ThreadInv, MdtInGM, Good, ThreadInit
<1> QED BY <1>1, Invariants, PTL

(* The host's satp and shadow_pt_active agree, and GM never runs on the     *)
(* shadow table.                                                           *)
THEOREM SatpMatchesLevelHolds == Spec => []SatpMatchesLevel
<1>1. ThreadInv => SatpMatchesLevel
  BY DEF ThreadInv, SatpMatchesLevel, Good
<1> QED BY <1>1, Invariants, PTL

(* No deliverable exception is left waiting by any handler.                *)
THEOREM NoDeliverablePendingHolds == Spec => []NoDeliverablePending
<1>1. ThreadInv => NoDeliverablePending
  BY DEF ThreadInv, NoDeliverablePending, Settled
<1> QED BY <1>1, Invariants, PTL

(* A deferred exception is never delivered to GM.                          *)
THEOREM DeferredNeverPanicsHolds == Spec => []DeferredNeverPanics
<1>1. ThreadInv => DeferredNeverPanics
  BY DEF ThreadInv
<1> QED BY <1>1, Invariants, PTL

(* Through traps, deferred deliveries and mret the guest's user code goes   *)
(* on where it was, and an emulated instruction is stepped over once.      *)
THEOREM ContinuationKeptHolds == Spec => ContinuationKept
<1> DEFINE Kept ==
      \/ Continuation' = IF Handled /\ thr.user_mode /\ op \in Emulated
                         THEN NextPc(Continuation)
                         ELSE Continuation
      \/ phase = "guest" /\ thr.user_mode
      \/ Handled /\ ~thr.user_mode /\ op \in {"csrrw", "csrrs"}
<1>1. ClockTypeOK /\ ThreadInv /\ [Next]_vars => [Kept]_vars
  <2> SUFFICES ASSUME ThreadInv, Next PROVE Kept
    OBVIOUS
  <2>1. CASE Handle
    BY <2>1, HandleThread DEF HandlerStep, Handled, Panicked, Continuation,
                              ContinuationOf
  <2>2. CASE boot_main
    <3>1. /\ thr = ThreadInit
          /\ thr' = [ThreadInit EXCEPT !.mepc = Entry, !.satp = "machine"]
          /\ phase = "boot"
      BY <2>2 DEF boot_main, ThreadInv
    <3>2. ~ThreadInit.user_mode
      BY Zenon DEF ThreadInit
    <3>3. ThreadInit \in Thread
      BY ThreadInitType
    <3> QED BY <3>1, <3>2, <3>3 DEF Continuation, Handled, Thread
  <2>3. CASE GuestRun
    <3>1. phase = "guest" /\ Good(thr)
      BY <2>3 DEF GuestRun, ThreadInv
    <3> QED BY <2>3, <3>1 DEF GuestRun, Continuation, Handled, Good, Thread
  <2>4. ASSUME NEW kind, Leave(kind) PROVE Kept
    <3>1. phase = "guest" /\ Good(thr)
      BY <2>4 DEF Leave, ThreadInv
    <3> QED BY <2>4, <3>1 DEF Leave, Continuation, Handled, Good, Thread
  <2>5. CASE Tick \/ Suspend \/ Resume \/ Reschedule \/ enter_guest \/ halt_thread
    <3>1. thr' = thr /\ ~Handled
      BY <2>5 DEF Tick, Suspend, Resume, Reschedule, enter_guest, halt_thread,
                  timer_suspend_virtual, timer_resume_virtual,
                  timer_reschedule, Handled
    <3> QED BY <3>1 DEF Continuation
  <2>6. CASE Sleep
    BY <2>6 DEF Sleep, vars, Continuation, Handled
  <2> QED BY <2>1, <2>2, <2>3, <2>4, <2>5, <2>6 DEF Next, Trap, TimerTrap
<1> QED BY <1>1, Invariants, PTL DEF Spec, ContinuationKept

(* Entering GU puts the guest on the shadow table if its satp has Sv39 and  *)
(* on GM's table otherwise, leaving it puts GM back on its own, and no     *)
(* other step changes the table.                                           *)
THEOREM TableFollowsLevelHolds == Spec => TableFollowsLevel
<1> DEFINE Follows ==
      phase # "boot" /\ ~Panicked(thr') =>
         /\ EntersGU => thr'.satp = IF thr.satp_mode = "sv39" THEN "shadow"
                                                             ELSE "machine"
         /\ EntersGM => thr'.satp = "machine"
         /\ ~EntersGU /\ ~EntersGM => thr'.satp = thr.satp
<1>1. ClockTypeOK /\ ThreadInv /\ [Next]_vars => [Follows]_vars
  <2> SUFFICES ASSUME ThreadInv, Next, phase # "boot" PROVE Follows
    OBVIOUS
  <2>1. Good(thr)
    BY DEF ThreadInv
  <2>2. CASE Handle
    <3>1. HandlerStep
      BY <2>2, HandleThread
    <3>2. ~thr.user_mode => thr.satp = "machine"
      BY <2>1 DEF Good
    <3>3. ~thr'.user_mode => thr'.satp = "machine"
      BY <3>1 DEF HandlerStep, Good
    <3> QED BY <3>1, <3>2, <3>3 DEF HandlerStep, Stays, EntersGU, EntersGM
  <2>3. CASE UNCHANGED <<thr.user_mode, thr.satp>>
    BY <2>3 DEF EntersGU, EntersGM
  <2>4. CASE GuestRun
    <3>1. UNCHANGED <<thr.user_mode, thr.satp>>
      BY <2>1, <2>4 DEF GuestRun, Good, Thread
    <3> QED BY <2>3, <3>1
  <2>5. ASSUME NEW kind, Leave(kind) PROVE Follows
    <3>1. UNCHANGED <<thr.user_mode, thr.satp>>
      BY <2>1, <2>5 DEF Leave, Good, Thread
    <3> QED BY <2>3, <3>1
  <2>6. CASE \/ Tick \/ Suspend \/ Resume \/ Reschedule \/ enter_guest
             \/ halt_thread \/ Sleep
    <3>1. thr' = thr
      BY <2>6 DEF Tick, Suspend, Resume, Reschedule, enter_guest, halt_thread,
                  Sleep, vars, timer_suspend_virtual, timer_resume_virtual,
                  timer_reschedule
    <3> QED BY <2>3, <3>1
  <2> QED BY <2>2, <2>4, <2>5, <2>6 DEF Next, Trap, TimerTrap, boot_main
<1> QED BY <1>1, Invariants, PTL DEF Spec, TableFollowsLevel
=============================================================================
