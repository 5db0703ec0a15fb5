--------------------------- MODULE GuestPrivilege ---------------------------
(***************************************************************************)
(* The virtual privilege levels of a guest thread: src/guestprivilege.c    *)
(* over the GuestThreadContext of src/contexts.h.                          *)
(*                                                                         *)
(* The guest has two levels, GM (guest machine mode) and GU (guest user    *)
(* mode); both run in the host's user mode.  The functions of the source   *)
(* are operators from a thread record to a thread record.  The record      *)
(* holds the fields of GuestThreadContext that steer control, and the      *)
(* host CSRs (mepc, mtval, satp) those functions read and write.           *)
(***************************************************************************)
EXTENDS Naturals

CONSTANT NPc                \* number of program counter values

ASSUME NPcAssumption == NPc \in Nat \ {0, 1}

PC == 0 .. NPc - 1          \* 0 is also the reset value of the registers

Entry == 1                  \* 0x80000000, the guest's entry point

\* The address of the following instruction (the guest's code wraps around).
NextPc(pc) == IF pc = NPc - 1 THEN 0 ELSE pc + 1

Cause == {"none", "ecall", "timer"}

TVal == {"zero", "info"}     \* info: an instruction or an address

SatpMode == {"none", "sv39", "other"}

\* What the host's satp points to.
HostSatp == {"bare", "machine", "shadow"}

PanicReason == {"none", "mret from user mode", "Unsupported pagetable mode",
                "GM exception", "unsupported csr", "Unhandled mie fields",
                "unhandled trap"}

Thread == [user_mode : BOOLEAN,
           shadow_page_table : BOOLEAN,       \* TRUE: not NULL
           shadow_pt_active : BOOLEAN,
           deferred_exception : BOOLEAN,
           deferred_mcause : Cause,
           mtvec : PC,                        \* csr.mtvec
           guest_mepc : PC,                   \* csr.mepc
           mcause : Cause,                    \* csr.mcause
           guest_mtval : TVal,                \* csr.mtval
           mstatus_mie : BOOLEAN,
           mstatus_mdt : BOOLEAN,
           mie_mtie : BOOLEAN,
           satp_mode : SatpMode,
           mepc : PC,                         \* host CSR
           mtval : TVal,                      \* host CSR
           satp : HostSatp,                   \* host CSR
           panic : PanicReason]

\* GUEST_THREAD_CONTEXT_INIT: everything is zero except mstatus.MDT.
ThreadInit == [user_mode |-> FALSE,
               shadow_page_table |-> FALSE,
               shadow_pt_active |-> FALSE,
               deferred_exception |-> FALSE,
               deferred_mcause |-> "none",
               mtvec |-> 0,
               guest_mepc |-> 0,
               mcause |-> "none",
               guest_mtval |-> "zero",
               mstatus_mie |-> FALSE,
               mstatus_mdt |-> TRUE,
               mie_mtie |-> FALSE,
               satp_mode |-> "none",
               mepc |-> 0,
               mtval |-> "zero",
               satp |-> "bare",
               panic |-> "none"]

\* panic() does not return: callers do nothing more to a panicked thread.
Panic(t, reason) == [t EXCEPT !.panic = reason]

Panicked(t) == t.panic # "none"

\* w_mepc(guest_addr + 4): the emulated instruction has been executed.
Retire(t) == [t EXCEPT !.mepc = NextPc(t.mepc)]

-----------------------------------------------------------------------------
\* Variant with a mistake: the shadow page table stays in satp.
guest_exception_KeepsSatp(t, mcause) ==
    IF ~t.user_mode
    THEN Panic(t, "GM exception")
    ELSE [t EXCEPT !.shadow_pt_active = FALSE,
                   !.mstatus_mdt = TRUE,
                   !.guest_mepc = t.mepc,
                   !.mepc = t.mtvec,
                   !.user_mode = FALSE,
                   !.mcause = mcause,
                   !.guest_mtval = t.mtval]

(* GU -> GM: forward an exception to the guest's own trap handler.         *)
guest_exception(t, mcause) ==
    IF ~t.user_mode
    THEN Panic(t, "GM exception")
    ELSE [t EXCEPT !.satp = IF t.shadow_pt_active THEN "machine" ELSE t.satp,
                   !.shadow_pt_active = FALSE,
                   !.mstatus_mdt = TRUE,
                   !.guest_mepc = t.mepc,
                   !.mepc = t.mtvec,
                   !.user_mode = FALSE,
                   !.mcause = mcause,
                   !.guest_mtval = t.mtval]

\* Variant with a mistake: MDT is not checked.
guest_check_deferred_IgnoresMdt(t) ==
    IF t.mstatus_mie /\ t.deferred_exception
    THEN guest_exception([t EXCEPT !.deferred_exception = FALSE],
                         t.deferred_mcause)
    ELSE t

\* Variant with a mistake: the flag is cleared before the guest is asked.
guest_check_deferred_ClearsFirst(t) ==
    LET cleared == [t EXCEPT !.deferred_exception = FALSE]
    IN  IF t.mstatus_mie /\ ~t.mstatus_mdt /\ t.deferred_exception
        THEN guest_exception(cleared, t.deferred_mcause)
        ELSE cleared

(* Deliver the deferred exception once the guest accepts interrupts.       *)
guest_check_deferred(t) ==
    IF t.mstatus_mie /\ ~t.mstatus_mdt /\ t.deferred_exception
    THEN guest_exception([t EXCEPT !.deferred_exception = FALSE],
                         t.deferred_mcause)
    ELSE t

(* Only one exception can be deferred: a further one is dropped.           *)
guest_defer_exception(t, mcause) ==
    IF t.deferred_exception
    THEN t
    ELSE guest_check_deferred([t EXCEPT !.deferred_exception = TRUE,
                                        !.deferred_mcause = mcause])

\* Variant with a mistake: GU runs on the table of GM.
guest_mret_KeepsTable(t) ==
    LET user == [t EXCEPT !.user_mode = TRUE,
                          !.mepc = t.guest_mepc,
                          !.mstatus_mdt = FALSE]
    IN  CASE t.user_mode -> Panic(t, "mret from user mode")
          [] ~t.user_mode /\ t.satp_mode # "other" -> guest_check_deferred(user)
          [] ~t.user_mode /\ t.satp_mode = "other" ->
                Panic(user, "Unsupported pagetable mode")

(* GM -> GU.  The shadow root table is allocated on the first use; the     *)
(* page pool is larger than all the tables that exist before it.           *)
guest_mret(t) ==
    LET user == [t EXCEPT !.user_mode = TRUE,
                          !.mepc = t.guest_mepc,
                          !.mstatus_mdt = FALSE]
        paged == [user EXCEPT !.shadow_pt_active = TRUE,
                              !.shadow_page_table = TRUE,
                              !.satp = "shadow"]
    IN  CASE t.user_mode -> Panic(t, "mret from user mode")
          [] ~t.user_mode /\ t.satp_mode = "none" -> guest_check_deferred(user)
          [] ~t.user_mode /\ t.satp_mode = "sv39" -> guest_check_deferred(paged)
          [] ~t.user_mode /\ t.satp_mode = "other" ->
                Panic(user, "Unsupported pagetable mode")

=============================================================================
