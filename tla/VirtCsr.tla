------------------------------ MODULE VirtCsr ------------------------------
(***************************************************************************)
(* The guest's control and status registers: src/virtcsr.c, and the csrrw  *)
(* and csrrs instructions of src/exchandlers.c that reach them.            *)
(*                                                                         *)
(* mscratch, the pmp registers and the bits mstatus.MPP, mie.MSIE, mie.MEIE *)
(* and satp.PPN are stored and read back but steer nothing: accesses to    *)
(* them are accesses to "data" here.                                       *)
(***************************************************************************)
EXTENDS GuestPrivilege

CSRNumber == {"mstatus", "mie", "mtvec", "satp", "mepc", "mcause", "mtval",
              "data", "unsupported"}

\* The values of a register, its unmodelled bits left out.
CsrValue(csr) ==
    CASE csr = "mstatus" -> [mie : BOOLEAN, mdt : BOOLEAN]
      [] csr = "mie" -> [mtie : BOOLEAN, unhandled : BOOLEAN]
      [] csr = "mtvec" -> PC
      [] csr = "satp" -> SatpMode
      [] csr = "mepc" -> PC
      [] csr = "mcause" -> Cause
      [] csr = "mtval" -> TVal
      [] csr \in {"data", "unsupported"} -> {0}

get_virtual_csr(t, csr) ==
    CASE csr = "mstatus" -> [mie |-> t.mstatus_mie, mdt |-> t.mstatus_mdt]
      [] csr = "mie" -> [mtie |-> t.mie_mtie, unhandled |-> FALSE]
      [] csr = "mtvec" -> t.mtvec
      [] csr = "satp" -> t.satp_mode
      [] csr = "mepc" -> t.guest_mepc
      [] csr = "mcause" -> t.mcause
      [] csr = "mtval" -> t.guest_mtval
      [] csr \in {"data", "unsupported"} -> 0

\* Variant with a mistake: a write of mstatus can clear MDT.
set_virtual_csr_ClearsMdt(t, csr, value) ==
    IF csr = "mstatus"
    THEN [t EXCEPT !.mstatus_mie = value.mie, !.mstatus_mdt = value.mdt]
    ELSE t

\* A write of mstatus can set MDT and never clears it; only mret does.
set_virtual_csr(t, csr, value) ==
    CASE csr = "mstatus" ->
           [t EXCEPT !.mstatus_mie = value.mie,
                     !.mstatus_mdt = t.mstatus_mdt \/ value.mdt]
      [] csr = "mie" ->
           [t EXCEPT !.mie_mtie = value.mtie,
                     !.panic = IF value.unhandled THEN "Unhandled mie fields"
                                                  ELSE t.panic]
      [] csr = "mtvec" -> [t EXCEPT !.mtvec = value]
      [] csr = "satp" -> [t EXCEPT !.satp_mode = value]
      [] csr = "mepc" -> [t EXCEPT !.guest_mepc = value]
      [] csr = "mcause" -> [t EXCEPT !.mcause = value]
      [] csr = "mtval" -> [t EXCEPT !.guest_mtval = value]
      [] csr = "data" -> t
      [] csr = "unsupported" -> Panic(t, "unsupported csr")

-----------------------------------------------------------------------------
\* The possible values of a | b for members of S, where zero is the member
\* that stands for 0 and the bits of the others are not modelled.
WordOr(a, b, zero, S) == CASE b \in {zero, a} -> {a}
                           [] b \notin {zero, a} /\ a = zero -> {b}
                           [] b \notin {zero, a} /\ a # zero -> S

\* The possible values of value | operand in a register.
CsrOr(csr, value, operand) ==
    CASE csr = "mstatus" -> {[mie |-> value.mie \/ operand.mie,
                              mdt |-> value.mdt \/ operand.mdt]}
      [] csr = "mie" -> {[mtie |-> value.mtie \/ operand.mtie,
                          unhandled |-> value.unhandled \/ operand.unhandled]}
      [] csr = "satp" -> WordOr(value, operand, "none", {"other"})
      [] csr \in {"mtvec", "mepc"} -> WordOr(value, operand, 0, PC)
      [] csr = "mcause" -> WordOr(value, operand, "none", Cause)
      [] csr = "mtval" -> WordOr(value, operand, "zero", TVal)
      [] csr \in {"data", "unsupported"} -> {0}

\* Variants with a mistake: no look at the deferred exceptions, and one before
\* mepc is advanced.
FinishCsr_NoCheck(t) == IF Panicked(t) THEN t ELSE Retire(t)
FinishCsr_CheckFirst(t) == IF Panicked(t) THEN t
                                          ELSE Retire(guest_check_deferred(t))

\* The end of csrrw and csrrs: advance mepc, then look for deferred exceptions.
FinishCsr(t) == IF Panicked(t) THEN t ELSE guest_check_deferred(Retire(t))

csrrw(t, csr, value) == FinishCsr(set_virtual_csr(t, csr, value))

\* csrrs with rs1 = x0 only reads; reading an unsupported register panics too.
csrr(t, csr) == FinishCsr(IF csr = "unsupported" THEN Panic(t, "unsupported csr")
                                                 ELSE t)

csrrs(t, csr, operand) ==
    {csrrw(t, csr, value) : value \in CsrOr(csr, get_virtual_csr(t, csr), operand)}

=============================================================================
