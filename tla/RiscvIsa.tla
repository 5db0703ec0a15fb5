------------------------------ MODULE RiscvIsa ------------------------------
(***************************************************************************)
(* The instructions of the RISC-V ISA that reach the emulation of the      *)
(* hypervisor: how they are encoded and what they access.  The reference   *)
(* for Decode.                                                             *)
(*                                                                         *)
(* An instruction is a record of its mnemonic, its data register, its base *)
(* register and its immediate; a system instruction has its destination,   *)
(* its source and the field of its upper twelve bits there.                *)
(***************************************************************************)
EXTENDS Integers

Load == {"lb", "lh", "lw", "ld", "lbu", "lhu", "lwu"}
Store == {"sb", "sh", "sw", "sd"}
CompressedLoad == {"c.lw", "c.ld", "c.lwsp", "c.ldsp"}
CompressedStore == {"c.sw", "c.sd", "c.swsp", "c.sdsp"}
System == {"csrrw", "csrrs", "csrrc", "csrrwi", "csrrsi", "csrrci",
           "mret", "sret", "wfi", "sfence.vma", "hfence.vvma"}

Loads == Load \union CompressedLoad
Stores == Store \union CompressedStore
OnStack == {"c.lwsp", "c.ldsp", "c.swsp", "c.sdsp"}

Byte == {"lb", "lbu", "sb"}
Half == {"lh", "lhu", "sh"}
Word == {"lw", "lwu", "sw", "c.lw", "c.lwsp", "c.sw", "c.swsp"}
SignExtended == {"lb", "lh", "lw", "c.lw", "c.lwsp"}

WidthOf(op) == CASE op \in Byte -> 1
                 [] op \in Half -> 2
                 [] op \in Word -> 4
                 [] OTHER -> 8

Funct3Of(op) ==
    CASE op \in {"lb", "sb", "mret", "sret", "wfi", "sfence.vma",
                 "hfence.vvma"} -> 0
      [] op \in {"lh", "sh", "csrrw"} -> 1
      [] op \in {"lw", "sw", "c.lw", "c.lwsp", "csrrs"} -> 2
      [] op \in {"ld", "sd", "c.ld", "c.ldsp", "csrrc"} -> 3
      [] op = "lbu" -> 4
      [] op \in {"lhu", "csrrwi"} -> 5
      [] op \in {"lwu", "c.sw", "c.swsp", "csrrsi"} -> 6
      [] op \in {"c.sd", "c.sdsp", "csrrci"} -> 7

SizeOf(op) == IF op \in CompressedLoad \union CompressedStore THEN 2 ELSE 4

(* The instructions: a compressed one has few registers, and an offset     *)
(* that is a multiple of its width; the field of twelve bits is fixed for  *)
(* all system instructions but those on CSRs and the operands of fences.   *)
Instruction(ops, regs, bases, imms) ==
    [op : ops, reg : regs, base : bases, imm : imms]
Multiples(n, limit) == {k \in 0 .. limit - 1 : k % n = 0}
CsrOps == {"csrrw", "csrrs", "csrrc", "csrrwi", "csrrsi", "csrrci"}
Registers == 0 .. 31
Immediates == -2048 .. 2047
Csrs == 0 .. 4095

AllInstructions ==
    Instruction(Load \union Store, Registers, Registers, Immediates)
    \union Instruction({"c.lw", "c.sw"}, 8 .. 15, 8 .. 15, Multiples(4, 128))
    \union Instruction({"c.ld", "c.sd"}, 8 .. 15, 8 .. 15, Multiples(8, 256))
    \union Instruction({"c.lwsp"}, 1 .. 31, {2}, Multiples(4, 256))
    \union Instruction({"c.swsp"}, Registers, {2}, Multiples(4, 256))
    \union Instruction({"c.ldsp"}, 1 .. 31, {2}, Multiples(8, 512))
    \union Instruction({"c.sdsp"}, Registers, {2}, Multiples(8, 512))
    \union Instruction(CsrOps, Registers, Registers, Csrs)
    \union Instruction({"mret"}, {0}, {0}, {770})
    \union Instruction({"sret"}, {0}, {0}, {258})
    \union Instruction({"wfi"}, {0}, {0}, {261})
    \union Instruction({"sfence.vma"}, {0}, Registers, 288 .. 319)
    \union Instruction({"hfence.vvma"}, {0}, Registers, 544 .. 575)

Bit(n, k) == (n \div 2^k) % 2

\* The bits lo to hi of n, in an instruction from its bit at on.
Field(n, hi, lo, at) == [k \in at .. at + hi - lo |-> Bit(n, lo + k - at)]
f ++ g == [k \in DOMAIN f \union DOMAIN g |-> IF k \in DOMAIN f THEN f[k] ELSE g[k]]

\* The bits of an instruction.
Encode(i) ==
    LET twos == IF i.imm < 0 THEN i.imm + 4096 ELSE i.imm
        imm(hi, lo, at) == Field(twos, hi, lo, at)
        reg(at) == Field(i.reg, 4, 0, at)
        base(at) == Field(i.base, 4, 0, at)
        reg3(at) == Field(i.reg - 8, 2, 0, at)
        base3(at) == Field(i.base - 8, 2, 0, at)
        funct3(at) == Field(Funct3Of(i.op), 2, 0, at)
        opcode(n) == Field(n, 6, 0, 0)
        quadrant(n) == Field(n, 1, 0, 0)
    IN  CASE i.op \in Load ->
               opcode(3) ++ reg(7) ++ funct3(12) ++ base(15) ++ imm(11, 0, 20)
          [] i.op \in Store ->
               opcode(35) ++ imm(4, 0, 7) ++ funct3(12) ++ base(15) ++ reg(20)
                 ++ imm(11, 5, 25)
          [] i.op \in System ->
               opcode(115) ++ reg(7) ++ funct3(12) ++ base(15) ++ imm(11, 0, 20)
          [] i.op \in {"c.lw", "c.sw"} ->
               quadrant(0) ++ reg3(2) ++ imm(6, 6, 5) ++ imm(2, 2, 6) ++ base3(7)
                 ++ imm(5, 3, 10) ++ funct3(13)
          [] i.op \in {"c.ld", "c.sd"} ->
               quadrant(0) ++ reg3(2) ++ imm(7, 6, 5) ++ base3(7)
                 ++ imm(5, 3, 10) ++ funct3(13)
          [] i.op = "c.lwsp" ->
               quadrant(2) ++ imm(7, 6, 2) ++ imm(4, 2, 4) ++ reg(7)
                 ++ imm(5, 5, 12) ++ funct3(13)
          [] i.op = "c.ldsp" ->
               quadrant(2) ++ imm(8, 6, 2) ++ imm(4, 3, 5) ++ reg(7)
                 ++ imm(5, 5, 12) ++ funct3(13)
          [] i.op = "c.swsp" ->
               quadrant(2) ++ reg(2) ++ imm(7, 6, 7) ++ imm(5, 2, 9) ++ funct3(13)
          [] i.op = "c.sdsp" ->
               quadrant(2) ++ reg(2) ++ imm(8, 6, 7) ++ imm(5, 3, 10) ++ funct3(13)

\* The destination of a load after it, for the bytes it has read.
LoadResult(op, bytes) ==
    LET width == WidthOf(op)
        negative == op \in SignExtended /\ bytes[width - 1] >= 128
    IN  [i \in 0 .. 7 |-> IF i < width THEN bytes[i]
                          ELSE IF negative THEN 255 ELSE 0]
=============================================================================
