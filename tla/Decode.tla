------------------------------- MODULE Decode -------------------------------
(***************************************************************************)
(* The decoding of trapped instructions: src/instructions.h, the functions *)
(* parse_source_address, parse_destination_address and reset_upper_bits of *)
(* src/vmem.c and the dispatch on an illegal instruction in                *)
(* src/exchandlers.c, against the encodings of the RISC-V ISA.             *)
(*                                                                         *)
(* An instruction in memory is a function from bit numbers to bits.  An    *)
(* address is a base register with an offset; a register holds eight       *)
(* bytes.                                                                  *)
(***************************************************************************)
EXTENDS RiscvIsa

CONSTANTS Instructions,     \* the instructions that trap
          Following,        \* the two bytes behind a compressed one
          OldRegister,      \* contents of the destination before the load
          Loaded            \* the bytes that a device puts on the bus

Register == [0 .. 7 -> 0 .. 255]

ASSUME DecodeAssumption ==
    /\ Instructions \subseteq AllInstructions
    /\ Following \subseteq [16 .. 31 -> {0, 1}]
    /\ OldRegister \subseteq Register
    /\ Loaded \subseteq Register

VARIABLES phase, instr, memory, decoded, register, loaded

vars == <<phase, instr, memory, decoded, register, loaded>>

-----------------------------------------------------------------------------
\* EXTRACT_BITS, of at most seven bits, and EXTEND_SIGN.
Bits(w, lower, count) ==
    LET bit(i) == IF i < count THEN 2^i * w[lower + i] ELSE 0
    IN  bit(0) + bit(1) + bit(2) + bit(3) + bit(4) + bit(5) + bit(6)
ExtendSign(n, bits) == IF n >= 2^(bits - 1) THEN n - 2^bits ELSE n

Compressed(w) == Bits(w, 0, 2) # 3

(* The bytes behind a compressed instruction are not read.                 *)
dereference_instruction(w) ==
    IF Compressed(w) THEN [i \in 0 .. 31 |-> IF i < 16 THEN w[i] ELSE 0] ELSE w

unpack_instruction(w) ==
    [opcode |-> Bits(w, 0, 7), rd |-> Bits(w, 7, 5), funct3 |-> Bits(w, 12, 3),
     rs1 |-> Bits(w, 15, 5), rs2 |-> Bits(w, 20, 5), funct7 |-> Bits(w, 25, 7)]

unpack_compressed_instruction(w) ==
    [opcode |-> Bits(w, 0, 2), rs2 |-> Bits(w, 2, 5), rs1 |-> Bits(w, 7, 5),
     funct4 |-> Bits(w, 12, 4)]

-----------------------------------------------------------------------------
(* The result of parse_source_address or parse_destination_address; signed *)
(* is FALSE for a store.                                                   *)
MemoryAccess(base, imm, width, reg, signed, advance) ==
    [base |-> base, imm |-> imm, width |-> width, reg |-> reg,
     signed |-> signed, advance |-> advance]
Unknown == [panic |-> "Extract address"]

\* The fields of the compressed formats.
Funct3(u) == u.funct4 \div 2
Prime(field) == 8 + (field % 8)

\* Variant with a mistake: the offset of C.LW for all.
PrimeOffset_Word(u, width) ==
    32 * (u.funct4 % 2) + 8 * (u.rs1 \div 8) + 64 * ((u.rs2 \div 8) % 2)
    + 4 * (u.rs2 \div 16)

\* imm_5, imm_4 and imm_3_or_8, imm_6, and imm_2_or_7
PrimeOffset(u, width) ==
    32 * (u.funct4 % 2) + 8 * (u.rs1 \div 8) + 64 * ((u.rs2 \div 8) % 2)
    + (IF width = 4 THEN 4 ELSE 128) * (u.rs2 \div 16)

\* imm_unordered, whose lowest bits are those from 6 on.
StackOffset(field, u, width) ==
    LET unordered == field + 32 * (u.funct4 % 2)
    IN  (unordered \div width) * width + 64 * (unordered % width)

\* funct3 of a load is its width, with 4 for an unsigned one.
LoadWidth(funct3) == 2^(funct3 % 4)
SignedLoad == {0, 1, 2}
StoreWidth(funct3) == 2^funct3

(* A load.                                                                 *)
parse_source_address(w) ==
    LET u == unpack_instruction(w)
        c == unpack_compressed_instruction(w)
        f == Funct3(c)
        width == IF f = 2 THEN 4 ELSE 8
    IN  CASE ~Compressed(w) /\ u.opcode = 3 /\ u.funct3 \in 0 .. 6 ->
               MemoryAccess(u.rs1, ExtendSign(32 * u.funct7 + u.rs2, 12),
                            LoadWidth(u.funct3), u.rd,
                            u.funct3 \in SignedLoad, 4)
          [] Compressed(w) /\ c.opcode = 0 /\ f \in {2, 3} ->  \* C.LW, C.LD
               MemoryAccess(Prime(c.rs1), PrimeOffset(c, width), width,
                            Prime(c.rs2), f = 2, 2)
          [] Compressed(w) /\ c.opcode = 2 /\ f \in {2, 3} ->  \* C.LWSP, C.LDSP
               MemoryAccess(2, StackOffset(c.rs2, c, width), width, c.rs1,
                            FALSE, 2)
          [] OTHER -> Unknown

(* A store.                                                                *)
parse_destination_address(w) ==
    LET u == unpack_instruction(w)
        c == unpack_compressed_instruction(w)
        f == Funct3(c)
        width == IF f = 6 THEN 4 ELSE 8
    IN  CASE ~Compressed(w) /\ u.opcode = 35 /\ u.funct3 \in 0 .. 3 ->
               MemoryAccess(u.rs1, ExtendSign(32 * u.funct7 + u.rd, 12),
                            StoreWidth(u.funct3), u.rs2, FALSE, 4)
          [] Compressed(w) /\ c.opcode = 0 /\ f \in {6, 7} ->  \* C.SW, C.SD
               MemoryAccess(Prime(c.rs1), PrimeOffset(c, width), width,
                            Prime(c.rs2), FALSE, 2)
          [] Compressed(w) /\ c.opcode = 2 /\ f \in {6, 7} ->  \* C.SWSP, C.SDSP
               MemoryAccess(2, StackOffset(c.rs1, c, width), width, c.rs2,
                            FALSE, 2)
          [] OTHER -> Unknown

-----------------------------------------------------------------------------
(* The handler that handle_guest_exception chooses for an illegal          *)
(* instruction, with the operands it takes from it.                        *)
Illegal == [panic |-> "Guest illegal instruction"]

\* Variant with a mistake: funct7 alone tells the instructions apart.
SystemHandler_Loose(u) ==
    CASE u.funct3 = 0 /\ u.funct7 = 9 -> "sfence.vma"
      [] u.funct3 = 0 /\ u.funct7 = 24 -> "mret"
      [] u.funct3 = 0 /\ u.funct7 = 8 -> "wfi"
      [] u.funct3 = 1 -> "csrrw"
      [] u.funct3 = 2 -> "csrrs"
      [] OTHER -> "none"

SystemHandler(u) ==
    CASE u.funct3 = 0 /\ u.funct7 = 9 /\ u.rd = 0 -> "sfence.vma"
      [] u.funct3 = 0 /\ u.funct7 = 24 /\ u.rs2 = 2 /\ u.rs1 = 0 /\ u.rd = 0 ->
           "mret"
      [] u.funct3 = 0 /\ u.funct7 = 8 /\ u.rs2 = 5 /\ u.rs1 = 0 /\ u.rd = 0 ->
           "wfi"
      [] u.funct3 = 1 -> "csrrw"
      [] u.funct3 = 2 -> "csrrs"
      [] OTHER -> "none"

handle_illegal_instruction(w) ==
    LET u == unpack_instruction(w)
    IN  IF u.opcode = 115 /\ SystemHandler(u) # "none"
        THEN [op |-> SystemHandler(u), csr |-> 32 * u.funct7 + u.rs2,
              rd |-> u.rd, rs1 |-> u.rs1]
        ELSE Illegal

-----------------------------------------------------------------------------
\* A device writes the bytes it is asked for to the register.
virtual_mmdev_load(reg, bytes, width) ==
    [i \in 0 .. 7 |-> IF i < width THEN bytes[i] ELSE reg[i]]

\* Variant with a mistake: the upper bytes stay.
reset_upper_bits_Missing(reg, width, signed) == reg

reset_upper_bits(reg, width, signed) ==
    [i \in 0 .. 7 |-> IF i < width THEN reg[i]
                      ELSE IF signed /\ reg[width - 1] >= 128 THEN 255 ELSE 0]

-----------------------------------------------------------------------------
None == [panic |-> "none"]

\* A word of memory: the instruction, and what follows a compressed one.
InMemory(i, following) == Encode(i) ++ following

Init == /\ phase = "trapped"
        /\ instr \in Instructions
        /\ \E following \in Following : memory = InMemory(instr, following)
        /\ decoded = None
        /\ register \in OldRegister
        /\ loaded \in Loaded

\* handle_page_fault on a load or a store, handle_guest_exception on an
\* illegal instruction.
Parse ==
    /\ phase = "trapped"
    /\ LET w == dereference_instruction(memory)
       IN  decoded' = CASE instr.op \in Loads -> parse_source_address(w)
                        [] instr.op \in Stores -> parse_destination_address(w)
                        [] instr.op \in System -> handle_illegal_instruction(w)
    /\ phase' = "parsed"
    /\ UNCHANGED <<instr, memory, register, loaded>>

\* The load of a register that some device lets be read in this width.
EmulateLoad ==
    /\ phase = "parsed"
    /\ instr.op \in Loads
    /\ decoded # Unknown
    /\ register' = IF decoded.reg = 0
                   THEN register
                   ELSE reset_upper_bits(
                            virtual_mmdev_load(register, loaded, decoded.width),
                            decoded.width, decoded.signed)
    /\ phase' = "done"
    /\ UNCHANGED <<instr, memory, decoded, loaded>>

Next == Parse \/ EmulateLoad

Spec == Init /\ [][Next]_vars

-----------------------------------------------------------------------------
(* Every integer load and store, compressed ones included (on atomic and   *)
(* floating point ones the parsers panic), is decoded to the address, the  *)
(* width, the register and the length it has, whatever bytes follow it:    *)
(* what parse_source_address and parse_destination_address find is where   *)
(* the guest faulted, and mepc + pc_advance is the next instruction.       *)
AccessDecoded ==
    phase = "parsed" /\ instr.op \in Loads \union Stores =>
        /\ decoded # Unknown
        /\ decoded.base = IF instr.op \in OnStack THEN 2 ELSE instr.base
        /\ decoded.imm = instr.imm
        /\ decoded.width = WidthOf(instr.op)
        /\ decoded.reg = instr.reg
        /\ decoded.advance = SizeOf(instr.op)

(* handle_guest_exception emulates the system instructions it knows with   *)
(* their operands, and takes no other one for one of them.                 *)
SystemDecoded ==
    phase = "parsed" /\ instr.op \in System =>
        decoded = IF instr.op \in {"csrrw", "csrrs", "mret", "wfi", "sfence.vma"}
                  THEN [op |-> instr.op, csr |-> instr.imm, rd |-> instr.reg,
                        rs1 |-> instr.base]
                  ELSE Illegal

(* The register an emulated load leaves is the one the instruction leaves: *)
(* the bytes the device gave, extended by the sign or by zeros as          *)
(* load_is_signed_out and reset_upper_bits decide.  c.lwsp is apart.       *)
LoadExtends ==
    phase = "done" /\ instr.reg # 0 /\ instr.op # "c.lwsp" =>
        register = LoadResult(instr.op, loaded)

(* The same of c.lwsp, which the comment on c.lw (vmem.c:126) makes a      *)
(* signed load as well.                                                    *)
StackLoadExtends ==
    phase = "done" /\ instr.reg # 0 /\ instr.op = "c.lwsp" =>
        register = LoadResult(instr.op, loaded)
=============================================================================
