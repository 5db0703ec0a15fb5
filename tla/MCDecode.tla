------------------------------ MODULE MCDecode ------------------------------
(***************************************************************************)
(* The instructions that the runs of Decode consider.  A decoder takes bit *)
(* by bit from the instruction, so immediates and registers of one bit, of *)
(* no bit and of all bits meet every place of a field.                     *)
(***************************************************************************)
EXTENDS Decode

EdgeRegisters == {0, 1, 2, 4, 8, 16, 31}
EdgeOffsets == {0, 2047, -2048, -1} \union {2^k : k \in 0 .. 10}
               \union {-1 - 2^k : k \in 0 .. 10}
EdgeCsrs == {0, 4095} \union {2^k : k \in 0 .. 11}

EdgeInstructions ==
    Instruction(Load \union Store, EdgeRegisters, EdgeRegisters, EdgeOffsets)
    \union Instruction({"c.lw", "c.sw"}, 8 .. 15, {8, 9, 10, 12, 15},
                       Multiples(4, 128))
    \union Instruction({"c.ld", "c.sd"}, 8 .. 15, {8, 9, 10, 12, 15},
                       Multiples(8, 256))
    \union Instruction({"c.lwsp"}, EdgeRegisters \ {0}, {2}, Multiples(4, 256))
    \union Instruction({"c.swsp"}, EdgeRegisters, {2}, Multiples(4, 256))
    \union Instruction({"c.ldsp"}, EdgeRegisters \ {0}, {2}, Multiples(8, 512))
    \union Instruction({"c.sdsp"}, EdgeRegisters, {2}, Multiples(8, 512))
    \union Instruction(CsrOps, EdgeRegisters, EdgeRegisters, EdgeCsrs)
    \union Instruction({"mret"}, {0}, {0}, {770})
    \union Instruction({"sret"}, {0}, {0}, {258})
    \union Instruction({"wfi"}, {0}, {0}, {261})
    \union Instruction({"sfence.vma"}, {0}, EdgeRegisters,
                       {288 + r : r \in EdgeRegisters})
    \union Instruction({"hfence.vvma"}, {0}, EdgeRegisters,
                       {544 + r : r \in EdgeRegisters})

AnyFollowing == {[k \in 16 .. 31 |-> b] : b \in {0, 1}}

\* What the register held, and bytes on either side of the sign bit: all of
\* one kind, and the upper bytes of the four widths of different kinds.
Bytes(negative) == [i \in 0 .. 7 |-> IF i \in negative THEN 128 ELSE 127]
EdgeBytes == {Bytes({}), Bytes(0 .. 7), Bytes({0, 3}), Bytes({1, 7})}
OldRegisters == {[i \in 0 .. 7 |-> i + 1]}
=============================================================================
