---------------------------- MODULE DecodeProofs ----------------------------
(***************************************************************************)
(* Proofs about Decode: what the parsers find in a word of memory is the   *)
(* instruction that was encoded in it, for every instruction and whatever  *)
(* follows it.                                                             *)
(*                                                                         *)
(* A number is the sum of its bits (Sum), the fields of an encoding lie in *)
(* the word where Encode puts them (the lemmas on formats), and the fields *)
(* of unpack_instruction are sums of bits of the word (BitsSum).           *)
(***************************************************************************)
EXTENDS Decode, TLAPS

Word32 == [0 .. 31 -> {0, 1}]

-----------------------------------------------------------------------------
(* Powers of two that the provers have to know.                            *)
LEMMA Powers ==
    /\ 2^0 = 1 /\ 2^1 = 2 /\ 2^2 = 4 /\ 2^3 = 8 /\ 2^4 = 16 /\ 2^5 = 32
    /\ 2^6 = 64 /\ 2^7 = 128 /\ 2^8 = 256 /\ 2^9 = 512 /\ 2^10 = 1024
    /\ 2^11 = 2048 /\ 2^12 = 4096
  OBVIOUS

(* A bit is zero or one.                                                   *)
LEMMA BitIsBit ==
    ASSUME NEW n \in Nat, NEW k \in 0 .. 11
    PROVE  Bit(n, k) \in {0, 1}
  <1>0. Bit(n, 0) \in {0, 1}
    BY 2^0 = 1 DEF Bit
  <1>1. Bit(n, 1) \in {0, 1}
    BY 2^1 = 2 DEF Bit
  <1>2. Bit(n, 2) \in {0, 1}
    BY 2^2 = 4 DEF Bit
  <1>3. Bit(n, 3) \in {0, 1}
    BY 2^3 = 8 DEF Bit
  <1>4. Bit(n, 4) \in {0, 1}
    BY 2^4 = 16 DEF Bit
  <1>5. Bit(n, 5) \in {0, 1}
    BY 2^5 = 32 DEF Bit
  <1>6. Bit(n, 6) \in {0, 1}
    BY 2^6 = 64 DEF Bit
  <1>7. Bit(n, 7) \in {0, 1}
    BY 2^7 = 128 DEF Bit
  <1>8. Bit(n, 8) \in {0, 1}
    BY 2^8 = 256 DEF Bit
  <1>9. Bit(n, 9) \in {0, 1}
    BY 2^9 = 512 DEF Bit
  <1>10. Bit(n, 10) \in {0, 1}
    BY 2^10 = 1024 DEF Bit
  <1>11. Bit(n, 11) \in {0, 1}
    BY 2^11 = 2048 DEF Bit
  <1>12. \/ k = 0 \/ k = 1 \/ k = 2 \/ k = 3 \/ k = 4 \/ k = 5
         \/ k = 6 \/ k = 7 \/ k = 8 \/ k = 9 \/ k = 10 \/ k = 11
    OBVIOUS
  <1> QED BY <1>0, <1>1, <1>2, <1>3, <1>4, <1>5, <1>6, <1>7, <1>8,
             <1>9, <1>10, <1>11, <1>12

(* The numbers that the lowest bits, and the upper seven of twelve, are.   *)
Low3(n) == Bit(n, 0) + 2 * Bit(n, 1) + 4 * Bit(n, 2)
Low5(n) == Bit(n, 0) + 2 * Bit(n, 1) + 4 * Bit(n, 2) + 8 * Bit(n, 3) + 16 * Bit(n, 4)
Low7(n) == Bit(n, 0) + 2 * Bit(n, 1) + 4 * Bit(n, 2) + 8 * Bit(n, 3) + 16 * Bit(n, 4)
           + 32 * Bit(n, 5) + 64 * Bit(n, 6)
High7(n) == Bit(n, 5) + 2 * Bit(n, 6) + 4 * Bit(n, 7) + 8 * Bit(n, 8) + 16 * Bit(n, 9)
            + 32 * Bit(n, 10) + 64 * Bit(n, 11)

(* A number is the sum of its bits.                                        *)
LEMMA Sum ==
    ASSUME NEW n \in Nat, n < 4096
    PROVE  /\ n = Low5(n) + 32 * High7(n)
           /\ n < 8 => n = Low3(n)
           /\ n < 32 => n = Low5(n)
           /\ n < 128 => n = Low7(n)
  <1> DEFINE q1 == n \div 2
  <1> DEFINE q2 == n \div 4
  <1> DEFINE q3 == n \div 8
  <1> DEFINE q4 == n \div 16
  <1> DEFINE q5 == n \div 32
  <1> DEFINE q6 == n \div 64
  <1> DEFINE q7 == n \div 128
  <1> DEFINE q8 == n \div 256
  <1> DEFINE q9 == n \div 512
  <1> DEFINE q10 == n \div 1024
  <1> DEFINE q11 == n \div 2048
  <1> DEFINE q12 == n \div 4096
  <1>20. n = 2 * q1 + Bit(n, 0)
    BY 2^0 = 1 DEF Bit
  <1>21. q1 = 2 * q2 + Bit(n, 1)
    BY 2^1 = 2 DEF Bit
  <1>22. q2 = 2 * q3 + Bit(n, 2)
    BY 2^2 = 4 DEF Bit
  <1>23. q3 = 2 * q4 + Bit(n, 3)
    BY 2^3 = 8 DEF Bit
  <1>24. q4 = 2 * q5 + Bit(n, 4)
    BY 2^4 = 16 DEF Bit
  <1>25. q5 = 2 * q6 + Bit(n, 5)
    BY 2^5 = 32 DEF Bit
  <1>26. q6 = 2 * q7 + Bit(n, 6)
    BY 2^6 = 64 DEF Bit
  <1>27. q7 = 2 * q8 + Bit(n, 7)
    BY 2^7 = 128 DEF Bit
  <1>28. q8 = 2 * q9 + Bit(n, 8)
    BY 2^8 = 256 DEF Bit
  <1>29. q9 = 2 * q10 + Bit(n, 9)
    BY 2^9 = 512 DEF Bit
  <1>30. q10 = 2 * q11 + Bit(n, 10)
    BY 2^10 = 1024 DEF Bit
  <1>31. q11 = 2 * q12 + Bit(n, 11)
    BY 2^11 = 2048 DEF Bit
  <1>6. n < 8 => q3 = 0
    OBVIOUS
  <1>7. n < 32 => q5 = 0
    OBVIOUS
  <1>8. n < 128 => q7 = 0
    OBVIOUS
  <1>9. q12 = 0
    OBVIOUS
  <1>10. /\ q1 \in Int /\ q2 \in Int /\ q3 \in Int /\ q4 \in Int
         /\ q5 \in Int /\ q6 \in Int /\ q7 \in Int /\ q8 \in Int
         /\ q9 \in Int /\ q10 \in Int /\ q11 \in Int
    OBVIOUS
  <1>11. /\ Bit(n, 0) \in Int /\ Bit(n, 1) \in Int /\ Bit(n, 2) \in Int
         /\ Bit(n, 3) \in Int /\ Bit(n, 4) \in Int /\ Bit(n, 5) \in Int
         /\ Bit(n, 6) \in Int /\ Bit(n, 7) \in Int /\ Bit(n, 8) \in Int
         /\ Bit(n, 9) \in Int /\ Bit(n, 10) \in Int /\ Bit(n, 11) \in Int
    BY BitIsBit
  <1> HIDE DEF q1, q2, q3, q4, q5, q6, q7, q8, q9, q10, q11, q12
  <1>12. n = Bit(n, 0) + 2 * Bit(n, 1) + 4 * Bit(n, 2) + 8 * q3
    BY <1>10, <1>11, <1>20, <1>21, <1>22
  <1>13. q3 = Bit(n, 3) + 2 * Bit(n, 4) + 4 * q5
    BY <1>10, <1>11, <1>23, <1>24
  <1>14. q5 = Bit(n, 5) + 2 * Bit(n, 6) + 4 * q7
    BY <1>10, <1>11, <1>25, <1>26
  <1>15. q7 = Bit(n, 7) + 2 * Bit(n, 8) + 4 * Bit(n, 9) + 8 * q10
    BY <1>10, <1>11, <1>27, <1>28, <1>29
  <1>16. q10 = Bit(n, 10) + 2 * Bit(n, 11)
    BY <1>9, <1>10, <1>11, <1>30, <1>31
  <1>17. n < 8 => n = Low3(n)
    BY <1>6, <1>10, <1>11, <1>12 DEF Low3
  <1>18. n = Low5(n) + 32 * q5
    BY <1>10, <1>11, <1>12, <1>13 DEF Low5
  <1>19. q5 = High7(n)
    BY <1>10, <1>11, <1>14, <1>15, <1>16 DEF High7
  <1>32. n < 32 => n = Low5(n)
    BY <1>7, <1>11, <1>18 DEF Low5
  <1>33. n < 128 => n = Low7(n)
    BY <1>8, <1>10, <1>11, <1>12, <1>13, <1>14 DEF Low7
  <1> QED BY <1>17, <1>18, <1>19, <1>32, <1>33

(* What EXTRACT_BITS takes from a word.                                    *)
LEMMA BitsSum ==
    ASSUME NEW w \in Word32, NEW at \in 0 .. 31
    PROVE  /\ at \in 0 .. 30 => Bits(w, at, 2) = w[at] + 2 * w[at + 1]
           /\ at \in 0 .. 29 =>
                Bits(w, at, 3) = w[at] + 2 * w[at + 1] + 4 * w[at + 2]
           /\ at \in 0 .. 28 =>
                Bits(w, at, 4) = w[at] + 2 * w[at + 1] + 4 * w[at + 2]
                                 + 8 * w[at + 3]
           /\ at \in 0 .. 27 =>
                Bits(w, at, 5) = w[at] + 2 * w[at + 1] + 4 * w[at + 2]
                                 + 8 * w[at + 3] + 16 * w[at + 4]
           /\ at \in 0 .. 25 =>
                Bits(w, at, 7) = w[at] + 2 * w[at + 1] + 4 * w[at + 2]
                                 + 8 * w[at + 3] + 16 * w[at + 4]
                                 + 32 * w[at + 5] + 64 * w[at + 6]
  <1>1. \A k \in 0 .. 31 : w[k] \in {0, 1}
    BY DEF Word32
  <1>2. ASSUME NEW c \in 0 .. 7
        PROVE  Bits(w, at, c) = (IF 0 < c THEN w[at] ELSE 0)
                                + (IF 1 < c THEN 2 * w[at + 1] ELSE 0)
                                + (IF 2 < c THEN 4 * w[at + 2] ELSE 0)
                                + (IF 3 < c THEN 8 * w[at + 3] ELSE 0)
                                + (IF 4 < c THEN 16 * w[at + 4] ELSE 0)
                                + (IF 5 < c THEN 32 * w[at + 5] ELSE 0)
                                + (IF 6 < c THEN 64 * w[at + 6] ELSE 0)
    BY Powers DEF Bits, Word32
  <1> QED BY <1>1, <1>2

(* The two lowest bits tell whether an instruction is compressed.          *)
LEMMA LowBits ==
    ASSUME NEW w \in Word32
    PROVE  Compressed(w) <=> ~(w[0] = 1 /\ w[1] = 1)
  <1>1. \A at \in 0 .. 30 : Bits(w, at, 2) = w[at] + 2 * w[at + 1]
    BY \A at \in 0 .. 30 : at \in 0 .. 31, BitsSum
  <1>2. w[0] \in {0, 1} /\ w[1] \in {0, 1}
    BY DEF Word32
  <1>3. Bits(w, 0, 2) = w[0] + 2 * w[1]
    BY <1>1
  <1> QED BY <1>2, <1>3 DEF Compressed

-----------------------------------------------------------------------------
(* The word w has the bits lo to hi of n from its bit at on.               *)
Carries(w, n, hi, lo, at) ==
    \A k \in at .. at + hi - lo : w[k] = Bit(n, lo + k - at)

(* Five bits.                                                              *)
LEMMA ReadLow5 ==
    ASSUME NEW w \in Word32, NEW n \in Nat, NEW at \in 0 .. 27,
           Carries(w, n, 4, 0, at)
    PROVE  Bits(w, at, 5) = Low5(n)
  <1>1. /\ w[at] = Bit(n, 0) /\ w[at + 1] = Bit(n, 1) /\ w[at + 2] = Bit(n, 2)
        /\ w[at + 3] = Bit(n, 3) /\ w[at + 4] = Bit(n, 4)
    BY DEF Carries
  <1>2. Bits(w, at, 5) = w[at] + 2 * w[at + 1] + 4 * w[at + 2] + 8 * w[at + 3]
                         + 16 * w[at + 4]
    BY at \in 0 .. 31, BitsSum
  <1> QED BY <1>1, <1>2 DEF Low5

(* The upper seven of twelve bits.                                         *)
LEMMA ReadHigh7 ==
    ASSUME NEW w \in Word32, NEW n \in Nat, NEW at \in 0 .. 25,
           Carries(w, n, 11, 5, at)
    PROVE  Bits(w, at, 7) = High7(n)
  <1>1. /\ w[at] = Bit(n, 5) /\ w[at + 1] = Bit(n, 6) /\ w[at + 2] = Bit(n, 7)
        /\ w[at + 3] = Bit(n, 8) /\ w[at + 4] = Bit(n, 9) /\ w[at + 5] = Bit(n, 10)
        /\ w[at + 6] = Bit(n, 11)
    BY DEF Carries
  <1>2. Bits(w, at, 7) = w[at] + 2 * w[at + 1] + 4 * w[at + 2] + 8 * w[at + 3]
                         + 16 * w[at + 4] + 32 * w[at + 5] + 64 * w[at + 6]
    BY at \in 0 .. 31, BitsSum
  <1> QED BY <1>1, <1>2 DEF High7

(* A field is read as the number it carries.                               *)
LEMMA Read3 ==
    ASSUME NEW w \in Word32, NEW n \in Nat, n < 8, NEW at \in 0 .. 29,
           Carries(w, n, 2, 0, at)
    PROVE  Bits(w, at, 3) = n
  <1>1. w[at] = Bit(n, 0) /\ w[at + 1] = Bit(n, 1) /\ w[at + 2] = Bit(n, 2)
    BY DEF Carries
  <1>2. Bits(w, at, 3) = w[at] + 2 * w[at + 1] + 4 * w[at + 2]
    BY at \in 0 .. 31, BitsSum
  <1>3. n = Low3(n)
    BY n < 4096, Sum
  <1> QED BY <1>1, <1>2, <1>3 DEF Low3

LEMMA Read5 ==
    ASSUME NEW w \in Word32, NEW n \in Nat, n < 32, NEW at \in 0 .. 27,
           Carries(w, n, 4, 0, at)
    PROVE  Bits(w, at, 5) = n
  <1>1. Bits(w, at, 5) = Low5(n)
    BY ReadLow5
  <1>2. n = Low5(n)
    BY n < 4096, Sum
  <1> QED BY <1>1, <1>2

LEMMA Read7 ==
    ASSUME NEW w \in Word32, NEW n \in Nat, n < 128, NEW at \in 0 .. 25,
           Carries(w, n, 6, 0, at)
    PROVE  Bits(w, at, 7) = n
  <1>1. /\ w[at] = Bit(n, 0) /\ w[at + 1] = Bit(n, 1) /\ w[at + 2] = Bit(n, 2)
        /\ w[at + 3] = Bit(n, 3) /\ w[at + 4] = Bit(n, 4)
        /\ w[at + 5] = Bit(n, 5) /\ w[at + 6] = Bit(n, 6)
    BY DEF Carries
  <1>2. Bits(w, at, 7) = w[at] + 2 * w[at + 1] + 4 * w[at + 2] + 8 * w[at + 3]
                         + 16 * w[at + 4] + 32 * w[at + 5] + 64 * w[at + 6]
    BY at \in 0 .. 31, BitsSum
  <1>3. n = Low7(n)
    BY n < 4096, Sum
  <1> QED BY <1>1, <1>2, <1>3 DEF Low7

-----------------------------------------------------------------------------
(* Signed and unsigned numbers of twelve bits.                             *)
Imm12(imm) == imm \in Int /\ 0 <= imm + 2048 /\ imm < 2048
Uimm12(imm) == imm \in Int /\ 0 <= imm /\ imm < 4096

(* The instructions by their format, with the operands each may have.      *)
LEMMA WordOperands ==
    ASSUME NEW i \in AllInstructions
    PROVE  /\ i.op \in Load \union Store =>
                i.reg \in Registers /\ i.base \in Registers /\ i.imm \in Immediates
           /\ i.op \in CsrOps =>
                i.reg \in Registers /\ i.base \in Registers /\ i.imm \in Csrs
  <1>1. i.op \in Load \union Store =>
          i.reg \in Registers /\ i.base \in Registers /\ i.imm \in Immediates
    BY DEF AllInstructions, Instruction, CsrOps, Load, Store
  <1>2. i.op \in CsrOps =>
          i.reg \in Registers /\ i.base \in Registers /\ i.imm \in Csrs
    BY DEF AllInstructions, Instruction, CsrOps, Load, Store
  <1> QED BY <1>1, <1>2

LEMMA SystemOperands ==
    ASSUME NEW i \in AllInstructions
    PROVE  /\ i.op \in System => i.reg \in Registers /\ i.base \in Registers
           /\ i.op = "mret" => i.reg = 0 /\ i.base = 0 /\ i.imm = 770
           /\ i.op = "sret" => i.reg = 0 /\ i.base = 0 /\ i.imm = 258
           /\ i.op = "wfi" => i.reg = 0 /\ i.base = 0 /\ i.imm = 261
           /\ i.op = "sfence.vma" => i.reg = 0 /\ i.imm \in 288 .. 319
           /\ i.op = "hfence.vvma" => i.reg = 0 /\ i.imm \in 544 .. 575
  <1>1. 0 \in Registers
    BY DEF Registers
  <1> QED BY <1>1 DEF AllInstructions, Instruction, CsrOps, Load, Store, System

(* The immediate of an instruction of four bytes has twelve bits.          *)
LEMMA TwelveBits ==
    ASSUME NEW i \in AllInstructions
    PROVE  /\ i.op \in Load \union Store => Imm12(i.imm)
           /\ i.op \in System => Uimm12(i.imm)
  <1>1. ASSUME i.op \in Load \union Store
        PROVE  Imm12(i.imm)
    <2>1. i.imm \in Immediates
      BY <1>1, WordOperands
    <2>2. \A n \in Immediates : Imm12(n)
      BY DEF Imm12, Immediates
    <2> QED BY <2>1, <2>2
  <1>2. ASSUME i.op \in System
        PROVE  Uimm12(i.imm)
    <2>1. CASE i.op \in CsrOps
      <3>1. i.imm \in Csrs
        BY <2>1, WordOperands
      <3>2. \A n \in Csrs : Uimm12(n)
        BY DEF Uimm12, Csrs
      <3> QED BY <3>1, <3>2
    <2>2. CASE i.op \notin CsrOps
      <3>1. PICK n : /\ n = i.imm
                     /\ n \in {258, 261, 770} \/ n \in 288 .. 319 \/ n \in 544 .. 575
        BY <1>2, <2>2, SystemOperands DEF System, CsrOps
      <3>2. Uimm12(n)
        BY <3>1 DEF Uimm12
      <3> QED BY <3>1, <3>2
    <2> QED BY <2>1, <2>2
  <1> QED BY <1>1, <1>2

LEMMA HalfOperands ==
    ASSUME NEW i \in AllInstructions
    PROVE  /\ i.op \in {"c.lw", "c.sw"} =>
                i.reg \in 8 .. 15 /\ i.base \in 8 .. 15 /\ i.imm \in Multiples(4, 128)
           /\ i.op \in {"c.ld", "c.sd"} =>
                i.reg \in 8 .. 15 /\ i.base \in 8 .. 15 /\ i.imm \in Multiples(8, 256)
           /\ i.op \in {"c.lwsp", "c.swsp"} =>
                i.reg \in Registers /\ i.base = 2 /\ i.imm \in Multiples(4, 256)
           /\ i.op \in {"c.ldsp", "c.sdsp"} =>
                i.reg \in Registers /\ i.base = 2 /\ i.imm \in Multiples(8, 512)
  BY DEF AllInstructions, Instruction, Registers, CsrOps, Load, Store

(* A field that is placed in a word stays there when the word grows.       *)
Placed(w, n, hi, lo, at) ==
    at .. at + hi - lo \subseteq DOMAIN w /\ Carries(w, n, hi, lo, at)

(* The number of bits of a word.                                           *)
Length(w, m) == DOMAIN w = 0 .. m - 1

LEMMA Kept ==
    ASSUME NEW f, NEW g, NEW n, NEW hi, NEW lo, NEW at, Placed(f, n, hi, lo, at)
    PROVE  Placed(f ++ g, n, hi, lo, at)
  BY DEF ++, Carries, Placed

(* The first field of a word.                                             *)
LEMMA Start ==
    ASSUME NEW n, NEW hi \in Nat
    PROVE  Placed(Field(n, hi, 0, 0), n, hi, 0, 0)
           /\ Length(Field(n, hi, 0, 0), hi + 1)
  BY DEF Field, Carries, Placed, Length

(* A field behind the others.                                              *)
LEMMA Append ==
    ASSUME NEW f, NEW n, NEW hi \in Nat, NEW lo \in Nat, lo <= hi, NEW at \in Nat,
           Length(f, at), NEW end, end = at + (hi - lo + 1)
    PROVE  /\ Placed(f ++ Field(n, hi, lo, at), n, hi, lo, at)
           /\ Length(f ++ Field(n, hi, lo, at), end)
  <1> DEFINE g == Field(n, hi, lo, at)
  <1>1. DOMAIN g = at .. at + hi - lo /\ Carries(g, n, hi, lo, at)
    BY DEF Field, Carries
  <1> HIDE DEF g
  <1>2. DOMAIN (f ++ g) = DOMAIN f \union DOMAIN g
    BY DEF ++
  <1>3. DOMAIN f = 0 .. at - 1
    BY DEF Length
  <1>4. Length(f ++ g, end)
    BY <1>1, <1>2, <1>3 DEF Length
  <1>5. \A k \in DOMAIN g : k \notin DOMAIN f
    BY <1>1, <1>3
  <1>6. \A k \in DOMAIN g : (f ++ g)[k] = g[k]
    BY <1>5 DEF ++
  <1>7. Carries(f ++ g, n, hi, lo, at)
    BY <1>1, <1>6 DEF Carries
  <1>8. at .. at + hi - lo \subseteq DOMAIN (f ++ g)
    BY <1>1, <1>2
  <1> QED BY <1>4, <1>7, <1>8 DEF Placed, g

(* Fields that follow each other in a word stay apart: the formats of the  *)
(* ISA.                                                                    *)

(* Loads and system instructions.                                          *)
LEMMA IFormat ==
    ASSUME NEW a, NEW b, NEW c, NEW d, NEW e
    PROVE  LET w == Field(a, 6, 0, 0) ++ Field(b, 4, 0, 7)
                      ++ Field(c, 2, 0, 12) ++ Field(d, 4, 0, 15)
                      ++ Field(e, 11, 0, 20)
           IN  /\ DOMAIN w = 0 .. 31
               /\ Carries(w, a, 6, 0, 0)
               /\ Carries(w, b, 4, 0, 7)
               /\ Carries(w, c, 2, 0, 12)
               /\ Carries(w, d, 4, 0, 15)
               /\ Carries(w, e, 11, 0, 20)
  <1> DEFINE w1 == Field(a, 6, 0, 0)
  <1> DEFINE w2 == w1 ++ Field(b, 4, 0, 7)
  <1> DEFINE w3 == w2 ++ Field(c, 2, 0, 12)
  <1> DEFINE w4 == w3 ++ Field(d, 4, 0, 15)
  <1> DEFINE w5 == w4 ++ Field(e, 11, 0, 20)
  <1>1. Length(w1, 7) /\ Placed(w1, a, 6, 0, 0)
    BY Start
  <1> HIDE DEF w1
  <1>2. Length(w2, 12) /\ Placed(w2, b, 4, 0, 7)
    BY <1>1, Append
  <1> HIDE DEF w2
  <1>3. Length(w3, 15) /\ Placed(w3, c, 2, 0, 12)
    BY <1>2, Append
  <1> HIDE DEF w3
  <1>4. Length(w4, 20) /\ Placed(w4, d, 4, 0, 15)
    BY <1>3, Append
  <1> HIDE DEF w4
  <1>5. Length(w5, 32) /\ Placed(w5, e, 11, 0, 20)
    BY <1>4, Append
  <1>6. /\ Placed(w5, a, 6, 0, 0) /\ Placed(w5, b, 4, 0, 7)
        /\ Placed(w5, c, 2, 0, 12) /\ Placed(w5, d, 4, 0, 15)
    BY <1>1, <1>2, <1>3, <1>4, Kept DEF w2, w3, w4
  <1> HIDE DEF w5
  <1>7. /\ DOMAIN w5 = 0 .. 31
        /\ Carries(w5, a, 6, 0, 0)
        /\ Carries(w5, b, 4, 0, 7)
        /\ Carries(w5, c, 2, 0, 12)
        /\ Carries(w5, d, 4, 0, 15)
        /\ Carries(w5, e, 11, 0, 20)
    BY <1>5, <1>6 DEF Placed, Length
  <1> QED BY <1>7 DEF w1, w2, w3, w4, w5

(* Stores.                                                                 *)
LEMMA SFormat ==
    ASSUME NEW a, NEW b, NEW c, NEW d, NEW e
    PROVE  LET w == Field(a, 6, 0, 0) ++ Field(e, 4, 0, 7)
                      ++ Field(c, 2, 0, 12) ++ Field(d, 4, 0, 15)
                      ++ Field(b, 4, 0, 20) ++ Field(e, 11, 5, 25)
           IN  /\ DOMAIN w = 0 .. 31
               /\ Carries(w, a, 6, 0, 0)
               /\ Carries(w, e, 4, 0, 7)
               /\ Carries(w, c, 2, 0, 12)
               /\ Carries(w, d, 4, 0, 15)
               /\ Carries(w, b, 4, 0, 20)
               /\ Carries(w, e, 11, 5, 25)
  <1> DEFINE w1 == Field(a, 6, 0, 0)
  <1> DEFINE w2 == w1 ++ Field(e, 4, 0, 7)
  <1> DEFINE w3 == w2 ++ Field(c, 2, 0, 12)
  <1> DEFINE w4 == w3 ++ Field(d, 4, 0, 15)
  <1> DEFINE w5 == w4 ++ Field(b, 4, 0, 20)
  <1> DEFINE w6 == w5 ++ Field(e, 11, 5, 25)
  <1>1. Length(w1, 7) /\ Placed(w1, a, 6, 0, 0)
    BY Start
  <1> HIDE DEF w1
  <1>2. Length(w2, 12) /\ Placed(w2, e, 4, 0, 7)
    BY <1>1, Append
  <1> HIDE DEF w2
  <1>3. Length(w3, 15) /\ Placed(w3, c, 2, 0, 12)
    BY <1>2, Append
  <1> HIDE DEF w3
  <1>4. Length(w4, 20) /\ Placed(w4, d, 4, 0, 15)
    BY <1>3, Append
  <1> HIDE DEF w4
  <1>5. Length(w5, 25) /\ Placed(w5, b, 4, 0, 20)
    BY <1>4, Append
  <1> HIDE DEF w5
  <1>6. Length(w6, 32) /\ Placed(w6, e, 11, 5, 25)
    BY <1>5, Append
  <1>7. /\ Placed(w6, a, 6, 0, 0) /\ Placed(w6, e, 4, 0, 7)
        /\ Placed(w6, c, 2, 0, 12) /\ Placed(w6, d, 4, 0, 15)
        /\ Placed(w6, b, 4, 0, 20)
    BY <1>1, <1>2, <1>3, <1>4, <1>5, Kept DEF w2, w3, w4, w5
  <1> HIDE DEF w6
  <1>8. /\ DOMAIN w6 = 0 .. 31
        /\ Carries(w6, a, 6, 0, 0)
        /\ Carries(w6, e, 4, 0, 7)
        /\ Carries(w6, c, 2, 0, 12)
        /\ Carries(w6, d, 4, 0, 15)
        /\ Carries(w6, b, 4, 0, 20)
        /\ Carries(w6, e, 11, 5, 25)
    BY <1>6, <1>7 DEF Placed, Length
  <1> QED BY <1>8 DEF w1, w2, w3, w4, w5, w6

(* c.lw and c.sw.                                                          *)
LEMMA WordFormat ==
    ASSUME NEW a, NEW b, NEW c, NEW d, NEW e
    PROVE  LET w == Field(a, 1, 0, 0) ++ Field(b, 2, 0, 2)
                      ++ Field(e, 6, 6, 5) ++ Field(e, 2, 2, 6)
                      ++ Field(d, 2, 0, 7) ++ Field(e, 5, 3, 10)
                      ++ Field(c, 2, 0, 13)
           IN  /\ DOMAIN w = 0 .. 15
               /\ Carries(w, a, 1, 0, 0)
               /\ Carries(w, b, 2, 0, 2)
               /\ Carries(w, e, 6, 6, 5)
               /\ Carries(w, e, 2, 2, 6)
               /\ Carries(w, d, 2, 0, 7)
               /\ Carries(w, e, 5, 3, 10)
               /\ Carries(w, c, 2, 0, 13)
  <1> DEFINE w1 == Field(a, 1, 0, 0)
  <1> DEFINE w2 == w1 ++ Field(b, 2, 0, 2)
  <1> DEFINE w3 == w2 ++ Field(e, 6, 6, 5)
  <1> DEFINE w4 == w3 ++ Field(e, 2, 2, 6)
  <1> DEFINE w5 == w4 ++ Field(d, 2, 0, 7)
  <1> DEFINE w6 == w5 ++ Field(e, 5, 3, 10)
  <1> DEFINE w7 == w6 ++ Field(c, 2, 0, 13)
  <1>1. Length(w1, 2) /\ Placed(w1, a, 1, 0, 0)
    BY Start
  <1> HIDE DEF w1
  <1>2. Length(w2, 5) /\ Placed(w2, b, 2, 0, 2)
    BY <1>1, Append
  <1> HIDE DEF w2
  <1>3. Length(w3, 6) /\ Placed(w3, e, 6, 6, 5)
    BY <1>2, Append
  <1> HIDE DEF w3
  <1>4. Length(w4, 7) /\ Placed(w4, e, 2, 2, 6)
    BY <1>3, Append
  <1> HIDE DEF w4
  <1>5. Length(w5, 10) /\ Placed(w5, d, 2, 0, 7)
    BY <1>4, Append
  <1> HIDE DEF w5
  <1>6. Length(w6, 13) /\ Placed(w6, e, 5, 3, 10)
    BY <1>5, Append
  <1> HIDE DEF w6
  <1>7. Length(w7, 16) /\ Placed(w7, c, 2, 0, 13)
    BY <1>6, Append
  <1>8. /\ Placed(w7, a, 1, 0, 0) /\ Placed(w7, b, 2, 0, 2)
        /\ Placed(w7, e, 6, 6, 5) /\ Placed(w7, e, 2, 2, 6)
        /\ Placed(w7, d, 2, 0, 7) /\ Placed(w7, e, 5, 3, 10)
    BY <1>1, <1>2, <1>3, <1>4, <1>5, <1>6, Kept DEF w2, w3, w4, w5, w6
  <1> HIDE DEF w7
  <1>9. /\ DOMAIN w7 = 0 .. 15
        /\ Carries(w7, a, 1, 0, 0)
        /\ Carries(w7, b, 2, 0, 2)
        /\ Carries(w7, e, 6, 6, 5)
        /\ Carries(w7, e, 2, 2, 6)
        /\ Carries(w7, d, 2, 0, 7)
        /\ Carries(w7, e, 5, 3, 10)
        /\ Carries(w7, c, 2, 0, 13)
    BY <1>7, <1>8 DEF Placed, Length
  <1> QED BY <1>9 DEF w1, w2, w3, w4, w5, w6, w7

(* c.ld and c.sd.                                                          *)
LEMMA DoubleFormat ==
    ASSUME NEW a, NEW b, NEW c, NEW d, NEW e
    PROVE  LET w == Field(a, 1, 0, 0) ++ Field(b, 2, 0, 2)
                      ++ Field(e, 7, 6, 5) ++ Field(d, 2, 0, 7)
                      ++ Field(e, 5, 3, 10) ++ Field(c, 2, 0, 13)
           IN  /\ DOMAIN w = 0 .. 15
               /\ Carries(w, a, 1, 0, 0)
               /\ Carries(w, b, 2, 0, 2)
               /\ Carries(w, e, 7, 6, 5)
               /\ Carries(w, d, 2, 0, 7)
               /\ Carries(w, e, 5, 3, 10)
               /\ Carries(w, c, 2, 0, 13)
  <1> DEFINE w1 == Field(a, 1, 0, 0)
  <1> DEFINE w2 == w1 ++ Field(b, 2, 0, 2)
  <1> DEFINE w3 == w2 ++ Field(e, 7, 6, 5)
  <1> DEFINE w4 == w3 ++ Field(d, 2, 0, 7)
  <1> DEFINE w5 == w4 ++ Field(e, 5, 3, 10)
  <1> DEFINE w6 == w5 ++ Field(c, 2, 0, 13)
  <1>1. Length(w1, 2) /\ Placed(w1, a, 1, 0, 0)
    BY Start
  <1> HIDE DEF w1
  <1>2. Length(w2, 5) /\ Placed(w2, b, 2, 0, 2)
    BY <1>1, Append
  <1> HIDE DEF w2
  <1>3. Length(w3, 7) /\ Placed(w3, e, 7, 6, 5)
    BY <1>2, Append
  <1> HIDE DEF w3
  <1>4. Length(w4, 10) /\ Placed(w4, d, 2, 0, 7)
    BY <1>3, Append
  <1> HIDE DEF w4
  <1>5. Length(w5, 13) /\ Placed(w5, e, 5, 3, 10)
    BY <1>4, Append
  <1> HIDE DEF w5
  <1>6. Length(w6, 16) /\ Placed(w6, c, 2, 0, 13)
    BY <1>5, Append
  <1>7. /\ Placed(w6, a, 1, 0, 0) /\ Placed(w6, b, 2, 0, 2)
        /\ Placed(w6, e, 7, 6, 5) /\ Placed(w6, d, 2, 0, 7)
        /\ Placed(w6, e, 5, 3, 10)
    BY <1>1, <1>2, <1>3, <1>4, <1>5, Kept DEF w2, w3, w4, w5
  <1> HIDE DEF w6
  <1>8. /\ DOMAIN w6 = 0 .. 15
        /\ Carries(w6, a, 1, 0, 0)
        /\ Carries(w6, b, 2, 0, 2)
        /\ Carries(w6, e, 7, 6, 5)
        /\ Carries(w6, d, 2, 0, 7)
        /\ Carries(w6, e, 5, 3, 10)
        /\ Carries(w6, c, 2, 0, 13)
    BY <1>6, <1>7 DEF Placed, Length
  <1> QED BY <1>8 DEF w1, w2, w3, w4, w5, w6

(* c.lwsp                                                                  *)
LEMMA LoadWordStack ==
    ASSUME NEW a, NEW b, NEW c, NEW e
    PROVE  LET w == Field(a, 1, 0, 0) ++ Field(e, 7, 6, 2)
                      ++ Field(e, 4, 2, 4) ++ Field(b, 4, 0, 7)
                      ++ Field(e, 5, 5, 12) ++ Field(c, 2, 0, 13)
           IN  /\ DOMAIN w = 0 .. 15
               /\ Carries(w, a, 1, 0, 0)
               /\ Carries(w, e, 7, 6, 2)
               /\ Carries(w, e, 4, 2, 4)
               /\ Carries(w, b, 4, 0, 7)
               /\ Carries(w, e, 5, 5, 12)
               /\ Carries(w, c, 2, 0, 13)
  <1> DEFINE w1 == Field(a, 1, 0, 0)
  <1> DEFINE w2 == w1 ++ Field(e, 7, 6, 2)
  <1> DEFINE w3 == w2 ++ Field(e, 4, 2, 4)
  <1> DEFINE w4 == w3 ++ Field(b, 4, 0, 7)
  <1> DEFINE w5 == w4 ++ Field(e, 5, 5, 12)
  <1> DEFINE w6 == w5 ++ Field(c, 2, 0, 13)
  <1>1. Length(w1, 2) /\ Placed(w1, a, 1, 0, 0)
    BY Start
  <1> HIDE DEF w1
  <1>2. Length(w2, 4) /\ Placed(w2, e, 7, 6, 2)
    BY <1>1, Append
  <1> HIDE DEF w2
  <1>3. Length(w3, 7) /\ Placed(w3, e, 4, 2, 4)
    BY <1>2, Append
  <1> HIDE DEF w3
  <1>4. Length(w4, 12) /\ Placed(w4, b, 4, 0, 7)
    BY <1>3, Append
  <1> HIDE DEF w4
  <1>5. Length(w5, 13) /\ Placed(w5, e, 5, 5, 12)
    BY <1>4, Append
  <1> HIDE DEF w5
  <1>6. Length(w6, 16) /\ Placed(w6, c, 2, 0, 13)
    BY <1>5, Append
  <1>7. /\ Placed(w6, a, 1, 0, 0) /\ Placed(w6, e, 7, 6, 2)
        /\ Placed(w6, e, 4, 2, 4) /\ Placed(w6, b, 4, 0, 7)
        /\ Placed(w6, e, 5, 5, 12)
    BY <1>1, <1>2, <1>3, <1>4, <1>5, Kept DEF w2, w3, w4, w5
  <1> HIDE DEF w6
  <1>8. /\ DOMAIN w6 = 0 .. 15
        /\ Carries(w6, a, 1, 0, 0)
        /\ Carries(w6, e, 7, 6, 2)
        /\ Carries(w6, e, 4, 2, 4)
        /\ Carries(w6, b, 4, 0, 7)
        /\ Carries(w6, e, 5, 5, 12)
        /\ Carries(w6, c, 2, 0, 13)
    BY <1>6, <1>7 DEF Placed, Length
  <1> QED BY <1>8 DEF w1, w2, w3, w4, w5, w6

(* c.ldsp                                                                  *)
LEMMA LoadDoubleStack ==
    ASSUME NEW a, NEW b, NEW c, NEW e
    PROVE  LET w == Field(a, 1, 0, 0) ++ Field(e, 8, 6, 2)
                      ++ Field(e, 4, 3, 5) ++ Field(b, 4, 0, 7)
                      ++ Field(e, 5, 5, 12) ++ Field(c, 2, 0, 13)
           IN  /\ DOMAIN w = 0 .. 15
               /\ Carries(w, a, 1, 0, 0)
               /\ Carries(w, e, 8, 6, 2)
               /\ Carries(w, e, 4, 3, 5)
               /\ Carries(w, b, 4, 0, 7)
               /\ Carries(w, e, 5, 5, 12)
               /\ Carries(w, c, 2, 0, 13)
  <1> DEFINE w1 == Field(a, 1, 0, 0)
  <1> DEFINE w2 == w1 ++ Field(e, 8, 6, 2)
  <1> DEFINE w3 == w2 ++ Field(e, 4, 3, 5)
  <1> DEFINE w4 == w3 ++ Field(b, 4, 0, 7)
  <1> DEFINE w5 == w4 ++ Field(e, 5, 5, 12)
  <1> DEFINE w6 == w5 ++ Field(c, 2, 0, 13)
  <1>1. Length(w1, 2) /\ Placed(w1, a, 1, 0, 0)
    BY Start
  <1> HIDE DEF w1
  <1>2. Length(w2, 5) /\ Placed(w2, e, 8, 6, 2)
    BY <1>1, Append
  <1> HIDE DEF w2
  <1>3. Length(w3, 7) /\ Placed(w3, e, 4, 3, 5)
    BY <1>2, Append
  <1> HIDE DEF w3
  <1>4. Length(w4, 12) /\ Placed(w4, b, 4, 0, 7)
    BY <1>3, Append
  <1> HIDE DEF w4
  <1>5. Length(w5, 13) /\ Placed(w5, e, 5, 5, 12)
    BY <1>4, Append
  <1> HIDE DEF w5
  <1>6. Length(w6, 16) /\ Placed(w6, c, 2, 0, 13)
    BY <1>5, Append
  <1>7. /\ Placed(w6, a, 1, 0, 0) /\ Placed(w6, e, 8, 6, 2)
        /\ Placed(w6, e, 4, 3, 5) /\ Placed(w6, b, 4, 0, 7)
        /\ Placed(w6, e, 5, 5, 12)
    BY <1>1, <1>2, <1>3, <1>4, <1>5, Kept DEF w2, w3, w4, w5
  <1> HIDE DEF w6
  <1>8. /\ DOMAIN w6 = 0 .. 15
        /\ Carries(w6, a, 1, 0, 0)
        /\ Carries(w6, e, 8, 6, 2)
        /\ Carries(w6, e, 4, 3, 5)
        /\ Carries(w6, b, 4, 0, 7)
        /\ Carries(w6, e, 5, 5, 12)
        /\ Carries(w6, c, 2, 0, 13)
    BY <1>6, <1>7 DEF Placed, Length
  <1> QED BY <1>8 DEF w1, w2, w3, w4, w5, w6

(* c.swsp                                                                  *)
LEMMA StoreWordStack ==
    ASSUME NEW a, NEW b, NEW c, NEW e
    PROVE  LET w == Field(a, 1, 0, 0) ++ Field(b, 4, 0, 2)
                      ++ Field(e, 7, 6, 7) ++ Field(e, 5, 2, 9)
                      ++ Field(c, 2, 0, 13)
           IN  /\ DOMAIN w = 0 .. 15
               /\ Carries(w, a, 1, 0, 0)
               /\ Carries(w, b, 4, 0, 2)
               /\ Carries(w, e, 7, 6, 7)
               /\ Carries(w, e, 5, 2, 9)
               /\ Carries(w, c, 2, 0, 13)
  <1> DEFINE w1 == Field(a, 1, 0, 0)
  <1> DEFINE w2 == w1 ++ Field(b, 4, 0, 2)
  <1> DEFINE w3 == w2 ++ Field(e, 7, 6, 7)
  <1> DEFINE w4 == w3 ++ Field(e, 5, 2, 9)
  <1> DEFINE w5 == w4 ++ Field(c, 2, 0, 13)
  <1>1. Length(w1, 2) /\ Placed(w1, a, 1, 0, 0)
    BY Start
  <1> HIDE DEF w1
  <1>2. Length(w2, 7) /\ Placed(w2, b, 4, 0, 2)
    BY <1>1, Append
  <1> HIDE DEF w2
  <1>3. Length(w3, 9) /\ Placed(w3, e, 7, 6, 7)
    BY <1>2, Append
  <1> HIDE DEF w3
  <1>4. Length(w4, 13) /\ Placed(w4, e, 5, 2, 9)
    BY <1>3, Append
  <1> HIDE DEF w4
  <1>5. Length(w5, 16) /\ Placed(w5, c, 2, 0, 13)
    BY <1>4, Append
  <1>6. /\ Placed(w5, a, 1, 0, 0) /\ Placed(w5, b, 4, 0, 2)
        /\ Placed(w5, e, 7, 6, 7) /\ Placed(w5, e, 5, 2, 9)
    BY <1>1, <1>2, <1>3, <1>4, Kept DEF w2, w3, w4
  <1> HIDE DEF w5
  <1>7. /\ DOMAIN w5 = 0 .. 15
        /\ Carries(w5, a, 1, 0, 0)
        /\ Carries(w5, b, 4, 0, 2)
        /\ Carries(w5, e, 7, 6, 7)
        /\ Carries(w5, e, 5, 2, 9)
        /\ Carries(w5, c, 2, 0, 13)
    BY <1>5, <1>6 DEF Placed, Length
  <1> QED BY <1>7 DEF w1, w2, w3, w4, w5

(* c.sdsp                                                                  *)
LEMMA StoreDoubleStack ==
    ASSUME NEW a, NEW b, NEW c, NEW e
    PROVE  LET w == Field(a, 1, 0, 0) ++ Field(b, 4, 0, 2)
                      ++ Field(e, 8, 6, 7) ++ Field(e, 5, 3, 10)
                      ++ Field(c, 2, 0, 13)
           IN  /\ DOMAIN w = 0 .. 15
               /\ Carries(w, a, 1, 0, 0)
               /\ Carries(w, b, 4, 0, 2)
               /\ Carries(w, e, 8, 6, 7)
               /\ Carries(w, e, 5, 3, 10)
               /\ Carries(w, c, 2, 0, 13)
  <1> DEFINE w1 == Field(a, 1, 0, 0)
  <1> DEFINE w2 == w1 ++ Field(b, 4, 0, 2)
  <1> DEFINE w3 == w2 ++ Field(e, 8, 6, 7)
  <1> DEFINE w4 == w3 ++ Field(e, 5, 3, 10)
  <1> DEFINE w5 == w4 ++ Field(c, 2, 0, 13)
  <1>1. Length(w1, 2) /\ Placed(w1, a, 1, 0, 0)
    BY Start
  <1> HIDE DEF w1
  <1>2. Length(w2, 7) /\ Placed(w2, b, 4, 0, 2)
    BY <1>1, Append
  <1> HIDE DEF w2
  <1>3. Length(w3, 10) /\ Placed(w3, e, 8, 6, 7)
    BY <1>2, Append
  <1> HIDE DEF w3
  <1>4. Length(w4, 13) /\ Placed(w4, e, 5, 3, 10)
    BY <1>3, Append
  <1> HIDE DEF w4
  <1>5. Length(w5, 16) /\ Placed(w5, c, 2, 0, 13)
    BY <1>4, Append
  <1>6. /\ Placed(w5, a, 1, 0, 0) /\ Placed(w5, b, 4, 0, 2)
        /\ Placed(w5, e, 8, 6, 7) /\ Placed(w5, e, 5, 3, 10)
    BY <1>1, <1>2, <1>3, <1>4, Kept DEF w2, w3, w4
  <1> HIDE DEF w5
  <1>7. /\ DOMAIN w5 = 0 .. 15
        /\ Carries(w5, a, 1, 0, 0)
        /\ Carries(w5, b, 4, 0, 2)
        /\ Carries(w5, e, 8, 6, 7)
        /\ Carries(w5, e, 5, 3, 10)
        /\ Carries(w5, c, 2, 0, 13)
    BY <1>5, <1>6 DEF Placed, Length
  <1> QED BY <1>7 DEF w1, w2, w3, w4, w5

-----------------------------------------------------------------------------
(* What parse_source_address and parse_destination_address should find.    *)
Access(op, reg, base, imm) ==
    MemoryAccess(base, imm, WidthOf(op), reg, op \in SignExtended \ {"c.lwsp"},
                 SizeOf(op))

Twos(imm) == IF imm < 0 THEN imm + 4096 ELSE imm
Instr(op, reg, base, imm) == [op |-> op, reg |-> reg, base |-> base, imm |-> imm]

(* A word of four bytes leaves nothing to what follows it.                 *)
LEMMA FullWord ==
    ASSUME NEW e, DOMAIN e = 0 .. 31, \A k \in 0 .. 31 : e[k] \in {0, 1},
           NEW f \in [16 .. 31 -> {0, 1}]
    PROVE  e ++ f \in Word32 /\ \A k \in 0 .. 31 : (e ++ f)[k] = e[k]
  <1>1. DOMAIN e \union DOMAIN f = 0 .. 31
    OBVIOUS
  <1>2. e ++ f = [k \in 0 .. 31 |-> IF k \in 0 .. 31 THEN e[k] ELSE f[k]]
    BY <1>1, Zenon DEF ++
  <1> QED BY <1>2 DEF Word32

(* One of two bytes stays as it is in front of what follows it, and the    *)
(* dereference_instruction of it too.                                      *)
LEMMA HalfWord ==
    ASSUME NEW e, DOMAIN e = 0 .. 15, \A k \in 0 .. 15 : e[k] \in {0, 1},
           NEW f \in [16 .. 31 -> {0, 1}], ~(e[0] = 1 /\ e[1] = 1)
    PROVE  LET w == dereference_instruction(e ++ f)
           IN  /\ w \in Word32
               /\ \A k \in 0 .. 15 : w[k] = e[k]
               /\ Compressed(w)
  <1> DEFINE v == e ++ f
  <1>1. v \in Word32 /\ \A k \in 0 .. 15 : v[k] = e[k]
    <2>1. DOMAIN e \union DOMAIN f = 0 .. 31
      OBVIOUS
    <2>2. v = [k \in 0 .. 31 |-> IF k \in DOMAIN e THEN e[k] ELSE f[k]]
      BY <2>1, Zenon DEF ++
    <2>3. \A k \in 0 .. 31 : v[k] \in {0, 1}
      BY <2>2
    <2> QED BY <2>2, <2>3 DEF Word32
  <1> HIDE DEF v
  <1>2. Compressed(v)
    BY <1>1, LowBits
  <1> DEFINE w == dereference_instruction(v)
  <1>3. w = [i \in 0 .. 31 |-> IF i < 16 THEN v[i] ELSE 0]
    BY <1>2 DEF dereference_instruction
  <1> HIDE DEF w
  <1>4. w \in Word32 /\ \A k \in 0 .. 15 : w[k] = e[k]
    BY <1>1, <1>3 DEF Word32
  <1>5. Compressed(w)
    BY <1>4, LowBits
  <1> QED BY <1>4, <1>5 DEF v, w

(* The function code has three bits.                                       *)
LEMMA Funct3Type ==
    ASSUME NEW op \in Loads \union Stores \union System
    PROVE  Funct3Of(op) \in 0 .. 7
  BY DEF Funct3Of, Loads, Stores, Load, Store, CompressedLoad, CompressedStore,
         System

(* The fields of the words that hold an instruction: IWord is a load or a  *)
(* system instruction, SWord a store.                                      *)
IWord(w, op, reg, base, imm) ==
    /\ ~Compressed(w)
    /\ op \in Load => Bits(w, 0, 7) = 3
    /\ op \in System => Bits(w, 0, 7) = 115
    /\ Bits(w, 7, 5) = reg
    /\ Bits(w, 12, 3) = Funct3Of(op)
    /\ Bits(w, 15, 5) = base
    /\ Bits(w, 20, 5) = Low5(Twos(imm))
    /\ Bits(w, 25, 7) = High7(Twos(imm))

SWord(w, op, reg, base, imm) ==
    /\ ~Compressed(w)
    /\ Bits(w, 0, 7) = 35
    /\ Bits(w, 12, 3) = Funct3Of(op)
    /\ Bits(w, 15, 5) = base
    /\ Bits(w, 20, 5) = reg
    /\ Bits(w, 7, 5) = Low5(Twos(imm))
    /\ Bits(w, 25, 7) = High7(Twos(imm))

(* The field of twelve bits from its two parts.                            *)
LEMMA TwosParts ==
    ASSUME NEW imm, Imm12(imm) \/ Uimm12(imm)
    PROVE  /\ Twos(imm) \in Nat /\ Twos(imm) < 4096
           /\ Low5(Twos(imm)) \in Int /\ High7(Twos(imm)) \in Int
           /\ 0 <= Low5(Twos(imm)) /\ Low5(Twos(imm)) < 32
           /\ 32 * High7(Twos(imm)) + Low5(Twos(imm)) = Twos(imm)
  <1>1. Twos(imm) \in Nat /\ Twos(imm) < 4096
    BY DEF Twos, Imm12, Uimm12
  <1>2. /\ Low5(Twos(imm)) \in Int /\ High7(Twos(imm)) \in Int
        /\ 0 <= Low5(Twos(imm)) /\ Low5(Twos(imm)) < 32
    BY <1>1, BitIsBit DEF Low5, High7
  <1>3. Twos(imm) = Low5(Twos(imm)) + 32 * High7(Twos(imm))
    BY <1>1, <1>2, Sum
  <1> QED BY <1>1, <1>2, <1>3

(* A load or a system instruction in memory, unpacked.                     *)
LEMMA UnpackI ==
    ASSUME NEW op \in Load \union System, NEW reg \in 0 .. 31, NEW base \in 0 .. 31,
           NEW imm, Imm12(imm) \/ Uimm12(imm),
           NEW f \in [16 .. 31 -> {0, 1}]
    PROVE  IWord(dereference_instruction(InMemory(Instr(op, reg, base, imm), f)),
                 op, reg, base, imm)
  <1> DEFINE a == IF op \in Load THEN 3 ELSE 115
             c == Funct3Of(op)
             n == Twos(imm)
             e == Field(a, 6, 0, 0) ++ Field(reg, 4, 0, 7) ++ Field(c, 2, 0, 12)
                    ++ Field(base, 4, 0, 15) ++ Field(n, 11, 0, 20)
             w == InMemory(Instr(op, reg, base, imm), f)
  <1>1. w = e ++ f
    BY DEF InMemory, Instr, Encode, Twos, Load, Store, System
  <1>2. n \in Nat /\ n < 4096 /\ a \in {3, 115} /\ c \in 0 .. 7
    BY TwosParts, Funct3Type DEF Loads
  <1> HIDE DEF a, c, n, w
  <1>3. /\ n \in Nat /\ n < 4096 /\ a \in Nat /\ a < 128 /\ c \in Nat /\ c < 8
        /\ reg \in Nat /\ reg < 32 /\ base \in Nat /\ base < 32
    BY <1>2
  <1>4. /\ DOMAIN e = 0 .. 31
        /\ Carries(e, a, 6, 0, 0)
        /\ Carries(e, reg, 4, 0, 7)
        /\ Carries(e, c, 2, 0, 12)
        /\ Carries(e, base, 4, 0, 15)
        /\ Carries(e, n, 11, 0, 20)
    BY IFormat
  <1> HIDE DEF e
  <1>5. \A k \in 0 .. 31 : e[k] \in {0, 1}
    <2>1. \A k \in 0 .. 6 : e[k] \in {0, 1}
      BY <1>3, <1>4, BitIsBit DEF Carries
    <2>2. \A k \in 7 .. 11 : e[k] \in {0, 1}
      BY <1>3, <1>4, BitIsBit DEF Carries
    <2>3. \A k \in 12 .. 14 : e[k] \in {0, 1}
      BY <1>3, <1>4, BitIsBit DEF Carries
    <2>4. \A k \in 15 .. 19 : e[k] \in {0, 1}
      BY <1>3, <1>4, BitIsBit DEF Carries
    <2>5. \A k \in 20 .. 31 : e[k] \in {0, 1}
      BY <1>3, <1>4, BitIsBit DEF Carries
    <2> QED BY <2>1, <2>2, <2>3, <2>4, <2>5
  <1>6. w \in Word32 /\ \A k \in 0 .. 31 : w[k] = e[k]
    <2>1. e ++ f \in Word32 /\ \A k \in 0 .. 31 : (e ++ f)[k] = e[k]
      BY <1>4, <1>5, FullWord
    <2> QED BY <1>1, <2>1
  <1>7. /\ Carries(w, a, 6, 0, 0)
        /\ Carries(w, reg, 4, 0, 7)
        /\ Carries(w, c, 2, 0, 12)
        /\ Carries(w, base, 4, 0, 15)
        /\ Carries(w, n, 4, 0, 20)
        /\ Carries(w, n, 11, 5, 25)
    BY <1>4, <1>6 DEF Carries
  <1>8. Bits(w, 0, 7) = a
    BY <1>3, <1>6, <1>7, 0 \in 0 .. 25, Read7
  <1>9. Bits(w, 7, 5) = reg
    BY <1>3, <1>6, <1>7, 7 \in 0 .. 27, Read5
  <1>10. Bits(w, 12, 3) = c
    BY <1>3, <1>6, <1>7, 12 \in 0 .. 29, Read3
  <1>11. Bits(w, 15, 5) = base
    BY <1>3, <1>6, <1>7, 15 \in 0 .. 27, Read5
  <1>12. Bits(w, 20, 5) = Low5(n) /\ Bits(w, 25, 7) = High7(n)
    BY <1>3, <1>6, <1>7, 20 \in 0 .. 27, 25 \in 0 .. 25, ReadLow5, ReadHigh7
  <1>13. ~Compressed(w)
    <2>1. w[0] = 1 /\ w[1] = 1
      BY <1>2, <1>7, 2^0 = 1, 2^1 = 2 DEF Carries, Bit
    <2> QED BY <1>6, <2>1, LowBits
  <1>14. dereference_instruction(w) = w
    BY <1>13 DEF dereference_instruction
  <1>15. IWord(w, op, reg, base, imm)
    <2>1. /\ op \in Load => a = 3
          /\ op \in System => a = 115
      BY DEF a, Load, System
    <2> QED BY <1>8, <1>9, <1>10, <1>11, <1>12, <1>13, <2>1 DEF IWord, c, n
  <1> QED BY <1>14, <1>15 DEF w

(* A store in memory, unpacked.                                            *)
LEMMA UnpackS ==
    ASSUME NEW op \in Store, NEW reg \in 0 .. 31, NEW base \in 0 .. 31,
           NEW imm, Imm12(imm) \/ Uimm12(imm),
           NEW f \in [16 .. 31 -> {0, 1}]
    PROVE  SWord(dereference_instruction(InMemory(Instr(op, reg, base, imm), f)),
                 op, reg, base, imm)
  <1> DEFINE c == Funct3Of(op)
             n == Twos(imm)
             e == Field(35, 6, 0, 0) ++ Field(n, 4, 0, 7) ++ Field(c, 2, 0, 12)
                    ++ Field(base, 4, 0, 15) ++ Field(reg, 4, 0, 20)
                    ++ Field(n, 11, 5, 25)
             w == InMemory(Instr(op, reg, base, imm), f)
  <1>1. w = e ++ f
    BY DEF InMemory, Instr, Encode, Twos, Load, Store, System
  <1>2. n \in Nat /\ n < 4096 /\ c \in 0 .. 7
    BY TwosParts, Funct3Type DEF Stores
  <1> HIDE DEF c, n, w
  <1>3. /\ n \in Nat /\ n < 4096 /\ c \in Nat /\ c < 8
        /\ reg \in Nat /\ reg < 32 /\ base \in Nat /\ base < 32
    BY <1>2
  <1>4. /\ DOMAIN e = 0 .. 31
        /\ Carries(e, 35, 6, 0, 0)
        /\ Carries(e, n, 4, 0, 7)
        /\ Carries(e, c, 2, 0, 12)
        /\ Carries(e, base, 4, 0, 15)
        /\ Carries(e, reg, 4, 0, 20)
        /\ Carries(e, n, 11, 5, 25)
    BY SFormat
  <1> HIDE DEF e
  <1>5. \A k \in 0 .. 31 : e[k] \in {0, 1}
    <2>1. \A k \in 0 .. 6 : e[k] \in {0, 1}
      BY <1>4, 35 \in Nat, BitIsBit DEF Carries
    <2>2. \A k \in 7 .. 11 : e[k] \in {0, 1}
      BY <1>3, <1>4, BitIsBit DEF Carries
    <2>3. \A k \in 12 .. 14 : e[k] \in {0, 1}
      BY <1>3, <1>4, BitIsBit DEF Carries
    <2>4. \A k \in 15 .. 19 : e[k] \in {0, 1}
      BY <1>3, <1>4, BitIsBit DEF Carries
    <2>5. \A k \in 20 .. 24 : e[k] \in {0, 1}
      BY <1>3, <1>4, BitIsBit DEF Carries
    <2>6. \A k \in 25 .. 31 : e[k] \in {0, 1}
      BY <1>3, <1>4, BitIsBit DEF Carries
    <2> QED BY <2>1, <2>2, <2>3, <2>4, <2>5, <2>6
  <1>6. w \in Word32 /\ \A k \in 0 .. 31 : w[k] = e[k]
    <2>1. e ++ f \in Word32 /\ \A k \in 0 .. 31 : (e ++ f)[k] = e[k]
      BY <1>4, <1>5, FullWord
    <2> QED BY <1>1, <2>1
  <1>7. /\ Carries(w, 35, 6, 0, 0)
        /\ Carries(w, n, 4, 0, 7)
        /\ Carries(w, c, 2, 0, 12)
        /\ Carries(w, base, 4, 0, 15)
        /\ Carries(w, reg, 4, 0, 20)
        /\ Carries(w, n, 11, 5, 25)
    BY <1>4, <1>6 DEF Carries
  <1>8. Bits(w, 0, 7) = 35
    BY <1>6, <1>7, 35 \in Nat, 35 < 128, 0 \in 0 .. 25, Read7
  <1>9. Bits(w, 12, 3) = c
    BY <1>3, <1>6, <1>7, 12 \in 0 .. 29, Read3
  <1>10. Bits(w, 15, 5) = base
    BY <1>3, <1>6, <1>7, 15 \in 0 .. 27, Read5
  <1>11. Bits(w, 20, 5) = reg
    BY <1>3, <1>6, <1>7, 20 \in 0 .. 27, Read5
  <1>12. Bits(w, 7, 5) = Low5(n) /\ Bits(w, 25, 7) = High7(n)
    BY <1>3, <1>6, <1>7, 7 \in 0 .. 27, 25 \in 0 .. 25, ReadLow5, ReadHigh7
  <1>13. ~Compressed(w)
    <2>1. w[0] = 1 /\ w[1] = 1
      BY <1>7, 2^0 = 1, 2^1 = 2 DEF Carries, Bit
    <2> QED BY <1>6, <2>1, LowBits
  <1>14. dereference_instruction(w) = w
    BY <1>13 DEF dereference_instruction
  <1>15. SWord(w, op, reg, base, imm)
    BY <1>8, <1>9, <1>10, <1>11, <1>12, <1>13 DEF SWord, c, n
  <1> QED BY <1>14, <1>15 DEF w

-----------------------------------------------------------------------------
(* EXTEND_SIGN undoes the two's complement of twelve bits.                 *)
LEMMA TwosExtended ==
    ASSUME NEW imm, Imm12(imm)
    PROVE  ExtendSign(Twos(imm), 12) = imm
  <1>1. 2^(12 - 1) = 2048 /\ 2^12 = 4096
    BY Powers
  <1> QED BY <1>1 DEF ExtendSign, Twos, Imm12

(* The loads of four bytes.                                                *)
LEMMA LoadParsed ==
    ASSUME NEW op \in Load, NEW reg, NEW base, NEW imm, Imm12(imm),
           NEW w, IWord(w, op, reg, base, imm)
    PROVE  parse_source_address(w) = Access(op, reg, base, imm)
  <1>1. /\ ~Compressed(w) /\ Bits(w, 0, 7) = 3
        /\ Bits(w, 7, 5) = reg
        /\ Bits(w, 12, 3) = Funct3Of(op)
        /\ Bits(w, 15, 5) = base
        /\ Bits(w, 20, 5) = Low5(Twos(imm))
        /\ Bits(w, 25, 7) = High7(Twos(imm))
    BY DEF IWord
  <1>2. Bits(w, 25, 7) \in Int /\ Bits(w, 20, 5) \in Int
    BY <1>1, TwosParts
  <1>3. ExtendSign(32 * Bits(w, 25, 7) + Bits(w, 20, 5), 12) = imm
    <2>1. 32 * Bits(w, 25, 7) + Bits(w, 20, 5) = Twos(imm)
      <3>1. 32 * High7(Twos(imm)) + Low5(Twos(imm)) = Twos(imm)
        BY <1>1, <1>2, TwosParts
      <3> QED BY <1>1, <1>2, <3>1
    <2> QED BY <2>1, TwosExtended
  <1>4. /\ Funct3Of(op) \in 0 .. 6
        /\ LoadWidth(Funct3Of(op)) = WidthOf(op)
        /\ Funct3Of(op) \in SignedLoad <=> op \in SignExtended \ {"c.lwsp"}
    <2>1. \/ op = "lb" \/ op = "lh" \/ op = "lw" \/ op = "ld"
          \/ op = "lbu" \/ op = "lhu" \/ op = "lwu"
      BY DEF Load
    <2>2. /\ LoadWidth(0) = 1 /\ LoadWidth(1) = 2 /\ LoadWidth(2) = 4
          /\ LoadWidth(3) = 8 /\ LoadWidth(4) = 1 /\ LoadWidth(5) = 2
          /\ LoadWidth(6) = 4
      BY Powers DEF LoadWidth
    <2> QED BY <2>1, <2>2 DEF Funct3Of, WidthOf, SignedLoad, SignExtended, Byte,
                              Half, Word
  <1>5. SizeOf(op) = 4
    BY DEF SizeOf, Load, CompressedLoad, CompressedStore
  <1>6. parse_source_address(w)
          = MemoryAccess(base, imm, LoadWidth(Funct3Of(op)), reg,
                         Funct3Of(op) \in SignedLoad, 4)
    BY <1>1, <1>3, <1>4 DEF parse_source_address, unpack_instruction
  <1>7. (Funct3Of(op) \in SignedLoad) = (op \in SignExtended \ {"c.lwsp"})
    BY <1>4
  <1> QED BY <1>4, <1>5, <1>6, <1>7 DEF Access

(* The stores of four bytes.                                               *)
LEMMA StoreParsed ==
    ASSUME NEW op \in Store, NEW reg, NEW base, NEW imm, Imm12(imm),
           NEW w, SWord(w, op, reg, base, imm)
    PROVE  parse_destination_address(w) = Access(op, reg, base, imm)
  <1>1. /\ ~Compressed(w) /\ Bits(w, 0, 7) = 35
        /\ Bits(w, 12, 3) = Funct3Of(op)
        /\ Bits(w, 15, 5) = base
        /\ Bits(w, 20, 5) = reg
        /\ Bits(w, 7, 5) = Low5(Twos(imm))
        /\ Bits(w, 25, 7) = High7(Twos(imm))
    BY DEF SWord
  <1>2. Bits(w, 25, 7) \in Int /\ Bits(w, 7, 5) \in Int
    BY <1>1, TwosParts
  <1>3. ExtendSign(32 * Bits(w, 25, 7) + Bits(w, 7, 5), 12) = imm
    <2>1. 32 * Bits(w, 25, 7) + Bits(w, 7, 5) = Twos(imm)
      <3>1. 32 * High7(Twos(imm)) + Low5(Twos(imm)) = Twos(imm)
        BY <1>1, <1>2, TwosParts
      <3> QED BY <1>1, <1>2, <3>1
    <2> QED BY <2>1, TwosExtended
  <1>4. Funct3Of(op) \in 0 .. 3 /\ StoreWidth(Funct3Of(op)) = WidthOf(op)
    <2>1. op = "sb" \/ op = "sh" \/ op = "sw" \/ op = "sd"
      BY DEF Store
    <2>2. /\ StoreWidth(0) = 1 /\ StoreWidth(1) = 2 /\ StoreWidth(2) = 4
          /\ StoreWidth(3) = 8
      BY Powers DEF StoreWidth
    <2> QED BY <2>1, <2>2 DEF Funct3Of, WidthOf, Byte, Half, Word
  <1>5. SizeOf(op) = 4 /\ (op \in SignExtended \ {"c.lwsp"}) = FALSE
    BY DEF SizeOf, Store, CompressedLoad, CompressedStore, SignExtended
  <1>6. parse_destination_address(w)
          = MemoryAccess(base, imm, StoreWidth(Funct3Of(op)), reg, FALSE, 4)
    BY <1>1, <1>3, <1>4 DEF parse_destination_address, unpack_instruction
  <1> QED BY <1>4, <1>5, <1>6 DEF Access

(* The system instructions that are emulated, and the others.              *)
Emulated == {"csrrw", "csrrs", "mret", "wfi", "sfence.vma"}
Handled(op, reg, base, imm) ==
    IF op \in Emulated THEN [op |-> op, csr |-> imm, rd |-> reg, rs1 |-> base]
                       ELSE Illegal

LEMMA SystemParsed ==
    ASSUME NEW op \in System, NEW reg, NEW base, NEW imm, Uimm12(imm),
           NEW w, IWord(w, op, reg, base, imm),
           op = "mret" => reg = 0 /\ base = 0 /\ imm = 770,
           op = "sret" => imm = 258,
           op = "wfi" => reg = 0 /\ base = 0 /\ imm = 261,
           op = "sfence.vma" => reg = 0 /\ 288 <= imm /\ imm <= 319,
           op = "hfence.vvma" => 544 <= imm /\ imm <= 575
    PROVE  handle_illegal_instruction(w) = Handled(op, reg, base, imm)
  <1> DEFINE u == unpack_instruction(w)
             lo == Low5(Twos(imm))
             up == High7(Twos(imm))
  <1>1. /\ u.opcode = 115 /\ u.rd = reg /\ u.funct3 = Funct3Of(op)
        /\ u.rs1 = base /\ u.rs2 = lo /\ u.funct7 = up
    BY DEF IWord, unpack_instruction
  <1>2. lo \in Int /\ up \in Int /\ 0 <= lo /\ lo < 32 /\ 32 * up + lo = imm
    <2>1. Twos(imm) = imm
      BY DEF Twos, Uimm12
    <2> QED BY <2>1, TwosParts
  <1> HIDE DEF u, lo, up
  <1>3. /\ imm = 770 => up = 24 /\ lo = 2
        /\ imm = 258 => up = 8 /\ lo = 2
        /\ imm = 261 => up = 8 /\ lo = 5
        /\ 288 <= imm /\ imm <= 319 => up = 9
        /\ 544 <= imm /\ imm <= 575 => up = 17
    BY <1>2
  <1>4. SystemHandler(u) = IF op \in Emulated THEN op ELSE "none"
    <2>1. CASE op = "mret"
      BY <1>1, <1>3, <2>1 DEF SystemHandler, Emulated, Funct3Of
    <2>2. CASE op = "sret"
      BY <1>1, <1>3, <2>2 DEF SystemHandler, Emulated, Funct3Of
    <2>3. CASE op = "wfi"
      BY <1>1, <1>3, <2>3 DEF SystemHandler, Emulated, Funct3Of
    <2>4. CASE op = "sfence.vma"
      BY <1>1, <1>3, <2>4 DEF SystemHandler, Emulated, Funct3Of
    <2>5. CASE op = "hfence.vvma"
      BY <1>1, <1>3, <2>5 DEF SystemHandler, Emulated, Funct3Of
    <2>6. CASE op \in {"csrrw", "csrrs", "csrrc", "csrrwi", "csrrsi", "csrrci"}
      BY <1>1, <2>6 DEF SystemHandler, Emulated, Funct3Of
    <2> QED BY <2>1, <2>2, <2>3, <2>4, <2>5, <2>6 DEF System
  <1>5. 32 * u.funct7 + u.rs2 = imm
    BY <1>1, <1>2
  <1>6. op # "none"
    BY DEF System
  <1>7. handle_illegal_instruction(w)
          = IF op \in Emulated
            THEN [op |-> op, csr |-> 32 * u.funct7 + u.rs2, rd |-> u.rd,
                  rs1 |-> u.rs1]
            ELSE Illegal
    BY <1>1, <1>4, <1>6 DEF handle_illegal_instruction, u
  <1> QED BY <1>1, <1>5, <1>7 DEF Handled

-----------------------------------------------------------------------------
(* The fields of unpack_compressed_instruction, bit by bit.                *)
LEMMA CompressedSum ==
    ASSUME NEW w \in Word32
    PROVE  /\ Bits(w, 0, 2) = w[0] + 2 * w[1]
           /\ Bits(w, 2, 5) = w[2] + 2 * w[3] + 4 * w[4] + 8 * w[5] + 16 * w[6]
           /\ Bits(w, 7, 5) = w[7] + 2 * w[8] + 4 * w[9] + 8 * w[10] + 16 * w[11]
           /\ Bits(w, 12, 4) = w[12] + 2 * w[13] + 4 * w[14] + 8 * w[15]
  <1>1. \A at \in 0 .. 30 : Bits(w, at, 2) = w[at] + 2 * w[at + 1]
    BY \A at \in 0 .. 30 : at \in 0 .. 31, BitsSum
  <1>2. \A at \in 0 .. 27 :
          Bits(w, at, 5) = w[at] + 2 * w[at + 1] + 4 * w[at + 2]
                           + 8 * w[at + 3] + 16 * w[at + 4]
    BY \A at \in 0 .. 27 : at \in 0 .. 31, BitsSum
  <1>3. \A at \in 0 .. 28 :
          Bits(w, at, 4) = w[at] + 2 * w[at + 1] + 4 * w[at + 2] + 8 * w[at + 3]
    BY \A at \in 0 .. 28 : at \in 0 .. 31, BitsSum
  <1>4. Bits(w, 0, 2) = w[0] + 2 * w[1]
    BY <1>1
  <1>5. Bits(w, 2, 5) = w[2] + 2 * w[3] + 4 * w[4] + 8 * w[5] + 16 * w[6]
    BY <1>2
  <1>6. Bits(w, 7, 5) = w[7] + 2 * w[8] + 4 * w[9] + 8 * w[10] + 16 * w[11]
    BY <1>2
  <1>7. Bits(w, 12, 4) = w[12] + 2 * w[13] + 4 * w[14] + 8 * w[15]
    BY <1>3
  <1> QED BY <1>4, <1>5, <1>6, <1>7

(* A word with the fields of a compressed instruction.                     *)
HalfFields(w, q, z2, z7, z12) ==
    /\ Compressed(w)
    /\ Bits(w, 0, 2) = q
    /\ Bits(w, 2, 5) = z2
    /\ Bits(w, 7, 5) = z7
    /\ Bits(w, 12, 4) = z12

LEMMA HalfUnpacked ==
    ASSUME NEW e, DOMAIN e = 0 .. 15, \A k \in 0 .. 15 : e[k] \in {0, 1},
           NEW f \in [16 .. 31 -> {0, 1}], e[0] = 0
    PROVE  HalfFields(dereference_instruction(e ++ f), e[0] + 2 * e[1],
                      e[2] + 2 * e[3] + 4 * e[4] + 8 * e[5] + 16 * e[6],
                      e[7] + 2 * e[8] + 4 * e[9] + 8 * e[10] + 16 * e[11],
                      e[12] + 2 * e[13] + 4 * e[14] + 8 * e[15])
  <1> DEFINE w == dereference_instruction(e ++ f)
  <1>1. /\ w \in Word32
        /\ \A k \in 0 .. 15 : w[k] = e[k]
        /\ Compressed(w)
    BY HalfWord
  <1> HIDE DEF w
  <1>2. /\ w[0] = e[0] /\ w[1] = e[1] /\ w[2] = e[2] /\ w[3] = e[3]
        /\ w[4] = e[4] /\ w[5] = e[5] /\ w[6] = e[6] /\ w[7] = e[7]
        /\ w[8] = e[8] /\ w[9] = e[9] /\ w[10] = e[10] /\ w[11] = e[11]
        /\ w[12] = e[12] /\ w[13] = e[13] /\ w[14] = e[14] /\ w[15] = e[15]
    BY <1>1
  <1>3. Bits(w, 0, 2) = e[0] + 2 * e[1]
    BY <1>1, <1>2, CompressedSum
  <1>4. Bits(w, 2, 5) = e[2] + 2 * e[3] + 4 * e[4] + 8 * e[5] + 16 * e[6]
    BY <1>1, <1>2, CompressedSum
  <1>5. Bits(w, 7, 5) = e[7] + 2 * e[8] + 4 * e[9] + 8 * e[10] + 16 * e[11]
    BY <1>1, <1>2, CompressedSum
  <1>6. Bits(w, 12, 4) = e[12] + 2 * e[13] + 4 * e[14] + 8 * e[15]
    BY <1>1, <1>2, CompressedSum
  <1> QED BY <1>1, <1>3, <1>4, <1>5, <1>6 DEF HalfFields, w

(* Sixteen bits.                                                           *)
LEMMA Halfword ==
    ASSUME NEW e, e[0] \in {0, 1}, e[1] \in {0, 1}, e[2] \in {0, 1},
           e[3] \in {0, 1}, e[4] \in {0, 1}, e[5] \in {0, 1}, e[6] \in {0, 1},
           e[7] \in {0, 1}, e[8] \in {0, 1}, e[9] \in {0, 1}, e[10] \in {0, 1},
           e[11] \in {0, 1}, e[12] \in {0, 1}, e[13] \in {0, 1},
           e[14] \in {0, 1}, e[15] \in {0, 1}
    PROVE  \A k \in 0 .. 15 : e[k] \in {0, 1}
  <1>1. \A k \in 0 .. 15 :
          \/ k = 0 \/ k = 1 \/ k = 2 \/ k = 3 \/ k = 4 \/ k = 5 \/ k = 6 \/ k = 7
          \/ k = 8 \/ k = 9 \/ k = 10 \/ k = 11 \/ k = 12 \/ k = 13 \/ k = 14
          \/ k = 15
    OBVIOUS
  <1> QED BY <1>1

(* The numbers in these fields, for the formats with short registers and   *)
(* those on the stack.                                                     *)
PrimeField(r, x, y) == r + 8 * x + 16 * y
UpperField(x, op) == x + 2 * Funct3Of(op)
WordField(imm) == Bit(imm, 6) + 2 * Bit(imm, 7) + 4 * Bit(imm, 2)
                  + 8 * Bit(imm, 3) + 16 * Bit(imm, 4)
DoubleField(imm) == Bit(imm, 6) + 2 * Bit(imm, 7) + 4 * Bit(imm, 8)
                    + 8 * Bit(imm, 3) + 16 * Bit(imm, 4)

(* c.lw and c.sw in memory, unpacked.                                      *)
LEMMA UnpackWord ==
    ASSUME NEW op \in {"c.lw", "c.sw"}, NEW reg \in 8 .. 15, NEW base \in 8 .. 15,
           NEW imm \in Nat, NEW f \in [16 .. 31 -> {0, 1}]
    PROVE  HalfFields(dereference_instruction(
                          InMemory(Instr(op, reg, base, imm), f)),
                      0, PrimeField(reg - 8, Bit(imm, 6), Bit(imm, 2)),
                      PrimeField(base - 8, Bit(imm, 3), Bit(imm, 4)),
                      UpperField(Bit(imm, 5), op))
  <1> DEFINE c == Funct3Of(op)
             b == reg - 8
             d == base - 8
             e == Field(0, 1, 0, 0) ++ Field(b, 2, 0, 2)
                    ++ Field(imm, 6, 6, 5) ++ Field(imm, 2, 2, 6)
                    ++ Field(d, 2, 0, 7) ++ Field(imm, 5, 3, 10)
                    ++ Field(c, 2, 0, 13)
             w == dereference_instruction(InMemory(Instr(op, reg, base, imm), f))
  <1>1. w = dereference_instruction(e ++ f)
    <2>1. Encode(Instr(op, reg, base, imm)) = e
      BY DEF Instr, Encode, Load, Store, System
    <2> QED BY <2>1 DEF InMemory
  <1>2. /\ c \in Nat /\ c < 8 /\ b \in Nat /\ b < 8 /\ d \in Nat /\ d < 8
    BY Funct3Type DEF Loads, Stores, CompressedLoad, CompressedStore
  <1> HIDE DEF b, c, d, w
  <1>3. /\ DOMAIN e = 0 .. 15 /\ Carries(e, 0, 1, 0, 0)
        /\ Carries(e, b, 2, 0, 2) /\ Carries(e, imm, 6, 6, 5)
        /\ Carries(e, imm, 2, 2, 6) /\ Carries(e, d, 2, 0, 7)
        /\ Carries(e, imm, 5, 3, 10) /\ Carries(e, c, 2, 0, 13)
    BY WordFormat
  <1> HIDE DEF e
  <1>4. /\ e[0] = Bit(0, 0) /\ e[1] = Bit(0, 1) /\ e[2] = Bit(b, 0)
        /\ e[3] = Bit(b, 1) /\ e[4] = Bit(b, 2) /\ e[5] = Bit(imm, 6)
        /\ e[6] = Bit(imm, 2) /\ e[7] = Bit(d, 0) /\ e[8] = Bit(d, 1)
        /\ e[9] = Bit(d, 2) /\ e[10] = Bit(imm, 3) /\ e[11] = Bit(imm, 4)
        /\ e[12] = Bit(imm, 5) /\ e[13] = Bit(c, 0) /\ e[14] = Bit(c, 1)
        /\ e[15] = Bit(c, 2)
    BY <1>3 DEF Carries
  <1>5. \A k \in 0 .. 11 :
          /\ Bit(imm, k) \in {0, 1} /\ Bit(b, k) \in {0, 1}
          /\ Bit(c, k) \in {0, 1} /\ Bit(d, k) \in {0, 1}
    BY <1>2, BitIsBit
  <1>6. Bit(0, 0) = 0 /\ Bit(0, 1) = 0
    BY 2^0 = 1, 2^1 = 2 DEF Bit
  <1>7. \A k \in 0 .. 15 : e[k] \in {0, 1}
    BY <1>4, <1>5, <1>6, Halfword
  <1>8. HalfFields(w, e[0] + 2 * e[1],
                   e[2] + 2 * e[3] + 4 * e[4] + 8 * e[5] + 16 * e[6],
                   e[7] + 2 * e[8] + 4 * e[9] + 8 * e[10] + 16 * e[11],
                   e[12] + 2 * e[13] + 4 * e[14] + 8 * e[15])
    BY <1>1, <1>3, <1>4, <1>6, <1>7, HalfUnpacked
  <1>9. b = Low3(b) /\ c = Low3(c) /\ d = Low3(d)
    BY <1>2, Sum
  <1>10. e[0] + 2 * e[1] = 0
    BY <1>4, <1>6
  <1>11. e[2] + 2 * e[3] + 4 * e[4] + 8 * e[5] + 16 * e[6]
           = PrimeField(b, Bit(imm, 6), Bit(imm, 2))
    BY <1>2, <1>4, <1>5, <1>9 DEF Low3, PrimeField
  <1>12. e[7] + 2 * e[8] + 4 * e[9] + 8 * e[10] + 16 * e[11]
           = PrimeField(d, Bit(imm, 3), Bit(imm, 4))
    BY <1>2, <1>4, <1>5, <1>9 DEF Low3, PrimeField
  <1>13. e[12] + 2 * e[13] + 4 * e[14] + 8 * e[15] = UpperField(Bit(imm, 5), op)
    <2>1. UpperField(Bit(imm, 5), op) = Bit(imm, 5) + 2 * c
      BY DEF UpperField, c
    <2> QED BY <1>2, <1>4, <1>5, <1>9, <2>1 DEF Low3
  <1> QED BY <1>8, <1>10, <1>11, <1>12, <1>13 DEF w, b, d

(* c.ld and c.sd in memory, unpacked.                                      *)
LEMMA UnpackDouble ==
    ASSUME NEW op \in {"c.ld", "c.sd"}, NEW reg \in 8 .. 15, NEW base \in 8 .. 15,
           NEW imm \in Nat, NEW f \in [16 .. 31 -> {0, 1}]
    PROVE  HalfFields(dereference_instruction(
                          InMemory(Instr(op, reg, base, imm), f)),
                      0, PrimeField(reg - 8, Bit(imm, 6), Bit(imm, 7)),
                      PrimeField(base - 8, Bit(imm, 3), Bit(imm, 4)),
                      UpperField(Bit(imm, 5), op))
  <1> DEFINE c == Funct3Of(op)
             b == reg - 8
             d == base - 8
             e == Field(0, 1, 0, 0) ++ Field(b, 2, 0, 2)
                    ++ Field(imm, 7, 6, 5) ++ Field(d, 2, 0, 7)
                    ++ Field(imm, 5, 3, 10) ++ Field(c, 2, 0, 13)
             w == dereference_instruction(InMemory(Instr(op, reg, base, imm), f))
  <1>1. w = dereference_instruction(e ++ f)
    <2>1. Encode(Instr(op, reg, base, imm)) = e
      BY DEF Instr, Encode, Load, Store, System
    <2> QED BY <2>1 DEF InMemory
  <1>2. /\ c \in Nat /\ c < 8 /\ b \in Nat /\ b < 8 /\ d \in Nat /\ d < 8
    BY Funct3Type DEF Loads, Stores, CompressedLoad, CompressedStore
  <1> HIDE DEF b, c, d, w
  <1>3. /\ DOMAIN e = 0 .. 15 /\ Carries(e, 0, 1, 0, 0)
        /\ Carries(e, b, 2, 0, 2) /\ Carries(e, imm, 7, 6, 5)
        /\ Carries(e, d, 2, 0, 7) /\ Carries(e, imm, 5, 3, 10)
        /\ Carries(e, c, 2, 0, 13)
    BY DoubleFormat
  <1> HIDE DEF e
  <1>4. /\ e[0] = Bit(0, 0) /\ e[1] = Bit(0, 1) /\ e[2] = Bit(b, 0)
        /\ e[3] = Bit(b, 1) /\ e[4] = Bit(b, 2) /\ e[5] = Bit(imm, 6)
        /\ e[6] = Bit(imm, 7) /\ e[7] = Bit(d, 0) /\ e[8] = Bit(d, 1)
        /\ e[9] = Bit(d, 2) /\ e[10] = Bit(imm, 3) /\ e[11] = Bit(imm, 4)
        /\ e[12] = Bit(imm, 5) /\ e[13] = Bit(c, 0) /\ e[14] = Bit(c, 1)
        /\ e[15] = Bit(c, 2)
    BY <1>3 DEF Carries
  <1>5. \A k \in 0 .. 11 :
          /\ Bit(imm, k) \in {0, 1} /\ Bit(b, k) \in {0, 1}
          /\ Bit(c, k) \in {0, 1} /\ Bit(d, k) \in {0, 1}
    BY <1>2, BitIsBit
  <1>6. Bit(0, 0) = 0 /\ Bit(0, 1) = 0
    BY 2^0 = 1, 2^1 = 2 DEF Bit
  <1>7. \A k \in 0 .. 15 : e[k] \in {0, 1}
    BY <1>4, <1>5, <1>6, Halfword
  <1>8. HalfFields(w, e[0] + 2 * e[1],
                   e[2] + 2 * e[3] + 4 * e[4] + 8 * e[5] + 16 * e[6],
                   e[7] + 2 * e[8] + 4 * e[9] + 8 * e[10] + 16 * e[11],
                   e[12] + 2 * e[13] + 4 * e[14] + 8 * e[15])
    BY <1>1, <1>3, <1>4, <1>6, <1>7, HalfUnpacked
  <1>9. b = Low3(b) /\ c = Low3(c) /\ d = Low3(d)
    BY <1>2, Sum
  <1>10. e[0] + 2 * e[1] = 0
    BY <1>4, <1>6
  <1>11. e[2] + 2 * e[3] + 4 * e[4] + 8 * e[5] + 16 * e[6]
           = PrimeField(b, Bit(imm, 6), Bit(imm, 7))
    BY <1>2, <1>4, <1>5, <1>9 DEF Low3, PrimeField
  <1>12. e[7] + 2 * e[8] + 4 * e[9] + 8 * e[10] + 16 * e[11]
           = PrimeField(d, Bit(imm, 3), Bit(imm, 4))
    BY <1>2, <1>4, <1>5, <1>9 DEF Low3, PrimeField
  <1>13. e[12] + 2 * e[13] + 4 * e[14] + 8 * e[15] = UpperField(Bit(imm, 5), op)
    <2>1. UpperField(Bit(imm, 5), op) = Bit(imm, 5) + 2 * c
      BY DEF UpperField, c
    <2> QED BY <1>2, <1>4, <1>5, <1>9, <2>1 DEF Low3
  <1> QED BY <1>8, <1>10, <1>11, <1>12, <1>13 DEF w, b, d

(* c.lwsp in memory, unpacked.                                             *)
LEMMA UnpackLwsp ==
    ASSUME NEW op \in {"c.lwsp"}, NEW reg \in 0 .. 31, NEW base,
           NEW imm \in Nat, NEW f \in [16 .. 31 -> {0, 1}]
    PROVE  HalfFields(dereference_instruction(
                          InMemory(Instr(op, reg, base, imm), f)),
                      2, WordField(imm),
                      reg, UpperField(Bit(imm, 5), op))
  <1> DEFINE c == Funct3Of(op)
             b == reg
             e == Field(2, 1, 0, 0) ++ Field(imm, 7, 6, 2)
                    ++ Field(imm, 4, 2, 4) ++ Field(b, 4, 0, 7)
                    ++ Field(imm, 5, 5, 12) ++ Field(c, 2, 0, 13)
             w == dereference_instruction(InMemory(Instr(op, reg, base, imm), f))
  <1>1. w = dereference_instruction(e ++ f)
    <2>1. Encode(Instr(op, reg, base, imm)) = e
      BY DEF Instr, Encode, Load, Store, System
    <2> QED BY <2>1 DEF InMemory
  <1>2. c \in Nat /\ c < 8 /\ b \in Nat /\ b < 32
    BY Funct3Type DEF Loads, Stores, CompressedLoad, CompressedStore
  <1> HIDE DEF b, c, w
  <1>3. /\ DOMAIN e = 0 .. 15 /\ Carries(e, 2, 1, 0, 0)
        /\ Carries(e, imm, 7, 6, 2) /\ Carries(e, imm, 4, 2, 4)
        /\ Carries(e, b, 4, 0, 7) /\ Carries(e, imm, 5, 5, 12)
        /\ Carries(e, c, 2, 0, 13)
    BY LoadWordStack
  <1> HIDE DEF e
  <1>4. /\ e[0] = Bit(2, 0) /\ e[1] = Bit(2, 1) /\ e[2] = Bit(imm, 6)
        /\ e[3] = Bit(imm, 7) /\ e[4] = Bit(imm, 2) /\ e[5] = Bit(imm, 3)
        /\ e[6] = Bit(imm, 4) /\ e[7] = Bit(b, 0) /\ e[8] = Bit(b, 1)
        /\ e[9] = Bit(b, 2) /\ e[10] = Bit(b, 3) /\ e[11] = Bit(b, 4)
        /\ e[12] = Bit(imm, 5) /\ e[13] = Bit(c, 0) /\ e[14] = Bit(c, 1)
        /\ e[15] = Bit(c, 2)
    BY <1>3 DEF Carries
  <1>5. \A k \in 0 .. 11 :
          Bit(imm, k) \in {0, 1} /\ Bit(b, k) \in {0, 1} /\ Bit(c, k) \in {0, 1}
    BY <1>2, BitIsBit
  <1>6. Bit(2, 0) = 0 /\ Bit(2, 1) = 1
    BY 2^0 = 1, 2^1 = 2 DEF Bit
  <1>7. \A k \in 0 .. 15 : e[k] \in {0, 1}
    BY <1>4, <1>5, <1>6, Halfword
  <1>8. HalfFields(w, e[0] + 2 * e[1],
                   e[2] + 2 * e[3] + 4 * e[4] + 8 * e[5] + 16 * e[6],
                   e[7] + 2 * e[8] + 4 * e[9] + 8 * e[10] + 16 * e[11],
                   e[12] + 2 * e[13] + 4 * e[14] + 8 * e[15])
    BY <1>1, <1>3, <1>4, <1>6, <1>7, HalfUnpacked
  <1>9. b = Low5(b) /\ c = Low3(c)
    BY <1>2, Sum
  <1>10. e[0] + 2 * e[1] = 2
    BY <1>4, <1>6
  <1>11. e[2] + 2 * e[3] + 4 * e[4] + 8 * e[5] + 16 * e[6] = WordField(imm)
    BY <1>2, <1>4, <1>5, <1>9 DEF Low5, WordField, DoubleField
  <1>12. e[7] + 2 * e[8] + 4 * e[9] + 8 * e[10] + 16 * e[11] = b
    BY <1>2, <1>4, <1>5, <1>9 DEF Low5, WordField, DoubleField
  <1>13. e[12] + 2 * e[13] + 4 * e[14] + 8 * e[15] = UpperField(Bit(imm, 5), op)
    <2>1. UpperField(Bit(imm, 5), op) = Bit(imm, 5) + 2 * c
      BY DEF UpperField, c
    <2> QED BY <1>2, <1>4, <1>5, <1>9, <2>1 DEF Low3
  <1> QED BY <1>8, <1>10, <1>11, <1>12, <1>13 DEF w, b

(* c.ldsp in memory, unpacked.                                             *)
LEMMA UnpackLdsp ==
    ASSUME NEW op \in {"c.ldsp"}, NEW reg \in 0 .. 31, NEW base,
           NEW imm \in Nat, NEW f \in [16 .. 31 -> {0, 1}]
    PROVE  HalfFields(dereference_instruction(
                          InMemory(Instr(op, reg, base, imm), f)),
                      2, DoubleField(imm),
                      reg, UpperField(Bit(imm, 5), op))
  <1> DEFINE c == Funct3Of(op)
             b == reg
             e == Field(2, 1, 0, 0) ++ Field(imm, 8, 6, 2)
                    ++ Field(imm, 4, 3, 5) ++ Field(b, 4, 0, 7)
                    ++ Field(imm, 5, 5, 12) ++ Field(c, 2, 0, 13)
             w == dereference_instruction(InMemory(Instr(op, reg, base, imm), f))
  <1>1. w = dereference_instruction(e ++ f)
    <2>1. Encode(Instr(op, reg, base, imm)) = e
      BY DEF Instr, Encode, Load, Store, System
    <2> QED BY <2>1 DEF InMemory
  <1>2. c \in Nat /\ c < 8 /\ b \in Nat /\ b < 32
    BY Funct3Type DEF Loads, Stores, CompressedLoad, CompressedStore
  <1> HIDE DEF b, c, w
  <1>3. /\ DOMAIN e = 0 .. 15 /\ Carries(e, 2, 1, 0, 0)
        /\ Carries(e, imm, 8, 6, 2) /\ Carries(e, imm, 4, 3, 5)
        /\ Carries(e, b, 4, 0, 7) /\ Carries(e, imm, 5, 5, 12)
        /\ Carries(e, c, 2, 0, 13)
    BY LoadDoubleStack
  <1> HIDE DEF e
  <1>4. /\ e[0] = Bit(2, 0) /\ e[1] = Bit(2, 1) /\ e[2] = Bit(imm, 6)
        /\ e[3] = Bit(imm, 7) /\ e[4] = Bit(imm, 8) /\ e[5] = Bit(imm, 3)
        /\ e[6] = Bit(imm, 4) /\ e[7] = Bit(b, 0) /\ e[8] = Bit(b, 1)
        /\ e[9] = Bit(b, 2) /\ e[10] = Bit(b, 3) /\ e[11] = Bit(b, 4)
        /\ e[12] = Bit(imm, 5) /\ e[13] = Bit(c, 0) /\ e[14] = Bit(c, 1)
        /\ e[15] = Bit(c, 2)
    BY <1>3 DEF Carries
  <1>5. \A k \in 0 .. 11 :
          Bit(imm, k) \in {0, 1} /\ Bit(b, k) \in {0, 1} /\ Bit(c, k) \in {0, 1}
    BY <1>2, BitIsBit
  <1>6. Bit(2, 0) = 0 /\ Bit(2, 1) = 1
    BY 2^0 = 1, 2^1 = 2 DEF Bit
  <1>7. \A k \in 0 .. 15 : e[k] \in {0, 1}
    BY <1>4, <1>5, <1>6, Halfword
  <1>8. HalfFields(w, e[0] + 2 * e[1],
                   e[2] + 2 * e[3] + 4 * e[4] + 8 * e[5] + 16 * e[6],
                   e[7] + 2 * e[8] + 4 * e[9] + 8 * e[10] + 16 * e[11],
                   e[12] + 2 * e[13] + 4 * e[14] + 8 * e[15])
    BY <1>1, <1>3, <1>4, <1>6, <1>7, HalfUnpacked
  <1>9. b = Low5(b) /\ c = Low3(c)
    BY <1>2, Sum
  <1>10. e[0] + 2 * e[1] = 2
    BY <1>4, <1>6
  <1>11. e[2] + 2 * e[3] + 4 * e[4] + 8 * e[5] + 16 * e[6] = DoubleField(imm)
    BY <1>2, <1>4, <1>5, <1>9 DEF Low5, WordField, DoubleField
  <1>12. e[7] + 2 * e[8] + 4 * e[9] + 8 * e[10] + 16 * e[11] = b
    BY <1>2, <1>4, <1>5, <1>9 DEF Low5, WordField, DoubleField
  <1>13. e[12] + 2 * e[13] + 4 * e[14] + 8 * e[15] = UpperField(Bit(imm, 5), op)
    <2>1. UpperField(Bit(imm, 5), op) = Bit(imm, 5) + 2 * c
      BY DEF UpperField, c
    <2> QED BY <1>2, <1>4, <1>5, <1>9, <2>1 DEF Low3
  <1> QED BY <1>8, <1>10, <1>11, <1>12, <1>13 DEF w, b

(* c.swsp in memory, unpacked.                                             *)
LEMMA UnpackSwsp ==
    ASSUME NEW op \in {"c.swsp"}, NEW reg \in 0 .. 31, NEW base,
           NEW imm \in Nat, NEW f \in [16 .. 31 -> {0, 1}]
    PROVE  HalfFields(dereference_instruction(
                          InMemory(Instr(op, reg, base, imm), f)),
                      2, reg,
                      WordField(imm), UpperField(Bit(imm, 5), op))
  <1> DEFINE c == Funct3Of(op)
             b == reg
             e == Field(2, 1, 0, 0) ++ Field(b, 4, 0, 2)
                    ++ Field(imm, 7, 6, 7) ++ Field(imm, 5, 2, 9)
                    ++ Field(c, 2, 0, 13)
             w == dereference_instruction(InMemory(Instr(op, reg, base, imm), f))
  <1>1. w = dereference_instruction(e ++ f)
    <2>1. Encode(Instr(op, reg, base, imm)) = e
      BY DEF Instr, Encode, Load, Store, System
    <2> QED BY <2>1 DEF InMemory
  <1>2. c \in Nat /\ c < 8 /\ b \in Nat /\ b < 32
    BY Funct3Type DEF Loads, Stores, CompressedLoad, CompressedStore
  <1> HIDE DEF b, c, w
  <1>3. /\ DOMAIN e = 0 .. 15 /\ Carries(e, 2, 1, 0, 0)
        /\ Carries(e, b, 4, 0, 2) /\ Carries(e, imm, 7, 6, 7)
        /\ Carries(e, imm, 5, 2, 9) /\ Carries(e, c, 2, 0, 13)
    BY StoreWordStack
  <1> HIDE DEF e
  <1>4. /\ e[0] = Bit(2, 0) /\ e[1] = Bit(2, 1) /\ e[2] = Bit(b, 0)
        /\ e[3] = Bit(b, 1) /\ e[4] = Bit(b, 2) /\ e[5] = Bit(b, 3)
        /\ e[6] = Bit(b, 4) /\ e[7] = Bit(imm, 6) /\ e[8] = Bit(imm, 7)
        /\ e[9] = Bit(imm, 2) /\ e[10] = Bit(imm, 3) /\ e[11] = Bit(imm, 4)
        /\ e[12] = Bit(imm, 5) /\ e[13] = Bit(c, 0) /\ e[14] = Bit(c, 1)
        /\ e[15] = Bit(c, 2)
    BY <1>3 DEF Carries
  <1>5. \A k \in 0 .. 11 :
          Bit(imm, k) \in {0, 1} /\ Bit(b, k) \in {0, 1} /\ Bit(c, k) \in {0, 1}
    BY <1>2, BitIsBit
  <1>6. Bit(2, 0) = 0 /\ Bit(2, 1) = 1
    BY 2^0 = 1, 2^1 = 2 DEF Bit
  <1>7. \A k \in 0 .. 15 : e[k] \in {0, 1}
    BY <1>4, <1>5, <1>6, Halfword
  <1>8. HalfFields(w, e[0] + 2 * e[1],
                   e[2] + 2 * e[3] + 4 * e[4] + 8 * e[5] + 16 * e[6],
                   e[7] + 2 * e[8] + 4 * e[9] + 8 * e[10] + 16 * e[11],
                   e[12] + 2 * e[13] + 4 * e[14] + 8 * e[15])
    BY <1>1, <1>3, <1>4, <1>6, <1>7, HalfUnpacked
  <1>9. b = Low5(b) /\ c = Low3(c)
    BY <1>2, Sum
  <1>10. e[0] + 2 * e[1] = 2
    BY <1>4, <1>6
  <1>11. e[2] + 2 * e[3] + 4 * e[4] + 8 * e[5] + 16 * e[6] = b
    BY <1>2, <1>4, <1>5, <1>9 DEF Low5, WordField, DoubleField
  <1>12. e[7] + 2 * e[8] + 4 * e[9] + 8 * e[10] + 16 * e[11] = WordField(imm)
    BY <1>2, <1>4, <1>5, <1>9 DEF Low5, WordField, DoubleField
  <1>13. e[12] + 2 * e[13] + 4 * e[14] + 8 * e[15] = UpperField(Bit(imm, 5), op)
    <2>1. UpperField(Bit(imm, 5), op) = Bit(imm, 5) + 2 * c
      BY DEF UpperField, c
    <2> QED BY <1>2, <1>4, <1>5, <1>9, <2>1 DEF Low3
  <1> QED BY <1>8, <1>10, <1>11, <1>12, <1>13 DEF w, b

(* c.sdsp in memory, unpacked.                                             *)
LEMMA UnpackSdsp ==
    ASSUME NEW op \in {"c.sdsp"}, NEW reg \in 0 .. 31, NEW base,
           NEW imm \in Nat, NEW f \in [16 .. 31 -> {0, 1}]
    PROVE  HalfFields(dereference_instruction(
                          InMemory(Instr(op, reg, base, imm), f)),
                      2, reg,
                      DoubleField(imm), UpperField(Bit(imm, 5), op))
  <1> DEFINE c == Funct3Of(op)
             b == reg
             e == Field(2, 1, 0, 0) ++ Field(b, 4, 0, 2)
                    ++ Field(imm, 8, 6, 7) ++ Field(imm, 5, 3, 10)
                    ++ Field(c, 2, 0, 13)
             w == dereference_instruction(InMemory(Instr(op, reg, base, imm), f))
  <1>1. w = dereference_instruction(e ++ f)
    <2>1. Encode(Instr(op, reg, base, imm)) = e
      BY DEF Instr, Encode, Load, Store, System
    <2> QED BY <2>1 DEF InMemory
  <1>2. c \in Nat /\ c < 8 /\ b \in Nat /\ b < 32
    BY Funct3Type DEF Loads, Stores, CompressedLoad, CompressedStore
  <1> HIDE DEF b, c, w
  <1>3. /\ DOMAIN e = 0 .. 15 /\ Carries(e, 2, 1, 0, 0)
        /\ Carries(e, b, 4, 0, 2) /\ Carries(e, imm, 8, 6, 7)
        /\ Carries(e, imm, 5, 3, 10) /\ Carries(e, c, 2, 0, 13)
    BY StoreDoubleStack
  <1> HIDE DEF e
  <1>4. /\ e[0] = Bit(2, 0) /\ e[1] = Bit(2, 1) /\ e[2] = Bit(b, 0)
        /\ e[3] = Bit(b, 1) /\ e[4] = Bit(b, 2) /\ e[5] = Bit(b, 3)
        /\ e[6] = Bit(b, 4) /\ e[7] = Bit(imm, 6) /\ e[8] = Bit(imm, 7)
        /\ e[9] = Bit(imm, 8) /\ e[10] = Bit(imm, 3) /\ e[11] = Bit(imm, 4)
        /\ e[12] = Bit(imm, 5) /\ e[13] = Bit(c, 0) /\ e[14] = Bit(c, 1)
        /\ e[15] = Bit(c, 2)
    BY <1>3 DEF Carries
  <1>5. \A k \in 0 .. 11 :
          Bit(imm, k) \in {0, 1} /\ Bit(b, k) \in {0, 1} /\ Bit(c, k) \in {0, 1}
    BY <1>2, BitIsBit
  <1>6. Bit(2, 0) = 0 /\ Bit(2, 1) = 1
    BY 2^0 = 1, 2^1 = 2 DEF Bit
  <1>7. \A k \in 0 .. 15 : e[k] \in {0, 1}
    BY <1>4, <1>5, <1>6, Halfword
  <1>8. HalfFields(w, e[0] + 2 * e[1],
                   e[2] + 2 * e[3] + 4 * e[4] + 8 * e[5] + 16 * e[6],
                   e[7] + 2 * e[8] + 4 * e[9] + 8 * e[10] + 16 * e[11],
                   e[12] + 2 * e[13] + 4 * e[14] + 8 * e[15])
    BY <1>1, <1>3, <1>4, <1>6, <1>7, HalfUnpacked
  <1>9. b = Low5(b) /\ c = Low3(c)
    BY <1>2, Sum
  <1>10. e[0] + 2 * e[1] = 2
    BY <1>4, <1>6
  <1>11. e[2] + 2 * e[3] + 4 * e[4] + 8 * e[5] + 16 * e[6] = b
    BY <1>2, <1>4, <1>5, <1>9 DEF Low5, WordField, DoubleField
  <1>12. e[7] + 2 * e[8] + 4 * e[9] + 8 * e[10] + 16 * e[11] = DoubleField(imm)
    BY <1>2, <1>4, <1>5, <1>9 DEF Low5, WordField, DoubleField
  <1>13. e[12] + 2 * e[13] + 4 * e[14] + 8 * e[15] = UpperField(Bit(imm, 5), op)
    <2>1. UpperField(Bit(imm, 5), op) = Bit(imm, 5) + 2 * c
      BY DEF UpperField, c
    <2> QED BY <1>2, <1>4, <1>5, <1>9, <2>1 DEF Low3
  <1> QED BY <1>8, <1>10, <1>11, <1>12, <1>13 DEF w, b

-----------------------------------------------------------------------------
(* Bits that a number cannot have: the lowest of a multiple, the upper of  *)
(* a small one.                                                            *)
LEMMA ZeroBits ==
    ASSUME NEW n \in Nat
    PROVE  /\ n % 4 = 0 => Bit(n, 0) = 0 /\ Bit(n, 1) = 0
           /\ n % 8 = 0 => Bit(n, 0) = 0 /\ Bit(n, 1) = 0 /\ Bit(n, 2) = 0
           /\ n < 128 => Bit(n, 7) = 0
           /\ n < 256 => Bit(n, 8) = 0
           /\ n < 512 => Bit(n, 9) = 0 /\ Bit(n, 10) = 0 /\ Bit(n, 11) = 0
  <1>1. n % 4 = 0 => Bit(n, 0) = 0
    BY 2^0 = 1 DEF Bit
  <1>2. n % 4 = 0 => Bit(n, 1) = 0
    BY 2^1 = 2 DEF Bit
  <1>3. n % 8 = 0 => n % 4 = 0
    OBVIOUS
  <1>4. n % 8 = 0 => Bit(n, 2) = 0
    BY 2^2 = 4 DEF Bit
  <1>5. n < 128 => Bit(n, 7) = 0
    BY 2^7 = 128 DEF Bit
  <1>6. n < 256 => Bit(n, 8) = 0
    BY 2^8 = 256 DEF Bit
  <1>7. n < 512 => Bit(n, 9) = 0
    BY 2^9 = 512 DEF Bit
  <1>8. n < 512 => Bit(n, 10) = 0
    BY 2^10 = 1024 DEF Bit
  <1>9. n < 512 => Bit(n, 11) = 0
    BY 2^11 = 2048 DEF Bit
  <1> QED BY <1>1, <1>2, <1>3, <1>4, <1>5, <1>6, <1>7, <1>8, <1>9

(* The offset of a compressed instruction is the sum of the bits that are  *)
(* encoded.                                                                *)
LEMMA OffsetSum ==
    ASSUME NEW n \in Nat, n < 512, n % 4 = 0
    PROVE  n = 4 * Bit(n, 2) + 8 * Bit(n, 3) + 16 * Bit(n, 4) + 32 * Bit(n, 5)
               + 64 * Bit(n, 6) + 128 * Bit(n, 7) + 256 * Bit(n, 8)
  <1>1. /\ Bit(n, 0) = 0 /\ Bit(n, 1) = 0
        /\ Bit(n, 9) = 0 /\ Bit(n, 10) = 0 /\ Bit(n, 11) = 0
    BY ZeroBits
  <1>2. Low5(n) = 4 * Bit(n, 2) + 8 * Bit(n, 3) + 16 * Bit(n, 4)
    BY <1>1, BitIsBit DEF Low5
  <1>3. High7(n) = Bit(n, 5) + 2 * Bit(n, 6) + 4 * Bit(n, 7) + 8 * Bit(n, 8)
    BY <1>1, BitIsBit DEF High7
  <1>4. /\ Bit(n, 2) \in Int /\ Bit(n, 3) \in Int /\ Bit(n, 4) \in Int
        /\ Bit(n, 5) \in Int /\ Bit(n, 6) \in Int /\ Bit(n, 7) \in Int
        /\ Bit(n, 8) \in Int
    BY BitIsBit
  <1>5. Low5(n) \in Int /\ High7(n) \in Int
    BY <1>2, <1>3, <1>4
  <1>6. n = Low5(n) + 32 * High7(n)
    BY <1>5, n < 4096, Sum
  <1> QED BY <1>2, <1>3, <1>4, <1>6

(* What the parsers take out of the fields.                                *)
LEMMA PrimeFieldParts ==
    ASSUME NEW r \in 0 .. 7, NEW x \in {0, 1}, NEW y \in {0, 1}
    PROVE  /\ Prime(PrimeField(r, x, y)) = r + 8
           /\ PrimeField(r, x, y) \div 8 = x + 2 * y
           /\ (PrimeField(r, x, y) \div 8) % 2 = x
           /\ PrimeField(r, x, y) \div 16 = y
  <1>1. PrimeField(r, x, y) % 8 = r
    BY DEF PrimeField
  <1>2. PrimeField(r, x, y) \div 8 = x + 2 * y
    BY DEF PrimeField
  <1>3. (x + 2 * y) % 2 = x
    OBVIOUS
  <1>4. PrimeField(r, x, y) \div 16 = y
    BY DEF PrimeField
  <1> QED BY <1>1, <1>2, <1>3, <1>4 DEF Prime

LEMMA UpperFieldParts ==
    ASSUME NEW x \in {0, 1}, NEW op, NEW c \in 0 .. 7, Funct3Of(op) = c
    PROVE  UpperField(x, op) % 2 = x /\ UpperField(x, op) \div 2 = c
  BY DEF UpperField

(* imm_unordered, ordered.                                                 *)
LEMMA StackFieldParts ==
    ASSUME NEW n \in Nat, n < 512, NEW u, u.funct4 % 2 = Bit(n, 5)
    PROVE  /\ n < 256 /\ n % 4 = 0 => StackOffset(WordField(n), u, 4) = n
           /\ n % 8 = 0 => StackOffset(DoubleField(n), u, 8) = n
  <1> DEFINE b2 == Bit(n, 2)
             b3 == Bit(n, 3)
             b4 == Bit(n, 4)
             b5 == Bit(n, 5)
             b6 == Bit(n, 6)
             b7 == Bit(n, 7)
             b8 == Bit(n, 8)
  <1>1. /\ b2 \in {0, 1} /\ b3 \in {0, 1} /\ b4 \in {0, 1} /\ b5 \in {0, 1}
        /\ b6 \in {0, 1} /\ b7 \in {0, 1} /\ b8 \in {0, 1}
    BY BitIsBit
  <1>2. n % 4 = 0 => n = 4 * b2 + 8 * b3 + 16 * b4 + 32 * b5 + 64 * b6 + 128 * b7
                         + 256 * b8
    BY OffsetSum
  <1>3. ASSUME n < 256, n % 4 = 0
        PROVE  StackOffset(WordField(n), u, 4) = n
    <2> DEFINE m == WordField(n) + 32 * b5
               lo == b6 + 2 * b7
               up == b2 + 2 * b3 + 4 * b4 + 8 * b5
    <2>1. m = lo + 4 * up
      BY <1>1 DEF WordField
    <2>2. lo \in 0 .. 3 /\ up \in 0 .. 15
      BY <1>1
    <2>3. n = 4 * up + 64 * lo
      BY <1>1, <1>2, <1>3, ZeroBits
    <2>4. StackOffset(WordField(n), u, 4) = (m \div 4) * 4 + 64 * (m % 4)
      BY DEF StackOffset
    <2> HIDE DEF m, lo, up
    <2>5. m \div 4 = up /\ m % 4 = lo
      BY <2>1, <2>2
    <2> QED BY <2>2, <2>3, <2>4, <2>5
  <1>4. ASSUME n % 8 = 0
        PROVE  StackOffset(DoubleField(n), u, 8) = n
    <2> DEFINE m == DoubleField(n) + 32 * b5
               lo == b6 + 2 * b7 + 4 * b8
               up == b3 + 2 * b4 + 4 * b5
    <2>1. m = lo + 8 * up
      BY <1>1 DEF DoubleField
    <2>2. lo \in 0 .. 7 /\ up \in 0 .. 7
      BY <1>1
    <2>3. n = 8 * up + 64 * lo
      BY <1>1, <1>2, <1>4, ZeroBits
    <2>4. StackOffset(DoubleField(n), u, 8) = (m \div 8) * 8 + 64 * (m % 8)
      BY DEF StackOffset
    <2> HIDE DEF m, lo, up
    <2>5. m \div 8 = up /\ m % 8 = lo
      BY <2>1, <2>2
    <2> QED BY <2>2, <2>3, <2>4, <2>5
  <1> QED BY <1>3, <1>4

-----------------------------------------------------------------------------
(* The width and the function code of the compressed instructions.         *)
LEMMA HalfOps ==
    ASSUME NEW op \in CompressedLoad \union CompressedStore
    PROVE  /\ SizeOf(op) = 2
           /\ Funct3Of(op) = CASE op \in {"c.lw", "c.lwsp"} -> 2
                               [] op \in {"c.ld", "c.ldsp"} -> 3
                               [] op \in {"c.sw", "c.swsp"} -> 6
                               [] op \in {"c.sd", "c.sdsp"} -> 7
           /\ WidthOf(op) = IF op \in {"c.lw", "c.sw", "c.lwsp", "c.swsp"}
                            THEN 4 ELSE 8
           /\ op \in SignExtended \ {"c.lwsp"} <=> op = "c.lw"
  BY DEF SizeOf, Funct3Of, WidthOf, CompressedLoad, CompressedStore, Byte, Half,
         Word, SignExtended

(* The offset of c.lw, c.ld, c.sw and c.sd, with the bit that goes to      *)
(* imm_2_or_7 and the word that has it, and the offset of those on the     *)
(* stack, with its field.                                                  *)
PrimeImm(op, imm, y) ==
    /\ op \in {"c.lw", "c.sw"} => imm < 128 /\ imm % 4 = 0 /\ y = Bit(imm, 2)
    /\ op \in {"c.ld", "c.sd"} => imm < 256 /\ imm % 8 = 0 /\ y = Bit(imm, 7)
PrimeWord(w, op, reg, base, imm, y) ==
    /\ op \in {"c.lw", "c.ld", "c.sw", "c.sd"}
    /\ reg \in 8 .. 15 /\ base \in 8 .. 15 /\ imm \in Nat
    /\ PrimeImm(op, imm, y)
    /\ HalfFields(w, 0, PrimeField(reg - 8, Bit(imm, 6), y),
                  PrimeField(base - 8, Bit(imm, 3), Bit(imm, 4)),
                  UpperField(Bit(imm, 5), op))
StackImm(op, imm, z) ==
    /\ op \in {"c.lwsp", "c.swsp"} =>
         imm < 256 /\ imm % 4 = 0 /\ z = WordField(imm)
    /\ op \in {"c.ldsp", "c.sdsp"} =>
         imm < 512 /\ imm % 8 = 0 /\ z = DoubleField(imm)

(* c.lw, c.ld, c.sw and c.sd.                                              *)
LEMMA PrimeParsed ==
    ASSUME NEW op, NEW reg, NEW base, NEW imm, NEW y, NEW w,
           PrimeWord(w, op, reg, base, imm, y)
    PROVE  /\ op \in Loads => parse_source_address(w) = Access(op, reg, base, imm)
           /\ op \in Stores => parse_destination_address(w) = Access(op, reg, base, imm)
  <1> USE DEF PrimeWord
  <1> DEFINE c == unpack_compressed_instruction(w)
             width == WidthOf(op)
  <1>1. /\ Compressed(w) /\ c.opcode = 0
        /\ c.rs2 = PrimeField(reg - 8, Bit(imm, 6), y)
        /\ c.rs1 = PrimeField(base - 8, Bit(imm, 3), Bit(imm, 4))
        /\ c.funct4 = UpperField(Bit(imm, 5), op)
    BY DEF HalfFields, unpack_compressed_instruction
  <1>2. /\ Bit(imm, 2) \in {0, 1} /\ Bit(imm, 3) \in {0, 1} /\ Bit(imm, 4) \in {0, 1}
        /\ Bit(imm, 5) \in {0, 1} /\ Bit(imm, 6) \in {0, 1} /\ Bit(imm, 7) \in {0, 1}
    BY BitIsBit
  <1>3. y \in {0, 1}
    BY <1>2 DEF PrimeImm
  <1>4. op \in CompressedLoad \union CompressedStore
    BY DEF CompressedLoad, CompressedStore
  <1>5. /\ SizeOf(op) = 2
        /\ op = "c.lw" => Funct3Of(op) = 2 /\ width = 4
        /\ op = "c.ld" => Funct3Of(op) = 3 /\ width = 8
        /\ op = "c.sw" => Funct3Of(op) = 6 /\ width = 4
        /\ op = "c.sd" => Funct3Of(op) = 7 /\ width = 8
    BY <1>4, HalfOps
  <1>6. Funct3Of(op) \in 0 .. 7
    BY <1>5
  <1> HIDE DEF c
  <1>7. c.funct4 % 2 = Bit(imm, 5) /\ Funct3(c) = Funct3Of(op)
    BY <1>1, <1>2, <1>6, UpperFieldParts DEF Funct3
  <1>8. reg - 8 \in 0 .. 7 /\ base - 8 \in 0 .. 7
    OBVIOUS
  <1>9. /\ Prime(c.rs2) = reg /\ (c.rs2 \div 8) % 2 = Bit(imm, 6)
        /\ c.rs2 \div 16 = y
    BY <1>1, <1>2, <1>3, <1>8, PrimeFieldParts
  <1>10. /\ Prime(c.rs1) = base
         /\ c.rs1 \div 8 = Bit(imm, 3) + 2 * Bit(imm, 4)
    BY <1>1, <1>2, <1>8, PrimeFieldParts
  <1>11. PrimeOffset(c, width) = imm
    <2>1. PrimeOffset(c, width)
            = 32 * Bit(imm, 5) + 8 * (Bit(imm, 3) + 2 * Bit(imm, 4))
              + 64 * Bit(imm, 6) + (IF width = 4 THEN 4 ELSE 128) * y
      BY <1>7, <1>9, <1>10 DEF PrimeOffset
    <2>2. imm % 4 = 0 /\ imm < 512
      BY DEF PrimeImm
    <2>3. imm = 4 * Bit(imm, 2) + 8 * Bit(imm, 3) + 16 * Bit(imm, 4)
                + 32 * Bit(imm, 5) + 64 * Bit(imm, 6) + 128 * Bit(imm, 7)
                + 256 * Bit(imm, 8)
      BY <2>2, OffsetSum
    <2>4. CASE op \in {"c.lw", "c.sw"}
      <3>1. width = 4 /\ y = Bit(imm, 2)
        BY <1>5, <2>4 DEF PrimeImm
      <3>2. Bit(imm, 7) = 0 /\ Bit(imm, 8) = 0
        BY <2>4, ZeroBits DEF PrimeImm
      <3> QED BY <1>2, <2>1, <2>3, <3>1, <3>2
    <2>5. CASE op \in {"c.ld", "c.sd"}
      <3>1. width = 8 /\ y = Bit(imm, 7)
        BY <1>5, <2>5 DEF PrimeImm
      <3>2. Bit(imm, 2) = 0 /\ Bit(imm, 8) = 0
        BY <2>5, ZeroBits DEF PrimeImm
      <3> QED BY <1>2, <2>1, <2>3, <3>1, <3>2
    <2> QED BY <2>4, <2>5
  <1>12. ASSUME op \in Loads
         PROVE  parse_source_address(w) = Access(op, reg, base, imm)
    <2>1. op = "c.lw" \/ op = "c.ld"
      BY <1>12 DEF Loads, Load, CompressedLoad
    <2>2. /\ Funct3(c) \in {2, 3} /\ width = IF Funct3(c) = 2 THEN 4 ELSE 8
          /\ Funct3(c) = 2 <=> op = "c.lw"
      BY <1>5, <1>7, <2>1
    <2>3. parse_source_address(w)
            = MemoryAccess(base, imm, width, reg, Funct3(c) = 2, 2)
      <3>1. parse_source_address(w)
              = MemoryAccess(Prime(c.rs1), PrimeOffset(c, width), width,
                             Prime(c.rs2), Funct3(c) = 2, 2)
        <4> HIDE DEF width
        <4> QED BY <1>1, <2>2 DEF parse_source_address, c
      <3> QED BY <1>9, <1>10, <1>11, <3>1
    <2>4. (op \in SignExtended \ {"c.lwsp"}) = (Funct3(c) = 2)
      BY <1>4, <2>2, HalfOps
    <2> QED BY <1>5, <2>3, <2>4 DEF Access
  <1>13. ASSUME op \in Stores
         PROVE  parse_destination_address(w) = Access(op, reg, base, imm)
    <2>1. op = "c.sw" \/ op = "c.sd"
      BY <1>13 DEF Stores, Store, CompressedStore
    <2>2. Funct3(c) \in {6, 7} /\ width = IF Funct3(c) = 6 THEN 4 ELSE 8
      BY <1>5, <1>7, <2>1
    <2>3. parse_destination_address(w)
            = MemoryAccess(base, imm, width, reg, FALSE, 2)
      <3>1. parse_destination_address(w)
              = MemoryAccess(Prime(c.rs1), PrimeOffset(c, width), width,
                             Prime(c.rs2), FALSE, 2)
        <4> HIDE DEF width
        <4> QED BY <1>1, <2>2 DEF parse_destination_address, c
      <3> QED BY <1>9, <1>10, <1>11, <3>1
    <2>4. (op \in SignExtended \ {"c.lwsp"}) = FALSE
      BY <1>4, <2>1, HalfOps
    <2> QED BY <1>5, <2>3, <2>4 DEF Access
  <1> QED BY <1>12, <1>13

(* c.lwsp, c.ldsp, c.swsp and c.sdsp.                                      *)
LEMMA StackParsed ==
    ASSUME NEW op \in OnStack, NEW reg \in 0 .. 31, NEW imm \in Nat, NEW z,
           StackImm(op, imm, z), NEW w,
           op \in {"c.lwsp", "c.ldsp"} =>
             HalfFields(w, 2, z, reg, UpperField(Bit(imm, 5), op)),
           op \in {"c.swsp", "c.sdsp"} =>
             HalfFields(w, 2, reg, z, UpperField(Bit(imm, 5), op))
    PROVE  /\ op \in Loads => parse_source_address(w) = Access(op, reg, 2, imm)
           /\ op \in Stores => parse_destination_address(w) = Access(op, reg, 2, imm)
  <1> DEFINE c == unpack_compressed_instruction(w)
             width == WidthOf(op)
  <1>1. op = "c.lwsp" \/ op = "c.ldsp" \/ op = "c.swsp" \/ op = "c.sdsp"
    BY DEF OnStack
  <1>2. op \in CompressedLoad \union CompressedStore
    BY <1>1 DEF CompressedLoad, CompressedStore
  <1>3. /\ SizeOf(op) = 2
        /\ op = "c.lwsp" => Funct3Of(op) = 2 /\ width = 4
        /\ op = "c.ldsp" => Funct3Of(op) = 3 /\ width = 8
        /\ op = "c.swsp" => Funct3Of(op) = 6 /\ width = 4
        /\ op = "c.sdsp" => Funct3Of(op) = 7 /\ width = 8
    BY <1>2, HalfOps
  <1>4. Funct3Of(op) \in 0 .. 7
    BY <1>1, <1>3
  <1>5. /\ Compressed(w) /\ c.opcode = 2
        /\ c.funct4 = UpperField(Bit(imm, 5), op)
        /\ op \in {"c.lwsp", "c.ldsp"} => c.rs2 = z /\ c.rs1 = reg
        /\ op \in {"c.swsp", "c.sdsp"} => c.rs1 = z /\ c.rs2 = reg
    BY <1>1 DEF HalfFields, unpack_compressed_instruction
  <1>6. Bit(imm, 5) \in {0, 1}
    BY BitIsBit
  <1> HIDE DEF c
  <1>7. c.funct4 % 2 = Bit(imm, 5) /\ Funct3(c) = Funct3Of(op)
    BY <1>4, <1>5, <1>6, UpperFieldParts DEF Funct3
  <1>8. StackOffset(z, c, width) = imm
    <2>1. CASE op \in {"c.lwsp", "c.swsp"}
      <3>1. width = 4 /\ z = WordField(imm) /\ imm < 512
        BY <1>3, <2>1 DEF StackImm
      <3>2. StackOffset(WordField(imm), c, 4) = imm
        BY <1>7, <2>1, <3>1, StackFieldParts DEF StackImm
      <3> QED BY <3>1, <3>2
    <2>2. CASE op \in {"c.ldsp", "c.sdsp"}
      <3>1. width = 8 /\ z = DoubleField(imm) /\ imm < 512
        BY <1>3, <2>2 DEF StackImm
      <3>2. StackOffset(DoubleField(imm), c, 8) = imm
        BY <1>7, <2>2, <3>1, StackFieldParts DEF StackImm
      <3> QED BY <3>1, <3>2
    <2> QED BY <1>1, <2>1, <2>2
  <1>9. ASSUME op \in Loads
        PROVE  parse_source_address(w) = Access(op, reg, 2, imm)
    <2>1. op = "c.lwsp" \/ op = "c.ldsp"
      BY <1>1, <1>9 DEF Loads, Load, CompressedLoad
    <2>2. Funct3(c) \in {2, 3} /\ width = IF Funct3(c) = 2 THEN 4 ELSE 8
      BY <1>3, <1>7, <2>1
    <2>3. parse_source_address(w)
            = MemoryAccess(2, StackOffset(c.rs2, c, width), width, c.rs1, FALSE, 2)
      <3> HIDE DEF width
      <3> QED BY <1>5, <2>2 DEF parse_source_address, c
    <2>4. (op \in SignExtended \ {"c.lwsp"}) = FALSE
      BY <1>2, <2>1, HalfOps
    <2> QED BY <1>3, <1>5, <1>8, <2>1, <2>3, <2>4 DEF Access
  <1>10. ASSUME op \in Stores
         PROVE  parse_destination_address(w) = Access(op, reg, 2, imm)
    <2>1. op = "c.swsp" \/ op = "c.sdsp"
      BY <1>1, <1>10 DEF Stores, Store, CompressedStore
    <2>2. Funct3(c) \in {6, 7} /\ width = IF Funct3(c) = 6 THEN 4 ELSE 8
      BY <1>3, <1>7, <2>1
    <2>3. parse_destination_address(w)
            = MemoryAccess(2, StackOffset(c.rs1, c, width), width, c.rs2, FALSE, 2)
      <3> HIDE DEF width
      <3> QED BY <1>5, <2>2 DEF parse_destination_address, c
    <2>4. (op \in SignExtended \ {"c.lwsp"}) = FALSE
      BY <1>2, <2>1, HalfOps
    <2> QED BY <1>3, <1>5, <1>8, <2>1, <2>3, <2>4 DEF Access
  <1> QED BY <1>9, <1>10

-----------------------------------------------------------------------------
(* Every instruction of the ISA, whatever follows it in memory, is decoded *)
(* to what it is.                                                          *)
LEMMA Decodes ==
    ASSUME NEW i \in AllInstructions, NEW f \in [16 .. 31 -> {0, 1}]
    PROVE  LET w == dereference_instruction(InMemory(i, f))
           IN  /\ i.op \in Loads =>
                    parse_source_address(w) = Access(i.op, i.reg, i.base, i.imm)
               /\ i.op \in Stores =>
                    parse_destination_address(w) = Access(i.op, i.reg, i.base, i.imm)
               /\ i.op \in System =>
                    handle_illegal_instruction(w) = Handled(i.op, i.reg, i.base, i.imm)
  <1> DEFINE op == i.op
             reg == i.reg
             base == i.base
             imm == i.imm
             w == dereference_instruction(InMemory(Instr(op, reg, base, imm), f))
  <1>1. i = Instr(op, reg, base, imm)
    BY DEF AllInstructions, Instruction, Instr
  <1>2. CASE op \in Load \union Store \union System
    <2>1. reg \in 0 .. 31 /\ base \in 0 .. 31
      BY <1>2, WordOperands, SystemOperands DEF Registers
    <2>2. op \in Load \union Store => Imm12(imm)
      BY TwelveBits
    <2>3. op \in System => Uimm12(imm)
      BY TwelveBits
    <2>4. /\ op = "mret" => reg = 0 /\ base = 0 /\ imm = 770
          /\ op = "sret" => imm = 258
          /\ op = "wfi" => reg = 0 /\ base = 0 /\ imm = 261
          /\ op = "sfence.vma" => reg = 0 /\ 288 <= imm /\ imm <= 319
          /\ op = "hfence.vvma" => 544 <= imm /\ imm <= 575
      <3>1. /\ op = "sfence.vma" => 288 <= imm /\ imm <= 319
            /\ op = "hfence.vvma" => 544 <= imm /\ imm <= 575
        <4> DEFINE fences == 288 .. 319
                   hfences == 544 .. 575
        <4>1. /\ op = "sfence.vma" => imm \in fences
              /\ op = "hfence.vvma" => imm \in hfences
          BY SystemOperands
        <4>2. /\ \A n \in fences : 288 <= n /\ n <= 319
              /\ \A n \in hfences : 544 <= n /\ n <= 575
          OBVIOUS
        <4> HIDE DEF fences, hfences, op, imm
        <4> QED BY <4>1, <4>2
      <3> QED BY <3>1, SystemOperands
    <2> HIDE DEF op, reg, base, imm
    <2>5. CASE op \in Load
      <3>1. IWord(w, op, reg, base, imm)
        BY <2>1, <2>2, <2>5, UnpackI
      <3>2. parse_source_address(w) = Access(op, reg, base, imm)
        BY <2>2, <2>5, <3>1, LoadParsed
      <3>3. op \notin Stores /\ op \notin System
        BY <2>5 DEF Load, Stores, Store, CompressedStore, System
      <3> QED BY <1>1, <3>2, <3>3 DEF op, reg, base, imm
    <2>6. CASE op \in Store
      <3>1. SWord(w, op, reg, base, imm)
        BY <2>1, <2>2, <2>6, UnpackS
      <3>2. parse_destination_address(w) = Access(op, reg, base, imm)
        BY <2>2, <2>6, <3>1, StoreParsed
      <3>3. op \notin Loads /\ op \notin System
        BY <2>6 DEF Store, Loads, Load, CompressedLoad, System
      <3> QED BY <1>1, <3>2, <3>3 DEF op, reg, base, imm
    <2>7. CASE op \in System
      <3>1. IWord(w, op, reg, base, imm)
        BY <2>1, <2>3, <2>7, UnpackI
      <3>2. handle_illegal_instruction(w) = Handled(op, reg, base, imm)
        BY <2>3, <2>4, <2>7, <3>1, SystemParsed
      <3>3. op \notin Loads /\ op \notin Stores
        BY <2>7 DEF System, Loads, Load, CompressedLoad, Stores, Store,
                    CompressedStore
      <3> QED BY <1>1, <3>2, <3>3 DEF op, reg, base, imm
    <2> QED BY <1>2, <2>5, <2>6, <2>7 DEF op
  <1>3. CASE op \in {"c.lw", "c.sw"}
    <2>1. /\ reg \in 8 .. 15 /\ base \in 8 .. 15 /\ imm \in Nat
          /\ imm < 128 /\ imm % 4 = 0
      <3>1. /\ reg \in 8 .. 15 /\ base \in 8 .. 15
            /\ imm \in Multiples(4, 128)
        BY <1>3, HalfOperands
      <3>2. \A n \in Multiples(4, 128) : n \in Nat /\ n < 128 /\ n % 4 = 0
        BY DEF Multiples
      <3> HIDE DEF reg, base, imm
      <3> QED BY <3>1, <3>2
    <2>2. op \notin System
      BY <1>3 DEF System
    <2> HIDE DEF op, reg, base, imm
    <2>3. HalfFields(w, 0, PrimeField(reg - 8, Bit(imm, 6), Bit(imm, 2)),
                     PrimeField(base - 8, Bit(imm, 3), Bit(imm, 4)),
                     UpperField(Bit(imm, 5), op))
      BY <1>3, <2>1, UnpackWord
    <2> HIDE DEF w
    <2>4. op \in {"c.lw", "c.ld", "c.sw", "c.sd"} /\ PrimeImm(op, imm, Bit(imm, 2))
      BY <1>3, <2>1 DEF PrimeImm
    <2>5. PrimeWord(w, op, reg, base, imm, Bit(imm, 2))
      BY <2>1, <2>3, <2>4 DEF PrimeWord
    <2>6. /\ op \in Loads => parse_source_address(w) = Access(op, reg, base, imm)
          /\ op \in Stores => parse_destination_address(w) = Access(op, reg, base, imm)
      BY <2>5, PrimeParsed
    <2> QED BY <1>1, <2>2, <2>6 DEF w, op, reg, base, imm
  <1>4. CASE op \in {"c.ld", "c.sd"}
    <2>1. /\ reg \in 8 .. 15 /\ base \in 8 .. 15 /\ imm \in Nat
          /\ imm < 256 /\ imm % 8 = 0
      <3>1. /\ reg \in 8 .. 15 /\ base \in 8 .. 15
            /\ imm \in Multiples(8, 256)
        BY <1>4, HalfOperands
      <3>2. \A n \in Multiples(8, 256) : n \in Nat /\ n < 256 /\ n % 8 = 0
        BY DEF Multiples
      <3> HIDE DEF reg, base, imm
      <3> QED BY <3>1, <3>2
    <2>2. op \notin System
      BY <1>4 DEF System
    <2> HIDE DEF op, reg, base, imm
    <2>3. HalfFields(w, 0, PrimeField(reg - 8, Bit(imm, 6), Bit(imm, 7)),
                     PrimeField(base - 8, Bit(imm, 3), Bit(imm, 4)),
                     UpperField(Bit(imm, 5), op))
      BY <1>4, <2>1, UnpackDouble
    <2> HIDE DEF w
    <2>4. op \in {"c.lw", "c.ld", "c.sw", "c.sd"} /\ PrimeImm(op, imm, Bit(imm, 7))
      BY <1>4, <2>1 DEF PrimeImm
    <2>5. PrimeWord(w, op, reg, base, imm, Bit(imm, 7))
      BY <2>1, <2>3, <2>4 DEF PrimeWord
    <2>6. /\ op \in Loads => parse_source_address(w) = Access(op, reg, base, imm)
          /\ op \in Stores => parse_destination_address(w) = Access(op, reg, base, imm)
      BY <2>5, PrimeParsed
    <2> QED BY <1>1, <2>2, <2>6 DEF w, op, reg, base, imm
  <1>5. CASE op \in OnStack
    <2>1. reg \in 0 .. 31 /\ base = 2
      BY <1>5, HalfOperands DEF OnStack, Registers
    <2>2. /\ imm \in Nat
          /\ op \in {"c.lwsp", "c.swsp"} => imm < 256 /\ imm % 4 = 0
          /\ op \in {"c.ldsp", "c.sdsp"} => imm < 512 /\ imm % 8 = 0
      <3>1. /\ op \in {"c.lwsp", "c.swsp"} => imm \in Multiples(4, 256)
            /\ op \in {"c.ldsp", "c.sdsp"} => imm \in Multiples(8, 512)
        BY HalfOperands
      <3>2. /\ \A n \in Multiples(4, 256) : n \in Nat /\ n < 256 /\ n % 4 = 0
            /\ \A n \in Multiples(8, 512) : n \in Nat /\ n < 512 /\ n % 8 = 0
        BY DEF Multiples
      <3> HIDE DEF op, imm
      <3> QED BY <1>5, <3>1, <3>2 DEF OnStack
    <2>3. op \notin System
      BY <1>5 DEF System, OnStack
    <2> HIDE DEF op, reg, base, imm
    <2> DEFINE z == IF op \in {"c.lwsp", "c.swsp"} THEN WordField(imm)
                                                   ELSE DoubleField(imm)
    <2>4. /\ op = "c.lwsp" => HalfFields(w, 2, z, reg, UpperField(Bit(imm, 5), op))
          /\ op = "c.ldsp" => HalfFields(w, 2, z, reg, UpperField(Bit(imm, 5), op))
          /\ op = "c.swsp" => HalfFields(w, 2, reg, z, UpperField(Bit(imm, 5), op))
          /\ op = "c.sdsp" => HalfFields(w, 2, reg, z, UpperField(Bit(imm, 5), op))
      BY <2>1, <2>2, UnpackLwsp, UnpackLdsp, UnpackSwsp, UnpackSdsp
    <2>5. /\ StackImm(op, imm, z)
          /\ op \in {"c.lwsp", "c.ldsp"} =>
               HalfFields(w, 2, z, reg, UpperField(Bit(imm, 5), op))
          /\ op \in {"c.swsp", "c.sdsp"} =>
               HalfFields(w, 2, reg, z, UpperField(Bit(imm, 5), op))
      BY <2>2, <2>4 DEF StackImm
    <2> HIDE DEF w, z
    <2>6. /\ op \in Loads => parse_source_address(w) = Access(op, reg, 2, imm)
          /\ op \in Stores => parse_destination_address(w) = Access(op, reg, 2, imm)
      BY <1>5, <2>1, <2>2, <2>5, StackParsed
    <2> QED BY <1>1, <2>1, <2>3, <2>6 DEF w, op, reg, base, imm
  <1>6. op \in Load \union Store \union System \union {"c.lw", "c.sw"}
               \union {"c.ld", "c.sd"} \union OnStack
    BY DEF AllInstructions, Instruction, CsrOps, Load, Store, System, OnStack
  <1> QED BY <1>2, <1>3, <1>4, <1>5, <1>6

-----------------------------------------------------------------------------
(* What the decoding of an instruction should give.                        *)
Meaning(i) ==
    IF i.op \in System THEN Handled(i.op, i.reg, i.base, i.imm)
                       ELSE Access(i.op, i.reg, i.base, i.imm)

(* The inductive invariant: memory holds the instruction all along, what   *)
(* is decoded is its meaning, and a load that is done has left its result. *)
Inv ==
    /\ phase \in {"trapped", "parsed", "done"}
    /\ instr \in AllInstructions
    /\ register \in Register
    /\ loaded \in Register
    /\ \E f \in [16 .. 31 -> {0, 1}] : memory = InMemory(instr, f)
    /\ phase # "trapped" => decoded = Meaning(instr)
    /\ LoadExtends

(* An instruction is a load, a store or a system instruction.              *)
LEMMA Kinds ==
    ASSUME NEW i \in AllInstructions
    PROVE  /\ i.op \in Loads \union Stores \union System
           /\ i.op \in Loads => i.op \notin Stores
           /\ i.op \in Loads \union Stores => i.op \notin System
  BY DEF AllInstructions, Instruction, CsrOps, Loads, Stores, Load, Store,
         CompressedLoad, CompressedStore, System

(* The load of a device's bytes, of the width and the sign of the          *)
(* instruction, gives the result of the instruction.                       *)
LEMMA Extended ==
    ASSUME NEW op \in Loads, op # "c.lwsp", NEW reg \in Register,
           NEW bytes \in Register
    PROVE  LET width == WidthOf(op)
               signed == op \in SignExtended \ {"c.lwsp"}
           IN  reset_upper_bits(virtual_mmdev_load(reg, bytes, width), width, signed)
                 = LoadResult(op, bytes)
  <1> DEFINE width == WidthOf(op)
             signed == op \in SignExtended \ {"c.lwsp"}
             new == virtual_mmdev_load(reg, bytes, width)
  <1>1. width \in {1, 2, 4, 8}
    BY DEF WidthOf
  <1>2. width \in Int /\ 1 <= width /\ width <= 8
    BY <1>1
  <1>3. signed <=> op \in SignExtended
    OBVIOUS
  <1> HIDE DEF width, signed
  <1>4. \A i \in 0 .. 7 : i < width => new[i] = bytes[i]
    BY <1>2 DEF virtual_mmdev_load
  <1>5. width - 1 \in 0 .. 7 /\ width - 1 < width
    BY <1>2
  <1>6. new[width - 1] = bytes[width - 1]
    BY <1>4, <1>5
  <1> HIDE DEF new
  <1>7. \A i \in 0 .. 7 :
          (IF i < width THEN new[i]
           ELSE IF signed /\ new[width - 1] >= 128 THEN 255 ELSE 0)
            = (IF i < width THEN bytes[i]
               ELSE IF op \in SignExtended /\ bytes[width - 1] >= 128 THEN 255 ELSE 0)
    BY <1>3, <1>4, <1>6
  <1>8. reset_upper_bits(new, width, signed)
          = [i \in 0 .. 7 |->
               IF i < width THEN bytes[i]
               ELSE IF op \in SignExtended /\ bytes[width - 1] >= 128 THEN 255 ELSE 0]
    BY <1>7 DEF reset_upper_bits
  <1> QED BY <1>8 DEF LoadResult, width, signed, new

(* A result is a register again.                                           *)
LEMMA ResetType ==
    ASSUME NEW reg \in Register, NEW bytes \in Register, NEW width, NEW signed
    PROVE  reset_upper_bits(virtual_mmdev_load(reg, bytes, width), width, signed)
             \in Register
  <1>1. virtual_mmdev_load(reg, bytes, width) \in Register
    BY DEF virtual_mmdev_load, Register
  <1> DEFINE new == virtual_mmdev_load(reg, bytes, width)
  <1> HIDE DEF new
  <1>2. \A i \in 0 .. 7 : new[i] \in 0 .. 255
    BY <1>1 DEF Register, new
  <1>3. reset_upper_bits(new, width, signed) \in [0 .. 7 -> 0 .. 255]
    BY <1>2, 0 \in 0 .. 255, 255 \in 0 .. 255, Zenon DEF reset_upper_bits
  <1> QED BY <1>3 DEF Register, new

LEMMA InvInit == Init => Inv
  BY DecodeAssumption DEF Init, Inv, LoadExtends

LEMMA InvNext == Inv /\ [Next]_vars => Inv'
  <1> SUFFICES ASSUME Inv, [Next]_vars
               PROVE  Inv'
    OBVIOUS
  <1>1. CASE Parse
    <2>1. /\ phase' = "parsed"
          /\ UNCHANGED <<instr, memory, register, loaded>>
      BY <1>1 DEF Parse
    <2>2. PICK f \in [16 .. 31 -> {0, 1}] : memory = InMemory(instr, f)
      BY DEF Inv
    <2>3. instr \in AllInstructions
      BY DEF Inv
    <2> DEFINE w == dereference_instruction(memory)
    <2>4. decoded' = CASE instr.op \in Loads -> parse_source_address(w)
                       [] instr.op \in Stores -> parse_destination_address(w)
                       [] instr.op \in System -> handle_illegal_instruction(w)
      BY <1>1 DEF Parse
    <2>5. /\ instr.op \in Loads =>
               parse_source_address(w)
                 = Access(instr.op, instr.reg, instr.base, instr.imm)
          /\ instr.op \in Stores =>
               parse_destination_address(w)
                 = Access(instr.op, instr.reg, instr.base, instr.imm)
          /\ instr.op \in System =>
               handle_illegal_instruction(w)
                 = Handled(instr.op, instr.reg, instr.base, instr.imm)
      BY <2>2, <2>3, Decodes
    <2> HIDE DEF w
    <2>6. decoded' = Meaning(instr)
      BY <2>3, <2>4, <2>5, Kinds DEF Meaning
    <2> QED BY <2>1, <2>6 DEF Inv, LoadExtends
  <1>2. CASE EmulateLoad
    <2>1. /\ phase = "parsed" /\ instr.op \in Loads /\ phase' = "done"
          /\ UNCHANGED <<instr, memory, decoded, loaded>>
      BY <1>2 DEF EmulateLoad
    <2>2. decoded = Access(instr.op, instr.reg, instr.base, instr.imm)
      BY <2>1, Kinds DEF Inv, Meaning
    <2>3. /\ decoded.reg = instr.reg /\ decoded.width = WidthOf(instr.op)
          /\ decoded.signed = (instr.op \in SignExtended \ {"c.lwsp"})
      BY <2>2 DEF Access, MemoryAccess
    <2>4. register' =
            IF instr.reg = 0 THEN register
            ELSE reset_upper_bits(
                     virtual_mmdev_load(register, loaded, WidthOf(instr.op)),
                     WidthOf(instr.op), instr.op \in SignExtended \ {"c.lwsp"})
      BY <1>2, <2>3 DEF EmulateLoad
    <2>5. register' \in Register
      BY <2>4, ResetType DEF Inv
    <2>6. LoadExtends'
      BY <2>1, <2>4, Extended DEF Inv, LoadExtends
    <2> QED BY <2>1, <2>5, <2>6 DEF Inv
  <1>3. CASE UNCHANGED vars
    BY <1>3 DEF vars, Inv, LoadExtends
  <1> QED BY <1>1, <1>2, <1>3 DEF Next

LEMMA Invariance == Spec => []Inv
  BY InvInit, InvNext, PTL DEF Spec

-----------------------------------------------------------------------------
(* Every integer load and store, compressed ones included, with any        *)
(* registers and offset and with any bytes behind it, is decoded by        *)
(* parse_source_address and parse_destination_address to its address,      *)
(* width, register and length.                                             *)
THEOREM AccessDecodedHolds == Spec => []AccessDecoded
  <1>1. Inv => AccessDecoded
    <2> SUFFICES ASSUME Inv, phase = "parsed", instr.op \in Loads \union Stores
                 PROVE  /\ decoded # Unknown
                        /\ decoded.base = IF instr.op \in OnStack THEN 2 ELSE instr.base
                        /\ decoded.imm = instr.imm
                        /\ decoded.width = WidthOf(instr.op)
                        /\ decoded.reg = instr.reg
                        /\ decoded.advance = SizeOf(instr.op)
      BY DEF AccessDecoded
    <2>1. instr \in AllInstructions /\ decoded = Meaning(instr)
      BY DEF Inv
    <2>2. decoded = MemoryAccess(instr.base, instr.imm, WidthOf(instr.op), instr.reg,
                                 instr.op \in SignExtended \ {"c.lwsp"},
                                 SizeOf(instr.op))
      BY <2>1, Kinds DEF Meaning, Access
    <2>3. instr.op \in OnStack => instr.base = 2
      BY <2>1, HalfOperands DEF OnStack
    <2>4. decoded # Unknown
      BY <2>2 DEF MemoryAccess, Unknown
    <2> QED BY <2>2, <2>3, <2>4 DEF MemoryAccess
  <1> QED BY <1>1, Invariance, PTL

(* handle_guest_exception finds exactly the system instructions it         *)
(* emulates, with their operands, among all system instructions.           *)
THEOREM SystemDecodedHolds == Spec => []SystemDecoded
  <1>1. Inv => SystemDecoded
    BY DEF Inv, SystemDecoded, Meaning, Handled, Emulated
  <1> QED BY <1>1, Invariance, PTL

(* The register that an emulated load leaves, for every load but c.lwsp    *)
(* and whatever the register and the device held: reset_upper_bits.        *)
THEOREM LoadExtendsHolds == Spec => []LoadExtends
  <1>1. Inv => LoadExtends
    BY DEF Inv
  <1> QED BY <1>1, Invariance, PTL
=============================================================================
