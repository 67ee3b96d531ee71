---------------------------- MODULE Compressed ----------------------------
(***************************************************************************)
(* The 16-bit instructions of the 64-bit interpreter.  Each is modelled by *)
(* the base instruction it performs, with the registers and the immediate  *)
(* the code extracts (the three C_QUADRANT blocks), or as illegal; and the *)
(* control-flow class reported for an indirect jump.                       *)
(***************************************************************************)
EXTENDS Integers, Sequences, FiniteSets, FiniteSetsExt

Bits(insn, low, n) == (insn \div 2^low) % 2^n

\* Bits of insn starting at src, moved to positions dst..max.
get_field1(insn, src, dst, max) == Bits(insn, src, max - dst + 1) * 2^dst

sext(val, n) == IF val % 2^n >= 2^(n - 1) THEN (val % 2^n) - 2^n ELSE val % 2^n

\* The OR of fields at disjoint positions; a field is <<src, dst, max>>.
Fields(insn, fs) == FoldSet(LAMBDA f, acc : acc + get_field1(insn, f[1], f[2], f[3]), 0, fs)

Imm6 == {<<12, 5, 5>>, <<2, 0, 4>>}
ImmAddi4spn == {<<11, 4, 5>>, <<7, 6, 9>>, <<6, 2, 2>>, <<5, 3, 3>>}
ImmWord == {<<10, 3, 5>>, <<6, 2, 2>>, <<5, 6, 6>>}
ImmDouble == {<<10, 3, 5>>, <<5, 6, 7>>}
ImmAddi16sp == {<<12, 9, 9>>, <<6, 4, 4>>, <<5, 6, 6>>, <<3, 7, 8>>, <<2, 5, 5>>}
ImmLui == {<<12, 17, 17>>, <<2, 12, 16>>}
\* Mutant: one field of c.j lands on another's bit.
MutImmJump == {<<12, 11, 11>>, <<11, 4, 4>>, <<9, 8, 9>>, <<8, 10, 10>>, <<7, 6, 6>>, <<6, 5, 5>>, <<3, 1, 3>>, <<2, 5, 5>>}
ImmJump == {<<12, 11, 11>>, <<11, 4, 4>>, <<9, 8, 9>>, <<8, 10, 10>>, <<7, 6, 6>>, <<6, 7, 7>>, <<3, 1, 3>>, <<2, 5, 5>>}
ImmBranch == {<<12, 8, 8>>, <<10, 3, 4>>, <<5, 6, 7>>, <<3, 1, 2>>, <<2, 5, 5>>}
\* (rs2 & (7 << 2)) and (rs2 & (3 << 3)) are the fields <<4, 2, 4>> and <<5, 3, 4>>.
ImmLwsp == {<<12, 5, 5>>, <<4, 2, 4>>, <<2, 6, 7>>}
ImmLdsp == {<<12, 5, 5>>, <<5, 3, 4>>, <<2, 6, 8>>}
ImmSwsp == {<<9, 2, 5>>, <<7, 6, 7>>}
ImmSdsp == {<<10, 3, 5>>, <<7, 6, 8>>}

I(op, rd, rs1, rs2, imm) == [op |-> op, rd |-> rd, rs1 |-> rs1, rs2 |-> rs2, imm |-> imm]

IllegalInsn == I("illegal", 0, 0, 0, 0)

\* Mutant: fs is not looked at.
MutIfFs(fs, insn) == insn

\* The floating-point loads and stores need fs /= 0.
IfFs(fs, insn) == IF fs = 0 THEN IllegalInsn ELSE insn

Quadrant0(insn, fs) ==
    LET rd == 8 + Bits(insn, 2, 3)
        rs1 == 8 + Bits(insn, 7, 3)
        imm == Fields(insn, ImmAddi4spn)
        word == Fields(insn, ImmWord)
        double == Fields(insn, ImmDouble)
    IN  CASE Bits(insn, 13, 3) = 0 -> IF imm = 0 THEN IllegalInsn ELSE I("addi", rd, 2, 0, imm)
          [] Bits(insn, 13, 3) = 1 -> IfFs(fs, I("fld", rd, rs1, 0, double))
          [] Bits(insn, 13, 3) = 2 -> I("lw", rd, rs1, 0, word)
          [] Bits(insn, 13, 3) = 3 -> I("ld", rd, rs1, 0, double)
          [] Bits(insn, 13, 3) = 5 -> IfFs(fs, I("fsd", 0, rs1, rd, double))
          [] Bits(insn, 13, 3) = 6 -> I("sw", 0, rs1, rd, word)
          [] Bits(insn, 13, 3) = 7 -> I("sd", 0, rs1, rd, double)
          [] OTHER -> IllegalInsn

\* The arithmetic group of quadrant 1 (funct3 = 4).
Quadrant1Arith(insn) ==
    LET rd == 8 + Bits(insn, 7, 3)
        rs2 == 8 + Bits(insn, 2, 3)
        sub == Bits(insn, 5, 2) + 4 * Bits(insn, 12, 1)
    IN  CASE Bits(insn, 10, 2) = 0 -> I("srli", rd, rd, 0, Fields(insn, Imm6))
          [] Bits(insn, 10, 2) = 1 -> I("srai", rd, rd, 0, Fields(insn, Imm6))
          [] Bits(insn, 10, 2) = 2 -> I("andi", rd, rd, 0, sext(Fields(insn, Imm6), 6))
          [] OTHER -> IF sub \in 0..5
                      THEN I(<<"sub", "xor", "or", "and", "subw", "addw">>[sub + 1], rd, rd, rs2, 0)
                      ELSE IllegalInsn

Quadrant1(insn, fs) ==
    LET rd == Bits(insn, 7, 5)
        rs1 == 8 + Bits(insn, 7, 3)
        imm == sext(Fields(insn, Imm6), 6)
        imm16sp == sext(Fields(insn, ImmAddi16sp), 10)
        immlui == sext(Fields(insn, ImmLui), 18)
    IN  CASE Bits(insn, 13, 3) = 0 -> I("addi", rd, rd, 0, imm)
          [] Bits(insn, 13, 3) = 1 -> IF rd = 0 THEN IllegalInsn ELSE I("addiw", rd, rd, 0, imm)
          [] Bits(insn, 13, 3) = 2 -> I("addi", rd, 0, 0, imm)
          [] Bits(insn, 13, 3) = 3 /\ rd = 2 ->
                 IF imm16sp = 0 THEN IllegalInsn ELSE I("addi", 2, 2, 0, imm16sp)
          [] Bits(insn, 13, 3) = 3 /\ rd /= 2 ->
                 IF immlui = 0 THEN IllegalInsn ELSE I("lui", rd, 0, 0, immlui)
          [] Bits(insn, 13, 3) = 4 -> Quadrant1Arith(insn)
          [] Bits(insn, 13, 3) = 5 -> I("jal", 0, 0, 0, sext(Fields(insn, ImmJump), 12))
          [] Bits(insn, 13, 3) = 6 -> I("beq", 0, rs1, 0, sext(Fields(insn, ImmBranch), 9))
          [] OTHER -> I("bne", 0, rs1, 0, sext(Fields(insn, ImmBranch), 9))

\* Jumps, moves and adds of quadrant 2 (funct3 = 4).
Quadrant2Jump(insn) ==
    LET rd == Bits(insn, 7, 5)
        rs2 == Bits(insn, 2, 5)
    IN  IF Bits(insn, 12, 1) = 0
        THEN CASE rs2 /= 0 -> I("add", rd, 0, rs2, 0)
               [] rs2 = 0 /\ rd = 0 -> IllegalInsn
               [] OTHER -> I("jalr", 0, rd, 0, 0)
        ELSE CASE rs2 /= 0 -> I("add", rd, rd, rs2, 0)
               [] rs2 = 0 /\ rd = 0 -> I("ebreak", 0, 0, 0, 0)
               [] OTHER -> I("jalr", 1, rd, 0, 0)

Quadrant2(insn, fs) ==
    LET rd == Bits(insn, 7, 5)
        rs2 == Bits(insn, 2, 5)
    IN  CASE Bits(insn, 13, 3) = 0 -> I("slli", rd, rd, 0, Fields(insn, Imm6))
          [] Bits(insn, 13, 3) = 1 -> IfFs(fs, I("fld", rd, 2, 0, Fields(insn, ImmLdsp)))
          [] Bits(insn, 13, 3) = 2 -> IF rd = 0 THEN IllegalInsn ELSE I("lw", rd, 2, 0, Fields(insn, ImmLwsp))
          [] Bits(insn, 13, 3) = 3 -> IF rd = 0 THEN IllegalInsn ELSE I("ld", rd, 2, 0, Fields(insn, ImmLdsp))
          [] Bits(insn, 13, 3) = 4 -> Quadrant2Jump(insn)
          [] Bits(insn, 13, 3) = 5 -> IfFs(fs, I("fsd", 0, 2, rs2, Fields(insn, ImmSdsp)))
          [] Bits(insn, 13, 3) = 6 -> I("sw", 0, 2, rs2, Fields(insn, ImmSwsp))
          [] OTHER -> I("sd", 0, 2, rs2, Fields(insn, ImmSdsp))

Expand(insn, fs) ==
    CASE insn % 4 = 0 -> Quadrant0(insn, fs)
      [] insn % 4 = 1 -> Quadrant1(insn, fs)
      [] insn % 4 = 2 -> Quadrant2(insn, fs)

(***************************************************************************)
(* The control-flow class of an indirect jump.                             *)
(***************************************************************************)
IsLink(r) == r \in {1, 5}

\* Mutant: a jump through the register it links is reported as pop and push.
MutHint(rd, rs1) ==
    CASE IsLink(rd) /\ IsLink(rs1) -> "pop_push"
      [] IsLink(rd) /\ ~IsLink(rs1) -> "push"
      [] ~IsLink(rd) /\ IsLink(rs1) -> "pop"
      [] OTHER -> "jalr"

ctf_compute_hint(rd, rs1) ==
    LET k == <<"jalr", "pop", "push", "pop_push">>[(IF IsLink(rd) THEN 2 ELSE 0) + (IF IsLink(rs1) THEN 1 ELSE 0) + 1]
    IN  IF k = "pop_push" /\ rs1 = rd THEN "push" ELSE k

(***************************************************************************)
(* Properties, over all encodings with the given quadrant and funct3       *)
(* (group = 8 * quadrant + funct3).                                        *)
(***************************************************************************)
Group(group) == {(group % 8) * 2^13 + mid * 4 + (group \div 8) : mid \in 0..(2^11 - 1)}

Steps(lo, hi, step) == {lo + step * k : k \in 0..((hi - lo) \div step)}

\* The immediates each operation of a group can name: the scaled range of the
\* instruction set, the excluded zero of the reserved encodings removed.
ImmediatesOf(group) ==
    CASE group = 0 -> Steps(4, 1020, 4)
      [] group \in {1, 3, 5, 7} -> Steps(0, 248, 8)
      [] group \in {2, 6} -> Steps(0, 124, 4)
      [] group \in {8, 9, 10} -> Steps(-32, 31, 1)
      [] group = 11 -> (Steps(-512, 496, 16) \cup Steps(-131072, 126976, 4096)) \ {0}
      [] group = 12 -> Steps(-32, 63, 1)
      [] group = 13 -> Steps(-2048, 2046, 2)
      [] group \in {14, 15} -> Steps(-256, 254, 2)
      [] group = 16 -> Steps(0, 63, 1)
      [] group \in {17, 19, 21, 23} -> Steps(0, 504, 8)
      [] group \in {18, 22} -> Steps(0, 252, 4)
      [] group = 20 -> {0}
      [] OTHER -> {}

\* No bit of a compressed instruction is dropped, used twice or put in another
\* bit's place: within a group two encodings that are not illegal perform
\* different instructions (the moves and adds to x0, which do nothing, apart),
\* and together they name exactly the immediates of the instruction set.
ExpansionExact(group) ==
    LET legal == {insn \in Group(group) : /\ Expand(insn, 3) /= IllegalInsn
                                          /\ ~(Expand(insn, 3).op = "add" /\ Expand(insn, 3).rd = 0)}
    IN  /\ Cardinality({Expand(insn, 3) : insn \in legal}) = Cardinality(legal)
        /\ {Expand(insn, 3).imm : insn \in legal} = ImmediatesOf(group)

\* With the floating-point unit off exactly the floating-point forms become
\* illegal, and nothing else changes.
FsGuardsFloats(group) ==
    \A insn \in Group(group) :
        LET on == Expand(insn, 3)
        IN  Expand(insn, 0) = IF on.op \in {"fld", "fsd"} THEN IllegalInsn ELSE on

\* The return-address-stack hints of the comment above the interpreter
\* (Table 2.1): a jump that writes a link register pushes, one that reads a
\* link register pops, and it does both only when the two registers differ.
HintsFollowTable(rd) ==
    \A rs1 \in 0..31 :
        LET hint == ctf_compute_hint(rd, rs1)
        IN  /\ (hint \in {"push", "pop_push"}) <=> IsLink(rd)
            /\ (hint \in {"pop", "pop_push"}) <=> (IsLink(rs1) /\ rd /= rs1)
=============================================================================
