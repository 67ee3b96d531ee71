-------------------------------- MODULE Alu --------------------------------
(***************************************************************************)
(* The integer instructions of the interpreter: which operation the OP,    *)
(* OP-32, OP-IMM and OP-IMM-32 encodings select under the extension flags  *)
(* (EN_ZBA, EN_ZBB, EN_ZBS), and what the helpers compute.  Encodings are  *)
(* the real ones; values have XLEN bits, words WLEN, so that all pairs of  *)
(* operands of a small machine can be enumerated.                          *)
(***************************************************************************)
EXTENDS Integers, Sequences, FiniteSets, FiniteSetsExt, Bitwise

CONSTANTS XLEN,     \* width of a register (64 in the program)
          WLEN,     \* width of an int32_t (32)
          HLEN,     \* width of an int16_t (16)
          BLEN      \* width of an int8_t (8)

ASSUME WidthsAssumption ==
    /\ XLEN \in {2^k : k \in 1..4}
    /\ WLEN \in {2^k : k \in 0..3}
    /\ {HLEN, BLEN} \subseteq 1..XLEN
    /\ WLEN < XLEN

(***************************************************************************)
(* Fixed-width values.                                                     *)
(***************************************************************************)
U(n, v) == v % 2^n

S(n, v) == IF U(n, v) >= 2^(n - 1) THEN U(n, v) - 2^n ELSE U(n, v)

X(v) == U(XLEN, v)

\* (int32_t)v read back as a register.
Word(v) == X(S(WLEN, v))

BitOf(v, i) == (v \div 2^i) % 2

BitSet(v) == {i \in 0..(XLEN - 1) : BitOf(v, i) = 1}

\* The quotient of C, truncated toward zero.
Trunc(a, b) ==
    LET Abs(n) == IF n < 0 THEN -n ELSE n
        q == Abs(a) \div Abs(b)
    IN  IF (a < 0) = (b < 0) THEN q ELSE -q

(***************************************************************************)
(* Division and remainder at width n, with the two special cases.          *)
(***************************************************************************)
\* Mutant: the quotient is rounded down, as \div is.
MutDiv(n, a, b) == IF U(n, b) = 0 THEN U(n, -1) ELSE U(n, (S(n, a) * S(n, b)) \div (S(n, b) * S(n, b)))

div(n, a, b) ==
    IF U(n, b) = 0 THEN U(n, -1)
    ELSE IF S(n, a) = -(2^(n - 1)) /\ S(n, b) = -1 THEN U(n, a)
    ELSE U(n, Trunc(S(n, a), S(n, b)))

divu(n, a, b) == IF U(n, b) = 0 THEN U(n, -1) ELSE U(n, a) \div U(n, b)

rem(n, a, b) ==
    IF U(n, b) = 0 THEN U(n, a)
    ELSE IF S(n, a) = -(2^(n - 1)) /\ S(n, b) = -1 THEN 0
    ELSE U(n, S(n, a) - Trunc(S(n, a), S(n, b)) * S(n, b))

remu(n, a, b) == IF U(n, b) = 0 THEN U(n, a) ELSE U(n, a) % U(n, b)

(***************************************************************************)
(* High halves of the product, and the carry-less products.                *)
(***************************************************************************)
mulh(a, b) == X((S(XLEN, a) * S(XLEN, b)) \div 2^XLEN)

mulhsu(a, b) == X((S(XLEN, a) * b) \div 2^XLEN)

mulhu(a, b) == X((a * b) \div 2^XLEN)

\* One loop: XOR over the set bits i of v2 of v1 moved by Move(i).  Distinct
\* bits may give equal terms, so the fold runs over the bits.
CarryLess(v2, from, Move(_)) ==
    FoldSet(LAMBDA i, acc : Move(i) ^^ acc, 0, {i \in BitSet(v2) : i >= from})

clmul(v1, v2) == CarryLess(v2, 0, LAMBDA i : X(v1 * 2^i))

clmulh(v1, v2) == CarryLess(v2, 1, LAMBDA i : v1 \div 2^(XLEN - i))

clmulr(v1, v2) == CarryLess(v2, 0, LAMBDA i : v1 \div 2^(XLEN - i - 1))

(***************************************************************************)
(* Bit counts and sign extensions.  clz64 counts trailing zeros, as the code *)
(* does (__builtin_ctzl), and the builtin is undefined at zero: ctzw(0),   *)
(* and clzw of a value whose low word is 0, may return anything.           *)
(***************************************************************************)
cpop(n, v) == Cardinality({i \in 0..(n - 1) : BitOf(v, i) = 1})

ctz_(v) == IF v = 0 THEN XLEN ELSE Min(BitSet(v))

Builtin_ctz(v) == IF v = 0 THEN 0..(2^WLEN - 1) ELSE {Min(BitSet(v))}

ctzw(v) == Builtin_ctz(U(WLEN, v))

clz64(v) == IF v = 0 THEN XLEN ELSE Min(BitSet(v))

clzw(v) == IF v = 0 THEN {WLEN} ELSE Builtin_ctz(U(WLEN, v))

sext_h(v) == X(S(HLEN, v))

sext_b(v) == X(S(BLEN, v))

(***************************************************************************)
(* Shifts: the amount is masked to the width, >> of a signed value is      *)
(* arithmetic.                                                             *)
(***************************************************************************)
Sll(n, v, k) == U(n, v * 2^(k % n))

Srl(n, v, k) == U(n, v) \div 2^(k % n)

Sra(n, v, k) == U(n, S(n, v) \div 2^(k % n))

Less(a, b) == IF a < b THEN 1 ELSE 0

(***************************************************************************)
(* The register-register encodings.  An entry of a table gives the         *)
(* extension that enables it, funct7, funct3 and the operation.            *)
(***************************************************************************)
ZOp == { <<"zba", 16, 2, "sh1add">>, <<"zba", 16, 4, "sh2add">>, <<"zba", 16, 6, "sh3add">>,
         <<"zbb", 5, 4, "min">>, <<"zbb", 5, 5, "minu">>, <<"zbb", 5, 6, "max">>, <<"zbb", 5, 7, "maxu">>,
         <<"zbb", 32, 0, "sub">>, <<"zbb", 32, 4, "xnor">>, <<"zbb", 32, 6, "orn">>, <<"zbb", 32, 7, "andn">>,
         <<"zbb", 5, 1, "clmul">>, <<"zbb", 5, 2, "clmulr">>, <<"zbb", 5, 3, "clmulh">>,
         <<"zbs", 20, 1, "bset">>, <<"zbs", 36, 1, "bclr">>, <<"zbs", 36, 5, "bext">>, <<"zbs", 52, 1, "binv">> }

\* Mutant: Zbb also takes over the M extension's funct7.
MutZClaims == { <<"zba", 16>>, <<"zbb", 32>>, <<"zbb", 1>> }

\* funct7 values whose whole funct3 space an enabled extension takes over.
ZClaims == { <<"zba", 16>>, <<"zbb", 32>> }

MOp == <<"mul", "mulh", "mulhsu", "mulhu", "div", "divu", "rem", "remu">>

\* Mutant: two rows of the switch carry the same operation.
MutBaseOp == <<"add", "sll", "slt", "slt", "xor", "srl", "or", "and">>

BaseOp == <<"add", "sll", "slt", "sltu", "xor", "srl", "or", "and">>

Entry(table, ext, sel) == {t \in table : t[1] \in ext /\ SubSeq(t, 2, Len(t) - 1) = sel}

OpBase(f7, f3) ==
    CASE f7 = 1 -> MOp[f3 + 1]
      [] f7 = 0 -> BaseOp[f3 + 1]
      [] f7 = 32 /\ f3 = 0 -> "sub"
      [] f7 = 32 /\ f3 = 5 -> "sra"
      [] OTHER -> "illegal"

Op(ext, f7, f3) ==
    IF Entry(ZOp, ext, <<f7, f3>>) /= {} THEN (CHOOSE t \in Entry(ZOp, ext, <<f7, f3>>) : TRUE)[4]
    ELSE IF \E c \in ZClaims : c[1] \in ext /\ c[2] = f7 THEN "illegal"
    ELSE OpBase(f7, f3)

ZOp32 == { <<"zba", 16, 2, "sh1add.uw">>, <<"zba", 16, 4, "sh2add.uw">>, <<"zba", 16, 6, "sh3add.uw">>,
           <<"zba", 4, 0, "add.uw">> }

\* zext.h is the encoding with rs2 = 0 (funct12 = 0x080).
Op32(ext, f7, rs2, f3) ==
    IF Entry(ZOp32, ext, <<f7, f3>>) /= {} THEN (CHOOSE t \in Entry(ZOp32, ext, <<f7, f3>>) : TRUE)[4]
    ELSE IF "zbb" \in ext /\ f7 = 4 /\ rs2 = 0 /\ f3 = 4 THEN "zext.h"
    ELSE CASE f7 = 1 /\ f3 = 0 -> "mulw"
           [] f7 = 1 /\ f3 \in 4..7 -> <<"divw", "divuw", "remw", "remuw">>[f3 - 3]
           [] f7 = 0 /\ f3 = 0 -> "addw"
           [] f7 = 32 /\ f3 = 0 -> "subw"
           [] f7 = 0 /\ f3 = 1 -> "sllw"
           [] f7 = 0 /\ f3 = 5 -> "srlw"
           [] f7 = 32 /\ f3 = 5 -> "sraw"
           [] OTHER -> "illegal"

(***************************************************************************)
(* The immediate encodings; imm is the 12-bit field.  An operation with a  *)
(* shift amount takes it from the low six bits.                            *)
(***************************************************************************)
ZImm == { <<"zbb", 1537, "ctz">>, <<"zbb", 1536, "clz">>, <<"zbb", 1538, "cpop">>,
          <<"zbb", 1541, "sext.h">>, <<"zbb", 1540, "sext.b">> }

\* Mutant: bexti is looked for at the selector of srai.
MutZShift == { <<"zbs", 1, 10, "bseti">>, <<"zbs", 1, 18, "bclri">>, <<"zbs", 1, 26, "binvi">>,
               <<"zbs", 5, 16, "bexti">> }

ZShift == { <<"zbs", 1, 10, "bseti">>, <<"zbs", 1, 18, "bclri">>, <<"zbs", 1, 26, "binvi">>,
            <<"zbs", 5, 18, "bexti">> }

OpImm(ext, imm, f3) ==
    IF f3 \notin {1, 5} THEN <<"addi", "", "slti", "sltiu", "xori", "", "ori", "andi">>[f3 + 1]
    ELSE IF f3 = 1 /\ Entry(ZImm, ext, <<imm>>) /= {}
         THEN (CHOOSE t \in Entry(ZImm, ext, <<imm>>) : TRUE)[3]
    ELSE IF Entry(ZShift, ext, <<f3, imm \div 64>>) /= {}
         THEN (CHOOSE t \in Entry(ZShift, ext, <<f3, imm \div 64>>) : TRUE)[4]
    ELSE CASE imm \in 0..63 -> IF f3 = 1 THEN "slli" ELSE "srli"
           [] f3 = 5 /\ imm \in 1024..1087 -> "srai"
           [] OTHER -> "illegal"

ZImm32 == { <<"zbb", 1537, "ctzw">>, <<"zbb", 1538, "cpopw">>, <<"zbb", 1536, "clzw">> }

OpImm32(ext, imm, f3) ==
    IF f3 = 1 /\ "zba" \in ext /\ imm \div 64 = 2 THEN "slli.uw"
    ELSE IF f3 = 1 /\ Entry(ZImm32, ext, <<imm>>) /= {}
         THEN (CHOOSE t \in Entry(ZImm32, ext, <<imm>>) : TRUE)[3]
    ELSE CASE f3 = 0 -> "addiw"
           [] f3 = 1 /\ imm \in 0..31 -> "slliw"
           [] f3 = 5 /\ imm \in 0..31 -> "srliw"
           [] f3 = 5 /\ imm \in 1024..1055 -> "sraiw"
           [] OTHER -> "illegal"

(***************************************************************************)
(* The values the operations write.  b is rs2, or the sign-extended        *)
(* immediate or shift amount of the immediate forms.                       *)
(***************************************************************************)
RegOp(op, a, b) ==
    CASE op = "add" -> X(a + b)
      [] op = "sub" -> X(a - b)
      [] op = "sll" -> Sll(XLEN, a, b)
      [] op = "srl" -> Srl(XLEN, a, b)
      [] op = "sra" -> Sra(XLEN, a, b)
      [] op = "slt" -> Less(S(XLEN, a), S(XLEN, b))
      [] op = "sltu" -> Less(a, b)
      [] op = "xor" -> a ^^ b
      [] op = "or" -> a | b
      [] op = "and" -> a & b
      [] op = "xnor" -> X(-(a ^^ b) - 1)
      [] op = "orn" -> a | X(-b - 1)
      [] op = "andn" -> a & X(-b - 1)
      [] op = "sh1add" -> X(a * 2 + b)
      [] op = "sh2add" -> X(a * 4 + b)
      [] op = "sh3add" -> X(a * 8 + b)
      [] op = "min" -> IF S(XLEN, a) < S(XLEN, b) THEN a ELSE b
      [] op = "max" -> IF S(XLEN, a) < S(XLEN, b) THEN b ELSE a
      [] op = "minu" -> IF a < b THEN a ELSE b
      [] op = "maxu" -> IF a < b THEN b ELSE a
      [] op = "clmul" -> clmul(a, b)
      [] op = "clmulr" -> clmulr(a, b)
      [] op = "clmulh" -> clmulh(a, b)
      [] op = "bset" -> a | 2^(b % XLEN)
      [] op = "bclr" -> a & X(-(2^(b % XLEN)) - 1)
      [] op = "bext" -> BitOf(a, b % XLEN)
      [] op = "binv" -> a ^^ (2^(b % XLEN))
      [] op = "mul" -> X(S(XLEN, a) * S(XLEN, b))
      [] op = "mulh" -> mulh(a, b)
      [] op = "mulhsu" -> mulhsu(a, b)
      [] op = "mulhu" -> mulhu(a, b)
      [] op = "div" -> div(XLEN, a, b)
      [] op = "divu" -> divu(XLEN, a, b)
      [] op = "rem" -> rem(XLEN, a, b)
      [] op = "remu" -> remu(XLEN, a, b)

WordOp(op, a, b) ==
    CASE op = "addw" -> Word(a + b)
      [] op = "subw" -> Word(a - b)
      [] op = "sllw" -> Word(Sll(WLEN, U(WLEN, a), b))
      [] op = "srlw" -> Word(Srl(WLEN, a, b))
      [] op = "sraw" -> Word(Sra(WLEN, a, b))
      [] op = "mulw" -> Word(S(WLEN, a) * S(WLEN, b))
      [] op = "divw" -> Word(div(WLEN, a, b))
      [] op = "divuw" -> Word(divu(WLEN, a, b))
      [] op = "remw" -> Word(rem(WLEN, a, b))
      [] op = "remuw" -> Word(remu(WLEN, a, b))
      [] op = "sh1add.uw" -> X(U(WLEN, a) * 2 + b)
      [] op = "sh2add.uw" -> X(U(WLEN, a) * 4 + b)
      [] op = "sh3add.uw" -> X(U(WLEN, a) * 8 + b)
      [] op = "add.uw" -> X(U(WLEN, a) + b)
      [] op = "zext.h" -> U(HLEN, a)

\* The immediate forms: the register forms with the immediate or the shift
\* amount for rs2, and the unary operations.  The result is the set of values
\* the build may produce (more than one only where the builtin is undefined).
RegForm == [ addi |-> "add", slti |-> "slt", sltiu |-> "sltu", xori |-> "xor", ori |-> "or", andi |-> "and",
             slli |-> "sll", srli |-> "srl", srai |-> "sra",
             bseti |-> "bset", bclri |-> "bclr", binvi |-> "binv", bexti |-> "bext" ]

WordForm == [ addiw |-> "addw", slliw |-> "sllw", srliw |-> "srlw", sraiw |-> "sraw" ]

ImmOp(op, a, imm) ==
    CASE op \in DOMAIN RegForm -> {RegOp(RegForm[op], a, X(imm))}
      [] op \in DOMAIN WordForm -> {WordOp(WordForm[op], a, X(imm))}
      [] op = "slli.uw" -> {X(U(WLEN, a) * 2^(imm % XLEN))}
      [] op = "ctz" -> {ctz_(a)}
      [] op = "clz" -> {clz64(a)}
      [] op = "cpop" -> {cpop(XLEN, a)}
      [] op = "sext.h" -> {sext_h(a)}
      [] op = "sext.b" -> {sext_b(a)}
      [] op = "ctzw" -> ctzw(a)
      [] op = "clzw" -> clzw(a)
      [] op = "cpopw" -> {cpop(WLEN, a)}

\* Mutant: blt and bge compare as unsigned.
MutBranch(f3, a, b) ==
    LET cond == IF f3 \div 2 = 0 THEN a = b ELSE a <= b IN cond /= (f3 % 2 = 1)

\* The conditional branches: funct3 >> 1 selects the test, bit 0 inverts it.
BranchTaken(f3, a, b) ==
    LET cond == CASE f3 \div 2 = 0 -> a = b
                  [] f3 \div 2 = 2 -> S(XLEN, a) < S(XLEN, b)
                  [] f3 \div 2 = 3 -> a < b
    IN  cond /= (f3 % 2 = 1)

-----------------------------------------------------------------------------
(***************************************************************************)
(* What the integer instructions should do, stated over all operands of a  *)
(* small machine and over all encodings.                                   *)
(***************************************************************************)
Values == 0..(2^XLEN - 1)

Extensions == {"zba", "zbb", "zbs"}

RefAbs(n) == IF n < 0 THEN -n ELSE n

\* Quotient and remainder of width n belong together: dividend = quotient *
\* divisor + remainder modulo 2^n in every case, division by zero and the one
\* overflow included; apart from those the remainder is smaller than the
\* divisor and has the dividend's sign.
SignedDivision(n, a, b) ==
    LET q == S(n, div(n, a, b))
        r == S(n, rem(n, a, b))
        sa == S(n, a)
        sb == S(n, b)
    IN  /\ U(n, q * sb + r) = U(n, a)
        /\ sb /= 0 => RefAbs(r) < RefAbs(sb) /\ (r = 0 \/ (r < 0) = (sa < 0))
        /\ sb = 0 => q = -1
        /\ (q * sb + r /= sa) <=> (sa = -(2^(n - 1)) /\ sb = -1)

UnsignedDivision(n, a, b) ==
    LET q == divu(n, a, b)
        r == remu(n, a, b)
    IN  IF U(n, b) = 0 THEN q = 2^n - 1 /\ r = U(n, a)
        ELSE U(n, a) = q * U(n, b) + r /\ r < U(n, b)

\* Coefficient k of the product of two polynomials over GF(2).
Coefficient(a, b, k) ==
    Cardinality({i \in BitSet(a) : k - i \in BitSet(b)}) % 2

CarryLessProduct(a, b) ==
    FoldSet(LAMBDA k, acc : acc + Coefficient(a, b, k) * 2^k, 0, 0..(2 * XLEN - 2))

ProductHalves(a, b) ==
    LET p == CarryLessProduct(a, b)
    IN  /\ clmul(a, b) = X(p)
        /\ clmulh(a, b) = X(p \div 2^XLEN)
        /\ clmulr(a, b) = X(p \div 2^(XLEN - 1))
        /\ mulhu(a, b) * 2^XLEN + RegOp("mul", a, b) = a * b
        /\ S(XLEN, mulh(a, b)) * 2^XLEN + RegOp("mul", a, b) = S(XLEN, a) * S(XLEN, b)
        /\ S(XLEN, mulhsu(a, b)) * 2^XLEN + RegOp("mul", a, b) = S(XLEN, a) * b

\* The 32-bit forms depend on the low words only and leave a sign-extended
\* word in the register.
WordFormsLocal(a, b) ==
    \A op \in {"addw", "subw", "sllw", "srlw", "sraw", "mulw", "divw", "divuw", "remw", "remuw"} :
        LET v == WordOp(op, a, b)
        IN  /\ v = Word(v)
            /\ v = WordOp(op, Word(a), U(WLEN, b))

\* div, divu, rem and remu, and their word forms, and the high and carry-less
\* products, are the ones of the ISA for every pair of operands.
ArithmeticCorrect(a) ==
    \A b \in Values :
        /\ \A n \in {XLEN, WLEN} : SignedDivision(n, a, b) /\ UnsignedDivision(n, a, b)
        /\ ProductHalves(a, b)
        /\ WordFormsLocal(a, b)

\* The immediate forms: the single-bit ones change their bit and no other,
\* slli.uw shifts the zero-extended word, and the counts and extensions are
\* those of the bits, except that clz and clzw count trailing zeros.
ImmediatesCorrect(a) ==
    LET w == BitSet(U(WLEN, a))
    IN  /\ \A k \in 0..(XLEN - 1) :
               /\ \A v \in ImmOp("bseti", a, k) : BitSet(v) = BitSet(a) \cup {k}
               /\ \A v \in ImmOp("bclri", a, k) : BitSet(v) = BitSet(a) \ {k}
               /\ \A v \in ImmOp("binvi", a, k) :
                      ImmOp("bexti", v, k) /= ImmOp("bexti", a, k) /\ ImmOp("binvi", v, k) = {a}
               /\ \A v \in ImmOp("slli.uw", a, k) : BitSet(v) = {i + k : i \in w} \cap 0..(XLEN - 1)
        /\ ImmOp("ctz", a, 0) = {Cardinality({k \in 1..XLEN : a % 2^k = 0})}
        /\ w /= {} => ImmOp("ctzw", a, 0) = {Cardinality({k \in 1..WLEN : a % 2^k = 0})}
        /\ ImmOp("cpopw", a, 0) = {Cardinality(w)}
        /\ \A v \in ImmOp("sext.h", a, 0) : S(XLEN, v) = S(HLEN, a)
        /\ \A v \in ImmOp("sext.b", a, 0) : S(XLEN, v) = S(BLEN, a)

\* The branches split every pair of operands: blt or bge, never both, and a
\* pair that is neither below nor above, signed and unsigned alike, is beq.
BranchesSplit(a) ==
    \A b \in Values :
        /\ \A f3 \in {0, 4, 6} : BranchTaken(f3, a, b) /= BranchTaken(f3 + 1, a, b)
        /\ \A f3 \in {4, 6} : BranchTaken(0, a, b) <=> (~BranchTaken(f3, a, b) /\ ~BranchTaken(f3, b, a))

(***************************************************************************)
(* Encodings.                                                              *)
(***************************************************************************)

\* An extension only adds encodings: what a base encoding executes does not
\* depend on the extension flags.  The one exception of the code is stated:
\* with Zbb the funct7 = 0x20 space is taken over and sra becomes illegal.
EncodingsConservative(f7) ==
    \A ext \in SUBSET Extensions, f3 \in 0..7 :
        /\ OpBase(f7, f3) /= "illegal" =>
               \/ Op(ext, f7, f3) = OpBase(f7, f3)
               \/ OpBase(f7, f3) = "sra" /\ "zbb" \in ext
        /\ \A rs2 \in {0, 1} :
               Op32({}, f7, rs2, f3) /= "illegal" => Op32(ext, f7, rs2, f3) = Op32({}, f7, rs2, f3)

\* No operation has two encodings, so a disassembler can name it back: under
\* one set of flags no other selector, at f7 or after it, gives the same operation.
EncodingsUnambiguous(f7) ==
    \A ext \in SUBSET Extensions, f3 \in 0..7 :
        LET op == Op(ext, f7, f3)
        IN  op /= "illegal" => \A g7 \in f7..127, g3 \in 0..7 : op = Op(ext, g7, g3) => g7 = f7 /\ g3 = f3

\* The same two facts for the immediate forms: the shift-immediate encodings
\* of the base ISA are untouched by the flags, and the operation together with
\* the low six bits gives the immediate back.
ImmediatesConservative(f7) ==
    \A ext \in SUBSET Extensions, low \in 0..31, f3 \in {1, 5} :
        LET imm == f7 * 32 + low
            op  == OpImm(ext, imm, f3)
        IN  /\ OpImm({}, imm, f3) /= "illegal" => op = OpImm({}, imm, f3)
            /\ OpImm32({}, imm, f3) /= "illegal" => OpImm32(ext, imm, f3) = OpImm32({}, imm, f3)
            /\ op /= "illegal" =>
                 \A g6 \in 0..63 \ {imm \div 64} : OpImm(ext, g6 * 64 + (imm % 64), f3) /= op
=============================================================================
