---------------------------- MODULE VectorArith ----------------------------
(***************************************************************************)
(* The vector configuration instructions and vectorize_arithmetic, the     *)
(* loop every vector integer instruction runs through.  Widths are in      *)
(* bytes; a byte of the vector register file is <<register, offset>>.      *)
(***************************************************************************)
EXTENDS Integers, Sequences, SequencesExt, FiniteSetsExt

CONSTANTS
    VLENB,          \* bytes of a vector register (VLEN / 8)
    INT             \* bits of int, to which C promotes narrower operands

VILL == [lmul |-> 0, sew |-> 0, vill |-> TRUE]

VType(lmul, sew) == [lmul |-> lmul, sew |-> sew, vill |-> FALSE]

\* The vtype encodings: vlmul 0..3 are 1, 2, 4, 8; 5..7 are 1/8, 1/4, 1/2.
VTypes == {VType(l, w) : l \in (0..7) \ {4}, w \in 0..3}

LMUL_BOUNDARY == 4

\* Eight times LMUL, so that the fractions are whole.
get_lmul(vtype) ==
    IF vtype.lmul >= LMUL_BOUNDARY THEN 2^(vtype.lmul - LMUL_BOUNDARY - 1) ELSE 2^(vtype.lmul + 3)

\* In bits, like the source.
get_sew(vtype) == 2^(vtype.sew + 3)

VLEN == 8 * VLENB

\* Mutant: a fraction divides by the encoded value itself.
MutVlmax(vtype) ==
    IF vtype.lmul >= LMUL_BOUNDARY
    THEN (VLEN \div get_sew(vtype)) \div 2^(vtype.lmul - LMUL_BOUNDARY)
    ELSE (2^vtype.lmul * VLEN) \div get_sew(vtype)

get_vlmax(vtype) ==
    IF vtype.lmul >= LMUL_BOUNDARY
    THEN (VLEN \div get_sew(vtype)) \div (16 \div 2^(vtype.lmul - LMUL_BOUNDARY))
    ELSE (2^vtype.lmul * VLEN) \div get_sew(vtype)

\* rs2 of vsetvl: a fractional or reserved vtype is refused.
Operand(kind, asked) == IF kind = "vsetvl" /\ asked.lmul >= LMUL_BOUNDARY THEN VILL ELSE asked

\* The requested length: the value of rs1, all ones when only rd is named, the
\* old vl when neither is; 0 after a refused vtype.
Avl(kind, asked, vl, rs1, rd) ==
    CASE Operand(kind, asked).vill -> 0
      [] kind = "vsetivli"         -> rs1.value
      [] rs1.named                 -> rs1.value
      [] rd                        -> 2^20
      [] OTHER                     -> vl

\* The whole OPCFG case: the new vtype and vl.
vset(kind, asked, vl, rs1, rd) ==
    LET vtype == Operand(kind, asked)
        avl   == Avl(kind, asked, vl, rs1, rd)
    IN  IF get_sew(vtype) >= (VLEN * get_lmul(vtype)) \div 8
        THEN [vtype |-> VILL, vl |-> 0]
        ELSE [vtype |-> vtype, vl |-> IF avl <= get_vlmax(vtype) THEN avl ELSE get_vlmax(vtype)]

----------------------------------------------------------------------------
Widths == {"SINGLE_WIDTH", "WIDEN_VD_VS2", "WIDEN_VD"}

WidensVd(w) == w /= "SINGLE_WIDTH"

Whole(vtype) == get_lmul(vtype) >= 8

LmulScaled(vtype) == IF Whole(vtype) THEN get_lmul(vtype) \div 8 ELSE 1

\* The register groups must be aligned; the check is skipped for a fractional LMUL.
Aligned(vtype, w, vd, vs2, vs1, vv) ==
    LET g == LmulScaled(vtype)
    IN  Whole(vtype) =>
          /\ vv => vs1 % g = 0
          /\ w = "SINGLE_WIDTH" => vd % g = 0 /\ vs2 % g = 0
          /\ w = "WIDEN_VD_VS2" => vs2 % (2 * g) = 0
          /\ WidensVd(w) => vd % (2 * g) = 0

\* The widening operations are defined for three element sizes only.
Configured(vtype, w) == get_sew(vtype) <= 64 /\ (WidensVd(w) => get_sew(vtype) <= 32)

\* lmul and sew relative to vd: doubled by a widening operation, but only
\* inside the branch of a whole LMUL.
Scale(vtype, w) == IF WidensVd(w) /\ Whole(vtype) THEN 2 ELSE 1

\* Mutant: the odd half of a widened group starts at the source's beginning.
MutNarrow(i, j) == <<i - ((i \div 2) + (i % 2)), j - (j \div 2)>>

\* Register offset and byte of a source of half the width of vd.
Narrow(i, j) ==
    <<i - ((i \div 2) + (i % 2)),
      j + (IF i % 2 = 1 THEN (VLENB \div 2) - (j \div 2) ELSE -(j \div 2))>>

\* One iteration: vd's register offset and byte, the sources', and the element
\* number that selects the mask bit.
Iteration(w, i, j, elm) ==
    [elm |-> elm,
     vd  |-> <<i, j>>,
     vs2 |-> IF w = "WIDEN_VD" THEN Narrow(i, j) ELSE <<i, j>>,
     vs1 |-> IF WidensVd(w) THEN Narrow(i, j) ELSE <<i, j>>]

\* The iterations of the two nested loops in their order, from vstart to the
\* end of the group.
Iterations(vtype, w, vstart) ==
    LET step == (get_sew(vtype) \div 8) * Scale(vtype, w)
        size == VLENB \div step
        all  == size * LmulScaled(vtype) * Scale(vtype, w)
    IN  [k \in 1..(IF vstart < all THEN all - vstart ELSE 0) |->
           LET e == vstart + k - 1 IN Iteration(w, e \div size, (e % size) * step, e)]

\* vectorize_arithmetic: NotLegal, or the iterations whose mask bit is set.
vectorize_arithmetic(vtype, w, vstart, regs, vv, vm, mask) ==
    IF vtype.vill \/ ~Configured(vtype, w) \/ ~Aligned(vtype, w, regs.vd, regs.vs2, regs.vs1, vv)
    THEN [legal |-> FALSE, steps |-> <<>>]
    ELSE [legal |-> TRUE,
          steps |-> SelectSeq(Iterations(vtype, w, vstart), LAMBDA s : vm \/ s.elm \in mask)]

----------------------------------------------------------------------------
Signed(x, n) == IF x >= 2^(n - 1) THEN x - 2^n ELSE x

\* Mutant: the operands of the signed widening sum are read as unsigned.
MutReadAs(op, x, n) == x % 2^n

\* An operand of n bits as the element functions read it through their pointer.
ReadAs(op, x, n) == IF op \in {"vw_add", "vw_addw"} THEN Signed(x % 2^n, n) ELSE x % 2^n

\* The element functions: C adds in int or in the wider operand's type, and the
\* assignment to *vd_e cuts the sum to vd's width.
ElementSum(op, w, vs2, val) ==
    LET wide == op \in {"vw_adduw", "vw_addw"}
        add  == Max({INT, IF wide THEN 2 * w ELSE w})
        out  == IF op = "v_add" THEN w ELSE 2 * w
    IN  ((ReadAs(op, vs2, IF wide THEN 2 * w ELSE w) + ReadAs(op, val, w)) % 2^add) % 2^out

----------------------------------------------------------------------------
\* The bytes an access of n bytes covers in the group that starts at r.
Bytes(r, at, n) == {<<r + at[1], at[2] + b>> : b \in 0..(n - 1)}

\* Where element e of width n lies in a group of whole registers.
Place(e, n) == <<(e * n) \div VLENB, (e * n) % VLENB>>

\* The overlaps of a widening destination with a narrow source that the
\* instruction set allows: none, or the upper half of the destination.
MayOverlap(vd, vs, g) == vs + g <= vd \/ vs >= vd + g

VType4(n) == CHOOSE v \in VTypes : v.lmul = n \div 4 + (IF n \div 4 >= 4 THEN 1 ELSE 0) /\ v.sew = n % 4

\* Every vset leaves a vl between 0 and VLMAX for the vtype it leaves, also
\* when it keeps the old vl under a new element size, and VLMAX elements fill
\* exactly LMUL registers; a vtype that holds fewer than two elements becomes
\* vill with vl 0.  (vsetvl refuses every fractional LMUL, which the other
\* two forms accept, so vsetvl is compared only for the whole ones.)
VsetExact(n) ==
    LET asked == VType4(n)
        lens  == 0..(VLENB + 1)
    IN  \A kind \in {"vsetvli", "vsetvl", "vsetivli"}, vl \in lens, v \in lens, named, rd \in BOOLEAN :
          LET r    == vset(kind, asked, vl, [named |-> named, value |-> v], rd)
              room == (get_lmul(asked) * VLENB) \div get_sew(asked)
              want == IF kind = "vsetivli" \/ named THEN v ELSE IF rd THEN room ELSE vl
          IN  IF get_lmul(asked) * VLENB < 2 * get_sew(asked)
                 \/ (kind = "vsetvl" /\ asked.lmul > LMUL_BOUNDARY)
              THEN r.vtype.vill /\ r.vl = 0
              ELSE r.vtype = asked /\ r.vl = Min({want, room})

\* vectorize_arithmetic computes element e of the destination from element e
\* of the sources for each element from vstart on and no other, whatever the
\* widths; and no element is overwritten before it is read when the register
\* groups overlap as the instruction set allows.  (Stated for a whole LMUL:
\* with a fraction the code does not double sew and lmul for vd.)
ElementsExact(n) ==
    LET vtype == VType4(n)
        g     == LmulScaled(vtype)
        b     == get_sew(vtype) \div 8
        regs  == {0, g, 2 * g, 3 * g}
    IN  Whole(vtype) /\ get_sew(vtype) <= VLEN =>
        \A w \in Widths, vd, vs2, vs1 \in regs, vstart \in {0, 1, 3} :
          LET d == b * (IF WidensVd(w) THEN 2 ELSE 1)
              s == b * (IF w = "WIDEN_VD_VS2" THEN 2 ELSE 1)
              r == vectorize_arithmetic(vtype, w, vstart, [vd |-> vd, vs2 |-> vs2, vs1 |-> vs1], TRUE, TRUE, {})
              t == r.steps
          IN  r.legal /\ d <= VLENB =>
                /\ \A k \in DOMAIN t :
                     /\ t[k].vd = Place(t[k].elm, d)
                     /\ t[k].vs2 = Place(t[k].elm, s)
                     /\ t[k].vs1 = Place(t[k].elm, b)
                /\ {t[k].elm : k \in DOMAIN t} = vstart..((g * VLENB) \div b - 1)
                /\ (w = "WIDEN_VD" => MayOverlap(vd, vs2, g)) /\ (WidensVd(w) => MayOverlap(vd, vs1, g)) =>
                     \A k \in DOMAIN t : \A earlier \in 1..(k - 1) :
                       (Bytes(vs2, t[k].vs2, s) \union Bytes(vs1, t[k].vs1, b))
                          \cap Bytes(vd, t[earlier].vd, d) = {}

\* The element functions of the vector additions give the sum of their operands,
\* signed or unsigned, modulo the width of vd.  (Elements as wide as int are
\* left out: there the widening sums are added in 32 bits and lose the carry.)
ElementSumsExact(x) ==
    \A w \in 1..(INT \div 2), y \in 0..7 :
      /\ ElementSum("v_add", w, x, y) = (x + y) % 2^w
      /\ ElementSum("vw_addu", w, x, y) = ((x % 2^w) + (y % 2^w)) % 2^(2 * w)
      /\ ElementSum("vw_add", w, x, y) = (Signed(x % 2^w, w) + Signed(y % 2^w, w)) % 2^(2 * w)
      /\ ElementSum("vw_adduw", w, x, y) = (x + (y % 2^w)) % 2^(2 * w)
      /\ ElementSum("vw_addw", w, x, y) = (x + Signed(y % 2^w, w)) % 2^(2 * w)
=============================================================================
