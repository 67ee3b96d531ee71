----------------------------- MODULE FpReference -----------------------------
(***************************************************************************)
(* What the floating point operations have to return: the exact result,     *)
(* a rational number of units of the least subnormal, rounded once.  The    *)
(* definitions look at values only and share no step with the algorithms of *)
(* SoftFp.  Correct is the comparison of one operation on one operand with   *)
(* this definition, over the second operands and all rounding modes.          *)
(***************************************************************************)
EXTENDS FpConvert

CONSTANTS Operands,     \* the second operands; the first takes every value
          FmaOperands,  \* the three operands of fused multiply-add
          IntSizes      \* the widths of the integers converted

MAXF == EXP_MASK * 2^MANT_SIZE - 1      \* magnitude of the largest finite float
Scale == EXP_MASK \div 2 + MANT_SIZE - 1   \* the unit is 2^-Scale

\* A number is [n, d, k], for (n / d) * 2^k units of the least subnormal.
Num(n, k) == [n |-> n, d |-> 1, k |-> k]
Clamp(k, lo, hi) == IF k < lo THEN lo ELSE IF k > hi THEN hi ELSE k
\* the sign of x - y; factors of 2^10 and 2^-22 outweigh any n and d met here
Cmp(x, y) ==
    LET k == Clamp(x.k - y.k, -22, 10)
    IN  IF k >= 0 THEN x.n * y.d * 2^k - y.n * x.d ELSE x.n * y.d - y.n * x.d * 2^(-k)

\* the value of a magnitude; infinity, the code after MAXF, has the value a
\* wider exponent field would give it
Val(c) == Num(HiddenBit(c).m, HiddenBit(c).e - 1)

\* The IEEE 754 rounding of a positive exact value, of which Against(y) is
\* the sign of its difference to y.  Tininess is detected after rounding.
Rounded(sign, Against(_), rm) ==
    LET e == CHOOSE i \in 0 .. EXP_MASK - 1 :
                 /\ i = 0 \/ Against(Val(i * 2^MANT_SIZE)) >= 0
                 /\ i = EXP_MASK - 1 \/ Against(Val((i + 1) * 2^MANT_SIZE)) < 0
        lower == CHOOSE c \in e * 2^MANT_SIZE .. e * 2^MANT_SIZE + MANT_MASK :
                     /\ Against(Val(c)) >= 0
                     /\ c % 2^MANT_SIZE = MANT_MASK \/ Against(Val(c + 1)) < 0
        below == Val(lower)
        exact == Against(below) = 0
        away == (rm = "RDN" /\ sign = 1) \/ (rm = "RUP" /\ sign = 0)
        mid == Against(Num(2 * below.n + 1, below.k - 1))
        up == ~exact /\ ( \/ away
                          \/ rm = "RMM" /\ mid >= 0
                          \/ rm = "RNE" /\ (mid > 0 \/ (mid = 0 /\ lower % 2 = 1)) )
        overflow == lower = MAXF /\ (up \/ Against(Val(MAXF + 1)) >= 0)
        \* with an unbounded exponent the result would be the least normal
        toNormal == \/ away /\ Against(Num(2^(MANT_SIZE + 1) - 1, -1)) > 0
                    \/ rm \in {"RNE", "RMM"} /\ Against(Num(2^(MANT_SIZE + 2) - 1, -2)) >= 0
        tiny == Against(Num(2^MANT_SIZE, 0)) < 0 /\ ~toNormal
    IN  Raise(sign * SIGN_MASK + (IF up THEN lower + 1 ELSE lower),
              (IF exact THEN {} ELSE {"NX"}) \cup (IF overflow THEN {"OF"} ELSE {})
              \cup (IF tiny /\ ~exact THEN {"UF"} ELSE {}))

RoundedNum(sign, x, rm) == LET Against(y) == Cmp(x, y) IN Rounded(sign, Against, rm)
\* the root of x is compared by its square
RoundedRoot(x, rm) == LET Against(y) == Cmp(x, Num(y.n * y.n, 2 * y.k)) IN Rounded(0, Against, rm)

Signed(s, v) == IF s = 1 THEN -v ELSE v
Magnitude(a) == a % SIGN_MASK
Abs(x) == IF x < 0 THEN -x ELSE x
Zero(sign) == sign * SIGN_MASK
Inf(sign) == sign * SIGN_MASK + MAXF + 1
Nans(ops) == Raise(F_QNAN, IF \E x \in ops : issignan_sf(x) THEN {"NV"} ELSE {})
CancelSign(rm) == IF rm = "RDN" THEN 1 ELSE 0
ProductSign(a, b) == (SignOf(a) + SignOf(b)) % 2

\* the signed sum of two numbers; one that is 2^-12 of the other or less
\* decides only on which side of the other the sum lies
Sum(sx, x, sy, y) ==
    LET k == IF x.n = 0 THEN y.k ELSE IF y.n = 0 THEN x.k ELSE IF x.k < y.k THEN x.k ELSE y.k
        top == IF x.k < y.k THEN y.k ELSE x.k
        base == IF x.n /= 0 /\ y.n /= 0 /\ top - k > 12 THEN top - 12 ELSE k
        at(z) == IF z.n = 0 THEN 0 ELSE IF z.k >= base THEN z.n * 2^(z.k - base) ELSE 1
    IN  [n |-> Signed(sx, at(x)) + Signed(sy, at(y)), k |-> base]
RoundedSum(sum, rm) == RoundedNum(IF sum.n < 0 THEN 1 ELSE 0, Num(Abs(sum.n), sum.k), rm)

RefAdd(a, b, rm) ==
    LET sum == Sum(SignOf(a), Val(Magnitude(a)), SignOf(b), Val(Magnitude(b)))
    IN  IF isnan_sf(a) \/ isnan_sf(b) THEN Nans({a, b})
        ELSE IF IsInf(a) /\ IsInf(b) /\ a /= b THEN Invalid
        ELSE IF IsInf(a) THEN Exact(a)
        ELSE IF IsInf(b) THEN Exact(b)
        ELSE IF sum.n = 0 THEN Exact(IF a = b THEN a ELSE Zero(CancelSign(rm)))
        ELSE RoundedSum(sum, rm)

Product(a, b) ==
    LET x == Val(Magnitude(a))
        y == Val(Magnitude(b))
    IN  Num(x.n * y.n, x.k + y.k - Scale)

RefMul(a, b, rm) ==
    LET s == ProductSign(a, b)
    IN  IF isnan_sf(a) \/ isnan_sf(b) THEN Nans({a, b})
        ELSE IF (IsInf(a) /\ IsZero(b)) \/ (IsZero(a) /\ IsInf(b)) THEN Invalid
        ELSE IF IsInf(a) \/ IsInf(b) THEN Exact(Inf(s))
        ELSE IF IsZero(a) \/ IsZero(b) THEN Exact(Zero(s))
        ELSE RoundedNum(s, Product(a, b), rm)

RefDiv(a, b, rm) ==
    LET x == Val(Magnitude(a))
        y == Val(Magnitude(b))
        s == ProductSign(a, b)
    IN  IF isnan_sf(a) \/ isnan_sf(b) THEN Nans({a, b})
        ELSE IF (IsInf(a) /\ IsInf(b)) \/ (IsZero(a) /\ IsZero(b)) THEN Invalid
        ELSE IF IsInf(a) THEN Exact(Inf(s))
        ELSE IF IsZero(a) \/ IsInf(b) THEN Exact(Zero(s))
        ELSE IF IsZero(b) THEN Raise(Inf(s), {"DZ"})
        ELSE RoundedNum(s, [n |-> x.n, d |-> y.n, k |-> x.k - y.k + Scale], rm)

RefSqrt(a, rm) ==
    IF isnan_sf(a) THEN Nans({a})
    ELSE IF IsZero(a) \/ a = Inf(0) THEN Exact(a)
    ELSE IF SignOf(a) = 1 THEN Invalid
    ELSE RoundedRoot(Num(Val(a).n, Val(a).k + Scale), rm)

RefFma(a, b, c, rm) ==
    LET s == ProductSign(a, b)
        sum == Sum(s, Product(a, b), SignOf(c), Val(Magnitude(c)))
        pZero == IsZero(a) \/ IsZero(b)
    IN  IF (IsInf(a) /\ IsZero(b)) \/ (IsZero(a) /\ IsInf(b)) THEN Invalid
        ELSE IF isnan_sf(a) \/ isnan_sf(b) \/ isnan_sf(c) THEN Nans({a, b, c})
        ELSE IF IsInf(a) \/ IsInf(b) THEN (IF IsInf(c) /\ SignOf(c) /= s THEN Invalid ELSE Exact(Inf(s)))
        ELSE IF IsInf(c) THEN Exact(c)
        ELSE IF sum.n = 0
        THEN Exact(IF pZero /\ IsZero(c) /\ SignOf(c) = s THEN c ELSE Zero(CancelSign(rm)))
        ELSE RoundedSum(sum, rm)

\* the integer nearest to a in the direction of rm, if it is representable
RefToInt(a, rm, size, unsigned) ==
    LET x == Val(Magnitude(a))
        k == Clamp(x.k - Scale, -12, 20)
        q == IF k >= 0 THEN x.n * 2^k ELSE x.n \div 2^(-k)
        rem == IF k >= 0 THEN 0 ELSE x.n % 2^(-k)
        one == IF k >= 0 THEN 1 ELSE 2^(-k)
        s == SignOf(a)
        up == rem /= 0 /\ ( \/ rm = "RUP" /\ s = 0
                            \/ rm = "RDN" /\ s = 1
                            \/ rm = "RMM" /\ 2 * rem >= one
                            \/ rm = "RNE" /\ (2 * rem > one \/ (2 * rem = one /\ q % 2 = 1)) )
        int == Signed(s, IF up THEN q + 1 ELSE q)
        lo == IF unsigned THEN 0 ELSE -(2^(size - 1))
        hi == IF unsigned THEN 2^size - 1 ELSE 2^(size - 1) - 1
    IN  IF isnan_sf(a) \/ a = Inf(0) THEN Raise(hi, {"NV"})
        ELSE IF a = Inf(1) \/ int < lo THEN Raise(lo % 2^size, {"NV"})
        ELSE IF int > hi THEN Raise(hi, {"NV"})
        ELSE Raise(int % 2^size, IF rem = 0 THEN {} ELSE {"NX"})

RefFromInt(i, rm, size, unsigned) ==
    LET int == IF ~unsigned /\ i >= 2^(size - 1) THEN i - 2^size ELSE i
    IN  IF int = 0 THEN Exact(0) ELSE RoundedSum([n |-> int, k |-> Scale], rm)

\* narrowing: the value of the wide operand; widening is exact
RefNarrow(a, rm) ==
    LET m == W!HiddenBit(a % W!SIGN_MASK)
        wideScale == W!EXP_MASK \div 2 + WMANT_SIZE - 1
        s == W!SignOf(a)
    IN  IF W!isnan_sf(a) THEN Raise(F_QNAN, IF W!issignan_sf(a) THEN {"NV"} ELSE {})
        ELSE IF W!IsInf(a) THEN Exact(Inf(s))
        ELSE IF W!IsZero(a) THEN Exact(Zero(s))
        ELSE RoundedNum(s, Num(m.m, m.e - 1 - wideScale + Scale), rm)

-----------------------------------------------------------------------------
(* Each of these compares the code with the definition for one operand a.   *)

AddCorrect(a) == \A b \in Operands, rm \in RoundingModeEnum :
    add_sf(a, b, rm) = RefAdd(a, b, rm) /\ sub_sf(a, Negate(b), rm) = add_sf(a, b, rm)

MulCorrect(a) == \A b \in Operands, rm \in RoundingModeEnum : mul_sf(a, b, rm) = RefMul(a, b, rm)

DivCorrect(a) == \A b \in Operands, rm \in RoundingModeEnum : div_sf(a, b, rm) = RefDiv(a, b, rm)

SqrtCorrect(a) == \A rm \in RoundingModeEnum : sqrt_sf(a, rm) = RefSqrt(a, rm)

FmaCorrect(a) ==
    a \in FmaOperands =>
        \A b, c \in FmaOperands, rm \in RoundingModeEnum : fma_sf(a, b, c, rm) = RefFma(a, b, c, rm)

\* the order of the values, with -0 = +0, except that min and max put -0 first
Below(a, b) == \/ SignOf(a) = 1 /\ SignOf(b) = 0 /\ ~(IsZero(a) /\ IsZero(b))
               \/ SignOf(a) = 0 /\ SignOf(b) = 0 /\ Cmp(Val(a), Val(b)) < 0
               \/ SignOf(a) = 1 /\ SignOf(b) = 1 /\ Cmp(Val(Magnitude(b)), Val(Magnitude(a))) < 0
CompareCorrect(a) == \A b \in Operands :
    LET nan == isnan_sf(a) \/ isnan_sf(b)
        nv == IF issignan_sf(a) \/ issignan_sf(b) THEN {"NV"} ELSE {}
        equal == ~Below(a, b) /\ ~Below(b, a)
        first == IF Below(a, b) \/ (equal /\ SignOf(a) = 1) THEN a ELSE b
    IN  /\ eq_quiet_sf(a, b) = Raise(~nan /\ equal, nv)
        /\ le_sf(a, b) = Raise(~nan /\ ~Below(b, a), IF nan THEN {"NV"} ELSE {})
        /\ lt_sf(a, b) = Raise(~nan /\ Below(a, b), IF nan THEN {"NV"} ELSE {})
        /\ IF nan THEN /\ min_sf(a, b) = max_sf(a, b)
                       /\ min_sf(a, b).f = nv
                       /\ min_sf(a, b).v = (IF isnan_sf(a) /\ isnan_sf(b) THEN F_QNAN
                                            ELSE CHOOSE x \in {a, b} : ~isnan_sf(x))
           ELSE /\ min_sf(a, b) = Exact(first)
                /\ max_sf(a, b) = Exact(IF first = a THEN b ELSE a)
        /\ (fclass_sf(a) = "SNAN") = issignan_sf(a)

IntegersCorrect(a) == \A rm \in RoundingModeEnum, size \in IntSizes, unsigned \in BOOLEAN :
    /\ internal_cvt_sf_i(a, rm, size, unsigned) = RefToInt(a, rm, size, unsigned)
    /\ \A i \in {x \in {a + j * 2^F_SIZE : j \in 0 .. 2^size \div 2^F_SIZE} : x < 2^size} :
           internal_cvt_i_sf(i, rm, size, unsigned) = RefFromInt(i, rm, size, unsigned)

\* a stands for the wide operands whose leading bits it is; of their low bits
\* those on and next to a multiple of 16 are taken
FormatsCorrect(a) ==
    /\ LET wide == cvt_sf32_sf(a).v
       IN  \A rm \in RoundingModeEnum :
               IF isnan_sf(a) THEN W!isnan_sf(wide) ELSE cvt_sf_sf32(wide, rm) = Exact(a)
    /\ \A low \in {x \in 0 .. 2^(W!F_SIZE - F_SIZE) - 1 : x % 16 \in {0, 1, 15}}, rm \in RoundingModeEnum :
           LET x == a * 2^(W!F_SIZE - F_SIZE) + low IN cvt_sf_sf32(x, rm) = RefNarrow(x, rm)
=============================================================================
