------------------------------- MODULE SoftFp -------------------------------
(***************************************************************************)
(* The software floating point of softfp_template.h, softfp_template_icvt.h *)
(* and softfp.cpp.  The C++ code is a template over F_SIZE, included for    *)
(* 32, 64 and 128 bits; this module is the same template over the sizes of  *)
(* the two fields.  A float is its bit pattern, an integer in               *)
(* 0 .. 2^F_SIZE-1.  Where the code ors bits into *pfflags, an operation    *)
(* here returns the record [v |-> result, f |-> set of flags raised]; a     *)
(* failing assert() raises the flag "assert".                               *)
(***************************************************************************)
EXTENDS Integers

CONSTANTS EXP_SIZE,   \* bits of the exponent field
          MANT_SIZE   \* bits of the mantissa field

\* add_sf needs room for the hidden bit, three guard bits and a carry in
\* F_SIZE - 1 bits, or the assert of normalize_sf fails.
ASSUME SizesAssumption == EXP_SIZE \in Nat /\ EXP_SIZE >= 5 /\ MANT_SIZE \in Nat /\ MANT_SIZE >= 2

F_SIZE == 1 + EXP_SIZE + MANT_SIZE
EXP_MASK == 2^EXP_SIZE - 1
MANT_MASK == 2^MANT_SIZE - 1
SIGN_MASK == 2^(F_SIZE - 1)
RND_SIZE == (F_SIZE - 2) - MANT_SIZE
F_QNAN == EXP_MASK * 2^MANT_SIZE + 2^(MANT_SIZE - 1)

Floats == 0 .. 2^F_SIZE - 1
RoundingModeEnum == {"RNE", "RTZ", "RDN", "RUP", "RMM"}

F_UINT(x) == x % 2^F_SIZE
SignOf(a) == a \div SIGN_MASK
ExpOf(a) == (a \div 2^MANT_SIZE) % 2^EXP_SIZE
MantOf(a) == a % 2^MANT_SIZE

Exact(v) == [v |-> v, f |-> {}]
Raise(v, flags) == [v |-> v, f |-> flags]

\* x | (c != 0): the sticky bit
Sticky(x, c) == IF c /= 0 /\ x % 2 = 0 THEN x + 1 ELSE x

clz(size, a) ==
    IF a = 0 THEN size ELSE CHOOSE n \in 0 .. size - 1 : 2^(size - 1 - n) <= a /\ a < 2^(size - n)

pack_sf(sign, exp, mant) == sign * SIGN_MASK + exp * 2^MANT_SIZE + (mant % 2^MANT_SIZE)

\* Mutant: the bits shifted out leave no sticky bit.
MutRshift(a, d) == IF d >= F_SIZE THEN 0 ELSE a \div 2^d

rshift_rnd(a, d) ==
    IF d >= F_SIZE THEN (IF a /= 0 THEN 1 ELSE 0) ELSE Sticky(a \div 2^d, a % 2^d)

-----------------------------------------------------------------------------
(* Rounding and normalisation *)

Addend(sign, rm) ==
    CASE rm \in {"RNE", "RMM"} -> 2^(RND_SIZE - 1)
      [] rm = "RTZ" -> 0
      [] rm = "RDN" -> IF sign = 1 THEN 2^RND_SIZE - 1 ELSE 0
      [] rm = "RUP" -> IF sign = 0 THEN 2^RND_SIZE - 1 ELSE 0

\* (m + addend) >> RND_SIZE, a half-way case going to the even neighbour under RNE
RoundOff(m, sign, rm) ==
    LET q == (m + Addend(sign, rm)) \div 2^RND_SIZE
    IN  IF rm = "RNE" /\ m % 2^RND_SIZE = 2^(RND_SIZE - 1) THEN q - (q % 2) ELSE q

\* mant has its most significant bit at F_SIZE - 2
round_pack_sf(sign, exp, mant, rm) ==
    LET addend == Addend(sign, rm)
        is_subnormal == exp < 0 \/ (exp = 0 /\ mant + addend < 2^(F_SIZE - 1))
        m == IF exp <= 0 THEN rshift_rnd(mant, 1 - exp) ELSE mant
        inexact == m % 2^RND_SIZE /= 0
        r == RoundOff(m, sign, rm)
        e == (IF exp <= 0 THEN 1 ELSE exp) + r \div 2^(MANT_SIZE + 1)
        flags == (IF inexact THEN {"NX"} ELSE {}) \cup (IF inexact /\ is_subnormal THEN {"UF"} ELSE {})
    IN  IF r <= MANT_MASK THEN Raise(pack_sf(sign, 0, r), flags)
        ELSE IF e < EXP_MASK THEN Raise(pack_sf(sign, e, r), flags)
        ELSE Raise(IF addend = 0 THEN pack_sf(sign, EXP_MASK - 1, MANT_MASK) ELSE pack_sf(sign, EXP_MASK, 0),
                   flags \cup {"OF", "NX"})

normalize_sf(sign, exp, mant, rm) ==
    LET shift == clz(F_SIZE, mant) - 1
    IN  IF shift < 0 THEN Raise(0, {"assert"})
        ELSE round_pack_sf(sign, exp - shift, F_UINT(mant * 2^shift), rm)

\* the double word mantissa mant1:mant0
normalize2_sf(sign, exp, mant1, mant0, rm) ==
    LET shift == (IF mant1 = 0 THEN F_SIZE + clz(F_SIZE, mant0) ELSE clz(F_SIZE, mant1)) - 1
        m1 == IF shift = 0 THEN Sticky(mant1, mant0)
              ELSE IF shift < F_SIZE
              THEN Sticky(F_UINT(mant1 * 2^shift) + mant0 \div 2^(F_SIZE - shift), F_UINT(mant0 * 2^shift))
              ELSE F_UINT(mant0 * 2^(shift - F_SIZE))
    IN  IF shift < 0 THEN Raise(0, {"assert"}) ELSE round_pack_sf(sign, exp - shift, m1, rm)

issignan_sf(a) == ExpOf(a) = EXP_MASK /\ MantOf(a) \in 1 .. 2^(MANT_SIZE - 1) - 1
isnan_sf(a) == ExpOf(a) = EXP_MASK /\ MantOf(a) /= 0

\* the default NaN, invalid when one of the operands signals
QuietNaN(operands) == Raise(F_QNAN, IF \E x \in operands : issignan_sf(x) THEN {"NV"} ELSE {})
Invalid == Raise(F_QNAN, {"NV"})

\* the significand with its hidden bit, and the exponent it goes with: a
\* subnormal keeps the exponent 1, or is shifted up by normalize_subnormal_sf
HiddenBit(a) == IF ExpOf(a) = 0 THEN [e |-> 1, m |-> MantOf(a)]
                ELSE [e |-> ExpOf(a), m |-> MantOf(a) + 2^MANT_SIZE]
\* Mutant: the exponent is not adjusted for the shift.
MutSubnormal(mant) ==
    LET shift == MANT_SIZE - (F_SIZE - 1 - clz(F_SIZE, mant)) IN [e |-> 1, m |-> mant * 2^shift]

normalize_subnormal_sf(mant) ==
    LET shift == MANT_SIZE - (F_SIZE - 1 - clz(F_SIZE, mant))
    IN  [e |-> 1 - shift, m |-> mant * 2^shift]
Significand(a) == IF ExpOf(a) = 0 THEN normalize_subnormal_sf(MantOf(a)) ELSE HiddenBit(a)
IsZero(a) == a % SIGN_MASK = 0
IsInf(a) == ExpOf(a) = EXP_MASK /\ MantOf(a) = 0

-----------------------------------------------------------------------------
(* Arithmetic *)

\* the magnitudes ordered, so that abs(a) >= abs(b)
AddOrdered(a, b, rm) ==
    LET ma == HiddenBit(a)
        mb == HiddenBit(b)
        am == ma.m * 8
        bm == rshift_rnd(mb.m * 8, ma.e - mb.e)
        same == SignOf(a) = SignOf(b)
        m == IF same THEN am + bm ELSE am - bm
        sign == IF ~same /\ m = 0 THEN (IF rm = "RDN" THEN 1 ELSE 0) ELSE SignOf(a)
    IN  IF isnan_sf(a)
        THEN Raise(F_QNAN, IF issignan_sf(a) \/ issignan_sf(b) THEN {"NV"} ELSE {})
        ELSE IF IsInf(a) THEN (IF ExpOf(b) = EXP_MASK /\ ~same THEN Invalid ELSE Exact(a))
        ELSE normalize_sf(sign, ma.e + (RND_SIZE - 3), m, rm)

add_sf(a, b, rm) ==
    IF a % SIGN_MASK < b % SIGN_MASK THEN AddOrdered(b, a, rm) ELSE AddOrdered(a, b, rm)

Negate(a) == IF a >= SIGN_MASK THEN a - SIGN_MASK ELSE a + SIGN_MASK
sub_sf(a, b, rm) == add_sf(a, Negate(b), rm)

\* Mutant: the low word of the product is lost.
MutMul(a, b) == [hi |-> (a * b) \div 2^F_SIZE, lo |-> 0]

\* the two words of a product
mul_u(a, b) == [hi |-> (a * b) \div 2^F_SIZE, lo |-> (a * b) % 2^F_SIZE]

mul_sf(a, b, rm) ==
    LET r_sign == (SignOf(a) + SignOf(b)) % 2
        ma == Significand(a)
        mb == Significand(b)
        p == mul_u(ma.m * 2^RND_SIZE, mb.m * 2^(RND_SIZE + 1))
    IN  IF isnan_sf(a) \/ isnan_sf(b) THEN QuietNaN({a, b})
        ELSE IF IsInf(a) \/ IsInf(b)
        THEN (IF IsZero(a) \/ IsZero(b) THEN Invalid ELSE Exact(pack_sf(r_sign, EXP_MASK, 0)))
        ELSE IF IsZero(a) \/ IsZero(b) THEN Exact(pack_sf(r_sign, 0, 0))
        ELSE normalize_sf(r_sign, ma.e + mb.e - 2^(EXP_SIZE - 1) + 2, Sticky(p.hi, p.lo), rm)

\* Mutant: the bits shifted out of the double word are dropped.
MutAlign(hi, lo, shift) ==
    LET w == IF shift >= 2 * F_SIZE THEN 0 ELSE (hi * 2^F_SIZE + lo) \div 2^shift
    IN  [hi |-> w \div 2^F_SIZE, lo |-> w % 2^F_SIZE]

\* c_mant >> shift over the double word hi:lo, with the sticky bit
Align(hi, lo, shift) ==
    CASE shift >= 2 * F_SIZE -> [hi |-> 0, lo |-> IF hi + lo /= 0 THEN 1 ELSE 0]
      [] shift >= F_SIZE + 1 /\ shift < 2 * F_SIZE -> [hi |-> 0, lo |-> rshift_rnd(hi, shift - F_SIZE)]
      [] shift = F_SIZE -> [hi |-> 0, lo |-> Sticky(hi, lo)]
      [] shift < F_SIZE -> [hi |-> hi \div 2^shift,
                            lo |-> Sticky(F_UINT(hi * 2^(F_SIZE - shift)) + lo \div 2^shift, lo % 2^shift)]

\* the sum of two double word terms [s, e, hi, lo], the larger first
AddTerms(r, c, rm) ==
    LET al == Align(c.hi, c.lo, r.e - c.e)
        lo == F_UINT(IF r.s = c.s THEN r.lo + al.lo ELSE r.lo - al.lo)
        hi == F_UINT(IF r.s = c.s THEN r.hi + al.hi + (IF lo < al.lo THEN 1 ELSE 0)
                     ELSE r.hi - al.hi - (IF lo > r.lo THEN 1 ELSE 0))
        sign == IF r.s /= c.s /\ hi = 0 /\ lo = 0 THEN (IF rm = "RDN" THEN 1 ELSE 0) ELSE r.s
    IN  normalize2_sf(sign, r.e, hi, lo, rm)

fma_sf(a, b, c, rm) ==
    LET r_sign == (SignOf(a) + SignOf(b)) % 2
        ma == Significand(a)
        mb == Significand(b)
        mc == Significand(c)
        e0 == ma.e + mb.e - 2^(EXP_SIZE - 1) + 3
        p0 == mul_u(ma.m * 2^RND_SIZE, mb.m * 2^RND_SIZE)
        r == IF p0.hi < 2^(F_SIZE - 3)
             THEN [s |-> r_sign, e |-> e0 - 1, hi |-> 2 * p0.hi + p0.lo \div 2^(F_SIZE - 1), lo |-> F_UINT(2 * p0.lo)]
             ELSE [s |-> r_sign, e |-> e0, hi |-> p0.hi, lo |-> p0.lo]
        t == [s |-> SignOf(c), e |-> mc.e + 1, hi |-> mc.m * 2^(RND_SIZE - 1), lo |-> 0]
    IN  IF (IsZero(a) /\ IsInf(b)) \/ (IsZero(b) /\ IsInf(a)) THEN Invalid
        ELSE IF isnan_sf(a) \/ isnan_sf(b) \/ isnan_sf(c) THEN QuietNaN({a, b, c})
        ELSE IF (IsInf(a) \/ IsInf(b)) /\ IsInf(c) /\ r_sign /= SignOf(c) THEN Invalid
        ELSE IF IsInf(c) THEN Exact(pack_sf(SignOf(c), EXP_MASK, 0))
        ELSE IF IsInf(a) \/ IsInf(b) THEN Exact(pack_sf(r_sign, EXP_MASK, 0))
        ELSE IF IsZero(a) \/ IsZero(b)
        THEN Exact(IF ~IsZero(c) THEN c
                   ELSE IF SignOf(c) /= r_sign THEN pack_sf(IF rm = "RDN" THEN 1 ELSE 0, 0, 0)
                   ELSE pack_sf(r_sign, 0, 0))
        ELSE IF IsZero(c) THEN normalize_sf(r.s, r.e, Sticky(r.hi, r.lo), rm)
        ELSE IF r.e > t.e \/ (r.e = t.e /\ r.hi >= t.hi) THEN AddTerms(r, t, rm)
        ELSE AddTerms(t, r, rm)

\* Mutant: the remainder is not reported.
MutDivrem(ah, al, b) == [q |-> (ah * 2^F_SIZE + al) \div b, r |-> 0]

divrem_u(ah, al, b) == [q |-> (ah * 2^F_SIZE + al) \div b, r |-> (ah * 2^F_SIZE + al) % b]

div_sf(a, b, rm) ==
    LET r_sign == (SignOf(a) + SignOf(b)) % 2
        ma == Significand(a)
        mb == Significand(b)
        d == divrem_u(ma.m, 0, mb.m * 4)
    IN  IF isnan_sf(a) \/ isnan_sf(b) THEN QuietNaN({a, b})
        ELSE IF IsInf(a) THEN (IF IsInf(b) THEN Invalid ELSE Exact(pack_sf(r_sign, EXP_MASK, 0)))
        ELSE IF IsInf(b) THEN Exact(pack_sf(r_sign, 0, 0))
        ELSE IF IsZero(b)
        THEN (IF IsZero(a) THEN Invalid ELSE Raise(pack_sf(r_sign, EXP_MASK, 0), {"DZ"}))
        ELSE IF IsZero(a) THEN Exact(pack_sf(r_sign, 0, 0))
        ELSE normalize_sf(r_sign, ma.e - mb.e + 2^(EXP_SIZE - 1) - 1, Sticky(F_UINT(d.q), d.r), rm)

\* Newton's iteration on a 2 * F_SIZE bit number, from a power of two above
\* the root, until the estimate stops falling: the sequence is followed with
\* a recursive function over the estimates
SqrtFrom(a, u0) ==
    LET newton[s \in 0 .. u0] == LET u == ((a \div s) + s) \div 2 IN IF u >= s THEN s ELSE newton[u]
    IN  newton[u0]

\* Mutant: the root is always reported exact.
MutSqrtrem(ah) ==
    LET l == 2 * F_SIZE - clz(F_SIZE, ah - 1)
    IN  [root |-> SqrtFrom(ah * 2^F_SIZE, 2^((l + 1) \div 2)), inexact |-> 0]

\* al is 0 in the only call
sqrtrem_u(ah) ==
    LET a == ah * 2^F_SIZE
        l == 2 * F_SIZE - clz(F_SIZE, ah - 1)
        s == SqrtFrom(a, 2^((l + 1) \div 2))
    IN  [root |-> s, inexact |-> IF a = s * s THEN 0 ELSE 1]

sqrt_sf(a, rm) ==
    LET ma == Significand(a)
        e0 == ma.e - EXP_MASK \div 2
        odd == e0 % 2
        e1 == (e0 - odd) \div 2 + EXP_MASK \div 2
        s == sqrtrem_u((ma.m * 2^odd) * 2^(F_SIZE - 4 - MANT_SIZE))
    IN  IF isnan_sf(a) THEN QuietNaN({a})
        ELSE IF IsZero(a) THEN Exact(a)
        ELSE IF SignOf(a) = 1 THEN Invalid
        ELSE IF IsInf(a) THEN Exact(a)
        ELSE normalize_sf(0, e1, Sticky(s.root, s.inexact), rm)

-----------------------------------------------------------------------------
(* Comparisons and classification *)

NanFlags(a, b) == IF issignan_sf(a) \/ issignan_sf(b) THEN {"NV"} ELSE {}
NotNan(a, b) == IF ~isnan_sf(a) THEN a ELSE IF ~isnan_sf(b) THEN b ELSE F_QNAN

\* Mutant: negative operands are ordered like positive ones.
MutPrecedes(a, b) == IF SignOf(a) /= SignOf(b) THEN SignOf(a) = 1 ELSE a < b

\* the signs differ: the negative one; else the order of the bit patterns,
\* reversed for negative operands
Precedes(a, b) == IF SignOf(a) /= SignOf(b) THEN SignOf(a) = 1 ELSE (a < b) /= (SignOf(a) = 1)

min_sf(a, b) == IF isnan_sf(a) \/ isnan_sf(b) THEN Raise(NotNan(a, b), NanFlags(a, b))
                ELSE Exact(IF Precedes(a, b) THEN a ELSE b)
max_sf(a, b) == IF isnan_sf(a) \/ isnan_sf(b) THEN Raise(NotNan(a, b), NanFlags(a, b))
                ELSE Exact(IF Precedes(a, b) THEN b ELSE a)

eq_quiet_sf(a, b) == IF isnan_sf(a) \/ isnan_sf(b) THEN Raise(FALSE, NanFlags(a, b))
                     ELSE Exact((IsZero(a) /\ IsZero(b)) \/ a = b)
le_sf(a, b) == IF isnan_sf(a) \/ isnan_sf(b) THEN Raise(FALSE, {"NV"})
               ELSE Exact(IF SignOf(a) /= SignOf(b) THEN SignOf(a) = 1 \/ (IsZero(a) /\ IsZero(b))
                          ELSE IF SignOf(a) = 1 THEN a >= b ELSE a <= b)
lt_sf(a, b) == IF isnan_sf(a) \/ isnan_sf(b) THEN Raise(FALSE, {"NV"})
               ELSE Exact(IF SignOf(a) /= SignOf(b) THEN SignOf(a) = 1 /\ ~(IsZero(a) /\ IsZero(b))
                          ELSE IF SignOf(a) = 1 THEN a > b ELSE a < b)

\* the bit of fclass that is set
fclass_sf(a) ==
    LET signed(neg, pos) == IF SignOf(a) = 1 THEN neg ELSE pos
    IN  IF ExpOf(a) = EXP_MASK
        THEN (IF MantOf(a) = 0 THEN signed("NINF", "PINF")
              ELSE IF MantOf(a) >= 2^(MANT_SIZE - 1) THEN "QNAN" ELSE "SNAN")
        ELSE IF ExpOf(a) = 0
        THEN (IF MantOf(a) = 0 THEN signed("NZERO", "PZERO") ELSE signed("NSUBNORMAL", "PSUBNORMAL"))
        ELSE signed("NNORMAL", "PNORMAL")

-----------------------------------------------------------------------------
(* Conversions to and from integers of ICVT_SIZE bits.  The result of       *)
(* internal_cvt_sf_i is the integer as a pattern of ICVT_SIZE bits.          *)

internal_cvt_sf_i(a, rm, ICVT_SIZE, is_unsigned) ==
    LET sign == IF isnan_sf(a) THEN 0 ELSE SignOf(a)
        e == HiddenBit(a).e - EXP_MASK \div 2 - MANT_SIZE
        m == HiddenBit(a).m * 2^RND_SIZE
        r_max == IF is_unsigned THEN (sign - 1) % 2^ICVT_SIZE ELSE 2^(ICVT_SIZE - 1) - (1 - sign)
        shifted == rshift_rnd(m, -e)
        r == IF e >= 0 THEN HiddenBit(a).m * 2^e ELSE RoundOff(shifted, sign, rm)
        overflow == r > r_max \/ (e >= 0 /\ e > ICVT_SIZE - 1 - MANT_SIZE)
        flags == IF e < 0 /\ shifted % 2^RND_SIZE /= 0 THEN {"NX"} ELSE {}
    IN  IF overflow THEN Raise(r_max, {"NV"})
        ELSE Raise(IF sign = 1 THEN (-r) % 2^ICVT_SIZE ELSE r, flags)

\* Mutant: the bits of a wide integer below the mantissa are dropped.
MutIntToFloat(a, rm, ICVT_SIZE, is_unsigned) ==
    LET negative == ~is_unsigned /\ a >= 2^(ICVT_SIZE - 1)
        r == IF negative THEN 2^ICVT_SIZE - a ELSE a
        l == ICVT_SIZE - clz(ICVT_SIZE, r) - (F_SIZE - 1)
        shift == IF l > 0 THEN l ELSE 0
    IN  normalize_sf(IF negative THEN 1 ELSE 0, EXP_MASK \div 2 + F_SIZE - 2 + shift, r \div 2^shift, rm)

\* a is the pattern of ICVT_SIZE bits
internal_cvt_i_sf(a, rm, ICVT_SIZE, is_unsigned) ==
    LET negative == ~is_unsigned /\ a >= 2^(ICVT_SIZE - 1)
        r == IF negative THEN 2^ICVT_SIZE - a ELSE a
        l == ICVT_SIZE - clz(ICVT_SIZE, r) - (F_SIZE - 1)
        e == EXP_MASK \div 2 + F_SIZE - 2
    IN  IF l > 0 THEN normalize_sf(IF negative THEN 1 ELSE 0, e + l, Sticky(r \div 2^l, r % 2^l), rm)
        ELSE normalize_sf(IF negative THEN 1 ELSE 0, e, r, rm)
=============================================================================
