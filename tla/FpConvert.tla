------------------------------ MODULE FpConvert ------------------------------
(***************************************************************************)
(* The conversions between two float formats of softfp_template.h: the      *)
(* names without prefix are the narrow format ("sf32" in the code), W! the   *)
(* wide one ("sf").                                                          *)
(***************************************************************************)
EXTENDS SoftFp

CONSTANTS WEXP_SIZE, WMANT_SIZE

\* "the target float is large enough so that no normalization is necessary",
\* and the shift of cvt_sf_sf32 is not negative
ASSUME WideAssumption == WEXP_SIZE > EXP_SIZE /\ WMANT_SIZE >= F_SIZE - 2

W == INSTANCE SoftFp WITH EXP_SIZE <- WEXP_SIZE, MANT_SIZE <- WMANT_SIZE

cvt_sf32_sf(a) ==
    LET m == Significand(a)
        e == m.e - EXP_MASK \div 2 + W!EXP_MASK \div 2
    IN  IF isnan_sf(a) THEN Raise(W!F_QNAN, IF issignan_sf(a) THEN {"NV"} ELSE {})
        ELSE IF IsInf(a) THEN Exact(W!pack_sf(SignOf(a), W!EXP_MASK, 0))
        ELSE IF IsZero(a) THEN Exact(W!pack_sf(SignOf(a), 0, 0))
        ELSE Exact(W!pack_sf(SignOf(a), e, m.m * 2^(WMANT_SIZE - MANT_SIZE)))

\* of a subnormal operand the code takes the exponent of
\* normalize_subnormal_sf and drops the mantissa it returns
cvt_sf_sf32(a, rm) ==
    LET mant == IF W!ExpOf(a) = 0 THEN W!MantOf(a) ELSE W!HiddenBit(a).m
        e == W!Significand(a).e - W!EXP_MASK \div 2 + EXP_MASK \div 2
    IN  IF W!isnan_sf(a) THEN Raise(F_QNAN, IF W!issignan_sf(a) THEN {"NV"} ELSE {})
        ELSE IF W!IsInf(a) THEN Exact(pack_sf(W!SignOf(a), EXP_MASK, 0))
        ELSE IF W!IsZero(a) THEN Exact(pack_sf(W!SignOf(a), 0, 0))
        ELSE normalize_sf(W!SignOf(a), e, W!rshift_rnd(mant, WMANT_SIZE - (F_SIZE - 2)), rm)
=============================================================================
