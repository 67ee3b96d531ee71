---------------------------- MODULE MCFunctions ----------------------------
(***************************************************************************)
(* Runs the pure functions of the program over bounded inputs and compares *)
(* them with their reference definitions.  A state names a function and    *)
(* its first operand; a step goes to the next operand, and the invariants  *)
(* range over the remaining operands and the rounding modes.               *)
(***************************************************************************)
EXTENDS FpReference, Alu

Compressed == INSTANCE Compressed

DescChain == INSTANCE DescChain WITH MaxLen <- 2

SetAttr == INSTANCE SetAttr

Marshal == INSTANCE Marshal WITH BYTE <- 4

Vector == INSTANCE VectorArith WITH VLENB <- 8, INT <- 8

MCOperands == {x \in Floats : ExpOf(x) \in {0, 1, 15, 30, 31} /\ MantOf(x) \in {0, 11}}

MCFmaOperands == {x \in Floats : ExpOf(x) \in {0, 1, 16, 31} /\ MantOf(x) \in {0, 1, 11}}

Operators == [ add |-> 2^F_SIZE, mul |-> 2^F_SIZE, div |-> 2^F_SIZE, fma |-> 2^F_SIZE, root |-> 2^F_SIZE,
               compare |-> 2^F_SIZE, integers |-> 2^F_SIZE, formats |-> 2^F_SIZE,
               alu |-> 2^XLEN, encoding |-> 128, compressed |-> 24, hint |-> 32,
               chain |-> DescChain!Chains, setattr |-> 32, marshal |-> Marshal!Formats,
               vset |-> 28, elements |-> 28, sums |-> 64 ]

\* First operands at both ends of the exponents and near those of the second
\* ones: in between only the difference of the exponents matters.
MCExponents == {0, 1, 11, 15, 16, 19, 30, 31}

MCFmaExponents == {0, 1, 11, 15, 16, 31}

\* Where a conversion to 4 or to 12 bits begins and ends to be exact.
MCIntExponents == {0, 1, 13, 14, 15, 16, 18, 19, 26, 27, 31}

\* Where narrowing underflows, is exact and overflows.
MCWideExponents == {0, 1, 5, 6, 7, 15, 22, 23, 24, 31}

VARIABLE input

FnInit == input \in [fn : DOMAIN Operators, a : {0}]

FnNext == input' = [input EXCEPT !.a = (@ + 1) % Operators[input.fn]]

Holds(fn, Property(_)) == input.fn = fn => Property(input.a)

HoldsFp(fn, exponents, Property(_)) ==
    input.fn = fn /\ ExpOf(input.a) \in exponents => Property(input.a)

\* Every operation of the software floating point returns the correctly rounded
\* result with the right flags, in every rounding mode, subnormals, infinities
\* and NaNs included; fma_sf rounds once; comparisons agree with the order of
\* the values; conversions to integers saturate, and widening is exact.
FloatingPointRounds ==
    /\ HoldsFp("add", MCExponents, AddCorrect)
    /\ HoldsFp("mul", MCExponents, MulCorrect)
    /\ HoldsFp("div", MCExponents, DivCorrect)
    /\ HoldsFp("fma", MCFmaExponents, FmaCorrect)
    /\ Holds("root", SqrtCorrect)
    /\ Holds("compare", CompareCorrect)
    /\ HoldsFp("integers", MCIntExponents, IntegersCorrect)
    /\ HoldsFp("formats", MCWideExponents, FormatsCorrect)

\* The instructions do what the instruction set says: division, high and
\* carry-less products, immediate forms and branches are exact; extensions leave the base
\* encodings alone (except that Zbb makes sra illegal) and no operation has two;
\* the compressed quadrants use every bit once, are illegal with fs = 0 exactly
\* if they are floating-point, and report the return-address hints of Table
\* 2.1; vset leaves a vl that fits its vtype; and the vector integer loop pairs
\* the right elements, overwrites none early and adds every width exactly.
InstructionsExact ==
    /\ Holds("alu", ArithmeticCorrect)
    /\ Holds("alu", ImmediatesCorrect)
    /\ Holds("alu", BranchesSplit)
    /\ Holds("encoding", EncodingsConservative)
    /\ Holds("encoding", EncodingsUnambiguous)
    /\ Holds("encoding", ImmediatesConservative)
    /\ Holds("compressed", Compressed!ExpansionExact)
    /\ Holds("compressed", Compressed!FsGuardsFloats)
    /\ Holds("hint", Compressed!HintsFollowTable)
    /\ Holds("vset", Vector!VsetExact)
    /\ Holds("elements", Vector!ElementsExact)
    /\ Holds("sums", Vector!ElementSumsExact)

\* Copies to and from a chain of virtio descriptors move exactly the bytes of
\* the requested range; the 9p codec reads back what it writes and refuses every
\* truncated message; a setattr sets exactly the attributes asked for, and a
\* failing one has done a prefix of its host calls.
RequestsExact ==
    /\ Holds("chain", DescChain!ChainCopyExact)
    /\ Holds("marshal", Marshal!RoundTrip)
    /\ Holds("setattr", SetAttr!SetAttrExact)
=============================================================================
