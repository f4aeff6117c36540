----------------------------- MODULE FloatCode -----------------------------
(***************************************************************************)
(* The code the translator emits for floating point instructions whose     *)
(* result the standard fixes to the bit: min, max, the quieting of NaNs,   *)
(* and the truncations that trap or saturate.  A float is its three fields,*)
(* of any width; the comparisons of LLVM are given by their IEEE meaning.  *)
(***************************************************************************)
EXTENDS PowersOfTwo

CONSTANTS
    MaxExponent, \* sMaxExponent: infinities and NaNs have this exponent
    MaxMantissa, \* sMantissaMask
    QuietBit,    \* sQuietNan
    Ranges       \* the integer types truncated to: <<min, max>>

ASSUME FormatAssumption ==
    /\ MaxExponent \in Nat \ {0, 1} /\ MaxMantissa \in Nat \ {0}
    /\ QuietBit \in 1 .. MaxMantissa /\ MaxMantissa + 1 = 2 * QuietBit

Floats == [sign : {0, 1}, exponent : 0 .. MaxExponent, mantissa : 0 .. MaxMantissa]

IsNan(x) == x.exponent = MaxExponent /\ x.mantissa # 0
IsZero(x) == x.exponent = 0 /\ x.mantissa = 0
Signalling(x) == IsNan(x) /\ x.mantissa < QuietBit

Smaller(x, y) ==
    x.exponent < y.exponent \/ (x.exponent = y.exponent /\ x.mantissa < y.mantissa)

-----------------------------------------------------------------------------
(* LLVMBuildFCmp and LLVMBuildICmp.                                        *)

RealUNO(x, y) == IsNan(x) \/ IsNan(y)
RealOLT(x, y) ==
    /\ ~RealUNO(x, y)
    /\ ~(IsZero(x) /\ IsZero(y))
    /\ \/ x.sign = 1 /\ y.sign = 0
       \/ x.sign = 0 /\ y.sign = 0 /\ Smaller(x, y)
       \/ x.sign = 1 /\ y.sign = 1 /\ Smaller(y, x)
RealOGT(x, y) == RealOLT(y, x)
RealOLE(x, y) == ~RealUNO(x, y) /\ ~RealOLT(y, x)
RealOGE(x, y) == RealOLE(y, x)

\* The unsigned comparison of the two bit patterns.
IntULT(x, y) == x.sign < y.sign \/ (x.sign = y.sign /\ Smaller(x, y))
IntUGT(x, y) == IntULT(y, x)

-----------------------------------------------------------------------------
(* The emitted code.                                                       *)

\* emit_quiet_nan: the payload is dropped, the sign stays.
QuietNan(x) == [x EXCEPT !.mantissa = QuietBit]

\* Mutant: the bit patterns are not compared.
MinOfValues(lhs, rhs) ==
    IF RealUNO(rhs, rhs) THEN QuietNan(rhs)
    ELSE IF RealUNO(lhs, lhs) THEN QuietNan(lhs)
    ELSE IF RealOLT(lhs, rhs) THEN lhs ELSE rhs
Minimum(lhs, rhs) ==
    IF RealUNO(rhs, rhs) THEN QuietNan(rhs)
    ELSE IF RealUNO(lhs, lhs) THEN QuietNan(lhs)
    ELSE IF RealOLT(lhs, rhs) THEN lhs
    ELSE IF RealOGT(lhs, rhs) THEN rhs
    ELSE IF IntUGT(lhs, rhs) THEN lhs ELSE rhs
Maximum(lhs, rhs) ==
    IF RealUNO(rhs, rhs) THEN QuietNan(rhs)
    ELSE IF RealUNO(lhs, lhs) THEN QuietNan(lhs)
    ELSE IF RealOGT(lhs, rhs) THEN lhs
    ELSE IF RealOLT(lhs, rhs) THEN rhs
    ELSE IF IntULT(lhs, rhs) THEN lhs ELSE rhs

\* clear_nan after an arithmetic instruction, whose NaN LLVM leaves open: the
\* quiet bit is set, the payload stays.
Quieted(x) == [x EXCEPT !.mantissa = IF @ < QuietBit THEN @ + QuietBit ELSE @]
\* Mutant: an infinity is taken for a NaN.
ClearNanByExponent(x) == IF x.exponent = MaxExponent THEN Quieted(x) ELSE x
ClearNan(x) == IF x.mantissa # 0 /\ x.exponent = MaxExponent THEN Quieted(x) ELSE x

\* emit_quiet_nan_or_intrinsic: ceil, floor, trunc and nearest.
QuietNanOr(x, intrinsic) == IF ~RealUNO(x, x) THEN intrinsic ELSE QuietNan(x)

\* sqrt is what the intrinsic computes: nothing filters it.
Sqrt(x, intrinsic) == intrinsic

\* LLVMConstReal takes a double: the float that initialises a global is
\* converted to one, which quiets a NaN; a double is passed as it is.
InitF32(x) == IF IsNan(x) THEN Quieted(x) ELSE x
InitF64(x) == x

-----------------------------------------------------------------------------
(* Truncations, to the integers from min to max.                           *)

Bias == MaxExponent \div 2
\* The magnitude of a finite float, in units of the smallest one, and what 1.0
\* is in these units.
Scaled(x) ==
    IF x.exponent = 0 THEN x.mantissa
    ELSE (MaxMantissa + 1 + x.mantissa) * Power[x.exponent - 1]
One == (MaxMantissa + 1) * Power[Bias - 1]
FPToInt(x) == IF x.sign = 1 THEN -(Scaled(x) \div One) ELSE Scaled(x) \div One

Finite == {x \in Floats : x.exponent # MaxExponent}
\* The bounds written in the code: OMIN is the largest float at most min - 1,
\* OMAX is max + 1.
AtMost(n) == {x \in Finite : x.sign = 1 /\ Scaled(x) >= n * One}
OMIN == [range \in Ranges |->
            LET below == AtMost(1 - range[1])
            IN  CHOOSE x \in below : \A y \in below : Scaled(x) <= Scaled(y)]
OMAX == [range \in Ranges |-> CHOOSE x \in Finite : x.sign = 0 /\ Scaled(x) = (range[2] + 1) * One]

\* Both are floats of the format.
ASSUME RangesAssumption ==
    \A range \in Ranges :
        /\ range[1] \in Int /\ range[1] <= 0 /\ range[2] \in Nat
        /\ AtMost(1 - range[1]) # {}
        /\ \E x \in Finite : x.sign = 0 /\ Scaled(x) = (range[2] + 1) * One

\* The integers an instruction leaves: none when it traps.
Trap == {}
\* Mutant: the bounds are let through.
TruncOpen(x, range) ==
    IF RealOLT(x, OMIN[range]) \/ RealOGT(x, OMAX[range]) \/ x.exponent = MaxExponent THEN Trap
    ELSE {FPToInt(x)}
Trunc(x, range) ==
    IF RealOLE(x, OMIN[range]) \/ RealOGE(x, OMAX[range]) \/ x.exponent = MaxExponent THEN Trap
    ELSE {FPToInt(x)}

SatTrunc(x, range) ==
    IF IsNan(x) THEN {0}
    ELSE IF RealOGE(x, OMAX[range]) THEN {range[2]}
    ELSE IF RealOLE(x, OMIN[range]) THEN {range[1]}
    ELSE {FPToInt(x)}

-----------------------------------------------------------------------------
(* What the standard asks.                                                 *)

\* The minimum of two numbers is one of them, neither is less, and a zero is
\* negative when one of them is; a NaN gives the canonical NaN.
Canonical(x) == x.exponent = MaxExponent /\ x.mantissa = QuietBit
IsMinimum(z, x, y) ==
    IF IsNan(x) \/ IsNan(y) THEN Canonical(z)
    ELSE /\ z \in {x, y}
         /\ ~RealOLT(x, z) /\ ~RealOLT(y, z)
         /\ IsZero(x) /\ IsZero(y) => z.sign = IF x.sign = 1 \/ y.sign = 1 THEN 1 ELSE 0
IsMaximum(z, x, y) ==
    IF IsNan(x) \/ IsNan(y) THEN Canonical(z)
    ELSE /\ z \in {x, y}
         /\ ~RealOLT(z, x) /\ ~RealOLT(z, y)
         /\ IsZero(x) /\ IsZero(y) => z.sign = IF x.sign = 0 \/ y.sign = 0 THEN 0 ELSE 1

\* A number goes through unchanged; of a NaN the quiet bit is set, and its
\* sign and its payload, the bits below, are kept.
Payload(x) == IF x.mantissa < QuietBit THEN x.mantissa ELSE x.mantissa - QuietBit
OnlyQuiets(z, x) ==
    IF IsNan(x) THEN IsNan(z) /\ ~Signalling(z) /\ z.sign = x.sign /\ Payload(z) = Payload(x)
    ELSE z = x

InRange(x, range) == x.exponent # MaxExponent /\ FPToInt(x) \in range[1] .. range[2]
Clamped(x, range) ==
    CASE IsNan(x)          -> 0
      [] InRange(x, range) -> FPToInt(x)
      [] OTHER             -> range[2 - x.sign]
=============================================================================
