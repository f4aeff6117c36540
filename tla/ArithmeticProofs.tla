-------------------------- MODULE ArithmeticProofs --------------------------
(***************************************************************************)
(* Numeric instructions and immediates, for every size of them.  The       *)
(* minimum, the maximum and the quieting of NaNs are exact for every float *)
(* format.  Immediates are read for what they mean, for groups of any      *)
(* number of bits, types of any width and any number of bytes.             *)
(* Truncations trap or saturate out of the range of their type and only    *)
(* there, for every float format and every type of which the two bounds    *)
(* the code compares with are floats.  Shifts, rotations, divisions and    *)
(* remainders are exact on words of any power of two of bits.              *)
(***************************************************************************)
EXTENDS Arithmetic, SequenceTheorems, WellFoundedInduction, TLAPS

-----------------------------------------------------------------------------
(* Floats.                                                                 *)

\* The fields of a float are natural numbers.
LEMMA Fields ==
    ASSUME NEW x \in Floats
    PROVE  /\ x.sign \in {0, 1} /\ x.exponent \in Nat /\ x.mantissa \in Nat
           /\ x.exponent <= MaxExponent /\ x.mantissa <= MaxMantissa
           /\ x = [sign |-> x.sign, exponent |-> x.exponent, mantissa |-> x.mantissa]
BY FormatAssumption DEF Floats

\* Two numbers of which neither is less are equal, or both are zeros.
LEMMA EqualOrZeros ==
    ASSUME NEW x \in Floats, NEW y \in Floats, ~RealUNO(x, y), ~RealOLT(x, y), ~RealOLT(y, x)
    PROVE  (IsZero(x) /\ IsZero(y)) \/ x = y
PROOF
  <1> SUFFICES ASSUME ~(IsZero(x) /\ IsZero(y)) PROVE x = y
    OBVIOUS
  <1>1. x.sign = y.sign
    BY Fields DEF RealOLT, RealUNO
  <1>2. ~Smaller(x, y) /\ ~Smaller(y, x)
    BY <1>1, Fields DEF RealOLT, RealUNO
  <1>3. x.exponent = y.exponent /\ x.mantissa = y.mantissa
    BY <1>2, Fields DEF Smaller
  <1> QED
    BY <1>1, <1>3, Fields

\* No number is less than itself, and of two only one is less.
LEMMA LessIsStrict ==
    ASSUME NEW x \in Floats, NEW y \in Floats
    PROVE  ~RealOLT(x, x) /\ ~(RealOLT(x, y) /\ RealOLT(y, x))
BY Fields DEF RealOLT, RealUNO, Smaller

\* The bits of two zeros differ in their sign only.
LEMMA ZerosBySign ==
    ASSUME NEW x \in Floats, NEW y \in Floats, IsZero(x), IsZero(y)
    PROVE  IntULT(x, y) <=> x.sign < y.sign
BY Fields DEF IntULT, IsZero, Smaller

\* The quiet form of a NaN.
LEMMA QuietIsCanonical ==
    ASSUME NEW x \in Floats, IsNan(x)
    PROVE  Canonical(QuietNan(x)) /\ QuietNan(x).sign = x.sign
BY Fields DEF Canonical, QuietNan, IsNan

\* The code of min gives the minimum of the standard (module.cpp:583-611).
LEMMA MinimumIsMinimum ==
    ASSUME NEW x \in Floats, NEW y \in Floats
    PROVE  IsMinimum(Minimum(x, y), x, y)
PROOF
  <1>1. CASE IsNan(y)
    BY <1>1, QuietIsCanonical DEF IsMinimum, Minimum, RealUNO
  <1>2. CASE ~IsNan(y) /\ IsNan(x)
    BY <1>2, QuietIsCanonical DEF IsMinimum, Minimum, RealUNO
  <1>3. CASE ~IsNan(y) /\ ~IsNan(x)
    <2>1. ~RealUNO(x, x) /\ ~RealUNO(y, y) /\ ~RealUNO(x, y)
      BY <1>3 DEF RealUNO
    <2>2. ~RealOLT(x, x) /\ ~RealOLT(y, y) /\ ~(RealOLT(x, y) /\ RealOLT(y, x))
      BY LessIsStrict
    <2>3. CASE RealOLT(x, y)
      <3>1. ~(IsZero(x) /\ IsZero(y))
        BY <2>3 DEF RealOLT
      <3> QED
        BY <1>3, <2>1, <2>2, <2>3, <3>1 DEF IsMinimum, Minimum
    <2>4. CASE RealOLT(y, x)
      <3>1. ~(IsZero(x) /\ IsZero(y))
        BY <2>4 DEF RealOLT
      <3> QED
        BY <1>3, <2>1, <2>2, <2>4, <3>1 DEF IsMinimum, Minimum, RealOGT
    <2>5. CASE ~RealOLT(x, y) /\ ~RealOLT(y, x)
      <3>1. Minimum(x, y) = IF IntULT(y, x) THEN x ELSE y
        BY <2>1, <2>5 DEF Minimum, RealOGT, IntUGT
      <3>2. CASE IsZero(x) /\ IsZero(y)
        <4>1. IntULT(y, x) <=> y.sign < x.sign
          BY <3>2, ZerosBySign
        <4>2. x.sign \in {0, 1} /\ y.sign \in {0, 1}
          BY Fields
        <4> QED
          BY <1>3, <2>2, <2>5, <3>1, <3>2, <4>1, <4>2 DEF IsMinimum
      <3>3. CASE x = y
        <4>1. Minimum(x, y) = x
          BY <3>1, <3>3
        <4>2. x.sign \in {0, 1}
          BY Fields
        <4> QED
          BY <1>3, <2>2, <3>3, <4>1, <4>2 DEF IsMinimum
      <3> QED
        BY <2>1, <2>5, <3>2, <3>3, EqualOrZeros
    <2> QED
      BY <2>3, <2>4, <2>5
  <1> QED
    BY <1>1, <1>2, <1>3

\* The code of max gives the maximum of the standard (module.cpp:613-642).
LEMMA MaximumIsMaximum ==
    ASSUME NEW x \in Floats, NEW y \in Floats
    PROVE  IsMaximum(Maximum(x, y), x, y)
PROOF
  <1>1. CASE IsNan(y)
    BY <1>1, QuietIsCanonical DEF IsMaximum, Maximum, RealUNO
  <1>2. CASE ~IsNan(y) /\ IsNan(x)
    BY <1>2, QuietIsCanonical DEF IsMaximum, Maximum, RealUNO
  <1>3. CASE ~IsNan(y) /\ ~IsNan(x)
    <2>1. ~RealUNO(x, x) /\ ~RealUNO(y, y) /\ ~RealUNO(x, y)
      BY <1>3 DEF RealUNO
    <2>2. ~RealOLT(x, x) /\ ~RealOLT(y, y) /\ ~(RealOLT(x, y) /\ RealOLT(y, x))
      BY LessIsStrict
    <2>3. CASE RealOLT(x, y)
      <3>1. ~(IsZero(x) /\ IsZero(y))
        BY <2>3 DEF RealOLT
      <3> QED
        BY <1>3, <2>1, <2>2, <2>3, <3>1 DEF IsMaximum, Maximum, RealOGT
    <2>4. CASE RealOLT(y, x)
      <3>1. ~(IsZero(x) /\ IsZero(y))
        BY <2>4 DEF RealOLT
      <3> QED
        BY <1>3, <2>1, <2>2, <2>4, <3>1 DEF IsMaximum, Maximum, RealOGT
    <2>5. CASE ~RealOLT(x, y) /\ ~RealOLT(y, x)
      <3>1. Maximum(x, y) = IF IntULT(x, y) THEN x ELSE y
        BY <2>1, <2>5 DEF Maximum, RealOGT
      <3>2. CASE IsZero(x) /\ IsZero(y)
        <4>1. IntULT(x, y) <=> x.sign < y.sign
          BY <3>2, ZerosBySign
        <4>2. x.sign \in {0, 1} /\ y.sign \in {0, 1}
          BY Fields
        <4> QED
          BY <1>3, <2>2, <2>5, <3>1, <3>2, <4>1, <4>2 DEF IsMaximum
      <3>3. CASE x = y
        <4>1. Maximum(x, y) = x
          BY <3>1, <3>3
        <4>2. x.sign \in {0, 1}
          BY Fields
        <4> QED
          BY <1>3, <2>2, <3>3, <4>1, <4>2 DEF IsMaximum
      <3> QED
        BY <2>1, <2>5, <3>2, <3>3, EqualOrZeros
    <2> QED
      BY <2>3, <2>4, <2>5
  <1> QED
    BY <1>1, <1>2, <1>3

\* A number goes through clear_nan and the initialiser of a f32 global unchanged,
\* of a NaN only the quiet bit changes (module.cpp:684-689, 732-763).
LEMMA NumbersKept ==
    ASSUME NEW x \in Floats
    PROVE  OnlyQuiets(ClearNan(x), x) /\ OnlyQuiets(InitF32(x), x)
PROOF
  <1>1. CASE IsNan(x)
    <2>1. /\ Quieted(x).exponent = x.exponent /\ Quieted(x).sign = x.sign
          /\ Quieted(x).mantissa = IF x.mantissa < QuietBit THEN x.mantissa + QuietBit ELSE x.mantissa
      BY Fields DEF Quieted
    <2>2. QuietBit \in Nat \ {0} /\ x.mantissa \in Nat
      BY FormatAssumption, Fields
    <2>3. Quieted(x).mantissa >= QuietBit /\ Quieted(x).mantissa \in Nat
      BY <2>1, <2>2
    <2>4. ClearNan(x) = Quieted(x) /\ InitF32(x) = Quieted(x)
      BY <1>1 DEF ClearNan, InitF32, IsNan
    <2>5. IsNan(Quieted(x)) /\ ~Signalling(Quieted(x))
      BY <1>1, <2>1, <2>2, <2>3 DEF IsNan, Signalling
    <2>6. Payload(Quieted(x)) = Payload(x)
      BY <2>1, <2>2 DEF Payload
    <2> QED
      BY <1>1, <2>1, <2>4, <2>5, <2>6 DEF OnlyQuiets
  <1>2. CASE ~IsNan(x)
    BY <1>2, Fields DEF OnlyQuiets, ClearNan, InitF32, IsNan
  <1> QED
    BY <1>1, <1>2

\* What only quiets gives no signalling NaN.
LEMMA QuietedIsQuiet ==
    ASSUME NEW x, NEW z, OnlyQuiets(z, x)
    PROVE  ~Signalling(z)
BY DEF OnlyQuiets, Signalling

\* Nor does the canonical NaN signal.
LEMMA CanonicalIsQuiet ==
    ASSUME NEW z, Canonical(z)
    PROVE  ~Signalling(z)
BY FormatAssumption DEF Canonical, Signalling

\* Nor a minimum or a maximum.
LEMMA MinMaxIsQuiet ==
    ASSUME NEW x, NEW y, NEW z, IsMinimum(z, x, y) \/ IsMaximum(z, x, y)
    PROVE  ~Signalling(z)
BY CanonicalIsQuiet DEF IsMinimum, IsMaximum, Signalling

-----------------------------------------------------------------------------

\* min and max are exact in every reachable state, for every float format.
THEOREM MinMaxIsExact == Spec => []MinMaxExact
PROOF
  <1>1. Init => MinMaxExact
    BY DEF Init, MinMaxExact, Nothing
  <1>2. MinMaxExact /\ [Next]_vars => MinMaxExact'
    <2> SUFFICES ASSUME MinMaxExact, [Next]_vars PROVE MinMaxExact'
      OBVIOUS
    <2>1. CASE executed' = executed
      BY <2>1 DEF MinMaxExact, Operand
    <2>2. CASE ExecuteMin
      <3>1. PICK x, y \in Floats : Execute("min", <<x, y>>, Minimum(x, y))
        BY <2>2 DEF ExecuteMin
      <3>2. /\ executed'.op = "min" /\ executed'.result = Minimum(x, y)
            /\ executed'.operands[1] = x /\ executed'.operands[2] = y
        BY <3>1 DEF Execute
      <3> QED
        BY <3>2, MinimumIsMinimum DEF MinMaxExact, Operand
    <2>3. CASE ExecuteMax
      <3>1. PICK x, y \in Floats : Execute("max", <<x, y>>, Maximum(x, y))
        BY <2>3 DEF ExecuteMax
      <3>2. /\ executed'.op = "max" /\ executed'.result = Maximum(x, y)
            /\ executed'.operands[1] = x /\ executed'.operands[2] = y
        BY <3>1 DEF Execute
      <3> QED
        BY <3>2, MaximumIsMaximum DEF MinMaxExact, Operand
    <2>4. CASE ExecuteInteger
      BY <2>4 DEF ExecuteInteger, Execute, IntegerOps, MinMaxExact
    <2>5. CASE \/ ExecuteFloat \/ ExecuteRound \/ ExecuteSqrt \/ ExecuteInitF32 \/ ExecuteInitF64
               \/ ExecuteTrunc \/ ExecuteSatTrunc
      <3>1. executed'.op \in {"float", "round", "sqrt", "init32", "init64", "trunc", "trunc_sat"}
        BY <2>5 DEF ExecuteFloat, ExecuteRound, ExecuteSqrt, ExecuteInitF32, ExecuteInitF64, ExecuteTrunc,
                    ExecuteSatTrunc, Execute
      <3> QED
        BY <3>1 DEF MinMaxExact
    <2> QED
      BY <2>1, <2>2, <2>3, <2>4, <2>5 DEF Next, vars, ReadMore, ReadLast
  <1> QED
    BY <1>1, <1>2, PTL DEF Spec

\* The filters set the quiet bit of a NaN and change nothing else, and a
\* signalling NaN leaves only what has no filter, for every float format.
THEOREM NansAreQuieted == Spec => []NansQuieted
PROOF
  <1>1. Init => NansQuieted
    BY DEF Init, NansQuieted, Nothing, FloatOps
  <1>2. NansQuieted /\ [Next]_vars => NansQuieted'
    <2> SUFFICES ASSUME NansQuieted, [Next]_vars PROVE NansQuieted'
      OBVIOUS
    <2>1. CASE executed' = executed
      BY <2>1 DEF NansQuieted, Operand
    <2>2. CASE ExecuteFloat
      <3>1. PICK x \in Floats : Execute("float", <<x>>, ClearNan(x))
        BY <2>2 DEF ExecuteFloat
      <3>2. executed'.op = "float" /\ executed'.result = ClearNan(x) /\ executed'.operands[1] = x
        BY <3>1 DEF Execute
      <3> QED
        BY <3>2, NumbersKept, QuietedIsQuiet DEF NansQuieted, Operand
    <2>3. CASE ExecuteInitF32
      <3>1. PICK x \in Floats : Execute("init32", <<x>>, InitF32(x))
        BY <2>3 DEF ExecuteInitF32
      <3>2. executed'.op = "init32" /\ executed'.result = InitF32(x) /\ executed'.operands[1] = x
        BY <3>1 DEF Execute
      <3> QED
        BY <3>2, NumbersKept, QuietedIsQuiet DEF NansQuieted, Operand
    <2>4. CASE ExecuteRound
      <3>1. PICK x, y \in Floats : ~IsNan(y) /\ Execute("round", <<x, y>>, QuietNanOr(x, y))
        BY <2>4 DEF ExecuteRound
      <3>2. /\ executed'.op = "round" /\ executed'.result = QuietNanOr(x, y)
            /\ executed'.operands[1] = x /\ executed'.operands[2] = y
        BY <3>1 DEF Execute
      <3>3. IF IsNan(x) THEN Canonical(QuietNanOr(x, y)) /\ QuietNanOr(x, y).sign = x.sign
            ELSE QuietNanOr(x, y) = y
        BY QuietIsCanonical DEF QuietNanOr, RealUNO
      <3>4. ~Signalling(QuietNanOr(x, y))
        BY <3>1, <3>3, CanonicalIsQuiet DEF Signalling
      <3> QED
        BY <3>2, <3>3, <3>4 DEF NansQuieted, Operand
    <2>5. CASE ExecuteInteger \/ ExecuteTrunc \/ ExecuteSatTrunc
      <3>1. executed'.op \in IntegerOps \cup {"trunc", "trunc_sat"}
        BY <2>5 DEF ExecuteInteger, ExecuteTrunc, ExecuteSatTrunc, Execute
      <3> QED
        BY <3>1 DEF IntegerOps, NansQuieted, FloatOps
    <2>6. CASE ExecuteMin
      <3>1. PICK x, y \in Floats : Execute("min", <<x, y>>, Minimum(x, y))
        BY <2>6 DEF ExecuteMin
      <3>2. executed'.op = "min" /\ ~Signalling(executed'.result)
        BY <3>1, MinimumIsMinimum, MinMaxIsQuiet DEF Execute
      <3> QED
        BY <3>2 DEF NansQuieted
    <2>7. CASE ExecuteMax
      <3>1. PICK x, y \in Floats : Execute("max", <<x, y>>, Maximum(x, y))
        BY <2>7 DEF ExecuteMax
      <3>2. executed'.op = "max" /\ ~Signalling(executed'.result)
        BY <3>1, MaximumIsMaximum, MinMaxIsQuiet DEF Execute
      <3> QED
        BY <3>2 DEF NansQuieted
    <2>8. CASE ExecuteSqrt
      BY <2>8 DEF ExecuteSqrt, Execute, NansQuieted
    <2>9. CASE ExecuteInitF64
      BY <2>9 DEF ExecuteInitF64, Execute, InitF64, NansQuieted, Operand
    <2> QED
      BY <2>1, <2>2, <2>3, <2>4, <2>5, <2>6, <2>7, <2>8, <2>9 DEF Next, vars, ReadMore, ReadLast
  <1> QED
    BY <1>1, <1>2, PTL DEF Spec

-----------------------------------------------------------------------------
(* Places in groups of bits.                                               *)

\* A product grows with its factors.
LEMMA Monotonic ==
    ASSUME NEW P \in Nat, NEW i \in Nat, NEW j \in Nat, i <= j
    PROVE  P * i <= P * j /\ P * i \in Nat
OBVIOUS

\* A place is in one group, at one bit of it.
LEMMA DivMod ==
    ASSUME NEW P \in Nat \ {0}, NEW b \in Nat
    PROVE  b \div P \in Nat /\ b % P \in 0 .. P - 1 /\ b = P * (b \div P) + (b % P)
OBVIOUS

\* And in no other.
LEMMA Unique ==
    ASSUME NEW P \in Nat \ {0}, NEW i \in Nat, NEW r \in 0 .. P - 1, NEW j \in Nat, NEW s \in 0 .. P - 1,
           P * j + s = P * i + r
    PROVE  i = j /\ r = s
PROOF
  <1>1. ~ (i < j)
    <2> SUFFICES ASSUME i < j PROVE FALSE
      OBVIOUS
    <2>1. P * (i + 1) <= P * j /\ P * (i + 1) = P * i + P
      BY Monotonic
    <2> QED
      BY <2>1
  <1>2. ~ (j < i)
    <2> SUFFICES ASSUME j < i PROVE FALSE
      OBVIOUS
    <2>1. P * (j + 1) <= P * i /\ P * (j + 1) = P * j + P
      BY Monotonic
    <2> QED
      BY <2>1
  <1> QED
    BY <1>1, <1>2

\* The groups that start below a width are those the format gives it.
LEMMA LongestStarts ==
    ASSUME NEW width \in Nat, NEW n \in Nat, n <= Longest(width)
    PROVE  PayloadBits * n < width + PayloadBits
PROOF
  <1>1. PICK P \in Nat \ {0} : P = PayloadBits
    BY LebAssumption
  <1>2. PICK k \in Nat : k = (width + P - 1) \div P /\ P * k <= width + P - 1
    <2>1. PICK b \in Nat : b = width + P - 1
      OBVIOUS
    <2>2. b \div P \in Nat /\ b % P \in 0 .. P - 1 /\ b = P * (b \div P) + (b % P)
      BY DivMod
    <2>3. P * (b \div P) <= b
      BY <2>2
    <2> QED
      BY <2>1, <2>2, <2>3
  <1>3. P * n <= P * k
    BY <1>1, <1>2, Monotonic DEF Longest
  <1> QED
    BY <1>1, <1>2, <1>3

-----------------------------------------------------------------------------
(* Immediates.                                                             *)

\* The bits below a width that groups of bits give.
Raw(s, width) ==
    {b \in 0 .. width - 1 : \E i \in DOMAIN s : \E r \in s[i] : b = PayloadBits * (i - 1) + r}

LebInv ==
    /\ payloads \in Seq(Payloads) /\ lShift = PayloadBits * Len(payloads)
    /\ reading # Nothing =>
         /\ reading.type \in LebTypes /\ reading.status \in {Running, Done}
         /\ reading.status = Running /\ lShift < WidthOf(reading.type) + PayloadBits =>
              lResult = Raw(payloads, WidthOf(reading.type))
         /\ reading.status = Done =>
              /\ payloads # <<>>
              /\ lShift < WidthOf(reading.type) + PayloadBits =>
                   lResult \in Extended(Raw(payloads, WidthOf(reading.type)), Last, lShift, reading.type)

\* Types have bits.
LEMMA Widths ==
    ASSUME NEW type \in LebTypes
    PROVE  WidthOf(type) \in Nat \ {0} /\ IntWidth \in Nat \ {0}
BY LebAssumption DEF WidthOf, LebTypes, Unsigneds, Signeds

\* One more group.
LEMMA RawAppended ==
    ASSUME NEW s \in Seq(Payloads), NEW payload \in Payloads, NEW width \in Nat,
           PayloadBits * Len(s) < width
    PROVE  LET t == Append(s, payload)
           IN  /\ t \in Seq(Payloads) /\ Len(t) = Len(s) + 1 /\ t[Len(t)] = payload
               /\ PayloadBits * Len(t) = PayloadBits * Len(s) + PayloadBits
               /\ Shifted(payload, PayloadBits * Len(s), width) = {ShiftedBy(payload, PayloadBits * Len(s), width)}
               /\ Raw(t, width) = Raw(s, width) \cup ShiftedBy(payload, PayloadBits * Len(s), width)
PROOF
  <1>1. PICK t : t = Append(s, payload)
    OBVIOUS
  <1>2. /\ t \in Seq(Payloads) /\ Len(t) = Len(s) + 1 /\ t[Len(s) + 1] = payload
        /\ \A i \in 1 .. Len(s) : t[i] = s[i]
    BY <1>1, AppendProperties
  <1>3. /\ DOMAIN s = 1 .. Len(s) /\ DOMAIN t = 1 .. Len(s) + 1
    BY <1>2, LenProperties
  <1>4. PICK n \in Nat : n = Len(s)
    BY LenProperties, Zenon
  <1>5. PICK P \in Nat \ {0} : P = PayloadBits
    BY LebAssumption
  <1>6. PICK k \in Nat : k = P * n
    BY <1>4, <1>5, Monotonic
  <1>7. P * (n + 1) = P * n + P
    OBVIOUS
  <1>8. payload \subseteq 0 .. P - 1
    BY <1>5 DEF Payloads
  <1>9. Raw(t, width) \subseteq Raw(s, width) \cup ShiftedBy(payload, k, width)
    <2> SUFFICES ASSUME NEW b \in 0 .. width - 1, NEW i \in DOMAIN t, NEW r \in t[i], b = P * (i - 1) + r
                 PROVE  b \in Raw(s, width) \cup ShiftedBy(payload, k, width)
      BY <1>5 DEF Raw
    <2>1. CASE i = n + 1
      <3>1. r \in payload /\ i - 1 = n
        BY <1>2, <1>4, <2>1
      <3>2. b = r + k /\ r \in payload
        BY <1>6, <1>8, <3>1
      <3> QED
        BY <3>2 DEF ShiftedBy
    <2>2. CASE i # n + 1
      <3>1. i \in 1 .. n
        BY <1>3, <1>4, <2>2
      <3>2. i \in DOMAIN s /\ r \in s[i]
        BY <1>2, <1>3, <1>4, <3>1
      <3> QED
        BY <1>5, <3>2 DEF Raw
    <2> QED
      BY <2>1, <2>2
  <1>10. Raw(s, width) \subseteq Raw(t, width)
    <2>1. \A i \in DOMAIN s : i \in DOMAIN t /\ t[i] = s[i]
      BY <1>2, <1>3, <1>4
    <2> QED
      BY <2>1 DEF Raw
  <1>11. ShiftedBy(payload, k, width) \subseteq Raw(t, width)
    <2> SUFFICES ASSUME NEW r \in payload, r + k \in 0 .. width - 1 PROVE r + k \in Raw(t, width)
      BY DEF ShiftedBy
    <2>1. n + 1 \in DOMAIN t /\ t[n + 1] = payload /\ (n + 1) - 1 = n
      BY <1>2, <1>3, <1>4
    <2>2. r + k = P * ((n + 1) - 1) + r
      BY <1>6, <1>8, <2>1
    <2> QED
      BY <1>5, <2>1, <2>2 DEF Raw
  <1>12. Raw(t, width) = Raw(s, width) \cup ShiftedBy(payload, k, width)
    BY <1>9, <1>10, <1>11
  <1>13. PayloadBits * Len(t) = PayloadBits * Len(s) + PayloadBits
    BY <1>2, <1>4, <1>5, <1>7
  <1>14. Shifted(payload, k, width) = {ShiftedBy(payload, k, width)}
    BY <1>4, <1>5, <1>6 DEF Shifted
  <1>15. PayloadBits * Len(s) = k /\ t[Len(t)] = payload
    BY <1>2, <1>4, <1>5, <1>6
  <1> QED
    BY <1>1, <1>2, <1>12, <1>13, <1>14, <1>15

\* No group reaches past the groups.
LEMMA RawBelow ==
    ASSUME NEW s \in Seq(Payloads), NEW width \in Nat, NEW b \in Raw(s, width)
    PROVE  b \in 0 .. width - 1 /\ b < PayloadBits * Len(s)
PROOF
  <1>1. PICK P \in Nat \ {0} : P = PayloadBits
    BY LebAssumption
  <1>2. PICK n \in Nat : n = Len(s) /\ DOMAIN s = 1 .. n
    BY LenProperties, Zenon
  <1>3. PICK i \in 1 .. n : \E r \in s[i] : b = P * (i - 1) + r
    BY <1>1, <1>2 DEF Raw
  <1>7. PICK r \in s[i] : b = P * (i - 1) + r
    BY <1>3
  <1>4. r \in 0 .. P - 1
    BY <1>1, <1>2, <1>7, ElementOfSeq DEF Payloads
  <1>5. P * i <= P * n /\ P * i = P * (i - 1) + P
    BY <1>3, Monotonic
  <1>6. P * (i - 1) \in Nat /\ P * n \in Nat
    BY <1>3, Monotonic
  <1> QED
    BY <1>1, <1>2, <1>4, <1>5, <1>6, <1>7 DEF Raw

\* What the format says, by the same groups: those bits, and the sign above them.
LEMMA MeaningIs ==
    ASSUME NEW s \in Seq(Payloads), s # <<>>, NEW signed \in BOOLEAN, NEW width \in Nat
    PROVE  Meaning(s, signed, width) =
             Raw(s, width) \cup
               (IF signed /\ SignBit(s[Len(s)]) THEN (PayloadBits * Len(s)) .. width - 1 ELSE {})
PROOF
  <1>1. PICK P \in Nat \ {0} : P = PayloadBits
    BY LebAssumption
  <1>2. PICK n \in Nat : n = Len(s) /\ DOMAIN s = 1 .. n /\ n # 0
    BY LenProperties, EmptySeq, Zenon
  <1>3. (CHOOSE i \in DOMAIN s : i + 1 \notin DOMAIN s) = n
    <2>1. n \in DOMAIN s /\ n + 1 \notin DOMAIN s /\ \A i \in DOMAIN s : i + 1 \notin DOMAIN s => i = n
      BY <1>2
    <2> QED
      BY <2>1
  <1>4. ASSUME NEW b \in 0 .. width - 1
        PROVE  /\ b \div P + 1 \in 1 .. n => (b % P \in s[b \div P + 1] <=> b \in Raw(s, width))
               /\ b \div P + 1 \notin 1 .. n <=> b >= P * n
    <2>0. b \div P \in Nat /\ b % P \in 0 .. P - 1 /\ b = P * (b \div P) + (b % P)
      <3>1. b \in Nat
        OBVIOUS
      <3> QED
        BY <3>1, DivMod, Zenon
    <2>a. PICK q \in Nat : q = b \div P
      BY <2>0
    <2>b. PICK r \in 0 .. P - 1 : r = b % P
      BY <2>0
    <2>c. b = P * q + r
      BY <2>0, <2>a, <2>b, Zenon
    <2>1. q = b \div P /\ r = b % P /\ b = P * q + r
      BY <2>a, <2>b, <2>c, Zenon
    <2>2. ASSUME q + 1 \in 1 .. n
          PROVE  r \in s[q + 1] <=> b \in Raw(s, width)
      <3>1. ASSUME r \in s[q + 1] PROVE b \in Raw(s, width)
        <4>1. b = P * ((q + 1) - 1) + r
          BY <2>1
        <4> QED
          BY <1>1, <1>2, <2>2, <3>1, <4>1 DEF Raw
      <3>2. ASSUME b \in Raw(s, width) PROVE r \in s[q + 1]
        <4> PICK i \in 1 .. n : \E t \in s[i] : b = P * (i - 1) + t
          BY <1>1, <1>2, <3>2 DEF Raw
        <4>1. PICK t \in s[i] : b = P * (i - 1) + t
          OBVIOUS
        <4>2. t \in 0 .. P - 1 /\ i - 1 \in Nat
          BY <1>1, <1>2, <4>1, ElementOfSeq DEF Payloads
        <4>3. i - 1 = q /\ t = r
          <5>1. PICK j \in Nat : j = i - 1
            BY <4>2
          <5>2. P * j + t = P * q + r
            BY <2>1, <4>1, <5>1
          <5>3. j = q /\ t = r
            BY <4>2, <5>2, Unique
          <5> QED
            BY <5>1, <5>3
        <4> QED
          BY <4>1, <4>3
      <3> QED
        BY <3>1, <3>2
    <2>3. q + 1 \in 1 .. n <=> q < n
      OBVIOUS
    <2>4. q < n => b < P * n
      <3> SUFFICES ASSUME q < n PROVE b < P * n
        OBVIOUS
      <3>1. P * (q + 1) <= P * n /\ P * (q + 1) = P * q + P
        BY Monotonic
      <3> QED
        BY <2>1, <3>1
    <2>5. n <= q => b >= P * n
      <3> SUFFICES ASSUME n <= q PROVE b >= P * n
        OBVIOUS
      <3>1. P * n <= P * q /\ P * n \in Nat /\ P * q \in Nat
        BY Monotonic
      <3> QED
        BY <2>1, <3>1
    <2>6. P * n \in Nat
      BY Monotonic
    <2> QED
      BY <2>1, <2>2, <2>3, <2>4, <2>5, <2>6
  <1>5. Meaning(s, signed, width) =
          {b \in 0 .. width - 1 : IF b \div P + 1 \in 1 .. n THEN b % P \in s[b \div P + 1]
                                  ELSE signed /\ SignBit(s[n])}
    BY <1>1, <1>2, <1>3 DEF Meaning
  <1>6. Raw(s, width) \subseteq 0 .. width - 1 /\ \A b \in Raw(s, width) : b < P * n
    BY <1>1, <1>2, RawBelow
  <1>7. P * n \in Nat
    BY Monotonic
  <1>8. \A b \in 0 .. width - 1 : b \in (P * n) .. width - 1 <=> b >= P * n
    BY <1>7
  <1>9. (P * n) .. width - 1 \subseteq 0 .. width - 1
    BY <1>7
  <1>10. ASSUME NEW b \in 0 .. width - 1
         PROVE  b \in Meaning(s, signed, width) <=>
                  b \in Raw(s, width) \/ (signed /\ SignBit(s[n]) /\ b \in (P * n) .. width - 1)
    <2>1. CASE b >= P * n
      <3>1. b \notin Raw(s, width)
        BY <1>6, <1>7, <2>1
      <3> QED
        BY <1>4, <1>5, <1>8, <2>1, <3>1
    <2>2. CASE ~(b >= P * n)
      BY <1>4, <1>5, <1>8, <2>2
    <2> QED
      BY <2>1, <2>2
  <1>11. Meaning(s, signed, width) \subseteq 0 .. width - 1
    BY <1>5
  <1>12. Meaning(s, signed, width) =
           Raw(s, width) \cup (IF signed /\ SignBit(s[n]) THEN (P * n) .. width - 1 ELSE {})
    BY <1>6, <1>9, <1>10, <1>11
  <1> QED
    BY <1>1, <1>2, <1>12

\* Each turn of the loop adds one group; the last one adds the sign.
LEMMA GroupRead ==
    ASSUME LebInv, NEW payload \in Payloads, reading # Nothing, reading.status = Running,
           payloads' = Append(payloads, payload), lShift' = lShift + PayloadBits
    PROVE  /\ payloads' \in Seq(Payloads) /\ payloads' # <<>> /\ Last' = payload
           /\ lShift' = PayloadBits * Len(payloads')
           /\ lShift' < WidthOf(reading.type) + PayloadBits =>
                Accumulated(lResult, payload, lShift, reading.type) = {Raw(payloads', WidthOf(reading.type))}
PROOF
  <1>1. PICK width \in Nat : width = WidthOf(reading.type)
    BY Widths DEF LebInv
  <1>2. PICK t : t = Append(payloads, payload)
    OBVIOUS
  <1>3. /\ t \in Seq(Payloads) /\ Len(t) = Len(payloads) + 1 /\ t[Len(t)] = payload
    BY <1>2, AppendProperties DEF LebInv
  <1>4. Len(payloads) \in Nat /\ PayloadBits \in Nat \ {0}
    BY LenProperties, LebAssumption DEF LebInv
  <1>5. PICK P \in Nat \ {0} : P = PayloadBits
    BY <1>4
  <1>6. PICK n \in Nat : n = Len(payloads)
    BY <1>4, Zenon
  <1>7. lShift = P * n /\ P * n \in Nat /\ P * (n + 1) = P * n + P
    BY <1>5, <1>6, Monotonic DEF LebInv
  <1>8. t # <<>>
    <2>1. Len(t) # 0
      BY <1>3, <1>6
    <2> QED
      BY <1>3, <2>1, EmptySeq
  <1>9. lShift' = PayloadBits * Len(t)
    BY <1>3, <1>5, <1>6, <1>7
  <1>10. ASSUME lShift' < width + PayloadBits
         PROVE  Accumulated(lResult, payload, lShift, reading.type) = {Raw(t, width)}
    <2>1. PayloadBits * Len(payloads) < width /\ lShift = PayloadBits * Len(payloads)
      BY <1>5, <1>6, <1>7, <1>10
    <2>2. /\ Shifted(payload, PayloadBits * Len(payloads), width) =
               {ShiftedBy(payload, PayloadBits * Len(payloads), width)}
          /\ Raw(t, width) = Raw(payloads, width) \cup ShiftedBy(payload, PayloadBits * Len(payloads), width)
      BY <1>2, <2>1, RawAppended DEF LebInv
    <2>3. lResult = Raw(payloads, width)
      BY <1>1, <1>5, <1>7, <2>1 DEF LebInv
    <2> QED
      BY <1>1, <2>1, <2>2, <2>3 DEF Accumulated
  <1> QED
    BY <1>1, <1>2, <1>3, <1>8, <1>9, <1>10 DEF Last

\* Leb keeps the invariant.
LEMMA LebStep ==
    ASSUME LebInv, [Next]_vars
    PROVE  LebInv'
PROOF
  <1>1. ASSUME NEW payload \in Payloads, ReadMore(payload) PROVE LebInv'
    <2>1. /\ reading # Nothing /\ reading.status = Running /\ reading' = reading
          /\ payloads' = Append(payloads, payload) /\ lShift' = lShift + PayloadBits
          /\ lResult' \in Accumulated(lResult, payload, lShift, reading.type)
      BY <1>1 DEF ReadMore
    <2>2. /\ payloads' \in Seq(Payloads) /\ lShift' = PayloadBits * Len(payloads')
          /\ lShift' < WidthOf(reading.type) + PayloadBits =>
               Accumulated(lResult, payload, lShift, reading.type) = {Raw(payloads', WidthOf(reading.type))}
      BY <2>1, GroupRead
    <2>3. lShift' < WidthOf(reading.type) + PayloadBits => lResult' = Raw(payloads', WidthOf(reading.type))
      BY <2>1, <2>2
    <2>4. reading'.status # Done
      BY <2>1 DEF Running, Done
    <2> QED
      BY <2>1, <2>2, <2>3, <2>4 DEF LebInv
  <1>2. ASSUME NEW payload \in Payloads, ReadLast(payload) PROVE LebInv'
    <2>1. PICK raw \in Accumulated(lResult, payload, lShift, reading.type) :
            lResult' \in Extended(raw, payload, lShift', reading.type)
      BY <1>2 DEF ReadLast
    <2>2. /\ reading # Nothing /\ reading.status = Running /\ reading' = [reading EXCEPT !.status = Done]
          /\ payloads' = Append(payloads, payload) /\ lShift' = lShift + PayloadBits
      BY <1>2 DEF ReadLast
    <2>3. /\ payloads' \in Seq(Payloads) /\ payloads' # <<>> /\ Last' = payload
          /\ lShift' = PayloadBits * Len(payloads')
          /\ lShift' < WidthOf(reading.type) + PayloadBits =>
               Accumulated(lResult, payload, lShift, reading.type) = {Raw(payloads', WidthOf(reading.type))}
      BY <2>2, GroupRead
    <2>4. reading'.type = reading.type /\ reading'.status = Done
      BY <2>2 DEF LebInv
    <2>5. lShift' < WidthOf(reading.type) + PayloadBits =>
            lResult' \in Extended(Raw(payloads', WidthOf(reading.type)), Last', lShift', reading.type)
      BY <2>1, <2>3
    <2> QED
      BY <2>2, <2>3, <2>4, <2>5 DEF LebInv, Running, Done
  <1>3. CASE UNCHANGED <<reading, payloads, lResult, lShift>>
    BY <1>3 DEF LebInv, Last
  <1>4. CASE ExecuteInteger \/ ExecuteMin \/ ExecuteMax \/ ExecuteFloat \/ ExecuteRound
             \/ ExecuteSqrt \/ ExecuteInitF32 \/ ExecuteInitF64 \/ ExecuteTrunc \/ ExecuteSatTrunc
    <2>1. UNCHANGED <<reading, payloads, lResult, lShift>>
      BY <1>4 DEF ExecuteInteger, ExecuteMin, ExecuteMax, ExecuteFloat, ExecuteRound, ExecuteSqrt,
                  ExecuteInitF32, ExecuteInitF64, ExecuteTrunc, ExecuteSatTrunc, Execute, Runs
    <2> QED
      BY <1>3, <2>1
  <1> QED
    BY <1>1, <1>2, <1>3, <1>4 DEF Next, vars

\* What the bytes read so far have left in the result and in the shift.
THEOREM LebInvariance == Spec => []LebInv
PROOF
  <1>1. Init => LebInv
    <2> SUFFICES ASSUME Init PROVE LebInv
      OBVIOUS
    <2>1. /\ payloads = <<>> /\ lResult = {} /\ lShift = 0
          /\ reading \in [type : LebTypes, status : {Running}] \cup {Nothing}
      BY DEF Init
    <2>2. payloads \in Seq(Payloads) /\ Len(payloads) = 0
      BY <2>1
    <2>3. PayloadBits * 0 = 0
      BY LebAssumption
    <2>4. \A width : Raw(payloads, width) = {}
      BY <2>1 DEF Raw
    <2>5. Running # Done
      BY DEF Running, Done
    <2> QED
      BY <2>1, <2>2, <2>3, <2>4, <2>5 DEF LebInv
  <1>2. LebInv /\ [Next]_vars => LebInv'
    BY LebStep
  <1> QED
    BY <1>1, <1>2, PTL DEF Spec

\* An immediate is read for what the format says, whatever its bytes and the
\* width of its type, with two exceptions: the sign of a constant of more bits
\* than an int has, and an index read as if it had one (module.hpp:144-197).
THEOREM ImmediatesDecode == Spec => []Decodes
PROOF
  <1>1. LebInv => Decodes
    <2> SUFFICES ASSUME LebInv, reading # Nothing, reading.status = Done,
                        Len(payloads) <= Longest(WidthOf(reading.type)), ~WideSign
                 PROVE  (lResult = Meaning(payloads, reading.type \in {"s32", "s64"}, WidthOf(reading.type)))
                          = ~SignedIndex
      BY DEF Decodes
    <2>1. PICK type \in LebTypes : type = reading.type
      BY DEF LebInv
    <2>2. PICK width \in Nat \ {0} : width = WidthOf(type)
      BY Widths
    <2>3. /\ payloads \in Seq(Payloads) /\ payloads # <<>> /\ Len(payloads) \in Nat
          /\ lShift = PayloadBits * Len(payloads) /\ lShift \in Nat
      BY LenProperties, LebAssumption, Monotonic DEF LebInv
    <2>4. lResult \in Extended(Raw(payloads, width), Last, lShift, type)
      <3>1. lShift < width + PayloadBits
        BY <2>1, <2>2, <2>3, LongestStarts
      <3> QED
        BY <2>1, <2>2, <3>1 DEF LebInv
    <2>5. \A signed \in BOOLEAN :
            Meaning(payloads, signed, width) =
              Raw(payloads, width) \cup (IF signed /\ SignBit(Last) THEN lShift .. width - 1 ELSE {})
      BY <2>2, <2>3, MeaningIs DEF Last
    <2>6. ASSUME NEW b \in Raw(payloads, width) PROVE b \in 0 .. width - 1 /\ b < lShift
      <3>1. width \in Nat
        BY <2>2
      <3>2. b \in 0 .. width - 1 /\ b < PayloadBits * Len(payloads)
        BY <2>3, <3>1, RawBelow, Zenon
      <3>3. lShift = PayloadBits * Len(payloads)
        BY <2>3, Zenon
      <3> QED
        BY <3>2, <3>3, Zenon
    <2>7. PICK signed \in BOOLEAN : signed = (type \in {"s32", "s64"})
      <3>1. (type \in {"s32", "s64"}) \in BOOLEAN
        OBVIOUS
      <3> QED
        BY <3>1, Zenon
    <2>8. IntWidth \in Nat \ {0} /\ width = IF type \in {"u64", "s64"} THEN 2 * IntWidth ELSE IntWidth
      BY <2>2, LebAssumption DEF WidthOf
    <2>9. CASE ~(type \in Signeds /\ lShift < width /\ SignBit(Last))
      <3>1. lResult = Raw(payloads, width)
        BY <2>2, <2>4, <2>9 DEF Extended
      <3>2. signed /\ SignBit(Last) => lShift .. width - 1 = {}
        <4> SUFFICES ASSUME signed, SignBit(Last) PROVE lShift .. width - 1 = {}
          OBVIOUS
        <4>1. type \in Signeds
          BY <2>7 DEF Signeds
        <4>2. PICK k \in Nat : k = lShift
          BY <2>3, Zenon
        <4>3. ~ (k < width)
          BY <2>9, <4>1, <4>2
        <4>4. k .. width - 1 = {}
          BY <4>3
        <4> QED
          BY <4>2, <4>4, Zenon
      <3>3. lResult = Meaning(payloads, signed, width)
        BY <2>5, <3>1, <3>2
      <3>4. ~SignedIndex
        BY <2>1, <2>2, <2>8, <2>9 DEF SignedIndex, Signeds
      <3> QED
        BY <2>1, <2>2, <2>7, <3>3, <3>4
    <2>10. CASE type \in Signeds /\ lShift < width /\ SignBit(Last)
      <3>1. lShift < IntWidth
        BY <2>1, <2>3, <2>8, <2>10 DEF WideSign, Signeds, WidthOf
      <3>2. lResult = Raw(payloads, width) \cup (lShift .. width - 1)
        BY <2>2, <2>4, <2>10, <3>1 DEF Extended, Negative, Ones
      <3>3. CASE signed
        <4>1. lResult = Meaning(payloads, signed, width)
          BY <2>5, <2>10, <3>2, <3>3
        <4>2. ~SignedIndex
          BY <2>1, <2>7, <3>3 DEF SignedIndex
        <4> QED
          BY <2>1, <2>2, <2>7, <4>1, <4>2
      <3>4. CASE ~signed
        <4>1. SignedIndex
          BY <2>1, <2>7, <2>10, <3>1, <3>4 DEF SignedIndex, Signeds
        <4>2. Meaning(payloads, signed, width) = Raw(payloads, width)
          BY <2>5, <3>4
        <4>3. lShift \in lResult /\ lShift \notin Raw(payloads, width)
          BY <2>3, <2>6, <2>10, <3>2
        <4>4. lResult # Meaning(payloads, signed, width)
          BY <4>2, <4>3
        <4> QED
          BY <2>1, <2>2, <2>7, <4>1, <4>4
      <3> QED
        BY <3>3, <3>4
    <2> QED
      BY <2>9, <2>10
  <1> QED
    BY <1>1, LebInvariance, PTL

-----------------------------------------------------------------------------
(* Powers of two.                                                          *)

\* A set of naturals that is not empty has a least element.
LEMMA LeastExists ==
    ASSUME NEW T, T \subseteq Nat, T # {}
    PROVE  \E x \in T : \A y \in T : x <= y
PROOF
  <1> DEFINE R == OpToRel(<, Nat)
  <1>1. IsWellFoundedOn(R, Nat)
    BY NatLessThanWellFounded
  <1>2. PICK x \in T : \A y \in T : ~ (<<y, x>> \in R)
    BY <1>1, WFMin
  <1>3. \A y \in T : ~ (y < x)
    BY <1>2 DEF OpToRel
  <1> QED
    BY <1>3

\* A set of naturals with zero and the successors of its elements has them all.
LEMMA AllNaturals ==
    ASSUME NEW T, 0 \in T, \A n \in Nat : n \in T => n + 1 \in T
    PROVE  \A n \in Nat : n \in T
PROOF
  <1> DEFINE F == {n \in Nat : n \notin T}
  <1> SUFFICES ASSUME F # {} PROVE FALSE
    OBVIOUS
  <1>1. PICK x \in F : \A y \in F : x <= y
    BY LeastExists
  <1>2. x # 0
    OBVIOUS
  <1>3. x - 1 \in Nat /\ x - 1 \notin F
    BY <1>1, <1>2
  <1> QED
    BY <1>3

\* The powers of two up to one.
Doubles(f, n) ==
    /\ f \in [0 .. n -> Nat \ {0}] /\ f[0] = 1
    /\ \A k \in 0 .. n - 1 : f[k + 1] = 2 * f[k]

\* There are powers of two up to any one.
LEMMA DoublesExist ==
    ASSUME NEW n \in Nat
    PROVE  \E f : Doubles(f, n)
PROOF
  <1> DEFINE T == {m \in Nat : \E f : Doubles(f, m)}
  <1>1. 0 \in T
    <2>1. Doubles([k \in 0 .. 0 |-> 1], 0)
      BY DEF Doubles
    <2> QED
      BY <2>1
  <1>2. ASSUME NEW m \in Nat, m \in T PROVE m + 1 \in T
    <2>1. PICK f : Doubles(f, m)
      BY <1>2
    <2> DEFINE g == [k \in 0 .. m + 1 |-> IF k \in 0 .. m THEN f[k] ELSE 2 * f[m]]
    <2>2. m \in 0 .. m /\ f[m] \in Nat \ {0} /\ 2 * f[m] \in Nat \ {0}
      BY <2>1 DEF Doubles
    <2>3. g \in [0 .. m + 1 -> Nat \ {0}]
      BY <2>1, <2>2 DEF Doubles
    <2>4. (\A k \in 0 .. m : g[k] = f[k]) /\ g[m + 1] = 2 * f[m]
      OBVIOUS
    <2> HIDE DEF g
    <2>5. ASSUME NEW k \in 0 .. m PROVE g[k + 1] = 2 * g[k]
      <3>1. CASE k = m
        BY <2>2, <2>4, <3>1
      <3>2. CASE k # m
        <4>1. k \in 0 .. m - 1 /\ k + 1 \in 0 .. m
          BY <3>2
        <4> QED
          BY <2>1, <2>4, <4>1 DEF Doubles
      <3> QED
        BY <3>1, <3>2
    <2>6. g[0] = 1
      BY <2>1, <2>4 DEF Doubles
    <2>7. (m + 1) - 1 = m
      OBVIOUS
    <2>8. Doubles(g, m + 1)
      BY <2>3, <2>5, <2>6, <2>7 DEF Doubles
    <2> QED
      BY <2>8
  <1> HIDE DEF T
  <1>3. \A m \in Nat : m \in T
    BY <1>1, <1>2, AllNaturals
  <1> QED
    BY <1>3 DEF T

\* All powers are the same.
LEMMA DoublesAgree ==
    ASSUME NEW n \in Nat, NEW m \in Nat, NEW f, NEW h, Doubles(f, n), Doubles(h, m),
           NEW k \in Nat, k <= n, k <= m
    PROVE  f[k] = h[k]
PROOF
  <1> DEFINE T == {i \in Nat : i <= n /\ i <= m => f[i] = h[i]}
  <1>1. 0 \in T
    BY DEF Doubles
  <1>2. ASSUME NEW i \in Nat, i \in T PROVE i + 1 \in T
    <2>1. CASE i + 1 <= n /\ i + 1 <= m
      <3>1. i \in 0 .. n - 1 /\ i \in 0 .. m - 1
        BY <2>1
      <3> QED
        BY <1>2, <2>1, <3>1 DEF Doubles
    <2> QED
      BY <2>1
  <1> HIDE DEF T
  <1>3. \A i \in Nat : i \in T
    BY <1>1, <1>2, AllNaturals
  <1> QED
    BY <1>3 DEF T

\* The recursive function is these powers.
LEMMA Powers ==
    /\ Power \in [Nat -> Nat \ {0}] /\ Power[0] = 1
    /\ \A n \in Nat : Power[n + 1] = 2 * Power[n]
PROOF
  <1> DEFINE body(f, n) == IF n = 0 THEN 1 ELSE 2 * f[n - 1]
             powers(f) == f = [n \in Nat |-> body(f, n)]
             upTo(n) == CHOOSE f : Doubles(f, n)
             g == [n \in Nat |-> upTo(n)[n]]
  <1>1. \A n \in Nat : Doubles(upTo(n), n)
    BY DoublesExist, Zenon
  <1>2. g[0] = 1 /\ \A n \in Nat : g[n] \in Nat \ {0}
    <2> HIDE DEF upTo
    <2> QED
      BY <1>1 DEF Doubles
  <1>3. ASSUME NEW n \in Nat PROVE g[n + 1] = 2 * g[n]
    <2> HIDE DEF upTo
    <2>1. Doubles(upTo(n + 1), n + 1) /\ Doubles(upTo(n), n)
      BY <1>1
    <2>2. upTo(n + 1)[n + 1] = 2 * upTo(n + 1)[n]
      BY <2>1 DEF Doubles
    <2>3. upTo(n + 1)[n] = upTo(n)[n]
      BY <2>1, DoublesAgree
    <2> QED
      BY <2>2, <2>3
  <1> HIDE DEF g
  <1>4. powers(g)
    <2>1. ASSUME NEW n \in Nat PROVE g[n] = body(g, n)
      <3>1. CASE n = 0
        BY <1>2, <3>1
      <3>2. CASE n # 0
        <4>1. n - 1 \in Nat /\ (n - 1) + 1 = n
          BY <3>2
        <4> QED
          BY <1>3, <3>2, <4>1
      <3> QED
        BY <3>1, <3>2
    <2>2. g = [n \in Nat |-> g[n]]
      BY DEF g
    <2> HIDE DEF body
    <2> QED
      BY <2>1, <2>2
  <1>5. Power = CHOOSE f : powers(f)
    BY Zenon DEF Power
  <1>6. powers(Power)
    <2> HIDE DEF powers
    <2> QED
      BY <1>4, <1>5, Zenon
  <1>7. Power[0] = 1
    BY <1>6
  <1>8. ASSUME NEW n \in Nat PROVE Power[n + 1] = 2 * Power[n]
    <2>1. n + 1 \in Nat /\ n + 1 # 0 /\ (n + 1) - 1 = n
      OBVIOUS
    <2> QED
      BY <1>6, <2>1
  <1> DEFINE T == {n \in Nat : Power[n] \in Nat \ {0}}
  <1>9. \A n \in Nat : n \in T
    <2>1. 0 \in T
      BY <1>7
    <2>2. ASSUME NEW n \in Nat, n \in T PROVE n + 1 \in T
      BY <1>8, <2>2
    <2> HIDE DEF T
    <2> QED
      BY <2>1, <2>2, AllNaturals
  <1> QED
    BY <1>6, <1>7, <1>8, <1>9

\* The powers grow.
LEMMA PowersGrow ==
    ASSUME NEW i \in Nat, NEW j \in Nat, i <= j
    PROVE  Power[i] <= Power[j]
PROOF
  <1> DEFINE T == {n \in Nat : Power[i] <= Power[i + n]}
  <1>1. 0 \in T
    BY Powers
  <1>2. ASSUME NEW n \in Nat, n \in T PROVE n + 1 \in T
    <2>1. i + n \in Nat /\ i + (n + 1) = (i + n) + 1
      OBVIOUS
    <2>2. Power[i] \in Nat /\ Power[i + n] \in Nat /\ Power[i + (n + 1)] = 2 * Power[i + n]
      BY <2>1, Powers
    <2> QED
      BY <1>2, <2>2
  <1> HIDE DEF T
  <1>3. \A n \in Nat : n \in T
    BY <1>1, <1>2, AllNaturals
  <1>4. j - i \in Nat /\ i + (j - i) = j
    OBVIOUS
  <1> QED
    BY <1>3, <1>4 DEF T

\* They multiply as their exponents add.
LEMMA PowersAdd ==
    ASSUME NEW i \in Nat, NEW j \in Nat
    PROVE  Power[i + j] = Power[i] * Power[j]
PROOF
  <1> DEFINE T == {n \in Nat : Power[i + n] = Power[i] * Power[n]}
  <1>1. 0 \in T
    BY Powers
  <1>2. ASSUME NEW n \in Nat, n \in T PROVE n + 1 \in T
    <2>1. i + n \in Nat /\ i + (n + 1) = (i + n) + 1
      OBVIOUS
    <2>2. PICK p \in Nat : p = Power[i]
      BY Powers
    <2>3. PICK q \in Nat : q = Power[n]
      BY Powers
    <2>4. Power[i + n] = p * q
      BY <1>2, <2>2, <2>3
    <2>5. Power[i + (n + 1)] = 2 * Power[i + n] /\ Power[n + 1] = 2 * q
      BY <2>1, <2>3, Powers
    <2>6. 2 * (p * q) = p * (2 * q)
      OBVIOUS
    <2> QED
      BY <2>2, <2>4, <2>5, <2>6
  <1> HIDE DEF T
  <1>3. \A n \in Nat : n \in T
    BY <1>1, <1>2, AllNaturals
  <1> QED
    BY <1>3 DEF T

\* A power exceeds its exponent.
LEMMA PowersExceed ==
    ASSUME NEW n \in Nat
    PROVE  n < Power[n]
PROOF
  <1> DEFINE T == {i \in Nat : i < Power[i]}
  <1>1. 0 \in T
    BY Powers
  <1>2. ASSUME NEW i \in Nat, i \in T PROVE i + 1 \in T
    BY <1>2, Powers
  <1> HIDE DEF T
  <1>3. \A i \in Nat : i \in T
    BY <1>1, <1>2, AllNaturals
  <1> QED
    BY <1>3 DEF T

-----------------------------------------------------------------------------
(* Truncations.                                                            *)

\* A quotient is at least a number when the dividend has it that many times.
LEMMA Quotients ==
    ASSUME NEW D \in Nat \ {0}, NEW S \in Nat, NEW n \in Nat
    PROVE  S \div D \in Nat /\ (S \div D >= n <=> S >= n * D)
PROOF
  <1>0. S \div D \in Nat /\ S % D \in 0 .. D - 1 /\ S = D * (S \div D) + (S % D)
    BY DivMod
  <1>a. PICK q \in Nat : q = S \div D
    BY <1>0
  <1>b. PICK r \in 0 .. D - 1 : r = S % D
    BY <1>0
  <1>1. S = D * q + r
    BY <1>0, <1>a, <1>b, Zenon
  <1>2. n * D = D * n
    OBVIOUS
  <1>3. ASSUME q >= n PROVE S >= D * n
    <2>1. D * n <= D * q /\ D * n \in Nat /\ D * q \in Nat
      BY <1>3, Monotonic
    <2> QED
      BY <1>1, <2>1
  <1>4. ASSUME q < n PROVE S < D * n
    <2>1. D * (q + 1) <= D * n /\ D * (q + 1) = D * q + D /\ D * n \in Nat /\ D * q \in Nat
      BY <1>4, Monotonic
    <2> QED
      BY <1>1, <2>1
  <1>5. D * n \in Nat
    BY Monotonic
  <1>6. q >= n <=> S >= n * D
    BY <1>2, <1>3, <1>4, <1>5
  <1> QED
    BY <1>0, <1>a, <1>6

\* The magnitude of a finite float, of which only a zero has none.
LEMMA ScaledNat ==
    ASSUME NEW x \in Finite
    PROVE  Scaled(x) \in Nat /\ (Scaled(x) = 0 <=> IsZero(x))
PROOF
  <1>1. /\ x.exponent \in 0 .. MaxExponent - 1 /\ x.mantissa \in Nat
        /\ MaxExponent \in Nat /\ MaxMantissa \in Nat
    BY FormatAssumption, Fields DEF Finite
  <1>2. CASE x.exponent = 0
    BY <1>1, <1>2 DEF Scaled, IsZero
  <1>3. CASE x.exponent # 0
    <2>1. x.exponent - 1 \in 0 .. MaxExponent
      BY <1>1, <1>3
    <2>2. PICK P \in Nat \ {0} : P = Power[x.exponent - 1]
      BY <2>1, Powers
    <2>3. PICK m \in Nat \ {0} : m = MaxMantissa + 1 + x.mantissa
      BY <1>1
    <2>4. m * P \in Nat \ {0}
      BY <2>2, <2>3
    <2>5. Scaled(x) = m * P
      BY <1>3, <2>2, <2>3 DEF Scaled
    <2> QED
      BY <1>3, <2>4, <2>5 DEF IsZero
  <1> QED
    BY <1>2, <1>3

\* What 1.0 is in units of the smallest float.
LEMMA OneNat == One \in Nat \ {0}
PROOF
  <1>1. Bias - 1 \in 0 .. MaxExponent
    <2>1. PICK n \in Nat \ {0, 1} : n = MaxExponent
      BY FormatAssumption
    <2>2. n \div 2 \in 1 .. n
      OBVIOUS
    <2> QED
      BY <2>1, <2>2 DEF Bias
  <1>2. PICK P \in Nat \ {0} : P = Power[Bias - 1]
    BY <1>1, Powers
  <1>3. PICK m \in Nat \ {0} : m = MaxMantissa + 1
    BY FormatAssumption
  <1>4. m * P \in Nat \ {0}
    BY <1>2, <1>3
  <1> QED
    BY <1>2, <1>3, <1>4 DEF One

\* Of two finite floats the one whose fields are smaller has the smaller magnitude.
LEMMA ScaledGrows ==
    ASSUME NEW x \in Finite, NEW y \in Finite, Smaller(x, y)
    PROVE  Scaled(x) < Scaled(y)
PROOF
  <1>1. PICK M \in Nat \ {0} : M = MaxMantissa + 1
    BY FormatAssumption
  <1>2. PICK e, f \in 0 .. MaxExponent - 1 : e = x.exponent /\ f = y.exponent
    BY FormatAssumption, Fields DEF Finite
  <1>3. PICK m, n \in 0 .. M - 1 : m = x.mantissa /\ n = y.mantissa
    BY <1>1, FormatAssumption, Fields DEF Finite
  <1>4. MaxExponent \in Nat
    BY FormatAssumption
  <1>5. /\ Scaled(x) = IF e = 0 THEN m ELSE (M + m) * Power[e - 1]
        /\ Scaled(y) = IF f = 0 THEN n ELSE (M + n) * Power[f - 1]
    BY <1>1, <1>2, <1>3 DEF Scaled
  <1>6. e < f \/ (e = f /\ m < n)
    BY <1>2, <1>3 DEF Smaller
  <1>7. CASE e = f /\ m < n
    <2>1. CASE e = 0
      BY <1>5, <1>7, <2>1
    <2>2. CASE e # 0
      <3>1. e - 1 \in 0 .. MaxExponent
        BY <1>4, <2>2
      <3>2. PICK P \in Nat \ {0} : P = Power[e - 1]
        BY <3>1, Powers
      <3>3. (M + m) * P < (M + n) * P
        <4>1. P * ((M + m) + 1) <= P * (M + n)
          BY <1>7, Monotonic
        <4>2. P * ((M + m) + 1) = (M + m) * P + P /\ P * (M + n) = (M + n) * P /\ (M + m) * P \in Nat
          OBVIOUS
        <4> QED
          BY <4>1, <4>2
      <3> QED
        BY <1>5, <1>7, <2>2, <3>2, <3>3
    <2> QED
      BY <2>1, <2>2
  <1>8. CASE e < f
    <2>1. f # 0 /\ f - 1 \in 0 .. MaxExponent
      BY <1>4, <1>8
    <2>2. PICK Q \in Nat \ {0} : Q = Power[f - 1]
      BY <2>1, Powers
    <2>3. M * Q <= (M + n) * Q /\ M <= M * Q
      <3>1. Q * M <= Q * (M + n) /\ M * 1 <= M * Q
        BY Monotonic
      <3> QED
        BY <3>1
    <2>4. CASE e = 0
      BY <1>5, <2>1, <2>2, <2>3, <2>4
    <2>5. CASE e # 0
      <3>1. e - 1 \in 0 .. MaxExponent - 1 /\ e \in 0 .. MaxExponent /\ e - 1 \in 0 .. MaxExponent
            /\ (e - 1) + 1 = e /\ e <= f - 1
        BY <1>4, <1>8, <2>5
      <3>2. PICK P \in Nat \ {0} : P = Power[e - 1]
        BY <3>1, Powers
      <3>3. 2 * P <= Q
        <4>1. Power[e] = 2 * P
          BY <3>1, <3>2, Powers
        <4>2. Power[e] <= Power[f - 1]
          BY <2>1, <3>1, PowersGrow
        <4> QED
          BY <2>2, <4>1, <4>2
      <3>4. (M + m) * P < M * Q
        <4>1. P * ((M + m) + 1) <= P * (2 * M)
          BY Monotonic
        <4>2. P * ((M + m) + 1) = (M + m) * P + P /\ P * (2 * M) = M * (2 * P) /\ (M + m) * P \in Nat
          OBVIOUS
        <4>3. M * (2 * P) <= M * Q
          BY <3>3, Monotonic
        <4>4. M * (2 * P) \in Nat /\ M * Q \in Nat
          OBVIOUS
        <4> QED
          BY <4>1, <4>2, <4>3, <4>4
      <3>5. (M + m) * P \in Nat /\ (M + n) * Q \in Nat /\ M * Q \in Nat
        OBVIOUS
      <3>6. Scaled(x) = (M + m) * P /\ Scaled(y) = (M + n) * Q
        BY <1>5, <2>1, <2>2, <2>5, <3>2
      <3> QED
        BY <2>3, <3>4, <3>5, <3>6
    <2> QED
      BY <2>4, <2>5
  <1> QED
    BY <1>6, <1>7, <1>8

\* The order of two floats with the same sign is that of their magnitudes.
LEMMA ScaledOrder ==
    ASSUME NEW x \in Finite, NEW y \in Finite
    PROVE  Smaller(x, y) <=> Scaled(x) < Scaled(y)
PROOF
  <1>1. Scaled(x) \in Nat /\ Scaled(y) \in Nat
    BY ScaledNat
  <1>2. Smaller(x, y) => Scaled(x) < Scaled(y)
    BY ScaledGrows
  <1>3. Smaller(y, x) => Scaled(y) < Scaled(x)
    BY ScaledGrows
  <1>4. ~Smaller(x, y) /\ ~Smaller(y, x) => Scaled(x) = Scaled(y)
    <2> SUFFICES ASSUME ~Smaller(x, y) /\ ~Smaller(y, x) PROVE Scaled(x) = Scaled(y)
      OBVIOUS
    <2>1. x.exponent = y.exponent /\ x.mantissa = y.mantissa
      BY Fields DEF Smaller, Finite
    <2> QED
      BY <2>1, Zenon DEF Scaled
  <1> QED
    BY <1>1, <1>2, <1>3, <1>4

\* The bounds the code compares with: the first is the largest float below the
\* type, the second is the float above it.
LEMMA Bounds ==
    ASSUME NEW range \in Ranges
    PROVE  /\ OMIN[range] \in AtMost(1 - range[1])
           /\ \A y \in AtMost(1 - range[1]) : Scaled(OMIN[range]) <= Scaled(y)
           /\ OMAX[range] \in Finite /\ OMAX[range].sign = 0
           /\ Scaled(OMAX[range]) = (range[2] + 1) * One
PROOF
  <1> DEFINE below == AtMost(1 - range[1])
             least(x) == \A y \in below : Scaled(x) <= Scaled(y)
             above(x) == x.sign = 0 /\ Scaled(x) = (range[2] + 1) * One
  <1>1. below # {} /\ below \subseteq Finite
    BY RangesAssumption DEF AtMost
  <1>2. \E x \in below : least(x)
    <2> HIDE DEF below
    <2> DEFINE T == {Scaled(x) : x \in below}
    <2>1. T \subseteq Nat /\ T # {}
      BY <1>1, ScaledNat
    <2>2. PICK n \in T : \A m \in T : n <= m
      <3> HIDE DEF T
      <3> QED
        BY <2>1, LeastExists
    <2>3. PICK x \in below : n = Scaled(x)
      OBVIOUS
    <2> QED
      BY <2>2, <2>3
  <1>3. OMIN[range] = CHOOSE x \in below : least(x)
    BY Zenon DEF OMIN
  <1>4. \E x \in Finite : above(x)
    BY RangesAssumption
  <1>5. OMAX[range] = CHOOSE x \in Finite : above(x)
    BY Zenon DEF OMAX
  <1>6. OMIN[range] \in below /\ least(OMIN[range])
    <2> HIDE DEF below, least
    <2> QED
      BY <1>2, <1>3, Zenon
  <1>7. OMAX[range] \in Finite /\ above(OMAX[range])
    <2> HIDE DEF above
    <2> QED
      BY <1>4, <1>5, Zenon
  <1> QED
    BY <1>6, <1>7

\* What the two comparisons of the code tell of a float that is finite.
LEMMA Compared ==
    ASSUME NEW x \in Finite, NEW range \in Ranges
    PROVE  /\ RealOLE(x, OMIN[range]) <=> x.sign = 1 /\ Scaled(x) >= (1 - range[1]) * One
           /\ RealOGE(x, OMAX[range]) <=> x.sign = 0 /\ Scaled(x) >= (range[2] + 1) * One
PROOF
  <1> DEFINE low == OMIN[range]
             high == OMAX[range]
  <1>1. PICK a \in Nat \ {0} : a = (1 - range[1]) * One
    <2>1. 1 - range[1] \in Nat \ {0}
      BY RangesAssumption
    <2>2. PICK n, m \in Nat \ {0} : n = 1 - range[1] /\ m = One
      BY <2>1, OneNat
    <2>3. n * m \in Nat \ {0}
      OBVIOUS
    <2> QED
      BY <2>2, <2>3
  <1>2. PICK b \in Nat \ {0} : b = (range[2] + 1) * One
    <2>1. range[2] + 1 \in Nat \ {0}
      BY RangesAssumption
    <2>2. PICK n, m \in Nat \ {0} : n = range[2] + 1 /\ m = One
      BY <2>1, OneNat
    <2>3. n * m \in Nat \ {0}
      OBVIOUS
    <2> QED
      BY <2>2, <2>3
  <1>3. /\ low \in Finite /\ low.sign = 1 /\ Scaled(low) >= a
        /\ \A y \in Finite : y.sign = 1 /\ Scaled(y) >= a => Scaled(low) <= Scaled(y)
    BY <1>1, Bounds DEF AtMost
  <1>4. high \in Finite /\ high.sign = 0 /\ Scaled(high) = b
    BY <1>2, Bounds
  <1> HIDE DEF low, high
  <1>5. Scaled(x) \in Nat /\ Scaled(low) \in Nat /\ ~IsZero(low) /\ ~IsZero(high)
    BY <1>3, <1>4, ScaledNat
  <1>6. ~IsNan(x) /\ ~IsNan(low) /\ ~IsNan(high) /\ x.sign \in {0, 1}
    BY <1>3, <1>4, Fields DEF Finite, IsNan
  <1>7. RealOLT(low, x) <=> x.sign = 0 \/ Scaled(x) < Scaled(low)
    BY <1>3, <1>5, <1>6, ScaledOrder DEF RealOLT, RealUNO
  <1>8. RealOLT(x, high) <=> x.sign = 1 \/ Scaled(x) < Scaled(high)
    BY <1>4, <1>5, <1>6, ScaledOrder DEF RealOLT, RealUNO
  <1>9. RealOLE(x, low) <=> x.sign = 1 /\ Scaled(x) >= a
    BY <1>3, <1>5, <1>6, <1>7 DEF RealOLE, RealUNO
  <1>10. RealOGE(x, high) <=> x.sign = 0 /\ Scaled(x) >= b
    BY <1>4, <1>5, <1>6, <1>8 DEF RealOGE, RealOLE, RealUNO
  <1> QED
    BY <1>1, <1>2, <1>9, <1>10 DEF low, high

\* A finite float is in the range of a type when it is past neither bound.
LEMMA Between ==
    ASSUME NEW x \in Finite, NEW range \in Ranges
    PROVE  InRange(x, range) <=> ~RealOLE(x, OMIN[range]) /\ ~RealOGE(x, OMAX[range])
PROOF
  <1>1. PICK D \in Nat \ {0} : D = One
    BY OneNat
  <1>2. PICK S \in Nat : S = Scaled(x)
    BY ScaledNat
  <1>3. PICK low \in Nat : low = -range[1]
    BY RangesAssumption
  <1>4. PICK high \in Nat : high = range[2]
    BY RangesAssumption
  <1>5. /\ S \div D \in Nat
        /\ S \div D >= low + 1 <=> S >= (low + 1) * D
        /\ S \div D >= high + 1 <=> S >= (high + 1) * D
    <2>1. low + 1 \in Nat /\ high + 1 \in Nat
      OBVIOUS
    <2> QED
      BY <2>1, Quotients, Zenon
  <1>6. PICK q \in Nat : q = S \div D
    BY <1>5
  <1>7. FPToInt(x) = IF x.sign = 1 THEN -q ELSE q
    BY <1>1, <1>2, <1>6 DEF FPToInt
  <1>8. range[1] = -low /\ 1 - range[1] = low + 1
    <2>1. range[1] \in Int
      BY RangesAssumption
    <2> QED
      BY <1>3, <2>1
  <1>9. /\ RealOLE(x, OMIN[range]) <=> x.sign = 1 /\ q >= low + 1
        /\ RealOGE(x, OMAX[range]) <=> x.sign = 0 /\ q >= high + 1
    BY <1>1, <1>2, <1>4, <1>5, <1>6, <1>8, Compared
  <1>10. x.sign \in {0, 1} /\ x.exponent # MaxExponent
    BY Fields DEF Finite
  <1>11. InRange(x, range) <=> (IF x.sign = 1 THEN -q ELSE q) \in -low .. high
    BY <1>4, <1>7, <1>8, <1>10 DEF InRange
  <1> QED
    BY <1>9, <1>10, <1>11

\* A truncation traps or saturates out of the range of its type, and only there.
LEMMA TruncIsExact ==
    ASSUME NEW x \in Floats, NEW range \in Ranges
    PROVE  /\ Trunc(x, range) = IF InRange(x, range) THEN {FPToInt(x)} ELSE Trap
           /\ SatTrunc(x, range) = {Clamped(x, range)}
PROOF
  <1>1. x.sign \in {0, 1}
    BY Fields
  <1>2. CASE x.exponent # MaxExponent
    <2>1. x \in Finite /\ ~IsNan(x)
      BY <1>2 DEF Finite, IsNan
    <2>2. InRange(x, range) <=> ~RealOLE(x, OMIN[range]) /\ ~RealOGE(x, OMAX[range])
      BY <2>1, Between
    <2>3. Trunc(x, range) = IF InRange(x, range) THEN {FPToInt(x)} ELSE Trap
      BY <1>2, <2>2 DEF Trunc
    <2>4. (RealOLE(x, OMIN[range]) => x.sign = 1) /\ (RealOGE(x, OMAX[range]) => x.sign = 0)
      BY <2>1, Compared
    <2>5. CASE InRange(x, range)
      BY <2>1, <2>2, <2>3, <2>5 DEF SatTrunc, Clamped
    <2>6. CASE ~InRange(x, range)
      <3>1. CASE RealOGE(x, OMAX[range])
        <4>1. x.sign = 0
          BY <2>4, <3>1
        <4> QED
          BY <2>1, <2>3, <2>6, <3>1, <4>1 DEF SatTrunc, Clamped
      <3>2. CASE ~RealOGE(x, OMAX[range])
        <4>1. RealOLE(x, OMIN[range]) /\ x.sign = 1
          BY <2>2, <2>4, <2>6, <3>2
        <4> QED
          BY <2>1, <2>3, <2>6, <3>2, <4>1 DEF SatTrunc, Clamped
      <3> QED
        BY <3>1, <3>2
    <2> QED
      BY <2>3, <2>5, <2>6
  <1>3. CASE x.exponent = MaxExponent
    <2>1. ~InRange(x, range) /\ Trunc(x, range) = Trap
      BY <1>3 DEF InRange, Trunc
    <2>2. CASE IsNan(x)
      BY <2>1, <2>2 DEF SatTrunc, Clamped
    <2>3. CASE ~IsNan(x)
      <3>1. PICK low \in Finite : low = OMIN[range] /\ low.sign = 1
        BY Bounds DEF AtMost
      <3>2. PICK high \in Finite : high = OMAX[range] /\ high.sign = 0
        BY Bounds
      <3>3. /\ low.exponent \in Nat /\ low.exponent < MaxExponent /\ ~IsNan(low)
            /\ high.exponent \in Nat /\ high.exponent < MaxExponent /\ ~IsNan(high)
            /\ MaxExponent \in Nat \ {0}
        BY FormatAssumption, Fields DEF Finite, IsNan
      <3>4. RealOGE(x, high) <=> x.sign = 0
        BY <1>1, <1>3, <2>3, <3>2, <3>3 DEF RealOGE, RealOLE, RealOLT, RealUNO, Smaller, IsZero
      <3>5. x.sign = 1 => RealOLE(x, low)
        BY <1>3, <2>3, <3>1, <3>3 DEF RealOLE, RealOLT, RealUNO, Smaller, IsZero
      <3>6. CASE x.sign = 0
        BY <2>1, <2>3, <3>2, <3>4, <3>6 DEF SatTrunc, Clamped
      <3>7. CASE x.sign = 1
        BY <2>1, <2>3, <3>1, <3>2, <3>4, <3>5, <3>7 DEF SatTrunc, Clamped
      <3> QED
        BY <1>1, <2>1, <3>6, <3>7
    <2> QED
      BY <2>1, <2>2, <2>3
  <1> QED
    BY <1>2, <1>3

\* A float is truncated when, and only when, what is left of it is an integer of the
\* type, and traps or saturates otherwise, for every float format and every type of
\* which the two bounds the code compares with are floats (module.cpp:1616-1637,
\* 1910-1934).
THEOREM TruncationsAreExact == Spec => []TruncExact
PROOF
  <1>1. Init => TruncExact
    BY DEF Init, TruncExact, Nothing
  <1>2. TruncExact /\ [Next]_vars => TruncExact'
    <2> SUFFICES ASSUME TruncExact, [Next]_vars PROVE TruncExact'
      OBVIOUS
    <2>1. CASE executed' = executed
      BY <2>1 DEF TruncExact, Operand
    <2>2. CASE ExecuteTrunc
      <3>1. PICK x \in Floats, range \in Ranges : Execute("trunc", <<x, range>>, Trunc(x, range))
        BY <2>2 DEF ExecuteTrunc
      <3>2. /\ executed'.op = "trunc" /\ executed'.result = Trunc(x, range)
            /\ executed'.operands[1] = x /\ executed'.operands[2] = range
        BY <3>1 DEF Execute
      <3> QED
        BY <3>2, TruncIsExact DEF TruncExact, Operand
    <2>3. CASE ExecuteSatTrunc
      <3>1. PICK x \in Floats, range \in Ranges : Execute("trunc_sat", <<x, range>>, SatTrunc(x, range))
        BY <2>3 DEF ExecuteSatTrunc
      <3>2. /\ executed'.op = "trunc_sat" /\ executed'.result = SatTrunc(x, range)
            /\ executed'.operands[1] = x /\ executed'.operands[2] = range
        BY <3>1 DEF Execute
      <3> QED
        BY <3>2, TruncIsExact DEF TruncExact, Operand
    <2>4. CASE ExecuteInteger
      BY <2>4 DEF ExecuteInteger, Execute, IntegerOps, TruncExact
    <2>5. CASE \/ ExecuteMin \/ ExecuteMax \/ ExecuteFloat \/ ExecuteRound
               \/ ExecuteSqrt \/ ExecuteInitF32 \/ ExecuteInitF64
      <3>1. executed'.op \in {"min", "max", "float", "round", "sqrt", "init32", "init64"}
        BY <2>5 DEF ExecuteMin, ExecuteMax, ExecuteFloat, ExecuteRound, ExecuteSqrt,
                    ExecuteInitF32, ExecuteInitF64, Execute
      <3> QED
        BY <3>1 DEF TruncExact
    <2> QED
      BY <2>1, <2>2, <2>3, <2>4, <2>5 DEF Next, vars, ReadMore, ReadLast
  <1> QED
    BY <1>1, <1>2, PTL DEF Spec

-----------------------------------------------------------------------------
(* Quotients and bits.                                                     *)

\* Division of integers by a positive number rounds down.
LEMMA Division ==
    ASSUME NEW D \in Nat \ {0}, NEW n \in Int
    PROVE  n \div D \in Int /\ n % D \in 0 .. D - 1 /\ n = D * (n \div D) + (n % D)
OBVIOUS

\* And is determined by that.
LEMMA DivisionIs ==
    ASSUME NEW D \in Nat \ {0}, NEW q \in Int, NEW r \in 0 .. D - 1, NEW n \in Int, n = D * q + r
    PROVE  n \div D = q /\ n % D = r
PROOF
  <1>1. n \div D \in Int /\ n % D \in 0 .. D - 1 /\ n = D * (n \div D) + (n % D)
    BY Division
  <1>2. PICK t \in Int : t = n \div D
    BY <1>1
  <1>3. PICK s \in 0 .. D - 1 : s = n % D
    BY <1>1
  <1>4. D * t + s = D * q + r
    BY <1>1, <1>2, <1>3
  <1>5. ~ (t < q)
    <2> SUFFICES ASSUME t < q PROVE FALSE
      OBVIOUS
    <2>1. PICK d \in Nat : q = t + 1 + d
      <3>1. q - t - 1 \in Nat /\ q = t + 1 + (q - t - 1)
        OBVIOUS
      <3> QED
        BY <3>1
    <2>2. D * q = D * t + D + D * d /\ D * d \in Nat
      BY <2>1
    <2> QED
      BY <1>4, <2>2
  <1>6. ~ (q < t)
    <2> SUFFICES ASSUME q < t PROVE FALSE
      OBVIOUS
    <2>1. PICK d \in Nat : t = q + 1 + d
      <3>1. t - q - 1 \in Nat /\ t = q + 1 + (t - q - 1)
        OBVIOUS
      <3> QED
        BY <3>1
    <2>2. D * t = D * q + D + D * d /\ D * d \in Nat
      BY <2>1
    <2> QED
      BY <1>4, <2>2
  <1>7. t = q
    BY <1>5, <1>6
  <1> QED
    BY <1>2, <1>3, <1>4, <1>7

\* The quotient and the remainder, named.
LEMMA DivisionExists ==
    ASSUME NEW D \in Nat \ {0}, NEW n \in Int
    PROVE  \E q \in Int, r \in 0 .. D - 1 : n = D * q + r /\ n \div D = q /\ n % D = r
BY Division

\* Dividing twice is dividing once by the product.
LEMMA DivDiv ==
    ASSUME NEW A \in Nat \ {0}, NEW B \in Nat \ {0}, NEW n \in Int
    PROVE  (n \div A) \div B = n \div (A * B)
PROOF
  <1>1. PICK q \in Int, r \in 0 .. A - 1 : n = A * q + r /\ n \div A = q
    BY DivisionExists
  <1>2. PICK s \in Int, t \in 0 .. B - 1 : q = B * s + t /\ q \div B = s
    BY DivisionExists
  <1>3. PICK C \in Nat \ {0} : C = A * B
    OBVIOUS
  <1>4. A * t + r \in 0 .. C - 1
    <2>1. A * (t + 1) <= A * B
      BY Monotonic
    <2>2. A * (t + 1) = A * t + A /\ A * t \in Nat
      OBVIOUS
    <2> QED
      BY <1>3, <2>1, <2>2
  <1>5. n = C * s + (A * t + r)
    <2>1. A * q = A * (B * s) + A * t
      BY <1>2
    <2>2. A * (B * s) = C * s
      BY <1>3
    <2> QED
      BY <1>1, <2>1, <2>2
  <1>6. n \div C = s
    <2>1. PICK u \in 0 .. C - 1 : u = A * t + r
      BY <1>4
    <2>2. n = C * s + u
      BY <1>5, <2>1
    <2> QED
      BY <2>2, DivisionIs
  <1> QED
    BY <1>1, <1>2, <1>3, <1>6

\* A common factor does not change a quotient.
LEMMA DivMul ==
    ASSUME NEW A \in Nat \ {0}, NEW B \in Nat \ {0}, NEW n \in Int
    PROVE  (n * A) \div (A * B) = n \div B
PROOF
  <1>1. PICK q \in Int, r \in 0 .. B - 1 : n = B * q + r /\ n \div B = q
    BY DivisionExists
  <1>2. PICK C \in Nat \ {0} : C = A * B
    OBVIOUS
  <1>3. PICK u \in 0 .. C - 1 : u = A * r
    <2>1. A * (r + 1) <= A * B /\ A * (r + 1) = A * r + A /\ A * r \in Nat
      BY Monotonic
    <2> QED
      BY <1>2, <2>1
  <1>4. n * A = C * q + u
    <2>1. n * A = A * (B * q) + A * r
      BY <1>1
    <2>2. A * (B * q) = C * q
      BY <1>2
    <2> QED
      BY <1>3, <2>1, <2>2
  <1>5. n * A \in Int
    OBVIOUS
  <1>6. (n * A) \div C = q
    BY <1>4, <1>5, DivisionIs
  <1> QED
    BY <1>1, <1>2, <1>6

\* A multiple of the divisor is added to the dividend.
LEMMA DivAdd ==
    ASSUME NEW A \in Nat \ {0}, NEW n \in Int, NEW m \in Int
    PROVE  (n + A * m) \div A = (n \div A) + m
PROOF
  <1>1. PICK q \in Int, r \in 0 .. A - 1 : n = A * q + r /\ n \div A = q
    BY DivisionExists
  <1>2. PICK k \in Int : k = n + A * m
    OBVIOUS
  <1>3. q + m \in Int /\ k = A * (q + m) + r
    BY <1>1, <1>2
  <1>4. k \div A = q + m
    BY <1>3, DivisionIs
  <1> QED
    BY <1>1, <1>2, <1>4

\* Bit b of a number.
Bit(n, b) == (n \div Power[b]) % 2 = 1

\* An even number leaves the parity alone.
LEMMA Parity ==
    ASSUME NEW n \in Int, NEW m \in Int
    PROVE  (n + 2 * m) % 2 = n % 2 /\ (2 * m) % 2 = 0
OBVIOUS

\* The bits of a quotient by a power of two.
LEMMA BitDiv ==
    ASSUME NEW n \in Int, NEW k \in Nat, NEW b \in Nat
    PROVE  Bit(n \div Power[k], b) <=> Bit(n, k + b)
PROOF
  <1>1. PICK A \in Nat \ {0} : A = Power[k]
    BY Powers
  <1>2. PICK B \in Nat \ {0} : B = Power[b]
    BY Powers
  <1>3. Power[k + b] = A * B
    BY <1>1, <1>2, PowersAdd
  <1>4. (n \div A) \div B = n \div (A * B)
    BY DivDiv
  <1> QED
    BY <1>1, <1>2, <1>3, <1>4, Zenon DEF Bit

\* The bits of a product with one.
LEMMA BitMul ==
    ASSUME NEW n \in Int, NEW k \in Nat, NEW b \in Nat
    PROVE  Bit(n * Power[k], b) <=> k <= b /\ Bit(n, b - k)
PROOF
  <1>1. PICK A \in Nat \ {0} : A = Power[k]
    BY Powers
  <1>2. CASE k <= b
    <2>1. PICK d \in Nat : d = b - k /\ b = k + d
      BY <1>2
    <2>2. PICK B \in Nat \ {0} : B = Power[d]
      BY Powers
    <2>3. Power[b] = A * B
      BY <1>1, <2>1, <2>2, PowersAdd
    <2>4. (n * A) \div (A * B) = n \div B
      BY DivMul
    <2>5. Bit(n * Power[k], b) <=> Bit(n, d)
      BY <1>1, <2>2, <2>3, <2>4, Zenon DEF Bit
    <2> QED
      BY <1>2, <2>1, <2>5
  <1>3. CASE b < k
    <2>1. PICK d \in Nat : k = b + (d + 1)
      <3>1. k - b - 1 \in Nat /\ k = b + ((k - b - 1) + 1)
        BY <1>3
      <3> QED
        BY <3>1
    <2>2. PICK B \in Nat \ {0} : B = Power[b]
      BY Powers
    <2>3. PICK C \in Nat \ {0} : C = Power[d]
      BY Powers
    <2>4. A = B * (2 * C)
      <3>1. d + 1 \in Nat /\ Power[d + 1] = 2 * C
        BY <2>3, Powers
      <3>2. Power[b + (d + 1)] = Power[b] * Power[d + 1]
        BY <3>1, PowersAdd
      <3> QED
        BY <1>1, <2>1, <2>2, <3>1, <3>2
    <2>5. PICK m \in Int : m = n * C
      OBVIOUS
    <2>6. n * A = B * (2 * m) + 0
      <3>1. n * (B * (2 * C)) = B * (2 * (n * C))
        OBVIOUS
      <3> QED
        BY <2>4, <2>5, <3>1
    <2>7. (n * A) \div B = 2 * m
      <3>1. n * A \in Int /\ 2 * m \in Int /\ 0 \in 0 .. B - 1
        OBVIOUS
      <3> QED
        BY <2>6, <3>1, DivisionIs
    <2>8. ((n * A) \div B) % 2 = 0
      BY <2>7, Parity
    <2>9. ~Bit(n * Power[k], b)
      BY <1>1, <2>2, <2>8 DEF Bit
    <2> QED
      BY <1>3, <2>9
  <1> QED
    BY <1>2, <1>3

\* The bits of a remainder.
LEMMA BitMod ==
    ASSUME NEW n \in Int, NEW k \in Nat, NEW b \in Nat
    PROVE  Bit(n % Power[k], b) <=> b < k /\ Bit(n, b)
PROOF
  <1>1. PICK A \in Nat \ {0} : A = Power[k]
    BY Powers
  <1>2. PICK B \in Nat \ {0} : B = Power[b]
    BY Powers
  <1>3. PICK q \in Int, r \in 0 .. A - 1 : n = A * q + r /\ n % A = r
    BY DivisionExists
  <1>4. CASE b < k
    <2>1. PICK d \in Nat : k = b + (d + 1)
      <3>1. k - b - 1 \in Nat /\ k = b + ((k - b - 1) + 1)
        BY <1>4
      <3> QED
        BY <3>1
    <2>2. PICK C \in Nat \ {0} : C = Power[d]
      BY Powers
    <2>3. A = B * (2 * C)
      <3>1. d + 1 \in Nat /\ Power[d + 1] = 2 * C
        BY <2>2, Powers
      <3>2. Power[b + (d + 1)] = Power[b] * Power[d + 1]
        BY <3>1, PowersAdd
      <3> QED
        BY <1>1, <1>2, <2>1, <3>1, <3>2
    <2>4. PICK m \in Int : m = C * q
      OBVIOUS
    <2>5. n = r + B * (2 * m)
      <3>1. (B * (2 * C)) * q = B * (2 * (C * q))
        OBVIOUS
      <3> QED
        BY <1>3, <2>3, <2>4, <3>1
    <2>6. n \div B = (r \div B) + 2 * m
      BY <2>5, DivAdd
    <2>7. PICK t \in Int : t = r \div B
      BY Division
    <2>8. (n \div B) % 2 = (r \div B) % 2
      BY <2>6, <2>7, Parity
    <2> QED
      BY <1>1, <1>2, <1>3, <1>4, <2>8 DEF Bit
  <1>5. CASE k <= b
    <2>1. A <= B
      BY <1>1, <1>2, <1>5, PowersGrow
    <2>2. r \in 0 .. B - 1 /\ r = B * 0 + r /\ r \in Int
      BY <2>1
    <2>3. r \div B = 0
      BY <2>2, DivisionIs
    <2>4. ~Bit(r, b)
      BY <1>2, <2>3 DEF Bit
    <2> QED
      BY <1>1, <1>3, <1>5, <2>4
  <1> QED
    BY <1>4, <1>5

\* Two numbers agree on their lowest bits.
SameBits(n, m, w) == \A b \in 0 .. w - 1 : Bit(n, b) <=> Bit(m, b)

\* A number below a power of two is known by its bits.
LEMMA BitsTell ==
    ASSUME NEW w \in Nat, NEW n \in 0 .. Power[w] - 1, NEW m \in 0 .. Power[w] - 1, SameBits(n, m, w)
    PROVE  n = m
PROOF
  <1> DEFINE told(v) == \A x, y \in 0 .. Power[v] - 1 : SameBits(x, y, v) => x = y
             T == {v \in Nat : told(v)}
  <1>1. 0 \in T
    BY Powers
  <1>2. ASSUME NEW v \in Nat, v \in T PROVE v + 1 \in T
    <2> SUFFICES ASSUME NEW x \in 0 .. Power[v + 1] - 1, NEW y \in 0 .. Power[v + 1] - 1,
                        SameBits(x, y, v + 1)
                 PROVE  x = y
      OBVIOUS
    <2>1. PICK p \in Nat \ {0} : p = Power[v] /\ Power[v + 1] = 2 * p
      BY Powers
    <2>2. PICK h \in Nat, e \in 0 .. 1 : x = 2 * h + e /\ x \div 2 = h /\ x % 2 = e
      BY <2>1
    <2>3. PICK i \in Nat, f \in 0 .. 1 : y = 2 * i + f /\ y \div 2 = i /\ y % 2 = f
      BY <2>1
    <2>4. h \in 0 .. p - 1 /\ i \in 0 .. p - 1
      BY <2>1, <2>2, <2>3
    <2>5. Power[0] = 1 /\ Power[1] = 2
      <3>1. 0 + 1 = 1 /\ 0 \in Nat
        OBVIOUS
      <3> QED
        BY <3>1, Powers
    <2>6. SameBits(h, i, v)
      <3> SUFFICES ASSUME NEW b \in 0 .. v - 1 PROVE Bit(h, b) <=> Bit(i, b)
        BY DEF SameBits
      <3>1. b \in Nat /\ 1 \in Nat /\ 1 + b \in 0 .. (v + 1) - 1
        OBVIOUS
      <3>4. x \in Int /\ y \in Int
        BY <2>1
      <3>2. Bit(x, 1 + b) <=> Bit(y, 1 + b)
        BY <3>1 DEF SameBits
      <3>3. (Bit(x \div Power[1], b) <=> Bit(x, 1 + b)) /\ (Bit(y \div Power[1], b) <=> Bit(y, 1 + b))
        BY <3>1, <3>4, BitDiv, Zenon
      <3> QED
        BY <2>2, <2>3, <2>5, <3>2, <3>3
    <2>7. h = i
      BY <1>2, <2>1, <2>4, <2>6
    <2>8. Bit(x, 0) <=> Bit(y, 0)
      BY DEF SameBits
    <2>9. x \div 1 = x /\ y \div 1 = y
      OBVIOUS
    <2>10. e = 1 <=> f = 1
      BY <2>2, <2>3, <2>5, <2>8, <2>9 DEF Bit
    <2> QED
      BY <2>2, <2>3, <2>7, <2>10
  <1> HIDE DEF T
  <1>3. \A v \in Nat : v \in T
    BY <1>1, <1>2, AllNaturals
  <1> QED
    BY <1>3 DEF T

\* And every set of bits below it is that of a number.
LEMMA BitsExist ==
    ASSUME NEW w \in Nat, NEW bits \in SUBSET (0 .. w - 1)
    PROVE  \E n \in 0 .. Power[w] - 1 : \A b \in 0 .. w - 1 : Bit(n, b) <=> b \in bits
PROOF
  <1> DEFINE has(n, v, s) == \A b \in 0 .. v - 1 : Bit(n, b) <=> b \in s
             T == {v \in Nat : \A s \in SUBSET (0 .. v - 1) : \E n \in 0 .. Power[v] - 1 : has(n, v, s)}
  <1>1. 0 \in T
    <2>1. 0 \in 0 .. Power[0] - 1 /\ 0 .. 0 - 1 = {}
      BY Powers
    <2> QED
      BY <2>1
  <1>2. ASSUME NEW v \in Nat, v \in T PROVE v + 1 \in T
    <2> SUFFICES ASSUME NEW s \in SUBSET (0 .. (v + 1) - 1)
                 PROVE  \E n \in 0 .. Power[v + 1] - 1 : has(n, v + 1, s)
      <3> HIDE DEF has
      <3> QED
        OBVIOUS
    <2>1. PICK p \in Nat \ {0} : p = Power[v] /\ Power[v + 1] = 2 * p
      BY Powers
    <2>2. PICK u \in SUBSET (0 .. v - 1) : u = {b \in 0 .. v - 1 : b + 1 \in s}
      OBVIOUS
    <2>3. PICK h \in 0 .. p - 1 : has(h, v, u)
      BY <1>2, <2>1
    <2>4. PICK e \in 0 .. 1 : e = 1 <=> 0 \in s
      <3>1. CASE 0 \in s
        BY <3>1
      <3>2. CASE 0 \notin s
        BY <3>2
      <3> QED
        BY <3>1, <3>2
    <2>5. PICK n \in 0 .. 2 * p - 1 : n = 2 * h + e
      OBVIOUS
    <2>6. n \div 2 = h /\ n % 2 = e /\ n \div 1 = n
      BY <2>5
    <2>7. Power[0] = 1 /\ Power[1] = 2
      <3>1. 0 + 1 = 1 /\ 0 \in Nat
        OBVIOUS
      <3> QED
        BY <3>1, Powers
    <2>8. ASSUME NEW b \in 0 .. (v + 1) - 1 PROVE Bit(n, b) <=> b \in s
      <3>1. CASE b = 0
        BY <2>4, <2>6, <2>7, <3>1 DEF Bit
      <3>2. CASE b # 0
        <4>1. PICK c \in 0 .. v - 1 : b = 1 + c /\ b = c + 1
          <5>1. b - 1 \in 0 .. v - 1 /\ b = 1 + (b - 1) /\ b = (b - 1) + 1
            BY <3>2
          <5> QED
            BY <5>1
        <4>2. Bit(n \div Power[1], c) <=> Bit(n, 1 + c)
          BY BitDiv
        <4>3. Bit(h, c) <=> c + 1 \in s
          BY <2>2, <2>3
        <4> QED
          BY <2>6, <2>7, <4>1, <4>2, <4>3
      <3> QED
        BY <3>1, <3>2
    <2> QED
      BY <2>1, <2>8
  <1> HIDE DEF T
  <1>3. \A v \in Nat : v \in T
    BY <1>1, <1>2, AllNaturals
  <1> QED
    BY <1>3 DEF T

-----------------------------------------------------------------------------
(* Words.                                                                  *)

\* A word has bits, as many as some power of two, and its numbers split in halves.
LEMMA WordWidths ==
    /\ Width \in Nat \ {0} /\ Width - 1 \in Nat
    /\ Power[Width] = 2 * Power[Width - 1]
    /\ \E p \in Nat : p < Width /\ Width = Power[p]
PROOF
  <1>1. PICK p \in Nat : Width = Power[p]
    BY WidthAssumption
  <1>2. p < Width /\ Width \in Nat \ {0}
    BY <1>1, PowersExceed, Powers
  <1>3. Width - 1 \in Nat /\ (Width - 1) + 1 = Width
    BY <1>2
  <1>4. Power[(Width - 1) + 1] = 2 * Power[Width - 1]
    BY <1>3, Powers
  <1> QED
    BY <1>1, <1>2, <1>3, <1>4

\* The number of a word has the bits of the word.
LEMMA UnsignedOf ==
    ASSUME NEW w \in Words
    PROVE  Unsigned(w) \in 0 .. Power[Width] - 1 /\ Word(Unsigned(w)) = w
PROOF
  <1>1. PICK n \in 0 .. Power[Width] - 1 : \A b \in 0 .. Width - 1 : Bit(n, b) <=> b \in w
    BY WordWidths, BitsExist DEF Words, Bits
  <1>2. Word(n) = w
    BY <1>1 DEF Word, Bits, Bit, Words
  <1> QED
    BY <1>2, Zenon DEF Unsigned

\* And is the only one.
LEMMA UnsignedIs ==
    ASSUME NEW n \in 0 .. Power[Width] - 1
    PROVE  Word(n) \in Words /\ Unsigned(Word(n)) = n
PROOF
  <1>1. Word(n) \in Words
    BY DEF Word, Words
  <1>2. PICK m \in 0 .. Power[Width] - 1 : m = Unsigned(Word(n)) /\ Word(m) = Word(n)
    BY <1>1, UnsignedOf
  <1>3. SameBits(m, n, Width)
    <2> SUFFICES ASSUME NEW b \in 0 .. Width - 1 PROVE Bit(m, b) <=> Bit(n, b)
      BY DEF SameBits
    <2>1. b \in Word(m) <=> b \in Word(n)
      BY <1>2
    <2> QED
      BY <2>1 DEF Word, Bits, Bit
  <1>4. Width \in Nat
    BY WordWidths
  <1>5. m = n
    BY <1>3, <1>4, BitsTell
  <1> QED
    BY <1>1, <1>2, <1>5

\* A word keeps the lowest bits of a number.
LEMMA WordMod ==
    ASSUME NEW n \in Int
    PROVE  /\ n % Power[Width] \in 0 .. Power[Width] - 1 /\ Word(n) = Word(n % Power[Width])
           /\ Word(n) \in Words /\ Unsigned(Word(n)) = n % Power[Width]
PROOF
  <1>1. PICK D \in Nat \ {0} : D = Power[Width]
    BY WordWidths, Powers
  <1>2. PICK u \in 0 .. D - 1 : u = n % D
    BY Division
  <1>3. ASSUME NEW b \in Bits PROVE Bit(u, b) <=> Bit(n, b)
    <2>1. b \in Nat /\ b < Width /\ Width \in Nat
      BY WordWidths DEF Bits
    <2>2. Bit(n % Power[Width], b) <=> b < Width /\ Bit(n, b)
      BY <2>1, BitMod
    <2> QED
      BY <1>1, <1>2, <2>1, <2>2
  <1>4. Word(n) = Word(u)
    BY <1>3 DEF Word, Bit
  <1>5. Word(u) \in Words /\ Unsigned(Word(u)) = u
    BY <1>1, <1>2, UnsignedIs
  <1> QED
    BY <1>1, <1>2, <1>4, <1>5

\* The sign bit is that of a number of the upper half.
LEMMA SignBitOf ==
    ASSUME NEW n \in 0 .. Power[Width] - 1
    PROVE  Width - 1 \in Word(n) <=> n >= Power[Width - 1]
PROOF
  <1>1. PICK H \in Nat \ {0} : H = Power[Width - 1] /\ Power[Width] = 2 * H
    BY WordWidths, Powers
  <1>2. Width - 1 \in Word(n) <=> (n \div H) % 2 = 1
    BY <1>1, WordWidths DEF Word, Bits
  <1>3. CASE n >= H
    <2>1. n - H \in 0 .. H - 1 /\ n = H * 1 + (n - H)
      BY <1>1, <1>3
    <2>2. PICK r \in 0 .. H - 1 : n = H * 1 + r
      BY <2>1
    <2>3. n \div H = 1
      BY <2>2, DivisionIs
    <2> QED
      BY <1>1, <1>2, <1>3, <2>3
  <1>4. CASE n < H
    <2>1. n \in 0 .. H - 1 /\ n = H * 0 + n /\ n \in Int
      BY <1>1, <1>4
    <2>2. n \div H = 0
      BY <2>1, DivisionIs
    <2> QED
      BY <1>1, <1>2, <1>4, <2>2
  <1> QED
    BY <1>1, <1>3, <1>4

\* The signed numbers of a width.
SignedRange == -Power[Width - 1] .. Power[Width - 1] - 1

\* The signed number of a word has its bits too.
LEMMA SignedOf ==
    ASSUME NEW w \in Words
    PROVE  Signed(w) \in SignedRange /\ Word(Signed(w)) = w
PROOF
  <1>1. PICK H \in Nat \ {0} : H = Power[Width - 1] /\ Power[Width] = 2 * H
    BY WordWidths, Powers
  <1>2. PICK u \in 0 .. 2 * H - 1 : u = Unsigned(w) /\ Word(u) = w
    BY <1>1, UnsignedOf
  <1>3. Width - 1 \in w <=> u >= H
    BY <1>1, <1>2, SignBitOf
  <1>4. CASE u < H
    BY <1>1, <1>2, <1>3, <1>4 DEF Signed, SignedRange
  <1>5. CASE u >= H
    <2>1. Signed(w) = u - 2 * H
      BY <1>1, <1>2, <1>3, <1>5 DEF Signed
    <2>2. PICK n \in Int : n = u - 2 * H /\ n = (2 * H) * (-1) + u
      OBVIOUS
    <2>3. n % (2 * H) = u
      <3>1. 2 * H \in Nat \ {0} /\ -1 \in Int
        OBVIOUS
      <3> QED
        BY <2>2, <3>1, DivisionIs
    <2>4. Word(n) = Word(n % Power[Width])
      BY WordMod
    <2> QED
      BY <1>1, <1>2, <1>5, <2>1, <2>2, <2>3, <2>4 DEF SignedRange
  <1> QED
    BY <1>4, <1>5

\* And is the only one.
LEMMA SignedIs ==
    ASSUME NEW n \in SignedRange
    PROVE  Word(n) \in Words /\ Signed(Word(n)) = n
PROOF
  <1>1. PICK H \in Nat \ {0} : H = Power[Width - 1] /\ Power[Width] = 2 * H
    BY WordWidths, Powers
  <1>2. n \in Int /\ -H <= n /\ n < H
    BY <1>1 DEF SignedRange
  <1>3. PICK u \in 0 .. 2 * H - 1 : u = IF n < 0 THEN n + 2 * H ELSE n
    BY <1>2
  <1>4. n % (2 * H) = u
    <2>1. 2 * H \in Nat \ {0} /\ -1 \in Int /\ 0 \in Int
      OBVIOUS
    <2>2. n = (2 * H) * (-1) + u \/ n = (2 * H) * 0 + u
      BY <1>2, <1>3
    <2> QED
      BY <1>2, <2>1, <2>2, DivisionIs
  <1>5. Word(n) = Word(u) /\ Word(n) \in Words /\ Unsigned(Word(n)) = u
    BY <1>1, <1>2, <1>4, WordMod
  <1>6. Width - 1 \in Word(n) <=> u >= H
    BY <1>1, <1>5, SignBitOf
  <1> QED
    BY <1>1, <1>2, <1>3, <1>5, <1>6 DEF Signed

-----------------------------------------------------------------------------
(* Shifts and rotations.                                                   *)

\* A number below a power of two has no bits from there on, and one that is less
\* than zero has them all.
LEMMA HighBits ==
    ASSUME NEW k \in Nat, NEW n \in -Power[k] .. Power[k] - 1, NEW b \in Nat, k <= b
    PROVE  Bit(n, b) <=> n < 0
PROOF
  <1>1. PICK A \in Nat \ {0} : A = Power[k]
    BY Powers
  <1>2. PICK B \in Nat \ {0} : B = Power[b]
    BY Powers
  <1>3. A <= B
    BY <1>1, <1>2, PowersGrow
  <1>4. PICK m \in Int : m = n /\ -B <= m /\ m < B
    BY <1>1, <1>3
  <1>5. CASE m >= 0
    <2>1. m \in 0 .. B - 1 /\ m = B * 0 + m
      BY <1>4, <1>5
    <2>2. m \div B = 0
      BY <2>1, DivisionIs
    <2> QED
      BY <1>2, <1>4, <1>5, <2>2 DEF Bit
  <1>6. CASE m < 0
    <2>1. m + B \in 0 .. B - 1 /\ m = B * (-1) + (m + B) /\ -1 \in Int
      BY <1>4, <1>6
    <2>2. PICK r \in 0 .. B - 1 : m = B * (-1) + r
      BY <2>1
    <2>3. m \div B = -1
      BY <2>1, <2>2, DivisionIs
    <2>4. PICK i \in Int : i = -1 /\ i = 2 * i + 1
      OBVIOUS
    <2>5. i % 2 = 1
      <3>1. PICK D \in Nat \ {0} : D = 2
        OBVIOUS
      <3>2. PICK q \in Int, t \in 0 .. D - 1 : i = D * q + t /\ i % D = t
        BY DivisionExists
      <3>3. t = 1
        BY <2>4, <3>1, <3>2
      <3> QED
        BY <3>1, <3>2, <3>3
    <2> QED
      BY <1>2, <1>4, <1>6, <2>3, <2>4, <2>5 DEF Bit
  <1> QED
    BY <1>4, <1>5, <1>6

\* The mask of a count has the bits below that of the width.
LEMMA MaskOf ==
    ASSUME NEW p \in Nat, Width = Power[p], p < Width
    PROVE  Word(Width - 1) = 0 .. p - 1
PROOF
  <1>1. Width \in Nat
    BY WordWidths
  <1>2. PICK W \in Nat \ {0} : W = Power[p]
    BY Powers
  <1>3. ASSUME NEW b \in Nat PROVE Bit(Width - 1, b) <=> b < p
    <2>1. CASE p <= b
      <3>1. PICK n \in -Power[p] .. Power[p] - 1 : n = Width - 1 /\ n >= 0
        BY <1>2
      <3> QED
        BY <2>1, <3>1, HighBits
    <2>2. CASE b < p
      <3>1. PICK d \in Nat : p = b + (d + 1)
        <4>1. p - b - 1 \in Nat /\ p = b + ((p - b - 1) + 1)
          BY <2>2
        <4> QED
          BY <4>1
      <3>2. PICK B \in Nat \ {0} : B = Power[b]
        BY Powers
      <3>3. PICK C \in Nat \ {0} : C = Power[d]
        BY Powers
      <3>4. W = B * (2 * C)
        <4>1. d + 1 \in Nat /\ Power[d + 1] = 2 * C
          BY <3>3, Powers
        <4>2. Power[b + (d + 1)] = Power[b] * Power[d + 1]
          BY <4>1, PowersAdd
        <4> QED
          BY <1>2, <3>1, <3>2, <4>1, <4>2
      <3>5. PICK n \in Int : n = Width - 1
        BY <1>1
      <3>6. PICK q \in Nat : 2 * C = q + 1 /\ q % 2 = 1
        <4>1. 2 * C - 1 \in Nat /\ 2 * C = (2 * C - 1) + 1 /\ (2 * C - 1) % 2 = 1
          OBVIOUS
        <4> QED
          BY <4>1
      <3>7. PICK r \in 0 .. B - 1 : r = B - 1
        OBVIOUS
      <3>8. n = B * q + r
        <4>1. B * (q + 1) = B * q + B /\ B * q \in Nat
          OBVIOUS
        <4>2. W = B * (q + 1)
          BY <3>4, <3>6
        <4>3. n = W - 1
          BY <1>2, <3>5
        <4> QED
          BY <3>7, <4>1, <4>2, <4>3
      <3>9. n \div B = q
        BY <3>8, DivisionIs
      <3> QED
        BY <2>2, <3>2, <3>5, <3>6, <3>9 DEF Bit
    <2> QED
      BY <2>1, <2>2
  <1> QED
    BY <1>1, <1>3 DEF Word, Bits, Bit

\* So a masked count is the count modulo the width.
LEMMA MaskIsModulo ==
    ASSUME NEW count \in Words
    PROVE  ShiftMask(count) = Unsigned(count) % Width /\ ShiftMask(count) \in 0 .. Width - 1
PROOF
  <1>1. PICK p \in Nat : p < Width /\ Width = Power[p]
    BY WordWidths
  <1>2. Width \in Nat \ {0}
    BY WordWidths
  <1>3. PICK u \in Nat : u = Unsigned(count) /\ Word(u) = count
    BY UnsignedOf
  <1>4. PICK n \in 0 .. Width - 1 : n = u % Width
    BY <1>2
  <1>5. n \in 0 .. Power[Width] - 1
    BY <1>1, <1>2, PowersGrow, Powers
  <1>6. Word(n) = count \cap Word(Width - 1)
    <2>1. ASSUME NEW b \in Bits PROVE Bit(n, b) <=> b < p /\ Bit(u, b)
      <3>1. b \in Nat
        BY <1>2 DEF Bits
      <3>2. Bit(u % Power[p], b) <=> b < p /\ Bit(u, b)
        BY <3>1, BitMod
      <3> QED
        BY <1>1, <1>4, <3>2
    <2>2. Word(Width - 1) = 0 .. p - 1
      BY <1>1, MaskOf
    <2>3. \A b \in Bits : b \in 0 .. p - 1 <=> b < p
      BY <1>2 DEF Bits
    <2>4. \A b \in Bits : b \in count <=> Bit(u, b)
      BY <1>3 DEF Word, Bit
    <2>5. count \subseteq Bits
      BY DEF Words
    <2> QED
      BY <2>1, <2>2, <2>3, <2>4, <2>5 DEF Word, Bit
  <1>7. Unsigned(Word(n)) = n
    BY <1>5, UnsignedIs
  <1> QED
    BY <1>3, <1>4, <1>6, <1>7 DEF ShiftMask

\* The count of the other shift of a rotation.
LEMMA OtherCount ==
    ASSUME NEW r \in Words
    PROVE  LET k == Unsigned(r) % Width
           IN  ShiftMask(BitWidthMinus(r)) = IF k = 0 THEN 0 ELSE Width - k
PROOF
  <1>1. PICK p \in Nat : p < Width /\ Width = Power[p]
    BY WordWidths
  <1>2. PICK W \in Nat \ {0} : W = Width
    BY WordWidths
  <1>3. PICK u \in Nat : u = Unsigned(r)
    BY UnsignedOf
  <1>4. PICK n \in Int : n = Width - u
    BY <1>2
  <1>5. PICK v \in Nat : v = n % Power[Width] /\ Word(n) \in Words /\ Unsigned(Word(n)) = v
    BY WordMod
  <1>6. PICK B \in Nat \ {0} : Power[Width] = W * B
    <2>1. PICK d \in Nat : W = p + d
      <3>1. W - p \in Nat /\ W = p + (W - p)
        BY <1>1, <1>2
      <3> QED
        BY <3>1
    <2>2. Power[p + d] = Power[p] * Power[d] /\ Power[d] \in Nat \ {0}
      BY Powers, PowersAdd
    <2> QED
      BY <1>1, <1>2, <2>1, <2>2
  <1>7. v % W = n % W
    <2>1. PICK D \in Nat \ {0} : D = W * B
      OBVIOUS
    <2>2. PICK q \in Int, t \in 0 .. D - 1 : n = D * q + t /\ n % D = t
      BY DivisionExists
    <2>3. t = v
      BY <1>5, <1>6, <2>1, <2>2
    <2>4. PICK s \in Int, x \in 0 .. W - 1 : v = W * s + x /\ v % W = x
      BY DivisionExists
    <2>5. n = W * (B * q + s) + x
      <3>1. D * q = W * (B * q)
        BY <2>1
      <3>2. PICK y \in Int : y = B * q
        OBVIOUS
      <3>3. n = W * y + (W * s + x)
        BY <2>2, <2>3, <2>4, <3>1, <3>2
      <3> QED
        BY <3>2, <3>3
    <2>6. B * q + s \in Int
      OBVIOUS
    <2>7. n % W = x
      BY <2>5, <2>6, DivisionIs
    <2> QED
      BY <2>4, <2>7
  <1>8. PICK c \in Int, k \in 0 .. W - 1 : u = W * c + k /\ u % W = k
    BY DivisionExists
  <1>9. n % W = IF k = 0 THEN 0 ELSE W - k
    <2>1. CASE k = 0
      <3>1. n = W * (1 - c) + 0 /\ 1 - c \in Int /\ 0 \in 0 .. W - 1
        BY <1>2, <1>4, <1>8, <2>1
      <3> QED
        BY <2>1, <3>1, DivisionIs
    <2>2. CASE k # 0
      <3>1. n = W * (-c) + (W - k) /\ -c \in Int /\ W - k \in 0 .. W - 1
        BY <1>2, <1>4, <1>8, <2>2
      <3> QED
        BY <2>2, <3>1, DivisionIs, SMTT(30)
    <2> QED
      BY <2>1, <2>2
  <1>10. ShiftMask(Word(n)) = v % W
    BY <1>2, <1>5, MaskIsModulo
  <1> QED
    BY <1>2, <1>3, <1>4, <1>7, <1>8, <1>9, <1>10 DEF BitWidthMinus

\* A shift to the left multiplies, modulo the width.
LEMMA ShlExact ==
    ASSUME NEW l \in Words, NEW k \in Nat
    PROVE  Shl(l, k) \in Words /\ Unsigned(Shl(l, k)) = Modulo(Unsigned(l) * Power[k])
PROOF
  <1>1. PICK u \in Nat : u = Unsigned(l) /\ Word(u) = l
    BY UnsignedOf
  <1>2. PICK n \in Int : n = u * Power[k]
    BY Powers
  <1>3. Word(n) = Shl(l, k)
    <2>1. \A b \in Bits : b \in l <=> Bit(u, b)
      BY <1>1 DEF Word, Bit
    <2>2. ASSUME NEW b \in Bits PROVE Bit(n, b) <=> k <= b /\ b - k \in l
      <3>1. b \in Nat /\ b < Width /\ Width \in Nat
        BY WordWidths DEF Bits
      <3>2. Bit(n, b) <=> k <= b /\ Bit(u, b - k)
        BY <1>2, <3>1, BitMul
      <3>3. k <= b => b - k \in Bits
        BY <3>1 DEF Bits
      <3> QED
        BY <2>1, <3>2, <3>3
    <2>3. ASSUME NEW b \in Bits PROVE b \in Shl(l, k) <=> k <= b /\ b - k \in l
      <3>1. l \subseteq Nat /\ b \in Nat
        BY WordWidths DEF Words, Bits
      <3> QED
        BY <3>1 DEF Shl
    <2>4. Shl(l, k) \subseteq Bits
      BY DEF Shl
    <2> QED
      BY <2>2, <2>3, <2>4 DEF Word, Bit
  <1> QED
    BY <1>1, <1>2, <1>3, WordMod DEF Modulo

\* A shift to the right divides, rounding down.
LEMMA LShrExact ==
    ASSUME NEW l \in Words, NEW k \in Nat
    PROVE  LShr(l, k) \in Words /\ Unsigned(LShr(l, k)) = Unsigned(l) \div Power[k]
PROOF
  <1>1. PICK D \in Nat \ {0} : D = Power[Width]
    BY WordWidths, Powers
  <1>2. PICK u \in 0 .. D - 1 : u = Unsigned(l) /\ Word(u) = l
    BY <1>1, UnsignedOf
  <1>3. PICK A \in Nat \ {0} : A = Power[k]
    BY Powers
  <1>4. PICK n \in 0 .. D - 1 : n = u \div A
    <2>1. PICK q \in Int, r \in 0 .. A - 1 : u = A * q + r /\ u \div A = q
      BY DivisionExists
    <2>2. q \in 0 .. D - 1
      BY <2>1
    <2> QED
      BY <2>1, <2>2
  <1>5. Word(n) = LShr(l, k)
    <2>1. ASSUME NEW b \in Bits PROVE Bit(n, b) <=> k + b \in l
      <3>1. b \in Nat /\ Width \in Nat
        BY WordWidths DEF Bits
      <3>2. Bit(n, b) <=> Bit(u, k + b)
        <4>1. u \in Int
          BY <1>1
        <4>2. Bit(u \div Power[k], b) <=> Bit(u, k + b)
          BY <3>1, <4>1, BitDiv, Zenon
        <4> QED
          BY <1>3, <1>4, <4>2
      <3>3. CASE k + b < Width
        <4>1. k + b \in Bits
          BY <3>1, <3>3 DEF Bits
        <4> QED
          BY <1>2, <3>2, <4>1 DEF Word, Bit
      <3>4. CASE Width <= k + b
        <4>1. PICK v \in -Power[Width] .. Power[Width] - 1 : v = u /\ v >= 0
          BY <1>1
        <4>2. ~Bit(v, k + b)
          BY <3>1, <3>4, <4>1, HighBits
        <4>3. k + b \notin l
          BY <3>1, <3>4 DEF Words, Bits
        <4> QED
          BY <3>2, <4>1, <4>2, <4>3
      <3> QED
        BY <3>1, <3>3, <3>4
    <2>2. ASSUME NEW b \in Bits PROVE b \in LShr(l, k) <=> k + b \in l
      <3>1. l \subseteq Nat /\ b \in Nat
        BY WordWidths DEF Words, Bits
      <3> QED
        BY <3>1 DEF LShr
    <2>3. LShr(l, k) \subseteq Bits
      BY DEF LShr
    <2> QED
      BY <2>1, <2>2, <2>3 DEF Word, Bit
  <1>6. Word(n) \in Words /\ Unsigned(Word(n)) = n
    BY <1>1, <1>4, UnsignedIs
  <1> QED
    BY <1>2, <1>3, <1>4, <1>5, <1>6

\* And so does the one that copies the sign.
LEMMA AShrExact ==
    ASSUME NEW l \in Words, NEW k \in 0 .. Width - 1
    PROVE  AShr(l, k) \in Words /\ Signed(AShr(l, k)) = Signed(l) \div Power[k]
PROOF
  <1>1. PICK H \in Nat \ {0} : H = Power[Width - 1] /\ Power[Width] = 2 * H
    BY WordWidths, Powers
  <1>2. PICK s \in -H .. H - 1 : s = Signed(l) /\ Word(s) = l
    BY <1>1, SignedOf DEF SignedRange
  <1>3. PICK A \in Nat \ {0} : A = Power[k]
    BY WordWidths, Powers
  <1>4. PICK n \in -H .. H - 1 : n = s \div A
    <2>1. PICK q \in Int, r \in 0 .. A - 1 : s = A * q + r /\ s \div A = q
      BY DivisionExists
    <2>2. q >= -H
      <3> SUFFICES ASSUME q < -H PROVE FALSE
        BY <2>1
      <3>1. PICK d \in Nat : q = -H - 1 - d
        <4>1. -H - 1 - q \in Nat /\ q = -H - 1 - (-H - 1 - q)
          OBVIOUS
        <4> QED
          BY <4>1
      <3>2. A * q = -(A * H) - A - A * d /\ A * d \in Nat /\ A * H \in Nat
        BY <3>1
      <3>3. H * 1 <= H * A /\ H * A = A * H
        BY Monotonic
      <3> QED
        BY <2>1, <3>2, <3>3
    <2>3. q < H
      <3> SUFFICES ASSUME q >= H PROVE FALSE
        BY <2>1
      <3>1. H * 1 <= H * A
        BY Monotonic
      <3>2. PICK e \in Nat : e = q
        OBVIOUS
      <3>3. A * H <= A * e /\ A * H = H * A
        BY <3>2, Monotonic
      <3> QED
        BY <2>1, <3>1, <3>2, <3>3
    <2> QED
      BY <2>1, <2>2, <2>3
  <1>5. Width - 1 \in l <=> s < 0
    <2>1. Width - 1 \in Nat /\ Width - 1 \in Bits
      BY WordWidths DEF Bits
    <2>2. PICK v \in -Power[Width - 1] .. Power[Width - 1] - 1 : v = s
      BY <1>1
    <2>3. Bit(v, Width - 1) <=> v < 0
      BY <2>1, <2>2, HighBits
    <2> QED
      BY <1>2, <2>1, <2>2, <2>3 DEF Word, Bit
  <1>6. Word(n) = AShr(l, k)
    <2>1. ASSUME NEW b \in Bits
          PROVE  Bit(n, b) <=> k + b \in l \/ (Width - 1 \in l /\ b >= Width - k)
      <3>1. b \in Nat /\ k \in Nat /\ Width \in Nat /\ Width - 1 \in Nat
        BY WordWidths DEF Bits
      <3>2. Bit(n, b) <=> Bit(s, k + b)
        <4>1. s \in Int
          BY <1>1
        <4>2. Bit(s \div Power[k], b) <=> Bit(s, k + b)
          BY <3>1, <4>1, BitDiv, Zenon
        <4> QED
          BY <1>3, <1>4, <4>2
      <3>3. CASE k + b < Width
        <4>1. k + b \in Bits /\ ~(b >= Width - k)
          BY <3>1, <3>3 DEF Bits
        <4> QED
          BY <1>2, <3>2, <4>1 DEF Word, Bit
      <3>4. CASE Width <= k + b
        <4>1. PICK v \in -Power[Width - 1] .. Power[Width - 1] - 1 : v = s
          BY <1>1
        <4>2. Width - 1 <= k + b /\ k + b \in Nat /\ b >= Width - k
          BY <3>1, <3>4
        <4>3. Bit(v, k + b) <=> v < 0
          BY <3>1, <4>1, <4>2, HighBits
        <4>4. k + b \notin l
          BY <3>1, <3>4 DEF Words, Bits
        <4> QED
          BY <1>5, <3>2, <4>1, <4>2, <4>3, <4>4
      <3> QED
        BY <3>1, <3>3, <3>4
    <2>2. ASSUME NEW b \in Bits PROVE b \in LShr(l, k) <=> k + b \in l
      <3>1. l \subseteq Nat /\ b \in Nat /\ k \in Nat
        BY WordWidths DEF Words, Bits
      <3> QED
        BY <3>1 DEF LShr
    <2>3. AShr(l, k) \subseteq Bits
      BY DEF AShr, LShr
    <2> QED
      BY <2>1, <2>2, <2>3 DEF Word, Bit, AShr
  <1>7. Word(n) \in Words /\ Signed(Word(n)) = n
    BY <1>1, <1>4, SignedIs DEF SignedRange
  <1> QED
    BY <1>2, <1>3, <1>4, <1>6, <1>7

\* The two shifts of a rotation do not overlap, and leave no gap.
LEMMA RotatedIs ==
    ASSUME NEW l \in Words, NEW k \in 0 .. Width - 1, NEW o \in Nat, o = IF k = 0 THEN 0 ELSE Width - k
    PROVE  Shl(l, k) \cup LShr(l, o) = Rotated(l, k)
PROOF
  <1>1. PICK W \in Nat \ {0} : W = Width
    BY WordWidths
  <1>2. ASSUME NEW b \in l
        PROVE  b \in 0 .. W - 1 /\ (b + k) % W = IF b + k < W THEN b + k ELSE b + k - W
    <2>1. b \in 0 .. W - 1
      BY <1>1 DEF Words, Bits
    <2>2. PICK n \in Nat : n = b + k
      BY <1>1, <2>1
    <2>3. CASE n < W
      <3>1. n \in 0 .. W - 1 /\ n = W * 0 + n
        BY <2>3
      <3>2. n % W = n
        BY <3>1, DivisionIs
      <3> QED
        BY <2>1, <2>2, <2>3, <3>2
    <2>4. CASE n >= W
      <3>1. PICK m \in 0 .. W - 1 : m = n - W
        BY <1>1, <2>1, <2>2, <2>4
      <3>2. n % W = m
        <4>1. n = W * 1 + m /\ n \in Int /\ 1 \in Int
          BY <2>2, <3>1
        <4> QED
          BY <4>1, DivisionIs
      <3> QED
        BY <2>1, <2>2, <2>4, <3>1, <3>2
    <2> QED
      BY <2>3, <2>4
  <1>3. k \in Nat /\ k < W /\ Bits = 0 .. W - 1
    BY <1>1 DEF Bits
  <1>4. ASSUME NEW c \in Shl(l, k) PROVE c \in Rotated(l, k)
    <2>1. PICK b \in l : c = b + k /\ c \in 0 .. W - 1
      BY <1>3 DEF Shl
    <2>2. c = (b + k) % W
      BY <1>2, <1>3, <2>1
    <2> QED
      BY <1>1, <2>2 DEF Rotated
  <1>5. ASSUME NEW c \in LShr(l, o) PROVE c \in Rotated(l, k)
    <2>1. PICK b \in l : c = b - o /\ c \in 0 .. W - 1
      BY <1>3 DEF LShr
    <2>2. c = (b + k) % W
      BY <1>1, <1>2, <1>3, <2>1
    <2> QED
      BY <1>1, <2>2 DEF Rotated
  <1>6. ASSUME NEW c \in Rotated(l, k) PROVE c \in Shl(l, k) \cup LShr(l, o)
    <2>1. PICK b \in l : c = (b + k) % W
      BY <1>1, <1>6 DEF Rotated
    <2>2. CASE b + k < W
      <3>1. c = b + k /\ b \in Nat
        BY <1>2, <2>1, <2>2
      <3>2. c \in Bits
        BY <1>3, <2>2, <3>1
      <3> QED
        BY <3>1, <3>2 DEF Shl
    <2>3. CASE ~ (b + k < W)
      <3>1. c = b - o /\ c \in Bits
        BY <1>1, <1>2, <1>3, <2>1, <2>3
      <3> QED
        BY <3>1 DEF LShr
    <2> QED
      BY <2>2, <2>3
  <1> QED
    BY <1>4, <1>5, <1>6

\* Both rotations are exact.
LEMMA RotationsExact ==
    ASSUME NEW l \in Words, NEW r \in Words
    PROVE  LET k == Unsigned(r) % Width
           IN  /\ RotateLeft(l, r) \in Words /\ RotateLeft(l, r) = Rotated(l, k)
               /\ RotateRight(l, r) \in Words /\ RotateRight(l, r) = Rotated(l, Width - k)
PROOF
  <1>1. PICK W \in Nat \ {0} : W = Width
    BY WordWidths
  <1>2. PICK k \in 0 .. W - 1 : k = Unsigned(r) % Width /\ ShiftMask(r) = k
    BY <1>1, MaskIsModulo
  <1>3. PICK o \in 0 .. W - 1 : o = IF k = 0 THEN 0 ELSE W - k
    BY <1>1, <1>2
  <1>4. ShiftMask(BitWidthMinus(r)) = o
    BY <1>1, <1>2, <1>3, OtherCount
  <1>5. RotateLeft(l, r) = Rotated(l, k)
    BY <1>1, <1>2, <1>3, <1>4, RotatedIs DEF RotateLeft
  <1>6. RotateRight(l, r) = Shl(l, o) \cup LShr(l, k)
    BY <1>2, <1>4 DEF RotateRight
  <1>7. k = IF o = 0 THEN 0 ELSE W - o
    BY <1>3
  <1>8. RotateRight(l, r) = Rotated(l, o)
    BY <1>1, <1>6, <1>7, RotatedIs
  <1>9. Rotated(l, o) = Rotated(l, W - k)
    <2>1. CASE k = 0
      <3>1. ASSUME NEW b \in l PROVE (b + o) % W = (b + (W - k)) % W
        <4>1. b \in 0 .. W - 1
          BY <1>1 DEF Words, Bits
        <4>2. PICK n \in Nat : n = b + (W - k) /\ n = W * 1 + b /\ b = W * 0 + b
          BY <2>1, <4>1
        <4>3. n % W = b
          BY <4>1, <4>2, DivisionIs
        <4>4. b % W = b
          BY <4>1, <4>2, DivisionIs
        <4>5. b + o = b
          BY <1>3, <2>1, <4>1
        <4> QED
          BY <4>2, <4>3, <4>4, <4>5
      <3> QED
        BY <1>1, <3>1 DEF Rotated
    <2>2. CASE k # 0
      BY <1>3, <2>2
    <2> QED
      BY <2>1, <2>2
  <1>10. RotateLeft(l, r) \in Words /\ RotateRight(l, r) \in Words
    BY DEF RotateLeft, RotateRight, Shl, LShr, Words
  <1> QED
    BY <1>1, <1>2, <1>5, <1>8, <1>9, <1>10

-----------------------------------------------------------------------------
(* Divisions.                                                              *)

\* Division that rounds towards zero.
LEMMA Truncated ==
    ASSUME NEW a \in Int, NEW b \in Int, b # 0
    PROVE  /\ Quotient(a, b) \in Int
           /\ Magnitude(Quotient(a, b)) <= Magnitude(a)
           /\ Magnitude(b) > 1 => 2 * Magnitude(Quotient(a, b)) <= Magnitude(a)
           /\ IsQuotient(Quotient(a, b), a, b)
           /\ LET m == a - b * Quotient(a, b)
              IN  m \in Int /\ Magnitude(m) < Magnitude(b) /\ (m # 0 => (m < 0) = (a < 0))
PROOF
  <1>1. PICK x \in Nat : x = Magnitude(a) /\ a = IF a < 0 THEN -x ELSE x
    BY DEF Magnitude
  <1>2. PICK y \in Nat \ {0} : y = Magnitude(b) /\ b = IF b < 0 THEN -y ELSE y
    BY DEF Magnitude
  <1>3. PICK t \in Nat, s \in 0 .. y - 1 : x = y * t + s /\ x \div y = t
    <2>1. PICK q \in Int, s \in 0 .. y - 1 : x = y * q + s /\ x \div y = q
      BY DivisionExists
    <2>2. q \in Nat
      BY <2>1
    <2> QED
      BY <2>1, <2>2
  <1>4. PICK q \in Int : q = Quotient(a, b) /\ q = IF (a < 0) = (b < 0) THEN t ELSE -t
    BY <1>1, <1>2, <1>3 DEF Quotient
  <1>5. PICK p \in Nat : p = y * t
    OBVIOUS
  <1>6. b * q = IF a < 0 THEN -p ELSE p
    <2>1. (-y) * t = -p /\ y * (-t) = -p /\ (-y) * (-t) = p
      BY <1>5
    <2>2. CASE a < 0 /\ b < 0
      BY <1>2, <1>4, <2>1, <2>2
    <2>3. CASE a < 0 /\ ~ (b < 0)
      BY <1>2, <1>4, <2>1, <2>3
    <2>4. CASE ~ (a < 0) /\ b < 0
      BY <1>2, <1>4, <2>1, <2>4
    <2>5. CASE ~ (a < 0) /\ ~ (b < 0)
      BY <1>2, <1>4, <1>5, <2>5
    <2> QED
      BY <2>2, <2>3, <2>4, <2>5
  <1>7. q * b = b * q
    OBVIOUS
  <1>8. Magnitude(q * b) = p /\ p <= x /\ x < p + y
    BY <1>3, <1>5, <1>6, <1>7 DEF Magnitude
  <1>9. t <= p /\ (y > 1 => 2 * t <= p)
    <2>1. t * 1 <= t * y
      BY Monotonic
    <2>2. y > 1 => t * 2 <= t * y
      BY Monotonic
    <2> QED
      BY <1>5, <2>1, <2>2
  <1>10. Magnitude(q) = t
    BY <1>4 DEF Magnitude
  <1>11. q # 0 => (q < 0) = ((a < 0) # (b < 0))
    BY <1>4
  <1>12. IsQuotient(q, a, b)
    BY <1>1, <1>2, <1>8, <1>11 DEF IsQuotient
  <1>13. a - b * q = IF a < 0 THEN -s ELSE s
    BY <1>1, <1>3, <1>5, <1>6
  <1>14. PICK m \in Int : m = a - b * q
    OBVIOUS
  <1>15. Magnitude(m) < y /\ (m # 0 => (m < 0) = (a < 0))
    BY <1>13, <1>14 DEF Magnitude
  <1> QED
    BY <1>1, <1>2, <1>4, <1>8, <1>9, <1>10, <1>12, <1>14, <1>15

\* Only the word without bits is zero.
LEMMA ZeroIs ==
    ASSUME NEW w \in Words
    PROVE  /\ Unsigned(w) = 0 <=> w = Zero
           /\ Signed(w) = 0 <=> w = Zero
PROOF
  <1>1. Word(0) = Zero
    <2>1. ASSUME NEW b \in Bits PROVE ~Bit(0, b)
      <3>1. b \in Nat
        BY WordWidths DEF Bits
      <3>2. PICK B \in Nat \ {0} : B = Power[b]
        BY <3>1, Powers
      <3>3. 0 \div B = 0
        OBVIOUS
      <3> QED
        BY <3>2, <3>3 DEF Bit
    <2> QED
      BY <2>1 DEF Word, Bit, Zero
  <1>2. PICK H \in Nat \ {0} : H = Power[Width - 1] /\ Power[Width] = 2 * H
    BY WordWidths, Powers
  <1>3. Unsigned(Zero) = 0
    BY <1>1, <1>2, UnsignedIs
  <1>4. Signed(Zero) = 0
    BY <1>1, <1>2, SignedIs DEF SignedRange
  <1> QED
    BY <1>1, <1>3, <1>4, UnsignedOf, SignedOf

\* Unsigned division and remainder.
LEMMA UnsignedExact ==
    ASSUME NEW l \in Words, NEW r \in Words, r # Zero
    PROVE  /\ \E z \in Words : UDivide(l, r) = {z} /\ Means("div_u", l, r, z)
           /\ \E z \in Words : URemainder(l, r) = {z} /\ Means("rem_u", l, r, z)
PROOF
  <1>1. PICK D \in Nat \ {0} : D = Power[Width]
    BY WordWidths, Powers
  <1>2. PICK a \in 0 .. D - 1 : a = Unsigned(l)
    BY <1>1, UnsignedOf
  <1>3. PICK b \in Nat \ {0} : b = Unsigned(r) /\ b < D
    BY <1>1, UnsignedOf, ZeroIs
  <1>0. a \in Int
    BY <1>1, <1>2
  <1>4. PICK q \in Int, m \in 0 .. b - 1 : a = b * q + m /\ a \div b = q /\ a % b = m
    BY <1>0, <1>3, DivisionExists
  <1>5. q \in 0 .. D - 1
    <2>1. q \in Nat
      <3> SUFFICES ASSUME q < 0 PROVE FALSE
        OBVIOUS
      <3>1. PICK d \in Nat : q = -1 - d
        <4>1. -1 - q \in Nat
          OBVIOUS
        <4> QED
          BY <4>1
      <3>2. PICK e \in Nat : e = b * d
        BY <1>3
      <3>3. b * q = -b - e
        BY <1>3, <3>1, <3>2
      <3> QED
        BY <1>1, <1>2, <1>3, <1>4, <3>3
    <2>2. q * 1 <= q * b
      BY <1>3, <2>1, Monotonic
    <2> QED
      BY <1>2, <1>3, <1>4, <2>1, <2>2
  <1>6. Word(q) \in Words /\ Unsigned(Word(q)) = q /\ Word(m) \in Words /\ Unsigned(Word(m)) = m
    BY <1>1, <1>3, <1>5, UnsignedIs
  <1>11. a \in Nat /\ m \in Nat /\ m < b
    BY <1>1, <1>2, <1>3, <1>4
  <1>7. IsQuotient(q, a, b)
    <2>1. PICK p \in Int : p = q * b /\ p = b * q
      BY <1>3, <1>4
    <2>2. p \in Nat /\ ~ (q < 0)
      <3>1. q \in Nat
        BY <1>1, <1>5
      <3>2. b * q \in Nat
        BY <1>3, <3>1
      <3> QED
        BY <2>1, <3>1, <3>2
    <2>4. a = p + m /\ m < b /\ ~ (a < 0) /\ ~ (b < 0)
      <3>1. a = p + m
        BY <1>4, <2>1
      <3>2. m < b
        BY <1>11
      <3>3. ~ (a < 0) /\ ~ (b < 0)
        BY <1>3, <1>11
      <3> QED
        BY <3>1, <3>2, <3>3
    <2>3. Magnitude(q * b) = p /\ Magnitude(a) = a /\ Magnitude(b) = b
      BY <2>1, <2>2, <2>4 DEF Magnitude
    <2> QED
      BY <1>0, <1>3, <1>11, <2>2, <2>3, <2>4 DEF IsQuotient
  <1>8. IsRemainder(m, a, b)
    <2>1. q \in -D .. D /\ a = q * b + m
      <3>1. b * q = q * b
        BY <1>3, <1>4
      <3> QED
        BY <1>1, <1>4, <1>5, <3>1
    <2>2. Magnitude(m) < Magnitude(b) /\ ~ (m < 0) /\ ~ (a < 0)
      BY <1>3, <1>11 DEF Magnitude
    <2> QED
      BY <1>1, <2>1, <2>2 DEF IsRemainder
  <1>9. UDivide(l, r) = {Word(q)} /\ URemainder(l, r) = {Word(m)}
    BY <1>2, <1>3, <1>4 DEF UDivide, URemainder
  <1>10. Means("div_u", l, r, Word(q)) /\ Means("rem_u", l, r, Word(m))
    BY <1>2, <1>3, <1>6, <1>7, <1>8 DEF Means
  <1> QED
    BY <1>6, <1>9, <1>10

\* Signed division and remainder, of which only the first overflows.
LEMMA SignedExact ==
    ASSUME NEW l \in Words, NEW r \in Words, r # Zero
    PROVE  /\ ~ (l = MinWord /\ r = MinusOne) => \E z \in Words : SDivide(l, r) = {z} /\ Means("div_s", l, r, z)
           /\ \E z \in Words : SRemainder(l, r) = {z} /\ Means("rem_s", l, r, z)
PROOF
  <1>1. PICK H \in Nat \ {0} : H = Power[Width - 1] /\ Power[Width] = 2 * H
    BY WordWidths, Powers
  <1>2. PICK a \in -H .. H - 1 : a = Signed(l) /\ Word(a) = l
    BY <1>1, SignedOf DEF SignedRange
  <1>3. PICK b \in -H .. H - 1 : b = Signed(r) /\ Word(b) = r /\ b # 0
    BY <1>1, SignedOf, ZeroIs DEF SignedRange
  <1>0. a \in Int /\ b \in Int /\ b # 0
    BY <1>1, <1>2, <1>3
  <1>4. PICK q \in Int : q = Quotient(a, b)
    BY <1>0, Truncated
  <1>5. /\ Magnitude(q) <= Magnitude(a) /\ IsQuotient(q, a, b)
        /\ Magnitude(b) > 1 => 2 * Magnitude(q) <= Magnitude(a)
    BY <1>0, <1>4, Truncated
  <1>6. PICK m \in Int : m = a - b * q /\ Magnitude(m) < Magnitude(b) /\ (m # 0 => (m < 0) = (a < 0))
    BY <1>0, <1>4, Truncated
  <1>10. PICK u \in Int : u = -1 /\ u + 1 = 0
    OBVIOUS
  <1>7. l = MinWord /\ r = MinusOne <=> a = -H /\ b = u
    <2>1. Signed(Word(-H)) = -H /\ Signed(Word(u)) = u
      <3>1. -H \in SignedRange /\ u \in SignedRange
        BY <1>1, <1>10 DEF SignedRange
      <3> QED
        BY <3>1, SignedIs
    <2> QED
      BY <1>1, <1>2, <1>3, <1>10, <2>1 DEF MinWord, MinusOne
  <1>8. ~ (l = MinWord /\ r = MinusOne) => \E z \in Words : SDivide(l, r) = {z} /\ Means("div_s", l, r, z)
    <2> SUFFICES ASSUME ~ (l = MinWord /\ r = MinusOne)
                 PROVE  \E z \in Words : SDivide(l, r) = {z} /\ Means("div_s", l, r, z)
      OBVIOUS
    <2>1. q \in SignedRange
      <3>1. q # H
        <4> SUFFICES ASSUME q = H PROVE FALSE
          OBVIOUS
        <4>1. a = -H
          BY <1>1, <1>2, <1>5 DEF Magnitude
        <4>2. Magnitude(b) = 1
          BY <1>1, <1>3, <1>5, <4>1 DEF Magnitude
        <4>3. b = 1
          BY <1>3, <1>7, <1>10, <4>1, <4>2 DEF Magnitude
        <4>4. (q < 0) = ((a < 0) # (b < 0))
          BY <1>1, <1>5 DEF IsQuotient
        <4> QED
          BY <4>1, <4>3, <4>4
      <3> QED
        BY <1>1, <1>2, <1>4, <1>5, <3>1 DEF SignedRange, Magnitude
    <2>2. Word(q) \in Words /\ Signed(Word(q)) = q
      BY <2>1, SignedIs
    <2>3. SDivide(l, r) = {Word(q)}
      BY <1>2, <1>3, <1>4 DEF SDivide
    <2>4. Means("div_s", l, r, Word(q))
      BY <1>2, <1>3, <1>5, <2>2 DEF Means
    <2> QED
      BY <2>2, <2>3, <2>4
  <1>9. \E z \in Words : SRemainder(l, r) = {z} /\ Means("rem_s", l, r, z)
    <2>1. q \in -Power[Width] .. Power[Width] /\ a = q * b + m
      <3>1. q * b = b * q
        OBVIOUS
      <3>2. Magnitude(q) <= H
        BY <1>2, <1>5 DEF Magnitude
      <3> QED
        BY <1>1, <1>2, <1>3, <1>6, <3>1, <3>2, SMTT(30) DEF Magnitude
    <2>2. IsRemainder(m, a, b)
      BY <1>6, <2>1 DEF IsRemainder
    <2>3. m \in SignedRange
      BY <1>1, <1>3, <1>6 DEF SignedRange, Magnitude
    <2>4. Word(m) \in Words /\ Signed(Word(m)) = m
      BY <2>3, SignedIs
    <2>5. Means("rem_s", l, r, Word(m))
      BY <1>2, <1>3, <2>2, <2>4 DEF Means
    <2>6. CASE l = MinWord /\ r = MinusOne
      <3>1. Magnitude(b) = 1
        <4>1. b = u
          BY <1>7, <2>6
        <4>2. u < 0 /\ 0 - u = 1
          BY <1>10
        <4> QED
          BY <4>1, <4>2 DEF Magnitude
      <3>2. m = 0
        BY <1>6, <3>1 DEF Magnitude
      <3>3. Word(m) = Zero
        BY <2>4, <3>2, ZeroIs
      <3>4. SRemainder(l, r) = {Zero}
        BY <2>6 DEF SRemainder
      <3> QED
        BY <2>4, <2>5, <3>3, <3>4
    <2>7. CASE ~ (l = MinWord /\ r = MinusOne)
      <3>1. SRem(l, r) = Word(m)
        BY <1>2, <1>3, <1>4, <1>6 DEF SRem
      <3>2. SRemainder(l, r) = {Word(m)}
        BY <2>7, <3>1 DEF SRemainder, LLVMSRem
      <3> QED
        BY <2>4, <2>5, <3>2
    <2> QED
      BY <2>6, <2>7
  <1> QED
    BY <1>8, <1>9

\* Every instruction.
LEMMA BinaryExact ==
    ASSUME NEW op \in IntegerOps, NEW l \in Words, NEW r \in Words
    PROVE  IF Traps(op, l, r) THEN Binary(op, l, r) = Trapped
           ELSE \E z \in Words : Binary(op, l, r) = {z} /\ Means(op, l, r, z)
PROOF
  <1>1. ShiftMask(r) = Unsigned(r) % Width /\ ShiftMask(r) \in 0 .. Width - 1 /\ ShiftMask(r) \in Nat
    BY MaskIsModulo, WordWidths
  <1>2. CASE op = "shl"
    <2>1. /\ ShiftLeft(l, r) \in Words
          /\ Unsigned(ShiftLeft(l, r)) = Modulo(Unsigned(l) * Power[Unsigned(r) % Width])
      BY <1>1, ShlExact DEF ShiftLeft
    <2> QED
      BY <1>2, <2>1 DEF Traps, Means, Binary
  <1>3. CASE op = "shr_u"
    <2>1. /\ ShiftRightU(l, r) \in Words
          /\ Unsigned(ShiftRightU(l, r)) = Unsigned(l) \div Power[Unsigned(r) % Width]
      BY <1>1, LShrExact DEF ShiftRightU
    <2> QED
      BY <1>3, <2>1 DEF Traps, Means, Binary
  <1>4. CASE op = "shr_s"
    <2>1. /\ ShiftRightS(l, r) \in Words
          /\ Signed(ShiftRightS(l, r)) = Signed(l) \div Power[Unsigned(r) % Width]
      BY <1>1, AShrExact DEF ShiftRightS
    <2> QED
      BY <1>4, <2>1 DEF Traps, Means, Binary
  <1>5. CASE op = "rotl"
    BY <1>5, RotationsExact DEF Traps, Means, Binary
  <1>6. CASE op = "rotr"
    BY <1>6, RotationsExact DEF Traps, Means, Binary
  <1>7. CASE op = "div_u"
    <2>1. CASE r = Zero
      BY <1>7, <2>1 DEF Traps, Binary, UDivide
    <2>2. CASE r # Zero
      BY <1>7, <2>2, UnsignedExact DEF Traps, Binary
    <2> QED
      BY <2>1, <2>2
  <1>8. CASE op = "rem_u"
    <2>1. CASE r = Zero
      BY <1>8, <2>1 DEF Traps, Binary, URemainder
    <2>2. CASE r # Zero
      BY <1>8, <2>2, UnsignedExact DEF Traps, Binary
    <2> QED
      BY <2>1, <2>2
  <1>9. CASE op = "div_s"
    <2>1. CASE r = Zero \/ (l = MinWord /\ r = MinusOne)
      BY <1>9, <2>1 DEF Traps, Binary, SDivide
    <2>2. CASE ~ (r = Zero \/ (l = MinWord /\ r = MinusOne))
      BY <1>9, <2>2, SignedExact DEF Traps, Binary
    <2> QED
      BY <2>1, <2>2
  <1>10. CASE op = "rem_s"
    <2>1. CASE r = Zero
      BY <1>10, <2>1 DEF Traps, Binary, SRemainder
    <2>2. CASE r # Zero
      BY <1>10, <2>2, SignedExact DEF Traps, Binary
    <2> QED
      BY <2>1, <2>2
  <1> QED
    BY <1>2, <1>3, <1>4, <1>5, <1>6, <1>7, <1>8, <1>9, <1>10 DEF IntegerOps

\* Shifts, rotations, divisions and remainders give the bits the standard fixes, or
\* trap where it says so, for words of any width that is a power of two
\* (module.cpp:239-266, 479-552, 1754-1791).
THEOREM IntegersAreExact == Spec => []IntegersExact
PROOF
  <1>1. Init => IntegersExact
    BY DEF Init, IntegersExact, Nothing, IntegerOps
  <1>2. IntegersExact /\ [Next]_vars => IntegersExact'
    <2> SUFFICES ASSUME IntegersExact, [Next]_vars PROVE IntegersExact'
      OBVIOUS
    <2>1. CASE executed' = executed
      BY <2>1 DEF IntegersExact, Operand
    <2>2. CASE ExecuteInteger
      <3>1. PICK op \in IntegerOps, l \in Words, r \in Words : Execute(op, <<l, r>>, Binary(op, l, r))
        BY <2>2 DEF ExecuteInteger
      <3>2. /\ executed'.op = op /\ executed'.result = Binary(op, l, r)
            /\ executed'.operands[1] = l /\ executed'.operands[2] = r
        BY <3>1 DEF Execute
      <3> QED
        BY <3>2, BinaryExact DEF IntegersExact, Operand
    <2>3. CASE \/ ExecuteMin \/ ExecuteMax \/ ExecuteFloat \/ ExecuteRound \/ ExecuteSqrt
               \/ ExecuteInitF32 \/ ExecuteInitF64 \/ ExecuteTrunc \/ ExecuteSatTrunc
      <3>1. executed'.op \in {"min", "max", "float", "round", "sqrt", "init32", "init64", "trunc", "trunc_sat"}
        BY <2>3 DEF ExecuteMin, ExecuteMax, ExecuteFloat, ExecuteRound, ExecuteSqrt,
                    ExecuteInitF32, ExecuteInitF64, ExecuteTrunc, ExecuteSatTrunc, Execute
      <3> QED
        BY <3>1 DEF IntegersExact, IntegerOps
    <2> QED
      BY <2>1, <2>2, <2>3 DEF Next, vars, ReadMore, ReadLast
  <1> QED
    BY <1>1, <1>2, PTL DEF Spec
=============================================================================
