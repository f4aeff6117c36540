---------------------------- MODULE IntegerCode ----------------------------
(***************************************************************************)
(* The code the translator emits for shifts, rotations and divisions.       *)
(* A word is the set of its bits that are 1.                               *)
(***************************************************************************)
EXTENDS PowersOfTwo

CONSTANT Width \* bit_count

ASSUME WidthAssumption == Width \in Nat /\ \E p \in 0 .. Width : Width = Power[p]

Bits == 0 .. Width - 1
Words == SUBSET Bits

\* The bits of a number, and the number with these bits.
Word(n) == {b \in Bits : (n \div Power[b]) % 2 = 1}
Unsigned(w) == CHOOSE n \in 0 .. Power[Width] - 1 : Word(n) = w
Signed(w) == Unsigned(w) - IF Width - 1 \in w THEN Power[Width] ELSE 0
MinWord == Word(-Power[Width - 1])
MinusOne == Word(-1)
Zero == {}

-----------------------------------------------------------------------------
(* The instructions of LLVM.                                               *)

\* LLVM defines a shift below Width only: emit_shift_mask is applied to every count.
Shl(w, k) == {b + k : b \in w} \cap Bits
LShr(w, k) == {b - k : b \in w} \cap Bits
AShr(w, k) == LShr(w, k) \cup IF Width - 1 \in w THEN {b \in Bits : b >= Width - k} ELSE {}
\* Division rounds towards zero.
Magnitude(n) == IF n < 0 THEN -n ELSE n
Quotient(a, b) ==
    IF (a < 0) = (b < 0) THEN Magnitude(a) \div Magnitude(b) ELSE -(Magnitude(a) \div Magnitude(b))
SRem(l, r) == Word(Signed(l) - Signed(r) * Quotient(Signed(l), Signed(r)))

-----------------------------------------------------------------------------
(* The emitted code.                                                       *)

\* An instruction is the set of the words it may leave: none when it traps, any
\* where LLVM leaves it undefined.
Trapped == {}
Undefined == Words

\* Mutant: the count is not reduced.
ShiftUnmasked(count) == Unsigned(count)
\* emit_shift_mask
ShiftMask(count) == Unsigned(count \cap Word(Width - 1))

ShiftLeft(l, r) == Shl(l, ShiftMask(r))
ShiftRightS(l, r) == AShr(l, ShiftMask(r))
ShiftRightU(l, r) == LShr(l, ShiftMask(r))

BitWidthMinus(r) == Word(Width - Unsigned(r))
RotateLeft(l, r) == Shl(l, ShiftMask(r)) \cup LShr(l, ShiftMask(BitWidthMinus(r)))
RotateRight(l, r) == Shl(l, ShiftMask(BitWidthMinus(r))) \cup LShr(l, ShiftMask(r))

UDivide(l, r) == IF r = Zero THEN Trapped ELSE {Word(Unsigned(l) \div Unsigned(r))}
URemainder(l, r) == IF r = Zero THEN Trapped ELSE {Word(Unsigned(l) % Unsigned(r))}

SDivide(l, r) ==
    IF r = Zero \/ (l = MinWord /\ r = MinusOne) THEN Trapped
    ELSE {Word(Quotient(Signed(l), Signed(r)))}

\* The remainder of LLVM is undefined where the division overflows.
LLVMSRem(l, r) == IF l = MinWord /\ r = MinusOne THEN Undefined ELSE {SRem(l, r)}
SRemainder(l, r) ==
    IF r = Zero THEN Trapped
    ELSE IF l # MinWord \/ r # MinusOne THEN LLVMSRem(l, r) ELSE {Zero}

IntegerOps == {"shl", "shr_s", "shr_u", "rotl", "rotr", "div_u", "rem_u", "div_s", "rem_s"}
Binary(op, l, r) ==
    CASE op = "shl"   -> {ShiftLeft(l, r)}
      [] op = "shr_s" -> {ShiftRightS(l, r)}
      [] op = "shr_u" -> {ShiftRightU(l, r)}
      [] op = "rotl"  -> {RotateLeft(l, r)}
      [] op = "rotr"  -> {RotateRight(l, r)}
      [] op = "div_u" -> UDivide(l, r)
      [] op = "rem_u" -> URemainder(l, r)
      [] op = "div_s" -> SDivide(l, r)
      [] op = "rem_s" -> SRemainder(l, r)

-----------------------------------------------------------------------------
(* What the standard asks.                                                 *)

Modulo(n) == n % Power[Width]
Rotated(l, k) == {(b + k) % Width : b \in l}
IsQuotient(q, a, b) ==
    /\ Magnitude(q * b) <= Magnitude(a) /\ Magnitude(a) < Magnitude(q * b) + Magnitude(b)
    /\ q # 0 => (q < 0) = ((a < 0) # (b < 0))
IsRemainder(m, a, b) ==
    /\ Magnitude(m) < Magnitude(b)
    /\ m # 0 => (m < 0) = (a < 0)
    /\ \E q \in -Power[Width] .. Power[Width] : a = q * b + m

\* What the word z is for the operands l and r of an instruction that does not trap.
Traps(op, l, r) ==
    \/ op \in {"div_u", "rem_u", "div_s", "rem_s"} /\ r = Zero
    \/ op = "div_s" /\ l = MinWord /\ r = MinusOne
Means(op, l, r, z) ==
    LET k == Unsigned(r) % Width
    IN  CASE op = "shl"   -> Unsigned(z) = Modulo(Unsigned(l) * Power[k])
          [] op = "shr_u" -> Unsigned(z) = Unsigned(l) \div Power[k]
          [] op = "shr_s" -> Signed(z) = Signed(l) \div Power[k]
          [] op = "rotl"  -> z = Rotated(l, k)
          [] op = "rotr"  -> z = Rotated(l, Width - k)
          [] op = "div_u" -> IsQuotient(Unsigned(z), Unsigned(l), Unsigned(r))
          [] op = "rem_u" -> IsRemainder(Unsigned(z), Unsigned(l), Unsigned(r))
          [] op = "div_s" -> IsQuotient(Signed(z), Signed(l), Signed(r))
          [] op = "rem_s" -> IsRemainder(Signed(z), Signed(l), Signed(r))
=============================================================================
