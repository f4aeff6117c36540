------------------------------- MODULE Leb128 -------------------------------
(***************************************************************************)
(* parse_uleb128<T> and parse_sleb128<T>: integers in groups of PayloadBits*)
(* bits (7 in the code), least significant first.  A group and a result are*)
(* the sets of their bits that are 1.  What C++ leaves undefined, a shift  *)
(* by at least the width of the operand, gives any of the results that the *)
(* shift instructions give: of another count, or no bit at all.  Bits that *)
(* a left shift moves past the sign of a signed integer, in the last group *)
(* of s32 and s64, fall away, as they do on every machine.                 *)
(***************************************************************************)
EXTENDS Integers

CONSTANTS PayloadBits, \* bits of a byte that are payload
          IntWidth     \* bits of an int

ASSUME LebAssumption == PayloadBits \in Nat \ {0} /\ IntWidth \in Nat \ {0}

Payloads == SUBSET (0 .. PayloadBits - 1)
SignBit(payload) == PayloadBits - 1 \in payload

\* The instances whose value the code uses: not parse_uleb128<uint8_t>, whose value
\* memory.size and memory.grow drop.  "index" is parse_sleb128<uint32_t>, by which
\* the initialiser of a global reads the index that get_global takes.
Unsigneds == {"u32", "u64"}
Signeds == {"s32", "s64", "index"}
LebTypes == Unsigneds \cup Signeds
WidthOf(type) == IF type \in {"u64", "s64"} THEN 2 * IntWidth ELSE IntWidth

\* w << k in a type of some width.
ShiftedBy(w, k, width) == {b + k : b \in w} \cap (0 .. width - 1)
Shifted(w, k, width) ==
    IF k < width THEN {ShiftedBy(w, k, width)}
    ELSE {ShiftedBy(w, j, width) : j \in 0 .. width}

\* lResult |= T(lByte & 0x7f) << lShift
Accumulated(lResult, payload, lShift, type) ==
    {lResult \cup bits : bits \in Shifted(payload, lShift, WidthOf(type))}

\* - (1 << lShift), of an int, widened to T
Ones(k, type) == k .. WidthOf(type) - 1
Negative(lShift, type) ==
    IF lShift < IntWidth THEN {Ones(lShift, type)}
    ELSE {Ones(j, type) : j \in (0 .. IntWidth - 1) \cup {lShift}}

\* Mutant: the ones start where the last group does.
ExtendedShort(lResult, payload, lShift, type) ==
    IF type \in Signeds /\ lShift < WidthOf(type) /\ SignBit(payload)
    THEN {lResult \cup ones : ones \in Negative(lShift - PayloadBits, type)}
    ELSE {lResult}
\* The end of parse_sleb128; parse_uleb128 has none.
Extended(lResult, payload, lShift, type) ==
    IF type \in Signeds /\ lShift < WidthOf(type) /\ SignBit(payload)
    THEN {lResult \cup ones : ones \in Negative(lShift, type)}
    ELSE {lResult}

-----------------------------------------------------------------------------
(* What the format says.                                                   *)

\* The bits below the width of the type that the groups stand for.
Meaning(payloads, signed, width) ==
    LET n == DOMAIN payloads
        last == CHOOSE i \in n : i + 1 \notin n
    IN  {b \in 0 .. width - 1 :
            LET i == b \div PayloadBits + 1
            IN  IF i \in n THEN b % PayloadBits \in payloads[i] ELSE signed /\ SignBit(payloads[last])}
\* The most bytes the format gives to a width.
Longest(width) == (width + PayloadBits - 1) \div PayloadBits
=============================================================================
