----------------------------- MODULE Arithmetic -----------------------------
(***************************************************************************)
(* Immediates read from the binary one byte at a time, and numeric         *)
(* instructions run on any operands.                                       *)
(***************************************************************************)
EXTENDS IntegerCode, FloatCode, Leb128, Sequences

CONSTANT MaxBytes \* bound on the bytes of an immediate

VARIABLES
    reading,   \* the immediate being read, Nothing while compiled code runs
    payloads,  \* the groups read so far
    lResult,   \* of parse_uleb128 or parse_sleb128
    lShift,    \* of parse_uleb128 or parse_sleb128
    executed   \* the last instruction executed, with its operands and its result

vars == <<reading, payloads, lResult, lShift, executed>>

Running == "running"
Done == "done"
Nothing == [op |-> "nothing"]

Init ==
    /\ reading \in [type : LebTypes, status : {Running}] \cup {Nothing}
    /\ payloads = <<>> /\ lResult = {} /\ lShift = 0
    /\ executed = Nothing

-----------------------------------------------------------------------------

\* One turn of the loop, whose byte has its high bit set.
ReadMore(payload) ==
    /\ reading # Nothing /\ reading.status = Running
    /\ Len(payloads) + 1 < MaxBytes
    /\ payloads' = Append(payloads, payload)
    /\ lResult' \in Accumulated(lResult, payload, lShift, reading.type)
    /\ lShift' = lShift + PayloadBits
    /\ UNCHANGED <<reading, executed>>

\* The last turn, and what follows the loop.
ReadLast(payload) ==
    /\ reading # Nothing /\ reading.status = Running
    /\ payloads' = Append(payloads, payload)
    /\ lShift' = lShift + PayloadBits
    /\ \E raw \in Accumulated(lResult, payload, lShift, reading.type) :
           lResult' \in Extended(raw, payload, lShift', reading.type)
    /\ reading' = [reading EXCEPT !.status = Done]
    /\ UNCHANGED executed

\* The compiled code runs one instruction.
Runs == reading = Nothing /\ executed = Nothing
Execute(op, operands, result) ==
    /\ executed' = [op |-> op, operands |-> operands, result |-> result]
    /\ UNCHANGED <<reading, payloads, lResult, lShift>>

ExecuteInteger ==
    /\ Runs
    /\ \E op \in IntegerOps, l, r \in Words : Execute(op, <<l, r>>, Binary(op, l, r))
ExecuteMin == Runs /\ \E x, y \in Floats : Execute("min", <<x, y>>, Minimum(x, y))
ExecuteMax == Runs /\ \E x, y \in Floats : Execute("max", <<x, y>>, Maximum(x, y))
\* x is what LLVM computes, any NaN included.
ExecuteFloat == Runs /\ \E x \in Floats : Execute("float", <<x>>, ClearNan(x))
ExecuteRound ==
    /\ Runs
    /\ \E x, y \in Floats : ~IsNan(y) /\ Execute("round", <<x, y>>, QuietNanOr(x, y))
ExecuteSqrt ==
    /\ Runs
    /\ \E x, y \in Floats : (IsNan(x) => IsNan(y)) /\ Execute("sqrt", <<x>>, Sqrt(x, y))
ExecuteInitF32 == Runs /\ \E x \in Floats : Execute("init32", <<x>>, InitF32(x))
ExecuteInitF64 == Runs /\ \E x \in Floats : Execute("init64", <<x>>, InitF64(x))
ExecuteTrunc ==
    Runs /\ \E x \in Floats, range \in Ranges : Execute("trunc", <<x, range>>, Trunc(x, range))
ExecuteSatTrunc ==
    Runs /\ \E x \in Floats, range \in Ranges : Execute("trunc_sat", <<x, range>>, SatTrunc(x, range))

Next ==
    \/ \E payload \in Payloads : ReadMore(payload) \/ ReadLast(payload)
    \/ ExecuteInteger \/ ExecuteMin \/ ExecuteMax \/ ExecuteFloat \/ ExecuteRound \/ ExecuteSqrt
    \/ ExecuteInitF32 \/ ExecuteInitF64 \/ ExecuteTrunc \/ ExecuteSatTrunc

Spec == Init /\ [][Next]_vars

-----------------------------------------------------------------------------
(* Properties.                                                             *)

Operand(i) == executed.operands[i]
Last == payloads[Len(payloads)]

\* parse_sleb128<int64_t> shifts an int past its width: a negative number of 5 to
\* 9 bytes.
WideSign ==
    reading.type = "s64" /\ SignBit(Last) /\ lShift \in IntWidth .. WidthOf("s64") - 1
\* The index of an initialiser is sign extended.
SignedIndex == reading.type = "index" /\ SignBit(Last) /\ lShift < IntWidth

\* An immediate of no more bytes than the format gives its type is read for what it
\* means, and all of its bytes are: except negative 64-bit constants of 5 to 9 bytes,
\* whose sign is undefined, and exactly those indices of an initialiser whose last
\* byte has its sign bit set (module.hpp:179-197).
Decodes ==
    reading # Nothing /\ reading.status = Done /\ Len(payloads) <= Longest(WidthOf(reading.type)) =>
        \/ WideSign
        \/ (lResult = Meaning(payloads, reading.type \in {"s32", "s64"}, WidthOf(reading.type))) = ~SignedIndex

\* Shifts, rotations, divisions and remainders give the bits the standard fixes, or
\* trap where it says so, for every operand: counts beyond the width, the lowest
\* integer over -1, division by zero. No instruction LLVM leaves undefined runs
\* (module.cpp:239-266, 479-552, 1754-1791).
IntegersExact ==
    executed.op \in IntegerOps =>
        IF Traps(executed.op, Operand(1), Operand(2)) THEN executed.result = Trapped
        ELSE \E z \in Words : executed.result = {z} /\ Means(executed.op, Operand(1), Operand(2), z)

\* The minimum and the maximum order numbers, tell -0 from +0 and give a canonical
\* NaN when an operand is one (module.cpp:583-642).
MinMaxExact ==
    /\ executed.op = "min" => IsMinimum(executed.result, Operand(1), Operand(2))
    /\ executed.op = "max" => IsMaximum(executed.result, Operand(1), Operand(2))

\* add, sub, mul, div, demote, promote and the initialiser of a f32 global set the
\* quiet bit of a NaN and nothing else; ceil, floor, trunc and nearest of a NaN give
\* the canonical one of its sign; infinities and numbers are not touched. A signalling
\* NaN leaves only sqrt, which nothing filters, and the initialiser of a f64 global,
\* when it is one (module.cpp:554-581, 684-695, 732-763, 1772-1775, 1803-1831,
\* 1886-1891).
FloatOps == {"min", "max", "float", "round", "sqrt", "init32", "init64"}
NansQuieted ==
    /\ executed.op \in {"float", "init32"} => OnlyQuiets(executed.result, Operand(1))
    /\ executed.op = "round" =>
           IF IsNan(Operand(1)) THEN Canonical(executed.result) /\ executed.result.sign = Operand(1).sign
           ELSE executed.result = Operand(2)
    /\ executed.op \in FloatOps /\ Signalling(executed.result) =>
           executed.op = "sqrt" \/ (executed.op = "init64" /\ Signalling(Operand(1)))

\* A float is truncated when, and only when, what is left of it is an integer of the
\* type; it traps or saturates otherwise. A bound off by one float either traps on
\* a number the type holds or runs a conversion LLVM leaves undefined
\* (module.cpp:1616-1637, 1910-1934).
TruncExact ==
    /\ executed.op = "trunc" =>
           executed.result = IF InRange(Operand(1), Operand(2)) THEN {FPToInt(Operand(1))} ELSE Trap
    /\ executed.op = "trunc_sat" => executed.result = {Clamped(Operand(1), Operand(2))}
=============================================================================
