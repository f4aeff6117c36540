------------------------------ MODULE Opcodes ------------------------------
(***************************************************************************)
(* The instructions of a function body that touch only the operand stack:  *)
(* every opcode of module::parse_section_code that is neither control flow *)
(* nor a call.  An opcode is the set of its typings, that is, of the       *)
(* operand types for which the translator's pop() calls succeed, with the  *)
(* result it pushes, and the shape of the code it emits.                   *)
(***************************************************************************)
EXTENDS Naturals, Sequences

CONSTANTS
    FloatTypes,   \* the floating point types in use, a subset of f32 and f64
    Locals,       \* lLocalTypes: the types of the parameters and locals
    Globals,      \* mGlobals: the types of the module's globals
    HasMemory,    \* ~mMemoryTypes.empty()
    Families      \* the opcode families the bodies may use

ASSUME FloatTypesAssumption == FloatTypes \subseteq {"f32", "f64"}

IntTypes == {"i32", "i64"}
ValTypes == IntTypes \cup FloatTypes
Void == "void"
ResultTypes == ValTypes \cup {Void}

ASSUME LocalsAssumption == Locals \in Seq(ValTypes)
ASSUME GlobalsAssumption == Globals \in Seq(ValTypes)
ASSUME HasMemoryAssumption == HasMemory \in BOOLEAN

\* One way of typing an opcode.  ok is FALSE when pop() lets the operands
\* through but LLVMVerifyModule refuses the instruction built from them.
Typing(ins, out, ok) == [ins |-> ins, out |-> out, ok |-> ok]
Typings == [ins : Seq(ValTypes), out : ResultTypes, ok : BOOLEAN]

\* shape is the code emitted: no block ("straight"), a conditional trap
\* ("trap": trapThen and trapSkip) or a trap and a diamond ("srem").
\* folds tells whether LLVM's builder folds the opcode on constant operands.
Op(typings, shape, folds) ==
    [typings |-> typings, shape |-> shape, folds |-> folds]
Shapes == {"straight", "trap", "srem"}
Ops == [typings : SUBSET Typings, shape : Shapes, folds : BOOLEAN]

Straight(typings) == Op(typings, "straight", TRUE)

Nop  == Straight({Typing(<<>>, Void, TRUE)})
Drop == Straight({Typing(<<t>>, Void, TRUE) : t \in ValTypes})
Select == Straight({Typing(<<t, t, "i32">>, t, TRUE) : t \in ValTypes})
Eqz(t) == Straight({Typing(<<t>>, "i32", TRUE)})
Const(t) == Straight({Typing(<<>>, t, TRUE)})

\* An index beyond the declared variables has no typing: the code throws.
GetVariable(types, i) ==
    Op({Typing(<<>>, types[j], TRUE) : j \in {i} \cap DOMAIN types}, "straight", FALSE)
SetVariable(types, i) ==
    Op({Typing(<<types[j]>>, Void, TRUE) : j \in {i} \cap DOMAIN types}, "straight", FALSE)
TeeVariable(types, i) ==
    Straight({Typing(<<types[j]>>, types[j], TRUE) : j \in {i} \cap DOMAIN types})

\* pop_int() takes an i32 or an i64; every consumer of it wants an i32.
AddressTypes == IF HasMemory THEN IntTypes ELSE {}
MemoryGrow == Op({Typing(<<t>>, "i32", t = "i32") : t \in AddressTypes}, "straight", FALSE)
MemorySize == Op(IF HasMemory THEN {Typing(<<>>, "i32", TRUE)} ELSE {}, "straight", FALSE)
Load(t) == Op({Typing(<<a>>, t, a = "i32") : a \in AddressTypes}, "trap", FALSE)
Store(t) == Op({Typing(<<a, t>>, Void, a = "i32") : a \in AddressTypes}, "trap", FALSE)

Trunc(from, to) == Op({Typing(<<from>>, to, TRUE)}, "trap", TRUE)

\* The comparisons and the binary operators take the right operand with an
\* untyped pop() and the left one with the type of the right one, whatever
\* type the opcode names.
ICmp == Straight({Typing(<<t, t>>, "i32", t \in IntTypes) : t \in ValTypes})
FCmp == Straight({Typing(<<t, t>>, "i32", t \in FloatTypes) : t \in ValTypes})
IBinary == Straight({Typing(<<t, t>>, t, t \in IntTypes) : t \in ValTypes})
\* clear_nan throws on anything but a float.
FBinary == Straight({Typing(<<t, t>>, t, TRUE) : t \in FloatTypes})
\* Shifts and rotations build a mask of the type the opcode names.
Shift(type) == Straight({Typing(<<t, t>>, t, t = type) : t \in ValTypes})
\* The unsigned divisions trap first, on a zero of the operands' type.
UDiv == Op({Typing(<<t, t>>, t, t \in IntTypes) : t \in ValTypes}, "trap", TRUE)
\* trap_szero_div throws on anything but an integer.
SDiv == Op({Typing(<<t, t>>, t, TRUE) : t \in IntTypes}, "trap", TRUE)
SRem(type) == Op({Typing(<<t, t>>, type, t = type) : t \in ValTypes}, "srem", FALSE)
\* What ends in the call of an intrinsic is not folded.
FMinMax(t) == Op({Typing(<<t, t>>, t, TRUE)}, "straight", FALSE)
Copysign(type) == Op({Typing(<<t, t>>, t, t = type) : t \in ValTypes}, "straight", FALSE)
Intrinsic(t) == Op({Typing(<<t>>, t, TRUE)}, "straight", FALSE)
Neg(t) == Straight({Typing(<<t>>, t, TRUE)})
Cast(from, to) == Straight({Typing(<<from>>, to, TRUE)})
\* The sign extensions also pop() untyped.
SignExt(to) == Straight({Typing(<<t>>, to, t \in IntTypes) : t \in ValTypes})

\* The opcodes of each family.  Between any two types
\* there is a cast, and none from a type to itself.
OpcodesOf ==
  [ nop     |-> {Nop},
    drop    |-> {Drop},
    select  |-> {Select},
    eqz     |-> {Eqz(t) : t \in IntTypes},
    const   |-> {Const(t) : t \in ValTypes},
    const32 |-> {Const("i32")},
    local   |-> UNION {{GetVariable(Locals, i), SetVariable(Locals, i), TeeVariable(Locals, i)}
                       : i \in 1 .. Len(Locals) + 1},
    global  |-> UNION {{GetVariable(Globals, i), SetVariable(Globals, i)}
                       : i \in 1 .. Len(Globals) + 1},
    memory  |-> {MemoryGrow, MemorySize},
    access  |-> UNION {{Load(t), Store(t)} : t \in ValTypes},
    trunc   |-> {Trunc(f, i) : f \in FloatTypes, i \in IntTypes},
    compare |-> {ICmp, FCmp},
    binary  |-> {IBinary, FBinary},
    shift   |-> {Shift(t) : t \in IntTypes},
    divide  |-> {UDiv, SDiv},
    srem    |-> {SRem(t) : t \in IntTypes},
    minmax  |-> UNION {{FMinMax(t), Copysign(t)} : t \in FloatTypes},
    unary   |-> {Intrinsic(t) : t \in ValTypes} \cup {Neg(t) : t \in FloatTypes},
    cast    |-> UNION {{Cast(f, t) : t \in ValTypes \ {f}} : f \in ValTypes},
    signext |-> {SignExt(t) : t \in IntTypes} ]

ASSUME FamiliesAssumption == Families \subseteq DOMAIN OpcodesOf

Opcodes == UNION {OpcodesOf[f] : f \in Families}
=============================================================================
