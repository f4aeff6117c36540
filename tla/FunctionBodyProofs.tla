------------------------- MODULE FunctionBodyProofs -------------------------
(***************************************************************************)
(* Theorems of FunctionBody, for any function types, any opcode families   *)
(* and any bounds: what the translator keeps of the operands and of the    *)
(* open structures, then the control flow graph it emits, which blocks     *)
(* wait for their terminator and which values the phis get.                *)
(***************************************************************************)
EXTENDS FunctionBody, SequenceTheorems, TLAPS

-----------------------------------------------------------------------------
(* The opcode tables are well formed, whatever the types of the variables  *)
(* and the families in use.                                                *)

\* The value types.
LEMMA ValTypesFacts ==
    /\ IntTypes \subseteq ValTypes /\ FloatTypes \subseteq ValTypes
    /\ "i32" \in ValTypes /\ "i64" \in ValTypes
    /\ ValTypes \subseteq ResultTypes /\ Void \in ResultTypes /\ Void \notin ValTypes
BY FloatTypesAssumption DEF ValTypes, IntTypes, ResultTypes, Void

\* The typings of the families.
LEMMA TypingTypes ==
    ASSUME NEW out \in ResultTypes, NEW ok \in BOOLEAN
    PROVE  /\ Typing(<<>>, out, ok) \in Typings
           /\ \A a \in ValTypes :
                /\ Typing(<<a>>, out, ok) \in Typings
                /\ \A b \in ValTypes :
                     /\ Typing(<<a, b>>, out, ok) \in Typings
                     /\ \A c \in ValTypes : Typing(<<a, b, c>>, out, ok) \in Typings
PROOF
  <1>1. <<>> \in Seq(ValTypes)
    OBVIOUS
  <1>2. \A a \in ValTypes : <<a>> \in Seq(ValTypes)
    OBVIOUS
  <1>3. \A a, b \in ValTypes : <<a, b>> \in Seq(ValTypes)
    OBVIOUS
  <1>4. \A a, b, c \in ValTypes : <<a, b, c>> \in Seq(ValTypes)
    OBVIOUS
  <1> QED
    BY <1>1, <1>2, <1>3, <1>4 DEF Typing, Typings

\* An opcode of the tables.
LEMMA OpType ==
    ASSUME NEW typings \in SUBSET Typings, NEW shape \in Shapes, NEW folds \in BOOLEAN
    PROVE  Op(typings, shape, folds) \in Ops
BY DEF Op, Ops


\* The ways the tables build an opcode from its typings.
LEMMA OpForms ==
    ASSUME NEW typings \in SUBSET Typings
    PROVE  /\ Straight(typings) \in Ops
           /\ Op(typings, "straight", FALSE) \in Ops
           /\ Op(typings, "trap", FALSE) \in Ops
           /\ Op(typings, "trap", TRUE) \in Ops
           /\ Op(typings, "srem", FALSE) \in Ops
BY OpType DEF Straight, Shapes

\* The forms of typing the tables use.
LEMMA TypingForms ==
    ASSUME NEW t \in ValTypes, NEW out \in ResultTypes
    PROVE  /\ Typing(<<>>, out, TRUE) \in Typings
           /\ Typing(<<t>>, out, TRUE) \in Typings
           /\ Typing(<<t>>, out, t \in IntTypes) \in Typings
           /\ Typing(<<t>>, out, t = "i32") \in Typings
           /\ Typing(<<t, t>>, out, TRUE) \in Typings
           /\ Typing(<<t, t>>, out, t \in IntTypes) \in Typings
           /\ Typing(<<t, t>>, out, t \in FloatTypes) \in Typings
           /\ \A u : Typing(<<t, t>>, out, t = u) \in Typings
           /\ \A u \in ValTypes : Typing(<<t, u>>, out, t = "i32") \in Typings
           /\ Typing(<<t, t, "i32">>, out, TRUE) \in Typings
PROOF
  <1>1. (t \in IntTypes) \in BOOLEAN /\ (t \in FloatTypes) \in BOOLEAN
        /\ \A u : (t = u) \in BOOLEAN
    OBVIOUS
  <1> QED
    BY <1>1, TypingTypes, ValTypesFacts

\* All of them.
LEMMA OpcodeTypes ==
    ASSUME NEW type \in ValTypes
    PROVE  /\ {Nop, Drop, Select, Eqz(type), Const(type), Neg(type)} \subseteq Ops
           /\ {MemoryGrow, MemorySize, Load(type), Store(type)} \subseteq Ops
           /\ {ICmp, FCmp, IBinary, FBinary, UDiv, SDiv, SRem(type)} \subseteq Ops
           /\ {Shift(type), SignExt(type)} \subseteq Ops
           /\ {FMinMax(type), Copysign(type), Intrinsic(type)} \subseteq Ops
           /\ \A from \in ValTypes : {Trunc(from, type), Cast(from, type)} \subseteq Ops
PROOF
  <1>1. AddressTypes \subseteq ValTypes
    BY ValTypesFacts DEF AddressTypes
  <1>2. Nop \in Ops
    <2>1. Typing(<<>>, Void, TRUE) \in Typings
      BY TypingForms, ValTypesFacts
    <2>2. {Typing(<<>>, Void, TRUE)} \in SUBSET Typings
      BY <2>1, Zenon
    <2> QED
      BY <2>2, OpForms, Zenon DEF Nop
  <1>3. Drop \in Ops
    <2>1. \A t \in ValTypes : Typing(<<t>>, Void, TRUE) \in Typings
      BY TypingForms, ValTypesFacts
    <2>2. {Typing(<<t>>, Void, TRUE) : t \in ValTypes} \in SUBSET Typings
      BY <2>1, Zenon
    <2> QED
      BY <2>2, OpForms, Zenon DEF Drop
  <1>4. Select \in Ops
    <2>1. \A t \in ValTypes : Typing(<<t, t, "i32">>, t, TRUE) \in Typings
      BY TypingForms, ValTypesFacts
    <2>2. {Typing(<<t, t, "i32">>, t, TRUE) : t \in ValTypes} \in SUBSET Typings
      BY <2>1, Zenon
    <2> QED
      BY <2>2, OpForms, Zenon DEF Select
  <1>5. Eqz(type) \in Ops
    <2>1. Typing(<<type>>, "i32", TRUE) \in Typings
      BY TypingForms, ValTypesFacts
    <2>2. {Typing(<<type>>, "i32", TRUE)} \in SUBSET Typings
      BY <2>1, Zenon
    <2> QED
      BY <2>2, OpForms, Zenon DEF Eqz
  <1>6. Const(type) \in Ops
    <2>1. Typing(<<>>, type, TRUE) \in Typings
      BY TypingForms, ValTypesFacts
    <2>2. {Typing(<<>>, type, TRUE)} \in SUBSET Typings
      BY <2>1, Zenon
    <2> QED
      BY <2>2, OpForms, Zenon DEF Const
  <1>7. Neg(type) \in Ops
    <2>1. Typing(<<type>>, type, TRUE) \in Typings
      BY TypingForms, ValTypesFacts
    <2>2. {Typing(<<type>>, type, TRUE)} \in SUBSET Typings
      BY <2>1, Zenon
    <2> QED
      BY <2>2, OpForms, Zenon DEF Neg
  <1>8. MemoryGrow \in Ops
    <2>1. \A t \in AddressTypes : Typing(<<t>>, "i32", t = "i32") \in Typings
      BY <1>1, TypingForms, ValTypesFacts
    <2>2. {Typing(<<t>>, "i32", t = "i32") : t \in AddressTypes} \in SUBSET Typings
      BY <2>1, Zenon
    <2> QED
      BY <2>2, OpForms, Zenon DEF MemoryGrow
  <1>9. MemorySize \in Ops
    <2>1. Typing(<<>>, "i32", TRUE) \in Typings
      BY TypingForms, ValTypesFacts
    <2>2. (IF HasMemory THEN {Typing(<<>>, "i32", TRUE)} ELSE {}) \in SUBSET Typings
      BY <2>1, Zenon
    <2> QED
      BY <2>2, OpForms, Zenon DEF MemorySize
  <1>10. Load(type) \in Ops
    <2>1. \A a \in AddressTypes : Typing(<<a>>, type, a = "i32") \in Typings
      BY <1>1, TypingForms, ValTypesFacts
    <2>2. {Typing(<<a>>, type, a = "i32") : a \in AddressTypes} \in SUBSET Typings
      BY <2>1, Zenon
    <2> QED
      BY <2>2, OpForms, Zenon DEF Load
  <1>11. Store(type) \in Ops
    <2>1. \A a \in AddressTypes : Typing(<<a, type>>, Void, a = "i32") \in Typings
      BY <1>1, TypingForms, ValTypesFacts
    <2>2. {Typing(<<a, type>>, Void, a = "i32") : a \in AddressTypes} \in SUBSET Typings
      BY <2>1, Zenon
    <2> QED
      BY <2>2, OpForms, Zenon DEF Store
  <1>12. ICmp \in Ops
    <2>1. \A t \in ValTypes : Typing(<<t, t>>, "i32", t \in IntTypes) \in Typings
      BY TypingForms, ValTypesFacts
    <2>2. {Typing(<<t, t>>, "i32", t \in IntTypes) : t \in ValTypes} \in SUBSET Typings
      BY <2>1, Zenon
    <2> QED
      BY <2>2, OpForms, Zenon DEF ICmp
  <1>13. FCmp \in Ops
    <2>1. \A t \in ValTypes : Typing(<<t, t>>, "i32", t \in FloatTypes) \in Typings
      BY TypingForms, ValTypesFacts
    <2>2. {Typing(<<t, t>>, "i32", t \in FloatTypes) : t \in ValTypes} \in SUBSET Typings
      BY <2>1, Zenon
    <2> QED
      BY <2>2, OpForms, Zenon DEF FCmp
  <1>14. IBinary \in Ops
    <2>1. \A t \in ValTypes : Typing(<<t, t>>, t, t \in IntTypes) \in Typings
      BY TypingForms, ValTypesFacts
    <2>2. {Typing(<<t, t>>, t, t \in IntTypes) : t \in ValTypes} \in SUBSET Typings
      BY <2>1, Zenon
    <2> QED
      BY <2>2, OpForms, Zenon DEF IBinary
  <1>15. FBinary \in Ops
    <2>1. \A t \in FloatTypes : Typing(<<t, t>>, t, TRUE) \in Typings
      BY TypingForms, ValTypesFacts
    <2>2. {Typing(<<t, t>>, t, TRUE) : t \in FloatTypes} \in SUBSET Typings
      BY <2>1, Zenon
    <2> QED
      BY <2>2, OpForms, Zenon DEF FBinary
  <1>16. UDiv \in Ops
    <2>1. \A t \in ValTypes : Typing(<<t, t>>, t, t \in IntTypes) \in Typings
      BY TypingForms, ValTypesFacts
    <2>2. {Typing(<<t, t>>, t, t \in IntTypes) : t \in ValTypes} \in SUBSET Typings
      BY <2>1, Zenon
    <2> QED
      BY <2>2, OpForms, Zenon DEF UDiv
  <1>17. SDiv \in Ops
    <2>1. \A t \in IntTypes : Typing(<<t, t>>, t, TRUE) \in Typings
      BY TypingForms, ValTypesFacts
    <2>2. {Typing(<<t, t>>, t, TRUE) : t \in IntTypes} \in SUBSET Typings
      BY <2>1, Zenon
    <2> QED
      BY <2>2, OpForms, Zenon DEF SDiv
  <1>18. SRem(type) \in Ops
    <2>1. \A t \in ValTypes : Typing(<<t, t>>, type, t = type) \in Typings
      BY TypingForms, ValTypesFacts
    <2>2. {Typing(<<t, t>>, type, t = type) : t \in ValTypes} \in SUBSET Typings
      BY <2>1, Zenon
    <2> QED
      BY <2>2, OpForms, Zenon DEF SRem
  <1>19. Shift(type) \in Ops
    <2>1. \A t \in ValTypes : Typing(<<t, t>>, t, t = type) \in Typings
      BY TypingForms, ValTypesFacts
    <2>2. {Typing(<<t, t>>, t, t = type) : t \in ValTypes} \in SUBSET Typings
      BY <2>1, Zenon
    <2> QED
      BY <2>2, OpForms, Zenon DEF Shift
  <1>20. SignExt(type) \in Ops
    <2>1. \A t \in ValTypes : Typing(<<t>>, type, t \in IntTypes) \in Typings
      BY TypingForms, ValTypesFacts
    <2>2. {Typing(<<t>>, type, t \in IntTypes) : t \in ValTypes} \in SUBSET Typings
      BY <2>1, Zenon
    <2> QED
      BY <2>2, OpForms, Zenon DEF SignExt
  <1>21. FMinMax(type) \in Ops
    <2>1. Typing(<<type, type>>, type, TRUE) \in Typings
      BY TypingForms, ValTypesFacts
    <2>2. {Typing(<<type, type>>, type, TRUE)} \in SUBSET Typings
      BY <2>1, Zenon
    <2> QED
      BY <2>2, OpForms, Zenon DEF FMinMax
  <1>22. Copysign(type) \in Ops
    <2>1. \A t \in ValTypes : Typing(<<t, t>>, t, t = type) \in Typings
      BY TypingForms, ValTypesFacts
    <2>2. {Typing(<<t, t>>, t, t = type) : t \in ValTypes} \in SUBSET Typings
      BY <2>1, Zenon
    <2> QED
      BY <2>2, OpForms, Zenon DEF Copysign
  <1>23. Intrinsic(type) \in Ops
    <2>1. Typing(<<type>>, type, TRUE) \in Typings
      BY TypingForms, ValTypesFacts
    <2>2. {Typing(<<type>>, type, TRUE)} \in SUBSET Typings
      BY <2>1, Zenon
    <2> QED
      BY <2>2, OpForms, Zenon DEF Intrinsic
  <1>24. ASSUME NEW from \in ValTypes
        PROVE  Trunc(from, type) \in Ops /\ Cast(from, type) \in Ops
    <2>1. Typing(<<from>>, type, TRUE) \in Typings
      BY TypingForms, ValTypesFacts
    <2>2. {Typing(<<from>>, type, TRUE)} \in SUBSET Typings
      BY <2>1, Zenon
    <2> QED
      BY <2>2, OpForms, Zenon DEF Trunc, Cast
  <1> QED
    BY <1>1, <1>2, <1>3, <1>4, <1>5, <1>6, <1>7, <1>8, <1>9, <1>10, <1>11, <1>12, <1>13, <1>14, <1>15, <1>16, <1>17, <1>18, <1>19, <1>20, <1>21, <1>22, <1>23, <1>24

\* Variables that keep their types.
LEMMA VariableTypes ==
    ASSUME NEW types \in Seq(ValTypes), NEW i
    PROVE  {GetVariable(types, i), SetVariable(types, i), TeeVariable(types, i)} \subseteq Ops
PROOF
  <1> DEFINE J == {i} \cap DOMAIN types
  <1>1. \A j \in J : types[j] \in ValTypes
    OBVIOUS
  <1>2. GetVariable(types, i) \in Ops
    <2>1. \A j \in J : Typing(<<>>, types[j], TRUE) \in Typings
      BY <1>1, TypingForms, ValTypesFacts
    <2>2. {Typing(<<>>, types[j], TRUE) : j \in J} \in SUBSET Typings
      BY <2>1, Zenon
    <2> QED
      BY <2>2, OpForms, Zenon DEF GetVariable
  <1>3. SetVariable(types, i) \in Ops
    <2>1. \A j \in J : Typing(<<types[j]>>, Void, TRUE) \in Typings
      BY <1>1, TypingForms, ValTypesFacts
    <2>2. {Typing(<<types[j]>>, Void, TRUE) : j \in J} \in SUBSET Typings
      BY <2>1, Zenon
    <2> QED
      BY <2>2, OpForms, Zenon DEF SetVariable
  <1>4. TeeVariable(types, i) \in Ops
    <2>1. \A j \in J : Typing(<<types[j]>>, types[j], TRUE) \in Typings
      BY <1>1, TypingForms, ValTypesFacts
    <2>2. {Typing(<<types[j]>>, types[j], TRUE) : j \in J} \in SUBSET Typings
      BY <2>1, Zenon
    <2> QED
      BY <2>2, OpForms, Zenon DEF TeeVariable
  <1> QED
    BY <1>2, <1>3, <1>4

\* Every opcode of the tables is a set of typings and a shape of code.
LEMMA OpcodesAreOps == Opcodes \subseteq Ops
PROOF
  <1> DEFINE family(f) == OpcodesOf[f] \subseteq Ops
  <1>1. family("nop") /\ family("drop") /\ family("select") /\ family("eqz")
         /\ family("const") /\ family("const32")
    BY OpcodeTypes, ValTypesFacts DEF OpcodesOf
  <1>2. family("local") /\ family("global")
    BY VariableTypes, LocalsAssumption, GlobalsAssumption DEF OpcodesOf
  <1>3. family("memory") /\ family("access")
    BY OpcodeTypes, ValTypesFacts DEF OpcodesOf
  <1>4. family("trunc") /\ family("cast")
    BY OpcodeTypes, ValTypesFacts DEF OpcodesOf
  <1>5. family("compare") /\ family("binary") /\ family("divide")
    BY OpcodeTypes, ValTypesFacts DEF OpcodesOf
  <1>6. family("shift") /\ family("signext") /\ family("srem")
    BY OpcodeTypes, ValTypesFacts DEF OpcodesOf
  <1>7. family("minmax") /\ family("unary")
    BY OpcodeTypes, ValTypesFacts DEF OpcodesOf
  <1>8. DOMAIN OpcodesOf = {"nop", "drop", "select", "eqz", "const", "const32", "local",
            "global", "memory", "access", "trunc", "compare", "binary", "shift", "divide",
            "srem", "minmax", "unary", "cast", "signext"}
    BY DEF OpcodesOf
  <1>9. \A f \in DOMAIN OpcodesOf : family(f)
    BY <1>1, <1>2, <1>3, <1>4, <1>5, <1>6, <1>7, <1>8
  <1> QED
    BY <1>9, FamiliesAssumption DEF Opcodes

-----------------------------------------------------------------------------
(* The types of the stacks.                                                *)

Operands == [type : ValTypes, def : Nat]
Entries == [instr : Kinds, signature : ResultTypes, end : Nat, else : Nat,
            outerStackSize : Nat, outerBlockDepth : Nat, reachable : BOOLEAN]
Targets == [signature : ResultTypes, block : Nat]
Triples == SUBSET (Nat \X Nat \X Nat)

-----------------------------------------------------------------------------
(* The operand stack.                                                      *)

\* The values a jump carries.
LEMMA CarriedType ==
    ASSUME NEW signature \in ResultTypes
    PROVE  /\ Carried(signature) \in Seq(ValTypes)
           /\ Len(Carried(signature)) = IF signature = Void THEN 0 ELSE 1
BY ValTypesFacts DEF Carried, ResultTypes

\* The innermost structure.
LEMMA TopType ==
    ASSUME TypeOK, InBody
    PROVE  /\ Len(cfEntries) \in Nat \ {0}
           /\ Top \in Entries
           /\ Top.outerStackSize \in Nat /\ Top.outerBlockDepth \in Nat
           /\ Top.end \in Nat /\ Top.else \in Nat /\ Top.signature \in ResultTypes
PROOF
  <1>1. cfEntries \in Seq(Entries) /\ cfEntries # <<>>
    BY DEF TypeOK, InBody, Entries
  <1>2. Top \in Entries
    BY <1>1, ElementOfSeq, EmptySeq DEF Top
  <1> QED
    BY <1>1, <1>2, EmptySeq DEF Entries

\* What is left when operands are popped.
LEMMA PoppedType ==
    ASSUME TypeOK, NEW n \in Nat, n <= Len(evalStack)
    PROVE  /\ Popped(n) \in Seq(Operands)
           /\ Len(Popped(n)) = Len(evalStack) - n
           /\ \A i \in 1 .. Len(evalStack) - n : Popped(n)[i] = evalStack[i]
PROOF
  <1>1. evalStack \in Seq(Operands)
    BY DEF TypeOK, Operands
  <1>2. Len(evalStack) \in Nat /\ \A i \in 1 .. Len(evalStack) : evalStack[i] \in Operands
    BY <1>1, LenProperties
  <1>3. \A i \in 1 .. Len(evalStack) - n : evalStack[i] \in Operands
    BY <1>2
  <1> QED
    BY <1>2, <1>3, SubSeqProperties DEF Popped

\* The use of popped operands.
LEMMA UseType ==
    ASSUME TypeOK, NEW n \in Nat, n <= Len(evalStack)
    PROVE  Use(n) \in SUBSET (Nat \X Nat)
PROOF
  <1>1. \A i \in Len(evalStack) - n + 1 .. Len(evalStack) : evalStack[i].def \in Nat
    <2>1. evalStack \in Seq(Operands)
      BY DEF TypeOK, Operands
    <2>2. \A i \in 1 .. Len(evalStack) : evalStack[i].def \in Nat
      <3>1. \A i \in 1 .. Len(evalStack) : evalStack[i] \in Operands
        BY <2>1, ElementOfSeq
      <3>2. \A o \in Operands : o.def \in Nat
        BY DEF Operands
      <3> QED
        BY <3>1, <3>2
    <2>3. Len(evalStack) \in Nat
      BY <2>1, LenProperties
    <2> QED
      BY <2>2, <2>3
  <1>2. insertBlock \in Nat /\ uses \in SUBSET (Nat \X Nat)
    BY DEF TypeOK
  <1> QED
    BY <1>1, <1>2 DEF Use

\* Operands that fit are on the stack.
LEMMA FitsLength ==
    ASSUME TypeOK, InBody, NEW operands \in Seq(ValTypes), Fits(operands)
    PROVE  /\ Len(operands) \in Nat
           /\ Len(evalStack) >= Top.outerStackSize + Len(operands)
           /\ Len(operands) <= Len(evalStack)
PROOF
  <1>1. Len(operands) \in Nat /\ Len(evalStack) \in Nat
    BY DEF TypeOK
  <1> QED
    BY <1>1, TopType DEF Fits

\* The operands an instruction leaves.
LEMMA ReplaceType ==
    ASSUME TypeOK, NEW n \in Nat, n <= Len(evalStack),
           NEW result \in ResultTypes, NEW def \in Nat, Replace(n, result, def)
    PROVE  evalStack' \in Seq(Operands)
PROOF
  <1> DEFINE pushed == IF result = Void THEN <<>> ELSE <<Value(result, def)>>
  <1>1. pushed \in Seq(Operands)
    <2>1. result # Void => Value(result, def) \in Operands
      BY DEF Value, Operands, ResultTypes
    <2> QED
      BY <2>1
  <1>2. Popped(n) \in Seq(Operands)
    BY PoppedType
  <1> QED
    BY <1>1, <1>2, ConcatProperties DEF Replace

\* skip_unreachable leaves the operands of the outer structures.
LEMMA SkipType ==
    ASSUME TypeOK, InBody, NEW stack \in Seq(Operands),
           Len(stack) >= Top.outerStackSize, SkipUnreachable(stack)
    PROVE  /\ evalStack' \in Seq(Operands)
           /\ cfEntries' \in Seq(Entries)
           /\ unreachableDepth' \in Nat
PROOF
  <1>1. evalStack' \in Seq(Operands)
    BY TopType DEF SkipUnreachable
  <1>2. cfEntries' \in Seq(Entries)
    <2>1. cfEntries \in Seq(Entries)
      BY DEF TypeOK, Entries
    <2>2. [Top EXCEPT !.reachable = FALSE] \in Entries
      BY TopType DEF Entries
    <2>3. cfEntries' = [cfEntries EXCEPT ![Len(cfEntries)] = [Top EXCEPT !.reachable = FALSE]]
      BY <2>1, TopType DEF SkipUnreachable, Top
    <2> QED
      BY <2>1, <2>2, <2>3, TopType, ExceptSeq
  <1> QED
    BY <1>1, <1>2 DEF SkipUnreachable

-----------------------------------------------------------------------------
(* Type correctness.                                                       *)

GraphTypes ==
    /\ blocks \in Seq(ResultTypes)
    /\ terminated \in SUBSET Nat
    /\ edges \in Triples
    /\ incoming \in Triples
    /\ insertBlock \in Nat
    /\ verifies \in BOOLEAN
    /\ returnType \in ResultTypes

StackTypes ==
    /\ evalStack \in Seq(Operands)
    /\ cfEntries \in Seq(Entries)
    /\ blockEntries \in Seq(Targets)
    /\ unreachableDepth \in Nat

\* The conjuncts of the type invariant.
LEMMA TypeParts ==
    TypeOK <=> GraphTypes /\ StackTypes /\ uses \in SUBSET (Nat \X Nat) /\ status \in Statuses
BY DEF TypeOK, GraphTypes, StackTypes, Operands, Entries, Targets, Triples

\* And in the next state.
LEMMA TypePartsNext ==
    TypeOK' <=> GraphTypes' /\ StackTypes' /\ uses' \in SUBSET (Nat \X Nat) /\ status' \in Statuses
BY DEF TypeOK, GraphTypes, StackTypes, Operands, Entries, Targets, Triples

\* Stopping keeps the types.
LEMMA StopTyped ==
    ASSUME NEW outcome \in Finished, Stop(outcome)
    PROVE  TypeOK'
PROOF
  <1>1. StackTypes'
    BY DEF Stop, StackTypes
  <1>2. GraphTypes'
    <2>1. blocks' \in Seq(ResultTypes) /\ terminated' \in SUBSET Nat /\ insertBlock' \in Nat
      BY DEF Stop, NoBlock
    <2>2. edges' \in Triples /\ incoming' \in Triples
      BY DEF Stop, Triples
    <2>3. returnType' \in ResultTypes /\ verifies' \in BOOLEAN
      BY ValTypesFacts DEF Stop
    <2> QED
      BY <2>1, <2>2, <2>3 DEF GraphTypes
  <1> QED
    BY <1>1, <1>2, TypePartsNext DEF Stop, Statuses

\* New blocks keep the types.
LEMMA BlocksTyped ==
    ASSUME TypeOK
    PROVE  /\ Len(blocks) \in Nat
           /\ \A type \in ResultTypes : Append(blocks, type) \in Seq(ResultTypes)
           /\ blocks \o <<Void, Void>> \in Seq(ResultTypes)
BY TypeParts, ValTypesFacts DEF GraphTypes

\* A structure that is pushed.
LEMMA PushTyped ==
    ASSUME TypeOK, NEW instr \in Kinds, NEW signature \in ResultTypes, NEW end \in Nat,
           NEW else \in Nat, NEW stack \in Seq(Operands),
           PushCFEntry(instr, signature, end, else, stack)
    PROVE  cfEntries' \in Seq(Entries)
PROOF
  <1>1. cfEntries \in Seq(Entries) /\ Len(blockEntries) \in Nat /\ Len(stack) \in Nat
    BY TypeParts DEF StackTypes
  <1>2. [instr |-> instr, signature |-> signature, end |-> end, else |-> else,
         outerStackSize |-> Len(stack), outerBlockDepth |-> Len(blockEntries),
         reachable |-> TRUE] \in Entries
    BY <1>1 DEF Entries
  <1> QED
    BY <1>1, <1>2, AppendProperties DEF PushCFEntry

\* A target that is pushed.
LEMMA PushTargetTyped ==
    ASSUME TypeOK, NEW signature \in ResultTypes, NEW block \in Nat,
           PushBlockEntry(signature, block)
    PROVE  blockEntries' \in Seq(Targets)
PROOF
  <1>1. blockEntries \in Seq(Targets)
    BY TypeParts DEF StackTypes
  <1>2. [signature |-> signature, block |-> block] \in Targets
    BY DEF Targets
  <1> QED
    BY <1>1, <1>2, AppendProperties DEF PushBlockEntry

\* StartFunction keeps the types.
LEMMA StartFunctionTyped ==
    ASSUME TypeOK, NEW result \in BodyResults, StartFunction(result)
    PROVE  TypeOK'
PROOF
  <1>1. result \in ResultTypes /\ evalStack \in Seq(Operands)
    BY ResultsAssumption, TypeParts DEF StackTypes
  <1>2. cfEntries' \in Seq(Entries)
    <2>1. "function" \in Kinds /\ FuncEnd \in Nat /\ NoBlock \in Nat
      BY DEF Kinds, FuncEnd, NoBlock
    <2> QED
      BY <1>1, <2>1, PushTyped DEF StartFunction
  <1>3. blockEntries' \in Seq(Targets)
    BY <1>1, PushTargetTyped DEF StartFunction, FuncEnd
  <1>4. StackTypes'
    BY <1>2, <1>3, TypeParts DEF StartFunction, StackTypes
  <1>5. GraphTypes'
    BY <1>1, TypeParts, ValTypesFacts DEF StartFunction, GraphTypes, FuncEntry
  <1> QED
    BY <1>4, <1>5, TypeParts, TypePartsNext DEF StartFunction, Statuses

\* Block keeps the types.
LEMMA BlockTyped ==
    ASSUME TypeOK, NEW signature \in BlockTypes, Block(signature)
    PROVE  TypeOK'
PROOF
  <1>1. signature \in ResultTypes /\ evalStack \in Seq(Operands) /\ Len(blocks) + 1 \in Nat
    BY ResultsAssumption, TypeParts DEF StackTypes, GraphTypes
  <1>2. cfEntries' \in Seq(Entries)
    <2>1. "block" \in Kinds /\ NoBlock \in Nat
      BY DEF Kinds, NoBlock
    <2> QED
      BY <1>1, <2>1, PushTyped DEF Block
  <1>3. blockEntries' \in Seq(Targets)
    BY <1>1, PushTargetTyped DEF Block
  <1>4. StackTypes'
    BY <1>2, <1>3, TypeParts DEF Block, StackTypes
  <1>5. GraphTypes'
    BY <1>1, TypeParts, BlocksTyped DEF Block, GraphTypes
  <1> QED
    BY <1>4, <1>5, TypeParts, TypePartsNext DEF Block

\* Loop keeps the types.
LEMMA LoopTyped ==
    ASSUME TypeOK, NEW signature \in BlockTypes, Loop(signature)
    PROVE  TypeOK'
PROOF
  <1> DEFINE entry == Len(blocks) + 1
             end == Len(blocks) + 2
  <1>1. /\ signature \in ResultTypes /\ Void \in ResultTypes /\ evalStack \in Seq(Operands)
        /\ entry \in Nat /\ end \in Nat
    BY ResultsAssumption, TypeParts, ValTypesFacts DEF StackTypes, GraphTypes
  <1>2. cfEntries' \in Seq(Entries)
    <2>1. "loop" \in Kinds /\ NoBlock \in Nat
      BY DEF Kinds, NoBlock
    <2>2. PushCFEntry("loop", signature, end, NoBlock, evalStack)
      BY DEF Loop
    <2> QED
      BY <1>1, <2>1, <2>2, PushTyped
  <1>3. blockEntries' \in Seq(Targets)
    <2>1. PushBlockEntry(Void, entry)
      BY DEF Loop
    <2> QED
      BY <1>1, <2>1, PushTargetTyped
  <1>4. StackTypes'
    BY <1>2, <1>3, TypeParts DEF Loop, StackTypes
  <1>5. GraphTypes'
    BY <1>1, TypeParts DEF Loop, GraphTypes, Triples, Taken
  <1> QED
    BY <1>4, <1>5, TypeParts, TypePartsNext DEF Loop

\* If keeps the types.
LEMMA IfTyped ==
    ASSUME TypeOK, NEW signature \in BlockTypes, If(signature)
    PROVE  TypeOK'
PROOF
  <1>1. CASE Stop("invalid")
    BY <1>1, StopTyped DEF Finished
  <1>2. CASE ~Stop("invalid")
    <2> DEFINE then == Len(blocks) + 1
               else == Len(blocks) + 2
               end == Len(blocks) + 3
    <2>1. /\ Live /\ Fits(<<"i32">>)
          /\ blocks' = blocks \o <<Void, Void, signature>>
          /\ edges' = edges \cup {<<insertBlock, then, Taken>>, <<insertBlock, else, NotTaken>>}
          /\ terminated' = terminated \cup {insertBlock}
          /\ insertBlock' = then
          /\ evalStack' = Popped(1)
          /\ uses' = Use(1)
          /\ PushCFEntry("if", signature, end, else, evalStack')
          /\ PushBlockEntry(signature, end)
          /\ UNCHANGED <<unreachableDepth, incoming, returnType, verifies, status>>
      BY <1>2 DEF If
    <2>2. signature \in ResultTypes /\ Void \in ResultTypes /\ then \in Nat /\ else \in Nat
          /\ end \in Nat /\ "if" \in Kinds
      BY ResultsAssumption, TypeParts, ValTypesFacts DEF GraphTypes, Kinds
    <2>3. 1 <= Len(evalStack)
      <3>1. <<"i32">> \in Seq(ValTypes) /\ Len(<<"i32">>) = 1
        BY ValTypesFacts
      <3> QED
        BY <2>1, <3>1, FitsLength DEF Live
    <2>4. evalStack' \in Seq(Operands) /\ uses' \in SUBSET (Nat \X Nat)
      BY <2>1, <2>3, PoppedType, UseType
    <2> HIDE DEF then, else, end
    <2>5. cfEntries' \in Seq(Entries) /\ blockEntries' \in Seq(Targets)
      BY <2>1, <2>2, <2>4, PushTyped, PushTargetTyped
    <2>6. StackTypes'
      BY <2>1, <2>4, <2>5, TypeParts DEF StackTypes
    <2>7. GraphTypes'
      BY <2>1, <2>2, TypeParts, SMTT(30) DEF GraphTypes, Triples, Taken, NotTaken
    <2> QED
      BY <2>1, <2>4, <2>6, <2>7, TypeParts, TypePartsNext
  <1> QED
    BY <1>1, <1>2

\* What a structure yields.
LEMMA YieldedType ==
    ASSUME TypeOK, InBody
    PROVE  /\ Yielded \in Seq(ValTypes) /\ Len(Yielded) \in {0, 1}
           /\ JoinEdges \in Triples /\ JoinValues \in Triples /\ JoinTerminated \in SUBSET Nat
           /\ FrameCloses =>
                /\ Len(Yielded) <= Len(evalStack)
                /\ Len(evalStack) - Len(Yielded) = Top.outerStackSize
PROOF
  <1>1. Yielded \in Seq(ValTypes) /\ Len(Yielded) \in {0, 1}
    BY TopType, CarriedType DEF Yielded
  <1>2. insertBlock \in Nat /\ Top.end \in Nat /\ Len(evalStack) \in Nat
    BY TypeParts, TopType DEF GraphTypes, StackTypes
  <1>3. JoinEdges \in Triples /\ JoinValues \in Triples /\ JoinTerminated \in SUBSET Nat
    BY <1>2 DEF JoinEdges, JoinValues, JoinTerminated, Triples, Taken
  <1>4. ASSUME FrameCloses
        PROVE  Len(Yielded) <= Len(evalStack)
               /\ Len(evalStack) - Len(Yielded) = Top.outerStackSize
    BY <1>1, <1>2, <1>4, TopType DEF FrameCloses
  <1> QED
    BY <1>1, <1>3, <1>4

\* Else keeps the types.
LEMMA ElseTyped ==
    ASSUME TypeOK, Else
    PROVE  TypeOK'
PROOF
  <1>1. CASE Stop("invalid") \/ Stop("aborted")
    BY <1>1, StopTyped DEF Finished
  <1>2. CASE ~Stop("invalid") /\ ~Stop("aborted")
    <2>1. /\ AtJoin /\ FrameCloses
          /\ edges' = edges \cup JoinEdges
          /\ incoming' = incoming \cup JoinValues
          /\ terminated' = terminated \cup JoinTerminated
          /\ uses' = Use(Len(Yielded))
          /\ evalStack' = Popped(Len(Yielded))
          /\ insertBlock' = Top.else
          /\ cfEntries' = [cfEntries EXCEPT ![Len(cfEntries)] =
                             [@ EXCEPT !.instr = "else", !.reachable = TRUE, !.else = NoBlock]]
          /\ UNCHANGED <<blockEntries, unreachableDepth, blocks, returnType, verifies, status>>
      BY <1>2 DEF Else
    <2>2. InBody
      BY <2>1 DEF AtJoin
    <2>3. evalStack' \in Seq(Operands) /\ uses' \in SUBSET (Nat \X Nat)
      BY <2>1, <2>2, YieldedType, PoppedType, UseType
    <2>4. cfEntries' \in Seq(Entries)
      <3> DEFINE opened == [Top EXCEPT !.instr = "else", !.reachable = TRUE, !.else = NoBlock]
      <3>1. cfEntries \in Seq(Entries)
        BY TypeParts DEF StackTypes
      <3>2. opened \in Entries
        BY <2>2, TopType DEF Entries, Kinds, NoBlock
      <3>3. cfEntries' = [cfEntries EXCEPT ![Len(cfEntries)] = opened]
        BY <2>1, <2>2, <3>1, TopType DEF Top
      <3> QED
        BY <2>2, <3>1, <3>2, <3>3, TopType, ExceptSeq
    <2>5. StackTypes'
      BY <2>1, <2>3, <2>4, TypeParts DEF StackTypes
    <2>6. GraphTypes'
      BY <2>1, <2>2, YieldedType, TopType, TypeParts DEF GraphTypes, Triples
    <2> QED
      BY <2>1, <2>3, <2>5, <2>6, TypeParts, TypePartsNext
  <1> QED
    BY <1>1, <1>2

\* End keeps the types.
LEMMA EndTyped ==
    ASSUME TypeOK, FramesAligned, End
    PROVE  TypeOK'
PROOF
  <1>1. CASE Stop("invalid")
    BY <1>1, StopTyped DEF Finished
  <1>2. CASE ~Stop("invalid")
    <2>1. /\ AtJoin /\ FrameCloses
          /\ edges' = edges \cup JoinEdges \cup FallThroughEdges
          /\ incoming' = incoming \cup JoinValues
          /\ terminated' = (terminated \cup JoinTerminated) \cup ({Top.else} \ {NoBlock})
          /\ blocks' = IF HasIncoming(incoming') THEN blocks
                       ELSE [blocks EXCEPT ![Top.end] = Void]
          /\ uses' = Use(Len(Yielded))
          /\ evalStack' = Popped(Len(Yielded)) \o Result(incoming')
          /\ insertBlock' = Top.end
          /\ blockEntries' = SubSeq(blockEntries, 1, Top.outerBlockDepth)
          /\ cfEntries' = SubSeq(cfEntries, 1, Len(cfEntries) - 1)
          /\ UNCHANGED <<unreachableDepth, returnType, verifies, status>>
      BY <1>2 DEF End
    <2>2. InBody
      BY <2>1 DEF AtJoin
    <2>3. evalStack' \in Seq(Operands) /\ uses' \in SUBSET (Nat \X Nat)
      <3>1. Result(incoming') \in Seq(Operands)
        <4>1. \A b \in Nat : Top.signature # Void => Value(Top.signature, b) \in Operands
          BY <2>2, TopType DEF Value, Operands, ResultTypes
        <4>2. Top.end \in Nat /\ NoBlock \in Nat
          BY <2>2, TopType DEF NoBlock
        <4> QED
          BY <4>1, <4>2 DEF Result
      <3> QED
        BY <2>1, <2>2, <3>1, YieldedType, PoppedType, UseType, ConcatProperties
    <2>4. cfEntries' \in Seq(Entries)
      <3>1. cfEntries \in Seq(Entries)
        BY TypeParts DEF StackTypes
      <3> QED
        BY <2>1, <2>2, <3>1, TopType
    <2>5. blockEntries' \in Seq(Targets)
      <3>1. blockEntries \in Seq(Targets)
        BY TypeParts DEF StackTypes
      <3>2. Top.outerBlockDepth = Len(cfEntries) - 1 /\ Len(blockEntries) = Len(cfEntries)
        <4>1. Len(cfEntries) \in DOMAIN cfEntries
          BY <2>2, TopType, TypeParts DEF StackTypes
        <4> QED
          BY <4>1 DEF FramesAligned, Top
      <3> QED
        BY <2>1, <2>2, <3>1, <3>2, TopType
    <2>6. StackTypes'
      BY <2>1, <2>3, <2>4, <2>5, TypeParts DEF StackTypes
    <2>7. GraphTypes'
      <3>1. blocks' \in Seq(ResultTypes)
        <4>1. blocks \in Seq(ResultTypes)
          BY TypeParts DEF GraphTypes
        <4>2. CASE Top.end \in DOMAIN blocks
          BY <2>1, <4>1, <4>2, ValTypesFacts, ExceptSeq
        <4>3. CASE Top.end \notin DOMAIN blocks
          <5>1. [blocks EXCEPT ![Top.end] = Void] = blocks
            BY <4>1, <4>3
          <5> QED
            BY <2>1, <4>1, <5>1
        <4> QED
          BY <4>2, <4>3
      <3>2. FallThroughEdges \in Triples
        BY <2>2, TopType DEF FallThroughEdges, Triples, FallThrough
      <3> QED
        BY <2>1, <2>2, <3>1, <3>2, YieldedType, TopType, TypeParts DEF GraphTypes, Triples
    <2> QED
      BY <2>1, <2>3, <2>6, <2>7, TypeParts, TypePartsNext
  <1> QED
    BY <1>1, <1>2

\* The target of a jump.
LEMMA TargetType ==
    ASSUME TypeOK, NEW depth \in Nat, InRange(depth)
    PROVE  Target(depth) \in Targets /\ Target(depth).block \in Nat
           /\ Target(depth).signature \in ResultTypes
PROOF
  <1>1. blockEntries \in Seq(Targets) /\ Len(blockEntries) - depth \in 1 .. Len(blockEntries)
    BY TypeParts DEF InRange, StackTypes
  <1>2. Target(depth) \in Targets
    BY <1>1, ElementOfSeq DEF Target
  <1> QED
    BY <1>2 DEF Targets

\* The value a jump carries to a phi.
LEMMA ValueEdgeType ==
    ASSUME TypeOK, NEW target, target.block \in Nat, NEW slot \in Nat
    PROVE  ValueEdge(target, slot) \in Triples /\ {<<insertBlock, target.block, slot>>} \in Triples
BY TypeParts DEF GraphTypes, ValueEdge, Triples

\* The operands of a jump: the carried value and a condition.
LEMMA OperandsType ==
    ASSUME NEW signature \in ResultTypes
    PROVE  /\ Carried(signature) \o <<"i32">> \in Seq(ValTypes)
           /\ Len(Carried(signature) \o <<"i32">>) = Len(Carried(signature)) + 1
           /\ Len(Carried(signature)) \in Nat
BY CarriedType, ValTypesFacts, ConcatProperties

\* Taking the operands of a jump and skipping what follows it.
LEMMA JumpStackTyped ==
    ASSUME TypeOK, InBody, NEW operands \in Seq(ValTypes), Fits(operands),
           SkipUnreachable(Popped(Len(operands))), blockEntries' = blockEntries,
           uses' = Use(Len(operands))
    PROVE  StackTypes' /\ uses' \in SUBSET (Nat \X Nat)
PROOF
  <1>1. /\ Len(operands) \in Nat /\ Len(operands) <= Len(evalStack) /\ Len(evalStack) \in Nat
        /\ Len(evalStack) >= Top.outerStackSize + Len(operands)
    BY FitsLength, TypeParts DEF StackTypes
  <1>2. Popped(Len(operands)) \in Seq(Operands)
        /\ Len(Popped(Len(operands))) >= Top.outerStackSize
    BY <1>1, PoppedType, TopType
  <1> QED
    BY <1>1, <1>2, SkipType, UseType, TypeParts DEF StackTypes

\* Unreachable keeps the types.
LEMMA UnreachableTyped ==
    ASSUME TypeOK, Unreachable
    PROVE  TypeOK'
PROOF
  <1>1. CASE Stop("invalid")
    BY <1>1, StopTyped DEF Finished
  <1>2. CASE ~Stop("invalid")
    <2>1. /\ Live /\ Len(evalStack) >= Top.outerStackSize
          /\ blocks' = blocks \o <<Void, Void>>
          /\ edges' = edges \cup {<<insertBlock, Len(blocks) + 1, Taken>>,
                                  <<insertBlock, Len(blocks) + 2, NotTaken>>}
          /\ terminated' = terminated \cup {insertBlock, Len(blocks) + 1, Len(blocks) + 2}
          /\ insertBlock' = Len(blocks) + 2
          /\ SkipUnreachable(evalStack)
          /\ UNCHANGED <<blockEntries, incoming, uses, returnType, verifies, status>>
      BY <1>2 DEF Unreachable
    <2>2. InBody /\ evalStack \in Seq(Operands)
      BY <2>1, TypeParts DEF Live, StackTypes
    <2>3. StackTypes'
      BY <2>1, <2>2, SkipType, TypeParts DEF StackTypes
    <2>4. GraphTypes'
      BY <2>1, BlocksTyped, TypeParts DEF GraphTypes, Triples, Taken, NotTaken
    <2> QED
      BY <2>1, <2>3, <2>4, TypeParts, TypePartsNext
  <1> QED
    BY <1>1, <1>2

\* Br keeps the types.
LEMMA BrTyped ==
    ASSUME TypeOK, NEW depth \in Depths, Br(depth)
    PROVE  TypeOK'
PROOF
  <1>1. CASE Stop("invalid")
    BY <1>1, StopTyped DEF Finished
  <1>2. CASE ~Stop("invalid")
    <2> DEFINE target == Target(depth)
               carried == Carried(target.signature)
    <2>1. /\ Live /\ InRange(depth) /\ Fits(carried)
          /\ incoming' = incoming \cup ValueEdge(target, Taken)
          /\ edges' = edges \cup {<<insertBlock, target.block, Taken>>}
          /\ terminated' = terminated \cup {insertBlock}
          /\ uses' = Use(Len(carried))
          /\ SkipUnreachable(Popped(Len(carried)))
          /\ UNCHANGED <<blockEntries, blocks, insertBlock, returnType, verifies, status>>
      BY <1>2 DEF Br
    <2>2. InBody /\ depth \in Nat /\ Taken \in Nat
      BY <2>1, BoundsAssumption DEF Live, Depths, Taken
    <2>3. target.block \in Nat /\ carried \in Seq(ValTypes)
      BY <2>1, <2>2, TargetType, CarriedType
    <2> HIDE DEF target, carried
    <2>4. StackTypes' /\ uses' \in SUBSET (Nat \X Nat)
      BY <2>1, <2>2, <2>3, JumpStackTyped
    <2>5. GraphTypes'
      BY <2>1, <2>2, <2>3, ValueEdgeType, TypeParts DEF GraphTypes, Triples
    <2> QED
      BY <2>1, <2>4, <2>5, TypeParts, TypePartsNext
  <1> QED
    BY <1>1, <1>2

\* BrIf keeps the types.
LEMMA BrIfTyped ==
    ASSUME TypeOK, NEW depth \in Depths, BrIf(depth)
    PROVE  TypeOK'
PROOF
  <1>1. CASE Stop("invalid")
    BY <1>1, StopTyped DEF Finished
  <1>2. CASE ~Stop("invalid")
    <2> DEFINE target == Target(depth)
               operands == Carried(target.signature) \o <<"i32">>
               after == Len(blocks) + 1
    <2>1. /\ Live /\ InRange(depth) /\ Fits(operands)
          /\ blocks' = Append(blocks, Void)
          /\ incoming' = incoming \cup ValueEdge(target, Taken)
          /\ edges' = edges \cup {<<insertBlock, target.block, Taken>>,
                                  <<insertBlock, after, NotTaken>>}
          /\ terminated' = terminated \cup {insertBlock}
          /\ insertBlock' = after
          /\ uses' = Use(Len(operands))
          /\ evalStack' = Popped(1)
          /\ UNCHANGED <<cfEntries, blockEntries, unreachableDepth, returnType, verifies, status>>
      BY <1>2 DEF BrIf
    <2>2. InBody /\ depth \in Nat /\ Taken \in Nat /\ NotTaken \in Nat /\ after \in Nat
      BY <2>1, BoundsAssumption, BlocksTyped DEF Live, Depths, Taken, NotTaken
    <2>3. target.block \in Nat /\ operands \in Seq(ValTypes) /\ Len(operands) >= 1
      BY <2>1, <2>2, TargetType, OperandsType
    <2> HIDE DEF target, operands, after
    <2>4. evalStack' \in Seq(Operands) /\ uses' \in SUBSET (Nat \X Nat)
      <3>1. Len(operands) \in Nat /\ Len(operands) <= Len(evalStack) /\ Len(evalStack) \in Nat
        BY <2>1, <2>2, <2>3, FitsLength, TypeParts DEF StackTypes
      <3> QED
        BY <2>1, <2>3, <3>1, PoppedType, UseType
    <2>5. StackTypes'
      BY <2>1, <2>4, TypeParts DEF StackTypes
    <2>6. GraphTypes'
      <3>1. {<<insertBlock, target.block, Taken>>, <<insertBlock, after, NotTaken>>} \in Triples
        BY <2>2, <2>3, TypeParts DEF GraphTypes, Triples
      <3> QED
        BY <2>1, <2>2, <2>3, <3>1, BlocksTyped, ValTypesFacts, ValueEdgeType, TypeParts
           DEF GraphTypes, Triples
    <2> QED
      BY <2>1, <2>4, <2>5, <2>6, TypeParts, TypePartsNext
  <1> QED
    BY <1>1, <1>2

\* BrTable keeps the types.
LEMMA BrTableTyped ==
    ASSUME TypeOK, NEW n \in 0 .. MaxTargets, NEW depths \in [1 .. n -> Depths],
           NEW default \in Depths, BrTable(depths, default)
    PROVE  TypeOK'
PROOF
  <1>1. CASE Stop("invalid")
    BY <1>1, StopTyped DEF Finished
  <1>2. CASE ~Stop("invalid")
    <2> DEFINE target == Target(default)
               operands == Carried(target.signature) \o <<"i32">>
               cases == UNION {ValueEdge(Target(depths[i]), Case(i)) : i \in DOMAIN depths}
               jumps == {<<insertBlock, Target(depths[i]).block, Case(i)>> : i \in DOMAIN depths}
    <2>1. /\ Live /\ InRange(default) /\ Fits(operands)
          /\ \A i \in DOMAIN depths : InRange(depths[i])
          /\ incoming' = incoming \cup ValueEdge(target, Taken) \cup cases
          /\ edges' = edges \cup {<<insertBlock, target.block, Taken>>} \cup jumps
          /\ terminated' = terminated \cup {insertBlock}
          /\ uses' = Use(Len(operands))
          /\ SkipUnreachable(Popped(Len(operands)))
          /\ UNCHANGED <<blockEntries, blocks, insertBlock, returnType, verifies, status>>
      BY <1>2 DEF BrTable
    <2>2. /\ InBody /\ default \in Nat /\ Taken \in Nat
          /\ \A i \in DOMAIN depths : depths[i] \in Nat /\ Case(i) \in Nat
      BY <2>1, BoundsAssumption DEF Live, Depths, Taken, Case
    <2>3. target.block \in Nat /\ operands \in Seq(ValTypes)
      BY <2>1, <2>2, TargetType, OperandsType
    <2>4. \A i \in DOMAIN depths : Target(depths[i]).block \in Nat
      BY <2>1, <2>2, TargetType
    <2>5. cases \in Triples
      <3>1. \A i \in DOMAIN depths : ValueEdge(Target(depths[i]), Case(i)) \in Triples
        BY <2>2, <2>4, ValueEdgeType
      <3> QED
        BY <3>1 DEF Triples
    <2>6. jumps \in Triples
      BY <2>2, <2>4, TypeParts DEF GraphTypes, Triples
    <2> HIDE DEF target, operands, cases, jumps
    <2>7. StackTypes' /\ uses' \in SUBSET (Nat \X Nat)
      BY <2>1, <2>2, <2>3, JumpStackTyped
    <2>8. GraphTypes'
      BY <2>1, <2>2, <2>3, <2>5, <2>6, ValueEdgeType, TypeParts DEF GraphTypes, Triples
    <2> QED
      BY <2>1, <2>7, <2>8, TypeParts, TypePartsNext
  <1> QED
    BY <1>1, <1>2

\* Return keeps the types.
LEMMA ReturnTyped ==
    ASSUME TypeOK, Return
    PROVE  TypeOK'
PROOF
  <1>1. CASE Stop("invalid")
    BY <1>1, StopTyped DEF Finished
  <1>2. CASE ~Stop("invalid")
    <2> DEFINE carried == Carried(returnType)
               end == cfEntries[1].end
    <2>1. /\ Live /\ Fits(carried)
          /\ incoming' = incoming \cup (IF returnType = Void THEN {}
                                        ELSE {<<insertBlock, end, Taken>>})
          /\ edges' = edges \cup {<<insertBlock, end, Taken>>}
          /\ terminated' = terminated \cup {insertBlock}
          /\ uses' = Use(Len(carried))
          /\ SkipUnreachable(Popped(Len(carried)))
          /\ UNCHANGED <<blockEntries, blocks, insertBlock, returnType, verifies, status>>
      BY <1>2 DEF Return
    <2>2. InBody
      BY <2>1 DEF Live
    <2>3. end \in Nat
      <3>1. cfEntries \in Seq(Entries) /\ 1 \in 1 .. Len(cfEntries)
        BY <2>2, TopType, TypeParts DEF StackTypes
      <3>2. cfEntries[1] \in Entries
        BY <3>1, ElementOfSeq
      <3> QED
        BY <3>2 DEF Entries
    <2>4. carried \in Seq(ValTypes)
      BY CarriedType, TypeParts DEF GraphTypes
    <2> HIDE DEF carried, end
    <2>5. StackTypes' /\ uses' \in SUBSET (Nat \X Nat)
      BY <2>1, <2>2, <2>4, JumpStackTyped
    <2>6. GraphTypes'
      BY <2>1, <2>3, TypeParts DEF GraphTypes, Triples, Taken
    <2> QED
      BY <2>1, <2>5, <2>6, TypeParts, TypePartsNext
  <1> QED
    BY <1>1, <1>2

\* The signature of a call.
LEMMA CalleeType ==
    ASSUME NEW callee \in Callees
    PROVE  callee.params \in Seq(ValTypes) /\ Len(callee.params) \in Nat
           /\ callee.result \in ResultTypes
PROOF
  <1>1. callee \in Signatures
    BY CalleesAssumption
  <1>2. callee.params \in Seq(ValTypes) /\ callee.result \in ResultTypes
    BY <1>1 DEF Signatures
  <1> QED
    BY <1>2, LenProperties

\* Call keeps the types.
LEMMA CallTyped ==
    ASSUME TypeOK, NEW callee \in Callees, Call(callee)
    PROVE  TypeOK'
PROOF
  <1>1. CASE Stop("invalid")
    BY <1>1, StopTyped DEF Finished
  <1>2. CASE ~Stop("invalid")
    <2> DEFINE n == Len(callee.params)
    <2>1. /\ ArgsFit(callee.params, 0)
          /\ uses' = Use(n)
          /\ Replace(n, callee.result, insertBlock)
          /\ UNCHANGED <<cfEntries, blockEntries, unreachableDepth, graph, returnType,
                         verifies, status>>
      BY <1>2 DEF Call
    <2>2. n \in Nat /\ n <= Len(evalStack) /\ insertBlock \in Nat
      <3>1. Len(evalStack) \in Nat /\ n \in Nat
        BY CalleeType, TypeParts DEF StackTypes
      <3> QED
        BY <2>1, <3>1, TypeParts DEF ArgsFit, GraphTypes
    <2>3. evalStack' \in Seq(Operands) /\ uses' \in SUBSET (Nat \X Nat)
      BY <2>1, <2>2, CalleeType, ReplaceType, UseType
    <2>4. StackTypes' /\ GraphTypes'
      BY <2>1, <2>3, TypeParts DEF StackTypes, GraphTypes, graph
    <2> QED
      BY <2>1, <2>3, <2>4, TypeParts, TypePartsNext
  <1> QED
    BY <1>1, <1>2

\* TrapIf keeps the types.
LEMMA TrapIfTyped ==
    ASSUME TypeOK, TrapIf
    PROVE  /\ blocks' \in Seq(ResultTypes) /\ edges' \in Triples
           /\ terminated' \in SUBSET Nat /\ insertBlock' \in Nat
BY BlocksTyped, TypeParts DEF TrapIf, GraphTypes, Triples, Taken, NotTaken

\* CallIndirect keeps the types.
LEMMA CallIndirectTyped ==
    ASSUME TypeOK, NEW callee \in Callees, CallIndirect(callee)
    PROVE  TypeOK'
PROOF
  <1>1. CASE Stop("invalid")
    BY <1>1, StopTyped DEF Finished
  <1>2. CASE ~Stop("invalid")
    <2> DEFINE n == Len(callee.params)
    <2>1. /\ Live /\ Fits(<<"i32">>) /\ ArgsFit(callee.params, 1)
          /\ TrapIf
          /\ uses' = Use(n + 1)
          /\ Replace(n + 1, callee.result, insertBlock')
          /\ UNCHANGED <<cfEntries, blockEntries, unreachableDepth, incoming, returnType,
                         verifies, status>>
      BY <1>2 DEF CallIndirect
    <2>2. n + 1 \in Nat /\ n + 1 <= Len(evalStack)
      <3>1. Len(evalStack) \in Nat /\ n \in Nat
        BY CalleeType, TypeParts DEF StackTypes
      <3> QED
        BY <2>1, <3>1 DEF ArgsFit
    <2>3. insertBlock' \in Nat
      BY <2>1, TrapIfTyped
    <2>4. evalStack' \in Seq(Operands) /\ uses' \in SUBSET (Nat \X Nat)
      <3> HIDE DEF n
      <3> QED
        BY <2>1, <2>2, <2>3, CalleeType, ReplaceType, UseType
    <2>5. StackTypes' /\ GraphTypes'
      BY <2>1, <2>4, TrapIfTyped, TypeParts DEF StackTypes, GraphTypes
    <2> QED
      BY <2>1, <2>4, <2>5, TypeParts, TypePartsNext
  <1> QED
    BY <1>1, <1>2

\* SRemDiamond keeps the types.
LEMMA SRemDiamondTyped ==
    ASSUME TypeOK, NEW type \in ResultTypes, SRemDiamond(type)
    PROVE  /\ blocks' \in Seq(ResultTypes) /\ edges' \in Triples /\ incoming' \in Triples
           /\ terminated' \in SUBSET Nat /\ insertBlock' \in Nat
PROOF
  <1> DEFINE then == Len(blocks) + 1
             skip == Len(blocks) + 2
             rem == Len(blocks) + 3
             end == Len(blocks) + 4
  <1>1. /\ blocks' = blocks \o <<Void, Void, Void, type>>
        /\ edges' = edges \cup {<<insertBlock, then, Taken>>, <<insertBlock, skip, NotTaken>>,
                                <<skip, rem, Taken>>, <<skip, end, NotTaken>>,
                                <<rem, end, Taken>>}
        /\ incoming' = incoming \cup {<<rem, end, Taken>>, <<skip, end, NotTaken>>}
        /\ terminated' = terminated \cup {insertBlock, then, skip, rem}
        /\ insertBlock' = end
    BY DEF SRemDiamond
  <1>2. {then, skip, rem, end, insertBlock, Taken, NotTaken} \subseteq Nat
    BY BlocksTyped, TypeParts DEF GraphTypes, Taken, NotTaken
  <1>3. blocks' \in Seq(ResultTypes)
    BY <1>1, ValTypesFacts, TypeParts DEF GraphTypes
  <1> HIDE DEF then, skip, rem, end
  <1> QED
    BY <1>1, <1>2, <1>3, TypeParts, SMTT(30) DEF GraphTypes, Triples

\* Execute keeps the types.
LEMMA ExecuteTyped ==
    ASSUME TypeOK, NEW op \in Opcodes, Execute(op)
    PROVE  TypeOK'
PROOF
  <1>1. CASE Stop("invalid")
    BY <1>1, StopTyped DEF Finished
  <1>2. CASE ~Stop("invalid")
    <2>1. PICK t \in op.typings :
            /\ Live /\ Pops(t.ins)
            /\ \/ UNCHANGED graph
               \/ TrapIf /\ UNCHANGED incoming
               \/ SRemDiamond(t.out)
            /\ Replace(Len(t.ins), t.out, IF Folded(op, Len(t.ins)) THEN NoBlock ELSE insertBlock')
            /\ uses' = Use(Len(t.ins))
            /\ verifies' = (verifies /\ t.ok)
            /\ UNCHANGED <<cfEntries, blockEntries, unreachableDepth, returnType, status>>
      BY <1>2 DEF Execute
    <2>2. t.ins \in Seq(ValTypes) /\ t.out \in ResultTypes
      <3>1. t \in Typings
        BY OpcodesAreOps DEF Ops
      <3> QED
        BY <3>1 DEF Typings
    <2> DEFINE n == Len(t.ins)
    <2>3. n \in Nat /\ n <= Len(evalStack)
      <3>1. t.ins = <<>> => n = 0
        OBVIOUS
      <3>2. Len(evalStack) \in Nat
        BY DEF TypeOK
      <3> QED
        BY <2>1, <2>2, <3>1, <3>2, FitsLength DEF Live, Pops
    <2>4. /\ blocks' \in Seq(ResultTypes) /\ edges' \in Triples /\ incoming' \in Triples
          /\ terminated' \in SUBSET Nat /\ insertBlock' \in Nat
      <3>1. CASE UNCHANGED graph
        BY <3>1, TypeParts DEF GraphTypes, graph
      <3>2. CASE TrapIf /\ UNCHANGED incoming
        BY <3>2, TrapIfTyped, TypeParts DEF GraphTypes
      <3>3. CASE SRemDiamond(t.out)
        BY <2>2, <3>3, SRemDiamondTyped
      <3> QED
        BY <2>1, <3>1, <3>2, <3>3
    <2>5. evalStack' \in Seq(Operands) /\ uses' \in SUBSET (Nat \X Nat)
      <3>1. (IF Folded(op, n) THEN NoBlock ELSE insertBlock') \in Nat
        BY <2>4 DEF NoBlock
      <3> HIDE DEF n
      <3> QED
        BY <2>1, <2>2, <2>3, <3>1, ReplaceType, UseType DEF n
    <2>6. verifies' \in BOOLEAN
      BY <2>1
    <2>7. StackTypes' /\ GraphTypes'
      BY <2>1, <2>4, <2>5, <2>6, TypeParts DEF StackTypes, GraphTypes
    <2> QED
      BY <2>1, <2>5, <2>7, TypeParts, TypePartsNext
  <1> QED
    BY <1>1, <1>2

\* FinishFunction keeps the types.
LEMMA FinishFunctionTyped ==
    ASSUME TypeOK, FinishFunction
    PROVE  TypeOK'
PROOF
  <1>1. /\ ReturnFits
        /\ status' = "section"
        /\ evalStack' = Popped(Len(Carried(returnType)))
        /\ verifies' = (verifies /\ FunctionVerifies)
        /\ blocks' = <<>> /\ terminated' = {} /\ edges' = {} /\ incoming' = {}
        /\ uses' = {} /\ insertBlock' = NoBlock /\ returnType' = Void
        /\ UNCHANGED <<cfEntries, blockEntries, unreachableDepth>>
    BY DEF FinishFunction
  <1>2. evalStack' \in Seq(Operands)
    <2>1. Len(Carried(returnType)) = IF returnType = Void THEN 0 ELSE 1
      BY CarriedType, TypeParts DEF GraphTypes
    <2>2. returnType # Void => 1 <= Len(evalStack)
      BY <1>1, EmptySeq, TypeParts DEF ReturnFits, StackTypes
    <2>3. Len(evalStack) \in Nat
      BY TypeParts DEF StackTypes
    <2> QED
      BY <1>1, <2>1, <2>2, <2>3, PoppedType
  <1>3. StackTypes'
    BY <1>1, <1>2, TypeParts DEF StackTypes
  <1>4. blocks' \in Seq(ResultTypes) /\ terminated' \in SUBSET Nat /\ insertBlock' \in Nat
    BY <1>1 DEF NoBlock
  <1>5. edges' \in Triples /\ incoming' \in Triples /\ uses' \in SUBSET (Nat \X Nat)
    BY <1>1 DEF Triples
  <1>6. returnType' \in ResultTypes /\ verifies' \in BOOLEAN
    BY <1>1, ValTypesFacts
  <1>7. GraphTypes'
    BY <1>4, <1>5, <1>6 DEF GraphTypes
  <1> QED
    BY <1>1, <1>3, <1>5, <1>7, TypePartsNext DEF Statuses

\* The steps that change at most the count of skipped structures or the status.
LEMMA OtherTyped ==
    ASSUME TypeOK,
           \/ SkipBlock \/ SkipEnd \/ SkipOther
           \/ UndeclaredFunction \/ BadImmediate \/ Malformed \/ BodySizeMismatch \/ FinishModule
    PROVE  TypeOK'
PROOF
  <1>1. CASE SkipBlock \/ SkipEnd
    <2>1. unreachableDepth' \in Nat
      BY <1>1, TypeParts DEF SkipBlock, SkipEnd, StackTypes
    <2> QED
      BY <1>1, <2>1 DEF SkipBlock, SkipEnd, graph, TypeOK
  <1>2. CASE SkipOther
    BY <1>2 DEF SkipOther, vars, TypeOK
  <1>3. CASE UndeclaredFunction \/ BadImmediate \/ Malformed \/ BodySizeMismatch
    BY <1>3, StopTyped DEF UndeclaredFunction, BadImmediate, Malformed, BodySizeMismatch, Finished
  <1>4. CASE FinishModule
    BY <1>4 DEF FinishModule, stacks, graph, TypeOK, Statuses, Finished
  <1> QED
    BY <1>1, <1>2, <1>3, <1>4

-----------------------------------------------------------------------------
(* The stacks of control entries and of branch targets.                    *)

\* Between two functions, and once the module is read, no structure is open.
Idle == status # "body" => cfEntries = <<>>

\* The outermost structure is the function.
Outermost ==
    cfEntries # <<>> =>
        /\ cfEntries[1].outerStackSize = 0
        /\ cfEntries[1].signature = returnType
        /\ cfEntries[1].end = FuncEnd

\* Only an if waits for an else.
ElseOfIf == \A i \in DOMAIN cfEntries : cfEntries[i].else # NoBlock => cfEntries[i].instr = "if"

\* The strengthening that makes the invariants of the stacks inductive.
StacksInv ==
    /\ FramesAligned /\ OnlyTopSkipped
    /\ Idle /\ Outermost /\ ElseOfIf
    /\ FunctionEndsClean

IInv == TypeOK /\ StacksInv

\* The lengths of the stacks.
LEMMA StackLengths ==
    ASSUME IInv
    PROVE  /\ cfEntries \in Seq(Entries) /\ blockEntries \in Seq(Targets)
           /\ Len(cfEntries) \in Nat /\ Len(blockEntries) = Len(cfEntries)
           /\ DOMAIN cfEntries = 1 .. Len(cfEntries)
           /\ cfEntries = <<>> <=> Len(cfEntries) = 0
           /\ unreachableDepth \in Nat
BY TypeParts DEF IInv, StacksInv, FramesAligned, StackTypes

\* Stopping keeps the stacks.
LEMMA StopStacks ==
    ASSUME NEW outcome \in Finished, Stop(outcome)
    PROVE  StacksInv'
PROOF
  <1>1. /\ status' \in Finished /\ status' \notin {"section", "body"}
        /\ evalStack' = <<>> /\ cfEntries' = <<>> /\ blockEntries' = <<>> /\ unreachableDepth' = 0
    BY DEF Stop, Finished
  <1>2. FramesAligned' /\ OnlyTopSkipped' /\ ElseOfIf'
    BY <1>1 DEF FramesAligned, OnlyTopSkipped, ElseOfIf
  <1>3. Idle' /\ Outermost' /\ FunctionEndsClean'
    BY <1>1 DEF Idle, Outermost, FunctionEndsClean
  <1> QED
    BY <1>2, <1>3 DEF StacksInv

\* Steps that leave the open structures alone.
LEMMA KeptStacks ==
    ASSUME IInv, InBody,
           UNCHANGED <<cfEntries, blockEntries, unreachableDepth, returnType, status>>
    PROVE  StacksInv'
BY DEF IInv, StacksInv, InBody, FramesAligned, OnlyTopSkipped, Idle, Outermost, ElseOfIf,
       FunctionEndsClean, Skipping, Top

\* Steps that only change what the innermost structure is: a jump makes it
\* unreachable, an else reachable again.
LEMMA TopStacks ==
    ASSUME IInv, InBody, NEW top \in Entries,
           cfEntries' = [cfEntries EXCEPT ![Len(cfEntries)] = top],
           top.signature = Top.signature, top.end = Top.end,
           top.outerStackSize = Top.outerStackSize, top.outerBlockDepth = Top.outerBlockDepth,
           top.instr = "loop" <=> Top.instr = "loop",
           top.instr = "function" <=> Top.instr = "function",
           top.else # NoBlock => top.instr = "if",
           UNCHANGED <<blockEntries, returnType, status>>,
           unreachableDepth' = 0
    PROVE  StacksInv'
PROOF
  <1>1. Len(cfEntries) \in Nat \ {0} /\ Len(cfEntries) \in 1 .. Len(cfEntries)
    BY TopType DEF IInv
  <1>2. /\ Len(cfEntries') = Len(cfEntries) /\ DOMAIN cfEntries' = DOMAIN cfEntries
        /\ \A i \in DOMAIN cfEntries :
             cfEntries'[i] = IF i = Len(cfEntries) THEN top ELSE cfEntries[i]
        /\ cfEntries' # <<>>
    BY <1>1, StackLengths
  <1>3. FramesAligned'
    BY <1>1, <1>2, StackLengths DEF IInv, StacksInv, FramesAligned, Top
  <1>4. OnlyTopSkipped'
    BY <1>2, StackLengths DEF IInv, StacksInv, OnlyTopSkipped
  <1>5. Outermost'
    BY <1>1, <1>2, StackLengths DEF IInv, StacksInv, Outermost, Top, InBody
  <1>6. Idle' /\ FunctionEndsClean'
    BY <1>2 DEF InBody, Idle, FunctionEndsClean
  <1>7. ElseOfIf'
    BY <1>2 DEF IInv, StacksInv, ElseOfIf
  <1> QED
    BY <1>3, <1>4, <1>5, <1>6, <1>7 DEF StacksInv

\* Skip keeps the stacks.
LEMMA SkipStacks ==
    ASSUME IInv, InBody, NEW stack, SkipUnreachable(stack),
           UNCHANGED <<blockEntries, returnType, status>>
    PROVE  StacksInv'
PROOF
  <1> DEFINE top == [Top EXCEPT !.reachable = FALSE]
  <1>1. Top \in Entries
    BY TopType DEF IInv
  <1>2. top \in Entries
    BY <1>1 DEF Entries
  <1>3. cfEntries' = [cfEntries EXCEPT ![Len(cfEntries)] = top]
    BY TopType, StackLengths DEF SkipUnreachable, Top, IInv
  <1>4. /\ top.signature = Top.signature /\ top.end = Top.end
        /\ top.outerStackSize = Top.outerStackSize /\ top.outerBlockDepth = Top.outerBlockDepth
        /\ top.instr = Top.instr /\ top.else = Top.else
    BY <1>1 DEF Entries
  <1>5. Top.else # NoBlock => Top.instr = "if"
    BY StackLengths, TopType DEF IInv, StacksInv, ElseOfIf, Top
  <1> HIDE DEF top
  <1> QED
    BY <1>2, <1>3, <1>4, <1>5, TopStacks DEF SkipUnreachable

\* A structure opens inside reachable code, with its branch target.
LEMMA PushStacks ==
    ASSUME IInv, Live, NEW instr \in Kinds \ {"function"}, NEW signature \in ResultTypes,
           NEW end \in Nat, NEW else \in Nat, NEW stack \in Seq(Operands),
           NEW label \in ResultTypes, NEW block \in Nat,
           PushCFEntry(instr, signature, end, else, stack),
           PushBlockEntry(label, block),
           instr = "loop" => label = Void,
           instr # "loop" => label = signature /\ block = end,
           else # NoBlock => instr = "if",
           UNCHANGED <<unreachableDepth, returnType, status>>
    PROVE  StacksInv'
PROOF
  <1> DEFINE entry == [instr |-> instr, signature |-> signature, end |-> end, else |-> else,
                       outerStackSize |-> Len(stack), outerBlockDepth |-> Len(blockEntries),
                       reachable |-> TRUE]
             target == [signature |-> label, block |-> block]
             n == Len(cfEntries)
  <1>1. InBody /\ n \in Nat \ {0}
    BY TopType DEF Live, IInv
  <1>2. entry \in Entries /\ target \in Targets
    BY StackLengths, TypeParts DEF IInv, StackTypes, Entries, Targets
  <1>3. /\ Len(cfEntries') = n + 1 /\ DOMAIN cfEntries' = 1 .. n + 1
        /\ cfEntries'[n + 1] = entry
        /\ \A i \in 1 .. n : cfEntries'[i] = cfEntries[i]
    <2>1. cfEntries' = Append(cfEntries, entry)
      BY DEF PushCFEntry
    <2> QED
      BY <1>2, <2>1, StackLengths, AppendProperties
  <1>4. /\ Len(blockEntries') = n + 1
        /\ blockEntries'[n + 1] = target
        /\ \A i \in 1 .. n : blockEntries'[i] = blockEntries[i]
    <2>1. blockEntries' = Append(blockEntries, target)
      BY DEF PushBlockEntry
    <2> QED
      BY <1>2, <2>1, StackLengths, AppendProperties
  <1>5. FramesAligned'
    <2> SUFFICES ASSUME NEW i \in 1 .. n + 1
                 PROVE  /\ cfEntries'[i].outerBlockDepth = i - 1
                        /\ cfEntries'[i].instr # "loop" =>
                             blockEntries'[i] = [signature |-> cfEntries'[i].signature,
                                                 block |-> cfEntries'[i].end]
                        /\ cfEntries'[i].instr = "loop" => blockEntries'[i].signature = Void
                        /\ cfEntries'[i].instr = "function" <=> i = 1
      BY <1>3, <1>4 DEF FramesAligned
    <2>1. CASE i = n + 1
      BY <1>1, <1>3, <1>4, <2>1, StackLengths
    <2>2. CASE i \in 1 .. n
      BY <1>1, <1>3, <1>4, <2>2, StackLengths, ZenonT(60) DEF IInv, StacksInv, FramesAligned
    <2> QED
      BY <1>1, <2>1, <2>2
  <1>6. OnlyTopSkipped'
    <2>1. \A i \in 1 .. n : cfEntries[i].reachable
      BY <1>1, StackLengths DEF IInv, StacksInv, OnlyTopSkipped, Live, Top
    <2>2. unreachableDepth = 0
      BY StackLengths DEF IInv, StacksInv, OnlyTopSkipped, Live, Skipping
    <2> QED
      BY <1>1, <1>3, <2>1, <2>2 DEF OnlyTopSkipped
  <1>7. cfEntries' # <<>> /\ cfEntries'[1] = cfEntries[1] /\ cfEntries # <<>>
    BY <1>1, <1>3, StackLengths
  <1>8. Idle' /\ Outermost' /\ FunctionEndsClean'
    BY <1>1, <1>7 DEF IInv, StacksInv, InBody, Idle, Outermost, FunctionEndsClean
  <1>9. ElseOfIf'
    BY <1>1, <1>3, StackLengths, SMTT(30) DEF IInv, StacksInv, ElseOfIf
  <1> QED
    BY <1>5, <1>6, <1>8, <1>9 DEF StacksInv

\* StartFunction keeps the stacks.
LEMMA StartFunctionStacks ==
    ASSUME IInv, NEW result \in BodyResults, StartFunction(result)
    PROVE  StacksInv'
PROOF
  <1> DEFINE entry == [instr |-> "function", signature |-> result, end |-> FuncEnd,
                       else |-> NoBlock, outerStackSize |-> Len(evalStack),
                       outerBlockDepth |-> Len(blockEntries), reachable |-> TRUE]
             target == [signature |-> result, block |-> FuncEnd]
  <1>1. /\ status = "section" /\ cfEntries = <<>> /\ blockEntries = <<>>
        /\ Len(blockEntries) = 0 /\ Len(evalStack) = 0 /\ unreachableDepth = 0
    BY StackLengths DEF StartFunction, IInv, StacksInv, Idle, FunctionEndsClean
  <1>2. cfEntries' = <<entry>> /\ blockEntries' = <<target>>
    BY <1>1 DEF StartFunction, PushCFEntry, PushBlockEntry
  <1>3. FramesAligned'
    BY <1>1, <1>2 DEF FramesAligned
  <1>4. OnlyTopSkipped'
    BY <1>1, <1>2 DEF StartFunction, OnlyTopSkipped
  <1>5. Idle' /\ Outermost' /\ FunctionEndsClean' /\ ElseOfIf'
    BY <1>1, <1>2 DEF StartFunction, Idle, Outermost, FunctionEndsClean, ElseOfIf
  <1> QED
    BY <1>3, <1>4, <1>5 DEF StacksInv

\* Open keeps the stacks.
LEMMA OpenStacks ==
    ASSUME IInv, NEW signature \in BlockTypes,
           Block(signature) \/ Loop(signature) \/ If(signature)
    PROVE  StacksInv'
PROOF
  <1>1. /\ signature \in ResultTypes /\ Void \in ResultTypes
        /\ evalStack \in Seq(Operands) /\ Len(blocks) \in Nat
        /\ NoBlock \in Nat
    BY ResultsAssumption, TypeParts, ValTypesFacts DEF IInv, StackTypes, GraphTypes, NoBlock
  <1>2. CASE Block(signature)
    <2>1. "block" \in Kinds \ {"function"}
      BY DEF Kinds
    <2>2. /\ Live /\ PushCFEntry("block", signature, Len(blocks) + 1, NoBlock, evalStack)
          /\ PushBlockEntry(signature, Len(blocks) + 1)
          /\ UNCHANGED <<unreachableDepth, returnType, status>>
      BY <1>2 DEF Block
    <2> QED
      BY <1>1, <2>1, <2>2, PushStacks
  <1>3. CASE Loop(signature)
    <2>1. "loop" \in Kinds \ {"function"}
      BY DEF Kinds
    <2>2. /\ Live /\ PushCFEntry("loop", signature, Len(blocks) + 2, NoBlock, evalStack)
          /\ PushBlockEntry(Void, Len(blocks) + 1)
          /\ UNCHANGED <<unreachableDepth, returnType, status>>
      BY <1>3 DEF Loop
    <2> QED
      BY <1>1, <2>1, <2>2, PushStacks
  <1>4. CASE If(signature) /\ ~Stop("invalid")
    <2>1. "if" \in Kinds \ {"function"}
      BY DEF Kinds
    <2>2. /\ Live /\ Fits(<<"i32">>) /\ evalStack' = Popped(1)
          /\ PushCFEntry("if", signature, Len(blocks) + 3, Len(blocks) + 2, evalStack')
          /\ PushBlockEntry(signature, Len(blocks) + 3)
          /\ UNCHANGED <<unreachableDepth, returnType, status>>
      BY <1>4 DEF If
    <2>3. evalStack' \in Seq(Operands)
      BY <1>4, IfTyped, TypePartsNext DEF IInv, StackTypes
    <2> QED
      BY <1>1, <2>1, <2>2, <2>3, PushStacks
  <1>5. CASE Stop("invalid")
    BY <1>5, StopStacks DEF Finished
  <1> QED
    BY <1>2, <1>3, <1>4, <1>5

\* Else keeps the stacks.
LEMMA ElseStacks ==
    ASSUME IInv, Else
    PROVE  StacksInv'
PROOF
  <1>1. CASE Stop("invalid") \/ Stop("aborted")
    BY <1>1, StopStacks DEF Finished
  <1>2. CASE ~Stop("invalid") /\ ~Stop("aborted")
    <2> DEFINE top == [Top EXCEPT !.instr = "else", !.reachable = TRUE, !.else = NoBlock]
    <2>1. /\ AtJoin /\ Top.else # NoBlock
          /\ cfEntries' = [cfEntries EXCEPT ![Len(cfEntries)] =
                             [@ EXCEPT !.instr = "else", !.reachable = TRUE, !.else = NoBlock]]
          /\ UNCHANGED <<blockEntries, unreachableDepth, returnType, status>>
      BY <1>2 DEF Else
    <2>2. InBody /\ Top \in Entries
      BY <2>1, TopType DEF AtJoin, IInv
    <2>3. unreachableDepth = 0
      BY <2>1, <2>2, StackLengths DEF AtJoin, IInv, StacksInv, OnlyTopSkipped, Skipping
    <2>4. cfEntries' = [cfEntries EXCEPT ![Len(cfEntries)] = top]
      BY <2>1, <2>2, StackLengths, TopType DEF Top, IInv
    <2>5. top \in Entries
      BY <2>2 DEF Entries, Kinds, NoBlock
    <2>6. Top.instr = "if"
      BY <2>1, <2>2, StackLengths, TopType DEF IInv, StacksInv, ElseOfIf, Top
    <2>7. /\ top.signature = Top.signature /\ top.end = Top.end
          /\ top.outerStackSize = Top.outerStackSize
          /\ top.outerBlockDepth = Top.outerBlockDepth
          /\ top.instr = "else" /\ top.else = NoBlock
      BY <2>2 DEF Entries
    <2> HIDE DEF top
    <2> QED
      BY <2>1, <2>2, <2>3, <2>4, <2>5, <2>6, <2>7, TopStacks
  <1> QED
    BY <1>1, <1>2

\* The operand stack the end of the function leaves: its result.
LEMMA ResultStack ==
    ASSUME TypeOK, InBody, FrameCloses, Top.outerStackSize = 0, NEW values,
           evalStack' = Popped(Len(Yielded)) \o Result(values)
    PROVE  /\ Len(evalStack') = Len(Carried(Top.signature))
           /\ \A i \in DOMAIN evalStack' : evalStack'[i].type = Top.signature
PROOF
  <1>1. Popped(Len(Yielded)) = <<>>
    <2>1. Len(Yielded) \in Nat /\ Len(Yielded) = Len(evalStack)
      BY YieldedType, TypeParts DEF StackTypes
    <2> QED
      BY <2>1, PoppedType, EmptySeq
  <1> DEFINE result == Value(Top.signature, IF HasIncoming(values) THEN Top.end ELSE NoBlock)
  <1>2. CASE Top.signature = Void
    <2>1. Result(values) = <<>> /\ Carried(Top.signature) = <<>>
      BY <1>2 DEF Result, Carried
    <2> QED
      BY <1>1, <2>1
  <1>3. CASE Top.signature # Void
    <2>1. Result(values) = <<result>> /\ Carried(Top.signature) = <<Top.signature>>
      BY <1>3 DEF Result, Carried
    <2>2. result.type = Top.signature
      BY DEF Value
    <2> HIDE DEF result
    <2>3. evalStack' = <<result>>
      BY <1>1, <2>1
    <2>4. Len(evalStack') = 1 /\ DOMAIN evalStack' = 1 .. 1 /\ evalStack'[1] = result
      BY <2>3
    <2>5. Len(Carried(Top.signature)) = 1
      BY <2>1
    <2> QED
      BY <2>2, <2>4, <2>5
  <1> QED
    BY <1>2, <1>3

\* End keeps the stacks.
LEMMA EndStacks ==
    ASSUME IInv, End
    PROVE  StacksInv'
PROOF
  <1>1. CASE Stop("invalid")
    BY <1>1, StopStacks DEF Finished
  <1>2. CASE ~Stop("invalid")
    <2> DEFINE n == Len(cfEntries)
    <2>1. /\ AtJoin /\ FrameCloses
          /\ evalStack' = Popped(Len(Yielded)) \o Result(incoming')
          /\ insertBlock' = Top.end
          /\ blockEntries' = SubSeq(blockEntries, 1, Top.outerBlockDepth)
          /\ cfEntries' = SubSeq(cfEntries, 1, n - 1)
          /\ UNCHANGED <<unreachableDepth, returnType, status>>
      BY <1>2 DEF End
    <2>2. InBody /\ n \in Nat \ {0} /\ TypeOK
      BY <2>1, TopType DEF AtJoin, IInv
    <2>3. Top.outerBlockDepth = n - 1
      <3>1. n \in DOMAIN cfEntries
        BY <2>2, StackLengths
      <3> QED
        BY <3>1 DEF IInv, StacksInv, FramesAligned, Top
    <2>4. /\ Len(cfEntries') = n - 1 /\ DOMAIN cfEntries' = 1 .. n - 1
          /\ \A i \in 1 .. n - 1 : cfEntries'[i] = cfEntries[i]
      BY <2>1, <2>2, StackLengths
    <2>5. /\ Len(blockEntries') = n - 1
          /\ \A i \in 1 .. n - 1 : blockEntries'[i] = blockEntries[i]
      BY <2>1, <2>2, <2>3, StackLengths
    <2>6. FramesAligned'
      BY <2>2, <2>4, <2>5, StackLengths DEF IInv, StacksInv, FramesAligned
    <2>7. unreachableDepth = 0
      BY <2>1, StackLengths DEF AtJoin, IInv, StacksInv, OnlyTopSkipped, Skipping
    <2>8. OnlyTopSkipped'
      BY <2>1, <2>2, <2>4, <2>7, StackLengths DEF IInv, StacksInv, OnlyTopSkipped
    <2>9. Idle' /\ ElseOfIf'
      BY <2>1, <2>2, <2>4, StackLengths DEF IInv, StacksInv, Idle, ElseOfIf, InBody
    <2>10. cfEntries' # <<>> => n > 1
      BY <2>1, <2>2, <2>4
    <2>11. Outermost'
      <3> SUFFICES ASSUME cfEntries' # <<>>
                   PROVE  /\ cfEntries'[1].outerStackSize = 0
                          /\ cfEntries'[1].signature = returnType
                          /\ cfEntries'[1].end = FuncEnd
        BY <2>1 DEF Outermost
      <3>1. cfEntries'[1] = cfEntries[1] /\ cfEntries # <<>>
        BY <2>2, <2>4, <2>10, StackLengths
      <3> QED
        BY <3>1 DEF IInv, StacksInv, Outermost
    <2>12. FunctionEndsClean'
      <3> SUFFICES ASSUME cfEntries' = <<>> PROVE FunctionEndsClean'
        BY DEF FunctionEndsClean
      <3>1. n = 1 /\ Top = cfEntries[1] /\ cfEntries # <<>>
        <4>1. Len(cfEntries') = 0
          OBVIOUS
        <4>2. n = 1
          BY <2>2, <2>4, <4>1
        <4> QED
          BY <2>2, <4>2 DEF Top, InBody
      <3>2. Top.outerStackSize = 0 /\ Top.signature = returnType /\ Top.end = FuncEnd
        BY <3>1 DEF IInv, StacksInv, Outermost
      <3>3. /\ Len(evalStack') = Len(Carried(returnType))
            /\ \A i \in DOMAIN evalStack' : evalStack'[i].type = returnType
        BY <2>1, <2>2, <3>2, ResultStack
      <3>4. blockEntries' = <<>>
        <4>1. blockEntries' \in Seq(Targets)
          BY <2>2, EndTyped, TypePartsNext DEF IInv, StacksInv, StackTypes
        <4> QED
          BY <2>5, <3>1, <4>1, EmptySeq
      <3> QED
        BY <2>1, <2>2, <2>7, <3>2, <3>3, <3>4 DEF FunctionEndsClean, InBody
    <2> QED
      BY <2>6, <2>8, <2>9, <2>11, <2>12 DEF StacksInv
  <1> QED
    BY <1>1, <1>2

\* FinishFunction keeps the stacks.
LEMMA FinishFunctionStacks ==
    ASSUME IInv, FinishFunction
    PROVE  StacksInv'
PROOF
  <1>1. /\ status = "body" /\ cfEntries = <<>>
        /\ status' = "section"
        /\ evalStack' = Popped(Len(Carried(returnType)))
        /\ returnType' = Void
        /\ UNCHANGED <<cfEntries, blockEntries, unreachableDepth>>
    BY DEF FinishFunction
  <1>2. evalStack' = <<>>
    <2>1. /\ Len(evalStack) = Len(Carried(returnType)) /\ Len(evalStack) \in Nat
          /\ TypeOK
      BY <1>1, TypeParts DEF IInv, StacksInv, FunctionEndsClean, StackTypes
    <2> QED
      BY <1>1, <2>1, PoppedType, EmptySeq
  <1>3. Len(evalStack') = 0 /\ DOMAIN evalStack' = {}
    BY <1>2
  <1>4. FramesAligned' /\ OnlyTopSkipped' /\ ElseOfIf'
    BY <1>1, StackLengths DEF IInv, StacksInv, FramesAligned, OnlyTopSkipped, ElseOfIf, Skipping, InBody
  <1>5. Idle' /\ Outermost' /\ FunctionEndsClean'
    BY <1>1, <1>3 DEF IInv, StacksInv, Idle, Outermost, FunctionEndsClean
  <1> QED
    BY <1>4, <1>5 DEF StacksInv

-----------------------------------------------------------------------------
(* Every step preserves IInv.                                              *)

\* The invariant holds of the initial states.
LEMMA InitIInv == Init => IInv
PROOF
  <1> SUFFICES ASSUME Init PROVE IInv
    OBVIOUS
  <1> USE DEF Init
  <1>1. TypeOK
    BY ValTypesFacts DEF TypeOK, Statuses, NoBlock, ResultTypes
  <1>2. FramesAligned /\ OnlyTopSkipped /\ ElseOfIf
    BY DEF FramesAligned, OnlyTopSkipped, ElseOfIf
  <1>3. Idle /\ Outermost /\ FunctionEndsClean
    BY DEF Idle, Outermost, FunctionEndsClean
  <1> QED
    BY <1>1, <1>2, <1>3 DEF IInv, StacksInv

\* Stopping keeps the invariant.
LEMMA StopIInv ==
    ASSUME IInv, NEW outcome \in Finished, Stop(outcome)
    PROVE  IInv'
BY StopTyped, StopStacks DEF IInv

\* The outcomes a module can stop with.
LEMMA Outcomes == "invalid" \in Finished /\ "malformed" \in Finished /\ "aborted" \in Finished
BY DEF Finished

\* So does a skipped instruction.
LEMMA SkippedIInv ==
    ASSUME IInv, SkipBlock \/ SkipEnd
    PROVE  StacksInv'
PROOF
  <1>1. /\ Skipping /\ InBody
        /\ UNCHANGED <<cfEntries, blockEntries, evalStack, returnType, status>>
    BY DEF SkipBlock, SkipEnd, Skipping
  <1>2. OnlyTopSkipped'
    BY <1>1 DEF IInv, StacksInv, OnlyTopSkipped, Skipping, InBody, Top
  <1>3. FramesAligned' /\ ElseOfIf'
    BY <1>1 DEF IInv, StacksInv, FramesAligned, ElseOfIf
  <1>4. Idle' /\ Outermost' /\ FunctionEndsClean'
    BY <1>1 DEF IInv, StacksInv, Idle, Outermost, FunctionEndsClean, InBody
  <1> QED
    BY <1>2, <1>3, <1>4 DEF StacksInv

\* FinishModule keeps the stacks.
LEMMA FinishModuleStacks ==
    ASSUME IInv, FinishModule
    PROVE  StacksInv'
PROOF
  <1>1. /\ status = "section" /\ status' \in {"accepted", "invalid"}
        /\ cfEntries = <<>> /\ unreachableDepth = 0
        /\ UNCHANGED <<cfEntries, blockEntries, evalStack, unreachableDepth, returnType>>
    BY DEF FinishModule, IInv, StacksInv, Idle, FunctionEndsClean, stacks
  <1>2. FramesAligned' /\ ElseOfIf'
    BY <1>1 DEF IInv, StacksInv, FramesAligned, ElseOfIf
  <1>3. OnlyTopSkipped'
    BY <1>1 DEF IInv, StacksInv, OnlyTopSkipped
  <1>4. Idle' /\ Outermost' /\ FunctionEndsClean'
    BY <1>1 DEF IInv, StacksInv, Idle, Outermost, FunctionEndsClean
  <1> QED
    BY <1>2, <1>3, <1>4 DEF StacksInv

\* Jump keeps the stacks.
LEMMA JumpStacks ==
    ASSUME IInv, JumpStep, \A outcome \in Finished : ~Stop(outcome)
    PROVE  StacksInv'
PROOF
  <1>1. CASE Unreachable
    <2>1. InBody /\ SkipUnreachable(evalStack) /\ UNCHANGED <<blockEntries, returnType, status>>
      BY <1>1, Outcomes DEF Unreachable, Live
    <2> QED
      BY <2>1, SkipStacks
  <1>2. ASSUME NEW depth \in Depths, Br(depth) PROVE StacksInv'
    <2>1. /\ InBody /\ SkipUnreachable(Popped(Len(Carried(Target(depth).signature))))
          /\ UNCHANGED <<blockEntries, returnType, status>>
      BY <1>2, Outcomes DEF Br, Live
    <2> QED
      BY <2>1, SkipStacks
  <1>3. ASSUME NEW depth \in Depths, BrIf(depth) PROVE StacksInv'
    <2>1. InBody /\ UNCHANGED <<cfEntries, blockEntries, unreachableDepth, returnType, status>>
      BY <1>3, Outcomes DEF BrIf, Live
    <2> QED
      BY <2>1, KeptStacks
  <1>4. ASSUME NEW n \in 0 .. MaxTargets, NEW depths \in [1 .. n -> Depths],
               NEW default \in Depths, BrTable(depths, default)
        PROVE  StacksInv'
    <2> DEFINE operands == Carried(Target(default).signature) \o <<"i32">>
    <2>1. /\ InBody /\ SkipUnreachable(Popped(Len(operands)))
          /\ UNCHANGED <<blockEntries, returnType, status>>
      BY <1>4, Outcomes DEF BrTable, Live
    <2> QED
      BY <2>1, SkipStacks
  <1>5. CASE Return
    <2>1. /\ InBody /\ SkipUnreachable(Popped(Len(Carried(returnType))))
          /\ UNCHANGED <<blockEntries, returnType, status>>
      BY <1>5, Outcomes DEF Return, Live
    <2> QED
      BY <2>1, SkipStacks
  <1> QED
    BY <1>1, <1>2, <1>3, <1>4, <1>5 DEF JumpStep

\* Straight keeps the stacks.
LEMMA StraightStacks ==
    ASSUME IInv, StraightStep, \A outcome \in Finished : ~Stop(outcome)
    PROVE  StacksInv'
PROOF
  <1>1. InBody /\ UNCHANGED <<cfEntries, blockEntries, unreachableDepth, returnType, status>>
    <2>1. ASSUME NEW callee \in Callees, Call(callee)
          PROVE  InBody /\ UNCHANGED <<cfEntries, blockEntries, unreachableDepth, returnType, status>>
      BY <2>1, Outcomes DEF Call, Live
    <2>2. ASSUME NEW callee \in Callees, CallIndirect(callee)
          PROVE  InBody /\ UNCHANGED <<cfEntries, blockEntries, unreachableDepth, returnType, status>>
      BY <2>2, Outcomes DEF CallIndirect, Live
    <2>3. ASSUME NEW op \in Opcodes, Execute(op)
          PROVE  InBody /\ UNCHANGED <<cfEntries, blockEntries, unreachableDepth, returnType, status>>
      BY <2>3, Outcomes DEF Execute, Live
    <2> QED
      BY <2>1, <2>2, <2>3 DEF StraightStep
  <1> QED
    BY <1>1, KeptStacks

\* Every instruction, accepted, refused or skipped, keeps IInv.
LEMMA StepIInv == IInv /\ [Next]_vars => IInv'
PROOF
  <1> SUFFICES ASSUME IInv, [Next]_vars PROVE IInv'
    OBVIOUS
  <1> TypeOK
    BY DEF IInv
  <1>1. CASE UNCHANGED vars
    BY <1>1 DEF vars, IInv, TypeOK, StacksInv, FramesAligned, OnlyTopSkipped, Idle, Outermost,
                ElseOfIf, FunctionEndsClean, Skipping, InBody, Top
  <1>2. CASE \E outcome \in Finished : Stop(outcome)
    BY <1>2, StopIInv
  <1>3. ASSUME NEW result \in BodyResults, StartFunction(result) PROVE IInv'
    BY <1>3, StartFunctionTyped, StartFunctionStacks DEF IInv
  <1>4. ASSUME NEW signature \in BlockTypes,
               Block(signature) \/ Loop(signature) \/ If(signature)
        PROVE  IInv'
    BY <1>4, BlockTyped, LoopTyped, IfTyped, OpenStacks DEF IInv
  <1>5. CASE Else
    BY <1>5, ElseTyped, ElseStacks DEF IInv
  <1>6. CASE End
    <2>1. FramesAligned
      BY DEF IInv, StacksInv
    <2> QED
      BY <1>6, <2>1, EndTyped, EndStacks DEF IInv
  <1>7. CASE SkipBlock \/ SkipEnd
    BY <1>7, OtherTyped, SkippedIInv DEF IInv
  <1>8. CASE SkipOther
    BY <1>1, <1>8 DEF SkipOther
  <1>9. ASSUME JumpStep, \A outcome \in Finished : ~Stop(outcome) PROVE IInv'
    <2>1. TypeOK'
      BY <1>9, UnreachableTyped, BrTyped, BrIfTyped, BrTableTyped, ReturnTyped DEF JumpStep
    <2> QED
      BY <1>9, <2>1, JumpStacks DEF IInv
  <1>10. ASSUME StraightStep, \A outcome \in Finished : ~Stop(outcome) PROVE IInv'
    <2>1. TypeOK'
      BY <1>10, CallTyped, CallIndirectTyped, ExecuteTyped DEF StraightStep
    <2> QED
      BY <1>10, <2>1, StraightStacks DEF IInv
  <1>11. CASE FinishFunction
    BY <1>11, FinishFunctionTyped, FinishFunctionStacks DEF IInv
  <1>12. CASE FinishModule
    BY <1>12, OtherTyped, FinishModuleStacks DEF IInv
  <1>13. CASE UndeclaredFunction \/ BadImmediate \/ Malformed \/ BodySizeMismatch
    BY <1>2, <1>13, Outcomes DEF UndeclaredFunction, BadImmediate, Malformed, BodySizeMismatch
  <1>14. CASE ControlStep
    BY <1>3, <1>4, <1>5, <1>6, <1>7, <1>8, <1>14 DEF ControlStep
  <1>15. CASE OutcomeStep
    BY <1>11, <1>12, <1>13, <1>15 DEF OutcomeStep
  <1> QED
    BY <1>1, <1>2, <1>9, <1>10, <1>14, <1>15 DEF Next

\* IInv is inductive: from the empty module on, every instruction, accepted,
\* refused or skipped, keeps the types and the alignment of the stacks.
THEOREM Invariance == Spec => []IInv
PROOF
  <1> QED
    BY InitIInv, StepIInv, PTL DEF Spec

\* Every variable of the translator keeps its type.
THEOREM Typed == Spec => []TypeOK
PROOF
  <1>1. IInv => TypeOK
    BY DEF IInv
  <1> QED
    BY <1>1, Invariance, PTL

\* The depth of a branch always names the structure it counts to.
THEOREM FramesAreAligned == Spec => []FramesAligned
PROOF
  <1>1. IInv => FramesAligned
    BY DEF IInv, StacksInv
  <1> QED
    BY <1>1, Invariance, PTL

\* The count of skipped structures belongs to the innermost open one.
THEOREM OnlyTopIsSkipped == Spec => []OnlyTopSkipped
PROOF
  <1>1. IInv => OnlyTopSkipped
    BY DEF IInv, StacksInv
  <1> QED
    BY <1>1, Invariance, PTL

\* A body ends with its result on the operand stack and in the final block.
THEOREM FunctionsEndClean == Spec => []FunctionEndsClean
PROOF
  <1>1. IInv => FunctionEndsClean
    BY DEF IInv, StacksInv
  <1> QED
    BY <1>1, Invariance, PTL

-----------------------------------------------------------------------------
(* The blocks that wait for their terminator.                              *)

Ends == {cfEntries[i].end : i \in DOMAIN cfEntries}
Elses == {cfEntries[i].else : i \in DOMAIN cfEntries} \ {NoBlock}
Current == IF cfEntries = <<>> \/ Top.reachable THEN {insertBlock} ELSE {}

\* No two structures wait in the same block.
Distinct ==
    \A i, j \in DOMAIN cfEntries :
        /\ cfEntries[i].end # cfEntries[j].else
        /\ i # j => cfEntries[i].end # cfEntries[j].end
        /\ i # j /\ cfEntries[i].else # NoBlock => cfEntries[i].else # cfEntries[j].else

Open ==
    /\ terminated \subseteq DOMAIN blocks
    /\ DOMAIN blocks \ terminated = Ends \cup Elses \cup Current
    /\ Current \cap (Ends \cup Elses) = {}
    /\ Distinct
OpenInv == status = "body" => Open

\* The blocks a step creates.
New == Len(blocks) + 1 .. Len(blocks')

\* New blocks come after the others.
LEMMA BlocksGrow ==
    ASSUME TypeOK, TypeOK', Len(blocks') >= Len(blocks)
    PROVE  /\ DOMAIN blocks = 1 .. Len(blocks) /\ Len(blocks) \in Nat /\ Len(blocks') \in Nat
           /\ DOMAIN blocks' = DOMAIN blocks \cup New
           /\ DOMAIN blocks \cap New = {}
PROOF
  <1>1. blocks \in Seq(ResultTypes) /\ blocks' \in Seq(ResultTypes)
    BY DEF TypeOK
  <1>2. /\ DOMAIN blocks = 1 .. Len(blocks) /\ DOMAIN blocks' = 1 .. Len(blocks')
        /\ Len(blocks) \in Nat /\ Len(blocks') \in Nat
    BY <1>1, LenProperties
  <1> QED
    BY <1>2 DEF New

\* Where code is appended.
LEMMA Inserting ==
    ASSUME TypeOK, OpenInv, Live
    PROVE  /\ Open /\ Current = {insertBlock} /\ insertBlock \in DOMAIN blocks \ terminated
           /\ insertBlock \notin Ends \cup Elses
BY DEF OpenInv, Live, InBody, Open, Current

\* Structures that keep their ends and elses.
LEMMA SameEntries ==
    ASSUME DOMAIN cfEntries' = DOMAIN cfEntries,
           \A i \in DOMAIN cfEntries : cfEntries'[i].end = cfEntries[i].end
                                       /\ cfEntries'[i].else = cfEntries[i].else
    PROVE  Ends' = Ends /\ Elses' = Elses /\ (Distinct => Distinct')
PROOF
  <1>1. Ends' = Ends
    BY DEF Ends
  <1>2. Elses' = Elses
    BY DEF Elses, NoBlock
  <1>3. Distinct => Distinct'
    BY DEF Distinct, NoBlock
  <1> QED
    BY <1>1, <1>2, <1>3

\* Straight-line code, traps and conditional branches: the insertion point
\* moves, every other new block is closed.
LEMMA InsertionMoves ==
    ASSUME TypeOK, TypeOK', OpenInv, Live, UNCHANGED <<cfEntries, status>>,
           Len(blocks') >= Len(blocks), NEW T, terminated' = terminated \cup T,
           {insertBlock} \cup New = T \cup {insertBlock'}, insertBlock' \notin T
    PROVE  OpenInv'
PROOF
  <1>1. /\ DOMAIN blocks' = DOMAIN blocks \cup New /\ DOMAIN blocks \cap New = {}
    BY BlocksGrow
  <1>2. Ends' = Ends /\ Elses' = Elses /\ Distinct'
    BY SameEntries, Inserting DEF Open
  <1>3. Current' = {insertBlock'}
    BY DEF Current, Live, Top
  <1>4. /\ terminated \subseteq DOMAIN blocks
        /\ DOMAIN blocks \ terminated = Ends \cup Elses \cup {insertBlock}
        /\ insertBlock \notin Ends \cup Elses /\ insertBlock \in DOMAIN blocks
    BY Inserting DEF Open
  <1>5. Ends \cup Elses \subseteq DOMAIN blocks
    BY <1>4
  <1>6. terminated' \subseteq DOMAIN blocks'
    BY <1>1, <1>4
  <1>7. insertBlock' \notin Ends \cup Elses
    BY <1>1, <1>4, <1>5
  <1>8. DOMAIN blocks' \ terminated' = Ends \cup Elses \cup {insertBlock'}
    BY <1>1, <1>4, <1>5, <1>7
  <1> QED
    BY <1>2, <1>3, <1>6, <1>7, <1>8 DEF OpenInv, Open

\* Jumps that end reachable code close the insertion block and all new ones.
LEMMA CodeEnds ==
    ASSUME IInv, TypeOK', OpenInv, Live, UNCHANGED status, NEW stack, SkipUnreachable(stack),
           Len(blocks') >= Len(blocks), terminated' = (terminated \cup {insertBlock}) \cup New
    PROVE  OpenInv'
PROOF
  <1>1. DOMAIN blocks' = DOMAIN blocks \cup New /\ DOMAIN blocks \cap New = {}
    BY BlocksGrow DEF IInv
  <1>2. /\ Len(cfEntries) \in Nat \ {0} /\ Top \in Entries /\ DOMAIN cfEntries = 1 .. Len(cfEntries)
        /\ cfEntries \in Seq(Entries)
    BY TopType, StackLengths DEF Live, IInv
  <1> DEFINE top == [Top EXCEPT !.reachable = FALSE]
  <1>3. cfEntries' = [cfEntries EXCEPT ![Len(cfEntries)] = top]
    BY <1>2 DEF SkipUnreachable, Top
  <1>4. top.end = Top.end /\ top.else = Top.else /\ top.reachable = FALSE
    BY <1>2 DEF Entries
  <1> HIDE DEF top
  <1>5. /\ DOMAIN cfEntries' = DOMAIN cfEntries /\ Len(cfEntries') = Len(cfEntries)
        /\ cfEntries'[Len(cfEntries)] = top
        /\ \A i \in DOMAIN cfEntries : i # Len(cfEntries) => cfEntries'[i] = cfEntries[i]
    BY <1>2, <1>3
  <1>6. Ends' = Ends /\ Elses' = Elses /\ Distinct'
    BY <1>4, <1>5, SameEntries, Inserting DEF Open, Top, IInv
  <1>7. Current' = {}
    BY <1>2, <1>4, <1>5 DEF Current, Top
  <1>8. /\ terminated \subseteq DOMAIN blocks
        /\ DOMAIN blocks \ terminated = Ends \cup Elses \cup {insertBlock}
        /\ insertBlock \notin Ends \cup Elses /\ insertBlock \in DOMAIN blocks
    BY Inserting DEF Open, IInv
  <1>9. terminated' \subseteq DOMAIN blocks'
    BY <1>1, <1>8
  <1>10. DOMAIN blocks' \ terminated' = Ends \cup Elses
    BY <1>1, <1>8
  <1> QED
    BY <1>6, <1>7, <1>9, <1>10 DEF OpenInv, Open

\* A structure opens: its end, its else and the next insertion point are the
\* blocks left open.
LEMMA StructureOpens ==
    ASSUME IInv, TypeOK', OpenInv, Live, UNCHANGED status,
           NEW entry \in Entries, cfEntries' = Append(cfEntries, entry), entry.reachable,
           Len(blocks') >= Len(blocks), NEW T, terminated' = terminated \cup T,
           entry.end \in New, entry.else \in New \cup {NoBlock}, entry.end # entry.else,
           insertBlock' \notin {entry.end, entry.else, NoBlock},
           T \cap {insertBlock', entry.end, entry.else} = {},
           {insertBlock} \cup New = T \cup ({insertBlock', entry.end, entry.else} \ {NoBlock})
    PROVE  OpenInv'
PROOF
  <1>1. /\ DOMAIN blocks' = DOMAIN blocks \cup New /\ DOMAIN blocks \cap New = {}
        /\ NoBlock \notin DOMAIN blocks' /\ NoBlock \notin New
    BY BlocksGrow DEF IInv, NoBlock, New
  <1> DEFINE n == Len(cfEntries)
  <1>2. /\ n \in Nat /\ DOMAIN cfEntries = 1 .. n
        /\ Len(cfEntries') = n + 1 /\ DOMAIN cfEntries' = 1 .. n + 1
        /\ cfEntries'[n + 1] = entry
        /\ \A i \in 1 .. n : cfEntries'[i] = cfEntries[i]
    BY StackLengths, AppendProperties
  <1> HIDE DEF n
  <1>3. /\ terminated \subseteq DOMAIN blocks
        /\ DOMAIN blocks \ terminated = Ends \cup Elses \cup {insertBlock}
        /\ insertBlock \notin Ends \cup Elses /\ insertBlock \in DOMAIN blocks
        /\ Distinct
    BY Inserting DEF Open, IInv
  <1>4. Ends' = Ends \cup {entry.end}
    BY <1>2 DEF Ends
  <1>5. Elses' = Elses \cup ({entry.else} \ {NoBlock})
    BY <1>2 DEF Elses, NoBlock
  <1>6. \A i \in 1 .. n : cfEntries[i].end \in DOMAIN blocks /\ cfEntries[i].else \in DOMAIN blocks \cup {NoBlock}
    BY <1>2, <1>3 DEF Ends, Elses
  <1>7. Distinct'
    <2> SUFFICES ASSUME NEW i \in 1 .. n + 1, NEW j \in 1 .. n + 1
                 PROVE  /\ cfEntries'[i].end # cfEntries'[j].else
                        /\ i # j => cfEntries'[i].end # cfEntries'[j].end
                        /\ i # j /\ cfEntries'[i].else # NoBlock => cfEntries'[i].else # cfEntries'[j].else
      BY <1>2 DEF Distinct, NoBlock
    <2>1. CASE i \in 1 .. n /\ j \in 1 .. n
      BY <2>1, <1>2, <1>3 DEF Distinct
    <2>2. CASE i = n + 1 /\ j \in 1 .. n
      BY <2>2, <1>1, <1>2, <1>6
    <2>3. CASE i \in 1 .. n /\ j = n + 1
      BY <2>3, <1>1, <1>2, <1>6
    <2>4. CASE i = n + 1 /\ j = n + 1
      BY <2>4, <1>2
    <2> QED
      BY <1>2, <2>1, <2>2, <2>3, <2>4
  <1>8. Current' = {insertBlock'}
    BY <1>2 DEF Current, Top
  <1>9. Ends \cup Elses \subseteq DOMAIN blocks
    BY <1>3
  <1>10. insertBlock' \in {insertBlock} \cup New
    BY <1>1, <1>3
  <1>11. Current' \cap (Ends' \cup Elses') = {}
    BY <1>1, <1>3, <1>4, <1>5, <1>8, <1>9, <1>10
  <1>12. terminated' \subseteq DOMAIN blocks'
    BY <1>1, <1>3
  <1>13. DOMAIN blocks' \ terminated' = Ends' \cup Elses' \cup Current'
    BY <1>1, <1>3, <1>4, <1>5, <1>8, <1>9, <1>10
  <1> QED
    BY <1>7, <1>11, <1>12, <1>13 DEF OpenInv, Open

\* A function opens its first block.
LEMMA FunctionOpens ==
    ASSUME IInv, TypeOK', NEW result \in BodyResults, StartFunction(result), terminated = {}
    PROVE  OpenInv'
PROOF
  <1> DEFINE entry == [instr |-> "function", signature |-> result, end |-> FuncEnd,
                       else |-> NoBlock, outerStackSize |-> Len(evalStack),
                       outerBlockDepth |-> Len(blockEntries), reachable |-> TRUE]
  <1>1. /\ cfEntries = <<>> /\ cfEntries' = Append(cfEntries, entry)
        /\ blocks' = <<result, Void>> /\ insertBlock' = FuncEntry /\ terminated' = {}
    BY DEF StartFunction, PushCFEntry, IInv, StacksInv, Idle
  <1>2. entry.end = FuncEnd /\ entry.else = NoBlock /\ entry.reachable
    OBVIOUS
  <1> HIDE DEF entry
  <1>3. cfEntries' = <<entry>> /\ DOMAIN cfEntries' = {1} /\ Len(cfEntries') = 1 /\ cfEntries'[1] = entry
    BY <1>1
  <1>4. DOMAIN blocks' = {FuncEnd, FuncEntry}
    BY <1>1 DEF FuncEnd, FuncEntry
  <1>5. Ends' = {FuncEnd} /\ Elses' = {} /\ Current' = {FuncEntry}
    BY <1>1, <1>2, <1>3 DEF Ends, Elses, Current, Top
  <1>6. Distinct'
    BY <1>2, <1>3 DEF Distinct, FuncEnd, NoBlock
  <1> QED
    BY <1>1, <1>4, <1>5, <1>6 DEF OpenInv, Open, FuncEnd, FuncEntry

\* Where else and end are read: the innermost structure among the others.
LEMMA AtTop ==
    ASSUME IInv, OpenInv, InBody
    PROVE  /\ Open
           /\ cfEntries \in Seq(Entries) /\ DOMAIN cfEntries = 1 .. Len(cfEntries)
           /\ Len(cfEntries) \in Nat \ {0} /\ Top = cfEntries[Len(cfEntries)] /\ Top \in Entries
           /\ Len(cfEntries) \in DOMAIN cfEntries
           /\ Top.end \in Ends /\ Top.end \in DOMAIN blocks \ terminated
           /\ Top.else # NoBlock => Top.else \in Elses /\ Top.else \in DOMAIN blocks \ terminated
           /\ \A i \in DOMAIN cfEntries : i # Len(cfEntries) =>
                /\ cfEntries[i].end \notin {Top.end, Top.else}
                /\ cfEntries[i].else # NoBlock => cfEntries[i].else \notin {Top.end, Top.else}
PROOF
  <1>1. Open
    BY DEF OpenInv, InBody
  <1>2. /\ cfEntries \in Seq(Entries) /\ DOMAIN cfEntries = 1 .. Len(cfEntries)
        /\ Len(cfEntries) \in Nat \ {0} /\ Top = cfEntries[Len(cfEntries)] /\ Top \in Entries
        /\ Len(cfEntries) \in DOMAIN cfEntries
    BY TopType, StackLengths DEF IInv, Top
  <1>3. Top.end \in Ends /\ (Top.else # NoBlock => Top.else \in Elses)
    BY <1>2 DEF Ends, Elses
  <1>4. Top.end \in DOMAIN blocks \ terminated /\ (Top.else # NoBlock => Top.else \in DOMAIN blocks \ terminated)
    BY <1>1, <1>3 DEF Open
  <1>5. \A i \in DOMAIN cfEntries : i # Len(cfEntries) =>
          /\ cfEntries[i].end \notin {Top.end, Top.else}
          /\ cfEntries[i].else # NoBlock => cfEntries[i].else \notin {Top.end, Top.else}
    BY <1>1, <1>2 DEF Open, Distinct
  <1> QED
    BY <1>1, <1>2, <1>3, <1>4, <1>5

\* What a join closes.
LEMMA Joined ==
    ASSUME IInv, OpenInv, InBody
    PROVE  JoinTerminated = Current /\ Current \cap (Ends \cup Elses) = {}
BY AtTop DEF JoinTerminated, Current, InBody, Open

\* An else opens the other branch.
LEMMA ElseOpens ==
    ASSUME IInv, TypeOK', OpenInv, Else, \A outcome \in Finished : ~Stop(outcome)
    PROVE  OpenInv'
PROOF
  <1>1. /\ AtJoin /\ Top.else # NoBlock
        /\ terminated' = terminated \cup JoinTerminated
        /\ insertBlock' = Top.else
        /\ cfEntries' = [cfEntries EXCEPT ![Len(cfEntries)] =
                           [@ EXCEPT !.instr = "else", !.reachable = TRUE, !.else = NoBlock]]
        /\ UNCHANGED <<blocks, status>>
    BY Outcomes DEF Else
  <1>2. InBody
    BY <1>1 DEF AtJoin
  <1> DEFINE n == Len(cfEntries)
             top == [Top EXCEPT !.instr = "else", !.reachable = TRUE, !.else = NoBlock]
  <1>3. /\ Open /\ cfEntries \in Seq(Entries) /\ DOMAIN cfEntries = 1 .. n /\ n \in DOMAIN cfEntries
        /\ Top = cfEntries[n] /\ Top \in Entries
    BY <1>2, AtTop
  <1>4. top.end = Top.end /\ top.else = NoBlock /\ top.reachable = TRUE
    BY <1>3 DEF Entries
  <1>5. cfEntries' = [cfEntries EXCEPT ![n] = top]
    BY <1>1, <1>3
  <1> HIDE DEF top
  <1>6. /\ DOMAIN cfEntries' = DOMAIN cfEntries /\ Len(cfEntries') = n /\ cfEntries'[n] = top
        /\ \A i \in DOMAIN cfEntries : i # n => cfEntries'[i] = cfEntries[i]
        /\ cfEntries' # <<>>
    BY <1>3, <1>5
  <1>7. Ends' = Ends
    BY <1>3, <1>4, <1>6 DEF Ends
  <1>8. Elses' = Elses \ {Top.else}
    <2>1. \A i \in DOMAIN cfEntries : i # n /\ cfEntries[i].else # NoBlock => cfEntries[i].else # Top.else
      BY <1>2, AtTop
    <2>2. \A x : x \in Elses' <=> x # NoBlock /\ \E i \in DOMAIN cfEntries : i # n /\ x = cfEntries[i].else
      BY <1>3, <1>4, <1>6 DEF Elses, NoBlock
    <2>3. \A x : x \in Elses <=> x # NoBlock /\ \E i \in DOMAIN cfEntries : x = cfEntries[i].else
      BY DEF Elses
    <2>4. \A x : x \in Elses' <=> x \in Elses \ {Top.else}
      BY <2>1, <2>2, <2>3, <1>3
    <2> QED
      BY <2>4
  <1>9. Distinct'
    <2>1. Distinct
      BY <1>3 DEF Open
    <2>2. \A i \in DOMAIN cfEntries : cfEntries'[i].end = cfEntries[i].end
      BY <1>3, <1>4, <1>6
    <2>3. \A i \in DOMAIN cfEntries : cfEntries'[i].else = IF i = n THEN NoBlock ELSE cfEntries[i].else
      BY <1>3, <1>4, <1>6
    <2>4. \A i \in DOMAIN cfEntries : cfEntries[i].end # NoBlock
      <3>1. NoBlock \notin DOMAIN blocks
        BY BlocksTyped, TypeParts, LenProperties DEF IInv, GraphTypes, NoBlock
      <3>2. Ends \subseteq DOMAIN blocks
        BY <1>3 DEF Open
      <3> QED
        BY <3>1, <3>2 DEF Ends
    <2> QED
      BY <1>6, <2>1, <2>2, <2>3, <2>4 DEF Distinct, NoBlock
  <1>10. Current' = {Top.else}
    BY <1>1, <1>4, <1>6 DEF Current, Top
  <1>11. Top.else \in Elses /\ Top.else \notin Ends
    BY <1>1, <1>2, <1>3, AtTop DEF Open, Distinct, Ends
  <1>12. JoinTerminated = Current /\ Current \cap (Ends \cup Elses) = {}
    BY <1>2, Joined
  <1>13. terminated \subseteq DOMAIN blocks /\ DOMAIN blocks \ terminated = Ends \cup Elses \cup Current
    BY <1>3 DEF Open
  <1>14. DOMAIN blocks' \ terminated' = Ends' \cup Elses' \cup Current'
    BY <1>1, <1>7, <1>8, <1>10, <1>11, <1>12, <1>13
  <1>15. terminated' \subseteq DOMAIN blocks' /\ Current' \cap (Ends' \cup Elses') = {}
    BY <1>1, <1>7, <1>8, <1>10, <1>11, <1>12, <1>13
  <1> QED
    BY <1>9, <1>14, <1>15 DEF OpenInv, Open

\* An end opens the block after the structure.
LEMMA EndOpens ==
    ASSUME IInv, TypeOK', OpenInv, End, \A outcome \in Finished : ~Stop(outcome)
    PROVE  OpenInv'
PROOF
  <1>1. /\ AtJoin
        /\ terminated' = (terminated \cup JoinTerminated) \cup ({Top.else} \ {NoBlock})
        /\ blocks' = IF HasIncoming(incoming') THEN blocks ELSE [blocks EXCEPT ![Top.end] = Void]
        /\ insertBlock' = Top.end
        /\ cfEntries' = SubSeq(cfEntries, 1, Len(cfEntries) - 1)
        /\ UNCHANGED status
    BY Outcomes DEF End
  <1>2. InBody
    BY <1>1 DEF AtJoin
  <1> DEFINE n == Len(cfEntries)
  <1>3. /\ Open /\ cfEntries \in Seq(Entries) /\ DOMAIN cfEntries = 1 .. n /\ n \in Nat \ {0}
        /\ n \in DOMAIN cfEntries /\ Top = cfEntries[n] /\ Top \in Entries
    BY <1>2, AtTop
  <1>4. /\ DOMAIN cfEntries' = 1 .. n - 1 /\ Len(cfEntries') = n - 1
        /\ \A i \in 1 .. n - 1 : cfEntries'[i] = cfEntries[i]
        /\ cfEntries' = <<>> <=> n = 1
    <2>1. DOMAIN cfEntries' = 1 .. n - 1 /\ Len(cfEntries') = n - 1
          /\ \A i \in 1 .. n - 1 : cfEntries'[i] = cfEntries[i]
      BY <1>1, <1>3, StackLengths
    <2>2. cfEntries' \in Seq(Entries)
      BY TypePartsNext DEF StackTypes
    <2> QED
      BY <1>3, <2>1, <2>2, EmptySeq
  <1>5. DOMAIN blocks' = DOMAIN blocks
    BY <1>1
  <1> HIDE DEF n
  <1>6. \A i \in 1 .. n - 1 :
          /\ cfEntries[i].end \notin {Top.end, Top.else}
          /\ cfEntries[i].else # NoBlock => cfEntries[i].else \notin {Top.end, Top.else}
    BY <1>2, <1>3, AtTop DEF n
  <1>7. Ends' = Ends \ {Top.end}
    <2>1. \A x : x \in Ends' <=> \E i \in 1 .. n - 1 : x = cfEntries[i].end
      BY <1>4 DEF Ends
    <2>2. \A x : x \in Ends <=> x = Top.end \/ \E i \in 1 .. n - 1 : x = cfEntries[i].end
      BY <1>3 DEF Ends
    <2>3. \A x : x \in Ends' <=> x \in Ends \ {Top.end}
      BY <2>1, <2>2, <1>6
    <2> QED
      BY <2>3
  <1>8. Elses' = Elses \ {Top.else}
    <2>1. \A x : x \in Elses' <=> x # NoBlock /\ \E i \in 1 .. n - 1 : x = cfEntries[i].else
      BY <1>4 DEF Elses, NoBlock
    <2>2. \A x : x \in Elses <=> x # NoBlock /\ (x = Top.else \/ \E i \in 1 .. n - 1 : x = cfEntries[i].else)
      BY <1>3 DEF Elses
    <2>3. \A x : x \in Elses' <=> x \in Elses \ {Top.else}
      BY <2>1, <2>2, <1>6
    <2> QED
      BY <2>3
  <1>9. Distinct'
    BY <1>3, <1>4 DEF Open, Distinct, NoBlock
  <1>10. Current' = {Top.end}
    <2>1. n # 1 => cfEntries'[n - 1].reachable
      BY <1>3, <1>4 DEF IInv, StacksInv, OnlyTopSkipped, n
    <2> QED
      BY <1>1, <1>4, <2>1 DEF Current, Top
  <1>11. Top.end \in Ends /\ Top.end \notin Elses /\ Top.else \notin Ends
    BY <1>2, <1>3, AtTop DEF Open, Distinct, Ends, Elses
  <1>12. Top.else # NoBlock => Top.else \in Elses
    BY <1>2, AtTop
  <1>13. JoinTerminated = Current /\ Current \cap (Ends \cup Elses) = {}
    BY <1>2, Joined
  <1>14. terminated \subseteq DOMAIN blocks /\ DOMAIN blocks \ terminated = Ends \cup Elses \cup Current
    BY <1>3 DEF Open
  <1>15. NoBlock \notin Elses
    BY DEF Elses
  <1>16. terminated' = terminated \cup Current \cup ({Top.else} \ {NoBlock})
    BY <1>1, <1>13
  <1>17. DOMAIN blocks \ terminated' = (Ends \cup Elses) \ {Top.else}
    <2>1. \A x \in Ends \cup Elses : x # Top.else <=> x \notin {Top.else} \ {NoBlock}
      BY <1>11, <1>12, <1>15
    <2> QED
      BY <2>1, <1>13, <1>14, <1>16
  <1>18. DOMAIN blocks' \ terminated' = Ends' \cup Elses' \cup Current'
    BY <1>5, <1>7, <1>8, <1>10, <1>11, <1>17
  <1>19. terminated' \subseteq DOMAIN blocks'
    BY <1>5, <1>12, <1>14, <1>16
  <1>20. Current' \cap (Ends' \cup Elses') = {}
    BY <1>7, <1>8, <1>10, <1>11
  <1> QED
    BY <1>9, <1>18, <1>19, <1>20 DEF OpenInv, Open

-----------------------------------------------------------------------------
(* The values of the phis.                                                 *)

\* Edges are between the function's blocks; every structure and every target
\* has the type of the phi of its block.
Within == \A e \in edges \cup incoming : e[1] \in DOMAIN blocks /\ e[2] \in DOMAIN blocks
EndsTyped ==
    \A i \in DOMAIN cfEntries :
        cfEntries[i].end \in DOMAIN blocks /\ blocks[cfEntries[i].end] = cfEntries[i].signature
TargetsTyped ==
    \A i \in DOMAIN blockEntries :
        blockEntries[i].block \in DOMAIN blocks /\ blocks[blockEntries[i].block] = blockEntries[i].signature

Phis == Within /\ EndsTyped /\ TargetsTyped
IdleGraph == status # "body" => blocks = <<>> /\ terminated = {} /\ edges = {} /\ incoming = {}

GraphInv ==
    /\ OpenInv
    /\ status = "body" => Phis
    /\ IdleGraph
    /\ PhiPerEdge

\* Code that adds edges from open blocks, with the values of the phis they
\* lead to.
LEMMA EdgesAdded ==
    ASSUME TypeOK, TypeOK', Open, Within, PhiPerEdge,
           Len(blocks') >= Len(blocks), \A b \in DOMAIN blocks : blocks'[b] \in {blocks[b], Void},
           NEW E, NEW V \in SUBSET E, edges' = edges \cup E, incoming' = incoming \cup V,
           \A e \in E :
               /\ e[1] \in DOMAIN blocks' \ terminated /\ e[2] \in DOMAIN blocks'
               /\ blocks'[e[2]] = Void \/ e \in V \/ e[3] = FallThrough
    PROVE  Within' /\ PhiPerEdge' /\ TerminatorsKept
PROOF
  <1>1. DOMAIN blocks' = DOMAIN blocks \cup New /\ DOMAIN blocks \cap New = {}
    BY BlocksGrow
  <1>2. Within'
    BY <1>1 DEF Within
  <1>3. TerminatorsKept
    BY DEF TerminatorsKept
  <1>4. PhiPerEdge'
    <2> SUFFICES ASSUME NEW b \in DOMAIN blocks', blocks'[b] # Void
                 PROVE  /\ Into(b, incoming') \subseteq Into(b, edges')
                        /\ \A e \in Into(b, edges') \ incoming' : e[3] = FallThrough
      BY DEF PhiPerEdge, Into
    <2>1. Into(b, incoming) \subseteq Into(b, edges) /\ \A e \in Into(b, edges) \ incoming : e[3] = FallThrough
      <3>1. CASE b \in DOMAIN blocks
        BY <3>1 DEF PhiPerEdge
      <3>2. CASE b \notin DOMAIN blocks
        BY <3>2 DEF Within, Into
      <3> QED
        BY <3>1, <3>2
    <2> QED
      BY <2>1 DEF Into
  <1> QED
    BY <1>2, <1>3, <1>4

\* The structures and targets stay, and so do the types of their blocks.
LEMMA SamePhis ==
    ASSUME TypeOK, TypeOK', Phis, Len(blocks') >= Len(blocks), \A b \in DOMAIN blocks : blocks'[b] = blocks[b],
           UNCHANGED blockEntries, DOMAIN cfEntries' = DOMAIN cfEntries,
           \A i \in DOMAIN cfEntries : cfEntries'[i].end = cfEntries[i].end
                                       /\ cfEntries'[i].signature = cfEntries[i].signature
    PROVE  EndsTyped' /\ TargetsTyped'
PROOF
  <1>1. DOMAIN blocks \subseteq DOMAIN blocks'
    BY BlocksGrow
  <1> QED
    BY <1>1 DEF Phis, EndsTyped, TargetsTyped

\* A structure opens with its target.
LEMMA PhisOpen ==
    ASSUME TypeOK, TypeOK', IInv, Phis, Len(blocks') >= Len(blocks), \A b \in DOMAIN blocks : blocks'[b] = blocks[b],
           NEW entry \in Entries, NEW target \in Targets,
           cfEntries' = Append(cfEntries, entry), blockEntries' = Append(blockEntries, target),
           entry.end \in DOMAIN blocks', blocks'[entry.end] = entry.signature,
           target.block \in DOMAIN blocks', blocks'[target.block] = target.signature
    PROVE  EndsTyped' /\ TargetsTyped'
PROOF
  <1>1. DOMAIN blocks \subseteq DOMAIN blocks'
    BY BlocksGrow
  <1> DEFINE n == Len(cfEntries)
  <1>2. /\ n \in Nat /\ DOMAIN cfEntries = 1 .. n /\ DOMAIN cfEntries' = 1 .. n + 1
        /\ cfEntries'[n + 1] = entry /\ \A i \in 1 .. n : cfEntries'[i] = cfEntries[i]
    BY StackLengths, AppendProperties
  <1>3. /\ DOMAIN blockEntries = 1 .. n /\ DOMAIN blockEntries' = 1 .. n + 1
        /\ blockEntries'[n + 1] = target /\ \A i \in 1 .. n : blockEntries'[i] = blockEntries[i]
    BY StackLengths, AppendProperties
  <1> HIDE DEF n
  <1>4. EndsTyped'
    BY <1>1, <1>2 DEF Phis, EndsTyped
  <1>5. TargetsTyped'
    <2>1. ASSUME NEW i \in 1 .. n
          PROVE  /\ blockEntries'[i].block \in DOMAIN blocks'
                 /\ blocks'[blockEntries'[i].block] = blockEntries'[i].signature
      <3>1. /\ blockEntries[i].block \in DOMAIN blocks
            /\ blocks[blockEntries[i].block] = blockEntries[i].signature
        BY <1>3 DEF Phis, TargetsTyped
      <3>2. blockEntries'[i] = blockEntries[i]
        BY <1>3
      <3>3. blocks'[blockEntries[i].block] = blocks[blockEntries[i].block]
        BY <3>1
      <3> QED
        BY <1>1, <3>1, <3>2, <3>3
    <2>2. 1 .. n + 1 = 1 .. n \cup {n + 1}
      BY <1>2
    <2> QED
      BY <1>3, <2>1, <2>2 DEF TargetsTyped
  <1> QED
    BY <1>4, <1>5

\* New blocks go after the others.
LEMMA BlocksAdded ==
    ASSUME TypeOK, NEW new \in Seq(ResultTypes), blocks' = blocks \o new
    PROVE  /\ Len(blocks) \in Nat /\ Len(new) \in Nat /\ Len(blocks') = Len(blocks) + Len(new)
           /\ DOMAIN blocks = 1 .. Len(blocks) /\ DOMAIN blocks' = 1 .. Len(blocks) + Len(new)
           /\ \A b \in DOMAIN blocks : blocks'[b] = blocks[b]
           /\ \A k \in 1 .. Len(new) : blocks'[Len(blocks) + k] = new[k]
           /\ New = Len(blocks) + 1 .. Len(blocks) + Len(new)
PROOF
  <1>1. blocks \in Seq(ResultTypes)
    BY DEF TypeOK
  <1>2. Len(blocks') = Len(blocks) + Len(new)
    BY <1>1, ConcatProperties
  <1> QED
    BY <1>1, <1>2, ConcatProperties, LenProperties DEF New

\* The invariant of the graph, from its parts.
LEMMA Assembled ==
    ASSUME status' = "body", OpenInv', Within', EndsTyped', TargetsTyped', PhiPerEdge'
    PROVE  GraphInv'
BY DEF GraphInv, Phis, IdleGraph

\* What reachable code starts from.
LEMMA LiveFacts ==
    ASSUME IInv, GraphInv, Live
    PROVE  /\ TypeOK /\ OpenInv /\ Open /\ Phis /\ Within /\ PhiPerEdge /\ InBody /\ status = "body"
           /\ insertBlock \in DOMAIN blocks \ terminated /\ terminated \subseteq DOMAIN blocks
           /\ insertBlock # NoBlock
PROOF
  <1>1. TypeOK /\ OpenInv /\ Phis /\ Within /\ PhiPerEdge /\ InBody /\ status = "body"
    BY DEF IInv, GraphInv, Live, InBody, Phis
  <1>2. Open /\ insertBlock \in DOMAIN blocks \ terminated
    BY <1>1, Inserting
  <1>3. NoBlock \notin DOMAIN blocks
    BY <1>1, TypeParts, LenProperties DEF GraphTypes, NoBlock
  <1> QED
    BY <1>1, <1>2, <1>3 DEF Open

\* Instructions that emit no branch.
LEMMA GraphStays ==
    ASSUME GraphInv, UNCHANGED <<graph, cfEntries, blockEntries, status>>
    PROVE  GraphInv' /\ TerminatorsKept
PROOF
  <1>1. UNCHANGED <<blocks, terminated, edges, incoming, insertBlock>>
    BY DEF graph
  <1>2. Ends' = Ends /\ Elses' = Elses /\ Current' = Current /\ (Distinct => Distinct')
    BY <1>1 DEF Ends, Elses, Current, Distinct, Top
  <1>3. OpenInv'
    BY <1>1, <1>2 DEF GraphInv, OpenInv, Open
  <1>4. (status = "body" => Phis') /\ IdleGraph' /\ PhiPerEdge'
    BY <1>1 DEF GraphInv, Phis, Within, EndsTyped, TargetsTyped, IdleGraph, PhiPerEdge, Into
  <1> QED
    BY <1>1, <1>3, <1>4 DEF GraphInv, TerminatorsKept

\* Code in a straight line with branches of its own: traps, the diamond of a
\* remainder, conditional branches.
LEMMA GraphGrows ==
    ASSUME IInv, IInv', GraphInv, Live, UNCHANGED <<cfEntries, blockEntries, status>>,
           NEW new \in Seq(ResultTypes), blocks' = blocks \o new,
           NEW T, terminated' = terminated \cup T,
           {insertBlock} \cup New = T \cup {insertBlock'}, insertBlock' \notin T,
           NEW E, NEW V \in SUBSET E, edges' = edges \cup E, incoming' = incoming \cup V,
           \A e \in E :
               /\ e[1] \in {insertBlock} \cup New /\ e[2] \in DOMAIN blocks'
               /\ blocks'[e[2]] = Void \/ e \in V
    PROVE  GraphInv' /\ TerminatorsKept
PROOF
  <1>1. /\ Len(blocks') >= Len(blocks) /\ \A b \in DOMAIN blocks : blocks'[b] = blocks[b]
    BY BlocksAdded, LiveFacts
  <1>2. DOMAIN blocks' = DOMAIN blocks \cup New /\ DOMAIN blocks \cap New = {}
    BY <1>1, BlocksGrow DEF IInv
  <1>3. OpenInv'
    BY <1>1, InsertionMoves, LiveFacts DEF IInv
  <1>4. \A e \in E :
           /\ e[1] \in DOMAIN blocks' \ terminated /\ e[2] \in DOMAIN blocks'
           /\ blocks'[e[2]] = Void \/ e \in V \/ e[3] = FallThrough
    BY <1>2, LiveFacts
  <1>5. Within' /\ PhiPerEdge' /\ TerminatorsKept
    BY <1>1, <1>4, EdgesAdded, LiveFacts DEF IInv
  <1>6. EndsTyped' /\ TargetsTyped'
    BY <1>1, SamePhis, LiveFacts DEF IInv
  <1> QED
    BY <1>3, <1>5, <1>6, Assembled, LiveFacts

\* Trap keeps the graph.
LEMMA TrapGraph ==
    ASSUME IInv, IInv', GraphInv, Live, TrapIf, UNCHANGED <<incoming, cfEntries, blockEntries, status>>
    PROVE  GraphInv' /\ TerminatorsKept
PROOF
  <1> DEFINE then == Len(blocks) + 1
             skip == Len(blocks) + 2
             new == <<Void, Void>>
             E == {<<insertBlock, then, Taken>>, <<insertBlock, skip, NotTaken>>}
             T == {insertBlock, then}
  <1>1. /\ blocks' = blocks \o new /\ edges' = edges \cup E /\ terminated' = terminated \cup T
        /\ insertBlock' = skip /\ incoming' = incoming \cup {}
    BY DEF TrapIf
  <1>2. new \in Seq(ResultTypes) /\ Len(new) = 2 /\ \A k \in 1 .. 2 : new[k] = Void
    BY ValTypesFacts
  <1> HIDE DEF new
  <1>3. /\ New = {then, skip} /\ then \in DOMAIN blocks' /\ skip \in DOMAIN blocks'
        /\ blocks'[then] = Void /\ blocks'[skip] = Void
        /\ insertBlock \in DOMAIN blocks /\ DOMAIN blocks \cap New = {} /\ skip # then
    <2>1. /\ Len(blocks) \in Nat /\ DOMAIN blocks = 1 .. Len(blocks)
          /\ DOMAIN blocks' = 1 .. Len(blocks) + 2
          /\ \A k \in 1 .. 2 : blocks'[Len(blocks) + k] = Void
          /\ New = Len(blocks) + 1 .. Len(blocks) + 2
      BY <1>1, <1>2, BlocksAdded, LiveFacts
    <2>2. insertBlock \in DOMAIN blocks
      BY LiveFacts
    <2> QED
      BY <2>1, <2>2
  <1> HIDE DEF then, skip
  <1>4. {insertBlock} \cup New = T \cup {insertBlock'} /\ insertBlock' \notin T
    BY <1>1, <1>3
  <1>5. \A e \in E : /\ e[1] \in {insertBlock} \cup New /\ e[2] \in DOMAIN blocks'
                     /\ blocks'[e[2]] = Void \/ e \in {}
    BY <1>3
  <1> HIDE DEF T, E
  <1>6. {} \in SUBSET E
    OBVIOUS
  <1> QED
    BY <1>1, <1>2, <1>4, <1>5, <1>6, GraphGrows, ZenonT(60)

\* SRem keeps the graph.
LEMMA SRemGraph ==
    ASSUME IInv, IInv', GraphInv, Live, NEW type \in ResultTypes, SRemDiamond(type),
           UNCHANGED <<cfEntries, blockEntries, status>>
    PROVE  GraphInv' /\ TerminatorsKept
PROOF
  <1> DEFINE then == Len(blocks) + 1
             skip == Len(blocks) + 2
             rem == Len(blocks) + 3
             end == Len(blocks) + 4
             new == <<Void, Void, Void, type>>
             E == {<<insertBlock, then, Taken>>, <<insertBlock, skip, NotTaken>>,
                   <<skip, rem, Taken>>, <<skip, end, NotTaken>>, <<rem, end, Taken>>}
             V == {<<rem, end, Taken>>, <<skip, end, NotTaken>>}
             T == {insertBlock, then, skip, rem}
  <1>1. /\ blocks' = blocks \o new /\ edges' = edges \cup E /\ terminated' = terminated \cup T
        /\ insertBlock' = end /\ incoming' = incoming \cup V
    BY DEF SRemDiamond
  <1>2. new \in Seq(ResultTypes) /\ Len(new) = 4 /\ \A k \in 1 .. 3 : new[k] = Void
    BY ValTypesFacts
  <1> HIDE DEF new
  <1>3. /\ New = {then, skip, rem, end} /\ New \subseteq DOMAIN blocks'
        /\ blocks'[then] = Void /\ blocks'[skip] = Void /\ blocks'[rem] = Void
        /\ insertBlock \in DOMAIN blocks /\ DOMAIN blocks \cap New = {}
        /\ end \notin {then, skip, rem}
    <2>1. /\ Len(blocks) \in Nat /\ DOMAIN blocks = 1 .. Len(blocks)
          /\ DOMAIN blocks' = 1 .. Len(blocks) + 4
          /\ \A k \in 1 .. 4 : blocks'[Len(blocks) + k] = new[k]
          /\ New = Len(blocks) + 1 .. Len(blocks) + 4
      BY <1>1, <1>2, BlocksAdded, LiveFacts
    <2>2. insertBlock \in DOMAIN blocks
      BY LiveFacts
    <2>3. \A k \in 1 .. 3 : blocks'[Len(blocks) + k] = Void
      BY <1>2, <2>1
    <2> QED
      BY <2>1, <2>2, <2>3
  <1>4. {insertBlock} \cup New = T \cup {insertBlock'} /\ insertBlock' \notin T
    BY <1>1, <1>3
  <1> HIDE DEF then, skip, rem, end
  <1>5. \A e \in E : /\ e[1] \in {insertBlock} \cup New /\ e[2] \in DOMAIN blocks'
                     /\ blocks'[e[2]] = Void \/ e \in V
    BY <1>3
  <1>6. V \in SUBSET E
    OBVIOUS
  <1> HIDE DEF T, E, V
  <1> QED
    BY <1>1, <1>2, <1>4, <1>5, <1>6, GraphGrows

\* Straight keeps the graph.
LEMMA StraightGraph ==
    ASSUME IInv, IInv', GraphInv, StraightStep, \A outcome \in Finished : ~Stop(outcome)
    PROVE  GraphInv' /\ TerminatorsKept
PROOF
  <1>1. ASSUME NEW callee \in Callees, Call(callee)
        PROVE  GraphInv' /\ TerminatorsKept
    BY <1>1, Outcomes, GraphStays DEF Call
  <1>2. ASSUME NEW callee \in Callees, CallIndirect(callee)
        PROVE  GraphInv' /\ TerminatorsKept
    BY <1>2, Outcomes, TrapGraph DEF CallIndirect
  <1>3. ASSUME NEW op \in Opcodes, Execute(op)
        PROVE  GraphInv' /\ TerminatorsKept
    <2>1. PICK t \in op.typings :
            /\ Live /\ UNCHANGED <<cfEntries, blockEntries, status>>
            /\ \/ UNCHANGED graph
               \/ TrapIf /\ UNCHANGED incoming
               \/ SRemDiamond(t.out)
      BY <1>3, Outcomes DEF Execute
    <2>2. t.out \in ResultTypes
      BY OpcodesAreOps DEF Ops, Typings
    <2> QED
      BY <2>1, <2>2, GraphStays, TrapGraph, SRemGraph
  <1> QED
    BY <1>1, <1>2, <1>3 DEF StraightStep

-----------------------------------------------------------------------------
(* Jumps.                                                                  *)

\* A jump that ends reachable code.
LEMMA GraphLeaves ==
    ASSUME IInv, IInv', GraphInv, Live, UNCHANGED <<blockEntries, status>>,
           NEW stack, SkipUnreachable(stack),
           NEW new \in Seq(ResultTypes), blocks' = blocks \o new,
           terminated' = (terminated \cup {insertBlock}) \cup New,
           NEW E, NEW V \in SUBSET E, edges' = edges \cup E, incoming' = incoming \cup V,
           \A e \in E :
               /\ e[1] \in {insertBlock} \cup New /\ e[2] \in DOMAIN blocks'
               /\ blocks'[e[2]] = Void \/ e \in V
    PROVE  GraphInv' /\ TerminatorsKept
PROOF
  <1>1. Len(blocks') >= Len(blocks) /\ \A b \in DOMAIN blocks : blocks'[b] = blocks[b]
    BY BlocksAdded, LiveFacts
  <1>2. DOMAIN blocks' = DOMAIN blocks \cup New /\ DOMAIN blocks \cap New = {}
    BY <1>1, BlocksGrow DEF IInv
  <1>3. OpenInv'
    BY <1>1, CodeEnds, LiveFacts DEF IInv
  <1>4. \A e \in E :
           /\ e[1] \in DOMAIN blocks' \ terminated /\ e[2] \in DOMAIN blocks'
           /\ blocks'[e[2]] = Void \/ e \in V \/ e[3] = FallThrough
    BY <1>2, LiveFacts
  <1>5. Within' /\ PhiPerEdge' /\ TerminatorsKept
    BY <1>1, <1>4, EdgesAdded, LiveFacts DEF IInv
  <1>6. /\ DOMAIN cfEntries' = DOMAIN cfEntries
        /\ \A i \in DOMAIN cfEntries : cfEntries'[i].end = cfEntries[i].end
                                        /\ cfEntries'[i].signature = cfEntries[i].signature
    <2>1. /\ cfEntries' = [cfEntries EXCEPT ![Len(cfEntries)] = [@ EXCEPT !.reachable = FALSE]]
          /\ cfEntries \in Seq(Entries)
      BY StackLengths DEF SkipUnreachable
    <2>2. \A i \in DOMAIN cfEntries : cfEntries[i] \in Entries
      BY <2>1
    <2> QED
      BY <2>1, <2>2 DEF Entries
  <1>7. EndsTyped' /\ TargetsTyped'
    BY <1>1, <1>6, SamePhis, LiveFacts DEF IInv
  <1> QED
    BY <1>3, <1>5, <1>7, Assembled, LiveFacts

\* A jump to blocks that are already there.
LEMMA JumpsLeave ==
    ASSUME IInv, IInv', GraphInv, Live, UNCHANGED <<blocks, blockEntries, status>>,
           NEW stack, SkipUnreachable(stack), terminated' = terminated \cup {insertBlock},
           NEW E, NEW V \in SUBSET E, edges' = edges \cup E, incoming' = incoming \cup V,
           \A e \in E :
               /\ e[1] = insertBlock /\ e[2] \in DOMAIN blocks
               /\ blocks[e[2]] = Void \/ e \in V
    PROVE  GraphInv' /\ TerminatorsKept
PROOF
  <1>1. blocks \in Seq(ResultTypes) /\ Len(blocks) \in Nat
    BY TypeParts, LenProperties DEF IInv, GraphTypes
  <1> DEFINE none == <<>>
  <1>2. none \in Seq(ResultTypes) /\ blocks' = blocks \o none
    BY <1>1
  <1>3. New = {}
    BY <1>1 DEF New
  <1> HIDE DEF none
  <1>4. terminated' = (terminated \cup {insertBlock}) \cup New
    BY <1>3
  <1>5. \A e \in E :
               /\ e[1] \in {insertBlock} \cup New /\ e[2] \in DOMAIN blocks'
               /\ blocks'[e[2]] = Void \/ e \in V
    OBVIOUS
  <1> QED
    BY <1>2, <1>4, <1>5, GraphLeaves

\* The block a depth names, and the edge to it.
LEMMA TargetFacts ==
    ASSUME IInv, TargetsTyped, NEW depth \in Nat, InRange(depth), NEW slot
    PROVE  /\ Target(depth).block \in DOMAIN blocks
           /\ blocks[Target(depth).block] = Target(depth).signature
           /\ ValueEdge(Target(depth), slot) \subseteq {<<insertBlock, Target(depth).block, slot>>}
           /\ \/ blocks[Target(depth).block] = Void
              \/ <<insertBlock, Target(depth).block, slot>> \in ValueEdge(Target(depth), slot)
PROOF
  <1>1. Len(blockEntries) - depth \in DOMAIN blockEntries
    BY TypeParts DEF IInv, StackTypes, InRange
  <1>2. /\ Target(depth).block \in DOMAIN blocks
        /\ blocks[Target(depth).block] = Target(depth).signature
    BY <1>1 DEF TargetsTyped, Target
  <1> QED
    BY <1>2 DEF ValueEdge

\* Unreachable keeps the graph.
LEMMA UnreachableGraph ==
    ASSUME IInv, IInv', GraphInv, Unreachable, ~Stop("invalid")
    PROVE  GraphInv' /\ TerminatorsKept
PROOF
  <1> DEFINE then == Len(blocks) + 1
             skip == Len(blocks) + 2
             new == <<Void, Void>>
             E == {<<insertBlock, then, Taken>>, <<insertBlock, skip, NotTaken>>}
  <1>1. /\ Live /\ UNCHANGED <<blockEntries, status>> /\ SkipUnreachable(evalStack)
        /\ blocks' = blocks \o new /\ edges' = edges \cup E
        /\ terminated' = terminated \cup {insertBlock, then, skip} /\ incoming' = incoming \cup {}
    BY DEF Unreachable
  <1>2. new \in Seq(ResultTypes) /\ Len(new) = 2 /\ \A k \in 1 .. 2 : new[k] = Void
    BY ValTypesFacts
  <1> HIDE DEF new
  <1>3. /\ New = {then, skip} /\ then \in DOMAIN blocks' /\ skip \in DOMAIN blocks'
        /\ blocks'[then] = Void /\ blocks'[skip] = Void
    <2>1. /\ Len(blocks) \in Nat
          /\ DOMAIN blocks' = 1 .. Len(blocks) + 2
          /\ \A k \in 1 .. 2 : blocks'[Len(blocks) + k] = Void
          /\ New = Len(blocks) + 1 .. Len(blocks) + 2
      BY <1>1, <1>2, BlocksAdded, LiveFacts
    <2> QED
      BY <2>1
  <1> HIDE DEF then, skip
  <1>4. terminated' = (terminated \cup {insertBlock}) \cup New
    BY <1>1, <1>3
  <1>5. \A e \in E : /\ e[1] \in {insertBlock} \cup New /\ e[2] \in DOMAIN blocks'
                     /\ blocks'[e[2]] = Void \/ e \in {}
    BY <1>3
  <1> HIDE DEF E
  <1>6. {} \in SUBSET E
    OBVIOUS
  <1> QED
    BY <1>1, <1>2, <1>4, <1>5, <1>6, GraphLeaves

\* Br keeps the graph.
LEMMA BrGraph ==
    ASSUME IInv, IInv', GraphInv, NEW depth \in Depths, Br(depth), ~Stop("invalid")
    PROVE  GraphInv' /\ TerminatorsKept
PROOF
  <1> DEFINE E == {<<insertBlock, Target(depth).block, Taken>>}
             V == ValueEdge(Target(depth), Taken)
             stack == Popped(Len(Carried(Target(depth).signature)))
  <1>1. /\ Live /\ InRange(depth) /\ UNCHANGED <<blocks, blockEntries, status>>
        /\ edges' = edges \cup E /\ incoming' = incoming \cup V
        /\ terminated' = terminated \cup {insertBlock}
        /\ SkipUnreachable(stack)
    BY DEF Br
  <1>2. depth \in Nat /\ TargetsTyped
    BY <1>1, BoundsAssumption, LiveFacts DEF Depths, Phis
  <1>3. V \in SUBSET E
    BY <1>1, <1>2, TargetFacts
  <1>4. \A e \in E : /\ e[1] = insertBlock /\ e[2] \in DOMAIN blocks
                     /\ blocks[e[2]] = Void \/ e \in V
    BY <1>1, <1>2, TargetFacts
  <1> HIDE DEF E, V, stack
  <1> QED
    BY <1>1, <1>3, <1>4, JumpsLeave

\* BrIf keeps the graph.
LEMMA BrIfGraph ==
    ASSUME IInv, IInv', GraphInv, NEW depth \in Depths, BrIf(depth), ~Stop("invalid")
    PROVE  GraphInv' /\ TerminatorsKept
PROOF
  <1> DEFINE after == Len(blocks) + 1
             new == <<Void>>
             taken == <<insertBlock, Target(depth).block, Taken>>
             E == {taken, <<insertBlock, after, NotTaken>>}
             V == ValueEdge(Target(depth), Taken)
             T == {insertBlock}
  <1>1. /\ Live /\ InRange(depth) /\ UNCHANGED <<cfEntries, blockEntries, status>>
        /\ blocks' = Append(blocks, Void)
        /\ edges' = edges \cup E /\ incoming' = incoming \cup V
        /\ terminated' = terminated \cup T /\ insertBlock' = after
    BY DEF BrIf
  <1>2. depth \in Nat /\ TargetsTyped /\ TypeOK
    BY <1>1, BoundsAssumption, LiveFacts DEF Depths, Phis
  <1>3. /\ new \in Seq(ResultTypes) /\ Len(new) = 1 /\ new[1] = Void
        /\ blocks' = blocks \o new
    BY <1>1, <1>2, ValTypesFacts, TypeParts DEF GraphTypes
  <1> HIDE DEF new
  <1>4. /\ New = {after} /\ DOMAIN blocks' = DOMAIN blocks \cup {after}
        /\ blocks'[after] = Void /\ insertBlock \in DOMAIN blocks /\ after \notin DOMAIN blocks
        /\ \A b \in DOMAIN blocks : blocks'[b] = blocks[b]
    <2>1. /\ Len(blocks) \in Nat /\ DOMAIN blocks = 1 .. Len(blocks)
          /\ DOMAIN blocks' = 1 .. Len(blocks) + 1
          /\ \A k \in 1 .. 1 : blocks'[Len(blocks) + k] = new[k]
          /\ New = Len(blocks) + 1 .. Len(blocks) + 1
          /\ \A b \in DOMAIN blocks : blocks'[b] = blocks[b]
      BY <1>2, <1>3, BlocksAdded
    <2>2. insertBlock \in DOMAIN blocks
      BY <1>1, LiveFacts
    <2> QED
      BY <1>3, <2>1, <2>2
  <1> HIDE DEF after
  <1>5. {insertBlock} \cup New = T \cup {insertBlock'} /\ insertBlock' \notin T
    BY <1>1, <1>4
  <1>6. /\ Target(depth).block \in DOMAIN blocks /\ V \subseteq {taken}
        /\ blocks[Target(depth).block] = Void \/ taken \in V
    BY <1>1, <1>2, TargetFacts
  <1> HIDE DEF V
  <1>7. \A e \in E : /\ e[1] \in {insertBlock} \cup New /\ e[2] \in DOMAIN blocks'
                     /\ blocks'[e[2]] = Void \/ e \in V
    BY <1>4, <1>6
  <1>8. V \in SUBSET E
    BY <1>6
  <1> HIDE DEF T, E
  <1> QED
    BY <1>1, <1>3, <1>5, <1>7, <1>8, GraphGrows

\* BrTable keeps the graph.
LEMMA BrTableGraph ==
    ASSUME IInv, IInv', GraphInv, NEW n \in 0 .. MaxTargets, NEW depths \in [1 .. n -> Depths],
           NEW default \in Depths, BrTable(depths, default), ~Stop("invalid")
    PROVE  GraphInv' /\ TerminatorsKept
PROOF
  <1> DEFINE edge(i) == <<insertBlock, Target(depths[i]).block, Case(i)>>
             first == <<insertBlock, Target(default).block, Taken>>
             E == {first} \cup {edge(i) : i \in 1 .. n}
             W == ValueEdge(Target(default), Taken)
             V == W \cup UNION {ValueEdge(Target(depths[i]), Case(i)) : i \in 1 .. n}
             stack == Popped(Len(Carried(Target(default).signature) \o <<"i32">>))
  <1>1. /\ Live /\ InRange(default) /\ UNCHANGED <<blocks, blockEntries, status>>
        /\ \A i \in 1 .. n : InRange(depths[i])
        /\ edges' = edges \cup E /\ incoming' = incoming \cup V
        /\ terminated' = terminated \cup {insertBlock}
        /\ SkipUnreachable(stack)
    BY DEF BrTable
  <1>2. default \in Nat /\ TargetsTyped /\ \A i \in 1 .. n : depths[i] \in Nat
    BY <1>1, BoundsAssumption, LiveFacts DEF Depths, Phis
  <1>3. /\ Target(default).block \in DOMAIN blocks /\ W \subseteq {first}
        /\ blocks[Target(default).block] = Void \/ first \in W
    BY <1>1, <1>2, TargetFacts
  <1>4. ASSUME NEW i \in 1 .. n
        PROVE  /\ Target(depths[i]).block \in DOMAIN blocks
               /\ ValueEdge(Target(depths[i]), Case(i)) \subseteq {edge(i)}
               /\ \/ blocks[Target(depths[i]).block] = Void
                  \/ edge(i) \in ValueEdge(Target(depths[i]), Case(i))
    BY <1>1, <1>2, TargetFacts
  <1> HIDE DEF W, stack
  <1>5. V \in SUBSET E
    BY <1>3, <1>4
  <1>6. \A e \in E : /\ e[1] = insertBlock /\ e[2] \in DOMAIN blocks
                     /\ blocks[e[2]] = Void \/ e \in V
    <2>1. /\ first[1] = insertBlock /\ first[2] \in DOMAIN blocks
          /\ blocks[first[2]] = Void \/ first \in V
      BY <1>3
    <2>2. ASSUME NEW i \in 1 .. n
          PROVE  /\ edge(i)[1] = insertBlock /\ edge(i)[2] \in DOMAIN blocks
                 /\ blocks[edge(i)[2]] = Void \/ edge(i) \in V
      BY <1>4
    <2> HIDE DEF V, edge, first
    <2> QED
      BY <2>1, <2>2
  <1> HIDE DEF E, V
  <1> QED
    BY <1>1, <1>5, <1>6, JumpsLeave

\* Return keeps the graph.
LEMMA ReturnGraph ==
    ASSUME IInv, IInv', GraphInv, Return, ~Stop("invalid")
    PROVE  GraphInv' /\ TerminatorsKept
PROOF
  <1> DEFINE edge == <<insertBlock, cfEntries[1].end, Taken>>
             E == {edge}
             V == IF returnType = Void THEN {} ELSE E
             stack == Popped(Len(Carried(returnType)))
  <1>1. /\ Live /\ UNCHANGED <<blocks, blockEntries, status>>
        /\ edges' = edges \cup E /\ incoming' = incoming \cup V
        /\ terminated' = terminated \cup {insertBlock}
        /\ SkipUnreachable(stack)
    BY DEF Return
  <1>2. /\ cfEntries # <<>> /\ 1 \in DOMAIN cfEntries /\ cfEntries[1].signature = returnType
        /\ EndsTyped
    BY <1>1, StackLengths, LiveFacts DEF IInv, StacksInv, Outermost, Live, InBody, Phis
  <1>3. cfEntries[1].end \in DOMAIN blocks /\ blocks[cfEntries[1].end] = returnType
    BY <1>2 DEF EndsTyped
  <1>4. V \in SUBSET E
    OBVIOUS
  <1>5. \A e \in E : /\ e[1] = insertBlock /\ e[2] \in DOMAIN blocks
                     /\ blocks[e[2]] = Void \/ e \in V
    BY <1>3
  <1> HIDE DEF E, V, stack
  <1> QED
    BY <1>1, <1>4, <1>5, JumpsLeave

\* Jump keeps the graph.
LEMMA JumpGraph ==
    ASSUME IInv, IInv', GraphInv, JumpStep, \A outcome \in Finished : ~Stop(outcome)
    PROVE  GraphInv' /\ TerminatorsKept
BY Outcomes, UnreachableGraph, BrGraph, BrIfGraph, BrTableGraph, ReturnGraph DEF JumpStep

-----------------------------------------------------------------------------
(* Opening and closing control structures.                                 *)

\* What the code of block, loop and if emits: T is closed, the end, the else
\* and the next insertion point are left open, the edges E lead to new blocks.
Opens(T, E, end, else, block) ==
    /\ terminated' = terminated \cup T
    /\ end \in New /\ else \in New \cup {NoBlock} /\ end # else /\ block \in New
    /\ insertBlock' \notin {end, else, NoBlock} /\ T \cap {insertBlock', end, else} = {}
    /\ {insertBlock} \cup New = T \cup ({insertBlock', end, else} \ {NoBlock})
    /\ edges' = edges \cup E
    /\ \A e \in E : e[1] = insertBlock /\ e[2] \in New /\ blocks'[e[2]] = Void

\* Structure keeps the graph.
LEMMA StructureGraph ==
    ASSUME IInv, IInv', GraphInv, Live, UNCHANGED <<incoming, status>>,
           NEW instr \in Kinds, NEW signature \in ResultTypes, NEW end \in Nat, NEW else \in Nat,
           NEW stack \in Seq(Operands), NEW label \in ResultTypes, NEW block \in Nat,
           PushCFEntry(instr, signature, end, else, stack), PushBlockEntry(label, block),
           NEW new \in Seq(ResultTypes), blocks' = blocks \o new,
           NEW T, NEW E, Opens(T, E, end, else, block),
           blocks'[end] = signature, blocks'[block] = label
    PROVE  GraphInv' /\ TerminatorsKept
PROOF
  <1> DEFINE entry == [instr |-> instr, signature |-> signature, end |-> end, else |-> else,
                       outerStackSize |-> Len(stack), outerBlockDepth |-> Len(blockEntries),
                       reachable |-> TRUE]
             target == [signature |-> label, block |-> block]
  <1>1. entry \in Entries /\ target \in Targets
    BY StackLengths DEF Entries, Targets
  <1>2. cfEntries' = Append(cfEntries, entry) /\ blockEntries' = Append(blockEntries, target)
    BY DEF PushCFEntry, PushBlockEntry
  <1>3. /\ entry.end = end /\ entry.else = else /\ entry.reachable /\ entry.signature = signature
        /\ target.block = block /\ target.signature = label
    OBVIOUS
  <1> HIDE DEF entry, target
  <1>4. Len(blocks') >= Len(blocks) /\ \A b \in DOMAIN blocks : blocks'[b] = blocks[b]
    BY BlocksAdded, LiveFacts
  <1>5. DOMAIN blocks' = DOMAIN blocks \cup New /\ DOMAIN blocks \cap New = {}
    BY <1>4, BlocksGrow DEF IInv
  <1>6. OpenInv'
    BY <1>1, <1>2, <1>3, <1>4, StructureOpens, LiveFacts DEF IInv, Opens
  <1> DEFINE none == {}
  <1>7. none \in SUBSET E /\ incoming' = incoming \cup none /\ edges' = edges \cup E
    BY DEF Opens
  <1> HIDE DEF none
  <1>8. \A e \in E :
           /\ e[1] \in DOMAIN blocks' \ terminated /\ e[2] \in DOMAIN blocks'
           /\ blocks'[e[2]] = Void \/ e \in none \/ e[3] = FallThrough
    BY <1>5, LiveFacts DEF Opens
  <1>9. Within' /\ PhiPerEdge' /\ TerminatorsKept
    BY <1>4, <1>7, <1>8, EdgesAdded, LiveFacts DEF IInv
  <1>10. end \in DOMAIN blocks' /\ block \in DOMAIN blocks'
    BY <1>5 DEF Opens
  <1>11. EndsTyped' /\ TargetsTyped'
    BY <1>1, <1>2, <1>3, <1>4, <1>10, PhisOpen, LiveFacts DEF IInv
  <1> QED
    BY <1>6, <1>9, <1>11, Assembled, LiveFacts

\* Block keeps the graph.
LEMMA BlockGraph ==
    ASSUME IInv, IInv', GraphInv, NEW signature \in BlockTypes, Block(signature)
    PROVE  GraphInv' /\ TerminatorsKept
PROOF
  <1> DEFINE end == Len(blocks) + 1
             new == <<signature>>
             none == {}
  <1>1. /\ Live /\ UNCHANGED <<incoming, insertBlock, status>>
        /\ blocks' = Append(blocks, signature)
        /\ PushCFEntry("block", signature, end, NoBlock, evalStack) /\ PushBlockEntry(signature, end)
        /\ terminated' = terminated \cup none /\ edges' = edges \cup none
    BY DEF Block
  <1>2. /\ signature \in ResultTypes /\ evalStack \in Seq(Operands) /\ end \in Nat /\ NoBlock \in Nat
        /\ "block" \in Kinds /\ TypeOK
    BY ResultsAssumption, TypeParts DEF IInv, StackTypes, GraphTypes, Kinds, NoBlock
  <1>3. new \in Seq(ResultTypes) /\ Len(new) = 1 /\ new[1] = signature /\ blocks' = blocks \o new
    BY <1>1, <1>2, TypeParts DEF GraphTypes
  <1> HIDE DEF new
  <1>4. /\ New = {end} /\ blocks'[end] = signature /\ end # NoBlock
        /\ insertBlock \in DOMAIN blocks /\ end \notin DOMAIN blocks /\ insertBlock # NoBlock
    <2>1. /\ Len(blocks) \in Nat /\ DOMAIN blocks = 1 .. Len(blocks)
          /\ \A k \in 1 .. 1 : blocks'[Len(blocks) + k] = new[k]
          /\ New = Len(blocks) + 1 .. Len(blocks) + 1
      BY <1>2, <1>3, BlocksAdded
    <2>2. insertBlock \in DOMAIN blocks /\ insertBlock # NoBlock
      BY <1>1, LiveFacts
    <2>3. 1 \in 1 .. 1
      OBVIOUS
    <2>4. blocks'[end] = signature
      BY <1>3, <2>1, <2>3
    <2>5. New = {end} /\ end # NoBlock /\ end \notin DOMAIN blocks
      BY <2>1 DEF NoBlock
    <2> QED
      BY <2>2, <2>4, <2>5
  <1> HIDE DEF end
  <1>5. Opens(none, none, end, NoBlock, end)
    BY <1>1, <1>4 DEF Opens
  <1> HIDE DEF none
  <1> QED
    BY <1>1, <1>2, <1>3, <1>4, <1>5, StructureGraph

\* Loop keeps the graph.
LEMMA LoopGraph ==
    ASSUME IInv, IInv', GraphInv, NEW signature \in BlockTypes, Loop(signature)
    PROVE  GraphInv' /\ TerminatorsKept
PROOF
  <1> DEFINE entry == Len(blocks) + 1
             end == Len(blocks) + 2
             new == <<Void, signature>>
             E == {<<insertBlock, entry, Taken>>}
             T == {insertBlock}
  <1>1. /\ Live /\ UNCHANGED <<incoming, status>>
        /\ blocks' = blocks \o new /\ insertBlock' = entry
        /\ PushCFEntry("loop", signature, end, NoBlock, evalStack) /\ PushBlockEntry(Void, entry)
        /\ terminated' = terminated \cup T /\ edges' = edges \cup E
    BY DEF Loop
  <1>2. /\ signature \in ResultTypes /\ evalStack \in Seq(Operands) /\ end \in Nat /\ NoBlock \in Nat
        /\ "loop" \in Kinds /\ TypeOK /\ entry \in Nat /\ Void \in ResultTypes
    BY ResultsAssumption, TypeParts, ValTypesFacts DEF IInv, StackTypes, GraphTypes, Kinds, NoBlock
  <1>3. new \in Seq(ResultTypes) /\ Len(new) = 2 /\ new[1] = Void /\ new[2] = signature
    BY <1>2
  <1> HIDE DEF new
  <1>4. /\ New = {entry, end} /\ blocks'[end] = signature /\ blocks'[entry] = Void
        /\ end # NoBlock /\ entry # NoBlock /\ entry # end
        /\ insertBlock \in DOMAIN blocks /\ end \notin DOMAIN blocks /\ entry \notin DOMAIN blocks
    <2>1. /\ Len(blocks) \in Nat /\ DOMAIN blocks = 1 .. Len(blocks)
          /\ \A k \in 1 .. 2 : blocks'[Len(blocks) + k] = new[k]
          /\ New = Len(blocks) + 1 .. Len(blocks) + 2
      BY <1>1, <1>2, <1>3, BlocksAdded
    <2>2. insertBlock \in DOMAIN blocks
      BY <1>1, LiveFacts
    <2> QED
      BY <1>3, <2>1, <2>2 DEF NoBlock
  <1> HIDE DEF end, entry
  <1>5. NoBlock \notin DOMAIN blocks
    BY <1>2, TypeParts, LenProperties DEF GraphTypes, NoBlock
  <1>6. Opens(T, E, end, NoBlock, entry)
    <2>1. {insertBlock} \cup New = T \cup ({insertBlock', end, NoBlock} \ {NoBlock})
      BY <1>1, <1>4
    <2>2. insertBlock' \notin {end, NoBlock} /\ T \cap {insertBlock', end, NoBlock} = {}
      BY <1>1, <1>4, <1>5
    <2>3. \A e \in E : e[1] = insertBlock /\ e[2] \in New /\ blocks'[e[2]] = Void
      BY <1>4
    <2> HIDE DEF E, T
    <2> QED
      BY <1>1, <1>4, <2>1, <2>2, <2>3 DEF Opens
  <1> HIDE DEF E, T
  <1> QED
    BY <1>1, <1>2, <1>3, <1>4, <1>6, StructureGraph

\* If keeps the graph.
LEMMA IfGraph ==
    ASSUME IInv, IInv', GraphInv, NEW signature \in BlockTypes, If(signature), ~Stop("invalid")
    PROVE  GraphInv' /\ TerminatorsKept
PROOF
  <1> DEFINE then == Len(blocks) + 1
             else == Len(blocks) + 2
             end == Len(blocks) + 3
             new == <<Void, Void, signature>>
             E == {<<insertBlock, then, Taken>>, <<insertBlock, else, NotTaken>>}
             T == {insertBlock}
  <1>1. /\ Live /\ UNCHANGED <<incoming, status>>
        /\ blocks' = blocks \o new /\ insertBlock' = then
        /\ PushCFEntry("if", signature, end, else, evalStack') /\ PushBlockEntry(signature, end)
        /\ terminated' = terminated \cup T /\ edges' = edges \cup E
    BY DEF If
  <1>2. /\ signature \in ResultTypes /\ end \in Nat /\ else \in Nat
        /\ "if" \in Kinds /\ TypeOK /\ then \in Nat /\ Void \in ResultTypes
    BY ResultsAssumption, TypeParts, ValTypesFacts DEF IInv, GraphTypes, Kinds
  <1>3. evalStack' \in Seq(Operands)
    BY TypePartsNext DEF IInv, StackTypes
  <1>4. new \in Seq(ResultTypes) /\ Len(new) = 3 /\ new[1] = Void /\ new[2] = Void /\ new[3] = signature
    BY <1>2
  <1> HIDE DEF new
  <1>5. /\ New = {then, else, end} /\ blocks'[end] = signature
        /\ blocks'[then] = Void /\ blocks'[else] = Void
        /\ NoBlock \notin {then, else, end} /\ then # end /\ else # end /\ then # else
        /\ insertBlock \in DOMAIN blocks /\ DOMAIN blocks \cap {then, else, end} = {}
    <2>1. /\ Len(blocks) \in Nat /\ DOMAIN blocks = 1 .. Len(blocks)
          /\ \A k \in 1 .. 3 : blocks'[Len(blocks) + k] = new[k]
          /\ New = Len(blocks) + 1 .. Len(blocks) + 3
      BY <1>1, <1>2, <1>4, BlocksAdded
    <2>2. insertBlock \in DOMAIN blocks
      BY <1>1, LiveFacts
    <2> QED
      BY <1>4, <2>1, <2>2 DEF NoBlock
  <1> HIDE DEF then, else, end
  <1>6. Opens(T, E, end, else, end)
    <2>1. {insertBlock} \cup New = T \cup ({insertBlock', end, else} \ {NoBlock})
      BY <1>1, <1>5
    <2>2. insertBlock' \notin {end, else, NoBlock} /\ T \cap {insertBlock', end, else} = {}
      BY <1>1, <1>5
    <2>3. \A e \in E : e[1] = insertBlock /\ e[2] \in New /\ blocks'[e[2]] = Void
      BY <1>5
    <2> HIDE DEF E, T
    <2> QED
      BY <1>1, <1>5, <2>1, <2>2, <2>3 DEF Opens
  <1> HIDE DEF E, T
  <1> QED
    BY <1>1, <1>2, <1>3, <1>4, <1>5, <1>6, StructureGraph

\* The jump from a frame that closes to the end of its structure.
LEMMA JoinFacts ==
    ASSUME IInv, GraphInv, InBody
    PROVE  /\ TypeOK /\ OpenInv /\ Open /\ Phis /\ Within /\ PhiPerEdge
           /\ Top.end \in DOMAIN blocks \ terminated /\ blocks[Top.end] = Top.signature
           /\ JoinValues \in SUBSET JoinEdges
           /\ \A e \in JoinEdges :
                /\ e[1] \in DOMAIN blocks \ terminated /\ e[2] = Top.end
                /\ blocks[e[2]] = Void \/ e \in JoinValues
PROOF
  <1>1. TypeOK /\ OpenInv /\ Phis /\ Within /\ PhiPerEdge
    BY DEF IInv, GraphInv, InBody, Phis
  <1>2. /\ Open /\ Top.end \in DOMAIN blocks \ terminated
        /\ Top = cfEntries[Len(cfEntries)] /\ Len(cfEntries) \in DOMAIN cfEntries
    BY <1>1, AtTop
  <1>3. blocks[Top.end] = Top.signature
    BY <1>1, <1>2 DEF Phis, EndsTyped
  <1>4. Top.reachable => insertBlock \in DOMAIN blocks \ terminated
    BY <1>2 DEF Open, Current
  <1>5. JoinValues \in SUBSET JoinEdges
    BY DEF JoinValues
  <1>6. ASSUME NEW e \in JoinEdges
        PROVE  /\ e[1] \in DOMAIN blocks \ terminated /\ e[2] = Top.end
               /\ blocks[e[2]] = Void \/ e \in JoinValues
    <2>1. Top.reachable /\ e[1] = insertBlock /\ e[2] = Top.end
      BY <1>6 DEF JoinEdges
    <2>2. CASE Top.signature = Void
      BY <1>3, <1>4, <2>1, <2>2
    <2>3. CASE Top.signature # Void
      <3>1. Yielded # <<>>
        BY <2>1, <2>3 DEF Yielded, Carried
      <3>2. e \in JoinValues
        BY <3>1, <1>6 DEF JoinValues
      <3> QED
        BY <1>4, <2>1, <3>2
    <2> QED
      BY <2>2, <2>3
  <1> QED
    BY <1>1, <1>2, <1>3, <1>5, <1>6

\* Else keeps the graph.
LEMMA ElseGraph ==
    ASSUME IInv, IInv', GraphInv, Else, \A outcome \in Finished : ~Stop(outcome)
    PROVE  GraphInv' /\ TerminatorsKept
PROOF
  <1>1. /\ AtJoin /\ edges' = edges \cup JoinEdges /\ incoming' = incoming \cup JoinValues
        /\ cfEntries' = [cfEntries EXCEPT ![Len(cfEntries)] =
                           [@ EXCEPT !.instr = "else", !.reachable = TRUE, !.else = NoBlock]]
        /\ UNCHANGED <<blockEntries, blocks, status>>
    BY Outcomes DEF Else
  <1>2. InBody /\ status = "body"
    BY <1>1 DEF AtJoin, InBody
  <1>3. OpenInv'
    BY <1>2, ElseOpens, JoinFacts DEF IInv
  <1>4. Len(blocks') >= Len(blocks) /\ \A b \in DOMAIN blocks : blocks'[b] = blocks[b]
    BY <1>1, TypeParts, LenProperties DEF IInv, GraphTypes
  <1>5. \A e \in JoinEdges :
           /\ e[1] \in DOMAIN blocks' \ terminated /\ e[2] \in DOMAIN blocks'
           /\ blocks'[e[2]] = Void \/ e \in JoinValues \/ e[3] = FallThrough
    BY <1>1, <1>2, JoinFacts
  <1>6. Within' /\ PhiPerEdge' /\ TerminatorsKept
    BY <1>1, <1>2, <1>4, <1>5, EdgesAdded, JoinFacts DEF IInv
  <1>7. /\ DOMAIN cfEntries' = DOMAIN cfEntries
        /\ \A i \in DOMAIN cfEntries : cfEntries'[i].end = cfEntries[i].end
                                        /\ cfEntries'[i].signature = cfEntries[i].signature
    <2>1. \A i \in DOMAIN cfEntries : cfEntries[i] \in Entries
      BY StackLengths
    <2>2. cfEntries \in Seq(Entries)
      BY StackLengths
    <2> QED
      BY <1>1, <2>1, <2>2 DEF Entries
  <1>8. EndsTyped' /\ TargetsTyped'
    BY <1>1, <1>2, <1>4, <1>7, SamePhis, JoinFacts DEF IInv
  <1> QED
    BY <1>1, <1>2, <1>3, <1>6, <1>8, Assembled

\* A stack without its last elements.
LEMMA Shortened ==
    ASSUME NEW S, NEW seq \in Seq(S), NEW k \in 0 .. Len(seq)
    PROVE  /\ DOMAIN SubSeq(seq, 1, k) = 1 .. k
           /\ \A i \in 1 .. k : SubSeq(seq, 1, k)[i] = seq[i]
OBVIOUS

\* End keeps the graph.
LEMMA EndGraph ==
    ASSUME IInv, IInv', GraphInv, End, \A outcome \in Finished : ~Stop(outcome)
    PROVE  GraphInv' /\ TerminatorsKept
PROOF
  <1> DEFINE n == Len(cfEntries)
             E == JoinEdges \cup FallThroughEdges
  <1>1. /\ AtJoin /\ edges' = edges \cup E /\ incoming' = incoming \cup JoinValues
        /\ blocks' = IF HasIncoming(incoming') THEN blocks ELSE [blocks EXCEPT ![Top.end] = Void]
        /\ blockEntries' = SubSeq(blockEntries, 1, Top.outerBlockDepth)
        /\ cfEntries' = SubSeq(cfEntries, 1, n - 1)
        /\ UNCHANGED status
    BY Outcomes DEF End
  <1>2. InBody /\ status = "body"
    BY <1>1 DEF AtJoin, InBody
  <1>3. OpenInv'
    BY <1>2, EndOpens, JoinFacts DEF IInv
  <1>4. /\ n \in Nat \ {0} /\ DOMAIN cfEntries = 1 .. n /\ cfEntries \in Seq(Entries)
        /\ DOMAIN blockEntries = 1 .. n /\ blockEntries \in Seq(Targets)
        /\ Top.outerBlockDepth = n - 1
        /\ \A i \in 1 .. n : i # n => cfEntries[i].end # Top.end
        /\ Top.else # NoBlock => Top.else \in DOMAIN blocks \ terminated
    <2>1. /\ n \in Nat \ {0} /\ DOMAIN cfEntries = 1 .. n /\ cfEntries \in Seq(Entries)
          /\ DOMAIN blockEntries = 1 .. n /\ blockEntries \in Seq(Targets)
      BY <1>2, StackLengths DEF InBody
    <2>2. /\ \A i \in 1 .. n : i # n => cfEntries[i].end # Top.end
          /\ Top.else # NoBlock => Top.else \in DOMAIN blocks \ terminated
      BY <1>2, <2>1, AtTop, JoinFacts
    <2>3. Top.outerBlockDepth = n - 1
      BY <2>1 DEF IInv, StacksInv, FramesAligned, Top
    <2> QED
      BY <2>1, <2>2, <2>3
  <1>5. /\ DOMAIN cfEntries' = 1 .. n - 1 /\ \A i \in 1 .. n - 1 : cfEntries'[i] = cfEntries[i]
        /\ DOMAIN blockEntries' = 1 .. n - 1 /\ \A i \in 1 .. n - 1 : blockEntries'[i] = blockEntries[i]
    <2>1. n - 1 \in 0 .. Len(cfEntries) /\ n - 1 \in 0 .. Len(blockEntries)
      <3>1. n \in Nat \ {0}
        BY <1>4
      <3>2. Len(cfEntries) = n /\ Len(blockEntries) = n
        BY StackLengths
      <3> HIDE DEF n
      <3> QED
        BY <3>1, <3>2
    <2>2. cfEntries' = SubSeq(cfEntries, 1, n - 1) /\ blockEntries' = SubSeq(blockEntries, 1, n - 1)
      BY <1>1, <1>4
    <2> HIDE DEF n
    <2> QED
      BY <1>4, <2>1, <2>2, Shortened
  <1>6. /\ DOMAIN blocks' = DOMAIN blocks /\ Len(blocks') >= Len(blocks)
        /\ \A b \in DOMAIN blocks : blocks'[b] \in {blocks[b], Void}
        /\ \A b \in DOMAIN blocks : b # Top.end => blocks'[b] = blocks[b]
    <2>1. blocks \in Seq(ResultTypes) /\ Len(blocks) \in Nat
      BY TypeParts, LenProperties DEF IInv, GraphTypes
    <2> QED
      BY <1>1, <2>1
  <1> HIDE DEF n
  <1>7. JoinValues \in SUBSET E
    BY <1>2, JoinFacts
  <1>8. ASSUME NEW e \in E
        PROVE  /\ e[1] \in DOMAIN blocks' \ terminated /\ e[2] \in DOMAIN blocks'
               /\ blocks'[e[2]] = Void \/ e \in JoinValues \/ e[3] = FallThrough
    <2>1. CASE e \in JoinEdges
      BY <1>2, <1>6, <2>1, JoinFacts
    <2>2. CASE e \in FallThroughEdges
      <3>1. Top.else # NoBlock /\ e = <<Top.else, Top.end, FallThrough>>
        BY <2>2 DEF FallThroughEdges
      <3>2. Top.end \in DOMAIN blocks
        BY <1>2, JoinFacts
      <3> QED
        BY <1>4, <1>6, <3>1, <3>2
    <2> QED
      BY <2>1, <2>2
  <1> HIDE DEF E
  <1>9. Within' /\ PhiPerEdge' /\ TerminatorsKept
    BY <1>1, <1>2, <1>6, <1>7, <1>8, EdgesAdded, JoinFacts DEF IInv
  <1>10. EndsTyped'
    <2>1. ASSUME NEW i \in 1 .. n - 1
          PROVE  /\ cfEntries'[i].end \in DOMAIN blocks'
                 /\ blocks'[cfEntries'[i].end] = cfEntries'[i].signature
      <3>1. i \in 1 .. n /\ i # n
        BY <1>4
      <3>2. cfEntries[i].end \in DOMAIN blocks /\ blocks[cfEntries[i].end] = cfEntries[i].signature
        BY <1>2, <1>4, <3>1, JoinFacts DEF Phis, EndsTyped
      <3> QED
        BY <1>4, <1>5, <1>6, <3>1, <3>2
    <2> QED
      BY <1>5, <2>1 DEF EndsTyped
  <1>11. TargetsTyped'
    <2>1. ASSUME NEW i \in 1 .. n - 1
          PROVE  /\ blockEntries'[i].block \in DOMAIN blocks'
                 /\ blocks'[blockEntries'[i].block] = blockEntries'[i].signature
      <3>1. i \in 1 .. n /\ i # n
        BY <1>4
      <3>2. /\ blockEntries[i].block \in DOMAIN blocks
            /\ blocks[blockEntries[i].block] = blockEntries[i].signature
        BY <1>2, <1>4, <3>1, JoinFacts DEF Phis, TargetsTyped
      <3>3. blocks'[blockEntries[i].block] = blocks[blockEntries[i].block]
        <4>1. CASE cfEntries[i].instr = "loop"
          <5>1. blockEntries[i].signature = Void
            BY <1>4, <3>1, <4>1 DEF IInv, StacksInv, FramesAligned
          <5> QED
            BY <1>6, <3>2, <5>1
        <4>2. CASE cfEntries[i].instr # "loop"
          <5>1. blockEntries[i].block = cfEntries[i].end
            BY <1>4, <3>1, <4>2 DEF IInv, StacksInv, FramesAligned
          <5> QED
            BY <1>4, <1>6, <3>1, <3>2, <5>1
        <4> QED
          BY <4>1, <4>2
      <3> QED
        BY <1>5, <1>6, <3>2, <3>3
    <2> QED
      BY <1>5, <2>1 DEF TargetsTyped
  <1> QED
    BY <1>1, <1>2, <1>3, <1>9, <1>10, <1>11, Assembled

\* Start keeps the graph.
LEMMA StartGraph ==
    ASSUME IInv, IInv', GraphInv, NEW result \in BodyResults, StartFunction(result)
    PROVE  GraphInv' /\ TerminatorsKept
PROOF
  <1> DEFINE entry == [instr |-> "function", signature |-> result, end |-> FuncEnd,
                       else |-> NoBlock, outerStackSize |-> Len(evalStack),
                       outerBlockDepth |-> Len(blockEntries), reachable |-> TRUE]
             target == [signature |-> result, block |-> FuncEnd]
  <1>1. /\ status = "section" /\ status' = "body"
        /\ blocks' = <<result, Void>> /\ UNCHANGED <<terminated, edges, incoming>>
        /\ cfEntries' = Append(cfEntries, entry) /\ blockEntries' = Append(blockEntries, target)
    BY DEF StartFunction, PushCFEntry, PushBlockEntry
  <1>2. terminated = {} /\ edges = {} /\ incoming = {}
    BY <1>1 DEF GraphInv, IdleGraph
  <1>3. cfEntries = <<>> /\ blockEntries = <<>>
    BY <1>1 DEF IInv, StacksInv, Idle, FunctionEndsClean
  <1>4. OpenInv'
    BY <1>2, FunctionOpens DEF IInv
  <1>5. /\ entry.end = FuncEnd /\ entry.signature = result
        /\ target.block = FuncEnd /\ target.signature = result
    OBVIOUS
  <1> HIDE DEF entry, target
  <1>6. /\ DOMAIN cfEntries' = {1} /\ cfEntries'[1] = entry
        /\ DOMAIN blockEntries' = {1} /\ blockEntries'[1] = target
    <2>1. cfEntries' = <<entry>> /\ blockEntries' = <<target>>
      BY <1>1, <1>3
    <2> QED
      BY <2>1
  <1>7. FuncEnd \in DOMAIN blocks' /\ blocks'[FuncEnd] = result
    BY <1>1 DEF FuncEnd
  <1>8. EndsTyped' /\ TargetsTyped'
    BY <1>5, <1>6, <1>7 DEF EndsTyped, TargetsTyped
  <1>9. edges' = {} /\ incoming' = {}
    BY <1>1, <1>2
  <1>10. Within' /\ PhiPerEdge'
    BY <1>9 DEF Within, PhiPerEdge, Into
  <1>11. TerminatorsKept
    BY <1>1 DEF TerminatorsKept
  <1> QED
    BY <1>1, <1>4, <1>8, <1>10, <1>11, Assembled

\* Outside a function there is no graph.
LEMMA NoGraph ==
    ASSUME status' # "body", blocks' = <<>>, terminated' = {}, edges' = {}, incoming' = {}
    PROVE  GraphInv' /\ TerminatorsKept
BY DEF GraphInv, OpenInv, IdleGraph, PhiPerEdge, TerminatorsKept

-----------------------------------------------------------------------------
(* Every step.                                                             *)

\* Every step keeps the graph.
LEMMA StepGraph == IInv /\ IInv' /\ GraphInv /\ [Next]_vars => GraphInv' /\ TerminatorsKept
PROOF
  <1> SUFFICES ASSUME IInv, IInv', GraphInv, [Next]_vars PROVE GraphInv' /\ TerminatorsKept
    OBVIOUS
  <1>1. CASE UNCHANGED vars
    BY <1>1, GraphStays DEF vars, graph
  <1>2. CASE \E outcome \in Finished : Stop(outcome)
    BY <1>2, NoGraph DEF Stop, Finished
  <1>3. ASSUME NEW signature \in BlockTypes,
               Block(signature) \/ Loop(signature) \/ If(signature),
               \A outcome \in Finished : ~Stop(outcome)
        PROVE  GraphInv' /\ TerminatorsKept
    BY <1>3, Outcomes, BlockGraph, LoopGraph, IfGraph
  <1>4. CASE SkipBlock \/ SkipEnd \/ SkipOther
    BY <1>1, <1>4, GraphStays DEF SkipBlock, SkipEnd, SkipOther
  <1>5. ASSUME ControlStep, \A outcome \in Finished : ~Stop(outcome)
        PROVE  GraphInv' /\ TerminatorsKept
    BY <1>3, <1>4, <1>5, StartGraph, ElseGraph, EndGraph DEF ControlStep
  <1>6. CASE FinishFunction
    BY <1>6, NoGraph DEF FinishFunction
  <1>7. CASE FinishModule
    <2>1. status = "section" /\ status' # "body" /\ UNCHANGED <<blocks, terminated, edges, incoming>>
      BY <1>7 DEF FinishModule, graph
    <2> QED
      BY <2>1, NoGraph DEF GraphInv, IdleGraph
  <1>8. CASE OutcomeStep
    BY <1>2, <1>6, <1>7, <1>8, Outcomes
       DEF OutcomeStep, UndeclaredFunction, BadImmediate, Malformed, BodySizeMismatch
  <1> QED
    BY <1>1, <1>2, <1>5, <1>8, JumpGraph, StraightGraph DEF Next

\* There is no graph yet.
LEMMA InitGraph == Init => GraphInv
BY DEF Init, GraphInv, OpenInv, IdleGraph, PhiPerEdge

\* GraphInv is inductive next to the invariant of the stacks: from the empty
\* module on, every instruction leaves each block of the function terminated
\* or waiting for a known instruction, and each phi with the values it needs.
THEOREM GraphInvariance == Spec => []GraphInv
PROOF
  <1> QED
    BY Invariance, InitGraph, StepGraph, PTL DEF Spec

\* The blocks still open are the ends and elses to come and the insertion
\* block: no block is closed twice or forgotten.
THEOREM BlocksAreOpen == Spec => []OpenBlocks
PROOF
  <1>1. GraphInv => OpenBlocks
    BY DEF GraphInv, OpenInv, Open, OpenBlocks, Ends, Elses, Current
  <1> QED
    BY <1>1, GraphInvariance, PTL

\* A phi has a value for each edge into its block but that of a missing else.
THEOREM PhisAreComplete == Spec => []PhiPerEdge
PROOF
  <1>1. GraphInv => PhiPerEdge
    BY DEF GraphInv
  <1> QED
    BY <1>1, GraphInvariance, PTL

\* The terminator of a block never gets another successor.
THEOREM TerminatorsAreFinal == Spec => TerminatorsFinal
PROOF
  <1> QED
    BY Invariance, GraphInvariance, StepGraph, PTL DEF Spec, TerminatorsFinal
=============================================================================
