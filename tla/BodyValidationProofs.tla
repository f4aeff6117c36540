------------------------ MODULE BodyValidationProofs ------------------------
(***************************************************************************)
(* The translator follows the typing rules: as long as the rules are       *)
(* obeyed its one operand stack is the operands of the open structures,    *)
(* and it throws nothing; and it accepts no ill typed body but those whose *)
(* breaches it does not look at.  For any signatures, opcode families and  *)
(* bounds.                                                                 *)
(***************************************************************************)
EXTENDS BodyValidation, FunctionBodyProofs

FrameTypes == [kind : Kinds, label : Seq(ValTypes), result : ResultTypes,
               operands : Seq(ValTypes), live : BOOLEAN, skipped : Nat]

-----------------------------------------------------------------------------
(* The operands of a structure.                                            *)

\* The types of the values of a stack above one size and up to another.
TypesOf(stack, from, to) == [k \in 1 .. to - from |-> stack[from + k].type]

Outer(i) == cfEntries[i].outerStackSize
Last(i) == IF i = Len(cfEntries) THEN Len(evalStack) ELSE Outer(i + 1)

Agrees(i) ==
    /\ frames[i].operands = TypesOf(evalStack, Outer(i), Last(i))
    /\ frames[i].label = Carried(blockEntries[i].signature)
    /\ frames[i].result = cfEntries[i].signature
    /\ frames[i].live = cfEntries[i].reachable
    /\ frames[i].skipped = IF i = Len(cfEntries) THEN unreachableDepth ELSE 0
    /\ frames[i].kind = "if" <=> cfEntries[i].else # NoBlock

\* The operands of a structure lie above those of the ones around it.
Nested ==
    /\ \A i \in DOMAIN cfEntries : Outer(i) <= Len(evalStack)
    /\ \A i, j \in DOMAIN cfEntries : i <= j => Outer(i) <= Outer(j)

Agreement ==
    /\ frames \in Seq(FrameTypes) /\ Len(frames) = Len(cfEntries)
    /\ Nested
    /\ \A i \in DOMAIN cfEntries : Agrees(i)

Obeyed == status = "body" /\ refusedAt = "none"
LockInv == Obeyed => Agreement

\* The types of a part of a stack, one for each of its values.
LEMMA TypesOfSeq ==
    ASSUME NEW stack \in Seq(Operands), NEW from \in Nat, NEW to \in Nat, from <= to, to <= Len(stack)
    PROVE  /\ TypesOf(stack, from, to) \in Seq(ValTypes)
           /\ Len(TypesOf(stack, from, to)) = to - from
           /\ \A k \in 1 .. to - from : TypesOf(stack, from, to)[k] = stack[from + k].type
PROOF
  <1>1. \A i \in 1 .. Len(stack) : stack[i].type \in ValTypes
    <2>1. \A i \in 1 .. Len(stack) : stack[i] \in Operands
      BY ElementOfSeq
    <2> QED
      BY <2>1 DEF Operands
  <1>2. Len(stack) \in Nat
    BY LenProperties
  <1>3. \A k \in 1 .. to - from : stack[from + k].type \in ValTypes
    BY <1>1, <1>2
  <1>4. to - from \in Nat
    OBVIOUS
  <1>5. TypesOf(stack, from, to) \in [1 .. to - from -> ValTypes]
    BY <1>3 DEF TypesOf
  <1>6. TypesOf(stack, from, to) \in Seq(ValTypes) /\ Len(TypesOf(stack, from, to)) = to - from
    BY <1>4, <1>5
  <1> QED
    BY <1>6 DEF TypesOf

\* What the innermost structure holds, whose frame is the last.
LEMMA InnerFrame ==
    ASSUME IInv, Agreement, InBody
    PROVE  /\ Len(frames) = Len(cfEntries) /\ Len(cfEntries) \in DOMAIN cfEntries
           /\ Len(cfEntries) \in Nat \ {0} /\ DOMAIN frames = 1 .. Len(frames)
           /\ Inner \in FrameTypes /\ Inner.operands \in Seq(ValTypes)
           /\ Top.outerStackSize \in Nat /\ Len(evalStack) \in Nat
           /\ Top.outerStackSize <= Len(evalStack)
           /\ Inner.operands = TypesOf(evalStack, Top.outerStackSize, Len(evalStack))
           /\ Len(Inner.operands) = Len(evalStack) - Top.outerStackSize
           /\ \A k \in 1 .. Len(evalStack) - Top.outerStackSize :
                Inner.operands[k] = evalStack[Top.outerStackSize + k].type
           /\ Inner.label = Carried(blockEntries[Len(cfEntries)].signature)
           /\ Inner.result = Top.signature /\ Inner.live = Top.reachable
           /\ Inner.skipped = unreachableDepth
           /\ Inner.kind = "if" <=> Top.else # NoBlock
PROOF
  <1>1. /\ Len(cfEntries) \in Nat \ {0} /\ Top.outerStackSize \in Nat
        /\ DOMAIN cfEntries = 1 .. Len(cfEntries)
    BY TopType, StackLengths DEF IInv
  <1>2. frames \in Seq(FrameTypes) /\ Len(frames) = Len(cfEntries) /\ Agrees(Len(cfEntries)) /\ Nested
    BY <1>1 DEF Agreement
  <1>3. DOMAIN frames = 1 .. Len(frames) /\ Inner \in FrameTypes
    BY <1>1, <1>2, ElementOfSeq, LenProperties DEF Inner
  <1>4. evalStack \in Seq(Operands) /\ Len(evalStack) \in Nat
    BY TypeParts, LenProperties DEF IInv, StackTypes
  <1>5. Top.outerStackSize <= Len(evalStack)
    BY <1>1, <1>2 DEF Nested, Outer, Top
  <1>6. Inner.operands = TypesOf(evalStack, Top.outerStackSize, Len(evalStack))
    BY <1>2 DEF Agrees, Inner, Outer, Last, Top
  <1>7. /\ Inner.operands \in Seq(ValTypes) /\ Len(Inner.operands) = Len(evalStack) - Top.outerStackSize
        /\ \A k \in 1 .. Len(evalStack) - Top.outerStackSize :
             Inner.operands[k] = evalStack[Top.outerStackSize + k].type
    <2> DEFINE types == TypesOf(evalStack, Top.outerStackSize, Len(evalStack))
    <2>1. /\ types \in Seq(ValTypes) /\ Len(types) = Len(evalStack) - Top.outerStackSize
          /\ \A k \in 1 .. Len(evalStack) - Top.outerStackSize :
               types[k] = evalStack[Top.outerStackSize + k].type
      <3>1. Len(evalStack) <= Len(evalStack)
        BY <1>4
      <3> QED
        BY <1>1, <1>4, <1>5, <3>1, TypesOfSeq
    <2> QED
      BY <1>6, <2>1
  <1>8. /\ Inner.label = Carried(blockEntries[Len(cfEntries)].signature)
        /\ Inner.result = Top.signature /\ Inner.live = Top.reachable
        /\ Inner.skipped = unreachableDepth
        /\ Inner.kind = "if" <=> Top.else # NoBlock
    BY <1>2 DEF Agrees, Inner, Top
  <1> QED
    BY <1>1, <1>2, <1>3, <1>4, <1>5, <1>6, <1>7, <1>8

\* A rule that finds its operands in the innermost frame lets pop() find them.
LEMMA HoldsFits ==
    ASSUME IInv, Agreement, InBody, NEW operands \in Seq(ValTypes), Holds(operands)
    PROVE  /\ Len(operands) \in Nat /\ Len(operands) <= Len(Inner.operands)
           /\ Top.outerStackSize + Len(operands) <= Len(evalStack)
           /\ Fits(operands)
PROOF
  <1> DEFINE s == Inner.operands
             n == Len(operands)
             tail == SubSeq(s, Len(s) - n + 1, Len(s))
  <1>1. n \in Nat /\ Len(s) \in Nat /\ Len(s) >= n /\ tail = operands
    BY InnerFrame, LenProperties DEF Holds
  <1>2. Len(s) = Len(evalStack) - Top.outerStackSize /\ Len(evalStack) \in Nat /\ Top.outerStackSize \in Nat
    BY InnerFrame
  <1>3. \A k \in 1 .. n : tail[k] = s[Len(s) - n + k]
    <2>1. \A i \in Len(s) - n + 1 .. Len(s) : s[i] \in ValTypes
      BY <1>1, InnerFrame, ElementOfSeq
    <2>2. Len(s) - n + 1 \in Int /\ Len(s) \in Int
      BY <1>1
    <2> HIDE DEF s, n
    <2>3. \A i \in 1 .. Len(s) - (Len(s) - n + 1) + 1 : tail[i] = s[(Len(s) - n + 1) + i - 1]
      BY <2>1, <2>2, SubSeqProperties
    <2> QED
      BY <1>1, <2>3
  <1>4. \A k \in 1 .. n : s[Len(s) - n + k] = evalStack[Len(evalStack) - n + k].type
    <2>1. \A k \in 1 .. n : /\ Len(s) - n + k \in 1 .. Len(evalStack) - Top.outerStackSize
                            /\ Top.outerStackSize + (Len(s) - n + k) = Len(evalStack) - n + k
      <3> HIDE DEF s, n, tail
      <3> QED
        BY <1>1, <1>2
    <2>2. \A k \in 1 .. Len(evalStack) - Top.outerStackSize : s[k] = evalStack[Top.outerStackSize + k].type
      BY InnerFrame
    <2> QED
      BY <2>1, <2>2
  <1>5. \A k \in 1 .. n : evalStack[Len(evalStack) - n + k].type = operands[k]
    BY <1>1, <1>3, <1>4
  <1> QED
    BY <1>1, <1>2, <1>5 DEF Fits

-----------------------------------------------------------------------------
(* Steps that change the innermost structure only.                         *)

\* Stacks that agree up to a size have the same types up to it.
LEMMA PrefixTypes ==
    ASSUME NEW stack, NEW new, NEW from \in Nat, NEW to \in Nat,
           \A k \in 1 .. to : new[k] = stack[k]
    PROVE  TypesOf(new, from, to) = TypesOf(stack, from, to)
PROOF
  <1>1. \A k \in 1 .. to - from : from + k \in 1 .. to
    OBVIOUS
  <1>2. \A k \in 1 .. to - from : new[from + k] = stack[from + k]
    BY <1>1
  <1> QED
    BY <1>2 DEF TypesOf

\* The positions of a sequence: the last, and the ones before it.
LEMMA Positions ==
    ASSUME NEW n \in Nat \ {0}
    PROVE  /\ n \in 1 .. n /\ n - 1 \in Nat
           /\ \A i \in 1 .. n + 1 : i = n + 1 \/ i \in 1 .. n
           /\ \A i \in 1 .. n : i <= n /\ (i = n \/ i \in 1 .. n - 1)
           /\ \A i \in 1 .. n - 1 : i \in 1 .. n /\ i + 1 \in 1 .. n /\ i # n /\ i <= i + 1
OBVIOUS

\* A position before the last, and the one after it.
LEMMA Before ==
    ASSUME NEW n \in Nat, NEW m \in 1 .. n, NEW l \in Nat, m <= l, NEW i \in 1 .. m - 1
    PROVE  /\ i \in 1 .. n /\ i + 1 \in 1 .. n /\ i + 1 <= m /\ m <= n
           /\ i # n /\ i # l /\ (i + 1 = m \/ i + 1 \in 1 .. m - 1)
OBVIOUS

\* Replacing the last element of a sequence leaves the others.
LEMMA LastReplaced ==
    ASSUME NEW S, NEW s \in Seq(S), Len(s) \in Nat \ {0}, NEW e \in S,
           NEW new, new = [s EXCEPT ![Len(s)] = e]
    PROVE  /\ new \in Seq(S) /\ Len(new) = Len(s) /\ DOMAIN new = 1 .. Len(s)
           /\ new[Len(s)] = e
           /\ \A i \in 1 .. Len(s) - 1 : new[i] = s[i]
PROOF
  <1>1. Len(s) \in 1 .. Len(s)
    OBVIOUS
  <1>2. /\ new \in Seq(S) /\ Len(new) = Len(s)
        /\ \A j \in 1 .. Len(s) : new[j] = IF j = Len(s) THEN e ELSE s[j]
    BY <1>1, ExceptSeq
  <1>3. DOMAIN new = 1 .. Len(s)
    BY <1>2, LenProperties
  <1> QED
    BY <1>1, <1>2, <1>3, Positions

\* The sizes of the stack where the structures start.
LEMMA Sizes ==
    ASSUME IInv, Agreement, InBody
    PROVE  /\ \A i \in 1 .. Len(cfEntries) : Outer(i) \in Nat /\ Outer(i) <= Top.outerStackSize
           /\ \A i, j \in 1 .. Len(cfEntries) : i <= j => Outer(i) <= Outer(j)
           /\ Outer(Len(cfEntries)) = Top.outerStackSize
PROOF
  <1>1. Len(cfEntries) \in Nat \ {0} /\ DOMAIN cfEntries = 1 .. Len(cfEntries)
        /\ cfEntries \in Seq(Entries)
    BY InnerFrame, StackLengths
  <1>2. \A i \in 1 .. Len(cfEntries) : Outer(i) \in Nat
    <2>1. \A i \in 1 .. Len(cfEntries) : cfEntries[i] \in Entries
      BY <1>1, ElementOfSeq
    <2> QED
      BY <2>1 DEF Entries, Outer
  <1>3. \A i, j \in 1 .. Len(cfEntries) : i <= j => Outer(i) <= Outer(j)
    BY <1>1 DEF Agreement, Nested
  <1>4. Outer(Len(cfEntries)) = Top.outerStackSize
    BY DEF Outer, Top
  <1>5. \A i \in 1 .. Len(cfEntries) : Outer(i) <= Outer(Len(cfEntries))
    BY <1>1, <1>3, Positions
  <1> QED
    BY <1>2, <1>3, <1>4, <1>5

\* The structures around the one a step is in agree as before.
LEMMA OuterAgrees ==
    ASSUME IInv, Agreement, InBody, NEW m \in 1 .. Len(cfEntries), m <= Len(cfEntries'),
           Len(cfEntries') \in Nat, Outer(m)' = Outer(m),
           \A i \in 1 .. m - 1 : /\ frames'[i] = frames[i] /\ cfEntries'[i] = cfEntries[i]
                                 /\ blockEntries'[i] = blockEntries[i],
           \A k \in 1 .. Outer(m) : evalStack'[k] = evalStack[k]
    PROVE  \A i \in 1 .. m - 1 : Agrees(i)'
PROOF
  <1> SUFFICES ASSUME NEW i \in 1 .. m - 1
               PROVE  Agrees(i)'
    OBVIOUS
  <1>1. /\ Len(cfEntries) \in Nat \ {0} /\ DOMAIN cfEntries = 1 .. Len(cfEntries)
        /\ m \in Nat
    BY InnerFrame, StackLengths
  <1>2. /\ i \in 1 .. Len(cfEntries) /\ i + 1 \in 1 .. Len(cfEntries) /\ i + 1 <= m
        /\ i # Len(cfEntries) /\ i # Len(cfEntries')
        /\ (i + 1 = m \/ i + 1 \in 1 .. m - 1) /\ m <= Len(cfEntries)
    BY <1>1, Before
  <1>3. Agrees(i) /\ Last(i) = Outer(i + 1)
    BY <1>1, <1>2 DEF Agreement, Last
  <1>4. Outer(i)' = Outer(i) /\ Outer(i + 1)' = Outer(i + 1) /\ Last(i)' = Outer(i + 1)
    <2>1. \A j \in 1 .. m - 1 : Outer(j)' = Outer(j)
      BY DEF Outer
    <2>2. Outer(i + 1)' = Outer(i + 1)
      BY <1>2, <2>1
    <2> QED
      BY <1>2, <2>1, <2>2 DEF Last
  <1>5. Outer(i) \in Nat /\ Outer(i + 1) \in Nat /\ Outer(i + 1) <= Outer(m) /\ Outer(m) \in Nat
    BY <1>1, <1>2, Sizes
  <1>6. TypesOf(evalStack', Outer(i), Outer(i + 1)) = TypesOf(evalStack, Outer(i), Outer(i + 1))
    <2>1. \A k \in 1 .. Outer(i + 1) : k \in 1 .. Outer(m)
      BY <1>5
    <2>2. \A k \in 1 .. Outer(i + 1) : evalStack'[k] = evalStack[k]
      BY <2>1
    <2>3. PICK from \in Nat, to \in Nat : from = Outer(i) /\ to = Outer(i + 1)
      BY <1>5
    <2>4. \A k \in 1 .. to : evalStack'[k] = evalStack[k]
      BY <2>2, <2>3
    <2>5. TypesOf(evalStack', from, to) = TypesOf(evalStack, from, to)
      BY <2>4, PrefixTypes, ZenonT(60)
    <2> QED
      BY <2>3, <2>5
  <1>7. frames'[i].operands = TypesOf(evalStack', Outer(i)', Last(i)')
    <2>1. frames[i].operands = TypesOf(evalStack, Outer(i), Outer(i + 1))
      BY <1>3 DEF Agrees
    <2>2. Outer(i)' = Outer(i) /\ Last(i)' = Outer(i + 1) /\ frames'[i] = frames[i]
      BY <1>4
    <2> QED
      BY <1>6, <2>1, <2>2
  <1>8. /\ frames'[i] = frames[i] /\ cfEntries'[i] = cfEntries[i]
        /\ blockEntries'[i] = blockEntries[i]
    OBVIOUS
  <1> QED
    BY <1>2, <1>3, <1>7, <1>8 DEF Agrees

\* A step inside the innermost structure keeps the agreement of the others, and
\* of that one when its frame and its entry change alike.
LEMMA InnerChanges ==
    ASSUME IInv, Agreement, InBody, NEW frame \in FrameTypes, NEW entry \in Entries,
           frames' = [frames EXCEPT ![Len(frames)] = frame],
           cfEntries' = [cfEntries EXCEPT ![Len(cfEntries)] = entry],
           blockEntries' = blockEntries,
           entry.outerStackSize = Top.outerStackSize, entry.signature = Top.signature,
           frame.kind = "if" <=> entry.else # NoBlock,
           frame.live = entry.reachable, frame.skipped = unreachableDepth',
           frame.label = Inner.label, frame.result = Inner.result,
           Len(evalStack') \in Nat, Top.outerStackSize <= Len(evalStack'),
           \A k \in 1 .. Top.outerStackSize : evalStack'[k] = evalStack[k],
           frame.operands = TypesOf(evalStack', Top.outerStackSize, Len(evalStack'))
    PROVE  Agreement'
PROOF
  <1>0. PICK n : n = Len(cfEntries)
    OBVIOUS
  <1>1. /\ n = Len(cfEntries) /\ n \in Nat \ {0} /\ Len(frames) = n /\ n \in 1 .. n
        /\ DOMAIN frames = 1 .. n /\ DOMAIN cfEntries = 1 .. n
        /\ Top.outerStackSize \in Nat
    BY <1>0, InnerFrame, StackLengths
  <1>2. /\ cfEntries \in Seq(Entries) /\ frames \in Seq(FrameTypes)
    BY StackLengths DEF Agreement
  <1>3. /\ frames' \in Seq(FrameTypes) /\ Len(frames') = n
        /\ frames'[n] = frame
        /\ \A i \in 1 .. n - 1 : frames'[i] = frames[i]
    <2>1. Len(frames) \in Nat \ {0}
      BY <1>1
    <2>2. /\ frames' \in Seq(FrameTypes) /\ Len(frames') = Len(frames)
          /\ frames'[Len(frames)] = frame
          /\ \A i \in 1 .. Len(frames) - 1 : frames'[i] = frames[i]
      BY <1>2, <2>1, LastReplaced
    <2> QED
      BY <1>1, <2>2
  <1>4. /\ cfEntries' \in Seq(Entries) /\ Len(cfEntries') = n /\ DOMAIN cfEntries' = 1 .. n
        /\ cfEntries'[n] = entry
        /\ \A i \in 1 .. n - 1 : cfEntries'[i] = cfEntries[i]
    <2>1. Len(cfEntries) \in Nat \ {0}
      BY <1>1
    <2>2. /\ cfEntries' \in Seq(Entries) /\ Len(cfEntries') = Len(cfEntries)
          /\ DOMAIN cfEntries' = 1 .. Len(cfEntries)
          /\ cfEntries'[Len(cfEntries)] = entry
          /\ \A i \in 1 .. Len(cfEntries) - 1 : cfEntries'[i] = cfEntries[i]
      BY <1>2, <2>1, LastReplaced
    <2> QED
      BY <1>1, <2>2
  <1>5. \A i \in 1 .. n : Outer(i)' = Outer(i)
    <2>1. \A i \in 1 .. n : i = n \/ i \in 1 .. n - 1
      BY <1>1, Positions
    <2>2. cfEntries'[n].outerStackSize = cfEntries[n].outerStackSize
      BY <1>1, <1>4 DEF Top
    <2> QED
      BY <1>4, <2>1, <2>2 DEF Outer
  <1>6. /\ \A i \in 1 .. n : Outer(i) \in Nat /\ Outer(i) <= Top.outerStackSize
        /\ \A i, j \in 1 .. n : i <= j => Outer(i) <= Outer(j)
        /\ Outer(n) = Top.outerStackSize
    BY <1>1, Sizes
  <1>7. Nested'
    <2>1. \A i \in 1 .. n : Outer(i)' <= Len(evalStack')
      BY <1>1, <1>5, <1>6
    <2>2. \A i, j \in 1 .. n : i <= j => Outer(i)' <= Outer(j)'
      BY <1>5, <1>6
    <2> QED
      BY <1>4, <2>1, <2>2 DEF Nested
  <1>8. \A i \in 1 .. n - 1 : Agrees(i)'
    <2>1. n <= Len(cfEntries') /\ Len(cfEntries') \in Nat /\ Outer(n)' = Outer(n)
      BY <1>1, <1>4, <1>5
    <2>2. \A i \in 1 .. n - 1 : /\ frames'[i] = frames[i] /\ cfEntries'[i] = cfEntries[i]
                               /\ blockEntries'[i] = blockEntries[i]
      BY <1>3, <1>4
    <2>3. \A k \in 1 .. Outer(n) : evalStack'[k] = evalStack[k]
      BY <1>6
    <2> QED
      BY <1>1, <2>1, <2>2, <2>3, OuterAgrees
  <1>9. Agrees(n)'
    <2>1. Last(n)' = Len(evalStack') /\ Outer(n)' = Top.outerStackSize
      BY <1>1, <1>4, <1>5, <1>6 DEF Last
    <2>2. frame.operands = TypesOf(evalStack', Outer(n)', Last(n)')
      BY <2>1
    <2>3. Inner.label = Carried(blockEntries[n].signature) /\ Inner.result = Top.signature
      BY <1>1, InnerFrame
    <2> QED
      BY <1>1, <1>3, <1>4, <2>2, <2>3 DEF Agrees
  <1>10. \A i \in 1 .. n : Agrees(i)'
    <2>1. \A i \in 1 .. n : i = n \/ i \in 1 .. n - 1
      BY <1>1, Positions
    <2> QED
      BY <1>8, <1>9, <2>1
  <1> QED
    BY <1>3, <1>4, <1>7, <1>10 DEF Agreement

\* A list of types followed by another.
LEMMA TypesConcat ==
    ASSUME NEW a \in Seq(ValTypes), NEW b \in Seq(ValTypes)
    PROVE  /\ a \o b \in Seq(ValTypes) /\ Len(a \o b) = Len(a) + Len(b)
           /\ \A i \in 1 .. Len(a) + Len(b) :
                (a \o b)[i] = IF i <= Len(a) THEN a[i] ELSE b[i - Len(a)]
BY ConcatProperties

\* Values pushed on the stack add their types to the structure's operands.
LEMMA TypesPushed ==
    ASSUME NEW s \in Seq(Operands), NEW t \in Seq(Operands), NEW types \in Seq(ValTypes),
           NEW from \in Nat, from <= Len(s), Len(types) = Len(t),
           \A k \in 1 .. Len(t) : t[k].type = types[k]
    PROVE  /\ s \o t \in Seq(Operands) /\ Len(s \o t) = Len(s) + Len(t) /\ from <= Len(s \o t)
           /\ TypesOf(s \o t, from, Len(s \o t)) = TypesOf(s, from, Len(s)) \o types
PROOF
  <1>1. Len(s) \in Nat /\ Len(t) \in Nat /\ Len(types) \in Nat
    BY LenProperties
  <1>2. /\ s \o t \in Seq(Operands) /\ Len(s \o t) = Len(s) + Len(t)
        /\ \A i \in 1 .. Len(s) + Len(t) :
             (s \o t)[i] = IF i <= Len(s) THEN s[i] ELSE t[i - Len(s)]
    BY ConcatProperties
  <1> DEFINE new == s \o t
             old == TypesOf(s, from, Len(s))
             now == TypesOf(new, from, Len(new))
  <1>3. /\ old \in Seq(ValTypes) /\ Len(old) = Len(s) - from
        /\ \A k \in 1 .. Len(s) - from : old[k] = s[from + k].type
    <2>1. Len(s) <= Len(s)
      BY <1>1
    <2> QED
      BY <1>1, <2>1, TypesOfSeq
  <1>4. from <= Len(new) /\ Len(new) <= Len(new) /\ Len(new) \in Nat
    BY <1>1, <1>2
  <1>5. /\ now \in Seq(ValTypes) /\ Len(now) = Len(new) - from
        /\ \A k \in 1 .. Len(new) - from : now[k] = new[from + k].type
    BY <1>2, <1>4, TypesOfSeq
  <1>6. /\ old \o types \in Seq(ValTypes) /\ Len(old \o types) = Len(old) + Len(types)
        /\ \A i \in 1 .. Len(old) + Len(types) :
             (old \o types)[i] = IF i <= Len(old) THEN old[i] ELSE types[i - Len(old)]
    <2> HIDE DEF old, now, new
    <2>1. old \in Seq(ValTypes) /\ types \in Seq(ValTypes)
      BY <1>3
    <2> QED
      BY <2>1, TypesConcat
  <1> HIDE DEF old, now, new
  <1>7. Len(now) = Len(old \o types)
    BY <1>1, <1>2, <1>3, <1>5, <1>6 DEF new
  <1>8. ASSUME NEW k \in 1 .. Len(now)
        PROVE  now[k] = (old \o types)[k]
    <2>1. new[from + k] = IF from + k <= Len(s) THEN s[from + k] ELSE t[from + k - Len(s)]
      <3>1. from + k \in 1 .. Len(s) + Len(t)
        BY <1>1, <1>2, <1>5 DEF new
      <3> QED
        BY <1>2, <3>1 DEF new
    <2>2. now[k] = new[from + k].type
      BY <1>5
    <2>3. CASE from + k <= Len(s)
      <3>1. k \in 1 .. Len(s) - from /\ k <= Len(old) /\ k \in 1 .. Len(old) + Len(types)
        BY <1>1, <1>3, <1>5, <1>4, <2>3
      <3> QED
        BY <1>3, <1>6, <2>1, <2>2, <2>3, <3>1
    <2>4. CASE ~(from + k <= Len(s))
      <3>1. /\ from + k - Len(s) \in 1 .. Len(t) /\ from + k - Len(s) = k - Len(old)
            /\ ~(k <= Len(old)) /\ k \in 1 .. Len(old) + Len(types)
        BY <1>1, <1>2, <1>3, <1>5, <1>4, <2>4 DEF new
      <3> QED
        BY <1>3, <1>6, <2>1, <2>2, <2>4, <3>1
    <2> QED
      BY <2>3, <2>4
  <1>9. now = old \o types
    BY <1>5, <1>6, <1>7, <1>8, SeqEqual
  <1> QED
    BY <1>2, <1>4, <1>9 DEF now, old, new

\* Values popped take their types from the structure's operands.
LEMMA TypesPopped ==
    ASSUME NEW s \in Seq(Operands), NEW from \in Nat, NEW n \in Nat, from + n <= Len(s)
    PROVE  /\ SubSeq(s, 1, Len(s) - n) \in Seq(Operands)
           /\ Len(SubSeq(s, 1, Len(s) - n)) = Len(s) - n /\ Len(s) - n \in Nat
           /\ from <= Len(s) - n
           /\ \A k \in 1 .. Len(s) - n : SubSeq(s, 1, Len(s) - n)[k] = s[k]
           /\ SubSeq(TypesOf(s, from, Len(s)), 1, Len(TypesOf(s, from, Len(s))) - n)
                = TypesOf(SubSeq(s, 1, Len(s) - n), from, Len(s) - n)
PROOF
  <1> DEFINE m == Len(s) - n
             popped == SubSeq(s, 1, m)
             old == TypesOf(s, from, Len(s))
             now == TypesOf(popped, from, m)
  <1>1. Len(s) \in Nat /\ m \in Nat /\ m <= Len(s) /\ from <= m /\ from <= Len(s) /\ Len(s) <= Len(s)
    BY LenProperties
  <1>2. \A i \in 1 .. m : s[i] \in Operands
    BY <1>1, ElementOfSeq
  <1>3. popped \in Seq(Operands) /\ Len(popped) = m /\ \A k \in 1 .. m : popped[k] = s[k]
    <2> HIDE DEF m
    <2>1. 1 \in Int /\ m \in Int
      BY <1>1
    <2>2. /\ popped \in Seq(Operands) /\ Len(popped) = IF 1 <= m THEN m - 1 + 1 ELSE 0
          /\ \A i \in 1 .. m - 1 + 1 : popped[i] = s[1 + i - 1]
      BY <1>2, <2>1, SubSeqProperties
    <2> HIDE DEF popped
    <2> QED
      BY <1>1, <2>2
  <1>4. /\ old \in Seq(ValTypes) /\ Len(old) = Len(s) - from
        /\ \A k \in 1 .. Len(s) - from : old[k] = s[from + k].type
    BY <1>1, TypesOfSeq
  <1>5. /\ now \in Seq(ValTypes) /\ Len(now) = m - from
        /\ \A k \in 1 .. m - from : now[k] = popped[from + k].type
    <2> HIDE DEF m, popped
    <2>1. m <= Len(popped)
      BY <1>1, <1>3
    <2> QED
      BY <1>1, <1>3, <2>1, TypesOfSeq
  <1> DEFINE q == Len(old) - n
             cut == SubSeq(old, 1, q)
  <1>6. q = m - from /\ q \in Nat /\ q <= Len(old)
    <2> HIDE DEF old
    <2> QED
      BY <1>1, <1>4
  <1>7. cut \in Seq(ValTypes) /\ Len(cut) = q /\ \A k \in 1 .. q : cut[k] = old[k]
    <2> HIDE DEF old, q
    <2>1. 1 \in Int /\ q \in Int /\ \A i \in 1 .. q : old[i] \in ValTypes
      BY <1>4, <1>6, ElementOfSeq
    <2>2. /\ cut \in Seq(ValTypes) /\ Len(cut) = IF 1 <= q THEN q - 1 + 1 ELSE 0
          /\ \A i \in 1 .. q - 1 + 1 : cut[i] = old[1 + i - 1]
      BY <2>1, SubSeqProperties
    <2> HIDE DEF cut
    <2> QED
      BY <1>6, <2>2
  <1> HIDE DEF cut, q, now, old, popped, m
  <1>8. \A k \in 1 .. q : cut[k] = now[k]
    <2>1. \A k \in 1 .. q : /\ from + k \in 1 .. m /\ k \in 1 .. Len(s) - from
                            /\ k \in 1 .. m - from
      BY <1>1, <1>6 DEF m
    <2> QED
      BY <1>3, <1>4, <1>5, <1>7, <2>1, ZenonT(60)
  <1>9. cut = now
    BY <1>5, <1>6, <1>7, <1>8, SeqEqual
  <1> QED
    BY <1>1, <1>3, <1>9 DEF cut, q, now, old, popped, m

\* The frames of a rule that changes the operands of the innermost one.
LEMMA FrameForms ==
    ASSUME Inner \in FrameTypes, NEW operands \in Seq(ValTypes)
    PROVE  /\ [Inner EXCEPT !.operands = operands] \in FrameTypes
           /\ [Inner EXCEPT !.operands = operands].operands = operands
           /\ [Inner EXCEPT !.operands = operands].kind = Inner.kind
           /\ [Inner EXCEPT !.operands = operands].label = Inner.label
           /\ [Inner EXCEPT !.operands = operands].result = Inner.result
           /\ [Inner EXCEPT !.operands = operands].live = Inner.live
           /\ [Inner EXCEPT !.operands = operands].skipped = Inner.skipped
BY DEF FrameTypes

\* An instruction that changes nothing but the operands of the innermost
\* structure, alike in both machines, keeps the agreement.
LEMMA OperandsChange ==
    ASSUME IInv, Agreement, InBody, NEW operands \in Seq(ValTypes),
           frames' = Leaving(operands),
           UNCHANGED <<cfEntries, blockEntries, unreachableDepth>>,
           Len(evalStack') \in Nat, Top.outerStackSize <= Len(evalStack'),
           \A k \in 1 .. Top.outerStackSize : evalStack'[k] = evalStack[k],
           operands = TypesOf(evalStack', Top.outerStackSize, Len(evalStack'))
    PROVE  Agreement'
PROOF
  <1> DEFINE frame == [Inner EXCEPT !.operands = operands]
  <1>1. /\ frame \in FrameTypes /\ frame.operands = operands
        /\ frame.kind = Inner.kind /\ frame.label = Inner.label /\ frame.result = Inner.result
        /\ frame.live = Inner.live /\ frame.skipped = Inner.skipped
    BY InnerFrame, FrameForms
  <1>2. frames' = [frames EXCEPT ![Len(frames)] = frame]
    BY DEF Leaving, Inner
  <1>3. cfEntries' = [cfEntries EXCEPT ![Len(cfEntries)] = Top] /\ Top \in Entries
    BY TopType, StackLengths DEF Top, IInv
  <1>4. /\ Inner.live = Top.reachable /\ Inner.skipped = unreachableDepth
        /\ Inner.kind = "if" <=> Top.else # NoBlock
    BY InnerFrame
  <1> HIDE DEF frame
  <1> QED
    BY <1>1, <1>2, <1>3, <1>4, InnerChanges, ZenonT(60)

\* What an instruction pushes has the types its result carries.
Pushed(result, def) == IF result = Void THEN <<>> ELSE <<Value(result, def)>>

\* A result pushes at most one value, of its type.
LEMMA PushedTypes ==
    ASSUME NEW result \in ResultTypes, NEW def \in Nat
    PROVE  /\ Pushed(result, def) \in Seq(Operands) /\ Carried(result) \in Seq(ValTypes)
           /\ Len(Carried(result)) = Len(Pushed(result, def))
           /\ \A k \in 1 .. Len(Pushed(result, def)) :
                Pushed(result, def)[k].type = Carried(result)[k]
PROOF
  <1>1. CASE result = Void
    BY <1>1 DEF Carried, Pushed
  <1>2. CASE result # Void
    <2>1. Value(result, def) \in Operands /\ result \in ValTypes /\ Value(result, def).type = result
      BY <1>2 DEF Value, Operands, ResultTypes
    <2> QED
      BY <1>2, <2>1 DEF Carried, Pushed
  <1> QED
    BY <1>1, <1>2

\* An instruction leaves its result in place of its operands.
LEMMA ReplaceAgrees ==
    ASSUME IInv, Agreement, InBody, NEW n \in Nat, n <= Len(Inner.operands),
           NEW result \in ResultTypes, NEW def \in Nat, Replace(n, result, def),
           frames' = Leaving(Without(n) \o Carried(result)),
           UNCHANGED <<cfEntries, blockEntries, unreachableDepth>>
    PROVE  Agreement'
PROOF
  <1> DEFINE pushed == Pushed(result, def)
             base == Top.outerStackSize
  <1>1. /\ evalStack \in Seq(Operands) /\ base \in Nat /\ base + n <= Len(evalStack)
        /\ Inner.operands = TypesOf(evalStack, base, Len(evalStack))
    <2>1. /\ Len(Inner.operands) = Len(evalStack) - base
          /\ base \in Nat /\ Len(evalStack) \in Nat
          /\ Inner.operands = TypesOf(evalStack, base, Len(evalStack))
      BY InnerFrame
    <2> QED
      BY <2>1, TypeParts DEF IInv, StackTypes
  <1>2. /\ Popped(n) \in Seq(Operands) /\ Len(Popped(n)) = Len(evalStack) - n
        /\ base <= Len(Popped(n)) /\ Len(Popped(n)) \in Nat
        /\ \A k \in 1 .. Len(Popped(n)) : Popped(n)[k] = evalStack[k]
        /\ Without(n) = TypesOf(Popped(n), base, Len(Popped(n)))
    <2>1. PICK types : types = TypesOf(evalStack, base, Len(evalStack))
      OBVIOUS
    <2>2. PICK popped : popped = SubSeq(evalStack, 1, Len(evalStack) - n)
      OBVIOUS
    <2>3. /\ popped \in Seq(Operands) /\ Len(popped) = Len(evalStack) - n
          /\ base <= Len(popped) /\ Len(popped) \in Nat
          /\ \A k \in 1 .. Len(popped) : popped[k] = evalStack[k]
          /\ SubSeq(types, 1, Len(types) - n) = TypesOf(popped, base, Len(popped))
      <3>1. PICK stack \in Seq(Operands), from \in Nat : stack = evalStack /\ from = base
        BY <1>1
      <3>2. from + n <= Len(stack)
        BY <1>1, <3>1
      <3>3. /\ SubSeq(stack, 1, Len(stack) - n) \in Seq(Operands)
            /\ Len(SubSeq(stack, 1, Len(stack) - n)) = Len(stack) - n /\ Len(stack) - n \in Nat
            /\ from <= Len(stack) - n
            /\ \A k \in 1 .. Len(stack) - n : SubSeq(stack, 1, Len(stack) - n)[k] = stack[k]
            /\ SubSeq(TypesOf(stack, from, Len(stack)), 1, Len(TypesOf(stack, from, Len(stack))) - n)
                 = TypesOf(SubSeq(stack, 1, Len(stack) - n), from, Len(stack) - n)
        BY <3>2, TypesPopped
      <3> QED
        BY <2>1, <2>2, <3>1, <3>3
    <2>4. Popped(n) = popped /\ Without(n) = SubSeq(types, 1, Len(types) - n)
      BY <1>1, <2>1, <2>2 DEF Popped, Without
    <2> QED
      BY <2>3, <2>4
  <1>3. /\ pushed \in Seq(Operands) /\ Carried(result) \in Seq(ValTypes)
        /\ Len(Carried(result)) = Len(pushed)
        /\ \A k \in 1 .. Len(pushed) : pushed[k].type = Carried(result)[k]
    BY PushedTypes
  <1> HIDE DEF pushed, base
  <1>4. /\ evalStack' = Popped(n) \o pushed
        /\ evalStack' \in Seq(Operands) /\ Len(evalStack') = Len(Popped(n)) + Len(pushed)
        /\ base <= Len(evalStack')
        /\ TypesOf(evalStack', base, Len(evalStack')) = Without(n) \o Carried(result)
    <2>1. evalStack' = Popped(n) \o pushed
      BY DEF Replace, Pushed, pushed
    <2>2. /\ Popped(n) \o pushed \in Seq(Operands)
          /\ Len(Popped(n) \o pushed) = Len(Popped(n)) + Len(pushed)
          /\ base <= Len(Popped(n) \o pushed)
          /\ TypesOf(Popped(n) \o pushed, base, Len(Popped(n) \o pushed))
               = TypesOf(Popped(n), base, Len(Popped(n))) \o Carried(result)
      <3>1. /\ Popped(n) \in Seq(Operands) /\ pushed \in Seq(Operands)
            /\ Carried(result) \in Seq(ValTypes) /\ base \in Nat /\ base <= Len(Popped(n))
        BY <1>1, <1>2, <1>3
      <3>2. /\ Len(Carried(result)) = Len(pushed)
            /\ \A k \in 1 .. Len(pushed) : pushed[k].type = Carried(result)[k]
        BY <1>3
      <3> HIDE DEF pushed, base
      <3> QED
        BY <3>1, <3>2, TypesPushed, ZenonT(60)
    <2> QED
      BY <1>2, <2>1, <2>2
  <1>5. \A k \in 1 .. base : evalStack'[k] = evalStack[k]
    <2>1. \A k \in 1 .. Len(Popped(n)) : (Popped(n) \o pushed)[k] = Popped(n)[k]
      <3>1. Popped(n) \in Seq(Operands) /\ pushed \in Seq(Operands)
        BY <1>2, <1>3
      <3>2. \A k \in 1 .. Len(Popped(n)) + Len(pushed) :
              (Popped(n) \o pushed)[k] = IF k <= Len(Popped(n)) THEN Popped(n)[k]
                                         ELSE pushed[k - Len(Popped(n))]
        BY <3>1, ConcatProperties
      <3>3. Len(Popped(n)) \in Nat /\ Len(pushed) \in Nat
        BY <3>1, LenProperties
      <3> QED
        BY <3>2, <3>3
    <2>2. \A k \in 1 .. base : k \in 1 .. Len(Popped(n))
      BY <1>1, <1>2
    <2> QED
      BY <1>2, <1>4, <2>1, <2>2
  <1>6. Without(n) \o Carried(result) \in Seq(ValTypes)
    <2>1. Len(Popped(n)) <= Len(Popped(n))
      BY <1>2
    <2>2. TypesOf(Popped(n), base, Len(Popped(n))) \in Seq(ValTypes)
      BY <1>1, <1>2, <2>1, TypesOfSeq
    <2> QED
      BY <1>2, <1>3, <2>2, ConcatProperties
  <1>7. Len(evalStack') \in Nat
    BY <1>4, LenProperties
  <1> QED
    BY <1>4, <1>5, <1>6, <1>7, OperandsChange DEF base

\* In code that can be reached no structure is skipped.
LEMMA LiveFrame ==
    ASSUME IInv, Agreement, Live
    PROVE  unreachableDepth = 0 /\ Inner.skipped = 0 /\ Inner.live
PROOF
  <1>1. unreachableDepth = 0
    BY StackLengths DEF IInv, StacksInv, OnlyTopSkipped, Skipping, Live
  <1> QED
    BY <1>1, InnerFrame DEF Live

\* An empty part of a stack has no types.
LEMMA NoTypes ==
    ASSUME NEW stack \in Seq(Operands), NEW from \in Nat, from <= Len(stack)
    PROVE  TypesOf(stack, from, from) = <<>>
PROOF
  <1>1. from <= from
    OBVIOUS
  <1>2. TypesOf(stack, from, from) \in Seq(ValTypes) /\ Len(TypesOf(stack, from, from)) = from - from
    BY <1>1, TypesOfSeq
  <1>3. Len(TypesOf(stack, from, from)) = 0
    BY <1>2
  <1> QED
    BY <1>2, <1>3, EmptySeq

\* After a jump the innermost structure is empty and cannot be reached.
LEMMA DeadAgrees ==
    ASSUME IInv, Agreement, Live, NEW stack \in Seq(Operands),
           Top.outerStackSize <= Len(stack),
           \A k \in 1 .. Top.outerStackSize : stack[k] = evalStack[k],
           SkipUnreachable(stack), blockEntries' = blockEntries, frames' = Dead
    PROVE  Agreement'
PROOF
  <1> DEFINE frame == [Inner EXCEPT !.operands = <<>>, !.live = FALSE]
             entry == [Top EXCEPT !.reachable = FALSE]
             base == Top.outerStackSize
  <1>1. InBody
    BY DEF Live
  <1>2. Inner \in FrameTypes /\ Top \in Entries /\ base \in Nat
    BY <1>1, InnerFrame, TopType DEF IInv
  <1>3. /\ frame \in FrameTypes /\ frame.operands = <<>> /\ frame.kind = Inner.kind
        /\ frame.label = Inner.label /\ frame.result = Inner.result
        /\ frame.live = FALSE /\ frame.skipped = Inner.skipped
    <2>1. <<>> \in Seq(ValTypes)
      OBVIOUS
    <2> QED
      BY <1>2, <2>1 DEF FrameTypes
  <1>4. /\ entry \in Entries /\ entry.outerStackSize = base /\ entry.signature = Top.signature
        /\ entry.else = Top.else /\ entry.reachable = FALSE
    BY <1>2 DEF Entries
  <1>5. frames' = [frames EXCEPT ![Len(frames)] = frame]
    BY DEF Dead, Inner
  <1>6. cfEntries' = [cfEntries EXCEPT ![Len(cfEntries)] = entry]
    BY <1>1, StackLengths DEF SkipUnreachable, Top
  <1>7. /\ evalStack' \in Seq(Operands) /\ Len(evalStack') = base
        /\ \A k \in 1 .. base : evalStack'[k] = evalStack[k]
    <2>1. \A k \in 1 .. base : k \in 1 .. Len(stack)
      BY <1>2, LenProperties
    <2>2. \A k \in 1 .. base : stack[k] \in Operands
      BY <2>1, ElementOfSeq
    <2> HIDE DEF base
    <2>3. 1 \in Int /\ base \in Int
      BY <1>2
    <2>4. /\ SubSeq(stack, 1, base) \in Seq(Operands)
          /\ Len(SubSeq(stack, 1, base)) = IF 1 <= base THEN base - 1 + 1 ELSE 0
          /\ \A i \in 1 .. base - 1 + 1 : SubSeq(stack, 1, base)[i] = stack[1 + i - 1]
      BY <2>2, <2>3, SubSeqProperties
    <2>5. evalStack' = SubSeq(stack, 1, base)
      BY DEF SkipUnreachable, base
    <2>6. \A k \in 1 .. base : stack[k] = evalStack[k]
      BY DEF base
    <2>7. Len(evalStack') = base /\ \A k \in 1 .. base : evalStack'[k] = stack[k]
      BY <1>2, <2>4, <2>5
    <2> QED
      BY <2>4, <2>5, <2>6, <2>7
  <1>8. frame.operands = TypesOf(evalStack', base, Len(evalStack'))
    <2>1. base <= Len(evalStack')
      BY <1>2, <1>7
    <2> HIDE DEF base, frame
    <2>2. TypesOf(evalStack', base, base) = <<>>
      BY <1>2, <1>7, <2>1, NoTypes
    <2> QED
      BY <1>3, <1>7, <2>2
  <1>9. /\ unreachableDepth' = 0 /\ Inner.skipped = 0
        /\ Inner.kind = "if" <=> Top.else # NoBlock
    BY <1>1, LiveFrame, InnerFrame DEF SkipUnreachable
  <1>10. Len(evalStack') \in Nat /\ base <= Len(evalStack')
    BY <1>2, <1>7
  <1> HIDE DEF frame, entry
  <1> QED
    BY <1>1, <1>3, <1>4, <1>5, <1>6, <1>7, <1>8, <1>9, <1>10, InnerChanges

-----------------------------------------------------------------------------
(* Structures that open and close.                                         *)

\* The frame a structure opens with.
LEMMA FrameType ==
    ASSUME NEW kind \in Kinds, NEW target \in ResultTypes, NEW result \in ResultTypes
    PROVE  /\ Frame(kind, Carried(target), result) \in FrameTypes
           /\ Frame(kind, Carried(target), result).kind = kind
           /\ Frame(kind, Carried(target), result).label = Carried(target)
           /\ Frame(kind, Carried(target), result).result = result
           /\ Frame(kind, Carried(target), result).operands = <<>>
PROOF
  <1>1. <<>> \in Seq(ValTypes) /\ Carried(target) \in Seq(ValTypes)
    BY CarriedType
  <1> QED
    BY <1>1 DEF Frame, FrameTypes

\* A structure opens in code that can be reached.
LEMMA FrameFlags ==
    ASSUME NEW kind, NEW label, NEW result
    PROVE  Frame(kind, label, result).live = TRUE /\ Frame(kind, label, result).skipped = 0
BY DEF Frame

\* The entry of an open structure becomes the last of the control stack.
LEMMA PushedEntry ==
    ASSUME IInv, NEW instr \in Kinds, NEW signature \in ResultTypes, NEW end \in Nat,
           NEW else \in Nat, NEW stack \in Seq(Operands), NEW target \in ResultTypes,
           NEW block \in Nat,
           PushCFEntry(instr, signature, end, else, stack), PushBlockEntry(target, block)
    PROVE  /\ cfEntries' \in Seq(Entries) /\ Len(cfEntries') = Len(cfEntries) + 1
           /\ DOMAIN cfEntries' = 1 .. Len(cfEntries) + 1
           /\ \A i \in 1 .. Len(cfEntries) : /\ cfEntries'[i] = cfEntries[i]
                                             /\ blockEntries'[i] = blockEntries[i]
           /\ cfEntries'[Len(cfEntries) + 1].outerStackSize = Len(stack)
           /\ cfEntries'[Len(cfEntries) + 1].signature = signature
           /\ cfEntries'[Len(cfEntries) + 1].else = else
           /\ cfEntries'[Len(cfEntries) + 1].reachable = TRUE
           /\ blockEntries'[Len(cfEntries) + 1].signature = target
PROOF
  <1> DEFINE entry == [instr |-> instr, signature |-> signature, end |-> end, else |-> else,
                       outerStackSize |-> Len(stack), outerBlockDepth |-> Len(blockEntries),
                       reachable |-> TRUE]
             label == [signature |-> target, block |-> block]
  <1>1. /\ cfEntries \in Seq(Entries) /\ blockEntries \in Seq(Targets)
        /\ Len(blockEntries) = Len(cfEntries) /\ Len(cfEntries) \in Nat
    BY StackLengths
  <1>2. entry \in Entries /\ label \in Targets
    BY <1>1, LenProperties DEF Entries, Targets
  <1>3. cfEntries' = Append(cfEntries, entry) /\ blockEntries' = Append(blockEntries, label)
    BY DEF PushCFEntry, PushBlockEntry
  <1>4. /\ entry.outerStackSize = Len(stack) /\ entry.signature = signature
        /\ entry.else = else /\ entry.reachable = TRUE /\ label.signature = target
    OBVIOUS
  <1> HIDE DEF entry, label
  <1>5. /\ cfEntries' \in Seq(Entries) /\ Len(cfEntries') = Len(cfEntries) + 1
        /\ \A i \in 1 .. Len(cfEntries) : cfEntries'[i] = cfEntries[i]
        /\ cfEntries'[Len(cfEntries) + 1] = entry
    BY <1>1, <1>2, <1>3, AppendProperties
  <1>6. /\ \A i \in 1 .. Len(cfEntries) : blockEntries'[i] = blockEntries[i]
        /\ blockEntries'[Len(cfEntries) + 1] = label
    BY <1>1, <1>2, <1>3, AppendProperties
  <1>7. DOMAIN cfEntries' = 1 .. Len(cfEntries) + 1
    BY <1>5, LenProperties
  <1> QED
    BY <1>4, <1>5, <1>6, <1>7

\* A structure opens above the operands its instruction leaves.
LEMMA OpenAgrees ==
    ASSUME IInv, Agreement, Live, NEW types \in Seq(ValTypes), Holds(types),
           NEW kind \in Kinds, NEW signature \in ResultTypes, NEW target \in ResultTypes,
           NEW end \in Nat, NEW else \in Nat, NEW block \in Nat,
           kind = "if" <=> else # NoBlock,
           frames' = Append(Leaving(Without(Len(types))),
                            Frame(kind, Carried(target), signature)),
           evalStack' = Popped(Len(types)),
           PushCFEntry(kind, signature, end, else, evalStack'),
           PushBlockEntry(target, block),
           unreachableDepth' = unreachableDepth
    PROVE  Agreement'
PROOF
  <1>0. InBody
    BY DEF Live
  <1>1. PICK n : n = Len(cfEntries)
    OBVIOUS
  <1>2. PICK base : base = Top.outerStackSize
    OBVIOUS
  <1> DEFINE inner == [Inner EXCEPT !.operands = Without(Len(types))]
             frame == Frame(kind, Carried(target), signature)
             m == Len(types)
  <1>3. /\ n \in Nat \ {0} /\ Len(frames) = n /\ n \in 1 .. n /\ base \in Nat
        /\ frames \in Seq(FrameTypes) /\ m \in Nat /\ base + m <= Len(evalStack)
        /\ evalStack \in Seq(Operands)
        /\ Inner.operands = TypesOf(evalStack, base, Len(evalStack))
    BY <1>0, <1>1, <1>2, InnerFrame, HoldsFits, TypeParts DEF Agreement, IInv, StackTypes
  <1>4. /\ evalStack' \in Seq(Operands) /\ Len(evalStack') \in Nat
        /\ base <= Len(evalStack')
        /\ \A k \in 1 .. Len(evalStack') : evalStack'[k] = evalStack[k]
        /\ Without(m) = TypesOf(evalStack', base, Len(evalStack'))
        /\ Without(m) \in Seq(ValTypes)
    <2>1. /\ evalStack' \in Seq(Operands) /\ Len(evalStack') \in Nat
          /\ base <= Len(evalStack')
          /\ \A k \in 1 .. Len(evalStack') : evalStack'[k] = evalStack[k]
          /\ Without(m) = TypesOf(evalStack', base, Len(evalStack'))
      <3> DEFINE popped == SubSeq(evalStack, 1, Len(evalStack) - m)
      <3> HIDE DEF m
      <3>1. evalStack' = popped
        BY DEF Popped, m
      <3>2. Without(m) = SubSeq(TypesOf(evalStack, base, Len(evalStack)), 1,
                                Len(TypesOf(evalStack, base, Len(evalStack))) - m)
        BY <1>3 DEF Without
      <3>3. /\ popped \in Seq(Operands) /\ Len(popped) = Len(evalStack) - m
            /\ Len(evalStack) - m \in Nat /\ base <= Len(evalStack) - m
            /\ \A k \in 1 .. Len(evalStack) - m : popped[k] = evalStack[k]
            /\ SubSeq(TypesOf(evalStack, base, Len(evalStack)), 1,
                      Len(TypesOf(evalStack, base, Len(evalStack))) - m)
                 = TypesOf(popped, base, Len(evalStack) - m)
        BY <1>3, TypesPopped, ZenonT(60)
      <3> HIDE DEF popped
      <3> QED
        BY <3>1, <3>2, <3>3
    <2>2. Len(evalStack') <= Len(evalStack')
      BY <2>1
    <2>3. TypesOf(evalStack', base, Len(evalStack')) \in Seq(ValTypes)
      BY <1>3, <2>1, <2>2, TypesOfSeq
    <2> QED
      BY <2>1, <2>3
  <1>5. /\ frame \in FrameTypes /\ frame.kind = kind /\ frame.label = Carried(target)
        /\ frame.result = signature /\ frame.operands = <<>>
    BY FrameType
  <1>15. frame.live = TRUE /\ frame.skipped = 0
    BY FrameFlags
  <1>6. /\ inner \in FrameTypes /\ inner.operands = Without(m) /\ inner.kind = Inner.kind
        /\ inner.label = Inner.label /\ inner.result = Inner.result
        /\ inner.live = Inner.live /\ inner.skipped = Inner.skipped
    BY <1>0, <1>4, InnerFrame, FrameForms
  <1> HIDE DEF frame, inner, m
  <1>7. /\ frames' \in Seq(FrameTypes) /\ Len(frames') = n + 1
        /\ frames'[n + 1] = frame /\ frames'[n] = inner
        /\ \A i \in 1 .. n - 1 : frames'[i] = frames[i]
    <2>1. Leaving(Without(m)) = [frames EXCEPT ![Len(frames)] = inner]
      BY DEF Leaving, Inner, inner, m
    <2>2. /\ Leaving(Without(m)) \in Seq(FrameTypes) /\ Len(Leaving(Without(m))) = Len(frames)
          /\ Leaving(Without(m))[Len(frames)] = inner
          /\ \A i \in 1 .. Len(frames) - 1 : Leaving(Without(m))[i] = frames[i]
      BY <1>3, <1>6, <2>1, LastReplaced
    <2>3. PICK before : before = Leaving(Without(m))
      OBVIOUS
    <2>4. frames' = Append(before, frame)
      BY <2>3 DEF frame, m
    <2>5. /\ before \in Seq(FrameTypes) /\ Len(before) = n /\ before[n] = inner
          /\ \A i \in 1 .. n - 1 : before[i] = frames[i]
      BY <1>3, <2>2, <2>3
    <2>6. /\ frames' \in Seq(FrameTypes) /\ Len(frames') = n + 1 /\ frames'[n + 1] = frame
          /\ \A i \in 1 .. n : frames'[i] = before[i]
      BY <1>5, <2>4, <2>5, AppendProperties
    <2> QED
      BY <1>3, <2>5, <2>6, Positions
  <1>8. /\ cfEntries' \in Seq(Entries) /\ Len(cfEntries') = n + 1
        /\ DOMAIN cfEntries' = 1 .. n + 1
        /\ \A i \in 1 .. n : cfEntries'[i] = cfEntries[i] /\ blockEntries'[i] = blockEntries[i]
        /\ cfEntries'[n + 1].outerStackSize = Len(evalStack')
        /\ cfEntries'[n + 1].signature = signature /\ cfEntries'[n + 1].else = else
        /\ cfEntries'[n + 1].reachable = TRUE /\ blockEntries'[n + 1].signature = target
    <2>1. PICK stack : stack = evalStack'
      OBVIOUS
    <2>2. stack \in Seq(Operands) /\ PushCFEntry(kind, signature, end, else, stack)
      BY <1>4, <2>1
    <2>3. /\ cfEntries' \in Seq(Entries) /\ Len(cfEntries') = Len(cfEntries) + 1
          /\ DOMAIN cfEntries' = 1 .. Len(cfEntries) + 1
          /\ \A i \in 1 .. Len(cfEntries) : /\ cfEntries'[i] = cfEntries[i]
                                            /\ blockEntries'[i] = blockEntries[i]
          /\ cfEntries'[Len(cfEntries) + 1].outerStackSize = Len(stack)
          /\ cfEntries'[Len(cfEntries) + 1].signature = signature
          /\ cfEntries'[Len(cfEntries) + 1].else = else
          /\ cfEntries'[Len(cfEntries) + 1].reachable = TRUE
          /\ blockEntries'[Len(cfEntries) + 1].signature = target
      BY <2>2, PushedEntry, ZenonT(30)
    <2> QED
      BY <1>1, <2>1, <2>3
  <1>9. /\ \A i \in 1 .. n : Outer(i)' = Outer(i) /\ Outer(i) \in Nat /\ Outer(i) <= base
        /\ \A i, j \in 1 .. n : i <= j => Outer(i) <= Outer(j)
        /\ Outer(n) = base /\ Outer(n + 1)' = Len(evalStack')
    <2>1. \A i \in 1 .. n : Outer(i)' = Outer(i)
      BY <1>8 DEF Outer
    <2>2. Outer(n + 1)' = Len(evalStack')
      BY <1>8 DEF Outer
    <2> QED
      BY <1>0, <1>1, <1>2, <2>1, <2>2, Sizes
  <1>10. Nested'
    <2>1. \A i \in 1 .. n + 1 : i = n + 1 \/ i \in 1 .. n
      <3>1. n \in Nat \ {0}
        BY <1>3
      <3> QED
        BY <3>1, Positions
    <2>2. \A i \in 1 .. n + 1 : Outer(i)' <= Len(evalStack')
      <3>1. Outer(n + 1)' <= Len(evalStack')
        BY <1>4, <1>9
      <3>2. \A i \in 1 .. n : Outer(i)' <= Len(evalStack')
        BY <1>3, <1>4, <1>9, SMTT(30)
      <3> QED
        BY <2>1, <3>1, <3>2
    <2>3. \A i, j \in 1 .. n + 1 : i <= j => Outer(i)' <= Outer(j)'
      <3> SUFFICES ASSUME NEW i \in 1 .. n + 1, NEW j \in 1 .. n + 1, i <= j
                   PROVE  Outer(i)' <= Outer(j)'
        OBVIOUS
      <3>1. CASE j = n + 1
        BY <1>9, <2>2, <3>1
      <3>2. CASE j \in 1 .. n
        <4>1. i \in 1 .. n
          BY <1>3, <3>2
        <4> QED
          BY <1>9, <3>2, <4>1
      <3> QED
        BY <2>1, <3>1, <3>2
    <2> QED
      BY <1>8, <2>2, <2>3 DEF Nested
  <1>11. \A i \in 1 .. n - 1 : Agrees(i)'
    <2>1. n <= Len(cfEntries') /\ Len(cfEntries') \in Nat /\ Outer(n)' = Outer(n)
      BY <1>3, <1>8, <1>9
    <2>2. \A i \in 1 .. n - 1 : /\ frames'[i] = frames[i] /\ cfEntries'[i] = cfEntries[i]
                               /\ blockEntries'[i] = blockEntries[i]
      BY <1>3, <1>7, <1>8, Positions
    <2>3. \A k \in 1 .. Outer(n) : evalStack'[k] = evalStack[k]
      BY <1>3, <1>4, <1>9
    <2> QED
      BY <1>0, <1>1, <1>3, <2>1, <2>2, <2>3, OuterAgrees
  <1>12. Agrees(n)'
    <2>1. Last(n)' = Len(evalStack') /\ Outer(n)' = base /\ n # Len(cfEntries')
      BY <1>3, <1>8, <1>9 DEF Last
    <2>2. inner.operands = TypesOf(evalStack', Outer(n)', Last(n)')
      BY <1>4, <1>6, <2>1
    <2>3. /\ Inner.label = Carried(blockEntries[n].signature) /\ Inner.result = Top.signature
          /\ Inner.live = Top.reachable /\ Inner.skipped = 0
          /\ Inner.kind = "if" <=> Top.else # NoBlock
      BY <1>0, <1>1, InnerFrame, LiveFrame
    <2>4. cfEntries'[n] = Top /\ blockEntries'[n] = blockEntries[n]
      BY <1>1, <1>3, <1>8 DEF Top
    <2> QED
      BY <1>6, <1>7, <2>1, <2>2, <2>3, <2>4 DEF Agrees
  <1>13. Agrees(n + 1)'
    <2>1. Last(n + 1)' = Len(evalStack') /\ Outer(n + 1)' = Len(evalStack')
      BY <1>8, <1>9 DEF Last
    <2>2. TypesOf(evalStack', Len(evalStack'), Len(evalStack')) = <<>>
      <3>1. Len(evalStack') <= Len(evalStack')
        BY <1>4
      <3> QED
        BY <1>4, <3>1, NoTypes
    <2>3. unreachableDepth' = 0
      BY LiveFrame
    <2>4. frames'[n + 1].operands = TypesOf(evalStack', Outer(n + 1)', Last(n + 1)')
      BY <1>5, <1>7, <2>1, <2>2
    <2>5. /\ frames'[n + 1].label = Carried(blockEntries'[n + 1].signature)
          /\ frames'[n + 1].result = cfEntries'[n + 1].signature
          /\ frames'[n + 1].live = cfEntries'[n + 1].reachable
          /\ frames'[n + 1].kind = kind /\ cfEntries'[n + 1].else = else
      BY <1>5, <1>15, <1>7, <1>8
    <2>6. frames'[n + 1].skipped = IF n + 1 = Len(cfEntries') THEN unreachableDepth' ELSE 0
      BY <1>15, <1>7, <1>8, <2>3
    <2>7. frames'[n + 1].kind = "if" <=> cfEntries'[n + 1].else # NoBlock
      BY <2>5
    <2> QED
      BY <2>4, <2>5, <2>6, <2>7 DEF Agrees
  <1>14. \A i \in 1 .. n + 1 : Agrees(i)'
    <2>1. \A i \in 1 .. n + 1 : i = n + 1 \/ i = n \/ i \in 1 .. n - 1
      BY <1>3
    <2> QED
      BY <1>11, <1>12, <1>13, <2>1
  <1> QED
    BY <1>7, <1>8, <1>10, <1>14 DEF Agreement

\* The else of an if whose then is closed starts on an empty frame.
LEMMA ElseAgrees ==
    ASSUME IInv, Agreement, AtJoin, FrameCloses,
           evalStack' = Popped(Len(Yielded)),
           cfEntries' = [cfEntries EXCEPT ![Len(cfEntries)] =
                           [@ EXCEPT !.instr = "else", !.reachable = TRUE, !.else = NoBlock]],
           UNCHANGED <<blockEntries, unreachableDepth>>,
           frames' = [frames EXCEPT ![Len(frames)] = Frame("else", Inner.label, Inner.result)]
    PROVE  Agreement'
PROOF
  <1> DEFINE entry == [Top EXCEPT !.instr = "else", !.reachable = TRUE, !.else = NoBlock]
             frame == Frame("else", Inner.label, Inner.result)
  <1>1. InBody /\ TypeOK
    BY DEF AtJoin, IInv
  <1>2. PICK base : base = Top.outerStackSize
    OBVIOUS
  <1>3. /\ Top \in Entries /\ base \in Nat /\ evalStack \in Seq(Operands) /\ Len(evalStack) \in Nat
    BY <1>1, <1>2, TopType, TypeParts DEF StackTypes
  <1>4. /\ entry \in Entries /\ entry.outerStackSize = base /\ entry.signature = Top.signature
        /\ entry.reachable = TRUE /\ entry.else = NoBlock
    BY <1>2, <1>3 DEF Entries, Kinds, NoBlock
  <1>5. cfEntries' = [cfEntries EXCEPT ![Len(cfEntries)] = entry]
    BY DEF Top
  <1>6. /\ Inner.result = Top.signature /\ Top.signature \in ResultTypes
        /\ Inner.label = Carried(blockEntries[Len(cfEntries)].signature)
        /\ blockEntries[Len(cfEntries)].signature \in ResultTypes
    <2>1. blockEntries[Len(cfEntries)] \in Targets
      BY <1>1, InnerFrame, StackLengths, ElementOfSeq
    <2> QED
      BY <1>1, <2>1, InnerFrame, TopType DEF Targets
  <1>7. /\ frame \in FrameTypes /\ frame.kind = "else" /\ frame.label = Inner.label
        /\ frame.result = Inner.result /\ frame.operands = <<>>
    <2>1. "else" \in Kinds
      BY DEF Kinds
    <2>2. PICK target \in ResultTypes : Inner.label = Carried(target)
      BY <1>6
    <2>3. Inner.result \in ResultTypes
      BY <1>6
    <2> QED
      BY <2>1, <2>2, <2>3, FrameType
  <1>8. frame.live = TRUE /\ frame.skipped = 0
    BY DEF Frame
  <1>9. /\ evalStack' \in Seq(Operands) /\ Len(evalStack') = base
        /\ \A k \in 1 .. base : evalStack'[k] = evalStack[k]
    <2>1. Len(Yielded) \in Nat /\ Len(Yielded) <= Len(evalStack) /\ Len(evalStack) - Len(Yielded) = base
      BY <1>1, <1>2, YieldedType
    <2> QED
      BY <1>1, <2>1, PoppedType
  <1>10. frame.operands = TypesOf(evalStack', base, Len(evalStack'))
    <2>1. base <= Len(evalStack')
      BY <1>3, <1>9
    <2> HIDE DEF frame
    <2>2. TypesOf(evalStack', base, base) = <<>>
      BY <1>3, <1>9, <2>1, NoTypes
    <2> QED
      BY <1>7, <1>9, <2>2
  <1>11. unreachableDepth' = 0
    BY <1>1, StackLengths DEF AtJoin, IInv, StacksInv, OnlyTopSkipped, Skipping
  <1>12. Len(evalStack') \in Nat /\ base <= Len(evalStack') /\ blockEntries' = blockEntries
    BY <1>3, <1>9
  <1> HIDE DEF frame, entry
  <1>13. frames' = [frames EXCEPT ![Len(frames)] = frame]
    BY DEF frame
  <1>14. frame.kind # "if"
    BY <1>7
  <1>15. /\ entry \in Entries /\ entry.outerStackSize = Top.outerStackSize
         /\ entry.signature = Top.signature /\ frame.live = entry.reachable
         /\ frame.kind = "if" <=> entry.else # NoBlock
         /\ frame.skipped = unreachableDepth'
         /\ frame \in FrameTypes /\ frame.label = Inner.label /\ frame.result = Inner.result
    BY <1>2, <1>4, <1>7, <1>8, <1>11, <1>14
  <1>16. /\ Top.outerStackSize <= Len(evalStack')
         /\ \A k \in 1 .. Top.outerStackSize : evalStack'[k] = evalStack[k]
         /\ frame.operands = TypesOf(evalStack', Top.outerStackSize, Len(evalStack'))
    BY <1>2, <1>9, <1>10, <1>12
  <1> QED
    BY <1>1, <1>5, <1>12, <1>13, <1>15, <1>16, InnerChanges, Zenon

\* The first values of a sequence.
LEMMA Prefix ==
    ASSUME NEW S, NEW s \in Seq(S), NEW m \in Nat, m <= Len(s), NEW new, new = SubSeq(s, 1, m)
    PROVE  /\ new \in Seq(S) /\ Len(new) = m /\ DOMAIN new = 1 .. m
           /\ \A k \in 1 .. m : new[k] = s[k]
PROOF
  <1>1. \A k \in 1 .. m : k \in 1 .. Len(s)
    BY LenProperties
  <1>2. \A k \in 1 .. m : s[k] \in S
    BY <1>1, ElementOfSeq
  <1>3. 1 \in Int /\ m \in Int
    OBVIOUS
  <1>4. /\ new \in Seq(S) /\ Len(new) = IF 1 <= m THEN m - 1 + 1 ELSE 0
        /\ \A k \in 1 .. m - 1 + 1 : new[k] = s[1 + k - 1]
    BY <1>2, <1>3, SubSeqProperties
  <1>5. Len(new) = m /\ \A k \in 1 .. m : new[k] = s[k]
    BY <1>4
  <1> QED
    BY <1>4, <1>5, LenProperties

\* The frame of a structure that receives the result of the one it holds.
Receiving(frame, types) == [frame EXCEPT !.operands = @ \o types]

\* A frame that receives types adds them to its operands and changes nothing else.
LEMMA ReceivingFrame ==
    ASSUME NEW frame \in FrameTypes, NEW types \in Seq(ValTypes)
    PROVE  /\ Receiving(frame, types) \in FrameTypes
           /\ Receiving(frame, types).operands = frame.operands \o types
           /\ Receiving(frame, types).kind = frame.kind
           /\ Receiving(frame, types).label = frame.label
           /\ Receiving(frame, types).result = frame.result
PROOF
  <1>1. frame.operands \o types \in Seq(ValTypes)
    <2>1. frame.operands \in Seq(ValTypes)
      BY DEF FrameTypes
    <2> QED
      BY <2>1, TypesConcat
  <1> QED
    BY <1>1 DEF FrameTypes, Receiving

\* Receiving types does not make dead code live.
LEMMA ReceivingFlags ==
    ASSUME NEW frame \in FrameTypes, NEW types
    PROVE  /\ Receiving(frame, types).live = frame.live
           /\ Receiving(frame, types).skipped = frame.skipped
BY DEF FrameTypes, Receiving

\* The stack after an end: the result lies on the operands of the structures
\* around the closed one.
LEMMA EndStack ==
    ASSUME IInv, AtJoin, FrameCloses, NEW values, evalStack' = Popped(Len(Yielded)) \o Result(values)
    PROVE  \E popped, pushed \in Seq(Operands) :
             /\ evalStack' = popped \o pushed /\ Len(popped) = Top.outerStackSize
             /\ \A k \in 1 .. Top.outerStackSize : popped[k] = evalStack[k]
             /\ Len(Carried(Top.signature)) = Len(pushed)
             /\ \A k \in 1 .. Len(pushed) : /\ pushed[k].type = Carried(Top.signature)[k]
                                            /\ pushed[k].def \in {NoBlock, Top.end}
PROOF
  <1>1. InBody /\ TypeOK
    BY DEF AtJoin, IInv
  <1>2. PICK n \in Nat : n = Len(Yielded)
    BY <1>1, YieldedType
  <1>3. n <= Len(evalStack) /\ Len(evalStack) - n = Top.outerStackSize
    BY <1>1, <1>2, YieldedType
  <1>4. /\ Popped(n) \in Seq(Operands) /\ Len(Popped(n)) = Top.outerStackSize
        /\ \A k \in 1 .. Top.outerStackSize : Popped(n)[k] = evalStack[k]
    BY <1>1, <1>3, PoppedType
  <1>5. PICK def \in Nat : def = IF HasIncoming(values) THEN Top.end ELSE NoBlock
    BY <1>1, TopType DEF NoBlock
  <1>6. /\ Result(values) \in Seq(Operands)
        /\ Len(Carried(Top.signature)) = Len(Result(values))
        /\ \A k \in 1 .. Len(Result(values)) : Result(values)[k].type = Carried(Top.signature)[k]
    <2>1. Top.signature \in ResultTypes
      BY <1>1, TopType
    <2>2. Result(values) = Pushed(Top.signature, def)
      BY <1>5 DEF Result, Pushed
    <2> QED
      BY <2>1, <2>2, PushedTypes
  <1>8. \A k \in 1 .. Len(Result(values)) : Result(values)[k].def \in {NoBlock, Top.end}
    BY DEF Result, Value
  <1>7. evalStack' = Popped(n) \o Result(values)
    BY <1>2
  <1> QED
    BY <1>4, <1>6, <1>7, <1>8

\* What an end that closes its structure does to the two machines.
Closing(values, outer, frame) ==
    /\ AtJoin /\ FrameCloses
    /\ evalStack' = Popped(Len(Yielded)) \o Result(values)
    /\ blockEntries' = SubSeq(blockEntries, 1, Top.outerBlockDepth)
    /\ cfEntries' = SubSeq(cfEntries, 1, Len(cfEntries) - 1)
    /\ unreachableDepth' = unreachableDepth
    /\ outer = SubSeq(frames, 1, Len(frames) - 1)
    /\ frame = Receiving(outer[Len(outer)], Carried(Inner.result))
    /\ frames' = IF outer = <<>> THEN <<>> ELSE [outer EXCEPT ![Len(outer)] = frame]

\* The end of a structure gives its result to the one around it.
LEMMA EndAgrees ==
    ASSUME IInv, Agreement, NEW values, NEW outer, NEW frame, Closing(values, outer, frame)
    PROVE  Agreement'
PROOF
  <1>1. InBody /\ TypeOK
    BY DEF Closing, AtJoin, IInv
  <1>2. PICK n : n = Len(cfEntries)
    OBVIOUS
  <1>3. PICK base : base = Top.outerStackSize
    OBVIOUS
  <1>4. PICK types : types = Carried(Top.signature)
    OBVIOUS
  <1>5. /\ n \in Nat \ {0} /\ Len(frames) = n /\ base \in Nat /\ types \in Seq(ValTypes)
        /\ frames \in Seq(FrameTypes) /\ cfEntries \in Seq(Entries)
        /\ blockEntries \in Seq(Targets) /\ Len(blockEntries) = n
        /\ n - 1 \in Nat /\ n - 1 <= n
    <2>1. Top.signature \in ResultTypes
      BY <1>1, TopType
    <2>2. types \in Seq(ValTypes)
      BY <1>4, <2>1, CarriedType
    <2>3. /\ n \in Nat \ {0} /\ Len(frames) = n /\ base \in Nat
          /\ frames \in Seq(FrameTypes) /\ cfEntries \in Seq(Entries)
          /\ blockEntries \in Seq(Targets) /\ Len(blockEntries) = n
      BY <1>1, <1>2, <1>3, InnerFrame, StackLengths DEF Agreement
    <2>4. n - 1 \in Nat /\ n - 1 <= n
      BY <2>3
    <2> QED
      BY <2>2, <2>3, <2>4
  <1>6. /\ outer \in Seq(FrameTypes) /\ Len(outer) = n - 1
        /\ \A i \in 1 .. n - 1 : outer[i] = frames[i]
    <2>1. outer = SubSeq(frames, 1, n - 1)
      BY <1>5 DEF Closing
    <2> QED
      BY <1>5, <2>1, Prefix
  <1>7. /\ cfEntries' \in Seq(Entries) /\ Len(cfEntries') = n - 1 /\ DOMAIN cfEntries' = 1 .. n - 1
        /\ \A i \in 1 .. n - 1 : cfEntries'[i] = cfEntries[i]
    <2>1. PICK new : new = cfEntries'
      OBVIOUS
    <2>2. new = SubSeq(cfEntries, 1, n - 1)
      BY <1>2, <2>1 DEF Closing
    <2>3. /\ new \in Seq(Entries) /\ Len(new) = n - 1 /\ DOMAIN new = 1 .. n - 1
          /\ \A i \in 1 .. n - 1 : new[i] = cfEntries[i]
      BY <1>2, <1>5, <2>2, Prefix
    <2> QED
      BY <2>1, <2>3
  <1>8. \A i \in 1 .. n - 1 : blockEntries'[i] = blockEntries[i]
    <2>1. Top.outerBlockDepth = n - 1
      <3>1. n \in DOMAIN cfEntries
        BY <1>2, <1>5, StackLengths
      <3> QED
        BY <1>2, <3>1 DEF IInv, StacksInv, FramesAligned, Top
    <2>2. PICK new : new = blockEntries'
      OBVIOUS
    <2>3. new = SubSeq(blockEntries, 1, n - 1)
      BY <2>1, <2>2 DEF Closing
    <2>4. \A i \in 1 .. n - 1 : new[i] = blockEntries[i]
      BY <1>5, <2>3, Prefix
    <2> QED
      BY <2>2, <2>4
  <1>9. PICK popped \in Seq(Operands), pushed \in Seq(Operands) :
          /\ evalStack' = popped \o pushed /\ Len(popped) = base
          /\ \A k \in 1 .. base : popped[k] = evalStack[k]
          /\ Len(types) = Len(pushed)
          /\ \A k \in 1 .. Len(pushed) : pushed[k].type = types[k]
    <2>1. AtJoin /\ FrameCloses /\ evalStack' = Popped(Len(Yielded)) \o Result(values)
      BY DEF Closing
    <2> QED
      BY <1>3, <1>4, <2>1, EndStack
  <1>10. unreachableDepth' = 0
    BY <1>1, StackLengths DEF Closing, AtJoin, IInv, StacksInv, OnlyTopSkipped, Skipping
  <1>11. CASE n = 1
    <2>1. outer = <<>> /\ frames' = <<>>
      <3>1. Len(outer) = 0 /\ outer \in Seq(FrameTypes)
        BY <1>6, <1>11
      <3>2. outer = <<>>
        BY <3>1, EmptySeq
      <3> QED
        BY <3>2 DEF Closing
    <2>2. frames' \in Seq(FrameTypes) /\ Len(frames') = 0 /\ Len(cfEntries') = 0
      BY <1>7, <1>11, <2>1
    <2>3. DOMAIN cfEntries' = {}
      BY <1>7, <1>11
    <2>4. Nested'
      BY <2>3 DEF Nested
    <2> QED
      BY <2>2, <2>3, <2>4 DEF Agreement
  <1>12. CASE n # 1
    <2>1. PICK m : m = n - 1
      OBVIOUS
    <2>2. m \in Nat \ {0} /\ m \in 1 .. n /\ n \in 1 .. n /\ m # n /\ m <= n /\ m + 1 = n
      BY <1>5, <1>12, <2>1
    <2>3. frame = Receiving(frames[m], types)
      <3>1. outer[Len(outer)] = frames[m]
        BY <1>6, <2>1, <2>2
      <3>2. Carried(Inner.result) = types
        BY <1>1, <1>4, InnerFrame
      <3> QED
        BY <3>1, <3>2 DEF Closing
    <2>6. frames' = [outer EXCEPT ![Len(outer)] = frame]
      <3>1. outer # <<>>
        BY <1>6, <2>1, <2>2
      <3> QED
        BY <3>1 DEF Closing
    <2>7. frames[m] \in FrameTypes
      BY <1>5, <2>2, ElementOfSeq
    <2>8. /\ frame \in FrameTypes /\ frame.operands = frames[m].operands \o types
          /\ frame.kind = frames[m].kind /\ frame.label = frames[m].label
          /\ frame.result = frames[m].result
      <3>1. PICK old \in FrameTypes : old = frames[m]
        BY <2>7
      <3>2. frame = Receiving(old, types) /\ types \in Seq(ValTypes)
        BY <1>5, <2>3, <3>1
      <3>3. /\ frame \in FrameTypes /\ frame.operands = old.operands \o types
            /\ frame.kind = old.kind /\ frame.label = old.label /\ frame.result = old.result
        BY <3>2, ReceivingFrame
      <3> QED
        BY <3>1, <3>3
    <2>9. frame.live = frames[m].live /\ frame.skipped = frames[m].skipped
      <3>1. PICK old \in FrameTypes : old = frames[m]
        BY <2>7
      <3>2. frame = Receiving(old, types)
        BY <2>3, <3>1
      <3>3. frame.live = old.live /\ frame.skipped = old.skipped
        BY <3>2, ReceivingFlags
      <3> QED
        BY <3>1, <3>3
    <2>10. /\ frames' \in Seq(FrameTypes) /\ Len(frames') = m /\ frames'[m] = frame
           /\ \A i \in 1 .. m - 1 : frames'[i] = frames[i]
      <3>1. Len(outer) \in Nat \ {0} /\ Len(outer) = m
        BY <1>6, <2>1, <2>2
      <3>2. PICK new : new = frames'
        OBVIOUS
      <3>3. new = [outer EXCEPT ![Len(outer)] = frame]
        BY <2>6, <3>2
      <3>4. /\ new \in Seq(FrameTypes) /\ Len(new) = Len(outer) /\ new[Len(outer)] = frame
            /\ \A i \in 1 .. Len(outer) - 1 : new[i] = outer[i]
        <4>1. outer \in Seq(FrameTypes) /\ frame \in FrameTypes /\ Len(outer) \in Nat \ {0}
          BY <1>6, <2>8, <3>1
        <4> QED
          BY <3>3, <4>1, LastReplaced
      <3>5. \A i \in 1 .. m - 1 : new[i] = frames[i]
        BY <1>6, <2>1, <2>2, <3>1, <3>4, Positions
      <3> QED
        BY <3>1, <3>2, <3>4, <3>5
    <2>11. /\ \A i \in 1 .. m : Outer(i)' = Outer(i) /\ Outer(i) \in Nat /\ Outer(i) <= base
           /\ \A i, j \in 1 .. m : i <= j => Outer(i) <= Outer(j)
           /\ Outer(n) = base
      <3>1. \A i \in 1 .. m : i \in 1 .. n
        BY <2>2
      <3>2. \A i \in 1 .. m : Outer(i)' = Outer(i)
        BY <1>7, <2>1 DEF Outer
      <3>3. /\ \A i \in 1 .. n : Outer(i) \in Nat /\ Outer(i) <= base
            /\ \A i, j \in 1 .. n : i <= j => Outer(i) <= Outer(j)
            /\ Outer(n) = base
        BY <1>1, <1>2, <1>3, Sizes
      <3> QED
        BY <3>1, <3>2, <3>3
    <2>12. /\ evalStack' \in Seq(Operands) /\ Len(evalStack') = base + Len(pushed)
           /\ Len(pushed) \in Nat /\ Len(evalStack') \in Nat /\ base <= Len(evalStack')
           /\ \A k \in 1 .. base : evalStack'[k] = evalStack[k]
      <3>1. /\ popped \o pushed \in Seq(Operands) /\ Len(popped \o pushed) = Len(popped) + Len(pushed)
            /\ \A k \in 1 .. Len(popped) + Len(pushed) :
                 (popped \o pushed)[k] = IF k <= Len(popped) THEN popped[k]
                                         ELSE pushed[k - Len(popped)]
        BY ConcatProperties
      <3>2. Len(pushed) \in Nat
        BY LenProperties
      <3>3. \A k \in 1 .. base : (popped \o pushed)[k] = popped[k]
        BY <1>5, <1>9, <3>1, <3>2
      <3> QED
        BY <1>5, <1>9, <3>1, <3>2, <3>3
    <2>13. Nested'
      <3>1. \A i \in 1 .. m : Outer(i)' <= Len(evalStack')
        BY <1>5, <2>11, <2>12
      <3>2. \A i, j \in 1 .. m : i <= j => Outer(i)' <= Outer(j)'
        BY <2>11
      <3> QED
        BY <1>7, <2>1, <3>1, <3>2 DEF Nested
    <2>14. \A i \in 1 .. m - 1 : Agrees(i)'
      <3>1. m <= Len(cfEntries') /\ Len(cfEntries') \in Nat /\ Outer(m)' = Outer(m)
        BY <1>7, <2>1, <2>2, <2>11
      <3>2. \A i \in 1 .. m - 1 : /\ frames'[i] = frames[i] /\ cfEntries'[i] = cfEntries[i]
                                 /\ blockEntries'[i] = blockEntries[i]
        BY <1>7, <1>8, <2>1, <2>2, <2>10, Positions
      <3>3. \A k \in 1 .. Outer(m) : evalStack'[k] = evalStack[k]
        <4>1. Outer(m) \in Nat /\ Outer(m) <= base
          BY <2>2, <2>11
        <4>2. \A k \in 1 .. Outer(m) : k \in 1 .. base
          BY <1>5, <4>1
        <4> QED
          BY <2>12, <4>2
      <3> QED
        BY <1>1, <1>2, <2>2, <3>1, <3>2, <3>3, OuterAgrees
    <2>15. Agrees(m)'
      <3>1. Agrees(m) /\ Last(m) = base
        <4>1. m \in DOMAIN cfEntries
          BY <1>2, <2>2, StackLengths
        <4> QED
          BY <1>2, <2>2, <2>11, <4>1 DEF Agreement, Last
      <3>2. Last(m)' = Len(evalStack') /\ Outer(m)' = Outer(m) /\ m = Len(cfEntries')
        BY <1>7, <2>1, <2>2, <2>11 DEF Last
      <3>3. Outer(m) \in Nat /\ Outer(m) <= Len(popped) /\ Outer(m) <= base
        BY <1>9, <2>2, <2>11
      <3>4. frames[m].operands = TypesOf(popped, Outer(m), Len(popped))
        <4>1. TypesOf(popped, Outer(m), base) = TypesOf(evalStack, Outer(m), base)
          <5>1. \A k \in 1 .. base : popped[k] = evalStack[k]
            BY <1>9
          <5>2. Outer(m) \in Nat /\ base \in Nat
            BY <1>5, <3>3
          <5> QED
            BY <5>1, <5>2, PrefixTypes
        <4>2. frames[m].operands = TypesOf(evalStack, Outer(m), base)
          BY <3>1 DEF Agrees
        <4> QED
          BY <1>9, <4>1, <4>2
      <3>5. frame.operands = TypesOf(evalStack', Outer(m), Len(evalStack'))
        <4>1. TypesOf(popped \o pushed, Outer(m), Len(popped \o pushed))
                = TypesOf(popped, Outer(m), Len(popped)) \o types
          <5>1. types \in Seq(ValTypes) /\ Outer(m) \in Nat /\ Outer(m) <= Len(popped)
            BY <1>5, <3>3
          <5>2. /\ Len(types) = Len(pushed)
                /\ \A k \in 1 .. Len(pushed) : pushed[k].type = types[k]
            BY <1>9
          <5> QED
            BY <5>1, <5>2, TypesPushed, ZenonT(60)
        <4> QED
          BY <1>9, <2>8, <3>4, <4>1
      <3>6. cfEntries'[m] = cfEntries[m] /\ blockEntries'[m] = blockEntries[m]
        <4>1. m \in 1 .. n - 1
          BY <2>1, <2>2
        <4> QED
          BY <1>7, <1>8, <4>1
      <3>7. frames[m].skipped = 0
        BY <1>2, <2>2, <3>1 DEF Agrees
      <3> QED
        BY <1>10, <2>8, <2>9, <2>10, <3>1, <3>2, <3>5, <3>6, <3>7 DEF Agrees
    <2>16. \A i \in 1 .. m : Agrees(i)'
      <3>1. \A i \in 1 .. m : i = m \/ i \in 1 .. m - 1
        BY <2>2, Positions
      <3> QED
        BY <2>14, <2>15, <3>1
    <2> QED
      BY <1>7, <2>1, <2>10, <2>13, <2>16 DEF Agreement
  <1> QED
    BY <1>11, <1>12

-----------------------------------------------------------------------------
(* The result of an opcode depends on nothing but its operands.            *)

\* The typings of an opcode take the same number of operands, and give the
\* same result or that of their first operand; LLVM accepts them for it or
\* whatever it is.
Determined(op) ==
    \A a, b \in op.typings :
        /\ Len(a.ins) = Len(b.ins)
        /\ a.out = b.out \/ (a.out = a.ins[1] /\ b.out = b.ins[1])
        /\ a.ins[1] = b.ins[1] /\ a.ok => b.ok

\* Typings of one opcode with the same operands have the same result.
LEMMA SameOperands ==
    ASSUME NEW op, Determined(op), NEW a \in op.typings, NEW b \in op.typings
    PROVE  Len(a.ins) = Len(b.ins) /\ (a.ins = b.ins => a.out = b.out /\ (a.ok => b.ok))
BY DEF Determined

\* Every opcode but the ones of variables is determined by its operands.
LEMMA DeterminedOpcodes ==
    ASSUME NEW type
    PROVE  /\ Determined(Nop) /\ Determined(Drop) /\ Determined(Select) /\ Determined(Eqz(type))
           /\ Determined(Const(type)) /\ Determined(Neg(type))
           /\ Determined(MemoryGrow) /\ Determined(MemorySize)
           /\ Determined(Load(type)) /\ Determined(Store(type))
           /\ Determined(ICmp) /\ Determined(FCmp) /\ Determined(IBinary) /\ Determined(FBinary)
           /\ Determined(UDiv) /\ Determined(SDiv) /\ Determined(SRem(type))
           /\ Determined(Shift(type)) /\ Determined(SignExt(type))
           /\ Determined(FMinMax(type)) /\ Determined(Copysign(type)) /\ Determined(Intrinsic(type))
           /\ \A from : Determined(Trunc(from, type)) /\ Determined(Cast(from, type))
PROOF
  <1>1. Determined(Nop) /\ Determined(Drop) /\ Determined(Eqz(type)) /\ Determined(Const(type))
    BY DEF Determined, Nop, Drop, Eqz, Const, Straight, Op, Typing
  <1>2. Determined(Select)
    BY DEF Determined, Select, Straight, Op, Typing
  <1>3. Determined(MemoryGrow) /\ Determined(MemorySize)
    BY DEF Determined, MemoryGrow, MemorySize, Op, Typing
  <1>4. Determined(Load(type)) /\ Determined(Store(type))
    BY DEF Determined, Load, Store, Op, Typing
  <1>5. Determined(ICmp) /\ Determined(FCmp) /\ Determined(IBinary) /\ Determined(FBinary)
    BY DEF Determined, ICmp, FCmp, IBinary, FBinary, Straight, Op, Typing
  <1>6. Determined(UDiv) /\ Determined(SDiv) /\ Determined(SRem(type))
    BY DEF Determined, UDiv, SDiv, SRem, Op, Typing
  <1>7. Determined(Shift(type)) /\ Determined(SignExt(type)) /\ Determined(Neg(type))
    BY DEF Determined, Shift, SignExt, Neg, Straight, Op, Typing
  <1>8. Determined(FMinMax(type)) /\ Determined(Copysign(type)) /\ Determined(Intrinsic(type))
    BY DEF Determined, FMinMax, Copysign, Intrinsic, Straight, Op, Typing
  <1>9. \A from : Determined(Trunc(from, type)) /\ Determined(Cast(from, type))
    BY DEF Determined, Trunc, Cast, Straight, Op, Typing
  <1> QED
    BY <1>1, <1>2, <1>3, <1>4, <1>5, <1>6, <1>7, <1>8, <1>9

\* So are the accesses to a local or a global: its type is the only one.
LEMMA DeterminedVariables ==
    ASSUME NEW types, NEW i
    PROVE  /\ Determined(GetVariable(types, i)) /\ Determined(SetVariable(types, i))
           /\ Determined(TeeVariable(types, i))
BY DEF Determined, GetVariable, SetVariable, TeeVariable, Straight, Op, Typing

\* Every opcode of the program is determined by its operands.
LEMMA OpcodesDetermined == \A op \in Opcodes : Determined(op)
PROOF
  <1> DEFINE family(f) == \A op \in OpcodesOf[f] : Determined(op)
  <1>1. family("nop") /\ family("drop") /\ family("select") /\ family("eqz")
         /\ family("const") /\ family("const32")
    BY DeterminedOpcodes DEF OpcodesOf
  <1>2. family("local") /\ family("global")
    BY DeterminedVariables DEF OpcodesOf
  <1>3. family("memory") /\ family("access")
    BY DeterminedOpcodes DEF OpcodesOf
  <1>4. family("trunc") /\ family("cast")
    BY DeterminedOpcodes DEF OpcodesOf
  <1>5. family("compare") /\ family("binary") /\ family("divide")
    BY DeterminedOpcodes DEF OpcodesOf
  <1>6. family("shift") /\ family("signext") /\ family("srem")
    BY DeterminedOpcodes DEF OpcodesOf
  <1>7. family("minmax") /\ family("unary")
    BY DeterminedOpcodes DEF OpcodesOf
  <1>8. DOMAIN OpcodesOf = {"nop", "drop", "select", "eqz", "const", "const32", "local",
            "global", "memory", "access", "trunc", "compare", "binary", "shift", "divide",
            "srem", "minmax", "unary", "cast", "signext"}
    BY DEF OpcodesOf
  <1>9. \A f \in DOMAIN OpcodesOf : family(f)
    BY <1>1, <1>2, <1>3, <1>4, <1>5, <1>6, <1>7, <1>8
  <1> QED
    BY <1>9, FamiliesAssumption DEF Opcodes

-----------------------------------------------------------------------------
(* What each instruction does when it obeys its rule: the two machines     *)
(* agree after it, and the translator does not throw.                      *)

\* The state an instruction that obeys its rule is read in.
Obeying == IInv /\ Agreement /\ refusedAt = "none" /\ refusedAt' = "none"

\* The basic blocks are counted.
LEMMA BlockCount ==
    ASSUME TypeOK
    PROVE  /\ Len(blocks) \in Nat
           /\ Len(blocks) + 1 \in Nat /\ Len(blocks) + 2 \in Nat /\ Len(blocks) + 3 \in Nat
PROOF
  <1>1. Len(blocks) \in Nat
    BY TypeParts, LenProperties DEF GraphTypes
  <1> QED
    BY <1>1

\* An instruction without operands pops nothing.
LEMMA NothingPopped ==
    ASSUME TypeOK
    PROVE  Len(<<>>) = 0 /\ Popped(Len(<<>>)) = evalStack
PROOF
  <1>1. Len(<<>>) = 0 /\ evalStack \in Seq(Operands) /\ Len(evalStack) \in Nat
    BY TypeParts, LenProperties DEF StackTypes
  <1>2. 0 \in Nat /\ 0 <= Len(evalStack) /\ Len(evalStack) - 0 = Len(evalStack)
    BY <1>1
  <1>3. /\ Popped(0) \in Seq(Operands) /\ Len(Popped(0)) = Len(evalStack)
        /\ \A i \in 1 .. Len(evalStack) : Popped(0)[i] = evalStack[i]
    BY <1>2, PoppedType
  <1>4. Popped(0) = evalStack
    BY <1>1, <1>3, SeqEqual
  <1> QED
    BY <1>1, <1>4

\* The first structure is the function itself.
LEMMA StartAgrees ==
    ASSUME IInv, NEW result \in ResultTypes, StartFunction(result), refusedAt' = "none",
           Obey("form", frames = <<>>, <<Frame("function", Carried(result), result)>>), IInv'
    PROVE  Agreement' /\ status' = "body"
PROOF
  <1>1. IInv /\ TypeOK /\ status = "section" /\ status' = "body"
    BY DEF StartFunction, IInv
  <1>2. cfEntries = <<>> /\ evalStack = <<>> /\ unreachableDepth = 0 /\ Len(evalStack) = 0
    <2>1. cfEntries = <<>>
      BY <1>1 DEF IInv, StacksInv, Idle
    <2>2. Len(evalStack) = 0 /\ unreachableDepth = 0
      BY <1>1, <2>1 DEF IInv, StacksInv, FunctionEndsClean
    <2>3. evalStack = <<>>
      BY <1>1, <2>2, TypeParts, EmptySeq DEF StackTypes
    <2> QED
      BY <2>1, <2>2, <2>3
  <1>3. frames' = <<Frame("function", Carried(result), result)>>
    BY DEF Obey
  <1>4. /\ cfEntries' \in Seq(Entries) /\ Len(cfEntries') = 1 /\ DOMAIN cfEntries' = {1}
        /\ cfEntries'[1].outerStackSize = 0 /\ cfEntries'[1].signature = result
        /\ cfEntries'[1].else = NoBlock /\ cfEntries'[1].reachable = TRUE
        /\ blockEntries'[1].signature = result
        /\ evalStack' = <<>> /\ unreachableDepth' = 0
    <2>1. blockEntries = <<>>
      BY <1>1, <1>2 DEF IInv, StacksInv, FunctionEndsClean
    <2>2. cfEntries' \in Seq(Entries)
      BY TypePartsNext DEF IInv, StackTypes
    <2>3. /\ cfEntries' = Append(<<>>, [instr |-> "function", signature |-> result,
                 end |-> FuncEnd, else |-> NoBlock, outerStackSize |-> Len(evalStack),
                 outerBlockDepth |-> Len(blockEntries), reachable |-> TRUE])
          /\ blockEntries' = Append(<<>>, [signature |-> result, block |-> FuncEnd])
          /\ evalStack' = evalStack /\ unreachableDepth' = unreachableDepth
      BY <1>2, <2>1 DEF StartFunction, PushCFEntry, PushBlockEntry
    <2> QED
      BY <1>2, <2>2, <2>3
  <1>5. /\ Frame("function", Carried(result), result) \in FrameTypes
        /\ Frame("function", Carried(result), result).kind = "function"
        /\ Frame("function", Carried(result), result).label = Carried(result)
        /\ Frame("function", Carried(result), result).result = result
        /\ Frame("function", Carried(result), result).operands = <<>>
    <2>1. "function" \in Kinds
      BY DEF Kinds
    <2> QED
      BY <2>1, FrameType
  <1>6. /\ Frame("function", Carried(result), result).live = TRUE
        /\ Frame("function", Carried(result), result).skipped = 0
    BY FrameFlags
  <1>7. frames' \in Seq(FrameTypes) /\ Len(frames') = 1
        /\ frames'[1] = Frame("function", Carried(result), result)
    BY <1>3, <1>5
  <1>8. Nested'
    BY <1>4 DEF Nested, Outer
  <1>9. Agrees(1)'
    <2>1. TypesOf(evalStack', 0, 0) = <<>>
      <3>1. /\ <<>> \in Seq(Operands) /\ Len(<<>>) = 0
            /\ 0 \in Nat /\ 0 <= 0
        OBVIOUS
      <3>2. TypesOf(<<>>, 0, 0) = <<>>
        BY <3>1, NoTypes
      <3> QED
        BY <1>4, <3>2
    <2>2. Outer(1)' = 0 /\ Last(1)' = 0
      BY <1>4 DEF Outer, Last
    <2> QED
      BY <1>4, <1>5, <1>6, <1>7, <2>1, <2>2 DEF Agrees
  <1> QED
    BY <1>1, <1>4, <1>7, <1>8, <1>9 DEF Agreement

\* block opens a structure in both machines.
LEMMA BlockAgrees ==
    ASSUME Obeying, NEW signature \in ResultTypes, Block(signature),
           OpenRule("block", Carried(signature), signature, <<>>)
    PROVE  Agreement' /\ status' = "body"
PROOF
  <1>1. IInv /\ Agreement /\ Live /\ TypeOK /\ status' = "body"
    BY DEF Obeying, Block, Live, InBody, IInv
  <1>2. /\ Holds(<<>>)
        /\ frames' = Append(Leaving(Without(Len(<<>>))),
                            Frame("block", Carried(signature), signature))
    BY DEF Obeying, OpenRule, Obey
  <1>3. PICK end \in Nat : end = Len(blocks) + 1
    BY <1>1, BlockCount
  <1>4. /\ evalStack' = Popped(Len(<<>>)) /\ unreachableDepth' = unreachableDepth
        /\ PushCFEntry("block", signature, end, NoBlock, evalStack')
        /\ PushBlockEntry(signature, end)
    <2>1. evalStack' = evalStack /\ unreachableDepth' = unreachableDepth
          /\ PushCFEntry("block", signature, end, NoBlock, evalStack)
          /\ PushBlockEntry(signature, end)
      BY <1>3 DEF Block
    <2>2. PushCFEntry("block", signature, end, NoBlock, evalStack')
      BY <2>1
    <2> QED
      BY <1>1, <2>1, <2>2, NothingPopped
  <1>5. "block" \in Kinds /\ NoBlock \in Nat /\ <<>> \in Seq(ValTypes) /\ "block" # "if"
    BY DEF Kinds, NoBlock
  <1>6. Agreement'
    BY <1>1, <1>2, <1>3, <1>4, <1>5, OpenAgrees, Zenon
  <1> QED
    BY <1>1, <1>6

\* loop opens a structure in both machines.
LEMMA LoopAgrees ==
    ASSUME Obeying, NEW signature \in ResultTypes, Loop(signature),
           OpenRule("loop", <<>>, signature, <<>>)
    PROVE  Agreement' /\ status' = "body"
PROOF
  <1>1. IInv /\ Agreement /\ Live /\ TypeOK /\ status' = "body"
    BY DEF Obeying, Loop, Live, InBody, IInv
  <1>2. /\ Holds(<<>>)
        /\ frames' = Append(Leaving(Without(Len(<<>>))), Frame("loop", Carried(Void), signature))
    <2>1. Carried(Void) = <<>>
      BY DEF Carried
    <2> QED
      BY <2>1 DEF Obeying, OpenRule, Obey
  <1>3. PICK entry \in Nat, end \in Nat : entry = Len(blocks) + 1 /\ end = Len(blocks) + 2
    BY <1>1, BlockCount
  <1>4. /\ evalStack' = Popped(Len(<<>>)) /\ unreachableDepth' = unreachableDepth
        /\ PushCFEntry("loop", signature, end, NoBlock, evalStack')
        /\ PushBlockEntry(Void, entry)
    <2>1. evalStack' = evalStack /\ unreachableDepth' = unreachableDepth
          /\ PushCFEntry("loop", signature, end, NoBlock, evalStack)
          /\ PushBlockEntry(Void, entry)
      BY <1>3 DEF Loop
    <2>2. PushCFEntry("loop", signature, end, NoBlock, evalStack')
      BY <2>1
    <2> QED
      BY <1>1, <2>1, <2>2, NothingPopped
  <1>5. /\ "loop" \in Kinds /\ NoBlock \in Nat /\ <<>> \in Seq(ValTypes) /\ "loop" # "if"
        /\ Void \in ResultTypes
    BY ValTypesFacts DEF Kinds, NoBlock
  <1>6. Agreement'
    BY <1>1, <1>2, <1>3, <1>4, <1>5, OpenAgrees, Zenon
  <1> QED
    BY <1>1, <1>6

\* if pops its condition and opens a structure in both machines.
LEMMA IfAgrees ==
    ASSUME Obeying, NEW signature \in ResultTypes, If(signature),
           OpenRule("if", Carried(signature), signature, <<"i32">>)
    PROVE  Agreement' /\ status' = "body"
PROOF
  <1>1. IInv /\ Agreement /\ Live /\ TypeOK /\ status = "body" /\ InBody
    BY DEF Obeying, If, Live, InBody, IInv
  <1>2. /\ Holds(<<"i32">>)
        /\ frames' = Append(Leaving(Without(Len(<<"i32">>))),
                            Frame("if", Carried(signature), signature))
    BY DEF Obeying, OpenRule, Obey
  <1>3. <<"i32">> \in Seq(ValTypes) /\ Len(<<"i32">>) = 1
    BY ValTypesFacts
  <1>4. Fits(<<"i32">>)
    BY <1>1, <1>2, <1>3, HoldsFits
  <1>5. PICK else \in Nat, end \in Nat : /\ else = Len(blocks) + 2 /\ end = Len(blocks) + 3
                                         /\ else # NoBlock
    <2>1. Len(blocks) + 2 # NoBlock
      BY <1>1, BlockCount DEF NoBlock
    <2> QED
      BY <1>1, <2>1, BlockCount
  <1>6. /\ evalStack' = Popped(1) /\ unreachableDepth' = unreachableDepth /\ status' = status
        /\ PushCFEntry("if", signature, end, else, evalStack')
        /\ PushBlockEntry(signature, end)
    BY <1>4, <1>5 DEF If
  <1>7. evalStack' = Popped(Len(<<"i32">>)) /\ "if" \in Kinds
    BY <1>3, <1>6 DEF Kinds
  <1>8. Agreement'
    BY <1>1, <1>2, <1>3, <1>5, <1>6, <1>7, OpenAgrees, Zenon
  <1> QED
    BY <1>1, <1>6, <1>8

-----------------------------------------------------------------------------
(* Code that cannot be reached leaves nothing on the stack.                *)

DeadEmpty == InBody /\ ~Top.reachable => Len(evalStack) = Top.outerStackSize

\* A jump out of a structure empties its operands.
LEMMA SkipEmpties ==
    ASSUME TypeOK, InBody, NEW stack \in Seq(Operands), Len(stack) >= Top.outerStackSize,
           SkipUnreachable(stack)
    PROVE  DeadEmpty'
PROOF
  <1>1. PICK base : base = Top.outerStackSize
    OBVIOUS
  <1>2. base \in Nat /\ base <= Len(stack)
    BY <1>1, TopType
  <1>3. Len(evalStack') = base
    <2>1. PICK new : new = evalStack'
      OBVIOUS
    <2>2. new = SubSeq(stack, 1, base)
      BY <1>1, <2>1 DEF SkipUnreachable
    <2>3. Len(new) = base
      BY <1>2, <2>2, Prefix
    <2> QED
      BY <2>1, <2>3
  <1>4. Len(cfEntries') = Len(cfEntries) /\ Top'.outerStackSize = base
    <2>1. /\ cfEntries \in Seq(Entries) /\ Len(cfEntries) \in Nat \ {0}
          /\ DOMAIN cfEntries = 1 .. Len(cfEntries) /\ Top \in Entries
      BY TopType, TypeParts DEF StackTypes
    <2>2. PICK entry : entry = [Top EXCEPT !.reachable = FALSE]
      OBVIOUS
    <2>3. entry \in Entries /\ entry.outerStackSize = base
      BY <1>1, <2>1, <2>2 DEF Entries
    <2>4. cfEntries' = [cfEntries EXCEPT ![Len(cfEntries)] = entry]
      BY <2>1, <2>2 DEF SkipUnreachable, Top
    <2>5. PICK new : new = cfEntries'
      OBVIOUS
    <2>6. new = [cfEntries EXCEPT ![Len(cfEntries)] = entry]
      BY <2>4, <2>5
    <2>7. Len(new) = Len(cfEntries) /\ new[Len(cfEntries)] = entry
      BY <2>1, <2>3, <2>6, LastReplaced
    <2> QED
      BY <2>3, <2>5, <2>7 DEF Top
  <1> QED
    BY <1>3, <1>4 DEF DeadEmpty

\* A structure opens in code that can be reached.
LEMMA OpensLive ==
    ASSUME IInv, NEW instr \in Kinds, NEW signature \in ResultTypes, NEW end, NEW else,
           NEW stack, PushCFEntry(instr, signature, end, else, stack)
    PROVE  DeadEmpty'
PROOF
  <1>1. Len(cfEntries) \in Nat /\ cfEntries \in Seq(Entries)
    BY StackLengths
  <1>2. PICK entry : entry = [instr |-> instr, signature |-> signature, end |-> end,
                              else |-> else, outerStackSize |-> Len(stack),
                              outerBlockDepth |-> Len(blockEntries), reachable |-> TRUE]
    OBVIOUS
  <1>3. cfEntries' = Append(cfEntries, entry) /\ entry.reachable = TRUE
    BY <1>2 DEF PushCFEntry
  <1>4. Top' = entry
    BY <1>1, <1>3 DEF Top
  <1> QED
    BY <1>3, <1>4 DEF DeadEmpty

\* A step that leaves the control stack alone leaves dead code empty.
LEMMA KeepsEntries ==
    ASSUME Live, cfEntries' = cfEntries
    PROVE  DeadEmpty'
BY DEF Live, DeadEmpty, Top

\* A module starts without dead code.
LEMMA InitDead == Init => DeadEmpty
BY DEF Init, DeadEmpty, InBody

\* A translation that stops leaves the control stack as it is.
LEMMA StopDead ==
    ASSUME NEW outcome, Stop(outcome)
    PROVE  DeadEmpty'
BY DEF Stop, DeadEmpty, InBody

\* An else or an end comes back to code that can be reached, or to an entry
\* whose operands were cut.
LEMMA JoinDead ==
    ASSUME IInv, Else \/ End
    PROVE  DeadEmpty'
PROOF
  <1>1. CASE \E outcome \in Finished : Stop(outcome)
    BY <1>1, StopDead
  <1>2. CASE ~\E outcome \in Finished : Stop(outcome)
    <2>1. ~Stop("invalid") /\ ~Stop("aborted")
      BY <1>2, Outcomes
    <2>2. InBody /\ cfEntries \in Seq(Entries) /\ Len(cfEntries) \in Nat \ {0}
          /\ DOMAIN cfEntries = 1 .. Len(cfEntries)
      BY TopType, StackLengths DEF Else, End, AtJoin, IInv
    <2>3. CASE Else
      <3>1. cfEntries' = [cfEntries EXCEPT ![Len(cfEntries)] =
                            [@ EXCEPT !.instr = "else", !.reachable = TRUE, !.else = NoBlock]]
        BY <2>1, <2>3 DEF Else
      <3>2. PICK entry : entry = [Top EXCEPT !.instr = "else", !.reachable = TRUE, !.else = NoBlock]
        OBVIOUS
      <3>3. Top \in Entries
        BY <2>2, TopType DEF IInv
      <3>4. entry \in Entries /\ entry.reachable = TRUE
        BY <3>2, <3>3 DEF Entries, Kinds, NoBlock
      <3>5. cfEntries' = [cfEntries EXCEPT ![Len(cfEntries)] = entry]
        BY <2>2, <3>1, <3>2 DEF Top
      <3>6. PICK new : new = cfEntries'
        OBVIOUS
      <3>7. new = [cfEntries EXCEPT ![Len(cfEntries)] = entry]
        BY <3>5, <3>6
      <3>8. Len(new) = Len(cfEntries) /\ new[Len(cfEntries)] = entry
        BY <2>2, <3>4, <3>7, LastReplaced
      <3> QED
        BY <3>4, <3>6, <3>8 DEF DeadEmpty, Top
    <2>4. CASE End
      <3>1. cfEntries' = SubSeq(cfEntries, 1, Len(cfEntries) - 1)
        BY <2>1, <2>4 DEF End
      <3>2. PICK n \in Nat : n = Len(cfEntries) - 1
        <4>1. Len(cfEntries) - 1 \in Nat
          BY <2>2
        <4> QED
          BY <4>1
      <3>3. n <= Len(cfEntries) /\ n < Len(cfEntries)
        BY <2>2, <3>2
      <3>4. PICK new : new = cfEntries'
        OBVIOUS
      <3>5. /\ new \in Seq(Entries) /\ Len(new) = n /\ \A k \in 1 .. n : new[k] = cfEntries[k]
        <4>1. new = SubSeq(cfEntries, 1, n)
          BY <3>1, <3>2, <3>4
        <4> QED
          BY <2>2, <3>3, <4>1, Prefix
      <3>6. CASE n = 0
        <4>1. new = <<>>
          BY <3>5, <3>6, EmptySeq
        <4> QED
          BY <3>4, <4>1 DEF DeadEmpty, InBody
      <3>7. CASE n # 0
        <4>1. n \in DOMAIN cfEntries /\ n \in 1 .. n
          BY <2>2, <3>3, <3>7
        <4>2. Top' = cfEntries[n]
          BY <3>4, <3>5, <4>1 DEF Top
        <4>3. cfEntries[n].reachable
          BY <3>3, <4>1 DEF IInv, StacksInv, OnlyTopSkipped
        <4> QED
          BY <4>2, <4>3 DEF DeadEmpty
      <3> QED
        BY <3>6, <3>7
    <2> QED
      BY <2>3, <2>4
  <1> QED
    BY <1>1, <1>2

\* A jump cuts the stack at the structure it leaves.
LEMMA JumpDead ==
    ASSUME IInv, JumpStep
    PROVE  DeadEmpty'
PROOF
  <1>1. CASE \E outcome \in Finished : Stop(outcome)
    BY <1>1, StopDead
  <1>2. CASE ~\E outcome \in Finished : Stop(outcome)
    <2>1. TypeOK /\ ~Stop("invalid")
      BY <1>2, Outcomes DEF IInv
    \* The operands the jump takes are popped before the code is dead.
    <2>2. ASSUME NEW operands \in Seq(ValTypes), InBody, Fits(operands),
                 SkipUnreachable(Popped(Len(operands)))
          PROVE  DeadEmpty'
      <3>1. /\ Len(operands) \in Nat /\ Len(operands) <= Len(evalStack)
            /\ Len(evalStack) >= Top.outerStackSize + Len(operands)
            /\ Top.outerStackSize \in Nat /\ Len(evalStack) \in Nat
        BY <2>1, <2>2, FitsLength, TopType, TypeParts, LenProperties DEF StackTypes
      <3>2. PICK stack : stack = Popped(Len(operands))
        OBVIOUS
      <3>3. stack \in Seq(Operands) /\ Len(stack) = Len(evalStack) - Len(operands)
        BY <2>1, <3>1, <3>2, PoppedType
      <3>4. Len(stack) >= Top.outerStackSize
        BY <3>1, <3>3
      <3>5. SkipUnreachable(stack)
        BY <2>2, <3>2
      <3> QED
        BY <2>1, <2>2, <3>3, <3>4, <3>5, SkipEmpties
    <2>3. CASE Unreachable
      <3>1. /\ InBody /\ evalStack \in Seq(Operands) /\ Len(evalStack) >= Top.outerStackSize
            /\ SkipUnreachable(evalStack)
        BY <2>1, <2>3, TypeParts DEF Unreachable, Live, StackTypes
      <3> QED
        BY <2>1, <3>1, SkipEmpties
    <2>4. ASSUME NEW depth \in Depths, Br(depth)
          PROVE  DeadEmpty'
      <3>1. /\ InBody /\ InRange(depth) /\ Fits(Carried(Target(depth).signature))
            /\ SkipUnreachable(Popped(Len(Carried(Target(depth).signature))))
        BY <2>1, <2>4 DEF Br, Live
      <3>2. depth \in Nat
        BY BoundsAssumption DEF Depths
      <3>3. Carried(Target(depth).signature) \in Seq(ValTypes)
        BY <2>1, <3>1, <3>2, TargetType, CarriedType
      <3> QED
        BY <2>2, <3>1, <3>3
    <2>5. ASSUME NEW depth \in Depths, BrIf(depth)
          PROVE  DeadEmpty'
      <3>1. Live /\ cfEntries' = cfEntries
        BY <2>1, <2>5 DEF BrIf
      <3> QED
        BY <3>1, KeepsEntries
    <2>6. ASSUME NEW n \in 0 .. MaxTargets, NEW depths \in [1 .. n -> Depths],
                 NEW default \in Depths, BrTable(depths, default)
          PROVE  DeadEmpty'
      <3>1. PICK operands : operands = Carried(Target(default).signature) \o <<"i32">>
        OBVIOUS
      <3>2. /\ InBody /\ InRange(default) /\ Fits(operands)
            /\ SkipUnreachable(Popped(Len(operands)))
        BY <2>1, <2>6, <3>1 DEF BrTable, Live
      <3>3. default \in Nat
        BY BoundsAssumption DEF Depths
      <3>4. operands \in Seq(ValTypes)
        BY <2>1, <3>1, <3>2, <3>3, TargetType, OperandsType
      <3> QED
        BY <2>2, <3>2, <3>4
    <2>7. CASE Return
      <3>1. /\ InBody /\ Fits(Carried(returnType))
            /\ SkipUnreachable(Popped(Len(Carried(returnType))))
        BY <2>1, <2>7 DEF Return, Live
      <3>2. Carried(returnType) \in Seq(ValTypes)
        BY <2>1, CarriedType DEF TypeOK
      <3> QED
        BY <2>2, <3>1, <3>2
    <2> QED
      BY <2>3, <2>4, <2>5, <2>6, <2>7 DEF JumpStep
  <1> QED
    BY <1>1, <1>2

\* An instruction that does not jump is read in code that can be reached.
LEMMA StraightDead ==
    ASSUME IInv, StraightStep
    PROVE  DeadEmpty'
PROOF
  <1>1. CASE \E outcome \in Finished : Stop(outcome)
    BY <1>1, StopDead
  <1>2. CASE ~\E outcome \in Finished : Stop(outcome)
    <2>1. ~Stop("invalid")
      BY <1>2, Outcomes
    <2>2. ASSUME NEW callee \in Callees, Call(callee) \/ CallIndirect(callee)
          PROVE  Live /\ cfEntries' = cfEntries
      BY <2>1, <2>2 DEF Call, CallIndirect
    <2>3. ASSUME NEW op \in Opcodes, Execute(op)
          PROVE  Live /\ cfEntries' = cfEntries
      BY <2>1, <2>3 DEF Execute
    <2>4. Live /\ cfEntries' = cfEntries
      BY <2>2, <2>3 DEF StraightStep
    <2> QED
      BY <2>4, KeepsEntries
  <1> QED
    BY <1>1, <1>2

\* Dead code stays empty.
LEMMA StepDead ==
    ASSUME IInv, DeadEmpty, [Next]_vars
    PROVE  DeadEmpty'
PROOF
  <1>1. CASE SkipBlock \/ SkipEnd \/ UNCHANGED vars
    <2>1. evalStack' = evalStack /\ cfEntries' = cfEntries /\ status' = status
      BY <1>1 DEF SkipBlock, SkipEnd, vars
    <2> QED
      BY <2>1 DEF DeadEmpty, InBody, Top
  <1>2. CASE SkipOther
    BY <1>1, <1>2 DEF SkipOther
  <1>3. ASSUME NEW result \in BodyResults, StartFunction(result)
        PROVE  DeadEmpty'
    <2>1. PushCFEntry("function", result, FuncEnd, NoBlock, evalStack) /\ result \in ResultTypes
          /\ "function" \in Kinds
      BY <1>3, ResultsAssumption DEF StartFunction, Kinds
    <2> QED
      BY <2>1, OpensLive
  <1>4. ASSUME NEW signature \in BlockTypes, Block(signature) \/ Loop(signature) \/ If(signature)
        PROVE  DeadEmpty'
    <2>1. signature \in ResultTypes /\ {"block", "loop", "if"} \subseteq Kinds
      BY ResultsAssumption DEF Kinds
    <2>2. CASE Block(signature)
      <3>1. PushCFEntry("block", signature, Len(blocks) + 1, NoBlock, evalStack)
        BY <2>2 DEF Block
      <3> QED
        BY <2>1, <3>1, OpensLive
    <2>3. CASE Loop(signature)
      <3>1. PushCFEntry("loop", signature, Len(blocks) + 2, NoBlock, evalStack)
        BY <2>3 DEF Loop
      <3> QED
        BY <2>1, <3>1, OpensLive
    <2>4. CASE If(signature) /\ ~Stop("invalid")
      <3>1. PushCFEntry("if", signature, Len(blocks) + 3, Len(blocks) + 2, evalStack')
        BY <2>4 DEF If
      <3> QED
        BY <2>1, <3>1, OpensLive
    <2>5. CASE Stop("invalid")
      BY <2>5, StopDead
    <2> QED
      BY <1>4, <2>2, <2>3, <2>4, <2>5
  <1>5. CASE ControlStep
    BY <1>1, <1>2, <1>3, <1>4, <1>5, JoinDead DEF ControlStep
  <1>6. CASE OutcomeStep
    <2>1. status' # "body"
      BY <1>6 DEF OutcomeStep, UndeclaredFunction, BadImmediate, Malformed, FinishFunction,
                  BodySizeMismatch, FinishModule, Stop
    <2> QED
      BY <2>1 DEF DeadEmpty, InBody
  <1> QED
    BY <1>1, <1>5, <1>6, JumpDead, StraightDead DEF Next

\* An instruction that is not refused obeys its rule.
LEMMA RuleObeyed ==
    ASSUME Obeying, NEW rule, rule # "none", NEW legal, NEW next, Obey(rule, legal, next)
    PROVE  legal /\ frames' = next
BY DEF Obeying, Obey

\* A structure whose rule lets it close holds what its last pop() wants.
LEMMA ClosesFrame ==
    ASSUME IInv, Agreement, DeadEmpty, AtJoin, Closes
    PROVE  FrameCloses
PROOF
  <1>1. InBody /\ TypeOK
    BY DEF AtJoin, IInv
  <1>2. /\ Inner.live = Top.reachable /\ Inner.result = Top.signature
        /\ Len(Inner.operands) = Len(evalStack) - Top.outerStackSize
        /\ Top.outerStackSize \in Nat /\ Len(evalStack) \in Nat
        /\ \A k \in 1 .. Len(evalStack) - Top.outerStackSize :
             Inner.operands[k] = evalStack[Top.outerStackSize + k].type
    BY <1>1, InnerFrame
  <1>3. CASE Top.reachable
    <2>1. Inner.operands = Yielded
      BY <1>2, <1>3 DEF Closes, Yielded
    <2>2. /\ Len(Yielded) = Len(evalStack) - Top.outerStackSize
          /\ \A k \in 1 .. Len(Yielded) : Yielded[k] = evalStack[Top.outerStackSize + k].type
      BY <1>2, <2>1
    <2>3. PICK n \in Nat : n = Len(Yielded)
      BY <1>1, YieldedType
    <2>4. Len(evalStack) = Top.outerStackSize + n
      BY <1>2, <2>2, <2>3
    <2>5. \A k \in 1 .. n : Len(evalStack) - n + k = Top.outerStackSize + k
      BY <1>2, <2>3, <2>4
    <2>6. \A k \in 1 .. n : evalStack[Len(evalStack) - n + k].type = Yielded[k]
      BY <2>2, <2>3, <2>5
    <2>7. Len(evalStack) >= Top.outerStackSize + n
      BY <1>2, <2>3, <2>4
    <2> QED
      BY <2>3, <2>4, <2>6, <2>7 DEF FrameCloses, Fits
  <1>4. CASE ~Top.reachable
    <2>1. Yielded = <<>> /\ Len(Yielded) = 0
      BY <1>4 DEF Yielded
    <2>2. Len(evalStack) = Top.outerStackSize
      BY <1>1, <1>4 DEF DeadEmpty
    <2>3. Len(evalStack) = Top.outerStackSize + 0 /\ Len(evalStack) >= Top.outerStackSize + 0
      BY <1>2, <2>2
    <2>4. \A k \in 1 .. 0 : evalStack[Len(evalStack) - 0 + k].type = Yielded[k]
      OBVIOUS
    <2> QED
      BY <2>1, <2>3, <2>4 DEF FrameCloses, Fits
  <1> QED
    BY <1>3, <1>4

\* An else its rule allows keeps the agreement.
LEMMA ElseFollows ==
    ASSUME Obeying, DeadEmpty, Else, ElseRule
    PROVE  Agreement' /\ status' = "body"
PROOF
  <1>1. IInv /\ Agreement /\ AtJoin /\ InBody /\ status = "body"
    BY DEF Obeying, Else, AtJoin, InBody
  <1>2. /\ Closes /\ Inner.kind = "if"
        /\ frames' = [frames EXCEPT ![Len(frames)] = Frame("else", Inner.label, Inner.result)]
    BY DEF Obeying, ElseRule, Obey
  <1>3. FrameCloses
    BY <1>1, <1>2, ClosesFrame
  <1>4. Top.else # NoBlock
    BY <1>1, <1>2, InnerFrame
  <1>5. /\ evalStack' = Popped(Len(Yielded))
        /\ cfEntries' = [cfEntries EXCEPT ![Len(cfEntries)] =
                           [@ EXCEPT !.instr = "else", !.reachable = TRUE, !.else = NoBlock]]
        /\ UNCHANGED <<blockEntries, unreachableDepth>> /\ status' = status
    BY <1>3, <1>4 DEF Else
  <1>6. Agreement'
    BY <1>1, <1>2, <1>3, <1>5, ElseAgrees
  <1> QED
    BY <1>1, <1>5, <1>6

\* An end its rule allows keeps the agreement.
LEMMA EndFollows ==
    ASSUME Obeying, DeadEmpty, End, EndRule
    PROVE  Agreement' /\ status' = "body"
PROOF
  <1>1. IInv /\ Agreement /\ AtJoin /\ InBody /\ status = "body"
    BY DEF Obeying, End, AtJoin, InBody
  <1> DEFINE outer == SubSeq(frames, 1, Len(frames) - 1)
             frame == Receiving(outer[Len(outer)], Carried(Inner.result))
  <1>2. ~(refusedAt = "none" /\ Closes /\ Inner.kind = "if" /\ Inner.result # Void)
    <2>1. ~Obey("missing else", FALSE, frames)
      BY DEF Obeying, Obey
    <2> QED
      BY <2>1 DEF EndRule
  <1>3. Obey("join", Closes, IF outer = <<>> THEN <<>> ELSE [outer EXCEPT ![Len(outer)] = frame])
    BY <1>2, Zenon DEF EndRule, Receiving
  <1>4. Closes /\ frames' = IF outer = <<>> THEN <<>> ELSE [outer EXCEPT ![Len(outer)] = frame]
    <2>1. PICK next : next = IF outer = <<>> THEN <<>> ELSE [outer EXCEPT ![Len(outer)] = frame]
      OBVIOUS
    <2>2. "join" # "none" /\ Obey("join", Closes, next)
      BY <1>3, <2>1
    <2>3. Closes /\ frames' = next
      BY <2>2, RuleObeyed, Zenon
    <2> QED
      BY <2>1, <2>3
  <1>5. FrameCloses
    BY <1>1, <1>4, ClosesFrame
  <1>6. PICK values : values = incoming'
    OBVIOUS
  <1>7. /\ evalStack' = Popped(Len(Yielded)) \o Result(values)
        /\ blockEntries' = SubSeq(blockEntries, 1, Top.outerBlockDepth)
        /\ cfEntries' = SubSeq(cfEntries, 1, Len(cfEntries) - 1)
        /\ unreachableDepth' = unreachableDepth /\ status' = status
    BY <1>5, <1>6 DEF End
  <1>8. Closing(values, outer, frame)
    BY <1>1, <1>4, <1>5, <1>7, Zenon DEF Closing
  <1> HIDE DEF outer, frame
  <1>9. Agreement'
    BY <1>1, <1>8, EndAgrees, Zenon
  <1> QED
    BY <1>1, <1>7, <1>9

\* Structures in code that cannot be reached are counted by both.
LEMMA SkipAgrees ==
    ASSUME IInv, Agreement, InBody, NEW count \in Nat,
           frames' = [frames EXCEPT ![Len(frames)].skipped = count],
           UNCHANGED <<evalStack, cfEntries, blockEntries>>, unreachableDepth' = count
    PROVE  Agreement'
PROOF
  <1>1. PICK frame : frame = [Inner EXCEPT !.skipped = count]
    OBVIOUS
  <1>2. PICK entry : entry = Top
    OBVIOUS
  <1>3. /\ Inner \in FrameTypes /\ entry \in Entries /\ entry = Top
        /\ Inner.operands = TypesOf(evalStack, Top.outerStackSize, Len(evalStack))
        /\ Inner.live = Top.reachable
        /\ Inner.kind = "if" <=> Top.else # NoBlock
        /\ Len(evalStack) \in Nat /\ Top.outerStackSize <= Len(evalStack)
    BY <1>2, InnerFrame, TopType DEF IInv
  <1>4. /\ frame \in FrameTypes /\ frame.kind = Inner.kind /\ frame.label = Inner.label
        /\ frame.result = Inner.result /\ frame.operands = Inner.operands
        /\ frame.live = Inner.live /\ frame.skipped = count
    BY <1>1, <1>3 DEF FrameTypes
  <1>5. frames' = [frames EXCEPT ![Len(frames)] = frame]
    BY <1>1 DEF Inner
  <1>6. cfEntries' = [cfEntries EXCEPT ![Len(cfEntries)] = entry] /\ blockEntries' = blockEntries
    <2>1. /\ cfEntries' = cfEntries /\ blockEntries' = blockEntries
          /\ cfEntries \in Seq(Entries) /\ Len(cfEntries) \in DOMAIN cfEntries
      BY InnerFrame, StackLengths
    <2> QED
      BY <1>2, <2>1 DEF Top
  <1>7. /\ entry.outerStackSize = Top.outerStackSize /\ entry.signature = Top.signature
        /\ frame.kind = "if" <=> entry.else # NoBlock
        /\ frame.live = entry.reachable /\ frame.skipped = unreachableDepth'
    BY <1>3, <1>4, Zenon
  <1>8. /\ Len(evalStack') \in Nat /\ Top.outerStackSize <= Len(evalStack')
        /\ \A k \in 1 .. Top.outerStackSize : evalStack'[k] = evalStack[k]
        /\ frame.operands = TypesOf(evalStack', Top.outerStackSize, Len(evalStack'))
    <2>1. evalStack' = evalStack
      OBVIOUS
    <2> QED
      BY <1>3, <1>4, <2>1, Zenon
  <1> QED
    BY <1>3, <1>4, <1>5, <1>6, <1>7, <1>8, InnerChanges, Zenon

\* A structure opened in dead code keeps the agreement.
LEMMA SkipBlockFollows ==
    ASSUME Obeying, SkipBlock, SkippedRule(1)
    PROVE  Agreement' /\ status' = "body"
PROOF
  <1>1. /\ IInv /\ Agreement /\ InBody /\ status' = "body"
        /\ UNCHANGED <<evalStack, cfEntries, blockEntries>>
        /\ unreachableDepth' = unreachableDepth + 1
    BY DEF Obeying, SkipBlock, Skipping, InBody
  <1>2. PICK count : count = unreachableDepth + 1
    OBVIOUS
  <1>3. count \in Nat /\ Inner.skipped = unreachableDepth
    BY <1>1, <1>2, StackLengths, InnerFrame
  <1>4. frames' = [frames EXCEPT ![Len(frames)].skipped = Inner.skipped + 1]
    <2>1. Obey("join", Inner.skipped + 1 >= 0,
               [frames EXCEPT ![Len(frames)].skipped = Inner.skipped + 1])
      BY Zenon DEF SkippedRule, Inner
    <2>2. "join" # "none"
      OBVIOUS
    <2> QED
      BY <2>1, <2>2, RuleObeyed, Zenon
  <1>5. frames' = [frames EXCEPT ![Len(frames)].skipped = count]
    BY <1>2, <1>3, <1>4
  <1>6. Agreement'
    BY <1>1, <1>2, <1>3, <1>5, SkipAgrees
  <1> QED
    BY <1>1, <1>6

\* The end of a structure opened in dead code keeps the agreement.
LEMMA SkipEndFollows ==
    ASSUME Obeying, SkipEnd, SkippedRule(-1)
    PROVE  Agreement' /\ status' = "body"
PROOF
  <1>1. /\ IInv /\ Agreement /\ InBody /\ status' = "body" /\ unreachableDepth > 0
        /\ UNCHANGED <<evalStack, cfEntries, blockEntries>>
        /\ unreachableDepth' = unreachableDepth - 1
    BY DEF Obeying, SkipEnd, Skipping, InBody
  <1>2. PICK count : count = unreachableDepth - 1
    OBVIOUS
  <1>3. count \in Nat /\ Inner.skipped = unreachableDepth /\ Inner.skipped + (-1) = count
    BY <1>1, <1>2, StackLengths, InnerFrame
  <1>4. frames' = [frames EXCEPT ![Len(frames)].skipped = Inner.skipped + (-1)]
    <2>1. Obey("join", Inner.skipped + (-1) >= 0,
               [frames EXCEPT ![Len(frames)].skipped = Inner.skipped + (-1)])
      BY Zenon DEF SkippedRule, Inner
    <2>2. "join" # "none"
      OBVIOUS
    <2> QED
      BY <2>1, <2>2, RuleObeyed, Zenon
  <1>5. frames' = [frames EXCEPT ![Len(frames)].skipped = count]
    BY <1>3, <1>4
  <1>6. Agreement'
    BY <1>1, <1>2, <1>3, <1>5, SkipAgrees
  <1> QED
    BY <1>1, <1>6

\* A jump that finds the operands it pops leaves the innermost frame dead.
LEMMA JumpAgrees ==
    ASSUME IInv, Agreement, Live, NEW operands \in Seq(ValTypes), Fits(operands),
           SkipUnreachable(Popped(Len(operands))), blockEntries' = blockEntries, frames' = Dead
    PROVE  Agreement'
PROOF
  <1>1. InBody /\ TypeOK
    BY DEF Live, IInv
  <1>2. PICK n \in Nat : n = Len(operands)
    BY LenProperties
  <1>3. PICK base \in Nat : base = Top.outerStackSize
    BY <1>1, TopType
  <1>4. /\ n <= Len(evalStack) /\ Len(evalStack) >= base + n /\ Len(evalStack) \in Nat
    BY <1>1, <1>2, <1>3, FitsLength, InnerFrame
  <1>5. PICK stack : stack = Popped(n)
    OBVIOUS
  <1>6. /\ stack \in Seq(Operands) /\ Len(stack) = Len(evalStack) - n
        /\ \A k \in 1 .. Len(evalStack) - n : stack[k] = evalStack[k]
    BY <1>1, <1>4, <1>5, PoppedType
  <1>7. base <= Len(stack) /\ \A k \in 1 .. base : k \in 1 .. Len(evalStack) - n
    BY <1>4, <1>6
  <1>8. \A k \in 1 .. base : stack[k] = evalStack[k]
    BY <1>6, <1>7
  <1>9. SkipUnreachable(stack)
    BY <1>2, <1>5
  <1> QED
    BY <1>3, <1>6, <1>7, <1>8, <1>9, DeadAgrees

\* unreachable keeps the agreement.
LEMMA UnreachableFollows ==
    ASSUME Obeying, Unreachable, Obey("operands", TRUE, Dead)
    PROVE  Agreement' /\ status' = "body"
PROOF
  <1>1. IInv /\ Agreement /\ Live /\ InBody /\ status = "body" /\ frames' = Dead
    BY DEF Obeying, Unreachable, Obey, Live, InBody
  <1>2. Len(evalStack) >= Top.outerStackSize /\ ~(Len(evalStack) < Top.outerStackSize)
        /\ evalStack \in Seq(Operands) /\ Top.outerStackSize <= Len(evalStack)
    BY <1>1, InnerFrame, TypeParts DEF IInv, StackTypes
  <1>3. SkipUnreachable(evalStack) /\ blockEntries' = blockEntries /\ status' = status
    BY <1>2 DEF Unreachable
  <1>4. PICK stack : stack = evalStack
    OBVIOUS
  <1>5. SkipUnreachable(stack)
    BY <1>3, <1>4
  <1>6. Agreement'
    BY <1>1, <1>2, <1>3, <1>4, <1>5, DeadAgrees
  <1> QED
    BY <1>1, <1>3, <1>6

\* A depth counts to the same structure in both machines.
LEMMA LabelTarget ==
    ASSUME IInv, Agreement, InBody, NEW depth \in Nat, Reaches(depth)
    PROVE  /\ InRange(depth) /\ Target(depth).signature \in ResultTypes
           /\ Label(depth) = Carried(Target(depth).signature)
PROOF
  <1>1. PICK n : n = Len(cfEntries)
    OBVIOUS
  <1>2. /\ n \in Nat \ {0} /\ Len(frames) = n /\ Len(blockEntries) = n
        /\ DOMAIN cfEntries = 1 .. n
    BY <1>1, InnerFrame, StackLengths
  <1>3. depth < n
    BY <1>2 DEF Reaches
  <1>4. InRange(depth)
    BY <1>2, <1>3 DEF InRange
  <1>5. n - depth \in DOMAIN cfEntries
    BY <1>2, <1>3
  <1>6. frames[n - depth].label = Carried(blockEntries[n - depth].signature)
    BY <1>5 DEF Agreement, Agrees
  <1>7. Label(depth) = Carried(Target(depth).signature)
    BY <1>2, <1>6 DEF Label, Target
  <1> QED
    BY <1>4, <1>7, TargetType DEF IInv

\* The list of types of a result tells which result it is.
LEMMA CarriedInjective ==
    ASSUME NEW a, NEW b, Carried(a) = Carried(b)
    PROVE  a = b
BY DEF Carried

\* A depth is a count of structures.
LEMMA DepthsNat == \A depth \in Depths : depth \in Nat
BY BoundsAssumption DEF Depths

\* A br its rule allows keeps the agreement.
LEMMA BrFollows ==
    ASSUME Obeying, NEW depth \in Depths, Br(depth), BrRule(depth)
    PROVE  Agreement' /\ status' = "body"
PROOF
  <1>1. IInv /\ Agreement /\ Live /\ InBody /\ status = "body"
    BY DEF Obeying, Br, Live, InBody
  <1>2. Reaches(depth) /\ Holds(Label(depth)) /\ frames' = Dead
    BY DEF Obeying, BrRule, Obey
  <1>3. PICK operands : operands = Carried(Target(depth).signature)
    OBVIOUS
  <1>4. InRange(depth) /\ operands \in Seq(ValTypes) /\ Label(depth) = operands
    BY <1>1, <1>2, <1>3, LabelTarget, CarriedType, DepthsNat
  <1>5. Fits(operands)
    BY <1>1, <1>2, <1>4, HoldsFits
  <1>6. /\ SkipUnreachable(Popped(Len(operands))) /\ blockEntries' = blockEntries
        /\ status' = status
    BY <1>3, <1>4, <1>5 DEF Br
  <1>7. Agreement'
    BY <1>1, <1>2, <1>4, <1>5, <1>6, JumpAgrees
  <1> QED
    BY <1>1, <1>6, <1>7

\* A br_table its rule allows keeps the agreement.
LEMMA BrTableFollows ==
    ASSUME Obeying, NEW n \in 0 .. MaxTargets, NEW depths \in [1 .. n -> Depths],
           NEW default \in Depths, BrTable(depths, default), BrTableRule(depths, default)
    PROVE  Agreement' /\ status' = "body"
PROOF
  <1>1. IInv /\ Agreement /\ Live /\ InBody /\ status = "body"
    BY DEF Obeying, BrTable, Live, InBody
  <1>2. /\ Reaches(default) /\ Holds(Label(default) \o <<"i32">>) /\ frames' = Dead
        /\ \A i \in DOMAIN depths : Reaches(depths[i]) /\ Label(depths[i]) = Label(default)
    BY DEF Obeying, BrTableRule, Obey
  <1>3. PICK operands : operands = Carried(Target(default).signature) \o <<"i32">>
    OBVIOUS
  <1>4. /\ InRange(default) /\ operands \in Seq(ValTypes)
        /\ Label(default) = Carried(Target(default).signature)
    BY <1>1, <1>2, <1>3, LabelTarget, OperandsType, DepthsNat
  <1>5. \A i \in DOMAIN depths : /\ InRange(depths[i])
                                 /\ Target(depths[i]).signature = Target(default).signature
    <2>1. ASSUME NEW i \in DOMAIN depths
          PROVE  /\ InRange(depths[i])
                 /\ Carried(Target(depths[i]).signature) = Carried(Target(default).signature)
      <3>1. depths[i] \in Nat
        BY DepthsNat
      <3>2. Reaches(depths[i]) /\ Label(depths[i]) = Label(default)
        BY <1>2
      <3>3. InRange(depths[i]) /\ Label(depths[i]) = Carried(Target(depths[i]).signature)
        BY <1>1, <3>1, <3>2, LabelTarget
      <3> QED
        BY <1>4, <3>2, <3>3
    <2> QED
      BY <2>1, CarriedInjective
  <1>6. Fits(operands)
    <2>1. Holds(operands)
      BY <1>2, <1>3, <1>4
    <2> QED
      BY <1>1, <1>4, <2>1, HoldsFits
  <1>7. /\ SkipUnreachable(Popped(Len(operands))) /\ blockEntries' = blockEntries
        /\ status' = status
    BY <1>3, <1>4, <1>5, <1>6 DEF BrTable
  <1>8. Agreement'
    BY <1>1, <1>2, <1>4, <1>6, <1>7, JumpAgrees
  <1> QED
    BY <1>1, <1>7, <1>8

\* A return its rule allows keeps the agreement.
LEMMA ReturnFollows ==
    ASSUME Obeying, Return, ReturnRule
    PROVE  Agreement' /\ status' = "body"
PROOF
  <1>1. IInv /\ Agreement /\ Live /\ InBody /\ status = "body"
    BY DEF Obeying, Return, Live, InBody
  <1>2. Holds(frames[1].label) /\ frames' = Dead
    BY DEF Obeying, ReturnRule, Obey
  <1>3. PICK operands : operands = Carried(returnType)
    OBVIOUS
  <1>4. operands \in Seq(ValTypes)
    BY <1>1, <1>3, CarriedType DEF IInv, TypeOK
  <1>5. frames[1].label = operands
    <2>1. 1 \in DOMAIN cfEntries /\ cfEntries # <<>>
      BY <1>1, InnerFrame, StackLengths DEF InBody
    <2>2. frames[1].label = Carried(blockEntries[1].signature)
      BY <1>1, <2>1 DEF Agreement, Agrees
    <2>3. cfEntries[1].signature = returnType
      BY <1>1, <2>1 DEF IInv, StacksInv, Outermost
    <2>4. blockEntries[1].signature = cfEntries[1].signature
      <3>1. cfEntries[1].instr = "function"
        BY <1>1, <2>1 DEF IInv, StacksInv, FramesAligned
      <3>2. blockEntries[1] = [signature |-> cfEntries[1].signature, block |-> cfEntries[1].end]
        BY <1>1, <2>1, <3>1 DEF IInv, StacksInv, FramesAligned
      <3> QED
        BY <3>2
    <2> QED
      BY <1>3, <2>2, <2>3, <2>4
  <1>6. Fits(operands)
    BY <1>1, <1>2, <1>4, <1>5, HoldsFits
  <1>7. /\ SkipUnreachable(Popped(Len(operands))) /\ blockEntries' = blockEntries
        /\ status' = status
    BY <1>3, <1>6 DEF Return
  <1>8. Agreement'
    BY <1>1, <1>2, <1>4, <1>6, <1>7, JumpAgrees
  <1> QED
    BY <1>1, <1>7, <1>8

\* Nothing is added by an empty list.
LEMMA ConcatNothing ==
    ASSUME NEW S, NEW s \in Seq(S)
    PROVE  s \o <<>> = s
PROOF
  <1>1. <<>> \in Seq(S) /\ Len(<<>>) = 0 /\ Len(s) \in Nat
    BY LenProperties
  <1>2. /\ s \o <<>> \in Seq(S) /\ Len(s \o <<>>) = Len(s) + Len(<<>>)
        /\ \A i \in 1 .. Len(s) + Len(<<>>) :
             (s \o <<>>)[i] = IF i <= Len(s) THEN s[i] ELSE <<>>[i - Len(s)]
    BY <1>1, ConcatProperties
  <1>3. Len(s \o <<>>) = Len(s) /\ \A i \in 1 .. Len(s) : (s \o <<>>)[i] = s[i]
    BY <1>1, <1>2
  <1> QED
    BY <1>2, <1>3, SeqEqual

\* What is left of the operands of the innermost structure are types.
LEMMA WithoutTypes ==
    ASSUME IInv, Agreement, InBody, NEW n \in Nat, n <= Len(Inner.operands)
    PROVE  Without(n) \in Seq(ValTypes)
PROOF
  <1>1. PICK s \in Seq(ValTypes) : s = Inner.operands
    BY InnerFrame
  <1>2. PICK m \in Nat : m = Len(s) - n
    <2>1. Len(s) - n \in Nat
      BY <1>1, LenProperties
    <2> QED
      BY <2>1
  <1>3. m <= Len(s)
    BY <1>1, <1>2, LenProperties
  <1>4. PICK new : new = SubSeq(s, 1, m)
    OBVIOUS
  <1>5. new \in Seq(ValTypes)
    BY <1>3, <1>4, Prefix
  <1> QED
    BY <1>1, <1>2, <1>4, <1>5 DEF Without

\* A br_if its rule allows keeps the agreement: the value it may carry stays.
LEMMA BrIfFollows ==
    ASSUME Obeying, NEW depth \in Depths, BrIf(depth), BrIfRule(depth)
    PROVE  Agreement' /\ status' = "body"
PROOF
  <1>1. IInv /\ Agreement /\ Live /\ InBody /\ TypeOK /\ status = "body"
    BY DEF Obeying, BrIf, Live, InBody, IInv
  <1>2. Reaches(depth) /\ Holds(Label(depth) \o <<"i32">>) /\ frames' = Leaving(Without(1))
    BY DEF Obeying, BrIfRule, Obey
  <1>3. PICK operands : operands = Carried(Target(depth).signature) \o <<"i32">>
    OBVIOUS
  <1>4. /\ InRange(depth) /\ Label(depth) = Carried(Target(depth).signature)
        /\ Target(depth).signature \in ResultTypes
    BY <1>1, <1>2, LabelTarget, DepthsNat
  <1>5. operands \in Seq(ValTypes) /\ 1 <= Len(operands)
    BY <1>3, <1>4, OperandsType
  <1>6. Holds(operands)
    BY <1>2, <1>3, <1>4
  <1>7. Fits(operands) /\ Len(operands) <= Len(Inner.operands) /\ Len(operands) \in Nat
    BY <1>1, <1>5, <1>6, HoldsFits
  <1>8. /\ evalStack' = Popped(1) /\ UNCHANGED <<cfEntries, blockEntries, unreachableDepth>>
        /\ status' = status
    BY <1>3, <1>4, <1>7 DEF BrIf
  <1>9. 1 \in Nat /\ 1 <= Len(Inner.operands) /\ 1 <= Len(evalStack)
    BY <1>1, <1>5, <1>7, InnerFrame
  <1>10. Replace(1, Void, NoBlock)
    <2>1. Popped(1) \in Seq(Operands)
      BY <1>1, <1>9, PoppedType
    <2>2. Popped(1) \o <<>> = Popped(1)
      BY <2>1, ConcatNothing
    <2> QED
      BY <1>8, <2>2 DEF Replace
  <1>11. frames' = Leaving(Without(1) \o Carried(Void))
    <2>1. Without(1) \in Seq(ValTypes)
      BY <1>1, <1>9, WithoutTypes
    <2>2. Without(1) \o <<>> = Without(1) /\ Carried(Void) = <<>>
      BY <2>1, ConcatNothing DEF Carried
    <2> QED
      BY <1>2, <2>2
  <1>12. Agreement'
    <2>1. Void \in ResultTypes /\ NoBlock \in Nat
      BY ValTypesFacts DEF NoBlock
    <2> QED
      BY <1>1, <1>8, <1>9, <1>10, <1>11, <2>1, ReplaceAgrees
  <1> QED
    BY <1>1, <1>8, <1>12

\* Arguments the innermost frame holds are at the end of the operand stack.
LEMMA ArgsFound ==
    ASSUME IInv, InBody, NEW params \in Seq(ValTypes), NEW extra \in Seq(ValTypes),
           Fits(params \o extra)
    PROVE  ArgsFit(params, Len(extra)) /\ Fits(extra)
PROOF
  <1>1. PICK n \in Nat, m \in Nat : n = Len(params) /\ m = Len(extra)
    BY LenProperties
  <1>2. /\ Len(params \o extra) = n + m
        /\ \A k \in 1 .. n + m : (params \o extra)[k] = IF k <= n THEN params[k] ELSE extra[k - n]
    BY <1>1, TypesConcat
  <1>3. PICK l \in Nat, base \in Nat : l = Len(evalStack) /\ base = Top.outerStackSize
    BY TopType, TypeParts, LenProperties DEF IInv, StackTypes
  <1>4. /\ l >= base + (n + m)
        /\ \A k \in 1 .. n + m : evalStack[l - (n + m) + k].type = (params \o extra)[k]
    BY <1>2, <1>3 DEF Fits
  <1>5. ArgsFit(params, Len(extra))
    <2>1. l - m - n >= 0
      BY <1>4
    <2>2. \A k \in 1 .. n : k \in 1 .. n + m /\ k <= n /\ l - m - n + k = l - (n + m) + k
      BY <1>3
    <2>3. \A k \in 1 .. n : evalStack[l - m - n + k].type = params[k]
      BY <1>2, <1>4, <2>2
    <2> QED
      BY <1>1, <1>3, <2>1, <2>3 DEF ArgsFit
  <1>6. Fits(extra)
    <2>1. l >= base + m
      BY <1>4
    <2>2. \A k \in 1 .. m : /\ n + k \in 1 .. n + m /\ ~(n + k <= n) /\ n + k - n = k
                            /\ l - (n + m) + (n + k) = l - m + k
      BY <1>3
    <2>3. \A k \in 1 .. m : evalStack[l - m + k].type = extra[k]
      <3>1. ASSUME NEW k \in 1 .. m PROVE evalStack[l - m + k].type = extra[k]
        <4>1. evalStack[l - (n + m) + (n + k)].type = (params \o extra)[n + k]
          BY <1>4, <2>2
        <4>2. (params \o extra)[n + k] = extra[k]
          BY <1>2, <2>2
        <4> QED
          BY <2>2, <4>1, <4>2
      <3> QED
        BY <3>1
    <2> QED
      BY <1>1, <1>3, <2>1, <2>3 DEF Fits
  <1> QED
    BY <1>5, <1>6

\* A call its rule allows keeps the agreement.
LEMMA CallFollows ==
    ASSUME Obeying, NEW callee \in Callees, Call(callee), CallRule(callee, <<>>)
    PROVE  Agreement' /\ status' = "body"
PROOF
  <1>1. IInv /\ Agreement /\ Live /\ InBody /\ TypeOK /\ status = "body"
    BY DEF Obeying, Call, Live, InBody, IInv
  <1>2. PICK params \in Seq(ValTypes) : params = callee.params
    BY CalleeType
  <1>3. params \o <<>> = params /\ <<>> \in Seq(ValTypes) /\ Len(<<>>) = 0
    BY ConcatNothing
  <1>4. Holds(params) /\ frames' = Leaving(Without(Len(params)) \o Carried(callee.result))
    BY <1>2, <1>3 DEF Obeying, CallRule, Obey
  <1>5. Fits(params) /\ Len(params) <= Len(Inner.operands) /\ Len(params) \in Nat
    BY <1>1, <1>4, HoldsFits
  <1>6. ArgsFit(params, 0)
    <2>1. Fits(params \o <<>>)
      BY <1>3, <1>5
    <2> QED
      BY <1>1, <1>3, <2>1, ArgsFound
  <1>7. /\ Replace(Len(params), callee.result, insertBlock) /\ status' = status
        /\ UNCHANGED <<cfEntries, blockEntries, unreachableDepth>>
    BY <1>2, <1>6 DEF Call
  <1>8. PICK def \in Nat : def = insertBlock
    BY <1>1 DEF TypeOK
  <1>9. Agreement'
    <2>1. Replace(Len(params), callee.result, def)
      BY <1>7, <1>8
    <2> QED
      BY <1>1, <1>4, <1>5, <1>7, <2>1, CalleeType, ReplaceAgrees
  <1> QED
    BY <1>1, <1>7, <1>9

\* An indirect call its rule allows, of a module with a table, keeps the agreement.
LEMMA CallIndirectFollows ==
    ASSUME Obeying, IInv', NEW callee \in Callees, CallIndirect(callee), HasTable,
           CallRule(callee, <<"i32">>)
    PROVE  Agreement' /\ status' = "body"
PROOF
  <1>1. IInv /\ Agreement /\ Live /\ InBody /\ TypeOK /\ status = "body"
    BY DEF Obeying, CallIndirect, Live, InBody, IInv
  <1>2. PICK params \in Seq(ValTypes) : params = callee.params
    BY CalleeType
  <1>3. PICK operands : operands = params \o <<"i32">>
    OBVIOUS
  <1>4. /\ <<"i32">> \in Seq(ValTypes) /\ Len(<<"i32">>) = 1 /\ Len(params) \in Nat
        /\ operands \in Seq(ValTypes) /\ Len(operands) = Len(params) + 1
    BY <1>3, ValTypesFacts, TypesConcat, LenProperties
  <1>5. Holds(operands) /\ frames' = Leaving(Without(Len(operands)) \o Carried(callee.result))
    BY <1>2, <1>3 DEF Obeying, CallRule, Obey
  <1>6. Fits(operands) /\ Len(operands) <= Len(Inner.operands) /\ Len(operands) \in Nat
    BY <1>1, <1>4, <1>5, HoldsFits
  <1>7. ArgsFit(params, 1) /\ Fits(<<"i32">>)
    BY <1>1, <1>3, <1>4, <1>6, ArgsFound
  <1>8. PICK def \in Nat : def = insertBlock'
    BY DEF IInv, TypeOK
  <1>9. /\ Replace(Len(operands), callee.result, def) /\ status' = status
        /\ UNCHANGED <<cfEntries, blockEntries, unreachableDepth>>
    BY <1>2, <1>4, <1>7, <1>8 DEF CallIndirect
  <1>10. Agreement'
    BY <1>1, <1>5, <1>6, <1>9, CalleeType, ReplaceAgrees
  <1> QED
    BY <1>1, <1>9, <1>10

\* An instruction names typings of an opcode of the translator.
LEMMA InstructionTypes ==
    ASSUME NEW i \in Instructions
    PROVE  i.op \in Opcodes /\ i.declared \subseteq i.op.typings
           /\ i.rule \in {"operands", "untyped operands"}
PROOF
  <1>1. CASE \E op \in Opcodes : i = AsTyped(op)
    BY <1>1 DEF AsTyped
  <1>2. CASE \E op \in Untyped : i \in NamedForms(op)
    <2>1. PICK op \in Untyped, t \in IntTypes :
            i = AsNamed(op, {typing \in op.typings : typing.ins = <<t, t>>})
      BY <1>2 DEF NamedForms
    <2>2. PICK named : named = {typing \in op.typings : typing.ins = <<t, t>>}
      OBVIOUS
    <2>3. i = AsNamed(op, named)
      BY <2>1, <2>2
    <2>4. op \in Opcodes /\ named \subseteq op.typings
      BY <2>2 DEF Untyped
    <2>5. i.op = op /\ i.declared = named /\ i.rule = "untyped operands"
      BY <2>3 DEF AsNamed
    <2> QED
      BY <2>4, <2>5
  <1>3. CASE \E t \in UntypedUnary : i = AsNamed(SignExt(t), {Typing(<<t>>, t, TRUE)})
    <2>1. PICK t \in UntypedUnary : i = AsNamed(SignExt(t), {Typing(<<t>>, t, TRUE)})
      BY <1>3
    <2>2. SignExt(t) \in Opcodes /\ t \in IntTypes /\ t \in ValTypes
      BY ValTypesFacts DEF UntypedUnary
    <2>3. SignExt(t).typings = {Typing(<<u>>, t, u \in IntTypes) : u \in ValTypes}
      BY DEF SignExt, Straight, Op
    <2>4. (t \in IntTypes) = TRUE
      BY <2>2
    <2>5. Typing(<<t>>, t, t \in IntTypes) = Typing(<<t>>, t, TRUE)
      BY <2>4
    <2>6. Typing(<<t>>, t, TRUE) \in SignExt(t).typings
      BY <2>2, <2>3, <2>5
    <2> QED
      BY <2>1, <2>2, <2>6 DEF AsNamed
  <1> QED
    <2>1. \/ i \in {AsTyped(op) : op \in Opcodes \ (Untyped \cup {SignExt(t) : t \in UntypedUnary})}
          \/ i \in {AsNamed(SignExt(t), {Typing(<<t>>, t, TRUE)}) : t \in UntypedUnary}
          \/ i \in UNION {NamedForms(op) : op \in Untyped}
      BY Zenon DEF Instructions
    <2> QED
      BY <1>1, <1>2, <1>3, <2>1

\* Where the stacks agree, what an opcode pops fits, nothing at all included.
LEMMA PopsFits ==
    ASSUME IInv, Agreement, InBody, NEW operands \in Seq(ValTypes), Pops(operands)
    PROVE  Fits(operands)
PROOF
  <1>1. CASE operands = <<>>
    <2>1. Len(operands) = 0 /\ 1 .. Len(operands) = {}
      BY <1>1
    <2>2. Top.outerStackSize \in Nat /\ Top.outerStackSize <= Len(evalStack)
      BY InnerFrame
    <2> QED
      BY <2>1, <2>2 DEF Fits
  <1> QED
    BY <1>1 DEF Pops

\* Operands of one length that both fit the stack are the same.
LEMMA FitsOnce ==
    ASSUME NEW a \in Seq(ValTypes), NEW b \in Seq(ValTypes), Len(a) = Len(b), Fits(a), Fits(b)
    PROVE  a = b
PROOF
  <1>1. \A k \in 1 .. Len(a) : a[k] = b[k]
    BY DEF Fits
  <1> QED
    BY <1>1, SeqEqual

\* An opcode its typing allows keeps the agreement: pop() finds operands of the
\* same types, and the result is the one they determine.
LEMMA ExecuteFollows ==
    ASSUME Obeying, IInv', NEW i \in Instructions, Execute(i.op), OperandRule(i)
    PROVE  Agreement' /\ status' = "body"
PROOF
  <1>1. IInv /\ Agreement /\ Live /\ InBody /\ TypeOK /\ status = "body"
    BY DEF Obeying, Execute, Live, InBody, IInv
  <1>2. PICK op \in Opcodes : op = i.op /\ i.declared \subseteq op.typings
    BY InstructionTypes
  <1>3. op.typings \subseteq Typings
    BY OpcodesAreOps DEF Ops
  <1>4. PICK typing : typing = CHOOSE t \in {t \in i.declared : Holds(t.ins)} : TRUE
    OBVIOUS
  <1>5. Obey(i.rule, {t \in i.declared : Holds(t.ins)} # {},
             Leaving(Without(Len(typing.ins)) \o Carried(typing.out)))
    BY <1>4 DEF OperandRule
  <1>6. /\ {t \in i.declared : Holds(t.ins)} # {}
        /\ frames' = Leaving(Without(Len(typing.ins)) \o Carried(typing.out))
    <2>1. i.rule # "none"
      BY InstructionTypes
    <2> QED
      BY <1>5, <2>1 DEF Obeying, Obey
  <1>7. typing \in i.declared /\ Holds(typing.ins)
    BY <1>4, <1>6
  <1>8. /\ typing \in op.typings /\ typing.ins \in Seq(ValTypes) /\ typing.out \in ResultTypes
    BY <1>2, <1>3, <1>7 DEF Typings
  <1>9. /\ Fits(typing.ins) /\ Len(typing.ins) \in Nat
        /\ Len(typing.ins) <= Len(Inner.operands)
    BY <1>1, <1>7, <1>8, HoldsFits
  <1>10. PICK t \in op.typings :
           /\ Pops(t.ins) /\ UNCHANGED <<cfEntries, blockEntries, unreachableDepth, status>>
           /\ Replace(Len(t.ins), t.out, IF Folded(op, Len(t.ins)) THEN NoBlock ELSE insertBlock')
    <2>1. ~(\A t \in op.typings : ~Pops(t.ins))
      BY <1>8, <1>9 DEF Pops
    <2> QED
      BY <1>2, <2>1 DEF Execute
  <1>11. t.ins = typing.ins /\ t.out = typing.out
    <2>1. t.ins \in Seq(ValTypes)
      BY <1>3 DEF Typings
    <2>2. Len(t.ins) = Len(typing.ins) /\ (t.ins = typing.ins => t.out = typing.out)
      BY <1>8, OpcodesDetermined, SameOperands
    <2>3. t.ins = typing.ins
      BY <1>1, <1>8, <1>9, <1>10, <2>1, <2>2, PopsFits, FitsOnce
    <2> QED
      BY <2>2, <2>3
  <1>12. PICK def \in Nat : def = IF Folded(op, Len(t.ins)) THEN NoBlock ELSE insertBlock'
    <2>1. insertBlock' \in Nat /\ NoBlock \in Nat
      BY DEF IInv, TypeOK, NoBlock
    <2> QED
      BY <2>1
  <1>13. /\ Replace(Len(typing.ins), typing.out, def) /\ status' = status
         /\ UNCHANGED <<cfEntries, blockEntries, unreachableDepth>>
    BY <1>10, <1>11, <1>12
  <1>14. Agreement'
    BY <1>1, <1>6, <1>8, <1>9, <1>13, ReplaceAgrees
  <1> QED
    BY <1>1, <1>13, <1>14

-----------------------------------------------------------------------------
(* The agreement is kept.                                                  *)

\* A rule broken once stays broken.
Refused == refusedAt # "none" => refusedAt' = refusedAt

\* Every rule keeps a refusal.
LEMMA RulesRefused ==
    /\ \A kind, label, result, types : OpenRule(kind, label, result, types) => Refused
    /\ ElseRule => Refused
    /\ EndRule => Refused
    /\ \A change : SkippedRule(change) => Refused
    /\ \A depth : BrRule(depth) => Refused
    /\ \A depth : BrIfRule(depth) => Refused
    /\ \A depths, default : BrTableRule(depths, default) => Refused
    /\ ReturnRule => Refused
    /\ \A callee, extra : CallRule(callee, extra) => Refused
    /\ \A i : OperandRule(i) => Refused
    /\ IllFormed => Refused
    /\ Ignored => Refused
PROOF
  <1>1. \A kind, label, result, types : OpenRule(kind, label, result, types) => Refused
    BY DEF OpenRule, Obey, Refused
  <1>2. ElseRule => Refused
    BY DEF ElseRule, Obey, Refused
  <1>3. EndRule => Refused
    BY DEF EndRule, Obey, Refused
  <1>4. \A change : SkippedRule(change) => Refused
    BY DEF SkippedRule, Obey, Refused
  <1>5. \A depth : BrRule(depth) => Refused
    BY DEF BrRule, Obey, Refused
  <1>6. \A depth : BrIfRule(depth) => Refused
    BY DEF BrIfRule, Obey, Refused
  <1>7. \A depths, default : BrTableRule(depths, default) => Refused
    BY DEF BrTableRule, Obey, Refused
  <1>8. ReturnRule => Refused
    BY DEF ReturnRule, Obey, Refused
  <1>9. \A callee, extra : CallRule(callee, extra) => Refused
    BY DEF CallRule, Obey, Refused
  <1>10. \A i : OperandRule(i) => Refused
    BY DEF OperandRule, Obey, Refused
  <1>11. IllFormed => Refused
    BY DEF IllFormed, Obey, Refused
  <1>12. Ignored => Refused
    BY DEF Ignored, Refused
  <1> QED
    BY <1>1, <1>2, <1>3, <1>4, <1>5, <1>6, <1>7, <1>8, <1>9, <1>10, <1>11, <1>12

\* Every step keeps a refusal.
LEMMA StepRefused == LockNext => Refused
PROOF
  <1> SUFFICES ASSUME LockNext PROVE Refused
    OBVIOUS
  <1>1. ASSUME NEW result \in BodyResults,
               Obey("form", frames = <<>>, <<Frame("function", Carried(result), result)>>)
        PROVE  Refused
    BY <1>1 DEF Obey, Refused
  <1>2. Obey("operands", TRUE, Dead) => Refused
    BY DEF Obey, Refused
  <1>3. Obey("join", frames = <<>>, frames) => Refused
    BY DEF Obey, Refused
  <1>4. ASSUME NEW callee \in Callees,
               IF HasTable THEN CallRule(callee, <<"i32">>) ELSE IllFormed
        PROVE  Refused
    BY <1>4, RulesRefused
  <1> QED
    BY <1>1, <1>2, <1>3, <1>4, RulesRefused, Zenon DEF LockNext

\* The lock step machine takes the steps of the translator.
LEMMA LockSteps == LockNext => Next
PROOF
  <1> SUFFICES ASSUME LockNext PROVE Next
    OBVIOUS
  <1>1. ASSUME NEW i \in Instructions, Execute(i.op) PROVE \E op \in Opcodes : Execute(op)
    BY <1>1, InstructionTypes
  <1> QED
    BY <1>1, Zenon DEF LockNext, Next, ControlStep, JumpStep, StraightStep, OutcomeStep

\* What a step that obeys its rule does to the open body.
Follows == Agreement' /\ status' = "body"

\* The structured instructions, together.
LEMMA ControlFollows ==
    ASSUME Obeying, DeadEmpty, status = "body",
           \/ \E signature \in BlockTypes :
                \/ Block(signature) /\ OpenRule("block", Carried(signature), signature, <<>>)
                \/ Loop(signature) /\ OpenRule("loop", <<>>, signature, <<>>)
                \/ If(signature) /\ OpenRule("if", Carried(signature), signature, <<"i32">>)
           \/ Else /\ ElseRule
           \/ End /\ EndRule
           \/ SkipBlock /\ SkippedRule(1)
           \/ SkipEnd /\ SkippedRule(-1)
           \/ SkipOther /\ Ignored
    PROVE  Follows
PROOF
  <1>1. \A signature \in BlockTypes : signature \in ResultTypes
    BY ResultsAssumption
  <1>2. CASE SkipOther /\ Ignored
    <2>1. /\ Agreement /\ UNCHANGED <<frames, evalStack, cfEntries, blockEntries, unreachableDepth>>
          /\ status' = "body"
      BY <1>2 DEF Obeying, SkipOther, Ignored, vars
    <2> QED
      BY <2>1 DEF Follows, Agreement, Nested, Agrees, Outer, Last
  <1> QED
    BY <1>1, <1>2, BlockAgrees, LoopAgrees, IfAgrees, ElseFollows, EndFollows,
       SkipBlockFollows, SkipEndFollows, Zenon DEF Follows

\* The jumps, together.
LEMMA JumpFollows ==
    ASSUME Obeying,
           \/ Unreachable /\ Obey("operands", TRUE, Dead)
           \/ \E depth \in Depths :
                \/ Br(depth) /\ BrRule(depth)
                \/ BrIf(depth) /\ BrIfRule(depth)
           \/ \E n \in 0 .. MaxTargets : \E depths \in [1 .. n -> Depths], default \in Depths :
                BrTable(depths, default) /\ BrTableRule(depths, default)
           \/ Return /\ ReturnRule
    PROVE  Follows
BY UnreachableFollows, BrFollows, BrIfFollows, BrTableFollows, ReturnFollows, Zenon DEF Follows

\* The other instructions, together: when one is not refused it keeps the
\* agreement.
LEMMA StraightFollows ==
    ASSUME Obeying, IInv',
           \/ \E callee \in Callees :
                \/ Call(callee) /\ CallRule(callee, <<>>)
                \/ CallIndirect(callee)
                   /\ IF HasTable THEN CallRule(callee, <<"i32">>) ELSE IllFormed
           \/ \E i \in Instructions : Execute(i.op) /\ OperandRule(i)
    PROVE  Follows
PROOF
  <1>1. ~IllFormed
    BY DEF Obeying, IllFormed, Obey
  <1>2. ASSUME NEW callee \in Callees,
               IF HasTable THEN CallRule(callee, <<"i32">>) ELSE IllFormed
        PROVE  HasTable /\ CallRule(callee, <<"i32">>)
    BY <1>1, <1>2
  <1> QED
    BY <1>2, CallFollows, CallIndirectFollows, ExecuteFollows, Zenon DEF Follows

\* The body a step leaves, when no rule is broken.
LEMMA StepFollows ==
    ASSUME IInv, DeadEmpty, LockInv, LockNext, IInv', refusedAt' = "none"
    PROVE  /\ LockInv'
           /\ status = "body" => status' \notin {"invalid", "malformed", "aborted"}
PROOF
  <1>1. refusedAt = "none"
    BY StepRefused DEF Refused
  <1>2. ~IllFormed
    BY <1>1 DEF IllFormed, Obey
  <1>3. CASE status = "body"
    <2>1. Obeying
      BY <1>1, <1>3 DEF Obeying, LockInv, Obeyed
    <2>2. Follows \/ status' = "section"
      <3>1. ~(\E result \in BodyResults : StartFunction(result)) /\ ~FinishModule
        BY <1>3 DEF StartFunction, FinishModule
      <3>2. FinishFunction => status' = "section"
        BY DEF FinishFunction
      <3> QED
        BY <1>2, <1>3, <2>1, <3>1, <3>2, ControlFollows, JumpFollows, StraightFollows, Zenon
           DEF LockNext
    <2> QED
      BY <2>2 DEF Follows, LockInv, Obeyed
  <1>4. CASE status # "body"
    <2>1. CASE status' = "body"
      <3>1. PICK result \in BodyResults :
              /\ StartFunction(result)
              /\ Obey("form", frames = <<>>, <<Frame("function", Carried(result), result)>>)
        <4>1. ~InBody /\ ~Live /\ ~AtJoin /\ ~Skipping
          BY <1>4 DEF InBody, Live, AtJoin, Skipping
        <4>2. /\ \A signature : ~Block(signature) /\ ~Loop(signature) /\ ~If(signature)
              /\ ~Else /\ ~End /\ ~SkipBlock /\ ~SkipEnd /\ ~SkipOther
          BY <4>1 DEF Block, Loop, If, Else, End, SkipBlock, SkipEnd, SkipOther
        <4>3. /\ \A depth : ~Br(depth) /\ ~BrIf(depth)
              /\ \A depths, default : ~BrTable(depths, default)
              /\ ~Unreachable /\ ~Return
          BY <4>1 DEF Br, BrIf, BrTable, Unreachable, Return
        <4>4. /\ \A callee : ~Call(callee) /\ ~CallIndirect(callee)
              /\ \A op : ~Execute(op)
              /\ ~BadImmediate /\ ~Malformed
          BY <4>1 DEF Call, CallIndirect, Execute, BadImmediate, Malformed
        <4>5. ~UndeclaredFunction /\ ~FinishFunction /\ ~BodySizeMismatch /\ ~FinishModule
          BY <1>4, <2>1 DEF UndeclaredFunction, FinishFunction, BodySizeMismatch, FinishModule, Stop
        <4> QED
          BY <4>2, <4>3, <4>4, <4>5, Zenon DEF LockNext
      <3>2. result \in ResultTypes
        BY ResultsAssumption
      <3>3. Agreement'
        BY <3>1, <3>2, StartAgrees
      <3> QED
        BY <1>4, <3>3 DEF LockInv
    <2>2. CASE status' # "body"
      BY <1>4, <2>2 DEF LockInv, Obeyed
    <2> QED
      BY <2>1, <2>2
  <1> QED
    BY <1>3, <1>4

\* Nothing is open at first.
LEMMA InitLock == LockInit => LockInv
BY DEF LockInit, Init, LockInv, Obeyed

\* The inductive invariant: what the translator needs of its own state, that
\* dead code holds no operands, and the agreement while the rules are obeyed.
LEMMA StepLock ==
    IInv /\ DeadEmpty /\ LockInv /\ [LockNext]_lockVars => IInv' /\ DeadEmpty' /\ LockInv'
PROOF
  <1> SUFFICES ASSUME IInv, DeadEmpty, LockInv, [LockNext]_lockVars
               PROVE  IInv' /\ DeadEmpty' /\ LockInv'
    OBVIOUS
  <1>1. [Next]_vars
    BY LockSteps DEF lockVars
  <1>2. IInv' /\ DeadEmpty'
    BY <1>1, StepIInv, StepDead
  <1>3. LockInv'
    <2>1. CASE LockNext /\ refusedAt' = "none"
      BY <1>2, <2>1, StepFollows
    <2>2. CASE refusedAt' # "none"
      BY <2>2 DEF LockInv, Obeyed
    <2>3. CASE UNCHANGED lockVars
      <3>1. UNCHANGED <<frames, refusedAt, evalStack, cfEntries, blockEntries, unreachableDepth, status>>
        BY <2>3 DEF lockVars, vars
      <3> QED
        BY <3>1 DEF LockInv, Obeyed, Agreement, Nested, Agrees, Outer, Last
    <2> QED
      BY <2>1, <2>2, <2>3
  <1> QED
    BY <1>2, <1>3

\* The agreement is what StacksAgree states.
LEMMA AgreementStacks == IInv /\ LockInv => StacksAgree
PROOF
  <1> SUFFICES ASSUME IInv, Agreement PROVE StacksAgree
    BY DEF LockInv, Obeyed, StacksAgree
  <1>1. DOMAIN frames = DOMAIN cfEntries /\ Len(frames) = Len(cfEntries)
    BY StackLengths, LenProperties DEF Agreement
  <1>2. \A i \in DOMAIN frames : Agrees(i)
    BY <1>1 DEF Agreement
  <1> QED
    BY <1>1, <1>2 DEF Agrees, TypesOf, Outer, Last, StacksAgree

\* As long as the typing rules are obeyed the operand stack of the translator
\* is the operands of the open structures, of the same types, and its branch
\* targets, reachability and count of skipped structures are theirs.
THEOREM StacksAreAgreed == LockSpec => []StacksAgree
PROOF
  <1>1. LockInit => IInv /\ DeadEmpty /\ LockInv
    BY InitIInv, InitDead, InitLock DEF LockInit
  <1>2. IInv /\ DeadEmpty /\ LockInv => StacksAgree
    BY AgreementStacks
  <1> QED
    BY <1>1, <1>2, StepLock, PTL DEF LockSpec

-----------------------------------------------------------------------------
(* An ill typed body is refused.                                           *)

\* What the rules may have said of a body the translator accepts.
Allowed == {"none"} \cup Unenforced

\* The translator finds no fault with the instruction it reads.
Passing == IInv /\ Agreement /\ refusedAt = "none" /\ verifies'

\* A rule that is kept, or that the translator does not enforce, may be passed.
LEMMA RulePassed ==
    ASSUME refusedAt = "none", NEW rule, NEW legal, NEW next, Obey(rule, legal, next),
           legal \/ rule \in Unenforced
    PROVE  refusedAt' \in Allowed
BY DEF Obey, Allowed

\* Nothing verifies after an exception or an assertion.
LEMMA StopFails ==
    ASSUME NEW outcome, Stop(outcome)
    PROVE  ~verifies'
BY DEF Stop

\* Operands that pop() finds are at the end of the innermost frame.
LEMMA FitsHolds ==
    ASSUME IInv, Agreement, InBody, NEW operands \in Seq(ValTypes), Fits(operands)
    PROVE  Holds(operands)
PROOF
  <1> DEFINE s == Inner.operands
  <1>1. PICK n \in Nat, l \in Nat, base \in Nat :
          n = Len(operands) /\ l = Len(evalStack) /\ base = Top.outerStackSize
    BY InnerFrame, LenProperties
  <1>2. /\ s \in Seq(ValTypes) /\ Len(s) = l - base
        /\ \A k \in 1 .. l - base : s[k] = evalStack[base + k].type
    BY <1>1, InnerFrame
  <1>3. /\ l >= base + n
        /\ \A k \in 1 .. n : evalStack[l - n + k].type = operands[k]
    BY <1>1 DEF Fits
  <1> HIDE DEF s
  <1>4. PICK tail : tail = SubSeq(s, Len(s) - n + 1, Len(s))
    OBVIOUS
  <1>5. PICK m \in Nat : m = Len(s) /\ m = l - base /\ m >= n
    BY <1>1, <1>2, <1>3
  <1>6. \A i \in m - n + 1 .. m : s[i] \in ValTypes
    BY <1>2, <1>5, ElementOfSeq
  <1>7. /\ tail \in Seq(ValTypes) /\ Len(tail) = n
        /\ \A k \in 1 .. n : tail[k] = s[m - n + k]
    <2>1. /\ SubSeq(s, m - n + 1, m) \in Seq(ValTypes)
          /\ Len(SubSeq(s, m - n + 1, m)) = IF m - n + 1 <= m THEN m - (m - n + 1) + 1 ELSE 0
          /\ \A i \in 1 .. m - (m - n + 1) + 1 : SubSeq(s, m - n + 1, m)[i] = s[(m - n + 1) + i - 1]
      BY <1>5, <1>6, SubSeqProperties
    <2>2. tail = SubSeq(s, m - n + 1, m)
      BY <1>4, <1>5
    <2>3. /\ m - (m - n + 1) + 1 = n
          /\ \A i \in 1 .. n : (m - n + 1) + i - 1 = m - n + i
          /\ m - n + 1 <= m \/ n = 0
      BY <1>5
    <2> QED
      BY <2>1, <2>2, <2>3
  <1>8. \A k \in 1 .. n : tail[k] = operands[k]
    <2>1. ASSUME NEW k \in 1 .. n PROVE tail[k] = operands[k]
      <3>1. m - n + k \in 1 .. l - base /\ base + (m - n + k) = l - n + k
        BY <1>5
      <3>2. s[m - n + k] = evalStack[l - n + k].type
        BY <1>2, <3>1
      <3> QED
        BY <1>3, <1>7, <3>2
    <2> QED
      BY <2>1
  <1>9. tail = operands
    BY <1>1, <1>7, <1>8, SeqEqual
  <1> QED
    BY <1>1, <1>4, <1>5, <1>9 DEF Holds, s

\* A structure that pop() lets close may close by its rule.
LEMMA FrameClosesRule ==
    ASSUME IInv, Agreement, AtJoin, FrameCloses
    PROVE  Closes
PROOF
  <1>1. InBody /\ TypeOK
    BY DEF AtJoin, IInv
  <1>2. /\ Inner.live = Top.reachable /\ Inner.result = Top.signature
        /\ Inner.operands \in Seq(ValTypes)
        /\ Len(Inner.operands) = Len(evalStack) - Top.outerStackSize
        /\ Top.outerStackSize \in Nat /\ Len(evalStack) \in Nat
        /\ Inner.skipped = unreachableDepth
    BY <1>1, InnerFrame
  <1>3. Inner.skipped = 0
    <2>1. unreachableDepth \in Nat /\ (unreachableDepth > 0 => Skipping)
      BY StackLengths DEF IInv, StacksInv, OnlyTopSkipped
    <2> QED
      BY <1>2, <2>1 DEF AtJoin, Skipping
  <1>4. ASSUME Top.reachable
        PROVE  Inner.operands = Carried(Inner.result)
    <2>1. Yielded = Carried(Inner.result) /\ Yielded \in Seq(ValTypes)
      BY <1>1, <1>2, <1>4, YieldedType DEF Yielded
    <2>2. Holds(Yielded)
      BY <1>1, <2>1, FitsHolds DEF FrameCloses
    <2>3. PICK n \in Nat : n = Len(Yielded) /\ Len(Inner.operands) = n
      <3>1. Len(Yielded) \in Nat
        BY <2>1, LenProperties
      <3> QED
        BY <1>2, <3>1 DEF FrameCloses
    <2>4. SubSeq(Inner.operands, 1, n) = Yielded
      BY <2>2, <2>3 DEF Holds
    <2>5. SubSeq(Inner.operands, 1, n) = Inner.operands
      <3>1. \A i \in 1 .. n : Inner.operands[i] \in ValTypes
        BY <1>2, <2>3, ElementOfSeq
      <3>2. /\ SubSeq(Inner.operands, 1, n) \in Seq(ValTypes)
            /\ Len(SubSeq(Inner.operands, 1, n)) = IF 1 <= n THEN n - 1 + 1 ELSE 0
            /\ \A i \in 1 .. n - 1 + 1 : SubSeq(Inner.operands, 1, n)[i] = Inner.operands[1 + i - 1]
        BY <2>3, <3>1, SubSeqProperties
      <3>3. Len(SubSeq(Inner.operands, 1, n)) = n
        BY <2>3, <3>2
      <3>4. \A i \in 1 .. n : SubSeq(Inner.operands, 1, n)[i] = Inner.operands[i]
        BY <2>3, <3>2
      <3> QED
        BY <1>2, <2>3, <3>2, <3>3, <3>4, SeqEqual
    <2> QED
      BY <2>1, <2>4, <2>5
  <1> QED
    BY <1>2, <1>3, <1>4 DEF Closes

\* A depth in the range of the branch targets names an open structure.
LEMMA InRangeReaches ==
    ASSUME IInv, Agreement, InBody, NEW depth \in Depths, InRange(depth)
    PROVE  Reaches(depth) /\ Label(depth) = Carried(Target(depth).signature)
           /\ Target(depth).signature \in ResultTypes
PROOF
  <1>1. Reaches(depth)
    BY StackLengths, InnerFrame DEF InRange, Reaches
  <1> QED
    BY <1>1, DepthsNat, LabelTarget

-----------------------------------------------------------------------------
(* Each instruction the translator passes keeps its rule, or breaks one    *)
(* that the translator does not enforce.                                   *)

\* Structures that open.
LEMMA OpenPassed ==
    ASSUME Passing, NEW signature \in BlockTypes,
           \/ Block(signature) /\ OpenRule("block", Carried(signature), signature, <<>>)
           \/ Loop(signature) /\ OpenRule("loop", <<>>, signature, <<>>)
           \/ If(signature) /\ OpenRule("if", Carried(signature), signature, <<"i32">>)
    PROVE  refusedAt' \in Allowed
PROOF
  <1>1. IInv /\ Agreement /\ refusedAt = "none" /\ verifies'
    BY DEF Passing
  <1>2. Live /\ InBody
    BY DEF Block, Loop, If, Live
  <1>3. Holds(<<>>)
    <2>1. <<>> \in Seq(ValTypes) /\ Len(<<>>) = 0
      OBVIOUS
    <2>2. Top.outerStackSize \in Nat /\ Len(evalStack) \in Nat /\ Top.outerStackSize <= Len(evalStack)
      BY <1>1, <1>2, InnerFrame
    <2>3. Fits(<<>>)
      BY <2>1, <2>2 DEF Fits
    <2> QED
      BY <1>1, <1>2, <2>1, <2>3, FitsHolds
  <1>4. ASSUME If(signature) PROVE Holds(<<"i32">>)
    <2>1. Fits(<<"i32">>)
      BY <1>1, <1>4, StopFails DEF If
    <2>2. <<"i32">> \in Seq(ValTypes)
      BY ValTypesFacts
    <2> QED
      BY <1>1, <1>2, <2>1, <2>2, FitsHolds
  <1> QED
    BY <1>1, <1>3, <1>4, RulePassed DEF OpenRule

\* else and end.
LEMMA JoinPassed ==
    ASSUME Passing, (Else /\ ElseRule) \/ (End /\ EndRule)
    PROVE  refusedAt' \in Allowed
PROOF
  <1>1. IInv /\ Agreement /\ refusedAt = "none" /\ verifies'
    BY DEF Passing
  <1>2. AtJoin /\ InBody /\ FrameCloses
    BY <1>1, StopFails DEF Else, End, AtJoin
  <1>3. Closes
    BY <1>1, <1>2, FrameClosesRule
  <1>4. CASE Else /\ ElseRule
    <2>1. Top.else # NoBlock
      BY <1>1, <1>4, StopFails DEF Else
    <2>2. Inner.kind = "if"
      BY <1>1, <1>2, <2>1, InnerFrame
    <2> QED
      BY <1>1, <1>3, <1>4, <2>2, RulePassed DEF ElseRule
  <1>5. CASE EndRule
    <2>1. "missing else" \in Unenforced
      BY DEF Unenforced
    <2> QED
      BY <1>1, <1>3, <1>5, <2>1, RulePassed DEF EndRule
  <1> QED
    BY <1>4, <1>5

\* Structures that are skipped.
LEMMA SkippedPassed ==
    ASSUME Passing, (SkipBlock /\ SkippedRule(1)) \/ (SkipEnd /\ SkippedRule(-1))
    PROVE  refusedAt' \in Allowed
PROOF
  <1>1. IInv /\ Agreement /\ refusedAt = "none" /\ InBody
    BY DEF Passing, SkipBlock, SkipEnd, Skipping
  <1>2. Inner.skipped = unreachableDepth /\ unreachableDepth \in Nat
    BY <1>1, InnerFrame, StackLengths
  <1>3. CASE SkippedRule(1)
    <2>1. Inner.skipped + 1 >= 0
      BY <1>2
    <2> QED
      BY <1>1, <1>3, <2>1, RulePassed DEF SkippedRule
  <1>4. CASE SkipEnd /\ SkippedRule(-1)
    <2>1. Inner.skipped + (-1) >= 0
      BY <1>2, <1>4 DEF SkipEnd
    <2> QED
      BY <1>1, <1>4, <2>1, RulePassed DEF SkippedRule
  <1> QED
    BY <1>3, <1>4

\* br and br_if.
LEMMA BrPassed ==
    ASSUME Passing, NEW depth \in Depths,
           (Br(depth) /\ BrRule(depth)) \/ (BrIf(depth) /\ BrIfRule(depth))
    PROVE  refusedAt' \in Allowed
PROOF
  <1>1. IInv /\ Agreement /\ refusedAt = "none" /\ verifies'
    BY DEF Passing
  <1>2. Live /\ InBody /\ InRange(depth)
    BY <1>1, StopFails DEF Br, BrIf, Live
  <1>3. /\ Reaches(depth) /\ Label(depth) = Carried(Target(depth).signature)
        /\ Target(depth).signature \in ResultTypes
    BY <1>1, <1>2, InRangeReaches
  <1>4. CASE Br(depth) /\ BrRule(depth)
    <2>1. Fits(Carried(Target(depth).signature))
      BY <1>1, <1>4, StopFails DEF Br
    <2>2. Holds(Label(depth))
      BY <1>1, <1>2, <1>3, <2>1, CarriedType, FitsHolds
    <2> QED
      BY <1>1, <1>3, <1>4, <2>2, RulePassed DEF BrRule
  <1>5. CASE BrIf(depth) /\ BrIfRule(depth)
    <2>1. Fits(Carried(Target(depth).signature) \o <<"i32">>)
      BY <1>1, <1>5, StopFails DEF BrIf
    <2>2. Holds(Label(depth) \o <<"i32">>)
      BY <1>1, <1>2, <1>3, <2>1, OperandsType, FitsHolds
    <2> QED
      BY <1>1, <1>3, <1>5, <2>2, RulePassed DEF BrIfRule
  <1> QED
    BY <1>4, <1>5

\* br_table.
LEMMA BrTablePassed ==
    ASSUME Passing, NEW n \in 0 .. MaxTargets, NEW depths \in [1 .. n -> Depths],
           NEW default \in Depths, BrTable(depths, default), BrTableRule(depths, default)
    PROVE  refusedAt' \in Allowed
PROOF
  <1>1. IInv /\ Agreement /\ refusedAt = "none" /\ verifies'
    BY DEF Passing
  <1>2. /\ Live /\ InBody /\ InRange(default)
        /\ Fits(Carried(Target(default).signature) \o <<"i32">>)
        /\ \A i \in DOMAIN depths :
             InRange(depths[i]) /\ Target(depths[i]).signature = Target(default).signature
    BY <1>1, StopFails DEF BrTable, Live
  <1>3. /\ Reaches(default) /\ Label(default) = Carried(Target(default).signature)
        /\ Target(default).signature \in ResultTypes
    BY <1>1, <1>2, InRangeReaches
  <1>4. \A i \in DOMAIN depths : Reaches(depths[i]) /\ Label(depths[i]) = Label(default)
    <2>1. ASSUME NEW i \in DOMAIN depths
          PROVE  Reaches(depths[i]) /\ Label(depths[i]) = Label(default)
      <3>1. depths[i] \in Depths
        OBVIOUS
      <3> QED
        BY <1>1, <1>2, <1>3, <3>1, InRangeReaches
    <2> QED
      BY <2>1
  <1>5. Holds(Label(default) \o <<"i32">>)
    BY <1>1, <1>2, <1>3, OperandsType, FitsHolds
  <1> DEFINE all == {depths[i] : i \in DOMAIN depths} \cup {default}
  <1>6. \A d \in all : Reaches(d) /\ Label(d) = Label(default)
    BY <1>3, <1>4
  <1>7. Obey("operands", Holds(Label(default) \o <<"i32">>), Dead)
    BY <1>6 DEF BrTableRule
  <1> QED
    BY <1>1, <1>5, <1>7, RulePassed

\* The label of the outermost frame is the function's result.
LEMMA OutermostLabel ==
    ASSUME IInv, Agreement, InBody
    PROVE  frames[1].label = Carried(returnType) /\ returnType \in ResultTypes
PROOF
  <1>1. 1 \in DOMAIN cfEntries /\ cfEntries # <<>>
    BY InnerFrame, StackLengths DEF InBody
  <1>2. frames[1].label = Carried(blockEntries[1].signature)
    BY <1>1 DEF Agreement, Agrees
  <1>3. cfEntries[1].signature = returnType
    BY <1>1 DEF IInv, StacksInv, Outermost
  <1>4. cfEntries[1].instr = "function"
    BY <1>1 DEF IInv, StacksInv, FramesAligned
  <1>5. blockEntries[1] = [signature |-> cfEntries[1].signature, block |-> cfEntries[1].end]
    BY <1>1, <1>4 DEF IInv, StacksInv, FramesAligned
  <1> QED
    BY <1>2, <1>3, <1>5 DEF IInv, TypeOK

\* return.
LEMMA ReturnPassed ==
    ASSUME Passing, Return, ReturnRule
    PROVE  refusedAt' \in Allowed
PROOF
  <1>1. IInv /\ Agreement /\ refusedAt = "none" /\ verifies'
    BY DEF Passing
  <1>2. Live /\ InBody /\ Fits(Carried(returnType))
    BY <1>1, StopFails DEF Return, Live
  <1>3. Holds(frames[1].label)
    BY <1>1, <1>2, OutermostLabel, CarriedType, FitsHolds
  <1> QED
    BY <1>1, <1>3, RulePassed DEF ReturnRule

\* Calls: their rule is not enforced, the need of a table is.
LEMMA CallPassed ==
    ASSUME Passing, NEW callee \in Callees,
           \/ Call(callee) /\ CallRule(callee, <<>>)
           \/ CallIndirect(callee) /\ IF HasTable THEN CallRule(callee, <<"i32">>) ELSE IllFormed
    PROVE  refusedAt' \in Allowed
PROOF
  <1>1. refusedAt = "none" /\ verifies' /\ "call" \in Unenforced
    BY DEF Passing, Unenforced
  <1>2. ASSUME CallIndirect(callee) PROVE HasTable
    BY <1>1, <1>2, StopFails DEF CallIndirect
  <1> QED
    BY <1>1, <1>2, RulePassed DEF CallRule

\* The instructions that are typed by their name declare every typing that
\* LLVM accepts; the rule of the others is not enforced.
LEMMA DeclaredTypings ==
    ASSUME NEW i \in Instructions
    PROVE  i.rule = "operands" => i.declared = {t \in i.op.typings : t.ok}
PROOF
  <1>1. ASSUME NEW op, i = AsTyped(op)
        PROVE  i.declared = {t \in i.op.typings : t.ok}
    BY <1>1 DEF AsTyped
  <1>2. ASSUME NEW op, NEW typings, i = AsNamed(op, typings)
        PROVE  i.rule = "untyped operands"
    BY <1>2 DEF AsNamed
  <1>3. \/ i \in {AsTyped(op) : op \in Opcodes \ (Untyped \cup {SignExt(t) : t \in UntypedUnary})}
        \/ i \in {AsNamed(SignExt(t), {Typing(<<t>>, t, TRUE)}) : t \in UntypedUnary}
        \/ i \in UNION {NamedForms(op) : op \in Untyped}
    BY Zenon DEF Instructions
  <1>4. ASSUME NEW op, i \in NamedForms(op)
        PROVE  i.rule = "untyped operands"
    <2>1. PICK t \in IntTypes : i = AsNamed(op, {typing \in op.typings : typing.ins = <<t, t>>})
      BY <1>4 DEF NamedForms
    <2> QED
      BY <2>1, <1>2
  <1> QED
    BY <1>1, <1>2, <1>3, <1>4

\* Plain instructions.
LEMMA ExecutePassed ==
    ASSUME Passing, NEW i \in Instructions, Execute(i.op), OperandRule(i)
    PROVE  refusedAt' \in Allowed
PROOF
  <1>1. IInv /\ Agreement /\ refusedAt = "none" /\ verifies'
    BY DEF Passing
  <1>2. Live /\ InBody
    BY DEF Execute, Live
  <1>3. PICK t \in i.op.typings : Pops(t.ins) /\ t.ok
    BY <1>1, StopFails DEF Execute
  <1>4. i.op \in Opcodes /\ i.rule \in {"operands", "untyped operands"}
    BY InstructionTypes
  <1>5. t.ins \in Seq(ValTypes)
    BY <1>4, OpcodesAreOps DEF Ops, Typings
  <1>6. CASE i.rule = "operands"
    <2>1. t \in i.declared
      BY <1>3, <1>6, DeclaredTypings
    <2>2. Holds(t.ins)
      BY <1>1, <1>2, <1>3, <1>5, PopsFits, FitsHolds
    <2> QED
      BY <1>1, <2>1, <2>2, RulePassed DEF OperandRule
  <1>7. CASE i.rule = "untyped operands"
    <2>1. i.rule \in Unenforced
      BY <1>7 DEF Unenforced
    <2> QED
      BY <1>1, <2>1, RulePassed DEF OperandRule
  <1> QED
    BY <1>4, <1>6, <1>7

-----------------------------------------------------------------------------
(* The module that an ill typed body is part of does not verify.           *)

\* What the rules refuse the translator refuses, but for what it does not enforce.
RefusedInv ==
    /\ refusedAt \notin Allowed => ~verifies
    /\ status = "accepted" => verifies
    /\ status = "section" /\ refusedAt = "none" => frames = <<>>

\* What does not verify once never does.
LEMMA FailureStays ==
    ASSUME Next, ~verifies
    PROVE  ~verifies'
PROOF
  <1>1. ControlStep => ~verifies'
    BY StopFails DEF ControlStep, StartFunction, Block, Loop, If, Else, End, SkipBlock, SkipEnd,
                     SkipOther, vars
  <1>2. JumpStep => ~verifies'
    BY StopFails DEF JumpStep, Unreachable, Br, BrIf, BrTable, Return
  <1>3. StraightStep => ~verifies'
    BY StopFails DEF StraightStep, Call, CallIndirect, Execute
  <1>4. OutcomeStep => ~verifies'
    BY StopFails DEF OutcomeStep, UndeclaredFunction, BadImmediate, Malformed, FinishFunction,
                     BodySizeMismatch, FinishModule
  <1> QED
    BY <1>1, <1>2, <1>3, <1>4 DEF Next

\* Only the end of the module accepts it.
LEMMA AcceptedVerifies ==
    ASSUME IInv, Next, status' = "accepted"
    PROVE  verifies'
PROOF
  <1>1. ~(\E outcome \in {"invalid", "malformed", "aborted"} : Stop(outcome))
    BY DEF Stop
  <1>2. ~ControlStep
    BY <1>1 DEF ControlStep, StartFunction, Block, Loop, If, Else, End, SkipBlock, SkipEnd,
                SkipOther, vars, Live, AtJoin, Skipping, InBody
  <1>3. ~JumpStep
    BY <1>1 DEF JumpStep, Unreachable, Br, BrIf, BrTable, Return, Live, InBody
  <1>4. ~StraightStep
    BY <1>1 DEF StraightStep, Call, CallIndirect, Execute, Live, InBody
  <1>5. FinishModule
    BY <1>1, <1>2, <1>3, <1>4 DEF Next, OutcomeStep, UndeclaredFunction, BadImmediate,
       Malformed, FinishFunction, BodySizeMismatch
  <1> QED
    BY <1>5 DEF FinishModule

\* A section step that breaks no rule leaves no frame.
LEMMA SectionFrames ==
    ASSUME IInv, LockInv, RefusedInv, LockNext, status' = "section", refusedAt' = "none"
    PROVE  frames' = <<>>
PROOF
  <1>1. refusedAt = "none"
    BY StepRefused DEF Refused
  <1>2. ~IllFormed
    BY <1>1 DEF IllFormed, Obey
  <1>3. ~(\E outcome \in {"invalid", "malformed", "aborted"} : Stop(outcome))
    BY DEF Stop
  <1>4. /\ \A result : ~StartFunction(result)
        /\ \A signature : ~Block(signature) /\ ~Loop(signature) /\ ~If(signature)
        /\ ~Else /\ ~End /\ ~SkipBlock /\ ~SkipEnd /\ ~SkipOther
    BY <1>3 DEF StartFunction, Block, Loop, If, Else, End, SkipBlock, SkipEnd, SkipOther, vars,
                Live, AtJoin, Skipping, InBody
  <1>5. /\ \A depth : ~Br(depth) /\ ~BrIf(depth)
        /\ \A depths, default : ~BrTable(depths, default)
        /\ ~Unreachable /\ ~Return
    BY <1>3 DEF Br, BrIf, BrTable, Unreachable, Return, Live, InBody
  <1>6. /\ \A callee : ~Call(callee) /\ ~CallIndirect(callee)
        /\ \A op : ~Execute(op)
    BY <1>3 DEF Call, CallIndirect, Execute, Live, InBody
  <1>7. ~FinishModule
    BY DEF FinishModule
  <1>8. FinishFunction /\ Obey("join", frames = <<>>, frames)
    BY <1>2, <1>4, <1>5, <1>6, <1>7, Zenon DEF LockNext
  <1> QED
    BY <1>1, <1>8 DEF Obey

\* An instruction the translator passes is allowed.
LEMMA StepPassed ==
    ASSUME IInv, LockInv, RefusedInv, LockNext, refusedAt = "none", verifies'
    PROVE  refusedAt' \in Allowed
PROOF
  <1>1. /\ ~(\E outcome \in {"invalid", "malformed", "aborted"} : Stop(outcome))
        /\ ~UndeclaredFunction /\ ~BadImmediate /\ ~Malformed /\ ~BodySizeMismatch
    BY StopFails DEF UndeclaredFunction, BadImmediate, Malformed, BodySizeMismatch
  <1>2. Ignored => refusedAt' \in Allowed
    BY DEF Ignored, Allowed
  <1>3. CASE status = "body"
    <2>1. Passing
      BY <1>3 DEF Passing, LockInv, Obeyed
    <2>2. Obey("operands", TRUE, Dead) => refusedAt' \in Allowed
      BY RulePassed
    <2>3. ASSUME FinishFunction, Obey("join", frames = <<>>, frames)
          PROVE  refusedAt' \in Allowed
      <3>1. Len(frames) = 0 /\ frames \in Seq(FrameTypes)
        BY <2>1, <2>3, StackLengths DEF Passing, Agreement, FinishFunction
      <3>2. frames = <<>>
        BY <3>1, EmptySeq
      <3> QED
        BY <2>3, <3>2, RulePassed
    <2>4. \A result : ~StartFunction(result)
      BY <1>3 DEF StartFunction
    <2> QED
      BY <1>1, <1>2, <2>1, <2>2, <2>3, <2>4, OpenPassed, JoinPassed, SkippedPassed, BrPassed,
         BrTablePassed, ReturnPassed, CallPassed, ExecutePassed, Zenon DEF LockNext
  <1>4. CASE status # "body"
    <2>1. ~InBody /\ ~Live /\ ~AtJoin /\ ~Skipping
      BY <1>4 DEF InBody, Live, AtJoin, Skipping
    <2>2. /\ \A signature : ~Block(signature) /\ ~Loop(signature) /\ ~If(signature)
          /\ ~Else /\ ~End /\ ~SkipBlock /\ ~SkipEnd /\ ~SkipOther
      BY <2>1 DEF Block, Loop, If, Else, End, SkipBlock, SkipEnd, SkipOther
    <2>3. /\ \A depth : ~Br(depth) /\ ~BrIf(depth)
          /\ \A depths, default : ~BrTable(depths, default)
          /\ ~Unreachable /\ ~Return
      BY <2>1 DEF Br, BrIf, BrTable, Unreachable, Return
    <2>4. /\ \A callee : ~Call(callee) /\ ~CallIndirect(callee)
          /\ \A op : ~Execute(op)
      BY <2>1 DEF Call, CallIndirect, Execute
    <2>5. ~FinishFunction
      BY <1>4 DEF FinishFunction
    <2>6. ASSUME NEW result, StartFunction(result),
                 Obey("form", frames = <<>>, <<Frame("function", Carried(result), result)>>)
          PROVE  refusedAt' \in Allowed
      <3>1. frames = <<>>
        BY <2>6 DEF StartFunction, RefusedInv
      <3> QED
        BY <2>6, <3>1, RulePassed
    <2> QED
      BY <1>1, <1>2, <2>2, <2>3, <2>4, <2>5, <2>6, Zenon DEF LockNext
  <1> QED
    BY <1>3, <1>4

\* A step refuses what the rules forbid.
LEMMA StepRefuses ==
    ASSUME IInv, LockInv, RefusedInv, [LockNext]_lockVars
    PROVE  RefusedInv'
PROOF
  <1>1. CASE LockNext
    <2>1. Next
      BY <1>1, LockSteps
    <2>2. refusedAt' \notin Allowed => ~verifies'
      <3>1. CASE refusedAt = "none"
        BY <1>1, <3>1, StepPassed
      <3>2. CASE refusedAt # "none"
        BY <1>1, <2>1, <3>2, StepRefused, FailureStays DEF Refused, RefusedInv
      <3> QED
        BY <3>1, <3>2
    <2>3. status' = "accepted" => verifies'
      BY <2>1, AcceptedVerifies
    <2>4. status' = "section" /\ refusedAt' = "none" => frames' = <<>>
      BY <1>1, SectionFrames
    <2> QED
      BY <2>2, <2>3, <2>4 DEF RefusedInv
  <1>2. CASE UNCHANGED lockVars
    BY <1>2 DEF lockVars, vars, RefusedInv
  <1> QED
    BY <1>1, <1>2

\* Nothing is read yet.
LEMMA InitRefused == LockInit => RefusedInv
BY DEF LockInit, Init, RefusedInv, Allowed

\* An ill typed body is refused, unless what it breaks first is one of the
\* three rules the translator does not enforce.
THEOREM IllTypedRefused == LockSpec => []IllTypedBodiesRefused
PROOF
  <1>1. LockInit => IInv /\ DeadEmpty /\ LockInv /\ RefusedInv
    BY InitIInv, InitDead, InitLock, InitRefused DEF LockInit
  <1>2. IInv /\ DeadEmpty /\ LockInv /\ RefusedInv /\ [LockNext]_lockVars
          => (IInv /\ DeadEmpty /\ LockInv /\ RefusedInv)'
    BY StepLock, StepRefuses
  <1>3. RefusedInv => IllTypedBodiesRefused
    BY DEF RefusedInv, Allowed, IllTypedBodiesRefused
  <1> QED
    BY <1>1, <1>2, <1>3, PTL DEF LockSpec
=============================================================================
