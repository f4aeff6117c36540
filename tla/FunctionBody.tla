---------------------------- MODULE FunctionBody ----------------------------
(***************************************************************************)
(* The function body translator, module::parse_section_code: it reads the  *)
(* instructions of each body once, validates them against an operand stack *)
(* and a control flow stack, and emits LLVM basic blocks, branches and phi *)
(* nodes as it goes.                                                       *)
(*                                                                         *)
(* A block is its index in blocks.  An edge <<from, to, slot>> is one      *)
(* successor slot of from's terminator, and <<from, to, slot>> is in       *)
(* incoming when LLVMAddIncoming gave to's phi the value of that slot.     *)
(***************************************************************************)
EXTENDS Opcodes

CONSTANTS
    HasTable,    \* ~mTables.empty()
    Callees,     \* the signatures of the functions a body may call
    BodyResults, \* the result types of the functions to translate
    BlockTypes,  \* the result types of their blocks
    MaxStack,    \* bound on the operand stack
    MaxDepth,    \* bound on the control flow stack, skipped blocks included
    MaxBlocks,   \* bound on the basic blocks of a function
    MaxTargets   \* bound on the targets of a br_table, the default excluded

Signatures == [params : Seq(ValTypes), result : ResultTypes]

ASSUME CalleesAssumption == Callees \subseteq Signatures
ASSUME HasTableAssumption == HasTable \in BOOLEAN
ASSUME ResultsAssumption == BodyResults \subseteq ResultTypes /\ BlockTypes \subseteq ResultTypes
ASSUME BoundsAssumption == {MaxStack, MaxDepth, MaxBlocks, MaxTargets} \subseteq Nat

VARIABLES
    evalStack,        \* mEvalStack: the type and the defining block of each value
    cfEntries,        \* mCFEntries
    blockEntries,     \* mBlockEntries: the branch targets
    unreachableDepth, \* mUnreachableDepth
    blocks,           \* the function's basic blocks: the type of the phi of each
    terminated,       \* the blocks that have their terminator
    edges,            \* the control flow graph
    incoming,         \* the incoming values of the phis
    uses,             \* <<defining block, using block>> of the operands used
    insertBlock,      \* where mBuilder appends instructions
    returnType,       \* lReturnType
    verifies,         \* no instruction or function so far fails LLVMVerifyModule
    status            \* where the module's constructor stands

stacks == <<evalStack, cfEntries, blockEntries, unreachableDepth>>
graph == <<blocks, terminated, edges, incoming, insertBlock>>
vars == <<evalStack, cfEntries, blockEntries, unreachableDepth, blocks, terminated,
          edges, incoming, uses, insertBlock, returnType, verifies, status>>

NoBlock == 0    \* a null LLVMBasicBlockRef; also the "block" of a constant
FuncEnd == 1    \* fEnd, the first block appended to a function
FuncEntry == 2  \* fEntry

Slots == 0 .. MaxTargets + 2
FallThrough == 0   \* the slot of the jump from a missing else
Taken == 1         \* a jump, the taken side of a conditional, a switch's default
NotTaken == 2      \* the other side; case i of a switch has slot i + 2
Case(i) == i + 2

Value(type, def) == [type |-> type, def |-> def]

Kinds == {"function", "block", "if", "else", "loop"}
Finished == {"accepted", "invalid", "malformed", "aborted"}
Statuses == {"section", "body"} \cup Finished

TypeOK ==
    /\ evalStack \in Seq([type : ValTypes, def : Nat])
    /\ cfEntries \in Seq([instr : Kinds, signature : ResultTypes, end : Nat, else : Nat,
                          outerStackSize : Nat, outerBlockDepth : Nat, reachable : BOOLEAN])
    /\ blockEntries \in Seq([signature : ResultTypes, block : Nat])
    /\ unreachableDepth \in Nat
    /\ blocks \in Seq(ResultTypes)
    /\ terminated \in SUBSET Nat
    /\ edges \in SUBSET (Nat \X Nat \X Nat)
    /\ incoming \in SUBSET (Nat \X Nat \X Nat)
    /\ uses \in SUBSET (Nat \X Nat)
    /\ insertBlock \in Nat
    /\ returnType \in ResultTypes
    /\ verifies \in BOOLEAN
    /\ status \in Statuses

-----------------------------------------------------------------------------
(* The operand stack.                                                      *)

Top == cfEntries[Len(cfEntries)]
InBody == status = "body" /\ cfEntries # <<>>
\* Mutant: instructions are executed in code that cannot be reached.
LiveAnywhere == InBody
Live == InBody /\ Top.reachable

\* The values a jump to a block of this type carries: one, or none.
Carried(signature) == IF signature = Void THEN <<>> ELSE <<signature>>

\* Mutant: the types are not checked.
FitsUntyped(types) == Len(evalStack) >= Top.outerStackSize + Len(types)

\* pop() of each type of types, the last one first, finds its operand in the
\* innermost frame.
Fits(types) ==
    /\ Len(evalStack) >= Top.outerStackSize + Len(types)
    /\ \A k \in 1 .. Len(types) :
         evalStack[Len(evalStack) - Len(types) + k].type = types[k]

\* An opcode without operands pops nothing, and so checks nothing: the stack may be
\* shorter than at the opening of the structure, after a call that took what lay there.
Pops(types) == types = <<>> \/ Fits(types)

Popped(n) == SubSeq(evalStack, 1, Len(evalStack) - n)

\* The last n values are operands of code appended to insertBlock.
Use(n) ==
    LET defs == {evalStack[i].def : i \in Len(evalStack) - n + 1 .. Len(evalStack)}
    IN  uses \cup {<<d, insertBlock>> : d \in defs \ {NoBlock, insertBlock}}

\* The exception leaves the constructor: the half-built module is gone.
Stop(outcome) ==
    /\ status' = outcome
    /\ evalStack' = <<>> /\ cfEntries' = <<>> /\ blockEntries' = <<>>
    /\ unreachableDepth' = 0
    /\ blocks' = <<>> /\ terminated' = {} /\ edges' = {} /\ incoming' = {}
    /\ uses' = {} /\ insertBlock' = NoBlock
    /\ returnType' = Void /\ verifies' = FALSE

Room(newBlocks) == Len(blocks) + newBlocks <= MaxBlocks

-----------------------------------------------------------------------------
(* Opening and closing control structures.                                 *)

\* Mutant: the entry is recorded after the branch target is pushed.
PushCFEntryLate(instr, signature, end, else, stack) ==
    cfEntries' = Append(cfEntries,
        [instr |-> instr, signature |-> signature, end |-> end, else |-> else,
         outerStackSize |-> Len(stack), outerBlockDepth |-> Len(blockEntries) + 1,
         reachable |-> TRUE])

PushCFEntry(instr, signature, end, else, stack) ==
    cfEntries' = Append(cfEntries,
        [instr |-> instr, signature |-> signature, end |-> end, else |-> else,
         outerStackSize |-> Len(stack), outerBlockDepth |-> Len(blockEntries),
         reachable |-> TRUE])

PushBlockEntry(signature, block) ==
    blockEntries' = Append(blockEntries, [signature |-> signature, block |-> block])

\* The next function of the code section; its parameters and locals go to
\* allocas, which the model leaves out.
StartFunction(result) ==
    /\ status = "section"
    /\ Len(cfEntries) < MaxDepth /\ MaxBlocks >= 2
    /\ status' = "body"
    /\ returnType' = result
    /\ blocks' = <<result, Void>>
    /\ insertBlock' = FuncEntry
    /\ PushCFEntry("function", result, FuncEnd, NoBlock, evalStack)
    /\ PushBlockEntry(result, FuncEnd)
    /\ UNCHANGED <<evalStack, unreachableDepth, terminated, edges, incoming, uses, verifies>>

\* A body for which no function was declared.
UndeclaredFunction == status = "section" /\ Stop("invalid")

DepthLeft == Len(cfEntries) + unreachableDepth < MaxDepth

Block(signature) ==
    /\ Live /\ DepthLeft /\ Room(1)
    /\ blocks' = Append(blocks, signature)
    /\ PushCFEntry("block", signature, Len(blocks) + 1, NoBlock, evalStack)
    /\ PushBlockEntry(signature, Len(blocks) + 1)
    /\ UNCHANGED <<evalStack, unreachableDepth, terminated, edges, incoming, uses,
                   insertBlock, returnType, verifies, status>>

\* A branch to a loop goes back to its entry and carries nothing.
Loop(signature) ==
    /\ Live /\ DepthLeft /\ Room(2)
    /\ LET entry == Len(blocks) + 1
           end == Len(blocks) + 2
       IN  /\ blocks' = blocks \o <<Void, signature>>
           /\ edges' = edges \cup {<<insertBlock, entry, Taken>>}
           /\ terminated' = terminated \cup {insertBlock}
           /\ insertBlock' = entry
           /\ PushCFEntry("loop", signature, end, NoBlock, evalStack)
           /\ PushBlockEntry(Void, entry)
    /\ UNCHANGED <<evalStack, unreachableDepth, incoming, uses, returnType, verifies, status>>

If(signature) ==
    \/ /\ Live /\ Fits(<<"i32">>) /\ DepthLeft /\ Room(3)
       /\ LET then == Len(blocks) + 1
              else == Len(blocks) + 2
              end == Len(blocks) + 3
          IN  /\ blocks' = blocks \o <<Void, Void, signature>>
              /\ edges' = edges \cup {<<insertBlock, then, Taken>>, <<insertBlock, else, NotTaken>>}
              /\ terminated' = terminated \cup {insertBlock}
              /\ insertBlock' = then
              /\ evalStack' = Popped(1)
              /\ uses' = Use(1)
              /\ PushCFEntry("if", signature, end, else, evalStack')
              /\ PushBlockEntry(signature, end)
       /\ UNCHANGED <<unreachableDepth, incoming, returnType, verifies, status>>
    \/ Live /\ ~Fits(<<"i32">>) /\ Stop("invalid")

\* Mutant: operands left below the result are not noticed.
FrameClosesLoosely ==
    Fits(IF Top.reachable THEN Carried(Top.signature) ELSE <<>>)
\* Mutant: a jump from code that cannot be reached.
JoinEdgesAlways == {<<insertBlock, Top.end, Taken>>}
\* Mutant: a block that falls through to the next one.
JoinFallsThrough == {}

\* At else and end: the frame holds exactly the value its block carries.
\* Code that cannot be reached was skipped with an empty frame.
Yielded == IF Top.reachable THEN Carried(Top.signature) ELSE <<>>
FrameCloses == Fits(Yielded) /\ Len(evalStack) = Top.outerStackSize + Len(Yielded)
JoinEdges == IF Top.reachable THEN {<<insertBlock, Top.end, Taken>>} ELSE {}
JoinValues == IF Yielded = <<>> THEN {} ELSE JoinEdges
JoinTerminated == IF Top.reachable THEN {insertBlock} ELSE {}

\* else and end are the instructions read even when the code is unreachable,
\* unless they belong to a block that was skipped.
AtJoin == InBody /\ (Top.reachable \/ unreachableDepth = 0)

Else ==
    \/ /\ AtJoin /\ FrameCloses /\ Top.else # NoBlock
       /\ edges' = edges \cup JoinEdges
       /\ incoming' = incoming \cup JoinValues
       /\ terminated' = terminated \cup JoinTerminated
       /\ uses' = Use(Len(Yielded))
       /\ evalStack' = Popped(Len(Yielded))
       /\ insertBlock' = Top.else
       /\ cfEntries' = [cfEntries EXCEPT ![Len(cfEntries)] =
                          [@ EXCEPT !.instr = "else", !.reachable = TRUE, !.else = NoBlock]]
       /\ UNCHANGED <<blockEntries, unreachableDepth, blocks, returnType, verifies, status>>
    \/ AtJoin /\ ~FrameCloses /\ Stop("invalid")
    \* assert(lEntry.mElse): an else outside an if, or a second one
    \/ AtJoin /\ FrameCloses /\ Top.else = NoBlock /\ Stop("aborted")

\* A missing else jumps straight to the end, and gives its phi no value.
FallThroughEdges ==
    IF Top.else = NoBlock THEN {} ELSE {<<Top.else, Top.end, FallThrough>>}

\* A phi without incoming value is erased and replaced by a zero.
HasIncoming(values) == \E v \in values : v[2] = Top.end
\* Mutant: the value of the last block is pushed instead of the phi.
ResultBypassesPhi(values) ==
    IF Top.signature = Void THEN <<>> ELSE <<Value(Top.signature, insertBlock)>>
Result(values) ==
    IF Top.signature = Void THEN <<>>
    ELSE <<Value(Top.signature, IF HasIncoming(values) THEN Top.end ELSE NoBlock)>>

End ==
    \/ /\ AtJoin /\ FrameCloses
       /\ edges' = edges \cup JoinEdges \cup FallThroughEdges
       /\ incoming' = incoming \cup JoinValues
       /\ terminated' = (terminated \cup JoinTerminated) \cup ({Top.else} \ {NoBlock})
       /\ blocks' = IF HasIncoming(incoming') THEN blocks
                    ELSE [blocks EXCEPT ![Top.end] = Void]
       /\ uses' = Use(Len(Yielded))
       /\ evalStack' = Popped(Len(Yielded)) \o Result(incoming')
       /\ insertBlock' = Top.end
       /\ blockEntries' = SubSeq(blockEntries, 1, Top.outerBlockDepth)
       /\ cfEntries' = SubSeq(cfEntries, 1, Len(cfEntries) - 1)
       /\ UNCHANGED <<unreachableDepth, returnType, verifies, status>>
    \/ AtJoin /\ ~FrameCloses /\ Stop("invalid")

-----------------------------------------------------------------------------
(* Jumps.                                                                  *)

\* Mutant: the operands of the frame stay on the stack.
SkipUnreachableKeeps(stack) ==
    /\ evalStack' = stack
    /\ cfEntries' = [cfEntries EXCEPT ![Len(cfEntries)] = [@ EXCEPT !.reachable = FALSE]]
    /\ unreachableDepth' = 0

\* skip_unreachable, once the operands are taken from the stack.
SkipUnreachable(stack) ==
    /\ evalStack' = SubSeq(stack, 1, Top.outerStackSize)
    /\ cfEntries' = [cfEntries EXCEPT ![Len(cfEntries)] = [@ EXCEPT !.reachable = FALSE]]
    /\ unreachableDepth' = 0

Target(depth) == blockEntries[Len(blockEntries) - depth]
InRange(depth) == depth < Len(blockEntries)

\* Mutant: the value comes from the entry of the function, not from the block
\* the jump leaves.
ValueEdgeFromEntry(target, slot) ==
    IF target.signature = Void THEN {} ELSE {<<FuncEntry, target.block, slot>>}

\* The jump to the target of depth, if it carries a value, gives it to the phi.
ValueEdge(target, slot) ==
    IF target.signature = Void THEN {} ELSE {<<insertBlock, target.block, slot>>}

Unreachable ==
    \/ /\ Live /\ Len(evalStack) >= Top.outerStackSize /\ Room(2)
       /\ blocks' = blocks \o <<Void, Void>>
       /\ edges' = edges \cup {<<insertBlock, Len(blocks) + 1, Taken>>,
                               <<insertBlock, Len(blocks) + 2, NotTaken>>}
       /\ terminated' = terminated \cup {insertBlock, Len(blocks) + 1, Len(blocks) + 2}
       /\ insertBlock' = Len(blocks) + 2
       /\ SkipUnreachable(evalStack)
       /\ UNCHANGED <<blockEntries, incoming, uses, returnType, verifies, status>>
    \/ Live /\ Len(evalStack) < Top.outerStackSize /\ Stop("invalid")

Br(depth) ==
    LET target == Target(depth)
        valid == InRange(depth) /\ Fits(Carried(target.signature))
    IN  \/ /\ Live /\ valid
           /\ incoming' = incoming \cup ValueEdge(target, Taken)
           /\ edges' = edges \cup {<<insertBlock, target.block, Taken>>}
           /\ terminated' = terminated \cup {insertBlock}
           /\ uses' = Use(Len(Carried(target.signature)))
           /\ SkipUnreachable(Popped(Len(Carried(target.signature))))
           /\ UNCHANGED <<blockEntries, blocks, insertBlock, returnType, verifies, status>>
        \/ Live /\ ~valid /\ Stop("invalid")

\* The condition is popped, the value a taken branch carries stays.
BrIf(depth) ==
    LET target == Target(depth)
        operands == Carried(target.signature) \o <<"i32">>
        valid == InRange(depth) /\ Fits(operands)
        after == Len(blocks) + 1
    IN  \/ /\ Live /\ valid /\ Room(1)
           /\ blocks' = Append(blocks, Void)
           /\ incoming' = incoming \cup ValueEdge(target, Taken)
           /\ edges' = edges \cup {<<insertBlock, target.block, Taken>>,
                                   <<insertBlock, after, NotTaken>>}
           /\ terminated' = terminated \cup {insertBlock}
           /\ insertBlock' = after
           /\ uses' = Use(Len(operands))
           /\ evalStack' = Popped(1)
           /\ UNCHANGED <<cfEntries, blockEntries, unreachableDepth, returnType, verifies, status>>
        \/ Live /\ ~valid /\ Stop("invalid")

BrTable(depths, default) ==
    LET target == Target(default)
        operands == Carried(target.signature) \o <<"i32">>
        valid == /\ InRange(default) /\ Fits(operands)
                 /\ \A i \in DOMAIN depths :
                      InRange(depths[i]) /\ Target(depths[i]).signature = target.signature
    IN  \/ /\ Live /\ valid
           /\ incoming' = incoming \cup ValueEdge(target, Taken) \cup
                            UNION {ValueEdge(Target(depths[i]), Case(i)) : i \in DOMAIN depths}
           /\ edges' = edges \cup {<<insertBlock, target.block, Taken>>} \cup
                         {<<insertBlock, Target(depths[i]).block, Case(i)>> : i \in DOMAIN depths}
           /\ terminated' = terminated \cup {insertBlock}
           /\ uses' = Use(Len(operands))
           /\ SkipUnreachable(Popped(Len(operands)))
           /\ UNCHANGED <<blockEntries, blocks, insertBlock, returnType, verifies, status>>
        \/ Live /\ ~valid /\ Stop("invalid")

Return ==
    \/ /\ Live /\ Fits(Carried(returnType))
       /\ incoming' = incoming \cup (IF returnType = Void THEN {}
                                     ELSE {<<insertBlock, cfEntries[1].end, Taken>>})
       /\ edges' = edges \cup {<<insertBlock, cfEntries[1].end, Taken>>}
       /\ terminated' = terminated \cup {insertBlock}
       /\ uses' = Use(Len(Carried(returnType)))
       /\ SkipUnreachable(Popped(Len(Carried(returnType))))
       /\ UNCHANGED <<blockEntries, blocks, insertBlock, returnType, verifies, status>>
    \/ Live /\ ~Fits(Carried(returnType)) /\ Stop("invalid")

-----------------------------------------------------------------------------
(* Calls and plain instructions.                                           *)

\* The arguments are copied from the end of the whole operand stack, of which
\* the last skipped values are already popped.
ArgsFit(params, skipped) ==
    LET base == Len(evalStack) - skipped - Len(params)
    IN  base >= 0 /\ \A k \in 1 .. Len(params) : evalStack[base + k].type = params[k]

\* Mutant: a result is pushed when there is none.
ReplaceAlways(n, result, def) == evalStack' = Popped(n) \o <<Value(result, def)>>
\* Mutant: the operands are read and not popped.
ReplaceKeeps(n, result, def) ==
    evalStack' = evalStack \o (IF result = Void THEN <<>> ELSE <<Value(result, def)>>)

\* What an instruction leaves in place of the n values it takes.
Replace(n, result, def) ==
    evalStack' = Popped(n) \o (IF result = Void THEN <<>> ELSE <<Value(result, def)>>)
StackRoom(n, result) == Len(evalStack) - n + Len(Carried(result)) <= MaxStack

Call(callee) ==
    LET n == Len(callee.params)
    IN  \/ /\ Live /\ ArgsFit(callee.params, 0) /\ StackRoom(n, callee.result)
           /\ uses' = Use(n)
           /\ Replace(n, callee.result, insertBlock)
           /\ UNCHANGED <<cfEntries, blockEntries, unreachableDepth, graph, returnType,
                          verifies, status>>
        \/ Live /\ ~ArgsFit(callee.params, 0) /\ Stop("invalid")

\* Mutant: the block that throws has no terminator.
TrapIfOpen ==
    LET then == Len(blocks) + 1
        skip == Len(blocks) + 2
    IN  /\ blocks' = blocks \o <<Void, Void>>
        /\ edges' = edges \cup {<<insertBlock, then, Taken>>, <<insertBlock, skip, NotTaken>>}
        /\ terminated' = terminated \cup {insertBlock}
        /\ insertBlock' = skip

\* trap_if: a conditional jump to a block that throws, or around it.
TrapIf ==
    LET then == Len(blocks) + 1
        skip == Len(blocks) + 2
    IN  /\ blocks' = blocks \o <<Void, Void>>
        /\ edges' = edges \cup {<<insertBlock, then, Taken>>, <<insertBlock, skip, NotTaken>>}
        /\ terminated' = terminated \cup {insertBlock, then}
        /\ insertBlock' = skip

CallIndirect(callee) ==
    LET n == Len(callee.params)
        valid == HasTable /\ Fits(<<"i32">>) /\ ArgsFit(callee.params, 1)
    IN  \/ /\ Live /\ valid /\ StackRoom(n + 1, callee.result) /\ Room(2)
           /\ TrapIf
           /\ uses' = Use(n + 1)
           /\ Replace(n + 1, callee.result, insertBlock')
           /\ UNCHANGED <<cfEntries, blockEntries, unreachableDepth, incoming, returnType,
                          verifies, status>>
        \/ Live /\ ~valid /\ Stop("invalid")

\* An operator that folds gives a constant when it is applied to constants.
Folded(op, n) ==
    op.folds /\ \A i \in Len(evalStack) - n + 1 .. Len(evalStack) : evalStack[i].def = NoBlock

\* The code of emit_srem: a conditional trap, then a diamond whose phi takes
\* the remainder, or zero on the side that would overflow.
SRemDiamond(type) ==
    LET then == Len(blocks) + 1
        skip == Len(blocks) + 2
        rem == Len(blocks) + 3
        end == Len(blocks) + 4
    IN  /\ blocks' = blocks \o <<Void, Void, Void, type>>
        /\ edges' = edges \cup {<<insertBlock, then, Taken>>, <<insertBlock, skip, NotTaken>>,
                                <<skip, rem, Taken>>, <<skip, end, NotTaken>>,
                                <<rem, end, Taken>>}
        /\ incoming' = incoming \cup {<<rem, end, Taken>>, <<skip, end, NotTaken>>}
        /\ terminated' = terminated \cup {insertBlock, then, skip, rem}
        /\ insertBlock' = end

Execute(op) ==
    \/ \E t \in op.typings :
         LET n == Len(t.ins)
         IN  /\ Live /\ Pops(t.ins) /\ StackRoom(n, t.out)
             /\ \/ op.shape = "straight" /\ UNCHANGED graph
                \/ op.shape = "trap" /\ Room(2) /\ TrapIf /\ UNCHANGED incoming
                \/ op.shape = "srem" /\ Room(4) /\ SRemDiamond(t.out)
             /\ Replace(n, t.out, IF Folded(op, n) THEN NoBlock ELSE insertBlock')
             /\ uses' = Use(n)
             /\ verifies' = (verifies /\ t.ok)
             /\ UNCHANGED <<cfEntries, blockEntries, unreachableDepth, returnType, status>>
    \/ Live /\ (\A t \in op.typings : ~Pops(t.ins)) /\ Stop("invalid")

\* An index beyond the functions, types or targets, or an alignment wider
\* than the access.
BadImmediate == Live /\ Stop("invalid")

\* An opcode or a block type the format does not have.
Malformed == InBody /\ Stop("malformed")

-----------------------------------------------------------------------------
(* Code that cannot be reached is read and dropped.                        *)

Skipping == InBody /\ ~Top.reachable

SkipBlock ==
    /\ Skipping /\ DepthLeft
    /\ unreachableDepth' = unreachableDepth + 1
    /\ UNCHANGED <<evalStack, cfEntries, blockEntries, graph, uses, returnType, verifies, status>>

SkipEnd ==
    /\ Skipping /\ unreachableDepth > 0
    /\ unreachableDepth' = unreachableDepth - 1
    /\ UNCHANGED <<evalStack, cfEntries, blockEntries, graph, uses, returnType, verifies, status>>

\* The other instructions, and the else of a skipped if.
SkipOther == Skipping /\ UNCHANGED vars

-----------------------------------------------------------------------------
(* The end of a function, and of the module.                               *)

\* The blocks reached from the entry by paths that avoid a block.
ReachedWithout(avoided) ==
    LET n == Len(blocks)
        reached[k \in 0 .. n] ==
            IF k = 0 THEN {FuncEntry} \ {avoided}
            ELSE LET before == reached[k - 1]
                 IN  before \cup {b \in DOMAIN blocks \ {avoided} :
                                    \E e \in edges : e[1] \in before /\ e[2] = b}
    IN  reached[n]

\* LLVM's dominance: every path from the entry to b goes through a.
Dominates(a, b) == a = b \/ b \notin ReachedWithout(a)

Into(b, slots) == {s \in slots : s[2] = b}

\* What LLVMVerifyModule asks of a function: every block is terminated, every
\* phi has one value per edge into its block, every use is dominated.
FunctionVerifies ==
    /\ DOMAIN blocks \subseteq terminated \cup {insertBlock}
    /\ \A b \in DOMAIN blocks :
         blocks[b] # Void => Into(b, incoming) = Into(b, edges) /\ Into(b, edges) # {}
    /\ \A u \in uses : Dominates(u[1], u[2])

\* The pop(lReturnType) of the function's end, outside any frame.  It always
\* finds its operand (FunctionEndsClean), so its exception is left out.
ReturnFits ==
    \/ returnType = Void
    \/ evalStack # <<>> /\ evalStack[Len(evalStack)].type = returnType

FinishFunction ==
    /\ status = "body" /\ cfEntries = <<>> /\ ReturnFits /\ insertBlock = FuncEnd
    /\ status' = "section"
    /\ evalStack' = Popped(Len(Carried(returnType)))
    /\ verifies' = (verifies /\ FunctionVerifies)
    /\ blocks' = <<>> /\ terminated' = {} /\ edges' = {} /\ incoming' = {}
    /\ uses' = {} /\ insertBlock' = NoBlock /\ returnType' = Void
    /\ UNCHANGED <<cfEntries, blockEntries, unreachableDepth>>

\* The bytes of the body and its control structures do not end together:
\* assert(mCurrent == lEndPos), assert(LLVMGetInsertBlock(mBuilder) == lFuncEnd)
BodySizeMismatch == status = "body" /\ Stop("aborted")

\* The constructor verifies the module once it is read.
FinishModule ==
    /\ status = "section"
    /\ status' = IF verifies THEN "accepted" ELSE "invalid"
    /\ UNCHANGED <<stacks, graph, uses, returnType, verifies>>

-----------------------------------------------------------------------------
Init ==
    /\ evalStack = <<>> /\ cfEntries = <<>> /\ blockEntries = <<>>
    /\ unreachableDepth = 0
    /\ blocks = <<>> /\ terminated = {} /\ edges = {} /\ incoming = {}
    /\ uses = {} /\ insertBlock = NoBlock
    /\ returnType = Void /\ verifies = TRUE
    /\ status = "section"

Depths == 0 .. MaxDepth

ControlStep ==
    \/ \E result \in BodyResults : StartFunction(result)
    \/ \E signature \in BlockTypes : Block(signature) \/ Loop(signature) \/ If(signature)
    \/ Else
    \/ End
    \/ SkipBlock
    \/ SkipEnd
    \/ SkipOther

JumpStep ==
    \/ Unreachable
    \/ \E depth \in Depths : Br(depth) \/ BrIf(depth)
    \/ \E n \in 0 .. MaxTargets : \E depths \in [1 .. n -> Depths], default \in Depths :
          BrTable(depths, default)
    \/ Return

StraightStep ==
    \/ \E callee \in Callees : Call(callee) \/ CallIndirect(callee)
    \/ \E op \in Opcodes : Execute(op)

OutcomeStep ==
    \/ UndeclaredFunction
    \/ BadImmediate
    \/ Malformed
    \/ FinishFunction
    \/ BodySizeMismatch
    \/ FinishModule

Next == ControlStep \/ JumpStep \/ StraightStep \/ OutcomeStep

Spec == Init /\ [][Next]_vars

-----------------------------------------------------------------------------
(* Safety.                                                                 *)

\* branch_depth counts in mBlockEntries while end and else pop mCFEntries: the
\* two stacks stay aligned, so that depth d always names the d-th enclosing
\* structure, a loop by its entry and the others by their end.
FramesAligned ==
    /\ Len(blockEntries) = Len(cfEntries)
    /\ \A i \in DOMAIN cfEntries :
         /\ cfEntries[i].outerBlockDepth = i - 1
         /\ cfEntries[i].instr # "loop" =>
              blockEntries[i] = [signature |-> cfEntries[i].signature, block |-> cfEntries[i].end]
         /\ cfEntries[i].instr = "loop" => blockEntries[i].signature = Void
         /\ cfEntries[i].instr = "function" <=> i = 1

\* Only the innermost structure can hold unreachable code, which is what the
\* assertion of pushCFEntry and the reset of mUnreachableDepth rely on, and
\* skipped structures are only counted there.
OnlyTopSkipped ==
    /\ \A i \in DOMAIN cfEntries : i < Len(cfEntries) => cfEntries[i].reachable
    /\ unreachableDepth > 0 => Skipping

\* Every block gets one terminator.  While a body is read, the blocks still
\* open are the ends and elses that wait for their instruction and, when the
\* code is reachable, the insertion block: nothing is appended to a closed
\* block, and no block is forgotten.
OpenBlocks ==
    status = "body" =>
        DOMAIN blocks \ terminated =
            {cfEntries[i].end : i \in DOMAIN cfEntries}
            \cup ({cfEntries[i].else : i \in DOMAIN cfEntries} \ {NoBlock})
            \cup (IF cfEntries = <<>> \/ Top.reachable THEN {insertBlock} ELSE {})

\* A phi gets a value for each edge into its block, from the block the edge
\* really leaves, wherever traps, branches and nested structures moved the
\* insertion point; only the jump from a missing else brings none.
PhiPerEdge ==
    \A b \in DOMAIN blocks :
        blocks[b] # Void =>
            /\ Into(b, incoming) \subseteq Into(b, edges)
            /\ \A e \in Into(b, edges) \ incoming : e[3] = FallThrough

\* When the last end of a body is read the function's result, and nothing
\* else, is on the operand stack and code is appended to fEnd, as the closing
\* assertions and pop(lReturnType) want; the next function starts afresh.
FunctionEndsClean ==
    /\ status \in {"section", "body"} /\ cfEntries = <<>> =>
         /\ Len(evalStack) = IF status = "body" THEN Len(Carried(returnType)) ELSE 0
         /\ \A i \in DOMAIN evalStack : evalStack[i].type = returnType
         /\ blockEntries = <<>> /\ unreachableDepth = 0
    /\ status = "body" /\ cfEntries = <<>> => insertBlock = FuncEnd

\* A block that has its terminator gets no other edge before the function is
\* finished.
TerminatorsKept ==
    status = "body" /\ status' = "body" =>
        {e \in edges' : e[1] \in terminated} = {e \in edges : e[1] \in terminated}
TerminatorsFinal == [][TerminatorsKept]_vars
=============================================================================
