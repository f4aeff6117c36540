--------------------------- MODULE BodyValidation ---------------------------
(***************************************************************************)
(* What the translator promises: it accepts the bodies that are well typed *)
(* and refuses the others, code that cannot be reached left aside.  The    *)
(* typing rules of the structured instructions are stated here on a stack  *)
(* of frames with an operand stack each, and both machines read the same   *)
(* instructions, one by one.                                               *)
(***************************************************************************)
EXTENDS FunctionBody, Integers

VARIABLES
    frames,    \* the open structures, each with the types of its operands
    refusedAt  \* the rule the body broke first, or "none"

lockVars == <<vars, frames, refusedAt>>

Rules == {"none", "operands", "untyped operands", "call", "join", "missing else",
          "target", "form"}

\* An opcode, the typings its name gives it, and the rule they make.
AsNamed(op, typings) == [op |-> op, declared |-> typings, rule |-> "untyped operands"]
AsTyped(op) == [op |-> op, declared |-> {t \in op.typings : t.ok}, rule |-> "operands"]

\* The opcodes that pop() untyped, once for each type they name.
Untyped == {IBinary, ICmp, UDiv, SDiv} \cap Opcodes
NamedForms(op) ==
    {AsNamed(op, {typing \in op.typings : typing.ins = <<t, t>>}) : t \in IntTypes}
UntypedUnary == {t \in IntTypes : SignExt(t) \in Opcodes}
Instructions ==
    {AsTyped(op) : op \in Opcodes \ (Untyped \cup {SignExt(t) : t \in UntypedUnary})}
    \cup {AsNamed(SignExt(t), {Typing(<<t>>, t, TRUE)}) : t \in UntypedUnary}
    \cup UNION {NamedForms(op) : op \in Untyped}

-----------------------------------------------------------------------------
Inner == frames[Len(frames)]
Holds(types) ==
    /\ Len(Inner.operands) >= Len(types)
    /\ SubSeq(Inner.operands, Len(Inner.operands) - Len(types) + 1, Len(Inner.operands)) = types
Without(n) == SubSeq(Inner.operands, 1, Len(Inner.operands) - n)
Leaving(operands) == [frames EXCEPT ![Len(frames)] = [@ EXCEPT !.operands = operands]]
Dead == [frames EXCEPT ![Len(frames)] = [@ EXCEPT !.operands = <<>>, !.live = FALSE]]

Frame(kind, label, result) ==
    [kind |-> kind, label |-> label, result |-> result, operands |-> <<>>,
     live |-> TRUE, skipped |-> 0]

\* One instruction: the frames it leaves when it obeys its rule.
Obey(rule, legal, next) ==
    IF refusedAt # "none" THEN UNCHANGED <<frames, refusedAt>>
    ELSE IF legal THEN frames' = next /\ UNCHANGED refusedAt
    ELSE frames' = <<>> /\ refusedAt' = rule

Ignored == UNCHANGED <<frames, refusedAt>>
IllFormed == Obey("form", FALSE, frames)

OpenRule(kind, label, result, types) ==
    Obey("operands", Holds(types),
         Append(Leaving(Without(Len(types))), Frame(kind, label, result)))

Closes == Inner.skipped = 0 /\ (Inner.live => Inner.operands = Carried(Inner.result))

ElseRule ==
    Obey("join", Closes /\ Inner.kind = "if",
         [frames EXCEPT ![Len(frames)] = Frame("else", Inner.label, Inner.result)])

EndRule ==
    LET outer == SubSeq(frames, 1, Len(frames) - 1)
    IN  IF refusedAt = "none" /\ Closes /\ Inner.kind = "if" /\ Inner.result # Void
        THEN Obey("missing else", FALSE, frames)
        ELSE Obey("join", Closes,
                  IF outer = <<>> THEN <<>>
                  ELSE [outer EXCEPT ![Len(outer)].operands = @ \o Carried(Inner.result)])

SkippedRule(change) ==
    Obey("join", Inner.skipped + change >= 0,
         [frames EXCEPT ![Len(frames)].skipped = @ + change])

Reaches(depth) == depth < Len(frames)
Label(depth) == frames[Len(frames) - depth].label

BrRule(depth) ==
    IF refusedAt = "none" /\ ~Reaches(depth) THEN Obey("target", FALSE, frames)
    ELSE Obey("operands", Holds(Label(depth)), Dead)

BrIfRule(depth) ==
    IF refusedAt = "none" /\ ~Reaches(depth) THEN Obey("target", FALSE, frames)
    ELSE Obey("operands", Holds(Label(depth) \o <<"i32">>), Leaving(Without(1)))

BrTableRule(depths, default) ==
    LET all == {depths[i] : i \in DOMAIN depths} \cup {default}
    IN  IF refusedAt = "none"
           /\ \/ \E d \in all : ~Reaches(d)
              \/ \E d \in all : Label(d) # Label(default)
        THEN Obey("target", FALSE, frames)
        ELSE Obey("operands", Holds(Label(default) \o <<"i32">>), Dead)

ReturnRule == Obey("operands", Holds(frames[1].label), Dead)

CallRule(callee, extra) ==
    Obey("call", Holds(callee.params \o extra),
         Leaving(Without(Len(callee.params \o extra)) \o Carried(callee.result)))

OperandRule(i) ==
    LET fitting == {t \in i.declared : Holds(t.ins)}
        typing == CHOOSE t \in fitting : TRUE
    IN  Obey(i.rule, fitting # {},
             Leaving(Without(Len(typing.ins)) \o Carried(typing.out)))

-----------------------------------------------------------------------------
LockInit == Init /\ frames = <<>> /\ refusedAt = "none"

LockNext ==
    \/ \E result \in BodyResults :
         /\ StartFunction(result)
         /\ Obey("form", frames = <<>>, <<Frame("function", Carried(result), result)>>)
    \/ \E signature \in BlockTypes :
         \/ Block(signature) /\ OpenRule("block", Carried(signature), signature, <<>>)
         \/ Loop(signature) /\ OpenRule("loop", <<>>, signature, <<>>)
         \/ If(signature) /\ OpenRule("if", Carried(signature), signature, <<"i32">>)
    \/ Else /\ ElseRule
    \/ End /\ EndRule
    \/ SkipBlock /\ SkippedRule(1)
    \/ SkipEnd /\ SkippedRule(-1)
    \/ SkipOther /\ Ignored
    \/ Unreachable /\ Obey("operands", TRUE, Dead)
    \/ \E depth \in Depths :
         \/ Br(depth) /\ BrRule(depth)
         \/ BrIf(depth) /\ BrIfRule(depth)
    \/ \E n \in 0 .. MaxTargets : \E depths \in [1 .. n -> Depths], default \in Depths :
         BrTable(depths, default) /\ BrTableRule(depths, default)
    \/ Return /\ ReturnRule
    \/ \E callee \in Callees :
         \/ Call(callee) /\ CallRule(callee, <<>>)
         \/ CallIndirect(callee) /\ IF HasTable THEN CallRule(callee, <<"i32">>) ELSE IllFormed
    \/ \E i \in Instructions : Execute(i.op) /\ OperandRule(i)
    \/ UndeclaredFunction /\ IllFormed
    \/ BadImmediate /\ IllFormed
    \/ Malformed /\ IllFormed
    \/ FinishFunction /\ Obey("join", frames = <<>>, frames)
    \/ BodySizeMismatch /\ IllFormed
    \/ FinishModule /\ Ignored

LockSpec == LockInit /\ [][LockNext]_lockVars

-----------------------------------------------------------------------------
\* A well typed body is never refused: not by an exception, not by an
\* assertion, and not by LLVMVerifyModule for the code generated from it.
ValidBodiesAccepted == status \in {"invalid", "malformed", "aborted"} => refusedAt # "none"

\* As long as the body is well typed the one operand stack of the translator,
\* cut at the outerStackSize of its control entries, is the operands of the
\* open structures, of the same types, and its branch targets, reachability
\* and count of skipped structures are theirs.
StacksAgree ==
    status = "body" /\ refusedAt = "none" =>
        /\ Len(frames) = Len(cfEntries)
        /\ \A i \in DOMAIN frames :
             LET entry == cfEntries[i]
                 innermost == i = Len(frames)
                 last == IF innermost THEN Len(evalStack) ELSE cfEntries[i + 1].outerStackSize
             IN  /\ frames[i].operands = [k \in 1 .. last - entry.outerStackSize |->
                                            evalStack[entry.outerStackSize + k].type]
                 /\ frames[i].label = Carried(blockEntries[i].signature)
                 /\ frames[i].result = entry.signature
                 /\ frames[i].live = entry.reachable
                 /\ frames[i].skipped = IF innermost THEN unreachableDepth ELSE 0

\* And each of its values is computed on every path to the insertion point:
\* the code of one branch never uses a value of the other.
OperandsDominate ==
    Live /\ refusedAt = "none" =>
        \A i \in DOMAIN evalStack :
            evalStack[i].def = NoBlock \/ Dominates(evalStack[i].def, insertBlock)

\* An ill typed body is refused, unless what it breaks first is one of the
\* rules the translator does not enforce: a call that takes operands of an
\* outer structure, an if with a result and no else whose then does not
\* complete, an operator applied to two operands of another type.
Unenforced == {"call", "missing else", "untyped operands"}
IllTypedBodiesRefused == status = "accepted" => refusedAt \in {"none"} \cup Unenforced

\* The same without exception: "EXPECT_THROW(wembed::module(...),
\* wembed::invalid_exception)" for every assert_invalid of the test suite.
CallsTypeChecked == status = "accepted" => refusedAt # "call"
ElseRequired == status = "accepted" => refusedAt # "missing else"
=============================================================================
