# wembed in TLA+

wembed reads a WebAssembly module, translates it to LLVM IR in one pass
(`src/src/module.cpp`), and builds *contexts* from it (`src/src/context.cpp`): JIT
compiled instances linked to memories, tables, globals and functions of the host
or of other contexts. These modules model its core logic, TLC checks them on
small instances, and TLAPS proves every safety property for all values of the
constants.

## 1. The system

| component | state | operations | who it talks to |
|---|---|---|---|
| Binary reader | `mCurrent`, `mEnd`, the types, functions, tables, memories, globals and exports read so far | the loop over sections, one handler per section, LEB128 integers | fills what the translator reads, emits `wembed.start` |
| Function body translator, `module::parse_section_code` | operand stack `mEvalStack`, control stacks `mCFEntries` and `mBlockEntries`, `mUnreachableDepth`, the function under construction | one `case` per opcode, end of a function, end of the module | emits LLVM IR; `LLVMVerifyModule` judges it at the end of the constructor |
| Numeric instructions | none | one LLVM sequence per opcode | translator |
| Initialisers (`wembed.start`) | none of its own | code for globals, element segments, data segments, the start function | runs inside the constructor of a context |
| Imports, exports, type hashes | `mImports`, `mExports`, symbol tables, global variables of LLVM | resolution by name, kind and hash | host, other contexts |
| Context and function table | table pointers and types, shared between contexts | constructor (link, run `wembed.start`, replace indices by addresses), destructor, exports | host, other contexts, JIT |
| Linear memory | one mapping of 4 GiB, a size, declared limits | create, link, load, store, `memory.grow`, `memory.size`, the driver's `brk`, a host's `resize` | code of all contexts that share it |
| Command line driver | one context, one memory | system calls | host |
| Optimiser, dumps, profiling, tests | - | LLVM pass lists, output | - |

The whole program runs on one thread. What makes it hard is not interleaving of
threads but order: a single pass that must never look back, three stacks that
must move together, code emitted in one place and run in another, tables, memories
and globals that several contexts write and that outlive a context that failed.
The hard behaviours, and what correctness means for each component:

* **Reader.** The sizes of the sections it knows are never compared with what it
  reads: what follows a section is read where its handler stopped, and vectors of
  elements and contents of data are passed over by numbers taken from the file.
  Sections come in any order and several times; bodies are matched to functions by an
  offset two sections set. Reading ends.
* **Translator.** Well typed bodies are accepted and ill typed ones refused.
  One operand stack serves all nested structures; unreachable code is skipped by
  counting; a phi needs exactly one value from each edge into its block, from
  the block the edge *really* leaves, although traps, conditional branches and
  inner structures keep moving the insertion point; a block gets one terminator.
* **Numerics.** Operators of LLVM are undefined, or differ from the standard, at
  the edges: shift counts, the lowest integer by -1, zeros of two signs, NaNs, the
  floats next to the limits of an integer type.
* **Initialisers.** Globals before segments, all checks of a section before its first
  copy, the start function last, although the sections may be read in another order.
* **Linking.** An import is bound to what it stands for through modules that pass it
  on, with the declared mutability; immutable globals stay.
* **Table.** Element segments store bare indices (plus one) that the constructor
  replaces by addresses only after the start function. Segments overlap,
  constructors fail half way and leave indices behind, the next context sees them.
  A completed context must find its own functions, with their types.
* **Memory.** A page that is added is clear; address arithmetic must not wrap; limits
  are compared once, at link time, and must hold as long as the context runs.

`PROJECT.json` lists the hazards one by one at their line.

## 2. The modules

```
Opcodes <- FunctionBody <- BodyValidation <---\      (lockstep with typing rules)
              ^ FunctionBodyProofs <- BodyValidationProofs <- DominanceProofs
Sections      <- SectionsProofs
Linking       <- LinkingProofs
Instantiation <- InstantiationProofs
LinearMemory  -- INSTANCE --> WasmMemory             (refinement)
              <- LinearMemoryProofs
PowersOfTwo <- IntegerCode, FloatCode
Leb128, IntegerCode, FloatCode <- Arithmetic         (against the arithmetic meant)
                               <- ArithmeticProofs
MC*: constants for TLC
```

**Sections** — `parse_sections`, the handler of every section, and the code of
`wembed.start` they emit, run once as the constructor of a context does. A file is a
sequence of sections as their declared sizes cut it; a section has the entries its
handler loops over, each `at` its place with its own `bytes`, and, for segments, the
bytes of the `vector` of elements or the `size` of the content after it. `cursor` is
`mCurrent`: each iteration of a handler is one step and moves it by what that handler
takes (`BytesRead`), which is the vector only when the table is one of functions and the
content whatever its size; the end of a handler adds nothing but what custom and name
sections compute from the declared size (`Passed`). So the next section, or the next
entry, is found where the reader really is (`InPlace`), or not at all: `Astray` is the
reader in the middle of something, and what it makes of the bytes there is not modelled.
`Misread` names how it gets there: a name section with content, an element segment over
a table that is not one of functions, a section that does not have the bytes it declares.
`entry` and `user` are the instructions of the entry block and of the block that calls the
start function; `checks` and `copies` are those of a section of segments, `builder` the
block in which an offset is computed. `Finish` is the end of the constructor: a value
loaded in "copies" and used in "checks" does not verify. `Execute` runs the code: the end
of a data segment wraps at `Modulus` (`Passes`), so a segment may pass its check and run
into pages that are closed (`Overruns`), and one whose content goes beyond the file may
fault as well (`ReadsBeyond`). Bodies are those FunctionBody accepts.

**Opcodes** — the instructions that only take operands and give a result. An opcode
is its family, the *shape* of the code it emits (straight line, a `trap_if`, the
diamond of `emit_srem`), whether LLVM folds it on constants, and its typings:
operand types, result type and whether LLVM's verifier accepts the operation
(`ok`). The code calls `pop()` without a type for comparisons, binary operators and
sign extensions, so those have typings in every type both operands may have.
Opcodes of one shape and one typing are one opcode.

**FunctionBody** — `parse_section_code` and the end of the constructor. Variables
are the fields of `module` (`evalStack`, `cfEntries`, `blockEntries`,
`unreachableDepth`, `returnType`, `insertBlock` for the builder's position) and the
function built so far: `blocks` (type of the phi of each), `terminated`, `edges`,
`incoming`, `uses`. Blocks are numbers in creation order. One action per
instruction; each has a disjunct for the exception. `status` says how the
constructor ended: `accepted`, `invalid`, `malformed`, or `aborted` by an assertion.
Code that was found unreachable is `SkipBlock`, `SkipEnd`, `SkipOther`.
An opcode without operands pops nothing and so never finds the stack too short (`Pops`),
even where a call has taken operands from below its structure. Values are
abstracted to their type and the block that computes them (`NoBlock` for
constants). `FunctionVerifies` is what `LLVMVerifyModule` asks, as the code relies on
it: terminators, one phi value per edge, dominance.
Left out: parameters and locals (allocas at the entry), the bytes of
immediates (drawn from small sets, and `BadImmediate` for those out of range).

**BodyValidation** — what a translator promises. The typing rules of structured
instructions on a stack of frames, each with its own operands, written from the
WebAssembly rules and not from the code; both machines read the same instruction
in each step. `refusedAt` remembers the first rule the body broke. The promise covers
reachable code only: the code in `src/` reads unreachable code without checking
it, and `src/readme.md` says so.

**Leb128, IntegerCode, FloatCode** — the values. `Leb128` is `parse_uleb128` and
`parse_sleb128` byte by byte, with a shift by at least the width of its operand giving
any of the results shift instructions give. `IntegerCode` is the code emitted for shifts,
rotations, divisions and remainders over words as sets of bits; an instruction is the set
of words it may leave, none when it traps, all where LLVM leaves it undefined. `FloatCode`
is the code for min, max, rounding, square roots, the initialisers of globals and
truncations over floats as their three fields, with the quieting of NaNs in the places
where the code has it: not in `sqrt`, and not for an `f64` initialiser, which is passed as
the double it is, while an `f32` one is converted to a double and back. Each module ends
with what the standard asks, stated independently (a quotient by its defining inequality,
a minimum by comparison with both operands, an integer by the place of its bits). A word
means the number that has its bits (`Word`, `Unsigned`); `PowersOfTwo` has the powers both
need, as a recursive function that can be reasoned about. **Arithmetic** reads one immediate, or executes one instruction, and
compares.

**Linking** — how contexts get their imports. `Link` is the constructor up to the end of
the globals' initialisers, `Unlinkable` its refusal, `SetGlobal` a store by the code of a
context, `Destroy` the destructor. A module names what it imports and exports by
reference; `bound` is the address of each import (`mSymbols`), `containers` what `mem()` and
`tab()` return, `cells` what globals hold. `Constant` and `Hash` are the attributes from which
the code decides whether a global may change, which is not what modules declare: a global
loaded from another one is no LLVM constant. `Definition` follows an import through the
modules that pass it on, by declarations alone. Hashes are taken to be free of collisions,
and modules to be what the reader accepts (`WellFormed`): what they name exists, and they
have at most one memory and one table. Two imports may have the same module and field.

**Instantiation** — the constructor and destructor of contexts over one imported
table: `Link` (size and capacity checks), `Elements`, `Data`, `Start`, `Remap`,
`Destroy`; `Data`, `Start` and each address lookup of `Remap` may fail. `stored` is a
history variable: the element last stored in each slot. `pointers` holds null, a
bare index or an address, told apart as the code does, by comparing a value with the
number of functions. One constructor runs at a time: a host function called by a start
function that constructs another context over the same table is left out, and a module
has one section of elements.

**LinearMemory** — one mapping, its `size`, the pages `mprotect` has `opened`, the bytes
of *all* of it (`content`), the limits, and the contexts `linked` to it. `Link` is the
constructor up to the start function, `Unlink` the destructor; `Load`, `Store` and
`Grow` are requests of compiled code, `Brk` the driver's system call, `Reset` the
`spectest_reset` of the test suite (only in `ResetSpec`). Arithmetic has the width of
the program: with `Modulus` = `MaxPages * PageSize` standing for 2^32, indices are
signed (`Index`), the bound and the end of a segment wrap (`SegmentFits`), and so does the
size a host asks for. A segment has any size of 32 bits; where the file is shorter
(`held`), its bytes are any. A segment that passes the check because its end wrapped
`Overruns` the open pages: `Fault` is the constructor stopped by the first closed page, with
the segments before, and some bytes of this one, written. Where all pages are open there
is no closed page, and it goes on beyond the mapping ("outside"). `call` records the last
request and its answer.

**WasmMemory** — the promise of a memory: `pages`, `bytes` within them, accesses
served within the pages and trapped beyond, growth that shows zeros, segments
copied all or none, unless one is cut short by the file or ends where 32 bits do or later
(`MayStop`), and even then nothing written but where a segment lies. `LinearMemory`
implements it (`Promise`) with `pages <- size` and `bytes <-` the contents below `size`.
It stops at 2 GiB.

The components share no variables. They meet where one's result is another's constant or
outcome: Sections takes the bodies FunctionBody accepts; Instantiation and LinearMemory
take modules Sections accepts, with the failures of `wembed.start` as outcomes; Linking
decides which table and memory those two see.

## 3. The runs

| run | bounds | shows |
|---|---|---|
| `MCSections_files` | every choice of sections in the order of the standard (with 2 imports, a table of functions or not, segments of several sizes and offsets, one whose end wraps at 16), and a type section followed by any 3 of 28 sections or any 4 of 8: faulty, repeated, out of order, with a name longer than its section, a size that is not what the entries take, data beyond the section | `TypeOK`, `InStep`, `ImportsKeepNoBody`, `BodiesBelong`, `StartSeesAll`, `SegmentsAllOrNone`, `LateOffsetsRefused`, `Terminates` |
| `MCBodyValidation_control` | 3 structures deep, 6 blocks, 2 operands, one type, a call that gives a value, `drop` and `rem_s` | the graph: `OpenBlocks`, `PhiPerEdge`, `TerminatorsFinal`; the stacks: `FramesAligned`, `OnlyTopSkipped`; against the typing rules: `StacksAgree`, `OperandsDominate`, `ValidBodiesAccepted`, `IllTypedBodiesRefused` |
| `MCBodyValidation_types` | 2 structures deep, 4 blocks, 2 operands, br_table with a target, i32, i64, f32, every family of opcodes, memory, table, local, global | `TypeOK`, `FunctionEndsClean`, and the typing rules against operands of mixed types |
| `MCArithmetic_operands` | words of 4 bits; floats with 3 bits of exponent and 2 of mantissa; integers of up to 4 bytes, with 3 payload bits for 7, 5 bits for 32, 10 for 64 | `Decodes`, `IntegersExact`, `MinMaxExact`, `NansQuieted`, `TruncExact` |
| `MCLinking_relayed` | a context that defines, one that passes on, one that uses, each with several modules, and the host's exports | `ImportsHonoured`, `RelaysMayGo`, `RefusedForCause`, `ImmutableKept` |
| `MCInstantiation_table` | 3 contexts, 5 modules, table of 3 (maximum 4) | `TypeOK`, `SlotsBound`, `AddressesTyped`, `IndicesTransient` |
| `MCLinearMemory_shared` | 2 contexts (symmetric), 3 modules, 4 pages of 2 bytes, accesses of 1 and 2 bytes | `TypeOK`, `LinkedLimits`, `Zeroed`, `Promise` |
| `MCBodyValidation_calls`, `_else`, `MCInstantiation_indices`, `_start`, `MCLinearMemory_reset` | smaller or the same | the findings of section 5 |

Why these bounds are enough to be interesting. Depth 3 is a function, a structure in
it and a structure in that, which is where a branch crosses a frame and an inner
structure ends inside an outer one; an `if` needs three blocks beside the two of a
function, so 6 blocks give nested structures, loops with branches back,
and traps within a structure. Two operands are a value below and a value in the
frame. The families of an opcode matter only through typings, so one run has
all of them and the other has structures. `select` needs three operands, which
its run does not give it; its typings are those of a binary operator with a
condition. Any 3 sections after the types are enough
for imports after functions, two sections of functions, bodies before either, a name
section in the middle and segments without memory; the files in standard order are
those of real modules. The sizes of LEB128 keep what matters of 7, 32 and 64: the
last group overhangs the type, and shifts 6 and 9 of the long type stand for 35 to
63, where the shift of an int is undefined. The integer types truncated to have a lower
bound that is a float (`-5`), one whose neighbour is not (`-9`), and an unsigned one. Linking
through a relay is the shortest chain in which an address outlives the context that
gave it. Three contexts over a table are one that stored, one
that failed and one that comes after. Their modules have overlapping segments,
one that does not fit, declared sizes below, at and above the size of the table.
A page of 2 bytes holds an access that is aligned, one that crosses a page and one
that crosses the end; 4 pages put 2 GiB at address 4 and the wrap at 8; `Operands`
has sums below, at and beyond both. Of the three modules one has a maximum and segments at
the end of a page and beyond, one a segment whose offset and size add up to 9, which wraps
to 1 and passes the check of a memory of any size but 0 and 4 pages, and one a segment the
file cuts. In the files 16 is the wrap: a segment at 1 with 15 bytes ends at 0.

`MaxStack`, `MaxDepth`, `MaxBlocks` and `MaxTargets` bound the translator, in the guards
(`StackRoom`, `DepthLeft`, `Room`), `MaxBytes` the length of an immediate; a body beyond
them is not continued. No property is about a bound being reached. `CHECK_DEADLOCK
FALSE` because files and modules end (ready or refused), contexts are eventually all
destroyed and an instruction is executed once; the memory is not a process and may have
nothing to do.

Fairness: weak fairness of `Next` in Sections. Reading a file and running its
`wembed.start` is one call of one thread, which goes on until it returns or throws;
the start function is taken to return or trap. `Terminates` then says that no order of
sections keeps the reader, which ignores sizes, from the end. The other components
are called by a host, which may stop calling: nothing in them waits, and no liveness is
stated.

Each property of a passing run has a mutant in `PROJECT.json`: a definition replaced by a
plausible bug (written beside it, marked *Mutant*), under which TLC finds the
property violated.

## 4. The proofs

TLAPS checks all of these for every value of the constants that satisfies the
assumptions named in the modules: types of the constants; `PageSize` and `MaxPages`
positive; operands are words; a word has a power of two of bits; element segments name
declared functions; limits as the parser admits them; files made of sections of at least one byte
whose entries have a place and a size, which need not agree; a memory of no more than
2^32 bytes; modules whose references exist, with one memory and one table at most; a
host whose objects are its own; the fields of a float format; integer types of which the
two bounds the code compares with are floats. Every safety property a passing run checks
is a theorem.

Two kinds of argument need induction: what a recursive function of the models computes
(`StartOf`, `Meaning` and `Definition`, `ReachedWithout`, `Power`, `Raw` of LEB128) and
what holds of every position of a sequence. It is done on sets of numbers: `LeastExists`
takes the least element of a set from the well-foundedness of `<` (`WFMin`), and
`AllNaturals` concludes that a set with 0 and all successors is `Nat`. A recursive
function is a CHOOSE, so it has to be shown that a function with its equation exists
before the equation can be used: that is what lemmas such as `IteratesExist` and
`DoublesExist` are for.

* **FunctionBodyProofs** — `Invariance`, and from it `Typed`, `FramesAreAligned`,
  `OnlyTopIsSkipped`, `FunctionsEndClean`. It starts with the lemmas about opcodes:
  every opcode has one of the three shapes and typings over value types. The invariant
  is `TypeOK /\ FramesAligned /\ OnlyTopSkipped /\ FunctionEndsClean` strengthened by
  `Idle` (no control entry outside a body), `Outermost` (the outermost entry is the
  function, with its result type and `FuncEnd`, and starts at an empty operand stack)
  and `ElseOfIf` (an else block belongs to an `if`). `FunctionEndsClean` is not
  inductive without them: that the stack holds just the result at the last end follows
  from the outermost entry having been opened on an empty one. The second half is about
  the graph: `GraphInvariance`, `BlocksAreOpen`, `PhisAreComplete`,
  `TerminatorsAreFinal`. `Open` says which blocks wait for a terminator: exactly the
  ends and the elses of the structures and, in reachable code, the insertion block,
  which is none of them; and no two structures wait in the same block (`Distinct`).
  Without the last part an `end` could close a block another structure still needs.
  `Phis` says that edges and phi values stay within the blocks (`Within`), that the phi
  of an end and of a branch target has the type its structure promises (`EndsTyped`,
  `TargetsTyped`). These make `PhiPerEdge` inductive: an edge is added together with its
  value, from the insertion block, which has no edge yet because it is open.
* **BodyValidationProofs** — `StacksAreAgreed`, `IllTypedRefused`:
  a simulation of the frames of the typing rules by the stacks of the translator.
  `Agreement` says that the operands of frame *i* are the types on `evalStack` between
  the `outerStackSize` of control entry *i* and that of the next (`Agrees`, `Outer`),
  and that these sizes never decrease (`Nested`): an instruction then changes one frame
  only, and `end` gives back what its frame holds to the one below. It holds while no
  rule is broken. Two facts make it go through. `DeadEmpty`: an entry that cannot be
  reached has no operands, whatever was cut, so that the stacks still agree after a
  jump. `OpcodesDetermined`: the result of an opcode is determined by the types of its
  operands, so the translator, which finds its typing with `pop()`, finds the result of
  the rules. There is one lemma for each instruction (`EndFollows`, `BrIfFollows`,
  `ExecuteFollows`, ...), from its rule to the agreement after it and to a body that
  goes on; the second conclusion is what `ValidAccepted` below starts from.
  `IllTypedRefused` is the other direction, at the one step where the machines part: each instruction that breaks a
  rule throws, stops, or makes the function one that does not verify, unless it is one
  of the cases the property names (`Unenforced`: a call that takes its arguments from an
  outer structure, an `if` without its `else`, an operator on two operands of another
  type).
* **DominanceProofs** — `OperandsAreDominated`, `ValidAccepted`: LLVM accepts the code
  of a well typed body. Dominance quantifies over paths, which no step of the translator
  sees, so the invariant `DomInv` does without them: each value on the operand stack,
  and each use, has a `Region` around it, a set of blocks that no edge leaves but to the
  block of the definition, that has the entry, and that does not have the block of the
  use (`ReachedWithin`: what is reached without the definition is in it). A region must
  stay closed while code is appended: with a block that waits in a structure it has
  those of the structures around it, to which code in that block may still branch. It
  keeps clear of the insertion block and of the ends and elses of structures opened
  above the operand (`Apart`), after which the operand is still used. `Grown` says what
  a region becomes when blocks are added, and one lemma for each instruction shows that
  regions are kept (`RegionsKept`). For acceptance, `Whole` says that no edge falls
  through to a block that expects a value (`Unfallen`) and that all phis but the open
  ends have one (`Fed`); `FunctionVerifies` follows at the last end from these, from
  `PhiPerEdge` and `OpenBlocks`, and from `OperandsDominate`.
* **SectionsProofs** — `Invariance`, `Typed`, `ImportsHaveNoBody`, `OffsetInvariance`,
  `LateOffsetsAreRefused`. `ImportsBelow`: while no section of imports is being read,
  imported functions lie below the offset of the bodies, whichever section set it last;
  so no body reaches one. The second invariant follows the builder: it stands in
  "copies" exactly after a segment with content (`BuilderPlaced`), a check takes its
  offset from there only in a section with a late offset (`OnlyLate`), and every late
  offset that was read has left such a check (`LateEmitted`); both directions are needed
  to say exactly which modules LLVM refuses. `ReaderInStep`: while nothing was
  misread, the sections read are those before `cursor` and the reader stands at the place
  of the entry it is about to read (`OnTrack`, `StandsAt`, `Inside`), because the bytes it
  took for the entry before are those that entry has (`HandleSteps`, `DueInPlace`). What
  was misread stays so: tables are only added, so a table found not to be one of functions
  remains one (`TablesStay`, `MisreadStays`), and the reader never comes back to a section
  it has left (`Forward`). `BodiesFindTheirs`: in files in standard order the functions behind the
  offset are the declared ones (`Imports`) and those whose body was read have one body
  (`Filled`). `SegmentsLandTogether` and `StartComesLast` are about code that is emitted
  in one place and run in another, so they take two invariants. `EmitInv` says of the
  code, in the order it will run in, that a load of a global follows the store to it and
  a copy all checks of its section (`Follow`), also across the blocks that are still
  apart (`Pending`), and that every segment and global read has its instructions
  (`Stored`, `Complete`). `RunInv` says that what stands before `pc` is done (`Done`):
  cells have their meaning, checked segments pass in 32 bits (`Passes`), copied ones have
  landed within the memory. A check that fails then has no copy of its section before it,
  and the start function has everything before it.
* **LinkingProofs** — `Invariance`, `Honouring`, `RelaysAreSpared`, `RefusalsAreJust`,
  `ImmutablesAreKept`. `Honoured`: every import of a linked context is bound to its
  `Definition` and declared immutable if, and only if, that is, or mutable when that is
  loaded once (`Mutability`); a chain of relays is resolved one link at a time, each by
  a context that was linked before, so the step needs only the invariant of the exporter
  and the equation of `Definition` (`Origins`, where a chain leads, gives the function
  that satisfies it). `OwnContainers`: without an import of a memory or a table a
  context has its own. `Owned`: globals exist from the moment their context is linked,
  so linking changes none. `RefusalsAreJust` is an action property: what is refused has
  a `Cause`, where the mutability of a global is that of its definition.
* **ArithmeticProofs** — `MinMaxIsExact`, for every float format, and `NansAreQuieted`:
  the filter after add, sub, mul, div, demote and promote and `f32` initialisers set the
  quiet bit of a NaN and keep its sign and payload, the four roundings give the canonical
  NaN of its sign, and a signalling NaN comes only out of `sqrt` or an `f64` initialiser
  that holds one.
  `LebInvariance` and `ImmediatesDecode`: the bits read so far are those of the groups
  read so far (`LebInv`), where a bit belongs to one place of one group (`DivMod`,
  `Unique`). `TruncationsAreExact`: the magnitude of a float grows with its exponent and
  mantissa (`ScaledOrder`), so the bounds the code compares with, being floats, have no
  float between them and the integers they stand for (`Bounds`, `Between`).
  `IntegersAreExact`: words and numbers below a power of two correspond one to one
  (`BitsTell`, `BitsExist`, `UnsignedOf`, `UnsignedIs`, `SignedOf`, `SignedIs`);
  shifting the bits multiplies or divides by a power of two (`BitMul`, `BitDiv`,
  `BitMod`); masking a count by the width less one reduces it (`MaskIsModulo`, which is
  where the width must be a power of two); the two counts of a rotation add up to the
  width or are both 0 (`OtherCount`); and the quotient of two magnitudes with the sign
  put back is the one that rounds towards zero (`Truncated`).
* **InstantiationProofs** — `Invariance`, `Typed`, `SlotsAreBound`, `AddressesAreTyped`,
  `IndicesAreTransient`. The invariant adds `OneBuilding` (one context under
  construction), `StoredPending` (what the history says of a slot of a context still
  being built is in the table, as an index), `PointersStored` (nothing is in the table
  that no segment stored) and `AddressesKnown` (an address is one of a function of its
  module). The point of the argument: the next context may adopt an index that a failed
  context left, or a completed one beyond its declared size, but never one within the
  declared slots of a completed context, because what is there is an address.
* **LinearMemoryProofs** — `Invariance`, `Typed`, `BeyondIsZero`, `LimitsLast`, and
  `PromiseKept`, the refinement `Spec => Memory!Spec`. The invariant adds `AllOpen`
  (without resets the open pages are those within the size) and `CapacityFits` (size
  below capacity, capacity below the maximum of each linked context: capacity never
  changes, so limits that are checked once last). The 32 bit check alone does not keep a
  segment within the memory: `CheckedSegments` says that one that passes it lies within the
  size, or ends at 2^32 or later. The copy of the second kind reaches a closed page as long
  as there is one, so what it writes before it stops lies in the open pages
  (`CoveredIsOpen`), which are those within the size: that is why `Zeroed` holds, and why
  the promise keeps (`FaultPromise`).

Only model-checked: `Terminates`, because liveness under fairness is beyond the prover,
and the properties of the runs that expect a violation, which do not hold.

## 5. Findings

Each has a run that shows it.

1. `MCBodyValidation_calls`: `call` and `call_indirect` look for arguments on the whole
   operand stack and not above `mOuterStackSize` (`module.cpp:1471`), so a call in a block
   consumes operands of the structure around it. The body is ill typed and accepted.
2. `MCBodyValidation_else`: an `if` with a result and no `else` is accepted when its then
   branch never reaches the end: the empty phi is replaced by a zero (`module.cpp:1373`).
3. `MCInstantiation_indices`: indices stored beyond the size a module declares for its
   table, within the real one, are never replaced (`context.cpp:218`).
4. `MCInstantiation_start`: the start function runs before indices are replaced
   (`context.cpp:206`), so `call_indirect` in it traps on elements its own module stored.
5. `MCLinearMemory_reset`: a memory resized to fewer pages keeps what the pages given up
   held (`posix.cpp:23`), and shows it when it grows again; the test suite resets so.

Met while modelling and modelled as they are, without a document of the repository to
contradict; the properties say exactly which cases are affected:

* Reader: a name section with content is passed over twice (`module.cpp:419`); the
  elements of a segment over a table that is not one of functions are not read
  (`module.cpp:1026`; no handler refuses such a table), so the next entry or section is
  looked for in the middle of them; the payload sizes of known sections are ignored, also
  by the size of a data segment (`module.cpp:1095`), which may lead beyond its section or
  the file (all in `InStep`, as `Misread`); the index of a `get_global` initialiser
  is read as a signed number, so that 64 in one byte is refused (`module.cpp:698`), and the
  ones that extend a negative 64 bit constant of 5 to 9 bytes are shifted in an `int`
  (`module.hpp:194`), both in `Decodes`.
* Initialisers: a data segment whose offset is a `get_global`, after a segment with content,
  makes LLVM refuse the module (`module.cpp:1081`, `LateOffsetsRefused`); an `f32` initialiser
  that is a signalling NaN is quieted (`module.cpp:687`), an `f64` one keeps it
  (`module.cpp:693`), and `sqrt` has no filter for NaNs as the other unary operators have
  (`module.cpp:1803`; all in `NansQuieted`).
* Translator: operators that `pop()` without a type accept operands of another type when
  LLVM does (`Unenforced`).
* Linking: an immutable global loaded from another one is exported as mutable
  (`module.cpp:927`), `set_global` of an immutable global is not refused (`module.cpp:1588`,
  both in `ImmutableKept` and `RefusedForCause`); a memory or table imported under an empty
  module name is checked and then not used (`context.cpp:121`, `ImportsHonoured`).
* Table: an index a failed context left is adopted as its own by the next one when it is
  small enough; `table::capacity()` is one less than the maximum, and hosts' constructors
  leave flags uninitialised.
* Memory: addresses from 2 GiB up are taken below the base; the sum of a segment's offset
  and size wraps (`module.cpp:225`), so that a segment beyond the memory may pass the check
  and only the closed pages stop its copy, half way (`Zeroed`, `Promise`,
  `SegmentsAllOrNone`); at 65536 pages `trap_data_copy` lets in only segments whose end is
  0 in 32 bits, and a host's memory of that many initial pages has size 0; `brk` rounds
  down to whole pages and ignores the declared maximum.

## 6. Not modelled

* A context constructed by a host function that a start function calls, and a module with
  several sections of elements over a shared table (Instantiation; Sections has them).
* `uint8_t` immediates of LEB128 (`module.cpp:1593`, the reserved bytes of `memory.grow` and
  `memory.size`, which are read and ignored).
* The optimiser, dumps, profiling, the test generator and the demo: only calls to
  LLVM or output. The signal guard is a submodule without source in the tree; its
  effect, an exception out of compiled code, is an outcome of `Start` and of accesses.
* What the reader makes of bytes in the middle of a section, once it is out of step;
  names, beyond whether they are equal; collisions of type hashes.
* The rest of the driver: its other system calls forward to the host's, and `main` copies
  the arguments once. At 65536 pages its heap size wraps to 0 and the resize leaves the
  mapping: what happens depends on what the process has there, and `Brk` excludes
  it by a guard.
* The values of instructions that are one instruction of LLVM each.
* Lifetime of JIT code after a context is destroyed: hosts must outlive it
  (`Alive` in Linking).
