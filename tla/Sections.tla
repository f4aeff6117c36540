------------------------------ MODULE Sections ------------------------------
(***************************************************************************)
(* The binary reader (parse_sections and the handlers of the sections) and *)
(* the code of wembed.start it emits, run once by the constructor of a     *)
(* context.  A file is a sequence of sections as their declared sizes cut  *)
(* it, with every entry at its place: the reader compares no size with     *)
(* what it reads, so that the bytes each handler takes decide what it      *)
(* reads next.  Every iteration of the loop of a handler is one step.      *)
(* Function bodies are those FunctionBody accepts.                         *)
(***************************************************************************)
EXTENDS Integers, Sequences, FiniteSets

CONSTANTS
    Files,       \* the files read
    HostValue,   \* the value of every imported global
    TableSize,   \* elements of the table wembed.start fills
    MemoryBytes, \* bytes of the memory it fills
    Modulus      \* 2^32, where the ends of the segments wrap

\* A section is [kind, length, head, items]: the bytes of the whole section as
\* declared, those up to its first entry (identifier, size, count or name) and the
\* entries its handler loops over.  An entry is `at` so many bytes from the start
\* of the section and takes `bytes`, but for the vector of an element segment
\* (`vector`) and the content of a data segment (`size`), which follow them.
Kinds == {"custom", "name", "type", "import", "function", "table", "memory", "global",
          "export", "start", "element", "code", "data", "unknown"}

\* What the reader can find in a file: a list of sections, each of one byte at
\* least, with lists of entries.
IsSequence(s) == Len(s) \in Nat /\ DOMAIN s = 1 .. Len(s)
IsInit(init) == init.op = "const" => init.value \in Nat
IsEntry(kind, e) ==
    /\ e.at \in Nat /\ e.bytes \in Nat
    /\ kind = "type" /\ e.op = "type" => e.params \in Nat /\ e.results \in Nat
    /\ e.op = "table" => e.anyfunc \in BOOLEAN
    /\ kind = "global" => IsInit(e.init)
    /\ kind = "element" => e.vector \in Nat /\ IsSequence(e.functions) /\ IsInit(e.offset)
    /\ kind = "data" => e.size \in Nat /\ IsInit(e.offset)
ASSUME FilesAssumption ==
    \A f \in Files : IsSequence(f) /\ \A s \in DOMAIN f :
        /\ f[s].kind \in Kinds /\ f[s].length \in Nat \ {0} /\ f[s].head \in Nat \ {0}
        /\ IsSequence(f[s].items) /\ \A i \in DOMAIN f[s].items : IsEntry(f[s].kind, f[s].items[i])
        /\ f[s].kind = "custom" => f[s].items = <<>>
ASSUME BoundsAssumption ==
    /\ HostValue \in Nat /\ TableSize \in Nat
    /\ Modulus \in Nat \ {0} /\ MemoryBytes \in 0 .. Modulus

VARIABLES
    file, cursor,                                   \* the input and mCurrent
    section, item,                                  \* section being read (0: none), next entry
    seen,                                           \* history: the sections read
    result,                                         \* "reading", "running" or how it ended
    types, functions, importFuncOffset, tables, memories, globals, exports,
    builder, checks, copies, entry, user,           \* code emitted
    pc, cells, landed                               \* code run

readerVars == <<file, cursor, section, item, seen>>
moduleVars == <<types, functions, importFuncOffset, tables, memories, globals, exports>>
codeVars   == <<builder, checks, copies, entry, user>>
runVars    == <<pc, cells, landed>>
vars == <<readerVars, result, moduleVars, codeVars, runVars>>

-----------------------------------------------------------------------------
(* The file.                                                               *)

StartOf[s \in 1 .. Len(file) + 1] == IF s = 1 THEN 0 ELSE StartOf[s - 1] + file[s - 1].length
End == StartOf[Len(file) + 1]
Read == file[section]
Now == Read.items[item]

Reading == result = "reading"

\* parse_names goes on up to the end it computes from the declared size, the other
\* handlers for as many entries as the section counts.
More == IF Read.kind = "name" THEN cursor < StartOf[section] + Read.length ELSE item <= Len(Read.items)
InPlace == item \in DOMAIN Read.items /\ cursor = StartOf[section] + Now.at
InEntry == Reading /\ section # 0 /\ More /\ InPlace

\* A table is whether it is one of functions.
OfFunctions(t) == t \in DOMAIN tables /\ tables[t]

\* Mutant: the content of a data segment is copied and not passed over.
BytesReadNoContent ==
    Now.bytes + (IF Read.kind = "element" /\ OfFunctions(Now.table) THEN Now.vector ELSE 0)
\* The bytes an iteration takes: the vector of an element segment only when the
\* table is one of functions, the content of a data segment whatever its size.
BytesRead ==
    Now.bytes + (CASE Read.kind = "element" /\ OfFunctions(Now.table) -> Now.vector
                   [] Read.kind = "data" -> Now.size
                   [] OTHER -> 0)

\* Mutant: the bytes of the name are counted from the identifier of the section.
PassedFromStart(s) == IF s.kind \in {"custom", "name"} THEN s.length - s.head - 2 ELSE 0
\* The bytes passed over at the end: lInternalSize, what the declared size leaves
\* after the name, less than none when the name is longer.  parse_names has read
\* them already.
Passed(s) == IF s.kind \in {"custom", "name"} THEN s.length - s.head ELSE 0

\* parse_sections takes the next byte for the identifier of a section.  The
\* handlers that reset, note or require something do it here.
Enter ==
    /\ Reading /\ section = 0 /\ cursor < End
    /\ \E s \in DOMAIN file :
         /\ StartOf[s] = cursor
         /\ file[s].kind # "unknown"
         /\ file[s].kind = "data" => memories > 0
         /\ section' = s /\ item' = 1 /\ seen' = seen \cup {s}
         /\ cursor' = cursor + file[s].head
         /\ types' = IF file[s].kind = "type" THEN <<>> ELSE types
         /\ importFuncOffset' = IF file[s].kind = "function" THEN Len(functions) ELSE importFuncOffset
    /\ builder' = "checks" /\ checks' = <<>> /\ copies' = <<>>
    /\ UNCHANGED <<file, result, functions, tables, memories, globals, exports, entry, user, runVars>>

UnknownSection ==
    /\ Reading /\ section = 0
    /\ \E s \in DOMAIN file : StartOf[s] = cursor /\ file[s].kind = "unknown"
    /\ result' = "malformed"
    /\ UNCHANGED <<readerVars, moduleVars, codeVars, runVars>>

DataWithoutMemory ==
    /\ Reading /\ section = 0 /\ memories = 0
    /\ \E s \in DOMAIN file : StartOf[s] = cursor /\ file[s].kind = "data"
    /\ result' = "invalid"
    /\ UNCHANGED <<readerVars, moduleVars, codeVars, runVars>>

\* The next byte is not the first of a section or of the entry the handler goes on
\* with: what the reader makes of the bytes there is not modelled.
Astray ==
    /\ Reading
    /\ \/ section = 0 /\ cursor < End /\ \A s \in DOMAIN file : StartOf[s] # cursor
       \/ section # 0 /\ More /\ ~InPlace
    /\ result' = "astray"
    /\ UNCHANGED <<readerVars, moduleVars, codeVars, runVars>>

\* A handler returns: the calls of the function it emitted go to the end of
\* the entry block of wembed.start.
Leave ==
    /\ Reading /\ section # 0 /\ ~More
    /\ cursor' = cursor + Passed(Read)
    /\ section' = 0 /\ item' = 0
    /\ entry' = entry \o checks \o copies
    /\ importFuncOffset' = IF Read.kind = "import" THEN Len(functions) ELSE importFuncOffset
    /\ checks' = <<>> /\ copies' = <<>> /\ builder' = "entry"
    /\ UNCHANGED <<file, seen, result, types, functions, tables, memories, globals, exports, user, runVars>>

-----------------------------------------------------------------------------
(* The entries of the sections.  Indices count from 1.                     *)

\* parse_llvm_init: a constant, or any global read so far, of the type wanted.
InitFails(init, type) ==
    CASE init.op = "const" -> init.type # type
      [] init.op = "get"   -> ~(init.global \in DOMAIN globals /\ globals[init.global].type = type)
      [] OTHER             -> TRUE

\* Mutant: a second table is not refused.
SecondTable(e) == ~e.fits
MultipleMemories(e) == memories > 0 \/ ~e.fits
MultipleTables(e) == tables # <<>> \/ ~e.fits

ImportFails(e) ==
    CASE e.op = "function" -> e.type \notin DOMAIN types
      [] e.op = "table"    -> MultipleTables(e)
      [] e.op = "memory"   -> MultipleMemories(e)
      [] OTHER             -> FALSE

\* The index spaces an export names, as they are when it is read.
Exported(kind) ==
    CASE kind = "function" -> DOMAIN functions
      [] kind = "global"   -> DOMAIN globals
      [] kind = "table"    -> DOMAIN tables
      [] kind = "memory"   -> 1 .. memories
ExportFails(e) ==
    \/ \E x \in exports : x.name = e.name
    \/ e.op = "export" /\ e.index \notin Exported(e.kind)

StartFails(e) ==
    ~ /\ e.function \in DOMAIN functions
      /\ functions[e.function].type = [params |-> 0, results |-> 0]

\* The indices are read, and so checked, for a table of functions only.
ElementFails(e) ==
    \/ e.table \notin DOMAIN tables
    \/ InitFails(e.offset, "i32")
    \/ OfFunctions(e.table) /\ \E i \in DOMAIN e.functions : e.functions[i] \notin DOMAIN functions

DataFails(e) == e.memory # 1 \/ InitFails(e.offset, "i32")

Fails(e) ==
    CASE Read.kind = "type"     -> e.results > 1
      [] Read.kind = "import"   -> ImportFails(e)
      [] Read.kind = "function" -> e.type \notin DOMAIN types
      [] Read.kind = "table"    -> MultipleTables(e)
      [] Read.kind = "memory"   -> MultipleMemories(e)
      [] Read.kind = "global"   -> InitFails(e.init, e.type)
      [] Read.kind = "export"   -> ExportFails(e)
      [] Read.kind = "start"    -> StartFails(e)
      [] Read.kind = "element"  -> ElementFails(e)
      [] Read.kind = "code"     -> importFuncOffset + item \notin DOMAIN functions
      [] Read.kind = "data"     -> DataFails(e)
      [] Read.kind = "name"     -> \E i \in DOMAIN e.functions : e.functions[i] \notin DOMAIN functions
      [] OTHER                  -> FALSE

Throw ==
    /\ InEntry /\ Fails(Now)
    /\ result' = "invalid"
    /\ UNCHANGED <<readerVars, moduleVars, codeVars, runVars>>

\* A value type or a kind the reader does not know.
Undecodable ==
    /\ InEntry /\ Now.op = "unknown" /\ ~Fails(Now)
    /\ result' = IF Read.kind = "export" THEN "error" ELSE "malformed"
    /\ UNCHANGED <<readerVars, moduleVars, codeVars, runVars>>

Handle(kind, op) ==
    /\ InEntry /\ Read.kind = kind /\ Now.op = op /\ ~Fails(Now)
    /\ item' = item + 1 /\ cursor' = cursor + BytesRead
    /\ UNCHANGED <<file, section, seen, result, runVars>>

Type ==
    /\ Handle("type", "type")
    /\ types' = Append(types, [params |-> Now.params, results |-> Now.results])
    /\ UNCHANGED <<functions, importFuncOffset, tables, memories, globals, exports, codeVars>>

AddFunction(imported) ==
    /\ functions' = Append(functions, [type |-> types[Now.type], imported |-> imported, bodies |-> 0])
    /\ UNCHANGED <<types, importFuncOffset, tables, memories, globals, exports, codeVars>>
ImportFunction == Handle("import", "function") /\ AddFunction(TRUE)
Function == Handle("function", "function") /\ AddFunction(FALSE)

\* Tables of any element type are let in.
AddTable ==
    /\ tables' = Append(tables, Now.anyfunc)
    /\ UNCHANGED <<types, functions, importFuncOffset, memories, globals, exports, codeVars>>
ImportTable == Handle("import", "table") /\ AddTable
Table == Handle("table", "table") /\ AddTable

AddMemory ==
    /\ memories' = memories + 1
    /\ UNCHANGED <<types, functions, importFuncOffset, tables, globals, exports, codeVars>>
ImportMemory == Handle("import", "memory") /\ AddMemory
Memory == Handle("memory", "memory") /\ AddMemory

\* A global that is loaded from another one cannot be a constant of LLVM: it
\* is zero until wembed.start.globals stores it.
AddGlobal(init) ==
    globals' = Append(globals, [type |-> Now.type, init |-> init,
                                constant |-> ~Now.mutable /\ init.op # "get"])
ImportGlobal ==
    /\ Handle("import", "global")
    /\ AddGlobal([op |-> "host"])
    /\ UNCHANGED <<types, functions, importFuncOffset, tables, memories, exports, codeVars>>

Instr(op, target, init, at, length) ==
    [op |-> op, section |-> section, target |-> target, init |-> init, at |-> at, length |-> length]

Global ==
    /\ Handle("global", "global")
    /\ AddGlobal(Now.init)
    /\ copies' = IF Now.init.op = "get"
                 THEN Append(copies, Instr("store", Len(globals) + 1, Now.init, builder, 0)) ELSE copies
    /\ UNCHANGED <<types, functions, importFuncOffset, tables, memories, exports, builder, checks, entry, user>>

Export ==
    /\ Handle("export", "export")
    /\ exports' = exports \cup {[name |-> Now.name, kind |-> Now.kind, index |-> Now.index]}
    /\ UNCHANGED <<types, functions, importFuncOffset, tables, memories, globals, codeVars>>

\* Mutant: the start function is called where the init functions are.
StartInEntry ==
    /\ Handle("start", "start")
    /\ entry' = Append(entry, Instr("call", Now.function, [op |-> "none"], "callStart", 0))
    /\ UNCHANGED <<moduleVars, builder, checks, copies, user>>
\* The start function is called in the block after those of the segments.
Start ==
    /\ Handle("start", "start")
    /\ user' = Append(user, Instr("call", Now.function, [op |-> "none"], "callStart", 0))
    /\ UNCHANGED <<moduleVars, builder, checks, copies, entry>>

\* The offset is computed again in each block it is used in.
Element ==
    /\ Handle("element", "segment")
    /\ LET length == IF OfFunctions(Now.table) THEN Len(Now.functions) ELSE 0
       IN  /\ checks' = Append(checks, Instr("check", item, Now.offset, "checks", length))
           /\ copies' = IF length > 0 THEN Append(copies, Instr("copy", item, Now.offset, "copies", length))
                        ELSE copies
    /\ UNCHANGED <<moduleVars, builder, entry, user>>

\* Mutant: a segment is copied as soon as it is checked.
DataCopiedAtOnce ==
    /\ Handle("data", "segment")
    /\ checks' = checks \o <<Instr("check", item, Now.offset, "checks", Now.size),
                            Instr("copy", item, Now.offset, "checks", Now.size)>>
    /\ UNCHANGED <<moduleVars, builder, copies, entry, user>>
\* Mutant: an empty segment leaves the builder in copies as well.
DataLeavesCopies ==
    /\ Handle("data", "segment")
    /\ checks' = Append(checks, Instr("check", item, Now.offset, builder, Now.size))
    /\ copies' = Append(copies, Instr("copy", item, Now.offset, builder, Now.size))
    /\ builder' = "copies"
    /\ UNCHANGED <<moduleVars, entry, user>>
\* The offset is computed once, where the previous segment left the builder.
Data ==
    /\ Handle("data", "segment")
    /\ checks' = Append(checks, Instr("check", item, Now.offset, builder, Now.size))
    /\ IF Now.size > 0
       THEN /\ copies' = Append(copies, Instr("copy", item, Now.offset, builder, Now.size))
            /\ builder' = "copies"
       ELSE builder' = "checks" /\ UNCHANGED copies
    /\ UNCHANGED <<moduleVars, entry, user>>

\* Mutant: the bodies are counted from the first function.
CodeFromFirst ==
    /\ Handle("code", "body")
    /\ functions' = [functions EXCEPT ![item].bodies = @ + 1]
    /\ UNCHANGED <<types, importFuncOffset, tables, memories, globals, exports, codeVars>>
Code ==
    /\ Handle("code", "body")
    /\ functions' = [functions EXCEPT ![importFuncOffset + item].bodies = @ + 1]
    /\ UNCHANGED <<types, importFuncOffset, tables, memories, globals, exports, codeVars>>

\* A subsection with the functions it names, if any; no name decides anything here.
Name == Handle("name", "name") /\ UNCHANGED <<moduleVars, codeVars>>

-----------------------------------------------------------------------------
(* The module is verified and wembed.start runs.                           *)

\* LLVMVerifyModule: a value loaded in copies does not dominate the checks.
Verifies ==
    \A i \in DOMAIN entry : entry[i].op = "check" /\ entry[i].init.op = "get" => entry[i].at = "checks"

\* What a global holds before wembed.start.
Initial(g) ==
    CASE globals[g].init.op = "const" -> globals[g].init.value
      [] globals[g].init.op = "host"  -> HostValue
      [] OTHER                        -> 0

Finish ==
    /\ Reading /\ section = 0 /\ cursor >= End
    /\ result' = IF Verifies THEN "running" ELSE "refused"
    /\ cells' = [g \in DOMAIN globals |-> Initial(g)]
    /\ UNCHANGED <<readerVars, moduleVars, codeVars, pc, landed>>

Program == entry \o user
Instruction == Program[pc]
Running(op) == result = "running" /\ pc \in DOMAIN Program /\ Instruction.op = op
Value(init) == IF init.op = "const" THEN init.value ELSE cells[init.global]

Store ==
    /\ Running("store")
    /\ cells' = [cells EXCEPT ![Instruction.target] = Value(Instruction.init)]
    /\ pc' = pc + 1
    /\ UNCHANGED <<result, landed>>

\* trap_data_copy takes the offset as signed and its sum with the size on 32 bits.
Passes(s, offset, length) ==
    IF file[s].kind = "element" THEN offset + length <= TableSize
    ELSE offset < Modulus \div 2 /\ (offset + length) % Modulus <= MemoryBytes % Modulus

Check ==
    /\ Running("check")
    /\ IF Passes(Instruction.section, Value(Instruction.init), Instruction.length) THEN pc' = pc + 1 /\ UNCHANGED result
       ELSE result' = "unlinkable" /\ UNCHANGED pc
    /\ UNCHANGED <<cells, landed>>

\* The memcpy of a data segment writes beyond the memory or reads beyond the file.
Overruns(i) == file[i.section].kind = "data" /\ Value(i.init) + i.length > MemoryBytes
ReadsBeyond(i) ==
    /\ file[i.section].kind = "data"
    /\ LET e == file[i.section].items[i.target]
       IN  StartOf[i.section] + e.at + e.bytes + i.length > End

\* Beyond the memory are closed pages, beyond the file whatever is mapped there.
Copy ==
    /\ Running("copy")
    /\ \/ /\ ~Overruns(Instruction)
          /\ landed' = Append(landed, [section |-> Instruction.section, segment |-> Instruction.target,
                                       offset |-> Value(Instruction.init)])
          /\ pc' = pc + 1 /\ UNCHANGED result
       \/ /\ Overruns(Instruction) \/ ReadsBeyond(Instruction)
          /\ result' = "trapped" /\ UNCHANGED <<pc, landed>>
    /\ UNCHANGED cells

\* The start function returns or traps.
Call ==
    /\ Running("call")
    /\ \/ pc' = pc + 1 /\ UNCHANGED result
       \/ result' = "trapped" /\ UNCHANGED pc
    /\ UNCHANGED <<cells, landed>>

Return ==
    /\ result = "running" /\ pc = Len(Program) + 1
    /\ result' = "ready"
    /\ UNCHANGED runVars

Init ==
    /\ file \in Files
    /\ cursor = 0 /\ section = 0 /\ item = 0 /\ seen = {}
    /\ result = "reading"
    /\ types = <<>> /\ functions = <<>> /\ importFuncOffset = 0
    /\ tables = <<>> /\ memories = 0 /\ globals = <<>> /\ exports = {}
    /\ builder = "entry" /\ checks = <<>> /\ copies = <<>> /\ entry = <<>> /\ user = <<>>
    /\ pc = 1 /\ cells = <<>> /\ landed = <<>>

ReadSection == Enter \/ UnknownSection \/ DataWithoutMemory \/ Astray \/ Leave \/ Throw \/ Undecodable
ReadEntry ==
    \/ Type \/ ImportFunction \/ ImportGlobal \/ ImportTable \/ ImportMemory \/ Function \/ Table
    \/ Memory \/ Global \/ Export \/ Start \/ Element \/ Code \/ Data \/ Name
Execute ==
    /\ Store \/ Check \/ Copy \/ Call \/ Return
    /\ UNCHANGED <<readerVars, moduleVars, codeVars>>

Next == ReadSection \/ ReadEntry \/ Finish \/ Execute

\* Reading and running are one call of one thread, which goes on until it
\* returns or throws.
Spec == Init /\ [][Next]_vars /\ WF_vars(Next)

-----------------------------------------------------------------------------
(* Safety.                                                                 *)

Results == {"reading", "malformed", "invalid", "error", "astray", "refused",
            "running", "unlinkable", "trapped", "ready"}

TypeOK ==
    /\ cursor \in Nat /\ result \in Results
    /\ section \in DOMAIN file \cup {0} /\ item \in Nat
    /\ importFuncOffset \in 0 .. Len(functions)
    /\ \A f \in DOMAIN functions : functions[f].imported \in BOOLEAN /\ functions[f].bodies \in Nat
    /\ tables \in {<<>>, <<TRUE>>, <<FALSE>>} /\ memories \in {0, 1}
    /\ pc \in Nat

\* Where the encoding puts what follows an entry, and a section that is encoded as
\* its size and the places of its entries say.
Content(s, i) ==
    CASE file[s].kind = "element" -> file[s].items[i].vector
      [] file[s].kind = "data"    -> file[s].items[i].size
      [] OTHER                    -> 0
After(s, i) == IF i = 0 THEN file[s].head ELSE file[s].items[i].at + file[s].items[i].bytes + Content(s, i)
WellLaid(s) ==
    /\ \A i \in DOMAIN file[s].items : file[s].items[i].at = After(s, i - 1)
    /\ file[s].length = After(s, Len(file[s].items))

\* The reader loses its place for three reasons only: the content of a name section
\* is passed over twice, the vector of a segment of a table that is not one of
\* functions is not read, and a section whose size or whose data is not what it
\* declares is followed all the same.
Misread(s) ==
    CASE file[s].kind = "custom"  -> FALSE
      [] file[s].kind = "name"    -> file[s].length > file[s].head
      [] file[s].kind = "element" -> ~WellLaid(s) \/ \E i \in DOMAIN file[s].items :
                                          LET t == file[s].items[i].table
                                          IN  t \in DOMAIN tables /\ ~tables[t]
      [] OTHER                    -> ~WellLaid(s)

\* The reader stands at the first byte of a section after every section, and at its
\* next entry within one, and has read the sections before it once each and in
\* order, although it compares no size: custom sections of any kind included, those
\* whose name is longer than they are among them (module.cpp:390-395).
InStep ==
    \/ \E s \in seen : Misread(s)
    \/ /\ result # "astray"
       /\ seen = 1 .. Cardinality(seen)
       /\ IF section = 0 THEN cursor = StartOf[Cardinality(seen) + 1] ELSE More => InPlace

\* Whatever the order and the number of the sections, no body goes to an
\* imported function (module.cpp:857, 862, 1136).
ImportsKeepNoBody == \A f \in DOMAIN functions : functions[f].imported => functions[f].bodies = 0

\* In an accepted file in the order of the standard the n-th body is that of
\* the n-th function the file declares, and of no other.
Place(kind) ==
    CASE kind = "type" -> 1 [] kind = "import" -> 2 [] kind = "function" -> 3 [] kind = "table" -> 4
      [] kind = "memory" -> 5 [] kind = "global" -> 6 [] kind = "export" -> 7 [] kind = "start" -> 8
      [] kind = "element" -> 9 [] kind = "code" -> 10 [] kind = "data" -> 11 [] OTHER -> 0
InStandardOrder ==
    \A s, t \in DOMAIN file :
        s < t /\ Place(file[s].kind) > 0 /\ Place(file[t].kind) > 0 =>
            Place(file[s].kind) < Place(file[t].kind)
Declared == {f \in DOMAIN functions : ~functions[f].imported}
Entries(kind) == UNION {DOMAIN file[s].items : s \in {t \in DOMAIN file : file[t].kind = kind}}
Accepted == result \in {"running", "unlinkable", "trapped", "ready"}
BodiesBelong ==
    Accepted /\ InStandardOrder /\ seen = DOMAIN file =>
        \A f \in Declared :
            LET nth == f - (Len(functions) - Cardinality(Declared))
            IN  functions[f].bodies = IF nth \in Entries("code") THEN 1 ELSE 0

\* What each global is to hold once the program is set up.
Meaning[g \in DOMAIN globals] ==
    IF globals[g].init.op = "get" THEN Meaning[globals[g].init.global]
    ELSE IF globals[g].init.op = "host" THEN HostValue ELSE globals[g].init.value
Target(init) == IF init.op = "const" THEN init.value ELSE Meaning[init.global]
Segments(s) == IF file[s].kind \in {"element", "data"} THEN DOMAIN file[s].items ELSE {}
Size(s, i) ==
    CASE file[s].kind = "data" -> file[s].items[i].size
      [] file[s].kind = "element" /\ OfFunctions(file[s].items[i].table) -> Len(file[s].items[i].functions)
      [] OTHER -> 0

\* The start function runs once every global holds the value its initialiser
\* means and every segment lies at the offset it means, wherever the start
\* section stands in the file.
StartSeesAll ==
    Running("call") \/ result = "ready" =>
        /\ \A g \in DOMAIN globals : cells[g] = Meaning[g]
        /\ \A s \in seen : \A i \in Segments(s) : Size(s, i) > 0 =>
             \E l \in DOMAIN landed :
                 landed[l] = [section |-> s, segment |-> i, offset |-> Target(file[s].items[i].offset)]

\* A segment lands only when all segments of its section fit, at the values their
\* offsets mean, but for those of data whose end wraps: the sections of segments are
\* copied whole or not at all, unless the memory itself stops a copy.
FitsIn(s, offset, length) ==
    IF file[s].kind = "element" THEN offset + length <= TableSize
    ELSE offset + length <= MemoryBytes \/ offset + length >= Modulus
SegmentsAllOrNone ==
    \A l \in DOMAIN landed :
        LET s == landed[l].section
        IN  \A i \in Segments(s) : FitsIn(s, Target(file[s].items[i].offset), Size(s, i))

\* The module is refused after reading for one reason only: an offset taken
\* from a global, right after a segment with content.
LateOffset(s) ==
    /\ file[s].kind = "data"
    /\ \E i \in DOMAIN file[s].items \ {1} :
         file[s].items[i].offset.op = "get" /\ file[s].items[i - 1].size > 0
LateOffsetsRefused ==
    /\ result = "refused" => \E s \in seen : LateOffset(s)
    /\ Accepted => \A s \in seen : ~LateOffset(s)

(* Liveness.                                                               *)

\* Reading a file and running its wembed.start comes to an end, with any sections in
\* any order: a custom section whose name is longer than it is takes the reader
\* back, but never to where it has been.
Terminates == <>(result \notin {"reading", "running"})
=============================================================================
