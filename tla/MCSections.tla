----------------------------- MODULE MCSections -----------------------------
(* Files made of a few sections of every kind, with the bytes they take:    *)
(* modules in the order of the standard, every choice of their sections,    *)
(* and short files in any order, with sections whose sizes are not what     *)
(* they declare.                                                           *)
EXTENDS Sections, TLC

\* A section as it is encoded: every entry right after the one before.
S(kind, head, items) ==
    LET Taken(e) == e.bytes + (CASE kind = "element" -> e.vector [] kind = "data" -> e.size [] OTHER -> 0)
        At[i \in 1 .. Len(items) + 1] == IF i = 1 THEN head ELSE At[i - 1] + Taken(items[i - 1])
    IN  [kind |-> kind, head |-> head, length |-> At[Len(items) + 1],
         items |-> [i \in DOMAIN items |-> items[i] @@ [at |-> At[i]]]]
Declaring(s, bytes) == [s EXCEPT !.length = bytes]

Const(n) == [op |-> "const", type |-> "i32", value |-> n]
Get(g) == [op |-> "get", global |-> g]
Segment(offset, indices) ==
    [op |-> "segment", table |-> 1, offset |-> offset, functions |-> indices, bytes |-> 4, vector |-> 1 + Len(indices)]
Bytes(offset, size) == [op |-> "segment", memory |-> 1, offset |-> offset, size |-> size, bytes |-> 5]
GlobalOf(type, mutable, init) == [op |-> "global", type |-> type, mutable |-> mutable, init |-> init, bytes |-> 5]
ExportOf(name, kind, index) == [op |-> "export", name |-> name, kind |-> kind, index |-> index, bytes |-> 4]
TypeOf(params, results) == [op |-> "type", params |-> params, results |-> results, bytes |-> 3 + params + results]
FunctionOf(type) == [op |-> "function", type |-> type, bytes |-> 1]
TableOf(anyfunc) == [op |-> "table", fits |-> TRUE, anyfunc |-> anyfunc, bytes |-> 3]
MemoryOf(fits) == [op |-> "memory", fits |-> fits, bytes |-> 2]
Body == [op |-> "body", bytes |-> 3]

TypeSection == S("type", 3, <<TypeOf(0, 0), TypeOf(1, 1)>>)
ImportSection ==
    S("import", 3, <<[op |-> "function", type |-> 1, bytes |-> 7],
                     [op |-> "global", type |-> "i32", mutable |-> FALSE, bytes |-> 8]>>)
FunctionSection == S("function", 3, <<FunctionOf(1), FunctionOf(2)>>)
OneFunction == S("function", 3, <<FunctionOf(1)>>)
TableSection(anyfunc) == S("table", 3, <<TableOf(anyfunc)>>)
MemorySection == S("memory", 3, <<MemoryOf(TRUE)>>)
GlobalSection == S("global", 3, <<GlobalOf("i32", FALSE, Const(1)), GlobalOf("i32", FALSE, Get(1))>>)
ExportSection == S("export", 3, <<ExportOf("f", "function", 2), ExportOf("g", "global", 1)>>)
StartSection(f) == S("start", 2, <<[op |-> "start", function |-> f, bytes |-> 1]>>)
ElementSection ==
    S("element", 3, <<Segment(Const(0), <<1>>), Segment(Get(1), <<1, 2>>), Segment(Const(2), <<>>)>>)
OneSegment == S("element", 3, <<Segment(Const(1), <<1>>)>>)
CodeSection == S("code", 3, <<Body, Body>>)
OneBody == S("code", 3, <<Body>>)
DataSection(first, second) == S("data", 3, <<first, second>>)
\* Its bytes reach as far as a start section after it.
DataBeyond == LET s == S("data", 3, <<Bytes(Const(0), 3)>>) IN Declaring(s, s.length - 3)
Subsection(indices) == [op |-> "name", functions |-> indices, bytes |-> 6]
Names(subsections) == S("name", 7, subsections)
Custom(length, head) == [kind |-> "custom", length |-> length, head |-> head, items |-> <<>>]

Choice(sections) == {<<>>} \cup {<<s>> : s \in sections}
DataSections ==
    {DataSection(Bytes(Get(1), 2), Bytes(Const(1), 0)), DataSection(Bytes(Const(0), 0), Bytes(Get(1), 1)),
     DataSection(Bytes(Const(0), 1), Bytes(Get(1), 1)), DataSection(Bytes(Const(0), 2), Bytes(Const(3), 3)),
     DataSection(Bytes(Const(0), 1), Bytes(Const(1), Modulus - 1)), DataSection(Bytes(Const(0), 1), Bytes(Const(9), 0))}
Standard ==
    {<<TypeSection>> \o i \o f \o <<t, MemorySection>> \o g \o s \o e \o c \o d :
        i \in Choice({ImportSection}), f \in Choice({FunctionSection, OneFunction}),
        t \in {TableSection(TRUE), TableSection(FALSE)}, g \in Choice({GlobalSection}),
        s \in Choice({StartSection(1)}), e \in Choice({ElementSection}),
        c \in Choice({CodeSection, OneBody}), d \in Choice(DataSections)}

Faulty ==
    {S("type", 3, <<TypeOf(1, 2)>>), S("type", 3, <<[op |-> "unknown", results |-> 1, bytes |-> 4]>>),
     S("import", 3, <<MemoryOf(FALSE)>>), S("export", 3, <<[op |-> "unknown", name |-> "x", bytes |-> 3]>>),
     S("export", 3, <<ExportOf("m", "memory", 1), ExportOf("m", "table", 1)>>), S("unknown", 2, <<>>),
     S("global", 3, <<GlobalOf("i64", TRUE, [op |-> "other"])>>)}
Plain ==
    {ImportSection, FunctionSection, MemorySection, GlobalSection, CodeSection, StartSection(1),
     DataSection(Bytes(Const(0), 2), Bytes(Const(3), 1)), Names(<<Subsection(<<1>>)>>)}
Every ==
    Plain \cup Faulty \cup
    {TypeSection, TableSection(TRUE), TableSection(FALSE), ExportSection, StartSection(2), ElementSection, OneSegment,
     DataBeyond, Names(<<>>), Custom(6, 3), Custom(2, 4), Declaring(OneFunction, 5),
     S("import", 3, <<MemoryOf(TRUE), TableOf(TRUE)>>)}
Unordered ==
    {<<TypeSection>> \o t : t \in [1 .. 3 -> Every] \cup [1 .. 4 -> Plain]}

SomeFiles == Standard \cup Unordered
=============================================================================
