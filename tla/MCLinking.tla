----------------------------- MODULE MCLinking -----------------------------
(* Three contexts: one that defines globals, a function and a memory, one   *)
(* that imports some of them and passes them on, and one that imports from  *)
(* either, with the right or the wrong declaration.                         *)
EXTENDS Linking

Import(from, field, kind, type, mutable) ==
    [from |-> from, field |-> field, kind |-> kind, type |-> type, mutable |-> mutable]
Const(n) == [op |-> "const", value |-> n]
Get(of) == [op |-> "get", of |-> of]
GlobalOf(mutable, init) == [type |-> "i32", mutable |-> mutable, init |-> init]
Exporting(name, kind, of) == [name |-> name, kind |-> kind, of |-> of]
Module(imports, functions, globals, exports, sets) ==
    [imports |-> imports, functions |-> functions, globals |-> globals, exports |-> exports, sets |-> sets]

OfHost(n, kind, type, constant) ==
    [pointer |-> Pointer("host", kind, n), kind |-> kind, type |-> type, constant |-> constant]
SpecTest ==
    [glob |-> OfHost(1, "global", "i32", FALSE), cglob |-> OfHost(2, "global", "i32", TRUE),
     print |-> OfHost(1, "function", "v_v", FALSE), mem |-> OfHost(1, "memory", "memory", FALSE)]

\* Globals: a constant, a variable and an immutable copy of the host's.
Definer(sets) ==
    Module(<<Import("host", "cglob", "global", "i32", FALSE)>>, <<"v_v">>,
           <<GlobalOf(FALSE, Const(1)), GlobalOf(TRUE, Const(0)), GlobalOf(FALSE, Get(<<"import", 1>>))>>,
           <<Exporting("const", "global", <<"own", 1>>), Exporting("var", "global", <<"own", 2>>),
             Exporting("copy", "global", <<"own", 3>>), Exporting("host", "global", <<"import", 1>>),
             Exporting("f", "function", <<"own", 1>>), Exporting("mem", "memory", <<"own", 1>>)>>, sets)
Definers == {Definer(sets) : sets \in {{}, {<<"own", 1>>}, {<<"own", 2>>}, {<<"own", 3>>}}}

\* The second import is that of a memory, when there is one.
Memories == {Import("a", "mem", "memory", "memory", FALSE), Import("", "mem", "memory", "memory", FALSE)}
Relay(first, memory) ==
    Module(<<first, memory>>, <<>>, <<GlobalOf(TRUE, Get(<<"import", 1>>))>>,
           <<Exporting("it", first.kind, <<"import", 1>>), Exporting("mem", "memory", <<"import", 2>>),
             Exporting("copy", "global", <<"own", 1>>)>>, {})
Relays ==
    {Relay(Import("a", field, "global", "i32", mutable), memory) :
       field \in {"const", "var", "copy", "host"}, mutable \in BOOLEAN, memory \in Memories}

User(first, second) == Module(<<first, second>>, <<>>, <<>>, <<>>, {<<"import", 1>>})
Users ==
    {User(Import(from, field, "global", type, mutable), second) :
       from \in {"a", "b"}, field \in {"it", "copy"}, type \in {"i32", "i64"}, mutable \in BOOLEAN,
       second \in {Import("b", "mem", "memory", "memory", FALSE), Import("a", "f", "function", "v_v", FALSE),
                   Import("host", "print", "function", "i_v", FALSE), Import("a", "mem", "function", "v_v", FALSE)}}

Three == {"a", "b", "c"}
SomePrograms == [c \in Three |-> CASE c = "a" -> Definers [] c = "b" -> Relays [] OTHER -> Users]
=============================================================================
