------------------------------ MODULE Linking ------------------------------
(***************************************************************************)
(* How contexts are linked: the constructor (context.cpp) resolves every   *)
(* import of its module to an address some resolver gives, by name, kind   *)
(* and type hash; get_export hands out what the module exports, which may  *)
(* be what it imported.  Globals are the data contexts share: whether one  *)
(* may be stored to is decided from the attributes of LLVM globals, not    *)
(* from what the modules declare.                                          *)
(*                                                                         *)
(* The limits of memories and tables are in LinearMemory and Instantiation,*)
(* the order of the sections in Sections.  Type hashes do not collide.     *)
(***************************************************************************)
EXTENDS Naturals, Sequences

CONSTANTS
    Contexts,     \* the contexts, by the name the host's resolvers give them
    ProgramsOf,   \* the modules each may instantiate, a module object each
    HostExports,  \* what the host exposes: [field -> [pointer, kind, type, constant]]
    Values        \* values of globals

(***************************************************************************)
(* A module: its imports, what it defines itself, its exports and the      *)
(* globals its functions store to.  A reference is <<"import", n>> or      *)
(* <<"own", n>>; the only memory or table, when it is no import, is        *)
(* <<"own", 1>>.                                                           *)
(*   imports   : Seq([from, field, kind, type, mutable])                   *)
(*   functions : Seq(type)            globals : Seq([type, mutable, init]) *)
(*   exports   : Seq([name, kind, of])                                     *)
(*   sets      : references of globals                                     *)
(***************************************************************************)
HostName == "host"
Nameless == ""
HostNames == {HostName, Nameless}
Containers == {"memory", "table"}

ASSUME NamesAssumption == Contexts \cap HostNames = {}

Kinds == {"function", "global"} \cup Containers

\* The exports and stores of a module name what it has, the reader refuses
\* other indices, and it has one memory and one table at most, imported or its
\* own.  Its globals are initialised with a constant or another global.
OwnIndices(p, kind) ==
    CASE kind = "function" -> DOMAIN p.functions
      [] kind = "global"   -> DOMAIN p.globals
      [] OTHER             -> {1}
Has(p, kind, ref) ==
    \/ ref[1] = "import" /\ ref[2] \in DOMAIN p.imports /\ p.imports[ref[2]].kind = kind
    \/ /\ ref[1] = "own" /\ ref[2] \in OwnIndices(p, kind)
       /\ kind \in Containers => \A i \in DOMAIN p.imports : p.imports[i].kind # kind
WellFormed(p) ==
    /\ \A ref \in p.sets : Has(p, "global", ref)
    /\ \A e \in DOMAIN p.exports : Has(p, p.exports[e].kind, p.exports[e].of)
    /\ \A i \in DOMAIN p.imports : p.imports[i].kind \in Kinds /\ p.imports[i].mutable \in BOOLEAN
    /\ \A i, j \in DOMAIN p.imports :
         p.imports[i].kind = p.imports[j].kind /\ p.imports[i].kind \in Containers => i = j
    /\ \A n \in DOMAIN p.globals :
         p.globals[n].mutable \in BOOLEAN /\ p.globals[n].init.op \in {"const", "get"}
ASSUME ProgramsAssumption == \A c \in Contexts : \A p \in ProgramsOf[c] : WellFormed(p)

\* The host exposes its own objects, each global as constant or not.
ASSUME HostAssumption ==
    \A f \in DOMAIN HostExports :
        /\ HostExports[f].pointer.owner \notin Contexts
        /\ HostExports[f].pointer.kind = HostExports[f].kind
        /\ HostExports[f].constant \in BOOLEAN
        /\ \A g \in DOMAIN HostExports :
             HostExports[g].pointer = HostExports[f].pointer =>
                 HostExports[g].constant = HostExports[f].constant

\* What an address is the address of.
Pointer(owner, kind, n) == [owner |-> owner, kind |-> kind, n |-> n]
Null == Pointer("", "null", 0)

VARIABLES
    phase,      \* "absent", "ready", "failed" or "destroyed"
    program,    \* the module each context instantiates
    bound,      \* mSymbols: the address of each import
    containers, \* mem() and tab()
    cells       \* what every global holds: [addresses -> Values]

vars == <<phase, program, bound, containers, cells>>

Globals(c) == {Pointer(c, "global", n) : n \in DOMAIN program[c].globals}

-----------------------------------------------------------------------------
(* Attributes and hashes.                                                  *)

\* LLVMIsGlobalConstant of a global of a module: an immutable global that
\* wembed.start.globals has to store is no constant.
Constant(c, ref) ==
    LET p == program[c]
    IN  IF ref[1] = "import" THEN ~p.imports[ref[2]].mutable
        ELSE ~p.globals[ref[2]].mutable /\ p.globals[ref[2]].init.op = "const"

TypeOf(c, kind, ref) ==
    LET p == program[c]
    IN  IF ref[1] = "import" THEN p.imports[ref[2]].type
        ELSE CASE kind = "function" -> p.functions[ref[2]]
               [] kind = "global"   -> p.globals[ref[2]].type
               [] OTHER             -> kind

\* Mutant: the hash of a global does not tell a constant.
HashWithoutConstant(kind, type, constant) == [kind |-> kind, type |-> type, constant |-> FALSE]
\* hash_type, hash_fn_type, WEMBED_HASH_TABLE and WEMBED_HASH_MEMORY: only the
\* hash of a global tells whether it is constant.
Hash(kind, type, constant) == [kind |-> kind, type |-> type, constant |-> kind = "global" /\ constant]
\* Mutant: the mutability of an import is taken for its constancy.
ImportHashOfMutable(i) == Hash(i.kind, i.type, i.mutable)
ImportHash(i) == Hash(i.kind, i.type, ~i.mutable)

\* Mutant: a memory or table is the one the context would make.
AddressOfOwn(c, kind, ref) ==
    IF kind \notin Containers /\ ref[1] = "import" THEN bound[c][ref[2]] ELSE Pointer(c, kind, 1)
\* The address of what a reference names, in a context that is linked.
AddressOf(c, kind, ref) ==
    IF kind \in Containers THEN containers[c][kind]
    ELSE IF ref[1] = "import" THEN bound[c][ref[2]]
    ELSE Pointer(c, kind, ref[2])

\* context::get_export
NoExport == [pointer |-> Null, hash |-> Hash("global", "none", FALSE)]
Named(c, name) == {e \in DOMAIN program[c].exports : program[c].exports[e].name = name}
ExportOf(c, name) == program[c].exports[CHOOSE e \in Named(c, name) : TRUE]
GetExport(c, name) ==
    LET e == ExportOf(c, name)
    IN  IF Named(c, name) = {} THEN NoExport
        ELSE [pointer |-> AddressOf(c, e.kind, e.of),
              hash |-> Hash(e.kind, TypeOf(c, e.kind, e.of), e.kind = "global" /\ Constant(c, e.of))]

\* The host's resolvers: its own exports under two names, one of them empty,
\* and those of the contexts it has.
HasResolver(from) == from \in HostNames \/ (from \in Contexts /\ phase[from] = "ready")
Resolve(i) ==
    IF i.from \in HostNames
    THEN IF i.field \in DOMAIN HostExports
         THEN LET x == HostExports[i.field]
              IN  [pointer |-> x.pointer, hash |-> Hash(x.kind, x.type, x.constant)]
         ELSE NoExport
    ELSE GetExport(i.from, i.field)

Matches(i) ==
    /\ HasResolver(i.from)
    /\ Resolve(i).pointer # Null
    /\ Resolve(i).hash = ImportHash(i)

-----------------------------------------------------------------------------
(* The constructor.                                                        *)

\* The imports of a kind that decide mem() and tab(): parse_imports keeps the
\* names of the only one, and an empty module name reads as no import.
ContainerImports(c, kind) ==
    {i \in DOMAIN program[c].imports :
       program[c].imports[i].kind = kind /\ program[c].imports[i].from # Nameless}
\* Mutant: the memory or table is made although it is imported.
ContainerMade(c, kind) == Pointer(c, kind, 1)
Container(c, kind) ==
    IF ContainerImports(c, kind) # {}
    THEN Resolve(program[c].imports[CHOOSE i \in ContainerImports(c, kind) : TRUE]).pointer
    ELSE Pointer(c, kind, 1)

\* The value of a global after wembed.start.globals; one it loads was linked
\* or comes earlier in the module.
Initialised(c, addresses) ==
    LET p == program[c]
        value[n \in DOMAIN p.globals] ==
            LET init == p.globals[n].init
            IN  CASE init.op = "const" -> init.value
                  [] init.op = "get" /\ init.of[1] = "import" -> cells[addresses[init.of[2]]]
                  [] OTHER -> value[init.of[2]]
    IN  value

\* Code reads and writes only what still exists: the host keeps the contexts
\* whose globals and functions are in use.
Alive(pointer) == pointer.owner \in Contexts => phase[pointer.owner] = "ready"

Link(c) ==
    LET p == program[c]
        addresses == [i \in DOMAIN p.imports |-> Resolve(p.imports[i]).pointer]
        value == Initialised(c, addresses)
    IN  /\ phase[c] = "absent"
        /\ \A i \in DOMAIN p.imports : Matches(p.imports[i]) /\ Alive(addresses[i])
        /\ phase' = [phase EXCEPT ![c] = "ready"]
        /\ bound' = [bound EXCEPT ![c] = addresses]
        /\ containers' = [containers EXCEPT ![c] = [k \in Containers |-> Container(c, k)]]
        /\ cells' = [x \in DOMAIN cells \cup Globals(c) |->
                       IF x \in Globals(c) THEN value[x.n] ELSE cells[x]]
        /\ UNCHANGED program

Unlinkable(c) ==
    /\ phase[c] = "absent"
    /\ \E i \in DOMAIN program[c].imports : ~Matches(program[c].imports[i])
    /\ phase' = [phase EXCEPT ![c] = "failed"]
    /\ UNCHANGED <<program, bound, containers, cells>>

\* set_global emits a store, whatever the global.  A store to a constant is
\* undefined in LLVM: the page may be protected, or the cell may change.
SetGlobal(c) ==
    /\ phase[c] = "ready"
    /\ \E ref \in program[c].sets, v \in Values :
         LET cell == AddressOf(c, "global", ref)
             written == [cells EXCEPT ![cell] = v]
         IN  /\ Alive(cell)
             /\ IF Constant(c, ref) THEN cells' \in {cells, written} ELSE cells' = written
    /\ UNCHANGED <<phase, program, bound, containers>>

\* The destructor; the addresses others have been given stay with them.
Destroy(c) ==
    /\ phase[c] = "ready"
    /\ phase' = [phase EXCEPT ![c] = "destroyed"]
    /\ UNCHANGED <<program, bound, containers, cells>>

HostGlobals == {HostExports[f].pointer : f \in {g \in DOMAIN HostExports : HostExports[g].kind = "global"}}

Init ==
    /\ phase = [c \in Contexts |-> "absent"]
    /\ program \in {f \in [Contexts -> UNION {ProgramsOf[c] : c \in Contexts}] :
                       \A c \in Contexts : f[c] \in ProgramsOf[c]}
    /\ bound = [c \in Contexts |-> <<>>]
    /\ containers = [c \in Contexts |-> [k \in Containers |-> Null]]
    /\ cells = [x \in HostGlobals |-> CHOOSE v \in Values : TRUE]

Step(c) == Link(c) \/ Unlinkable(c) \/ SetGlobal(c) \/ Destroy(c)

Next == \E c \in Contexts : Step(c)

Spec == Init /\ [][Next]_vars

-----------------------------------------------------------------------------
(* What the modules declare.                                               *)

\* What an import stands for: the host's object, or what the exporting module
\* defines or imports itself.  A memory or table imported under the empty name
\* is the importer's own.
Imported == UNION {{c} \X DOMAIN program[c].imports : c \in Contexts}
ImportOf(x) == program[x[1]].imports[x[2]]
OwnContainer(i) == i.from = Nameless /\ i.kind \in Containers
PassedOn(i) == <<i.from, ExportOf(i.from, i.field).of[2]>>
IsPassedOn(i) ==
    /\ i.from \notin HostNames
    /\ ExportOf(i.from, i.field).of[1] = "import" /\ PassedOn(i) \in Imported
Origin(x) ==
    LET i == ImportOf(x)
    IN  CASE OwnContainer(i) -> Pointer(x[1], i.kind, 1)
          [] i.from \in HostNames /\ ~OwnContainer(i) -> HostExports[i.field].pointer
          [] OTHER -> Pointer(i.from, i.kind, ExportOf(i.from, i.field).of[2])
Definition[x \in Imported] ==
    IF IsPassedOn(ImportOf(x)) THEN Definition[PassedOn(ImportOf(x))] ELSE Origin(x)

\* A global of a module, as the module declares it.
Declared(pointer) == program[pointer.owner].globals[pointer.n]
OfModule(pointer) == pointer.kind = "global" /\ pointer.owner \in Contexts
\* Immutable, but stored once by the code of the module.
Loaded(pointer) ==
    OfModule(pointer) /\ ~Declared(pointer).mutable /\ Declared(pointer).init.op = "get"
HostConstant(pointer) ==
    \E f \in DOMAIN HostExports : HostExports[f].pointer = pointer /\ HostExports[f].constant
Immutable(pointer) ==
    pointer.kind = "global" /\
    IF OfModule(pointer) THEN ~Declared(pointer).mutable ELSE HostConstant(pointer)

\* What a context was given for an import.
Given(c, i) ==
    LET kind == program[c].imports[i].kind
    IN  IF kind \in Containers THEN containers[c][kind] ELSE bound[c][i]
Linked(c) == phase[c] \in {"ready", "destroyed"}

-----------------------------------------------------------------------------
(* Safety.                                                                 *)

\* Every import is bound to what it stands for, through any number of modules
\* that only pass it on, and with the mutability its definition declares; an
\* immutable global loaded from another one is the only kind of global that
\* can be imported as mutable.
ImportsHonoured ==
    \A c \in Contexts : Linked(c) =>
        \A i \in DOMAIN program[c].imports :
            LET import == program[c].imports[i]
                definition == Definition[<<c, i>>]
            IN  /\ Given(c, i) = definition
                /\ definition.kind = import.kind
                /\ import.kind = "global" =>
                     import.mutable = ~Immutable(definition) \/ (import.mutable /\ Loaded(definition))

\* The destruction of a context that only passes on what another one defines
\* leaves its importers whole: every address a context was given is alive as
\* long as the contexts that define its imports are.
RelaysMayGo ==
    \A c \in Contexts : phase[c] = "ready" =>
        \A i \in DOMAIN program[c].imports :
            Alive(Definition[<<c, i>>]) => Alive(Given(c, i))

\* A context is refused only for an import nobody provides, or that declares
\* it otherwise than its definition does, or an immutable global that is
\* loaded from another one, which is exported as mutable.
RefusedForCause ==
    [][\A c \in Contexts :
         phase[c] = "absent" /\ phase'[c] = "failed" =>
           \E i \in DOMAIN program[c].imports :
             LET import == program[c].imports[i]
             IN  \/ ~HasResolver(import.from)
                 \/ Resolve(import).pointer = Null
                 \/ Resolve(import).hash.kind # import.kind
                 \/ Resolve(import).hash.type # import.type
                 \/ /\ import.kind = "global"
                    /\ \/ Immutable(Definition[<<c, i>>]) = import.mutable
                       \/ Loaded(Definition[<<c, i>>])]_vars

\* No module changes a global that its definition declares immutable, unless
\* the module stores to one it declares immutable itself, which nothing
\* refuses, or the definition loads it from another global.
DeclaredImmutable(c, ref) ==
    IF ref[1] = "import" THEN ~program[c].imports[ref[2]].mutable
    ELSE ~program[c].globals[ref[2]].mutable
KeepsImmutable ==
    \A x \in DOMAIN cells :
        Immutable(x) /\ cells'[x] # cells[x] =>
            \/ Loaded(x)
            \/ \E c \in Contexts : \E ref \in program[c].sets :
                 phase[c] = "ready" /\ AddressOf(c, "global", ref) = x /\ DeclaredImmutable(c, ref)
ImmutableKept == [][KeepsImmutable]_vars
=============================================================================
