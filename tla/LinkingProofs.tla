--------------------------- MODULE LinkingProofs ---------------------------
(***************************************************************************)
(* Theorems about linking, for any contexts, modules and host.             *)
(***************************************************************************)
EXTENDS Linking, TLAPS

-----------------------------------------------------------------------------
(* What an import stands for.                                              *)

\* The imports that pass an import on, up to one that does not.
Relays(x) == IsPassedOn(ImportOf(x))
Trail(x, n, p) ==
    /\ p[0] = x
    /\ \A k \in 0 .. n - 1 : Relays(p[k]) /\ p[k + 1] = PassedOn(ImportOf(p[k]))
Origins(x) ==
    {z \in Imported : ~Relays(z) /\ \E n \in Nat : \E p \in [0 .. n -> Imported] : Trail(x, n, p) /\ p[n] = z}

\* The origin of an import is that of the one it passes on.
LEMMA OriginPassed ==
    ASSUME NEW x \in Imported, Relays(x), NEW y, y = PassedOn(ImportOf(x))
    PROVE  y \in Imported /\ Origins(x) = Origins(y)
PROOF
  <1>1. y \in Imported
    BY DEF Relays, IsPassedOn
  <1>2. ASSUME NEW z \in Origins(x) PROVE z \in Origins(y)
    <2>0. PICK n \in Nat : \E p \in [0 .. n -> Imported] : Trail(x, n, p) /\ p[n] = z
      BY <1>2 DEF Origins
    <2>1. PICK p \in [0 .. n -> Imported] : Trail(x, n, p) /\ p[n] = z
      BY <2>0
    <2>2. z \in Imported /\ ~Relays(z)
      BY <1>2 DEF Origins
    <2>3. n # 0
      BY <2>1, <2>2 DEF Trail
    <2>4. PICK m \in Nat : n = m + 1
      <3>1. n - 1 \in Nat /\ n = (n - 1) + 1
        BY <2>3
      <3> QED
        BY <3>1
    <2>5. PICK q \in [0 .. m -> Imported] : \A k \in 0 .. m : q[k] = p[k + 1]
      <3> DEFINE q == [k \in 0 .. m |-> p[k + 1]]
      <3>1. \A k \in 0 .. m : k + 1 \in 0 .. n
        BY <2>4
      <3>2. q \in [0 .. m -> Imported] /\ \A k \in 0 .. m : q[k] = p[k + 1]
        BY <3>1
      <3> QED
        BY <3>2
    <2>6. Trail(y, m, q)
      <3>1. q[0] = y
        BY <2>1, <2>4, <2>5 DEF Trail
      <3>2. ASSUME NEW k \in 0 .. m - 1
            PROVE  Relays(q[k]) /\ q[k + 1] = PassedOn(ImportOf(q[k]))
        <4>1. k \in 0 .. m /\ k + 1 \in 0 .. m /\ k + 1 \in 0 .. n - 1
          BY <2>4
        <4>2. q[k] = p[k + 1] /\ q[k + 1] = p[(k + 1) + 1]
          BY <2>5, <4>1
        <4> QED
          BY <2>1, <4>1, <4>2 DEF Trail
      <3> QED
        BY <3>1, <3>2 DEF Trail
    <2>7. q[m] = z
      BY <2>1, <2>4, <2>5
    <2> QED
      BY <2>2, <2>6, <2>7 DEF Origins
  <1>3. ASSUME NEW z \in Origins(y) PROVE z \in Origins(x)
    <2>0. PICK n \in Nat : \E p \in [0 .. n -> Imported] : Trail(y, n, p) /\ p[n] = z
      BY <1>3 DEF Origins
    <2>1. PICK p \in [0 .. n -> Imported] : Trail(y, n, p) /\ p[n] = z
      BY <2>0
    <2>2. z \in Imported /\ ~Relays(z)
      BY <1>3 DEF Origins
    <2>3. PICK q \in [0 .. n + 1 -> Imported] : q[0] = x /\ \A k \in 0 .. n : q[k + 1] = p[k]
      <3> DEFINE q == [k \in 0 .. n + 1 |-> IF k = 0 THEN x ELSE p[k - 1]]
      <3>1. \A k \in 0 .. n + 1 : k # 0 => k - 1 \in 0 .. n
        OBVIOUS
      <3>2. \A k \in 0 .. n : k + 1 \in 0 .. n + 1 /\ k + 1 # 0 /\ (k + 1) - 1 = k
        OBVIOUS
      <3>3. q \in [0 .. n + 1 -> Imported]
        BY <3>1
      <3>4. q[0] = x /\ \A k \in 0 .. n : q[k + 1] = p[k]
        BY <3>2
      <3> QED
        BY <3>3, <3>4
    <2>4. Trail(x, n + 1, q)
      <3>1. ASSUME NEW k \in 0 .. (n + 1) - 1
            PROVE  Relays(q[k]) /\ q[k + 1] = PassedOn(ImportOf(q[k]))
        <4>1. CASE k = 0
          BY <2>1, <2>3, <4>1 DEF Trail
        <4>2. CASE k # 0
          <5>1. PICK j \in 0 .. n - 1 : k = j + 1
            <6>1. k - 1 \in 0 .. n - 1 /\ k = (k - 1) + 1
              BY <4>2
            <6> QED
              BY <6>1
          <5>2. q[k] = p[j] /\ q[k + 1] = p[j + 1]
            BY <2>3, <5>1
          <5> QED
            BY <2>1, <5>1, <5>2 DEF Trail
        <4> QED
          BY <4>1, <4>2
      <3> QED
        BY <2>3, <3>1 DEF Trail
    <2>5. q[n + 1] = z /\ n + 1 \in Nat
      BY <2>1, <2>3
    <2> QED
      BY <2>2, <2>4, <2>5 DEF Origins
  <1> QED
    BY <1>1, <1>2, <1>3

\* An import that is not passed on is its own origin.
LEMMA OriginFound ==
    ASSUME NEW x \in Imported, ~Relays(x)
    PROVE  Origins(x) = {x}
PROOF
  <1>1. ASSUME NEW z \in Origins(x) PROVE z = x
    <2>0. PICK n \in Nat : \E p \in [0 .. n -> Imported] : Trail(x, n, p) /\ p[n] = z
      BY <1>1 DEF Origins
    <2>1. PICK p \in [0 .. n -> Imported] : Trail(x, n, p) /\ p[n] = z
      BY <2>0
    <2>2. n = 0
      BY <2>1 DEF Trail
    <2> QED
      BY <2>1, <2>2 DEF Trail
  <1>2. x \in Origins(x)
    <2>1. PICK p \in [0 .. 0 -> Imported] : p[0] = x
      <3>1. [k \in 0 .. 0 |-> x] \in [0 .. 0 -> Imported] /\ [k \in 0 .. 0 |-> x][0] = x
        OBVIOUS
      <3> QED
        BY <3>1
    <2>2. Trail(x, 0, p)
      BY <2>1 DEF Trail
    <2> QED
      BY <2>1, <2>2 DEF Origins
  <1> QED
    BY <1>1, <1>2

\* Definition follows the imports that are passed on, whatever the modules are.
LEMMA DefinitionOf ==
    ASSUME NEW x \in Imported
    PROVE  Definition[x] = IF Relays(x) THEN Definition[PassedOn(ImportOf(x))] ELSE Origin(x)
PROOF
  <1> DEFINE body(f, y) == IF IsPassedOn(ImportOf(y)) THEN f[PassedOn(ImportOf(y))] ELSE Origin(y)
             follows(f) == f = [y \in Imported |-> body(f, y)]
             found == [y \in Imported |-> Origin(CHOOSE z \in Origins(y) : TRUE)]
  <1>1. \A f : \A y : body(f, y) = IF Relays(y) THEN f[PassedOn(ImportOf(y))] ELSE Origin(y)
    BY DEF Relays
  <1>2. follows(found)
    <2> HIDE DEF body
    <2>1. ASSUME NEW y \in Imported PROVE found[y] = body(found, y)
      <3>1. CASE Relays(y)
        <4>1. PICK z \in Imported : z = PassedOn(ImportOf(y)) /\ Origins(y) = Origins(z)
          BY <3>1, OriginPassed
        <4>2. found[y] = found[z]
          BY <4>1
        <4> QED
          BY <1>1, <3>1, <4>1, <4>2
      <3>2. CASE ~Relays(y)
        <4>1. Origins(y) = {y}
          BY <3>2, OriginFound
        <4>2. found[y] = Origin(y)
          BY <4>1
        <4> QED
          BY <1>1, <3>2, <4>2
      <3> QED
        BY <3>1, <3>2
    <2> QED
      BY <2>1
  <1>3. Definition = CHOOSE f : follows(f)
    BY Zenon DEF Definition
  <1>4. follows(Definition)
    <2> HIDE DEF follows, found
    <2> QED
      BY <1>2, <1>3
  <1> QED
    BY <1>1, <1>4

-----------------------------------------------------------------------------
(* What a linked context was given.                                        *)

\* The type of an import leaves this open: the global it declares mutable is
\* mutable, or is stored once by the code of its module; the one it declares
\* immutable is immutable.
Writable(x) == Immutable(x) => Loaded(x)
Mutability(i, x) == i.kind = "global" => IF i.mutable THEN Writable(x) ELSE Immutable(x)

\* Every import of a context is what it stands for.
Honoured(c) ==
    \A i \in DOMAIN program[c].imports : \A x \in {Definition[<<c, i>>]} :
        /\ Given(c, i) = x
        /\ x.kind = program[c].imports[i].kind
        /\ Mutability(program[c].imports[i], x)

\* A context that imports no memory or table has its own.
OwnContainers(c) ==
    \A k \in Containers :
        (\A i \in DOMAIN program[c].imports : program[c].imports[i].kind # k) =>
            containers[c][k] = Pointer(c, k, 1)

\* The globals of a context come into being when it is linked.
Owned == \A x \in DOMAIN cells : x.owner \in Contexts => Linked(x.owner)

Phases == {"absent", "ready", "failed", "destroyed"}
IInv ==
    /\ phase \in [Contexts -> Phases]
    /\ \A c \in Contexts : program[c] \in ProgramsOf[c]
    /\ DOMAIN bound = Contexts /\ DOMAIN containers = Contexts
    /\ Owned
    /\ \A c \in Contexts : Linked(c) => Honoured(c) /\ OwnContainers(c)

-----------------------------------------------------------------------------
(* What is exported.                                                       *)

\* The modules of the contexts are well formed, and they do not change.
LEMMA Programs ==
    ASSUME IInv, NEW c \in Contexts
    PROVE  WellFormed(program[c])
BY ProgramsAssumption DEF IInv

\* What the modules declare, and what their imports stand for, does not change.
LEMMA DeclarationsStay ==
    ASSUME UNCHANGED program
    PROVE  /\ Definition' = Definition
           /\ \A x : Writable(x)' <=> Writable(x)
           /\ \A x : Immutable(x)' <=> Immutable(x)
PROOF
  <1>1. Definition' = Definition
    BY SMT DEF Definition, Imported, ImportOf, Origin, PassedOn, IsPassedOn, OwnContainer, ExportOf, Named
  <1>2. \A x : (Writable(x)' <=> Writable(x)) /\ (Immutable(x)' <=> Immutable(x))
    BY DEF Writable, Immutable, Loaded, OfModule, Declared
  <1> QED
    BY <1>1, <1>2

\* What get_export finds is one of the exports.
LEMMA Exported ==
    ASSUME NEW d, NEW name, GetExport(d, name).pointer # Null
    PROVE  \E e \in DOMAIN program[d].exports :
             /\ program[d].exports[e] = ExportOf(d, name)
             /\ GetExport(d, name) =
                  [pointer |-> AddressOf(d, ExportOf(d, name).kind, ExportOf(d, name).of),
                   hash |-> Hash(ExportOf(d, name).kind,
                                 TypeOf(d, ExportOf(d, name).kind, ExportOf(d, name).of),
                                 ExportOf(d, name).kind = "global" /\ Constant(d, ExportOf(d, name).of))]
PROOF
  <1>1. Named(d, name) # {}
    <2>1. NoExport.pointer = Null
      BY DEF NoExport
    <2>2. Named(d, name) = {} => GetExport(d, name) = NoExport
      BY DEF GetExport
    <2> QED
      BY <2>1, <2>2
  <1>2. PICK at : at = (CHOOSE e \in Named(d, name) : TRUE) /\ at \in Named(d, name)
    BY <1>1
  <1>3. at \in DOMAIN program[d].exports /\ program[d].exports[at] = ExportOf(d, name)
    BY <1>2 DEF Named, ExportOf
  <1> QED
    BY <1>1, <1>3 DEF GetExport

\* The constancy an export is hashed with tells whether it may be stored to.
Constancy(x, constant) == IF constant THEN Immutable(x) ELSE Writable(x)

\* A global of the host.
LEMMA HostConstancy ==
    ASSUME NEW f \in DOMAIN HostExports, HostExports[f].kind = "global"
    PROVE  Constancy(HostExports[f].pointer, HostExports[f].constant)
BY HostAssumption DEF Constancy, Writable, Immutable, OfModule, HostConstant

\* A global of a module.
LEMMA OwnConstancy ==
    ASSUME IInv, NEW d \in Contexts, NEW n \in DOMAIN program[d].globals,
           NEW ref, ref[1] = "own", ref[2] = n
    PROVE  Constancy(Pointer(d, "global", n), Constant(d, ref))
PROOF
  <1> DEFINE x == Pointer(d, "global", n)
             g == program[d].globals[n]
  <1>1. g.init.op \in {"const", "get"} /\ g.mutable \in BOOLEAN
    BY Programs DEF WellFormed
  <1>2. OfModule(x) /\ Declared(x) = g /\ x.kind = "global"
    BY DEF OfModule, Declared, Pointer
  <1>3. Constant(d, ref) <=> ~g.mutable /\ g.init.op = "const"
    BY DEF Constant
  <1> HIDE DEF x
  <1>4. (Immutable(x) <=> ~g.mutable) /\ (Loaded(x) <=> ~g.mutable /\ g.init.op = "get")
    BY <1>2 DEF Immutable, Loaded
  <1>5. Constant(d, ref) => Immutable(x)
    BY <1>3, <1>4
  <1>6. ~Constant(d, ref) => Writable(x)
    BY <1>1, <1>3, <1>4 DEF Writable
  <1>7. Constancy(x, Constant(d, ref))
    BY <1>5, <1>6 DEF Constancy
  <1> QED
    BY <1>7 DEF x

\* A global a linked module imports.
LEMMA PassedConstancy ==
    ASSUME IInv, NEW d \in Contexts, Linked(d), NEW n \in DOMAIN program[d].imports,
           program[d].imports[n].kind = "global", NEW ref, ref[1] = "import", ref[2] = n
    PROVE  Constancy(Definition[<<d, n>>], Constant(d, ref))
PROOF
  <1>1. Mutability(program[d].imports[n], Definition[<<d, n>>])
    BY DEF IInv, Honoured
  <1>2. Constant(d, ref) <=> ~program[d].imports[n].mutable
    BY DEF Constant
  <1> QED
    BY <1>1, <1>2 DEF Mutability, Constancy

\* What a context resolves is what the import stands for, and its hash tells
\* the constancy.
LEMMA Provided ==
    ASSUME IInv, NEW c \in Contexts, NEW n \in DOMAIN program[c].imports,
           NEW i, i = program[c].imports[n], ~OwnContainer(i),
           HasResolver(i.from), Resolve(i).pointer # Null, Resolve(i).hash.kind = i.kind
    PROVE  /\ Resolve(i).pointer = Definition[<<c, n>>]
           /\ Definition[<<c, n>>].kind = i.kind
           /\ i.kind = "global" =>
                \E constant \in BOOLEAN :
                  /\ Resolve(i).hash = Hash(i.kind, Resolve(i).hash.type, constant)
                  /\ Constancy(Definition[<<c, n>>], constant)
PROOF
  <1> PICK at : at = <<c, n>>
    OBVIOUS
  <1>1. at = <<c, n>> /\ at[1] = c /\ at[2] = n
    OBVIOUS
  <1>2. at \in Imported /\ ImportOf(at) = i
    BY <1>1 DEF Imported, ImportOf
  <1>3. CASE i.from \in HostNames
    <2>1. i.field \in DOMAIN HostExports
      BY <1>3 DEF Resolve, NoExport
    <2> DEFINE x == HostExports[i.field]
    <2>2. Resolve(i).pointer = x.pointer /\ Resolve(i).hash = Hash(x.kind, x.type, x.constant)
      BY <1>3, <2>1 DEF Resolve
    <2>3. x.kind = i.kind /\ Resolve(i).hash.type = x.type
      BY <2>2, SMTT(30) DEF Hash
    <2>4. x.constant \in BOOLEAN /\ x.pointer.kind = x.kind
      BY <2>1, HostAssumption
    <2>5. Definition[at] = x.pointer
      <3>1. ~Relays(at)
        BY <1>2, <1>3 DEF Relays, IsPassedOn
      <3>2. Origin(at) = x.pointer
        BY <1>2, <1>3 DEF Origin
      <3> QED
        BY <1>2, <3>1, <3>2, DefinitionOf
    <2>6. x.kind = "global" => Constancy(x.pointer, x.constant)
      BY <2>1, HostConstancy
    <2> HIDE DEF x
    <2> QED
      BY <1>1, <2>2, <2>3, <2>4, <2>5, <2>6
  <1>4. CASE i.from \notin HostNames
    <2>1. PICK d \in Contexts : d = i.from /\ phase[d] = "ready" /\ Resolve(i) = GetExport(d, i.field)
      BY <1>4 DEF HasResolver, Resolve
    <2>2. PICK x : x = ExportOf(d, i.field)
      OBVIOUS
    <2>3. PICK e \in DOMAIN program[d].exports :
            /\ program[d].exports[e] = x
            /\ GetExport(d, i.field) =
                 [pointer |-> AddressOf(d, x.kind, x.of),
                  hash |-> Hash(x.kind, TypeOf(d, x.kind, x.of), x.kind = "global" /\ Constant(d, x.of))]
      <3>1. GetExport(d, i.field).pointer # Null
        BY <2>1
      <3> QED
        BY <2>2, <3>1, Exported, ZenonT(60)
    <2>4. /\ Resolve(i).pointer = AddressOf(d, i.kind, x.of)
          /\ x.kind = i.kind
          /\ Resolve(i).hash = Hash(i.kind, TypeOf(d, i.kind, x.of), i.kind = "global" /\ Constant(d, x.of))
          /\ Resolve(i).hash.type = TypeOf(d, i.kind, x.of)
      BY <2>1, <2>3 DEF Hash
    <2>5. Has(program[d], i.kind, x.of) /\ Linked(d)
      BY <2>1, <2>3, <2>4, Programs DEF WellFormed, Linked
    <2>6. ASSUME i.kind = "global", Constancy(Definition[at], Constant(d, x.of))
          PROVE  \E constant \in BOOLEAN :
                   /\ Resolve(i).hash = Hash(i.kind, Resolve(i).hash.type, constant)
                   /\ Constancy(Definition[at], constant)
      <3>1. PICK constant \in BOOLEAN : constant <=> Constant(d, x.of)
        OBVIOUS
      <3>2. Hash(i.kind, TypeOf(d, i.kind, x.of), i.kind = "global" /\ Constant(d, x.of))
              = Hash(i.kind, TypeOf(d, i.kind, x.of), constant)
        BY <2>6, <3>1 DEF Hash
      <3>3. Constancy(Definition[at], constant)
        BY <2>6, <3>1 DEF Constancy
      <3> QED
        BY <2>4, <3>2, <3>3
    <2>7. CASE x.of[1] = "import" /\ x.of[2] \in DOMAIN program[d].imports
               /\ program[d].imports[x.of[2]].kind = i.kind
      <3>1. PICK m \in DOMAIN program[d].imports : m = x.of[2]
        BY <2>7
      <3> PICK y : y = <<d, m>>
        OBVIOUS
      <3>2. y = <<d, m>> /\ y[1] = d /\ y[2] = m
        OBVIOUS
      <3>9. y \in Imported
        BY <3>1, <3>2 DEF Imported
      <3>10. PassedOn(i) = y
        BY <2>1, <2>2, <3>1, <3>2 DEF PassedOn
      <3>3. y \in Imported /\ PassedOn(i) = y
        BY <3>9, <3>10
      <3>4. Relays(at)
        BY <1>2, <1>4, <2>1, <2>2, <2>7, <3>3 DEF Relays, IsPassedOn
      <3>5. Definition[at] = Definition[y]
        BY <1>2, <3>3, <3>4, DefinitionOf
      <3>6. Given(d, m) = Definition[y] /\ Definition[y].kind = i.kind
        BY <2>5, <2>7, <3>1, <3>2 DEF IInv, Honoured
      <3>7. AddressOf(d, i.kind, x.of) = Given(d, m)
        BY <2>7, <3>1 DEF AddressOf, Given
      <3>8. i.kind = "global" => Constancy(Definition[y], Constant(d, x.of))
        BY <2>5, <2>7, <3>1, <3>2, PassedConstancy
      <3> QED
        BY <1>1, <2>4, <2>6, <3>5, <3>6, <3>7, <3>8
    <2>8. CASE /\ x.of[1] = "own" /\ x.of[2] \in OwnIndices(program[d], i.kind)
               /\ i.kind \in Containers =>
                    \A k \in DOMAIN program[d].imports : program[d].imports[k].kind # i.kind
      <3>1. ~Relays(at)
        BY <1>2, <1>4, <2>1, <2>2, <2>8 DEF Relays, IsPassedOn
      <3>2. Origin(at) = Pointer(d, i.kind, x.of[2])
        BY <1>2, <1>4, <2>1, <2>2 DEF Origin, OwnContainer, HostNames
      <3>3. Definition[at] = Pointer(d, i.kind, x.of[2])
        BY <1>2, <3>1, <3>2, DefinitionOf
      <3>4. AddressOf(d, i.kind, x.of) = Pointer(d, i.kind, x.of[2])
        <4>1. CASE i.kind \in Containers
          <5>1. x.of[2] = 1
            BY <2>8, <4>1 DEF OwnIndices, Containers
          <5>2. containers[d][i.kind] = Pointer(d, i.kind, 1)
            BY <2>5, <2>8, <4>1 DEF IInv, OwnContainers
          <5> QED
            BY <4>1, <5>1, <5>2 DEF AddressOf
        <4>2. CASE i.kind \notin Containers
          BY <2>8, <4>2 DEF AddressOf
        <4> QED
          BY <4>1, <4>2
      <3>5. Definition[at].kind = i.kind
        BY <3>3 DEF Pointer
      <3>6. i.kind = "global" => Constancy(Definition[at], Constant(d, x.of))
        BY <2>8, <3>3, OwnConstancy DEF OwnIndices
      <3> QED
        BY <1>1, <2>4, <2>6, <3>3, <3>4, <3>5, <3>6
    <2> QED
      BY <2>5, <2>7, <2>8 DEF Has
  <1> QED
    BY <1>3, <1>4

-----------------------------------------------------------------------------
(* Linking a context.                                                      *)

\* An import that matches is given the global, the function or the container
\* it stands for.
LEMMA GivenByLink ==
    ASSUME IInv, NEW c \in Contexts, NEW n \in DOMAIN program[c].imports,
           NEW i, i = program[c].imports[n], Matches(i)
    PROVE  /\ Definition[<<c, n>>] =
                IF i.kind \in Containers THEN Container(c, i.kind) ELSE Resolve(i).pointer
           /\ Definition[<<c, n>>].kind = i.kind
           /\ Mutability(i, Definition[<<c, n>>])
PROOF
  <1>1. HasResolver(i.from) /\ Resolve(i).pointer # Null /\ Resolve(i).hash = ImportHash(i)
    BY DEF Matches
  <1>2. Resolve(i).hash.kind = i.kind
    BY <1>1 DEF ImportHash, Hash
  <1>3. \A m \in DOMAIN program[c].imports :
          program[c].imports[m].kind = i.kind /\ i.kind \in Containers => m = n
    BY Programs DEF WellFormed
  <1>4. CASE OwnContainer(i)
    <2>1. i.from = Nameless /\ i.kind \in Containers
      BY <1>4 DEF OwnContainer
    <2>2. ContainerImports(c, i.kind) = {}
      BY <1>3, <2>1 DEF ContainerImports
    <2>3. Container(c, i.kind) = Pointer(c, i.kind, 1)
      BY <2>2 DEF Container
    <2> PICK at : at = <<c, n>>
      OBVIOUS
    <2>4. at \in Imported /\ at[1] = c /\ ImportOf(at) = i
      BY DEF Imported, ImportOf
    <2>5. ~Relays(at) /\ Origin(at) = Pointer(c, i.kind, 1)
      BY <1>4, <2>1, <2>4 DEF Relays, IsPassedOn, HostNames, Origin
    <2>6. Definition[at] = Pointer(c, i.kind, 1)
      BY <2>4, <2>5, DefinitionOf
    <2>7. i.kind # "global" /\ Pointer(c, i.kind, 1).kind = i.kind
      BY <2>1 DEF Containers, Pointer
    <2> QED
      BY <2>1, <2>3, <2>6, <2>7 DEF Mutability
  <1>5. CASE ~OwnContainer(i)
    <2>1. /\ Resolve(i).pointer = Definition[<<c, n>>]
          /\ Definition[<<c, n>>].kind = i.kind
          /\ i.kind = "global" =>
               \E constant \in BOOLEAN :
                 /\ Resolve(i).hash = Hash(i.kind, Resolve(i).hash.type, constant)
                 /\ Constancy(Definition[<<c, n>>], constant)
      BY <1>1, <1>2, <1>5, Provided
    <2>2. i.kind \in Containers => Container(c, i.kind) = Resolve(i).pointer
      <3> SUFFICES ASSUME i.kind \in Containers
                   PROVE  Container(c, i.kind) = Resolve(i).pointer
        OBVIOUS
      <3>1. ContainerImports(c, i.kind) = {n}
        BY <1>3, <1>5 DEF ContainerImports, OwnContainer
      <3>2. (CHOOSE m \in ContainerImports(c, i.kind) : TRUE) = n
        BY <3>1
      <3> QED
        BY <3>1, <3>2 DEF Container
    <2>3. Mutability(i, Definition[<<c, n>>])
      <3> SUFFICES ASSUME i.kind = "global"
                   PROVE  IF i.mutable THEN Writable(Definition[<<c, n>>])
                          ELSE Immutable(Definition[<<c, n>>])
        BY DEF Mutability
      <3>1. PICK constant \in BOOLEAN :
              /\ Resolve(i).hash = Hash(i.kind, Resolve(i).hash.type, constant)
              /\ Constancy(Definition[<<c, n>>], constant)
        BY <2>1
      <3>2. Hash(i.kind, Resolve(i).hash.type, constant).constant = ImportHash(i).constant
        BY <1>1, <3>1
      <3>3. constant <=> ~i.mutable
        BY <3>2 DEF Hash, ImportHash
      <3> QED
        BY <3>1, <3>3 DEF Constancy
    <2> QED
      BY <2>1, <2>2, <2>3
  <1> QED
    BY <1>4, <1>5

\* A context that stays as it was keeps what it was given.
LEMMA HonouredStays ==
    ASSUME UNCHANGED program, NEW c, Honoured(c), OwnContainers(c),
           bound'[c] = bound[c], containers'[c] = containers[c]
    PROVE  Honoured(c)' /\ OwnContainers(c)'
PROOF
  <1>1. /\ Definition' = Definition
        /\ \A x : Writable(x)' <=> Writable(x)
        /\ \A x : Immutable(x)' <=> Immutable(x)
    BY DeclarationsStay
  <1>2. \A i, x : Mutability(i, x)' <=> Mutability(i, x)
    BY <1>1 DEF Mutability
  <1>3. \A i : Given(c, i)' = Given(c, i)
    BY DEF Given
  <1>4. OwnContainers(c)'
    BY DEF OwnContainers
  <1>5. Honoured(c)'
    BY <1>1, <1>2, <1>3 DEF Honoured
  <1> QED
    BY <1>4, <1>5

\* A step that links nothing.
LEMMA NothingLinked ==
    ASSUME IInv, phase' \in [Contexts -> Phases], \A d \in Contexts : Linked(d)' <=> Linked(d),
           UNCHANGED <<program, bound, containers>>, DOMAIN cells' = DOMAIN cells
    PROVE  IInv'
PROOF
  <1>1. Owned'
    BY DEF IInv, Owned
  <1>2. \A d \in Contexts : Linked(d)' => Honoured(d)' /\ OwnContainers(d)'
    BY HonouredStays DEF IInv
  <1> QED
    BY <1>1, <1>2 DEF IInv

\* Linking a context stores to its own globals only.
LEMMA LinkHonoured ==
    ASSUME IInv, NEW c \in Contexts, Link(c)
    PROVE  IInv' /\ \A x \in DOMAIN cells : cells'[x] = cells[x]
PROOF
  <1> DEFINE p == program[c]
             addresses == [i \in DOMAIN p.imports |-> Resolve(p.imports[i]).pointer]
             made == [k \in Containers |-> Container(c, k)]
             value == Initialised(c, addresses)
  <1>1. /\ phase[c] = "absent"
        /\ \A i \in DOMAIN p.imports : Matches(p.imports[i])
        /\ phase' = [phase EXCEPT ![c] = "ready"]
        /\ bound' = [bound EXCEPT ![c] = addresses]
        /\ containers' = [containers EXCEPT ![c] = made]
        /\ program' = program
        /\ cells' = [x \in DOMAIN cells \cup Globals(c) |->
                       IF x \in Globals(c) THEN value[x.n] ELSE cells[x]]
    BY DEF Link
  <1>2. ~Linked(c) /\ Linked(c)' /\ \A d \in Contexts \ {c} : Linked(d)' <=> Linked(d)
    BY <1>1 DEF IInv, Linked
  <1>3. \A x \in Globals(c) : x.owner = c
    BY DEF Globals, Pointer
  <1>4. \A x \in DOMAIN cells : x \notin Globals(c)
    BY <1>2, <1>3 DEF IInv, Owned
  <1>5. DOMAIN cells' = DOMAIN cells \cup Globals(c) /\ \A x \in DOMAIN cells : cells'[x] = cells[x]
    <2> HIDE DEF value
    <2> QED
      BY <1>1, <1>4
  <1>6. Owned'
    BY <1>2, <1>3, <1>5 DEF IInv, Owned
  <1>7. bound'[c] = addresses /\ containers'[c] = made
    BY <1>1 DEF IInv
  <1>8. Honoured(c)'
    <2> DEFINE at(n) == Definition[<<c, n>>]
    <2>1. \A n \in DOMAIN p.imports :
            /\ at(n) = IF p.imports[n].kind \in Containers THEN made[p.imports[n].kind] ELSE addresses[n]
            /\ at(n).kind = p.imports[n].kind
            /\ Mutability(p.imports[n], at(n))
      BY <1>1, GivenByLink
    <2>2. Definition' = Definition /\ \A i, x : Mutability(i, x)' <=> Mutability(i, x)
      BY <1>1, DeclarationsStay DEF Mutability
    <2> HIDE DEF addresses, made
    <2>3. \A n : Given(c, n)' = IF p.imports[n].kind \in Containers THEN made[p.imports[n].kind] ELSE addresses[n]
      BY <1>1, <1>7 DEF Given
    <2> QED
      BY <1>1, <2>1, <2>2, <2>3 DEF Honoured
  <1>9. OwnContainers(c)'
    <2>1. ASSUME NEW k \in Containers, \A i \in DOMAIN p.imports : p.imports[i].kind # k
          PROVE  made[k] = Pointer(c, k, 1)
      BY <2>1 DEF Container, ContainerImports
    <2> HIDE DEF made
    <2> QED
      BY <1>1, <1>7, <2>1 DEF OwnContainers
  <1>10. \A d \in Contexts \ {c} : Linked(d)' => Honoured(d)' /\ OwnContainers(d)'
    <2> SUFFICES ASSUME NEW d \in Contexts \ {c}, Linked(d)
                 PROVE  Honoured(d)' /\ OwnContainers(d)'
      BY <1>2
    <2>1. Honoured(d) /\ OwnContainers(d) /\ bound'[d] = bound[d] /\ containers'[d] = containers[d]
      BY <1>1 DEF IInv
    <2> QED
      BY <1>1, <2>1, HonouredStays
  <1> HIDE DEF addresses, value, p, made
  <1>11. phase' \in [Contexts -> Phases] /\ DOMAIN bound' = Contexts /\ DOMAIN containers' = Contexts
    BY <1>1 DEF IInv, Phases
  <1> QED
    BY <1>1, <1>5, <1>6, <1>8, <1>9, <1>10, <1>11 DEF IInv

-----------------------------------------------------------------------------
(* Storing to a global.                                                    *)

\* A store through a declaration that is mutable goes to what is writable.
LEMMA StoreWritable ==
    ASSUME IInv, NEW c \in Contexts, phase[c] = "ready", NEW ref \in program[c].sets,
           ~DeclaredImmutable(c, ref)
    PROVE  Writable(AddressOf(c, "global", ref))
PROOF
  <1> DEFINE p == program[c]
  <1>1. Has(p, "global", ref)
    BY Programs DEF WellFormed
  <1>2. CASE ref[1] = "import" /\ ref[2] \in DOMAIN p.imports /\ p.imports[ref[2]].kind = "global"
    <2>1. AddressOf(c, "global", ref) = Given(c, ref[2])
      BY <1>2 DEF AddressOf, Given, Containers
    <2>2. p.imports[ref[2]].mutable
      BY <1>2 DEF DeclaredImmutable
    <2>3. Honoured(c)
      BY DEF IInv, Linked
    <2>4. /\ Given(c, ref[2]) = Definition[<<c, ref[2]>>]
          /\ Mutability(p.imports[ref[2]], Definition[<<c, ref[2]>>])
      BY <1>2, <2>3 DEF Honoured
    <2> QED
      BY <1>2, <2>1, <2>2, <2>4 DEF Mutability
  <1>3. CASE ref[1] = "own" /\ ref[2] \in DOMAIN p.globals
    <2> DEFINE x == Pointer(c, "global", ref[2])
    <2>1. AddressOf(c, "global", ref) = x
      BY <1>3 DEF AddressOf, Containers
    <2>2. OfModule(x) /\ Declared(x).mutable
      BY <1>3 DEF OfModule, Declared, Pointer, DeclaredImmutable
    <2> HIDE DEF x
    <2>3. Writable(x)
      BY <2>2 DEF Writable, Immutable
    <2> QED
      BY <2>1, <2>3
  <1> QED
    BY <1>1, <1>2, <1>3 DEF Has, OwnIndices

\* set_global.
LEMMA Stored ==
    ASSUME IInv, NEW c \in Contexts, SetGlobal(c)
    PROVE  IInv' /\ KeepsImmutable
PROOF
  <1>1. PICK ref \in program[c].sets, v \in Values :
          cells' \in {cells, [cells EXCEPT ![AddressOf(c, "global", ref)] = v]}
    BY DEF SetGlobal
  <1>2. phase[c] = "ready" /\ UNCHANGED <<phase, program, bound, containers>>
    BY DEF SetGlobal
  <1> DEFINE cell == AddressOf(c, "global", ref)
  <1>3. CASE cells' = cells
    BY <1>2, <1>3, NothingLinked DEF IInv, Linked, KeepsImmutable
  <1>4. CASE cells' = [cells EXCEPT ![cell] = v]
    <2> HIDE DEF cell
    <2>1. DOMAIN cells' = DOMAIN cells /\ \A x \in DOMAIN cells \ {cell} : cells'[x] = cells[x]
      BY <1>4
    <2>2. IInv'
      BY <1>2, <2>1, NothingLinked DEF IInv, Linked
    <2>3. DeclaredImmutable(c, ref) \/ Writable(cell)
      BY <1>2, StoreWritable DEF cell
    <2>4. KeepsImmutable
      BY <1>2, <2>1, <2>3 DEF KeepsImmutable, Writable, cell
    <2> QED
      BY <2>2, <2>4
  <1> QED
    BY <1>1, <1>3, <1>4

-----------------------------------------------------------------------------
(* Refusing to link.                                                       *)

\* Why an import does not match.
Cause(c, i) ==
    LET import == program[c].imports[i]
    IN  \/ ~HasResolver(import.from)
        \/ Resolve(import).pointer = Null
        \/ Resolve(import).hash.kind # import.kind
        \/ Resolve(import).hash.type # import.type
        \/ /\ import.kind = "global"
           /\ \/ Immutable(Definition[<<c, i>>]) = import.mutable
              \/ Loaded(Definition[<<c, i>>])

\* Every resolver tells a hash.
LEMMA Hashed ==
    ASSUME NEW i
    PROVE  \E kind, type, constant : Resolve(i).hash = Hash(kind, type, constant)
PROOF
  <1>1. \A d, name : \E kind, type, constant : GetExport(d, name).hash = Hash(kind, type, constant)
    BY DEF GetExport, NoExport
  <1>2. \E kind, type, constant : NoExport.hash = Hash(kind, type, constant)
    BY DEF NoExport
  <1>3. \A f \in DOMAIN HostExports :
          LET x == HostExports[f]
          IN  [pointer |-> x.pointer, hash |-> Hash(x.kind, x.type, x.constant)].hash
                = Hash(x.kind, x.type, x.constant)
    OBVIOUS
  <1>4. CASE i.from \in HostNames /\ i.field \in DOMAIN HostExports
    BY <1>3, <1>4 DEF Resolve
  <1>5. CASE i.from \in HostNames /\ i.field \notin DOMAIN HostExports
    BY <1>2, <1>5 DEF Resolve
  <1>6. CASE i.from \notin HostNames
    BY <1>1, <1>6 DEF Resolve
  <1> QED
    BY <1>4, <1>5, <1>6

\* A context that does not link has a reason not to.
LEMMA RefusalHasCause ==
    ASSUME IInv, NEW c \in Contexts, NEW n \in DOMAIN program[c].imports,
           ~Matches(program[c].imports[n])
    PROVE  Cause(c, n)
PROOF
  <1>1. PICK i : i = program[c].imports[n] /\ i.mutable \in BOOLEAN
    BY Programs DEF WellFormed
  <1> SUFFICES ASSUME HasResolver(i.from), Resolve(i).pointer # Null,
                      Resolve(i).hash.kind = i.kind, Resolve(i).hash.type = i.type
               PROVE  Cause(c, n)
    BY <1>1 DEF Cause
  <1>2. Resolve(i).hash # ImportHash(i)
    BY <1>1 DEF Matches
  <1>3. CASE i.kind = "global"
    <2>1. ~OwnContainer(i)
      BY <1>3 DEF OwnContainer, Containers
    <2>2. PICK constant \in BOOLEAN :
            /\ Resolve(i).hash = Hash(i.kind, Resolve(i).hash.type, constant)
            /\ Constancy(Definition[<<c, n>>], constant)
      BY <1>1, <1>3, <2>1, Provided
    <2>3. ImportHash(i) = Hash(i.kind, i.type, ~i.mutable)
      BY DEF ImportHash
    <2>4. constant <=> i.mutable
      <3>1. SUFFICES ASSUME constant <=> ~i.mutable PROVE FALSE
        OBVIOUS
      <3>2. Hash(i.kind, i.type, constant) = Hash(i.kind, i.type, ~i.mutable)
        BY <3>1 DEF Hash
      <3> QED
        BY <1>2, <2>2, <2>3, <3>2
    <2>5. \/ Immutable(Definition[<<c, n>>]) = i.mutable
          \/ Loaded(Definition[<<c, n>>])
      <3>1. CASE constant
        BY <1>1, <2>2, <2>4, <3>1 DEF Constancy, Immutable
      <3>2. CASE ~constant
        <4>1. ~Immutable(Definition[<<c, n>>]) \/ Loaded(Definition[<<c, n>>])
          BY <2>2, <3>2 DEF Constancy, Writable
        <4>2. Immutable(Definition[<<c, n>>]) \in BOOLEAN /\ i.mutable = FALSE
          BY <1>1, <2>4, <3>2 DEF Immutable
        <4> QED
          BY <4>1, <4>2
      <3> QED
        BY <3>1, <3>2
    <2> QED
      BY <1>1, <1>3, <2>5 DEF Cause
  <1>4. CASE i.kind # "global"
    <2>1. PICK kind, type, constant : Resolve(i).hash = Hash(kind, type, constant)
      BY Hashed
    <2>2. kind = i.kind /\ type = i.type
      BY <2>1 DEF Hash
    <2>3. Hash(kind, type, constant) = ImportHash(i)
      BY <1>4, <2>2 DEF Hash, ImportHash
    <2> QED
      BY <1>2, <2>1, <2>3
  <1> QED
    BY <1>3, <1>4


-----------------------------------------------------------------------------
(* The steps.                                                              *)

Refused == \A c \in Contexts :
             phase[c] = "absent" /\ phase'[c] = "failed" => \E i \in DOMAIN program[c].imports : Cause(c, i)

\* Every step.
LEMMA Stepped ==
    ASSUME IInv, [Next]_vars
    PROVE  IInv' /\ [KeepsImmutable]_vars /\ [Refused]_vars
PROOF
  <1>1. ASSUME NEW c \in Contexts, Link(c)
        PROVE  IInv' /\ KeepsImmutable /\ Refused
    <2>1. phase' = [phase EXCEPT ![c] = "ready"]
      BY <1>1 DEF Link
    <2> QED
      BY <1>1, <2>1, LinkHonoured DEF KeepsImmutable, Refused, IInv
  <1>2. ASSUME NEW c \in Contexts, Unlinkable(c) \/ Destroy(c)
        PROVE  IInv' /\ KeepsImmutable /\ Refused
    <2>1. UNCHANGED <<program, bound, containers, cells>>
      BY <1>2 DEF Unlinkable, Destroy
    <2>2. /\ phase' \in [Contexts -> Phases]
          /\ \A d \in Contexts : Linked(d)' <=> Linked(d)
      BY <1>2 DEF IInv, Linked, Unlinkable, Destroy, Phases
    <2>3. Refused
      <3>1. CASE Unlinkable(c)
        <4>1. /\ \E i \in DOMAIN program[c].imports : ~Matches(program[c].imports[i])
              /\ phase' = [phase EXCEPT ![c] = "failed"]
          BY <3>1 DEF Unlinkable
        <4>2. \E i \in DOMAIN program[c].imports : Cause(c, i)
          BY <4>1, RefusalHasCause
        <4> QED
          BY <4>1, <4>2 DEF Refused, IInv
      <3>2. CASE Destroy(c)
        BY <3>2 DEF Destroy, Refused, IInv
      <3> QED
        BY <1>2, <3>1, <3>2
    <2> QED
      BY <2>1, <2>2, <2>3, NothingLinked DEF KeepsImmutable
  <1>3. ASSUME NEW c \in Contexts, SetGlobal(c)
        PROVE  IInv' /\ KeepsImmutable /\ Refused
    <2>1. phase' = phase
      BY <1>3 DEF SetGlobal
    <2> QED
      BY <1>3, <2>1, Stored DEF Refused
  <1>4. CASE UNCHANGED vars
    <2>1. IInv'
      BY <1>4, NothingLinked DEF IInv, Linked, vars
    <2> QED
      BY <1>4, <2>1
  <1> QED
    BY <1>1, <1>2, <1>3, <1>4 DEF Next, Step

\* Nothing is linked yet.
LEMMA Begun ==
    ASSUME Init
    PROVE  IInv
PROOF
  <1>1. \A x \in DOMAIN cells : x.owner \notin Contexts
    BY HostAssumption DEF Init, HostGlobals
  <1>2. \A c \in Contexts : ~Linked(c)
    BY DEF Init, Linked
  <1> QED
    BY <1>1, <1>2 DEF Init, IInv, Owned, Phases

-----------------------------------------------------------------------------

\* Every import of a linked context is what it stands for, the exporter
\* destroyed or not; the globals of a module exist only once it is linked.
THEOREM Invariance == Spec => []IInv
PROOF
  <1>1. Init => IInv
    BY Begun
  <1>2. IInv /\ [Next]_vars => IInv'
    BY Stepped
  <1> QED
    BY <1>1, <1>2, PTL DEF Spec

\* The addresses and the comparison of type hashes are enough: whatever the
\* modules are, through any number of them that pass an import on, a context
\* that links is given what its imports stand for, of the kind and with the
\* mutability they declare (context.cpp:69-150, module.cpp:927, 948-977).
THEOREM Honouring == Spec => []ImportsHonoured
PROOF
  <1>1. IInv => ImportsHonoured
    <2> SUFFICES ASSUME IInv, NEW c \in Contexts, Linked(c), NEW i \in DOMAIN program[c].imports
                 PROVE  LET import == program[c].imports[i]
                            definition == Definition[<<c, i>>]
                        IN  /\ Given(c, i) = definition
                            /\ definition.kind = import.kind
                            /\ import.kind = "global" =>
                                 import.mutable = ~Immutable(definition) \/ (import.mutable /\ Loaded(definition))
      BY DEF ImportsHonoured
    <2>1. program[c].imports[i].mutable \in BOOLEAN
      BY Programs DEF WellFormed
    <2>2. PICK import, x : import = program[c].imports[i] /\ x = Definition[<<c, i>>]
      OBVIOUS
    <2>3. Given(c, i) = x /\ x.kind = import.kind /\ Mutability(import, x)
      BY <2>2 DEF IInv, Honoured
    <2>4. CASE import.mutable = TRUE
      BY <2>2, <2>3, <2>4 DEF Mutability, Writable
    <2>5. CASE import.mutable = FALSE
      BY <2>2, <2>3, <2>5 DEF Mutability
    <2> QED
      BY <2>1, <2>2, <2>4, <2>5
  <1> QED
    BY <1>1, Invariance, PTL

\* What a context was given lives as long as the context that defines it,
\* whatever becomes of those it went through (context.cpp:137).
THEOREM RelaysAreSpared == Spec => []RelaysMayGo
PROOF
  <1>1. IInv => RelaysMayGo
    <2> SUFFICES ASSUME IInv, NEW c \in Contexts, phase[c] = "ready", NEW i \in DOMAIN program[c].imports
                 PROVE  Given(c, i) = Definition[<<c, i>>]
      BY DEF RelaysMayGo
    <2> QED
      BY DEF IInv, Honoured, Linked
  <1> QED
    BY <1>1, Invariance, PTL

\* Whatever the modules are, the constructor refuses none for an import that
\* is provided as it is declared, but for an immutable global that is loaded
\* from another one (context.cpp:92-104, module.cpp:927).
THEOREM RefusalsAreJust == Spec => RefusedForCause
PROOF
  <1>1. IInv /\ [Next]_vars => [Refused]_vars
    BY Stepped
  <1>2. Refused =>
          \A c \in Contexts :
            phase[c] = "absent" /\ phase'[c] = "failed" =>
              \E i \in DOMAIN program[c].imports :
                LET import == program[c].imports[i]
                IN  \/ ~HasResolver(import.from)
                    \/ Resolve(import).pointer = Null
                    \/ Resolve(import).hash.kind # import.kind
                    \/ Resolve(import).hash.type # import.type
                    \/ /\ import.kind = "global"
                       /\ \/ Immutable(Definition[<<c, i>>]) = import.mutable
                          \/ Loaded(Definition[<<c, i>>])
    BY DEF Refused, Cause
  <1>3. Spec => [][Refused]_vars
    BY <1>1, Invariance, PTL DEF Spec
  <1> QED
    BY <1>2, <1>3, PTL DEF RefusedForCause

\* Through any number of modules that pass a global on, and with the code of
\* the exporter destroyed or not, an immutable global changes only by a store
\* of a module that declares it immutable, or when it is a loaded one: the
\* comparison of type hashes when a context links is enough
\* (context.cpp:100, module.cpp:927, 1588).
THEOREM ImmutablesAreKept == Spec => ImmutableKept
PROOF
  <1>1. IInv /\ [Next]_vars => [KeepsImmutable]_vars
    BY Stepped
  <1> QED
    BY <1>1, Invariance, PTL DEF Spec, ImmutableKept
=============================================================================
