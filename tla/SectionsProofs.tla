--------------------------- MODULE SectionsProofs ---------------------------
(***************************************************************************)
(* Theorems of the binary reader, for any files: any number of sections of *)
(* any kind in any order.                                                  *)
(***************************************************************************)
EXTENDS Sections, SequenceTheorems, FiniteSetTheorems, WellFoundedInduction, TLAPS

FunctionTypes == [params : Nat, results : Nat]
FunctionRecords == [type : FunctionTypes, imported : BOOLEAN, bodies : Nat]

\* Imported functions come before the functions whose bodies are read, except
\* while a section of imports adds more.
Adding == section # 0 /\ Read.kind = "import"
ImportsBelow ==
    ~Adding => \A f \in DOMAIN functions : functions[f].imported => f <= importFuncOffset

TableKinds == {<<>>, <<TRUE>>, <<FALSE>>}

IInv ==
    /\ file \in Files
    /\ cursor \in Nat /\ result \in Results
    /\ section \in DOMAIN file \cup {0} /\ item \in Nat
    /\ section # 0 => item # 0 /\ cursor >= Read.head
    /\ types \in Seq(FunctionTypes) /\ functions \in Seq(FunctionRecords)
    /\ importFuncOffset \in 0 .. Len(functions)
    /\ tables \in TableKinds /\ memories \in {0, 1} /\ pc \in Nat
    /\ ImportsBelow
    /\ ImportsKeepNoBody

\* The section being read is one of the file.
LEMMA InSection ==
    ASSUME IInv, InEntry
    PROVE  /\ section \in DOMAIN file /\ Read.kind \in Kinds /\ Read.length \in Nat /\ Read.head \in Nat
           /\ item \in DOMAIN Read.items /\ item >= 1
           /\ IsEntry(Read.kind, Now)
BY FilesAssumption DEF IInv, InEntry, InPlace, Read, Now

\* A step of a handler moves forward in its section.
LEMMA Moved ==
    ASSUME IInv, NEW kind, NEW op, Handle(kind, op)
    PROVE  /\ UNCHANGED <<file, section, result, pc, Read>> /\ section # 0 /\ Read.kind = kind
           /\ BytesRead \in Nat /\ cursor' = cursor + BytesRead /\ cursor' \in Nat /\ cursor' >= Read.head
           /\ item' = item + 1 /\ item' \in Nat /\ item' # 0
PROOF
  <1>1. /\ UNCHANGED <<file, section, result, pc>> /\ section # 0 /\ Read.kind = kind /\ InEntry
        /\ cursor' = cursor + BytesRead /\ item' = item + 1
    BY DEF Handle, InEntry, runVars
  <1>2. IsEntry(Read.kind, Now) /\ Read.head \in Nat
    BY <1>1, InSection
  <1>3. BytesRead \in Nat
    BY <1>2 DEF BytesRead, IsEntry
  <1>4. UNCHANGED Read
    BY <1>1 DEF Read
  <1> QED
    BY <1>1, <1>2, <1>3, <1>4 DEF IInv

\* A step of a handler that leaves functions alone.
LEMMA HandleKeeps ==
    ASSUME IInv, NEW kind, NEW op, Handle(kind, op), UNCHANGED <<functions, importFuncOffset>>,
           types' \in Seq(FunctionTypes), tables' \in TableKinds, memories' \in {0, 1}
    PROVE  IInv'
BY Moved DEF IInv, ImportsBelow, Adding, ImportsKeepNoBody

\* A function that is added has no body; an imported one is added by a section
\* of imports.
LEMMA FunctionAdded ==
    ASSUME IInv, NEW imported \in BOOLEAN, NEW kind \in {"import", "function"},
           Handle(kind, "function"), AddFunction(imported), imported => kind = "import",
           Now.type \in DOMAIN types
    PROVE  IInv'
PROOF
  <1> DEFINE new == [type |-> types[Now.type], imported |-> imported, bodies |-> 0]
  <1>1. new \in FunctionRecords
    BY ElementOfSeq DEF IInv, FunctionRecords
  <1>2. functions' = Append(functions, new)
    BY DEF AddFunction
  <1>3. /\ functions' \in Seq(FunctionRecords) /\ Len(functions') = Len(functions) + 1
        /\ DOMAIN functions' = 1 .. Len(functions) + 1 /\ DOMAIN functions = 1 .. Len(functions)
        /\ \A f \in 1 .. Len(functions) : functions'[f] = functions[f]
        /\ functions'[Len(functions) + 1] = new
        /\ Len(functions) \in Nat
    <2> HIDE DEF new
    <2> QED
      BY <1>1, <1>2, AppendProperties, LenProperties DEF IInv
  <1>4. UNCHANGED <<file, section, result, pc, types, importFuncOffset, tables, memories>>
    BY DEF Handle, AddFunction, runVars
  <1>5. ImportsKeepNoBody'
    <2>1. new.bodies = 0
      OBVIOUS
    <2> HIDE DEF new
    <2> QED
      BY <1>3, <2>1 DEF IInv, ImportsKeepNoBody
  <1>6. ImportsBelow'
    <2>1. CASE kind = "import"
      <3>1. Adding'
        BY <2>1, <1>4 DEF Adding, Handle, InEntry, Read
      <3> QED
        BY <3>1 DEF ImportsBelow
    <2>2. CASE kind = "function"
      <3>1. ~new.imported /\ ~Adding
        BY <2>2 DEF Adding, Handle, Read
      <3>2. \A f \in 1 .. Len(functions) : functions[f].imported => f <= importFuncOffset
        BY <3>1, <1>3 DEF IInv, ImportsBelow
      <3> HIDE DEF new
      <3>3. \A f \in DOMAIN functions' : functions'[f].imported => f <= importFuncOffset
        BY <3>1, <3>2, <1>3
      <3> QED
        BY <3>3, <1>4 DEF ImportsBelow
    <2> QED
      BY <2>1, <2>2
  <1>7. importFuncOffset' \in 0 .. Len(functions')
    BY <1>3, <1>4 DEF IInv
  <1> HIDE DEF new
  <1> QED
    BY <1>3, <1>4, <1>5, <1>6, <1>7, Moved DEF IInv

\* A body goes to the function its place gives, which is not imported.
LEMMA BodyAdded ==
    ASSUME IInv, Code
    PROVE  IInv'
PROOF
  <1> DEFINE target == importFuncOffset + item
  <1>1. /\ Handle("code", "body") /\ ~Fails(Now)
        /\ functions' = [functions EXCEPT ![target].bodies = @ + 1]
        /\ UNCHANGED <<types, importFuncOffset, tables, memories, exports>>
    BY DEF Code, Handle
  <1>2. target \in DOMAIN functions
    BY <1>1 DEF Handle, Fails
  <1>3. target > importFuncOffset
    BY <1>1, InSection DEF Handle, IInv
  <1>4. /\ functions \in Seq(FunctionRecords) /\ DOMAIN functions = 1 .. Len(functions)
        /\ Len(functions) \in Nat /\ functions[target] \in FunctionRecords
    BY <1>2, LenProperties, ElementOfSeq DEF IInv
  <1> DEFINE given == [functions[target] EXCEPT !.bodies = @ + 1]
  <1>5. functions' = [functions EXCEPT ![target] = given]
    BY <1>1
  <1>6. given \in FunctionRecords /\ given.imported = functions[target].imported
    BY <1>4 DEF FunctionRecords
  <1>7. ~Adding
    BY <1>1 DEF Adding, Handle, Read
  <1>8. ~functions[target].imported
    BY <1>2, <1>3, <1>7, <1>4 DEF IInv, ImportsBelow
  <1> HIDE DEF given, target
  <1>9. /\ functions' \in Seq(FunctionRecords) /\ Len(functions') = Len(functions)
        /\ DOMAIN functions' = DOMAIN functions
        /\ \A f \in DOMAIN functions : functions'[f] = IF f = target THEN given ELSE functions[f]
    BY <1>2, <1>4, <1>5, <1>6, ExceptSeq
  <1>10. ImportsKeepNoBody'
    BY <1>6, <1>8, <1>9 DEF IInv, ImportsKeepNoBody
  <1>11. ImportsBelow'
    BY <1>1, <1>6, <1>7, <1>9 DEF IInv, ImportsBelow
  <1> QED
    BY <1>1, <1>9, <1>10, <1>11, Moved DEF IInv, Code

\* The first byte of a section: only a section of functions moves the offset.
LEMMA Entered ==
    ASSUME IInv, Enter
    PROVE  IInv'
PROOF
  <1>1. PICK s \in DOMAIN file :
          /\ section' = s /\ item' = 1 /\ cursor' = cursor + file[s].head
          /\ types' = IF file[s].kind = "type" THEN <<>> ELSE types
          /\ importFuncOffset' = IF file[s].kind = "function" THEN Len(functions) ELSE importFuncOffset
    BY DEF Enter
  <1>2. /\ section = 0
        /\ UNCHANGED <<file, result, functions, tables, memories, pc>>
    BY DEF Enter, runVars
  <1>9. cursor' \in Nat /\ cursor' >= Read'.head
    BY <1>1, <1>2, FilesAssumption DEF IInv, Read
  <1>3. DOMAIN functions = 1 .. Len(functions) /\ Len(functions) \in Nat
    BY LenProperties DEF IInv
  <1>4. importFuncOffset' \in importFuncOffset .. Len(functions')
    BY <1>1, <1>2, <1>3 DEF IInv
  <1>5. types' \in Seq(FunctionTypes)
    <2>1. <<>> \in Seq(FunctionTypes)
      OBVIOUS
    <2> QED
      BY <1>1, <2>1 DEF IInv
  <1>6. ImportsBelow'
    <2>1. \A f \in DOMAIN functions : functions[f].imported => f <= importFuncOffset
      BY <1>2 DEF IInv, ImportsBelow, Adding
    <2>2. \A f \in DOMAIN functions : functions[f].imported => f <= importFuncOffset'
      BY <2>1, <1>3, <1>4 DEF IInv
    <2> QED
      BY <2>2, <1>2 DEF ImportsBelow
  <1>7. ImportsKeepNoBody'
    BY <1>2 DEF IInv, ImportsKeepNoBody
  <1>8. /\ section' \in DOMAIN file' \cup {0} /\ item' \in Nat /\ item' # 0
        /\ importFuncOffset' \in 0 .. Len(functions')
    BY <1>1, <1>2, <1>3, <1>4 DEF IInv
  <1> QED
    BY <1>2, <1>5, <1>6, <1>7, <1>8, <1>9 DEF IInv

\* The return of a handler: that of the imports moves the offset.
LEMMA Left ==
    ASSUME IInv, Leave
    PROVE  IInv'
PROOF
  <1>1. /\ section \in DOMAIN file /\ Read.length \in Nat /\ Read.head \in Nat
        /\ section' = 0 /\ item' = 0 /\ cursor' = cursor + Passed(Read)
        /\ importFuncOffset' = IF Read.kind = "import" THEN Len(functions) ELSE importFuncOffset
        /\ UNCHANGED <<file, result, types, functions, tables, memories, pc>>
    BY FilesAssumption DEF IInv, Leave, Read, runVars
  <1>2. cursor' \in Nat
    BY <1>1 DEF IInv, Leave, Passed
  <1>3. DOMAIN functions = 1 .. Len(functions) /\ Len(functions) \in Nat
    BY LenProperties DEF IInv
  <1>4. importFuncOffset' \in 0 .. Len(functions')
    BY <1>1, <1>3 DEF IInv
  <1>5. ImportsBelow'
    <2>1. CASE Read.kind = "import"
      BY <2>1, <1>1, <1>3 DEF ImportsBelow
    <2>2. CASE Read.kind # "import"
      BY <2>2, <1>1 DEF IInv, ImportsBelow, Adding
    <2> QED
      BY <2>1, <2>2
  <1>6. ImportsKeepNoBody'
    BY <1>1 DEF IInv, ImportsKeepNoBody
  <1> QED
    BY <1>1, <1>2, <1>4, <1>5, <1>6 DEF IInv

\* Where the module holds, the reader stays and the call only ends or runs on.
LEMMA Stays ==
    ASSUME IInv, result' \in Results, pc' \in Nat,
           UNCHANGED <<file, cursor, section, item, types, functions, importFuncOffset, tables, memories>>
    PROVE  IInv'
BY DEF IInv, ImportsBelow, Adding, Read, ImportsKeepNoBody

\* Reading one section.
LEMMA SectionRead ==
    ASSUME IInv, ReadSection
    PROVE  IInv'
PROOF
  <1>1. CASE Enter
    BY <1>1, Entered
  <1>2. CASE Leave
    BY <1>2, Left
  <1>3. CASE UnknownSection \/ DataWithoutMemory \/ Astray \/ Throw \/ Undecodable
    <2>1. /\ result' \in Results
          /\ UNCHANGED <<readerVars, moduleVars, runVars>>
      BY <1>3 DEF UnknownSection, DataWithoutMemory, Astray, Throw, Undecodable, Results
    <2>2. pc' \in Nat
      BY <2>1 DEF IInv, runVars
    <2> QED
      BY <2>1, <2>2, Stays DEF readerVars, moduleVars
  <1> QED
    BY <1>1, <1>2, <1>3 DEF ReadSection

\* A second table or memory is refused by its import as well as by its section.
LEMMA EntryRead ==
    ASSUME IInv, ReadEntry
    PROVE  IInv'
PROOF
  <1>1. CASE Type
    <2>1. /\ Handle("type", "type") /\ UNCHANGED <<functions, importFuncOffset, tables, memories>>
          /\ types' = Append(types, [params |-> Now.params, results |-> Now.results])
      BY <1>1 DEF Type
    <2>2. [params |-> Now.params, results |-> Now.results] \in FunctionTypes
      BY <2>1, InSection DEF Handle, FunctionTypes, IsEntry
    <2>3. types' \in Seq(FunctionTypes)
      BY <2>1, <2>2, AppendProperties DEF IInv
    <2> QED
      BY <2>1, <2>3, HandleKeeps DEF IInv
  <1>2. CASE ImportFunction
    BY <1>2, FunctionAdded DEF ImportFunction, Handle, Fails, ImportFails
  <1>3. CASE Function
    BY <1>3, FunctionAdded DEF Function, Handle, Fails
  <1>4. CASE ImportTable \/ Table
    <2>1. PICK kind \in {"import", "table"} : Handle(kind, "table") /\ AddTable
      BY <1>4 DEF ImportTable, Table
    <2>2. ~MultipleTables(Now)
      BY <2>1 DEF Handle, Fails, ImportFails
    <2>3. tables' \in TableKinds
      <3>1. Now.anyfunc \in BOOLEAN
        BY <2>1, InSection DEF Handle, IsEntry
      <3>2. tables = <<>> /\ tables' = Append(<<>>, Now.anyfunc)
        BY <2>1, <2>2 DEF AddTable, MultipleTables
      <3>3. Append(<<>>, Now.anyfunc) = <<Now.anyfunc>>
        OBVIOUS
      <3> QED
        BY <3>1, <3>2, <3>3, Zenon DEF TableKinds
    <2> QED
      BY <2>1, <2>3, HandleKeeps DEF IInv, AddTable
  <1>5. CASE ImportMemory \/ Memory
    <2>1. PICK kind \in {"import", "memory"} : Handle(kind, "memory") /\ AddMemory
      BY <1>5 DEF ImportMemory, Memory
    <2>2. ~MultipleMemories(Now)
      BY <2>1 DEF Handle, Fails, ImportFails
    <2>3. memories' \in {0, 1}
      BY <2>1, <2>2 DEF IInv, AddMemory, MultipleMemories
    <2> QED
      BY <2>1, <2>3, HandleKeeps DEF IInv, AddMemory
  <1>6. CASE Code
    BY <1>6, BodyAdded
  <1>7. CASE ImportGlobal \/ Global \/ Export \/ Start \/ Element \/ Data \/ Name
    <2>1. UNCHANGED <<types, functions, importFuncOffset, tables, memories>>
      BY <1>7 DEF ImportGlobal, Global, Export, Start, Element, Data, Name, moduleVars
    <2>2. \E kind, op : Handle(kind, op)
      BY <1>7 DEF ImportGlobal, Global, Export, Start, Element, Data, Name
    <2> QED
      BY <2>1, <2>2, HandleKeeps DEF IInv
  <1> QED
    BY <1>1, <1>2, <1>3, <1>4, <1>5, <1>6, <1>7 DEF ReadEntry

\* Every action.
LEMMA Executed ==
    ASSUME IInv, Finish \/ Execute
    PROVE  IInv'
PROOF
  <1>1. CASE Finish
    <2>1. result' \in Results /\ pc' = pc /\ UNCHANGED <<readerVars, moduleVars>>
      BY <1>1 DEF Finish, Results
    <2> QED
      BY <2>1, Stays DEF IInv, readerVars, moduleVars
  <1>2. CASE Execute
    <2>1. UNCHANGED <<readerVars, moduleVars>>
      BY <1>2 DEF Execute
    <2>2. pc' \in {pc, pc + 1} /\ result' \in Results
      BY <1>2 DEF Execute, Store, Check, Copy, Call, Return, runVars, IInv, Results
    <2>3. pc' \in Nat
      BY <2>2 DEF IInv
    <2> QED
      BY <2>1, <2>2, <2>3, Stays DEF readerVars, moduleVars
  <1> QED
    BY <1>1, <1>2

-----------------------------------------------------------------------------

\* The invariant holds of every run, whatever the files.
THEOREM Invariance == Spec => []IInv
PROOF
  <1>1. Init => IInv
    BY DEF Init, IInv, Results, TableKinds, ImportsBelow, ImportsKeepNoBody
  <1>2. IInv /\ [Next]_vars => IInv'
    <2> SUFFICES ASSUME IInv, [Next]_vars
                 PROVE  IInv'
      OBVIOUS
    <2>1. CASE Next
      BY <2>1, SectionRead, EntryRead, Executed DEF Next
    <2>2. CASE UNCHANGED vars
      BY <2>2, Stays DEF IInv, vars, readerVars, moduleVars, runVars
    <2> QED
      BY <2>1, <2>2
  <1> QED
    BY <1>1, <1>2, PTL DEF Spec

\* Every variable keeps its type; there is never a second table or memory
\* (module.cpp:843-846, 870-871), nor an offset past the functions.
THEOREM Typed == Spec => []TypeOK
PROOF
  <1>1. IInv => TypeOK
    <2> SUFFICES ASSUME IInv PROVE TypeOK
      OBVIOUS
    <2>1. \A f \in DOMAIN functions : functions[f].imported \in BOOLEAN /\ functions[f].bodies \in Nat
      <3>1. DOMAIN functions = 1 .. Len(functions)
        BY LenProperties DEF IInv
      <3>2. \A f \in DOMAIN functions : functions[f] \in FunctionRecords
        BY <3>1, ElementOfSeq DEF IInv
      <3> QED
        BY <3>2 DEF FunctionRecords
    <2> QED
      BY <2>1 DEF IInv, TypeOK, TableKinds
  <1> QED
    BY <1>1, Invariance, PTL

\* No section of code, wherever it stands and however often it comes, gives a
\* body to an imported function (module.cpp:862, 1136).
THEOREM ImportsHaveNoBody == Spec => []ImportsKeepNoBody
PROOF
  <1>1. IInv => ImportsKeepNoBody
    BY DEF IInv
  <1> QED
    BY <1>1, Invariance, PTL

-----------------------------------------------------------------------------
(* Where offsets are computed, and used.                                   *)

\* The instructions of a sequence.
In(s) == {s[i] : i \in DOMAIN s}
IsList(s) == s \in Seq(In(s))

\* Appending one list.
LEMMA ListAppended ==
    ASSUME NEW s, IsList(s), NEW e
    PROVE  IsList(Append(s, e)) /\ In(Append(s, e)) = In(s) \cup {e}
PROOF
  <1> DEFINE S == In(s) \cup {e}
             t == Append(s, e)
  <1>1. s \in Seq(S)
    BY SeqMonotonic DEF IsList
  <1>2. /\ t \in Seq(S) /\ Len(t) = Len(s) + 1 /\ t[Len(s) + 1] = e
        /\ \A i \in 1 .. Len(s) : t[i] = s[i]
    <2> HIDE DEF S
    <2>1. e \in S
      BY DEF S
    <2> QED
      BY <1>1, <2>1, AppendProperties
  <1>3. DOMAIN s = 1 .. Len(s) /\ DOMAIN t = 1 .. Len(t) /\ Len(s) \in Nat
    BY <1>1, <1>2, LenProperties
  <1>4. In(t) = S
    <2> HIDE DEF t
    <2> QED
      BY <1>2, <1>3 DEF In
  <1> QED
    BY <1>2, <1>4 DEF IsList

\* Appending them all.
LEMMA ListsJoined ==
    ASSUME NEW s, NEW t, IsList(s), IsList(t)
    PROVE  IsList(s \o t) /\ In(s \o t) = In(s) \cup In(t)
PROOF
  <1> DEFINE S == In(s) \cup In(t)
             u == s \o t
  <1>1. s \in Seq(S) /\ t \in Seq(S)
    BY SeqMonotonic DEF IsList
  <1>2. /\ u \in Seq(S) /\ Len(u) = Len(s) + Len(t)
        /\ \A i \in 1 .. Len(s) + Len(t) : u[i] = IF i <= Len(s) THEN s[i] ELSE t[i - Len(s)]
    <2> HIDE DEF S
    <2> QED
      BY <1>1, ConcatProperties
  <1>3. /\ DOMAIN s = 1 .. Len(s) /\ DOMAIN t = 1 .. Len(t) /\ DOMAIN u = 1 .. Len(s) + Len(t)
        /\ Len(s) \in Nat /\ Len(t) \in Nat
    BY <1>1, <1>2, LenProperties
  <1>4. In(u) \subseteq S
    <2> HIDE DEF u
    <2> QED
      BY <1>2, <1>3 DEF In
  <1>5. In(s) \subseteq In(u)
    <2> HIDE DEF u
    <2>1. \A i \in DOMAIN s : i \in DOMAIN u /\ u[i] = s[i]
      BY <1>2, <1>3
    <2> QED
      BY <2>1 DEF In
  <1>6. In(t) \subseteq In(u)
    <2> HIDE DEF u
    <2>1. \A i \in DOMAIN t : Len(s) + i \in DOMAIN u /\ u[Len(s) + i] = t[i]
      BY <1>2, <1>3
    <2> QED
      BY <2>1 DEF In
  <1> QED
    BY <1>2, <1>4, <1>5, <1>6 DEF IsList

\* An entry of a section of data that follows a segment with content.
Follows(s, i) == file[s].kind = "data" /\ i # 1 /\ file[s].items[i - 1].size > 0

\* The checks emitted so far.
Emitted == {i \in In(entry) \cup In(checks) \cup In(copies) : i.op = "check" /\ i.init.op = "get"}
Misplaced == {i \in Emitted : i.at # "checks"}

\* The builder is in the copies right after a segment with content; a check
\* computes its offset there in such a section only; each entry read leaves
\* its check.
BuilderPlaced ==
    section # 0 =>
        /\ section \in seen
        /\ builder = IF Follows(section, item) THEN "copies" ELSE "checks"
OnlyLate == \A i \in Misplaced : \E s \in seen : LateOffset(s)
LateEmitted ==
    \A s \in seen : \A i \in DOMAIN file[s].items :
        /\ section = 0 \/ s # section \/ i < item
        /\ Follows(s, i) /\ file[s].items[i].offset.op = "get"
        => Misplaced # {}
Judged ==
    /\ result = "refused" => ~Verifies
    /\ Accepted => Verifies
    /\ Accepted \/ result = "refused" => section = 0

OffsetInv ==
    /\ seen \subseteq DOMAIN file
    /\ IsList(entry) /\ IsList(checks) /\ IsList(copies)
    /\ section = 0 => In(checks) = {} /\ In(copies) = {}
    /\ BuilderPlaced /\ OnlyLate /\ LateEmitted /\ Judged

\* The entries of a section.
LEMMA EntriesOf ==
    ASSUME IInv, NEW s \in DOMAIN file
    PROVE  s # 0 /\ Len(file[s].items) \in Nat /\ DOMAIN file[s].items = 1 .. Len(file[s].items)
BY FilesAssumption DEF IInv, IsSequence

\* What neither reads nor emits keeps the invariant.
LEMMA OffsetsStay ==
    ASSUME IInv, OffsetInv, UNCHANGED <<readerVars, builder, checks, copies, entry>>, Judged'
    PROVE  OffsetInv'
PROOF
  <1>1. Misplaced' = Misplaced
    BY DEF Misplaced, Emitted, In
  <1>2. BuilderPlaced'
    BY DEF OffsetInv, BuilderPlaced, Follows, readerVars
  <1>3. OnlyLate'
    BY <1>1 DEF OffsetInv, OnlyLate, LateOffset, readerVars
  <1>4. LateEmitted'
    BY <1>1 DEF OffsetInv, LateEmitted, Follows, readerVars
  <1> QED
    BY <1>2, <1>3, <1>4 DEF OffsetInv, readerVars, IsList, In

\* Entering a section.
LEMMA EnteredOffsets ==
    ASSUME IInv, OffsetInv, Enter
    PROVE  OffsetInv'
PROOF
  <1>1. PICK s \in DOMAIN file : section' = s /\ item' = 1 /\ seen' = seen \cup {s}
    BY DEF Enter
  <1>2. /\ section = 0 /\ Reading /\ builder' = "checks" /\ checks' = <<>> /\ copies' = <<>>
        /\ UNCHANGED <<file, result, entry>>
    BY DEF Enter
  <1>3. In(checks) = {} /\ In(copies) = {} /\ In(<<>>) = {} /\ IsList(<<>>)
    <2>1. In(<<>>) = {}
      BY DEF In
    <2>2. <<>> \in Seq({})
      OBVIOUS
    <2> QED
      BY <1>2, <2>1, <2>2 DEF OffsetInv, IsList
  <1>4. Misplaced' = Misplaced
    BY <1>2, <1>3 DEF Misplaced, Emitted, In
  <1>5. BuilderPlaced'
    BY <1>1, <1>2 DEF BuilderPlaced, Follows
  <1>6. OnlyLate'
    BY <1>1, <1>2, <1>4 DEF OffsetInv, OnlyLate, LateOffset
  <1>7. LateEmitted'
    <2> SUFFICES ASSUME NEW t \in seen', NEW i \in DOMAIN file'[t].items,
                        section' = 0 \/ t # section' \/ i < item',
                        Follows(t, i)', file'[t].items[i].offset.op = "get"
                 PROVE  Misplaced' # {}
      BY DEF LateEmitted
    <2>1. s # 0 /\ t \in DOMAIN file /\ i \in 1 .. Len(file[t].items) /\ Len(file[t].items) \in Nat
      BY <1>1, <1>2, EntriesOf DEF OffsetInv
    <2>2. CASE t \in seen
      BY <2>2, <1>2, <1>4 DEF OffsetInv, LateEmitted, Follows
    <2> QED
      BY <2>1, <2>2, <1>1, <1>2
  <1>8. Judged'
    BY <1>2 DEF Judged, Accepted, Reading
  <1>9. IsList(entry)' /\ IsList(checks)' /\ IsList(copies)' /\ seen' \subseteq DOMAIN file'
    BY <1>1, <1>2, <1>3 DEF OffsetInv, IsList, In
  <1>10. section' = 0 => In(checks)' = {} /\ In(copies)' = {}
    BY <1>2, <1>3 DEF In
  <1> QED
    BY <1>5, <1>6, <1>7, <1>8, <1>9, <1>10 DEF OffsetInv

\* Leaving one.
LEMMA LeftOffsets ==
    ASSUME IInv, OffsetInv, Leave
    PROVE  OffsetInv'
PROOF
  <1>1. /\ section # 0 /\ Reading /\ section' = 0 /\ (Read.kind = "name" \/ item > Len(Read.items))
        /\ entry' = entry \o checks \o copies /\ checks' = <<>> /\ copies' = <<>>
        /\ UNCHANGED <<file, seen, result>>
    BY DEF Leave, More, IInv, Read
  <1>2. /\ IsList(entry)' /\ In(entry)' = In(entry) \cup In(checks) \cup In(copies)
        /\ In(checks)' = {} /\ In(copies)' = {} /\ IsList(checks)' /\ IsList(copies)'
    <2>1. In(<<>>) = {} /\ IsList(<<>>)
      <3>1. In(<<>>) = {}
        BY DEF In
      <3>2. <<>> \in Seq({})
        OBVIOUS
      <3> QED
        BY <3>1, <3>2 DEF IsList
    <2>2. IsList(entry \o checks) /\ In(entry \o checks) = In(entry) \cup In(checks)
      BY ListsJoined DEF OffsetInv
    <2>3. /\ IsList((entry \o checks) \o copies)
          /\ In((entry \o checks) \o copies) = In(entry \o checks) \cup In(copies)
      BY <2>2, ListsJoined DEF OffsetInv
    <2>4. In(entry)' = In(entry') /\ In(checks)' = In(checks') /\ In(copies)' = In(copies')
      BY DEF In
    <2>5. (IsList(entry)' <=> IsList(entry')) /\ (IsList(checks)' <=> IsList(checks'))
          /\ (IsList(copies)' <=> IsList(copies'))
      BY DEF IsList, In
    <2> QED
      BY <1>1, <2>1, <2>2, <2>3, <2>4, <2>5
  <1>3. Misplaced' = Misplaced
    BY <1>2 DEF Misplaced, Emitted
  <1>4. OnlyLate'
    BY <1>1, <1>3 DEF OffsetInv, OnlyLate, LateOffset
  <1>5. LateEmitted'
    <2> SUFFICES ASSUME NEW t \in seen', NEW i \in DOMAIN file'[t].items,
                        Follows(t, i)', file'[t].items[i].offset.op = "get"
                 PROVE  Misplaced' # {}
      BY DEF LateEmitted
    <2>1. t \in DOMAIN file /\ i \in 1 .. Len(file[t].items) /\ Len(file[t].items) \in Nat
      BY <1>1, EntriesOf DEF OffsetInv
    <2>2. t # section \/ i < item
      BY <2>1, <1>1 DEF Read, IInv, Follows
    <2> QED
      BY <2>1, <2>2, <1>1, <1>3 DEF OffsetInv, LateEmitted, Follows
  <1>6. BuilderPlaced' /\ Judged'
    BY <1>1 DEF BuilderPlaced, Judged, Accepted, Reading
  <1> QED
    BY <1>1, <1>2, <1>4, <1>5, <1>6 DEF OffsetInv

\* An entry that leaves no check of an offset taken from a global elsewhere
\* than in the checks.
LEMMA EntryKeeps ==
    ASSUME IInv, OffsetInv, NEW kind, NEW op, Handle(kind, op), kind # "data",
           UNCHANGED <<builder, entry>>, IsList(checks)', IsList(copies)', Misplaced' = Misplaced
    PROVE  OffsetInv'
PROOF
  <1>1. /\ section \in DOMAIN file /\ section # 0 /\ Reading /\ file[section].kind = kind
        /\ item' = item + 1 /\ UNCHANGED <<file, section, seen, result>>
    BY InSection DEF Handle, InEntry, Read
  <1>2. \A i : ~Follows(section, i)
    BY <1>1 DEF Follows
  <1>3. BuilderPlaced'
    BY <1>1, <1>2 DEF OffsetInv, BuilderPlaced, Follows
  <1>4. OnlyLate'
    BY <1>1 DEF OffsetInv, OnlyLate, LateOffset
  <1>5. LateEmitted'
    BY <1>1, <1>2 DEF OffsetInv, LateEmitted, Follows
  <1>6. Judged'
    BY <1>1 DEF Judged, Accepted, Reading
  <1>7. IsList(entry)' /\ seen' \subseteq DOMAIN file'
    BY <1>1 DEF OffsetInv, IsList, In
  <1> QED
    BY <1>1, <1>3, <1>4, <1>5, <1>6, <1>7 DEF OffsetInv

\* Entries that use no index.
LEMMA QuietEntry ==
    ASSUME IInv, OffsetInv, NEW kind, NEW op, Handle(kind, op), kind # "data",
           UNCHANGED <<builder, entry, checks, copies>>
    PROVE  OffsetInv'
PROOF
  <1>1. IsList(checks)' /\ IsList(copies)' /\ Misplaced' = Misplaced
    BY DEF OffsetInv, IsList, In, Misplaced, Emitted
  <1> QED
    BY <1>1, EntryKeeps

\* An entry of the globals.
LEMMA GlobalOffsets ==
    ASSUME IInv, OffsetInv, Global
    PROVE  OffsetInv'
PROOF
  <1>1. Handle("global", "global") /\ UNCHANGED <<builder, checks, entry>>
    BY DEF Global
  <1>2. CASE copies' = copies
    BY <1>1, <1>2, QuietEntry
  <1>3. CASE copies' # copies
    <2> DEFINE e == Instr("store", Len(globals) + 1, Now.init, builder, 0)
    <2>1. copies' = Append(copies, e) /\ e.op # "check"
      BY <1>3 DEF Global, Instr
    <2> HIDE DEF e
    <2>2. IsList(Append(copies, e)) /\ In(Append(copies, e)) = In(copies) \cup {e}
      BY ListAppended DEF OffsetInv
    <2>3. IsList(copies)' /\ In(copies)' = In(copies) \cup {e}
      BY <2>1, <2>2 DEF IsList, In
    <2>4. IsList(checks)' /\ In(checks)' = In(checks) /\ In(entry)' = In(entry)
      BY <1>1 DEF OffsetInv, IsList, In
    <2>5. Misplaced' = Misplaced
      BY <2>1, <2>3, <2>4 DEF Misplaced, Emitted
    <2> QED
      BY <1>1, <2>3, <2>4, <2>5, EntryKeeps
  <1> QED
    BY <1>2, <1>3

\* A segment appends its check and, with content, its copy.
LEMMA SegmentEmitted ==
    ASSUME OffsetInv, NEW check, NEW copy, entry' = entry,
           checks' = Append(checks, check), copies' \in {copies, Append(copies, copy)}
    PROVE  /\ IsList(checks)' /\ In(checks)' = In(checks) \cup {check}
           /\ IsList(copies)' /\ In(copies)' \in {In(copies), In(copies) \cup {copy}}
           /\ IsList(entry)' /\ In(entry)' = In(entry)
PROOF
  <1>1. IsList(entry) /\ IsList(checks) /\ IsList(copies)
    BY DEF OffsetInv
  <1>2. /\ IsList(Append(checks, check)) /\ In(Append(checks, check)) = In(checks) \cup {check}
        /\ IsList(Append(copies, copy)) /\ In(Append(copies, copy)) = In(copies) \cup {copy}
    BY <1>1, ListAppended
  <1>3. /\ (IsList(checks)' <=> IsList(checks')) /\ In(checks)' = In(checks')
        /\ (IsList(copies)' <=> IsList(copies')) /\ In(copies)' = In(copies')
        /\ (IsList(entry)' <=> IsList(entry')) /\ In(entry)' = In(entry')
    BY DEF IsList, In
  <1>4. IsList(checks') /\ In(checks') = In(checks) \cup {check}
    BY <1>2
  <1>5. CASE copies' = copies
    BY <1>1, <1>3, <1>4, <1>5
  <1>6. CASE copies' = Append(copies, copy)
    BY <1>1, <1>2, <1>3, <1>4, <1>6
  <1> QED
    BY <1>5, <1>6

\* An entry of the elements.
LEMMA ElementOffsets ==
    ASSUME IInv, OffsetInv, Element
    PROVE  OffsetInv'
PROOF
  <1> DEFINE length == IF OfFunctions(Now.table) THEN Len(Now.functions) ELSE 0
             check == Instr("check", item, Now.offset, "checks", length)
             copy == Instr("copy", item, Now.offset, "copies", length)
  <1>1. /\ Handle("element", "segment") /\ UNCHANGED <<builder, entry>>
        /\ checks' = Append(checks, check) /\ copies' \in {copies, Append(copies, copy)}
    BY DEF Element
  <1>2. check.at = "checks" /\ copy.op = "copy"
    BY DEF Instr
  <1> HIDE DEF check, copy
  <1>4. /\ IsList(checks)' /\ In(checks)' = In(checks) \cup {check}
        /\ IsList(copies)' /\ In(copies)' \in {In(copies), In(copies) \cup {copy}}
        /\ In(entry)' = In(entry)
    BY <1>1, SegmentEmitted
  <1>5. Misplaced' = Misplaced
    BY <1>2, <1>4 DEF Misplaced, Emitted
  <1> QED
    BY <1>1, <1>4, <1>5, EntryKeeps

\* A segment of data: the check is misplaced when it follows one with content
\* and takes its offset from a global, and the next one follows this one.
LEMMA DataOffsets ==
    ASSUME IInv, OffsetInv, Data
    PROVE  OffsetInv'
PROOF
  <1> DEFINE check == Instr("check", item, Now.offset, builder, Now.size)
             copy == Instr("copy", item, Now.offset, builder, Now.size)
  <1>1. /\ Handle("data", "segment") /\ entry' = entry
        /\ checks' = Append(checks, check) /\ copies' \in {copies, Append(copies, copy)}
        /\ builder' = IF Now.size > 0 THEN "copies" ELSE "checks"
    BY DEF Data
  <1>2. /\ section \in DOMAIN file /\ section # 0 /\ Reading /\ file[section].kind = "data"
        /\ item \in DOMAIN file[section].items /\ item \in Nat /\ item >= 1
        /\ item' = item + 1 /\ UNCHANGED <<file, section, seen, result>>
        /\ section \in seen
    BY <1>1, InSection DEF Handle, InEntry, Read, IInv, OffsetInv, BuilderPlaced
  <1>3. /\ check.op = "check" /\ check.at = builder /\ check.init = file[section].items[item].offset
        /\ copy.op = "copy"
    BY DEF Instr, Now, Read
  <1>4. builder = IF Follows(section, item) THEN "copies" ELSE "checks"
    BY <1>2 DEF OffsetInv, BuilderPlaced
  <1> HIDE DEF check, copy
  <1>6. /\ IsList(checks)' /\ In(checks)' = In(checks) \cup {check}
        /\ IsList(copies)' /\ In(copies)' \in {In(copies), In(copies) \cup {copy}}
        /\ IsList(entry)' /\ In(entry)' = In(entry)
    BY <1>1, SegmentEmitted
  <1>7. Misplaced' = IF check.init.op = "get" /\ builder # "checks" THEN Misplaced \cup {check} ELSE Misplaced
    BY <1>3, <1>6 DEF Misplaced, Emitted
  <1>8. OnlyLate'
    <2>1. CASE check.init.op = "get" /\ builder # "checks"
      <3>1. LateOffset(section)
        BY <2>1, <1>2, <1>3, <1>4 DEF LateOffset, Follows
      <3> QED
        BY <3>1, <2>1, <1>2, <1>7 DEF OffsetInv, OnlyLate, LateOffset
    <2>2. CASE ~(check.init.op = "get" /\ builder # "checks")
      BY <2>2, <1>2, <1>7 DEF OffsetInv, OnlyLate, LateOffset
    <2> QED
      BY <2>1, <2>2
  <1>9. LateEmitted'
    <2> SUFFICES ASSUME NEW t \in seen', NEW i \in DOMAIN file'[t].items,
                        section' = 0 \/ t # section' \/ i < item',
                        Follows(t, i)', file'[t].items[i].offset.op = "get"
                 PROVE  Misplaced' # {}
      BY DEF LateEmitted
    <2>1. t \in DOMAIN file /\ i \in DOMAIN file[t].items /\ i \in Nat /\ Follows(t, i)
      BY <1>2, EntriesOf DEF OffsetInv, Follows
    <2>2. CASE t = section /\ i = item
      BY <2>1, <2>2, <1>2, <1>3, <1>4, <1>7
    <2>3. CASE ~(t = section /\ i = item)
      <3>1. t # section \/ i < item
        BY <2>1, <2>3, <1>2
      <3>2. Misplaced # {}
        BY <3>1, <2>1, <1>2 DEF OffsetInv, LateEmitted
      <3> QED
        BY <3>2, <1>7
    <2> QED
      BY <2>2, <2>3
  <1>10. BuilderPlaced'
    <2>1. Follows(section, item + 1) <=> Now.size > 0
      BY <1>2 DEF Follows, Now, Read
    <2>2. Follows(section, item)' <=> Follows(section, item + 1)
      BY <1>2 DEF Follows
    <2> QED
      BY <2>1, <2>2, <1>1, <1>2 DEF BuilderPlaced
  <1>11. Judged'
    BY <1>2 DEF Judged, Accepted, Reading
  <1> QED
    BY <1>2, <1>6, <1>8, <1>9, <1>10, <1>11 DEF OffsetInv

\* Every entry.
LEMMA EntryOffsets ==
    ASSUME IInv, OffsetInv, ReadEntry
    PROVE  OffsetInv'
PROOF
  <1>1. CASE Global
    BY <1>1, GlobalOffsets
  <1>2. CASE Element
    BY <1>2, ElementOffsets
  <1>3. CASE Data
    BY <1>3, DataOffsets
  <1>4. CASE Type \/ ImportFunction \/ ImportGlobal \/ ImportTable \/ ImportMemory \/ Function
             \/ Table \/ Memory \/ Export \/ Start \/ Code \/ Name
    <2>1. PICK kind \in Kinds \ {"data"} : \E op : Handle(kind, op)
      BY <1>4 DEF Type, ImportFunction, ImportGlobal, ImportTable, ImportMemory, Function, Table,
                  Memory, Export, Start, Code, Name, Kinds
    <2>2. UNCHANGED <<builder, entry, checks, copies>>
      BY <1>4 DEF Type, ImportFunction, ImportGlobal, ImportTable, ImportMemory, Function, Table,
                  Memory, Export, Start, Code, Name, AddFunction, AddTable, AddMemory, codeVars
    <2> QED
      BY <2>1, <2>2, QuietEntry
  <1> QED
    BY <1>1, <1>2, <1>3, <1>4 DEF ReadEntry

\* Every section.
LEMMA SectionOffsets ==
    ASSUME IInv, OffsetInv, ReadSection
    PROVE  OffsetInv'
PROOF
  <1>1. CASE Enter
    BY <1>1, EnteredOffsets
  <1>2. CASE Leave
    BY <1>2, LeftOffsets
  <1>3. CASE UnknownSection \/ DataWithoutMemory \/ Astray \/ Throw \/ Undecodable
    <2>1. /\ result' \in {"malformed", "invalid", "error", "astray"}
          /\ UNCHANGED <<readerVars, codeVars>>
      BY <1>3 DEF UnknownSection, DataWithoutMemory, Astray, Throw, Undecodable
    <2>2. Judged'
      BY <2>1 DEF Judged, Accepted
    <2> QED
      BY <2>1, <2>2, OffsetsStay DEF codeVars
  <1> QED
    BY <1>1, <1>2, <1>3 DEF ReadSection

\* Every action.
LEMMA ExecutedOffsets ==
    ASSUME IInv, OffsetInv, Finish \/ Execute
    PROVE  OffsetInv'
PROOF
  <1>1. UNCHANGED <<readerVars, codeVars>>
    BY DEF Finish, Execute
  <1>2. Verifies' <=> Verifies
    BY <1>1 DEF Verifies, codeVars
  <1>3. CASE Finish
    <2>1. Judged'
      BY <1>1, <1>2, <1>3 DEF Finish, Judged, Accepted, readerVars
    <2> QED
      BY <1>1, <2>1, OffsetsStay DEF codeVars
  <1>4. CASE Execute
    <2>1. Accepted /\ Accepted' /\ result' # "refused"
      BY <1>4 DEF Execute, Store, Check, Copy, Call, Return, Running, Accepted
    <2>2. Judged'
      BY <1>1, <1>2, <2>1 DEF OffsetInv, Judged, readerVars
    <2> QED
      BY <1>1, <2>2, OffsetsStay DEF codeVars
  <1> QED
    BY <1>3, <1>4

\* Which offsets the code computes after it has copied a segment, and that the verifier refuses those alone.
THEOREM OffsetInvariance == Spec => []OffsetInv
PROOF
  <1>1. Init => OffsetInv
    <2> SUFFICES ASSUME Init PROVE OffsetInv
      OBVIOUS
    <2>1. entry = <<>> /\ checks = <<>> /\ copies = <<>> /\ seen = {} /\ section = 0 /\ result = "reading"
      BY DEF Init
    <2>2. In(<<>>) = {}
      BY DEF In
    <2>3. <<>> \in Seq({})
      OBVIOUS
    <2>4. Misplaced = {}
      BY <2>1, <2>2 DEF Misplaced, Emitted
    <2> QED
      BY <2>1, <2>2, <2>3, <2>4 DEF OffsetInv, IsList, BuilderPlaced, OnlyLate, LateEmitted, Judged, Accepted
  <1>2. IInv /\ OffsetInv /\ [Next]_vars => OffsetInv'
    <2> SUFFICES ASSUME IInv, OffsetInv, [Next]_vars
                 PROVE  OffsetInv'
      OBVIOUS
    <2>1. CASE Next
      BY <2>1, SectionOffsets, EntryOffsets, ExecutedOffsets DEF Next
    <2>2. CASE UNCHANGED vars
      <3>1. UNCHANGED <<readerVars, codeVars, result>>
        BY <2>2 DEF vars
      <3>2. Judged'
        BY <3>1 DEF OffsetInv, Judged, Accepted, Verifies, readerVars, codeVars
      <3> QED
        BY <3>1, <3>2, OffsetsStay DEF codeVars
    <2> QED
      BY <2>1, <2>2
  <1> QED
    BY <1>1, <1>2, Invariance, PTL DEF Spec

\* A module is refused after reading if, and only if, a segment of data takes
\* its offset from a global right after a segment with content
\* (module.cpp:1066-1119): no other placing of globals and segments fails.
THEOREM LateOffsetsAreRefused == Spec => []LateOffsetsRefused
PROOF
  <1>1. IInv /\ OffsetInv => LateOffsetsRefused
    <2> SUFFICES ASSUME IInv, OffsetInv
                 PROVE  LateOffsetsRefused
      OBVIOUS
    <2>1. ASSUME section = 0
          PROVE  Verifies <=> Misplaced = {}
      BY <2>1 DEF OffsetInv, Verifies, Misplaced, Emitted, In
    <2>2. ASSUME result = "refused"
          PROVE  \E s \in seen : LateOffset(s)
      <3>1. Misplaced # {}
        BY <2>1, <2>2 DEF OffsetInv, Judged
      <3> QED
        BY <3>1 DEF OffsetInv, OnlyLate
    <2>3. ASSUME Accepted, NEW s \in seen, LateOffset(s)
          PROVE  FALSE
      <3>1. section = 0 /\ Misplaced = {}
        BY <2>1, <2>3 DEF OffsetInv, Judged
      <3>2. PICK i \in DOMAIN file[s].items \ {1} :
               file[s].items[i].offset.op = "get" /\ file[s].items[i - 1].size > 0
        BY <2>3 DEF LateOffset
      <3>3. Follows(s, i)
        BY <2>3, <3>2 DEF Follows, LateOffset
      <3> QED
        BY <3>1, <3>2, <3>3 DEF OffsetInv, LateEmitted
    <2> QED
      BY <2>2, <2>3 DEF LateOffsetsRefused
  <1> QED
    BY <1>1, Invariance, OffsetInvariance, PTL

-----------------------------------------------------------------------------
(* Where sections start.                                                   *)

\* A set of naturals with zero and the successors of its elements has them all.
LEMMA AllNaturals ==
    ASSUME NEW T, 0 \in T, \A n \in Nat : n \in T => n + 1 \in T
    PROVE  \A n \in Nat : n \in T
PROOF
  <1> DEFINE F == {n \in Nat : n \notin T}
             R == OpToRel(<, Nat)
  <1> SUFFICES ASSUME F # {} PROVE FALSE
    OBVIOUS
  <1>1. PICK x \in F : \A y \in F : ~ (<<y, x>> \in R)
    <2> HIDE DEF F
    <2>1. IsWellFoundedOn(R, Nat)
      BY NatLessThanWellFounded
    <2>2. F \subseteq Nat
      BY DEF F
    <2> QED
      BY <2>1, <2>2, WFMin
  <1>2. \A y \in F : ~ (y < x)
    BY <1>1 DEF OpToRel
  <1>3. x # 0
    OBVIOUS
  <1>4. x - 1 \in Nat /\ x - 1 \notin F
    BY <1>2, <1>3
  <1> QED
    BY <1>4

\* The lengths of the sections add up.
LEMMA StartsExist ==
    ASSUME IInv
    PROVE  \E f \in [1 .. Len(file) + 1 -> Nat] :
             f[1] = 0 /\ \A k \in 1 .. Len(file) : f[k + 1] = f[k] + file[k].length
PROOF
  <1>1. Len(file) \in Nat /\ DOMAIN file = 1 .. Len(file) /\ \A k \in 1 .. Len(file) : file[k].length \in Nat
    BY FilesAssumption DEF IInv, IsSequence
  <1> DEFINE Sums(n) ==
               \E f \in [1 .. n + 1 -> Nat] : f[1] = 0 /\ \A k \in 1 .. n : f[k + 1] = f[k] + file[k].length
             T == {n \in Nat : n <= Len(file) => Sums(n)}
  <1>2. 0 \in T
    <2>1. [k \in 1 .. 1 |-> 0] \in [1 .. 0 + 1 -> Nat] /\ [k \in 1 .. 1 |-> 0][1] = 0
      OBVIOUS
    <2>2. 1 .. 0 = {}
      OBVIOUS
    <2>3. Sums(0)
      BY <2>1, <2>2
    <2> QED
      BY <2>3
  <1>3. ASSUME NEW n \in Nat, n \in T PROVE n + 1 \in T
    <2> SUFFICES ASSUME n + 1 <= Len(file) PROVE Sums(n + 1)
      <3> HIDE DEF Sums
      <3> QED
        OBVIOUS
    <2>1. n <= Len(file) /\ n + 1 \in 1 .. Len(file)
      BY <1>1
    <2>2. PICK f \in [1 .. n + 1 -> Nat] : f[1] = 0 /\ \A k \in 1 .. n : f[k + 1] = f[k] + file[k].length
      BY <1>3, <2>1
    <2> DEFINE g == [k \in 1 .. (n + 1) + 1 |-> IF k \in 1 .. n + 1 THEN f[k] ELSE f[n + 1] + file[n + 1].length]
    <2>3. n + 1 \in 1 .. n + 1 /\ f[n + 1] + file[n + 1].length \in Nat
      BY <1>1, <2>1
    <2>4. g \in [1 .. (n + 1) + 1 -> Nat]
      BY <2>3
    <2>5. /\ \A k \in 1 .. n + 1 : g[k] = f[k]
          /\ g[(n + 1) + 1] = f[n + 1] + file[n + 1].length
      OBVIOUS
    <2> HIDE DEF g
    <2>6. \A k \in 1 .. n + 1 : g[k + 1] = g[k] + file[k].length
      <3> SUFFICES ASSUME NEW k \in 1 .. n + 1 PROVE g[k + 1] = g[k] + file[k].length
        OBVIOUS
      <3>1. CASE k = n + 1
        BY <2>3, <2>5, <3>1
      <3>2. CASE k # n + 1
        <4>1. k \in 1 .. n /\ k + 1 \in 1 .. n + 1
          BY <3>2
        <4> QED
          BY <2>2, <2>5, <4>1
      <3> QED
        BY <3>1, <3>2
    <2>7. g[1] = 0
      BY <2>2, <2>5
    <2> QED
      BY <2>4, <2>6, <2>7
  <1> HIDE DEF T
  <1>4. \A n \in Nat : n \in T
    BY <1>2, <1>3, AllNaturals
  <1>5. Sums(Len(file))
    <2> HIDE DEF Sums
    <2> QED
      BY <1>1, <1>4 DEF T
  <1> QED
    BY <1>5

\* A section starts where the one before it ends.
LEMMA Starts ==
    ASSUME IInv
    PROVE  /\ Len(file) \in Nat /\ DOMAIN file = 1 .. Len(file)
           /\ StartOf \in [1 .. Len(file) + 1 -> Nat] /\ StartOf[1] = 0
           /\ \A k \in 1 .. Len(file) : StartOf[k + 1] = StartOf[k] + file[k].length /\ file[k].length \in Nat \ {0}
PROOF
  <1>1. Len(file) \in Nat /\ DOMAIN file = 1 .. Len(file) /\ \A k \in 1 .. Len(file) : file[k].length \in Nat \ {0}
    BY FilesAssumption DEF IInv, IsSequence
  <1> DEFINE body(f, s) == IF s = 1 THEN 0 ELSE f[s - 1] + file[s - 1].length
             sums(f) == f = [s \in 1 .. Len(file) + 1 |-> body(f, s)]
  <1>2. PICK g \in [1 .. Len(file) + 1 -> Nat] :
          g[1] = 0 /\ \A k \in 1 .. Len(file) : g[k + 1] = g[k] + file[k].length
    BY StartsExist
  <1>3. sums(g)
    <2>1. ASSUME NEW s \in 1 .. Len(file) + 1 PROVE g[s] = body(g, s)
      <3>1. CASE s = 1
        BY <1>2, <3>1
      <3>2. CASE s # 1
        <4>1. PICK k \in 1 .. Len(file) : s = k + 1
          <5>1. s - 1 \in 1 .. Len(file) /\ s = (s - 1) + 1
            BY <1>1, <3>2
          <5> QED
            BY <5>1
        <4>2. s - 1 = k
          BY <4>1, <1>1
        <4> QED
          BY <1>2, <3>2, <4>1, <4>2
      <3> QED
        BY <3>1, <3>2
    <2> HIDE DEF body
    <2> QED
      BY <2>1
  <1>4. StartOf = CHOOSE f : sums(f)
    BY Zenon DEF StartOf
  <1>5. sums(StartOf)
    <2> HIDE DEF sums
    <2> QED
      BY <1>3, <1>4
  <1>6. \A s \in 1 .. Len(file) + 1 : StartOf[s] = body(StartOf, s)
    <2> HIDE DEF body
    <2> QED
      BY <1>5
  <1>7. StartOf[1] = 0
    BY <1>1, <1>6
  <1>8. \A k \in 1 .. Len(file) : StartOf[k + 1] = StartOf[k] + file[k].length
    <2> SUFFICES ASSUME NEW k \in 1 .. Len(file) PROVE StartOf[k + 1] = StartOf[k] + file[k].length
      OBVIOUS
    <2>1. k + 1 \in 1 .. Len(file) + 1 /\ k + 1 # 1 /\ (k + 1) - 1 = k
      BY <1>1
    <2> QED
      BY <1>6, <2>1
  <1>9. DOMAIN StartOf = 1 .. Len(file) + 1
    <2> HIDE DEF body
    <2> QED
      BY <1>5
  <1>10. \A s \in 1 .. Len(file) + 1 : StartOf[s] \in Nat
    <2> DEFINE T == {n \in Nat : n + 1 <= Len(file) + 1 => StartOf[n + 1] \in Nat}
    <2>1. 0 \in T
      BY <1>7
    <2>2. ASSUME NEW n \in Nat, n \in T PROVE n + 1 \in T
      <3> SUFFICES ASSUME (n + 1) + 1 <= Len(file) + 1 PROVE StartOf[(n + 1) + 1] \in Nat
        OBVIOUS
      <3>1. n + 1 \in 1 .. Len(file) /\ StartOf[n + 1] \in Nat
        BY <1>1, <2>2
      <3> QED
        BY <1>1, <1>8, <3>1
    <2> HIDE DEF T
    <2>3. \A n \in Nat : n \in T
      BY <2>1, <2>2, AllNaturals
    <2>4. ASSUME NEW s \in 1 .. Len(file) + 1 PROVE StartOf[s] \in Nat
      <3>1. s - 1 \in Nat /\ (s - 1) + 1 = s /\ s <= Len(file) + 1
        BY <1>1
      <3> QED
        BY <2>3, <3>1 DEF T
    <2> QED
      BY <2>4
  <1>11. StartOf \in [1 .. Len(file) + 1 -> Nat]
    <2>1. StartOf = [s \in 1 .. Len(file) + 1 |-> StartOf[s]]
      <3> HIDE DEF body
      <3> QED
        BY <1>5, <1>6
    <2> QED
      BY <1>10, <2>1
  <1> QED
    BY <1>1, <1>7, <1>8, <1>11

\* Later sections start later.
LEMMA StartsApart ==
    ASSUME IInv
    PROVE  \A s, t \in 1 .. Len(file) + 1 : s < t => StartOf[s] < StartOf[t]
PROOF
  <1> DEFINE Apart(n) == \A s \in 1 .. Len(file) + 1 :
                           s + (n + 1) <= Len(file) + 1 => StartOf[s] < StartOf[s + (n + 1)]
             T == {n \in Nat : Apart(n)}
  <1>1. /\ Len(file) \in Nat /\ StartOf \in [1 .. Len(file) + 1 -> Nat]
        /\ \A k \in 1 .. Len(file) : StartOf[k] < StartOf[k + 1]
    <2>1. Len(file) \in Nat /\ StartOf \in [1 .. Len(file) + 1 -> Nat]
      BY Starts
    <2>2. ASSUME NEW k \in 1 .. Len(file) PROVE StartOf[k] < StartOf[k + 1]
      <3>1. StartOf[k + 1] = StartOf[k] + file[k].length /\ file[k].length \in Nat \ {0}
        BY Starts
      <3>2. k \in 1 .. Len(file) + 1 /\ StartOf[k] \in Nat
        BY <2>1
      <3> QED
        BY <3>1, <3>2
    <2> QED
      BY <2>1, <2>2
  <1>2. 0 \in T
    <2>1. ASSUME NEW s \in 1 .. Len(file) + 1, s + (0 + 1) <= Len(file) + 1
          PROVE  StartOf[s] < StartOf[s + (0 + 1)]
      <3>1. s \in 1 .. Len(file) /\ s + (0 + 1) = s + 1
        BY <1>1, <2>1
      <3> QED
        BY <1>1, <3>1
    <2> QED
      BY <2>1
  <1>3. ASSUME NEW n \in Nat, n \in T PROVE n + 1 \in T
    <2>1. ASSUME NEW s \in 1 .. Len(file) + 1, s + ((n + 1) + 1) <= Len(file) + 1
          PROVE  StartOf[s] < StartOf[s + ((n + 1) + 1)]
      <3>1. PICK m \in 1 .. Len(file) : m = s + (n + 1) /\ s + ((n + 1) + 1) = m + 1
        <4>1. s + (n + 1) \in 1 .. Len(file) /\ s + ((n + 1) + 1) = (s + (n + 1)) + 1
          BY <1>1, <2>1
        <4> QED
          BY <4>1
      <3>2. StartOf[s] < StartOf[m]
        BY <1>1, <1>3, <3>1
      <3>3. StartOf[m] < StartOf[m + 1]
        BY <1>1
      <3>4. StartOf[s] \in Nat /\ StartOf[m] \in Nat /\ StartOf[m + 1] \in Nat
        <4>1. m \in 1 .. Len(file) + 1 /\ m + 1 \in 1 .. Len(file) + 1
          BY <1>1
        <4> QED
          BY <1>1, <4>1
      <3> QED
        BY <3>1, <3>2, <3>3, <3>4
    <2> QED
      BY <2>1
  <1> HIDE DEF T
  <1>4. \A n \in Nat : n \in T
    BY <1>2, <1>3, AllNaturals
  <1>5. ASSUME NEW s \in 1 .. Len(file) + 1, NEW t \in 1 .. Len(file) + 1, s < t
        PROVE  StartOf[s] < StartOf[t]
    <2>1. (t - s) - 1 \in Nat /\ s + (((t - s) - 1) + 1) = t
      BY <1>1, <1>5
    <2>2. Apart((t - s) - 1)
      <3> HIDE DEF Apart
      <3> QED
        BY <1>4, <2>1 DEF T
    <2> QED
      BY <2>1, <2>2
  <1> QED
    BY <1>5

-----------------------------------------------------------------------------
(* Where the reader stands.                                                *)

\* The reader goes forward: the sections it has read start before the one it
\* reads, or before the byte it stands at.
Forward ==
    /\ seen \subseteq DOMAIN file
    /\ section # 0 => section \in seen /\ cursor >= StartOf[section] + Read.head
    /\ \A s \in seen : IF section = 0 THEN StartOf[s] < cursor ELSE s <= section

\* The first k sections have been read, and the reader is at the end of the last
\* or in it, behind the entries it has read of it.
Inside(k) ==
    /\ section = k /\ item \in 1 .. Len(file[k].items) + 1
    /\ cursor = StartOf[k] + After(k, item - 1)
    /\ file[k].kind = "name" => item = 1
StandsAt(k) ==
    /\ seen = 1 .. k
    /\ IF section = 0 THEN cursor = StartOf[k + 1] ELSE Inside(k)
OnTrack ==
    \/ \E s \in seen : Misread(s)
    \/ result # "astray" /\ \E k \in 0 .. Len(file) : StandsAt(k)

StepInv == Forward /\ OnTrack

\* A section that is misread stays so: a table is not replaced.
LEMMA MisreadStays ==
    ASSUME NEW s, Misread(s), file' = file, tables' = tables \/ tables = <<>>
    PROVE  Misread(s)'
PROOF
  <1>1. WellLaid(s)' <=> WellLaid(s)
    BY DEF WellLaid, After, Content
  <1>2. \A t : t \in DOMAIN tables /\ ~tables[t] => t \in DOMAIN tables' /\ ~tables'[t]
    OBVIOUS
  <1> QED
    BY <1>1, <1>2 DEF Misread

\* The tables are those read so far.
LEMMA TablesStay ==
    ASSUME [Next]_vars
    PROVE  tables' = tables \/ tables = <<>>
PROOF
  <1>1. CASE ReadSection
    BY <1>1 DEF ReadSection, Enter, UnknownSection, DataWithoutMemory, Astray, Leave, Throw, Undecodable, moduleVars
  <1>2. CASE ImportTable \/ Table
    BY <1>2 DEF ImportTable, Table, Handle, Fails, ImportFails, MultipleTables
  <1>3. CASE ReadEntry /\ ~(ImportTable \/ Table)
    BY <1>3 DEF ReadEntry, Type, ImportFunction, ImportGlobal, ImportMemory, Function, Memory, Global, Export,
                Start, Element, Code, Data, Name, AddFunction, AddMemory, moduleVars
  <1>4. CASE Finish \/ Execute \/ UNCHANGED vars
    BY <1>4 DEF Finish, Execute, moduleVars, vars
  <1> QED
    BY <1>1, <1>2, <1>3, <1>4 DEF Next

\* A step that reads no identifier, no entry and leaves no section.
LEMMA StandsStill ==
    ASSUME IInv, StepInv, UNCHANGED <<file, cursor, section, item, seen>>,
           result' # "astray" \/ result' = result, tables' = tables
    PROVE  StepInv'
PROOF
  <1>1. StartOf' = StartOf
    BY SMT DEF StartOf
  <1>2. Forward'
    BY <1>1 DEF StepInv, Forward, Read
  <1>3. \A k : StandsAt(k)' <=> StandsAt(k)
    BY <1>1 DEF StandsAt, Inside, After, Content
  <1>4. \A s : Misread(s) => Misread(s)'
    BY MisreadStays
  <1>5. OnTrack'
    BY <1>3, <1>4 DEF StepInv, OnTrack
  <1> QED
    BY <1>2, <1>5 DEF StepInv

\* Where an entry is due, there it is: unless the section is misread.
LEMMA DueInPlace ==
    ASSUME IInv, section # 0, Inside(section), ~Misread(section), More
    PROVE  InPlace /\ WellLaid(section) /\ Read.kind \notin {"custom", "name"}
PROOF
  <1>1. /\ section \in DOMAIN file /\ Read = file[section] /\ Read.length \in Nat /\ Read.head \in Nat
        /\ Len(Read.items) \in Nat /\ DOMAIN Read.items = 1 .. Len(Read.items)
        /\ (Read.kind = "custom" => Read.items = <<>>)
    BY FilesAssumption DEF IInv, Read, IsSequence
  <1>2. StartOf[section] \in Nat
    BY <1>1, Starts
  <1>3. Read.kind # "name"
    <2> SUFFICES ASSUME Read.kind = "name" PROVE FALSE
      OBVIOUS
    <2>1. cursor = StartOf[section] + Read.head
      BY <1>1 DEF Inside, After
    <2> QED
      BY <1>1, <1>2, <2>1 DEF Misread, More
  <1>4. item <= Len(Read.items) /\ item \in DOMAIN Read.items
    BY <1>1, <1>3 DEF More, Inside
  <1>5. Read.kind # "custom"
    BY <1>1, <1>4
  <1>6. WellLaid(section)
    BY <1>1, <1>3, <1>5 DEF Misread
  <1> QED
    BY <1>1, <1>3, <1>4, <1>5, <1>6 DEF WellLaid, Inside, InPlace, Now

\* An entry is read to its end, unless the section is misread.
LEMMA HandleSteps ==
    ASSUME IInv, StepInv, NEW kind, NEW op, Handle(kind, op), tables' = tables \/ tables = <<>>
    PROVE  StepInv'
PROOF
  <1>1. /\ section # 0 /\ section \in DOMAIN file /\ Read = file[section] /\ InEntry /\ ~Fails(Now)
        /\ item \in DOMAIN Read.items /\ item >= 1
        /\ UNCHANGED <<file, section, seen, result>> /\ item' = item + 1
        /\ result = "reading" /\ cursor' = cursor + BytesRead /\ BytesRead \in Nat /\ cursor \in Nat
    BY InSection, Moved DEF Handle, Read, Reading, IInv, InEntry
  <1>2. StartOf' = StartOf
    BY <1>1, SMT DEF StartOf
  <1>3. /\ DOMAIN Read.items = 1 .. Len(Read.items) /\ Len(Read.items) \in Nat
        /\ StartOf[section] \in Nat /\ Read.head \in Nat /\ IsEntry(Read.kind, Now)
    BY <1>1, Starts, InSection, FilesAssumption, SMTT(30) DEF IInv, IsSequence
  <1>4. Forward'
    <2>1. cursor' >= StartOf[section] + Read.head
      BY <1>1, <1>3 DEF StepInv, Forward
    <2> QED
      BY <1>1, <1>2, <2>1 DEF StepInv, Forward, Read
  <1>5. OnTrack'
    <2>1. CASE \E s \in seen : Misread(s)
      BY <1>1, <2>1, MisreadStays DEF OnTrack
    <2>2. CASE ~ \E s \in seen : Misread(s)
      <3>1. PICK k \in 0 .. Len(file) : StandsAt(k)
        BY <2>2 DEF StepInv, OnTrack
      <3>2. section = k /\ Inside(section) /\ seen = 1 .. k /\ ~Misread(section)
        BY <1>1, <2>2, <3>1 DEF StandsAt, Inside, StepInv, Forward
      <3>3. WellLaid(section) /\ Read.kind \notin {"custom", "name"} /\ cursor = StartOf[section] + Now.at
        BY <1>1, <3>2, DueInPlace DEF InEntry, InPlace
      <3>4. Read.kind = "element" => OfFunctions(Now.table)
        BY <1>1, <3>2 DEF Fails, ElementFails, Misread, OfFunctions, Now
      <3>5. BytesRead = Now.bytes + Content(section, item)
        BY <1>1, <3>4 DEF BytesRead, Content, Now
      <3>6. After(section, item) = Now.at + Now.bytes + Content(section, item)
        BY <1>1 DEF After, Now, IInv
      <3>7. Content(section, item) \in Nat /\ Now.at \in Nat /\ Now.bytes \in Nat
        BY <1>1, <1>3 DEF Content, IsEntry, Now
      <3>8. cursor' = StartOf[section] + After(section, item)
        <4>1. /\ cursor' = cursor + BytesRead /\ cursor = StartOf[section] + Now.at
              /\ StartOf[section] \in Nat
          BY <1>1, <1>3, <3>3
        <4> QED
          BY <3>5, <3>6, <3>7, <4>1, SMTT(30)
      <3>9. item' \in 1 .. Len(Read.items) + 1 /\ item' - 1 = item
        BY <1>1, <1>3
      <3>10. After(k, item - 1)' = After(section, item)
        <4>1. item' - 1 # 0 /\ item # 0 /\ file' = file /\ k = section
          BY <1>1, <3>2, <3>9
        <4> QED
          BY <3>9, <4>1 DEF After, Content
      <3>11. Inside(k)'
        <4>1. section' = k /\ item' \in 1 .. Len(file'[k].items) + 1 /\ file'[k].kind # "name"
          BY <1>1, <3>2, <3>3, <3>9
        <4>2. cursor' = StartOf'[k] + After(k, item - 1)'
          BY <1>2, <3>2, <3>8, <3>10
        <4> QED
          BY <4>1, <4>2 DEF Inside
      <3>12. StandsAt(k)'
        BY <1>1, <3>2, <3>11 DEF StandsAt
      <3> QED
        BY <1>1, <3>12 DEF OnTrack
    <2> QED
      BY <2>1, <2>2
  <1> QED
    BY <1>4, <1>5 DEF StepInv

\* The section that is entered starts after those that were read.
LEMMA EnteredNext ==
    ASSUME IInv, Forward, section = 0, NEW s \in DOMAIN file, StartOf[s] = cursor
    PROVE  s \in 1 .. Len(file) /\ \A t \in seen : t < s
PROOF
  <1>1. Len(file) \in Nat /\ DOMAIN file = 1 .. Len(file) /\ StartOf \in [1 .. Len(file) + 1 -> Nat]
    BY Starts
  <1>2. ASSUME NEW t \in seen PROVE t < s
    <2>1. t \in 1 .. Len(file) /\ StartOf[t] < cursor
      BY <1>1 DEF Forward
    <2>2. t \in 1 .. Len(file) + 1 /\ s \in 1 .. Len(file) + 1
      BY <1>1, <2>1
    <2>3. StartOf[t] \in Nat /\ StartOf[s] \in Nat
      BY <1>1, <2>2
    <2>4. s # t
      BY <2>1, <2>3
    <2>5. ~ (s < t)
      <3>1. s < t => StartOf[s] < StartOf[t]
        BY <2>2, StartsApart
      <3> QED
        BY <2>1, <2>3, <3>1
    <2> QED
      BY <2>2, <2>4, <2>5, <1>1
  <1> QED
    BY <1>1, <1>2

\* What reading the identifier of a section keeps.
LEMMA EnterSteps ==
    ASSUME IInv, StepInv, Enter
    PROVE  StepInv'
PROOF
  <1>1. PICK s \in DOMAIN file :
          /\ StartOf[s] = cursor /\ section' = s /\ seen' = seen \cup {s}
          /\ item' = 1 /\ cursor' = cursor + file[s].head
    BY DEF Enter
  <1>2. section = 0 /\ result = "reading" /\ result' = result /\ UNCHANGED <<file, tables>>
    BY DEF Enter, Reading
  <1>3. StartOf' = StartOf
    BY <1>2, SMT DEF StartOf
  <1>4. s \in 1 .. Len(file) /\ \A t \in seen : t < s
    BY <1>1, <1>2, EnteredNext DEF StepInv
  <1>5. Len(file) \in Nat /\ DOMAIN file = 1 .. Len(file) /\ StartOf \in [1 .. Len(file) + 1 -> Nat]
    BY Starts
  <1>6. Forward'
    <2>1. seen' \subseteq DOMAIN file' /\ section' \in seen' /\ cursor' >= StartOf[section'] + Read'.head
      <3>1. file[s].head \in Nat /\ StartOf[s] \in Nat
        BY <1>4, <1>5, FilesAssumption DEF IInv
      <3> QED
        BY <1>1, <1>2, <3>1 DEF StepInv, Forward, Read
    <2>2. \A t \in seen' : t <= section'
      <3>1. \A t \in seen : t \in Nat
        BY <1>5 DEF StepInv, Forward
      <3> QED
        BY <1>1, <1>4, <1>5, <3>1
    <2>3. section' # 0
      BY <1>1, <1>4
    <2> QED
      BY <1>3, <2>1, <2>2, <2>3 DEF Forward
  <1>7. OnTrack'
    <2>1. CASE \E t \in seen : Misread(t)
      BY <1>1, <1>2, <2>1, MisreadStays DEF OnTrack
    <2>2. CASE \E k \in 0 .. Len(file) : StandsAt(k)
      <3>1. PICK k \in 0 .. Len(file) : StandsAt(k)
        BY <2>2
      <3>2. seen = 1 .. k /\ cursor = StartOf[k + 1]
        BY <1>2, <3>1 DEF StandsAt
      <3>3. k + 1 \in 1 .. Len(file) + 1 /\ s \in 1 .. Len(file) + 1
        BY <1>4, <1>5
      <3>4. s = k + 1
        <4>1. s < k + 1 => StartOf[s] < StartOf[k + 1]
          BY <3>3, StartsApart
        <4>2. k + 1 < s => StartOf[k + 1] < StartOf[s]
          BY <3>3, StartsApart
        <4>3. StartOf[s] = StartOf[k + 1] /\ StartOf[s] \in Nat
          BY <1>1, <1>5, <3>2, <3>3
        <4> QED
          BY <1>5, <3>3, <4>1, <4>2, <4>3
      <3>5. seen' = 1 .. k + 1
        BY <1>1, <1>5, <3>2, <3>4
      <3>6. Inside(k + 1)'
        <4>1. Len(file[s].items) \in Nat
          BY <1>4, <1>5, FilesAssumption DEF IInv, IsSequence
        <4>2. 1 \in 1 .. Len(file[s].items) + 1
          BY <4>1
        <4>3. After(s, item - 1)' = file[s].head
          <5>1. item' - 1 = 0 /\ file' = file
            BY <1>1, <1>2
          <5> QED
            BY <5>1 DEF After
        <4>4. cursor' = StartOf'[s] + After(s, item - 1)'
          BY <1>1, <1>3, <4>3
        <4>5. section' = s /\ item' = 1 /\ item' \in 1 .. Len(file'[s].items) + 1
          BY <1>1, <1>2, <4>2
        <4> QED
          BY <3>4, <4>4, <4>5 DEF Inside
      <3>7. StandsAt(k + 1)' /\ k + 1 \in 0 .. Len(file')
        BY <1>1, <1>2, <1>4, <1>5, <3>4, <3>5, <3>6 DEF StandsAt
      <3> QED
        BY <1>2, <3>7 DEF OnTrack
    <2> QED
      BY <2>1, <2>2 DEF StepInv, OnTrack
  <1> QED
    BY <1>6, <1>7 DEF StepInv

\* What the end of a section keeps.
LEMMA LeaveSteps ==
    ASSUME IInv, StepInv, Leave
    PROVE  StepInv'
PROOF
  <1>1. /\ section # 0 /\ section' = 0 /\ result = "reading" /\ cursor' = cursor + Passed(Read)
        /\ UNCHANGED <<file, seen, result, tables>> /\ ~More
    BY DEF Leave, Reading
  <1>2. StartOf' = StartOf
    BY <1>1, SMT DEF StartOf
  <1>3. Len(file) \in Nat /\ DOMAIN file = 1 .. Len(file) /\ StartOf \in [1 .. Len(file) + 1 -> Nat]
    BY Starts
  <1>4. /\ section \in 1 .. Len(file) /\ section \in seen /\ cursor \in Nat
        /\ cursor >= StartOf[section] + Read.head
    BY <1>1, <1>3 DEF IInv, StepInv, Forward
  <1>5. /\ Read = file[section] /\ Read.length \in Nat \ {0} /\ Read.head \in Nat \ {0} /\ StartOf[section] \in Nat
        /\ Len(Read.items) \in Nat /\ (Read.kind = "custom" => Read.items = <<>>)
    BY <1>4, <1>3, FilesAssumption DEF IInv, Read, IsSequence
  <1>6. cursor' > StartOf[section] /\ cursor' \in Int
    BY <1>1, <1>4, <1>5 DEF Passed
  <1>7. Forward'
    <2>1. ASSUME NEW s \in seen PROVE StartOf[s] < cursor'
      <3>1. s \in 1 .. Len(file) /\ s <= section
        BY <1>1, <1>3 DEF StepInv, Forward
      <3>2. s \in 1 .. Len(file) + 1 /\ section \in 1 .. Len(file) + 1
        BY <1>3, <1>4, <3>1
      <3>3. s < section => StartOf[s] < StartOf[section]
        BY <3>2, StartsApart
      <3>4. s = section \/ s < section
        BY <1>3, <3>1, <3>2
      <3>5. StartOf[s] \in Nat
        BY <1>3, <3>2
      <3> QED
        BY <1>5, <1>6, <3>3, <3>4, <3>5
    <2> QED
      BY <1>1, <1>2, <2>1 DEF StepInv, Forward
  <1>8. OnTrack'
    <2>1. CASE \E t \in seen : Misread(t)
      BY <1>1, <2>1, MisreadStays DEF OnTrack
    <2>2. CASE ~ \E t \in seen : Misread(t)
      <3>1. PICK k \in 0 .. Len(file) : StandsAt(k)
        BY <2>2 DEF StepInv, OnTrack
      <3>2. seen = 1 .. k /\ section = k /\ Inside(section) /\ ~Misread(section)
        BY <1>1, <1>4, <2>2, <3>1 DEF StandsAt, Inside
      <3>3. cursor + Passed(Read) = StartOf[section] + Read.length
        <4>1. CASE Read.kind \in {"custom", "name"}
          <5>1. item = 1
            <6>1. Read.kind = "custom" => Len(Read.items) = 0
              <7>1. Len(<<>>) = 0
                OBVIOUS
              <7> QED
                BY <1>5, <7>1
            <6>2. item \in 1 .. Len(Read.items) + 1 /\ (Read.kind = "name" => item = 1)
              BY <1>5, <3>2 DEF Inside
            <6> QED
              BY <4>1, <6>1, <6>2
          <5>2. cursor = StartOf[section] + Read.head
            BY <1>5, <3>2, <5>1 DEF Inside, After
          <5> QED
            BY <1>5, <4>1, <5>2, SMTT(30) DEF Passed
        <4>2. CASE Read.kind \notin {"custom", "name"}
          <5>1. item = Len(Read.items) + 1
            BY <1>1, <1>5, <3>2, <4>2 DEF More, Inside
          <5>2. WellLaid(section)
            BY <1>5, <3>2, <4>2 DEF Misread
          <5>3. item - 1 = Len(Read.items)
            BY <1>5, <5>1
          <5>4. cursor = StartOf[section] + Read.length
            BY <1>5, <3>2, <5>2, <5>3 DEF Inside, WellLaid
          <5> QED
            BY <1>4, <4>2, <5>4 DEF Passed
        <4> QED
          BY <4>1, <4>2
      <3>4. cursor' = StartOf[k + 1]
        <4>1. StartOf[k + 1] = StartOf[k] + file[k].length
          BY <1>4, <3>2, Starts
        <4> QED
          BY <1>1, <1>5, <3>2, <3>3, <4>1
      <3>5. StandsAt(k)'
        BY <1>1, <1>2, <3>2, <3>4 DEF StandsAt
      <3> QED
        BY <1>1, <3>5 DEF OnTrack
    <2> QED
      BY <2>1, <2>2
  <1> QED
    BY <1>7, <1>8 DEF StepInv

\* The reader does not get lost but in or after a section that is misread.
LEMMA AstraySteps ==
    ASSUME IInv, StepInv, Astray
    PROVE  StepInv'
PROOF
  <1>1. UNCHANGED <<file, cursor, section, seen, tables, Read>>
    BY DEF Astray, readerVars, moduleVars, Read
  <1>2. \E s \in seen : Misread(s)
    <2> SUFFICES ASSUME NEW k \in 0 .. Len(file), StandsAt(k), ~ \E s \in seen : Misread(s) PROVE FALSE
      BY DEF StepInv, OnTrack
    <2>6. section = 0 /\ cursor < End /\ \A s \in DOMAIN file : StartOf[s] # cursor
      <3>1. ASSUME section # 0, More, ~InPlace PROVE FALSE
        <4>1. Inside(section) /\ section \in seen
          BY <3>1 DEF StandsAt, Inside, StepInv, Forward
        <4> QED
          BY <3>1, <4>1, DueInPlace
      <3> QED
        BY <3>1 DEF Astray
    <2>1. cursor = StartOf[k + 1]
      BY <2>6 DEF StandsAt
    <2>2. Len(file) \in Nat /\ DOMAIN file = 1 .. Len(file)
      BY Starts
    <2>3. k + 1 \notin 1 .. Len(file)
      BY <2>6, <2>1, <2>2
    <2>4. k = Len(file)
      <3>1. \A n \in Nat : \A j \in 0 .. n : j + 1 \notin 1 .. n => j = n
        OBVIOUS
      <3> QED
        BY <2>2, <2>3, <3>1
    <2>5. cursor = End /\ cursor \in Nat
      BY <2>1, <2>4 DEF End, IInv
    <2> QED
      BY <2>6, <2>5
  <1>3. StartOf' = StartOf
    BY <1>1, SMT DEF StartOf
  <1>4. Forward'
    BY <1>1, <1>3 DEF StepInv, Forward
  <1>5. OnTrack'
    BY <1>1, <1>2, MisreadStays DEF OnTrack
  <1> QED
    BY <1>4, <1>5 DEF StepInv

\* Every step keeps the place.
LEMMA StepsTaken ==
    ASSUME IInv, StepInv, [Next]_vars
    PROVE  StepInv'
PROOF
  <1>1. CASE Enter
    BY <1>1, EnterSteps
  <1>2. CASE Leave
    BY <1>2, LeaveSteps
  <1>3. CASE Astray
    BY <1>3, AstraySteps
  <1>4. CASE UnknownSection \/ DataWithoutMemory \/ Throw \/ Undecodable \/ Finish
    <2>1. UNCHANGED <<file, cursor, section, item, seen, tables>> /\ result' # "astray"
      BY <1>4 DEF UnknownSection, DataWithoutMemory, Throw, Undecodable, Finish, readerVars, moduleVars
    <2> QED
      BY <2>1, StandsStill
  <1>5. CASE ReadEntry
    <2>1. \E kind, op : Handle(kind, op)
      BY <1>5 DEF ReadEntry, Type, ImportFunction, ImportGlobal, ImportTable, ImportMemory, Function,
                  Table, Memory, Global, Export, Start, Element, Code, Data, Name
    <2> QED
      BY <2>1, TablesStay, HandleSteps
  <1>6. CASE Execute
    <2>1. UNCHANGED <<file, cursor, section, item, seen, tables>>
      BY <1>6 DEF Execute, readerVars, moduleVars
    <2>2. result' # "astray" \/ result' = result
      BY <1>6 DEF Execute, Store, Check, Copy, Call, Return
    <2> QED
      BY <2>1, <2>2, StandsStill
  <1>7. CASE UNCHANGED vars
    <2>1. UNCHANGED <<file, cursor, section, item, seen, result, tables>>
      BY <1>7 DEF vars, readerVars, moduleVars
    <2> QED
      BY <2>1, StandsStill
  <1> QED
    BY <1>1, <1>2, <1>3, <1>4, <1>5, <1>6, <1>7 DEF Next, ReadSection

\* The reader starts at the first section.
LEMMA InitStands ==
    ASSUME Init
    PROVE  StepInv
PROOF
  <1>1. IInv
    BY DEF Init, IInv, Results, TableKinds, ImportsBelow, ImportsKeepNoBody
  <1>2. Len(file) \in Nat /\ StartOf[1] = 0
    BY <1>1, Starts
  <1>3. seen = {} /\ section = 0 /\ cursor = 0 /\ result = "reading"
    BY DEF Init
  <1>4. 1 .. 0 = {}
    OBVIOUS
  <1>5. StandsAt(0) /\ 0 \in 0 .. Len(file)
    BY <1>2, <1>3, <1>4 DEF StandsAt
  <1> QED
    BY <1>3, <1>5 DEF StepInv, Forward, OnTrack

\* The reader only goes forward, and unless it has misread a section it stands right
\* behind the entries it has read, every byte of the sections before being taken: no
\* section is read twice and none is left out (module.cpp:385-470, 1026, 1082-1095).
THEOREM StepInvariance == Spec => []StepInv
PROOF
  <1>1. Init => StepInv
    BY InitStands
  <1>2. IInv /\ StepInv /\ [Next]_vars => StepInv'
    BY StepsTaken
  <1> QED
    BY <1>1, <1>2, Invariance, PTL DEF Spec

\* In any file the reader stands at the first byte of a section whenever it looks for
\* one and at the entry it is about to read in between (module.cpp:385-470), unless it
\* has read a name section with content, an element section over a table that is not
\* one of functions, or a section whose entries do not take what it declares.
THEOREM ReaderInStep == Spec => []InStep
PROOF
  <1>1. IInv /\ StepInv => InStep
    <2> SUFFICES ASSUME IInv, Forward, result # "astray", NEW k \in 0 .. Len(file), StandsAt(k),
                        ~ \E s \in seen : Misread(s)
                 PROVE  InStep
      BY DEF StepInv, OnTrack, InStep
    <2>1. Len(file) \in Nat
      BY Starts
    <2>2. Cardinality(seen) = k
      <3>1. k \in Nat /\ seen = 1 .. k
        BY <2>1 DEF StandsAt
      <3>2. Cardinality(1 .. k) = IF 1 > k THEN 0 ELSE k - 1 + 1
        BY <3>1, FS_Interval
      <3> QED
        BY <3>1, <3>2
    <2>3. section # 0 /\ More => InPlace
      BY DueInPlace DEF StandsAt, Inside, Forward
    <2> QED
      BY <2>2, <2>3 DEF StandsAt, InStep
  <1> QED
    BY <1>1, Invariance, StepInvariance, PTL

-----------------------------------------------------------------------------
(* The bodies of a file in the order of the standard.                      *)

\* The entries of a section that have been read.
Past(s) == {i \in DOMAIN file[s].items : s = section => i < item}
SeenKind(kind) == \E s \in seen : file[s].kind = kind

\* Before a section of functions there are imports only, and the offset of the
\* bodies is behind them, once they are all there.
Imports ==
    /\ Adding \/ ~SeenKind("function") => \A f \in DOMAIN functions : functions[f].imported
    /\ ~Adding => \A f \in DOMAIN functions : functions[f].imported <=> f <= importFuncOffset

\* The bodies read so far are those of the functions behind the offset.
Filled(s) ==
    \A f \in DOMAIN functions :
        functions[f].bodies = IF \E i \in Past(s) : f = importFuncOffset + i THEN 1 ELSE 0
Bodies ==
    /\ ~SeenKind("code") => \A f \in DOMAIN functions : functions[f].bodies = 0
    /\ \A s \in seen : file[s].kind = "code" => Filled(s)

Within == section # 0 => item \in 1 .. Len(file[section].items) + 1

BodyInv == Within /\ (InStandardOrder => Imports /\ Bodies)

\* Of two sections of the standard order that were read, the one being read is
\* the later.
LEMMA InOrder ==
    ASSUME IInv, StepInv, InStandardOrder, NEW kind, NEW later, section # 0,
           file[section].kind = kind, SeenKind(later), Place(kind) \in Nat \ {0},
           Place(later) \in Nat, Place(kind) <= Place(later)
    PROVE  kind = later
PROOF
  <1>1. PICK s \in seen : file[s].kind = later
    BY DEF SeenKind
  <1>2. s <= section /\ s \in DOMAIN file /\ section \in DOMAIN file /\ DOMAIN file = 1 .. Len(file)
        /\ Len(file) \in Nat
    BY Starts DEF StepInv, Forward
  <1>3. CASE s = section
    BY <1>1, <1>3
  <1>4. CASE s < section
    <2>1. Place(file[s].kind) < Place(file[section].kind)
      BY <1>1, <1>2, <1>4 DEF InStandardOrder
    <2> QED
      BY <1>1, <2>1
  <1> QED
    BY <1>2, <1>3, <1>4

\* What neither reads nor adds a function keeps the bodies.
LEMMA BodiesStay ==
    ASSUME IInv, BodyInv, UNCHANGED <<file, section, item, seen, functions, importFuncOffset>>
    PROVE  BodyInv'
PROOF
  <1>1. Within' /\ (InStandardOrder' <=> InStandardOrder)
    BY DEF BodyInv, Within, InStandardOrder
  <1>2. Imports => Imports'
    BY DEF Imports, Adding, Read, SeenKind
  <1>3. Bodies => Bodies'
    BY DEF Bodies, Filled, Past, SeenKind
  <1> QED
    BY <1>1, <1>2, <1>3 DEF BodyInv

\* An entry of another section than those of functions.
LEMMA OtherEntryBodies ==
    ASSUME IInv, BodyInv, NEW kind, NEW op, Handle(kind, op), kind # "code",
           UNCHANGED <<functions, importFuncOffset>>
    PROVE  BodyInv'
PROOF
  <1>1. /\ section # 0 /\ section \in DOMAIN file /\ file[section].kind = kind
        /\ item \in DOMAIN file[section].items /\ item' = item + 1
        /\ UNCHANGED <<file, section, seen>>
    BY InSection DEF Handle, InEntry, Read
  <1>2. Len(file[section].items) \in Nat /\ DOMAIN file[section].items = 1 .. Len(file[section].items)
    BY <1>1, EntriesOf
  <1>3. Within' /\ (InStandardOrder' <=> InStandardOrder)
    BY <1>1, <1>2 DEF BodyInv, Within, InStandardOrder
  <1>4. Imports => Imports'
    BY <1>1 DEF Imports, Adding, Read, SeenKind
  <1>5. \A s : s # section => Past(s)' = Past(s)
    BY <1>1 DEF Past
  <1>6. Bodies => Bodies'
    BY <1>1, <1>5 DEF Bodies, Filled, SeenKind
  <1> QED
    BY <1>3, <1>4, <1>6 DEF BodyInv

\* A function that is imported or declared has no body yet.
LEMMA FunctionBodies ==
    ASSUME IInv, StepInv, BodyInv, NEW imported \in BOOLEAN, NEW kind \in {"import", "function"},
           Handle(kind, "function"), AddFunction(imported), imported <=> kind = "import"
    PROVE  BodyInv'
PROOF
  <1>1. /\ section # 0 /\ section \in DOMAIN file /\ file[section].kind = kind
        /\ item \in DOMAIN file[section].items /\ item' = item + 1
        /\ UNCHANGED <<file, section, seen>>
    BY InSection DEF Handle, InEntry, Read
  <1>2. Len(file[section].items) \in Nat /\ DOMAIN file[section].items = 1 .. Len(file[section].items)
    BY <1>1, EntriesOf
  <1>3. Within'
    BY <1>1, <1>2 DEF BodyInv, Within
  <1> SUFFICES ASSUME InStandardOrder PROVE Imports' /\ Bodies'
    BY <1>1, <1>3 DEF BodyInv, InStandardOrder
  <1>4. PICK new : new = [type |-> types[Now.type], imported |-> imported, bodies |-> 0]
    OBVIOUS
  <1>5. functions' = Append(functions, new) /\ importFuncOffset' = importFuncOffset
        /\ (new.imported <=> imported) /\ new.bodies = 0
    BY <1>4 DEF AddFunction
  <1>6. /\ Len(functions) \in Nat /\ DOMAIN functions = 1 .. Len(functions)
        /\ DOMAIN functions' = 1 .. Len(functions) + 1
        /\ \A f \in 1 .. Len(functions) : functions'[f] = functions[f]
        /\ functions'[Len(functions) + 1] = new
        /\ importFuncOffset \in 0 .. Len(functions)
    BY <1>5, AppendProperties, LenProperties DEF IInv
  <1>7. ~SeenKind("code") /\ Imports /\ Bodies
    BY <1>1, InOrder DEF BodyInv, Place
  <1>8. Bodies'
    <2>1. ~SeenKind("code")'
      BY <1>1, <1>7 DEF SeenKind
    <2>2. \A f \in DOMAIN functions' : functions'[f].bodies = 0
      BY <1>5, <1>6, <1>7 DEF Bodies
    <2> QED
      BY <2>1, <2>2 DEF Bodies, SeenKind
  <1>9. Imports'
    <2>1. (Adding' <=> Adding) /\ (SeenKind("function")' <=> SeenKind("function"))
      BY <1>1 DEF Adding, Read, SeenKind
    <2>2. CASE kind = "import"
      <3>1. Adding
        BY <1>1, <2>2 DEF Adding, Read
      <3>2. \A f \in DOMAIN functions' : functions'[f].imported
        BY <1>5, <1>6, <1>7, <2>2, <3>1 DEF Imports
      <3> QED
        BY <2>1, <3>1, <3>2 DEF Imports
    <2>3. CASE kind = "function"
      <3>1. ~Adding /\ SeenKind("function")
        BY <1>1, <2>3 DEF Adding, Read, SeenKind, StepInv, Forward
      <3>2. \A f \in DOMAIN functions' : functions'[f].imported <=> f <= importFuncOffset
        BY <1>5, <1>6, <1>7, <2>3, <3>1 DEF Imports
      <3> QED
        BY <1>5, <2>1, <3>1, <3>2 DEF Imports
    <2> QED
      BY <2>2, <2>3
  <1> QED
    BY <1>8, <1>9

\* A body goes to the next function.
LEMMA CodeBodies ==
    ASSUME IInv, StepInv, BodyInv, Code
    PROVE  BodyInv'
PROOF
  <1>1. /\ section # 0 /\ section \in DOMAIN file /\ file[section].kind = "code" /\ section \in seen
        /\ item \in DOMAIN file[section].items /\ item' = item + 1
        /\ UNCHANGED <<file, section, seen, importFuncOffset>>
    BY InSection DEF Code, Handle, InEntry, Read, StepInv, Forward
  <1>2. Len(file[section].items) \in Nat /\ DOMAIN file[section].items = 1 .. Len(file[section].items)
    BY <1>1, EntriesOf
  <1>3. Within'
    BY <1>1, <1>2 DEF BodyInv, Within
  <1> SUFFICES ASSUME InStandardOrder PROVE Imports' /\ Bodies'
    BY <1>1, <1>3 DEF BodyInv, InStandardOrder
  <1>4. Imports /\ Bodies
    BY DEF BodyInv
  <1>5. PICK target : target = importFuncOffset + item
    OBVIOUS
  <1>6. target \in DOMAIN functions /\ functions' = [functions EXCEPT ![target].bodies = @ + 1]
    BY <1>5 DEF Code, Handle, Fails, Read
  <1>7. /\ DOMAIN functions = 1 .. Len(functions) /\ Len(functions) \in Nat
        /\ \A f \in DOMAIN functions : functions[f] \in FunctionRecords
    <2>1. DOMAIN functions = 1 .. Len(functions) /\ Len(functions) \in Nat
      BY LenProperties DEF IInv
    <2> QED
      BY <2>1, ElementOfSeq DEF IInv
  <1>8. PICK given : given = [functions[target] EXCEPT !.bodies = @ + 1]
    OBVIOUS
  <1>9. given.imported = functions[target].imported /\ given.bodies = functions[target].bodies + 1
    BY <1>6, <1>7, <1>8 DEF FunctionRecords
  <1>10. /\ DOMAIN functions' = DOMAIN functions
         /\ \A f \in DOMAIN functions : functions'[f] = IF f = target THEN given ELSE functions[f]
    BY <1>6, <1>8
  <1>11. Imports'
    <2>1. (Adding' <=> Adding) /\ (SeenKind("function")' <=> SeenKind("function"))
      BY <1>1 DEF Adding, Read, SeenKind
    <2>2. \A f \in DOMAIN functions : functions'[f].imported <=> functions[f].imported
      BY <1>9, <1>10
    <2> QED
      BY <1>1, <1>4, <1>10, <2>1, <2>2 DEF Imports
  <1>12. \A s \in seen : file[s].kind = "code" => s = section
    <2> SUFFICES ASSUME NEW s \in seen, file[s].kind = "code", s # section PROVE FALSE
      OBVIOUS
    <2>1. s \in DOMAIN file /\ s <= section /\ DOMAIN file = 1 .. Len(file) /\ Len(file) \in Nat
      BY <1>1, Starts DEF StepInv, Forward
    <2>2. s < section
      BY <1>1, <2>1
    <2>3. Place("code") < Place("code")
      BY <1>1, <2>1, <2>2 DEF InStandardOrder, Place
    <2> QED
      BY <2>3 DEF Place
  <1>13. Filled(section)'
    <2> SUFFICES ASSUME NEW f \in DOMAIN functions
                 PROVE  functions'[f].bodies = IF \E i \in Past(section)' : f = importFuncOffset + i THEN 1 ELSE 0
      BY <1>1, <1>10 DEF Filled
    <2>1. functions[f].bodies = IF \E i \in Past(section) : f = importFuncOffset + i THEN 1 ELSE 0
      BY <1>1, <1>4 DEF Bodies, Filled
    <2>2. Past(section)' = Past(section) \cup {item} /\ item \notin Past(section)
      BY <1>1, <1>2 DEF Past
    <2>3. importFuncOffset \in Nat /\ item \in Nat /\ \A i \in Past(section) : i \in Nat
      BY <1>1, <1>2, <1>7 DEF IInv, Past
    <2>4. CASE f = target
      <3>1. ~ \E i \in Past(section) : f = importFuncOffset + i
        BY <1>5, <2>2, <2>3, <2>4
      <3>2. functions'[f].bodies = 1
        BY <1>9, <1>10, <2>1, <2>4, <3>1
      <3> QED
        BY <1>5, <2>2, <2>4, <3>2
    <2>5. CASE f # target
      <3>1. (\E i \in Past(section)' : f = importFuncOffset + i) <=> \E i \in Past(section) : f = importFuncOffset + i
        BY <1>5, <2>2, <2>5
      <3> QED
        BY <1>10, <2>1, <2>5, <3>1
    <2> QED
      BY <2>4, <2>5
  <1>14. Bodies'
    BY <1>1, <1>12, <1>13 DEF Bodies, SeenKind
  <1> QED
    BY <1>11, <1>14

\* Entering a section keeps the bodies.
LEMMA EnterBodies ==
    ASSUME IInv, StepInv, StepInv', BodyInv, Enter
    PROVE  BodyInv'
PROOF
  <1>1. PICK s \in DOMAIN file :
          /\ StartOf[s] = cursor /\ section' = s /\ item' = 1 /\ seen' = seen \cup {s}
          /\ importFuncOffset' = IF file[s].kind = "function" THEN Len(functions) ELSE importFuncOffset
    BY DEF Enter
  <1>2. section = 0 /\ UNCHANGED <<file, functions>>
    BY DEF Enter
  <1>3. s \in 1 .. Len(file) /\ \A t \in seen : t < s
    BY <1>1, <1>2, EnteredNext DEF StepInv
  <1>4. /\ Len(file) \in Nat /\ DOMAIN file = 1 .. Len(file) /\ seen \subseteq DOMAIN file
        /\ Len(file[s].items) \in Nat /\ DOMAIN file[s].items = 1 .. Len(file[s].items)
    BY <1>1, Starts, EntriesOf DEF StepInv, Forward
  <1>5. Within'
    BY <1>1, <1>2, <1>4 DEF Within
  <1> SUFFICES ASSUME InStandardOrder PROVE Imports' /\ Bodies'
    BY <1>2, <1>5 DEF BodyInv, InStandardOrder
  <1>6. Imports /\ Bodies
    BY DEF BodyInv
  <1>7. ASSUME NEW t \in seen, Place(file[t].kind) > 0, Place(file[s].kind) > 0
        PROVE  Place(file[t].kind) < Place(file[s].kind)
    <2>1. t \in DOMAIN file /\ t < s
      BY <1>3, <1>4
    <2> QED
      BY <1>1, <1>7, <2>1 DEF InStandardOrder
  <1>8. /\ Len(functions) \in Nat /\ DOMAIN functions = 1 .. Len(functions)
        /\ importFuncOffset \in 0 .. Len(functions)
    BY LenProperties DEF IInv
  <1>9. ~Adding /\ \A kind : SeenKind(kind)' <=> SeenKind(kind) \/ file[s].kind = kind
    BY <1>1, <1>2 DEF Adding, SeenKind
  <1>10. Imports'
    <2>1. CASE file[s].kind = "import"
      <3>1. ~SeenKind("function")
        BY <1>7, <2>1 DEF SeenKind, Place
      <3>2. \A f \in DOMAIN functions' : functions'[f].imported
        BY <1>2, <1>6, <3>1 DEF Imports
      <3>3. Adding'
        BY <1>1, <1>2, <1>3, <2>1 DEF Adding, Read
      <3> QED
        BY <3>2, <3>3 DEF Imports
    <2>2. CASE file[s].kind = "function"
      <3>1. ~SeenKind("function")
        BY <1>7, <2>2 DEF SeenKind, Place
      <3>2. \A f \in DOMAIN functions' : functions'[f].imported
        BY <1>2, <1>6, <3>1 DEF Imports
      <3>3. \A f \in DOMAIN functions' : f <= importFuncOffset'
        BY <1>1, <1>2, <1>8, <2>2
      <3> QED
        BY <3>2, <3>3 DEF Imports
    <2>3. CASE file[s].kind \notin {"import", "function"}
      <3>1. ~Adding' /\ (SeenKind("function")' <=> SeenKind("function")) /\ importFuncOffset' = importFuncOffset
        BY <1>1, <1>2, <1>9, <2>3 DEF Adding, Read
      <3> QED
        BY <1>2, <1>6, <1>9, <3>1 DEF Imports
    <2> QED
      BY <2>1, <2>2, <2>3
  <1>11. \A t \in seen : t # s /\ t # 0 /\ Past(t)' = Past(t)
    BY <1>1, <1>2, <1>3, <1>4 DEF Past
  <1>12. Bodies'
    <2>1. CASE file[s].kind = "code"
      <3>1. ~SeenKind("code")
        BY <1>7, <2>1 DEF SeenKind, Place
      <3>2. \A f \in DOMAIN functions' : functions'[f].bodies = 0
        BY <1>2, <1>6, <3>1 DEF Bodies
      <3>3. Past(s)' = {}
        BY <1>1, <1>2, <1>4 DEF Past
      <3>4. Filled(s)'
        BY <3>2, <3>3 DEF Filled
      <3>5. \A t \in seen' : file[t].kind = "code" => t = s
        BY <1>1, <3>1 DEF SeenKind
      <3>6. SeenKind("code")'
        BY <1>9, <2>1
      <3> QED
        BY <1>2, <3>4, <3>5, <3>6 DEF Bodies
    <2>2. CASE file[s].kind # "code"
      <3>1. SeenKind("code")' <=> SeenKind("code")
        BY <1>9, <2>2
      <3>2. \A t \in seen' : file[t].kind = "code" => t \in seen
        BY <1>1, <2>2
      <3>3. SeenKind("code") => importFuncOffset' = importFuncOffset
        BY <1>1, <1>7 DEF SeenKind, Place
      <3>4. ASSUME NEW t \in seen, file[t].kind = "code" PROVE Filled(t)'
        <4>1. Filled(t) /\ SeenKind("code") /\ Past(t)' = Past(t)
          BY <1>6, <1>11, <3>4 DEF Bodies, SeenKind
        <4> QED
          BY <1>2, <3>3, <4>1 DEF Filled
      <3> QED
        BY <1>2, <1>6, <3>1, <3>2, <3>4 DEF Bodies
    <2> QED
      BY <2>1, <2>2
  <1> QED
    BY <1>10, <1>12

\* Leaving one keeps them.
LEMMA LeaveBodies ==
    ASSUME IInv, StepInv, BodyInv, Leave
    PROVE  BodyInv'
PROOF
  <1>1. /\ section # 0 /\ section' = 0
        /\ file[section].kind = "name" \/ ~(item <= Len(file[section].items))
        /\ importFuncOffset' = IF file[section].kind = "import" THEN Len(functions) ELSE importFuncOffset
        /\ UNCHANGED <<file, seen, functions>>
    BY DEF Leave, Read, More
  <1>2. Within'
    BY <1>1 DEF Within
  <1> SUFFICES ASSUME InStandardOrder PROVE Imports' /\ Bodies'
    BY <1>1, <1>2 DEF BodyInv, InStandardOrder
  <1>3. Imports /\ Bodies
    BY DEF BodyInv
  <1>4. section \in DOMAIN file /\ section \in seen /\ Len(file[section].items) \in Nat
        /\ DOMAIN file[section].items = 1 .. Len(file[section].items) /\ item \in Nat
    BY <1>1, EntriesOf DEF IInv, StepInv, Forward
  <1>5. /\ Len(functions) \in Nat /\ DOMAIN functions = 1 .. Len(functions)
    BY LenProperties DEF IInv
  <1>6. ~Adding' /\ \A kind : SeenKind(kind)' <=> SeenKind(kind)
    BY <1>1 DEF Adding, SeenKind
  <1>7. Imports'
    <2>1. CASE file[section].kind = "import"
      <3>1. \A f \in DOMAIN functions' : functions'[f].imported
        BY <1>1, <1>3, <2>1 DEF Imports, Adding, Read
      <3>2. \A f \in DOMAIN functions' : f <= importFuncOffset'
        BY <1>1, <1>5, <2>1
      <3> QED
        BY <3>1, <3>2 DEF Imports
    <2>2. CASE file[section].kind # "import"
      BY <1>1, <1>3, <1>6, <2>2 DEF Imports, Adding, Read
    <2> QED
      BY <2>1, <2>2
  <1>8. ASSUME NEW s \in seen, file[s].kind = "code" PROVE Past(s)' = Past(s)
    <2>1. s # 0
      BY EntriesOf DEF StepInv, Forward
    <2>2. Past(s)' = DOMAIN file[s].items
      BY <1>1, <2>1 DEF Past
    <2>3. s = section => \A i \in DOMAIN file[s].items : i < item
      BY <1>1, <1>4, <1>8
    <2> QED
      BY <2>2, <2>3 DEF Past
  <1>9. SeenKind("code") => importFuncOffset' = importFuncOffset
    BY <1>1, InOrder DEF Place
  <1>10. Bodies'
    <2>1. ASSUME NEW s \in seen, file[s].kind = "code" PROVE Filled(s)'
      <3>1. Filled(s) /\ SeenKind("code") /\ Past(s)' = Past(s)
        BY <1>3, <1>8, <2>1 DEF Bodies, SeenKind
      <3> QED
        BY <1>1, <1>9, <3>1 DEF Filled
    <2> QED
      BY <1>1, <1>3, <1>6, <2>1 DEF Bodies
  <1> QED
    BY <1>7, <1>10

\* Every step keeps them.
LEMMA StepBodies ==
    ASSUME IInv, StepInv, StepInv', BodyInv, [Next]_vars
    PROVE  BodyInv'
PROOF
  <1>1. CASE Enter
    BY <1>1, EnterBodies
  <1>2. CASE Leave
    BY <1>2, LeaveBodies
  <1>3. CASE UnknownSection \/ DataWithoutMemory \/ Astray \/ Throw \/ Undecodable \/ Finish \/ Execute
             \/ UNCHANGED vars
    <2>1. UNCHANGED <<readerVars, moduleVars>>
      BY <1>3 DEF UnknownSection, DataWithoutMemory, Astray, Throw, Undecodable, Finish, Execute, vars
    <2> QED
      BY <2>1, BodiesStay DEF readerVars, moduleVars
  <1>4. CASE ImportFunction \/ Function
    BY <1>4, FunctionBodies DEF ImportFunction, Function
  <1>5. CASE Code
    BY <1>5, CodeBodies
  <1>6. CASE Type \/ ImportGlobal \/ ImportTable \/ ImportMemory \/ Table \/ Memory \/ Global \/ Export
             \/ Start \/ Element \/ Data \/ Name
    <2>1. UNCHANGED <<functions, importFuncOffset>>
      BY <1>6 DEF Type, ImportGlobal, ImportTable, ImportMemory, Table, Memory, AddTable, AddMemory,
                  Global, Export, Start, Element, Data, Name, moduleVars
    <2>2. PICK kind, op : Handle(kind, op) /\ kind # "code"
      BY <1>6 DEF Type, ImportGlobal, ImportTable, ImportMemory, Table, Memory, Global, Export, Start,
                  Element, Data, Name
    <2> QED
      BY <2>1, <2>2, OtherEntryBodies
  <1> QED
    BY <1>1, <1>2, <1>3, <1>4, <1>5, <1>6 DEF Next, ReadSection, ReadEntry

\* While a file in the order of the standard is read, the functions it imports
\* are those below the offset of the bodies, and the bodies read so far are
\* those of the functions that follow.
THEOREM BodyInvariance == Spec => []BodyInv
PROOF
  <1>1. Init => BodyInv
    <2> SUFFICES ASSUME Init PROVE BodyInv
      OBVIOUS
    <2>1. functions = <<>> /\ section = 0 /\ seen = {}
      BY DEF Init
    <2> QED
      BY <2>1 DEF BodyInv, Within, Imports, Bodies
  <1>2. IInv /\ StepInv /\ StepInv' /\ BodyInv /\ [Next]_vars => BodyInv'
    BY StepBodies
  <1> QED
    BY <1>1, <1>2, Invariance, StepInvariance, PTL DEF Spec

\* Whatever an accepted file in the order of the standard declares and imports,
\* its n-th body is that of the n-th function it declares, and no function
\* gets another (module.cpp:857, 862, 1136).
THEOREM BodiesFindTheirs == Spec => []BodiesBelong
PROOF
  <1>1. IInv /\ StepInv /\ BodyInv /\ OffsetInv => BodiesBelong
    <2> SUFFICES ASSUME IInv, StepInv, BodyInv, OffsetInv, Accepted, InStandardOrder, seen = DOMAIN file,
                        NEW f \in Declared
                 PROVE  functions[f].bodies =
                          IF f - (Len(functions) - Cardinality(Declared)) \in Entries("code") THEN 1 ELSE 0
      BY DEF BodiesBelong
    <2>1. section = 0 /\ Imports /\ Bodies
      BY DEF OffsetInv, Judged, BodyInv
    <2>2. /\ Len(functions) \in Nat /\ DOMAIN functions = 1 .. Len(functions)
          /\ importFuncOffset \in 0 .. Len(functions)
      BY LenProperties DEF IInv
    <2>3. Declared = importFuncOffset + 1 .. Len(functions)
      <3>1. \A g \in DOMAIN functions : functions[g].imported <=> g <= importFuncOffset
        BY <2>1 DEF Imports, Adding
      <3> QED
        BY <2>2, <3>1 DEF Declared
    <2>4. Len(functions) - Cardinality(Declared) = importFuncOffset
      <3>1. PICK first \in Int : first = importFuncOffset + 1
        BY <2>2
      <3>2. PICK last \in Nat : last = Len(functions)
        BY <2>2, Zenon
      <3>3. Cardinality(first .. last) = IF first > last THEN 0 ELSE last - first + 1
        BY FS_Interval
      <3> QED
        BY <2>2, <2>3, <3>1, <3>2, <3>3
    <2>5. f \in Nat /\ f \in DOMAIN functions
      BY <2>2, <2>3
    <2>6. CASE ~SeenKind("code")
      <3>1. Entries("code") = {}
        BY <2>6 DEF Entries, SeenKind
      <3> QED
        BY <2>1, <2>5, <2>6, <3>1 DEF Bodies
    <2>7. CASE SeenKind("code")
      <3>1. PICK s \in DOMAIN file : file[s].kind = "code"
        BY <2>7 DEF SeenKind
      <3>2. \A t \in DOMAIN file : file[t].kind = "code" => t = s
        <4>1. DOMAIN file = 1 .. Len(file) /\ Len(file) \in Nat
          BY Starts
        <4> SUFFICES ASSUME NEW t \in DOMAIN file, file[t].kind = "code", t # s PROVE FALSE
          OBVIOUS
        <4>2. t < s \/ s < t
          BY <4>1
        <4>3. Place("code") < Place("code")
          BY <3>1, <4>2 DEF InStandardOrder, Place
        <4> QED
          BY <4>3 DEF Place
      <3>3. Entries("code") = DOMAIN file[s].items
        BY <3>1, <3>2 DEF Entries
      <3>4. Past(s) = DOMAIN file[s].items /\ \A i \in Past(s) : i \in Nat
        <4>1. s # 0 /\ DOMAIN file[s].items = 1 .. Len(file[s].items) /\ Len(file[s].items) \in Nat
          BY <3>1, EntriesOf
        <4> QED
          BY <2>1, <4>1 DEF Past
      <3>5. functions[f].bodies = IF \E i \in Past(s) : f = importFuncOffset + i THEN 1 ELSE 0
        BY <2>1, <2>5, <3>1 DEF Bodies, Filled
      <3>6. (\E i \in Past(s) : f = importFuncOffset + i) <=> f - importFuncOffset \in Past(s)
        BY <2>2, <2>5, <3>4
      <3> QED
        BY <2>4, <3>3, <3>4, <3>5, <3>6
    <2> QED
      BY <2>6, <2>7
  <1> QED
    BY <1>1, Invariance, StepInvariance, BodyInvariance, OffsetInvariance, PTL

-----------------------------------------------------------------------------
(* The code of wembed.start, and what it does.                             *)

\* A global is constant, imported, or loaded from one before it.
GlobalsInv ==
    /\ IsList(globals)
    /\ \A g \in DOMAIN globals :
         /\ IsInit(globals[g].init)
         /\ \/ globals[g].init.op \in {"const", "host"}
            \/ globals[g].init.op = "get" /\ globals[g].init.global \in 1 .. g - 1

IsStore(x, g) == x.op = "store" /\ x.target = g
IsFor(x, op, s, i) == x.op = op /\ x.section = s /\ x.target = i

\* The table of a segment has been read.
Placed(s, i) == file[s].kind = "element" => file[s].items[i].table \in DOMAIN tables

\* An instruction is that of a global or that of a segment.
Known(x) == x.init.op = "get" => x.init.global \in DOMAIN globals
Made(x) ==
    /\ Known(x)
    /\ \/ x.op = "store" /\ x.target \in DOMAIN globals /\ x.init = globals[x.target].init /\ x.init.op = "get"
       \/ /\ x.op \in {"check", "copy"} /\ x.section \in seen /\ x.target \in Segments(x.section)
          /\ x.init = file[x.section].items[x.target].offset /\ x.length = Size(x.section, x.target)
          /\ x.init.op \in {"const", "get"} /\ Placed(x.section, x.target)

\* Of the instructions before it, one stores the global an instruction reads,
\* and a copy comes after every check of its section.
Before(s, p) == {s[q] : q \in 1 .. p - 1}
Reads(S, x) ==
    x.init.op = "get" /\ globals[x.init.global].init.op = "get" => \E y \in S : IsStore(y, x.init.global)
Checked(S, x) ==
    x.op = "copy" => \A i \in Segments(x.section) : \E y \in S : IsFor(y, "check", x.section, i)
Loads(S, s) == \A p \in DOMAIN s : Reads(S \cup Before(s, p), s[p])
Follow(S, s) == \A p \in DOMAIN s : Reads(S \cup Before(s, p), s[p]) /\ Checked(S \cup Before(s, p), s[p])

\* What the entries read so far have emitted.
Stored ==
    \A g \in DOMAIN globals :
        globals[g].init.op = "get" => \E x \in In(entry) \cup In(copies) : IsStore(x, g)
Complete ==
    \A s \in seen : \A i \in Segments(s) :
        s # section \/ i < item =>
          /\ Placed(s, i)
          /\ \E x \in IF s = section THEN In(checks) ELSE In(entry) : IsFor(x, "check", s, i)
          /\ Size(s, i) > 0 => \E x \in In(entry) \cup In(copies) : IsFor(x, "copy", s, i)
Pending ==
    /\ Follow(In(entry), checks)
    /\ Loads(In(entry), copies)
    /\ \A x \in In(checks) : x.op = "check"
    /\ \A x \in In(copies) :
         IF x.op = "copy" THEN x.section = section ELSE file[section].kind = "global"

EmitInv ==
    /\ GlobalsInv
    /\ \A x \in In(entry) \cup In(checks) \cup In(copies) : Made(x)
    /\ Follow({}, entry) /\ Pending /\ Stored /\ Complete
    /\ IsList(user) /\ \A x \in In(user) : x.op = "call"

\* What the instructions before pc have done.
Landed(x) == [section |-> x.section, segment |-> x.target, offset |-> Target(x.init)]
Done(x) ==
    /\ x.op = "store" => cells[x.target] = Meaning[x.target]
    /\ x.op = "check" => Passes(x.section, Target(x.init), x.length)
    /\ x.op = "copy" => \E l \in DOMAIN landed : landed[l] = Landed(x)
RunInv ==
    /\ IsList(landed)
    /\ ~Accepted => pc = 1 /\ landed = <<>>
    /\ Accepted =>
         /\ DOMAIN cells = DOMAIN globals
         /\ \A g \in DOMAIN globals : globals[g].init.op # "get" => cells[g] = Meaning[g]
         /\ \A p \in DOMAIN entry : p < pc => Done(entry[p])
         /\ \A l \in DOMAIN landed : \E p \in DOMAIN entry :
              p < pc /\ entry[p].op = "copy" /\ landed[l] = Landed(entry[p])
    /\ result = "ready" => pc = Len(Program) + 1

Appended(t, s, e) ==
    /\ Len(s) \in Nat /\ DOMAIN s = 1 .. Len(s) /\ DOMAIN t = 1 .. Len(s) + 1
    /\ t[Len(s) + 1] = e /\ Before(t, Len(s) + 1) = In(s)
    /\ \A p \in 1 .. Len(s) : t[p] = s[p] /\ Before(t, p) = Before(s, p)
Joined(u, s, t) ==
    /\ Len(s) \in Nat /\ Len(t) \in Nat
    /\ DOMAIN s = 1 .. Len(s) /\ DOMAIN t = 1 .. Len(t) /\ DOMAIN u = 1 .. Len(s) + Len(t)
    /\ \A p \in 1 .. Len(s) : u[p] = s[p] /\ Before(u, p) = Before(s, p)
    /\ \A p \in 1 .. Len(t) :
         u[Len(s) + p] = t[p] /\ Before(u, Len(s) + p) = In(s) \cup Before(t, p)

\* What is before the places of a longer sequence.
LEMMA BeforeAppended ==
    ASSUME NEW s, IsList(s), NEW e
    PROVE  Appended(Append(s, e), s, e)
PROOF
  <1> DEFINE S == In(s) \cup {e}
             t == Append(s, e)
  <1>1. s \in Seq(S)
    BY SeqMonotonic DEF IsList
  <1>2. /\ t \in Seq(S) /\ Len(t) = Len(s) + 1 /\ t[Len(s) + 1] = e
        /\ \A i \in 1 .. Len(s) : t[i] = s[i]
    <2> HIDE DEF S
    <2>1. e \in S
      BY DEF S
    <2> QED
      BY <1>1, <2>1, AppendProperties
  <1>3. DOMAIN s = 1 .. Len(s) /\ DOMAIN t = 1 .. Len(t) /\ Len(s) \in Nat
    BY <1>1, <1>2, LenProperties
  <1> HIDE DEF t
  <1>4. Before(t, Len(s) + 1) = In(s)
    <2>1. (Len(s) + 1) - 1 = Len(s)
      BY <1>3
    <2> QED
      BY <2>1, <1>2, <1>3 DEF Before, In
  <1>5. ASSUME NEW p \in 1 .. Len(s) PROVE Before(t, p) = Before(s, p)
    <2>1. \A i \in 1 .. p - 1 : i \in 1 .. Len(s)
      <3>1. PICK n \in Nat : n = Len(s)
        BY <1>3, Zenon
      <3>2. p \in 1 .. n
        BY <3>1
      <3> QED
        BY <3>1, <3>2
    <2>2. \A i \in 1 .. p - 1 : t[i] = s[i]
      BY <1>2, <2>1
    <2>3. {t[q] : q \in 1 .. p - 1} = {s[q] : q \in 1 .. p - 1}
      BY <2>2, Zenon
    <2> QED
      BY <2>3 DEF Before
  <1> QED
    BY <1>2, <1>3, <1>4, <1>5 DEF Appended, t

\* And of two joined.
LEMMA BeforeJoined ==
    ASSUME NEW s, NEW t, IsList(s), IsList(t)
    PROVE  Joined(s \o t, s, t)
PROOF
  <1> DEFINE S == In(s) \cup In(t)
             u == s \o t
  <1>1. s \in Seq(S) /\ t \in Seq(S)
    BY SeqMonotonic DEF IsList
  <1>2. /\ u \in Seq(S) /\ Len(u) = Len(s) + Len(t)
        /\ \A i \in 1 .. Len(s) + Len(t) : u[i] = IF i <= Len(s) THEN s[i] ELSE t[i - Len(s)]
    <2> HIDE DEF S
    <2> QED
      BY <1>1, ConcatProperties
  <1>3. /\ DOMAIN s = 1 .. Len(s) /\ DOMAIN t = 1 .. Len(t) /\ DOMAIN u = 1 .. Len(s) + Len(t)
        /\ Len(s) \in Nat /\ Len(t) \in Nat
    BY <1>1, <1>2, LenProperties
  <1> HIDE DEF S, u
  <1>4. PICK n \in Nat : n = Len(s)
    BY <1>3, Zenon
  <1>5. PICK m \in Nat : m = Len(t)
    BY <1>3, Zenon
  <1>6. ASSUME NEW p \in 1 .. n PROVE u[p] = s[p] /\ Before(u, p) = Before(s, p)
    <2>1. \A i \in 1 .. n : u[i] = s[i]
      BY <1>2, <1>4, <1>5
    <2>2. \A i \in 1 .. p - 1 : i \in 1 .. n
      OBVIOUS
    <2> QED
      BY <2>1, <2>2 DEF Before
  <1>7. ASSUME NEW p \in 1 .. m PROVE u[n + p] = t[p] /\ Before(u, n + p) = In(s) \cup Before(t, p)
    <2>1. \A i \in 1 .. n : i \in 1 .. (n + p) - 1 /\ u[i] = s[i]
      BY <1>2, <1>4, <1>5
    <2>2. ASSUME NEW i \in 1 .. m PROVE n + i \in 1 .. n + m /\ u[n + i] = t[i]
      <3>1. n + i \in 1 .. n + m /\ ~(n + i <= n) /\ (n + i) - n = i
        OBVIOUS
      <3> QED
        BY <3>1, <1>2, <1>4, <1>5
    <2>3. Before(u, n + p) \subseteq In(s) \cup Before(t, p)
      <3> SUFFICES ASSUME NEW i \in 1 .. (n + p) - 1 PROVE u[i] \in In(s) \cup Before(t, p)
        BY DEF Before
      <3>1. CASE i <= n
        <4>1. i \in 1 .. n
          BY <3>1
        <4>2. u[i] = s[i] /\ i \in DOMAIN s
          BY <4>1, <2>1, <1>3, <1>4
        <4> QED
          BY <4>2 DEF In
      <3>2. CASE i > n
        <4>1. i - n \in 1 .. p - 1 /\ i - n \in 1 .. m /\ i = n + (i - n)
          BY <3>2
        <4>2. u[i] = t[i - n]
          BY <4>1, <2>2
        <4> QED
          BY <4>1, <4>2 DEF Before
      <3>3. i \in Nat
        OBVIOUS
      <3>4. i <= n \/ i > n
        BY <3>3
      <3> QED
        BY <3>1, <3>2, <3>4, Zenon
    <2>4. In(s) \subseteq Before(u, n + p)
      BY <2>1, <1>3, <1>4 DEF In, Before
    <2>5. Before(t, p) \subseteq Before(u, n + p)
      <3> SUFFICES ASSUME NEW i \in 1 .. p - 1 PROVE t[i] \in Before(u, n + p)
        BY DEF Before
      <3>1. n + i \in 1 .. (n + p) - 1 /\ u[n + i] = t[i]
        BY <2>2
      <3> QED
        BY <3>1 DEF Before
    <2> QED
      BY <2>2, <2>3, <2>4, <2>5
  <1> QED
    BY <1>3, <1>4, <1>5, <1>6, <1>7 DEF Joined, u

\* What follows a set follows a larger one.
LEMMA FollowsMore ==
    ASSUME NEW S, NEW T, S \subseteq T
    PROVE  /\ \A x : (Reads(S, x) => Reads(T, x)) /\ (Checked(S, x) => Checked(T, x))
           /\ \A s : Follow(S, s) => Follow(T, s)
PROOF
  <1>1. \A A, B : A \subseteq B => \A x : (Reads(A, x) => Reads(B, x)) /\ (Checked(A, x) => Checked(B, x))
    BY DEF Reads, Checked
  <1>2. ASSUME NEW s, Follow(S, s), NEW p \in DOMAIN s
        PROVE  Reads(T \cup Before(s, p), s[p]) /\ Checked(T \cup Before(s, p), s[p])
    <2>1. S \cup Before(s, p) \subseteq T \cup Before(s, p)
      OBVIOUS
    <2> QED
      BY <1>1, <1>2, <2>1 DEF Follow
  <1> QED
    BY <1>1, <1>2 DEF Follow

\* An instruction whose needs are met can be appended.
LEMMA FollowAppended ==
    ASSUME NEW S, NEW s, IsList(s), Follow(S, s), NEW e, Reads(S \cup In(s), e), Checked(S \cup In(s), e)
    PROVE  Follow(S, Append(s, e))
PROOF
  <1>1. PICK t : t = Append(s, e)
    OBVIOUS
  <1>2. /\ Len(s) \in Nat /\ DOMAIN s = 1 .. Len(s) /\ DOMAIN t = 1 .. Len(s) + 1
        /\ t[Len(s) + 1] = e /\ Before(t, Len(s) + 1) = In(s)
        /\ \A p \in 1 .. Len(s) : t[p] = s[p] /\ Before(t, p) = Before(s, p)
    BY <1>1, BeforeAppended DEF Appended
  <1>3. ASSUME NEW p \in DOMAIN t
        PROVE  Reads(S \cup Before(t, p), t[p]) /\ Checked(S \cup Before(t, p), t[p])
    <2>1. CASE p = Len(s) + 1
      BY <1>2, <2>1
    <2>2. CASE p # Len(s) + 1
      <3>1. p \in 1 .. Len(s)
        BY <1>2, <2>2
      <3>2. t[p] = s[p] /\ Before(t, p) = Before(s, p) /\ p \in DOMAIN s
        BY <1>2, <3>1
      <3> QED
        BY <3>2 DEF Follow
    <2> QED
      BY <2>1, <2>2
  <1>4. Follow(S, t)
    BY <1>3 DEF Follow
  <1> QED
    BY <1>1, <1>4

\* A sequence that follows another can be joined to it.
LEMMA FollowJoined ==
    ASSUME NEW S, NEW s, NEW t, IsList(s), IsList(t), Follow(S, s), Follow(S \cup In(s), t)
    PROVE  Follow(S, s \o t)
PROOF
  <1>1. PICK u : u = s \o t
    OBVIOUS
  <1>2. /\ Len(s) \in Nat /\ Len(t) \in Nat
        /\ DOMAIN s = 1 .. Len(s) /\ DOMAIN t = 1 .. Len(t) /\ DOMAIN u = 1 .. Len(s) + Len(t)
        /\ \A p \in 1 .. Len(s) : u[p] = s[p] /\ Before(u, p) = Before(s, p)
        /\ \A p \in 1 .. Len(t) :
             u[Len(s) + p] = t[p] /\ Before(u, Len(s) + p) = In(s) \cup Before(t, p)
    BY <1>1, BeforeJoined DEF Joined
  <1>3. ASSUME NEW p \in DOMAIN u
        PROVE  Reads(S \cup Before(u, p), u[p]) /\ Checked(S \cup Before(u, p), u[p])
    <2>1. CASE p \in 1 .. Len(s)
      <3>1. u[p] = s[p] /\ Before(u, p) = Before(s, p) /\ p \in DOMAIN s
        BY <1>2, <2>1
      <3> QED
        BY <3>1 DEF Follow
    <2>2. CASE p \notin 1 .. Len(s)
      <3>1. PICK i \in 1 .. Len(t) : p = Len(s) + i
        <4>1. p - Len(s) \in 1 .. Len(t) /\ p = Len(s) + (p - Len(s))
          BY <1>2, <2>2
        <4> QED
          BY <4>1
      <3>2. u[p] = t[i] /\ Before(u, p) = In(s) \cup Before(t, i) /\ i \in DOMAIN t
        BY <1>2, <3>1
      <3>3. S \cup Before(u, p) = (S \cup In(s)) \cup Before(t, i)
        BY <3>2
      <3> QED
        BY <3>2, <3>3 DEF Follow
    <2> QED
      BY <2>1, <2>2
  <1>4. Follow(S, u)
    BY <1>3 DEF Follow
  <1> QED
    BY <1>1, <1>4

\* What a segment takes does not change once its table has been read.
LEMMA SizesStay ==
    ASSUME file' = file, tables' = tables \/ tables = <<>>
    PROVE  \A s : Segments(s)' = Segments(s) /\ \A i \in Segments(s) :
             Placed(s, i) => Placed(s, i)' /\ Size(s, i)' = Size(s, i)
PROOF
  <1>1. \A t : t \in DOMAIN tables => t \in DOMAIN tables' /\ tables'[t] = tables[t]
    OBVIOUS
  <1>2. \A s : Segments(s)' = Segments(s)
    BY DEF Segments
  <1>3. ASSUME NEW s, NEW i \in Segments(s), Placed(s, i) PROVE Placed(s, i)' /\ Size(s, i)' = Size(s, i)
    <2>1. file[s].kind \in {"element", "data"}
      BY DEF Segments
    <2>2. CASE file[s].kind = "data"
      BY <2>2 DEF Placed, Size
    <2>3. CASE file[s].kind = "element"
      BY <1>1, <1>3, <2>3 DEF Placed, Size, OfFunctions
    <2> QED
      BY <2>1, <2>2, <2>3
  <1> QED
    BY <1>2, <1>3

\* The declarations an instruction is made from stay.
LEMMA SameGlobals ==
    ASSUME UNCHANGED <<file, globals>>, seen \subseteq seen', tables' = tables \/ tables = <<>>
    PROVE  /\ \A x : Made(x) => Made(x)'
           /\ \A S, x : (Reads(S, x)' <=> Reads(S, x)) /\ (Checked(S, x)' <=> Checked(S, x))
           /\ \A S, s : Follow(S, s)' <=> Follow(S, s)
PROOF
  <1>1. \A x : Made(x) => Made(x)'
    BY SizesStay DEF Made, Known
  <1>2. \A S, x : Reads(S, x)' <=> Reads(S, x)
    BY DEF Reads
  <1>3. \A S, x : Checked(S, x)' <=> Checked(S, x)
    BY DEF Checked, Segments
  <1>4. \A S, s : Follow(S, s)' <=> Follow(S, s)
    BY <1>2, <1>3 DEF Follow, Before
  <1> QED
    BY <1>1, <1>2, <1>3, <1>4

\* A step that emits nothing.
LEMMA EmitStays ==
    ASSUME IInv, OffsetInv, EmitInv, UNCHANGED <<file, section, seen, globals, codeVars>>,
           item' = item \/ Segments(section) = {}, tables' = tables \/ tables = <<>>
    PROVE  EmitInv'
PROOF
  <1>1. GlobalsInv'
    BY DEF EmitInv, GlobalsInv, IsList, In
  <1>2. /\ UNCHANGED <<entry, checks, copies, user>>
        /\ In(entry)' = In(entry) /\ In(checks)' = In(checks) /\ In(copies)' = In(copies)
        /\ In(user)' = In(user) /\ (IsList(user)' <=> IsList(user))
    BY DEF codeVars, In, IsList
  <1>3. \A x \in In(entry)' \cup In(checks)' \cup In(copies)' : Made(x)'
    BY <1>2, SameGlobals DEF EmitInv
  <1>4. Follow({}, entry)' /\ Follow(In(entry), checks)'
    BY <1>2, SameGlobals DEF EmitInv, Pending
  <1>5. Pending'
    BY <1>2, <1>4, SameGlobals DEF EmitInv, Pending, Loads, Before
  <1>6. Stored'
    BY <1>2 DEF EmitInv, Stored
  <1>7. Complete'
    BY <1>2, SizesStay DEF EmitInv, Complete
  <1> QED
    BY <1>1, <1>2, <1>3, <1>4, <1>5, <1>6, <1>7 DEF EmitInv

\* Entering a section emits nothing either.
LEMMA EnterEmits ==
    ASSUME IInv, OffsetInv, EmitInv, Enter
    PROVE  EmitInv'
PROOF
  <1>1. PICK s \in DOMAIN file : section' = s /\ item' = 1 /\ seen' = seen \cup {s}
    BY DEF Enter
  <1>2. /\ section = 0 /\ checks' = <<>> /\ copies' = <<>>
        /\ UNCHANGED <<file, globals, entry, user, tables>>
    BY DEF Enter
  <1>3. In(checks) = {} /\ In(copies) = {} /\ In(<<>>) = {}
    BY <1>2 DEF OffsetInv, In
  <1>4. /\ In(entry)' = In(entry) /\ In(checks)' = {} /\ In(copies)' = {} /\ In(user)' = In(user)
        /\ (IsList(user)' <=> IsList(user))
    BY <1>2, <1>3 DEF In, IsList
  <1>5. GlobalsInv'
    BY <1>2 DEF EmitInv, GlobalsInv, IsList, In
  <1>6. \A x \in In(entry)' \cup In(checks)' \cup In(copies)' : Made(x)'
    BY <1>1, <1>2, <1>4, SameGlobals DEF EmitInv
  <1>7. Follow({}, entry)' /\ Follow(In(entry), checks)'
    <2>1. DOMAIN checks' = {}
      BY <1>2
    <2> QED
      BY <1>1, <1>2, <2>1, SameGlobals DEF EmitInv, Follow
  <1>8. Pending'
    <2>1. DOMAIN copies' = {}
      BY <1>2
    <2> QED
      BY <1>4, <1>7, <2>1 DEF Pending, Loads
  <1>9. Stored'
    BY <1>2, <1>3, <1>4 DEF EmitInv, Stored
  <1>10. Complete'
    <2> SUFFICES ASSUME NEW t \in seen', NEW i \in Segments(t)', t # section' \/ i < item'
                 PROVE  /\ Placed(t, i)'
                        /\ \E x \in IF t = section' THEN In(checks)' ELSE In(entry)' : IsFor(x, "check", t, i)
                        /\ Size(t, i)' > 0 => \E x \in In(entry)' \cup In(copies)' : IsFor(x, "copy", t, i)
      BY DEF Complete
    <2>1. /\ t \in DOMAIN file /\ Segments(t)' = Segments(t) /\ Size(t, i)' = Size(t, i)
          /\ (Placed(t, i)' <=> Placed(t, i))
      BY <1>1, <1>2 DEF OffsetInv, Segments, Size, OfFunctions, Placed
    <2>2. t # section' /\ t \in seen
      <3>1. i \in Nat /\ i >= 1
        BY <2>1, EntriesOf DEF Segments
      <3> QED
        BY <1>1, <3>1
    <2>3. t # section
      BY <1>2, <2>1, EntriesOf
    <2> QED
      BY <1>3, <1>4, <2>1, <2>2, <2>3 DEF EmitInv, Complete
  <1> QED
    BY <1>2, <1>4, <1>5, <1>6, <1>7, <1>8, <1>9, <1>10 DEF EmitInv

\* A section that is left puts its checks behind what there is, and its copies
\* behind them.
LEMMA LeaveEmits ==
    ASSUME IInv, OffsetInv, EmitInv, Leave
    PROVE  EmitInv'
PROOF
  <1>1. /\ section # 0 /\ (Read.kind = "name" \/ item > Len(Read.items)) /\ section' = 0
        /\ entry' = entry \o checks \o copies /\ checks' = <<>> /\ copies' = <<>>
        /\ UNCHANGED <<file, seen, globals, user, tables>>
    BY DEF Leave, More, IInv, Read
  <1>2. /\ IsList(entry) /\ IsList(checks) /\ IsList(copies)
        /\ section \in seen /\ section \in DOMAIN file
    BY <1>1 DEF OffsetInv, BuilderPlaced
  <1>3. In(<<>>) = {}
    BY DEF In
  <1>4. IsList(entry \o checks) /\ In(entry \o checks) = In(entry) \cup In(checks)
    BY <1>2, ListsJoined
  <1>5. In((entry \o checks) \o copies) = In(entry) \cup In(checks) \cup In(copies)
    BY <1>2, <1>4, ListsJoined
  <1>6. /\ In(entry)' = In(entry) \cup In(checks) \cup In(copies)
        /\ In(checks)' = {} /\ In(copies)' = {} /\ In(user)' = In(user)
        /\ (IsList(user)' <=> IsList(user))
    <2>1. In(entry)' = In(entry') /\ In(checks)' = In(checks') /\ In(copies)' = In(copies')
      BY DEF In
    <2> QED
      BY <1>1, <1>3, <1>5, <2>1 DEF In, IsList
  <1>7. GlobalsInv'
    BY <1>1 DEF EmitInv, GlobalsInv, IsList, In
  <1>8. \A x \in In(entry)' \cup In(checks)' \cup In(copies)' : Made(x)'
    BY <1>1, <1>6, SameGlobals DEF EmitInv
  <1>9. \A i \in Segments(section) : i < item
    <2>1. Len(file[section].items) \in Nat /\ DOMAIN file[section].items = 1 .. Len(file[section].items)
          /\ item \in Nat
      BY <1>2, EntriesOf DEF IInv
    <2> QED
      BY <1>1, <2>1 DEF Segments, Read
  <1>10. Follow(In(entry) \cup In(checks), copies)
    <2> SUFFICES ASSUME NEW p \in DOMAIN copies
                 PROVE  /\ Reads((In(entry) \cup In(checks)) \cup Before(copies, p), copies[p])
                        /\ Checked((In(entry) \cup In(checks)) \cup Before(copies, p), copies[p])
      BY DEF Follow
    <2>1. Reads(In(entry) \cup Before(copies, p), copies[p])
      BY DEF EmitInv, Pending, Loads
    <2>2. Reads((In(entry) \cup In(checks)) \cup Before(copies, p), copies[p])
      <3>1. In(entry) \cup Before(copies, p) \subseteq (In(entry) \cup In(checks)) \cup Before(copies, p)
        OBVIOUS
      <3> QED
        BY <2>1, <3>1, FollowsMore
    <2>3. copies[p] \in In(copies)
      BY DEF In
    <2>4. ASSUME copies[p].op = "copy", NEW i \in Segments(copies[p].section)
          PROVE  \E y \in In(checks) : IsFor(y, "check", copies[p].section, i)
      BY <1>2, <1>9, <2>3, <2>4 DEF EmitInv, Pending, Complete
    <2>5. Checked((In(entry) \cup In(checks)) \cup Before(copies, p), copies[p])
      BY <2>4 DEF Checked
    <2> QED
      BY <2>2, <2>5
  <1>11. Follow({}, (entry \o checks) \o copies)
    <2>1. {} \cup In(entry) = In(entry) /\ {} \cup In(entry \o checks) = In(entry) \cup In(checks)
      BY <1>4
    <2>2. Follow({}, entry \o checks)
      BY <1>2, <2>1, FollowJoined DEF EmitInv, Pending
    <2> QED
      BY <1>2, <1>4, <1>10, <2>1, <2>2, FollowJoined
  <1>12. Follow({}, entry)'
    BY <1>1, <1>11, SameGlobals DEF Follow, Before
  <1>13. Pending'
    <2>1. DOMAIN copies' = {} /\ DOMAIN checks' = {}
      BY <1>1
    <2> QED
      BY <1>6, <2>1 DEF Pending, Loads, Follow
  <1>14. Stored'
    BY <1>1, <1>6 DEF EmitInv, Stored
  <1>15. Complete'
    <2> SUFFICES ASSUME NEW t \in seen, NEW i \in Segments(t)
                 PROVE  /\ Placed(t, i)
                        /\ \E x \in In(entry)' : IsFor(x, "check", t, i)
                        /\ Size(t, i) > 0 => \E x \in In(entry)' : IsFor(x, "copy", t, i)
      <3>1. \A t \in seen : t # 0 /\ t \in DOMAIN file
        BY EntriesOf DEF OffsetInv
      <3> QED
        BY <1>1, <1>6, <3>1 DEF Complete, Segments, Size, OfFunctions, Placed
    <2>1. t # section \/ i < item
      BY <1>9
    <2>2. /\ Placed(t, i)
          /\ \E x \in IF t = section THEN In(checks) ELSE In(entry) : IsFor(x, "check", t, i)
          /\ Size(t, i) > 0 => \E x \in In(entry) \cup In(copies) : IsFor(x, "copy", t, i)
      BY <2>1 DEF EmitInv, Complete
    <2> QED
      BY <1>6, <2>2
  <1> QED
    BY <1>6, <1>7, <1>8, <1>12, <1>13, <1>14, <1>15 DEF EmitInv

\* The same of what instructions read.
LEMMA LoadsAppended ==
    ASSUME NEW S, NEW s, IsList(s), Loads(S, s), NEW e, Reads(S \cup In(s), e)
    PROVE  Loads(S, Append(s, e))
PROOF
  <1>1. PICK t : t = Append(s, e)
    OBVIOUS
  <1>2. /\ Len(s) \in Nat /\ DOMAIN s = 1 .. Len(s) /\ DOMAIN t = 1 .. Len(s) + 1
        /\ t[Len(s) + 1] = e /\ Before(t, Len(s) + 1) = In(s)
        /\ \A p \in 1 .. Len(s) : t[p] = s[p] /\ Before(t, p) = Before(s, p)
    BY <1>1, BeforeAppended DEF Appended
  <1>3. ASSUME NEW p \in DOMAIN t
        PROVE  Reads(S \cup Before(t, p), t[p])
    <2>1. CASE p = Len(s) + 1
      BY <1>2, <2>1
    <2>2. CASE p # Len(s) + 1
      <3>1. p \in 1 .. Len(s)
        BY <1>2, <2>2
      <3>2. t[p] = s[p] /\ Before(t, p) = Before(s, p) /\ p \in DOMAIN s
        BY <1>2, <3>1
      <3> QED
        BY <3>2 DEF Loads
    <2> QED
      BY <2>1, <2>2
  <1>4. Loads(S, t)
    BY <1>3 DEF Loads
  <1> QED
    BY <1>1, <1>4

\* A global that is added changes nothing of those before it.
LEMMA GlobalAdded ==
    ASSUME EmitInv, NEW r, globals' = Append(globals, r), UNCHANGED <<file, seen, tables>>, IsInit(r.init),
           \/ r.init.op \in {"const", "host"}
           \/ r.init.op = "get" /\ r.init.global \in DOMAIN globals
    PROVE  /\ GlobalsInv' /\ Len(globals) \in Nat
           /\ DOMAIN globals = 1 .. Len(globals) /\ DOMAIN globals' = 1 .. Len(globals) + 1
           /\ \A g \in DOMAIN globals : globals'[g] = globals[g]
           /\ globals'[Len(globals) + 1] = r
           /\ \A x : Made(x) => Made(x)'
           /\ \A S, x : Known(x) /\ Reads(S, x) => Reads(S, x)'
           /\ \A S, s : (\A x \in In(s) : Known(x)) /\ Loads(S, s) => Loads(S, s)'
           /\ \A S, s : (\A x \in In(s) : Known(x)) /\ Follow(S, s) => Follow(S, s)'
PROOF
  <1>1. /\ Len(globals) \in Nat /\ DOMAIN globals = 1 .. Len(globals) /\ DOMAIN globals' = 1 .. Len(globals) + 1
        /\ globals'[Len(globals) + 1] = r
        /\ \A g \in 1 .. Len(globals) : globals'[g] = globals[g]
    BY BeforeAppended DEF EmitInv, GlobalsInv, Appended
  <1>2. IsList(globals)'
    <2>1. IsList(Append(globals, r))
      BY ListAppended DEF EmitInv, GlobalsInv
    <2>2. IsList(globals)' <=> IsList(globals')
      BY DEF IsList, In
    <2> QED
      BY <2>1, <2>2
  <1>3. ASSUME NEW g \in DOMAIN globals'
        PROVE  /\ IsInit(globals'[g].init)
               /\ \/ globals'[g].init.op \in {"const", "host"}
                  \/ globals'[g].init.op = "get" /\ globals'[g].init.global \in 1 .. g - 1
    <2>1. CASE g \in DOMAIN globals
      BY <1>1, <2>1 DEF EmitInv, GlobalsInv
    <2>2. CASE g \notin DOMAIN globals
      <3>1. g = Len(globals) + 1 /\ g - 1 = Len(globals)
        BY <1>1, <2>2
      <3> QED
        BY <1>1, <3>1
    <2> QED
      BY <2>1, <2>2
  <1>4. GlobalsInv'
    BY <1>2, <1>3 DEF GlobalsInv, IsInit
  <1>5. \A x : Made(x) => Made(x)'
    <2>1. \A s, i : Segments(s)' = Segments(s) /\ Size(s, i)' = Size(s, i) /\ (Placed(s, i)' <=> Placed(s, i))
      BY DEF Segments, Size, OfFunctions, Placed
    <2>2. UNCHANGED <<file, seen>>
      OBVIOUS
    <2>3. \A x : Known(x) => Known(x)'
      BY <1>1 DEF Known
    <2> QED
      BY <1>1, <2>1, <2>2, <2>3 DEF Made
  <1>6. \A S, x : Known(x) /\ Reads(S, x) => Reads(S, x)'
    BY <1>1 DEF Known, Reads
  <1>7. \A S, x : Checked(S, x)' <=> Checked(S, x)
    BY DEF Checked, Segments
  <1>8. \A S, s : (\A x \in In(s) : Known(x)) /\ Loads(S, s) => Loads(S, s)'
    BY <1>6 DEF Loads, Before, In
  <1>9. \A S, s : (\A x \in In(s) : Known(x)) /\ Follow(S, s) => Follow(S, s)'
    BY <1>6, <1>7 DEF Follow, Before, In
  <1> QED
    BY <1>1, <1>4, <1>5, <1>6, <1>8, <1>9

\* An imported global is one the host gives.
LEMMA ImportGlobalEmits ==
    ASSUME IInv, OffsetInv, EmitInv, ImportGlobal
    PROVE  EmitInv'
PROOF
  <1> DEFINE r == [type |-> Now.type, init |-> [op |-> "host"],
                   constant |-> ~Now.mutable /\ [op |-> "host"].op # "get"]
  <1>1. /\ globals' = Append(globals, r) /\ r.init.op = "host" /\ IsInit(r.init)
        /\ section \in DOMAIN file /\ Segments(section) = {} /\ UNCHANGED <<file, section, seen, codeVars, tables>>
    BY InSection DEF ImportGlobal, AddGlobal, Handle, Segments, Read, codeVars, IsInit
  <1> HIDE DEF r
  <1>2. /\ GlobalsInv' /\ Len(globals) \in Nat
        /\ DOMAIN globals = 1 .. Len(globals) /\ DOMAIN globals' = 1 .. Len(globals) + 1
        /\ \A g \in DOMAIN globals : globals'[g] = globals[g]
        /\ globals'[Len(globals) + 1] = r
        /\ \A x : Made(x) => Made(x)'
        /\ \A S, s : (\A x \in In(s) : Known(x)) /\ Loads(S, s) => Loads(S, s)'
        /\ \A S, s : (\A x \in In(s) : Known(x)) /\ Follow(S, s) => Follow(S, s)'
    BY <1>1, GlobalAdded
  <1>3. /\ UNCHANGED <<entry, checks, copies, user>>
        /\ In(entry)' = In(entry) /\ In(checks)' = In(checks) /\ In(copies)' = In(copies)
        /\ In(user)' = In(user) /\ (IsList(user)' <=> IsList(user))
    BY <1>1 DEF codeVars, In, IsList
  <1>4. \A x \in In(entry)' \cup In(checks)' \cup In(copies)' : Made(x)'
    BY <1>2, <1>3 DEF EmitInv
  <1>5. Follow({}, entry)' /\ Follow(In(entry), checks)' /\ Loads(In(entry), copies)'
    BY <1>2, <1>3 DEF EmitInv, Pending, Made
  <1>6. Pending'
    BY <1>1, <1>3, <1>5 DEF EmitInv, Pending
  <1>7. Stored'
    BY <1>1, <1>2, <1>3 DEF EmitInv, Stored
  <1>8. Complete'
    BY <1>1, <1>3 DEF EmitInv, Complete, Segments, Size, OfFunctions, Placed
  <1> QED
    BY <1>2, <1>3, <1>4, <1>5, <1>6, <1>7, <1>8 DEF EmitInv

\* A global that is loaded from another one leaves a store behind that of the
\* other one.
LEMMA GlobalEmits ==
    ASSUME IInv, OffsetInv, EmitInv, Global
    PROVE  EmitInv'
PROOF
  <1> DEFINE r == [type |-> Now.type, init |-> Now.init, constant |-> ~Now.mutable /\ Now.init.op # "get"]
  <1>1. /\ globals' = Append(globals, r) /\ r.init = Now.init /\ section \in DOMAIN file
        /\ file[section].kind = "global" /\ Segments(section) = {} /\ ~InitFails(Now.init, Now.type)
        /\ UNCHANGED <<file, section, seen, checks, entry, user, tables>> /\ IsInit(r.init)
    BY InSection DEF Global, AddGlobal, Handle, Fails, Segments, Read, IsEntry
  <1>2. PICK x :
          /\ x.op = "store" /\ x.target = Len(globals) + 1 /\ x.init = Now.init
          /\ copies' = IF Now.init.op = "get" THEN Append(copies, x) ELSE copies
    <2>1. PICK x : x = Instr("store", Len(globals) + 1, Now.init, builder, 0)
      OBVIOUS
    <2>2. x.op = "store" /\ x.target = Len(globals) + 1 /\ x.init = Now.init
      BY <2>1 DEF Instr
    <2>3. copies' = IF Now.init.op = "get" THEN Append(copies, x) ELSE copies
      BY <2>1 DEF Global
    <2> QED
      BY <2>2, <2>3
  <1>3. \/ r.init.op = "const"
        \/ r.init.op = "get" /\ r.init.global \in DOMAIN globals
    BY <1>1 DEF InitFails
  <1> HIDE DEF r
  <1>4. /\ GlobalsInv' /\ Len(globals) \in Nat
        /\ DOMAIN globals = 1 .. Len(globals) /\ DOMAIN globals' = 1 .. Len(globals) + 1
        /\ \A g \in DOMAIN globals : globals'[g] = globals[g]
        /\ globals'[Len(globals) + 1] = r
        /\ \A y : Made(y) => Made(y)'
        /\ \A S, y : Known(y) /\ Reads(S, y) => Reads(S, y)'
        /\ \A S, s : (\A y \in In(s) : Known(y)) /\ Loads(S, s) => Loads(S, s)'
        /\ \A S, s : (\A y \in In(s) : Known(y)) /\ Follow(S, s) => Follow(S, s)'
    BY <1>1, <1>3, GlobalAdded
  <1>5. /\ In(entry)' = In(entry) /\ In(checks)' = In(checks)
        /\ In(user)' = In(user) /\ (IsList(user)' <=> IsList(user))
    BY <1>1 DEF In, IsList
  <1>6. \A y \in In(entry) \cup In(checks) \cup In(copies) : Made(y) /\ Known(y)
    BY DEF EmitInv, Made
  <1>7. Follow({}, entry)' /\ Follow(In(entry), checks)'
    BY <1>1, <1>4, <1>5, <1>6 DEF EmitInv, Pending
  <1>8. IsList(copies) /\ Loads(In(entry), copies)
    BY DEF OffsetInv, EmitInv, Pending
  <1>9. CASE Now.init.op # "get"
    <2>1. copies' = copies /\ In(copies)' = In(copies)
      BY <1>2, <1>9 DEF In
    <2>2. Loads(In(entry), copies)'
      BY <1>4, <1>5, <1>6, <1>8, <2>1
    <2>3. \A y \in In(entry)' \cup In(checks)' \cup In(copies)' : Made(y)'
      BY <1>4, <1>5, <1>6, <2>1
    <2>4. Pending'
      BY <1>1, <1>5, <1>7, <2>1, <2>2 DEF EmitInv, Pending
    <2>5. Stored'
      BY <1>1, <1>4, <1>5, <1>9, <2>1 DEF EmitInv, Stored
    <2>6. Complete'
      BY <1>1, <1>5, <2>1 DEF EmitInv, Complete, Segments, Size, OfFunctions, Placed
    <2> QED
      BY <1>4, <1>5, <1>7, <2>3, <2>4, <2>5, <2>6 DEF EmitInv
  <1>10. CASE Now.init.op = "get"
    <2>1. Known(x) /\ Reads(In(entry) \cup In(copies), x)
      BY <1>1, <1>2, <1>3, <1>10 DEF EmitInv, Stored, Known, Reads
    <2>2. PICK s : s = Append(copies, x)
      OBVIOUS
    <2>3. Loads(In(entry), s) /\ In(s) = In(copies) \cup {x}
      BY <1>8, <2>1, <2>2, LoadsAppended, ListAppended
    <2>4. copies' = s /\ In(copies)' = In(s)
      BY <1>2, <1>10, <2>2 DEF In
    <2>5. Loads(In(entry), copies)'
      BY <1>4, <1>5, <1>6, <2>1, <2>3, <2>4
    <2>6. Made(x)'
      BY <1>1, <1>2, <1>3, <1>4, <1>10 DEF Made, Known
    <2>7. \A y \in In(entry)' \cup In(checks)' \cup In(copies)' : Made(y)'
      BY <1>4, <1>5, <1>6, <2>3, <2>4, <2>6
    <2>8. Pending'
      BY <1>1, <1>2, <1>5, <1>7, <2>3, <2>4, <2>5 DEF EmitInv, Pending
    <2>9. Stored'
      <3>1. IsStore(x, Len(globals) + 1)
        BY <1>2 DEF IsStore
      <3> QED
        BY <1>4, <1>5, <2>3, <2>4, <3>1 DEF EmitInv, Stored
    <2>10. Complete'
      BY <1>1, <1>5, <2>3, <2>4 DEF EmitInv, Complete, Segments, Size, OfFunctions, Placed
    <2> QED
      BY <1>4, <1>5, <1>7, <2>7, <2>8, <2>9, <2>10 DEF EmitInv
  <1> QED
    BY <1>9, <1>10

\* A segment leaves its check and, with content, its copy, which read globals
\* that are stored.
LEMMA SegmentEmits ==
    ASSUME IInv, OffsetInv, EmitInv, NEW kind \in {"element", "data"}, Handle(kind, "segment"),
           NEW check, NEW copy, check.op = "check", copy.op = "copy",
           check.section = section, check.target = item,
           check.init = Now.offset, check.length = Size(section, item),
           copy.section = section, copy.target = item,
           copy.init = Now.offset, copy.length = Size(section, item),
           ~InitFails(Now.offset, "i32"), checks' = Append(checks, check),
           copies' = IF Size(section, item) > 0 THEN Append(copies, copy) ELSE copies,
           UNCHANGED <<globals, entry, user, tables>>, Placed(section, item)
    PROVE  EmitInv'
PROOF
  <1>1. /\ section \in DOMAIN file /\ section # 0 /\ file[section].kind = kind /\ item \in Segments(section)
        /\ section \in seen /\ item \in Nat /\ item' = item + 1 /\ UNCHANGED <<file, section, seen>>
        /\ Now.offset = file[section].items[item].offset
    BY InSection DEF Handle, InEntry, Segments, Read, Now, OffsetInv, BuilderPlaced, IInv
  <1>2. /\ IsList(entry) /\ IsList(checks) /\ IsList(copies) /\ Follow(In(entry), checks)
        /\ Loads(In(entry), copies)
    BY DEF OffsetInv, EmitInv, Pending
  <1>3. /\ GlobalsInv' /\ In(entry)' = In(entry)
        /\ In(user)' = In(user) /\ (IsList(user)' <=> IsList(user))
    BY DEF EmitInv, GlobalsInv, IsList, In
  <1>4. Made(check) /\ Made(copy)
    BY <1>1 DEF Made, Known, InitFails
  <1>5. \A S : In(entry) \subseteq S => Reads(S, check) /\ Reads(S, copy)
    <2>1. \A y \in In(copies) : y.op # "store"
      <3>1. \A y \in In(copies) : y.op = "copy"
        BY <1>1 DEF EmitInv, Pending
      <3> QED
        BY <3>1
    <2>2. Now.offset.op = "get" => Now.offset.global \in DOMAIN globals
      BY DEF InitFails
    <2> QED
      BY <2>1, <2>2 DEF EmitInv, Stored, Reads, IsStore
  <1>6. /\ Follow(In(entry), Append(checks, check)) /\ Loads(In(entry), Append(copies, copy))
        /\ In(Append(checks, check)) = In(checks) \cup {check}
        /\ In(Append(copies, copy)) = In(copies) \cup {copy}
    <2>1. Checked(In(entry) \cup In(checks), check)
      BY DEF Checked
    <2>2. Reads(In(entry) \cup In(checks), check) /\ Reads(In(entry) \cup In(copies), copy)
      BY <1>5
    <2> QED
      BY <1>2, <2>1, <2>2, FollowAppended, LoadsAppended, ListAppended
  <1>7. PICK c : c = IF Size(section, item) > 0 THEN Append(copies, copy) ELSE copies
    OBVIOUS
  <1>8. Loads(In(entry), c) /\ In(c) = In(copies) \cup (IF Size(section, item) > 0 THEN {copy} ELSE {})
    BY <1>2, <1>6, <1>7
  <1>9. /\ copies' = c /\ In(copies)' = In(c) /\ In(checks)' = In(checks) \cup {check}
    BY <1>6, <1>7 DEF In
  <1>10. \A y \in In(entry)' \cup In(checks)' \cup In(copies)' : Made(y)'
    BY <1>1, <1>3, <1>4, <1>8, <1>9, SameGlobals DEF EmitInv
  <1>11. Follow({}, entry)' /\ Follow(In(entry), checks)' /\ Loads(In(entry), copies)'
    <2>1. Follow({}, entry)'
      BY <1>1, SameGlobals DEF EmitInv
    <2>2. Follow(In(entry), checks)'
      BY <1>1, <1>3, <1>6, SameGlobals
    <2>3. \A S, s : Loads(S, s)' <=> Loads(S, s)
      BY <1>1, SameGlobals DEF Loads, Before
    <2>4. Loads(In(entry), copies)'
      BY <1>3, <1>8, <1>9, <2>3
    <2> QED
      BY <2>1, <2>2, <2>4
  <1>12. Pending'
    BY <1>1, <1>8, <1>9, <1>11 DEF EmitInv, Pending
  <1>13. Stored'
    BY <1>3, <1>8, <1>9 DEF EmitInv, Stored
  <1>14. Complete'
    <2> SUFFICES ASSUME NEW t \in seen, NEW i \in Segments(t), t # section \/ i < item + 1
                 PROVE  /\ Placed(t, i)
                        /\ \E x \in IF t = section THEN In(checks)' ELSE In(entry) : IsFor(x, "check", t, i)
                        /\ Size(t, i) > 0 => \E x \in In(entry) \cup In(copies)' : IsFor(x, "copy", t, i)
      <3>1. \A s, j : Segments(s)' = Segments(s) /\ Size(s, j)' = Size(s, j) /\ (Placed(s, j)' <=> Placed(s, j))
        BY <1>1, <1>3 DEF Segments, Size, OfFunctions, Placed
      <3> QED
        BY <1>1, <1>3, <3>1 DEF Complete
    <2>1. t \in DOMAIN file /\ i \in Nat
      BY EntriesOf DEF OffsetInv, Segments
    <2>2. CASE t = section /\ i = item
      <3>1. IsFor(check, "check", t, i) /\ IsFor(copy, "copy", t, i)
        BY <2>2 DEF IsFor
      <3> QED
        BY <2>2, <3>1, <1>8, <1>9
    <2>3. CASE ~(t = section /\ i = item)
      <3>1. t # section \/ i < item
        BY <1>1, <2>1, <2>3
      <3> QED
        BY <3>1, <1>8, <1>9 DEF EmitInv, Complete
    <2> QED
      BY <2>2, <2>3
  <1> QED
    BY <1>3, <1>10, <1>11, <1>12, <1>13, <1>14 DEF EmitInv

\* Every entry of a section.
LEMMA EntryEmits ==
    ASSUME IInv, OffsetInv, EmitInv, ReadEntry
    PROVE  EmitInv'
PROOF
  <1>1. CASE ImportGlobal
    BY <1>1, ImportGlobalEmits
  <1>2. CASE Global
    BY <1>2, GlobalEmits
  <1>3. CASE Element
    <2>7. PICK length : length = IF OfFunctions(Now.table) THEN Len(Now.functions) ELSE 0
      OBVIOUS
    <2>1. PICK check : check = Instr("check", item, Now.offset, "checks", length)
      OBVIOUS
    <2>2. PICK copy : copy = Instr("copy", item, Now.offset, "copies", length)
      OBVIOUS
    <2>3. Handle("element", "segment") /\ ~InitFails(Now.offset, "i32") /\ Placed(section, item)
          /\ UNCHANGED <<globals, entry, user, tables>>
      BY <1>3 DEF Element, Handle, Fails, ElementFails, moduleVars, Placed, Read, Now
    <2>4. Size(section, item) = length
      BY <2>3, <2>7 DEF Handle, Size, Read, Now
    <2>5. /\ checks' = Append(checks, check)
          /\ copies' = IF Size(section, item) > 0 THEN Append(copies, copy) ELSE copies
      BY <1>3, <2>1, <2>2, <2>4, <2>7 DEF Element
    <2>6. /\ check.op = "check" /\ copy.op = "copy" /\ check.section = section /\ check.target = item
          /\ check.init = Now.offset /\ check.length = Size(section, item)
          /\ copy.section = section /\ copy.target = item
          /\ copy.init = Now.offset /\ copy.length = Size(section, item)
      BY <2>1, <2>2, <2>4 DEF Instr
    <2> QED
      BY <2>3, <2>5, <2>6, SegmentEmits
  <1>4. CASE Data
    <2>1. PICK check : check = Instr("check", item, Now.offset, builder, Now.size)
      OBVIOUS
    <2>2. PICK copy : copy = Instr("copy", item, Now.offset, builder, Now.size)
      OBVIOUS
    <2>3. Handle("data", "segment") /\ ~InitFails(Now.offset, "i32") /\ Placed(section, item)
          /\ UNCHANGED <<globals, entry, user, tables>>
      BY <1>4 DEF Data, Handle, Fails, DataFails, moduleVars, Placed, Read
    <2>4. Size(section, item) = Now.size
      BY <2>3 DEF Handle, Size, Read, Now
    <2>5. /\ checks' = Append(checks, check)
          /\ copies' = IF Size(section, item) > 0 THEN Append(copies, copy) ELSE copies
      BY <1>4, <2>1, <2>2, <2>4 DEF Data
    <2>6. /\ check.op = "check" /\ copy.op = "copy" /\ check.section = section /\ check.target = item
          /\ check.init = Now.offset /\ check.length = Size(section, item)
          /\ copy.section = section /\ copy.target = item
          /\ copy.init = Now.offset /\ copy.length = Size(section, item)
      BY <2>1, <2>2, <2>4 DEF Instr
    <2> QED
      BY <2>3, <2>5, <2>6, SegmentEmits
  <1>5. CASE Start
    <2>1. PICK call : call = Instr("call", Now.function, [op |-> "none"], "callStart", 0)
      OBVIOUS
    <2>2. /\ section \in DOMAIN file /\ Segments(section) = {} /\ user' = Append(user, call)
          /\ UNCHANGED <<file, section, seen, globals, builder, checks, copies, entry, tables>>
      BY <1>5, <2>1, InSection DEF Start, Handle, Segments, Read, moduleVars
    <2>3. IsList(Append(user, call)) /\ In(Append(user, call)) = In(user) \cup {call} /\ call.op = "call"
      BY <2>1, ListAppended DEF EmitInv, Instr
    <2>4. IsList(user)' /\ In(user)' = In(user) \cup {call}
      BY <2>2, <2>3 DEF IsList, In
    <2>5. /\ GlobalsInv' /\ In(entry)' = In(entry) /\ In(checks)' = In(checks) /\ In(copies)' = In(copies)
      BY <2>2 DEF EmitInv, GlobalsInv, IsList, In
    <2>6. \A x \in In(entry)' \cup In(checks)' \cup In(copies)' : Made(x)'
      BY <2>2, <2>5, SameGlobals DEF EmitInv
    <2>7. Follow({}, entry)' /\ Follow(In(entry), checks)'
      BY <2>2, <2>5, SameGlobals DEF EmitInv, Pending
    <2>8. Pending'
      BY <2>2, <2>5, <2>7, SameGlobals DEF EmitInv, Pending, Loads, Before
    <2>9. Stored' /\ Complete'
      BY <2>2, <2>5 DEF EmitInv, Stored, Complete, Segments, Size, OfFunctions, Placed
    <2> QED
      BY <2>3, <2>4, <2>5, <2>6, <2>7, <2>8, <2>9 DEF EmitInv
  <1>6. CASE Type \/ ImportFunction \/ ImportTable \/ ImportMemory \/ Function
             \/ Table \/ Memory \/ Export \/ Code \/ Name
    <2>1. PICK kind \in Kinds \ {"element", "data"} : \E op : Handle(kind, op)
      BY <1>6 DEF Type, ImportFunction, ImportTable, ImportMemory, Function, Table,
                  Memory, Export, Code, Name, Kinds
    <2>2. UNCHANGED <<globals, codeVars>>
      BY <1>6 DEF Type, ImportFunction, ImportTable, ImportMemory, Function, Table,
                  Memory, Export, Code, Name, AddFunction, AddTable, AddMemory, moduleVars
    <2>3. UNCHANGED <<file, section, seen>> /\ Segments(section) = {}
      BY <2>1 DEF Handle, Segments, Read
    <2>4. tables' = tables \/ tables = <<>>
      BY TablesStay DEF Next
    <2> QED
      BY <2>2, <2>3, <2>4, EmitStays
  <1> QED
    BY <1>1, <1>2, <1>3, <1>4, <1>5, <1>6 DEF ReadEntry

\* Each step keeps what the entries have emitted in order.
LEMMA StepEmits ==
    ASSUME IInv, OffsetInv, EmitInv, [Next]_vars
    PROVE  EmitInv'
PROOF
  <1>1. CASE Enter
    BY <1>1, EnterEmits
  <1>2. CASE Leave
    BY <1>2, LeaveEmits
  <1>3. CASE ReadEntry
    BY <1>3, EntryEmits
  <1>4. CASE UnknownSection \/ DataWithoutMemory \/ Astray \/ Throw \/ Undecodable \/ Finish \/ Execute
             \/ UNCHANGED vars
    <2>1. UNCHANGED <<readerVars, moduleVars, codeVars>>
      BY <1>4 DEF UnknownSection, DataWithoutMemory, Astray, Throw, Undecodable, Finish, Execute, vars
    <2> QED
      BY <2>1, EmitStays DEF readerVars, moduleVars
  <1> QED
    BY <1>1, <1>2, <1>3, <1>4 DEF Next, ReadSection

-----------------------------------------------------------------------------
(* What globals mean.                                                      *)

\* Following the globals an initialiser names, each before the last, ends.
LEMMA MeaningExists ==
    ASSUME GlobalsInv
    PROVE  \E f : f = [g \in DOMAIN globals |->
                       IF globals[g].init.op = "get" THEN f[globals[g].init.global]
                       ELSE IF globals[g].init.op = "host" THEN HostValue ELSE globals[g].init.value]
PROOF
  <1> DEFINE body(f, g) == IF globals[g].init.op = "get" THEN f[globals[g].init.global]
                           ELSE IF globals[g].init.op = "host" THEN HostValue ELSE globals[g].init.value
             Upto(n) == \E f : f = [k \in 1 .. n |-> f[k]] /\ \A g \in 1 .. n : f[g] = body(f, g)
             T == {n \in Nat : n <= Len(globals) => Upto(n)}
  <1>1. Len(globals) \in Nat /\ DOMAIN globals = 1 .. Len(globals)
    BY LenProperties DEF GlobalsInv, IsList
  <1>2. \A g \in 1 .. Len(globals) : globals[g].init.op = "get" => globals[g].init.global \in 1 .. g - 1
    BY <1>1 DEF GlobalsInv
  <1>3. 0 \in T
    <2>1. 1 .. 0 = {}
      OBVIOUS
    <2>2. PICK f : f = [g \in 1 .. 0 |-> 0] /\ f = [g \in 1 .. 0 |-> f[g]]
      OBVIOUS
    <2>3. Upto(0)
      <3> HIDE DEF body
      <3> QED
        BY <2>1, <2>2
    <2> HIDE DEF Upto
    <2> QED
      BY <2>3
  <1>4. ASSUME NEW n \in Nat, n \in T PROVE n + 1 \in T
    <2> SUFFICES ASSUME n + 1 <= Len(globals) PROVE Upto(n + 1)
      <3> HIDE DEF Upto
      <3> QED
        OBVIOUS
    <2>1. Upto(n)
      <3> HIDE DEF Upto
      <3> QED
        BY <1>1, <1>4
    <2>2. PICK f : f = [k \in 1 .. n |-> f[k]] /\ \A g \in 1 .. n : f[g] = body(f, g)
      <3> HIDE DEF body
      <3> QED
        BY <2>1
    <2>3. PICK last : last = body(f, n + 1)
      OBVIOUS
    <2> DEFINE h == [g \in 1 .. n + 1 |-> IF g = n + 1 THEN last ELSE f[g]]
    <2>4. /\ h = [k \in 1 .. n + 1 |-> h[k]] /\ h[n + 1] = last
          /\ \A g \in 1 .. n : h[g] = f[g]
      OBVIOUS
    <2> HIDE DEF h
    <2>5. ASSUME NEW g \in 1 .. n + 1 PROVE h[g] = body(h, g)
      <3>1. g \in 1 .. Len(globals)
        BY <1>1
      <3>2. globals[g].init.op = "get" => h[globals[g].init.global] = f[globals[g].init.global]
        <4>1. \A k \in 1 .. g - 1 : k \in 1 .. n
          OBVIOUS
        <4> QED
          BY <1>2, <2>4, <3>1, <4>1
      <3>3. body(h, g) = body(f, g)
        BY <3>2
      <3>4. CASE g = n + 1
        <4> HIDE DEF body
        <4> QED
          BY <2>3, <2>4, <3>3, <3>4
      <3>5. CASE g # n + 1
        <4>1. g \in 1 .. n
          BY <3>5
        <4> HIDE DEF body
        <4> QED
          BY <2>2, <2>4, <3>3, <4>1
      <3> QED
        BY <3>4, <3>5
    <2> HIDE DEF body
    <2> QED
      BY <2>4, <2>5
  <1> HIDE DEF T
  <1>5. \A n \in Nat : n \in T
    BY <1>3, <1>4, AllNaturals
  <1>6. Upto(Len(globals))
    <2> HIDE DEF Upto
    <2> QED
      BY <1>1, <1>5 DEF T
  <1>7. PICK f : f = [k \in 1 .. Len(globals) |-> f[k]] /\ \A g \in 1 .. Len(globals) : f[g] = body(f, g)
    <2> HIDE DEF body
    <2> QED
      BY <1>6
  <1>8. f = [g \in DOMAIN globals |-> body(f, g)]
    <2> HIDE DEF body
    <2> QED
      BY <1>1, <1>7
  <1> QED
    BY <1>8

\* What a global means, by its initialiser.
LEMMA MeaningOf ==
    ASSUME GlobalsInv, NEW g \in DOMAIN globals
    PROVE  Meaning[g] = IF globals[g].init.op = "get" THEN Meaning[globals[g].init.global]
                        ELSE IF globals[g].init.op = "host" THEN HostValue ELSE globals[g].init.value
PROOF
  <1> DEFINE body(f, k) == IF globals[k].init.op = "get" THEN f[globals[k].init.global]
                           ELSE IF globals[k].init.op = "host" THEN HostValue ELSE globals[k].init.value
             solves(f) == f = [k \in DOMAIN globals |-> body(f, k)]
  <1>1. PICK f : solves(f)
    BY MeaningExists, Zenon
  <1>2. Meaning = CHOOSE h : solves(h)
    BY Zenon DEF Meaning
  <1>3. solves(Meaning)
    <2> HIDE DEF solves
    <2> QED
      BY <1>1, <1>2, Zenon
  <1>4. Meaning[g] = body(Meaning, g)
    <2>1. PICK h : h = Meaning
      OBVIOUS
    <2>2. h = [k \in DOMAIN globals |-> body(h, k)]
      <3> HIDE DEF body
      <3> QED
        BY <1>3, <2>1
    <2>3. h[g] = body(h, g)
      <3> HIDE DEF body
      <3> QED
        BY <2>2
    <2> QED
      BY <2>1, <2>3
  <1> QED
    BY <1>4

-----------------------------------------------------------------------------
(* What the code does.                                                     *)

\* The calls come after all the rest.
LEMMA WhereItIs ==
    ASSUME OffsetInv, EmitInv
    PROVE  /\ Len(entry) \in Nat /\ DOMAIN entry = 1 .. Len(entry)
           /\ Len(user) \in Nat /\ DOMAIN Program = 1 .. Len(entry) + Len(user)
           /\ Len(Program) = Len(entry) + Len(user)
           /\ \A p \in DOMAIN entry : Program[p] = entry[p] /\ entry[p] \in In(entry) /\ entry[p].op # "call"
           /\ \A p \in DOMAIN Program \ DOMAIN entry : Program[p].op = "call"
PROOF
  <1>1. PICK u : u = Program
    OBVIOUS
  <1>2. IsList(entry) /\ IsList(user) /\ IsList(u)
    BY <1>1, ListsJoined DEF OffsetInv, EmitInv, Program
  <1>3. /\ Len(entry) \in Nat /\ Len(user) \in Nat /\ DOMAIN user = 1 .. Len(user)
        /\ DOMAIN entry = 1 .. Len(entry) /\ DOMAIN u = 1 .. Len(entry) + Len(user)
        /\ \A p \in 1 .. Len(entry) : u[p] = entry[p]
        /\ \A p \in 1 .. Len(user) : u[Len(entry) + p] = user[p]
    BY <1>1, <1>2, BeforeJoined DEF Joined, Program
  <1>4. Len(u) = Len(entry) + Len(user)
    <2>1. PICK n \in Nat : n = Len(entry) + Len(user)
      BY <1>3
    <2>2. PICK m \in Nat : m = Len(u) /\ DOMAIN u = 1 .. m
      BY <1>2, LenProperties, Zenon DEF IsList
    <2>3. 1 .. m = 1 .. n
      BY <1>3, <2>1, <2>2
    <2>4. m = n
      BY <2>3
    <2> QED
      BY <2>1, <2>2, <2>4
  <1>5. ASSUME NEW p \in DOMAIN entry PROVE entry[p] \in In(entry) /\ entry[p].op # "call"
    <2>1. entry[p] \in In(entry)
      BY DEF In
    <2> QED
      BY <2>1 DEF EmitInv, Made
  <1>6. ASSUME NEW p \in DOMAIN u \ DOMAIN entry PROVE u[p].op = "call"
    <2>1. p - Len(entry) \in 1 .. Len(user) /\ p = Len(entry) + (p - Len(entry))
      BY <1>3
    <2>2. u[p] = user[p - Len(entry)]
      BY <1>3, <2>1
    <2> QED
      BY <1>3, <2>1, <2>2 DEF EmitInv, In
  <1> QED
    BY <1>1, <1>3, <1>4, <1>5, <1>6

\* When an instruction is run, what it reads has the value it means.
LEMMA ValueIsTarget ==
    ASSUME OffsetInv, EmitInv, RunInv, Accepted, pc \in DOMAIN entry
    PROVE  Value(entry[pc].init) = Target(entry[pc].init)
PROOF
  <1>1. PICK x : x = entry[pc]
    OBVIOUS
  <1>2. Made(x) /\ Reads({} \cup Before(entry, pc), x)
    BY <1>1 DEF EmitInv, In, Follow
  <1>3. CASE x.init.op = "const"
    BY <1>1, <1>3 DEF Value, Target
  <1>4. CASE x.init.op = "get"
    <2>1. PICK h \in DOMAIN globals : h = x.init.global
      BY <1>2, <1>4 DEF Made, Known
    <2>2. cells[h] = Meaning[h]
      <3>1. CASE globals[h].init.op # "get"
        BY <3>1 DEF RunInv
      <3>2. CASE globals[h].init.op = "get"
        <4>1. PICK q \in 1 .. pc - 1 : entry[q].op = "store" /\ entry[q].target = h
          BY <1>2, <1>4, <2>1, <3>2 DEF Reads, Before, IsStore
        <4>2. DOMAIN entry = 1 .. Len(entry) /\ Len(entry) \in Nat
          BY WhereItIs
        <4>3. q \in DOMAIN entry /\ q < pc
          BY <4>1, <4>2
        <4> QED
          BY <4>1, <4>3 DEF RunInv, Done
      <3> QED
        BY <3>1, <3>2
    <2> QED
      BY <1>1, <1>4, <2>1, <2>2 DEF Value, Target
  <1>5. x.init.op \in {"const", "get"}
    BY <1>2 DEF Made
  <1> QED
    BY <1>3, <1>4, <1>5

\* What running leaves alone.
LEMMA CodeStays ==
    ASSUME UNCHANGED <<readerVars, moduleVars, codeVars>>
    PROVE  /\ Meaning' = Meaning
           /\ UNCHANGED <<file, section, seen, globals, entry, user, checks, copies>>
           /\ Len(Program)' = Len(Program)
           /\ \A i : Target(i)' = Target(i)
           /\ \A s, o, n : Passes(s, o, n)' <=> Passes(s, o, n)
           /\ \A x : Landed(x)' = Landed(x)
PROOF
  <1>1. UNCHANGED <<file, section, seen, globals, entry, user, checks, copies>>
    BY DEF readerVars, moduleVars, codeVars
  <1>2. Meaning' = Meaning
    BY <1>1, SMT DEF Meaning
  <1>3. \A i : Target(i)' = Target(i)
    BY <1>2 DEF Target
  <1>4. \A s, o, n : Passes(s, o, n)' <=> Passes(s, o, n)
    BY <1>1 DEF Passes
  <1>5. \A x : Landed(x)' = Landed(x)
    BY <1>3 DEF Landed
  <1> QED
    BY <1>1, <1>2, <1>3, <1>4, <1>5 DEF Program

\* An instruction that is done makes the next one the first that is not.
LEMMA Advances ==
    ASSUME IInv, OffsetInv, EmitInv, RunInv, Accepted, Accepted', result' # "ready",
           UNCHANGED <<readerVars, moduleVars, codeVars>>, pc' = pc + 1,
           IsList(landed)', DOMAIN cells' = DOMAIN cells,
           \A g \in DOMAIN globals : cells[g] = Meaning[g] => cells'[g] = Meaning[g],
           \A l \in DOMAIN landed : l \in DOMAIN landed' /\ landed'[l] = landed[l],
           \A l \in DOMAIN landed' \ DOMAIN landed :
             pc \in DOMAIN entry /\ entry[pc].op = "copy" /\ landed'[l] = Landed(entry[pc]),
           \A p \in DOMAIN entry : p = pc => Done(entry[p])'
    PROVE  RunInv'
PROOF
  <1>1. /\ Meaning' = Meaning
        /\ UNCHANGED <<file, section, seen, globals, entry, user, checks, copies>>
        /\ \A i : Target(i)' = Target(i)
        /\ \A s, o, n : Passes(s, o, n)' <=> Passes(s, o, n)
        /\ \A x : Landed(x)' = Landed(x)
    BY CodeStays
  <1>2. DOMAIN entry = 1 .. Len(entry) /\ Len(entry) \in Nat /\ pc \in Nat
    BY WhereItIs DEF IInv
  <1>3. \A x \in In(entry) : Done(x) => Done(x)'
    <2> SUFFICES ASSUME NEW x \in In(entry), Done(x) PROVE Done(x)'
      OBVIOUS
    <2>1. x.op = "store" => cells'[x.target] = Meaning'[x.target]
      BY <1>1 DEF Done, EmitInv, Made
    <2>2. x.op = "check" => Passes(x.section, Target(x.init), x.length)'
      <3>1. PICK t : t = Target(x.init)
        OBVIOUS
      <3>2. Target(x.init)' = t
        BY <1>1, <3>1
      <3>3. x.op = "check" => Passes(x.section, t, x.length)'
        BY <1>1, <3>1 DEF Done
      <3> QED
        BY <3>2, <3>3 DEF Passes
    <2>3. x.op = "copy" => \E l \in DOMAIN landed' : landed'[l] = Landed(x)'
      BY <1>1 DEF Done
    <2> QED
      BY <2>1, <2>2, <2>3 DEF Done
  <1>4. ASSUME NEW p \in DOMAIN entry', p < pc' PROVE Done(entry[p])'
    <2>1. p \in DOMAIN entry /\ p \in Nat /\ entry[p] \in In(entry) /\ entry' = entry
      BY <1>1, <1>2 DEF In
    <2>2. CASE p = pc
      BY <2>1, <2>2
    <2>3. CASE p # pc
      <3>1. p < pc
        BY <1>2, <1>4, <2>1, <2>3
      <3>2. PICK x : x = entry[p]
        OBVIOUS
      <3>3. Done(x)'
        BY <1>3, <2>1, <3>1, <3>2 DEF RunInv
      <3>4. entry'[p] = x
        BY <2>1, <3>2
      <3> QED
        BY <3>3, <3>4
    <2> QED
      BY <2>2, <2>3
  <1>5. ASSUME NEW l \in DOMAIN landed'
        PROVE  \E p \in DOMAIN entry' : p < pc' /\ entry'[p].op = "copy" /\ landed'[l] = Landed(entry[p])'
    <2>1. CASE l \in DOMAIN landed
      <3>1. PICK p \in DOMAIN entry : p < pc /\ entry[p].op = "copy" /\ landed[l] = Landed(entry[p])
        BY <2>1 DEF RunInv
      <3>2. p \in Nat /\ p < pc'
        BY <1>2, <3>1
      <3>3. Landed(entry[p])' = Landed(entry[p])
        BY <1>1
      <3> QED
        BY <1>1, <2>1, <3>1, <3>2, <3>3
    <2>2. CASE l \notin DOMAIN landed
      <3>1. PICK p \in DOMAIN entry : p = pc
        BY <2>2
      <3>2. Landed(entry[p])' = Landed(entry[p])
        BY <1>1
      <3>3. p < pc'
        BY <1>2, <3>1
      <3> QED
        BY <1>1, <2>2, <3>1, <3>2, <3>3
    <2> QED
      BY <2>1, <2>2
  <1>6. /\ DOMAIN cells' = DOMAIN globals'
        /\ \A g \in DOMAIN globals' : globals'[g].init.op # "get" => cells'[g] = Meaning'[g]
    BY <1>1 DEF RunInv
  <1> QED
    BY <1>4, <1>5, <1>6 DEF RunInv

\* A step of the run that does nothing but end it.
LEMMA StopRuns ==
    ASSUME IInv, RunInv, Accepted, Accepted', UNCHANGED <<readerVars, moduleVars, codeVars, runVars>>,
           result' = "ready" => pc = Len(Program) + 1
    PROVE  RunInv'
PROOF
  <1>1. /\ Meaning' = Meaning
        /\ UNCHANGED <<file, section, seen, globals, entry, user, checks, copies>>
        /\ Len(Program)' = Len(Program)
        /\ \A i : Target(i)' = Target(i)
        /\ \A s, o, n : Passes(s, o, n)' <=> Passes(s, o, n)
        /\ \A x : Landed(x)' = Landed(x)
    BY CodeStays
  <1>2. UNCHANGED <<pc, cells, landed>>
    BY DEF runVars
  <1>3. \A x : Done(x)' <=> Done(x)
    BY <1>1, <1>2 DEF Done, Passes
  <1>4. IsList(landed)'
    BY <1>2 DEF RunInv, IsList, In
  <1>5. \A p \in DOMAIN entry' : p < pc' => Done(entry[p])'
    BY <1>1, <1>2, <1>3 DEF RunInv
  <1>6. \A l \in DOMAIN landed' : \E p \in DOMAIN entry' :
          p < pc' /\ entry'[p].op = "copy" /\ landed'[l] = Landed(entry[p])'
    BY <1>1, <1>2 DEF RunInv
  <1> QED
    BY <1>1, <1>2, <1>4, <1>5, <1>6 DEF RunInv

\* A store gives its global the value it means.
LEMMA StoreRuns ==
    ASSUME IInv, OffsetInv, EmitInv, RunInv, Execute, Store
    PROVE  RunInv'
PROOF
  <1>1. /\ result = "running" /\ pc \in DOMAIN Program /\ Program[pc].op = "store" /\ pc' = pc + 1
        /\ cells' = [cells EXCEPT ![Program[pc].target] = Value(Program[pc].init)]
        /\ UNCHANGED <<result, landed, readerVars, moduleVars, codeVars>>
    BY DEF Execute, Store, Running, Instruction
  <1>2. pc \in DOMAIN entry /\ Program[pc] = entry[pc]
    BY <1>1, WhereItIs
  <1>3. Accepted /\ Accepted' /\ result' # "ready"
    BY <1>1 DEF Accepted
  <1>4. PICK x : x = entry[pc]
    OBVIOUS
  <1>5. Made(x) /\ x.op = "store"
    BY <1>1, <1>2, <1>4 DEF EmitInv, In
  <1>6. x.target \in DOMAIN globals /\ x.init = globals[x.target].init /\ x.init.op = "get"
    BY <1>5 DEF Made
  <1>7. Value(x.init) = Target(x.init)
    BY <1>2, <1>3, <1>4, ValueIsTarget
  <1>8. Target(x.init) = Meaning[x.target]
    BY <1>6, MeaningOf DEF Target, EmitInv
  <1>9. cells' = [cells EXCEPT ![x.target] = Meaning[x.target]] /\ DOMAIN cells = DOMAIN globals
    BY <1>1, <1>2, <1>3, <1>4, <1>7, <1>8 DEF RunInv
  <1>10. /\ DOMAIN cells' = DOMAIN cells /\ cells'[x.target] = Meaning[x.target]
         /\ \A g \in DOMAIN globals : cells[g] = Meaning[g] => cells'[g] = Meaning[g]
    BY <1>6, <1>9
  <1>11. IsList(landed)'
    BY <1>1 DEF RunInv, IsList, In
  <1>12. /\ Meaning' = Meaning /\ UNCHANGED entry
    BY <1>1, CodeStays
  <1>13. Done(x)'
    BY <1>5, <1>10, <1>12 DEF Done
  <1>14. ASSUME NEW p \in DOMAIN entry, p = pc PROVE Done(entry[p])'
    <2>1. entry'[p] = x
      BY <1>4, <1>12, <1>14
    <2> QED
      BY <1>13, <2>1
  <1> QED
    BY <1>1, <1>3, <1>10, <1>11, <1>14, Advances

\* A check stops the run, or the segment passes it.
LEMMA CheckRuns ==
    ASSUME IInv, OffsetInv, EmitInv, RunInv, Execute, Check
    PROVE  RunInv'
PROOF
  <1>1. /\ result = "running" /\ pc \in DOMAIN Program /\ Program[pc].op = "check"
        /\ IF Passes(Program[pc].section, Value(Program[pc].init), Program[pc].length)
           THEN pc' = pc + 1 /\ result' = result
           ELSE result' = "unlinkable" /\ pc' = pc
        /\ UNCHANGED <<cells, landed, readerVars, moduleVars, codeVars>>
    BY DEF Execute, Check, Running, Instruction
  <1>2. pc \in DOMAIN entry /\ Program[pc] = entry[pc]
    BY <1>1, WhereItIs
  <1>3. Accepted /\ Accepted' /\ result' # "ready"
    BY <1>1 DEF Accepted
  <1>4. CASE ~Passes(Program[pc].section, Value(Program[pc].init), Program[pc].length)
    BY <1>1, <1>3, <1>4, StopRuns DEF runVars
  <1>5. CASE Passes(Program[pc].section, Value(Program[pc].init), Program[pc].length)
    <2>1. PICK x : x = entry[pc]
      OBVIOUS
    <2>2. x.op = "check" /\ Value(x.init) = Target(x.init)
      BY <1>1, <1>2, <1>3, <2>1, ValueIsTarget
    <2>3. Passes(x.section, Target(x.init), x.length)
      BY <1>2, <1>5, <2>1, <2>2
    <2>4. /\ Target(x.init)' = Target(x.init) /\ file' = file
          /\ Meaning' = Meaning /\ UNCHANGED <<entry, globals>>
      BY <1>1, CodeStays
    <2>5. Done(x)'
      BY <2>2, <2>3, <2>4 DEF Done, Passes
    <2>6. ASSUME NEW p \in DOMAIN entry, p = pc PROVE Done(entry[p])'
      <3>1. entry'[p] = x
        BY <2>1, <2>4, <2>6
      <3> QED
        BY <2>5, <3>1
    <2>7. IsList(landed)'
      BY <1>1 DEF RunInv, IsList, In
    <2> QED
      BY <1>1, <1>3, <1>5, <2>6, <2>7, Advances
  <1> QED
    BY <1>4, <1>5

\* A copy that the memory or the file does not stop lands where its offset means.
LEMMA CopyLands ==
    ASSUME IInv, OffsetInv, EmitInv, RunInv, Execute, Copy, pc' # pc \/ landed' # landed
    PROVE  RunInv'
PROOF
  <1>1. /\ result = "running" /\ pc \in DOMAIN Program /\ Program[pc].op = "copy" /\ pc' = pc + 1
        /\ landed' = Append(landed, [section |-> Program[pc].section, segment |-> Program[pc].target,
                                     offset |-> Value(Program[pc].init)])
        /\ UNCHANGED <<result, cells, readerVars, moduleVars, codeVars>>
    BY DEF Execute, Copy, Running, Instruction
  <1>2. pc \in DOMAIN entry /\ Program[pc] = entry[pc]
    BY <1>1, WhereItIs
  <1>3. Accepted /\ Accepted' /\ result' # "ready"
    BY <1>1 DEF Accepted
  <1>4. PICK x : x = entry[pc]
    OBVIOUS
  <1>5. x.op = "copy" /\ Value(x.init) = Target(x.init)
    BY <1>1, <1>2, <1>3, <1>4, ValueIsTarget
  <1>6. PICK e : e = Landed(x)
    OBVIOUS
  <1>7. landed' = Append(landed, e)
    BY <1>1, <1>2, <1>4, <1>5, <1>6 DEF Landed
  <1>8. IsList(landed) /\ IsList(Append(landed, e))
    BY ListAppended DEF RunInv
  <1>9. IsList(landed)'
    BY <1>7, <1>8 DEF IsList, In
  <1>10. /\ DOMAIN landed = 1 .. Len(landed) /\ DOMAIN landed' = 1 .. Len(landed) + 1 /\ Len(landed) \in Nat
         /\ landed'[Len(landed) + 1] = e /\ \A l \in 1 .. Len(landed) : landed'[l] = landed[l]
    BY <1>7, <1>8, BeforeAppended DEF Appended
  <1>11. Landed(x)' = Landed(x) /\ UNCHANGED entry
    BY <1>1, CodeStays
  <1>12. Done(x)'
    <2>1. Len(landed) + 1 \in DOMAIN landed'
      BY <1>10
    <2> QED
      BY <1>5, <1>6, <1>10, <1>11, <2>1 DEF Done
  <1>13. ASSUME NEW p \in DOMAIN entry, p = pc PROVE Done(entry[p])'
    <2>1. entry'[p] = x
      BY <1>4, <1>11, <1>13
    <2> QED
      BY <1>12, <2>1
  <1>14. \A l \in DOMAIN landed : l \in DOMAIN landed' /\ landed'[l] = landed[l]
    BY <1>10
  <1>15. \A l \in DOMAIN landed' \ DOMAIN landed : landed'[l] = e
    BY <1>10
  <1>16. DOMAIN cells' = DOMAIN cells /\ \A g \in DOMAIN globals : cells[g] = Meaning[g] => cells'[g] = Meaning[g]
    BY <1>1
  <1> QED
    BY <1>1, <1>2, <1>3, <1>4, <1>5, <1>6, <1>9, <1>13, <1>14, <1>15, <1>16, Advances

\* A copy lands, or ends the run.
LEMMA CopyRuns ==
    ASSUME IInv, OffsetInv, EmitInv, RunInv, Execute, Copy
    PROVE  RunInv'
PROOF
  <1>1. CASE pc' # pc \/ landed' # landed
    BY <1>1, CopyLands
  <1>2. CASE pc' = pc /\ landed' = landed
    <2>1. pc \in Nat
      BY DEF IInv
    <2>2. result' = "trapped" /\ UNCHANGED <<runVars, readerVars, moduleVars, codeVars>> /\ Accepted
      BY <1>2, <2>1 DEF Execute, Copy, Running, Accepted, runVars
    <2>3. Accepted' /\ result' # "ready"
      BY <2>2 DEF Accepted
    <2> QED
      BY <2>2, <2>3, StopRuns
  <1> QED
    BY <1>1, <1>2

\* A call comes after the stores, checks and copies.
LEMMA CallRuns ==
    ASSUME IInv, OffsetInv, EmitInv, RunInv, Execute, Call
    PROVE  RunInv'
PROOF
  <1>1. /\ result = "running" /\ pc \in DOMAIN Program /\ Program[pc].op = "call"
        /\ \/ pc' = pc + 1 /\ result' = result
           \/ result' = "trapped" /\ pc' = pc
        /\ UNCHANGED <<cells, landed, readerVars, moduleVars, codeVars>>
    BY DEF Execute, Call, Running, Instruction
  <1>2. pc \notin DOMAIN entry
    BY <1>1, WhereItIs
  <1>3. Accepted /\ Accepted' /\ result' # "ready"
    BY <1>1 DEF Accepted
  <1>4. CASE result' = "trapped" /\ pc' = pc
    BY <1>1, <1>3, <1>4, StopRuns DEF runVars
  <1>5. CASE pc' = pc + 1
    <2>1. IsList(landed)'
      BY <1>1 DEF RunInv, IsList, In
    <2>2. \A p \in DOMAIN entry : p = pc => Done(entry[p])'
      BY <1>2
    <2> QED
      BY <1>1, <1>2, <1>3, <1>5, <2>1, <2>2, Advances
  <1> QED
    BY <1>1, <1>4, <1>5

\* Before it runs, each global holds what its initialiser gives.
LEMMA FinishRuns ==
    ASSUME IInv, OffsetInv, EmitInv, RunInv, Finish
    PROVE  RunInv'
PROOF
  <1>1. /\ ~Accepted /\ result' \in {"running", "refused"} /\ cells' = [g \in DOMAIN globals |-> Initial(g)]
        /\ UNCHANGED <<globals, entry, pc, landed>>
    BY DEF Finish, Accepted, Reading, moduleVars, codeVars
  <1>2. pc = 1 /\ landed = <<>>
    BY <1>1 DEF RunInv
  <1>3. Meaning' = Meaning
    BY <1>1, SMT DEF Meaning
  <1>4. ASSUME NEW g \in DOMAIN globals, globals[g].init.op # "get" PROVE cells'[g] = Meaning[g]
    <2>1. globals[g].init.op \in {"const", "host"}
      BY <1>4 DEF EmitInv, GlobalsInv
    <2>2. Initial(g) = IF globals[g].init.op = "host" THEN HostValue ELSE globals[g].init.value
      BY <2>1 DEF Initial
    <2>3. Meaning[g] = IF globals[g].init.op = "host" THEN HostValue ELSE globals[g].init.value
      BY <1>4, MeaningOf DEF EmitInv
    <2> QED
      BY <1>1, <2>2, <2>3
  <1>5. IsList(landed)'
    BY <1>1 DEF RunInv, IsList, In
  <1>6. \A p \in DOMAIN entry' : ~ (p < pc')
    <2>1. DOMAIN entry = 1 .. Len(entry) /\ Len(entry) \in Nat
      BY WhereItIs
    <2> QED
      BY <1>1, <1>2, <2>1
  <1>7. DOMAIN landed' = {}
    BY <1>1, <1>2
  <1> QED
    BY <1>1, <1>2, <1>3, <1>4, <1>5, <1>6, <1>7 DEF RunInv

\* Every step keeps what was done.
LEMMA StepRuns ==
    ASSUME IInv, OffsetInv, EmitInv, RunInv, [Next]_vars
    PROVE  RunInv'
PROOF
  <1>1. CASE Finish
    BY <1>1, FinishRuns
  <1>2. CASE Execute
    <2>1. CASE Return
      <3>1. Accepted /\ Accepted' /\ pc = Len(Program) + 1
        BY <2>1 DEF Return, Accepted
      <3> QED
        BY <1>2, <2>1, <3>1, StopRuns DEF Execute, Return
    <2> QED
      BY <1>2, <2>1, StoreRuns, CheckRuns, CopyRuns, CallRuns DEF Execute
  <1>3. CASE ReadSection \/ ReadEntry
    <2>1. ~Accepted /\ ~Accepted' /\ UNCHANGED <<pc, cells, landed>>
      BY <1>3 DEF ReadSection, ReadEntry, Enter, UnknownSection, DataWithoutMemory, Astray, Leave, Throw,
                  Undecodable, Type, ImportFunction, ImportGlobal, ImportTable, ImportMemory, Function, Table,
                  Memory, Global, Export, Start, Element, Code, Data, Name, Handle, InEntry, Reading,
                  Accepted, runVars
    <2>2. result' # "ready"
      BY <2>1 DEF Accepted
    <2> QED
      BY <2>1, <2>2 DEF RunInv, IsList, In
  <1>4. CASE UNCHANGED vars
    <2>1. UNCHANGED <<readerVars, moduleVars, codeVars, runVars, result>>
      BY <1>4 DEF vars
    <2>2. CASE Accepted
      BY <2>1, <2>2, StopRuns DEF RunInv, Accepted
    <2>3. CASE ~Accepted
      <3>1. ~Accepted' /\ result' # "ready" /\ UNCHANGED <<pc, landed>>
        BY <2>1, <2>3 DEF Accepted, runVars
      <3> QED
        BY <2>3, <3>1 DEF RunInv, IsList, In
    <2> QED
      BY <2>2, <2>3
  <1> QED
    BY <1>1, <1>2, <1>3, <1>4 DEF Next

\* What has been emitted, and what the part of it that was run has done, in
\* every state of every run.
THEOREM RunInvariance == Spec => [](EmitInv /\ RunInv)
PROOF
  <1>1. Init => EmitInv /\ RunInv
    <2> SUFFICES ASSUME Init PROVE EmitInv /\ RunInv
      OBVIOUS
    <2>1. /\ globals = <<>> /\ entry = <<>> /\ checks = <<>> /\ copies = <<>> /\ user = <<>> /\ seen = {}
          /\ landed = <<>> /\ pc = 1 /\ result = "reading"
      BY DEF Init
    <2>2. In(<<>>) = {} /\ DOMAIN <<>> = {}
      BY DEF In
    <2>3. <<>> \in Seq({})
      OBVIOUS
    <2>4. IsList(<<>>)
      BY <2>2, <2>3 DEF IsList
    <2>5. GlobalsInv /\ Stored /\ Complete
      BY <2>1, <2>2, <2>4 DEF GlobalsInv, Stored, Complete
    <2>6. Follow({}, entry) /\ Pending
      BY <2>1, <2>2 DEF Follow, Pending, Loads
    <2>7. EmitInv
      BY <2>1, <2>2, <2>4, <2>5, <2>6 DEF EmitInv
    <2>8. RunInv
      BY <2>1, <2>4 DEF RunInv, Accepted
    <2> QED
      BY <2>7, <2>8
  <1>2. IInv /\ OffsetInv /\ EmitInv /\ RunInv /\ [Next]_vars => (EmitInv /\ RunInv)'
    BY StepEmits, StepRuns
  <1> QED
    BY <1>1, <1>2, Invariance, OffsetInvariance, PTL DEF Spec

\* What globals mean are numbers.
LEMMA MeaningsNatural ==
    ASSUME GlobalsInv
    PROVE  \A g \in DOMAIN globals : Meaning[g] \in Nat
PROOF
  <1> DEFINE T == {n \in Nat : \A g \in DOMAIN globals : g <= n => Meaning[g] \in Nat}
  <1>1. Len(globals) \in Nat /\ DOMAIN globals = 1 .. Len(globals)
    BY LenProperties DEF GlobalsInv, IsList
  <1>2. 0 \in T
    BY <1>1
  <1>3. ASSUME NEW n \in Nat, n \in T PROVE n + 1 \in T
    <2> SUFFICES ASSUME NEW g \in DOMAIN globals, g <= n + 1 PROVE Meaning[g] \in Nat
      OBVIOUS
    <2>1. g \in Nat /\ \A h \in 1 .. g - 1 : h \in DOMAIN globals /\ h <= n
      BY <1>1
    <2>2. \A h \in 1 .. g - 1 : Meaning[h] \in Nat
      BY <1>3, <2>1
    <2>3. CASE globals[g].init.op = "get"
      BY <2>2, <2>3, MeaningOf DEF GlobalsInv
    <2>4. CASE globals[g].init.op # "get"
      BY <2>4, MeaningOf, BoundsAssumption DEF GlobalsInv, IsInit
    <2> QED
      BY <2>3, <2>4
  <1> HIDE DEF T
  <1>4. \A n \in Nat : n \in T
    BY <1>2, <1>3, AllNaturals
  <1> QED
    BY <1>1, <1>4 DEF T

\* A segment that passes its check fits, or its end wraps.
LEMMA PassesFit ==
    ASSUME NEW s, NEW offset \in Nat, NEW length \in Nat, Passes(s, offset, length)
    PROVE  FitsIn(s, offset, length)
PROOF
  <1>1. CASE file[s].kind = "element"
    BY <1>1 DEF Passes, FitsIn
  <1>2. CASE file[s].kind # "element"
    <2>1. PICK end \in Nat : end = offset + length
      OBVIOUS
    <2>2. Modulus \in Nat \ {0} /\ MemoryBytes \in 0 .. Modulus
      BY BoundsAssumption
    <2>3. end % Modulus <= MemoryBytes % Modulus
      BY <1>2, <2>1 DEF Passes
    <2>4. CASE end < Modulus
      <3>1. end % Modulus = end
        BY <2>2, <2>4
      <3>2. MemoryBytes % Modulus <= MemoryBytes /\ MemoryBytes % Modulus \in Nat
        BY <2>2
      <3> QED
        BY <1>2, <2>1, <2>2, <2>3, <3>1, <3>2 DEF FitsIn
    <2>5. CASE ~(end < Modulus)
      BY <1>2, <2>1, <2>2, <2>5 DEF FitsIn
    <2> QED
      BY <2>4, <2>5
  <1> QED
    BY <1>1, <1>2

\* What the offset of a segment means and what it takes are numbers.
LEMMA SegmentNumbers ==
    ASSUME IInv, OffsetInv, EmitInv, NEW x, Made(x), x.op = "check"
    PROVE  Target(x.init) \in Nat /\ x.length \in Nat
PROOF
  <1>1. /\ x.section \in DOMAIN file /\ file[x.section].kind \in {"element", "data"}
        /\ x.target \in DOMAIN file[x.section].items
        /\ x.init = file[x.section].items[x.target].offset /\ x.length = Size(x.section, x.target)
        /\ x.init.op \in {"const", "get"}
    BY DEF Made, OffsetInv, Segments
  <1>2. IsEntry(file[x.section].kind, file[x.section].items[x.target])
    BY <1>1, FilesAssumption DEF IInv
  <1>3. x.length \in Nat
    BY <1>1, <1>2 DEF Size, IsEntry, IsSequence
  <1>4. CASE x.init.op = "const"
    BY <1>1, <1>2, <1>3, <1>4 DEF IsEntry, IsInit, Target
  <1>5. CASE x.init.op = "get"
    BY <1>3, <1>5, MeaningsNatural DEF EmitInv, Made, Known, Target
  <1> QED
    BY <1>1, <1>4, <1>5

\* No byte of a segment is copied before every segment of its section has passed its
\* check, at the offset its initialiser means, whatever globals it follows; so that it
\* fits, or is one of data whose end wraps (module.cpp:219-235, 1004-1119).
THEOREM SegmentsLandTogether == Spec => []SegmentsAllOrNone
PROOF
  <1>1. IInv /\ OffsetInv /\ EmitInv /\ RunInv => SegmentsAllOrNone
    <2> SUFFICES ASSUME IInv, OffsetInv, EmitInv, RunInv, NEW l \in DOMAIN landed,
                        NEW i \in Segments(landed[l].section)
                 PROVE  FitsIn(landed[l].section, Target(file[landed[l].section].items[i].offset),
                               Size(landed[l].section, i))
      BY DEF SegmentsAllOrNone
    <2>1. Accepted
      <3>1. DOMAIN landed # {}
        OBVIOUS
      <3> QED
        BY <3>1 DEF RunInv
    <2>2. PICK p \in DOMAIN entry : p < pc /\ entry[p].op = "copy" /\ landed[l] = Landed(entry[p])
      BY <2>1 DEF RunInv
    <2>3. landed[l].section = entry[p].section
      BY <2>2 DEF Landed
    <2>4. PICK q \in 1 .. p - 1 : IsFor(entry[q], "check", landed[l].section, i)
      <3>1. Checked({} \cup Before(entry, p), entry[p])
        BY DEF EmitInv, Follow
      <3> QED
        BY <2>2, <2>3, <3>1 DEF Checked, Before
    <2>5. q \in DOMAIN entry /\ q < pc
      <3>1. DOMAIN entry = 1 .. Len(entry) /\ Len(entry) \in Nat /\ pc \in Nat
        BY WhereItIs DEF IInv
      <3> QED
        BY <2>2, <3>1
    <2>6. Done(entry[q]) /\ Made(entry[q])
      BY <2>1, <2>5 DEF RunInv, EmitInv, In
    <2>7. PICK x : x = entry[q]
      OBVIOUS
    <2>8. x.op = "check" /\ FitsIn(x.section, Target(x.init), x.length)
      BY <2>4, <2>6, <2>7, SegmentNumbers, PassesFit DEF Done, IsFor
    <2> QED
      BY <2>4, <2>6, <2>7, <2>8 DEF Made, IsFor
  <1> QED
    BY <1>1, Invariance, OffsetInvariance, RunInvariance, PTL

\* The start function, wherever its section stands, is called when every
\* global holds what its initialiser means and every segment lies where its
\* offset means (module.cpp:63-69, 989-1002).
THEOREM StartComesLast == Spec => []StartSeesAll
PROOF
  <1>1. IInv /\ OffsetInv /\ EmitInv /\ RunInv => StartSeesAll
    <2> SUFFICES ASSUME IInv, OffsetInv, EmitInv, RunInv, Running("call") \/ result = "ready"
                 PROVE  /\ \A g \in DOMAIN globals : cells[g] = Meaning[g]
                        /\ \A s \in seen : \A i \in Segments(s) : Size(s, i) > 0 =>
                             \E l \in DOMAIN landed :
                               landed[l] = [section |-> s, segment |-> i, offset |-> Target(file[s].items[i].offset)]
      BY DEF StartSeesAll
    <2>1. Accepted /\ section = 0 /\ In(copies) = {}
      BY DEF Running, Accepted, OffsetInv, Judged
    <2>2. \A p \in DOMAIN entry : p < pc
      <3>1. /\ DOMAIN entry = 1 .. Len(entry) /\ Len(entry) \in Nat /\ Len(user) \in Nat /\ pc \in Nat
            /\ Len(Program) = Len(entry) + Len(user) /\ DOMAIN Program = 1 .. Len(entry) + Len(user)
        BY WhereItIs DEF IInv
      <3>2. CASE result = "ready"
        BY <3>1, <3>2 DEF RunInv
      <3>3. CASE Running("call")
        <4>1. pc \in DOMAIN Program /\ pc \notin DOMAIN entry
          BY <3>3, WhereItIs DEF Running, Instruction
        <4> QED
          BY <3>1, <4>1
      <3> QED
        BY <3>2, <3>3
    <2>3. \A x \in In(entry) : Done(x) /\ Made(x)
      BY <2>1, <2>2 DEF RunInv, EmitInv, In
    <2>4. ASSUME NEW g \in DOMAIN globals PROVE cells[g] = Meaning[g]
      <3>1. CASE globals[g].init.op # "get"
        BY <2>1, <3>1 DEF RunInv
      <3>2. CASE globals[g].init.op = "get"
        <4>1. PICK x \in In(entry) : IsStore(x, g)
          BY <2>1, <3>2 DEF EmitInv, Stored
        <4> QED
          BY <2>3, <4>1 DEF Done, IsStore
      <3> QED
        BY <3>1, <3>2
    <2>5. ASSUME NEW s \in seen, NEW i \in Segments(s), Size(s, i) > 0
          PROVE  \E l \in DOMAIN landed :
                   landed[l] = [section |-> s, segment |-> i, offset |-> Target(file[s].items[i].offset)]
      <3>1. s # section
        BY <2>1, EntriesOf DEF OffsetInv
      <3>2. PICK x \in In(entry) : IsFor(x, "copy", s, i)
        BY <2>1, <2>5, <3>1 DEF EmitInv, Complete
      <3>3. x.op = "copy" /\ x.section = s /\ x.target = i /\ x.init = file[s].items[i].offset
        BY <2>3, <3>2 DEF IsFor, Made
      <3>4. PICK l \in DOMAIN landed : landed[l] = Landed(x)
        BY <2>3, <3>3 DEF Done
      <3>5. Landed(x) = [section |-> s, segment |-> i, offset |-> Target(file[s].items[i].offset)]
        BY <3>3 DEF Landed
      <3> QED
        BY <3>4, <3>5
    <2> QED
      BY <2>4, <2>5
  <1> QED
    BY <1>1, Invariance, OffsetInvariance, RunInvariance, PTL
=============================================================================
