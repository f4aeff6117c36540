--------------------------- MODULE Instantiation ---------------------------
(***************************************************************************)
(* The construction and destruction of contexts (context.cpp) over one     *)
(* table they share: every context imports it.  The element segments store *)
(* function indices in the table from JIT compiled code; once the start    *)
(* function has returned, the constructor replaces them by addresses.      *)
(* The program has one thread: one context is under construction at a time.*)
(* That a function of the host, called from a start function, constructs   *)
(* another context within the first one's constructor is left out.         *)
(***************************************************************************)
EXTENDS Naturals, Sequences

CONSTANTS
    Contexts,     \* the contexts the host creates
    Modules,      \* the modules they instantiate
    TableSize,    \* the size of the shared table
    TableMaximum  \* its declared maximum

(***************************************************************************)
(* A module: the limits its table import declares (maximum 0: none), the   *)
(* type hash of each of its functions and the segments of its one element  *)
(* section.                                                                *)
(***************************************************************************)
Segments == [offset : Nat, indices : Seq(Nat)]
ModuleTypes == [initial : Nat, maximum : Nat, types : Seq(Nat \ {0}), segments : Seq(Segments)]

ASSUME SizeAssumption == TableSize \in Nat /\ TableMaximum \in Nat \ {0} /\ TableSize <= TableMaximum
\* parse_section_element refuses an index beyond mFunctions.
ASSUME ModulesAssumption ==
    /\ Modules \subseteq ModuleTypes
    /\ \A m \in Modules : \A i \in DOMAIN m.segments :
         \A k \in DOMAIN m.segments[i].indices : m.segments[i].indices[k] \in DOMAIN m.types

VARIABLES
    phase,    \* how far the constructor of each context went
    module,   \* the module each context instantiates
    pointers, \* data_ptrs() of the table
    types,    \* data_types() of the table; 0 when never written
    stored    \* history: the element last stored in each slot

vars == <<phase, module, pointers, types, stored>>

Slots == 0 .. TableSize - 1
Phases == {"absent", "elements", "data", "start", "remap", "ready", "failed", "destroyed"}
Building == {"elements", "data", "start", "remap"}

\* What a slot can hold: nothing (index 0), a function index plus one as the
\* segments store it, or the address of a context's function.
NoContext == "none"
Index(n) == [context |-> NoContext, n |-> n]
Address(c, n) == [context |-> c, n |-> n]
Values == [context : Contexts \cup {NoContext}, n : Nat]
Null == Index(0)

ASSUME ContextsAssumption == NoContext \notin Contexts

TypeOK ==
    /\ phase \in [Contexts -> Phases]
    /\ module \in [Contexts -> Modules]
    /\ pointers \in [Slots -> Values]
    /\ types \in [Slots -> Nat]
    /\ stored \in [Slots -> Values]

-----------------------------------------------------------------------------
Advance(c, to) == phase' = [phase EXCEPT ![c] = to]

\* The checks of the constructor on the imported table.  table::capacity()
\* is one less than the maximum.
Capacity == TableMaximum - 1
LimitsFit(m) == m.initial <= TableSize /\ (m.maximum # 0 => m.maximum >= Capacity)

Link(c) ==
    /\ phase[c] = "absent"
    /\ \A d \in Contexts : phase[d] \notin Building
    /\ Advance(c, IF LimitsFit(module[c]) THEN "elements" ELSE "failed")
    /\ UNCHANGED <<module, pointers, types, stored>>

\* wembed.start.element: every segment is checked before any is copied.
SegmentFits(segment) ==
    /\ segment.offset <= TableSize
    /\ segment.offset + Len(segment.indices) <= TableSize
SegmentsFit(m) == \A i \in DOMAIN m.segments : SegmentFits(m.segments[i])

\* The segments that write a slot; the last of them wins.
Writers(m, s) ==
    {i \in DOMAIN m.segments :
       s \in m.segments[i].offset .. m.segments[i].offset + Len(m.segments[i].indices) - 1}
Element(m, s) ==
    LET last == CHOOSE i \in Writers(m, s) : \A j \in Writers(m, s) : j <= i
    IN  m.segments[last].indices[s - m.segments[last].offset + 1]

\* Mutant: the segments are copied without the check.
ElementsUnchecked(c) ==
    LET m == module[c]
        written == {s \in 0 .. TableMaximum : Writers(m, s) # {}}
    IN  /\ phase[c] = "elements"
        /\ pointers' = [s \in Slots \cup written |-> IF s \in written THEN Index(Element(m, s))
                                                      ELSE pointers[s]]
        /\ Advance(c, "data")
        /\ UNCHANGED <<module, types, stored>>

Elements(c) ==
    LET m == module[c]
    IN  /\ phase[c] = "elements"
        /\ \/ /\ SegmentsFit(m)
              /\ pointers' = [s \in Slots |-> IF Writers(m, s) = {} THEN pointers[s]
                                              ELSE Index(Element(m, s))]
              /\ stored' = [s \in Slots |-> IF Writers(m, s) = {} THEN stored[s]
                                            ELSE Address(c, Element(m, s))]
              /\ Advance(c, "data")
           \/ ~SegmentsFit(m) /\ Advance(c, "failed") /\ UNCHANGED <<pointers, stored>>
        /\ UNCHANGED <<module, types>>

\* wembed.start.data: a segment may fall outside the memory.
Data(c) ==
    /\ phase[c] = "data"
    /\ \E to \in {"start", "failed"} : Advance(c, to)
    /\ UNCHANGED <<module, pointers, types, stored>>

\* The module's start function returns, or traps.
Start(c) ==
    /\ phase[c] = "start"
    /\ \E to \in {"remap", "failed"} : Advance(c, to)
    /\ UNCHANGED <<module, pointers, types, stored>>

\* Mutant: the index of the last function is left out.
IsIndexButLast(m, v) == v.context = NoContext /\ v.n \in 1 .. Len(m.types) - 1
\* The values the constructor takes for indices of its own functions, in the
\* slots its module declares.
IsIndex(m, v) == v.context = NoContext /\ v.n \in 1 .. Len(m.types)
\* Mutant: the last slot the module declares is left out.
RemappedButLast(m, s, end) == s + 1 < m.initial /\ s < end /\ IsIndex(m, pointers[s])
Remapped(m, s, end) == s < m.initial /\ s < end /\ IsIndex(m, pointers[s])

\* Mutant: the pointers are replaced, their types are not written.
RemapUntyped(c) ==
    /\ phase[c] = "remap"
    /\ pointers' = [s \in Slots |-> IF Remapped(module[c], s, TableSize)
                                     THEN Address(c, pointers[s].n) ELSE pointers[s]]
    /\ Advance(c, "ready")
    /\ UNCHANGED <<module, types, stored>>

\* The loop stops before slot end when a function has no address.
Remap(c) ==
    LET m == module[c]
    IN  /\ phase[c] = "remap"
        /\ \E end \in 0 .. TableSize :
             /\ end < TableSize => end < m.initial /\ IsIndex(m, pointers[end])
             /\ pointers' = [s \in Slots |-> IF Remapped(m, s, end)
                                             THEN Address(c, pointers[s].n) ELSE pointers[s]]
             /\ types' = [s \in Slots |-> IF Remapped(m, s, end)
                                          THEN m.types[pointers[s].n] ELSE types[s]]
             /\ Advance(c, IF end = TableSize THEN "ready" ELSE "failed")
        /\ UNCHANGED <<module, stored>>

\* The destructor frees the code and leaves the table as it is.
Destroy(c) ==
    /\ phase[c] = "ready"
    /\ \A d \in Contexts : phase[d] \notin Building
    /\ Advance(c, "destroyed")
    /\ UNCHANGED <<module, pointers, types, stored>>

Init ==
    /\ phase = [c \in Contexts |-> "absent"]
    /\ module \in [Contexts -> Modules]
    /\ pointers = [s \in Slots |-> Null]
    /\ types = [s \in Slots |-> 0]
    /\ stored = [s \in Slots |-> Null]

Step(c) == Link(c) \/ Elements(c) \/ Data(c) \/ Start(c) \/ Remap(c) \/ Destroy(c)

Next == \E c \in Contexts : Step(c)

Spec == Init /\ [][Next]_vars

-----------------------------------------------------------------------------
(* Safety.                                                                 *)

\* Within the slots its module declares, a context that was completed finds
\* in the table the functions it was the last to store there, whatever the
\* contexts built after it wrote or left behind.
SlotsBound ==
    \A s \in Slots :
        LET v == stored[s]
        IN  v # Null /\ phase[v.context] \in {"ready", "destroyed"} /\ s < module[v.context].initial
            => pointers[s] = v /\ types[s] = module[v.context].types[v.n]

\* An address in the table goes with the type of the function it is the
\* address of: a call_indirect that passes the type check and finds an address
\* calls a function of the type it wants.
AddressesTyped ==
    \A s \in Slots :
        pointers[s].context # NoContext =>
            types[s] = module[pointers[s].context].types[pointers[s].n]

\* What a segment stored stays a bare index only while its context is built,
\* after its construction failed, or beyond the size its module declares.
IndicesTransient ==
    \A s \in Slots :
        pointers[s].context = NoContext /\ pointers[s] # Null =>
            LET c == stored[s].context
            IN  phase[c] \in Building \cup {"failed"} \/ s >= module[c].initial

\* "Stores the indices, it's the context that will replace them to func ptr":
\* once its context is completed no index of it is left in the table.
IndicesReplaced ==
    \A s \in Slots :
        stored[s] # Null /\ phase[stored[s].context] = "ready" => pointers[s].context # NoContext

\* "call to uninitialized table element" is the trap of a slot no segment
\* initialised: while the start function runs, the slots its module stored
\* already pass the type check of their function.
StartSeesElements ==
    \A s \in Slots :
        LET v == stored[s]
        IN  v # Null /\ phase[v.context] = "start" => types[s] = module[v.context].types[v.n]
=============================================================================
