---------------------------- MODULE LinearMemory ----------------------------
(***************************************************************************)
(* One linear memory (context.hpp, posix.cpp) and what is done to it: the  *)
(* contexts that link to it and copy their data segments, the loads and    *)
(* stores of their code, memory.grow, the command line driver's brk, and   *)
(* the reset the test suite makes between modules.                         *)
(*                                                                         *)
(* The mapping reserves MaxPages pages at a base that never moves, which   *)
(* is why the code of every context may keep its address.  A page is out   *)
(* of reach until mprotect opens it.  Addresses are the program's words:   *)
(* they wrap at Modulus (2^32), where the reserved pages end.              *)
(***************************************************************************)
EXTENDS Integers, Sequences

CONSTANTS
    PageSize,   \* sPageSize
    MaxPages,   \* sMaxPages, the pages of the mapping
    Contexts,   \* the contexts that may link to the memory
    Modules,    \* the modules they instantiate
    Bytes,      \* the values of a byte
    Operands,   \* the addresses and the offsets of loads and stores
    Widths      \* the bytes one of them moves

Host == "host"
Modulus == MaxPages * PageSize
\* A segment has any size of 32 bits, which no one compares with what the file
\* holds.
Segments == [offset : 0 .. Modulus - 1, size : 0 .. Modulus - 1, byte : Bytes, held : BOOLEAN]
ModuleTypes == [initial : 0 .. MaxPages, limited : BOOLEAN, maximum : 0 .. MaxPages,
                segments : Seq(Segments)]

ASSUME SizesAssumption == PageSize \in Nat \ {0} /\ MaxPages \in Nat \ {0}
ASSUME BytesAssumption == 0 \in Bytes
ASSUME OperandsAssumption == Operands \subseteq 0 .. Modulus - 1 /\ Widths \subseteq Nat \ {0}
\* parse_resizable_limits and parse_section_memory refuse other limits.
ASSUME ModulesAssumption ==
    Modules \subseteq {m \in ModuleTypes : m.limited => m.initial <= m.maximum}
ASSUME ContextsAssumption == Host \notin Contexts

VARIABLES
    driven,   \* whether the program is the driver, which makes one context
    owner,    \* who made the memory: the host, or a context
    limits,   \* mType.mLimits: whether there is a maximum, and which
    size,     \* mCurSize, in pages
    opened,   \* the pages mprotect has opened so far
    content,  \* the bytes of the whole mapping
    module,   \* the module each context instantiates
    linked,   \* the contexts completed over this memory
    call      \* the last request and its answer

memory == <<size, opened, content>>
vars == <<driven, owner, limits, size, opened, content, module, linked, call>>

Requests == {"none", "load", "store", "grow", "brk", "link", "reset"}
Answers == {"done", "refused", "failed", "trap", "outside"}

TypeOK ==
    /\ driven \in BOOLEAN
    /\ owner \in Contexts \cup {Host}
    /\ limits \in [limited : BOOLEAN, maximum : 0 .. MaxPages]
    /\ size \in 0 .. MaxPages
    /\ opened \in 0 .. MaxPages
    /\ content \in [0 .. Modulus - 1 -> Bytes]
    /\ module \in [Contexts -> Modules]
    /\ linked \in SUBSET Contexts
    /\ call.op \in Requests /\ call.answer \in Answers

-----------------------------------------------------------------------------
Answer(op, at, width, value, answer) ==
    call' = [op |-> op, at |-> at, width |-> width, value |-> value, answer |-> answer]

\* Mutant: mprotect opens the whole mapping.
ResizeAll(pages) ==
    /\ size' = pages
    /\ opened' = MaxPages
\* virtual_mapping::resize: mprotect opens pages, nothing ever closes them.
Resize(pages) ==
    /\ size' = pages
    /\ opened' = IF pages > opened THEN pages ELSE opened

Capacity == IF limits.limited THEN limits.maximum ELSE MaxPages

\* Mutant: the sum of address and offset wraps.
EffectiveWrapped(address, offset) == (address + offset) % Modulus
\* uadd.with.overflow, the overflow flag being the carry.
Effective(address, offset) == address + offset

\* The index of a GEP is a signed word: from 2 GiB up it is below the base.
Index(total) == IF total < Modulus \div 2 THEN total ELSE total - Modulus

\* The address does not overflow, and every byte lies in an open page.
Reaches(total, width) ==
    /\ total < Modulus
    /\ Index(total) >= 0
    /\ Index(total) + width <= opened * PageSize

\* What lies below the base is not this memory: the access may find a page.
Faults(total) == IF total < Modulus /\ Index(total) < 0 THEN {"trap", "outside"} ELSE {"trap"}

Load(address, offset, width) ==
    LET total == Effective(address, offset)
        at == address + offset
    IN  /\ linked # {}
        /\ \/ /\ Reaches(total, width)
              /\ Answer("load", at, width, [k \in 1 .. width |-> content[total + k - 1]], "done")
           \/ /\ ~Reaches(total, width)
              /\ \E answer \in Faults(total) : Answer("load", at, width, <<>>, answer)
        /\ UNCHANGED <<driven, owner, limits, memory, module, linked>>

Store(address, offset, width, byte) ==
    LET total == Effective(address, offset)
        at == address + offset
    IN  /\ linked # {}
        /\ \/ /\ Reaches(total, width)
              /\ content' = [a \in 0 .. Modulus - 1 |->
                               IF a \in total .. total + width - 1 THEN byte ELSE content[a]]
              /\ Answer("store", at, width, <<byte>>, "done")
           \/ /\ ~Reaches(total, width)
              /\ \E answer \in Faults(total) : Answer("store", at, width, <<byte>>, answer)
              /\ UNCHANGED content
        /\ UNCHANGED <<driven, owner, limits, size, opened, module, linked>>

\* Mutant: the mapping is the only limit.
OverLimitOfMapping(pages) == pages > MaxPages
\* Mutant: the declared maximum is the only limit.
OverLimitOfType(pages) == limits.limited /\ pages > limits.maximum
OverLimit(pages) == pages > MaxPages \/ (limits.limited /\ pages > limits.maximum)

\* mprotect may fail: memory_grow does not catch what resize throws then.
Grow(delta) ==
    /\ linked # {}
    /\ \/ /\ ~OverLimit(size + delta)
          /\ IF delta > 0 THEN Resize(size + delta) ELSE UNCHANGED <<size, opened>>
          /\ Answer("grow", delta, 0, <<size>>, "done")
       \/ /\ OverLimit(size + delta) /\ Answer("grow", delta, 0, <<>>, "refused")
          /\ UNCHANGED <<size, opened>>
       \/ /\ ~OverLimit(size + delta) /\ delta > 0 /\ Answer("grow", delta, 0, <<>>, "failed")
          /\ UNCHANGED <<size, opened>>
    /\ UNCHANGED <<driven, owner, limits, content, module, linked>>

\* The driver's brk, which knows no maximum and rounds down to whole pages.
\* At MaxPages its 32 bit heap size is 0: that case, which would resize the
\* mapping beyond its end, is left out.
Brk(to) ==
    LET heap == size * PageSize
        pages == size + (to - heap) \div PageSize
    IN  /\ driven /\ linked = {owner} /\ size < MaxPages
        /\ \/ /\ to > heap
              /\ Resize(pages)
              /\ Answer("brk", to, 0, <<pages * PageSize>>, "done")
           \/ to > heap /\ Answer("brk", to, 0, <<>>, "failed") /\ UNCHANGED <<size, opened>>
           \/ to <= heap /\ Answer("brk", to, 0, <<heap>>, "done") /\ UNCHANGED <<size, opened>>
        /\ UNCHANGED <<driven, owner, limits, content, module, linked>>

-----------------------------------------------------------------------------
(* Linking a context.                                                      *)

\* The limits an import declares, against the memory found.
LimitsFit(m) == m.initial <= size /\ (m.limited => m.maximum >= Capacity)

\* trap_data_copy, in 32 bits: the size of the memory wraps too.
Bound == (size * PageSize) % Modulus
SegmentFits(segment) ==
    /\ segment.offset < Modulus \div 2
    /\ (segment.offset + segment.size) % Modulus <= Bound

\* The first n segments that write an address; the last of them wins.
Covers(segment, a) == a \in segment.offset .. segment.offset + segment.size - 1
Writers(m, n, a) == {i \in 1 .. n : Covers(m.segments[i], a)}
LastWriter(m, n, a) == CHOOSE i \in Writers(m, n, a) : \A j \in Writers(m, n, a) : j <= i

\* The bytes once the first n segments are copied.  Those of a segment the file
\* does not hold are what follows the file: beyond is any byte.
Byte(segment, beyond) == IF segment.held THEN segment.byte ELSE beyond
Copied(m, n, beyond) ==
    [a \in 0 .. Modulus - 1 |->
       IF Writers(m, n, a) = {} THEN content[a]
       ELSE Byte(m.segments[LastWriter(m, n, a)], beyond)]

\* Where the sum wrapped, the segment that passed the check runs into the first
\* page that is not open.
Overruns(segment) == segment.size > 0 /\ segment.offset + segment.size > opened * PageSize

\* The constructor of a context, up to its start function: the import is
\* checked, then every segment, and only then is the first one copied.  What
\* it imports is a memory of the host, or one a completed context exports.
Accepted(c) ==
    /\ c \notin linked
    /\ owner \in {Host, c} \/ (owner \in linked /\ ~driven)
    /\ LimitsFit(module[c])
    /\ \A i \in DOMAIN module[c].segments : SegmentFits(module[c].segments[i])

Link(c) ==
    /\ Accepted(c) /\ \A i \in DOMAIN module[c].segments : ~Overruns(module[c].segments[i])
    /\ \E beyond \in Bytes : content' = Copied(module[c], Len(module[c].segments), beyond)
    /\ linked' = linked \cup {c}
    /\ Answer("link", 0, 0, <<>>, "done")
    /\ UNCHANGED <<driven, owner, limits, size, opened, module>>

Refuse(c) ==
    /\ ~Accepted(c) /\ c \notin linked
    /\ owner \in {Host, c} \/ (owner \in linked /\ ~driven)
    /\ Answer("link", 0, 0, <<>>, "refused")
    /\ UNCHANGED <<driven, owner, limits, memory, module, linked>>

\* The copy of a segment that overruns the open pages stops the constructor, and
\* so may that of a segment the file does not hold, with the segments before it
\* copied and some of its bytes.  A memory of the context itself goes with it.
\* Where all pages are open it goes on beyond the mapping.
Fault(c) ==
    /\ Accepted(c)
    /\ \E f \in DOMAIN module[c].segments, beyond \in Bytes :
         LET segment == module[c].segments[f]
             covered == {a \in 0 .. opened * PageSize - 1 : Covers(segment, a)}
             before == Copied(module[c], f - 1, beyond)
         IN  /\ Overruns(segment) \/ ~segment.held
             /\ \A i \in 1 .. f - 1 : ~Overruns(module[c].segments[i])
             /\ IF owner = c THEN UNCHANGED content
                ELSE \E part \in SUBSET covered :
                       content' = [a \in 0 .. Modulus - 1 |->
                                     IF a \in part THEN Byte(segment, beyond) ELSE before[a]]
             /\ \/ Answer("link", 0, 0, <<>>, "trap")
                \/ /\ Overruns(segment) /\ opened = MaxPages
                   /\ Answer("link", 0, 0, <<>>, "outside")
    /\ UNCHANGED <<driven, owner, limits, size, opened, module, linked>>

\* The destructor of a context.  The memory ends with the one that made it,
\* which therefore goes last.
Unlink(c) ==
    /\ c \in linked /\ c # owner
    /\ linked' = linked \ {c}
    /\ UNCHANGED <<driven, owner, limits, memory, module, call>>

\* spectest_reset of the test suite: one page, cleared.
Reset ==
    /\ owner = Host /\ linked = {}
    /\ Resize(1)
    /\ content' = [a \in 0 .. Modulus - 1 |-> IF a < PageSize THEN 0 ELSE content[a]]
    /\ Answer("reset", 0, 0, <<>>, "done")
    /\ UNCHANGED <<driven, owner, limits, module, linked>>

-----------------------------------------------------------------------------
\* memory(pInitial, pMaximum), with an initial size up to the maximum; its
\* product with sPageSize has 32 bits.  Without a maximum the constructor
\* leaves the flags it reads unset; no host in the repository leaves it out.
HostMade ==
    /\ owner = Host /\ driven = FALSE
    /\ limits \in [limited : {TRUE}, maximum : 0 .. MaxPages]
    /\ size \in {initial % MaxPages : initial \in 0 .. limits.maximum}

\* memory(pType), with the limits of the module of the context that makes it.
ContextMade ==
    /\ owner \in Contexts /\ driven \in BOOLEAN
    /\ limits = [limited |-> module[owner].limited, maximum |-> module[owner].maximum]
    /\ size = module[owner].initial

Init ==
    /\ module \in [Contexts -> Modules]
    /\ HostMade \/ ContextMade
    /\ opened = size
    /\ content = [a \in 0 .. Modulus - 1 |-> 0]
    /\ linked = {}
    /\ call = [op |-> "none", at |-> 0, width |-> 0, value |-> <<>>, answer |-> "done"]

Next ==
    \/ \E address, offset \in Operands, width \in Widths :
         Load(address, offset, width) \/ \E byte \in Bytes : Store(address, offset, width, byte)
    \/ \E delta \in 0 .. MaxPages : Grow(delta)
    \/ \E to \in 0 .. Modulus - 1 : Brk(to)
    \/ \E c \in Contexts : Link(c) \/ Refuse(c) \/ Fault(c) \/ Unlink(c)

Spec == Init /\ [][Next]_vars

\* The life of a memory the test suite resets between two modules.
ResetSpec == Init /\ [][Next \/ Reset]_vars

-----------------------------------------------------------------------------
(* Safety.                                                                 *)

\* Unless brk extends it, a memory stays within the limits of every context
\* that is linked to it, however many import it and whichever of them grows it:
\* the check made when a context links holds for as long as it runs.
LinkedLimits ==
    ~driven => \A c \in linked : LET m == module[c]
                                  IN  m.initial <= size /\ (m.limited => size <= m.maximum)

\* "Zeroed 4GB memory segment": the bytes beyond the size are zero, so a page
\* that memory.grow or brk adds is clear.  Where the sum of a segment's offset and
\* size wraps, only the pages that are not open keep the copy from going there
\* (context.hpp:55, module.cpp:222-226).
Zeroed == \A a \in 0 .. Modulus - 1 : a >= size * PageSize => content[a] = 0

\* Without resets the memory keeps the promise of WasmMemory.
Memory == INSTANCE WasmMemory WITH
    pages <- size,
    bytes <- [a \in 0 .. size * PageSize - 1 |-> content[a]],
    Positions <- {address + offset : address, offset \in Operands},
    Images <- {m.segments : m \in Modules}
Promise == Memory!Spec
=============================================================================
