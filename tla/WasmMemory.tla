----------------------------- MODULE WasmMemory -----------------------------
(***************************************************************************)
(* What a linear memory promises the code that runs over it: a number of   *)
(* pages that only grows, bytes that are zero until they are written, and  *)
(* accesses that are served within the pages and trap beyond them.  Each   *)
(* request and its answer are recorded in call.                            *)
(*                                                                         *)
(* The promise stops at 2 GiB (Reach): nothing is said of the answer to an *)
(* access from there on, only that it leaves the bytes below alone.        *)
(***************************************************************************)
EXTENDS Integers, Sequences

CONSTANTS
    PageSize,   \* the bytes of a page
    MaxPages,   \* the pages that 32 bits can address
    Bytes,      \* the values of a byte
    Positions,  \* the effective addresses of loads and stores
    Widths,     \* the bytes one of them moves
    Images      \* the data segments of the modules, one sequence for each

VARIABLES
    pages,  \* the size of the memory
    bytes,  \* its contents
    call    \* the last request and its answer

Addresses(n) == 0 .. n * PageSize - 1
Reach == (MaxPages * PageSize) \div 2

Answer(op, at, width, value, answer) ==
    call' = [op |-> op, at |-> at, width |-> width, value |-> value, answer |-> answer]

Within(at, width) == at + width <= pages * PageSize

Init ==
    /\ pages \in 0 .. MaxPages
    /\ bytes = [a \in Addresses(pages) |-> 0]
    /\ call = [op |-> "none", at |-> 0, width |-> 0, value |-> <<>>, answer |-> "done"]

Load(at, width) ==
    /\ \/ /\ Within(at, width)
          /\ Answer("load", at, width, [k \in 1 .. width |-> bytes[at + k - 1]], "done")
       \/ ~Within(at, width) /\ Answer("load", at, width, <<>>, "trap")
       \/ at >= Reach /\ \E answer \in {"trap", "outside"} : Answer("load", at, width, <<>>, answer)
    /\ UNCHANGED <<pages, bytes>>

Store(at, width, byte) ==
    \/ /\ Within(at, width) /\ Answer("store", at, width, <<byte>>, "done")
       /\ bytes' = [a \in DOMAIN bytes |-> IF a \in at .. at + width - 1 THEN byte ELSE bytes[a]]
       /\ UNCHANGED pages
    \/ /\ ~Within(at, width) /\ Answer("store", at, width, <<byte>>, "trap")
       /\ UNCHANGED <<pages, bytes>>
    \/ /\ at >= Reach
       /\ \E answer \in {"trap", "outside"} : Answer("store", at, width, <<byte>>, answer)
       /\ UNCHANGED <<pages, bytes>>

Extend(n) ==
    /\ pages' = pages + n
    /\ bytes' = [a \in Addresses(pages + n) |-> IF a \in Addresses(pages) THEN bytes[a] ELSE 0]

Grow(n) ==
    \/ /\ pages + n <= MaxPages /\ Answer("grow", n, 0, <<pages>>, "done")
       /\ Extend(n)
    \/ /\ \E answer \in {"refused", "failed"} : Answer("grow", n, 0, <<>>, answer)
       /\ UNCHANGED <<pages, bytes>>

\* The host extends the memory, or fails to.
Brk(to) ==
    \/ \E n \in 0 .. MaxPages - pages :
         Answer("brk", to, 0, <<(pages + n) * PageSize>>, "done") /\ Extend(n)
    \/ Answer("brk", to, 0, <<>>, "failed") /\ UNCHANGED <<pages, bytes>>

\* The segments of a module are all copied, in their order, or none is: unless
\* the module is cut short, or one ends where 32 bits do or later.  Then the copy
\* may stop on the way, having written where the segments lie and nowhere else.
Over(image, a) == {i \in DOMAIN image : a \in image[i].offset .. image[i].offset + image[i].size - 1}
Shown(segment, beyond) == IF segment.held THEN segment.byte ELSE beyond
Fits(image) ==
    \A i \in DOMAIN image : image[i].offset < Reach /\ Within(image[i].offset, image[i].size)
MayStop(image) ==
    \E i \in DOMAIN image : ~image[i].held \/ image[i].offset + image[i].size >= MaxPages * PageSize
Initialise(image) ==
    \/ /\ Fits(image) /\ Answer("link", 0, 0, <<>>, "done")
       /\ \E beyond \in Bytes :
            bytes' = [a \in DOMAIN bytes |->
                        LET over == Over(image, a)
                        IN  IF over = {} THEN bytes[a]
                            ELSE Shown(image[CHOOSE i \in over : \A j \in over : j <= i], beyond)]
       /\ UNCHANGED pages
    \/ Answer("link", 0, 0, <<>>, "refused") /\ UNCHANGED <<pages, bytes>>
    \/ /\ MayStop(image) /\ Answer("link", 0, 0, <<>>, "trap")
       /\ \E beyond \in Bytes :
            \A a \in DOMAIN bytes :
              bytes'[a] \in {bytes[a]} \cup {Shown(image[i], beyond) : i \in Over(image, a)}
       /\ DOMAIN bytes' = DOMAIN bytes
       /\ UNCHANGED pages

Next ==
    \/ \E at \in Positions, width \in Widths :
         Load(at, width) \/ \E byte \in Bytes : Store(at, width, byte)
    \/ \E n \in 0 .. MaxPages : Grow(n)
    \/ \E to \in 0 .. MaxPages * PageSize - 1 : Brk(to)
    \/ \E image \in Images : Initialise(image)

Spec == Init /\ [][Next]_<<pages, bytes, call>>
=============================================================================
