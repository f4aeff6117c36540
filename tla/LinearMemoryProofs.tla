------------------------- MODULE LinearMemoryProofs -------------------------
(***************************************************************************)
(* Theorems of LinearMemory, for any page size, any number of contexts and *)
(* any modules: without resets the memory is clear beyond its size, stays  *)
(* within the limits of every context linked to it, and keeps its promise. *)
(***************************************************************************)
EXTENDS LinearMemory, Integers, TLAPS, WellFoundedInduction, SequenceTheorems

\* A set of positions of a sequence that is not empty has a last element.
LEMMA LastExists ==
    ASSUME NEW n \in Nat, NEW W, W \subseteq 1 .. n, W # {}
    PROVE  \E i \in W : \A j \in W : j <= i
PROOF
  <1> DEFINE T == {n - i : i \in W}
             R == OpToRel(<, Nat)
  <1>1. T \subseteq Nat /\ T # {}
    <2>1. \A i \in W : n - i \in Nat /\ n - i \in T
      OBVIOUS
    <2> QED
      BY <2>1
  <1>2. PICK x \in T : \A y \in T : ~ (<<y, x>> \in R)
    <2> HIDE DEF T
    <2>1. IsWellFoundedOn(R, Nat)
      BY NatLessThanWellFounded
    <2> QED
      BY <1>1, <2>1, WFMin
  <1>3. \A y \in T : ~ (y < x)
    BY <1>1, <1>2 DEF OpToRel
  <1>4. PICK i \in W : x = n - i
    OBVIOUS
  <1>5. ASSUME NEW j \in W PROVE j <= i
    <2>1. n - j \in T /\ ~ (n - j < n - i)
      BY <1>3, <1>4
    <2>2. i \in Nat /\ j \in Nat
      OBVIOUS
    <2> QED
      BY <2>1, <2>2
  <1> QED
    BY <1>5

\* Pages in bytes.
LEMMA PagesInBytes ==
    ASSUME NEW m \in Nat, NEW n \in Nat, m <= n
    PROVE  m * PageSize <= n * PageSize /\ m * PageSize \in Nat
BY SizesAssumption

\* The modulus of addresses.
LEMMA ModulusType ==
    /\ Modulus \in Nat \ {0} /\ Modulus \div 2 \in Nat
    /\ 2 * (Modulus \div 2) <= Modulus /\ Modulus < 2 * (Modulus \div 2) + 2
BY SizesAssumption DEF Modulus

\* The bytes of a word.
LEMMA WordOf ==
    ASSUME NEW x \in Nat, x < Modulus
    PROVE  x % Modulus = x
BY ModulusType

\* Below MaxPages the size in bytes is the bound of a segment; at MaxPages the
\* bound has wrapped to zero.
LEMMA BoundBelowSize ==
    ASSUME size \in 0 .. MaxPages
    PROVE  Bound \in Nat /\ Bound <= size * PageSize
PROOF
  <1>1. size * PageSize \in Nat /\ size * PageSize <= Modulus
    BY PagesInBytes, SizesAssumption DEF Modulus
  <1>2. CASE size * PageSize < Modulus
    BY <1>1, <1>2, WordOf DEF Bound
  <1>3. CASE size * PageSize = Modulus
    BY <1>1, <1>3, ModulusType DEF Bound
  <1> QED
    BY <1>1, <1>2, <1>3, ModulusType

\* The data segments.
LEMMA SegmentsOf ==
    ASSUME NEW m \in Modules, NEW i \in DOMAIN m.segments
    PROVE  /\ m.segments[i] \in Segments
           /\ m.segments[i].offset \in 0 .. Modulus - 1
           /\ m.segments[i].size \in 0 .. Modulus - 1
           /\ m.segments[i].byte \in Bytes
PROOF
  <1>1. m.segments \in Seq(Segments)
    BY ModulesAssumption DEF ModuleTypes
  <1>2. m.segments[i] \in Segments
    BY <1>1, ElementOfSeq, LenProperties
  <1> QED
    BY <1>2 DEF Segments

\* And how many there are.
LEMMA SegmentCount ==
    ASSUME NEW m \in Modules
    PROVE  Len(m.segments) \in Nat /\ DOMAIN m.segments = 1 .. Len(m.segments)
PROOF
  <1>1. m.segments \in Seq(Segments)
    BY ModulesAssumption DEF ModuleTypes
  <1> QED
    BY <1>1, LenProperties

\* A segment that passes the check lies within the pages of the memory, unless
\* it overruns them; then it ends where the addresses of a word do, or later.
LEMMA CheckedSegments ==
    ASSUME size \in 0 .. MaxPages, opened = size, NEW m \in Modules, NEW i \in DOMAIN m.segments,
           SegmentFits(m.segments[i])
    PROVE  /\ m.segments[i].offset < Modulus \div 2
           /\ ~Overruns(m.segments[i]) => m.segments[i].offset + m.segments[i].size <= size * PageSize
           /\ Overruns(m.segments[i]) => m.segments[i].offset + m.segments[i].size >= Modulus
           /\ Overruns(m.segments[i]) => size < MaxPages
PROOF
  <1> DEFINE offset == m.segments[i].offset
             length == m.segments[i].size
  <1>1. offset \in Nat /\ length \in Nat
    BY SegmentsOf, ModulusType
  <1>2. offset < Modulus \div 2 /\ (offset + length) % Modulus <= Bound
    BY DEF SegmentFits
  <1>3. size * PageSize \in Nat
    BY PagesInBytes, SizesAssumption
  <1>4. Overruns(m.segments[i]) <=> (length > 0 /\ offset + length > size * PageSize)
    BY DEF Overruns
  <1>5. offset < Modulus /\ length < Modulus
    BY SegmentsOf, ModulusType
  <1> HIDE DEF offset, length
  <1>6. ~ (length > 0 /\ offset + length > size * PageSize) => offset + length <= size * PageSize
    <2>1. CASE length > 0
      BY <1>1, <1>3, <2>1
    <2>2. CASE length = 0
      <3>1. (offset + length) % Modulus = offset
        BY <1>1, <1>5, <2>2, WordOf
      <3> QED
        BY <1>1, <1>2, <1>3, <2>2, <3>1, BoundBelowSize
    <2> QED
      BY <1>1, <2>1, <2>2
  <1>7. ASSUME offset + length > size * PageSize
        PROVE  offset + length >= Modulus /\ size < MaxPages
    <2>1. offset + length >= Modulus
      <3> SUFFICES ASSUME offset + length < Modulus PROVE FALSE
        BY <1>1, ModulusType
      <3>1. (offset + length) % Modulus = offset + length
        BY <1>1, WordOf
      <3> QED
        BY <1>1, <1>2, <1>3, <1>7, <3>1, BoundBelowSize
    <2>2. size < MaxPages
      <3> SUFFICES ASSUME size = MaxPages PROVE FALSE
        BY SizesAssumption
      <3>1. Bound = 0 /\ size * PageSize = Modulus
        BY ModulusType DEF Bound, Modulus
      <3>2. PICK rest \in Nat : offset + length = Modulus + rest /\ rest < Modulus
        <4>1. offset + length - Modulus \in Nat /\ offset + length - Modulus < Modulus
          BY <1>1, <1>5, <2>1, ModulusType
        <4> QED
          BY <1>1, <4>1, ModulusType
      <3>3. (Modulus + rest) % Modulus = rest
        BY <3>2, ModulusType
      <3>4. rest = 0
        BY <1>2, <3>1, <3>2, <3>3
      <3> QED
        BY <1>7, <3>1, <3>2, <3>4, ModulusType
    <2> QED
      BY <2>1, <2>2
  <1> QED
    BY <1>2, <1>4, <1>6, <1>7 DEF offset, length

\* What a segment writes is a byte.
LEMMA WriterOf ==
    ASSUME NEW m \in Modules, NEW n \in 0 .. Len(m.segments), NEW a, Writers(m, n, a) # {}
    PROVE  LastWriter(m, n, a) \in Writers(m, n, a) /\ LastWriter(m, n, a) \in DOMAIN m.segments
PROOF
  <1> DEFINE W == Writers(m, n, a)
             IsLast(i) == \A j \in W : j <= i
  <1>1. n \in Nat /\ W \subseteq 1 .. n /\ 1 .. n \subseteq DOMAIN m.segments
    BY SegmentCount DEF Writers
  <1>2. \E i \in W : IsLast(i)
    BY <1>1, LastExists
  <1>3. LastWriter(m, n, a) \in W
    BY <1>2 DEF LastWriter
  <1> QED
    BY <1>1, <1>3

\* The value of a byte of a segment.
LEMMA ByteType ==
    ASSUME NEW m \in Modules, NEW i \in DOMAIN m.segments, NEW beyond \in Bytes
    PROVE  Byte(m.segments[i], beyond) \in Bytes
BY SegmentsOf DEF Byte

\* An address a segment covers is open when it does not overrun.
LEMMA CoveredIsOpen ==
    ASSUME size \in 0 .. MaxPages, opened = size, NEW m \in Modules, NEW i \in DOMAIN m.segments,
           ~Overruns(m.segments[i]), NEW a \in Int, Covers(m.segments[i], a)
    PROVE  a < size * PageSize
PROOF
  <1>1. size * PageSize \in Nat
    BY PagesInBytes, SizesAssumption
  <1>2. m.segments[i].offset \in Nat /\ m.segments[i].size \in Nat
    BY SegmentsOf, ModulusType
  <1>3. m.segments[i].offset <= a /\ a <= m.segments[i].offset + m.segments[i].size - 1
    BY <1>2 DEF Covers
  <1>4. ~ (m.segments[i].size > 0 /\ m.segments[i].offset + m.segments[i].size > size * PageSize)
    BY DEF Overruns
  <1> QED
    BY <1>1, <1>2, <1>3, <1>4

\* Segments that do not overrun write bytes, below the size.
LEMMA CopiedBytes ==
    ASSUME size \in 0 .. MaxPages, opened = size, content \in [0 .. Modulus - 1 -> Bytes],
           NEW m \in Modules, NEW n \in 0 .. Len(m.segments), NEW beyond \in Bytes,
           \A i \in 1 .. n : ~Overruns(m.segments[i])
    PROVE  /\ Copied(m, n, beyond) \in [0 .. Modulus - 1 -> Bytes]
           /\ \A a \in 0 .. Modulus - 1 :
                a >= size * PageSize => Copied(m, n, beyond)[a] = content[a]
PROOF
  <1>1. ASSUME NEW a \in 0 .. Modulus - 1, Writers(m, n, a) # {}
        PROVE  /\ Byte(m.segments[LastWriter(m, n, a)], beyond) \in Bytes
               /\ a < size * PageSize
    <2>1. LastWriter(m, n, a) \in Writers(m, n, a) /\ LastWriter(m, n, a) \in DOMAIN m.segments
      BY <1>1, WriterOf
    <2>2. LastWriter(m, n, a) \in 1 .. n /\ Covers(m.segments[LastWriter(m, n, a)], a)
      BY <2>1 DEF Writers
    <2>3. a \in Int
      BY ModulusType
    <2> QED
      BY <2>1, <2>2, <2>3, ByteType, CoveredIsOpen
  <1>2. size * PageSize \in Nat
    BY PagesInBytes, SizesAssumption
  <1>3. ASSUME NEW a \in 0 .. Modulus - 1, a >= size * PageSize
        PROVE  Writers(m, n, a) = {}
    BY <1>1, <1>2, <1>3, ModulusType
  <1> QED
    BY <1>1, <1>3 DEF Copied

-----------------------------------------------------------------------------
\* Without resets every page that is open is within the size.
AllOpen == opened = size

\* What makes the limits last: unless the driver extends it, a memory is no
\* larger than its capacity, and its capacity no larger than what the linked
\* contexts declare.
CapacityFits ==
    ~driven =>
        /\ size <= Capacity
        /\ \A c \in linked : /\ module[c].initial <= size
                             /\ module[c].limited => Capacity <= module[c].maximum

IInv == TypeOK /\ AllOpen /\ Zeroed /\ CapacityFits

\* The invariant holds of the initial states.
LEMMA InitIInv == Init => IInv
PROOF
  <1> SUFFICES ASSUME Init PROVE IInv
    OBVIOUS
  <1>1. TypeOK /\ CapacityFits
    <2>1. CASE HostMade
      <3>1. /\ owner = Host /\ limits \in [limited : BOOLEAN, maximum : 0 .. MaxPages]
            /\ limits.limited /\ limits.maximum \in 0 .. MaxPages
        BY <2>1 DEF HostMade
      <3>2. size \in 0 .. MaxPages /\ size <= Capacity
        <4>1. PICK initial \in 0 .. limits.maximum : size = initial % MaxPages
          BY <2>1 DEF HostMade
        <4>2. initial % MaxPages \in 0 .. initial
          <5>1. CASE initial = MaxPages
            BY <5>1, SizesAssumption
          <5>2. CASE initial < MaxPages
            BY <3>1, <5>2, SizesAssumption
          <5> QED
            BY <3>1, <5>1, <5>2, SizesAssumption
        <4>3. Capacity = limits.maximum
          BY <3>1 DEF Capacity
        <4> QED
          BY <3>1, <4>1, <4>2, <4>3, SizesAssumption
      <3>3. linked = {}
        BY DEF Init
      <3>4. TypeOK
        BY <2>1, <3>1, <3>2, BytesAssumption DEF Init, HostMade, TypeOK, Requests, Answers
      <3> QED
        BY <3>2, <3>3, <3>4 DEF CapacityFits
    <2>2. CASE ContextMade
      <3>1. module[owner] \in Modules /\ owner # Host
        BY <2>2, ContextsAssumption DEF Init, ContextMade
      <3>2. /\ module[owner].limited \in BOOLEAN /\ module[owner].maximum \in 0 .. MaxPages
            /\ module[owner].initial \in 0 .. MaxPages
            /\ module[owner].limited => module[owner].initial <= module[owner].maximum
        BY <3>1, ModulesAssumption DEF ModuleTypes
      <3>3. size \in 0 .. MaxPages /\ size <= Capacity
        BY <2>2, <3>2, SizesAssumption DEF ContextMade, Capacity
      <3>4. linked = {}
        BY DEF Init
      <3>5. TypeOK
        BY <2>2, <3>1, <3>2, BytesAssumption DEF Init, ContextMade, TypeOK, Requests, Answers
      <3> QED
        BY <3>3, <3>4, <3>5 DEF CapacityFits
    <2> QED
      BY <2>1, <2>2 DEF Init
  <1>2. AllOpen /\ Zeroed
    BY DEF Init, AllOpen, Zeroed
  <1> QED
    BY <1>1, <1>2 DEF IInv

\* A memory that grows within its bounds, by whoever's request, stays clear.
LEMMA Growing ==
    ASSUME IInv, NEW pages \in size .. MaxPages, Resize(pages),
           ~driven => pages <= Capacity,
           UNCHANGED <<driven, owner, limits, content, module, linked>>,
           call'.op \in Requests, call'.answer \in Answers
    PROVE  IInv'
PROOF
  <1>1. size \in 0 .. MaxPages /\ opened = size /\ pages \in Nat /\ MaxPages \in Nat
    BY SizesAssumption DEF IInv, TypeOK, AllOpen
  <1>2. size' = pages /\ opened' = pages
    BY <1>1 DEF Resize
  <1>3. TypeOK'
    BY <1>1, <1>2 DEF IInv, TypeOK
  <1>4. Zeroed'
    <2>1. size * PageSize <= pages * PageSize /\ size * PageSize \in Nat /\ pages * PageSize \in Nat
      BY <1>1, PagesInBytes
    <2>2. \A a \in 0 .. Modulus - 1 : a >= pages * PageSize => a >= size * PageSize
      BY <2>1, ModulusType
    <2> QED
      BY <1>2, <2>2 DEF IInv, Zeroed
  <1>5. CapacityFits'
    <2>1. ASSUME ~driven, NEW c \in linked PROVE module[c].initial <= pages
      <3>1. module[c].initial \in Nat
        BY ModulesAssumption DEF IInv, TypeOK, ModuleTypes
      <3> QED
        BY <1>1, <2>1, <3>1 DEF IInv, CapacityFits
    <2> QED
      BY <1>2, <2>1 DEF IInv, CapacityFits, Capacity
  <1> QED
    BY <1>2, <1>3, <1>4, <1>5 DEF IInv, AllOpen

\* A step that leaves the memory and its users as they are.
LEMMA Answering ==
    ASSUME IInv, UNCHANGED <<driven, owner, limits, memory, module>>,
           linked' \subseteq linked, call'.op \in Requests, call'.answer \in Answers
    PROVE  IInv'
BY DEF IInv, TypeOK, AllOpen, Zeroed, CapacityFits, Capacity, memory

\* The answers.
LEMMA AnswerType ==
    ASSUME NEW op \in Requests, NEW at, NEW width, NEW value, NEW answer \in Answers,
           Answer(op, at, width, value, answer)
    PROVE  call'.op \in Requests /\ call'.answer \in Answers
BY DEF Answer

\* Bytes written below the size leave the memory clear beyond it.
LEMMA Writing ==
    ASSUME IInv, UNCHANGED <<driven, owner, limits, size, opened, module>>,
           content' \in [0 .. Modulus - 1 -> Bytes],
           \A a \in 0 .. Modulus - 1 : a >= size * PageSize => content'[a] = content[a],
           linked' \in SUBSET Contexts, CapacityFits',
           call'.op \in Requests, call'.answer \in Answers
    PROVE  IInv'
BY DEF IInv, TypeOK, AllOpen, Zeroed

\* Load keeps the invariant.
LEMMA LoadStep ==
    ASSUME IInv, NEW address \in Operands, NEW offset \in Operands, NEW width \in Widths,
           Load(address, offset, width)
    PROVE  IInv'
PROOF
  <1>1. call'.op \in Requests /\ call'.answer \in Answers
    BY DEF Load, Answer, Faults, Requests, Answers
  <1> QED
    BY <1>1, Answering DEF Load, IInv, TypeOK

\* Store keeps the invariant.
LEMMA StoreStep ==
    ASSUME IInv, NEW address \in Operands, NEW offset \in Operands, NEW width \in Widths,
           NEW byte \in Bytes, Store(address, offset, width, byte)
    PROVE  IInv'
PROOF
  <1> DEFINE total == Effective(address, offset)
  <1>1. call'.op \in Requests /\ call'.answer \in Answers
    BY DEF Store, Answer, Faults, Requests, Answers
  <1>2. CASE ~Reaches(total, width)
    BY <1>1, <1>2, Answering DEF Store, IInv, TypeOK, memory
  <1>3. CASE Reaches(total, width)
    <2>1. /\ content' = [a \in 0 .. Modulus - 1 |->
                           IF a \in total .. total + width - 1 THEN byte ELSE content[a]]
          /\ UNCHANGED <<driven, owner, limits, size, opened, module, linked>>
      BY <1>3 DEF Store
    <2>2. total \in Nat /\ width \in Nat /\ total + width <= size * PageSize
      <3>1. total \in Nat /\ width \in Nat
        BY OperandsAssumption, ModulusType DEF Effective
      <3>2. Index(total) = total
        BY <1>3, <3>1, ModulusType DEF Reaches, Index
      <3> QED
        BY <1>3, <3>1, <3>2 DEF Reaches, IInv, AllOpen
    <2>3. content' \in [0 .. Modulus - 1 -> Bytes]
      BY <2>1 DEF IInv, TypeOK
    <2>4. \A a \in 0 .. Modulus - 1 : a >= size * PageSize => content'[a] = content[a]
      <3>1. size * PageSize \in Nat
        BY PagesInBytes, SizesAssumption DEF IInv, TypeOK
      <3> HIDE DEF total
      <3> QED
        BY <2>1, <2>2, <3>1, ModulusType
    <2>5. linked' \in SUBSET Contexts /\ CapacityFits'
      BY <2>1 DEF IInv, TypeOK, CapacityFits, Capacity
    <2> QED
      BY <1>1, <2>1, <2>3, <2>4, <2>5, Writing
  <1> QED
    BY <1>2, <1>3

\* Grow keeps the invariant.
LEMMA GrowStep ==
    ASSUME IInv, NEW delta \in 0 .. MaxPages, Grow(delta)
    PROVE  IInv'
PROOF
  <1>1. call'.op \in Requests /\ call'.answer \in Answers
    BY DEF Grow, Answer, Requests, Answers
  <1>2. UNCHANGED <<driven, owner, limits, content, module, linked>>
    BY DEF Grow
  <1>3. CASE UNCHANGED <<size, opened>>
    BY <1>1, <1>2, <1>3, Answering DEF IInv, TypeOK, memory
  <1>4. CASE ~OverLimit(size + delta) /\ Resize(size + delta)
    <2>1. size + delta \in size .. MaxPages
      BY <1>4, SizesAssumption DEF OverLimit, IInv, TypeOK
    <2>2. size + delta <= Capacity
      BY <1>4, <2>1, SizesAssumption DEF OverLimit, Capacity, IInv, TypeOK
    <2> QED
      BY <1>1, <1>2, <1>4, <2>1, <2>2, Growing
  <1> QED
    BY <1>3, <1>4 DEF Grow

\* brk is the driver's, whose limits are not part of the invariant.
LEMMA BrkStep ==
    ASSUME IInv, NEW to \in 0 .. Modulus - 1, Brk(to)
    PROVE  IInv'
PROOF
  <1> DEFINE heap == size * PageSize
             pages == size + (to - heap) \div PageSize
  <1>1. call'.op \in Requests /\ call'.answer \in Answers
    BY DEF Brk, Answer, Requests, Answers
  <1>2. UNCHANGED <<driven, owner, limits, content, module, linked>>
    BY DEF Brk
  <1>3. driven
    BY DEF Brk
  <1>4. CASE UNCHANGED <<size, opened>>
    BY <1>1, <1>2, <1>4, Answering DEF IInv, TypeOK, memory
  <1>5. CASE to > heap /\ Resize(pages)
    <2>1. pages \in size .. MaxPages
      <3>1. size \in Nat /\ MaxPages \in Nat /\ heap \in Nat /\ PageSize \in Nat \ {0} /\ to \in Nat
        BY PagesInBytes, SizesAssumption, ModulusType DEF IInv, TypeOK
      <3> DEFINE n == (to - heap) \div PageSize
      <3>2. n \in Nat /\ n * PageSize <= to - heap
        BY <1>5, <3>1
      <3>3. (size + n) * PageSize <= to
        <4> HIDE DEF n
        <4> QED
          BY <3>1, <3>2
      <3>4. to < MaxPages * PageSize
        BY <3>1 DEF Modulus
      <3>5. ~ (MaxPages <= size + n)
        <4> HIDE DEF n
        <4>1. size + n \in Nat /\ (size + n) * PageSize \in Nat /\ MaxPages * PageSize \in Nat
          BY <3>1, <3>2
        <4>2. ~ (MaxPages * PageSize <= (size + n) * PageSize)
          BY <3>1, <3>3, <3>4, <4>1
        <4> QED
          BY <3>1, <4>1, <4>2, PagesInBytes
      <3> QED
        BY <3>1, <3>2, <3>5
    <2> HIDE DEF pages
    <2> QED
      BY <1>1, <1>2, <1>3, <1>5, <2>1, Growing
  <1> QED
    BY <1>4, <1>5 DEF Brk

\* Link keeps the invariant.
LEMMA LinkStep ==
    ASSUME IInv, NEW c \in Contexts, Link(c)
    PROVE  IInv'
PROOF
  <1> DEFINE m == module[c]
  <1>1. call'.op \in Requests /\ call'.answer \in Answers
    BY DEF Link, Answer, Requests, Answers
  <1>2. UNCHANGED <<driven, owner, limits, size, opened, module>> /\ linked' = linked \cup {c}
    BY DEF Link
  <1>3. m \in Modules /\ size \in 0 .. MaxPages /\ opened = size /\ content \in [0 .. Modulus - 1 -> Bytes]
    BY DEF IInv, TypeOK, AllOpen
  <1>4. PICK beyond \in Bytes : content' = Copied(m, Len(m.segments), beyond)
    BY DEF Link
  <1>5. /\ content' \in [0 .. Modulus - 1 -> Bytes]
        /\ \A a \in 0 .. Modulus - 1 : a >= size * PageSize => content'[a] = content[a]
    <2>1. \A i \in 1 .. Len(m.segments) : ~Overruns(m.segments[i])
      BY <1>3, SegmentCount DEF Link
    <2>2. Len(m.segments) \in 0 .. Len(m.segments)
      BY <1>3, SegmentCount
    <2> HIDE DEF m
    <2> QED
      BY <1>3, <1>4, <2>1, <2>2, CopiedBytes
  <1>6. linked' \in SUBSET Contexts
    BY <1>2 DEF IInv, TypeOK
  <1>7. CapacityFits'
    <2> SUFFICES ASSUME ~driven, NEW d \in linked'
                 PROVE  /\ module[d].initial <= size
                        /\ module[d].limited => Capacity <= module[d].maximum
      BY <1>2 DEF CapacityFits, Capacity, IInv
    <2>1. CASE d \in linked
      BY <2>1 DEF IInv, CapacityFits
    <2>2. CASE d = c
      <3>1. m.initial <= size /\ (m.limited => m.maximum >= Capacity)
        BY DEF Link, Accepted, LimitsFit
      <3>2. m.maximum \in Nat /\ Capacity \in Nat
        BY <1>3, ModulesAssumption, SizesAssumption DEF ModuleTypes, IInv, TypeOK, Capacity
      <3> QED
        BY <2>2, <3>1, <3>2
    <2> QED
      BY <1>2, <2>1, <2>2
  <1> QED
    BY <1>1, <1>2, <1>5, <1>6, <1>7, Writing

\* Refuse keeps the invariant.
LEMMA RefuseStep ==
    ASSUME IInv, NEW c \in Contexts, Refuse(c)
    PROVE  IInv'
PROOF
  <1>1. call'.op \in Requests /\ call'.answer \in Answers
    BY DEF Refuse, Answer, Requests, Answers
  <1> QED
    BY <1>1, Answering DEF Refuse, IInv, TypeOK

\* Fault keeps the invariant: what an overrunning segment leaves behind lies in
\* open pages.
LEMMA FaultStep ==
    ASSUME IInv, NEW c \in Contexts, Fault(c)
    PROVE  IInv'
PROOF
  <1> DEFINE m == module[c]
             before(n, beyond) == Copied(m, n, beyond)
  <1>1. m \in Modules /\ size \in 0 .. MaxPages /\ opened = size /\ content \in [0 .. Modulus - 1 -> Bytes]
    BY DEF IInv, TypeOK, AllOpen
  <1>2. PICK f \in DOMAIN m.segments, beyond \in Bytes :
          /\ \A i \in 1 .. f - 1 : ~Overruns(m.segments[i])
          /\ \/ UNCHANGED content
             \/ \E part \in SUBSET {a \in 0 .. opened * PageSize - 1 : Covers(m.segments[f], a)} :
                  content' = [a \in 0 .. Modulus - 1 |->
                                IF a \in part THEN Byte(m.segments[f], beyond)
                                ELSE before(f - 1, beyond)[a]]
          /\ \E answer \in {"trap", "outside"} : Answer("link", 0, 0, <<>>, answer)
    BY DEF Fault
  <1>3. UNCHANGED <<driven, owner, limits, size, opened, module, linked>>
    BY DEF Fault
  <1>4. call'.op \in Requests /\ call'.answer \in Answers
    BY <1>2 DEF Answer, Requests, Answers
  <1>5. CASE UNCHANGED content
    BY <1>3, <1>4, <1>5, Answering DEF IInv, TypeOK, memory
  <1>6. CASE \E part \in SUBSET {a \in 0 .. opened * PageSize - 1 : Covers(m.segments[f], a)} :
               content' = [a \in 0 .. Modulus - 1 |->
                             IF a \in part THEN Byte(m.segments[f], beyond)
                             ELSE before(f - 1, beyond)[a]]
    <2>1. PICK part \in SUBSET (0 .. size * PageSize - 1) :
            content' = [a \in 0 .. Modulus - 1 |->
                          IF a \in part THEN Byte(m.segments[f], beyond)
                          ELSE before(f - 1, beyond)[a]]
      BY <1>1, <1>6
    <2>2. f - 1 \in 0 .. Len(m.segments)
      BY <1>1, SegmentCount
    <2>3. /\ before(f - 1, beyond) \in [0 .. Modulus - 1 -> Bytes]
          /\ \A a \in 0 .. Modulus - 1 :
               a >= size * PageSize => before(f - 1, beyond)[a] = content[a]
      <3> HIDE DEF m
      <3> QED
        BY <1>1, <1>2, <2>2, CopiedBytes
    <2>4. Byte(m.segments[f], beyond) \in Bytes
      BY <1>1, ByteType
    <2> HIDE DEF m, before
    <2>5. content' \in [0 .. Modulus - 1 -> Bytes]
      BY <2>1, <2>3, <2>4
    <2>6. \A a \in 0 .. Modulus - 1 : a >= size * PageSize => content'[a] = content[a]
      <3>1. size * PageSize \in Nat
        BY <1>1, PagesInBytes, SizesAssumption
      <3>2. \A a \in 0 .. Modulus - 1 : a >= size * PageSize => a \notin part
        BY <2>1, <3>1, ModulusType
      <3> QED
        BY <2>1, <2>3, <3>2
    <2>7. linked' \in SUBSET Contexts /\ CapacityFits'
      BY <1>3 DEF IInv, TypeOK, CapacityFits, Capacity
    <2> QED
      BY <1>3, <1>4, <2>5, <2>6, <2>7, Writing
  <1> QED
    BY <1>2, <1>5, <1>6

\* Unlink keeps the invariant.
LEMMA UnlinkStep ==
    ASSUME IInv, NEW c \in Contexts, Unlink(c)
    PROVE  IInv'
BY Answering DEF Unlink, IInv, TypeOK

\* The inductive invariant holds in every reachable state.
THEOREM Invariance == Spec => []IInv
PROOF
  <1>1. IInv /\ [Next]_vars => IInv'
    <2> SUFFICES ASSUME IInv, [Next]_vars PROVE IInv'
      OBVIOUS
    <2>1. CASE Next
      <3>1. CASE \E address, offset \in Operands, width \in Widths :
                   \/ Load(address, offset, width)
                   \/ \E byte \in Bytes : Store(address, offset, width, byte)
        BY <3>1, LoadStep, StoreStep
      <3>2. CASE \E delta \in 0 .. MaxPages : Grow(delta)
        BY <3>2, GrowStep
      <3>3. CASE \E to \in 0 .. Modulus - 1 : Brk(to)
        BY <3>3, BrkStep
      <3>4. CASE \E c \in Contexts : Link(c) \/ Refuse(c) \/ Fault(c) \/ Unlink(c)
        BY <3>4, LinkStep, RefuseStep, FaultStep, UnlinkStep
      <3> QED
        BY <2>1, <3>1, <3>2, <3>3, <3>4 DEF Next
    <2>2. CASE UNCHANGED vars
      BY <2>2 DEF vars, IInv, TypeOK, AllOpen, Zeroed, CapacityFits, Capacity, memory
    <2> QED
      BY <2>1, <2>2
  <1> QED
    BY <1>1, InitIInv, PTL DEF Spec

\* Every variable of the memory keeps its type: it never outgrows its mapping.
THEOREM Typed == Spec => []TypeOK
PROOF
  <1>1. IInv => TypeOK
    BY DEF IInv
  <1> QED
    BY <1>1, Invariance, PTL

\* A page that is added is clear.
THEOREM BeyondIsZero == Spec => []Zeroed
PROOF
  <1>1. IInv => Zeroed
    BY DEF IInv
  <1> QED
    BY <1>1, Invariance, PTL

\* Unless brk extends it, a memory stays within the limits of every context
\* linked to it.
THEOREM LimitsLast == Spec => []LinkedLimits
PROOF
  <1>1. IInv => LinkedLimits
    <2> SUFFICES ASSUME IInv, ~driven, NEW c \in linked
                 PROVE  /\ module[c].initial <= size
                        /\ module[c].limited => size <= module[c].maximum
      BY DEF LinkedLimits
    <2>1. module[c] \in ModuleTypes
      BY ModulesAssumption DEF IInv, TypeOK
    <2>2. module[c].maximum \in Nat /\ Capacity \in Nat /\ size \in Nat
      BY <2>1, SizesAssumption DEF ModuleTypes, IInv, TypeOK, Capacity
    <2> QED
      BY <2>2 DEF IInv, CapacityFits
  <1> QED
    BY <1>1, Invariance, PTL

-----------------------------------------------------------------------------
(* The memory keeps the promise of WasmMemory.                             *)

shown == [a \in 0 .. size * PageSize - 1 |-> content[a]]

\* The initial states are initial states of the promise.
LEMMA InitPromise == Init => Memory!Init
PROOF
  <1> SUFFICES ASSUME Init PROVE Memory!Init
    OBVIOUS
  <1>1. size \in 0 .. MaxPages
    BY InitIInv DEF IInv, TypeOK
  <1>2. \A a \in 0 .. size * PageSize - 1 : a \in 0 .. Modulus - 1
    BY <1>1, PagesInBytes, SizesAssumption DEF Modulus
  <1>3. shown = [a \in 0 .. size * PageSize - 1 |-> 0]
    BY <1>2 DEF shown, Init
  <1> QED
    BY <1>1, <1>3 DEF Init, shown, Memory!Init, Memory!Addresses

\* The effective addresses, the size in bytes, and which access is served.
LEMMA Served ==
    ASSUME IInv, NEW at \in Nat, NEW width \in Nat \ {0}
    PROVE  /\ size * PageSize \in Nat /\ size * PageSize <= Modulus
           /\ Reaches(at, width) => at + width <= size * PageSize
           /\ ~Reaches(at, width) /\ Faults(at) = {"trap"} => ~ (at + width <= size * PageSize)
           /\ Faults(at) # {"trap"} => at >= Modulus \div 2
           /\ Faults(at) \subseteq {"trap", "outside"}
PROOF
  <1>1. size * PageSize \in Nat /\ size * PageSize <= Modulus
    BY PagesInBytes, SizesAssumption DEF IInv, TypeOK, Modulus
  <1>2. opened = size
    BY DEF IInv, AllOpen
  <1>3. Reaches(at, width) => at + width <= size * PageSize
    BY <1>1, <1>2, ModulusType DEF Reaches, Index
  <1>4. ASSUME ~Reaches(at, width), Faults(at) = {"trap"}
        PROVE  ~ (at + width <= size * PageSize)
    <2>1. at >= Modulus \/ Index(at) >= 0
      <3> SUFFICES ASSUME at < Modulus, ~ (Index(at) >= 0) PROVE FALSE
        BY ModulusType
      <3>1. Index(at) < 0
        BY ModulusType DEF Index
      <3>2. Faults(at) = {"trap", "outside"}
        BY <3>1 DEF Faults
      <3>3. "outside" \notin {"trap"}
        OBVIOUS
      <3> QED
        BY <1>4, <3>2, <3>3
    <2>2. CASE at >= Modulus
      BY <1>1, <2>2, ModulusType
    <2>3. CASE at < Modulus /\ Index(at) >= 0
      <3>1. Index(at) = at
        BY <2>3, ModulusType DEF Index
      <3> QED
        BY <1>1, <1>2, <1>4, <2>3, <3>1 DEF Reaches
    <2> QED
      BY <2>1, <2>2, <2>3, ModulusType
  <1>5. Faults(at) # {"trap"} => at >= Modulus \div 2
    BY ModulusType DEF Faults, Index
  <1>6. Faults(at) \subseteq {"trap", "outside"}
    BY DEF Faults
  <1> QED
    BY <1>1, <1>3, <1>4, <1>5, <1>6

\* Load implements the promise.
LEMMA LoadPromise ==
    ASSUME IInv, NEW address \in Operands, NEW offset \in Operands, NEW width \in Widths,
           NEW position, position = address + offset, Load(address, offset, width)
    PROVE  Memory!Load(position, width)
PROOF
  <1> DEFINE at == address + offset
  <1>1. at \in Nat /\ width \in Nat \ {0}
    BY OperandsAssumption, ModulusType
  <1>2. UNCHANGED <<size, shown>>
    BY DEF Load, memory, shown
  <1>3. CASE Reaches(at, width)
    <2>1. Answer("load", at, width, [k \in 1 .. width |-> content[at + k - 1]], "done")
      BY <1>3 DEF Load, Effective
    <2>2. at + width <= size * PageSize /\ size * PageSize \in Nat
      BY <1>1, <1>3, Served
    <2>3. [k \in 1 .. width |-> content[at + k - 1]] = [k \in 1 .. width |-> shown[at + k - 1]]
      <3> SUFFICES ASSUME NEW k \in 1 .. width PROVE content[at + k - 1] = shown[at + k - 1]
        OBVIOUS
      <3>1. at + k - 1 \in 0 .. size * PageSize - 1
        <4> HIDE DEF at
        <4> QED
          BY <1>1, <2>2
      <3> QED
        BY <3>1 DEF shown
    <2>4. Answer("load", position, width, [k \in 1 .. width |-> shown[position + k - 1]], "done")
      BY <2>1, <2>3
    <2>5. position + width <= size * PageSize
      BY <2>2
    <2> HIDE DEF at
    <2> QED
      BY <1>2, <2>4, <2>5 DEF Memory!Load, Memory!Within, Memory!Answer, Answer, shown
  <1>4. CASE ~Reaches(at, width)
    <2>1. PICK answer \in Faults(at) : Answer("load", at, width, <<>>, answer)
      BY <1>4 DEF Load, Effective
    <2>2. CASE Faults(at) = {"trap"}
      <3>1. ~ (at + width <= size * PageSize) /\ answer = "trap"
        BY <1>1, <1>4, <2>1, <2>2, Served
      <3> QED
        BY <1>2, <2>1, <3>1 DEF Memory!Load, Memory!Within, Memory!Answer, Answer, shown
    <2>3. CASE Faults(at) # {"trap"}
      <3>1. at >= Modulus \div 2 /\ answer \in {"trap", "outside"}
        BY <1>1, <2>1, <2>3, Served
      <3> QED
        BY <1>2, <2>1, <3>1 DEF Memory!Load, Memory!Reach, Memory!Answer, Answer, shown, Modulus
    <2> QED
      BY <2>2, <2>3
  <1> QED
    BY <1>3, <1>4

\* Store implements the promise.
LEMMA StorePromise ==
    ASSUME IInv, NEW address \in Operands, NEW offset \in Operands, NEW width \in Widths,
           NEW byte \in Bytes,
           NEW position, position = address + offset, Store(address, offset, width, byte)
    PROVE  Memory!Store(position, width, byte)
PROOF
  <1> DEFINE at == address + offset
  <1>1. at \in Nat /\ width \in Nat \ {0}
    BY OperandsAssumption, ModulusType
  <1>2. size' = size /\ size * PageSize \in Nat /\ size * PageSize <= Modulus
    BY <1>1, Served DEF Store
  <1>3. CASE Reaches(at, width)
    <2>1. Answer("store", at, width, <<byte>>, "done") /\ at + width <= size * PageSize
      BY <1>1, <1>3, Served DEF Store, Effective
    <2>2. content' = [a \in 0 .. Modulus - 1 |->
                        IF a \in at .. at + width - 1 THEN byte ELSE content[a]]
      BY <1>3 DEF Store, Effective
    <2>3. shown' = [a \in DOMAIN shown |-> IF a \in at .. at + width - 1 THEN byte ELSE shown[a]]
      <3>1. \A a \in 0 .. size * PageSize - 1 : a \in 0 .. Modulus - 1
        BY <1>2, ModulusType
      <3> HIDE DEF at
      <3> QED
        BY <1>2, <2>2, <3>1 DEF shown
    <2> QED
      BY <1>2, <2>1, <2>3 DEF Memory!Store, Memory!Within, Memory!Answer, Answer, shown
  <1>4. CASE ~Reaches(at, width)
    <2>1. PICK answer \in Faults(at) : Answer("store", at, width, <<byte>>, answer)
      BY <1>4 DEF Store, Effective
    <2>2. UNCHANGED <<size, shown>>
      BY <1>2, <1>4 DEF Store, Effective, shown
    <2>3. CASE Faults(at) = {"trap"}
      <3>1. ~ (at + width <= size * PageSize) /\ answer = "trap"
        BY <1>1, <1>4, <2>1, <2>3, Served
      <3> QED
        BY <2>1, <2>2, <3>1 DEF Memory!Store, Memory!Within, Memory!Answer, Answer, shown
    <2>4. CASE Faults(at) # {"trap"}
      <3>1. at >= Modulus \div 2 /\ answer \in {"trap", "outside"}
        BY <1>1, <2>1, <2>4, Served
      <3> QED
        BY <2>1, <2>2, <3>1 DEF Memory!Store, Memory!Reach, Memory!Answer, Answer, shown, Modulus
    <2> QED
      BY <2>3, <2>4
  <1> QED
    BY <1>3, <1>4

\* Pages that are added show zeros.
LEMMA ResizePromise ==
    ASSUME IInv, NEW n \in Nat, size + n <= MaxPages, Resize(size + n), UNCHANGED content
    PROVE  Memory!Extend(n)
PROOF
  <1>1. size' = size + n
    BY DEF Resize
  <1>2. /\ size * PageSize \in Nat /\ (size + n) * PageSize \in Nat
        /\ size * PageSize <= (size + n) * PageSize /\ (size + n) * PageSize <= Modulus
    BY PagesInBytes, SizesAssumption DEF IInv, TypeOK, Modulus
  <1>3. ASSUME NEW a \in 0 .. (size + n) * PageSize - 1
        PROVE  content[a] = IF a \in 0 .. size * PageSize - 1 THEN shown[a] ELSE 0
    <2>1. a \in 0 .. Modulus - 1
      BY <1>2, ModulusType
    <2>2. CASE a \in 0 .. size * PageSize - 1
      BY <2>2 DEF shown
    <2>3. CASE a \notin 0 .. size * PageSize - 1
      <3>1. a >= size * PageSize
        BY <1>2, <2>3
      <3> QED
        BY <2>1, <2>3, <3>1 DEF IInv, Zeroed
    <2> QED
      BY <2>2, <2>3
  <1>4. shown' = [a \in 0 .. (size + n) * PageSize - 1 |->
                    IF a \in 0 .. size * PageSize - 1 THEN shown[a] ELSE 0]
    BY <1>1, <1>3 DEF shown
  <1> QED
    BY <1>1, <1>4 DEF Memory!Extend, Memory!Addresses, shown

\* Grow implements the promise.
LEMMA GrowPromise ==
    ASSUME IInv, NEW delta \in 0 .. MaxPages, Grow(delta)
    PROVE  Memory!Grow(delta)
PROOF
  <1>1. size \in Nat /\ delta \in Nat /\ MaxPages \in Nat
    BY SizesAssumption DEF IInv, TypeOK
  <1>2. CASE ~OverLimit(size + delta) /\ Answer("grow", delta, 0, <<size>>, "done")
             /\ IF delta > 0 THEN Resize(size + delta) ELSE UNCHANGED <<size, opened>>
    <2>1. size + delta <= MaxPages
      BY <1>1, <1>2 DEF OverLimit
    <2>2. Resize(size + delta)
      BY <1>1, <1>2 DEF Resize, IInv, AllOpen
    <2>3. Memory!Extend(delta)
      BY <1>1, <2>1, <2>2, ResizePromise DEF Grow
    <2> QED
      BY <1>2, <2>1, <2>3 DEF Memory!Grow, Memory!Answer, Answer
  <1>3. CASE /\ \E answer \in {"refused", "failed"} : Answer("grow", delta, 0, <<>>, answer)
             /\ UNCHANGED <<size, opened>>
    BY <1>3 DEF Grow, Memory!Grow, Memory!Answer, Answer
  <1> QED
    BY <1>2, <1>3 DEF Grow

\* Brk implements the promise.
LEMMA BrkPromise ==
    ASSUME IInv, NEW to \in 0 .. Modulus - 1, Brk(to)
    PROVE  Memory!Brk(to)
PROOF
  <1> DEFINE heap == size * PageSize
             n == (to - heap) \div PageSize
  <1>1. size \in Nat /\ MaxPages \in Nat /\ heap \in Nat /\ PageSize \in Nat \ {0} /\ to \in Nat
    BY PagesInBytes, SizesAssumption, ModulusType DEF IInv, TypeOK
  <1>2. size <= MaxPages
    BY DEF IInv, TypeOK
  <1>3. CASE to > heap /\ Resize(size + n) /\ Answer("brk", to, 0, <<(size + n) * PageSize>>, "done")
    <2>1. PICK k \in Nat : k = n
      BY <1>1, <1>3
    <2>2. IInv'
      BY BrkStep
    <2>3. Resize(size + k) /\ Answer("brk", to, 0, <<(size + k) * PageSize>>, "done")
      BY <1>3, <2>1
    <2>4. size + k <= MaxPages
      BY <2>2, <2>3 DEF Resize, IInv, TypeOK
    <2>5. UNCHANGED content
      BY DEF Brk
    <2>6. Memory!Extend(k)
      BY <2>1, <2>3, <2>4, <2>5, ResizePromise
    <2>7. k \in 0 .. MaxPages - size
      BY <1>1, <2>1, <2>4
    <2>8. Memory!Answer("brk", to, 0, <<(size + k) * PageSize>>, "done")
      BY <2>3 DEF Memory!Answer, Answer
    <2> QED
      BY <2>6, <2>7, <2>8 DEF Memory!Brk
  <1>4. CASE Answer("brk", to, 0, <<>>, "failed") /\ UNCHANGED <<size, opened>>
    BY <1>4 DEF Brk, Memory!Brk, Memory!Answer, Answer
  <1>5. CASE Answer("brk", to, 0, <<heap>>, "done") /\ UNCHANGED <<size, opened>>
    <2>1. Resize(size + 0)
      BY <1>1, <1>5 DEF Resize, IInv, AllOpen
    <2>2. Memory!Extend(0)
      BY <1>1, <1>2, <2>1, ResizePromise DEF Brk
    <2>3. 0 \in 0 .. MaxPages - size /\ (size + 0) * PageSize = heap
      BY <1>1, <1>2
    <2> HIDE DEF heap
    <2> QED
      BY <1>5, <2>2, <2>3 DEF Memory!Brk, Memory!Answer, Answer
  <1> QED
    BY <1>3, <1>4, <1>5 DEF Brk

\* A byte of the segments of a module is one of its image.
LEMMA Imaged ==
    ASSUME NEW m \in Modules, NEW image, image = m.segments, NEW a, NEW beyond
    PROVE  /\ Writers(m, Len(m.segments), a) = Memory!Over(image, a)
           /\ \A n \in 0 .. Len(m.segments) : Writers(m, n, a) \subseteq Memory!Over(image, a)
           /\ \A i \in DOMAIN image : Byte(m.segments[i], beyond) = Memory!Shown(image[i], beyond)
BY SegmentCount DEF Writers, Covers, Byte, Memory!Over, Memory!Shown

\* Addresses of the pages are addresses of the mapping.
LEMMA PagesMapped ==
    ASSUME size \in 0 .. MaxPages, NEW a \in 0 .. size * PageSize - 1
    PROVE  a \in 0 .. Modulus - 1 /\ shown[a] = content[a]
BY PagesInBytes, SizesAssumption DEF Modulus, shown

\* Link implements the promise.
LEMMA LinkPromise ==
    ASSUME IInv, NEW c \in Contexts, NEW image, image = module[c].segments, Link(c)
    PROVE  Memory!Initialise(image)
PROOF
  <1> DEFINE m == module[c]
             over(a) == Memory!Over(image, a)
  <1>1. m \in Modules /\ size \in 0 .. MaxPages /\ opened = size
    BY DEF IInv, TypeOK, AllOpen
  <1>2. size' = size /\ Answer("link", 0, 0, <<>>, "done")
    BY DEF Link
  <1>3. Memory!Fits(image)
    <2>1. \A i \in DOMAIN m.segments : SegmentFits(m.segments[i]) /\ ~Overruns(m.segments[i])
      BY DEF Link, Accepted
    <2>2. image = m.segments
      OBVIOUS
    <2> HIDE DEF m
    <2> QED
      BY <1>1, <2>1, <2>2, CheckedSegments DEF Memory!Fits, Memory!Within, Memory!Reach, Modulus
  <1>4. PICK beyond \in Bytes : content' = Copied(m, Len(m.segments), beyond)
    BY DEF Link
  <1>5. ASSUME NEW a \in 0 .. size * PageSize - 1
        PROVE  content'[a] = IF over(a) = {} THEN shown[a]
                             ELSE Memory!Shown(image[CHOOSE i \in over(a) : \A j \in over(a) : j <= i], beyond)
    <2>1. a \in 0 .. Modulus - 1 /\ shown[a] = content[a]
      BY <1>1, PagesMapped
    <2>2. over(a) = Writers(m, Len(m.segments), a) /\ image = m.segments
      BY <1>1, Imaged
    <2>3. LastWriter(m, Len(m.segments), a) = CHOOSE i \in over(a) : \A j \in over(a) : j <= i
      BY <2>2 DEF LastWriter
    <2>4. Byte(m.segments[LastWriter(m, Len(m.segments), a)], beyond)
            = Memory!Shown(image[LastWriter(m, Len(m.segments), a)], beyond)
      BY <2>2 DEF Byte, Memory!Shown
    <2> HIDE DEF m, over
    <2> QED
      BY <1>4, <2>1, <2>2, <2>3, <2>4 DEF Copied
  <1>6. shown' = [a \in DOMAIN shown |->
                    IF over(a) = {} THEN shown[a]
                    ELSE Memory!Shown(image[CHOOSE i \in over(a) : \A j \in over(a) : j <= i], beyond)]
    <2>1. DOMAIN shown = 0 .. size * PageSize - 1
      BY DEF shown
    <2>2. shown' = [a \in 0 .. size * PageSize - 1 |-> content'[a]]
      BY <1>2 DEF shown
    <2> HIDE DEF over, m
    <2> QED
      BY <1>5, <2>1, <2>2
  <1> HIDE DEF m
  <1> QED
    BY <1>2, <1>3, <1>6 DEF Memory!Initialise, Memory!Answer, Answer, shown

\* Refuse implements the promise.
LEMMA RefusePromise ==
    ASSUME IInv, NEW c \in Contexts, NEW image, Refuse(c)
    PROVE  Memory!Initialise(image)
BY DEF Refuse, memory, Memory!Initialise, Memory!Answer, Answer

\* Fault implements the promise.
LEMMA FaultPromise ==
    ASSUME IInv, NEW c \in Contexts, NEW image, image = module[c].segments, Fault(c)
    PROVE  Memory!Initialise(image)
PROOF
  <1> DEFINE m == module[c]
             covered(f) == {a \in 0 .. opened * PageSize - 1 : Covers(m.segments[f], a)}
  <1>1. /\ m \in Modules /\ size \in 0 .. MaxPages /\ opened = size
        /\ content \in [0 .. Modulus - 1 -> Bytes]
    BY DEF IInv, TypeOK, AllOpen
  <1>2. PICK f \in DOMAIN m.segments, beyond \in Bytes :
          /\ Overruns(m.segments[f]) \/ ~m.segments[f].held
          /\ \/ UNCHANGED content
             \/ \E part \in SUBSET covered(f) :
                  content' = [a \in 0 .. Modulus - 1 |->
                                IF a \in part THEN Byte(m.segments[f], beyond)
                                ELSE Copied(m, f - 1, beyond)[a]]
          /\ \/ Answer("link", 0, 0, <<>>, "trap")
             \/ Overruns(m.segments[f]) /\ opened = MaxPages
    BY DEF Fault
  <1>3. size' = size /\ \A i \in DOMAIN m.segments : SegmentFits(m.segments[i])
    BY DEF Fault, Accepted
  <1>4. Memory!MayStop(image)
    <2>1. image = m.segments
      OBVIOUS
    <2>2. ~m.segments[f].held \/ m.segments[f].offset + m.segments[f].size >= Modulus
      <3> HIDE DEF m
      <3> QED
        BY <1>1, <1>2, <1>3, CheckedSegments
    <2> HIDE DEF m
    <2> QED
      BY <2>1, <2>2 DEF Memory!MayStop, Modulus
  <1>5. Answer("link", 0, 0, <<>>, "trap")
    <2> HIDE DEF m
    <2> QED
      BY <1>1, <1>2, <1>3, CheckedSegments
  <1>6. DOMAIN shown = 0 .. size * PageSize - 1 /\ shown' = [a \in 0 .. size * PageSize - 1 |-> content'[a]]
    BY <1>3 DEF shown
  <1>7. ASSUME NEW a \in 0 .. size * PageSize - 1
        PROVE  content'[a] \in {shown[a]} \cup {Memory!Shown(image[i], beyond) : i \in Memory!Over(image, a)}
    <2>1. a \in 0 .. Modulus - 1 /\ shown[a] = content[a]
      BY <1>1, PagesMapped
    <2>2. image = m.segments /\ Memory!Over(image, a) \subseteq DOMAIN image
      BY DEF Memory!Over
    <2>3. \A i \in DOMAIN image : Byte(m.segments[i], beyond) = Memory!Shown(image[i], beyond)
      BY <1>1, Imaged
    <2>4. f - 1 \in 0 .. Len(m.segments)
      BY <1>1, SegmentCount
    <2>5. Copied(m, f - 1, beyond)[a] \in
            {shown[a]} \cup {Memory!Shown(image[i], beyond) : i \in Memory!Over(image, a)}
      <3>1. CASE Writers(m, f - 1, a) = {}
        BY <2>1, <3>1 DEF Copied
      <3>2. CASE Writers(m, f - 1, a) # {}
        <4>1. /\ LastWriter(m, f - 1, a) \in DOMAIN image
              /\ LastWriter(m, f - 1, a) \in Memory!Over(image, a)
          BY <1>1, <2>2, <2>4, <3>2, WriterOf, Imaged
        <4>2. Copied(m, f - 1, beyond)[a] = Byte(m.segments[LastWriter(m, f - 1, a)], beyond)
          BY <2>1, <3>2 DEF Copied
        <4> HIDE DEF m
        <4> QED
          BY <2>3, <4>1, <4>2
      <3> QED
        BY <3>1, <3>2
    <2>6. CASE UNCHANGED content
      BY <2>1, <2>6
    <2>7. CASE \E part \in SUBSET covered(f) :
                 content' = [x \in 0 .. Modulus - 1 |->
                               IF x \in part THEN Byte(m.segments[f], beyond)
                               ELSE Copied(m, f - 1, beyond)[x]]
      <3>1. PICK part \in SUBSET covered(f) :
              content' = [x \in 0 .. Modulus - 1 |->
                            IF x \in part THEN Byte(m.segments[f], beyond)
                            ELSE Copied(m, f - 1, beyond)[x]]
        BY <2>7
      <3>2. CASE a \in part
        <4>1. Covers(m.segments[f], a)
          BY <3>1, <3>2
        <4>2. f \in Memory!Over(image, a) /\ f \in DOMAIN image
          BY <2>2, <4>1 DEF Covers, Memory!Over
        <4>3. content'[a] = Byte(m.segments[f], beyond)
          BY <2>1, <3>1, <3>2
        <4> HIDE DEF m
        <4> QED
          BY <2>3, <4>2, <4>3
      <3>3. CASE a \notin part
        <4>1. content'[a] = Copied(m, f - 1, beyond)[a]
          BY <2>1, <3>1, <3>3
        <4> QED
          BY <2>5, <4>1
      <3> QED
        BY <3>2, <3>3
    <2> QED
      BY <1>2, <2>6, <2>7
  <1> HIDE DEF m, covered
  <1> QED
    BY <1>3, <1>4, <1>5, <1>6, <1>7 DEF Memory!Initialise, Memory!Answer, Answer, shown

\* Every step of the memory is one of the promise, or changes nothing it shows.
LEMMA StepPromise ==
    ASSUME IInv, [Next]_vars
    PROVE  [Memory!Next]_<<size, shown, call>>
PROOF
  <1>1. ASSUME NEW address \in Operands, NEW offset \in Operands
        PROVE  address + offset \in {x + y : x, y \in Operands}
    OBVIOUS
  <1>2. CASE \E address, offset \in Operands, width \in Widths :
               \/ Load(address, offset, width)
               \/ \E byte \in Bytes : Store(address, offset, width, byte)
    <2>1. PICK address \in Operands, offset \in Operands, width \in Widths :
            \/ Load(address, offset, width)
            \/ \E byte \in Bytes : Store(address, offset, width, byte)
      BY <1>2
    <2>2. PICK at \in {x + y : x, y \in Operands} : at = address + offset
      BY <1>1
    <2>3. Memory!Load(at, width) \/ \E byte \in Bytes : Memory!Store(at, width, byte)
      BY <2>1, <2>2, LoadPromise, StorePromise
    <2> QED
      BY <2>3 DEF Memory!Next
  <1>3. CASE \E delta \in 0 .. MaxPages : Grow(delta)
    BY <1>3, GrowPromise DEF Memory!Next
  <1>4. CASE \E to \in 0 .. Modulus - 1 : Brk(to)
    BY <1>4, BrkPromise DEF Memory!Next, Modulus
  <1>5. CASE \E c \in Contexts : Link(c) \/ Refuse(c) \/ Fault(c)
    <2>1. PICK c \in Contexts : Link(c) \/ Refuse(c) \/ Fault(c)
      BY <1>5
    <2>2. PICK image \in {m.segments : m \in Modules} : image = module[c].segments
      BY DEF IInv, TypeOK
    <2>3. Memory!Initialise(image)
      BY <2>1, <2>2, LinkPromise, RefusePromise, FaultPromise
    <2> QED
      BY <2>2, <2>3 DEF Memory!Next
  <1>6. CASE \E c \in Contexts : Unlink(c)
    BY <1>6 DEF Unlink, memory, shown
  <1>7. CASE UNCHANGED vars
    BY <1>7 DEF vars, shown
  <1> QED
    BY <1>2, <1>3, <1>4, <1>5, <1>6, <1>7 DEF Next

\* Without resets the memory implements WasmMemory: bytes are zero until they
\* are written, keep what was written, and are out of reach beyond the size.
THEOREM PromiseKept == Spec => Promise
PROOF
  <1>1. Spec => [][IInv /\ [Next]_vars]_vars
    BY Invariance, PTL DEF Spec
  <1> QED
    BY InitPromise, StepPromise, Invariance, PTL DEF Spec, Promise, Memory!Spec, shown
=============================================================================
