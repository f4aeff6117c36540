------------------------- MODULE InstantiationProofs -------------------------
(***************************************************************************)
(* Theorems of Instantiation, for any number of contexts, any modules and  *)
(* any size of the shared table.                                           *)
(***************************************************************************)
EXTENDS Instantiation, Integers, TLAPS, WellFoundedInduction, SequenceTheorems

\* A set of positions of a sequence that is not empty has a last element.
LEMMA LastExists ==
    ASSUME NEW n \in Nat, NEW W, W \subseteq 1 .. n, W # {}
    PROVE  \E i \in W : \A j \in W : j <= i
PROOF
  <1> DEFINE T == {n - i : i \in W}
             R == OpToRel(<, Nat)
  <1>1. T \subseteq Nat /\ T # {}
    <2>1. \A i \in W : n - i \in Nat /\ n - i \in T
      OBVIOUS
    <2> QED
      BY <2>1
  <1>2. PICK x \in T : \A y \in T : ~ (<<y, x>> \in R)
    <2> HIDE DEF T
    <2>1. IsWellFoundedOn(R, Nat)
      BY NatLessThanWellFounded
    <2> QED
      BY <1>1, <2>1, WFMin
  <1>3. \A y \in T : ~ (y < x)
    BY <1>1, <1>2 DEF OpToRel
  <1>4. PICK i \in W : x = n - i
    OBVIOUS
  <1>5. ASSUME NEW j \in W PROVE j <= i
    <2>1. n - j \in T /\ ~ (n - j < n - i)
      BY <1>3, <1>4
    <2>2. i \in Nat /\ j \in Nat
      OBVIOUS
    <2> QED
      BY <2>1, <2>2
  <1> QED
    BY <1>5

\* The fields of the entries.
LEMMA Fields ==
    ASSUME NEW c, NEW n
    PROVE  /\ Address(c, n).context = c /\ Address(c, n).n = n
           /\ Index(n).context = NoContext /\ Index(n).n = n
BY DEF Address, Index

\* The last segment that writes a slot stores there an index of the module.
LEMMA ElementIsFunction ==
    ASSUME NEW m \in Modules, NEW s \in Slots, Writers(m, s) # {}
    PROVE  Element(m, s) \in DOMAIN m.types
PROOF
  <1> DEFINE W == Writers(m, s)
             IsLast(i) == \A j \in W : j <= i
             last == CHOOSE i \in W : IsLast(i)
  <1>1. m.types \in Seq(Nat \ {0}) /\ m.segments \in Seq(Segments)
    BY ModulesAssumption DEF ModuleTypes
  <1>2. \E i \in W : IsLast(i)
    <2>1. Len(m.segments) \in Nat /\ W \subseteq 1 .. Len(m.segments)
      BY <1>1 DEF Writers
    <2> QED
      BY <2>1, LastExists
  <1>3. last \in W
    BY <1>2
  <1> DEFINE segment == m.segments[last]
  <1>4. /\ last \in DOMAIN m.segments
        /\ s \in segment.offset .. segment.offset + Len(segment.indices) - 1
    <2> HIDE DEF last
    <2> QED
      BY <1>3 DEF Writers
  <1> HIDE DEF last
  <1>5. segment \in Segments
    BY <1>1, <1>4, ElementOfSeq, LenProperties
  <1>6. s - segment.offset + 1 \in DOMAIN segment.indices
    <2>1. segment.offset \in Nat /\ Len(segment.indices) \in Nat
          /\ DOMAIN segment.indices = 1 .. Len(segment.indices)
      BY <1>5 DEF Segments
    <2>2. s \in Nat
      BY SizeAssumption DEF Slots
    <2> HIDE DEF segment
    <2> QED
      BY <1>4, <2>1, <2>2
  <1>7. segment.indices[s - segment.offset + 1] \in DOMAIN m.types
    BY <1>4, <1>6, ModulesAssumption
  <1> QED
    BY <1>7 DEF Element, last

-----------------------------------------------------------------------------
\* One context at a time is under construction: the program has one thread.
OneBuilding ==
    \A c, d \in Contexts : phase[c] \in Building /\ phase[d] \in Building => c = d

\* What a segment stored is a function of its module, and until that context
\* replaces it, it is there as an index.
StoredPending ==
    \A s \in Slots :
        stored[s] # Null =>
            LET c == stored[s].context
            IN  /\ c \in Contexts
                /\ stored[s].n \in DOMAIN module[c].types
                /\ phase[c] \notin {"absent", "elements"}
                /\ phase[c] \in {"data", "start", "remap"} => pointers[s] = Index(stored[s].n)

\* Nothing is in the table that no segment stored.
PointersStored == \A s \in Slots : pointers[s] # Null => stored[s] # Null

\* An address is one of a function of its context's module.
AddressesKnown ==
    \A s \in Slots :
        LET v == pointers[s]
        IN  v.context # NoContext => v.n \in DOMAIN module[v.context].types

IInv ==
    /\ TypeOK
    /\ OneBuilding
    /\ StoredPending
    /\ PointersStored
    /\ AddressesKnown
    /\ AddressesTyped
    /\ SlotsBound

\* The invariant holds of the initial states.
LEMMA InitIInv == Init => IInv
PROOF
  <1> SUFFICES ASSUME Init PROVE IInv
    OBVIOUS
  <1> USE DEF Init
  <1>1. TypeOK
    BY DEF TypeOK, Phases, Values, Null, Index
  <1>2. OneBuilding
    BY DEF OneBuilding, Building
  <1>3. StoredPending /\ PointersStored /\ SlotsBound
    BY DEF StoredPending, PointersStored, SlotsBound
  <1>4. AddressesKnown /\ AddressesTyped
    BY DEF AddressesKnown, AddressesTyped, Null, Index
  <1> QED
    BY <1>1, <1>2, <1>3, <1>4 DEF IInv

\* Link, Data, Start and Destroy only move one context to another phase.
PhaseMove(c, to) ==
    /\ Advance(c, to) /\ UNCHANGED <<module, pointers, types, stored>>
    /\ \/ phase[c] = "absent" /\ to \in {"elements", "failed"}
          /\ \A d \in Contexts : phase[d] \notin Building
       \/ phase[c] = "data" /\ to \in {"start", "failed"}
       \/ phase[c] = "start" /\ to \in {"remap", "failed"}
       \/ phase[c] = "ready" /\ to = "destroyed"

\* The phases.
LEMMA PhaseMoves ==
    ASSUME NEW c \in Contexts, Link(c) \/ Data(c) \/ Start(c) \/ Destroy(c)
    PROVE  \E to \in Phases : PhaseMove(c, to)
BY DEF Link, Data, Start, Destroy, PhaseMove, Phases

\* A step that only moves the phase.
LEMMA PhaseMoveIInv ==
    ASSUME IInv, NEW c \in Contexts, NEW to \in Phases, PhaseMove(c, to)
    PROVE  IInv'
PROOF
  <1> USE DEF PhaseMove
  <1>1. TypeOK'
    BY DEF IInv, TypeOK, Advance
  <1>2. \A d \in Contexts : phase'[d] = IF d = c THEN to ELSE phase[d]
    BY DEF IInv, TypeOK, Advance
  <1>3. OneBuilding'
    BY <1>2 DEF IInv, OneBuilding, Building
  <1>4. StoredPending'
    BY <1>2 DEF IInv, StoredPending
  <1>5. PointersStored' /\ AddressesKnown' /\ AddressesTyped'
    BY DEF IInv, PointersStored, AddressesKnown, AddressesTyped
  <1>6. SlotsBound'
    BY <1>2 DEF IInv, SlotsBound, StoredPending
  <1> QED
    BY <1>1, <1>3, <1>4, <1>5, <1>6 DEF IInv

-----------------------------------------------------------------------------
\* The segments of a module put in the slots they write functions of it.
LEMMA ElementsIInv ==
    ASSUME IInv, NEW c \in Contexts, Elements(c)
    PROVE  IInv'
PROOF
  <1> DEFINE m == module[c]
             Kept(s) == Writers(m, s) = {}
  <1>1. phase[c] = "elements" /\ UNCHANGED <<module, types>> /\ m \in Modules
    BY DEF Elements, IInv, TypeOK
  <1>2. CASE ~SegmentsFit(m)
    <2>1. Advance(c, "failed") /\ UNCHANGED <<pointers, stored>>
      BY <1>2 DEF Elements
    <2>2. \A d \in Contexts : phase'[d] = IF d = c THEN "failed" ELSE phase[d]
      BY <2>1 DEF IInv, TypeOK, Advance
    <2>3. TypeOK'
      BY <1>1, <2>1 DEF IInv, TypeOK, Advance, Phases
    <2>4. OneBuilding' /\ StoredPending' /\ SlotsBound'
      BY <1>1, <2>1, <2>2 DEF IInv, OneBuilding, StoredPending, SlotsBound, Building
    <2>5. PointersStored' /\ AddressesKnown' /\ AddressesTyped'
      BY <1>1, <2>1 DEF IInv, PointersStored, AddressesKnown, AddressesTyped
    <2> QED
      BY <2>3, <2>4, <2>5 DEF IInv
  <1>3. CASE SegmentsFit(m)
    <2>1. /\ Advance(c, "data")
          /\ pointers' = [s \in Slots |-> IF Kept(s) THEN pointers[s] ELSE Index(Element(m, s))]
          /\ stored' = [s \in Slots |-> IF Kept(s) THEN stored[s] ELSE Address(c, Element(m, s))]
      BY <1>3 DEF Elements
    <2>2. \A d \in Contexts : phase'[d] = IF d = c THEN "data" ELSE phase[d]
      BY <2>1 DEF IInv, TypeOK, Advance
    <2>3. \A s \in Slots : ~Kept(s) =>
             /\ Element(m, s) \in DOMAIN m.types
             /\ Element(m, s) \in Nat \ {0}
      <3>1. DOMAIN m.types \subseteq Nat \ {0}
        BY <1>1, ModulesAssumption DEF ModuleTypes
      <3> QED
        BY <1>1, <3>1, ElementIsFunction
    <2> HIDE DEF m
    <2>4. \A s \in Slots : Kept(s) => pointers'[s] = pointers[s] /\ stored'[s] = stored[s]
      BY <2>1
    <2>5. \A s \in Slots : ~Kept(s) =>
             /\ pointers'[s] = Index(Element(m, s))
             /\ stored'[s] = Address(c, Element(m, s))
      BY <2>1
    <2> HIDE DEF Kept
    <2>6. TypeOK'
      <3>1. phase' \in [Contexts -> Phases] /\ module' \in [Contexts -> Modules]
            /\ types' \in [Slots -> Nat]
        BY <1>1, <2>1 DEF IInv, TypeOK, Advance, Phases
      <3>2. \A s \in Slots : ~Kept(s) =>
               Index(Element(m, s)) \in Values /\ Address(c, Element(m, s)) \in Values
        BY <2>3 DEF Index, Address, Values
      <3>3. pointers' \in [Slots -> Values] /\ stored' \in [Slots -> Values]
        BY <2>1, <3>2 DEF IInv, TypeOK
      <3> QED
        BY <3>1, <3>3 DEF TypeOK
    <2>7. OneBuilding'
      BY <1>1, <2>2 DEF IInv, OneBuilding, Building
    <2>8. \A s \in Slots : ~Kept(s) =>
             /\ stored'[s].context = c /\ stored'[s].n = Element(m, s)
             /\ pointers'[s].context = NoContext
             /\ stored'[s] # Null
      <3>1. Null.n = 0
        BY DEF Null, Index
      <3> SUFFICES ASSUME NEW s \in Slots, ~Kept(s)
                   PROVE  /\ stored'[s].context = c /\ stored'[s].n = Element(m, s)
                          /\ pointers'[s].context = NoContext
                          /\ stored'[s] # Null
        OBVIOUS
      <3>2. stored'[s].context = c /\ stored'[s].n = Element(m, s)
        BY <2>5, Fields
      <3>3. pointers'[s].context = NoContext
        BY <2>5, Fields
      <3>4. stored'[s].n # Null.n
        BY <2>3, <3>1, <3>2
      <3> QED
        BY <3>2, <3>3, <3>4
    <2>9. StoredPending'
      <3> SUFFICES ASSUME NEW s \in Slots, stored'[s] # Null
                   PROVE  LET d == stored'[s].context
                          IN  /\ d \in Contexts
                              /\ stored'[s].n \in DOMAIN module'[d].types
                              /\ phase'[d] \notin {"absent", "elements"}
                              /\ phase'[d] \in {"data", "start", "remap"} =>
                                   pointers'[s] = Index(stored'[s].n)
        BY DEF StoredPending
      <3>1. CASE Kept(s)
        BY <1>1, <2>2, <2>4, <3>1 DEF IInv, StoredPending
      <3>2. CASE ~Kept(s)
        BY <1>1, <2>2, <2>3, <2>5, <2>8, <3>2 DEF m
      <3> QED
        BY <3>1, <3>2
    <2>10. PointersStored'
      BY <2>4, <2>8 DEF IInv, PointersStored
    <2>11. AddressesKnown' /\ AddressesTyped'
      BY <1>1, <2>4, <2>8 DEF IInv, AddressesKnown, AddressesTyped
    <2>12. SlotsBound'
      <3> SUFFICES ASSUME NEW s \in Slots, stored'[s] # Null,
                          phase'[stored'[s].context] \in {"ready", "destroyed"},
                          s < module'[stored'[s].context].initial
                   PROVE  /\ pointers'[s] = stored'[s]
                          /\ types'[s] = module'[stored'[s].context].types[stored'[s].n]
        BY DEF SlotsBound
      <3>1. Kept(s)
        BY <2>2, <2>8
      <3> QED
        BY <1>1, <2>2, <2>4, <3>1 DEF IInv, SlotsBound, StoredPending
    <2> QED
      BY <2>6, <2>7, <2>9, <2>10, <2>11, <2>12 DEF IInv
  <1> QED
    BY <1>2, <1>3

-----------------------------------------------------------------------------
\* The remapping loop gives the slots its module declares the address and the
\* type of the function whose index they hold.
LEMMA RemapIInv ==
    ASSUME IInv, NEW c \in Contexts, Remap(c)
    PROVE  IInv'
PROOF
  <1> DEFINE m == module[c]
  <1>1. /\ phase[c] = "remap" /\ UNCHANGED <<module, stored>> /\ m \in Modules
    BY DEF Remap, IInv, TypeOK
  <1>2. PICK end \in 0 .. TableSize :
          /\ pointers' = [s \in Slots |-> IF Remapped(m, s, end)
                                          THEN Address(c, pointers[s].n) ELSE pointers[s]]
          /\ types' = [s \in Slots |-> IF Remapped(m, s, end)
                                       THEN m.types[pointers[s].n] ELSE types[s]]
          /\ Advance(c, IF end = TableSize THEN "ready" ELSE "failed")
    BY DEF Remap
  <1> DEFINE to == IF end = TableSize THEN "ready" ELSE "failed"
             Moved(s) == Remapped(m, s, end)
  <1>3. \A d \in Contexts : phase'[d] = IF d = c THEN to ELSE phase[d]
    BY <1>2 DEF IInv, TypeOK, Advance
  <1>4. \A s \in Slots : Moved(s) =>
           /\ pointers[s].context = NoContext /\ pointers[s].n \in DOMAIN m.types
           /\ pointers'[s] = Address(c, pointers[s].n)
           /\ types'[s] = m.types[pointers[s].n]
    <2>1. DOMAIN m.types = 1 .. Len(m.types)
      BY <1>1, ModulesAssumption DEF ModuleTypes
    <2> QED
      BY <1>2, <2>1 DEF Remapped, IsIndex
  <1>5. \A s \in Slots : ~Moved(s) => pointers'[s] = pointers[s] /\ types'[s] = types[s]
    BY <1>2
  \* A slot whose index its own context has not replaced yet is in the loop's reach.
  <1>6. \A s \in Slots : stored[s] # Null /\ stored[s].context = c /\ to = "ready" /\ s < m.initial
           => Moved(s) /\ pointers[s].n = stored[s].n
    <2> SUFFICES ASSUME NEW s \in Slots, stored[s] # Null, stored[s].context = c, to = "ready",
                        s < m.initial
                 PROVE  Moved(s) /\ pointers[s].n = stored[s].n
      OBVIOUS
    <2>1. pointers[s] = Index(stored[s].n) /\ stored[s].n \in DOMAIN m.types
      BY <1>1 DEF IInv, StoredPending
    <2>2. pointers[s].context = NoContext /\ pointers[s].n = stored[s].n
      BY <2>1 DEF Index
    <2>3. DOMAIN m.types = 1 .. Len(m.types)
      BY <1>1, ModulesAssumption DEF ModuleTypes
    <2>4. s < end
      BY SizeAssumption DEF Slots
    <2> QED
      BY <2>1, <2>2, <2>3, <2>4 DEF Remapped, IsIndex
  <1>7. TypeOK'
    <2>1. phase' \in [Contexts -> Phases] /\ module' \in [Contexts -> Modules]
          /\ stored' \in [Slots -> Values]
      BY <1>1, <1>2 DEF IInv, TypeOK, Advance, Phases
    <2>2. \A s \in Slots : Moved(s) =>
             Address(c, pointers[s].n) \in Values /\ m.types[pointers[s].n] \in Nat
      <3>1. m.types \in Seq(Nat \ {0})
        BY <1>1, ModulesAssumption DEF ModuleTypes
      <3>2. \A s \in Slots : pointers[s].n \in Nat
        BY DEF IInv, TypeOK, Values
      <3>3. \A i \in DOMAIN m.types : m.types[i] \in Nat
        BY <3>1
      <3>4. \A n \in Nat : Address(c, n) \in Values
        BY DEF Address, Values
      <3> HIDE DEF Moved
      <3> QED
        BY <1>4, <3>2, <3>3, <3>4
    <2> HIDE DEF Moved
    <2>3. pointers' \in [Slots -> Values] /\ types' \in [Slots -> Nat]
      BY <1>2, <2>2 DEF IInv, TypeOK, Moved
    <2> QED
      BY <2>1, <2>3 DEF TypeOK
  <1> HIDE DEF to, Moved
  <1>8. to \in {"ready", "failed"}
    BY DEF to
  <1>9. OneBuilding'
    BY <1>3, <1>8 DEF IInv, OneBuilding, Building
  \* No other context is under construction.
  <1>10. \A d \in Contexts : d # c => phase[d] \notin Building
    BY <1>1 DEF IInv, OneBuilding, Building
  <1>11. StoredPending'
    BY <1>1, <1>3, <1>8, <1>10 DEF IInv, StoredPending, Building
  <1>12. PointersStored'
    <2>1. \A s \in Slots : Moved(s) => stored[s] # Null
      <3>1. \A s \in Slots : Moved(s) => pointers[s].n # 0
        <4>1. DOMAIN m.types \subseteq Nat \ {0}
          BY <1>1, ModulesAssumption DEF ModuleTypes
        <4> QED
          BY <1>4, <4>1
      <3>2. Null.n = 0
        BY DEF Null, Index
      <3> QED
        BY <3>1, <3>2 DEF IInv, PointersStored
    <2> QED
      BY <1>1, <1>5, <2>1 DEF IInv, PointersStored
  <1>13. AddressesKnown' /\ AddressesTyped'
    <2>1. \A s \in Slots : Moved(s) => pointers'[s].context = c /\ pointers'[s].n = pointers[s].n
      BY <1>4, Fields
    <2> QED
      BY <1>1, <1>4, <1>5, <2>1 DEF IInv, AddressesKnown, AddressesTyped
  <1>14. SlotsBound'
    <2> SUFFICES ASSUME NEW s \in Slots, stored[s] # Null,
                        phase'[stored[s].context] \in {"ready", "destroyed"},
                        s < module[stored[s].context].initial
                 PROVE  /\ pointers'[s] = stored[s]
                        /\ types'[s] = module[stored[s].context].types[stored[s].n]
      BY <1>1 DEF SlotsBound
    <2>1. stored[s].context \in Contexts /\ stored[s] \in Values
      BY DEF IInv, StoredPending, TypeOK
    <2>2. CASE stored[s].context = c
      <3>1. Moved(s) /\ pointers[s].n = stored[s].n
        BY <1>3, <1>6, <1>8, <2>2
      <3>2. stored[s] = Address(c, stored[s].n)
        BY <2>1, <2>2 DEF Address, Values
      <3> QED
        BY <1>4, <2>2, <3>1, <3>2
    <2>3. CASE stored[s].context # c
      <3>1. pointers[s] = stored[s]
            /\ types[s] = module[stored[s].context].types[stored[s].n]
        BY <1>3, <2>1, <2>3 DEF IInv, SlotsBound
      <3>2. ~Moved(s)
        BY <1>4, <2>1, <3>1, ContextsAssumption
      <3> QED
        BY <1>5, <3>1, <3>2
    <2> QED
      BY <2>2, <2>3
  <1> QED
    BY <1>7, <1>9, <1>11, <1>12, <1>13, <1>14 DEF IInv

-----------------------------------------------------------------------------
\* IInv is inductive: an invariant of every step.
THEOREM Invariance == Spec => []IInv
PROOF
  <1>1. IInv /\ [Next]_vars => IInv'
    <2> SUFFICES ASSUME IInv, [Next]_vars PROVE IInv'
      OBVIOUS
    <2>1. CASE Next
      <3>1. PICK c \in Contexts : Step(c)
        BY <2>1 DEF Next
      <3>2. CASE Elements(c)
        BY <3>2, ElementsIInv
      <3>3. CASE Remap(c)
        BY <3>3, RemapIInv
      <3>4. CASE Link(c) \/ Data(c) \/ Start(c) \/ Destroy(c)
        BY <3>4, PhaseMoves, PhaseMoveIInv
      <3> QED
        BY <3>1, <3>2, <3>3, <3>4 DEF Step
    <2>2. CASE UNCHANGED vars
      BY <2>2 DEF vars, IInv, TypeOK, OneBuilding, StoredPending, PointersStored,
                  AddressesKnown, AddressesTyped, SlotsBound
    <2> QED
      BY <2>1, <2>2
  <1> QED
    BY <1>1, InitIInv, PTL DEF Spec

\* Every variable keeps its type.
THEOREM Typed == Spec => []TypeOK
PROOF
  <1>1. IInv => TypeOK
    BY DEF IInv
  <1> QED
    BY <1>1, Invariance, PTL

\* A completed context finds in the slots its module declares what it stored.
THEOREM SlotsAreBound == Spec => []SlotsBound
PROOF
  <1>1. IInv => SlotsBound
    BY DEF IInv
  <1> QED
    BY <1>1, Invariance, PTL

\* An address in the table goes with the type of its function.
THEOREM AddressesAreTyped == Spec => []AddressesTyped
PROOF
  <1>1. IInv => AddressesTyped
    BY DEF IInv
  <1> QED
    BY <1>1, Invariance, PTL

\* A bare index is left only by a context under construction or failed, or
\* beyond the slots its module declares.
THEOREM IndicesAreTransient == Spec => []IndicesTransient
PROOF
  <1>1. IInv => IndicesTransient
    <2> SUFFICES ASSUME IInv, NEW s \in Slots, pointers[s].context = NoContext,
                        pointers[s] # Null,
                        phase[stored[s].context] \notin Building \cup {"failed"}
                 PROVE  s >= module[stored[s].context].initial
      BY DEF IndicesTransient
    <2> DEFINE c == stored[s].context
    <2>1. stored[s] # Null /\ c \in Contexts /\ phase[c] \notin {"absent", "elements"}
      BY DEF IInv, PointersStored, StoredPending
    <2>2. phase[c] \in {"ready", "destroyed"}
      BY <2>1 DEF IInv, TypeOK, Phases, Building
    <2>3. ~ (s < module[c].initial)
      <3>1. pointers[s] # stored[s]
        BY <2>1, ContextsAssumption
      <3> QED
        BY <2>1, <2>2, <3>1 DEF IInv, SlotsBound
    <2>4. s \in Nat /\ module[c].initial \in Nat
      BY <2>1, SizeAssumption, ModulesAssumption DEF IInv, TypeOK, Slots, ModuleTypes
    <2> QED
      BY <2>3, <2>4
  <1> QED
    BY <1>1, Invariance, PTL
=============================================================================
